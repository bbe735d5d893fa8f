---------------------------- MODULE SharedTable ----------------------------
(***************************************************************************)
(* The writers and readers of POSIX shared memory: assignment6 (shmwriter,  *)
(* shmreader), class10 (sharedMemoryCreation, sharedMemoryReading) and      *)
(* class10/Practice/mypractice (writer, reader).  A writer creates, sizes   *)
(* and maps the object, then fills it between sem_wait and sem_post; a      *)
(* reader maps what is there.  ftruncate comes before sem_wait.             *)
(* A page stands for the values that fill it, and a list is a whole number  *)
(* of pages: an access beyond the end of the object, or of the mapping, is  *)
(* a SIGBUS or a SIGSEGV.                                                   *)
(***************************************************************************)
EXTENDS Integers, Sequences, FiniteSets

CONSTANTS
    Writers, Readers,
    Length,         \* the pages of each writer's list
    Programs,       \* the pairs of programs, as records of
                    \*   counted      the reader reads the length from the memory
                    \*   readsInside  it reads before its sem_post
    MaxFailures,    \* bound: writers that fail, processes that are killed
    None

Processes == Writers \cup Readers
Objects == 1 .. MaxFailures + 1     \* bound: a failing writer makes one more

ASSUME TableAssumption ==
    /\ Length \in [Writers -> Nat \ {0}]
    /\ \A p \in Programs : {p.counted, p.readsInside} \subseteq BOOLEAN
    /\ MaxFailures \in Nat
    /\ Writers \cap Readers = {} /\ None \notin Writers
    /\ IsFiniteSet(Writers) /\ IsFiniteSet(Readers)

VARIABLES
    program,    \* the pair that is run
    sem,        \* the named semaphore, -1 before it exists
    name,       \* the object behind the name of the shared memory, 0 if none
    made,       \* how many objects there have been
    size,       \* the pages of each object
    count,      \* the first number in each object
    page,       \* the rest: the writer of each page, None for zeros
    pc,         \* where each process is
    object,     \* the object each process has open
    mapped,     \* the pages it has mapped
    todo,       \* how many pages it is about to write or read
    done,       \* what it has written or read
    failures,   \* how many processes failed or were killed
    deadInside, \* history: processes that died between sem_wait and sem_post
    faulted,    \* history: processes that died of a bad access
    published,  \* history: objects a writer has filled
    seen        \* history: for each reader, those filled at its sem_wait

shared == <<program, sem, name, made, size, count, page>>
private == <<object, mapped, todo, done>>
history == <<failures, deadInside, faulted, published, seen>>
vars == <<shared, pc, private, history>>

Inside(p) == pc[p] \in {"count", "access", "post"}
PageNumbers == UNION {1 .. Length[w] : w \in Writers}

Init ==
    /\ program \in Programs
    /\ sem = -1 /\ name = 0 /\ made = 0
    /\ size = [o \in Objects |-> 0]
    /\ count = [o \in Objects |-> 0]
    /\ page = [o \in Objects |-> [i \in PageNumbers |-> None]]
    /\ pc = [p \in Processes |-> "openSem"]
    /\ object = [p \in Processes |-> 0]
    /\ mapped = [p \in Processes |-> 0]
    /\ todo = [p \in Processes |-> 0]
    /\ done = [p \in Processes |-> << >>]
    /\ failures = 0 /\ deadInside = {} /\ faulted = {} /\ published = {}
    /\ seen = [r \in Readers |-> {}]

Move(p, from, to) == pc[p] = from /\ pc' = [pc EXCEPT ![p] = to]

-----------------------------------------------------------------------------
(* Opening *)

\* sem_open: a writer creates the semaphore with the value 1, a reader needs it.
OpenSem(p) ==
    /\ Move(p, "openSem", IF p \in Writers \/ sem # -1 THEN "openShm" ELSE "ended")
    /\ sem' = IF p \in Writers /\ sem = -1 THEN 1 ELSE sem
    /\ UNCHANGED <<program, name, made, size, count, page, private, history>>

\* shm_open: a writer creates the object, of size 0, a reader needs it.
OpenShm(p) ==
    /\ Move(p, "openShm", IF p \in Writers THEN "size" ELSE IF name # 0 THEN "map" ELSE "ended")
    /\ made' = IF p \in Writers /\ name = 0 THEN made + 1 ELSE made
    /\ name' = IF p \in Writers /\ name = 0 THEN made + 1 ELSE name
    /\ object' = [object EXCEPT ![p] = name']
    /\ UNCHANGED <<program, sem, size, count, page, mapped, todo, done, history>>

\* A faulty variant: the object is made one page too short.
TruncateShort(w, o) == size' = [size EXCEPT ![o] = Length[w] - 1]

\* ftruncate sets the size whatever it was: pages that are cut off are lost.
Truncate(w, o) == size' = [size EXCEPT ![o] = Length[w]]

SetSize(w) ==
    /\ Move(w, "size", "map")
    /\ Truncate(w, object[w])
    /\ page' = [page EXCEPT ![object[w]] =
                   [i \in PageNumbers |-> IF i <= Length[w] THEN @[i] ELSE None]]
    /\ todo' = [todo EXCEPT ![w] = Length[w]]
    /\ UNCHANGED <<program, sem, name, made, count, object, mapped, done, history>>

MapToWrite(w) ==
    /\ w \in Writers
    /\ Move(w, "map", "wait")
    /\ mapped' = [mapped EXCEPT ![w] = Length[w]]
    /\ UNCHANGED <<shared, object, todo, done, history>>

\* ftruncate fails, or mmap does when ftruncate has set the size: assignment6
\* unlinks the object, whoever made it.
MapFails(w) ==
    /\ failures < MaxFailures
    /\ pc[w] \in {"size", "map"}
    /\ pc' = [pc EXCEPT ![w] = "ended"]
    /\ name' = IF program.counted THEN 0 ELSE name
    /\ failures' = failures + 1
    /\ UNCHANGED <<program, sem, made, size, count, page, private, deadInside, faulted,
                   published, seen>>

\* fstat and mmap of a reader: a mapping of size 0 fails.
MapToRead(r) ==
    /\ pc[r] = "map"
    /\ LET n == size[object[r]]
       IN  /\ Move(r, "map", IF n > 0 THEN "wait" ELSE "ended")
           /\ mapped' = [mapped EXCEPT ![r] = n]
    /\ UNCHANGED <<shared, object, todo, done, history>>

-----------------------------------------------------------------------------
(* The section *)

\* A faulty variant: nobody waits.
NeverWait == TRUE

SemFree == sem > 0

\* sem_wait; the reader of mypractice posts at once.
Wait(p) ==
    /\ SemFree
    /\ Move(p, "wait", IF p \in Writers \/ program.readsInside THEN "count" ELSE "post")
    /\ sem' = sem - 1
    /\ seen' = IF p \in Readers THEN [seen EXCEPT ![p] = published] ELSE seen
    /\ UNCHANGED <<program, name, made, size, count, page, private, failures, deadInside,
                   faulted, published>>

\* The length of the list comes first.
WriteCount(w) ==
    /\ Move(w, "count", "access")
    /\ count' = [count EXCEPT ![object[w]] = Length[w]]
    /\ UNCHANGED <<program, sem, name, made, size, page, private, history>>

ReadCount(r) ==
    /\ Move(r, IF program.readsInside THEN "count" ELSE "late", "access")
    /\ todo' = [todo EXCEPT ![r] = IF program.counted THEN count[object[r]] ELSE mapped[r]]
    /\ UNCHANGED <<shared, object, mapped, done, history>>

\* The next page of process p, and whether it is there.
NextPage(p) == Len(done[p]) + 1
Accessible(p) == NextPage(p) <= mapped[p] /\ NextPage(p) <= size[object[p]]

\* Two faulty variants: a page too many; the writer leaves the last page out.
MorePagesButOne(p) == Len(done[p]) + (IF p \in Writers THEN 1 ELSE 0) < todo[p]

MorePages(p) == Len(done[p]) < todo[p]

Access(p) ==
    LET o == object[p]
        i == NextPage(p)
    IN  /\ pc[p] = "access" /\ MorePages(p) /\ Accessible(p)
        /\ page' = IF p \in Writers THEN [page EXCEPT ![o][i] = p] ELSE page
        /\ done' = [done EXCEPT ![p] = Append(@, page'[o][i])]
        /\ UNCHANGED <<program, sem, name, made, size, count, pc, object, mapped, todo, history>>

\* A process dies inside with the semaphore taken: nobody posts it any more.
IsInside(p) == Inside(p) /\ (p \in Writers \/ program.readsInside \/ pc[p] = "post")
Die(p) ==
    /\ pc' = [pc EXCEPT ![p] = "dead"]
    /\ deadInside' = IF IsInside(p) THEN deadInside \cup {p} ELSE deadInside
    /\ UNCHANGED <<shared, private, published, seen>>

\* SIGBUS or SIGSEGV
Fault(p) ==
    /\ pc[p] = "access" /\ MorePages(p) /\ ~Accessible(p)
    /\ Die(p)
    /\ faulted' = faulted \cup {p}
    /\ UNCHANGED failures

EndAccess(p) ==
    /\ ~MorePages(p)
    /\ Move(p, "access", IF p \in Writers \/ program.readsInside THEN "post" ELSE "ended")
    /\ published' = IF p \in Writers THEN published \cup {object[p]} ELSE published
    /\ UNCHANGED <<shared, private, failures, deadInside, faulted, seen>>

\* A faulty variant: the semaphore is not posted.
ForgetPost(p) ==
    /\ Move(p, "post", IF p \in Writers \/ program.readsInside THEN "ended" ELSE "late")
    /\ UNCHANGED <<shared, private, history>>

\* sem_post
Post(p) ==
    /\ Move(p, "post", IF p \in Writers \/ program.readsInside THEN "ended" ELSE "late")
    /\ sem' = sem + 1
    /\ UNCHANGED <<program, name, made, size, count, page, private, history>>

Kill(p) ==
    /\ failures < MaxFailures /\ pc[p] \notin {"ended", "dead"}
    /\ Die(p)
    /\ failures' = failures + 1
    /\ UNCHANGED faulted

-----------------------------------------------------------------------------
Common(p) == OpenSem(p) \/ OpenShm(p) \/ Wait(p) \/ Access(p) \/ Fault(p) \/
             EndAccess(p) \/ Post(p)
WriterStep(w) == Common(w) \/ SetSize(w) \/ MapToWrite(w) \/ WriteCount(w)
ReaderStep(r) == Common(r) \/ MapToRead(r) \/ ReadCount(r)

Next ==
    \/ \E w \in Writers : WriterStep(w) \/ MapFails(w)
    \/ \E r \in Readers : ReaderStep(r)
    \/ \E p \in Processes : Kill(p)

Spec == Init /\ [][Next]_vars

\* Each process runs on while it can.
FairSpec ==
    /\ Spec
    /\ \A w \in Writers : WF_vars(WriterStep(w))
    /\ \A r \in Readers : WF_vars(ReaderStep(r))

-----------------------------------------------------------------------------
\* The semaphore is free, or one process is inside, or one has died there: it
\* never lets two in, and after a death inside (also one by SIGBUS) it lets
\* nobody in any more (sem_wait and sem_post of all six programs).
OneInside ==
    sem # -1 =>
        sem + Cardinality({p \in Processes : IsInside(p)}) + Cardinality(deadInside) = 1

\* Writers of different lists have sized the object (ftruncate outside the
\* semaphore, shmwriter.c line 34), whether or not they got any further.
Sized(w, o) == w \in Writers /\ object[w] = o /\ todo[w] > 0
TwoLengths(o) ==
    \E v, w \in Writers : Sized(v, o) /\ Sized(w, o) /\ Length[v] # Length[w]

\* A process dies of a bad access only if two writers gave the object different
\* sizes: a reader that starts at any time, or a second writer of a list of the
\* same length, never makes it happen.
FaultNeedsTwoLengths == \A p \in faulted : TwoLengths(object[p])

Finished(r) == pc[r] = "ended" /\ mapped[r] > 0

\* A reader that reads inside its section reads one writer's list to its end,
\* unless two writers gave the object different sizes; or the zeros of a fresh
\* object, if no writer had filled it by its sem_wait.
WholeList ==
    \A r \in Readers : Finished(r) /\ program.readsInside /\ ~TwoLengths(object[r]) =>
        \/ object[r] \notin seen[r] /\ \A i \in DOMAIN done[r] : done[r][i] = None
        \/ \E w \in Writers :
             todo[r] = Length[w] /\ \A i \in DOMAIN done[r] : done[r][i] = w

\* A writer that failed, and has unlinked the object (shmwriter.c lines 37, 46).
Unlinker(w) == program.counted /\ pc[w] = "ended" /\ mapped[w] = 0

\* A reader that got the semaphore after a writer had filled an object finds no
\* gap, even if it reads after its sem_post as mypractice/reader.c does; but for
\* two writers that gave its object different sizes, and for one that failed and
\* unlinked the object, so that the reader and the writer have different ones.
NoGapOncePublished ==
    \A r \in Readers : Finished(r) /\ seen[r] # {} /\ ~TwoLengths(object[r]) =>
        \/ done[r] # << >> /\ \A i \in DOMAIN done[r] : done[r][i] # None
        \/ object[r] \notin seen[r] /\ \E w \in Writers : Unlinker(w)

\* Every process ends, unless one has died inside.
AllEnd == <>(deadInside # {} \/ \A p \in Processes : pc[p] \in {"ended", "dead"})
=============================================================================
