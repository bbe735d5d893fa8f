--------------------------- MODULE CondVarBuffer ---------------------------
(***************************************************************************)
(* class5/producerconsumer2.c: one producer thread and one consumer thread  *)
(* share a counter under a mutex.  Each waits on a condition variable of    *)
(* its own while it has nothing to do, and the other signals it only when   *)
(* the counter leaves its end of the range.                                 *)
(*                                                                          *)
(* pthread_cond_wait is two steps: it releases the mutex and falls asleep   *)
(* at once; woken, the thread asks for the mutex again.  POSIX lets it wake *)
(* up without a signal.  The update of the counter is two steps too, a read *)
(* and a write, which only the mutex keeps together.                        *)
(***************************************************************************)
EXTENDS Integers

CONSTANT MAX_BUFFER_SIZE
ASSUME BufferAssumption == MAX_BUFFER_SIZE \in Nat \ {0}

VARIABLES
    numberOfUnits,
    mutex,          \* the thread that holds it, or "free"
    read,           \* the value each thread last read for an update
    pc              \* of each thread; "asleep" on its condition variable

vars == <<numberOfUnits, mutex, read, pc>>

Workers == {"producer", "consumer"}

\* Where a thread is: at pthread_mutex_lock, at the test of the while loop,
\* asleep in or waking from pthread_cond_wait, at the update (its read, its
\* write), at the signal, at pthread_mutex_unlock, and at the last printf (the
\* consumer's only).
Labels == {"lock", "test", "asleep", "awake", "update", "write", "signal",
           "unlock", "print"}

TypeOK ==
    /\ numberOfUnits \in 0 .. MAX_BUFFER_SIZE
    /\ mutex \in Workers \cup {"free"}
    /\ read \in [Workers -> 0 .. MAX_BUFFER_SIZE]
    /\ pc \in [Workers -> Labels]

Init ==
    /\ numberOfUnits = 0
    /\ mutex = "free"
    /\ read = [w \in Workers |-> 0]
    /\ pc = [w \in Workers |-> "lock"]

Goto(w, l) == pc' = [pc EXCEPT ![w] = l]
Other(w) == IF w = "producer" THEN "consumer" ELSE "producer"

\* A faulty variant: the loop is an if, so that a woken thread does not look
\* again.
NoSecondLook(w) == "update"

\* What a woken thread does when it has the mutex again: back to the test.
AfterWait(w) == "test"

MutexFree == mutex = "free"

\* pthread_mutex_lock at the top of the loop, or at the end of a wait.
Acquire(w) ==
    /\ pc[w] \in {"lock", "awake"}
    /\ MutexFree
    /\ mutex' = w
    /\ Goto(w, IF pc[w] = "lock" THEN "test" ELSE AfterWait(w))
    /\ UNCHANGED <<numberOfUnits, read>>

MustWait(w) ==
    IF w = "producer" THEN ~(numberOfUnits < MAX_BUFFER_SIZE)
                      ELSE ~(numberOfUnits > 0)

Proceed(w) ==
    /\ pc[w] = "test" /\ ~MustWait(w)
    /\ Goto(w, "update")
    /\ UNCHANGED <<numberOfUnits, mutex, read>>

\* pthread_cond_wait
Sleep(w) ==
    /\ pc[w] = "test" /\ MustWait(w)
    /\ mutex' = "free"
    /\ Goto(w, "asleep")
    /\ UNCHANGED <<numberOfUnits, read>>

\* A wait that ends without a signal.
WakeUp(w) ==
    /\ pc[w] = "asleep"
    /\ Goto(w, "awake")
    /\ UNCHANGED <<numberOfUnits, mutex, read>>

\* numberOfUnits++ and numberOfUnits--
Read(w) ==
    /\ pc[w] = "update"
    /\ read' = [read EXCEPT ![w] = numberOfUnits]
    /\ Goto(w, "write")
    /\ UNCHANGED <<numberOfUnits, mutex>>

Write(w) ==
    /\ pc[w] = "write"
    /\ numberOfUnits' = IF w = "producer" THEN read[w] + 1 ELSE read[w] - 1
    /\ Goto(w, "signal")
    /\ UNCHANGED <<mutex, read>>

\* Two faulty variants: the consumer signals one unit late; it signals when
\* the counter is at the end, where it never is after an update.
LeftEndLate(w) ==
    IF w = "producer" THEN numberOfUnits = 1
                      ELSE numberOfUnits = MAX_BUFFER_SIZE - 2

LeftEndNever(w) ==
    IF w = "producer" THEN numberOfUnits = 1
                      ELSE numberOfUnits = MAX_BUFFER_SIZE

\* The counter has just left the end at which the other thread waits.
LeftEnd(w) ==
    IF w = "producer" THEN numberOfUnits = 1
                      ELSE numberOfUnits = MAX_BUFFER_SIZE - 1

\* pthread_cond_signal wakes the other thread, the only one that can sleep on
\* that condition variable.
Signal(w) ==
    /\ pc[w] = "signal"
    /\ pc' = [pc EXCEPT
                ![w] = "unlock",
                ![Other(w)] = IF LeftEnd(w) /\ @ = "asleep" THEN "awake" ELSE @]
    /\ UNCHANGED <<numberOfUnits, mutex, read>>

Unlock(w) ==
    /\ pc[w] = "unlock"
    /\ mutex' = "free"
    /\ Goto(w, IF w = "producer" THEN "lock" ELSE "print")
    /\ UNCHANGED <<numberOfUnits, read>>

\* The consumer prints the counter after it has released the mutex.
PrintUnits(w) ==
    /\ pc[w] = "print"
    /\ Goto(w, "lock")
    /\ UNCHANGED <<numberOfUnits, mutex, read>>

Step(w) ==
    \/ Acquire(w) \/ Proceed(w) \/ Sleep(w) \/ Read(w) \/ Write(w)
    \/ Signal(w) \/ Unlock(w) \/ PrintUnits(w)

Next == \E w \in Workers : Step(w) \/ WakeUp(w)

Spec == Init /\ [][Next]_vars

\* A thread that can go on goes on in the end; it need not ask for the mutex
\* more than once, since the other thread falls asleep sooner or later.  Wake-ups
\* without a signal do not go on for ever: each of them takes the mutex.
FairSpec ==
    /\ Spec
    /\ \A w \in Workers : WF_vars(Step(w))
    /\ <>[][\A w \in Workers : ~WakeUp(w)]_vars

-----------------------------------------------------------------------------
\* Requirements (2) and (3), and that the two threads never starve: the
\* program is a bounded buffer.
Buffer == INSTANCE BoundedBuffer WITH units <- numberOfUnits
ImplementsBuffer == Buffer!Spec
ImplementsFairBuffer == Buffer!FairSpec

\* Although a signal is sent only when the counter leaves the end of its
\* range, no thread sleeps while it could work, unless the other one is about
\* to signal it.
NoLostWakeup ==
    /\ pc["producer"] = "asleep" /\ numberOfUnits < MAX_BUFFER_SIZE =>
            pc["consumer"] = "signal" /\ numberOfUnits = MAX_BUFFER_SIZE - 1
    /\ pc["consumer"] = "asleep" /\ numberOfUnits > 0 =>
            pc["producer"] = "signal" /\ numberOfUnits = 1

\* Line 6, requirement (1): "numberOfUnits must be protected by mutual
\* exclusion".  No thread reads or writes it while the other one writes it.
Accesses(w) == pc[w] \in {"test", "update", "write", "signal", "print"}
UnitsProtected == \A w \in Workers : pc[w] = "write" => ~Accesses(Other(w))
=============================================================================
