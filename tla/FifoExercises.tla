---------------------------- MODULE FifoExercises ----------------------------
(***************************************************************************)
(* The exercises of class7 with a FIFO: three groups of programs, each with *)
(* a name of its own for the FIFO, of which one group is run.  The user     *)
(* starts a few of its programs, in any order and at any time.              *)
(* A process is <<run, 0>>; the child that FifoNumberSum forks <<run, 1>>.  *)
(* open() is split: an action registers the end, and the action after it    *)
(* waits until the open has returned.                                       *)
(***************************************************************************)
EXTENDS Fifo, Integers, FiniteSets, Functions

CONSTANTS
    Runs,           \* programs that are started, each once
    Numbers,        \* how many arguments FifoNumberSum has
    Interruptible,  \* the runs that may get CTRL+C
    None

FifoAssumption ==
    Numbers \in Nat \ {0} /\ Interruptible \subseteq Runs /\ None \notin Runs

\* What a program does: it makes the FIFO, opens it in a mode, writes so many
\* records, or reads one or all, and its exit handler unlinks the name.
\* The five values of a write, and of a read, are one record.
createFifo ==
    [makes |-> TRUE, mode |-> "none", writes |-> 0, readsAll |-> FALSE,
     unlinks |-> FALSE, forks |-> FALSE, catches |-> FALSE]
writeToFIFO == [createFifo EXCEPT !.makes = FALSE, !.mode = "rw", !.writes = 1]
readFromFIFO == [createFifo EXCEPT !.makes = FALSE, !.mode = "r"]
fifoCreateAndWrite == [createFifo EXCEPT !.mode = "w", !.writes = 1]
fifoReader == [readFromFIFO EXCEPT !.unlinks = TRUE, !.catches = TRUE]
FifoNumberSum ==
    [createFifo EXCEPT !.mode = "w", !.writes = Numbers, !.unlinks = TRUE,
                       !.forks = TRUE]
numberSumChild == [readFromFIFO EXCEPT !.readsAll = TRUE]

Groups == {{createFifo, writeToFIFO, readFromFIFO},
           {fifoCreateAndWrite, fifoReader}, {FifoNumberSum}}

VARIABLES
    group,      \* the programs that are run
    program,    \* of each process
    at,         \* where it is
    path,       \* the run that made the FIFO the name leads to
    fifo,       \* the FIFO each run made
    fd,         \* whose FIFO a process has open
    written,    \* how many records it has written
    read,       \* what it has read, as pairs of a run and a number
    lost,       \* history: records nobody can read any more
    stolen,     \* history: the runs whose name another one unlinked too early
    interrupted \* history: the processes that got CTRL+C

choice == <<group, program>>
names == <<path, stolen>>
ends == <<fifo, fd, lost>>
records == <<written, read>>
vars == <<choice, at, names, ends, records, interrupted>>

Processes == Runs \X {0, 1}
Child(e) == <<e[1], 1>>

Init ==
    /\ group \in Groups
    /\ \E chosen \in [Runs -> group] :
        program = [e \in Processes |->
                     IF e[2] = 0 THEN chosen[e[1]] ELSE numberSumChild]
    /\ at = [e \in Processes |-> IF e[2] = 0 THEN "start" ELSE "unborn"]
    /\ path = None
    /\ fifo = [r \in Runs |-> NewFifo]
    /\ fd = [e \in Processes |-> None]
    /\ written = [e \in Processes |-> 0]
    /\ read = [e \in Processes |-> << >>]
    /\ lost = {} /\ stolen = {} /\ interrupted = {}

Goto(e, place) == at' = [at EXCEPT ![e] = place]
Ended(e) == at[e] \in {"done", "killed"}

\* close() by process e: the contents go with the last end.
Close(e) ==
    IF fd[e] = None
    THEN UNCHANGED ends
    ELSE /\ fifo' = [fifo EXCEPT ![fd[e]] = CloseEnds(@, {e})]
         /\ fd' = [fd EXCEPT ![e] = None]
         /\ lost' = lost \cup (Range(fifo[fd[e]].data) \ Range(fifo'[fd[e]].data))

-----------------------------------------------------------------------------
Start(e) ==
    /\ at[e] = "start"
    /\ Goto(e, IF program[e].makes THEN "mkfifo" ELSE "open")
    /\ UNCHANGED <<choice, names, ends, records, interrupted>>

Mkfifo(e) ==
    /\ at[e] = "mkfifo" /\ path = None
    /\ path' = e[1]
    /\ Goto(e, IF program[e].forks THEN "fork"
               ELSE IF program[e].mode = "none" THEN "exit" ELSE "open")
    /\ UNCHANGED <<choice, ends, records, stolen, interrupted>>

\* The name is taken, or nobody has made it.
MkfifoFails(e) ==
    /\ at[e] = "mkfifo" /\ path # None
    /\ Goto(e, "exit")
    /\ UNCHANGED <<choice, names, ends, records, interrupted>>

OpenFails(e) ==
    /\ at[e] = "open" /\ path = None
    /\ Goto(e, "exit")
    /\ UNCHANGED <<choice, names, ends, records, interrupted>>

Fork(e) ==
    /\ at[e] = "fork"
    /\ at' = [at EXCEPT ![e] = "open", ![Child(e)] = "open"]
    /\ UNCHANGED <<choice, names, ends, records, interrupted>>

ForkFails(e) ==
    /\ at[e] = "fork"
    /\ Goto(e, "exit")
    /\ UNCHANGED <<choice, names, ends, records, interrupted>>

\* A descriptor for both is its own partner: its open() never waits.
OpenAs(f, e, mode) ==
    LET reading == IF mode \in {"r", "rw"} THEN OpenForReading(f, e) ELSE f
    IN  IF mode \in {"w", "rw"} THEN OpenForWriting(reading, e) ELSE reading

Open(e) ==
    /\ at[e] = "open" /\ path # None
    /\ fifo' = [fifo EXCEPT ![path] = OpenAs(@, e, program[e].mode)]
    /\ fd' = [fd EXCEPT ![e] = path]
    /\ Goto(e, IF program[e].writes > 0 THEN "write" ELSE "read")
    /\ UNCHANGED <<choice, names, records, lost, interrupted>>

HasOpened(e) == fd[e] # None /\ Opened(fifo[fd[e]], e)

Write(e) ==
    /\ at[e] = "write" /\ HasOpened(e)
    /\ ~Broken(fifo[fd[e]])
    /\ written' = [written EXCEPT ![e] = @ + 1]
    /\ fifo' = [fifo EXCEPT ![fd[e]] = Put(@, <<e[1], written'[e]>>)]
    /\ Goto(e, IF written'[e] < program[e].writes THEN "write" ELSE "close")
    /\ UNCHANGED <<choice, names, fd, read, lost, interrupted>>

\* A faulty variant: the parent waits with its descriptor open.
ForgetClose(e) ==
    /\ at[e] = "close"
    /\ Goto(e, IF program[e].forks THEN "wait" ELSE "exit")
    /\ UNCHANGED <<choice, names, ends, records, interrupted>>

CloseWriter(e) ==
    /\ at[e] = "close"
    /\ Close(e)
    /\ Goto(e, IF program[e].forks THEN "wait" ELSE "exit")
    /\ UNCHANGED <<choice, names, records, interrupted>>

Wait(e) ==
    /\ at[e] = "wait" /\ Ended(Child(e))
    /\ Goto(e, "exit")
    /\ UNCHANGED <<choice, names, ends, records, interrupted>>

\* A faulty variant: an if in the place of the loop.
ReadsOnce(e) == FALSE

\* The loop around read().
ReadsOn(e) == program[e].readsAll

Read(e) ==
    /\ at[e] = "read" /\ HasOpened(e)
    /\ HasData(fifo[fd[e]])
    /\ read' = [read EXCEPT ![e] = Append(@, Head(fifo[fd[e]].data))]
    /\ fifo' = [fifo EXCEPT ![fd[e]] = Drop(@)]
    /\ Goto(e, IF ReadsOn(e) THEN "read" ELSE "exit")
    /\ UNCHANGED <<choice, names, fd, written, lost, interrupted>>

ReadEOF(e) ==
    /\ at[e] = "read" /\ HasOpened(e)
    /\ AtEOF(fifo[fd[e]])
    /\ Goto(e, "exit")
    /\ UNCHANGED <<choice, names, ends, records, interrupted>>

\* A run that has made the name and has yet to open it, in one of its processes.
NeedsName(r) == \E e \in {r} \X {0, 1} : at[e] \in {"fork", "open"}

\* exit(): the exit handler unlinks the name, whoever made it.
Exit(e) ==
    /\ at[e] = "exit"
    /\ Close(e)
    /\ path' = IF program[e].unlinks THEN None ELSE path
    /\ stolen' = stolen \cup {r \in Runs \ {e[1]} : program[e].unlinks /\ path = r /\ NeedsName(r)}
    /\ Goto(e, "done")
    /\ UNCHANGED <<choice, records, interrupted>>

\* SIGPIPE, which nobody handles, and CTRL+C, which fifoReader alone does: its
\* signal handler calls exit().
Killed(e) ==
    /\ Close(e)
    /\ Goto(e, "killed")
    /\ UNCHANGED <<choice, names, records>>

BrokenPipe(e) ==
    /\ at[e] = "write" /\ HasOpened(e)
    /\ Broken(fifo[fd[e]])
    /\ Killed(e)
    /\ UNCHANGED interrupted

Interrupt(e) ==
    /\ e[1] \in Interruptible
    /\ at[e] \notin {"start", "unborn", "exit"} /\ ~Ended(e)
    /\ interrupted' = interrupted \cup {e}
    /\ IF program[e].catches
         THEN /\ Goto(e, "exit")
              /\ UNCHANGED <<choice, names, ends, records>>
         ELSE Killed(e)

Step(e) ==
    \/ Mkfifo(e) \/ MkfifoFails(e) \/ Fork(e) \/ ForkFails(e)
    \/ Open(e) \/ OpenFails(e) \/ Write(e) \/ CloseWriter(e) \/ Wait(e)
    \/ Read(e) \/ ReadEOF(e) \/ BrokenPipe(e) \/ Exit(e)

Next == \E e \in Processes : Start(e) \/ Step(e) \/ Interrupt(e)

-----------------------------------------------------------------------------
\* Nobody has pressed CTRL+C, and no run has unlinked the name of another that
\* was about to open it.
Undisturbed == interrupted = {} /\ stolen = {}

\* FifoNumberSum adds up its own numbers, all of them, however many runs of it
\* there are at a time; with the writer and the reader of class7/review, nothing
\* that was written gets lost, and nobody writes to a FIFO without a reader: a
\* second writer would, but it gets no FIFO.
FifoDelivers ==
    Undisturbed =>
        /\ group = {FifoNumberSum} =>
            \A r \in Runs : at[<<r, 1>>] = "done" =>
                read[<<r, 1>>] = [i \in 1 .. Numbers |-> <<r, i>>]
        /\ fifoReader \in group =>
            lost = {} /\ \A e \in Processes : at[e] # "killed"

\* A process whose open() finds nobody at the other end, or its parent: a FIFO
\* whose name was unlinked cannot be found by anyone.
InOpen(e) == fd[e] # None /\ ~Opened(fifo[fd[e]], e)
WaitsInVain(e) ==
    /\ InOpen(e) \/ (at[e] = "wait" /\ InOpen(Child(e)))
    /\ ~(group = {FifoNumberSum} /\ Undisturbed)
Rests(e) == at[e] \in {"start", "unborn"} \/ Ended(e)
AllRest == \A e \in Processes : Rests(e) \/ WaitsInVain(e)
=============================================================================
