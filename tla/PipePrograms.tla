---------------------------- MODULE PipePrograms ----------------------------
(***************************************************************************)
(* The exercises in which a parent and its children, or programs a user     *)
(* starts side by side, share pipes, FIFOs, an output or a file: one of     *)
(* them is run.  The variables are those of the six modules; the ones a     *)
(* program does not have are Absent.                                        *)
(***************************************************************************)
EXTENDS Integers

CONSTANTS
    NumChildren, MayDie,                    \* of PipeBarrier, PipeCounters
    CAPACITY, LIMIT, Texts, MayEndEarly,    \* of PipeExchange
    MaxCount, MayVanish,                    \* of ProcessTree
    Runs, Numbers, Interruptible, None,     \* of FifoExercises
    CopyRuns, CHUNK_SIZE                    \* of FileExercises

VARIABLES
    kind,                                   \* of the program that is run
    program, parent, child, stdout, at,     \* of several modules
    index, said, count,
    writeEnd, completed,                    \* of PipeBarrier
    next, wrote, bytes, parentWrites,       \* of PipeCounters
    message, open, pipe, taken,             \* of PipeExchange
    group, path, fifo, fd, written,     \* of FifoExercises
    read, lost, stolen, interrupted,
    source, offset, buffer, destination     \* of FileExercises

Barrier == INSTANCE PipeBarrier
Counters == INSTANCE PipeCounters
Exchange == INSTANCE PipeExchange
Tree == INSTANCE ProcessTree
Fifos == INSTANCE FifoExercises
Files == INSTANCE FileExercises

ASSUME PipeAssumption ==
    /\ Barrier!BarrierAssumption /\ Counters!CountersAssumption
    /\ Exchange!ExchangeAssumption /\ Tree!TreeAssumption
    /\ Fifos!FifoAssumption /\ Files!FilesAssumption

barrierVars == <<writeEnd, completed>>
countersVars == <<next, wrote, bytes, parentWrites>>
exchangeVars == <<message, open, pipe, taken>>
fifoVars == <<group, path, fifo, fd, written, read, lost, stolen, interrupted>>
fileVars == <<source, offset, buffer, destination>>
vars == <<kind, program, parent, child, stdout, at, index, said, count,
          barrierVars, countersVars, exchangeVars, fifoVars, fileVars>>

Absent == "absent"
NoBarrier == writeEnd = Absent /\ completed = Absent
NoCounters ==
    next = Absent /\ wrote = Absent /\ bytes = Absent /\ parentWrites = Absent
NoExchange == message = Absent /\ open = Absent /\ pipe = Absent /\ taken = Absent
NoFifo ==
    /\ group = Absent /\ path = Absent /\ fifo = Absent
    /\ fd = Absent /\ written = Absent /\ read = Absent /\ lost = Absent
    /\ stolen = Absent /\ interrupted = Absent
NoFiles ==
    source = Absent /\ offset = Absent /\ buffer = Absent /\ destination = Absent
NoOutput == program = Absent /\ stdout = Absent

Init ==
    \/ /\ kind = "barrier" /\ Barrier!Init /\ count = Absent /\ at = Absent
       /\ NoCounters /\ NoExchange /\ NoFifo /\ NoFiles /\ NoOutput
    \/ /\ kind = "counters" /\ Counters!Init /\ at = Absent
       /\ NoBarrier /\ NoExchange /\ NoFifo /\ NoFiles /\ NoOutput
    \/ /\ kind = "exchange" /\ Exchange!Init /\ at = Absent
       /\ index = Absent /\ said = Absent /\ count = Absent
       /\ NoBarrier /\ NoCounters /\ NoFifo /\ NoFiles
    \/ /\ kind = "tree" /\ Tree!Init /\ at = Absent
       /\ NoBarrier /\ NoCounters /\ NoExchange /\ NoFifo /\ NoFiles
    \/ /\ kind \in {"fifo", "files"}
       /\ IF kind = "fifo" THEN Fifos!Init /\ NoFiles ELSE Files!Init /\ NoFifo
       /\ parent = Absent /\ child = Absent /\ stdout = Absent
       /\ index = Absent /\ said = Absent /\ count = Absent
       /\ NoBarrier /\ NoCounters /\ NoExchange

\* A step of a program leaves alone what it does not have.
Only(k, others) == kind = k /\ UNCHANGED kind /\ UNCHANGED others
BarrierOnly ==
    Only("barrier",
         <<program, stdout, at, count, countersVars, exchangeVars, fifoVars, fileVars>>)
CountersOnly ==
    Only("counters",
         <<program, stdout, at, barrierVars, exchangeVars, fifoVars, fileVars>>)
ExchangeOnly ==
    Only("exchange",
         <<at, index, said, count, barrierVars, countersVars, fifoVars, fileVars>>)
TreeOnly ==
    Only("tree", <<at, barrierVars, countersVars, exchangeVars, fifoVars, fileVars>>)
NoFamily(k, others) ==
    Only(k, <<parent, child, stdout, index, said, count,
              barrierVars, countersVars, exchangeVars, others>>)
FifoOnly == NoFamily("fifo", fileVars)
FilesOnly == NoFamily("files", fifoVars)

\* The programs of class7 with FIFOs may all have ended, or wait for a program
\* nobody starts.
FifosRest == Fifos!AllRest /\ UNCHANGED vars

FilesRest == Files!AllEnded /\ UNCHANGED vars

Next ==
    \/ BarrierOnly /\ Barrier!Next
    \/ CountersOnly /\ Counters!Next
    \/ ExchangeOnly /\ Exchange!Next
    \/ TreeOnly /\ Tree!Next
    \/ FifoOnly /\ Fifos!Next
    \/ FifoOnly /\ FifosRest
    \/ FilesOnly /\ Files!Next
    \/ FilesOnly /\ FilesRest

Spec == Init /\ [][Next]_vars

\* Each process goes on while it can.  Nobody has to start a program.
FairSpec ==
    /\ Spec
    /\ WF_vars(BarrierOnly /\ Barrier!ParentStep)
    /\ \A k \in 1 .. NumChildren : WF_vars(BarrierOnly /\ Barrier!ChildStep(k))
    /\ WF_vars(CountersOnly /\ Counters!ParentStep)
    /\ \A k \in {1, 2} : WF_vars(CountersOnly /\ Counters!ChildStep(k))
    /\ WF_vars(ExchangeOnly /\ Exchange!ParentStep)
    /\ WF_vars(ExchangeOnly /\ Exchange!ChildStep)
    /\ WF_vars(TreeOnly /\ Tree!ParentStep)
    /\ \A k \in 1 .. MaxCount : WF_vars(TreeOnly /\ Tree!ChildStep(k))
    /\ \A e \in Runs \X {0, 1} : WF_vars(FifoOnly /\ Fifos!Step(e))
    /\ \A r \in CopyRuns : WF_vars(FilesOnly /\ Files!Step(r))

-----------------------------------------------------------------------------
\* What the processes of an exercise print is true:
\*   - synchronizationPipe.c: its parent's messages, of children that have not
\*     ended early;
\*   - threeTasksSychnronizationPipes.c: the same, whoever is killed, and each
\*     message once;
\*   - the pipes of class6 and assignment4: the child prints what was sent;
\*   - the children of class3 and assignment2: their lines, in order, and once
\*     if they go to a terminal.
MessagesTrue ==
    /\ kind = "barrier" => Barrier!MessagesTrue
    /\ kind = "counters" => Counters!MessagesTrue
    /\ kind = "exchange" => Exchange!Exchanged
    /\ kind = "tree" => Tree!TranscriptTrue

\* The data of a program arrives where it is meant to:
\*   - FifoNumberSum.c reads its own numbers, all of them, and nothing that
\*     fifoCreateAndWrite.c writes gets lost, unless CTRL+C is pressed or a run
\*     unlinks the name of another one's FIFO before its maker has opened it;
\*   - execludeCreate.c and catFiles.c succeed with all of their sources in the
\*     destination, the former unless its first read() failed.
DataArrives ==
    /\ kind = "fifo" => Fifos!FifoDelivers
    /\ kind = "files" => Files!FilesTrue

\* All processes end, whoever is killed; two exceptions:
\*   - the parent that counts bytes needs all its children;
\*   - a program whose open() of a FIFO finds nobody at the other end waits, as
\*     does the parent of one.
AllEnd ==
    /\ <>(kind = "barrier" => Barrier!ParentEnded)
    /\ <>(kind = "counters" =>
            Counters!Completed \/ \E k \in {1, 2} : Counters!KilledEarly(k))
    /\ <>[](kind = "counters" => \A k \in {1, 2} : child[k] # "running")
    /\ <>[](kind = "exchange" => Exchange!AllEnded)
    /\ <>[](kind = "tree" => Tree!AllEnded)
    /\ <>[](kind = "files" => Files!AllEnded)
    /\ \A e \in Runs \X {0, 1} :
        <>[](kind = "fifo" => Fifos!Rests(e) \/ Fifos!WaitsInVain(e))
=============================================================================
