--------------------------- MODULE ThreadPrograms ---------------------------
(***************************************************************************)
(* The exercises of class5 and assignment3 in which two threads share data  *)
(* and end (or poll for ever): one of the programs is run.  The variables   *)
(* are those of the programs; the ones a program does not have are Absent.  *)
(***************************************************************************)
EXTENDS Integers

CONSTANTS BUFFER_SIZE, ITEMS, MAX_BUFFER_SIZE, N, INT, Programs, None

VARIABLES
    kind,           \* of the program that is run
    mutex, pc,      \* of every program
    read,           \* of both buffers
    buffer, count, i, consumed,     \* of SingleCondBuffer
    numberOfUnits,                  \* of BusyWaitBuffer
    program, loops, delta, created, joined, printed, glob, j, loc  \* of SharedCounter

Waiting == INSTANCE SingleCondBuffer
Polling == INSTANCE BusyWaitBuffer
Counting == INSTANCE SharedCounter

ASSUME ThreadAssumption ==
    /\ Waiting!SizesAssumption
    /\ Polling!SizeAssumption
    /\ Counting!ProgramsAssumption

bufferVars == <<buffer, count, i, consumed>>
counterVars == <<program, loops, delta, created, joined, printed, glob, j, loc>>
vars == <<kind, mutex, pc, read, bufferVars, numberOfUnits, counterVars>>

Absent == "absent"
NoBuffer == buffer = Absent /\ count = Absent /\ i = Absent /\ consumed = Absent
NoUnits == numberOfUnits = Absent
NoCounter ==
    /\ program = Absent /\ loops = Absent /\ delta = Absent /\ created = Absent
    /\ joined = Absent /\ printed = Absent /\ glob = Absent /\ j = Absent
    /\ loc = Absent

Init ==
    \/ kind = "waiting" /\ Waiting!Init /\ NoUnits /\ NoCounter
    \/ kind = "polling" /\ Polling!Init /\ NoBuffer /\ NoCounter
    \/ kind = "counting" /\ Counting!Init /\ NoBuffer /\ NoUnits /\ read = Absent

\* A step of a program leaves alone what it does not have.
WaitingOnly == kind = "waiting" /\ UNCHANGED <<kind, numberOfUnits, counterVars>>
PollingOnly == kind = "polling" /\ UNCHANGED <<kind, bufferVars, counterVars>>
CountingOnly == kind = "counting" /\ UNCHANGED <<kind, read, bufferVars, numberOfUnits>>

Next ==
    \/ WaitingOnly /\ Waiting!Next
    \/ PollingOnly /\ Polling!Next
    \/ CountingOnly /\ Counting!Next

Spec == Init /\ [][Next]_vars

\* A thread that can go on goes on in the end, and main with it.
\*   - Waits that end without a signal do not go on for ever: each of them
\*     takes the mutex for a moment.
\*   - The threads that poll sleep for seconds between two looks, so that the
\*     mutex is free most of the time: one that asks again and again gets it.
Workers == {"producer", "consumer"}
Fairness ==
    /\ \A w \in Workers : WF_vars(WaitingOnly /\ Waiting!Step(w))
    /\ <>[][\A w \in Workers : ~(WaitingOnly /\ Waiting!WakeUp(w))]_vars
    /\ \A w \in Workers : /\ WF_vars(PollingOnly /\ Polling!Step(w))
                          /\ SF_vars(PollingOnly /\ Polling!Lock(w))
    /\ WF_vars(CountingOnly /\ Counting!MainStep)
    /\ \A t \in 1 .. N : WF_vars(CountingOnly /\ Counting!ThreadStep(t))

FairSpec == Spec /\ Fairness

-----------------------------------------------------------------------------
\* conditionvaraibles.c: no item is lost or taken twice ...
EachItemOnce == kind = "waiting" => Waiting!EachItemOnce

\* ... and the threads never wait for each other, on the one condition
\* variable they have.
NeverBothAsleep == kind = "waiting" => Waiting!NeverBothAsleep

\* producerconsumer.c, requirements (1) to (3): looking and changing the counter
\* in one section is a bounded buffer, and polling starves neither thread.
Buffer == INSTANCE BoundedBuffer WITH
    units <- IF kind = "polling" THEN numberOfUnits ELSE 0
PollingIsABuffer == Buffer!Spec /\ (kind = "polling" => Buffer!Fairness)

\* The programs that count: the value main prints.
FinalValue == kind = "counting" => Counting!FinalValue

\* No thread is kept waiting for ever: both loops of conditionvaraibles.c end
\* with every item taken, and the programs that count print.
ProgramsEnd ==
    /\ <>(kind = "waiting" => Waiting!AllTaken)
    /\ <>(kind = "counting" => Counting!Finished)
=============================================================================
