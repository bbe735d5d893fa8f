--------------------------- MODULE BusyWaitBuffer ---------------------------
(***************************************************************************)
(* class5/producerconsumer.c: the same two threads without condition        *)
(* variables.  Each looks at the counter under the mutex, changes it if it  *)
(* may, and sleeps for a fixed time before it looks again.                  *)
(***************************************************************************)
EXTENDS Integers

CONSTANT MAX_BUFFER_SIZE
SizeAssumption == MAX_BUFFER_SIZE \in Nat \ {0}

VARIABLES
    numberOfUnits,
    mutex,          \* the thread that holds it, or "free"
    read,           \* the value each thread last read for an update
    pc              \* of each thread

vars == <<numberOfUnits, mutex, read, pc>>

Workers == {"producer", "consumer"}

Init ==
    /\ numberOfUnits = 0
    /\ mutex = "free"
    /\ read = [w \in Workers |-> 0]
    /\ pc = [w \in Workers |-> "lock"]

Goto(w, l) == pc' = [pc EXCEPT ![w] = l]

\* A faulty variant: no mutex.
AlwaysFree == TRUE

MutexFree == mutex = "free"

Lock(w) ==
    /\ pc[w] = "lock"
    /\ MutexFree
    /\ mutex' = w
    /\ Goto(w, "test")
    /\ UNCHANGED <<numberOfUnits, read>>

MayUpdate(w) ==
    IF w = "producer" THEN numberOfUnits < MAX_BUFFER_SIZE ELSE numberOfUnits > 0

\* The if: change the counter, or say "waiting" and go on.
Test(w) ==
    /\ pc[w] = "test"
    /\ Goto(w, IF MayUpdate(w) THEN "update" ELSE "unlock")
    /\ UNCHANGED <<numberOfUnits, mutex, read>>

\* numberOfUnits++ and numberOfUnits--: a read and a write, which only the
\* mutex keeps together.
Read(w) ==
    /\ pc[w] = "update"
    /\ read' = [read EXCEPT ![w] = numberOfUnits]
    /\ Goto(w, "write")
    /\ UNCHANGED <<numberOfUnits, mutex>>

Write(w) ==
    /\ pc[w] = "write"
    /\ numberOfUnits' = IF w = "producer" THEN read[w] + 1 ELSE read[w] - 1
    /\ Goto(w, "unlock")
    /\ UNCHANGED <<mutex, read>>

Unlock(w) ==
    /\ pc[w] = "unlock"
    /\ mutex' = "free"
    /\ Goto(w, "sleep")
    /\ UNCHANGED <<numberOfUnits, read>>

\* sleep() is over.
Wake(w) ==
    /\ pc[w] = "sleep"
    /\ Goto(w, "lock")
    /\ UNCHANGED <<numberOfUnits, mutex, read>>

Step(w) == Lock(w) \/ Test(w) \/ Read(w) \/ Write(w) \/ Unlock(w) \/ Wake(w)

Next == \E w \in Workers : Step(w)

Spec == Init /\ [][Next]_vars
=============================================================================
