--------------------------- MODULE BoundedBuffer ---------------------------
(***************************************************************************)
(* What the producer-consumer programs promise: a count of units that a     *)
(* producer raises while there is room and a consumer lowers while there    *)
(* are units, and that neither of them starves.                             *)
(***************************************************************************)
EXTENDS Integers

CONSTANT MAX_BUFFER_SIZE    \* a positive number

VARIABLE units

TypeOK == units \in 0 .. MAX_BUFFER_SIZE

Init == units = 0

Produce == units < MAX_BUFFER_SIZE /\ units' = units + 1
Consume == units > 0 /\ units' = units - 1

Next == Produce \/ Consume

Spec == Init /\ [][Next]_units
Fairness == WF_units(Produce) /\ WF_units(Consume)
FairSpec == Spec /\ Fairness
=============================================================================
