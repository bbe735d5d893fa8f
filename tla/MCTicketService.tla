-------------------------- MODULE MCTicketService --------------------------
(* Instances of TicketService for TLC. *)
EXTENDS TicketService, TLC

CONSTANTS s1, c1, c2, c3, p1, p2

\* The id p1 is used twice, by one run after the other ...
ReusedPid == [c \in Clients |-> IF c = c3 THEN p2 ELSE p1]
\* ... or the kernel gives p1 to every run, each time it is free again.
SamePid == [c \in Clients |-> p1]
=============================================================================
