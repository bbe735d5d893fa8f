---------------------- MODULE MCIterativeTicketService ----------------------
(* Instances of IterativeTicketService for TLC. *)
EXTENDS IterativeTicketService

CONSTANTS s1, s2, s3, c1, c2, c3

\* Every run has a process id of its own.
OwnPid == [c \in Clients |-> c]
=============================================================================
