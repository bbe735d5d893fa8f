-------------------------- MODULE MCAverageService --------------------------
(* AverageService where every run has a process id of its own. *)
EXTENDS AverageService

OwnPid == [c \in Clients |-> c]
=============================================================================
