---------------------------- MODULE MCMqPrograms ----------------------------
(* The programs with message queues, with numbers for clients and ids.      *)
EXTENDS MqPrograms

\* Clients and process ids are alike, so that it is enough to look at the runs in
\* which they are first used in their order.  A symmetry set would say the same,
\* but TLC does not check liveness under one.
FirstOf(S, used) == \A x \in S \ used : \A y \in used : y < x

InOrder ==
    kind = "service" =>
        /\ FirstOf(Clients, {c \in Clients : client'[c] # "idle"})
        /\ FirstOf(Pids, {pid'[c] : c \in Clients} \ {None})
=============================================================================
