-------------------------- MODULE TicketDispenser --------------------------
(***************************************************************************)
(* What the counter of the ticket server promises: each server hands out    *)
(* consecutive ranges of tickets, one per handler, in one indivisible step. *)
(***************************************************************************)
EXTENDS Integers

CONSTANTS Servers, MaxThreads, UINT, Counts, None

\* What is assumed of the constants.
DispenserAssumption ==
    /\ MaxThreads \in Nat
    /\ UINT \in Nat /\ UINT >= 4
    /\ Counts \subseteq 1 .. (UINT \div 2 - 1)

Handlers == 1 .. MaxThreads
Numbers == 0 .. (UINT - 1)
Ranges == [firstTicket : Numbers, lastTicket : Numbers]
NoneAssumption == None \notin Ranges

VARIABLES
    next,       \* the next ticket of each server
    total,      \* how many tickets it has given out
    granted     \* the range each handler was given, None before

vars == <<next, total, granted>>

Wrapped(x) == IF x >= UINT THEN x - UINT ELSE x

TypeOK ==
    /\ next \in [Servers -> Numbers]
    /\ total \in [Servers -> Nat]
    /\ granted \in [Servers -> [Handlers -> Ranges \cup {None}]]

Init ==
    /\ next = [s \in Servers |-> 1]
    /\ total = [s \in Servers |-> 0]
    /\ granted = [s \in Servers |-> [t \in Handlers |-> None]]

\* firstTicket is the next ticket, lastTicket the n-th from there, and the next
\* ticket is the one after it.
Grant(s, t, n) ==
    /\ granted[s][t] = None
    /\ granted' = [granted EXCEPT ![s][t] =
                     [firstTicket |-> next[s], lastTicket |-> Wrapped(next[s] + n - 1)]]
    /\ next' = [next EXCEPT ![s] = Wrapped(next[s] + n)]
    /\ total' = [total EXCEPT ![s] = @ + n]

Next == \E s \in Servers, t \in Handlers, n \in Counts : Grant(s, t, n)

Spec == Init /\ [][Next]_vars

-----------------------------------------------------------------------------
Served(s) == {t \in Handlers : granted[s][t] # None}

\* Until the counter has run through all its values, no ticket is in two
\* ranges of one server ...
NoTicketTwice ==
    \A s \in Servers : total[s] < UINT =>
        \A t, u \in Served(s) : t # u =>
            \/ granted[s][t].lastTicket < granted[s][u].firstTicket
            \/ granted[s][u].lastTicket < granted[s][t].firstTicket

\* ... and none is skipped.
NoTicketLost ==
    \A s \in Servers : total[s] < UINT =>
        \A k \in 1 .. total[s] : \E t \in Served(s) :
            granted[s][t].firstTicket <= k /\ k <= granted[s][t].lastTicket
=============================================================================
