--------------------------- MODULE TicketProtocol ---------------------------
(***************************************************************************)
(* What the ticket server (class9/multithreaFfifoserver.c) and its clients  *)
(* (class9/FifoClient.c) share: the two message types, the two names in the *)
(* file system, and the FIFOs behind them.                                  *)
(*                                                                          *)
(* A member of Servers or of Clients is one run of the program, started at  *)
(* most once; a restart is another member.  Client runs may get the same    *)
(* process id, one after the other.  A FIFO is identified by the run that   *)
(* made it, so that an old inode and the one that now has its name differ.  *)
(***************************************************************************)
EXTENDS Fifo, Integers, FiniteSets

CONSTANTS
    Servers,        \* the runs of the server
    Clients,        \* the runs of the client
    Pids,           \* process ids of clients
    PidOf,          \* the process id each client run gets
    MaxThreads,     \* bound: handler threads per server run
    UINT,           \* 2^w, w the width of `unsigned'
    Counts,         \* the values clients pass on the command line
    None            \* no server, no client, no value

ASSUME ProtocolAssumption ==
    /\ PidOf \in [Clients -> Pids]
    /\ MaxThreads \in Nat
    /\ UINT \in Nat /\ UINT >= 4
    \* numTickets is a positive int
    /\ Counts \subseteq 1 .. (UINT \div 2 - 1)
    /\ Servers \cap Clients = {}
    /\ None \notin Servers \cup Clients

Threads == 1 .. MaxThreads
Unsigned == 0 .. (UINT - 1)

\* Unsigned addition and subtraction: the sums of this program stay below
\* 2 * UINT.
Wrap(x) == IF x >= UINT THEN x - UINT ELSE x

\* An end is held by a process for its main thread (0) or for a handler.
ServerEnds == Servers \X (0 .. MaxThreads)
ClientEnds == Clients \X {0}
Ends == ServerEnds \cup ClientEnds
EndsOf(p) == {e \in Ends : e[1] = p}

\* `from' is the run that wrote the request and `by' the handler that wrote
\* the response: neither is in the message, both serve the properties only.
Requests == [clientId : Pids, numTickets : Counts, from : Clients \cup {None}]
Responses == [firstTicket : Unsigned, lastTicket : Unsigned, by : Servers \X Threads]

ASSUME NoneAssumption ==
    /\ None \notin Requests \cup Responses
    /\ None \notin [firstTicket : Unsigned, lastTicket : Unsigned]

VARIABLES
    requestPath,    \* whose FIFO the name "RequestFifo" leads to
    requestFifo,    \* the request FIFO each server run made
    responsePath,   \* whose FIFO the name "ResponseFifo.<pid>" leads to
    responseFifo    \* the response FIFO each client run made

fifoVars == <<requestPath, requestFifo, responsePath, responseFifo>>

FifoTypeOK ==
    /\ requestPath \in Servers \cup {None}
    /\ requestFifo \in [Servers -> Fifos(Ends, Requests)]
    /\ responsePath \in [Pids -> Clients \cup {None}]
    /\ responseFifo \in [Clients -> Fifos(Ends, Responses)]

FifoInit ==
    /\ requestPath = None
    /\ requestFifo = [s \in Servers |-> NewFifo]
    /\ responsePath = [p \in Pids |-> None]
    /\ responseFifo = [c \in Clients |-> NewFifo]

\* The end of process p closes all it holds.
CloseAll(p) ==
    /\ requestFifo' = [s \in Servers |-> CloseEnds(requestFifo[s], EndsOf(p))]
    /\ responseFifo' = [c \in Clients |-> CloseEnds(responseFifo[c], EndsOf(p))]
=============================================================================
