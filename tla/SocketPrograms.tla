--------------------------- MODULE SocketPrograms ---------------------------
(***************************************************************************)
(* The client and server programs over Unix sockets: one of the three       *)
(* kinds is run.  The variables are those of the two services; the ones a   *)
(* service does not have are Absent.                                        *)
(***************************************************************************)
EXTENDS Integers

CONSTANTS
    Servers, Clients, Pids, BUF_SIZE, BACKLOG, QueueLimit, Arguments, MayDie, None

VARIABLES
    kind, path, server, client, killed,     \* of both services
    buf, lengths, next, got,
    backlog, serving, up, down, link,       \* of StreamService
    pid, name, inbox, replies, asked        \* of DatagramService

Stream == INSTANCE StreamService
Datagram == INSTANCE DatagramService

ASSUME SocketAssumption == Stream!StreamAssumption /\ Datagram!DatagramAssumption

streamOnly == <<backlog, serving, up, down, link>>
datagramOnly == <<pid, name, inbox, replies, asked>>
vars == <<kind, path, server, client, killed, buf, lengths, next, got,
          streamOnly, datagramOnly>>

Absent == "absent"
NoStream ==
    backlog = Absent /\ serving = Absent /\ up = Absent /\ down = Absent /\ link = Absent
NoDatagram ==
    pid = Absent /\ name = Absent /\ inbox = Absent /\ replies = Absent /\ asked = Absent

Init == (Stream!Init /\ NoDatagram) \/ (Datagram!Init /\ NoStream)

\* A step of a service leaves alone what it does not have.
StreamOnly == kind # "datagram" /\ UNCHANGED datagramOnly
DatagramOnly == kind = "datagram" /\ UNCHANGED streamOnly

Next == (StreamOnly /\ Stream!Next) \/ (DatagramOnly /\ Datagram!Next)

Spec == Init /\ [][Next]_vars

\* Each process goes on while it can.  Nobody has to start a server, or a client
\* of the datagram service.
FairSpec ==
    /\ Spec
    /\ \A s \in Servers : WF_vars(StreamOnly /\ Stream!ServerStep(s))
    /\ \A c \in Clients : WF_vars(StreamOnly /\ Stream!ClientStep(c))
    /\ \A s \in Servers : WF_vars(DatagramOnly /\ Datagram!ServerStep(s))
    /\ \A c \in Clients : WF_vars(DatagramOnly /\ Datagram!ClientStep(c))

-----------------------------------------------------------------------------
\* Every client reads the answers to what it has sent, in order, as far as the
\* buffers allow it.
Delivered ==
    /\ kind # "datagram" => Stream!Delivered
    /\ kind = "datagram" => Datagram!Delivered

\* No client that ends in order ends a server, one whose strings are too long
\* for its buffer excepted, nor is in the way of a later client.
EndsExplained ==
    /\ kind # "datagram" => Stream!EndsExplained
    /\ kind = "datagram" => Datagram!EndsExplained

\* A client that has started ends, whatever servers and other clients do, if
\* none has sent an empty string over a stream and its message was not with a
\* datagram server that died: a stream that is closed ends its client.
WaitsInVain(c) ==
    \/ kind # "datagram" /\ Stream!WaitsInVain(c)
    \/ kind = "datagram" /\ Datagram!WaitsInVain(c)
EveryClientEnds ==
    \A c \in Clients : <>[](client[c] \in {"start", "ended"} \/ WaitsInVain(c))
=============================================================================
