-------------------------- MODULE DatagramService --------------------------
(***************************************************************************)
(* The services over datagram sockets: class11 (datagramServer,             *)
(* datagramClient), which sends its arguments one by one, and assignment7   *)
(* (streamDatagramRandSever, streamDatagramRandClient), the case of a       *)
(* single request.  What the server makes of a message is not modelled.     *)
(*                                                                          *)
(* A client binds a name made of its process id, by which it is answered.   *)
(* A name outlives its process unless it is removed.                        *)
(***************************************************************************)
EXTENDS Integers, Sequences, FiniteSets, SequencesExt

CONSTANTS
    Servers, Clients,   \* the runs of the two programs
    Pids,               \* process ids, which are used again
    BUF_SIZE,           \* of the buffers, in bytes
    QueueLimit,         \* of a socket: net.unix.max_dgram_qlen
    Arguments,          \* the messages a client may send, as lengths
    MayDie,             \* the runs that may be killed
    None

DatagramAssumption ==
    /\ BUF_SIZE \in Nat \ {0}
    /\ QueueLimit \in Nat
    /\ Arguments \subseteq Seq(Nat) \ {<< >>}
    /\ MayDie \subseteq Servers \cup Clients
    /\ Servers \cap Clients = {} /\ None \notin Servers \cup Clients

VARIABLES
    kind,       \* "datagram"
    path,       \* whose socket is bound to the path, None if there is no file
    server,     \* where each server is
    client,     \* where each client is
    killed,     \* history: the runs that were killed
    buf,        \* the message a server has received
    lengths,    \* of the messages of each client
    next,       \* the one it is at
    got,        \* the answers each client has received
    pid,        \* of each client
    name,       \* whose socket is bound to the name made of a process id
    inbox,      \* what waits at the socket of each server
    replies,    \* what waits at the socket of each client
    asked       \* history: the server that got the last message of a client

datagramVars == <<buf, lengths, next, got, pid, name, inbox, replies, asked>>
vars == <<kind, path, server, client, killed, datagramVars>>

Init ==
    /\ kind = "datagram"
    /\ path = None
    /\ server = [s \in Servers |-> "remove"]
    /\ client = [c \in Clients |-> "start"]
    /\ killed = {}
    /\ buf = [s \in Servers |-> None]
    /\ lengths \in [Clients -> Arguments]
    /\ next = [c \in Clients |-> 1]
    /\ got = [c \in Clients |-> << >>]
    /\ pid \in [Clients -> Pids]
    /\ name = [p \in Pids |-> None]
    /\ inbox = [s \in Servers |-> << >>]
    /\ replies = [c \in Clients |-> << >>]
    /\ asked = [c \in Clients |-> None]

Up(s) == server[s] \notin {"failed", "ended"}
Ended(c) == client[c] = "ended"
Living(c) == client[c] \notin {"start", "ended"}

\* The i-th message of c: the address it came from, and its length; of and nr
\* say whose it is.
Message(c, i) == [from |-> pid[c], length |-> lengths[c][i], of |-> c, nr |-> i]

\* recvfrom() drops what does not fit in the buffer.
Truncated(m) == [m EXCEPT !.length = IF @ < BUF_SIZE THEN @ ELSE BUF_SIZE]

\* A socket takes messages until there are more than its limit.
HasRoom(queue) == Len(queue) <= QueueLimit

-----------------------------------------------------------------------------
(* The server *)

Goto(s, from, to) == server[s] = from /\ server' = [server EXCEPT ![s] = to]

\* remove(SV_SOCK_PATH), from whoever has it
RemovePath(s) ==
    /\ Goto(s, "remove", "bind")
    /\ path' = None
    /\ UNCHANGED <<kind, client, killed, datagramVars>>

Bind(s) ==
    /\ Goto(s, "bind", "receive")
    /\ path = None
    /\ path' = s
    /\ UNCHANGED <<kind, client, killed, datagramVars>>

\* Another server has bound its socket since: "Error in bind".
BindFails(s) ==
    /\ Goto(s, "bind", "failed")
    /\ path # None
    /\ UNCHANGED <<kind, path, client, killed, datagramVars>>

ReceiveMessage(s) ==
    /\ Goto(s, "receive", "send")
    /\ inbox[s] # << >>
    /\ buf' = [buf EXCEPT ![s] = Truncated(Head(inbox[s]))]
    /\ inbox' = [inbox EXCEPT ![s] = Tail(@)]
    /\ UNCHANGED <<kind, path, client, killed, lengths, next, got, pid, name, replies,
                   asked>>

\* Whoever has the name of the sender now is answered.
Addressee(s) == name[buf[s].from]
Answerable(s) == Addressee(s) # None /\ Living(Addressee(s))

SendAnswer(s) ==
    /\ Goto(s, "send", "receive")
    /\ LET c == Addressee(s)
       IN  /\ Answerable(s) /\ HasRoom(replies[c])
           /\ replies' = [replies EXCEPT ![c] = Append(@, buf[s])]
    /\ UNCHANGED <<kind, path, client, killed, buf, lengths, next, got, pid, name, inbox,
                   asked>>

\* "Error in sendto": nobody has the name, or its process has ended.  The
\* server goes on.
SendAnswerFails(s) ==
    /\ Goto(s, "send", "receive")
    /\ ~Answerable(s)
    /\ UNCHANGED <<kind, path, client, killed, datagramVars>>

KillServer(s) ==
    /\ s \in MayDie /\ Up(s) /\ server[s] # "remove"
    /\ server' = [server EXCEPT ![s] = "ended"]
    /\ killed' = killed \cup {s}
    /\ UNCHANGED <<kind, path, client, datagramVars>>

-----------------------------------------------------------------------------
(* The client *)

Move(c, from, to) == client[c] = from /\ client' = [client EXCEPT ![c] = to]

\* A process starts when no other has its id.
Start(c) == \A d \in Clients : Living(d) => pid[d] # pid[c]

\* A faulty variant: the client removes what it finds under its name.
BindAnyway(c) ==
    /\ Move(c, "start", "send")
    /\ Start(c)
    /\ name' = [name EXCEPT ![pid[c]] = c]
    /\ UNCHANGED <<kind, path, server, killed, buf, lengths, next, got, pid, inbox,
                   replies, asked>>

ClientBind(c) ==
    /\ Move(c, "start", "send")
    /\ Start(c)
    /\ name[pid[c]] = None
    /\ name' = [name EXCEPT ![pid[c]] = c]
    /\ UNCHANGED <<kind, path, server, killed, buf, lengths, next, got, pid, inbox,
                   replies, asked>>

\* "Error in bind": a process with the same id has left its name.
ClientBindFails(c) ==
    /\ Move(c, "start", "ended")
    /\ Start(c)
    /\ name[pid[c]] # None
    /\ UNCHANGED <<kind, path, server, killed, datagramVars>>

Reachable == path # None /\ Up(path)

\* sendto() waits while the socket of the server is full.
Send(c) ==
    /\ Move(c, "send", "receive")
    /\ Reachable /\ HasRoom(inbox[path])
    /\ inbox' = [inbox EXCEPT ![path] = Append(@, Message(c, next[c]))]
    /\ asked' = [asked EXCEPT ![c] = path]
    /\ UNCHANGED <<kind, path, server, killed, buf, lengths, next, got, pid, name, replies>>

\* On to the next message, or to the end.
Advance(c, from) ==
    /\ Move(c, from, IF next[c] < Len(lengths[c]) THEN "send" ELSE "remove")
    /\ next' = [next EXCEPT ![c] = @ + 1]

\* "Error in sendto": no server has the path.
SendFails(c) ==
    /\ Advance(c, "send")
    /\ ~Reachable
    /\ UNCHANGED <<kind, path, server, killed, buf, lengths, got, pid, name, inbox,
                   replies, asked>>

Receive(c) ==
    /\ Advance(c, "receive")
    /\ replies[c] # << >>
    /\ got' = [got EXCEPT ![c] = Append(@, Truncated(Head(replies[c])))]
    /\ replies' = [replies EXCEPT ![c] = Tail(@)]
    /\ UNCHANGED <<kind, path, server, killed, buf, lengths, pid, name, inbox, asked>>

\* remove(claddr.sun_path)
RemoveName(c) ==
    /\ Move(c, "remove", "ended")
    /\ name' = [name EXCEPT ![pid[c]] = None]
    /\ UNCHANGED <<kind, path, server, killed, buf, lengths, next, got, pid, inbox,
                   replies, asked>>

KillClient(c) ==
    /\ c \in MayDie /\ Living(c)
    /\ client' = [client EXCEPT ![c] = "ended"]
    /\ killed' = killed \cup {c}
    /\ UNCHANGED <<kind, path, server, datagramVars>>

-----------------------------------------------------------------------------
ServerStep(s) ==
    \/ Bind(s) \/ BindFails(s)
    \/ ReceiveMessage(s) \/ SendAnswer(s) \/ SendAnswerFails(s)

ClientStep(c) == Send(c) \/ SendFails(c) \/ Receive(c) \/ RemoveName(c)

Next ==
    \/ \E s \in Servers : RemovePath(s) \/ ServerStep(s) \/ KillServer(s)
    \/ \E c \in Clients :
           ClientBind(c) \/ ClientBindFails(c) \/ ClientStep(c) \/ KillClient(c)

Spec == Init /\ [][Next]_vars

-----------------------------------------------------------------------------
\* The messages of c that a server has not answered, and the answers c has not
\* read.
Outstanding(c) ==
    (UNION {{s} \X {i \in DOMAIN inbox[s] : inbox[s][i].of = c} : s \in {t \in Servers : Up(t)}})
    \cup {s \in Servers : server[s] = "send" /\ buf[s].of = c} \X {0}
    \cup {c} \X DOMAIN replies[c]

\* A client receives answers to messages of its own only, each once and in
\* order, at their length or that of the buffer, although its process id may
\* have been that of a killed client that has not been answered yet.  While it
\* waits one message is on its way, unless the server that got it died; else none.
Delivered ==
    \A c \in Clients :
        /\ \A i \in 1 .. Len(got[c]) :
               /\ got[c][i] = Truncated(Message(c, got[c][i].nr))
               /\ i > 1 => got[c][i - 1].nr < got[c][i].nr
        /\ Living(c) =>
               /\ Cardinality(Outstanding(c)) <= (IF client[c] = "receive" THEN 1 ELSE 0)
               /\ client[c] = "receive" => Outstanding(c) # {} \/ asked[c] \in killed

\* A server ends only if it is killed, or another one took the path before it;
\* the name of an ended client is left only if it was killed.
EndsExplained ==
    /\ \A s \in Servers : server[s] = "ended" => s \in killed
    /\ \A p \in Pids : name[p] # None /\ Ended(name[p]) => name[p] \in killed

\* A client waits in vain if the server that got its message died.
WaitsInVain(c) == client[c] = "receive" /\ asked[c] \in killed
=============================================================================
