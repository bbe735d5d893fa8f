--------------------------- MODULE StreamService ---------------------------
(***************************************************************************)
(* The services over stream sockets: class11 (socketStreamServer,           *)
(* socketStreamClient), which echoes strings until the client closes, and   *)
(* assignment7 (streamSocketRandSever, streamSocketRandClient), which       *)
(* answers one request.  Requests and strings are sequences of bytes; what  *)
(* the server makes of a byte (toupper, the average) is not modelled.       *)
(*                                                                          *)
(* A server serves one connection at a time; the others wait in its         *)
(* backlog.  It takes the path from whoever has it.                         *)
(***************************************************************************)
EXTENDS Integers, Sequences, SequencesExt

CONSTANTS
    Servers, Clients,   \* the runs of the two programs
    BUF_SIZE,           \* of both buffers, in bytes
    BACKLOG,
    Arguments,          \* the strings a client of class11 may send, as lengths
    MayDie,             \* the runs that may be killed
    None

StreamAssumption ==
    /\ BUF_SIZE \in Nat /\ BUF_SIZE > 1
    /\ BACKLOG \in Nat
    /\ Arguments \subseteq Seq(Nat) \ {<< >>}
    /\ MayDie \subseteq Servers \cup Clients
    /\ Servers \cap Clients = {} /\ None \notin Servers \cup Clients

VARIABLES
    kind,       \* the pair of programs: "echo" (class11) or "average" (assignment7)
    path,       \* whose socket is bound to the path, None if there is no file
    server,     \* where each server is
    client,     \* where each client is
    killed,     \* history: the runs that were killed
    backlog,    \* the clients that wait for accept(), of each server
    serving,    \* the client behind cfd, of each server
    buf,        \* what the server has read, of each server
    lengths,    \* of the strings of each client
    next,       \* the one it is at
    up, down,   \* the bytes on their way to and from the server, of each client
    link,       \* the server's end of the connection, of each client
    got         \* what each read() of a client has returned

\* assignment7 sends one request.
OneRequest == <<1>>

streamVars == <<backlog, serving, buf, lengths, next, up, down, link, got>>
vars == <<kind, path, server, client, killed, streamVars>>

Init ==
    /\ kind \in {"echo", "average"}
    /\ path = None
    /\ server = [s \in Servers |-> "remove"]
    /\ client = [c \in Clients |-> "connect"]
    /\ killed = {}
    /\ backlog = [s \in Servers |-> << >>]
    /\ serving = [s \in Servers |-> None]
    /\ buf = [s \in Servers |-> << >>]
    /\ lengths \in [Clients -> IF kind = "echo" THEN Arguments ELSE {OneRequest}]
    /\ next = [c \in Clients |-> 1]
    /\ up = [c \in Clients |-> << >>]
    /\ down = [c \in Clients |-> << >>]
    /\ link = [c \in Clients |-> "none"]
    /\ got = [c \in Clients |-> << >>]

Up(s) == server[s] \notin {"failed", "ended"}
Ended(c) == client[c] = "ended"

\* The bytes of the i-th string.
Bytes(c, i) == [k \in 1 .. lengths[c][i] |-> <<c, i, k>>]

\* read(): what is there, as far as the buffer goes.
Chunk(bytes, size) == SubSeq(bytes, 1, IF Len(bytes) < size THEN Len(bytes) ELSE size)
Rest(bytes, size) == SubSeq(bytes, size + 1, Len(bytes))

-----------------------------------------------------------------------------
(* The server *)

Goto(s, from, to) == server[s] = from /\ server' = [server EXCEPT ![s] = to]

\* Its connections are closed.  A client finds an error if it was not accepted
\* or if something it wrote was not read, the end of file otherwise.
CloseLinks(cs, s) ==
    link' = [c \in Clients |->
               IF c \notin cs THEN link[c]
               ELSE IF c = serving[s] /\ up[c] = << >> THEN "closed" ELSE "reset"]

ServerEnds(s) ==
    /\ server' = [server EXCEPT ![s] = "ended"]
    /\ CloseLinks(ToSet(backlog[s]) \cup ({serving[s]} \ {None}), s)
    /\ backlog' = [backlog EXCEPT ![s] = << >>]
    /\ UNCHANGED <<kind, path, client, serving, buf, lengths, next, up, down, got>>

\* remove(SV_SOCK_PATH)
RemovePath(s) ==
    /\ Goto(s, "remove", "bind")
    /\ path' = None
    /\ UNCHANGED <<kind, client, killed, streamVars>>

Bind(s) ==
    /\ Goto(s, "bind", "listen")
    /\ path = None
    /\ path' = s
    /\ UNCHANGED <<kind, client, killed, streamVars>>

\* Another server has bound its socket since: "Error in bind".
BindFails(s) ==
    /\ Goto(s, "bind", "failed")
    /\ path # None
    /\ UNCHANGED <<kind, path, client, killed, streamVars>>

Listen(s) ==
    /\ Goto(s, "listen", "accept")
    /\ UNCHANGED <<kind, path, client, killed, streamVars>>

Accept(s) ==
    /\ Goto(s, "accept", "read")
    /\ backlog[s] # << >>
    /\ serving' = [serving EXCEPT ![s] = Head(backlog[s])]
    /\ backlog' = [backlog EXCEPT ![s] = Tail(@)]
    /\ UNCHANGED <<kind, path, client, killed, buf, lengths, next, up, down, link, got>>

\* A faulty variant: read() is repeated until the buffer is full.
FillBuffer(s) ==
    /\ Goto(s, "read", "write")
    /\ LET c == serving[s]
       IN  /\ Len(up[c]) >= BUF_SIZE
           /\ buf' = [buf EXCEPT ![s] = Chunk(up[c], BUF_SIZE)]
           /\ up' = [up EXCEPT ![c] = Rest(@, BUF_SIZE)]
    /\ UNCHANGED <<kind, path, client, killed, backlog, serving, lengths, next, down,
                   link, got>>

ServerRead(s) ==
    /\ Goto(s, "read", "write")
    /\ LET c == serving[s]
       IN  /\ up[c] # << >>
           /\ buf' = [buf EXCEPT ![s] = Chunk(up[c], BUF_SIZE)]
           /\ up' = [up EXCEPT ![c] = Rest(@, BUF_SIZE)]
    /\ UNCHANGED <<kind, path, client, killed, backlog, serving, lengths, next, down,
                   link, got>>

\* The client has closed: read() returns 0, which ends the loop of class11.
\* assignment7 averages what is in the buffer.
AtEOF(s) == Ended(serving[s]) /\ up[serving[s]] = << >> /\ down[serving[s]] = << >>

\* A faulty variant: 0 is taken for an error.
EOFIsError(s) ==
    /\ server[s] = "read" /\ AtEOF(s)
    /\ ServerEnds(s)
    /\ UNCHANGED killed

ServerEOF(s) ==
    /\ Goto(s, "read", IF kind = "echo" THEN "close" ELSE "write")
    /\ AtEOF(s)
    /\ UNCHANGED <<kind, path, client, killed, streamVars>>

\* The client has closed before it had read everything: read() fails.
ReadFails(s) ==
    /\ kind = "echo"
    /\ server[s] = "read"
    /\ Ended(serving[s]) /\ up[serving[s]] = << >> /\ down[serving[s]] # << >>
    /\ ServerEnds(s)
    /\ UNCHANGED killed

ServerWrite(s) ==
    /\ Goto(s, "write", IF kind = "echo" THEN "read" ELSE "close")
    /\ ~Ended(serving[s])
    /\ down' = [down EXCEPT ![serving[s]] = @ \o buf[s]]
    /\ UNCHANGED <<kind, path, client, killed, backlog, serving, buf, lengths, next, up,
                   link, got>>

\* SIGPIPE: the client has closed.
ServerBrokenPipe(s) ==
    /\ server[s] = "write" /\ Ended(serving[s])
    /\ ServerEnds(s)
    /\ UNCHANGED killed

\* close(cfd)
CloseConnection(s) ==
    /\ Goto(s, "close", "accept")
    /\ CloseLinks({serving[s]}, s)
    /\ serving' = [serving EXCEPT ![s] = None]
    /\ UNCHANGED <<kind, path, client, killed, backlog, buf, lengths, next, up, down, got>>

KillServer(s) ==
    /\ s \in MayDie /\ Up(s) /\ server[s] # "remove"
    /\ ServerEnds(s)
    /\ killed' = killed \cup {s}

-----------------------------------------------------------------------------
(* The client *)

Move(c, from, to) == client[c] = from /\ client' = [client EXCEPT ![c] = to]
ClientRest == <<kind, path, server, backlog, serving, buf, lengths>>

\* There is a file, and its server listens.
Reachable == path # None /\ server[path] \in {"accept", "read", "write", "close"}

\* connect() waits while the backlog is full.
Connect(c) ==
    /\ Move(c, "connect", "write")
    /\ Reachable /\ Len(backlog[path]) <= BACKLOG
    /\ backlog' = [backlog EXCEPT ![path] = Append(@, c)]
    /\ link' = [link EXCEPT ![c] = "open"]
    /\ UNCHANGED <<kind, path, server, killed, serving, buf, lengths, next, up, down, got>>

\* "Error in connect"
Refused(c) ==
    /\ Move(c, "connect", "ended")
    /\ ~Reachable
    /\ UNCHANGED <<ClientRest, killed, next, up, down, link, got>>

\* A string of length 0 writes nothing.
ClientWrite(c) ==
    /\ Move(c, "write", "read")
    /\ link[c] = "open"
    /\ up' = [up EXCEPT ![c] = @ \o Bytes(c, next[c])]
    /\ UNCHANGED <<ClientRest, killed, next, down, link, got>>

\* SIGPIPE: the server has closed.
ClientBrokenPipe(c) ==
    /\ Move(c, "write", "ended")
    /\ link[c] # "open"
    /\ UNCHANGED <<ClientRest, killed, next, up, down, link, got>>

\* After a read() the client goes on to its next string, or closes.
AfterRead(c) ==
    /\ Move(c, "read", IF next[c] < Len(lengths[c]) THEN "write" ELSE "ended")
    /\ next' = [next EXCEPT ![c] = @ + 1]

ClientRead(c) ==
    /\ AfterRead(c)
    /\ down[c] # << >>
    /\ got' = [got EXCEPT ![c] = Append(@, Chunk(down[c], BUF_SIZE - 1))]
    /\ down' = [down EXCEPT ![c] = Rest(@, BUF_SIZE - 1)]
    /\ UNCHANGED <<ClientRest, killed, up, link>>

\* read() returns 0, and the client prints what it has, as an answer.
ClientEOF(c) ==
    /\ AfterRead(c)
    /\ down[c] = << >> /\ link[c] = "closed"
    /\ got' = [got EXCEPT ![c] = Append(@, << >>)]
    /\ UNCHANGED <<ClientRest, killed, up, down, link>>

\* "Error in read"
ClientReadFails(c) ==
    /\ Move(c, "read", "ended")
    /\ down[c] = << >> /\ link[c] = "reset"
    /\ UNCHANGED <<ClientRest, killed, next, up, down, link, got>>

KillClient(c) ==
    /\ c \in MayDie /\ client[c] \notin {"connect", "ended"}
    /\ client' = [client EXCEPT ![c] = "ended"]
    /\ killed' = killed \cup {c}
    /\ UNCHANGED <<ClientRest, next, up, down, link, got>>

-----------------------------------------------------------------------------
ServerStep(s) ==
    \/ Bind(s) \/ BindFails(s) \/ Listen(s)
    \/ Accept(s) \/ ServerRead(s) \/ ServerEOF(s) \/ ReadFails(s)
    \/ ServerWrite(s) \/ ServerBrokenPipe(s) \/ CloseConnection(s)

ClientStep(c) ==
    \/ Connect(c) \/ Refused(c)
    \/ ClientWrite(c) \/ ClientBrokenPipe(c)
    \/ ClientRead(c) \/ ClientEOF(c) \/ ClientReadFails(c)

Next ==
    \/ \E s \in Servers : RemovePath(s) \/ ServerStep(s) \/ KillServer(s)
    \/ \E c \in Clients : ClientStep(c) \/ KillClient(c)

Spec == Init /\ [][Next]_vars

-----------------------------------------------------------------------------
Connected(c) == link[c] = "open" /\ ~Ended(c)

\* What c has written.
Sent(c) ==
    LET n == IF client[c] = "read" THEN next[c] ELSE next[c] - 1
    IN  FlattenSeq([i \in 1 .. n |-> Bytes(c, i)])

AtServer(c) ==
    IF \E s \in Servers : serving[s] = c /\ server[s] = "write"
    THEN buf[CHOOSE s \in Servers : serving[s] = c] ELSE << >>

\* A string that fits in the client's buffer arrives in one piece.
Fits(c) == \A i \in 1 .. Len(lengths[c]) : lengths[c][i] \in 1 .. BUF_SIZE - 1

\* As long as both ends are open every byte a client has written is in one
\* place and in its order: read by the client, on its way back, in the server,
\* or on its way there.  A read() returns the answer to the string just written
\* only if all strings fit: what does not fit is taken for the next answer.  A
\* client prints an answer it did not get only if a server was ended.
Delivered ==
    \A c \in Clients :
        /\ Connected(c) => FlattenSeq(got[c]) \o down[c] \o AtServer(c) \o up[c] = Sent(c)
        /\ Fits(c) => \A i \in 1 .. Len(got[c]) : got[c][i] \in {<< >>, Bytes(c, i)}
        /\ << >> \in ToSet(got[c]) => \E s \in Servers : server[s] = "ended"

\* A server that was not killed ends for one of two reasons: the client it
\* serves was killed, or closed before all it had sent was answered and read.
LeftUnread(c) == Ended(c) /\ FlattenSeq(got[c]) # Sent(c)
EndsExplained ==
    \A s \in Servers : server[s] = "ended" /\ s \notin killed =>
        \/ serving[s] \in killed
        \/ LeftUnread(serving[s]) /\ ~Fits(serving[s])

\* A client waits in vain if it has written an empty string, which is no byte to
\* answer, or waits for a server behind a client that has.
HasSentNothing(c) == client[c] = "read" /\ lengths[c][next[c]] = 0
InBacklog(c, s) == c \in ToSet(backlog[s]) \/ (client[c] = "connect" /\ path = s)
Before(c) == {serving[s] : s \in {s \in Servers : InBacklog(c, s)}} \ {None}
WaitsInVain(c) == \E d \in {c} \cup Before(c) : HasSentNothing(d)
=============================================================================
