----------------------------- MODULE MqService -----------------------------
(***************************************************************************)
(* class9/Practice/mqServer.c and mqClient.c: clients send a request to the *)
(* message queue of the server, the server answers into a queue named after *)
(* the process id of the client.  Message queues outlive the processes: the *)
(* request queue is never unlinked (the code after the loop is not          *)
(* reached), and a response queue is unlinked by its client alone, while    *)
(* the server creates it whenever it is not there.                          *)
(* A request, and the response to it, is named after the client process     *)
(* that sent it: the ten numbers and their average are left out.            *)
(***************************************************************************)
EXTENDS Integers, FiniteSets, SequencesExt

CONSTANTS
    Clients,        \* client processes, each of which lives once
    Pids,           \* process ids, used again after a process has ended
    MaxMsg,         \* mq_maxmsg (10 in the code)
    MaxDeaths,      \* bound: clients that die or fail
    MaxFaults,      \* bound: deaths and failing calls of the server
    None

ASSUME MqAssumption ==
    /\ MaxMsg \in Nat \ {0} /\ MaxDeaths \in Nat /\ MaxFaults \in Nat
    /\ None \notin Clients /\ None \notin Seq(Clients)

VARIABLES
    requests,       \* the request queue, None before the first server
    queue,          \* the response queue of each process id, None if no such name
    server,         \* where the server is
    request,        \* its variable of this name
    orphan,         \* contents of the queue it has open, if the name was unlinked
    client, pid,    \* where each client is, its process id
    got,            \* the response it has read
    gone,           \* history: clients that died or failed
    lost,           \* history: requests whose response nobody can read any more
    faults          \* history: deaths and failing calls of the server

serverVars == <<requests, server, request, orphan, faults>>
clientVars == <<client, pid, got, gone>>
vars == <<requests, queue, server, request, orphan, faults, client, pid, got, gone, lost>>

Init ==
    /\ requests = None
    /\ queue = [p \in Pids |-> None]
    /\ server = "down" /\ request = None /\ orphan = None /\ faults = 0
    /\ client = [c \in Clients |-> "idle"]
    /\ pid = [c \in Clients |-> None]
    /\ got = [c \in Clients |-> None]
    /\ gone = {} /\ lost = {}

Live(c) == client[c] \notin {"idle", "done"}

\* snprintf(client_mq_name, ..., clientID)
ResponseName(c) == pid[c]

\* mq_open with O_CREAT.
Created(q) == IF q = None THEN << >> ELSE q

\* mq_unlink by client c.  The server goes on with the queue it has open.
Unlink(c) ==
    LET p == ResponseName(c)
        held == server = "send" /\ orphan = None /\ ResponseName(request) = p
    IN  /\ queue' = [queue EXCEPT ![p] = None]
        /\ orphan' = IF held THEN queue[p] ELSE orphan
        /\ lost' = lost \cup ToSet(Created(queue[p]))

-----------------------------------------------------------------------------
(* The server *)

\* A faulty variant: a server starts with an empty request queue.
StartFresh ==
    /\ server = "down"
    /\ requests' = << >>
    /\ server' = "receive"
    /\ UNCHANGED <<queue, request, orphan, faults, client, pid, got, gone, lost>>

Start ==
    /\ server = "down"
    /\ requests' = Created(requests)
    /\ server' = "receive"
    /\ UNCHANGED <<queue, request, orphan, faults, client, pid, got, gone, lost>>

\* A faulty variant: mq_receive fails, and the server answers the request it
\* still has.
ReceiveOrRepeat ==
    /\ server = "receive"
    /\ \/ /\ requests # << >>
          /\ request' = Head(requests)
          /\ requests' = Tail(requests)
       \/ /\ request # None
          /\ UNCHANGED <<request, requests>>
    /\ server' = "open"
    /\ UNCHANGED <<queue, orphan, faults, client, pid, got, gone, lost>>

ReceiveRequest ==
    /\ server = "receive" /\ requests # << >>
    /\ request' = Head(requests)
    /\ requests' = Tail(requests)
    /\ server' = "open"
    /\ UNCHANGED <<queue, orphan, faults, client, pid, got, gone, lost>>

OpenResponse ==
    /\ server = "open"
    /\ queue' = [queue EXCEPT ![ResponseName(request)] = Created(@)]
    /\ server' = "send"
    /\ UNCHANGED <<requests, request, orphan, faults, client, pid, got, gone, lost>>

\* mq_send blocks while the queue is full.  A response that goes to an unlinked
\* queue vanishes with it when the server closes it.
CanSend ==
    IF orphan = None THEN Len(queue[ResponseName(request)]) < MaxMsg
                     ELSE Len(orphan) < MaxMsg

\* A faulty variant: the response is sent twice.
SendTwice ==
    /\ server = "send" /\ CanSend
    /\ queue' = IF orphan # None THEN queue
                ELSE [queue EXCEPT ![ResponseName(request)] =
                        IF Len(@) + 1 < MaxMsg THEN @ \o <<request, request>>
                                               ELSE Append(@, request)]
    /\ lost' = IF orphan = None THEN lost ELSE lost \cup {request}
    /\ server' = "receive"
    /\ orphan' = None
    /\ UNCHANGED <<requests, request, faults, client, pid, got, gone>>

SendResponse ==
    /\ server = "send" /\ CanSend
    /\ IF orphan = None
         THEN /\ queue' = [queue EXCEPT ![ResponseName(request)] = Append(@, request)]
              /\ lost' = lost
         ELSE /\ queue' = queue
              /\ lost' = lost \cup {request}
    /\ server' = "receive"
    /\ orphan' = None
    /\ UNCHANGED <<requests, request, faults, client, pid, got, gone>>

\* mq_open or mq_send fails: the server goes on with the next request.
CallFails ==
    /\ server \in {"open", "send"} /\ faults < MaxFaults
    /\ server' = "receive"
    /\ orphan' = None
    /\ lost' = lost \cup {request}
    /\ faults' = faults + 1
    /\ UNCHANGED <<requests, queue, request, client, pid, got, gone>>

\* The server is killed: nothing else ends it.
KillServer ==
    /\ server # "down" /\ faults < MaxFaults
    /\ server' = "down"
    /\ lost' = IF server = "receive" THEN lost ELSE lost \cup {request}
    /\ request' = None
    /\ orphan' = None
    /\ faults' = faults + 1
    /\ UNCHANGED <<requests, queue, client, pid, got, gone>>

-----------------------------------------------------------------------------
(* The clients *)

Move(c, from, to) == client[c] = from /\ client' = [client EXCEPT ![c] = to]

\* A process gets an id that no live process has.
StartClient(c) ==
    /\ Move(c, "idle", "openOwn")
    /\ \E p \in Pids :
         /\ \A d \in Clients : Live(d) => pid[d] # p
         /\ pid' = [pid EXCEPT ![c] = p]
    /\ UNCHANGED <<serverVars, queue, got, gone, lost>>

\* A queue that is there already is opened as it is.
OpenOwn(c) ==
    /\ Move(c, "openOwn", "openRequest")
    /\ queue' = [queue EXCEPT ![ResponseName(c)] = Created(@)]
    /\ UNCHANGED <<serverVars, pid, got, gone, lost>>

OpenRequest(c) ==
    /\ Move(c, "openRequest", "send")
    /\ requests # None
    /\ UNCHANGED <<serverVars, queue, pid, got, gone, lost>>

\* No server has ever run.
NoServer(c) ==
    /\ Move(c, "openRequest", "done")
    /\ requests = None
    /\ Unlink(c)
    /\ UNCHANGED <<requests, server, request, faults, pid, got, gone>>

SendRequest(c) ==
    /\ Move(c, "send", "receive")
    /\ Len(requests) < MaxMsg
    /\ requests' = Append(requests, c)
    /\ UNCHANGED <<queue, server, request, orphan, faults, pid, got, gone, lost>>

ReceiveResponse(c) ==
    /\ Move(c, "receive", "unlink")
    /\ queue[ResponseName(c)] # << >>
    /\ got' = [got EXCEPT ![c] = Head(queue[ResponseName(c)])]
    /\ queue' = [queue EXCEPT ![ResponseName(c)] = Tail(@)]
    /\ UNCHANGED <<serverVars, pid, gone, lost>>

\* A faulty variant: the queue is closed but its name stays.
FinishWithoutUnlink(c) ==
    /\ Move(c, "unlink", "done")
    /\ UNCHANGED <<serverVars, queue, pid, got, gone, lost>>

Finish(c) ==
    /\ Move(c, "unlink", "done")
    /\ Unlink(c)
    /\ UNCHANGED <<requests, server, request, faults, pid, got, gone>>

\* A call fails: the client unlinks its queue, once it has one, and exits.
ClientFails(c) ==
    /\ Cardinality(gone) < MaxDeaths
    /\ client[c] \in {"openOwn", "openRequest", "send", "receive"}
    /\ client' = [client EXCEPT ![c] = "done"]
    /\ gone' = gone \cup {c}
    /\ IF client[c] = "openOwn" THEN UNCHANGED <<queue, orphan, lost>> ELSE Unlink(c)
    /\ UNCHANGED <<requests, server, request, faults, pid, got>>

\* A client is killed: its queue stays.
KillClient(c) ==
    /\ Cardinality(gone) < MaxDeaths
    /\ Live(c)
    /\ client' = [client EXCEPT ![c] = "done"]
    /\ gone' = gone \cup {c}
    /\ UNCHANGED <<serverVars, queue, pid, got, lost>>

-----------------------------------------------------------------------------
ServerStep == ReceiveRequest \/ OpenResponse \/ SendResponse

ClientStep(c) ==
    \/ OpenOwn(c) \/ OpenRequest(c) \/ NoServer(c) \/ SendRequest(c)
    \/ ReceiveResponse(c) \/ Finish(c)

Next ==
    \/ ServerStep \/ Start \/ CallFails \/ KillServer
    \/ \E c \in Clients :
         ClientStep(c) \/ StartClient(c) \/ ClientFails(c) \/ KillClient(c)

Spec == Init /\ [][Next]_vars

-----------------------------------------------------------------------------
\* Where the request of client c, or the response to it, is now.
Sent(c) ==
    \/ client[c] \in {"receive", "unlink"}
    \/ c \in lost \/ got[c] # None

Copies(c) ==
    [waiting   |-> requests # None /\ c \in ToSet(requests),
     atServer  |-> server \in {"open", "send"} /\ request = c,
     answered  |-> \E p \in Pids : queue[p] # None /\ c \in ToSet(queue[p]),
     read      |-> \E d \in Clients : got[d] = c,
     destroyed |-> c \in lost]

\* A request that was sent is at one place: neither a restart of the server, nor
\* a death, nor an unlinked queue makes a second one of it (mq_receive, line 49;
\* mq_send, line 76), and none disappears unnoticed.
OneCopy ==
    \A c \in Clients :
        LET places == {w \in DOMAIN Copies(c) : Copies(c)[w]}
        IN  /\ Cardinality(places) <= 1
            /\ Sent(c) => places # {}
            /\ Cardinality({d \in Clients : got[d] = c}) <= 1

\* A client reads a response that was not meant for it (mqClient.c, line 67)
\* only where an earlier process with its id never read its own: one death
\* may shift the responses of all later processes of this id.
WrongResponseExplained ==
    \A c \in Clients :
        LET d == got[c]
        IN  d \notin {None, c} =>
                /\ pid[d] = pid[c]
                /\ d \in gone \/ got[d] \notin {None, d}
                /\ \E e \in gone : pid[e] = pid[c]

\* The server is kept waiting by a full response queue (line 76) only if
\* MaxMsg processes of this id have died: the live ones read what they are sent.
StuckOnlyByTheDead ==
    server = "send" /\ ~CanSend =>
        Cardinality({c \in gone : pid[c] = ResponseName(request)}) >= MaxMsg

\* As long as no client dies, a response queue exists only while its client
\* does: the server's O_CREAT (line 68) never brings back one that was unlinked.
QueuesBelongToTheLiving ==
    gone = {} =>
        \A p \in Pids : queue[p] # None => \E c \in Clients : Live(c) /\ pid[c] = p

\* A request outlives the server it was sent to: if a server is running at
\* last, every client that waits is answered; unless a server died or failed
\* with its very request in hand, or the one server for all is kept waiting by
\* a full queue of an id of which more than MaxMsg processes have died: nobody
\* reads it any more (mq_send, line 76).
BlockedByTheDead ==
    /\ server = "send" /\ ~CanSend
    /\ Cardinality({c \in gone : pid[c] = ResponseName(request)}) > MaxMsg

AnsweredAtLast ==
    <>[](server # "down") =>
        []<>(BlockedByTheDead \/ \A c \in Clients : client[c] = "receive" => c \in lost)
=============================================================================
