--------------------------- MODULE MqProgramsProofs --------------------------
(***************************************************************************)
(* Proofs about the programs with message queues: the service, for any      *)
(* number of clients, process ids, deaths and faults, and the tools, for    *)
(* any number of runs; queues of any capacity.                              *)
(***************************************************************************)
EXTENDS MqPrograms, FiniteSetTheorems, TLAPS

Queues == Seq(Clients)
ClientPlaces == {"idle", "openOwn", "openRequest", "send", "receive", "unlink", "done"}

Types ==
    /\ requests \in Queues \cup {None}
    /\ queue \in [Pids -> Queues \cup {None}]
    /\ server \in {"down", "receive", "open", "send"}
    /\ request \in Clients \cup {None}
    /\ orphan \in Queues \cup {None}
    /\ client \in [Clients -> ClientPlaces]
    /\ pid \in [Clients -> Pids \cup {None}]
    /\ got \in [Clients -> Clients \cup {None}]
    /\ gone \subseteq Clients
    /\ lost \subseteq Clients

\* Which queues there are, and what their users have open.
Opened ==
    /\ server # "down" => requests # None
    /\ server \in {"open", "send"} => request \in Clients
    /\ server = "send" /\ orphan = None => queue[ResponseName(request)] # None
    /\ \A c \in Clients :
        /\ client[c] # "idle" => pid[c] \in Pids
        /\ client[c] \in {"openRequest", "send", "receive", "unlink"} =>
             queue[ResponseName(c)] # None
        /\ client[c] = "send" => requests # None
    /\ \A c, d \in Clients : Live(c) /\ Live(d) /\ pid[c] = pid[d] => c = d

\* The places a request, or the response to it, can be at.
Contents(q) == IF q = None THEN {} ELSE ToSet(q)
Waiting == Contents(requests)
AtServer == IF server \in {"open", "send"} THEN {request} ELSE {}
Answers == [p \in Pids |-> Contents(queue[p])]

NoRepeat(s) == \A i, j \in DOMAIN s : s[i] = s[j] => i = j

\* No request is twice in a queue, or at two places.
Single ==
    /\ requests # None => NoRepeat(requests)
    /\ \A p \in Pids : queue[p] # None => NoRepeat(queue[p])
Apart ==
    /\ Waiting \cap AtServer = {}
    /\ lost \cap (Waiting \cup AtServer) = {}
    /\ \A p \in Pids : Answers[p] \cap (Waiting \cup AtServer \cup lost) = {}
    /\ \A p, q \in Pids : p # q => Answers[p] \cap Answers[q] = {}
    /\ \A d \in Clients : got[d] \notin Waiting \cup AtServer \cup lost
    /\ \A d \in Clients, p \in Pids : got[d] \notin Answers[p]
    /\ \A d, e \in Clients : got[d] = got[e] /\ got[d] # None => d = e

\* A request is somewhere only if it was sent, and then it is somewhere.
Somewhere(c) ==
    \/ c \in Waiting \cup AtServer \cup lost
    \/ \E p \in Pids : c \in Answers[p]
    \/ \E d \in Clients : got[d] = c
Tracked ==
    \A c \in Clients :
        /\ Somewhere(c) => client[c] \in {"receive", "unlink", "done"}
        /\ client[c] \in {"receive", "unlink"} \/ got[c] # None => Somewhere(c)
        /\ got[c] # None => client[c] \in {"unlink", "done"}

\* As long as nobody has died, a request on its way belongs to a client that
\* waits for it, and a queue to a client that has it open.
InOrder ==
    gone = {} =>
        /\ \A c \in Waiting \cup AtServer : client[c] = "receive"
        /\ \A p \in Pids : \A c \in Answers[p] : client[c] = "receive" /\ pid[c] = p
        /\ QueuesBelongToTheLiving

IInv == Types /\ Opened /\ Single /\ Apart /\ Tracked /\ InOrder

-----------------------------------------------------------------------------
(* Queues *)

LEMMA QueueIsNotNone == None \notin Queues /\ << >> \in Queues
BY MqAssumption DEF Queues

LEMMA CreatedContents ==
  ASSUME NEW q \in Queues \cup {None}
  PROVE  /\ Created(q) \in Queues
         /\ Contents(Created(q)) = Contents(q)
         /\ (q # None => NoRepeat(q)) => NoRepeat(Created(q))
<1>1. << >> \in Queues /\ << >> # None
  BY QueueIsNotNone
<1>2. CASE q = None
  <2>1. Created(q) = << >>
    BY <1>2 DEF Created
  <2>2. Contents(<< >>) = {} /\ NoRepeat(<< >>)
    BY <1>1 DEF Contents, ToSet, NoRepeat
  <2> QED
    BY <1>1, <1>2, <2>1, <2>2 DEF Contents
<1>3. CASE q # None
  BY <1>3 DEF Created
<1> QED
  BY <1>2, <1>3

LEMMA AppendContents ==
  ASSUME NEW q \in Queues, NEW c \in Clients
  PROVE  /\ Append(q, c) \in Queues
         /\ Contents(Append(q, c)) = Contents(q) \cup {c}
         /\ NoRepeat(q) /\ c \notin Contents(q) => NoRepeat(Append(q, c))
<1>1. Append(q, c) \in Queues /\ q # None /\ Append(q, c) # None
  BY MqAssumption DEF Queues
<1>2. /\ DOMAIN q = 1 .. Len(q) /\ Len(q) \in Nat
      /\ DOMAIN Append(q, c) = 1 .. Len(q) + 1
      /\ \A i \in 1 .. Len(q) : Append(q, c)[i] = q[i]
      /\ Append(q, c)[Len(q) + 1] = c
  BY DEF Queues
<1>3. Contents(Append(q, c)) = Contents(q) \cup {c}
  BY <1>1, <1>2 DEF Contents, ToSet
<1>4. ASSUME NoRepeat(q), c \notin Contents(q)
      PROVE  NoRepeat(Append(q, c))
  <2>1. \A i \in 1 .. Len(q) : q[i] # c
    BY <1>1, <1>2, <1>4 DEF Contents, ToSet
  <2> QED
    BY <1>2, <1>4, <2>1 DEF NoRepeat
<1> QED
  BY <1>1, <1>3, <1>4

LEMMA TailContents ==
  ASSUME NEW q \in Queues, q # << >>
  PROVE  /\ Head(q) \in Clients /\ Tail(q) \in Queues
         /\ Head(q) \in Contents(q)
         /\ Contents(Tail(q)) \subseteq Contents(q)
         /\ Contents(q) = Contents(Tail(q)) \cup {Head(q)}
         /\ NoRepeat(q) => NoRepeat(Tail(q)) /\ Head(q) \notin Contents(Tail(q))
<1>1. Tail(q) \in Queues /\ q # None /\ Tail(q) # None /\ Head(q) = q[1] /\ Head(q) \in Clients
  BY MqAssumption DEF Queues
<1>2. /\ DOMAIN q = 1 .. Len(q) /\ Len(q) \in Nat /\ Len(q) >= 1
      /\ DOMAIN Tail(q) = 1 .. Len(q) - 1
      /\ \A i \in 1 .. Len(q) - 1 : Tail(q)[i] = q[i + 1]
  BY DEF Queues
<1>3. \A i \in DOMAIN q : i # 1 => i - 1 \in DOMAIN Tail(q) /\ Tail(q)[i - 1] = q[i]
  BY <1>2
<1>4. Contents(q) = Contents(Tail(q)) \cup {Head(q)}
  <2>1. Contents(q) = {q[i] : i \in DOMAIN q}
    BY <1>1 DEF Contents, ToSet
  <2>2. Contents(Tail(q)) = {Tail(q)[i] : i \in DOMAIN Tail(q)}
    BY <1>1 DEF Contents, ToSet
  <2>3. ASSUME NEW c \in Contents(q), c # Head(q)
        PROVE  c \in Contents(Tail(q))
    <3>1. PICK i \in DOMAIN q : c = q[i]
      BY <2>1, <2>3
    <3>2. i # 1
      BY <1>1, <2>3, <3>1
    <3> QED
      BY <1>3, <2>2, <3>1, <3>2
  <2>4. ASSUME NEW c \in Contents(Tail(q))
        PROVE  c \in Contents(q)
    <3>1. PICK i \in DOMAIN Tail(q) : c = Tail(q)[i]
      BY <2>2, <2>4
    <3>2. i + 1 \in DOMAIN q /\ q[i + 1] = c
      BY <1>2, <3>1
    <3> QED
      BY <2>1, <3>2
  <2>5. Head(q) \in Contents(q)
    BY <1>1, <1>2, <2>1
  <2> QED
    BY <2>3, <2>4, <2>5
<1>5. ASSUME NoRepeat(q)
      PROVE  NoRepeat(Tail(q)) /\ Head(q) \notin Contents(Tail(q))
  BY <1>1, <1>2, <1>5 DEF NoRepeat, Contents, ToSet
<1> QED
  BY <1>1, <1>4, <1>5

-----------------------------------------------------------------------------
LEMMA InitIInv == Init => IInv
<1> SUFFICES ASSUME Init PROVE IInv
  OBVIOUS
<1> USE MqAssumption DEF Init
<1>1. Types
  BY DEF Types, ClientPlaces
<1>2. Opened
  BY DEF Opened, Live
<1>3. Single
  BY DEF Single
<1>4. Waiting = {} /\ AtServer = {} /\ \A p \in Pids : Answers[p] = {}
  BY DEF Waiting, AtServer, Answers, Contents
<1>5. Apart /\ Tracked
  BY <1>4 DEF Apart, Tracked, Somewhere
<1>6. InOrder
  BY <1>4 DEF InOrder, QueuesBelongToTheLiving
<1> QED
  BY <1>1, <1>2, <1>3, <1>5, <1>6 DEF IInv

-----------------------------------------------------------------------------
(* Types, and which queues are open *)

\* A step of the service is an action of the server, or one of a client.
ClientAction(c) == ClientStep(c) \/ StartClient(c) \/ ClientFails(c) \/ KillClient(c)
ServerAction == ServerStep \/ Start \/ CallFails \/ KillServer

LEMMA ServerTypes ==
  ASSUME IInv, ServerAction
  PROVE  Types' /\ Opened' /\ Single'
<1> USE DEF IInv, Types, Opened, Single, Live, ResponseName, clientVars
<1>1. CASE ReceiveRequest
  <2>1. requests \in Queues /\ requests # << >> /\ NoRepeat(requests)
    BY <1>1 DEF ReceiveRequest
  <2>3. Head(requests) \in Clients /\ Tail(requests) \in Queues /\ NoRepeat(Tail(requests))
    BY <2>1, TailContents
  <2>2. /\ request' \in Clients /\ requests' \in Queues /\ requests' # None
        /\ NoRepeat(requests')
    BY <1>1, <2>3, QueueIsNotNone DEF ReceiveRequest
  <2> QED
    BY <1>1, <2>2 DEF ReceiveRequest
<1>2. CASE OpenResponse
  <2> DEFINE p == pid[request]
  <2>1. request \in Clients
    BY <1>2 DEF OpenResponse
  <2>2. queue' = [queue EXCEPT ![p] = Created(queue[p])]
    BY <1>2 DEF OpenResponse
  <2>3. /\ \A q \in Queues \cup {None} : Created(q) \in Queues /\ Created(q) # None
        /\ \A q \in Queues \cup {None} : (q # None => NoRepeat(q)) => NoRepeat(Created(q))
    BY CreatedContents, QueueIsNotNone
  <2>4. queue' \in [Pids -> Queues \cup {None}]
    BY <2>2, <2>3
  <2>5. Single'
    BY <1>2, <2>2, <2>3 DEF OpenResponse
  <2> QED
    BY <1>2, <2>1, <2>2, <2>3, <2>4, <2>5 DEF OpenResponse
<1>3. CASE SendResponse
  <2>1. request \in Clients
    BY <1>3 DEF SendResponse
  <2>2. CASE orphan # None
    BY <1>3, <2>1, <2>2 DEF SendResponse
  <2>3. CASE orphan = None
    <3> DEFINE p == pid[request]
    <3>1. p \in Pids /\ queue[p] \in Queues /\ NoRepeat(queue[p])
      BY <1>3, <2>1, <2>3 DEF SendResponse, Tracked, Somewhere, AtServer
    <3>2. request \notin Contents(queue[p])
      BY <1>3, <3>1 DEF SendResponse, Apart, AtServer, Answers
    <3>3. queue' = [queue EXCEPT ![p] = Append(queue[p], request)]
      BY <1>3, <2>3 DEF SendResponse
    <3>4. Append(queue[p], request) \in Queues /\ NoRepeat(Append(queue[p], request))
      BY <2>1, <3>1, <3>2, AppendContents, Zenon
    <3>5. queue' \in [Pids -> Queues \cup {None}]
      BY <3>3, <3>4
    <3> QED
      BY <1>3, <2>1, <2>3, <3>1, <3>3, <3>4, <3>5, QueueIsNotNone DEF SendResponse
  <2> QED
    BY <2>2, <2>3
<1>4. CASE Start
  BY <1>4, CreatedContents, QueueIsNotNone DEF Start
<1>5. CASE CallFails
  BY <1>5 DEF CallFails
<1>6. CASE KillServer
  BY <1>6 DEF KillServer
<1> QED
  BY <1>1, <1>2, <1>3, <1>4, <1>5, <1>6 DEF ServerAction, ServerStep

\* What an unlinked queue leaves.
LEMMA UnlinkTypes ==
  ASSUME IInv, NEW c \in Clients, Unlink(c), pid[c] \in Pids
  PROVE  /\ queue' = [queue EXCEPT ![pid[c]] = None]
         /\ queue' \in [Pids -> Queues \cup {None}]
         /\ orphan' \in Queues \cup {None}
         /\ lost' = lost \cup Answers[pid[c]] /\ lost' \subseteq Clients
         /\ server = "send" /\ orphan' = None => queue'[pid[request]] # None
<1> USE DEF IInv, Types, Unlink, ResponseName
<1>1. queue[pid[c]] \in Queues \cup {None}
  OBVIOUS
<1>2. ToSet(Created(queue[pid[c]])) = Answers[pid[c]]
  <2>1. Created(queue[pid[c]]) # None
    BY <1>1, CreatedContents, QueueIsNotNone
  <2>2. Contents(Created(queue[pid[c]])) = Contents(queue[pid[c]])
    BY <1>1, CreatedContents
  <2> QED
    BY <2>1, <2>2 DEF Contents, Answers
<1>3. Answers[pid[c]] \subseteq Clients
  BY <1>1 DEF Answers, Contents, ToSet, Queues
<1>4. queue' \in [Pids -> Queues \cup {None}] /\ orphan' \in Queues \cup {None}
  BY <1>1
<1>5. server = "send" /\ orphan' = None => queue'[pid[request]] # None
  BY <1>1, <1>4 DEF Opened
<1> QED
  BY <1>2, <1>3, <1>4, <1>5

LEMMA ClientTypes ==
  ASSUME IInv, NEW c \in Clients, ClientAction(c)
  PROVE  Types' /\ Opened' /\ Single'
<1> USE DEF IInv, Types, Opened, Single, Live, ResponseName, serverVars, Move, ClientPlaces
<1>1. CASE StartClient(c)
  <2>1. PICK p \in Pids : /\ \A d \in Clients : Live(d) => pid[d] # p
                         /\ pid' = [pid EXCEPT ![c] = p]
    BY <1>1 DEF StartClient
  <2>2. client[c] = "idle" /\ client' = [client EXCEPT ![c] = "openOwn"]
    BY <1>1 DEF StartClient
  <2>3. UNCHANGED <<serverVars, queue, got, gone, lost>>
    BY <1>1 DEF StartClient
  <2>4. Types' /\ Single'
    BY <2>1, <2>2, <2>3
  <2>5. \A d \in Clients : d # c => client'[d] = client[d] /\ pid'[d] = pid[d]
    BY <2>1, <2>2
  <2>6. client'[c] = "openOwn" /\ pid'[c] = p
    BY <2>1, <2>2
  <2>7. server \in {"open", "send"} => request # c
    BY <2>2 DEF Tracked, Somewhere, AtServer
  <2>8. \A d, e \in Clients : Live(d)' /\ Live(e)' /\ pid'[d] = pid'[e] => d = e
    BY <2>1, <2>5, <2>6
  <2> QED
    BY <2>3, <2>4, <2>5, <2>6, <2>7, <2>8
<1>2. CASE OpenOwn(c)
  <2> DEFINE p == pid[c]
  <2>1. p \in Pids /\ queue' = [queue EXCEPT ![p] = Created(queue[p])]
    BY <1>2 DEF OpenOwn
  <2>2. /\ Created(queue[p]) \in Queues
        /\ (queue[p] # None => NoRepeat(queue[p])) => NoRepeat(Created(queue[p]))
    BY <2>1, CreatedContents
  <2>3. queue' \in [Pids -> Queues \cup {None}]
    BY <2>1, <2>2
  <2>4. Single'
    BY <1>2, <2>1, <2>2 DEF OpenOwn
  <2> QED
    BY <1>2, <2>1, <2>2, <2>3, <2>4, QueueIsNotNone DEF OpenOwn
<1>3. CASE OpenRequest(c)
  BY <1>3 DEF OpenRequest
<1>4. CASE KillClient(c)
  BY <1>4 DEF KillClient
<1>5. CASE SendRequest(c)
  <2>1. requests \in Queues /\ NoRepeat(requests)
    BY <1>5 DEF SendRequest
  <2>2. c \notin Contents(requests)
    BY <1>5 DEF SendRequest, Tracked, Somewhere, Waiting
  <2>3. Append(requests, c) \in Queues /\ NoRepeat(Append(requests, c))
    BY <2>1, <2>2, AppendContents, Zenon
  <2> QED
    BY <1>5, <2>3, QueueIsNotNone DEF SendRequest
<1>6. CASE ReceiveResponse(c)
  <2> DEFINE p == pid[c]
  <2>1. p \in Pids /\ queue[p] \in Queues /\ queue[p] # << >> /\ NoRepeat(queue[p])
    BY <1>6 DEF ReceiveResponse
  <2>2. /\ Head(queue[p]) \in Clients
        /\ Tail(queue[p]) \in Queues /\ NoRepeat(Tail(queue[p]))
    BY <2>1, TailContents
  <2>3. /\ queue' = [queue EXCEPT ![p] = Tail(queue[p])]
        /\ got' = [got EXCEPT ![c] = Head(queue[p])]
    BY <1>6 DEF ReceiveResponse
  <2>4. /\ queue' \in [Pids -> Queues \cup {None}]
        /\ got' \in [Clients -> Clients \cup {None}]
    BY <2>2, <2>3
  <2>5. Single'
    BY <1>6, <2>1, <2>2, <2>3 DEF ReceiveResponse
  <2>6. Types'
    BY <1>6, <2>4 DEF ReceiveResponse
  <2>7. \A q \in Pids : queue[q] # None => queue'[q] # None
    BY <2>2, <2>3, QueueIsNotNone
  <2>8. client[c] = "receive" /\ client' = [client EXCEPT ![c] = "unlink"]
    BY <1>6 DEF ReceiveResponse
  <2>9. UNCHANGED <<serverVars, pid>>
    BY <1>6 DEF ReceiveResponse
  <2>10. server = "send" => pid[request] \in Pids
    BY DEF Tracked, Somewhere, AtServer
  <2> QED
    BY <2>5, <2>6, <2>7, <2>8, <2>9, <2>10
<1>7. ASSUME Unlink(c), client[c] \in {"openRequest", "unlink", "send", "receive"},
             client' = [client EXCEPT ![c] = "done"],
             UNCHANGED <<requests, server, request, pid, got>>, gone' \subseteq Clients
      PROVE  Types' /\ Opened' /\ Single'
  <2>1. pid[c] \in Pids
    BY <1>7
  <2>2. /\ queue' = [queue EXCEPT ![pid[c]] = None]
        /\ queue' \in [Pids -> Queues \cup {None}]
        /\ orphan' \in Queues \cup {None} /\ lost' \subseteq Clients
        /\ server = "send" /\ orphan' = None => queue'[pid[request]] # None
    BY <1>7, <2>1, UnlinkTypes
  <2>3. Types'
    BY <1>7, <2>2
  <2>4. Single'
    BY <1>7, <2>2
  <2>5. \A d \in Clients : client'[d] # "done" => d # c /\ client'[d] = client[d]
    BY <1>7
  <2>6. \A d \in Clients : client[d] \notin {"idle", "done"} /\ d # c =>
          pid[d] # pid[c] /\ queue'[pid[d]] = queue[pid[d]]
    BY <1>7, <2>1, <2>2
  <2> QED
    BY <1>7, <2>2, <2>3, <2>4, <2>5, <2>6
<1>8. CASE NoServer(c)
  BY <1>7, <1>8 DEF NoServer
<1>9. CASE Finish(c)
  BY <1>7, <1>9 DEF Finish
<1>10. CASE ClientFails(c)
  <2>1. CASE client[c] = "openOwn"
    BY <1>10, <2>1 DEF ClientFails
  <2>2. CASE client[c] # "openOwn"
    BY <1>7, <1>10, <2>2 DEF ClientFails
  <2> QED
    BY <2>1, <2>2
<1> QED
  BY <1>1, <1>2, <1>3, <1>4, <1>5, <1>6, <1>8, <1>9, <1>10 DEF ClientAction, ClientStep

-----------------------------------------------------------------------------
(* The places of a request *)

LEMMA PlaceTypes ==
  ASSUME IInv
  PROVE  /\ Waiting \subseteq Clients /\ AtServer \subseteq Clients
         /\ \A p \in Pids : Answers[p] \subseteq Clients
BY DEF IInv, Types, Opened, Waiting, AtServer, Answers, Contents, Queues, ToSet

\* What each step of the server does to the places: a request goes on by one.
LEMMA ServerMoves ==
  ASSUME IInv, ServerAction
  PROVE  /\ UNCHANGED <<client, pid, got, gone>>
         /\ \/ /\ Waiting' \cap AtServer' = {} /\ Waiting' \cup AtServer' = Waiting \cup AtServer
               /\ Answers' = Answers /\ lost' = lost
            \/ /\ Waiting' = Waiting /\ AtServer' = {}
               /\ Answers' = Answers /\ lost' = lost \cup AtServer
            \/ /\ Waiting' = Waiting /\ AtServer' = {} /\ lost' = lost
               /\ pid[request] \in Pids /\ AtServer = {request}
               /\ Answers' = [Answers EXCEPT ![pid[request]] = @ \cup AtServer]
         /\ \A p \in Pids : queue'[p] # None => queue[p] # None \/
              (p = pid[request] /\ AtServer = {request})
<1> USE DEF IInv, Types, Opened, Single, clientVars, ResponseName
<1>0. /\ Waiting \subseteq Clients /\ AtServer \subseteq Clients
      /\ Answers \in [Pids -> SUBSET Clients]
  BY PlaceTypes DEF Answers
<1>1. CASE ReceiveRequest
  <2>1. requests \in Queues /\ requests # << >> /\ NoRepeat(requests)
    BY <1>1 DEF ReceiveRequest
  <2>2. /\ Tail(requests) \in Queues
        /\ Contents(requests) = Contents(Tail(requests)) \cup {Head(requests)}
        /\ Head(requests) \notin Contents(Tail(requests))
    BY <2>1, TailContents
  <2>3. Waiting' = Contents(Tail(requests)) /\ AtServer' = {Head(requests)} /\ AtServer = {}
    BY <1>1 DEF ReceiveRequest, Waiting, AtServer
  <2>4. Answers' = Answers
    BY <1>1 DEF ReceiveRequest, Answers
  <2> QED
    BY <1>1, <2>2, <2>3, <2>4 DEF ReceiveRequest, Waiting
<1>2. CASE OpenResponse
  <2>1. request \in Clients /\ AtServer = {request} /\ AtServer' = AtServer /\ Waiting' = Waiting
    BY <1>2 DEF OpenResponse, AtServer, Waiting
  <2>2. queue' = [queue EXCEPT ![pid[request]] = Created(queue[pid[request]])]
    BY <1>2 DEF OpenResponse
  <2>3. \A q \in Queues \cup {None} : Contents(Created(q)) = Contents(q)
    BY CreatedContents
  <2>4. Answers' = Answers
    BY <2>2, <2>3 DEF Answers
  <2>5. Waiting \cap AtServer = {}
    BY DEF Apart
  <2> QED
    BY <1>2, <2>1, <2>2, <2>4, <2>5 DEF OpenResponse
<1>3. CASE SendResponse
  <2>1. request \in Clients /\ AtServer = {request} /\ AtServer' = {} /\ Waiting' = Waiting
    BY <1>3 DEF SendResponse, AtServer, Waiting
  <2>2. CASE orphan # None
    <3>1. queue' = queue /\ Answers' = Answers /\ lost' = lost \cup AtServer
      BY <1>3, <2>1, <2>2 DEF SendResponse, Answers
    <3> QED
      BY <1>3, <2>1, <3>1 DEF SendResponse
  <2>3. CASE orphan = None
    <3> DEFINE p == pid[request]
    <3>1. p \in Pids /\ queue[p] \in Queues
      BY <1>3, <2>1, <2>3 DEF SendResponse, Tracked, Somewhere
    <3>2. queue' = [queue EXCEPT ![p] = Append(queue[p], request)] /\ lost' = lost
      BY <1>3, <2>3 DEF SendResponse
    <3>3. Contents(Append(queue[p], request)) = Contents(queue[p]) \cup {request}
      BY <2>1, <3>1, AppendContents
    <3>4. Answers' = [Answers EXCEPT ![p] = @ \cup AtServer]
      BY <2>1, <3>1, <3>2, <3>3 DEF Answers
    <3>5. \A q \in Pids : queue'[q] # None => queue[q] # None \/ q = p
      BY <3>2
    <3>6. UNCHANGED <<client, pid, got, gone>>
      BY <1>3 DEF SendResponse
    <3> QED
      BY <1>0, <2>1, <3>1, <3>2, <3>4, <3>5, <3>6
  <2> QED
    BY <2>2, <2>3
<1>4. CASE Start
  <2>1. requests \in Queues \cup {None} /\ requests' = Created(requests)
    BY <1>4 DEF Start
  <2>2. Contents(requests') = Contents(requests)
    BY <2>1, CreatedContents
  <2>3. Waiting' = Waiting /\ AtServer = {} /\ AtServer' = {} /\ Answers' = Answers
    BY <1>4, <2>2 DEF Start, Waiting, AtServer, Answers
  <2> QED
    BY <1>4, <2>3 DEF Start
<1>5. CASE CallFails
  <2>1. Waiting' = Waiting /\ AtServer = {request} /\ AtServer' = {} /\ Answers' = Answers
    BY <1>5 DEF CallFails, Waiting, AtServer, Answers
  <2> QED
    BY <1>5, <2>1 DEF CallFails
<1>6. CASE KillServer
  <2>1. Waiting' = Waiting /\ AtServer' = {} /\ Answers' = Answers /\ lost' = lost \cup AtServer
    BY <1>6 DEF KillServer, Waiting, AtServer, Answers
  <2> QED
    BY <1>6, <2>1 DEF KillServer
<1> QED
  BY <1>1, <1>2, <1>3, <1>4, <1>5, <1>6 DEF ServerAction, ServerStep

LEMMA ServerPlaces ==
  ASSUME IInv, ServerAction
  PROVE  Apart' /\ Tracked' /\ InOrder'
<1>1. /\ Waiting \subseteq Clients /\ AtServer \subseteq Clients
      /\ Answers \in [Pids -> SUBSET Clients]
  BY PlaceTypes DEF Answers
<1>2. /\ UNCHANGED <<client, pid, got, gone>>
      /\ \/ /\ Waiting' \cap AtServer' = {} /\ Waiting' \cup AtServer' = Waiting \cup AtServer
            /\ Answers' = Answers /\ lost' = lost
         \/ /\ Waiting' = Waiting /\ AtServer' = {}
            /\ Answers' = Answers /\ lost' = lost \cup AtServer
         \/ /\ Waiting' = Waiting /\ AtServer' = {} /\ lost' = lost
            /\ pid[request] \in Pids /\ AtServer = {request}
            /\ Answers' = [Answers EXCEPT ![pid[request]] = @ \cup AtServer]
  BY ServerMoves
<1>3. Apart'
  BY <1>1, <1>2 DEF IInv, Apart
<1>4. \A c \in Clients : Somewhere(c)' <=> Somewhere(c)
  BY <1>1, <1>2 DEF Somewhere
<1>5. Tracked'
  BY <1>2, <1>4 DEF IInv, Tracked
<1>6. \A p \in Pids : queue'[p] # None => queue[p] # None \/
        (p = pid[request] /\ AtServer = {request})
  BY ServerMoves
<1>7. ASSUME gone' = {}
      PROVE  /\ \A c \in Waiting' \cup AtServer' : client'[c] = "receive"
             /\ \A p \in Pids : \A c \in Answers'[p] : client'[c] = "receive" /\ pid'[c] = p
  BY <1>1, <1>2, <1>7 DEF IInv, InOrder
<1>8. ASSUME gone' = {}
      PROVE  QueuesBelongToTheLiving'
  <2>1. gone = {} /\ QueuesBelongToTheLiving /\ \A c \in AtServer : client[c] = "receive"
    BY <1>2, <1>8 DEF IInv, InOrder
  <2>2. SUFFICES ASSUME NEW p \in Pids, queue'[p] # None
                 PROVE  \E c \in Clients : Live(c) /\ pid[c] = p
    BY <1>2 DEF QueuesBelongToTheLiving, Live
  <2>3. CASE queue[p] # None
    BY <2>1, <2>3 DEF QueuesBelongToTheLiving
  <2>4. CASE p = pid[request] /\ AtServer = {request}
    BY <1>1, <2>1, <2>4 DEF Live
  <2> QED
    BY <1>6, <2>2, <2>3, <2>4
<1> QED
  BY <1>3, <1>5, <1>7, <1>8 DEF InOrder

\* A step of a client that leaves all requests where they are.
LEMMA QuietPlaces ==
  ASSUME IInv, NEW c \in Clients,
         UNCHANGED <<requests, server, request, got, lost>>, Answers' = Answers,
         NEW to \in ClientPlaces, client' = [client EXCEPT ![c] = to],
         client[c] \in {"idle", "openOwn", "openRequest"} \/ to = "done",
         to \in {"openOwn", "openRequest", "send", "done"},
         \A d \in Clients : d # c \/ client[c] # "idle" => pid'[d] = pid[d],
         gone' = {} =>
           /\ gone = {} /\ client[c] \in {"idle", "openOwn", "openRequest"} /\ to # "done"
           /\ \A p \in Pids : queue'[p] # None =>
                queue[p] # None \/ (client[c] # "idle" /\ p = pid[c])
  PROVE  Apart' /\ Tracked' /\ InOrder'
<1>1. /\ Waiting \subseteq Clients /\ AtServer \subseteq Clients
      /\ Answers \in [Pids -> SUBSET Clients]
  BY PlaceTypes DEF Answers
<1>2. Waiting' = Waiting /\ AtServer' = AtServer
  BY DEF Waiting, AtServer
<1>3. Apart'
  BY <1>2 DEF IInv, Apart
<1>4. \A d \in Clients : Somewhere(d)' <=> Somewhere(d)
  BY <1>2 DEF Somewhere
<1>5. Tracked'
  BY <1>4 DEF IInv, Types, Tracked
<1>6. ASSUME gone' = {}
      PROVE  /\ \A d \in Waiting' \cup AtServer' : client'[d] = "receive"
             /\ \A p \in Pids : \A d \in Answers'[p] : client'[d] = "receive" /\ pid'[d] = p
  BY <1>1, <1>2, <1>6 DEF IInv, InOrder, Types
<1>7. ASSUME gone' = {}
      PROVE  QueuesBelongToTheLiving'
  <2> SUFFICES ASSUME NEW p \in Pids, queue'[p] # None
               PROVE  \E d \in Clients : Live(d)' /\ pid'[d] = p
    BY DEF QueuesBelongToTheLiving
  <2>1. gone = {} /\ QueuesBelongToTheLiving /\ to # "done" /\ client'[c] = to
    BY <1>7 DEF IInv, InOrder, Types
  <2>2. CASE queue[p] # None
    <3>1. PICK d \in Clients : Live(d) /\ pid[d] = p
      BY <2>1, <2>2 DEF QueuesBelongToTheLiving
    <3>2. Live(d)'
      BY <2>1, <3>1 DEF Live, IInv, Types
    <3> QED
      BY <3>1, <3>2 DEF Live
  <2>3. CASE client[c] # "idle" /\ p = pid[c]
    BY <2>1, <2>3 DEF Live
  <2> QED
    BY <1>7, <2>2, <2>3
<1> QED
  BY <1>3, <1>5, <1>6, <1>7 DEF InOrder

\* A step of a client that unlinks its queue: what is in it is lost.
LEMMA UnlinkPlaces ==
  ASSUME IInv, NEW c \in Clients, Unlink(c), pid[c] \in Pids,
         UNCHANGED <<requests, server, request, pid, got>>,
         client' = [client EXCEPT ![c] = "done"],
         gone' = {} => gone = {} /\ client[c] \in {"openRequest", "unlink"}
  PROVE  Apart' /\ Tracked' /\ InOrder'
<1>1. /\ Waiting \subseteq Clients /\ AtServer \subseteq Clients
      /\ Answers \in [Pids -> SUBSET Clients]
  BY PlaceTypes DEF Answers
<1>2. Waiting' = Waiting /\ AtServer' = AtServer
  BY DEF Waiting, AtServer
<1>3. queue' = [queue EXCEPT ![pid[c]] = None] /\ lost' = lost \cup Answers[pid[c]]
  BY UnlinkTypes
<1>4. Answers' = [Answers EXCEPT ![pid[c]] = {}]
  BY <1>3 DEF Answers, Contents, IInv, Types
<1>5. Apart'
  BY <1>1, <1>2, <1>3, <1>4 DEF IInv, Apart
<1>6. \A d \in Clients : Somewhere(d)' <=> Somewhere(d)
  BY <1>1, <1>2, <1>3, <1>4 DEF Somewhere
<1>7. Tracked'
  BY <1>6 DEF IInv, Types, Tracked
<1>8. ASSUME gone' = {}
      PROVE  /\ \A d \in Waiting' \cup AtServer' : client'[d] = "receive"
             /\ \A p \in Pids : \A d \in Answers'[p] : client'[d] = "receive" /\ pid'[d] = p
  BY <1>1, <1>2, <1>4, <1>8 DEF IInv, InOrder, Types
<1>9. ASSUME gone' = {}
      PROVE  QueuesBelongToTheLiving'
  <2> SUFFICES ASSUME NEW p \in Pids, queue'[p] # None
               PROVE  \E d \in Clients : Live(d)' /\ pid'[d] = p
    BY DEF QueuesBelongToTheLiving
  <2>1. queue[p] # None /\ p # pid[c]
    BY <1>3 DEF IInv, Types
  <2>2. PICK d \in Clients : Live(d) /\ pid[d] = p
    BY <1>9, <2>1 DEF IInv, InOrder, QueuesBelongToTheLiving
  <2>3. Live(d)'
    BY <2>1, <2>2 DEF Live, IInv, Types
  <2> QED
    BY <2>2, <2>3
<1> QED
  BY <1>5, <1>7, <1>8, <1>9 DEF InOrder

\* A request that is sent was nowhere before.
LEMMA SendPlaces ==
  ASSUME IInv, NEW c \in Clients, SendRequest(c)
  PROVE  Apart' /\ Tracked' /\ InOrder'
<1> USE DEF SendRequest, Move
<1>1. /\ Waiting \subseteq Clients /\ AtServer \subseteq Clients
      /\ Answers \in [Pids -> SUBSET Clients]
  BY PlaceTypes DEF Answers
<1>2. AtServer' = AtServer /\ Answers' = Answers
  BY DEF AtServer, Answers
<1>3. Waiting' = Waiting \cup {c}
  <2>1. requests \in Queues /\ requests # None
    BY DEF IInv, Types, Opened
  <2>2. Append(requests, c) # None
    BY <2>1, AppendContents, QueueIsNotNone
  <2>3. Contents(Append(requests, c)) = Contents(requests) \cup {c}
    BY <2>1, AppendContents
  <2> QED
    BY <2>2, <2>3 DEF Waiting
<1>4. ~Somewhere(c)
  BY DEF IInv, Tracked
<1>5. Apart'
  BY <1>1, <1>2, <1>3, <1>4, MqAssumption DEF IInv, Apart, Somewhere
<1>6. \A d \in Clients : Somewhere(d)' <=> (Somewhere(d) \/ d = c)
  BY <1>1, <1>2, <1>3 DEF Somewhere
<1>7. Tracked'
  BY <1>6 DEF IInv, Types, Tracked
<1>8. ASSUME gone' = {}
      PROVE  /\ \A d \in Waiting' \cup AtServer' : client'[d] = "receive"
             /\ \A p \in Pids : \A d \in Answers'[p] : client'[d] = "receive" /\ pid'[d] = p
  BY <1>1, <1>2, <1>3, <1>8 DEF IInv, InOrder, Types
<1>9. ASSUME gone' = {}
      PROVE  QueuesBelongToTheLiving'
  BY <1>9 DEF IInv, InOrder, Types, QueuesBelongToTheLiving, Live
<1> QED
  BY <1>5, <1>7, <1>8, <1>9 DEF InOrder

\* A client reads a response that is in its queue.
LEMMA ReceiveEffect ==
  ASSUME IInv, NEW c \in Clients, ReceiveResponse(c)
  PROVE  /\ pid[c] \in Pids /\ queue[pid[c]] \in Queues
         /\ client[c] = "receive" /\ client' = [client EXCEPT ![c] = "unlink"]
         /\ UNCHANGED <<requests, server, request, orphan, pid, gone, lost>>
         /\ \E q \in Queues : queue' = [queue EXCEPT ![pid[c]] = q]
         /\ \E h \in Answers[pid[c]] :
              /\ h \in Clients /\ got' = [got EXCEPT ![c] = h]
              /\ Answers' = [Answers EXCEPT ![pid[c]] = @ \ {h}]
<1> DEFINE p == pid[c]
           h == Head(queue[p])
<1>1. p \in Pids /\ queue[p] \in Queues /\ queue[p] # << >> /\ NoRepeat(queue[p])
  BY DEF IInv, Types, Opened, Single, ReceiveResponse, Move, ResponseName
<1>2. /\ h \in Clients /\ Tail(queue[p]) \in Queues
      /\ h \in Contents(queue[p])
      /\ Contents(queue[p]) = Contents(Tail(queue[p])) \cup {h}
      /\ h \notin Contents(Tail(queue[p]))
  BY <1>1, TailContents
<1>3. /\ queue' = [queue EXCEPT ![p] = Tail(queue[p])]
      /\ got' = [got EXCEPT ![c] = h]
      /\ client[c] = "receive" /\ client' = [client EXCEPT ![c] = "unlink"]
      /\ UNCHANGED <<requests, server, request, orphan, pid, gone, lost>>
  BY DEF ReceiveResponse, Move, ResponseName, serverVars
<1>4. h \in Answers[p] /\ Answers' = [Answers EXCEPT ![p] = @ \ {h}]
  <2>1. Answers[p] = Contents(queue[p])
    BY <1>1 DEF Answers
  <2>2. Contents(Tail(queue[p])) = Contents(queue[p]) \ {h}
    BY <1>2
  <2>3. \A q \in Pids : Contents(queue'[q]) = IF q = p THEN Answers[p] \ {h} ELSE Answers[q]
    BY <1>1, <1>3, <2>1, <2>2 DEF Answers, IInv, Types
  <2> QED
    BY <1>2, <2>1, <2>3 DEF Answers
<1> QED
  BY <1>1, <1>2, <1>3, <1>4

\* It is its own if nobody has died.
LEMMA ReceivePlaces ==
  ASSUME IInv, NEW c \in Clients, ReceiveResponse(c)
  PROVE  Apart' /\ Tracked' /\ InOrder'
<1> DEFINE p == pid[c]
<1>1. /\ Waiting \subseteq Clients /\ AtServer \subseteq Clients
      /\ Answers \in [Pids -> SUBSET Clients]
  BY PlaceTypes DEF Answers
<1>2. p \in Pids /\ queue[p] \in Queues
  BY ReceiveEffect
<1>3. PICK h \in Answers[p] : /\ h \in Clients /\ got' = [got EXCEPT ![c] = h]
                             /\ Answers' = [Answers EXCEPT ![p] = @ \ {h}]
  BY ReceiveEffect
<1>4. /\ \E q \in Queues : queue' = [queue EXCEPT ![p] = q]
      /\ got' = [got EXCEPT ![c] = h]
      /\ client[c] = "receive" /\ client' = [client EXCEPT ![c] = "unlink"]
      /\ UNCHANGED <<requests, server, request, pid, gone, lost>>
  BY <1>3, ReceiveEffect
<1>5. Waiting' = Waiting /\ AtServer' = AtServer
  BY <1>4 DEF Waiting, AtServer
<1>6. h \in Answers[p] /\ Answers' = [Answers EXCEPT ![p] = @ \ {h}]
  BY <1>3
<1>7. got[c] = None /\ None \notin Clients /\ got \in [Clients -> Clients \cup {None}]
  BY <1>4, MqAssumption DEF IInv, Tracked, Types
<1> HIDE DEF p
<1>8. Apart'
  <2>1. /\ Waiting' \cap AtServer' = {}
        /\ lost' \cap (Waiting' \cup AtServer') = {}
        /\ \A q \in Pids : Answers'[q] \cap (Waiting' \cup AtServer' \cup lost') = {}
        /\ \A q, r \in Pids : q # r => Answers'[q] \cap Answers'[r] = {}
    BY <1>1, <1>4, <1>5, <1>6 DEF IInv, Apart
  <2>2. h \notin Waiting \cup AtServer \cup lost /\ \A q \in Pids : h \notin Answers'[q]
    BY <1>1, <1>2, <1>6 DEF IInv, Apart
  <2>3. /\ \A d \in Clients : got'[d] \notin Waiting' \cup AtServer' \cup lost'
        /\ \A d \in Clients, q \in Pids : got'[d] \notin Answers'[q]
    BY <1>1, <1>4, <1>5, <1>6, <1>7, <2>2 DEF IInv, Apart
  <2>4. \A d \in Clients : got[d] # h
    BY <1>2, <1>6 DEF IInv, Apart
  <2>5. \A d, e \in Clients : got'[d] = got'[e] /\ got'[d] # None => d = e
    BY <1>4, <1>7, <2>4 DEF IInv, Apart
  <2> QED
    BY <2>1, <2>3, <2>5 DEF Apart
<1>9. \A d \in Clients : Somewhere(d)' <=> Somewhere(d)
  <2> SUFFICES ASSUME NEW d \in Clients PROVE Somewhere(d)' <=> Somewhere(d)
    OBVIOUS
  <2>1. (\E q \in Pids : d \in Answers[q]) <=> d = h \/ \E q \in Pids : d \in Answers'[q]
    BY <1>1, <1>2, <1>6
  <2>2. (\E e \in Clients : got'[e] = d) <=> d = h \/ \E e \in Clients : got[e] = d
    BY <1>4, <1>7
  <2> QED
    BY <1>4, <1>5, <2>1, <2>2 DEF Somewhere
<1>10. Tracked'
  BY <1>4, <1>7, <1>9 DEF IInv, Types, Tracked
<1>11. ASSUME gone' = {}
       PROVE  /\ \A d \in Waiting' \cup AtServer' : client'[d] = "receive"
              /\ \A q \in Pids : \A d \in Answers'[q] : client'[d] = "receive" /\ pid'[d] = q
  <2>1. client[h] = "receive" /\ pid[h] = p
    BY <1>2, <1>4, <1>6, <1>11 DEF IInv, InOrder
  <2>2. h = c
    BY <1>3, <1>4, <2>1 DEF IInv, Opened, Live, p
  <2>3. c \notin Waiting' \cup AtServer' /\ \A q \in Pids : c \notin Answers'[q]
    BY <1>1, <1>2, <1>5, <1>6, <2>2 DEF IInv, Apart
  <2> QED
    BY <1>1, <1>2, <1>4, <1>5, <1>6, <1>11, <2>3 DEF IInv, InOrder, Types
<1>12. ASSUME gone' = {}
       PROVE  QueuesBelongToTheLiving'
  <2> SUFFICES ASSUME NEW q \in Pids, queue'[q] # None
               PROVE  \E d \in Clients : Live(d)' /\ pid'[d] = q
    BY DEF QueuesBelongToTheLiving
  <2>1. queue[q] # None
    BY <1>2, <1>4, QueueIsNotNone DEF IInv, Types
  <2>2. PICK d \in Clients : Live(d) /\ pid[d] = q
    BY <1>4, <1>12, <2>1 DEF IInv, InOrder, QueuesBelongToTheLiving
  <2>3. Live(d)'
    BY <1>4, <2>2 DEF Live, IInv, Types
  <2> QED
    BY <1>4, <2>2, <2>3
<1> QED
  BY <1>8, <1>10, <1>11, <1>12 DEF InOrder

LEMMA ClientMoves ==
  ASSUME IInv, NEW c \in Clients, ClientAction(c)
  PROVE  Apart' /\ Tracked' /\ InOrder'
<1> USE DEF serverVars, Move, ResponseName
<1>0. Types /\ Opened
  BY DEF IInv
<1>1. CASE StartClient(c)
  <2>1. /\ client[c] = "idle" /\ client' = [client EXCEPT ![c] = "openOwn"]
        /\ \A d \in Clients : d # c => pid'[d] = pid[d]
        /\ UNCHANGED <<requests, queue, server, request, got, gone, lost>>
    BY <1>0, <1>1 DEF StartClient, Types
  <2>2. Answers' = Answers
    BY <2>1 DEF Answers
  <2> QED
    BY <2>1, <2>2, QuietPlaces DEF ClientPlaces
<1>2. CASE OpenOwn(c)
  <2>1. /\ client[c] = "openOwn" /\ client' = [client EXCEPT ![c] = "openRequest"]
        /\ pid[c] \in Pids /\ queue' = [queue EXCEPT ![pid[c]] = Created(queue[pid[c]])]
        /\ UNCHANGED <<requests, server, request, pid, got, gone, lost>>
    BY <1>0, <1>2 DEF OpenOwn, Opened
  <2>2. Answers' = Answers
    BY <1>0, <2>1, CreatedContents DEF Answers, Types
  <2>3. \A p \in Pids : queue'[p] # None => queue[p] # None \/ p = pid[c]
    BY <1>0, <2>1 DEF Types
  <2> QED
    BY <2>1, <2>2, <2>3, QuietPlaces DEF ClientPlaces
<1>3. CASE OpenRequest(c)
  <2>1. /\ client[c] = "openRequest" /\ client' = [client EXCEPT ![c] = "send"]
        /\ UNCHANGED <<requests, queue, server, request, pid, got, gone, lost>>
    BY <1>3 DEF OpenRequest
  <2>2. Answers' = Answers
    BY <2>1 DEF Answers
  <2> QED
    BY <2>1, <2>2, QuietPlaces DEF ClientPlaces
<1>4. CASE KillClient(c) \/ (ClientFails(c) /\ client[c] = "openOwn")
  <2>1. /\ client' = [client EXCEPT ![c] = "done"] /\ gone' # {}
        /\ UNCHANGED <<requests, queue, server, request, pid, got, lost>>
    BY <1>4 DEF KillClient, ClientFails
  <2>2. Answers' = Answers
    BY <2>1 DEF Answers
  <2> QED
    BY <2>1, <2>2, QuietPlaces DEF ClientPlaces
<1>5. CASE SendRequest(c)
  BY <1>5, SendPlaces
<1>6. CASE ReceiveResponse(c)
  BY <1>6, ReceivePlaces
<1>7. CASE NoServer(c) \/ Finish(c)
  <2>1. /\ Unlink(c) /\ client[c] \in {"openRequest", "unlink"}
        /\ client' = [client EXCEPT ![c] = "done"]
        /\ UNCHANGED <<requests, server, request, pid, got, gone>>
    BY <1>7 DEF NoServer, Finish
  <2>2. pid[c] \in Pids
    BY <1>0, <2>1 DEF Opened
  <2> QED
    BY <2>1, <2>2, UnlinkPlaces
<1>8. CASE ClientFails(c) /\ client[c] # "openOwn"
  <2>1. /\ Unlink(c) /\ client[c] # "idle" /\ gone' # {}
        /\ client' = [client EXCEPT ![c] = "done"]
        /\ UNCHANGED <<requests, server, request, pid, got>>
    BY <1>8 DEF ClientFails
  <2>2. pid[c] \in Pids
    BY <1>0, <2>1 DEF Opened
  <2> QED
    BY <2>1, <2>2, UnlinkPlaces
<1> QED
  BY <1>1, <1>2, <1>3, <1>4, <1>5, <1>6, <1>7, <1>8 DEF ClientAction, ClientStep

-----------------------------------------------------------------------------
(* The theorems *)

\* IInv holds in every reachable state.
THEOREM Invariance == Spec => []IInv
<1>1. IInv /\ [Next]_vars => IInv'
  <2>1. ASSUME IInv, ServerAction PROVE IInv'
    BY <2>1, ServerTypes, ServerPlaces DEF IInv
  <2>2. ASSUME IInv, NEW c \in Clients, ClientAction(c) PROVE IInv'
    BY <2>2, ClientTypes, ClientMoves DEF IInv
  <2>3. ASSUME IInv, UNCHANGED vars PROVE IInv'
    BY <2>3 DEF IInv, Types, Opened, Live, ResponseName, Single, Apart, Tracked, Somewhere,
       InOrder, QueuesBelongToTheLiving, Waiting, AtServer, Answers, vars
  <2> QED
    BY <2>1, <2>2, <2>3 DEF Next, ServerAction, ClientAction
<1> QED
  BY <1>1, InitIInv, PTL DEF Spec

\* No request, and no response, is doubled or disappears unnoticed, whatever dies
\* and however often the server is started again (mqServer.c, mqClient.c).
THEOREM CopiesSingle == Spec => []OneCopy
<1>1. ASSUME IInv PROVE OneCopy
  <2> SUFFICES ASSUME NEW c \in Clients
               PROVE  LET places == {w \in DOMAIN Copies(c) : Copies(c)[w]}
                      IN  /\ Cardinality(places) <= 1
                          /\ Sent(c) => places # {}
                          /\ Cardinality({d \in Clients : got[d] = c}) <= 1
    BY DEF OneCopy
  <2> DEFINE places == {w \in DOMAIN Copies(c) : Copies(c)[w]}
             readers == {d \in Clients : got[d] = c}
  <2>1. /\ DOMAIN Copies(c) = {"waiting", "atServer", "answered", "read", "destroyed"}
        /\ Copies(c).waiting <=> c \in Waiting
        /\ Copies(c).atServer <=> c \in AtServer
        /\ Copies(c).answered <=> \E p \in Pids : c \in Answers[p]
        /\ Copies(c).read <=> \E d \in Clients : got[d] = c
        /\ Copies(c).destroyed <=> c \in lost
    BY DEF Copies, Waiting, AtServer, Answers, Contents
  <2>2. \A v, w \in places : v = w
    BY <1>1, <2>1 DEF IInv, Apart
  <2>3. c # None
    BY MqAssumption
  <2>4. \A d, e \in readers : d = e
    BY <1>1, <2>3 DEF IInv, Apart
  <2>5. ASSUME NEW S, \A v, w \in S : v = w
        PROVE  Cardinality(S) <= 1
    <3>1. CASE S = {}
      BY <3>1, FS_EmptySet
    <3>2. CASE S # {}
      <4>1. PICK x : S = {x}
        BY <2>5, <3>2
      <4> QED
        BY <4>1, FS_Singleton
    <3> QED
      BY <3>1, <3>2
  <2>6. Sent(c) => Somewhere(c)
    BY <1>1 DEF IInv, Tracked, Sent, Somewhere
  <2>7. Somewhere(c) => places # {}
    BY <2>1 DEF Somewhere
  <2> QED
    BY <2>2, <2>4, <2>5, <2>6, <2>7
<1> QED
  BY <1>1, Invariance, PTL

\* While no client dies, no response queue outlives its client (the O_CREAT of
\* mqServer.c, line 68).
THEOREM QueuesOwned == Spec => []QueuesBelongToTheLiving
<1>1. IInv => QueuesBelongToTheLiving
  BY DEF IInv, InOrder, QueuesBelongToTheLiving
<1> QED
  BY <1>1, Invariance, PTL

-----------------------------------------------------------------------------
(* Who reads what, and how many responses are left over *)

Sending == server = "send"

\* The processes that died with an id, and those that may leave one response
\* unread: they died, or they wait for one.
GoneWith(p) == {c \in gone : pid[c] = p}
MayLeave(p) == {c \in Clients : pid[c] = p /\ (c \in gone \/ client[c] = "receive")}

\* The requests of an id whose responses are still to be read.
Pending(p) == {c \in Clients : pid[c] = p /\ c \in Waiting \cup AtServer \cup Answers[p]}

\* A process that is gone has run, and it is done.
Departed == IsFiniteSet(gone) /\ \A c \in gone : client[c] = "done"

\* A response is in the queue of its process id; a process that does not wait for
\* its response any more has died, or has read another one.
Addressed == \A p \in Pids : \A c \in Answers[p] : pid[c] = p
Accounted ==
    \A c \in Clients :
        Somewhere(c) /\ client[c] \in {"unlink", "done"} => c \in gone \/ got[c] # None

\* While nobody with its id has died, a process waits for its own response.
Clean ==
    \A p \in Pids : GoneWith(p) = {} => \A c \in Pending(p) : client[c] = "receive"

Shifted ==
    \A c \in Clients :
        got[c] \notin {None, c} =>
            /\ pid[got[c]] = pid[c] /\ client[got[c]] = "done"
            /\ \E e \in gone : pid[e] = pid[c]

\* Every process reads one response, so no more are left over than processes
\* that read none.
Counted ==
    \A p \in Pids :
        /\ IsFiniteSet(Pending(p)) /\ IsFiniteSet(MayLeave(p))
        /\ Cardinality(Pending(p)) <= Cardinality(MayLeave(p))
Orphaned ==
    orphan # None => Sending /\ Len(orphan) <= Cardinality(GoneWith(pid[request]))

RInv == Departed /\ Addressed /\ Accounted /\ Clean /\ Shifted /\ Counted /\ Orphaned

\* What a step of a client does to the places of the requests.
ClientEffect(c) ==
    /\ AtServer' = AtServer /\ UNCHANGED <<server, request>>
    /\ client[c] # "done"
    /\ \A d \in Clients : d # c => client'[d] = client[d] /\ pid'[d] = pid[d]
    /\ client[c] # "idle" => pid'[c] = pid[c]
    /\ \/ \* it starts, or opens a queue
          /\ client[c] \in {"idle", "openOwn", "openRequest"}
          /\ client'[c] \in {"openOwn", "openRequest", "send"}
          /\ UNCHANGED <<got, gone, lost, orphan>> /\ Waiting' = Waiting /\ Answers' = Answers
       \/ \* it sends its request
          /\ client[c] = "send" /\ client'[c] = "receive"
          /\ UNCHANGED <<got, gone, lost, orphan>>
          /\ Waiting' = Waiting \cup {c} /\ Answers' = Answers
       \/ \* it reads a response
          /\ client[c] = "receive" /\ client'[c] = "unlink" /\ pid[c] \in Pids
          /\ UNCHANGED <<gone, lost, orphan>> /\ Waiting' = Waiting
          /\ \E h \in Answers[pid[c]] :
               /\ h \in Clients /\ got' = [got EXCEPT ![c] = h]
               /\ Answers' = [Answers EXCEPT ![pid[c]] = @ \ {h}]
       \/ \* it unlinks its queue, at its end or because it fails
          /\ Unlink(c) /\ client[c] # "idle" /\ client'[c] = "done" /\ pid[c] \in Pids
          /\ \/ client[c] \in {"openRequest", "unlink"} /\ gone' = gone
             \/ gone' = gone \cup {c}
          /\ UNCHANGED got /\ Waiting' = Waiting
          /\ lost' = lost \cup Answers[pid[c]] /\ Answers' = [Answers EXCEPT ![pid[c]] = {}]
       \/ \* it dies, and its queue stays
          /\ client[c] # "idle" /\ client'[c] = "done" /\ gone' = gone \cup {c}
          /\ UNCHANGED <<got, lost, orphan>> /\ Waiting' = Waiting /\ Answers' = Answers

LEMMA StepClientEffect ==
  ASSUME IInv, NEW c \in Clients, ClientAction(c)
  PROVE  ClientEffect(c)
<1> USE DEF serverVars, Move, ResponseName
<1>0. Types /\ Opened
  BY DEF IInv
<1>1. CASE StartClient(c)
  <2>1. /\ client[c] = "idle" /\ client' = [client EXCEPT ![c] = "openOwn"]
        /\ \A d \in Clients : d # c => pid'[d] = pid[d]
        /\ UNCHANGED <<requests, queue, server, request, orphan, got, gone, lost>>
    BY <1>0, <1>1 DEF StartClient, Types
  <2> QED
    BY <1>0, <2>1 DEF ClientEffect, Types, Waiting, AtServer, Answers
<1>2. CASE OpenOwn(c)
  <2>1. /\ client[c] = "openOwn" /\ client' = [client EXCEPT ![c] = "openRequest"]
        /\ pid[c] \in Pids /\ queue' = [queue EXCEPT ![pid[c]] = Created(queue[pid[c]])]
        /\ UNCHANGED <<requests, server, request, orphan, pid, got, gone, lost>>
    BY <1>0, <1>2 DEF OpenOwn, Opened
  <2>2. Answers' = Answers
    BY <1>0, <2>1, CreatedContents DEF Answers, Types
  <2> QED
    BY <1>0, <2>1, <2>2 DEF ClientEffect, Types, Waiting, AtServer
<1>3. CASE OpenRequest(c)
  <2>1. /\ client[c] = "openRequest" /\ client' = [client EXCEPT ![c] = "send"]
        /\ UNCHANGED <<requests, queue, server, request, orphan, pid, got, gone, lost>>
    BY <1>3 DEF OpenRequest
  <2> QED
    BY <1>0, <2>1 DEF ClientEffect, Types, Waiting, AtServer, Answers
<1>4. CASE KillClient(c) \/ (ClientFails(c) /\ client[c] = "openOwn")
  <2>1. /\ client' = [client EXCEPT ![c] = "done"] /\ gone' = gone \cup {c}
        /\ client[c] \notin {"idle", "done"}
        /\ UNCHANGED <<requests, queue, server, request, orphan, pid, got, lost>>
    BY <1>4 DEF KillClient, ClientFails, Live
  <2> QED
    BY <1>0, <2>1 DEF ClientEffect, Types, Waiting, AtServer, Answers
<1>5. CASE SendRequest(c)
  <2>1. /\ client[c] = "send" /\ client' = [client EXCEPT ![c] = "receive"]
        /\ requests' = Append(requests, c) /\ requests \in Queues /\ requests # None
        /\ UNCHANGED <<queue, server, request, orphan, pid, got, gone, lost>>
    BY <1>0, <1>5 DEF SendRequest, Types, Opened
  <2>2. Append(requests, c) # None /\ Contents(Append(requests, c)) = Contents(requests) \cup {c}
    BY <2>1, AppendContents, QueueIsNotNone
  <2>3. Waiting' = Waiting \cup {c}
    BY <2>1, <2>2 DEF Waiting
  <2> QED
    BY <1>0, <2>1, <2>3 DEF ClientEffect, Types, AtServer, Answers
<1>6. CASE ReceiveResponse(c)
  <2>1. /\ pid[c] \in Pids
        /\ client[c] = "receive" /\ client' = [client EXCEPT ![c] = "unlink"]
        /\ UNCHANGED <<requests, server, request, orphan, pid, gone, lost>>
        /\ \E h \in Answers[pid[c]] :
             /\ h \in Clients /\ got' = [got EXCEPT ![c] = h]
             /\ Answers' = [Answers EXCEPT ![pid[c]] = @ \ {h}]
    BY <1>6, ReceiveEffect
  <2>2. /\ client'[c] = "unlink" /\ \A d \in Clients : d # c => client'[d] = client[d]
        /\ Waiting' = Waiting /\ AtServer' = AtServer
    BY <1>0, <2>1 DEF Types, Waiting, AtServer
  <2> QED
    BY <2>1, <2>2 DEF ClientEffect
<1>7. ASSUME Unlink(c), client[c] \in {"openRequest", "unlink", "send", "receive"},
             client' = [client EXCEPT ![c] = "done"],
             UNCHANGED <<requests, server, request, pid, got>>,
             \/ client[c] \in {"openRequest", "unlink"} /\ gone' = gone
             \/ gone' = gone \cup {c}
      PROVE  ClientEffect(c)
  <2>1. pid[c] \in Pids
    BY <1>0, <1>7 DEF Opened
  <2>2. queue' = [queue EXCEPT ![pid[c]] = None] /\ lost' = lost \cup Answers[pid[c]]
    BY <1>7, <2>1, UnlinkTypes
  <2>3. Answers' = [Answers EXCEPT ![pid[c]] = {}]
    BY <1>0, <2>2 DEF Answers, Contents, Types
  <2>4. /\ client'[c] = "done" /\ \A d \in Clients : d # c => client'[d] = client[d]
        /\ Waiting' = Waiting /\ AtServer' = AtServer
    BY <1>0, <1>7 DEF Types, Waiting, AtServer
  <2> QED
    BY <1>7, <2>1, <2>2, <2>3, <2>4 DEF ClientEffect
<1>8. CASE NoServer(c)
  BY <1>7, <1>8 DEF NoServer
<1>9. CASE Finish(c)
  BY <1>7, <1>9 DEF Finish
<1>10. CASE ClientFails(c) /\ client[c] # "openOwn"
  BY <1>7, <1>10 DEF ClientFails
<1> QED
  BY <1>1, <1>2, <1>3, <1>4, <1>5, <1>6, <1>8, <1>9, <1>10 DEF ClientAction, ClientStep

\* A request on its way belongs to a process that has started.
LEMMA OnItsWay ==
  ASSUME IInv
  PROVE  /\ Waiting \subseteq Clients /\ AtServer \subseteq Clients
         /\ Answers \in [Pids -> SUBSET Clients]
         /\ \A c \in Clients : Somewhere(c) => client[c] \in {"receive", "unlink", "done"}
         /\ \A c \in Waiting \cup AtServer : Somewhere(c)
         /\ \A p \in Pids : \A c \in Answers[p] : Somewhere(c)
         /\ \A p \in Pids : \A c \in Pending(p) : Somewhere(c)
  BY PlaceTypes DEF IInv, Tracked, Answers, Somewhere, Pending

\* A step leaves everybody who has started the same id, and nobody comes back.
LEMMA StepPids ==
  ASSUME IInv, RInv, NEW c \in Clients, ClientEffect(c)
  PROVE  /\ \A d \in Clients : client[d] # "idle" => pid'[d] = pid[d]
         /\ \A d \in Clients : client[d] = "done" => client'[d] = "done"
         /\ gone \subseteq gone' /\ gone' \subseteq gone \cup {c}
         /\ gone \subseteq Clients /\ gone' \subseteq Clients /\ c \notin gone
         /\ c \in gone' => client'[c] = "done" /\ client[c] # "idle"
         /\ \A p : GoneWith(p) \subseteq GoneWith(p)'
         /\ \A p : GoneWith(p)' \subseteq GoneWith(p) \cup {c}
<1>1. /\ \A d \in Clients : client[d] # "idle" => pid'[d] = pid[d]
      /\ \A d \in Clients : client[d] = "done" => client'[d] = "done"
  BY DEF ClientEffect
<1>2. gone \subseteq Clients /\ c \notin gone
  BY DEF ClientEffect, RInv, Departed, IInv, Types
<1>3. /\ gone \subseteq gone' /\ gone' \subseteq gone \cup {c}
      /\ c \in gone' => client'[c] = "done" /\ client[c] # "idle"
  BY <1>2 DEF ClientEffect
<1>4. \A d \in gone : pid'[d] = pid[d]
  BY <1>1, <1>2 DEF RInv, Departed
<1>. QED
  BY <1>1, <1>2, <1>3, <1>4 DEF GoneWith

LEMMA ClientDeparted ==
  ASSUME IInv, RInv, NEW c \in Clients, ClientEffect(c)
  PROVE  Departed'
<1>1. /\ gone \subseteq gone' /\ gone' \subseteq gone \cup {c}
      /\ c \in gone' => client'[c] = "done"
      /\ gone \subseteq Clients /\ \A d \in Clients : client[d] = "done" => client'[d] = "done"
  BY StepPids
<1>2. IsFiniteSet(gone \cup {c})
  BY FS_AddElement DEF RInv, Departed
<1>3. IsFiniteSet(gone')
  BY <1>1, <1>2, FS_Subset
<1>. QED
  BY <1>1, <1>3 DEF RInv, Departed

LEMMA ClientAddressed ==
  ASSUME IInv, RInv, NEW c \in Clients, ClientEffect(c)
  PROVE  Addressed'
<1>1. ASSUME NEW p \in Pids
      PROVE  Answers'[p] \subseteq Answers[p]
  BY OnItsWay DEF ClientEffect
<1>2. \A p \in Pids : \A d \in Answers[p] : d \in Clients /\ client[d] # "idle"
  BY OnItsWay
<1>3. \A d \in Clients : client[d] # "idle" => pid'[d] = pid[d]
  BY StepPids
<1>. QED
  BY <1>1, <1>2, <1>3 DEF RInv, Addressed

\* Where a request comes from that is somewhere after a step.
LEMMA StepSomewhere ==
  ASSUME IInv, NEW c \in Clients, ClientEffect(c), NEW d \in Clients, Somewhere(d)'
  PROVE  Somewhere(d) \/ (d = c /\ client'[c] = "receive")
<1>1. CASE got' = got
  BY <1>1, OnItsWay DEF ClientEffect, Somewhere
<1>2. CASE got' # got
  <2>1. /\ Waiting' = Waiting /\ AtServer' = AtServer /\ lost' = lost /\ pid[c] \in Pids
        /\ \E h \in Answers[pid[c]] :
             /\ got' = [got EXCEPT ![c] = h]
             /\ Answers' = [Answers EXCEPT ![pid[c]] = @ \ {h}]
    BY <1>2 DEF ClientEffect
  <2>. QED
    BY <2>1, OnItsWay DEF Somewhere, IInv, Types
<1>. QED
  BY <1>1, <1>2

LEMMA ClientAccounted ==
  ASSUME IInv, RInv, NEW c \in Clients, ClientEffect(c)
  PROVE  Accounted'
<1> SUFFICES ASSUME NEW d \in Clients, Somewhere(d)', client'[d] \in {"unlink", "done"}
             PROVE  d \in gone' \/ got'[d] # None
  BY DEF Accounted
<1>1. Somewhere(d)
  BY StepSomewhere
<1>2. client[d] \in {"receive", "unlink", "done"}
  BY <1>1, OnItsWay
<1>3. CASE d # c
  <2>1. gone \subseteq gone'
    BY StepPids
  <2>2. client'[d] = client[d] /\ got'[d] = got[d]
    BY <1>3 DEF ClientEffect, IInv, Types
  <2>. QED
    BY <1>1, <2>1, <2>2 DEF RInv, Accounted
<1>4. CASE d = c
  <2>1. CASE client[c] = "receive" /\ client'[c] = "unlink"
    <3>1. \E h \in Clients : got' = [got EXCEPT ![c] = h]
      BY <2>1 DEF ClientEffect
    <3>. QED
      BY <1>4, <3>1, MqAssumption DEF IInv, Types
  <2>2. CASE c \in gone'
    BY <1>4, <2>2
  <2>3. CASE client[c] = "unlink" /\ client'[c] = "done" /\ got' = got
    BY <1>1, <1>4, <2>3, StepPids DEF RInv, Accounted
  <2>. QED
    BY <1>2, <1>4, <2>1, <2>2, <2>3 DEF ClientEffect
<1>. QED
  BY <1>3, <1>4

\* A reader of a response that is not its own comes after a process that died.
LEMMA ClientShifted ==
  ASSUME IInv, RInv, NEW c \in Clients, ClientEffect(c)
  PROVE  Shifted'
<1> SUFFICES ASSUME NEW d \in Clients, got'[d] \notin {None, d}
             PROVE  /\ pid'[got'[d]] = pid'[d] /\ client'[got'[d]] = "done"
                    /\ \E e \in gone' : pid'[e] = pid'[d]
  BY DEF Shifted
<1> DEFINE g == got'[d]
<1>1. SUFFICES /\ g \in Clients /\ client[d] # "idle"
               /\ pid[g] = pid[d] /\ client[g] = "done"
               /\ \E e \in gone : pid[e] = pid[d]
  <2>1. /\ \A e \in Clients : client[e] # "idle" => pid'[e] = pid[e]
        /\ \A e \in Clients : client[e] = "done" => client'[e] = "done"
        /\ gone \subseteq gone' /\ gone \subseteq Clients
    BY StepPids
  <2>2. \A e \in gone : client[e] = "done"
    BY DEF RInv, Departed
  <2>. QED
    BY <1>1, <2>1, <2>2
<1>2. CASE got'[d] = got[d]
  BY <1>2 DEF RInv, Shifted, IInv, Types, Tracked
<1>3. CASE got'[d] # got[d]
  <2>1. d = c /\ client[c] = "receive" /\ pid[c] \in Pids /\ g \in Answers[pid[c]] /\ g \in Clients
    BY <1>3 DEF ClientEffect, IInv, Types
  <2>2. pid[g] = pid[c]
    BY <2>1 DEF RInv, Addressed
  <2>3. g # c
    BY <2>1
  <2>4. client[g] = "done"
    <3>1. client[g] \in {"receive", "unlink", "done"}
      BY <2>1, OnItsWay
    <3>. QED
      BY <2>1, <2>2, <2>3, <3>1 DEF IInv, Opened, Live
  <2>5. g \in Pending(pid[c])
    BY <2>1, <2>2 DEF Pending
  <2>6. GoneWith(pid[c]) # {}
    BY <2>1, <2>4, <2>5 DEF RInv, Clean
  <2>. QED
    BY <2>1, <2>2, <2>4, <2>6 DEF GoneWith
<1>. QED
  BY <1>2, <1>3

\* What a step of a client leaves to be read.
LEMMA StepPending ==
  ASSUME IInv, RInv, NEW c \in Clients, ClientEffect(c), NEW p \in Pids
  PROVE  /\ \A d \in Pending(p)' : d \in Pending(p) \/ (d = c /\ client'[c] = "receive")
         /\ client[c] = "receive" /\ client'[c] = "unlink" /\ pid[c] = p =>
              \E h \in Pending(p) : Pending(p)' = Pending(p) \ {h} /\ (GoneWith(p) = {} => h = c)
<1>1. \A d \in Clients : client[d] # "idle" => pid'[d] = pid[d]
  BY StepPids
<1>2. /\ Waiting \subseteq Clients /\ AtServer \subseteq Clients
      /\ Answers \in [Pids -> SUBSET Clients]
      /\ \A d \in Clients : Somewhere(d) => client[d] \in {"receive", "unlink", "done"}
      /\ \A d \in Waiting \cup AtServer : Somewhere(d)
      /\ \A d \in Answers[p] : Somewhere(d)
  BY OnItsWay
<1>3. ASSUME NEW d \in Pending(p)', ~(d = c /\ client'[c] = "receive")
      PROVE  d \in Pending(p)
  <2>1. d \in Waiting' \cup AtServer' \cup Answers'[p] /\ d \in Clients /\ pid'[d] = p
    BY <1>3 DEF Pending
  <2>2. d \in Waiting \cup AtServer \cup Answers[p]
    BY <1>2, <1>3, <2>1 DEF ClientEffect
  <2>3. client[d] # "idle"
    BY <1>2, <2>1, <2>2
  <2>. QED
    BY <1>1, <2>1, <2>2, <2>3 DEF Pending
<1>4. ASSUME client[c] = "receive", client'[c] = "unlink", pid[c] = p
      PROVE  \E h \in Pending(p) : Pending(p)' = Pending(p) \ {h} /\ (GoneWith(p) = {} => h = c)
  <2>1. /\ Waiting' = Waiting /\ AtServer' = AtServer
        /\ \E h \in Answers[p] : h \in Clients /\ Answers' = [Answers EXCEPT ![p] = @ \ {h}]
    BY <1>4 DEF ClientEffect
  <2>2. PICK h \in Answers[p] : h \in Clients /\ Answers' = [Answers EXCEPT ![p] = @ \ {h}]
    BY <2>1
  <2>3. pid[h] = p /\ h \in Pending(p)
    BY <2>2 DEF RInv, Addressed, Pending
  <2>4. h \notin Waiting \cup AtServer
    BY <2>2 DEF IInv, Apart
  <2>5. \A d \in Waiting \cup AtServer \cup Answers[p] : pid'[d] = pid[d]
    BY <1>1, <1>2
  <2>6. Answers'[p] = Answers[p] \ {h}
    BY <1>2, <2>2
  <2>7. Pending(p)' = Pending(p) \ {h}
    BY <1>2, <2>1, <2>4, <2>5, <2>6 DEF Pending
  <2>8. GoneWith(p) = {} => h = c
    BY <1>4, <2>3 DEF RInv, Clean, IInv, Opened, Live, Pending
  <2>. QED
    BY <2>3, <2>7, <2>8
<1>. QED
  BY <1>3, <1>4

LEMMA ClientClean ==
  ASSUME IInv, RInv, NEW c \in Clients, ClientEffect(c)
  PROVE  Clean'
<1> SUFFICES ASSUME NEW p \in Pids, GoneWith(p)' = {}, NEW d \in Pending(p)'
             PROVE  client'[d] = "receive"
  BY DEF Clean
<1>1. GoneWith(p) = {}
  BY StepPids
<1>2. CASE d # c
  <2>1. d \in Pending(p) /\ d \in Clients
    BY <1>2, StepPending DEF Pending
  <2>2. client'[d] = client[d]
    BY <1>2, <2>1 DEF ClientEffect
  <2>. QED
    BY <1>1, <2>1, <2>2 DEF RInv, Clean
<1>3. CASE d = c /\ client'[c] # "receive"
  <2>1. c \in Pending(p)
    BY <1>3, StepPending
  <2>2. client[c] = "receive" /\ pid[c] = p
    BY <1>1, <2>1 DEF RInv, Clean, Pending
  <2>3. CASE client'[c] = "unlink"
    <3>1. c \notin Pending(p)'
      BY <1>1, <2>2, <2>3, StepPending
    <3>. QED
      BY <1>3, <3>1
  <2>4. CASE c \in gone'
    BY <2>2, <2>4, StepPids DEF GoneWith
  <2>. QED
    BY <2>2, <2>3, <2>4 DEF ClientEffect
<1>. QED
  BY <1>2, <1>3

\* Sets that change by one element.
LEMMA CountsKept ==
  ASSUME NEW S, NEW T, IsFiniteSet(S), IsFiniteSet(T), Cardinality(S) <= Cardinality(T),
         NEW S1, NEW T1, NEW c,
         \/ S1 \subseteq S /\ T \subseteq T1 /\ T1 \subseteq T \cup {c}
         \/ S1 \subseteq S \cup {c} /\ c \notin T /\ T1 = T \cup {c}
         \/ T1 = T \ {c} /\ \E h \in S : S1 = S \ {h}
  PROVE  IsFiniteSet(S1) /\ IsFiniteSet(T1) /\ Cardinality(S1) <= Cardinality(T1)
<1>1. Cardinality(S) \in Nat /\ Cardinality(T) \in Nat
  BY FS_CardinalityType
<1>2. CASE S1 \subseteq S /\ T \subseteq T1 /\ T1 \subseteq T \cup {c}
  <2>1. IsFiniteSet(S1) /\ Cardinality(S1) <= Cardinality(S)
    BY <1>2, FS_Subset
  <2>2. IsFiniteSet(T \cup {c})
    BY FS_AddElement
  <2>3. IsFiniteSet(T1)
    BY <1>2, <2>2, FS_Subset
  <2>4. Cardinality(T) <= Cardinality(T1)
    BY <1>2, <2>3, FS_Subset
  <2>5. Cardinality(S1) \in Nat /\ Cardinality(T1) \in Nat
    BY <2>1, <2>3, FS_CardinalityType
  <2>. QED
    BY <1>1, <2>1, <2>3, <2>4, <2>5
<1>3. CASE S1 \subseteq S \cup {c} /\ c \notin T /\ T1 = T \cup {c}
  <2>0. /\ IsFiniteSet(S \cup {c})
        /\ \/ Cardinality(S \cup {c}) = Cardinality(S)
           \/ Cardinality(S \cup {c}) = Cardinality(S) + 1
    BY FS_AddElement, Zenon
  <2>1. IsFiniteSet(S \cup {c}) /\ Cardinality(S \cup {c}) <= Cardinality(S) + 1
    BY <1>1, <2>0
  <2>2. IsFiniteSet(T1) /\ Cardinality(T1) = Cardinality(T) + 1
    BY <1>3, FS_AddElement
  <2>3. IsFiniteSet(S1) /\ Cardinality(S1) <= Cardinality(S \cup {c})
    BY <1>3, <2>1, FS_Subset
  <2>4. Cardinality(S1) \in Nat /\ Cardinality(S \cup {c}) \in Nat
    BY <2>1, <2>3, FS_CardinalityType
  <2>. QED
    BY <1>1, <2>1, <2>2, <2>3, <2>4
<1>4. CASE T1 = T \ {c} /\ \E h \in S : S1 = S \ {h}
  <2>1. IsFiniteSet(S1) /\ Cardinality(S1) = Cardinality(S) - 1
    BY <1>4, FS_RemoveElement
  <2>0. /\ IsFiniteSet(T \ {c})
        /\ \/ Cardinality(T \ {c}) = Cardinality(T)
           \/ Cardinality(T \ {c}) = Cardinality(T) - 1
    BY FS_RemoveElement, Zenon
  <2>2. IsFiniteSet(T1) /\ Cardinality(T1) >= Cardinality(T) - 1
    BY <1>1, <1>4, <2>0
  <2>3. Cardinality(S1) \in Nat /\ Cardinality(T1) \in Nat
    BY <2>1, <2>2, FS_CardinalityType
  <2>. QED
    BY <1>1, <2>1, <2>2, <2>3
<1>. QED
  BY <1>2, <1>3, <1>4

\* How a step of a client changes who may leave a response.
LEMMA StepMayLeave ==
  ASSUME IInv, RInv, NEW c \in Clients, ClientEffect(c), NEW p \in Pids
  PROVE  \/ /\ Pending(p)' \subseteq Pending(p)
            /\ MayLeave(p) \subseteq MayLeave(p)' /\ MayLeave(p)' \subseteq MayLeave(p) \cup {c}
         \/ /\ Pending(p)' \subseteq Pending(p) \cup {c}
            /\ c \notin MayLeave(p) /\ MayLeave(p)' = MayLeave(p) \cup {c}
         \/ /\ MayLeave(p)' = MayLeave(p) \ {c}
            /\ \E h \in Pending(p) : Pending(p)' = Pending(p) \ {h}
<1>1. /\ \A d \in Clients : client[d] # "idle" => pid'[d] = pid[d]
      /\ gone \subseteq gone' /\ gone' \subseteq gone \cup {c} /\ c \notin gone
  BY StepPids
<1>2. /\ \A d \in Clients : d # c => client'[d] = client[d] /\ pid'[d] = pid[d]
      /\ client[c] # "idle" => pid'[c] = pid[c]
  BY DEF ClientEffect
<1>3. \A d \in Pending(p)' : d \in Pending(p) \/ (d = c /\ client'[c] = "receive")
  BY StepPending
<1>4. \A d \in Clients : d # c => (d \in MayLeave(p)' <=> d \in MayLeave(p))
  BY <1>1, <1>2 DEF MayLeave
<1>5. CASE client[c] = "send" /\ client'[c] = "receive" /\ gone' = gone
  <2>1. CASE pid[c] = p
    <3>1. c \notin MayLeave(p) /\ c \in MayLeave(p)'
      BY <1>1, <1>2, <1>5, <2>1 DEF MayLeave
    <3>2. MayLeave(p)' = MayLeave(p) \cup {c}
      BY <1>4, <3>1 DEF MayLeave
    <3>. QED
      BY <1>3, <3>1, <3>2
  <2>2. CASE pid[c] # p
    <3>1. c \notin MayLeave(p) /\ c \notin MayLeave(p)' /\ c \notin Pending(p)'
      BY <1>2, <1>5, <2>2 DEF MayLeave, Pending
    <3>2. MayLeave(p)' = MayLeave(p)
      BY <1>4, <3>1 DEF MayLeave
    <3>. QED
      BY <1>3, <3>1, <3>2
  <2>. QED
    BY <2>1, <2>2
<1>6. CASE client[c] = "receive" /\ client'[c] = "unlink" /\ gone' = gone
  <2>1. CASE pid[c] = p
    <3>1. c \notin MayLeave(p)'
      BY <1>1, <1>6 DEF MayLeave
    <3>2. MayLeave(p)' = MayLeave(p) \ {c}
      BY <1>4, <3>1 DEF MayLeave
    <3>3. \E h \in Pending(p) : Pending(p)' = Pending(p) \ {h}
      BY <1>6, <2>1, StepPending
    <3>. QED
      BY <3>2, <3>3
  <2>2. CASE pid[c] # p
    <3>1. c \notin MayLeave(p) /\ c \notin MayLeave(p)'
      BY <1>2, <1>6, <2>2 DEF MayLeave
    <3>2. MayLeave(p)' = MayLeave(p)
      BY <1>4, <3>1 DEF MayLeave
    <3>. QED
      BY <1>3, <1>6, <3>2
  <2>. QED
    BY <2>1, <2>2
<1>7. CASE client'[c] # "receive" /\ (client[c] # "receive" \/ c \in gone')
  <2>1. c \in MayLeave(p) => c \in MayLeave(p)'
    BY <1>1, <1>2, <1>7 DEF MayLeave
  <2>2. MayLeave(p) \subseteq MayLeave(p)' /\ MayLeave(p)' \subseteq MayLeave(p) \cup {c}
    BY <1>4, <2>1 DEF MayLeave
  <2>. QED
    BY <1>3, <1>7, <2>2
<1>. QED
  BY <1>5, <1>6, <1>7 DEF ClientEffect

LEMMA ClientCounted ==
  ASSUME IInv, RInv, NEW c \in Clients, ClientEffect(c)
  PROVE  Counted'
<1> SUFFICES ASSUME NEW p \in Pids
             PROVE  /\ IsFiniteSet(Pending(p)') /\ IsFiniteSet(MayLeave(p)')
                    /\ Cardinality(Pending(p)') <= Cardinality(MayLeave(p)')
  BY DEF Counted
<1>1. /\ IsFiniteSet(Pending(p)) /\ IsFiniteSet(MayLeave(p))
      /\ Cardinality(Pending(p)) <= Cardinality(MayLeave(p))
  BY DEF RInv, Counted
<1>2. \/ /\ Pending(p)' \subseteq Pending(p)
         /\ MayLeave(p) \subseteq MayLeave(p)' /\ MayLeave(p)' \subseteq MayLeave(p) \cup {c}
      \/ /\ Pending(p)' \subseteq Pending(p) \cup {c}
         /\ c \notin MayLeave(p) /\ MayLeave(p)' = MayLeave(p) \cup {c}
      \/ /\ MayLeave(p)' = MayLeave(p) \ {c}
         /\ \E h \in Pending(p) : Pending(p)' = Pending(p) \ {h}
  BY StepMayLeave
<1>. QED
  BY <1>1, <1>2, CountsKept

\* A queue holds as many requests as it is long.
LEMMA QueueLength ==
  ASSUME NEW q \in Queues, NoRepeat(q)
  PROVE  /\ Len(q) \in Nat
         /\ IsFiniteSet(Contents(q)) /\ Cardinality(Contents(q)) = Len(q)
<1> DEFINE n == Len(q)
           f == [i \in 1 .. n |-> q[i]]
<1>1. n \in Nat /\ DOMAIN q = 1 .. n /\ q # None
  BY MqAssumption DEF Queues
<1>2. Contents(q) = {q[i] : i \in 1 .. n}
  BY <1>1 DEF Contents, ToSet
<1>3. f \in Surjection(1 .. n, Contents(q))
  BY <1>2 DEF Surjection
<1>4. f \in Injection(1 .. n, Contents(q))
  <2>1. \A i, j \in 1 .. n : f[i] = f[j] => i = j
    BY <1>1 DEF NoRepeat
  <2>. QED
    BY <1>2, <2>1 DEF Injection, IsInjective
<1>5. IsFiniteSet(1 .. n) /\ Cardinality(1 .. n) = n
  <2>1. 1 \in Int /\ n \in Int /\ IF 1 > n THEN 0 = n ELSE n - 1 + 1 = n
    BY <1>1
  <2>2. /\ IsFiniteSet(1 .. n)
        /\ Cardinality(1 .. n) = IF 1 > n THEN 0 ELSE n - 1 + 1
    BY <2>1, FS_Interval, Zenon
  <2>. QED
    BY <2>1, <2>2
<1> HIDE DEF f
<1>. QED
  BY <1>1, <1>3, <1>4, <1>5, FS_Surjection

\* A response queue, and the request that the server is about to answer into it.
LEMMA QueueIsPending ==
  ASSUME IInv, RInv, server = "send", NEW p \in Pids, p = pid[request], queue[p] # None
  PROVE  /\ Len(queue[p]) \in Nat /\ Cardinality(MayLeave(p)) \in Nat
         /\ Len(queue[p]) + 1 <= Cardinality(MayLeave(p))
<1>1. queue[p] \in Queues /\ NoRepeat(queue[p]) /\ Answers[p] = Contents(queue[p])
  BY DEF IInv, Types, Single, Answers
<1>2. /\ Len(queue[p]) \in Nat
      /\ IsFiniteSet(Answers[p]) /\ Cardinality(Answers[p]) = Len(queue[p])
  BY <1>1, QueueLength
<1>3. AtServer = {request} /\ request \in Clients /\ request \notin Answers[p]
  BY DEF AtServer, IInv, Opened, Apart
<1>4. Answers[p] \cup {request} \subseteq Pending(p)
  BY <1>3, OnItsWay DEF Pending, RInv, Addressed
<1>5. /\ IsFiniteSet(Answers[p] \cup {request})
      /\ Cardinality(Answers[p] \cup {request}) = Len(queue[p]) + 1
  BY <1>2, <1>3, FS_AddElement
<1>6. /\ IsFiniteSet(Pending(p)) /\ IsFiniteSet(MayLeave(p))
      /\ Cardinality(Pending(p)) <= Cardinality(MayLeave(p))
  BY DEF RInv, Counted
<1>7. Cardinality(Answers[p] \cup {request}) <= Cardinality(Pending(p))
  BY <1>4, <1>6, FS_Subset
<1>8. Cardinality(Pending(p)) \in Nat /\ Cardinality(MayLeave(p)) \in Nat
  BY <1>6, FS_CardinalityType
<1>. QED
  BY <1>2, <1>5, <1>6, <1>7, <1>8

\* A queue that is unlinked under the server holds what processes that are gone
\* have left: its owner was the last.
LEMMA ClientOrphaned ==
  ASSUME IInv, RInv, NEW c \in Clients, ClientEffect(c)
  PROVE  Orphaned'
<1>1. server' = server /\ request' = request
  BY DEF ClientEffect
<1>2. server = "send" => request \in Clients /\ pid'[request] = pid[request]
  BY StepPids, OnItsWay DEF AtServer, IInv, Opened
<1>3. ASSUME NEW p
      PROVE  IsFiniteSet(GoneWith(p)') /\ GoneWith(p) \subseteq GoneWith(p)'
  <2>1. IsFiniteSet(gone')
    BY ClientDeparted DEF Departed
  <2>2. GoneWith(p)' \subseteq gone'
    BY DEF GoneWith
  <2>. QED
    BY <2>1, <2>2, FS_Subset, StepPids
<1>4. PICK p : p = pid[request]
  OBVIOUS
<1>5. SUFFICES ASSUME orphan' # None
               PROVE  Sending /\ Len(orphan') <= Cardinality(GoneWith(p)')
  BY <1>1, <1>2, <1>4 DEF Orphaned, GoneWith, Sending
<1>6. CASE orphan' = orphan
  <2>1. Sending /\ Len(orphan) <= Cardinality(GoneWith(p)) /\ Len(orphan) \in Nat
    BY <1>4, <1>5, <1>6 DEF RInv, Orphaned, IInv, Types, Queues
  <2>2. IsFiniteSet(GoneWith(p)') /\ IsFiniteSet(GoneWith(p))
    BY <1>3, FS_Subset
  <2>3. /\ Cardinality(GoneWith(p)) <= Cardinality(GoneWith(p)')
        /\ Cardinality(GoneWith(p)) \in Nat /\ Cardinality(GoneWith(p)') \in Nat
    BY <1>3, <2>2, FS_Subset, FS_CardinalityType
  <2>. QED
    BY <1>6, <2>1, <2>3
<1>7. CASE orphan' # orphan
  <2>1. /\ Unlink(c) /\ client[c] \notin {"idle", "done"} /\ client'[c] = "done"
        /\ client[c] = "receive" => c \in gone'
    BY <1>7 DEF ClientEffect
  <2>2. /\ server = "send" /\ orphan = None /\ p = pid[c]
        /\ orphan' = queue[p] /\ p \in Pids /\ queue[p] # None
    BY <1>4, <1>7, <2>1 DEF Unlink, ResponseName, IInv, Opened
  <2>3. /\ Len(queue[p]) \in Nat /\ Cardinality(MayLeave(p)) \in Nat
        /\ Len(queue[p]) + 1 <= Cardinality(MayLeave(p))
    BY <1>4, <2>2, QueueIsPending
  <2>4. ASSUME NEW d \in MayLeave(p)
        PROVE  d \in GoneWith(p)'
    <3>1. d \in Clients /\ pid[d] = p /\ (d \in gone \/ client[d] = "receive")
      BY DEF MayLeave
    <3>2. CASE d \in gone
      BY <1>3, <3>1, <3>2 DEF GoneWith
    <3>3. CASE client[d] = "receive"
      <4>1. d = c
        BY <2>1, <2>2, <3>1, <3>3 DEF IInv, Opened, Live
      <4>2. pid'[c] = pid[c]
        BY <2>1 DEF ClientEffect
      <4>. QED
        BY <2>1, <2>2, <3>3, <4>1, <4>2 DEF GoneWith
    <3>. QED
      BY <3>1, <3>2, <3>3
  <2>5. /\ Cardinality(MayLeave(p)) <= Cardinality(GoneWith(p)')
        /\ Cardinality(GoneWith(p)') \in Nat
    BY <1>3, <2>4, FS_Subset, FS_CardinalityType
  <2>. QED
    BY <2>2, <2>3, <2>5 DEF Sending
<1>. QED
  BY <1>6, <1>7

-----------------------------------------------------------------------------
LEMMA ServerOrphaned ==
  ASSUME IInv, RInv, ServerAction
  PROVE  Orphaned'
<1>1. orphan # None => server = "send"
  BY DEF RInv, Orphaned, Sending
<1>2. orphan' = None
  BY <1>1 DEF ServerAction, ServerStep, ReceiveRequest, OpenResponse, SendResponse, Start,
              CallFails, KillServer
<1>. QED
  BY <1>2 DEF Orphaned

\* A step of the server leaves the processes and their readings alone, and no
\* response goes anywhere but to the queue of its process id.
LEMMA ServerRInv ==
  ASSUME IInv, RInv, ServerAction
  PROVE  RInv'
<1>1. /\ UNCHANGED <<client, pid, got, gone>>
      /\ \/ /\ Waiting' \cap AtServer' = {} /\ Waiting' \cup AtServer' = Waiting \cup AtServer
            /\ Answers' = Answers /\ lost' = lost
         \/ /\ Waiting' = Waiting /\ AtServer' = {}
            /\ Answers' = Answers /\ lost' = lost \cup AtServer
         \/ /\ Waiting' = Waiting /\ AtServer' = {} /\ lost' = lost
            /\ pid[request] \in Pids /\ AtServer = {request}
            /\ Answers' = [Answers EXCEPT ![pid[request]] = @ \cup AtServer]
  BY ServerMoves
<1>2. /\ Waiting \subseteq Clients /\ AtServer \subseteq Clients
      /\ Answers \in [Pids -> SUBSET Clients]
  BY OnItsWay
<1>3. Departed' /\ Shifted'
  BY <1>1 DEF RInv, Departed, Shifted
<1>4. Addressed'
  BY <1>1, <1>2 DEF RInv, Addressed
<1>5. \A c \in Clients : Somewhere(c)' <=> Somewhere(c)
  BY <1>1, <1>2 DEF Somewhere
<1>6. Accounted'
  BY <1>1, <1>5 DEF RInv, Accounted
<1>7. \A p \in Pids : /\ Pending(p)' \subseteq Pending(p)
                      /\ MayLeave(p)' = MayLeave(p) /\ GoneWith(p)' = GoneWith(p)
  BY <1>1, <1>2 DEF Pending, MayLeave, GoneWith
<1>8. Clean'
  BY <1>1, <1>7 DEF RInv, Clean
<1>9. Counted'
  <2> SUFFICES ASSUME NEW p \in Pids
               PROVE  /\ IsFiniteSet(Pending(p)') /\ IsFiniteSet(MayLeave(p)')
                      /\ Cardinality(Pending(p)') <= Cardinality(MayLeave(p)')
    BY DEF Counted
  <2>1. /\ IsFiniteSet(Pending(p)) /\ IsFiniteSet(MayLeave(p))
        /\ Cardinality(Pending(p)) <= Cardinality(MayLeave(p))
    BY DEF RInv, Counted
  <2>2. /\ Pending(p)' \subseteq Pending(p) /\ MayLeave(p)' = MayLeave(p)
    BY <1>7
  <2>3. IsFiniteSet(Pending(p)') /\ Cardinality(Pending(p)') <= Cardinality(Pending(p))
    BY <2>1, <2>2, FS_Subset
  <2>4. /\ Cardinality(Pending(p)) \in Nat /\ Cardinality(Pending(p)') \in Nat
        /\ Cardinality(MayLeave(p)) \in Nat
    BY <2>1, <2>3, FS_CardinalityType
  <2>. QED
    BY <2>1, <2>2, <2>3, <2>4
<1>. QED
  BY <1>3, <1>4, <1>6, <1>8, <1>9, ServerOrphaned DEF RInv

LEMMA InitRInv == Init => RInv
<1> SUFFICES ASSUME Init PROVE RInv
  OBVIOUS
<1> USE MqAssumption DEF Init
<1>1. Waiting = {} /\ AtServer = {} /\ \A p \in Pids : Answers[p] = {}
  BY DEF Waiting, AtServer, Answers, Contents
<1>2. \A p \in Pids : Pending(p) = {} /\ MayLeave(p) = {}
  BY <1>1 DEF Pending, MayLeave
<1>3. IsFiniteSet({}) /\ Cardinality({}) = 0
  BY FS_EmptySet
<1>4. Departed /\ Shifted /\ Orphaned
  BY <1>3 DEF Departed, Shifted, Orphaned
<1>5. Addressed /\ Accounted /\ Clean
  BY <1>1, <1>2 DEF Addressed, Accounted, Clean, Somewhere
<1>6. ASSUME NEW S, NEW T, S = {}, T = {}
      PROVE  IsFiniteSet(S) /\ IsFiniteSet(T) /\ Cardinality(S) <= Cardinality(T)
  BY <1>3, <1>6
<1>7. Counted
  BY <1>2, <1>6 DEF Counted
<1>. QED
  BY <1>4, <1>5, <1>7 DEF RInv

\* RInv holds in every reachable state.
THEOREM ReadersAccounted == Spec => [](IInv /\ RInv)
<1>1. ASSUME IInv, RInv, NEW c \in Clients, ClientAction(c) PROVE RInv'
  <2>1. ClientEffect(c)
    BY <1>1, StepClientEffect
  <2>2. Departed' /\ Addressed' /\ Accounted'
    BY <1>1, <2>1, ClientDeparted, ClientAddressed, ClientAccounted
  <2>3. Clean' /\ Shifted'
    BY <1>1, <2>1, ClientClean, ClientShifted
  <2>4. Counted' /\ Orphaned'
    BY <1>1, <2>1, ClientCounted, ClientOrphaned
  <2>. QED
    BY <2>2, <2>3, <2>4 DEF RInv
<1>2. ASSUME RInv, UNCHANGED vars PROVE RInv'
  <2> USE <1>2 DEF RInv, vars
  <2>1. Waiting' = Waiting /\ AtServer' = AtServer /\ Answers' = Answers
    BY DEF Waiting, AtServer, Answers
  <2>2. Departed' /\ Addressed' /\ Accounted' /\ Shifted'
    BY <2>1 DEF Departed, Addressed, Accounted, Shifted, Somewhere
  <2>3. \A p \in Pids : /\ Pending(p)' = Pending(p) /\ MayLeave(p)' = MayLeave(p)
                        /\ GoneWith(p)' = GoneWith(p)
    BY <2>1 DEF Pending, MayLeave, GoneWith
  <2>4. Clean'
    BY <2>3 DEF Clean
  <2>5. Counted'
    BY <2>3 DEF Counted
  <2>6. Orphaned'
    BY DEF Orphaned, Sending, GoneWith
  <2>. QED
    BY <2>2, <2>4, <2>5, <2>6
<1>3. IInv /\ RInv /\ [Next]_vars => RInv'
  BY <1>1, <1>2, ServerRInv DEF Next, ServerAction, ClientAction
<1>. QED
  BY <1>3, InitRInv, Invariance, PTL DEF Spec

\* A client reads a stranger's response only after a process with its id has died
\* (mqClient.c opens the queue of its process id as it finds it).
THEOREM WrongResponsesExplained == Spec => []WrongResponseExplained
<1>1. IInv /\ RInv => WrongResponseExplained
  <2> SUFFICES ASSUME IInv, RInv, NEW c \in Clients, got[c] \notin {None, c}
               PROVE  /\ pid[got[c]] = pid[c]
                      /\ got[c] \in gone \/ got[got[c]] \notin {None, got[c]}
                      /\ \E e \in gone : pid[e] = pid[c]
    BY DEF WrongResponseExplained
  <2> DEFINE d == got[c]
  <2>1. d \in Clients /\ d # c /\ d # None /\ Somewhere(d)
    BY DEF IInv, Types, Somewhere
  <2>2. pid[d] = pid[c] /\ client[d] = "done" /\ \E e \in gone : pid[e] = pid[c]
    BY DEF RInv, Shifted
  <2>3. d \in gone \/ got[d] # None
    BY <2>1, <2>2 DEF RInv, Accounted
  <2>4. got[d] # d
    BY <2>1 DEF IInv, Apart
  <2>. QED
    BY <2>2, <2>3, <2>4
<1>. QED
  BY <1>1, ReadersAccounted, PTL

\* The server is kept waiting only by as many dead processes as a queue is long
\* (mq_send in mqServer.c, line 76).
THEOREM StuckByTheDead == Spec => []StuckOnlyByTheDead
<1>1. ASSUME IInv, RInv, server = "send", ~CanSend
      PROVE  Cardinality(GoneWith(pid[request])) >= MaxMsg
  <2>1. PICK p : p = pid[request]
    OBVIOUS
  <2>2. IsFiniteSet(GoneWith(p)) /\ Cardinality(GoneWith(p)) \in Nat
    <3>1. GoneWith(p) \subseteq gone /\ IsFiniteSet(gone)
      BY <1>1 DEF GoneWith, RInv, Departed
    <3>. QED
      BY <3>1, FS_Subset, FS_CardinalityType
  <2>3. CASE orphan # None
    <3>1. Len(orphan) >= MaxMsg /\ Len(orphan) <= Cardinality(GoneWith(p)) /\ Len(orphan) \in Nat
      BY <1>1, <2>1, <2>3, MqAssumption DEF CanSend, RInv, Orphaned, IInv, Types, Queues
    <3>. QED
      BY <2>1, <2>2, <3>1, MqAssumption
  <2>4. CASE orphan = None
    <3>1. request \in Clients /\ request \in AtServer
      BY <1>1 DEF IInv, Opened, AtServer
    <3>2. p \in Pids /\ queue[p] # None
      BY <1>1, <2>1, <2>4, <3>1, OnItsWay DEF IInv, Opened, ResponseName
    <3>3. /\ Len(queue[p]) \in Nat /\ Cardinality(MayLeave(p)) \in Nat
          /\ Len(queue[p]) + 1 <= Cardinality(MayLeave(p))
      BY <1>1, <2>1, <3>2, QueueIsPending
    <3>4. Len(queue[p]) >= MaxMsg
      BY <1>1, <2>1, <2>4, <3>3, MqAssumption DEF CanSend, ResponseName
    <3>5. PICK c : MayLeave(p) \subseteq GoneWith(p) \cup {c}
      BY <1>1 DEF MayLeave, GoneWith, IInv, Opened, Live
    <3>6. /\ IsFiniteSet(GoneWith(p) \cup {c})
          /\ \/ Cardinality(GoneWith(p) \cup {c}) = Cardinality(GoneWith(p))
             \/ Cardinality(GoneWith(p) \cup {c}) = Cardinality(GoneWith(p)) + 1
      BY <2>2, FS_AddElement, Zenon
    <3>7. Cardinality(MayLeave(p)) <= Cardinality(GoneWith(p) \cup {c})
      BY <3>5, <3>6, FS_Subset
    <3>. QED
      BY <2>1, <2>2, <3>3, <3>4, <3>6, <3>7, MqAssumption
  <2>. QED
    BY <2>3, <2>4
<1>2. IInv /\ RInv => StuckOnlyByTheDead
  BY <1>1 DEF StuckOnlyByTheDead, GoneWith, ResponseName
<1>. QED
  BY <1>2, ReadersAccounted, PTL
-----------------------------------------------------------------------------
(* The tools *)

Message == [from : Runs, priority : Nat]
Messages == Seq(Message)

ToolTypes ==
    /\ tool \in [Runs -> UNION Tools!Groups]
    /\ at \in [Runs -> {"start", "open", "look", "send", "receive", "close",
                        "failed", "empty", "done", "killed"}]
    /\ name \in Runs \cup {None}
    /\ held \in [Runs -> Runs \cup {None}]
    /\ messages \in [Runs -> Messages] /\ taken \in [Runs -> Messages]
    /\ sent \in [Runs -> Nat] /\ left \in [Runs -> Nat]
    /\ seen \in [Runs -> SUBSET Message] /\ destroyed \subseteq Message

\* A run has a queue open between its mq_open and its end.
Busy(r) == at[r] \in {"look", "send", "receive", "close"}
ToolPlaces ==
    \A r \in Runs :
        /\ Busy(r) <=> held[r] # None
        /\ at[r] \in {"send", "close"} => tool[r].reads = "nothing"
        /\ at[r] \in {"look", "receive"} => tool[r].reads # "nothing"
        /\ at[r] = "look" => taken[r] = << >>
        /\ at[r] \in {"start", "open"} => taken[r] = << >>

\* What is in a queue can be reached, by its name or by a run that has it open.
\* A queue loses its name to a run that unlinks and to nothing else.
Unlinked ==
    \E r \in Runs : Tools!Unlinkers(r) \/ (tool[r].unlinks = "onFailure" /\ at[r] = "failed")
Reached ==
    /\ \A q \in Runs : messages[q] # << >> => q = name \/ \E s \in Runs : held[s] = q
    /\ \A s \in Runs : held[s] \notin {None, name} => Unlinked
    /\ destroyed # {} => Unlinked

\* No message is at two places, and every one that was sent is at one.
Content(s) == {s[k] : k \in DOMAIN s}
Queued == [q \in Runs |-> Content(messages[q])]
Got == [r \in Runs |-> Content(taken[r])]
OnePlace ==
    /\ \A q \in Runs : NoRepeat(messages[q]) /\ NoRepeat(taken[q])
    /\ \A q, r \in Runs : q # r => Queued[q] \cap Queued[r] = {} /\ Got[q] \cap Got[r] = {}
    /\ \A q, r \in Runs : Queued[q] \cap Got[r] = {}
    /\ \A q \in Runs : destroyed \cap (Queued[q] \cup Got[q]) = {}
IsSent(m) == m.priority < sent[m.from]
SomePlace ==
    \A m \in Message :
        IsSent(m) <=> m \in destroyed \/ \E q \in Runs : m \in Queued[q] \cup Got[q]

\* What a reader saw is still there, or somebody has received it; one that counts
\* has as many messages to come as it saw, less those it has received.
Looked ==
    \A r \in Runs :
        /\ IsFiniteSet(seen[r])
        /\ at[r] = "receive" =>
             \A m \in seen[r] : m \in Queued[held[r]] \/ \E s \in Runs : m \in Got[s]
        /\ at[r] = "empty" => \A m \in seen[r] : \E s \in Runs : m \in Got[s]
        /\ at[r] = "receive" /\ tool[r].reads = "counted" =>
             left[r] + Len(taken[r]) = Cardinality(seen[r])
        /\ at[r] = "done" /\ tool[r].reads = "counted" =>
             Len(taken[r]) = Cardinality(seen[r])

ToolInv == ToolTypes /\ ToolPlaces /\ Reached /\ OnePlace /\ SomePlace /\ Looked

LEMMA ToolConstants ==
  /\ MaxMsg \in Nat /\ MaxMsg > 0 /\ None \notin Runs
  /\ \A x \in UNION Tools!Groups :
        /\ x.sends \in Nat
        /\ x.sends > 0 => x.reads = "nothing"
        /\ x.unlinks \in {"never", "onFailure", "always"}
<1>1. MaxMsg \in Nat /\ MaxMsg > 0 /\ None \notin Runs
  BY MqToolsAssumption DEF Tools!ToolsAssumption
<1>2. \A x \in UNION Tools!Groups :
        x \in {Tools!mqCreate, Tools!mqWrite, Tools!mqWriteAndCreat, Tools!mqRead,
              Tools!mqNameReader, Tools!mqwriter, Tools!mqreader}
  BY DEF Tools!Groups, Tools!mqNameWriter, Tools!otherWriter
<1>3. /\ Tools!mqCreate.sends = 0 /\ Tools!mqCreate.unlinks = "never"
      /\ Tools!mqWrite.sends = MaxMsg /\ Tools!mqWrite.reads = "nothing"
      /\ Tools!mqWrite.unlinks = "never"
      /\ Tools!mqWriteAndCreat.sends = MaxMsg /\ Tools!mqWriteAndCreat.reads = "nothing"
      /\ Tools!mqWriteAndCreat.unlinks = "onFailure"
  BY DEF Tools!mqCreate, Tools!mqWrite, Tools!mqWriteAndCreat
<1>4. /\ Tools!mqRead.sends = 0 /\ Tools!mqRead.unlinks = "never"
      /\ Tools!mqNameReader.sends = 0 /\ Tools!mqNameReader.unlinks = "never"
      /\ Tools!mqwriter.sends = 0 /\ Tools!mqwriter.unlinks = "never"
      /\ Tools!mqreader.sends = 0 /\ Tools!mqreader.unlinks = "always"
  BY DEF Tools!mqCreate, Tools!mqRead, Tools!mqNameReader, Tools!mqwriter, Tools!mqreader
<1>. QED
  BY <1>1, <1>2, <1>3, <1>4

LEMMA UpTo ==
  ASSUME NEW n \in Nat
  PROVE  IsFiniteSet(1 .. n) /\ Cardinality(1 .. n) = n
<1>1. 1 \in Int /\ n \in Int /\ (IF 1 > n THEN 0 = n ELSE n - 1 + 1 = n)
  OBVIOUS
<1>2. /\ IsFiniteSet(1 .. n)
      /\ Cardinality(1 .. n) = IF 1 > n THEN 0 ELSE n - 1 + 1
  BY <1>1, FS_Interval, Zenon
<1>. QED
  BY <1>1, <1>2

LEMMA InsertMessage ==
  ASSUME NEW q \in Messages, NEW m \in Message
  PROVE  /\ Tools!Insert(q, m) \in Messages /\ Tools!Insert(q, m) # << >>
         /\ Content(Tools!Insert(q, m)) = Content(q) \cup {m}
         /\ NoRepeat(q) /\ m \notin Content(q) => NoRepeat(Tools!Insert(q, m))
<1> DEFINE above == {k \in DOMAIN q : q[k].priority >= m.priority}
           n == 1 + Tools!Cardinality(above)
           p == Tools!Insert(q, m)
<1>1. Len(q) \in Nat /\ DOMAIN q = 1 .. Len(q)
  BY DEF Messages
<1>2. n \in 1 .. Len(q) + 1
  <2>1. IsFiniteSet(1 .. Len(q)) /\ Cardinality(1 .. Len(q)) = Len(q)
    BY <1>1, UpTo
  <2>2. Cardinality(above) \in Nat /\ Cardinality(above) <= Len(q)
    BY <1>1, <2>1, FS_Subset, FS_CardinalityType
  <2>3. Tools!Cardinality(above) = Cardinality(above)
    BY DEF Tools!Cardinality, Cardinality
  <2>. QED
    BY <1>1, <2>2, <2>3
<1>3. p = SubSeq(q, 1, n - 1) \o <<m>> \o SubSeq(q, n, Len(q))
  BY DEF Tools!Insert, Tools!InsertAt
<1> HIDE DEF n, above
<1>4. /\ p \in Messages /\ Len(p) = Len(q) + 1 /\ DOMAIN p = 1 .. Len(q) + 1
      /\ \A k \in 1 .. Len(q) + 1 :
           p[k] = IF k < n THEN q[k] ELSE IF k = n THEN m ELSE q[k - 1]
  <2>1. SubSeq(q, 1, n - 1) \in Messages /\ SubSeq(q, n, Len(q)) \in Messages /\ <<m>> \in Messages
    BY <1>1, <1>2 DEF Messages
  <2>2. /\ Len(SubSeq(q, 1, n - 1)) = n - 1 /\ Len(SubSeq(q, n, Len(q))) = Len(q) - n + 1
        /\ \A k \in 1 .. n - 1 : SubSeq(q, 1, n - 1)[k] = q[k]
        /\ \A k \in 1 .. Len(q) - n + 1 : SubSeq(q, n, Len(q))[k] = q[n + k - 1]
    BY <1>1, <1>2 DEF Messages
  <2> DEFINE a == SubSeq(q, 1, n - 1)
             b == SubSeq(q, n, Len(q))
             c == a \o <<m>>
  <2> HIDE DEF a, b
  <2>3. /\ c \in Messages /\ Len(c) = n
        /\ \A k \in 1 .. n : c[k] = IF k < n THEN q[k] ELSE m
    BY <1>1, <1>2, <2>1, <2>2 DEF Messages, a
  <2>4. p = c \o b
    BY <1>3 DEF a, b
  <2> HIDE DEF c
  <2>5. /\ p \in Messages /\ Len(p) = Len(q) + 1
        /\ \A k \in 1 .. Len(q) + 1 : p[k] = IF k <= n THEN c[k] ELSE b[k - n]
    BY <1>1, <1>2, <2>1, <2>2, <2>3, <2>4 DEF Messages, b
  <2>6. \A k \in 1 .. Len(q) + 1 : ~(k <= n) => k - n \in 1 .. Len(q) - n + 1 /\ b[k - n] = q[k - 1]
    BY <1>1, <1>2, <2>2 DEF b
  <2>7. DOMAIN p = 1 .. Len(q) + 1
    BY <1>1, <2>5 DEF Messages
  <2>. QED
    BY <1>1, <1>2, <2>3, <2>5, <2>6, <2>7
<1> HIDE DEF p
<1>5. Content(p) = Content(q) \cup {m}
  <2>1. p[n] = m /\ n \in DOMAIN p
    BY <1>1, <1>2, <1>4
  <2>2. \A k \in DOMAIN q : \E l \in DOMAIN p : p[l] = q[k]
    <3> SUFFICES ASSUME NEW k \in DOMAIN q PROVE \E l \in DOMAIN p : p[l] = q[k]
      OBVIOUS
    <3>1. CASE k < n
      BY <1>1, <1>2, <1>4, <3>1
    <3>2. CASE ~(k < n)
      <4>1. k + 1 \in 1 .. Len(q) + 1 /\ ~(k + 1 < n) /\ k + 1 # n /\ (k + 1) - 1 = k
        BY <1>1, <1>2, <3>2
      <4>2. p[k + 1] = q[k]
        BY <1>4, <4>1
      <4>. QED
        BY <1>4, <4>1, <4>2
    <3>. QED
      BY <3>1, <3>2
  <2>3. \A k \in DOMAIN p : p[k] = m \/ \E l \in DOMAIN q : p[k] = q[l]
    <3> SUFFICES ASSUME NEW k \in DOMAIN p, p[k] # m PROVE \E l \in DOMAIN q : p[k] = q[l]
      OBVIOUS
    <3>1. k < n => p[k] = q[k] /\ k \in DOMAIN q
      BY <1>1, <1>2, <1>4
    <3>2. ~(k < n) => p[k] = q[k - 1] /\ k - 1 \in DOMAIN q
      BY <1>1, <1>2, <1>4
    <3>. QED
      BY <3>1, <3>2
  <2>. QED
    BY <2>1, <2>2, <2>3 DEF Content
<1>6. ASSUME NoRepeat(q), m \notin Content(q) PROVE NoRepeat(p)
  <2>1. \A k \in 1 .. Len(q) : q[k] # m
    BY <1>1, <1>6 DEF Content
  <2>2. \A k, l \in 1 .. Len(q) : q[k] = q[l] => k = l
    BY <1>1, <1>6 DEF NoRepeat
  <2> SUFFICES ASSUME NEW k \in DOMAIN p, NEW l \in DOMAIN p, p[k] = p[l] PROVE k = l
    BY DEF NoRepeat
  <2>3. \A h \in DOMAIN p : h # n =>
          LET g == IF h < n THEN h ELSE h - 1 IN g \in 1 .. Len(q) /\ p[h] = q[g]
    BY <1>1, <1>2, <1>4
  <2>. QED
    BY <1>1, <1>2, <1>4, <2>1, <2>2, <2>3
<1>. QED
  BY <1>4, <1>5, <1>6 DEF p

LEMMA TakeMessage ==
  ASSUME NEW q \in Messages, q # << >>, NoRepeat(q)
  PROVE  /\ Head(q) \in Message /\ Tail(q) \in Messages /\ NoRepeat(Tail(q))
         /\ Content(q) = Content(Tail(q)) \cup {Head(q)} /\ Head(q) \notin Content(Tail(q))
<1>1. /\ Head(q) \in Message /\ Tail(q) \in Messages /\ Head(q) = q[1]
      /\ Len(q) \in Nat /\ Len(q) >= 1 /\ DOMAIN q = 1 .. Len(q)
      /\ DOMAIN Tail(q) = 1 .. Len(q) - 1
      /\ \A k \in 1 .. Len(q) - 1 : Tail(q)[k] = q[k + 1]
  BY DEF Messages
<1>2. \A k \in DOMAIN q : k # 1 => k - 1 \in DOMAIN Tail(q) /\ Tail(q)[k - 1] = q[k]
  BY <1>1
<1>3. \A k \in DOMAIN Tail(q) : k + 1 \in DOMAIN q /\ k + 1 # 1 /\ Tail(q)[k] = q[k + 1]
  BY <1>1
<1>4. Content(q) = Content(Tail(q)) \cup {Head(q)}
  <2>1. \A k \in DOMAIN q : q[k] = Head(q) \/ \E l \in DOMAIN Tail(q) : q[k] = Tail(q)[l]
    BY <1>1, <1>2
  <2>2. \A k \in DOMAIN Tail(q) : \E l \in DOMAIN q : Tail(q)[k] = q[l]
    BY <1>3
  <2>3. 1 \in DOMAIN q
    BY <1>1
  <2>4. Content(q) \subseteq Content(Tail(q)) \cup {Head(q)}
    BY <2>1 DEF Content
  <2>5. Content(Tail(q)) \subseteq Content(q)
    BY <2>2 DEF Content
  <2>6. Head(q) \in Content(q)
    BY <1>1, <2>3 DEF Content
  <2>. QED
    BY <2>4, <2>5, <2>6
<1>5. Head(q) \notin Content(Tail(q))
  BY <1>1, <1>3 DEF Content, NoRepeat
<1>6. NoRepeat(Tail(q))
  BY <1>1, <1>3 DEF NoRepeat
<1>. QED
  BY <1>1, <1>4, <1>5, <1>6

LEMMA AddMessage ==
  ASSUME NEW q \in Messages, NEW m \in Message
  PROVE  /\ Append(q, m) \in Messages /\ Len(Append(q, m)) = Len(q) + 1
         /\ Content(Append(q, m)) = Content(q) \cup {m}
         /\ NoRepeat(q) /\ m \notin Content(q) => NoRepeat(Append(q, m))
<1>1. /\ Append(q, m) \in Messages /\ Len(q) \in Nat /\ DOMAIN q = 1 .. Len(q)
      /\ DOMAIN Append(q, m) = 1 .. Len(q) + 1 /\ Len(Append(q, m)) = Len(q) + 1
      /\ \A k \in 1 .. Len(q) : Append(q, m)[k] = q[k]
      /\ Append(q, m)[Len(q) + 1] = m
  BY DEF Messages
<1>2. Content(Append(q, m)) = Content(q) \cup {m}
  BY <1>1 DEF Content
<1>3. ASSUME NoRepeat(q), m \notin Content(q) PROVE NoRepeat(Append(q, m))
  <2>1. \A k \in 1 .. Len(q) : q[k] # m
    BY <1>1, <1>3 DEF Content
  <2>. QED
    BY <1>1, <1>3, <2>1 DEF NoRepeat
<1>. QED
  BY <1>1, <1>2, <1>3

\* A queue without repetitions has as many messages as it is long.
LEMMA CountMessages ==
  ASSUME NEW q \in Messages
  PROVE  /\ IsFiniteSet(Content(q)) /\ Cardinality(Content(q)) <= Len(q)
         /\ Cardinality(Content(q)) \in Nat /\ Len(q) \in Nat
         /\ NoRepeat(q) => Cardinality(Content(q)) = Len(q)
<1>1. Len(q) \in Nat /\ DOMAIN q = 1 .. Len(q) /\ q = [k \in 1 .. Len(q) |-> q[k]]
  BY DEF Messages
<1>2. IsFiniteSet(1 .. Len(q)) /\ Cardinality(1 .. Len(q)) = Len(q)
  BY <1>1, UpTo
<1>3. q \in Surjection(1 .. Len(q), Content(q))
  BY <1>1 DEF Content, Surjection
<1>4. /\ IsFiniteSet(Content(q)) /\ Cardinality(Content(q)) <= Len(q)
      /\ Cardinality(Content(q)) = Len(q) <=> q \in Injection(1 .. Len(q), Content(q))
  BY <1>2, <1>3, FS_Surjection
<1>5. NoRepeat(q) => q \in Injection(1 .. Len(q), Content(q))
  BY <1>1 DEF NoRepeat, Injection, IsInjective, Content
<1>6. Cardinality(Content(q)) \in Nat
  BY <1>4, FS_CardinalityType
<1>. QED
  BY <1>1, <1>4, <1>5, <1>6

Ends == {"failed", "empty", "done", "killed"}

LEMMA ToolInit ==
  ASSUME Tools!Init
  PROVE  ToolInv
<1> USE ToolConstants DEF Tools!Init
<1>1. /\ << >> \in Messages /\ Content(<< >>) = {} /\ NoRepeat(<< >>)
      /\ \A m \in Message : m.priority \in Nat /\ m.from \in Runs
  BY DEF Messages, Content, NoRepeat, Message
<1>2. \A r \in Runs : messages[r] = << >> /\ taken[r] = << >> /\ sent[r] = 0 /\ at[r] = "start"
                      /\ held[r] = None /\ seen[r] = {}
  OBVIOUS
<1>3. ToolTypes
  <2>1. tool \in [Runs -> UNION Tools!Groups]
    OBVIOUS
  <2>. QED
    BY <1>1, <2>1 DEF ToolTypes
<1>4. Queued = [q \in Runs |-> {}] /\ Got = [q \in Runs |-> {}]
  BY <1>1, <1>2 DEF Queued, Got
<1>5. ToolPlaces /\ Reached
  BY <1>2 DEF ToolPlaces, Busy, Reached
<1>6. OnePlace
  BY <1>1, <1>2, <1>4 DEF OnePlace
<1>7. SomePlace
  BY <1>1, <1>2, <1>4 DEF SomePlace, IsSent
<1>8. Looked
  BY <1>2, FS_EmptySet DEF Looked
<1>. QED
  BY <1>3, <1>5, <1>6, <1>7, <1>8 DEF ToolInv

\* A run that has ended stays so.
LEMMA UnlinkedStays ==
  ASSUME Unlinked, UNCHANGED tool,
         \A r \in Runs : at[r] \in {"done", "failed"} => at'[r] = at[r]
  PROVE  Unlinked'
BY DEF Unlinked, Tools!Unlinkers

\* The steps that leave the messages where they are.
LEMMA ToolQuiet ==
  ASSUME ToolInv, NEW r \in Runs, Tools!Start(r) \/ Tools!Open(r) \/ Tools!Look(r)
  PROVE  ToolInv'
<1> USE ToolConstants
<1>1. /\ UNCHANGED <<tool, messages, sent, taken, destroyed>>
      /\ at[r] \in {"start", "open", "look"}
      /\ \E l \in {"open", "send", "close", "look", "receive"} : at' = [at EXCEPT ![r] = l]
  BY DEF Tools!Start, Tools!Open, Tools!Look, Tools!Goto
<1>2. /\ at'[r] \in {"open", "send", "close", "look", "receive"}
      /\ \A s \in Runs \ {r} : at'[s] = at[s]
      /\ at \in [Runs -> {"start", "open", "look", "send", "receive", "close",
                          "failed", "empty", "done", "killed"}]
  BY <1>1 DEF ToolInv, ToolTypes
<1>3. UNCHANGED <<Queued, Got>>
  BY <1>1 DEF Queued, Got
<1>4. OnePlace' /\ SomePlace'
  BY <1>1, <1>3 DEF ToolInv, OnePlace, SomePlace, IsSent
<1>5. Unlinked => Unlinked'
  BY <1>1, <1>2, UnlinkedStays
<1>6. CASE Tools!Start(r)
  <2>1. /\ UNCHANGED <<name, held, left, seen>> /\ at[r] = "start" /\ at'[r] = "open"
        /\ at' = [at EXCEPT ![r] = "open"]
    BY <1>2, <1>6 DEF Tools!Start, Tools!Goto
  <2>2. ToolTypes'
    BY <1>1, <2>1 DEF ToolInv, ToolTypes
  <2>3. ToolPlaces'
    BY <1>1, <1>2, <2>1 DEF ToolInv, ToolPlaces, Busy
  <2>4. Reached'
    BY <1>1, <1>5, <2>1 DEF ToolInv, Reached
  <2>5. Looked'
    BY <1>1, <1>2, <1>3, <2>1 DEF ToolInv, Looked
  <2>. QED
    BY <1>4, <2>2, <2>3, <2>4, <2>5 DEF ToolInv
<1>7. CASE Tools!Open(r)
  <2>1. /\ UNCHANGED <<left, seen>> /\ at[r] = "open"
        /\ name' = (IF name = None THEN r ELSE name)
        /\ held' = [held EXCEPT ![r] = name']
        /\ at'[r] = (IF tool[r].sends > 0 THEN "send"
                     ELSE IF tool[r].reads = "nothing" THEN "close" ELSE "look")
    BY <1>2, <1>7 DEF Tools!Open, Tools!Goto
  <2>2. /\ name' \in Runs /\ name' # None /\ held \in [Runs -> Runs \cup {None}]
        /\ held'[r] = name' /\ \A s \in Runs \ {r} : held'[s] = held[s]
        /\ held[r] = None
    BY <2>1 DEF ToolInv, ToolTypes, ToolPlaces, Busy
  <2>3. ToolTypes'
    BY <1>1, <2>1, <2>2 DEF ToolInv, ToolTypes
  <2>4. tool[r].sends > 0 => tool[r].reads = "nothing"
    BY DEF ToolInv, ToolTypes
  <2>5. ToolPlaces'
    BY <1>1, <1>2, <2>1, <2>2, <2>4 DEF ToolInv, ToolPlaces, Busy
  <2>6. Reached'
    <3>1. \A s \in Runs : held'[s] \notin {None, name'} => held[s] \notin {None, name}
      BY <2>1, <2>2
    <3>2. \A q \in Runs : q = name \/ (\E s \in Runs : held[s] = q)
            => q = name' \/ \E s \in Runs : held'[s] = q
      BY <2>1, <2>2
    <3>. QED
      BY <1>1, <1>5, <3>1, <3>2 DEF ToolInv, Reached
  <2>7. at'[r] \in {"send", "close", "look"}
    BY <2>1
  <2>8. Looked'
    BY <1>1, <1>2, <1>3, <2>1, <2>2, <2>7 DEF ToolInv, Looked
  <2>. QED
    BY <1>4, <2>3, <2>5, <2>6, <2>8 DEF ToolInv
<1>8. CASE Tools!Look(r)
  <2>1. /\ UNCHANGED <<name, held>> /\ at[r] = "look" /\ at'[r] = "receive"
        /\ left' = [left EXCEPT ![r] = Len(messages[held[r]])]
        /\ seen' = [seen EXCEPT ![r] = Content(messages[held[r]])]
    BY <1>2, <1>8 DEF Tools!Look, Tools!Goto, Tools!Queue, Tools!ToSet, Content
  <2>2. /\ held[r] \in Runs /\ taken[r] = << >> /\ tool[r].reads # "nothing"
        /\ messages[held[r]] \in Messages /\ NoRepeat(messages[held[r]])
    BY <2>1 DEF ToolInv, ToolTypes, ToolPlaces, Busy, OnePlace
  <2>3. /\ Content(messages[held[r]]) \subseteq Message /\ Len(messages[held[r]]) \in Nat
        /\ IsFiniteSet(Content(messages[held[r]]))
        /\ Cardinality(Content(messages[held[r]])) = Len(messages[held[r]])
    BY <2>2, CountMessages DEF Content, Messages
  <2>4. /\ left' \in [Runs -> Nat] /\ seen' \in [Runs -> SUBSET Message]
        /\ left'[r] = Len(messages[held[r]]) /\ seen'[r] = Content(messages[held[r]])
        /\ \A s \in Runs \ {r} : left'[s] = left[s] /\ seen'[s] = seen[s]
    BY <2>1, <2>3 DEF ToolInv, ToolTypes
  <2>5. ToolTypes'
    BY <1>1, <2>1, <2>4 DEF ToolInv, ToolTypes
  <2>6. ToolPlaces'
    BY <1>1, <1>2, <2>1, <2>2 DEF ToolInv, ToolPlaces, Busy
  <2>7. Reached'
    BY <1>1, <1>5, <2>1 DEF ToolInv, Reached
  <2>8. Looked'
    <3>1. seen'[r] = Queued[held[r]] /\ Len(taken[r]) = 0
      BY <2>2, <2>4 DEF Queued
    <3>. QED
      BY <1>1, <1>2, <1>3, <2>1, <2>3, <2>4, <3>1 DEF ToolInv, Looked
  <2>. QED
    BY <1>4, <2>5, <2>6, <2>7, <2>8 DEF ToolInv
<1>. QED
  BY <1>6, <1>7, <1>8

\* A message more, the first of its run with that priority.
LEMMA ToolSend ==
  ASSUME ToolInv, NEW r \in Runs, Tools!Send(r)
  PROVE  ToolInv'
<1> USE ToolConstants
<1> DEFINE q == held[r]
           m == [from |-> r, priority |-> sent[r]]
<1>1. /\ ToolTypes /\ ToolPlaces /\ Reached /\ OnePlace /\ SomePlace /\ Looked
      /\ at[r] = "send" /\ q \in Runs /\ m \in Message /\ ~IsSent(m) /\ sent[r] \in Nat
  BY DEF Tools!Send, ToolInv, ToolTypes, ToolPlaces, Busy, Message, IsSent
<1>2. /\ UNCHANGED <<tool, name, held, left, taken, seen, destroyed>>
      /\ messages' = [messages EXCEPT ![q] = Tools!Insert(messages[q], m)]
      /\ sent' = [sent EXCEPT ![r] = sent[r] + 1]
      /\ \E l \in {"send", "close"} : at' = [at EXCEPT ![r] = l]
  BY <1>1 DEF Tools!Send, Tools!Goto, ToolTypes
<1>3. /\ at'[r] \in {"send", "close"} /\ \A s \in Runs \ {r} : at'[s] = at[s]
      /\ messages[q] \in Messages
  BY <1>1, <1>2 DEF ToolTypes
<1> HIDE DEF m, q
<1>4. m \notin destroyed /\ \A s \in Runs : m \notin Queued[s] /\ m \notin Got[s]
  <2>1. ~(m \in destroyed \/ \E s \in Runs : m \in Queued[s] \cup Got[s])
    BY <1>1 DEF SomePlace
  <2>. QED
    BY <2>1
<1>5. m \notin Content(messages[q]) /\ NoRepeat(messages[q])
  BY <1>1, <1>4 DEF Queued, OnePlace
<1>6. /\ Tools!Insert(messages[q], m) \in Messages
      /\ Content(Tools!Insert(messages[q], m)) = Content(messages[q]) \cup {m}
      /\ NoRepeat(Tools!Insert(messages[q], m))
  BY <1>1, <1>3, <1>5, InsertMessage
<1>7. /\ messages'[q] = Tools!Insert(messages[q], m)
      /\ \A s \in Runs \ {q} : messages'[s] = messages[s]
  BY <1>1, <1>2 DEF ToolTypes
<1>8. /\ Queued'[q] = Queued[q] \cup {m} /\ \A s \in Runs \ {q} : Queued'[s] = Queued[s]
      /\ Got' = Got
  BY <1>1, <1>2, <1>6, <1>7 DEF Queued, Got
<1>9. ToolTypes'
  <2>1. messages' \in [Runs -> Messages] /\ sent' \in [Runs -> Nat]
    BY <1>1, <1>2, <1>6 DEF ToolTypes
  <2>. QED
    BY <1>1, <1>2, <2>1 DEF ToolTypes
<1>10. ToolPlaces'
  BY <1>1, <1>2, <1>3 DEF ToolPlaces, Busy
<1>11. Reached'
  <2>1. Unlinked => Unlinked'
    BY <1>1, <1>2, <1>3, UnlinkedStays
  <2>. QED
    BY <1>1, <1>2, <1>7, <2>1 DEF Reached, q
<1>12. OnePlace'
  <2>1. \A s \in Runs : NoRepeat(messages'[s]) /\ NoRepeat(taken'[s])
    BY <1>1, <1>2, <1>6, <1>7 DEF OnePlace
  <2>2. \A s, t \in Runs : s # t => Queued'[s] \cap Queued'[t] = {} /\ Got'[s] \cap Got'[t] = {}
    BY <1>1, <1>4, <1>8 DEF OnePlace
  <2>3. \A s, t \in Runs : Queued'[s] \cap Got'[t] = {}
    BY <1>1, <1>4, <1>8 DEF OnePlace
  <2>4. \A s \in Runs : destroyed' \cap (Queued'[s] \cup Got'[s]) = {}
    BY <1>1, <1>2, <1>4, <1>8 DEF OnePlace
  <2>. QED
    BY <2>1, <2>2, <2>3, <2>4 DEF OnePlace
<1>13. SomePlace'
  <2>1. \A n \in Message : IsSent(n)' <=> IsSent(n) \/ n = m
    <3> SUFFICES ASSUME NEW n \in Message PROVE IsSent(n)' <=> IsSent(n) \/ n = m
      OBVIOUS
    <3>1. /\ n.priority \in Nat /\ n.from \in Runs
          /\ n = m <=> n.from = r /\ n.priority = sent[r]
      BY DEF Message, m
    <3>2. sent'[n.from] = IF n.from = r THEN sent[r] + 1 ELSE sent[n.from]
      BY <1>1, <1>2, <3>1 DEF ToolTypes
    <3>. QED
      BY <1>1, <3>1, <3>2 DEF IsSent
  <2>2. \A n \in Message : (\E s \in Runs : n \in Queued'[s] \cup Got'[s])
                             <=> n = m \/ \E s \in Runs : n \in Queued[s] \cup Got[s]
    BY <1>1, <1>8
  <2>. QED
    BY <1>1, <1>2, <2>1, <2>2 DEF SomePlace
<1>14. Looked'
  <2>1. \A s \in Runs : Queued[s] \subseteq Queued'[s]
    BY <1>8
  <2>2. \A s \in Runs : at'[s] \in {"receive", "empty", "done"} => at'[s] = at[s]
    BY <1>3
  <2>3. \A s \in Runs : at[s] = "receive" => held[s] \in Runs
    BY <1>1 DEF ToolTypes, ToolPlaces, Busy
  <2>. QED
    BY <1>1, <1>2, <1>8, <2>1, <2>2, <2>3 DEF Looked
<1>. QED
  BY <1>9, <1>10, <1>11, <1>12, <1>13, <1>14 DEF ToolInv

\* A message goes from the queue to the reader.
LEMMA ToolReceive ==
  ASSUME ToolInv, NEW r \in Runs, Tools!Receive(r)
  PROVE  ToolInv'
<1> USE ToolConstants
<1> DEFINE q == held[r]
           m == Head(messages[q])
<1>1. /\ ToolTypes /\ ToolPlaces /\ Reached /\ OnePlace /\ SomePlace /\ Looked
      /\ at[r] = "receive" /\ q \in Runs /\ messages[q] # << >>
      /\ messages[q] \in Messages /\ taken[r] \in Messages
      /\ NoRepeat(messages[q]) /\ NoRepeat(taken[r])
      /\ left[r] \in Nat /\ (tool[r].reads = "counted" => left[r] > 0)
  BY DEF Tools!Receive, Tools!HasAll, Tools!Queue, ToolInv, ToolTypes, ToolPlaces, Busy, OnePlace
<1>2. /\ UNCHANGED <<tool, at, name, held, sent, seen, destroyed>>
      /\ taken' = [taken EXCEPT ![r] = Append(taken[r], m)]
      /\ messages' = [messages EXCEPT ![q] = Tail(messages[q])]
      /\ left' = [left EXCEPT ![r] = IF tool[r].reads = "counted" THEN left[r] - 1 ELSE left[r]]
  BY <1>1 DEF Tools!Receive, Tools!Queue, ToolTypes
<1> HIDE DEF m, q
<1>3. /\ m \in Message /\ Tail(messages[q]) \in Messages /\ NoRepeat(Tail(messages[q]))
      /\ Content(messages[q]) = Content(Tail(messages[q])) \cup {m}
      /\ m \notin Content(Tail(messages[q]))
  BY <1>1, TakeMessage DEF m
<1>4. m \in Queued[q]
  BY <1>1, <1>3 DEF Queued
<1>5. m \notin destroyed /\ (\A s \in Runs : m \notin Got[s] /\ (s # q => m \notin Queued[s]))
  BY <1>1, <1>4 DEF OnePlace
<1>6. m \notin Content(taken[r])
  BY <1>1, <1>5 DEF Got
<1>7. /\ Append(taken[r], m) \in Messages /\ Len(Append(taken[r], m)) = Len(taken[r]) + 1
      /\ Content(Append(taken[r], m)) = Content(taken[r]) \cup {m}
      /\ NoRepeat(Append(taken[r], m))
  BY <1>1, <1>3, <1>6, AddMessage
<1>8. /\ messages'[q] = Tail(messages[q]) /\ \A s \in Runs \ {q} : messages'[s] = messages[s]
      /\ taken'[r] = Append(taken[r], m) /\ \A s \in Runs \ {r} : taken'[s] = taken[s]
      /\ \A s \in Runs \ {r} : left'[s] = left[s]
      /\ tool[r].reads = "counted" => left'[r] = left[r] - 1
  BY <1>1, <1>2 DEF ToolTypes
<1>9. /\ Queued'[q] = Queued[q] \ {m} /\ \A s \in Runs \ {q} : Queued'[s] = Queued[s]
      /\ Got'[r] = Got[r] \cup {m} /\ \A s \in Runs \ {r} : Got'[s] = Got[s]
  <2>1. Content(Tail(messages[q])) = Content(messages[q]) \ {m}
    BY <1>3
  <2>. QED
    BY <1>1, <1>7, <1>8, <2>1 DEF Queued, Got
<1>10. ToolTypes'
  <2>1. messages' \in [Runs -> Messages] /\ taken' \in [Runs -> Messages]
    BY <1>1, <1>2, <1>3, <1>7 DEF ToolTypes
  <2>2. left' \in [Runs -> Nat]
    BY <1>1, <1>2 DEF ToolTypes
  <2>. QED
    BY <1>1, <1>2, <2>1, <2>2 DEF ToolTypes
<1>11. ToolPlaces'
  BY <1>1, <1>2, <1>8 DEF ToolPlaces, Busy
<1>12. Reached'
  <2>1. Unlinked => Unlinked'
    BY <1>2, UnlinkedStays
  <2>2. \A s \in Runs : messages'[s] # << >> => messages[s] # << >>
    BY <1>1, <1>8
  <2>. QED
    BY <1>1, <1>2, <2>1, <2>2 DEF Reached
<1>13. OnePlace'
  <2>1. \A s \in Runs : NoRepeat(messages'[s]) /\ NoRepeat(taken'[s])
    BY <1>1, <1>3, <1>7, <1>8 DEF OnePlace
  <2>2. \A s, t \in Runs : s # t => Queued'[s] \cap Queued'[t] = {} /\ Got'[s] \cap Got'[t] = {}
    BY <1>1, <1>5, <1>9 DEF OnePlace
  <2>3. \A s, t \in Runs : Queued'[s] \cap Got'[t] = {}
    BY <1>1, <1>5, <1>9 DEF OnePlace
  <2>4. \A s \in Runs : destroyed' \cap (Queued'[s] \cup Got'[s]) = {}
    BY <1>1, <1>2, <1>5, <1>9 DEF OnePlace
  <2>. QED
    BY <2>1, <2>2, <2>3, <2>4 DEF OnePlace
<1>14. SomePlace'
  <2>1. \A n : (\E s \in Runs : n \in Queued'[s] \cup Got'[s])
                 <=> \E s \in Runs : n \in Queued[s] \cup Got[s]
    BY <1>1, <1>4, <1>9
  <2>. QED
    BY <1>1, <1>2, <2>1 DEF SomePlace, IsSent
<1>15. Looked'
  <2>1. \A s \in Runs : Got[s] \subseteq Got'[s]
    BY <1>9
  <2>2. \A s, t \in Runs : t \in Runs => \A n \in Queued[t] : n \in Queued'[t] \/ n \in Got'[r]
    BY <1>9
  <2>3. \A s \in Runs : at[s] = "receive" => held[s] \in Runs
    BY <1>1 DEF ToolTypes, ToolPlaces, Busy
  <2>4. ASSUME NEW s \in Runs
        PROVE  /\ at[s] = "receive" =>
                    \A n \in seen[s] : n \in Queued'[held[s]] \/ \E t \in Runs : n \in Got'[t]
               /\ at[s] = "empty" => \A n \in seen[s] : \E t \in Runs : n \in Got'[t]
    BY <1>1, <2>1, <2>2, <2>3 DEF Looked
  <2>5. /\ tool[r].reads = "counted" => left'[r] + Len(taken'[r]) = Cardinality(seen[r])
        /\ \A s \in Runs : at[s] = "done" => taken'[s] = taken[s]
    <3>1. tool[r].reads = "counted" => left[r] + Len(taken[r]) = Cardinality(seen[r])
      BY <1>1 DEF Looked
    <3>2. Len(taken[r]) \in Nat
      BY <1>1 DEF Messages
    <3>. QED
      BY <1>1, <1>7, <1>8, <3>1, <3>2
  <2>. QED
    BY <1>1, <1>2, <1>8, <2>4, <2>5 DEF Looked
<1>. QED
  BY <1>10, <1>11, <1>12, <1>13, <1>14, <1>15 DEF ToolInv

\* The end of a run, on its own terms or not: a queue nobody can reach any more
\* vanishes.
LEMMA ToolLeave ==
  ASSUME ToolInv, NEW r \in Runs, NEW place \in Ends, NEW unlink \in BOOLEAN,
         Tools!Leave(r, place, unlink), Busy(r) \/ at[r] = "open",
         unlink => \/ tool[r].unlinks = "always" /\ place \in {"done", "failed"}
                   \/ tool[r].unlinks = "onFailure" /\ place = "failed",
         place = "empty" => at[r] = "receive" /\ messages[held[r]] = << >>,
         place = "done" /\ tool[r].reads = "counted" => at[r] = "receive" /\ left[r] = 0
  PROVE  ToolInv'
<1> USE ToolConstants
<1> DEFINE vanished == {q \in Runs : q # name' /\ \A s \in Runs : held'[s] # q}
<1>1. /\ ToolTypes /\ ToolPlaces /\ Reached /\ OnePlace /\ SomePlace /\ Looked
      /\ at[r] \in {"open", "look", "send", "receive", "close"}
  BY DEF ToolInv, Busy
<1>2. /\ UNCHANGED <<tool, sent, left, taken, seen>>
      /\ at' = [at EXCEPT ![r] = place] /\ held' = [held EXCEPT ![r] = None]
      /\ name' = (IF unlink THEN None ELSE name)
      /\ messages' = [q \in Runs |-> IF q \in vanished THEN << >> ELSE messages[q]]
      /\ destroyed' = destroyed \cup UNION {Content(messages[q]) : q \in vanished}
  BY DEF Tools!Leave, Tools!Goto, Tools!ToSet, Content
<1>3. /\ at'[r] = place /\ held'[r] = None /\ place \in Ends
      /\ \A s \in Runs \ {r} : at'[s] = at[s] /\ held'[s] = held[s]
      /\ \A q \in Runs : messages'[q] = IF q \in vanished THEN << >> ELSE messages[q]
  BY <1>1, <1>2 DEF ToolTypes
<1>4. << >> \in Messages /\ Content(<< >>) = {} /\ NoRepeat(<< >>)
  BY DEF Messages, Content, NoRepeat
<1>5. /\ \A q \in Runs : Queued'[q] = IF q \in vanished THEN {} ELSE Queued[q]
      /\ Got' = Got
      /\ \A m : m \in destroyed' <=> m \in destroyed \/ \E q \in vanished : m \in Queued[q]
  <2>1. \A q \in Runs : Queued[q] = Content(messages[q]) /\ Queued'[q] = Content(messages'[q])
    BY DEF Queued
  <2>2. Got' = Got
    BY <1>2 DEF Got
  <2>3. vanished \subseteq Runs
    OBVIOUS
  <2> HIDE DEF vanished
  <2>4. \A q \in Runs : Queued'[q] = IF q \in vanished THEN {} ELSE Queued[q]
    <3> SUFFICES ASSUME NEW q \in Runs
                 PROVE  Queued'[q] = IF q \in vanished THEN {} ELSE Queued[q]
      OBVIOUS
    <3>1. messages'[q] = IF q \in vanished THEN << >> ELSE messages[q]
      BY <1>3
    <3>. QED
      BY <1>4, <2>1, <3>1
  <2>5. \A m : m \in destroyed' <=> m \in destroyed \/ \E q \in vanished : m \in Queued[q]
    BY <1>2, <2>1, <2>3
  <2>. QED
    BY <2>2, <2>4, <2>5
<1>6. Unlinked => Unlinked'
  BY <1>1, <1>2, <1>3, UnlinkedStays DEF Ends
<1>7. unlink => Unlinked'
  BY <1>2, <1>3 DEF Unlinked, Tools!Unlinkers
<1>8. ToolTypes'
  <2>1. at' \in [Runs -> {"start", "open", "look", "send", "receive", "close",
                          "failed", "empty", "done", "killed"}]
    BY <1>1, <1>2 DEF ToolTypes, Ends
  <2>2. held' \in [Runs -> Runs \cup {None}] /\ name' \in Runs \cup {None}
    BY <1>1, <1>2 DEF ToolTypes
  <2>3. messages' \in [Runs -> Messages]
    BY <1>1, <1>2, <1>4 DEF ToolTypes
  <2>4. destroyed' \subseteq Message
    BY <1>1, <1>2 DEF ToolTypes, Content, Messages
  <2>. QED
    BY <1>1, <1>2, <2>1, <2>2, <2>3, <2>4 DEF ToolTypes
<1>9. ToolPlaces'
  BY <1>1, <1>2, <1>3 DEF ToolPlaces, Busy, Ends
<1>10. Reached'
  <2>1. ASSUME NEW q \in Runs, messages'[q] # << >>
        PROVE  q = name' \/ \E s \in Runs : held'[s] = q
    BY <1>3, <2>1
  <2>2. ASSUME NEW s \in Runs, held'[s] \notin {None, name'} PROVE Unlinked'
    BY <1>1, <1>2, <1>3, <1>6, <1>7, <2>2 DEF Reached
  <2>3. ASSUME destroyed' # {} PROVE Unlinked'
    <3>1. CASE destroyed # {}
      BY <1>1, <1>6, <3>1 DEF Reached
    <3>2. CASE destroyed = {}
      <4>1. PICK q \in vanished : messages[q] # << >>
        BY <1>2, <1>4, <2>3, <3>2
      <4>2. q = name \/ \E s \in Runs : held[s] = q
        BY <1>1, <4>1 DEF Reached
      <4>3. CASE q = name
        BY <1>2, <1>7, <4>1, <4>3
      <4>4. CASE q # name
        <5>1. q # None /\ \E s \in Runs : held[s] \notin {None, name}
          BY <4>2, <4>4
        <5>. QED
          BY <1>1, <1>6, <5>1 DEF Reached
      <4>. QED
        BY <4>3, <4>4
    <3>. QED
      BY <3>1, <3>2
  <2>. QED
    BY <2>1, <2>2, <2>3 DEF Reached
<1> HIDE DEF vanished
<1>11. OnePlace'
  <2>1. \A s \in Runs : NoRepeat(messages'[s]) /\ NoRepeat(taken'[s])
    BY <1>1, <1>2, <1>3, <1>4 DEF OnePlace
  <2>2. \A s \in Runs : Queued'[s] \subseteq Queued[s]
    BY <1>5
  <2>3. \A s, t \in Runs : s # t => Queued'[s] \cap Queued'[t] = {} /\ Got'[s] \cap Got'[t] = {}
    BY <1>1, <1>5, <2>2 DEF OnePlace
  <2>4. \A s, t \in Runs : Queued'[s] \cap Got'[t] = {}
    BY <1>1, <1>5, <2>2 DEF OnePlace
  <2>5. vanished \subseteq Runs
    BY DEF vanished
  <2>6. ASSUME NEW s \in Runs, NEW m \in destroyed' PROVE m \notin Queued'[s] /\ m \notin Got'[s]
    <3>1. CASE m \in destroyed
      BY <1>1, <1>5, <2>2, <3>1 DEF OnePlace
    <3>2. CASE \E q \in vanished : m \in Queued[q]
      <4>1. PICK q \in vanished : m \in Queued[q]
        BY <3>2
      <4>2. m \notin Got[s] /\ (q # s => m \notin Queued[s])
        BY <1>1, <2>5, <4>1 DEF OnePlace
      <4>. QED
        BY <1>5, <2>2, <4>1, <4>2
    <3>. QED
      BY <1>5, <3>1, <3>2
  <2>7. \A s \in Runs : destroyed' \cap (Queued'[s] \cup Got'[s]) = {}
    BY <2>6
  <2>. QED
    BY <2>1, <2>3, <2>4, <2>7 DEF OnePlace
<1>12. SomePlace'
  <2>1. vanished \subseteq Runs
    BY DEF vanished
  <2>2. \A m : (m \in destroyed' \/ \E q \in Runs : m \in Queued'[q] \cup Got'[q])
                 <=> (m \in destroyed \/ \E q \in Runs : m \in Queued[q] \cup Got[q])
    BY <1>5, <2>1
  <2>. QED
    BY <1>1, <1>2, <2>2 DEF SomePlace, IsSent
<1>13. Looked'
  <2>1. ASSUME NEW s \in Runs, at'[s] = "receive"
        PROVE  \A m \in seen[s] : m \in Queued'[held'[s]] \/ \E t \in Runs : m \in Got[t]
    <3>1. s # r /\ at[s] = "receive" /\ held'[s] = held[s]
      BY <1>3, <2>1 DEF Ends
    <3>2. held[s] \in Runs /\ held[s] \notin vanished
      BY <1>1, <3>1 DEF ToolTypes, ToolPlaces, Busy, vanished
    <3>. QED
      BY <1>1, <1>5, <3>1, <3>2 DEF Looked
  <2>2. ASSUME NEW s \in Runs, at'[s] = "empty"
        PROVE  \A m \in seen[s] : \E t \in Runs : m \in Got[t]
    <3>1. CASE s # r
      BY <1>1, <1>3, <2>2, <3>1 DEF Looked
    <3>2. CASE s = r
      <4>1. at[r] = "receive" /\ messages[held[r]] = << >>
        BY <1>3, <2>2, <3>2
      <4>2. held[r] \in Runs
        BY <1>1, <4>1 DEF ToolTypes, ToolPlaces, Busy
      <4>3. Queued[held[r]] = {}
        BY <1>4, <4>1, <4>2 DEF Queued
      <4>. QED
        BY <1>1, <3>2, <4>1, <4>3 DEF Looked
    <3>. QED
      BY <3>1, <3>2
  <2>3. ASSUME NEW s \in Runs, at'[s] = "done", tool[s].reads = "counted"
        PROVE  Len(taken[s]) = Cardinality(seen[s])
    <3>1. CASE s # r
      BY <1>1, <1>3, <2>3, <3>1 DEF Looked
    <3>2. CASE s = r
      <4>1. at[r] = "receive" /\ left[r] = 0
        BY <1>3, <2>3, <3>2
      <4>2. 0 + Len(taken[r]) = Cardinality(seen[r]) /\ Len(taken[r]) \in Nat
        BY <1>1, <2>3, <3>2, <4>1 DEF Looked, ToolTypes, Messages
      <4>. QED
        BY <3>2, <4>2
    <3>. QED
      BY <3>1, <3>2
  <2>4. ASSUME NEW s \in Runs, at'[s] = "receive" PROVE at[s] = "receive"
    BY <1>3, <2>4 DEF Ends
  <2>. QED
    BY <1>1, <1>2, <1>5, <2>1, <2>2, <2>3, <2>4 DEF Looked
<1>. QED
  BY <1>8, <1>9, <1>10, <1>11, <1>12, <1>13 DEF ToolInv

LEMMA ToolSteps ==
  ASSUME ToolInv, Tools!Next
  PROVE  ToolInv'
<1>1. PICK r \in Runs :
        \/ Tools!Start(r) \/ Tools!Open(r) \/ Tools!Look(r) \/ Tools!Send(r) \/ Tools!Receive(r)
        \/ Tools!OpenFails(r) \/ Tools!QueueEmpty(r) \/ Tools!Finish(r) \/ Tools!CallFails(r)
        \/ Tools!Kill(r)
  BY DEF Tools!Next
<1> USE ToolConstants
<1>2. /\ tool[r].unlinks \in {"never", "onFailure", "always"}
      /\ {"failed", "empty", "done", "killed"} = Ends
  BY DEF ToolInv, ToolTypes, Ends
<1>3. at[r] = "close" => tool[r].reads = "nothing"
  BY DEF ToolInv, ToolPlaces
<1>4. CASE Tools!Start(r) \/ Tools!Open(r) \/ Tools!Look(r)
  BY <1>4, ToolQuiet
<1>5. CASE Tools!Send(r)
  BY <1>5, ToolSend
<1>6. CASE Tools!Receive(r)
  BY <1>6, ToolReceive
<1>7. CASE Tools!OpenFails(r)
  <2>1. Tools!Leave(r, "failed", FALSE) /\ at[r] = "open"
    BY <1>7 DEF Tools!OpenFails
  <2>. QED
    BY <1>2, <2>1, ToolLeave
<1>8. CASE Tools!QueueEmpty(r)
  <2>1. Tools!Leave(r, "empty", FALSE) /\ at[r] = "receive" /\ messages[held[r]] = << >>
    BY <1>8 DEF Tools!QueueEmpty, Tools!Queue
  <2>. QED
    BY <1>2, <2>1, ToolLeave DEF Busy
<1>9. CASE Tools!Finish(r)
  <2> DEFINE unlink == tool[r].unlinks = "always"
  <2>1. /\ Tools!Leave(r, "done", unlink) /\ unlink \in BOOLEAN
        /\ at[r] \in {"close", "receive"}
        /\ tool[r].reads = "counted" => at[r] = "receive" /\ left[r] = 0
    BY <1>3, <1>9 DEF Tools!Finish, Tools!HasAll
  <2>2. unlink => tool[r].unlinks = "always"
    OBVIOUS
  <2> HIDE DEF unlink
  <2>. QED
    BY <1>2, <2>1, <2>2, ToolLeave DEF Busy
<1>10. CASE Tools!CallFails(r)
  <2> DEFINE unlink == tool[r].unlinks # "never"
  <2>1. /\ Tools!Leave(r, "failed", unlink) /\ unlink \in BOOLEAN
        /\ at[r] \in {"look", "send", "receive"}
    BY <1>10 DEF Tools!CallFails
  <2>2. unlink => tool[r].unlinks = "always" \/ tool[r].unlinks = "onFailure"
    BY <1>2
  <2> HIDE DEF unlink
  <2>. QED
    BY <1>2, <2>1, <2>2, ToolLeave DEF Busy
<1>11. CASE Tools!Kill(r)
  <2>1. Tools!Leave(r, "killed", FALSE) /\ Busy(r)
    BY <1>11 DEF Tools!Kill, Busy
  <2>. QED
    BY <1>2, <2>1, ToolLeave
<1>. QED
  BY <1>1, <1>4, <1>5, <1>6, <1>7, <1>8, <1>9, <1>10, <1>11

\* ToolInv holds while the tools run.
THEOREM ToolInvariance == ProgramSpec => [](kind = "tools" => ToolInv)
<1> DEFINE TInv == kind = "tools" => ToolInv
<1>1. ProgramInit => TInv
  BY ToolInit DEF ProgramInit
<1>2. TInv /\ [ProgramNext]_programVars => TInv'
  <2> SUFFICES ASSUME TInv, [ProgramNext]_programVars, kind' = "tools" PROVE ToolInv'
    OBVIOUS
  <2>1. kind = "tools" /\ ToolInv
    BY DEF ProgramNext, ServiceOnly, ToolsOnly, programVars
  <2>2. CASE UNCHANGED toolVars
    <3> USE <2>1, <2>2 DEF ToolInv, toolVars
    <3>1. ToolTypes' /\ ToolPlaces'
      BY DEF ToolTypes, ToolPlaces, Busy
    <3>2. Queued' = Queued /\ Got' = Got /\ Unlinked' = Unlinked
      BY DEF Queued, Got, Unlinked, Tools!Unlinkers
    <3>3. Reached' /\ OnePlace' /\ SomePlace' /\ Looked'
      BY <3>2 DEF Reached, OnePlace, SomePlace, IsSent, Looked
    <3>. QED
      BY <3>1, <3>3
  <2>3. CASE Tools!Next
    BY <2>1, <2>3, ToolSteps
  <2>. QED
    BY <2>1, <2>2, <2>3 DEF ProgramNext, ServiceOnly, programVars
<1>. QED
  BY <1>1, <1>2, PTL DEF ProgramSpec

\* A message that was sent is in one place and no other.
LEMMA OneCopyEach ==
  ASSUME ToolInv, NEW m \in Tools!Sent
  PROVE  Tools!Cardinality(Tools!Places(m)) = 1
<1> USE ToolConstants
<1>1. /\ ToolTypes /\ OnePlace /\ SomePlace
  BY DEF ToolInv
<1>2. m \in Message /\ IsSent(m)
  BY <1>1 DEF Tools!Sent, Message, IsSent, ToolTypes
<1>3. \A x : x \in Tools!Places(m) <=>
        \/ \E r \in Runs : \E i \in DOMAIN messages[r] : messages[r][i] = m /\ x = <<"queue", r, i>>
        \/ \E r \in Runs : \E i \in DOMAIN taken[r] : taken[r][i] = m /\ x = <<"reader", r, i>>
        \/ m \in destroyed /\ x = <<"destroyed", None, m>>
  BY DEF Tools!Places, Tools!Found
<1>4. \A r \in Runs :
        /\ m \in Queued[r] <=> \E i \in DOMAIN messages[r] : messages[r][i] = m
        /\ m \in Got[r] <=> \E i \in DOMAIN taken[r] : taken[r][i] = m
        /\ \A i, j \in DOMAIN messages[r] : messages[r][i] = m /\ messages[r][j] = m => i = j
        /\ \A i, j \in DOMAIN taken[r] : taken[r][i] = m /\ taken[r][j] = m => i = j
  BY <1>1 DEF Queued, Got, Content, OnePlace, NoRepeat
<1>5. \E x : Tools!Places(m) = {x}
  <2>1. CASE m \in destroyed
    <3>1. \A r \in Runs : m \notin Queued[r] /\ m \notin Got[r]
      BY <1>1, <2>1 DEF OnePlace
    <3>2. Tools!Places(m) = {<<"destroyed", None, m>>}
      BY <1>3, <1>4, <2>1, <3>1
    <3>. QED
      BY <3>2
  <2>2. ASSUME NEW r \in Runs, m \in Queued[r] PROVE \E x : Tools!Places(m) = {x}
    <3>1. PICK i \in DOMAIN messages[r] : messages[r][i] = m
      BY <1>4, <2>2
    <3>2. m \notin destroyed /\ \A s \in Runs : m \notin Got[s] /\ (s # r => m \notin Queued[s])
      BY <1>1, <2>2 DEF OnePlace
    <3>3. Tools!Places(m) = {<<"queue", r, i>>}
      BY <1>3, <1>4, <3>1, <3>2
    <3>. QED
      BY <3>3
  <2>3. ASSUME NEW r \in Runs, m \in Got[r] PROVE \E x : Tools!Places(m) = {x}
    <3>1. PICK i \in DOMAIN taken[r] : taken[r][i] = m
      BY <1>4, <2>3
    <3>2. m \notin destroyed /\ \A s \in Runs : m \notin Queued[s] /\ (s # r => m \notin Got[s])
      BY <1>1, <2>3 DEF OnePlace
    <3>3. Tools!Places(m) = {<<"reader", r, i>>}
      BY <1>3, <1>4, <3>1, <3>2
    <3>. QED
      BY <3>3
  <2>4. m \in destroyed \/ \E r \in Runs : m \in Queued[r] \cup Got[r]
    BY <1>1, <1>2 DEF SomePlace
  <2>. QED
    BY <2>1, <2>2, <2>3, <2>4
<1>6. Tools!Cardinality(Tools!Places(m)) = Cardinality(Tools!Places(m))
  BY DEF Tools!Cardinality, Cardinality
<1>. QED
  BY <1>5, <1>6, FS_Singleton

\* The messages of the tools are each in one place, whoever reads and writes,
\* fails or is killed; they vanish only behind a run that unlinks; and the
\* readers miss nothing that they saw, but for other readers and messages of a
\* higher priority (class9, assignment5).
THEOREM ToolsRight == ProgramSpec => []ToolsTrue
<1>1. ASSUME ToolInv PROVE Tools!ToolsTrue
  <2> USE ToolConstants
  <2>1. ToolTypes /\ ToolPlaces /\ Reached /\ OnePlace /\ Looked
    BY <1>1 DEF ToolInv
  <2>2. \A s : Tools!ToSet(s) = Content(s)
    BY DEF Tools!ToSet, Content
  <2>3. destroyed # {} => Unlinked
    BY <2>1 DEF Reached
  <2> SUFFICES ASSUME NEW r \in Runs
               PROVE  LET others == UNION {Content(taken[s]) : s \in Runs \ {r}}
                          missed == seen[r] \ (Content(taken[r]) \cup others)
                          waits == at[r] = "receive" /\ Tools!Queue(r) = << >> /\ ~Tools!HasAll(r)
                      IN  /\ at[r] = "empty" \/ (waits /\ tool[r].reads = "forever") => missed = {}
                          /\ at[r] = "done" /\ tool[r].reads = "counted" =>
                               /\ Len(taken[r]) = Tools!Cardinality(seen[r])
                               /\ missed # {} => ~(Content(taken[r]) \subseteq seen[r])
                          /\ waits /\ tool[r].reads = "counted" => seen[r] \cap others # {}
    BY <1>1, <2>2, <2>3, OneCopyEach DEF Tools!ToolsTrue, Unlinked
  <2> DEFINE others == UNION {Content(taken[s]) : s \in Runs \ {r}}
             missed == seen[r] \ (Content(taken[r]) \cup others)
             waits == at[r] = "receive" /\ Tools!Queue(r) = << >> /\ ~Tools!HasAll(r)
  <2>4. Tools!Cardinality(seen[r]) = Cardinality(seen[r])
    BY DEF Tools!Cardinality, Cardinality
  <2>5. \A m : (\E s \in Runs : m \in Got[s]) => m \in Content(taken[r]) \/ m \in others
    BY DEF Got
  <2>6. /\ IsFiniteSet(seen[r]) /\ Cardinality(seen[r]) \in Nat
        /\ IsFiniteSet(Content(taken[r])) /\ Cardinality(Content(taken[r])) = Len(taken[r])
        /\ Len(taken[r]) \in Nat /\ left[r] \in Nat
    <3>1. taken[r] \in Messages /\ NoRepeat(taken[r]) /\ IsFiniteSet(seen[r]) /\ left[r] \in Nat
      BY <2>1 DEF ToolTypes, OnePlace, Looked
    <3>. QED
      BY <3>1, CountMessages, FS_CardinalityType
  <2>7. waits => missed = {}
    <3> SUFFICES ASSUME waits PROVE missed = {}
      OBVIOUS
    <3>1. held[r] \in Runs /\ messages[held[r]] = << >>
      BY <2>1 DEF ToolTypes, ToolPlaces, Busy, Tools!Queue
    <3>2. Queued[held[r]] = {}
      BY <3>1 DEF Queued, Content
    <3>3. \A m \in seen[r] : \E s \in Runs : m \in Got[s]
      BY <2>1, <3>2 DEF Looked
    <3>. QED
      BY <2>5, <3>3
  <2>8. at[r] = "empty" => missed = {}
    BY <2>1, <2>5 DEF Looked
  <2>9. ASSUME at[r] = "done", tool[r].reads = "counted"
        PROVE  /\ Len(taken[r]) = Cardinality(seen[r])
               /\ missed # {} => ~(Content(taken[r]) \subseteq seen[r])
    <3>1. Len(taken[r]) = Cardinality(seen[r])
      BY <2>1, <2>9 DEF Looked
    <3>2. Content(taken[r]) \subseteq seen[r] => Content(taken[r]) = seen[r]
      BY <2>6, <3>1, FS_Subset
    <3>. QED
      BY <3>1, <3>2
  <2>10. ASSUME waits, tool[r].reads = "counted" PROVE seen[r] \cap others # {}
    <3> SUFFICES ASSUME seen[r] \cap others = {} PROVE FALSE
      OBVIOUS
    <3>1. seen[r] \subseteq Content(taken[r])
      BY <2>7, <2>10
    <3>2. Cardinality(seen[r]) <= Len(taken[r])
      BY <2>6, <3>1, FS_Subset
    <3>3. left[r] # 0 /\ left[r] + Len(taken[r]) = Cardinality(seen[r])
      BY <2>1, <2>10 DEF Looked, Tools!HasAll
    <3>. QED
      BY <2>6, <3>2, <3>3
  <2>. QED
    BY <2>4, <2>7, <2>8, <2>9, <2>10
<1>2. (kind = "tools" => ToolInv) => ToolsTrue
  BY <1>1 DEF ToolsTrue
<1>. QED
  BY <1>2, ToolInvariance, PTL
=============================================================================
