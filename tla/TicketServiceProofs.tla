------------------------ MODULE TicketServiceProofs ------------------------
(***************************************************************************)
(* Type correctness of the ticket service, that giveOutTickets implements   *)
(* the dispenser, and what becomes of a request, for any number of server   *)
(* and client runs, any number of handler threads, any width of the counter *)
(* and any choice of the runs that are interrupted.                         *)
(***************************************************************************)
EXTENDS TicketService, SequenceTheorems, TLAPS

\* What a server has in its variables when it comes to use them.
MainReady(s) ==
    /\ mainPc[s] \in {"openDummy", "read", "spawn"} => requestFd[s] \in Servers
    /\ mainPc[s] \in {"read", "spawn"} => dummyFd[s] \in Servers
    /\ mainPc[s] = "spawn" => request[s] \in Requests

HandlerReady(s, t) ==
    /\ handlerPc[s][t] = "copy" => input[s][t] \in Requests
    /\ handlerPc[s][t] \notin {"none", "copy"} => job[s][t] \in Requests
    /\ handlerPc[s][t] \notin {"none", "copy", "lock", "first"} =>
            response[s][t] \in Responses /\ response[s][t].by = <<s, t>>
    /\ handlerPc[s][t] \in {"write", "close"} => responseFd[s][t] \in Clients

ClientReady(c) ==
    /\ clientPc[c] \in {"openRequest", "write"} => numTickets[c] \in Counts
    /\ clientPc[c] = "write" => requestEnd[c] \in Servers

\* The handler in the critical section holds the mutex, and what it has read
\* from the counter is still there.
InSection(s, t) ==
    /\ handlerPc[s][t] \in {"first", "next", "unlock"} => mutex[s] = t
    /\ handlerPc[s][t] = "next" => response[s][t] = Answer(s, t, nextTicket[s])

Ready == /\ \A s \in Servers : MainReady(s)
         /\ \A s \in Servers, t \in Threads : HandlerReady(s, t)
         /\ \A c \in Clients : ClientReady(c)

Section == \A s \in Servers, t \in Threads : InSection(s, t)

IInv == TypeOK /\ Ready /\ Section

-----------------------------------------------------------------------------
(* What the operations of a FIFO return, for any ends and any messages *)

\* A new FIFO is a FIFO.
LEMMA NewFifoType ==
    ASSUME NEW E, NEW M
    PROVE  NewFifo \in Fifos(E, M)
BY DEF NewFifo, Fifos

\* An open keeps the contents and adds an end.
LEMMA OpenType ==
    ASSUME NEW E, NEW M, NEW f \in Fifos(E, M), NEW e \in E
    PROVE  /\ OpenForReading(f, e) \in Fifos(E, M)
           /\ OpenForWriting(f, e) \in Fifos(E, M)
           /\ OpenForReading(f, e).data = f.data
           /\ OpenForWriting(f, e).data = f.data
BY DEF OpenForReading, OpenForWriting, Fifos

\* A write adds a message at the tail.
LEMMA PutType ==
    ASSUME NEW E, NEW M, NEW f \in Fifos(E, M), NEW m \in M
    PROVE  /\ Put(f, m) \in Fifos(E, M)
           /\ Put(f, m).data = Append(f.data, m)
<1>1. Append(f.data, m) \in Seq(M)
  BY DEF Fifos
<1>. QED
  BY <1>1 DEF Put, Fifos

\* A read takes the message at the head.
LEMMA DropType ==
    ASSUME NEW E, NEW M, NEW f \in Fifos(E, M), HasData(f)
    PROVE  /\ Head(f.data) \in M
           /\ Drop(f) \in Fifos(E, M)
           /\ Drop(f).data = Tail(f.data)
<1>1. f.data \in Seq(M) /\ f.data # << >>
  BY DEF Fifos, HasData
<1>2. Head(f.data) \in M /\ Tail(f.data) \in Seq(M)
  BY <1>1
<1>. QED
  BY <1>2 DEF Drop, Fifos

\* Closing ends keeps the contents or frees them.
LEMMA CloseType ==
    ASSUME NEW E, NEW M, NEW f \in Fifos(E, M), NEW X
    PROVE  /\ CloseEnds(f, X) \in Fifos(E, M)
           /\ CloseEnds(f, X).data \in {f.data, << >>}
<1>1. << >> \in Seq(M)
  OBVIOUS
<1>. QED
  BY <1>1 DEF CloseEnds, Fifos

-----------------------------------------------------------------------------
(* The ends and the contents after each operation *)

LEMMA OpenForReadingFields ==
    ASSUME NEW E, NEW M, NEW f \in Fifos(E, M), NEW e
    PROVE  /\ OpenForReading(f, e).readers = f.readers \cup {e}
           /\ OpenForReading(f, e).writers = f.writers
           /\ OpenForReading(f, e).data = f.data
           /\ f.writers = {} => OpenForReading(f, e).met = f.met
BY DEF OpenForReading, Fifos

LEMMA OpenForWritingFields ==
    ASSUME NEW E, NEW M, NEW f \in Fifos(E, M), NEW e
    PROVE  /\ OpenForWriting(f, e).readers = f.readers
           /\ OpenForWriting(f, e).writers = f.writers \cup {e}
           /\ OpenForWriting(f, e).data = f.data
BY DEF OpenForWriting, Fifos

LEMMA PutFields ==
    ASSUME NEW E, NEW M, NEW f \in Fifos(E, M), NEW m
    PROVE  /\ Put(f, m).readers = f.readers
           /\ Put(f, m).writers = f.writers
           /\ Put(f, m).met = f.met
           /\ Put(f, m).data = Append(f.data, m)
BY DEF Put, Fifos

LEMMA DropFields ==
    ASSUME NEW E, NEW M, NEW f \in Fifos(E, M)
    PROVE  /\ Drop(f).readers = f.readers
           /\ Drop(f).writers = f.writers
           /\ Drop(f).met = f.met
BY DEF Drop, Fifos

LEMMA CloseFields ==
    ASSUME NEW f, NEW X
    PROVE  /\ CloseEnds(f, X).readers = f.readers \ X
           /\ CloseEnds(f, X).writers = f.writers \ X
           /\ CloseEnds(f, X).met = f.met \ X
           /\ f.readers \ X # {} => CloseEnds(f, X).data = f.data
           /\ CloseEnds(f, X).data \in {f.data, << >>}
BY DEF CloseEnds

-----------------------------------------------------------------------------
(* The constants *)

\* Every end that is opened is one of Ends.
LEMMA EndsType ==
    /\ \A s \in Servers : MainEnd(s) \in Ends
    /\ \A s \in Servers, t \in Threads : <<s, t>> \in Ends
    /\ \A c \in Clients : ClientEnd(c) \in Ends
BY ProtocolAssumption
   DEF MainEnd, ClientEnd, Ends, ServerEnds, ClientEnds, Threads

\* A count is small enough for the arithmetic of Wrap.
LEMMA CountBound ==
    ASSUME NEW n \in Counts
    PROVE  n \in Nat /\ 1 <= n /\ n < UINT
BY ProtocolAssumption

\* Sums of the counter stay unsigned.
LEMMA WrapType ==
    ASSUME NEW x \in Nat, x < 2 * UINT
    PROVE  Wrap(x) \in Unsigned
BY ProtocolAssumption DEF Wrap, Unsigned

\* Two wraps of a sum are one.
LEMMA WrapTwice ==
    ASSUME NEW k \in Unsigned, NEW n \in Counts
    PROVE  Wrap(Wrap(k + n - 1) + 1) = Wrap(k + n)
<1>1. n \in Nat /\ 1 <= n /\ n < UINT
  BY CountBound
<1>2. UINT \in Nat /\ k \in 0 .. (UINT - 1)
  BY ProtocolAssumption DEF Unsigned
<1>. QED
  BY <1>1, <1>2 DEF Wrap

\* The end of a process leaves FIFOs.
LEMMA CloseAllType ==
    ASSUME FifoTypeOK, NEW p, CloseAll(p)
    PROVE  /\ requestFifo' \in [Servers -> Fifos(Ends, Requests)]
           /\ responseFifo' \in [Clients -> Fifos(Ends, Responses)]
<1>1. \A s \in Servers : CloseEnds(requestFifo[s], EndsOf(p)) \in Fifos(Ends, Requests)
  BY CloseType DEF FifoTypeOK
<1>2. \A c \in Clients : CloseEnds(responseFifo[c], EndsOf(p)) \in Fifos(Ends, Responses)
  BY CloseType DEF FifoTypeOK
<1>. QED
  BY <1>1, <1>2 DEF CloseAll

-----------------------------------------------------------------------------
(* Steps of the server *)

\* The end of a server run.
LEMMA DieInv ==
    ASSUME IInv, NEW s \in Servers, Die(s), UNCHANGED clientVars
    PROVE  IInv'
<1>1. TypeOK'
  BY CloseAllType
     DEF IInv, TypeOK, FifoTypeOK, ServerTypeOK, ClientTypeOK, Die,
         handlerVars, counterVars, clientVars
<1>2. Ready' /\ Section'
  BY DEF IInv, Ready, MainReady, HandlerReady, ClientReady, Section, InSection,
         Answer, Die, handlerVars, counterVars, clientVars
<1>. QED
  BY <1>1, <1>2 DEF IInv

\* exit() in the main thread.
LEMMA MainExitInv ==
    ASSUME IInv, NEW s \in Servers, MainExit(s), UNCHANGED clientVars
    PROVE  IInv'
<1>1. TypeOK'
  BY DEF IInv, TypeOK, FifoTypeOK, ServerTypeOK, ClientTypeOK, MainExit,
         RunExitHandler, MainPcs, handlerVars, counterVars, clientVars
<1>2. Ready' /\ Section'
  BY DEF IInv, TypeOK, ServerTypeOK, Ready, MainReady, HandlerReady, ClientReady, Section, InSection,
         Answer, MainExit, handlerVars, counterVars, clientVars
<1>. QED
  BY <1>1, <1>2 DEF IInv

\* The steps of the main thread.
LEMMA MainInv ==
    ASSUME IInv, NEW s \in Servers, Start(s) \/ MainStep(s), UNCHANGED clientVars
    PROVE  IInv'
<1>. USE DEF IInv, TypeOK, FifoTypeOK, ServerTypeOK, ClientTypeOK, MainPcs,
             fifoVars, handlerVars, counterVars, clientVars
<1>r. ASSUME UNCHANGED <<handlerVars, counterVars>>
      PROVE  (\A u \in Servers, t \in Threads : HandlerReady(u, t))' /\ Section'
  BY <1>r DEF Ready, HandlerReady, Section, InSection, Answer
<1>c. (\A c \in Clients : ClientReady(c))'
  BY DEF Ready, ClientReady
<1>1. CASE Start(s)
  <2>1. TypeOK'
    BY <1>1 DEF Start
  <2>2. \A u \in Servers : MainReady(u)'
    BY <1>1 DEF Start, Ready, MainReady
  <2>. QED
    BY <1>1, <1>r, <1>c, <2>1, <2>2 DEF Start, Ready
<1>2. CASE MakeRequestFifo(s)
  <2>1. TypeOK'
    BY <1>2 DEF MakeRequestFifo
  <2>2. \A u \in Servers : MainReady(u)'
    BY <1>2 DEF MakeRequestFifo, Ready, MainReady
  <2>. QED
    BY <1>2, <1>r, <1>c, <2>1, <2>2 DEF MakeRequestFifo, Ready
<1>3. CASE OpenRequestFifo(s)
  <2>0. requestPath \in Servers
    BY <1>3 DEF OpenRequestFifo
  <2>1. requestFifo' \in [Servers -> Fifos(Ends, Requests)]
    BY <1>3, <2>0, OpenType, EndsType DEF OpenRequestFifo
  <2>2. TypeOK'
    BY <1>3, <2>0, <2>1 DEF OpenRequestFifo
  <2>3. \A u \in Servers : MainReady(u)'
    BY <1>3, <2>0 DEF OpenRequestFifo, Ready, MainReady
  <2>. QED
    BY <1>3, <1>r, <1>c, <2>2, <2>3 DEF OpenRequestFifo, Ready
<1>4. CASE OpenDummy(s)
  <2>0. requestPath \in Servers
    BY <1>4 DEF OpenDummy
  <2>1. requestFifo' \in [Servers -> Fifos(Ends, Requests)]
    BY <1>4, <2>0, OpenType, EndsType DEF OpenDummy
  <2>2. TypeOK'
    BY <1>4, <2>0, <2>1 DEF OpenDummy
  <2>3. \A u \in Servers : MainReady(u)'
    BY <1>4, <2>0 DEF OpenDummy, Ready, MainReady
  <2>. QED
    BY <1>4, <1>r, <1>c, <2>2, <2>3 DEF OpenDummy, Ready
<1>5. CASE MainFails(s)
  BY <1>5, MainExitInv DEF MainFails
<1>6. CASE ReadRequest(s)
  <2>0. requestFd[s] \in Servers /\ dummyFd[s] \in Servers
    BY <1>6 DEF ReadRequest, Ready, MainReady
  <2>1. /\ requestFifo' \in [Servers -> Fifos(Ends, Requests)]
        /\ \E r \in Requests : request' = [request EXCEPT ![s] = r]
    <3>1. CASE HasData(requestFifo[requestFd[s]])
               /\ request' = [request EXCEPT ![s] = Head(requestFifo[requestFd[s]].data)]
               /\ requestFifo' = [requestFifo EXCEPT ![requestFd[s]] = Drop(@)]
      BY <2>0, <3>1, DropType
    <3>2. CASE UNCHANGED requestFifo
               /\ \E r \in Requests : request' = [request EXCEPT ![s] = r]
      BY <3>2
    <3>. QED
      BY <1>6, <3>1, <3>2 DEF ReadRequest
  <2>2. TypeOK'
    BY <1>6, <2>1 DEF ReadRequest, MaybeRequest
  <2>3. \A u \in Servers : MainReady(u)'
    <3>1. ASSUME NEW u \in Servers, u # s PROVE MainReady(u)'
      BY <1>6, <2>1, <3>1 DEF ReadRequest, Ready, MainReady
    <3>2. MainReady(s)'
      BY <1>6, <2>0, <2>1 DEF ReadRequest, Ready, MainReady
    <3>. QED
      BY <3>1, <3>2
  <2>. QED
    BY <1>6, <1>r, <1>c, <2>2, <2>3 DEF ReadRequest, Ready
<1>7. CASE SpawnHandler(s)
  <2>. DEFINE t == spawned[s] + 1
  <2>0. t \in Threads /\ request[s] \in Requests /\ t \in 0 .. MaxThreads
    BY <1>7, ProtocolAssumption DEF SpawnHandler, Ready, MainReady, Threads
  <2>1. TypeOK'
    BY <1>7, <2>0 DEF SpawnHandler, HandlerPcs, MaybeRequest
  <2>2. \A u \in Servers : MainReady(u)'
    BY <1>7 DEF SpawnHandler, Ready, MainReady
  <2>3. \A u \in Servers, v \in Threads : HandlerReady(u, v)' /\ InSection(u, v)'
    <3> SUFFICES ASSUME NEW u \in Servers, NEW v \in Threads
                 PROVE  HandlerReady(u, v)' /\ InSection(u, v)'
      OBVIOUS
    <3>1. CASE u = s /\ v = t
      BY <1>7, <2>0, <3>1 DEF SpawnHandler, HandlerReady, InSection
    <3>2. CASE ~(u = s /\ v = t)
      <4>1. handlerPc'[u][v] = handlerPc[u][v] /\ input'[u][v] = input[u][v]
        BY <1>7, <2>0, <3>2 DEF SpawnHandler
      <4>. QED
        BY <1>7, <4>1 DEF SpawnHandler, Ready, HandlerReady, Section, InSection, Answer
    <3>. QED
      BY <3>1, <3>2
  <2>. QED
    BY <1>c, <2>1, <2>2, <2>3 DEF Ready, Section
<1>. QED
  BY <1>1, <1>2, <1>3, <1>4, <1>5, <1>6, <1>7 DEF MainStep

\* What a step of handler t leaves alone in the handlers.
LEMMA HandlerFrame ==
    ASSUME IInv, NEW s \in Servers, NEW t \in Threads, HandlerStep(s, t),
           NEW u \in Servers, NEW v \in Threads, ~(u = s /\ v = t)
    PROVE  /\ handlerPc'[u][v] = handlerPc[u][v]
           /\ input'[u][v] = input[u][v]
           /\ job'[u][v] = job[u][v]
           /\ response'[u][v] = response[u][v]
           /\ responseFd'[u][v] = responseFd[u][v]
<1>. USE DEF IInv, TypeOK, ServerTypeOK, Goto, handlerVars
<1>1. CASE CopyRequest(s, t) \/ Lock(s, t) \/ TakeTickets(s, t)
  BY <1>1 DEF CopyRequest, Lock, TakeTickets
<1>2. CASE AdvanceCounter(s, t) \/ Unlock(s, t) \/ OpenResponse(s, t)
  BY <1>2 DEF AdvanceCounter, Unlock, OpenResponse
<1>3. CASE HandlerFails(s, t) \/ WriteResponse(s, t)
  BY <1>3 DEF HandlerFails, WriteResponse
<1>4. CASE BrokenPipe(s, t) \/ FinishHandler(s, t)
  BY <1>4 DEF BrokenPipe, FinishHandler
<1>. QED
  BY <1>1, <1>2, <1>3, <1>4 DEF HandlerStep

\* A handler outside the critical section does not touch the counter, and the
\* ones inside have the mutex, so no two of them are inside.
LEMMA CounterFrame ==
    ASSUME IInv, NEW s \in Servers, NEW t \in Threads, HandlerStep(s, t),
           NEW u \in Servers, NEW v \in Threads, ~(u = s /\ v = t)
    PROVE  InSection(u, v)'
<1>. USE DEF IInv, TypeOK, ServerTypeOK, Goto, Section, counterVars
<1>0. InSection(u, v)
  OBVIOUS
<1>1. CASE mutex'[u] = mutex[u] /\ nextTicket'[u] = nextTicket[u]
  BY <1>0, <1>1, HandlerFrame DEF InSection, Answer
<1>2. CASE Lock(s, t)
  <2>1. CASE u = s
    <3>1. t # v /\ mutex[s] = 0 /\ v # 0
      BY <1>2, <2>1, ProtocolAssumption DEF Lock, CanLock, Threads
    <3>. QED
      BY <1>0, <2>1, <3>1, HandlerFrame DEF InSection
  <2>. QED
    BY <1>1, <1>2, <2>1 DEF Lock
<1>3. CASE AdvanceCounter(s, t) \/ Unlock(s, t)
  <2>1. CASE u = s
    <3>1. mutex[s] = t /\ t # v
      BY <1>3, <2>1 DEF AdvanceCounter, Unlock, At, InSection
    <3>. QED
      BY <1>0, <2>1, <3>1, HandlerFrame DEF InSection
  <2>. QED
    BY <1>1, <1>3, <2>1 DEF AdvanceCounter, Unlock
<1>4. CASE UNCHANGED <<mutex, nextTicket>>
  BY <1>1, <1>4
<1>5. CASE CopyRequest(s, t) \/ TakeTickets(s, t) \/ OpenResponse(s, t)
  BY <1>4, <1>5 DEF CopyRequest, TakeTickets, OpenResponse
<1>6. CASE HandlerFails(s, t) \/ WriteResponse(s, t) \/ BrokenPipe(s, t) \/ FinishHandler(s, t)
  BY <1>4, <1>6 DEF HandlerFails, WriteResponse, BrokenPipe, FinishHandler
<1>. QED
  BY <1>2, <1>3, <1>5, <1>6 DEF HandlerStep

\* The other handlers have what they had.
LEMMA ReadyFrame ==
    ASSUME IInv, NEW s \in Servers, NEW t \in Threads, HandlerStep(s, t),
           NEW u \in Servers, NEW v \in Threads, ~(u = s /\ v = t)
    PROVE  HandlerReady(u, v)'
<1>1. HandlerReady(u, v)
  BY DEF IInv, Ready
<1>2. /\ handlerPc'[u][v] = handlerPc[u][v] /\ input'[u][v] = input[u][v]
      /\ job'[u][v] = job[u][v] /\ response'[u][v] = response[u][v]
      /\ responseFd'[u][v] = responseFd[u][v]
  BY HandlerFrame
<1>. QED
  BY <1>1, <1>2 DEF HandlerReady

\* The steps of a handler thread.
LEMMA HandlerInv ==
    ASSUME IInv, NEW s \in Servers, NEW t \in Threads, HandlerStep(s, t),
           UNCHANGED clientVars
    PROVE  IInv'
<1>. USE DEF IInv, TypeOK, FifoTypeOK, ServerTypeOK, ClientTypeOK, HandlerPcs,
             MaybeRequest, MaybeResponse, fifoVars, mainVars, counterVars,
             clientVars, Goto, At
<1>0. HandlerReady(s, t) /\ InSection(s, t) /\ t \in 0 .. MaxThreads
  BY ProtocolAssumption DEF Ready, Section, Threads
<1>c. (\A c \in Clients : ClientReady(c))'
  BY DEF Ready, ClientReady
<1>o. \A u \in Servers, v \in Threads :
          ~(u = s /\ v = t) => HandlerReady(u, v)' /\ InSection(u, v)'
  BY ReadyFrame, CounterFrame
<1>m. ASSUME UNCHANGED <<mainPc, requestFd, dummyFd, request>>
      PROVE  (\A u \in Servers : MainReady(u))'
  BY <1>m DEF Ready, MainReady
<1>q. ASSUME TypeOK', UNCHANGED <<mainPc, requestFd, dummyFd, request>>,
             HandlerReady(s, t)', InSection(s, t)'
      PROVE  IInv'
  <2>1. \A u \in Servers, v \in Threads : HandlerReady(u, v)' /\ InSection(u, v)'
    BY <1>o, <1>q
  <2>. QED
    BY <1>c, <1>m, <1>q, <2>1 DEF Ready, Section
<1>1. CASE CopyRequest(s, t)
  <2>0. input[s][t] \in Requests
    BY <1>0, <1>1 DEF CopyRequest, HandlerReady
  <2>1. TypeOK'
    BY <1>1, <2>0 DEF CopyRequest, RequestBehind
  <2>2. HandlerReady(s, t)' /\ InSection(s, t)'
    BY <1>1, <2>0 DEF CopyRequest, RequestBehind, HandlerReady, InSection
  <2>. QED
    BY <1>1, <1>q, <2>1, <2>2 DEF CopyRequest
<1>2. CASE Lock(s, t)
  <2>1. TypeOK'
    BY <1>0, <1>2 DEF Lock
  <2>2. HandlerReady(s, t)' /\ InSection(s, t)'
    BY <1>0, <1>2 DEF Lock, HandlerReady, InSection
  <2>. QED
    BY <1>2, <1>q, <2>1, <2>2 DEF Lock
<1>3. CASE TakeTickets(s, t)
  <2>0. Answer(s, t, nextTicket[s]) \in Responses
    <3>1. job[s][t].numTickets \in Counts
      BY <1>0, <1>3 DEF TakeTickets, HandlerReady, Requests
    <3>2. nextTicket[s] + job[s][t].numTickets - 1 \in Nat
          /\ nextTicket[s] + job[s][t].numTickets - 1 < 2 * UINT
      <4>1. nextTicket[s] \in 0 .. (UINT - 1) /\ UINT \in Nat
        BY ProtocolAssumption DEF Unsigned
      <4>. QED
        BY <3>1, <4>1, CountBound
    <3>. QED
      BY <3>2, WrapType DEF Answer, Responses
  <2>1. TypeOK'
    BY <1>3, <2>0 DEF TakeTickets
  <2>2. HandlerReady(s, t)' /\ InSection(s, t)'
    BY <1>0, <1>3, <2>0 DEF TakeTickets, HandlerReady, InSection, Answer
  <2>. QED
    BY <1>3, <1>q, <2>1, <2>2 DEF TakeTickets
<1>4. CASE AdvanceCounter(s, t)
  <2>0. job[s][t].numTickets \in Nat /\ TicketAfter(response[s][t]) \in Unsigned
    <3>1. job[s][t].numTickets \in Counts /\ response[s][t].lastTicket \in Unsigned
      BY <1>0, <1>4 DEF AdvanceCounter, HandlerReady, Requests, Responses
    <3>2. response[s][t].lastTicket + 1 \in Nat /\ response[s][t].lastTicket + 1 < 2 * UINT
      BY <3>1, ProtocolAssumption DEF Unsigned
    <3>. QED
      BY <3>1, <3>2, WrapType, CountBound DEF TicketAfter
  <2>1. TypeOK'
    BY <1>4, <2>0 DEF AdvanceCounter
  <2>2. HandlerReady(s, t)' /\ InSection(s, t)'
    BY <1>0, <1>4 DEF AdvanceCounter, HandlerReady, InSection
  <2>. QED
    BY <1>4, <1>q, <2>1, <2>2 DEF AdvanceCounter
<1>5. CASE Unlock(s, t)
  <2>1. TypeOK'
    BY <1>0, <1>5, ProtocolAssumption DEF Unlock
  <2>2. HandlerReady(s, t)' /\ InSection(s, t)'
    BY <1>0, <1>5 DEF Unlock, HandlerReady, InSection
  <2>. QED
    BY <1>5, <1>q, <2>1, <2>2 DEF Unlock
<1>6. CASE OpenResponse(s, t)
  <2>. DEFINE c == ResponsePathFor(s, t)
  <2>0. c \in Clients
    BY <1>0, <1>6 DEF OpenResponse, HandlerReady, ResponsePathFor, Requests
  <2>1. responseFifo' \in [Clients -> Fifos(Ends, Responses)]
    BY <1>6, <2>0, OpenType, EndsType DEF OpenResponse
  <2>2. TypeOK'
    BY <1>6, <2>0, <2>1 DEF OpenResponse
  <2>3. HandlerReady(s, t)' /\ InSection(s, t)'
    BY <1>0, <1>6, <2>0 DEF OpenResponse, HandlerReady, InSection
  <2>. QED
    BY <1>6, <1>q, <2>2, <2>3 DEF OpenResponse
<1>7. CASE HandlerFails(s, t)
  <2>1. TypeOK'
    BY <1>7 DEF HandlerFails, RunExitHandler
  <2>2. HandlerReady(s, t)' /\ InSection(s, t)'
    BY <1>0, <1>7 DEF HandlerFails, HandlerReady, InSection
  <2>. QED
    BY <1>7, <1>q, <2>1, <2>2 DEF HandlerFails
<1>8. CASE WriteResponse(s, t)
  <2>. DEFINE c == responseFd[s][t]
  <2>0. c \in Clients /\ response[s][t] \in Responses
    BY <1>0, <1>8 DEF WriteResponse, HandlerReady
  <2>1. responseFifo' \in [Clients -> Fifos(Ends, Responses)]
    BY <1>8, <2>0, PutType DEF WriteResponse
  <2>2. TypeOK'
    BY <1>8, <2>1 DEF WriteResponse
  <2>3. HandlerReady(s, t)' /\ InSection(s, t)'
    BY <1>0, <1>8 DEF WriteResponse, HandlerReady, InSection
  <2>. QED
    BY <1>8, <1>q, <2>2, <2>3 DEF WriteResponse
<1>9. CASE BrokenPipe(s, t)
  <2>1. TypeOK'
    BY <1>9, CloseAllType DEF BrokenPipe, handlerVars
  <2>2. HandlerReady(s, t)' /\ InSection(s, t)'
    BY <1>0, <1>9 DEF BrokenPipe, HandlerReady, InSection, Answer, handlerVars
  <2>. QED
    BY <1>9, <1>q, <2>1, <2>2 DEF BrokenPipe
<1>10. CASE FinishHandler(s, t)
  <2>. DEFINE c == responseFd[s][t]
  <2>0. c \in Clients
    BY <1>0, <1>10 DEF FinishHandler, HandlerReady
  <2>1. responseFifo' \in [Clients -> Fifos(Ends, Responses)]
    BY <1>10, <2>0, CloseType DEF FinishHandler
  <2>2. TypeOK'
    BY <1>10, <2>1 DEF FinishHandler
  <2>3. HandlerReady(s, t)' /\ InSection(s, t)'
    BY <1>0, <1>10 DEF FinishHandler, HandlerReady, InSection
  <2>. QED
    BY <1>10, <1>q, <2>2, <2>3 DEF FinishHandler
<1>. QED
  BY <1>1, <1>2, <1>3, <1>4, <1>5, <1>6, <1>7, <1>8, <1>9, <1>10 DEF HandlerStep

-----------------------------------------------------------------------------
(* Steps of the client *)

\* A step of a client leaves the servers alone.
LEMMA ServerUnchanged ==
    ASSUME IInv, UNCHANGED serverVars
    PROVE  /\ ServerTypeOK' /\ Section'
           /\ (\A s \in Servers : MainReady(s))'
           /\ (\A s \in Servers, t \in Threads : HandlerReady(s, t))'
BY DEF IInv, TypeOK, ServerTypeOK, Ready, MainReady, HandlerReady, Section,
       InSection, Answer, serverVars, mainVars, handlerVars, counterVars

\* The end of a client run, with or without the exit handler.
LEMMA ClientEndInv ==
    ASSUME IInv, NEW c \in Clients, UNCHANGED serverVars,
           UNCHANGED <<requestPath, numTickets, requestEnd, got>>,
           ClientExit(c) \/ Killed(c)
    PROVE  IInv'
<1>1. CloseAll(c) /\ (ClientGoto(c, "done") \/ ClientGoto(c, "dead"))
  BY DEF ClientExit, Killed
<1>2. responsePath' \in [Pids -> Clients \cup {None}]
  BY DEF ClientExit, Killed, IInv, TypeOK, FifoTypeOK
<1>3. FifoTypeOK'
  BY <1>1, <1>2, CloseAllType DEF IInv, TypeOK, FifoTypeOK
<1>4. ClientTypeOK'
  BY <1>1 DEF IInv, TypeOK, ClientTypeOK, ClientGoto, ClientPcs
<1>5. \A d \in Clients : ClientReady(d)'
  BY <1>1 DEF IInv, TypeOK, ClientTypeOK, Ready, ClientReady, ClientGoto
<1>. QED
  BY <1>3, <1>4, <1>5, ServerUnchanged DEF IInv, TypeOK, Ready

\* The steps of a client.
LEMMA ClientInv ==
    ASSUME IInv, NEW c \in Clients, UNCHANGED serverVars,
           StartClient(c) \/ ClientStep(c) \/ ClientInterrupt(c)
    PROVE  IInv'
<1>. USE DEF IInv, TypeOK, FifoTypeOK, ClientTypeOK, ClientPcs, ClientGoto
<1>0. ClientReady(c) /\ PidOf[c] \in Pids
  BY ProtocolAssumption DEF Ready
<1>q. ASSUME FifoTypeOK', ClientTypeOK', \A d \in Clients : ClientReady(d)'
      PROVE  IInv'
  BY <1>q, ServerUnchanged DEF Ready
<1>1. ASSUME NEW n \in Counts, CreateResponseFifo(c, n)
      PROVE  IInv'
  <2>1. FifoTypeOK' /\ ClientTypeOK'
    BY <1>0, <1>1 DEF CreateResponseFifo
  <2>2. \A d \in Clients : ClientReady(d)'
    BY <1>1 DEF CreateResponseFifo, Ready, ClientReady
  <2>. QED
    BY <1>q, <2>1, <2>2
<1>2. CASE FindStaleFifo(c) \/ NoServer(c) \/ FinishClient(c)
  BY <1>2, ClientEndInv DEF FindStaleFifo, NoServer, FinishClient
<1>3. CASE ClientBrokenPipe(c) \/ ClientInterrupt(c)
  BY <1>3, ClientEndInv DEF ClientBrokenPipe, ClientInterrupt, Killed
<1>4. CASE OpenRequest(c)
  <2>0. requestPath \in Servers
    BY <1>4 DEF OpenRequest
  <2>1. requestFifo' \in [Servers -> Fifos(Ends, Requests)]
    BY <1>4, <2>0, OpenType, EndsType DEF OpenRequest
  <2>2. FifoTypeOK' /\ ClientTypeOK'
    BY <1>4, <2>0, <2>1 DEF OpenRequest
  <2>3. \A d \in Clients : ClientReady(d)'
    BY <1>0, <1>4, <2>0 DEF OpenRequest, Ready, ClientReady
  <2>. QED
    BY <1>q, <2>2, <2>3
<1>5. CASE WriteRequest(c)
  <2>0. requestEnd[c] \in Servers /\ RequestOf(c) \in Requests
    BY <1>0, <1>5 DEF WriteRequest, ClientReady, RequestOf, Requests
  <2>1. requestFifo' \in [Servers -> Fifos(Ends, Requests)]
    BY <1>5, <2>0, PutType DEF WriteRequest
  <2>2. FifoTypeOK' /\ ClientTypeOK'
    BY <1>5, <2>1 DEF WriteRequest
  <2>3. \A d \in Clients : ClientReady(d)'
    BY <1>5 DEF WriteRequest, Ready, ClientReady
  <2>. QED
    BY <1>q, <2>2, <2>3
<1>6. CASE CloseRequest(c)
  <2>1. requestFifo' \in [Servers -> Fifos(Ends, Requests)]
    BY <1>6, CloseType DEF CloseRequest
  <2>2. FifoTypeOK' /\ ClientTypeOK'
    BY <1>6, <2>1 DEF CloseRequest
  <2>3. \A d \in Clients : ClientReady(d)'
    BY <1>6 DEF CloseRequest, Ready, ClientReady
  <2>. QED
    BY <1>q, <2>2, <2>3
<1>7. CASE OpenOwnFifo(c)
  <2>1. responseFifo' \in [Clients -> Fifos(Ends, Responses)]
    BY <1>7, OpenType, EndsType DEF OpenOwnFifo
  <2>2. FifoTypeOK' /\ ClientTypeOK'
    BY <1>7, <2>1 DEF OpenOwnFifo
  <2>3. \A d \in Clients : ClientReady(d)'
    BY <1>7 DEF OpenOwnFifo, Ready, ClientReady
  <2>. QED
    BY <1>q, <2>2, <2>3
<1>8. CASE ReadResponse(c)
  <2>1. /\ responseFifo' \in [Clients -> Fifos(Ends, Responses)]
        /\ got' \in [Clients -> Responses \cup {Garbage, None}]
    <3>1. CASE HasData(responseFifo[c])
               /\ got' = [got EXCEPT ![c] = Head(responseFifo[c].data)]
               /\ responseFifo' = [responseFifo EXCEPT ![c] = Drop(@)]
      BY <3>1, DropType
    <3>2. CASE UNCHANGED responseFifo /\ got' = [got EXCEPT ![c] = Garbage]
      BY <3>2
    <3>. QED
      BY <1>8, <3>1, <3>2 DEF ReadResponse
  <2>2. FifoTypeOK' /\ ClientTypeOK'
    BY <1>8, <2>1 DEF ReadResponse
  <2>3. \A d \in Clients : ClientReady(d)'
    BY <1>8 DEF ReadResponse, Ready, ClientReady
  <2>. QED
    BY <1>q, <2>2, <2>3
<1>. QED
  BY <1>1, <1>2, <1>3, <1>4, <1>5, <1>6, <1>7, <1>8 DEF StartClient, ClientStep

-----------------------------------------------------------------------------
(* The theorems *)

\* The invariant holds before anything was started.
LEMMA InitInv == Init => IInv
<1> SUFFICES ASSUME Init PROVE IInv
  OBVIOUS
<1>1. FifoTypeOK
  BY NewFifoType DEF Init, FifoInit, FifoTypeOK
<1>2. ServerTypeOK
  BY ProtocolAssumption
     DEF Init, ServerInit, ServerTypeOK, MainPcs, HandlerPcs, MaybeRequest,
         MaybeResponse, Unsigned
<1>3. ClientTypeOK
  BY DEF Init, ClientInit, ClientTypeOK, ClientPcs
<1>4. Ready /\ Section
  BY DEF Init, ServerInit, ClientInit, Ready, MainReady, HandlerReady,
         ClientReady, Section, InSection
<1>. QED
  BY <1>1, <1>2, <1>3, <1>4 DEF IInv, TypeOK

\* Every step keeps it.
LEMMA NextInv == IInv /\ [Next]_vars => IInv'
<1> SUFFICES ASSUME IInv, [Next]_vars PROVE IInv'
  OBVIOUS
<1>1. ASSUME NEW s \in Servers, ServerNext(s) PROVE IInv'
  BY <1>1, DieInv, MainExitInv, MainInv, HandlerInv DEF ServerNext, Interrupt
<1>2. ASSUME NEW c \in Clients, ClientNext(c) PROVE IInv'
  BY <1>2, ClientInv DEF ClientNext
<1>3. CASE UNCHANGED vars
  <2>1. FifoTypeOK' /\ ClientTypeOK' /\ (\A c \in Clients : ClientReady(c))'
    BY <1>3 DEF vars, fifoVars, clientVars, IInv, TypeOK, FifoTypeOK,
                ClientTypeOK, Ready, ClientReady
  <2>. QED
    BY <1>3, <2>1, ServerUnchanged DEF vars, IInv, TypeOK, Ready
<1>. QED
  BY <1>1, <1>2, <1>3 DEF Next

\* The inductive invariant of the service.
THEOREM ServiceInvariant == Spec => []IInv
<1>. QED
  BY InitInv, NextInv, PTL DEF Spec

\* Type correctness.
THEOREM TypeCorrect == Spec => []TypeOK
<1>1. IInv => TypeOK
  BY DEF IInv
<1>. QED
  BY <1>1, ServiceInvariant, PTL

\* A thread that was not created does nothing.
Fresh == \A s \in Servers, t \in Threads : t > spawned[s] => handlerPc[s][t] = "none"

\* So a new thread gets a slot of its own (pthread_create, lines 188-193).
THEOREM FreshHandlers == Spec => []Fresh
<1>1. Init => Fresh
  BY DEF Init, ServerInit, Fresh
<1>2. IInv /\ Fresh /\ [Next]_vars => Fresh'
  <2> SUFFICES ASSUME IInv, Fresh, [Next]_vars PROVE Fresh'
    OBVIOUS
  <2>. USE DEF Fresh, handlerVars, mainVars
  <2>1. CASE UNCHANGED <<spawned, handlerPc>>
    BY <2>1
  <2>2. ASSUME NEW s \in Servers, SpawnHandler(s) PROVE Fresh'
    BY <2>2, ProtocolAssumption DEF SpawnHandler, IInv, TypeOK, ServerTypeOK, Threads
  <2>3. ASSUME NEW s \in Servers, NEW t \in Threads, HandlerStep(s, t)
        PROVE  Fresh'
    <3>1. \A u \in Servers, v \in Threads :
              ~(u = s /\ v = t) => handlerPc'[u][v] = handlerPc[u][v]
      BY <2>3, HandlerFrame
    <3>2. UNCHANGED spawned /\ handlerPc[s][t] # "none"
      BY <2>3 DEF HandlerStep, At, CopyRequest, Lock, TakeTickets, AdvanceCounter,
           Unlock, OpenResponse, HandlerFails, WriteResponse, BrokenPipe,
           FinishHandler
    <3>. QED
      BY <3>1, <3>2
  <2>4. ASSUME NEW s \in Servers, ServerNext(s) PROVE Fresh'
    BY <2>1, <2>2, <2>3, <2>4
       DEF ServerNext, Start, MainStep, MakeRequestFifo, OpenRequestFifo, OpenDummy,
           MainFails, ReadRequest, Interrupt, MainExit, Die
  <2>. QED
    BY <2>1, <2>4 DEF Next, ClientNext, vars, serverVars
<1>. QED
  BY <1>1, <1>2, ServiceInvariant, PTL DEF Spec

-----------------------------------------------------------------------------
(* giveOutTickets implements the dispenser *)

\* What the refinement mapping substitutes for granted.
GrantedRange(s, t) == [firstTicket |-> response[s][t].firstTicket,
                lastTicket |-> response[s][t].lastTicket]
Granted == [s \in Servers |-> [t \in Threads |->
                IF HasTickets(s, t) THEN GrantedRange(s, t) ELSE None]]

\* A step in which no handler reaches or leaves its tickets, no response of
\* one that has them changes, and the counter stays, is a stutter.
LEMMA Stutter ==
    ASSUME UNCHANGED <<nextTicket, issued>>,
           \A s \in Servers, t \in Threads :
              /\ HasTickets(s, t)' <=> HasTickets(s, t)
              /\ HasTickets(s, t) => response'[s][t] = response[s][t]
    PROVE  UNCHANGED Dispenser!vars
<1>1. Granted' = Granted
  BY DEF Granted, GrantedRange
<1>. QED
  BY <1>1 DEF Granted, GrantedRange, Dispenser!vars, Threads

\* The step that advances the counter grants the range the handler has read.
LEMMA AdvanceGrants ==
    ASSUME IInv, NEW s \in Servers, NEW t \in Threads, AdvanceCounter(s, t)
    PROVE  \E n \in Counts : Dispenser!Grant(s, t, n)
<1>. DEFINE n == job[s][t].numTickets
            k == nextTicket[s]
            r == [firstTicket |-> k, lastTicket |-> Wrap(k + n - 1)]
<1>1. /\ handlerPc[s][t] = "next" /\ HandlerReady(s, t) /\ InSection(s, t)
      /\ handlerPc \in [Servers -> [Threads -> HandlerPcs]]
      /\ nextTicket \in [Servers -> Unsigned] /\ issued \in [Servers -> Nat]
  BY DEF AdvanceCounter, At, IInv, TypeOK, ServerTypeOK, Ready, Section
<1>2. n \in Counts /\ k \in Unsigned
  BY <1>1 DEF HandlerReady, Requests
<1>3. response[s][t] = Answer(s, t, k)
  BY <1>1 DEF InSection
<1>4. GrantedRange(s, t) = r
  BY <1>3 DEF GrantedRange, Answer
<1>5. nextTicket' = [nextTicket EXCEPT ![s] = Wrap(k + n)]
  <2>1. Wrap(Wrap(k + n - 1) + 1) = Wrap(k + n)
    BY <1>2, WrapTwice
  <2>2. response[s][t].lastTicket = Wrap(k + n - 1)
    BY <1>3 DEF Answer
  <2>3. TicketAfter(response[s][t]) = Wrap(k + n)
    BY <2>1, <2>2 DEF TicketAfter
  <2>. QED
    BY <2>3 DEF AdvanceCounter
<1>6. issued' = [issued EXCEPT ![s] = @ + n]
  BY DEF AdvanceCounter
<1>7. ~HasTickets(s, t) /\ HasTickets(s, t)'
  BY <1>1 DEF HasTickets, AdvanceCounter, Goto
<1>8. \A u \in Servers, v \in Threads : ~(u = s /\ v = t) =>
          (HasTickets(u, v)' <=> HasTickets(u, v))
  BY <1>1 DEF HasTickets, AdvanceCounter, Goto
<1>9. \A u \in Servers, v \in Threads : GrantedRange(u, v)' = GrantedRange(u, v)
  BY DEF AdvanceCounter, GrantedRange
<1>10. Granted[s][t] = None
  BY <1>7 DEF Granted
<1>11. Granted' = [Granted EXCEPT ![s][t] = r]
  BY <1>4, <1>7, <1>8, <1>9 DEF Granted
<1>. QED
  BY <1>2, <1>5, <1>6, <1>10, <1>11
     DEF Dispenser!Grant, Granted, GrantedRange, Wrap, Dispenser!Wrapped, Threads

\* Every other step of a handler is a stutter.
LEMMA HandlerStutters ==
    ASSUME IInv, NEW s \in Servers, NEW t \in Threads, HandlerStep(s, t),
           ~AdvanceCounter(s, t)
    PROVE  UNCHANGED Dispenser!vars
<1>. USE DEF IInv, TypeOK, ServerTypeOK, Goto, At, HasTickets, counterVars, mainVars
<1>0. \A u \in Servers, v \in Threads : ~(u = s /\ v = t) =>
          /\ HasTickets(u, v)' <=> HasTickets(u, v)
          /\ response'[u][v] = response[u][v]
  BY HandlerFrame
<1>1. CASE CopyRequest(s, t) \/ Lock(s, t) \/ TakeTickets(s, t)
  <2>1. ~HasTickets(s, t) /\ ~HasTickets(s, t)' /\ UNCHANGED <<nextTicket, issued>>
    BY <1>1 DEF CopyRequest, Lock, TakeTickets
  <2>. QED
    BY <1>0, <2>1, Stutter
<1>2. CASE Unlock(s, t) \/ OpenResponse(s, t) \/ HandlerFails(s, t)
  <2>1. HasTickets(s, t) /\ HasTickets(s, t)' /\ UNCHANGED <<nextTicket, issued, response>>
    BY <1>2 DEF Unlock, OpenResponse, HandlerFails
  <2>. QED
    BY <1>0, <2>1, Stutter
<1>3. CASE WriteResponse(s, t) \/ FinishHandler(s, t)
  <2>1. HasTickets(s, t) /\ HasTickets(s, t)' /\ UNCHANGED <<nextTicket, issued, response>>
    BY <1>3 DEF WriteResponse, FinishHandler
  <2>. QED
    BY <1>0, <2>1, Stutter
<1>4. CASE BrokenPipe(s, t)
  <2>1. UNCHANGED <<nextTicket, issued, response, handlerPc>>
    BY <1>4 DEF BrokenPipe, handlerVars
  <2>. QED
    BY <2>1, Stutter
<1>. QED
  BY <1>1, <1>2, <1>3, <1>4 DEF HandlerStep

\* The main thread, exit() and the clients stutter, except that a handler is
\* started, which has no tickets yet.
LEMMA OthersStutter ==
    ASSUME IInv, Fresh, NEW s \in Servers,
           Start(s) \/ MainStep(s) \/ MainExit(s) \/ Die(s)
    PROVE  UNCHANGED Dispenser!vars
<1>. USE DEF handlerVars, counterVars
<1>1. CASE UNCHANGED <<handlerVars, counterVars>>
  BY <1>1, Stutter DEF HasTickets
<1>2. CASE SpawnHandler(s)
  <2>. DEFINE t == spawned[s] + 1
  <2>1. UNCHANGED <<nextTicket, issued, response>>
    BY <1>2 DEF SpawnHandler
  <2>2. handlerPc[s][t] = "none"
    BY <1>2, ProtocolAssumption
       DEF SpawnHandler, Fresh, Threads, IInv, TypeOK, ServerTypeOK
  <2>3. \A u \in Servers, v \in Threads : HasTickets(u, v)' <=> HasTickets(u, v)
    BY <1>2, <2>2 DEF SpawnHandler, HasTickets, IInv, TypeOK, ServerTypeOK
  <2>. QED
    BY <2>1, <2>3, Stutter
<1>. QED
  BY <1>1, <1>2 DEF Start, MainStep, MakeRequestFifo, OpenRequestFifo, OpenDummy,
                    MainFails, ReadRequest, MainExit, Die

\* At the start nothing is granted.
LEMMA InitGrantsNothing == Init => Dispenser!Init
BY DEF Init, ServerInit, Dispenser!Init, HasTickets, Threads, Dispenser!Handlers

\* A step of the service is a grant or a stutter.
LEMMA NextImplements == IInv /\ Fresh /\ [Next]_vars => [Dispenser!Next]_(Dispenser!vars)
<1> SUFFICES ASSUME IInv, Fresh, [Next]_vars PROVE [Dispenser!Next]_(Dispenser!vars)
  OBVIOUS
<1>1. ASSUME NEW s \in Servers, ServerNext(s) PROVE [Dispenser!Next]_(Dispenser!vars)
  <2>1. CASE Start(s) \/ MainStep(s) \/ MainExit(s) \/ Die(s)
    BY <2>1, OthersStutter
  <2>2. ASSUME NEW t \in Threads, HandlerStep(s, t)
        PROVE  [Dispenser!Next]_(Dispenser!vars)
    BY <2>2, AdvanceGrants, HandlerStutters
       DEF Dispenser!Next, Threads, Dispenser!Handlers
  <2>. QED
    BY <1>1, <2>1, <2>2 DEF ServerNext, Interrupt
<1>2. CASE UNCHANGED serverVars
  BY <1>2, Stutter DEF serverVars, handlerVars, counterVars, HasTickets
<1>. QED
  BY <1>1, <1>2 DEF Next, ClientNext, vars

\* The lines 65-80 of giveOutTickets, interleaved in any way with those of the
\* other handlers, hand out tickets as the dispenser does: in one step.
THEOREM ServiceImplementsDispenser == Spec => ImplementsDispenser
<1>1. Spec => [](IInv /\ Fresh)
  BY ServiceInvariant, FreshHandlers, PTL
<1>. QED
  BY <1>1, InitGrantsNothing, NextImplements, PTL
     DEF Spec, ImplementsDispenser, Dispenser!Spec

-----------------------------------------------------------------------------
(* What the dispenser promises holds of the service *)

\* The dispenser under the refinement mapping, with a name for the ranges.
Promise == INSTANCE TicketDispenser WITH
    next <- nextTicket,
    total <- issued,
    granted <- Granted

\* As long as the counter has not run through all its values, nothing has
\* wrapped: the next ticket is the one after all that were given out, and every
\* range lies below it.
InStep(s) ==
    issued[s] < UINT =>
        /\ nextTicket[s] = Promise!Wrapped(issued[s] + 1)
        /\ \A t \in Promise!Served(s) :
              /\ 1 <= Granted[s][t].firstTicket
              /\ Granted[s][t].firstTicket <= Granted[s][t].lastTicket
              /\ Granted[s][t].lastTicket <= issued[s]

DispenserInv ==
    /\ Promise!TypeOK
    /\ \A s \in Servers : InStep(s)
    /\ Promise!NoTicketTwice
    /\ Promise!NoTicketLost

\* The half range of Counts keeps every sum of the counter below 2 * UINT.
LEMMA CountPromised ==
    ASSUME Promise!DispenserAssumption, NEW n \in Counts
    PROVE  n \in Nat /\ 1 <= n /\ n < UINT
BY DEF Promise!DispenserAssumption

LEMMA WrappedInRange ==
    ASSUME Promise!DispenserAssumption, NEW x \in Nat, x < 2 * UINT
    PROVE  Promise!Wrapped(x) \in Promise!Numbers
BY DEF Promise!DispenserAssumption, Promise!Wrapped, Promise!Numbers

\* The invariant holds at the start: nothing is granted.
LEMMA InitDispenserInv ==
    ASSUME Promise!DispenserAssumption, Promise!Init
    PROVE  DispenserInv
<1>1. Promise!TypeOK
  BY DEF Promise!DispenserAssumption, Promise!Init, Promise!TypeOK, Promise!Numbers
<1>2. \A s \in Servers : InStep(s)
  BY DEF Promise!DispenserAssumption, Promise!Init, InStep, Promise!Wrapped,
     Promise!Served, Promise!Handlers
<1>3. Promise!NoTicketTwice /\ Promise!NoTicketLost
  BY DEF Promise!Init, Promise!NoTicketTwice, Promise!NoTicketLost, Promise!Served, Promise!Handlers
<1>. QED
  BY <1>1, <1>2, <1>3 DEF DispenserInv

\* A grant keeps the types.
LEMMA GrantType ==
    ASSUME Promise!DispenserAssumption, Promise!TypeOK, NEW s \in Servers,
           NEW t \in Promise!Handlers, NEW n \in Counts, Promise!Grant(s, t, n)
    PROVE  Promise!TypeOK'
<1>1. n \in Nat /\ 1 <= n /\ n < UINT
  BY CountPromised
<1>2. nextTicket[s] \in 0 .. (UINT - 1) /\ issued[s] \in Nat /\ UINT \in Nat
  BY DEF Promise!DispenserAssumption, Promise!TypeOK, Promise!Numbers
<1>3. Promise!Wrapped(nextTicket[s] + n) \in Promise!Numbers
  BY <1>1, <1>2, WrappedInRange
<1>4. Promise!Wrapped(nextTicket[s] + n - 1) \in Promise!Numbers
  BY <1>1, <1>2, WrappedInRange
<1>5. nextTicket' \in [Servers -> Promise!Numbers]
  BY <1>3 DEF Promise!Grant, Promise!TypeOK
<1>6. issued' \in [Servers -> Nat]
  BY <1>1, <1>2 DEF Promise!Grant, Promise!TypeOK
<1>7. [firstTicket |-> nextTicket[s], lastTicket |-> Promise!Wrapped(nextTicket[s] + n - 1)]
        \in Promise!Ranges
  BY <1>2, <1>4 DEF Promise!Ranges, Promise!Numbers
<1>8. Granted' \in [Servers -> [Promise!Handlers -> Promise!Ranges \cup {None}]]
  BY <1>7 DEF Promise!Grant, Promise!TypeOK
<1>. QED
  BY <1>5, <1>6, <1>8 DEF Promise!TypeOK

\* What a grant does to the server it is made by, while nothing wraps.
LEMMA GrantHere ==
    ASSUME Promise!DispenserAssumption, Promise!NoneAssumption, Promise!TypeOK, NEW s \in Servers,
           NEW t \in Promise!Handlers, NEW n \in Counts, Promise!Grant(s, t, n),
           InStep(s), issued'[s] < UINT
    PROVE  /\ issued[s] < UINT
           /\ issued'[s] = issued[s] + n
           /\ nextTicket'[s] = Promise!Wrapped(issued[s] + n + 1)
           /\ t \notin Promise!Served(s)
           /\ Promise!Served(s)' = Promise!Served(s) \cup {t}
           /\ Granted'[s][t].firstTicket = issued[s] + 1
           /\ Granted'[s][t].lastTicket = issued[s] + n
           /\ \A u \in Promise!Served(s) : Granted'[s][u] = Granted[s][u]
<1>1. n \in Nat /\ 1 <= n /\ n < UINT
  BY CountPromised
<1>2. nextTicket[s] \in 0 .. (UINT - 1) /\ issued[s] \in Nat /\ UINT \in Nat
  BY DEF Promise!DispenserAssumption, Promise!TypeOK, Promise!Numbers
<1>3. issued'[s] = issued[s] + n
  BY DEF Promise!Grant, Promise!TypeOK
<1>4. issued[s] + n < UINT
  BY <1>3
<1>5. nextTicket[s] = issued[s] + 1
  BY <1>1, <1>2, <1>4 DEF InStep, Promise!Wrapped
<1>6. Promise!Wrapped(nextTicket[s] + n - 1) = issued[s] + n
  BY <1>1, <1>2, <1>4, <1>5 DEF Promise!Wrapped
<1>7. nextTicket'[s] = Promise!Wrapped(issued[s] + n + 1)
  <2>1. nextTicket'[s] = Promise!Wrapped(nextTicket[s] + n)
    BY DEF Promise!Grant, Promise!TypeOK
  <2>2. nextTicket[s] + n = issued[s] + n + 1
    BY <1>1, <1>2, <1>5
  <2>. QED
    BY <2>1, <2>2
<1>8. Granted'[s][t] = [firstTicket |-> issued[s] + 1, lastTicket |-> issued[s] + n]
  BY <1>5, <1>6 DEF Promise!Grant, Promise!TypeOK
<1>9. \A u \in Promise!Handlers : u # t => Granted'[s][u] = Granted[s][u]
  BY DEF Promise!Grant, Promise!TypeOK
<1>10. t \notin Promise!Served(s)
  BY DEF Promise!Grant, Promise!Served
<1>11. Granted'[s][t] # None
  <2>1. Granted'[s][t] \in Promise!Ranges
    BY <1>1, <1>2, <1>4, <1>8 DEF Promise!Ranges, Promise!Numbers
  <2>. QED
    BY <2>1 DEF Promise!NoneAssumption
<1>12. Promise!Served(s)' = Promise!Served(s) \cup {t}
  BY <1>9, <1>11 DEF Promise!Served
<1>13. \A u \in Promise!Served(s) : Granted'[s][u] = Granted[s][u]
  BY <1>9, <1>10 DEF Promise!Served
<1>. QED
  BY <1>1, <1>2, <1>3, <1>4, <1>7, <1>8, <1>10, <1>12, <1>13

\* Another server keeps everything.
LEMMA GrantElsewhere ==
    ASSUME Promise!TypeOK, NEW s \in Servers, NEW t \in Promise!Handlers, NEW n \in Counts,
           Promise!Grant(s, t, n), NEW r \in Servers, r # s
    PROVE  /\ nextTicket'[r] = nextTicket[r] /\ issued'[r] = issued[r]
           /\ Granted'[r] = Granted[r]
           /\ Promise!Served(r)' = Promise!Served(r)
BY DEF Promise!Grant, Promise!TypeOK, Promise!Served

\* Every step of the dispenser keeps the invariant.
LEMMA NextDispenserInv ==
    ASSUME Promise!DispenserAssumption, Promise!NoneAssumption, DispenserInv,
           [Promise!Next]_(Promise!vars)
    PROVE  DispenserInv'
<1>1. CASE UNCHANGED Promise!vars
  BY <1>1 DEF DispenserInv, Promise!vars, Promise!TypeOK, InStep,
     Promise!NoTicketTwice, Promise!NoTicketLost, Promise!Served
<1>2. ASSUME NEW s \in Servers, NEW t \in Promise!Handlers, NEW n \in Counts,
             Promise!Grant(s, t, n)
      PROVE  DispenserInv'
  <2>0. Promise!TypeOK /\ InStep(s) /\ n \in Nat /\ 1 <= n /\ issued[s] \in Nat /\ UINT \in Nat
    BY CountPromised DEF Promise!DispenserAssumption, DispenserInv, Promise!TypeOK
  <2>1. Promise!TypeOK'
    BY <1>2, <2>0, GrantType
  <2>2. ASSUME NEW r \in Servers PROVE InStep(r)'
    <3>1. CASE r # s
      BY <1>2, <2>0, <3>1, GrantElsewhere DEF DispenserInv, InStep
    <3>2. CASE r = s
      <4> SUFFICES ASSUME issued'[s] < UINT
                   PROVE  /\ nextTicket'[s] = Promise!Wrapped(issued'[s] + 1)
                          /\ \A u \in Promise!Served(s)' :
                                /\ 1 <= Granted'[s][u].firstTicket
                                /\ Granted'[s][u].firstTicket <= Granted'[s][u].lastTicket
                                /\ Granted'[s][u].lastTicket <= issued'[s]
        BY <3>2 DEF InStep
      <4>1. nextTicket'[s] = Promise!Wrapped(issued'[s] + 1)
        BY <1>2, <2>0, GrantHere
      <4>2. ASSUME NEW u \in Promise!Served(s)'
            PROVE  /\ 1 <= Granted'[s][u].firstTicket
                   /\ Granted'[s][u].firstTicket <= Granted'[s][u].lastTicket
                   /\ Granted'[s][u].lastTicket <= issued'[s]
        <5>1. CASE u = t
          BY <1>2, <2>0, <5>1, GrantHere
        <5>2. CASE u \in Promise!Served(s)
          <6>1. Granted'[s][u] = Granted[s][u] /\ issued'[s] = issued[s] + n
                /\ issued[s] < UINT
            BY <1>2, <2>0, <5>2, GrantHere
          <6>2. Granted[s][u].lastTicket \in Int
            BY <5>2, <2>0 DEF Promise!Served, Promise!TypeOK, Promise!Ranges, Promise!Numbers
          <6>. QED
            BY <2>0, <5>2, <6>1, <6>2 DEF InStep
        <5>. QED
          BY <1>2, <2>0, <5>1, <5>2, GrantHere
      <4>. QED
        BY <4>1, <4>2
    <3>. QED
      BY <3>1, <3>2
  <2>3. Promise!NoTicketTwice'
    <3> SUFFICES ASSUME NEW r \in Servers, issued'[r] < UINT,
                        NEW u \in Promise!Served(r)', NEW v \in Promise!Served(r)', u # v
                 PROVE  \/ Granted'[r][u].lastTicket < Granted'[r][v].firstTicket
                        \/ Granted'[r][v].lastTicket < Granted'[r][u].firstTicket
      BY DEF Promise!NoTicketTwice
    <3>1. CASE r # s
      BY <1>2, <2>0, <3>1, GrantElsewhere DEF DispenserInv, Promise!NoTicketTwice
    <3>2. CASE r = s
      <4>1. /\ issued[s] < UINT
            /\ Promise!Served(s)' = Promise!Served(s) \cup {t}
            /\ Granted'[s][t].firstTicket = issued[s] + 1
            /\ \A w \in Promise!Served(s) : Granted'[s][w] = Granted[s][w]
        BY <1>2, <2>0, <3>2, GrantHere
      <4>2. \A w \in Promise!Served(s) : Granted'[s][w].lastTicket < Granted'[s][t].firstTicket
        <5> SUFFICES ASSUME NEW w \in Promise!Served(s)
                     PROVE  Granted[s][w].lastTicket < issued[s] + 1
          BY <4>1
        <5>1. Granted[s][w].lastTicket \in Int
          BY <2>0 DEF Promise!Served, Promise!TypeOK, Promise!Ranges, Promise!Numbers
        <5>2. Granted[s][w].lastTicket <= issued[s]
          BY <2>0, <4>1 DEF InStep
        <5>. QED
          BY <5>1, <5>2, <2>0
      <4>3. CASE u \in Promise!Served(s) /\ v \in Promise!Served(s)
        BY <3>2, <4>1, <4>3 DEF DispenserInv, Promise!NoTicketTwice
      <4>4. CASE u = t \/ v = t
        BY <3>2, <4>1, <4>2, <4>4
      <4>. QED
        BY <3>2, <4>1, <4>3, <4>4
    <3>. QED
      BY <3>1, <3>2
  <2>4. Promise!NoTicketLost'
    <3> SUFFICES ASSUME NEW r \in Servers, issued'[r] < UINT, NEW k \in 1 .. issued'[r]
                 PROVE  \E u \in Promise!Served(r)' :
                           Granted'[r][u].firstTicket <= k /\ k <= Granted'[r][u].lastTicket
      BY DEF Promise!NoTicketLost
    <3>1. CASE r # s
      BY <1>2, <2>0, <3>1, GrantElsewhere DEF DispenserInv, Promise!NoTicketLost
    <3>2. CASE r = s
      <4>1. /\ issued[s] < UINT /\ issued'[s] = issued[s] + n
            /\ Promise!Served(s)' = Promise!Served(s) \cup {t}
            /\ Granted'[s][t].firstTicket = issued[s] + 1
            /\ Granted'[s][t].lastTicket = issued[s] + n
            /\ \A w \in Promise!Served(s) : Granted'[s][w] = Granted[s][w]
        BY <1>2, <2>0, <3>2, GrantHere
      <4>2. CASE k <= issued[s]
        <5>1. PICK w \in Promise!Served(s) :
                  Granted[s][w].firstTicket <= k /\ k <= Granted[s][w].lastTicket
          BY <2>0, <3>2, <4>1, <4>2 DEF DispenserInv, Promise!NoTicketLost
        <5>. QED
          BY <3>2, <4>1, <5>1
      <4>3. CASE ~(k <= issued[s])
        BY <2>0, <3>2, <4>1, <4>3
      <4>. QED
        BY <4>2, <4>3
    <3>. QED
      BY <3>1, <3>2
  <2>. QED
    BY <2>1, <2>2, <2>3, <2>4 DEF DispenserInv
<1>. QED
  BY <1>1, <1>2 DEF Promise!Next

\* The invariant of the dispenser.
THEOREM DispenserInvariant ==
    ASSUME Promise!DispenserAssumption, Promise!NoneAssumption
    PROVE  Promise!Spec => []DispenserInv
<1>1. Promise!Init => DispenserInv
  BY InitDispenserInv
<1>2. DispenserInv /\ [Promise!Next]_(Promise!vars) => DispenserInv'
  BY NextDispenserInv
<1>. QED
  BY <1>1, <1>2, PTL DEF Promise!Spec

\* No ticket is in two ranges of a server before its counter has run through
\* all its values (nextTicket of giveOutTickets).
THEOREM TicketsDisjoint ==
    ASSUME Promise!DispenserAssumption, Promise!NoneAssumption
    PROVE  Promise!Spec => []Promise!NoTicketTwice
<1>1. DispenserInv => Promise!NoTicketTwice
  BY DEF DispenserInv
<1>. QED
  BY <1>1, DispenserInvariant, PTL

\* And none that the counter has passed is missing from all of them.
THEOREM TicketsContiguous ==
    ASSUME Promise!DispenserAssumption, Promise!NoneAssumption
    PROVE  Promise!Spec => []Promise!NoTicketLost
<1>1. DispenserInv => Promise!NoTicketLost
  BY DEF DispenserInv
<1>. QED
  BY <1>1, DispenserInvariant, PTL

\* The mapped dispenser of TicketService is the one proved about.
LEMMA SameDispenser == Dispenser!Spec => Promise!Spec
BY PTL DEF Dispenser!Spec, Promise!Spec, Dispenser!Init, Promise!Init,
       Dispenser!Next, Promise!Next, Dispenser!vars, Promise!vars,
       Dispenser!Grant, Promise!Grant, Dispenser!Wrapped, Promise!Wrapped,
       Dispenser!Handlers, Promise!Handlers, Granted, GrantedRange

\* The ranges of a server are disjoint and leave no gap.
THEOREM RangesDisjoint == Spec => [](Promise!NoTicketTwice /\ Promise!NoTicketLost)
<1>1. Promise!DispenserAssumption /\ Promise!NoneAssumption
  BY ProtocolAssumption, NoneAssumption
     DEF Promise!DispenserAssumption, Promise!NoneAssumption, Promise!Ranges,
         Promise!Numbers, Unsigned
<1>2. Promise!Spec => []Promise!NoTicketTwice
  BY <1>1, TicketsDisjoint
<1>3. Promise!Spec => []Promise!NoTicketLost
  BY <1>1, TicketsContiguous
<1>. QED
  BY <1>2, <1>3, SameDispenser, ServiceImplementsDispenser, PTL DEF ImplementsDispenser

-----------------------------------------------------------------------------
(* From the handlers to the clients *)

\* m was written by a handler, into the FIFO of c, and is its response.
WrittenFor(c, s, t, m) ==
    /\ handlerPc[s][t] \in {"close", "done"}
    /\ response[s][t] = m
    /\ responseFd[s][t] = c

Genuine(c, m) == WrittenFor(c, m.by[1], m.by[2], m)

\* All that is in a response FIFO, or was read from it.
Provenance ==
    \A c \in Clients :
        /\ \A i \in DOMAIN responseFifo[c].data : Genuine(c, responseFifo[c].data[i])
        /\ got[c] \in Responses => Genuine(c, got[c])

\* A response names its handler.
LEMMA ByType ==
    ASSUME NEW m \in Responses
    PROVE  m.by[1] \in Servers /\ m.by[2] \in Threads
BY DEF Responses

\* A response in a FIFO is of the right type.
LEMMA DataType ==
    ASSUME IInv, NEW c \in Clients, NEW i \in DOMAIN responseFifo[c].data
    PROVE  responseFifo[c].data[i] \in Responses
<1>1. responseFifo[c].data \in Seq(Responses)
  BY DEF IInv, TypeOK, FifoTypeOK, Fifos
<1>. QED
  BY <1>1

\* Once written, a response stays what it is.
LEMMA GenuineStable ==
    ASSUME IInv, Fresh, [Next]_vars, NEW c, NEW m \in Responses, Genuine(c, m)
    PROVE  Genuine(c, m)'
<1>. DEFINE a == m.by[1]
            b == m.by[2]
<1>0. a \in Servers /\ b \in Threads /\ WrittenFor(c, a, b, m)
  BY ByType DEF Genuine
<1>. USE DEF Genuine, WrittenFor, handlerVars
<1>1. CASE UNCHANGED handlerVars
  BY <1>1
<1>2. ASSUME NEW s \in Servers, NEW t \in Threads, HandlerStep(s, t)
      PROVE  Genuine(c, m)'
  <2>1. CASE ~(a = s /\ b = t)
    BY <1>0, <1>2, <2>1, HandlerFrame
  <2>2. CASE a = s /\ b = t /\ FinishHandler(s, t)
    BY <1>0, <2>2 DEF FinishHandler, Goto, IInv, TypeOK, ServerTypeOK
  <2>3. CASE a = s /\ b = t /\ ~FinishHandler(s, t)
    BY <1>0, <1>2, <2>3
       DEF HandlerStep, At, CopyRequest, Lock, TakeTickets, AdvanceCounter, Unlock,
           OpenResponse, HandlerFails, WriteResponse, BrokenPipe
  <2>. QED
    BY <2>1, <2>2, <2>3
<1>3. ASSUME NEW s \in Servers, SpawnHandler(s)
      PROVE  Genuine(c, m)'
  <2>0. handlerPc[s][spawned[s] + 1] = "none"
    <3>1. spawned[s] < MaxThreads
      BY <1>3 DEF SpawnHandler
    <3>2. spawned[s] \in 0 .. MaxThreads /\ MaxThreads \in Nat
      BY ProtocolAssumption DEF IInv, TypeOK, ServerTypeOK
    <3>3. spawned[s] + 1 \in Threads /\ spawned[s] + 1 > spawned[s]
      BY <3>1, <3>2 DEF Threads
    <3>. QED
      BY <3>3 DEF Fresh
  <2>1. b # spawned[s] + 1 \/ a # s
    BY <1>0, <2>0
  <2>2. handlerPc'[a][b] = handlerPc[a][b]
    BY <1>0, <1>3, <2>1 DEF SpawnHandler, IInv, TypeOK, ServerTypeOK
  <2>. QED
    BY <1>0, <1>3, <2>2 DEF SpawnHandler
<1>. QED
  BY <1>1, <1>2, <1>3
     DEF Next, vars, serverVars, ServerNext, ClientNext, Start, MainStep,
         MakeRequestFifo, OpenRequestFifo, OpenDummy, MainFails, ReadRequest,
         Interrupt, MainExit, Die

\* How a step may change the contents of the response FIFO of c: not at all,
\* by a close, by the read of c, or by a handler that writes its response.
LEMMA DataChange ==
    ASSUME IInv, [Next]_vars, NEW c \in Clients
    PROVE  \/ responseFifo'[c].data \in {responseFifo[c].data, << >>}
           \/ /\ responseFifo[c].data # << >>
              /\ responseFifo'[c].data = Tail(responseFifo[c].data)
           \/ \E s \in Servers, t \in Threads :
                 /\ WriteResponse(s, t) /\ responseFd[s][t] = c
                 /\ responseFifo'[c].data = Append(responseFifo[c].data, response[s][t])
<1>. DEFINE Same == responseFifo'[c].data \in {responseFifo[c].data, << >>}
<1>0. /\ responseFifo \in [Clients -> Fifos(Ends, Responses)]
      /\ \A d \in Clients : responseFifo[d] \in Fifos(Ends, Responses)
  BY DEF IInv, TypeOK, FifoTypeOK
<1>1. ASSUME NEW p, CloseAll(p) PROVE Same
  BY <1>0, <1>1, CloseType DEF CloseAll
<1>2. CASE UNCHANGED responseFifo
  BY <1>2
<1>3. ASSUME NEW s \in Servers, NEW t \in Threads, OpenResponse(s, t)
      PROVE  Same
  <2>. DEFINE d == ResponsePathFor(s, t)
  <2>1. responseFifo' = [responseFifo EXCEPT ![d] = OpenForWriting(@, <<s, t>>)]
    BY <1>3 DEF OpenResponse
  <2>2. CASE d = c
    <3>1. responseFifo'[c] = OpenForWriting(responseFifo[c], <<s, t>>)
      BY <1>0, <2>1, <2>2
    <3>2. OpenForWriting(responseFifo[c], <<s, t>>).data = responseFifo[c].data
      BY <1>0, OpenType, EndsType
    <3>. QED
      BY <3>1, <3>2
  <2>3. CASE d # c
    BY <1>0, <2>1, <2>3
  <2>. QED
    BY <2>2, <2>3
<1>4. ASSUME NEW s \in Servers, NEW t \in Threads, FinishHandler(s, t)
      PROVE  Same
  <2>1. responseFifo' = [responseFifo EXCEPT ![responseFd[s][t]] = CloseEnds(@, {<<s, t>>})]
    BY <1>4 DEF FinishHandler
  <2>. QED
    BY <1>0, <2>1, CloseType
<1>5. ASSUME NEW d \in Clients, OpenOwnFifo(d) PROVE Same
  <2>1. responseFifo' = [responseFifo EXCEPT ![d] = OpenForReading(@, ClientEnd(d))]
    BY <1>5 DEF OpenOwnFifo
  <2>. QED
    BY <1>0, <2>1, OpenType, EndsType
<1>6. ASSUME NEW s \in Servers, NEW t \in Threads, WriteResponse(s, t)
      PROVE  \/ Same
             \/ /\ responseFd[s][t] = c
                /\ responseFifo'[c].data = Append(responseFifo[c].data, response[s][t])
  <2>. DEFINE d == responseFd[s][t]
  <2>1. responseFifo' = [responseFifo EXCEPT ![d] = Put(@, response[s][t])]
    BY <1>6 DEF WriteResponse
  <2>2. response[s][t] \in Responses
    BY <1>6 DEF WriteResponse, At, IInv, Ready, HandlerReady
  <2>3. CASE d = c
    BY <1>0, <2>1, <2>2, <2>3, PutType
  <2>. QED
    BY <1>0, <2>1, <2>3
<1>7. ASSUME NEW d \in Clients, ReadResponse(d)
      PROVE  \/ Same
             \/ /\ responseFifo[c].data # << >>
                /\ responseFifo'[c].data = Tail(responseFifo[c].data)
  <2>1. CASE UNCHANGED responseFifo
    BY <2>1
  <2>2. CASE HasData(responseFifo[d]) /\ responseFifo' = [responseFifo EXCEPT ![d] = Drop(@)]
    BY <1>0, <2>2, DropType DEF HasData
  <2>. QED
    BY <1>7, <2>1, <2>2 DEF ReadResponse
<1>8. ASSUME NEW s \in Servers, ServerNext(s)
      PROVE  \/ Same
             \/ \E t \in Threads :
                   /\ WriteResponse(s, t) /\ responseFd[s][t] = c
                   /\ responseFifo'[c].data = Append(responseFifo[c].data, response[s][t])
  <2>1. CASE Start(s) \/ MainStep(s) \/ Interrupt(s) \/ Die(s)
    BY <1>1, <1>2, <2>1
       DEF Start, MainStep, MakeRequestFifo, OpenRequestFifo, OpenDummy, MainFails,
           ReadRequest, SpawnHandler, Interrupt, MainExit, Die, fifoVars
  <2>2. ASSUME NEW t \in Threads, HandlerStep(s, t)
        PROVE  \/ Same
               \/ /\ WriteResponse(s, t) /\ responseFd[s][t] = c
                  /\ responseFifo'[c].data = Append(responseFifo[c].data, response[s][t])
    BY <1>1, <1>2, <1>3, <1>4, <1>6, <2>2
       DEF HandlerStep, CopyRequest, Lock, TakeTickets, AdvanceCounter, Unlock,
           HandlerFails, BrokenPipe, fifoVars
  <2>. QED
    BY <1>8, <2>1, <2>2 DEF ServerNext
<1>9. ASSUME NEW d \in Clients, ClientNext(d)
      PROVE  \/ Same
             \/ /\ responseFifo[c].data # << >>
                /\ responseFifo'[c].data = Tail(responseFifo[c].data)
  BY <1>1, <1>2, <1>5, <1>7, <1>9
     DEF ClientNext, StartClient, ClientStep, CreateResponseFifo, FindStaleFifo,
         OpenRequest, NoServer, WriteRequest, ClientBrokenPipe, ClientInterrupt,
         CloseRequest, FinishClient, ClientExit, Killed
<1>. QED
  BY <1>2, <1>8, <1>9 DEF Next, vars, fifoVars

\* What is in the FIFOs and what the clients have read is genuine.
THEOREM ResponsesGenuine == Spec => []Provenance
<1>1. Init => Provenance
  <2> SUFFICES ASSUME Init PROVE Provenance
    OBVIOUS
  <2>1. \A c \in Clients : responseFifo[c].data = << >> /\ got[c] = None
    BY DEF Init, FifoInit, ClientInit, NewFifo
  <2>2. None \notin Responses
    BY NoneAssumption
  <2>. QED
    BY <2>1, <2>2 DEF Provenance
<1>2. IInv /\ Fresh /\ Provenance /\ [Next]_vars => Provenance'
  <2> SUFFICES ASSUME IInv, Fresh, Provenance, [Next]_vars, NEW c \in Clients
               PROVE  (/\ \A i \in DOMAIN responseFifo[c].data :
                             Genuine(c, responseFifo[c].data[i])
                       /\ got[c] \in Responses => Genuine(c, got[c]))'
    BY DEF Provenance
  <2>. DEFINE old == responseFifo[c].data
              new == responseFifo'[c].data
              Good(m) == /\ m \in Responses
                         /\ handlerPc'[m.by[1]][m.by[2]] \in {"close", "done"}
                         /\ response'[m.by[1]][m.by[2]] = m
                         /\ responseFd'[m.by[1]][m.by[2]] = c
  <2>g. \A m \in Responses : Genuine(c, m) => Good(m)
    <3> SUFFICES ASSUME NEW m \in Responses, Genuine(c, m) PROVE Good(m)
      OBVIOUS
    <3>1. Genuine(c, m)'
      BY GenuineStable
    <3>. QED
      BY <3>1 DEF Genuine, WrittenFor
  <2>0. old \in Seq(Responses) /\ \A i \in 1 .. Len(old) : Good(old[i])
    <3>1. old \in Seq(Responses)
      BY DEF IInv, TypeOK, FifoTypeOK, Fifos
    <3>2. ASSUME NEW i \in 1 .. Len(old)
          PROVE  old[i] \in Responses /\ Genuine(c, old[i])
      <4>1. i \in DOMAIN old
        BY <3>1
      <4>. QED
        BY <4>1, DataType DEF Provenance
    <3>. QED
      BY <3>1, <3>2, <2>g
  <2>1. new \in Seq(Responses) /\ \A i \in 1 .. Len(new) : Good(new[i])
    <3>. HIDE DEF old, new, Good
    <3>1. CASE new \in {old, << >>}
      <4>1. << >> \in Seq(Responses) /\ 1 .. Len(<< >>) = {}
        OBVIOUS
      <4>. QED
        BY <2>0, <3>1, <4>1
    <3>2. CASE old # << >> /\ new = Tail(old)
      <4>1. /\ new \in Seq(Responses) /\ Len(new) = Len(old) - 1
            /\ \A i \in 1 .. Len(new) : new[i] = old[i + 1]
        BY <2>0, <3>2, HeadTailProperties
      <4>. QED
        BY <2>0, <4>1, LenProperties
    <3>3. ASSUME NEW s \in Servers, NEW t \in Threads,
                 WriteResponse(s, t), responseFd[s][t] = c,
                 new = Append(old, response[s][t])
          PROVE  new \in Seq(Responses) /\ \A i \in 1 .. Len(new) : Good(new[i])
      <4>0. HandlerReady(s, t) /\ handlerPc[s][t] = "write"
        BY <3>3 DEF WriteResponse, At, IInv, Ready
      <4>1. response[s][t] \in Responses /\ response[s][t].by = <<s, t>>
        BY <4>0 DEF HandlerReady
      <4>2. WrittenFor(c, s, t, response[s][t])'
        BY <3>3 DEF WrittenFor, WriteResponse, Goto, IInv, TypeOK, ServerTypeOK
      <4>3. response' = response
        BY <3>3 DEF WriteResponse
      <4>4. Good(response[s][t])
        BY <4>1, <4>2, <4>3 DEF WrittenFor, Good
      <4>5. /\ new \in Seq(Responses) /\ Len(new) = Len(old) + 1
            /\ \A i \in 1 .. Len(old) : new[i] = old[i]
            /\ new[Len(old) + 1] = response[s][t]
        BY <2>0, <3>3, <4>1, AppendProperties
      <4>. QED
        BY <2>0, <4>4, <4>5, LenProperties
    <3>. QED
      BY <3>1, <3>2, <3>3, DataChange DEF old, new
  <2>2. ASSUME got'[c] \in Responses PROVE Good(got'[c])
    <3>1. CASE got'[c] = got[c]
      <4>1. got[c] \in Responses /\ Genuine(c, got[c])
        BY <2>2, <3>1 DEF Provenance
      <4>. QED
        BY <3>1, <4>1, <2>g
    <3>2. CASE old # << >> /\ got'[c] = Head(old)
      <4>1. Head(old) = old[1] /\ 1 \in 1 .. Len(old)
        BY <2>0, <3>2
      <4>2. Good(old[1])
        BY <2>0, <4>1
      <4>. QED
        BY <3>2, <4>1, <4>2
    <3>3. got'[c] = got[c] \/ (old # << >> /\ got'[c] = Head(old))
      <4>1. ASSUME NEW s \in Servers, ServerNext(s) PROVE UNCHANGED got
        BY <4>1 DEF ServerNext, clientVars
      <4>2. ASSUME NEW d \in Clients, ReadResponse(d)
            PROVE  got'[c] = got[c] \/ (old # << >> /\ got'[c] = Head(old))
        <5>1. c # d => got'[c] = got[c]
          BY <4>2 DEF ReadResponse, IInv, TypeOK, ClientTypeOK
        <5>2. c = d => \/ HasData(responseFifo[c]) /\ got'[c] = Head(old)
                       \/ got'[c] = Garbage
          BY <4>2 DEF ReadResponse, IInv, TypeOK, ClientTypeOK
        <5>. QED
          BY <2>2, <5>1, <5>2, GarbageAssumption DEF HasData
      <4>3. ASSUME NEW d \in Clients, ClientNext(d), ~ReadResponse(d)
            PROVE  UNCHANGED got
        BY <4>3 DEF ClientNext, StartClient, ClientStep, CreateResponseFifo,
             FindStaleFifo, OpenRequest, NoServer, WriteRequest, ClientBrokenPipe,
             ClientInterrupt, CloseRequest, OpenOwnFifo, FinishClient, Killed
      <4>4. CASE UNCHANGED vars
        BY <4>4 DEF vars, clientVars
      <4>. QED
        BY <4>1, <4>2, <4>3, <4>4 DEF Next
    <3>. QED
      BY <3>1, <3>2, <3>3
  <2>3. DOMAIN new = 1 .. Len(new)
    BY <2>1, LenProperties
  <2>. QED
    BY <2>1, <2>2, <2>3 DEF Genuine, WrittenFor
<1>. QED
  BY <1>1, <1>2, ServiceInvariant, FreshHandlers, PTL DEF Spec

\* Two clients of one server hold different tickets: their responses were
\* computed by two handlers, and the dispenser gave these disjoint ranges.
THEOREM TicketsSoldOnce == Spec => []NoTicketSoldTwice
<1>1. IInv /\ Provenance /\ Promise!NoTicketTwice => NoTicketSoldTwice
  <2> SUFFICES ASSUME IInv, Provenance, Promise!NoTicketTwice,
                      NEW c \in Clients, NEW d \in Clients, c # d,
                      got[c] \in Responses, got[d] \in Responses,
                      got[c].by[1] = got[d].by[1],
                      issued[got[c].by[1]] < UINT
               PROVE  Tickets(got[c]) \cap Tickets(got[d]) = {}
    BY DEF NoTicketSoldTwice
  <2>. DEFINE s == got[c].by[1]
              t == got[c].by[2]
              u == got[d].by[2]
  <2>1. /\ s \in Servers /\ t \in Threads /\ u \in Threads
        /\ WrittenFor(c, s, t, got[c]) /\ WrittenFor(d, s, u, got[d])
    BY ByType DEF Provenance, Genuine
  <2>2. t # u
    BY <2>1 DEF WrittenFor
  <2>3. HasTickets(s, t) /\ HasTickets(s, u)
    BY <2>1 DEF WrittenFor, HasTickets
  <2>4. /\ Granted[s][t] = GrantedRange(s, t) /\ Granted[s][u] = GrantedRange(s, u)
    BY <2>1, <2>3 DEF Granted
  <2>5. /\ GrantedRange(s, t).firstTicket = got[c].firstTicket
        /\ GrantedRange(s, t).lastTicket = got[c].lastTicket
        /\ GrantedRange(s, u).firstTicket = got[d].firstTicket
        /\ GrantedRange(s, u).lastTicket = got[d].lastTicket
    BY <2>1 DEF WrittenFor, GrantedRange
  <2>6. /\ got[c].firstTicket \in Unsigned /\ got[c].lastTicket \in Unsigned
        /\ got[d].firstTicket \in Unsigned /\ got[d].lastTicket \in Unsigned
    BY DEF Responses
  <2>7. t \in Promise!Served(s) /\ u \in Promise!Served(s)
    <3>0. \A x \in Threads :
             /\ response[s][x].firstTicket \in Unsigned
             /\ response[s][x].lastTicket \in Unsigned
             => GrantedRange(s, x) \in [firstTicket : Unsigned, lastTicket : Unsigned]
      BY DEF GrantedRange
    <3>1. GrantedRange(s, t) # None /\ GrantedRange(s, u) # None
      BY <2>1, <2>6, <3>0, NoneAssumption DEF WrittenFor
    <3>. QED
      BY <2>1, <2>4, <3>1 DEF Promise!Served, Promise!Handlers, Threads
  <2>8. \/ Granted[s][t].lastTicket < Granted[s][u].firstTicket
        \/ Granted[s][u].lastTicket < Granted[s][t].firstTicket
    BY <2>1, <2>2, <2>7 DEF Promise!NoTicketTwice
  <2>9. got[c].lastTicket < got[d].firstTicket \/ got[d].lastTicket < got[c].firstTicket
    BY <2>4, <2>5, <2>8
  <2>. QED
    BY <2>6, <2>9, ProtocolAssumption DEF Tickets, Unsigned
<1>. QED
  BY <1>1, ServiceInvariant, ResponsesGenuine, RangesDisjoint, PTL

-----------------------------------------------------------------------------
(***************************************************************************)
(* What becomes of a request: the names behind which a server and a client  *)
(* are found, the one handler that works on a request and the client that   *)
(* reads the response, for any number of runs, any process ids and any      *)
(* choice of interrupted runs.                                              *)
(***************************************************************************)

(* One handler per request *)

Steady(s) == dummyFd[s] = requestFd[s]

\* A request that a client has written, as it wrote it.
Real(r) ==
    /\ r.from \in Clients /\ r = RequestOf(r.from)
    /\ clientPc[r.from] \notin {"start", "openRequest", "write"}

\* What is in the request FIFOs.
Queued == [f \in Servers |-> requestFifo[f].data]
From(D, c) == \E f \in Servers : \E i \in 1 .. Len(D[f]) : D[f][i].from = c
Once(D) ==
    \A f, g \in Servers : \A i \in 1 .. Len(D[f]), j \in 1 .. Len(D[g]) :
        D[f][i].from = D[g][j].from => f = g /\ i = j

\* A request that was read is with the main thread (0) or with a handler.
Holds(s, t) == IF t = 0 THEN mainPc[s] = "spawn" ELSE handlerPc[s][t] # "none"
Held(s, t) == IF t = 0 THEN request[s] ELSE Work(s, t)
Slots == 0 .. MaxThreads
Taken(s, t) == Steady(s) /\ Holds(s, t)

\* Before its second open a server has no dummy descriptor and no handlers;
\* then it is itself a writer of the FIFO it holds.
MainHolds ==
    \A s \in Servers :
        /\ process[s] = "new" => mainPc[s] = "start"
        /\ mainPc[s] \in {"start", "mkfifo", "openRead", "openDummy"} => dummyFd[s] = None
        /\ dummyFd[s] = None => spawned[s] = 0
        /\ process[s] # "gone" /\ mainPc[s] \in {"read", "spawn"} =>
                MainEnd(s) \in requestFifo[dummyFd[s]].writers

\* The requests in the FIFOs and those taken out of them by the steady servers
\* are requests of clients, all of them different ones.
QueuedReal == \A f \in Servers : \A i \in 1 .. Len(Queued[f]) : Real(Queued[f][i])
TakenReal ==
    \A s \in Servers, t \in Slots : Taken(s, t) =>
        Real(Held(s, t)) /\ ~From(Queued, Held(s, t).from)
TakenOnce ==
    \A s, u \in Servers, t, v \in Slots :
        Taken(s, t) /\ Taken(u, v) /\ Held(s, t).from = Held(u, v).from => s = u /\ t = v

RInv == QueuedReal /\ Once(Queued) /\ TakenReal /\ TakenOnce

-----------------------------------------------------------------------------
(* The response to a request *)

\* A name leads to a run that has this process id and did not exit.
NameOfARun ==
    \A p \in Pids : responsePath[p] # None =>
        /\ PidOf[responsePath[p]] = p
        /\ clientPc[responsePath[p]] \notin {"start", "done"}

\* The ends of the response FIFOs.
HandlerHolds ==
    \A s \in Servers, t \in Threads :
        process[s] # "gone" /\ handlerPc[s][t] \in {"write", "close"} =>
            <<s, t>> \in responseFifo[responseFd[s][t]].writers
ClientHolds ==
    \A c \in Clients :
        responseFifo[c].readers = IF clientPc[c] \in {"read", "finish"} THEN {ClientEnd(c)} ELSE {}

\* The handlers that have opened the FIFO of client c, and that have written.
Opening(s, t) == handlerPc[s][t] \in {"write", "close", "done"}
Writing(s, t) == handlerPc[s][t] \in {"close", "done"}

\* The FIFO of a client meets a writer when a handler opens it, and has a
\* response until the client reads it when a handler has written.
Met ==
    \A c \in Clients :
        responseFifo[c].writers # {} \/ Opened(responseFifo[c], ClientEnd(c)) =>
            \E s \in Servers, t \in Threads : Opening(s, t) /\ responseFd[s][t] = c
Written ==
    \A s \in Servers, t \in Threads : Writing(s, t) =>
        LET c == responseFd[s][t]
        IN  /\ c \in Clients
            /\ clientPc[c] \in {"read", "finish", "done", "dead"}
            /\ clientPc[c] = "read" => HasData(responseFifo[c])

GarbageExplained == \A c \in Clients : got[c] = Garbage => SomeServerGone

CalmPid(p) == \A e \in Clients : PidOf[e] = p => clientPc[e] # "dead"

\* A request of d that may still be answered.
InHand(s, t) ==
    /\ Holds(s, t)
    /\ t # 0 => process[s] # "gone" /\ ~Writing(s, t) /\ handlerPc[s][t] # "exit"
Pending(d) ==
    \/ From(Queued, d)
    \/ \E s \in Servers, t \in Slots : InHand(s, t) /\ Held(s, t).from = d

\* Such a client waits, and the FIFO a handler has opened is that of the client
\* behind the request, unless its process id was another one's.
Awaited ==
    \A d \in Clients : Pending(d) /\ CalmPid(PidOf[d]) =>
        clientPc[d] \in {"closeRequest", "openResponse", "read"}
Addressed ==
    \A s \in Servers, t \in Threads : Opening(s, t) =>
        /\ PidOf[responseFd[s][t]] = PidOf[job[s][t].from]
        /\ CalmPid(PidOf[responseFd[s][t]]) => job[s][t].from = responseFd[s][t]
AInv == ~SomeServerAstray => Awaited /\ Addressed

\* The range in a response is as long as the request.
Ranges ==
    \A s \in Servers, t \in Threads :
        handlerPc[s][t] \notin {"none", "copy", "lock", "first"} =>
            response[s][t].lastTicket =
                Wrap(response[s][t].firstTicket + job[s][t].numTickets - 1)

-----------------------------------------------------------------------------
(* Names *)

\* Two runs with one process id are not in their midst at the same time.
LEMMA OneRunPerPid ==
    ASSUME OwnsItsName, NEW c \in Clients, NEW d \in Clients, PidOf[c] = PidOf[d],
           clientPc[c] \notin {"start", "done", "dead"},
           clientPc[d] \notin {"start", "done", "dead"}
    PROVE  c = d
BY DEF OwnsItsName

\* How a client run moves: it leaves the others where they are.
LEMMA OtherClients ==
    ASSUME IInv, NEW c \in Clients, ClientNext(c), NEW d \in Clients, d # c
    PROVE  clientPc'[d] = clientPc[d]
<1>. USE DEF IInv, TypeOK, ClientTypeOK, ClientGoto, ClientExit, Killed
<1>1. CASE StartClient(c)
  BY <1>1 DEF StartClient, CreateResponseFifo, FindStaleFifo
<1>2. CASE ClientStep(c)
  BY <1>2 DEF ClientStep, OpenRequest, NoServer, WriteRequest, ClientBrokenPipe,
     CloseRequest, OpenOwnFifo, ReadResponse, FinishClient
<1>3. CASE ClientInterrupt(c)
  BY <1>3 DEF ClientInterrupt
<1>. QED
  BY <1>1, <1>2, <1>3 DEF ClientNext

\* What a step may do to the names of the response FIFOs.
LEMMA NameChange ==
    ASSUME IInv, [Next]_vars
    PROVE  \/ UNCHANGED responsePath
           \/ \E c \in Clients : ClientNext(c) /\
                 \/ /\ clientPc[c] = "start" /\ clientPc'[c] = "openRequest" /\ PidFree(c)
                    /\ responsePath' = [responsePath EXCEPT ![PidOf[c]] = c]
                 \/ /\ clientPc[c] \notin {"done", "dead"} /\ clientPc'[c] = "done"
                    /\ clientPc[c] = "start" => PidFree(c)
                    /\ responsePath' = [responsePath EXCEPT ![PidOf[c]] = None]
<1>. USE DEF IInv, TypeOK, ClientTypeOK, ClientGoto, ClientExit, Killed
<1>1. ASSUME NEW c \in Clients, ClientNext(c), StartClient(c)
      PROVE  \/ /\ clientPc[c] = "start" /\ clientPc'[c] = "openRequest" /\ PidFree(c)
                /\ responsePath' = [responsePath EXCEPT ![PidOf[c]] = c]
             \/ /\ clientPc[c] \notin {"done", "dead"} /\ clientPc'[c] = "done"
                /\ clientPc[c] = "start" => PidFree(c)
                /\ responsePath' = [responsePath EXCEPT ![PidOf[c]] = None]
  BY <1>1 DEF StartClient, CreateResponseFifo, FindStaleFifo
<1>2. ASSUME NEW c \in Clients, NoServer(c) \/ FinishClient(c)
      PROVE  /\ clientPc[c] \notin {"start", "done", "dead"} /\ clientPc'[c] = "done"
             /\ responsePath' = [responsePath EXCEPT ![PidOf[c]] = None]
  BY <1>2 DEF NoServer, FinishClient
<1>3. ASSUME NEW c \in Clients, ClientStep(c) \/ ClientInterrupt(c),
             ~(NoServer(c) \/ FinishClient(c))
      PROVE  UNCHANGED responsePath
  BY <1>3 DEF ClientStep, ClientInterrupt, OpenRequest, WriteRequest,
     ClientBrokenPipe, CloseRequest, OpenOwnFifo, ReadResponse
<1>4. ASSUME NEW s \in Servers, ServerNext(s) PROVE UNCHANGED responsePath
  <2>1. CASE Start(s) \/ MainStep(s) \/ Interrupt(s) \/ Die(s)
    BY <2>1 DEF Start, MainStep, MakeRequestFifo, OpenRequestFifo, OpenDummy,
       MainFails, ReadRequest, SpawnHandler, Interrupt, MainExit, Die, fifoVars
  <2>2. ASSUME NEW t \in Threads, HandlerStep(s, t) PROVE UNCHANGED responsePath
    BY <2>2 DEF HandlerStep, CopyRequest, Lock, TakeTickets, AdvanceCounter, Unlock,
       OpenResponse, HandlerFails, WriteResponse, BrokenPipe, FinishHandler, fifoVars
  <2>. QED
    BY <1>4, <2>1, <2>2 DEF ServerNext
<1>. QED
  BY <1>1, <1>2, <1>3, <1>4 DEF Next, ClientNext, vars, fifoVars

\* How the steps move a client run.
LEMMA ClientMoves ==
    ASSUME IInv, [Next]_vars, NEW c \in Clients
    PROVE  /\ clientPc[c] = "start" \/ clientPc'[c] # "start"
           /\ clientPc[c] \in {"done", "dead"} => clientPc'[c] = clientPc[c]
           /\ clientPc[c] = "start" => clientPc'[c] \in {"start", "openRequest", "done"}
<1>. USE DEF IInv, TypeOK, ClientTypeOK, ClientGoto, ClientExit, Killed
<1>1. CASE UNCHANGED clientPc
  BY <1>1
<1>2. CASE StartClient(c)
  BY <1>2 DEF StartClient, CreateResponseFifo, FindStaleFifo
<1>3. CASE ClientStep(c)
  BY <1>3 DEF ClientStep, OpenRequest, NoServer, WriteRequest, ClientBrokenPipe,
     CloseRequest, OpenOwnFifo, ReadResponse, FinishClient
<1>4. CASE ClientInterrupt(c)
  BY <1>4 DEF ClientInterrupt, Ended
<1>5. ASSUME NEW d \in Clients, ClientNext(d), d # c PROVE clientPc'[c] = clientPc[c]
  BY <1>5, OtherClients
<1>. QED
  BY <1>1, <1>2, <1>3, <1>4, <1>5
     DEF Next, ServerNext, ClientNext, vars, clientVars

\* A client owns its name from mkfifo() to the unlink() of its exit handler
\* (FifoClient.c, lines 74 and 39).
THEOREM OwnName == Spec => []OwnsItsName
<1>1. Init => OwnsItsName
  BY DEF Init, ClientInit, OwnsItsName
<1>2. IInv /\ OwnsItsName /\ [Next]_vars => OwnsItsName'
  <2> SUFFICES ASSUME IInv, OwnsItsName, [Next]_vars, NEW c \in Clients,
                      clientPc'[c] \notin {"start", "done", "dead"}
               PROVE  responsePath'[PidOf[c]] = c
    BY DEF OwnsItsName
  <2>1. PidOf \in [Clients -> Pids] /\ responsePath \in [Pids -> Clients \cup {None}]
    BY ProtocolAssumption DEF IInv, TypeOK, FifoTypeOK
  <2>2. CASE clientPc[c] = "start"
    <3>1. PICK d \in Clients : StartClient(d) /\ ClientNext(d)
      <4>1. clientPc'[c] # clientPc[c]
        BY <2>2
      <4>2. ASSUME NEW d \in Clients, ClientNext(d), ~StartClient(d) PROVE FALSE
        <5>1. d = c
          BY <4>1, <4>2, OtherClients
        <5>. QED
          BY <2>2, <4>2, <5>1
             DEF ClientNext, ClientStep, ClientInterrupt, OpenRequest, NoServer,
                 WriteRequest, ClientBrokenPipe, CloseRequest, OpenOwnFifo,
                 ReadResponse, FinishClient
      <4>. QED
        BY <4>1, <4>2 DEF Next, ServerNext, vars, clientVars
    <3>2. d = c
      BY <2>2, <3>1, OtherClients
    <3>. QED
      BY <2>1, <3>1, <3>2
         DEF StartClient, CreateResponseFifo, FindStaleFifo, ClientExit, ClientGoto,
             IInv, TypeOK, ClientTypeOK
  <2>3. CASE clientPc[c] # "start"
    <3>1. clientPc[c] \notin {"start", "done", "dead"} /\ responsePath[PidOf[c]] = c
      BY <2>3, ClientMoves DEF OwnsItsName
    <3>2. ASSUME NEW d \in Clients, ClientNext(d), PidOf[d] = PidOf[c],
                 clientPc'[d] = "done" \/ clientPc[d] = "start",
                 clientPc[d] \notin {"done", "dead"},
                 clientPc[d] = "start" => PidFree(d)
          PROVE  FALSE
      <4>1. CASE clientPc[d] = "start"
        BY <2>3, <3>1, <3>2, <4>1 DEF PidFree, Ended
      <4>2. CASE clientPc[d] # "start"
        BY <3>1, <3>2, <4>2, OneRunPerPid
      <4>. QED
        BY <4>1, <4>2
    <3>. QED
      BY <2>1, <3>1, <3>2, NameChange
  <2>. QED
    BY <2>2, <2>3
<1>. QED
  BY <1>1, <1>2, ServiceInvariant, PTL DEF Spec

\* The name of a response FIFO leads to the run that made it, until it exits.
LEMMA NamesOfRuns == Spec => []NameOfARun
<1>1. Init => NameOfARun
  BY DEF Init, FifoInit, NameOfARun
<1>2. IInv /\ OwnsItsName /\ NameOfARun /\ [Next]_vars => NameOfARun'
  <2> SUFFICES ASSUME IInv, OwnsItsName, NameOfARun, [Next]_vars,
                      NEW p \in Pids, responsePath'[p] # None
               PROVE  /\ PidOf[responsePath'[p]] = p
                      /\ clientPc'[responsePath'[p]] \notin {"start", "done"}
    BY DEF NameOfARun
  <2>1. /\ PidOf \in [Clients -> Pids] /\ responsePath \in [Pids -> Clients \cup {None}]
        /\ None \notin Clients
    BY ProtocolAssumption DEF IInv, TypeOK, FifoTypeOK
  <2>2. CASE responsePath'[p] = responsePath[p]
    <3>. DEFINE c == responsePath[p]
    <3>1. c \in Clients /\ PidOf[c] = p /\ clientPc[c] \notin {"start", "done"}
      BY <2>1, <2>2 DEF NameOfARun
    <3>2. clientPc'[c] # "start"
      BY <3>1, ClientMoves
    <3>3. ASSUME clientPc'[c] = "done" PROVE FALSE
      <4>1. PICK d \in Clients : ClientNext(d) /\ clientPc'[c] # clientPc[c]
        BY <3>1, <3>3 DEF Next, ServerNext, vars, clientVars
      <4>2. d = c
        BY <3>1, <4>1, OtherClients
      <4>3. responsePath' = [responsePath EXCEPT ![PidOf[c]] = None]
        BY <3>1, <3>3, <4>1, <4>2
           DEF ClientNext, StartClient, ClientStep, ClientInterrupt, OpenRequest,
               NoServer, WriteRequest, ClientBrokenPipe, CloseRequest, OpenOwnFifo,
               ReadResponse, FinishClient, CreateResponseFifo, FindStaleFifo,
               ClientExit, Killed, ClientGoto, IInv, TypeOK, ClientTypeOK
      <4>. QED
        BY <2>1, <2>2, <3>1, <4>3
    <3>. QED
      BY <2>2, <3>1, <3>2, <3>3
  <2>3. CASE responsePath'[p] # responsePath[p]
    BY <2>1, <2>3, NameChange
  <2>. QED
    BY <2>2, <2>3
<1>. QED
  BY <1>1, <1>2, ServiceInvariant, OwnName, PTL DEF Spec

\* A server that runs is found by its name until another one that ends takes
\* it away (multithreaFfifoserver.c, lines 142 and 37).
THEOREM ReachableByName == Spec => []ReachableUnlessTakenAway
<1>1. Init => ReachableUnlessTakenAway
  BY DEF Init, ServerInit, ReachableUnlessTakenAway, Serving
<1>2. IInv /\ ReachableUnlessTakenAway /\ [Next]_vars => ReachableUnlessTakenAway'
  <2> SUFFICES ASSUME IInv, ReachableUnlessTakenAway, [Next]_vars
               PROVE  ReachableUnlessTakenAway'
    OBVIOUS
  <2>. USE DEF ReachableUnlessTakenAway, Serving
  <2>0. /\ process \in [Servers -> {"new", "running", "exiting", "gone"}]
        /\ mainPc \in [Servers -> MainPcs]
        /\ None \notin Servers
    BY ProtocolAssumption DEF IInv, TypeOK, ServerTypeOK
  <2>1. CASE UNCHANGED <<process, mainPc, requestPath>>
    BY <2>1
  <2>2. ASSUME NEW s \in Servers, RunExitHandler(s), UNCHANGED mainPc \/ MainExit(s)
        PROVE  ReachableUnlessTakenAway'
    <3>1. CASE process[s] = "running"
      BY <2>0, <2>2, <3>1 DEF RunExitHandler, MainExit
    <3>2. CASE process[s] # "running"
      BY <2>0, <2>2, <3>2 DEF RunExitHandler, MainExit
    <3>. QED
      BY <3>1, <3>2
  <2>3. ASSUME NEW s \in Servers, process' = [process EXCEPT ![s] = "gone"],
               UNCHANGED <<mainPc, requestPath>>
        PROVE  ReachableUnlessTakenAway'
    BY <2>0, <2>3
  <2>4. ASSUME NEW s \in Servers, Start(s) PROVE ReachableUnlessTakenAway'
    BY <2>0, <2>4 DEF Start, fifoVars
  <2>5. ASSUME NEW s \in Servers, MakeRequestFifo(s) PROVE ReachableUnlessTakenAway'
    BY <2>0, <2>5 DEF MakeRequestFifo
  <2>6. ASSUME NEW s \in Servers,
               OpenRequestFifo(s) \/ OpenDummy(s) \/ ReadRequest(s) \/ SpawnHandler(s)
        PROVE  ReachableUnlessTakenAway'
    BY <2>0, <2>6 DEF OpenRequestFifo, OpenDummy, ReadRequest, SpawnHandler, fifoVars
  <2>7. ASSUME NEW s \in Servers, MainStep(s) \/ Interrupt(s) \/ Die(s)
        PROVE  ReachableUnlessTakenAway'
    BY <2>2, <2>3, <2>5, <2>6, <2>7
       DEF MainStep, MainFails, Interrupt, MainExit, Die
  <2>8. ASSUME NEW s \in Servers, NEW t \in Threads, HandlerStep(s, t)
        PROVE  ReachableUnlessTakenAway'
    BY <2>1, <2>2, <2>3, <2>8
       DEF HandlerStep, CopyRequest, Lock, TakeTickets, AdvanceCounter, Unlock,
           OpenResponse, HandlerFails, WriteResponse, BrokenPipe, FinishHandler,
           fifoVars, mainVars
  <2>9. ASSUME NEW c \in Clients, ClientNext(c)
        PROVE  UNCHANGED <<process, mainPc, requestPath>>
    BY <2>9
       DEF ClientNext, StartClient, ClientStep, ClientInterrupt, OpenRequest,
           NoServer, WriteRequest, ClientBrokenPipe, CloseRequest, OpenOwnFifo,
           ReadResponse, FinishClient, CreateResponseFifo, FindStaleFifo,
           Killed, serverVars, mainVars
  <2>. QED
    BY <2>1, <2>4, <2>7, <2>8, <2>9
       DEF Next, ServerNext, vars, fifoVars, serverVars, mainVars
<1>. QED
  BY <1>1, <1>2, ServiceInvariant, PTL DEF Spec

-----------------------------------------------------------------------------
(* Queues of requests *)

Queues == [Servers -> Seq(Requests)]

\* Every record of the queues E was in D, in the same queue.
Inherits(D, E) ==
    \A f \in Servers : \E k \in {0, 1} : \A i \in 1 .. Len(E[f]) :
        i + k \in 1 .. Len(D[f]) /\ E[f][i] = D[f][i + k]

\* A queue that was freed, or lost its head, has no more than before.
LEMMA InheritsOnce ==
    ASSUME NEW D \in Queues, NEW E \in Queues, Inherits(D, E)
    PROVE  /\ Once(D) => Once(E)
           /\ \A c : From(E, c) => From(D, c)
<1>0. \A f \in Servers : Len(D[f]) \in Nat /\ Len(E[f]) \in Nat
  BY LenProperties DEF Queues
<1>1. ASSUME NEW c, From(E, c) PROVE From(D, c)
  <2>1. PICK f \in Servers : \E i \in 1 .. Len(E[f]) : E[f][i].from = c
    BY <1>1 DEF From
  <2>2. PICK i \in 1 .. Len(E[f]) : E[f][i].from = c
    BY <2>1
  <2>3. PICK k \in {0, 1} : i + k \in 1 .. Len(D[f]) /\ E[f][i] = D[f][i + k]
    BY DEF Inherits
  <2>. QED
    BY <2>2, <2>3 DEF From
<1>2. ASSUME Once(D), NEW f \in Servers, NEW g \in Servers,
             NEW i \in 1 .. Len(E[f]), NEW j \in 1 .. Len(E[g]),
             E[f][i].from = E[g][j].from
      PROVE  f = g /\ i = j
  <2>1. PICK k \in {0, 1} : \A x \in 1 .. Len(E[f]) :
            x + k \in 1 .. Len(D[f]) /\ E[f][x] = D[f][x + k]
    BY DEF Inherits
  <2>2. PICK l \in {0, 1} : \A x \in 1 .. Len(E[g]) :
            x + l \in 1 .. Len(D[g]) /\ E[g][x] = D[g][x + l]
    BY DEF Inherits
  <2>3. f = g /\ i + k = j + l
    <3>1. i + k \in 1 .. Len(D[f]) /\ E[f][i] = D[f][i + k]
      BY <2>1
    <3>2. j + l \in 1 .. Len(D[g]) /\ E[g][j] = D[g][j + l]
      BY <2>2
    <3>3. D[f][i + k].from = D[g][j + l].from
      BY <1>2, <3>1, <3>2
    <3>. QED
      BY <1>2, <3>1, <3>2, <3>3 DEF Once
  <2>4. CASE k = l
    BY <2>3, <2>4, <1>0
  <2>5. CASE k # l
    <3>1. i + k \in 1 .. Len(D[f]) /\ E[f][i] = D[f][i + k]
      BY <2>1
    <3>2. i + l \in 1 .. Len(D[f]) /\ E[f][i] = D[f][i + l]
      BY <2>2, <2>3
    <3>3. D[f][i + k].from = D[f][i + l].from
      BY <3>1, <3>2
    <3>4. i + k = i + l
      <4>1. \A x, y \in 1 .. Len(D[f]) : D[f][x].from = D[f][y].from => x = y
        BY <1>2 DEF Once
      <4>. QED
        BY <3>1, <3>2, <3>3, <4>1
    <3>. QED
      BY <1>0, <2>5, <3>4
  <2>. QED
    BY <2>4, <2>5
<1>. QED
  BY <1>1, <1>2 DEF Once

\* The queues after a read of the head of one, and after a write.
Shorter(D, s) == [D EXCEPT ![s] = Tail(@)]
Longer(D, s, r) == [D EXCEPT ![s] = Append(@, r)]

\* The shorter queues of CloseEnds.
LEMMA FreedQueue ==
    ASSUME NEW D \in Queues, NEW E \in Queues,
           \A f \in Servers : E[f] \in {D[f], << >>}
    PROVE  Inherits(D, E)
<1>1. Len(<< >>) = 0
  OBVIOUS
<1>2. ASSUME NEW f \in Servers
      PROVE  \A i \in 1 .. Len(E[f]) : i + 0 \in 1 .. Len(D[f]) /\ E[f][i] = D[f][i + 0]
  <2>1. CASE E[f] = D[f]
    <3>1. Len(D[f]) \in Nat
      BY LenProperties DEF Queues
    <3>2. \A i \in 1 .. Len(D[f]) : i + 0 = i
      BY <3>1
    <3>. QED
      BY <2>1, <3>2
  <2>2. CASE E[f] = << >>
    <3>1. 1 .. Len(E[f]) = {}
      BY <1>1, <2>2
    <3>. QED
      BY <3>1
  <2>. QED
    BY <2>1, <2>2
<1>. QED
  BY <1>2 DEF Inherits

\* A read takes one request and leaves the others.
LEMMA ReadQueue ==
    ASSUME NEW D \in Queues, NEW s \in Servers, D[s] # << >>, NEW E,
           E = Shorter(D, s)
    PROVE  /\ E \in Queues /\ Inherits(D, E)
           /\ From(D, Head(D[s]).from)
           /\ Once(D) => ~From(E, Head(D[s]).from)
<1>1. /\ Head(D[s]) = D[s][1] /\ Tail(D[s]) \in Seq(Requests)
      /\ Len(D[s]) \in Nat /\ Len(D[s]) >= 1 /\ Len(Tail(D[s])) = Len(D[s]) - 1
      /\ \A i \in 1 .. Len(Tail(D[s])) : Tail(D[s])[i] = D[s][i + 1]
  BY HeadTailProperties, LenProperties, EmptySeq DEF Queues
<1>2. E \in Queues
  BY <1>1 DEF Queues, Shorter
<1>3. \A f \in Servers : f # s => E[f] = D[f]
  BY DEF Queues, Shorter
<1>4. E[s] = Tail(D[s])
  BY DEF Queues, Shorter
<1>5. ASSUME NEW i \in 1 .. Len(E[s])
      PROVE  i + 1 \in 1 .. Len(D[s]) /\ E[s][i] = D[s][i + 1]
  <2>1. i \in 1 .. Len(Tail(D[s])) /\ E[s][i] = Tail(D[s])[i]
    BY <1>4
  <2>. QED
    BY <1>1, <2>1
<1>6. ASSUME NEW f \in Servers, f # s
      PROVE  \A i \in 1 .. Len(E[f]) : i + 0 \in 1 .. Len(D[f]) /\ E[f][i] = D[f][i + 0]
  <2>1. E[f] = D[f] /\ Len(D[f]) \in Nat
    BY <1>3, <1>6, LenProperties DEF Queues
  <2>2. \A i \in 1 .. Len(D[f]) : i + 0 = i
    BY <2>1
  <2>. QED
    BY <2>1, <2>2
<1>7. Inherits(D, E)
  BY <1>5, <1>6 DEF Inherits
<1>8. From(D, Head(D[s]).from)
  BY <1>1 DEF From
<1>9. ASSUME Once(D), From(E, Head(D[s]).from) PROVE FALSE
  <2>1. PICK f \in Servers : \E i \in 1 .. Len(E[f]) : E[f][i].from = D[s][1].from
    BY <1>1, <1>9 DEF From
  <2>2. PICK i \in 1 .. Len(E[f]) : E[f][i].from = D[s][1].from
    BY <2>1
  <2>3. CASE f = s
    <3>1. i + 1 \in 1 .. Len(D[s]) /\ D[s][i + 1].from = D[s][1].from
      BY <1>5, <2>2, <2>3
    <3>2. 1 \in 1 .. Len(D[s])
      BY <1>1
    <3>3. i + 1 = 1
      BY <1>9, <3>1, <3>2 DEF Once
    <3>4. i \in 1 .. Len(Tail(D[s]))
      BY <1>4, <2>3
    <3>. QED
      BY <1>1, <3>3, <3>4
  <2>4. CASE f # s
    BY <1>1, <1>3, <1>9, <2>2, <2>4 DEF Once
  <2>. QED
    BY <2>3, <2>4
<1>. QED
  BY <1>2, <1>7, <1>8, <1>9

\* A write adds one request.
LEMMA WriteQueue ==
    ASSUME NEW D \in Queues, NEW s \in Servers, NEW r \in Requests, NEW E,
           E = Longer(D, s, r)
    PROVE  /\ E \in Queues
           /\ \A c : From(E, c) => From(D, c) \/ c = r.from
           /\ \A f \in Servers : \A i \in 1 .. Len(E[f]) :
                 \/ i \in 1 .. Len(D[f]) /\ E[f][i] = D[f][i]
                 \/ f = s /\ i = Len(D[s]) + 1 /\ E[f][i] = r
           /\ Once(D) /\ ~From(D, r.from) => Once(E)
<1>0. /\ D[s] \in Seq(Requests) /\ E[s] = Append(D[s], r)
      /\ \A f \in Servers : f # s => E[f] = D[f]
  BY DEF Queues, Longer
<1>1. /\ Append(D[s], r) \in Seq(Requests) /\ Len(E[s]) = Len(D[s]) + 1 /\ Len(D[s]) \in Nat
      /\ \A i \in 1 .. Len(D[s]) : E[s][i] = D[s][i]
      /\ E[s][Len(D[s]) + 1] = r
  BY <1>0, AppendProperties, LenProperties
<1>2. E \in Queues
  BY <1>1 DEF Queues, Longer
<1>3. \A f \in Servers : \A i \in 1 .. Len(E[f]) :
          \/ i \in 1 .. Len(D[f]) /\ E[f][i] = D[f][i]
          \/ f = s /\ i = Len(D[s]) + 1 /\ E[f][i] = r
  <2>1. ASSUME NEW i \in 1 .. Len(E[s])
        PROVE  i \in 1 .. Len(D[s]) \/ i = Len(D[s]) + 1
    BY <1>1
  <2>2. ASSUME NEW f \in Servers, f # s, NEW i \in 1 .. Len(E[f])
        PROVE  i \in 1 .. Len(D[f]) /\ E[f][i] = D[f][i]
    BY <1>0, <2>2
  <2>. QED
    BY <1>1, <2>1, <2>2
<1>4. \A c : From(E, c) => From(D, c) \/ c = r.from
  BY <1>3 DEF From
<1>5. ASSUME Once(D), ~From(D, r.from) PROVE Once(E)
  <2> SUFFICES ASSUME NEW f \in Servers, NEW g \in Servers,
                      NEW i \in 1 .. Len(E[f]), NEW j \in 1 .. Len(E[g]),
                      E[f][i].from = E[g][j].from
               PROVE  f = g /\ i = j
    BY DEF Once
  <2>1. CASE i \in 1 .. Len(D[f]) /\ E[f][i] = D[f][i]
    <3>1. E[f][i].from # r.from
      BY <1>5, <2>1 DEF From
    <3>2. j \in 1 .. Len(D[g]) /\ E[g][j] = D[g][j]
      BY <1>3, <3>1
    <3>. QED
      BY <1>5, <2>1, <3>2 DEF Once
  <2>2. CASE f = s /\ i = Len(D[s]) + 1 /\ E[f][i] = r
    <3>1. ~(j \in 1 .. Len(D[g]) /\ E[g][j] = D[g][j])
      BY <1>5, <2>2 DEF From
    <3>. QED
      BY <1>3, <2>2, <3>1
  <2>. QED
    BY <1>3, <2>1, <2>2
<1>. QED
  BY <1>2, <1>3, <1>4, <1>5

-----------------------------------------------------------------------------
(* The dummy descriptor *)

\* Which variables of the main threads a step may change, and how.
LEMMA MainChange ==
    ASSUME IInv, [Next]_vars, NEW s \in Servers
    PROVE  \/ mainPc'[s] = mainPc[s] /\ UNCHANGED <<requestFd[s], dummyFd[s], request[s], spawned[s]>>
           \/ mainPc'[s] \in {"mkfifo", "exit"} /\ UNCHANGED <<requestFd[s], dummyFd[s], request[s], spawned[s]>>
              /\ (mainPc'[s] = "mkfifo" => Start(s))
           \/ MakeRequestFifo(s) \/ OpenRequestFifo(s) \/ OpenDummy(s)
           \/ ReadRequest(s) \/ SpawnHandler(s)
<1>. DEFINE Same(u) == mainPc'[u] = mainPc[u]
                 /\ UNCHANGED <<requestFd[u], dummyFd[u], request[u], spawned[u]>>
<1>. USE DEF IInv, TypeOK, ServerTypeOK
<1>1. CASE UNCHANGED <<mainPc, requestFd, dummyFd, request, spawned>>
  BY <1>1
<1>2. ASSUME NEW u \in Servers, u # s, ServerNext(u) PROVE Same(s)
  <2>1. CASE Start(u) \/ MainStep(u) \/ Interrupt(u) \/ Die(u)
    BY <1>2, <2>1 DEF Start, MainStep, MakeRequestFifo, OpenRequestFifo, OpenDummy,
       MainFails, ReadRequest, SpawnHandler, Interrupt, MainExit, Die
  <2>2. ASSUME NEW t \in Threads, HandlerStep(u, t) PROVE Same(s)
    BY <2>2 DEF HandlerStep, CopyRequest, Lock, TakeTickets, AdvanceCounter, Unlock,
       OpenResponse, HandlerFails, WriteResponse, BrokenPipe, FinishHandler, mainVars
  <2>. QED
    BY <1>2, <2>1, <2>2 DEF ServerNext
<1>3. CASE ServerNext(s)
  <2>1. CASE Start(s) \/ MainFails(s) \/ Interrupt(s) \/ Die(s)
    BY <2>1 DEF Start, MainFails, Interrupt, MainExit, Die
  <2>2. ASSUME NEW t \in Threads, HandlerStep(s, t) PROVE Same(s)
    BY <2>2 DEF HandlerStep, CopyRequest, Lock, TakeTickets, AdvanceCounter, Unlock,
       OpenResponse, HandlerFails, WriteResponse, BrokenPipe, FinishHandler, mainVars
  <2>. QED
    BY <1>3, <2>1, <2>2 DEF ServerNext, MainStep
<1>. QED
  BY <1>1, <1>2, <1>3 DEF Next, ClientNext, vars, serverVars, mainVars

\* No process comes back.
LEMMA ProcessMoves ==
    ASSUME IInv, [Next]_vars, NEW s \in Servers
    PROVE  /\ process[s] = "gone" => process'[s] = "gone"
           /\ process'[s] = "new" => process[s] = "new" /\ mainPc'[s] = mainPc[s]
<1>. DEFINE Goal == /\ process[s] = "gone" => process'[s] = "gone"
                    /\ process'[s] = "new" => process[s] = "new" /\ mainPc'[s] = mainPc[s]
<1>0. /\ process \in [Servers -> {"new", "running", "exiting", "gone"}]
      /\ mainPc \in [Servers -> MainPcs]
  BY DEF IInv, TypeOK, ServerTypeOK
<1>1. CASE UNCHANGED <<process, mainPc>>
  BY <1>1
<1>2. ASSUME NEW u \in Servers, Alive(u), RunExitHandler(u), UNCHANGED mainPc \/ MainExit(u)
      PROVE  Goal
  BY <1>0, <1>2 DEF RunExitHandler, MainExit, Alive
<1>3. ASSUME NEW u \in Servers, Alive(u), process' = [process EXCEPT ![u] = "gone"],
             UNCHANGED mainPc
      PROVE  Goal
  BY <1>0, <1>3 DEF Alive
<1>4. ASSUME NEW u \in Servers, Start(u) PROVE Goal
  BY <1>0, <1>4 DEF Start
<1>5. ASSUME NEW u \in Servers, Alive(u), UNCHANGED process,
             \E l \in MainPcs : mainPc' = [mainPc EXCEPT ![u] = l]
      PROVE  Goal
  BY <1>0, <1>5 DEF Alive
<1>6. ASSUME NEW u \in Servers, MainStep(u) \/ Interrupt(u) \/ Die(u) PROVE Goal
  <2>1. CASE MainFails(u) \/ Interrupt(u)
    BY <1>2, <2>1 DEF MainFails, Interrupt, MainExit, Alive
  <2>2. CASE Die(u)
    BY <1>3, <2>2 DEF Die, Alive
  <2>. QED
    BY <1>5, <1>6, <2>1, <2>2
       DEF MainStep, MakeRequestFifo, OpenRequestFifo, OpenDummy, ReadRequest,
           SpawnHandler, MainPcs
<1>7. ASSUME NEW u \in Servers, NEW t \in Threads, HandlerStep(u, t) PROVE Goal
  BY <1>1, <1>2, <1>3, <1>7
     DEF HandlerStep, CopyRequest, Lock, TakeTickets, AdvanceCounter, Unlock,
         OpenResponse, HandlerFails, WriteResponse, BrokenPipe, FinishHandler,
         mainVars, At
<1>. QED
  BY <1>1, <1>4, <1>6, <1>7
     DEF Next, ServerNext, ClientNext, vars, serverVars, mainVars

\* An end the main thread of a server holds stays open until the server is gone.
LEMMA MainEndStays ==
    ASSUME IInv, [Next]_vars, NEW s \in Servers, NEW f \in Servers,
           MainEnd(s) \in requestFifo[f].writers, process'[s] # "gone"
    PROVE  MainEnd(s) \in requestFifo'[f].writers
<1>. DEFINE Keeps == MainEnd(s) \in requestFifo'[f].writers
<1>0. /\ requestFifo \in [Servers -> Fifos(Ends, Requests)]
      /\ \A g \in Servers : requestFifo[g] \in Fifos(Ends, Requests)
      /\ process \in [Servers -> {"new", "running", "exiting", "gone"}]
  BY DEF IInv, TypeOK, FifoTypeOK, ServerTypeOK
<1>1. CASE UNCHANGED requestFifo
  BY <1>1
<1>2. ASSUME NEW p, p # s, CloseAll(p) PROVE Keeps
  BY <1>0, <1>2 DEF CloseAll, CloseEnds, EndsOf, MainEnd
<1>3. ASSUME NEW u \in Servers, Start(u) \/ MainStep(u) \/ Interrupt(u) PROVE Keeps
  <2>. USE DEF Fifos, OpenForReading, OpenForWriting, Drop, fifoVars
  <2>1. CASE OpenRequestFifo(u)
    BY <1>0, <2>1 DEF OpenRequestFifo
  <2>2. CASE OpenDummy(u)
    BY <1>0, <2>2 DEF OpenDummy
  <2>3. CASE ReadRequest(u)
    <3>1. CASE UNCHANGED requestFifo
      BY <1>1, <3>1
    <3>2. CASE requestFifo' = [requestFifo EXCEPT ![requestFd[u]] = Drop(@)]
      BY <1>0, <3>2
    <3>. QED
      BY <2>3, <3>1, <3>2 DEF ReadRequest
  <2>. QED
    BY <1>1, <1>3, <2>1, <2>2, <2>3
       DEF Start, MainStep, MakeRequestFifo, MainFails, SpawnHandler, Interrupt, MainExit
<1>4. ASSUME NEW u \in Servers, Die(u) PROVE Keeps
  BY <1>0, <1>2, <1>4 DEF Die
<1>5. ASSUME NEW u \in Servers, NEW t \in Threads, HandlerStep(u, t) PROVE Keeps
  <2>1. CASE BrokenPipe(u, t)
    BY <1>0, <1>2, <2>1 DEF BrokenPipe
  <2>. QED
    BY <1>1, <1>5, <2>1
       DEF HandlerStep, CopyRequest, Lock, TakeTickets, AdvanceCounter, Unlock,
           OpenResponse, HandlerFails, WriteResponse, FinishHandler, fifoVars
<1>6. ASSUME NEW c \in Clients, ClientNext(c) PROVE Keeps
  <2>0. c # s /\ ClientEnd(c) # MainEnd(s)
    BY ProtocolAssumption DEF ClientEnd, MainEnd
  <2>1. CASE OpenRequest(c)
    BY <1>0, <2>1 DEF OpenRequest, Fifos, OpenForWriting
  <2>2. CASE WriteRequest(c)
    BY <1>0, <2>2 DEF WriteRequest, Fifos, Put
  <2>3. CASE CloseRequest(c)
    BY <1>0, <2>0, <2>3 DEF CloseRequest, Fifos, CloseEnds
  <2>. QED
    BY <1>1, <1>2, <1>6, <2>0, <2>1, <2>2, <2>3
       DEF ClientNext, StartClient, ClientStep, ClientInterrupt, NoServer,
           ClientBrokenPipe, OpenOwnFifo, ReadResponse, FinishClient,
           CreateResponseFifo, FindStaleFifo, ClientExit, Killed, fifoVars
<1>. QED
  BY <1>1, <1>3, <1>4, <1>5, <1>6 DEF Next, ServerNext, vars, fifoVars

\* The dummy descriptor keeps the FIFO of a server from its end of file.
LEMMA DummyHolds == Spec => []MainHolds
<1>1. Init => MainHolds
  BY DEF Init, ServerInit, MainHolds
<1>2. IInv /\ MainHolds /\ [Next]_vars => MainHolds'
  <2> SUFFICES ASSUME IInv, MainHolds, [Next]_vars, NEW s \in Servers
               PROVE  (/\ process[s] = "new" => mainPc[s] = "start"
                       /\ mainPc[s] \in {"start", "mkfifo", "openRead", "openDummy"} => dummyFd[s] = None
                       /\ dummyFd[s] = None => spawned[s] = 0
                       /\ process[s] # "gone" /\ mainPc[s] \in {"read", "spawn"} =>
                            MainEnd(s) \in requestFifo[dummyFd[s]].writers)'
    BY DEF MainHolds
  <2>0. /\ mainPc[s] \in {"start", "mkfifo", "openRead", "openDummy"} => dummyFd[s] = None
        /\ dummyFd[s] = None => spawned[s] = 0
        /\ process[s] # "gone" /\ mainPc[s] \in {"read", "spawn"} =>
             MainEnd(s) \in requestFifo[dummyFd[s]].writers
        /\ mainPc[s] \in {"read", "spawn"} => dummyFd[s] \in Servers
        /\ None \notin Servers
        /\ process'[s] # "gone" => process[s] # "gone"
        /\ process'[s] = "new" => process[s] = "new" /\ mainPc'[s] = mainPc[s]
        /\ process[s] = "new" => mainPc[s] = "start"
    BY ProcessMoves, ProtocolAssumption DEF MainHolds, IInv, Ready, MainReady
  <2>1. CASE mainPc'[s] = mainPc[s] /\ UNCHANGED <<requestFd[s], dummyFd[s], request[s], spawned[s]>>
    BY <2>0, <2>1, MainEndStays
  <2>2. CASE mainPc'[s] \in {"mkfifo", "exit"} /\ UNCHANGED <<requestFd[s], dummyFd[s], request[s], spawned[s]>>
              /\ (mainPc'[s] = "mkfifo" => Start(s))
    BY <2>0, <2>2 DEF Start
  <2>3. CASE MakeRequestFifo(s) \/ OpenRequestFifo(s)
    BY <2>0, <2>3 DEF MakeRequestFifo, OpenRequestFifo, Alive, IInv, TypeOK, ServerTypeOK
  <2>4. CASE OpenDummy(s)
    <3>1. /\ requestPath \in Servers /\ dummyFd'[s] = requestPath /\ mainPc'[s] = "read"
          /\ requestFifo'[requestPath].writers =
                OpenForWriting(requestFifo[requestPath], MainEnd(s)).writers
      BY <2>4 DEF OpenDummy, IInv, TypeOK, ServerTypeOK, FifoTypeOK
    <3>2. MainEnd(s) \in OpenForWriting(requestFifo[requestPath], MainEnd(s)).writers
      BY <3>1 DEF OpenForWriting, IInv, TypeOK, FifoTypeOK, Fifos
    <3>3. process'[s] # "new"
      BY <2>0, <2>4 DEF OpenDummy
    <3>. QED
      BY <2>0, <3>1, <3>2, <3>3
  <2>5. CASE ReadRequest(s) \/ SpawnHandler(s)
    <3>1. /\ mainPc[s] \in {"read", "spawn"} /\ mainPc'[s] \in {"read", "spawn"}
          /\ dummyFd'[s] = dummyFd[s]
      BY <2>5 DEF ReadRequest, SpawnHandler, IInv, TypeOK, ServerTypeOK
    <3>. QED
      BY <2>0, <3>1, MainEndStays
  <2>. QED
    BY <2>1, <2>2, <2>3, <2>4, <2>5, MainChange
<1>. QED
  BY <1>1, <1>2, ServiceInvariant, PTL DEF Spec

-----------------------------------------------------------------------------
(* One handler per request *)

\* The request FIFOs hold queues of requests.
LEMMA QueuedType ==
    ASSUME FifoTypeOK
    PROVE  Queued \in Queues
BY DEF FifoTypeOK, Fifos, Queued, Queues

\* A step frees queues, appends the request of a client or takes the head of
\* the queue a server reads.
LEMMA QueueChange ==
    ASSUME IInv, [Next]_vars
    PROVE  \/ Inherits(Queued, Queued')
           \/ \E c \in Clients :
                 /\ WriteRequest(c) /\ requestEnd[c] \in Servers /\ RequestOf(c) \in Requests
                 /\ Queued' = Longer(Queued, requestEnd[c], RequestOf(c))
           \/ \E s \in Servers :
                 /\ requestFd[s] \in Servers /\ Queued[requestFd[s]] # << >>
                 /\ Queued' = Shorter(Queued, requestFd[s])
<1>. DEFINE Freed == \A f \in Servers : Queued'[f] \in {Queued[f], << >>}
<1>0. /\ requestFifo \in [Servers -> Fifos(Ends, Requests)]
      /\ \A g \in Servers : requestFifo[g] \in Fifos(Ends, Requests)
  BY DEF IInv, TypeOK, FifoTypeOK
<1>1. CASE UNCHANGED requestFifo
  <2>1. Freed
    BY <1>1 DEF Queued
  <2>. QED
    BY <2>1, FreedQueue, QueuedType, <1>1 DEF IInv, TypeOK, Queued
<1>q. Freed => Inherits(Queued, Queued')
  <2>1. Queued \in Queues /\ Queued' \in Queues
    <3>1. IInv'
      BY NextInv
    <3>. QED
      BY <3>1, QueuedType DEF IInv, TypeOK, FifoTypeOK, Queues, Queued, Fifos
  <2>. QED
    BY <2>1, FreedQueue
<1>2. ASSUME NEW p, CloseAll(p) PROVE Freed
  BY <1>0, <1>2, CloseType DEF CloseAll, Queued
<1>3. ASSUME NEW e \in Ends, NEW f \in Servers, NEW X,
             \/ requestFifo' = [requestFifo EXCEPT ![f] = OpenForReading(@, e)]
             \/ requestFifo' = [requestFifo EXCEPT ![f] = OpenForWriting(@, e)]
             \/ requestFifo' = [requestFifo EXCEPT ![f] = CloseEnds(@, X)]
      PROVE  Freed
  <2>1. \A g \in Servers : g # f => requestFifo'[g] = requestFifo[g]
    BY <1>0, <1>3
  <2>2. requestFifo'[f].data \in {requestFifo[f].data, << >>}
    BY <1>0, <1>3, OpenType, CloseType
  <2>. QED
    BY <2>1, <2>2 DEF Queued
<1>4. ASSUME NEW s \in Servers, Start(s) \/ MainStep(s) \/ Interrupt(s) \/ Die(s),
             ~ReadRequest(s)
      PROVE  Freed
  <2>1. CASE UNCHANGED requestFifo
    BY <2>1 DEF Queued
  <2>2. CASE OpenRequestFifo(s) \/ OpenDummy(s)
    <3>1. requestPath \in Servers
      BY <2>2 DEF OpenRequestFifo, OpenDummy, IInv, TypeOK, FifoTypeOK
    <3>. QED
      BY <1>3, <2>2, <3>1, EndsType DEF OpenRequestFifo, OpenDummy
  <2>. QED
    BY <1>2, <1>4, <2>1, <2>2
       DEF Start, MainStep, MakeRequestFifo, MainFails, SpawnHandler, Interrupt,
           MainExit, Die, fifoVars
<1>5. ASSUME NEW s \in Servers, ReadRequest(s)
      PROVE  \/ UNCHANGED requestFifo
             \/ /\ requestFd[s] \in Servers /\ Queued[requestFd[s]] # << >>
                /\ Queued' = Shorter(Queued, requestFd[s])
  <2>. DEFINE f == requestFd[s]
  <2>1. f \in Servers
    BY <1>5 DEF ReadRequest, IInv, Ready, MainReady
  <2>2. CASE HasData(requestFifo[f]) /\ requestFifo' = [requestFifo EXCEPT ![f] = Drop(@)]
    <3>1. Queued[f] # << >>
      BY <2>1, <2>2 DEF HasData, Queued
    <3>2. requestFifo'[f].data = Tail(requestFifo[f].data)
      BY <1>0, <2>1, <2>2, DropType
    <3>3. \A g \in Servers : g # f => requestFifo'[g] = requestFifo[g]
      BY <1>0, <2>2
    <3>4. Queued' = Shorter(Queued, f)
      BY <2>1, <3>2, <3>3 DEF Queued, Shorter
    <3>. QED
      BY <2>1, <3>1, <3>4
  <2>. QED
    BY <1>5, <2>2 DEF ReadRequest
<1>6. ASSUME NEW s \in Servers, NEW t \in Threads, HandlerStep(s, t) PROVE Freed
  <2>1. CASE UNCHANGED requestFifo
    BY <2>1 DEF Queued
  <2>. QED
    BY <1>2, <1>6, <2>1
       DEF HandlerStep, CopyRequest, Lock, TakeTickets, AdvanceCounter, Unlock,
           OpenResponse, HandlerFails, WriteResponse, BrokenPipe, FinishHandler, fifoVars
<1>7. ASSUME NEW c \in Clients, ClientNext(c), ~WriteRequest(c) PROVE Freed
  <2>1. CASE UNCHANGED requestFifo
    BY <2>1 DEF Queued
  <2>2. CASE OpenRequest(c)
    <3>1. requestPath \in Servers
      BY <2>2 DEF OpenRequest, IInv, TypeOK, FifoTypeOK
    <3>. QED
      BY <1>3, <2>2, <3>1, EndsType DEF OpenRequest
  <2>3. CASE CloseRequest(c)
    <3>1. requestFifo' = [requestFifo EXCEPT ![requestEnd[c]] = CloseEnds(@, {ClientEnd(c)})]
      BY <2>3 DEF CloseRequest
    <3>2. CASE requestEnd[c] \in Servers
      BY <1>3, <3>1, <3>2, EndsType
    <3>3. CASE requestEnd[c] \notin Servers
      BY <1>0, <3>1, <3>3 DEF Queued
    <3>. QED
      BY <3>2, <3>3
  <2>. QED
    BY <1>2, <1>7, <2>1, <2>2, <2>3
       DEF ClientNext, StartClient, ClientStep, ClientInterrupt, NoServer,
           ClientBrokenPipe, OpenOwnFifo, ReadResponse, FinishClient,
           CreateResponseFifo, FindStaleFifo, ClientExit, Killed, fifoVars
<1>8. ASSUME NEW c \in Clients, WriteRequest(c)
      PROVE  /\ requestEnd[c] \in Servers /\ RequestOf(c) \in Requests
             /\ Queued' = Longer(Queued, requestEnd[c], RequestOf(c))
  <2>. DEFINE f == requestEnd[c]
  <2>1. f \in Servers /\ RequestOf(c) \in Requests
    BY <1>8, ProtocolAssumption
       DEF WriteRequest, IInv, Ready, ClientReady, RequestOf, Requests
  <2>2. requestFifo' = [requestFifo EXCEPT ![f] = Put(@, RequestOf(c))]
    BY <1>8 DEF WriteRequest
  <2>3. requestFifo'[f].data = Append(requestFifo[f].data, RequestOf(c))
    BY <1>0, <2>1, <2>2, PutType
  <2>4. \A g \in Servers : g # f => requestFifo'[g] = requestFifo[g]
    BY <1>0, <2>2
  <2>5. Queued' = Longer(Queued, f, RequestOf(c))
    BY <2>1, <2>3, <2>4 DEF Queued, Longer
  <2>. QED
    BY <2>1, <2>5
<1>9. ASSUME NEW s \in Servers, ServerNext(s), ~ReadRequest(s) PROVE Freed
  BY <1>4, <1>6, <1>9 DEF ServerNext
<1>. QED
  BY <1>1, <1>5, <1>7, <1>8, <1>9, <1>q DEF Next, ServerNext, vars, fifoVars

\* A handler keeps its request: first in the block main allocated, then in its
\* own copy.
LEMMA WorkStays ==
    ASSUME IInv, Fresh, [Next]_vars, NEW s \in Servers, NEW t \in Threads
    PROVE  \/ /\ handlerPc'[s][t] = "none" <=> handlerPc[s][t] = "none"
              /\ handlerPc[s][t] # "none" => Work(s, t)' = Work(s, t)
           \/ /\ SpawnHandler(s) /\ t = spawned[s] + 1
              /\ handlerPc[s][t] = "none" /\ Work(s, t)' = request[s]
<1>. DEFINE Same == /\ handlerPc'[s][t] = "none" <=> handlerPc[s][t] = "none"
                    /\ handlerPc[s][t] # "none" => Work(s, t)' = Work(s, t)
<1>0. /\ handlerPc \in [Servers -> [Threads -> HandlerPcs]]
      /\ input \in [Servers -> [Threads -> MaybeRequest]]
      /\ job \in [Servers -> [Threads -> MaybeRequest]]
  BY DEF IInv, TypeOK, ServerTypeOK
<1>1. CASE UNCHANGED handlerVars
  BY <1>1 DEF handlerVars, Work
<1>2. ASSUME NEW u \in Servers, NEW v \in Threads, HandlerStep(u, v) PROVE Same
  <2>1. CASE ~(u = s /\ v = t)
    BY <1>2, <2>1, HandlerFrame DEF Work
  <2>2. CASE u = s /\ v = t /\ CopyRequest(s, t)
    BY <1>0, <2>2 DEF CopyRequest, RequestBehind, Goto, At, Work
  <2>3. CASE u = s /\ v = t /\ ~CopyRequest(s, t)
    <3>1. UNCHANGED job
      BY <1>2, <2>3 DEF HandlerStep, Lock, TakeTickets, AdvanceCounter, Unlock,
         OpenResponse, HandlerFails, WriteResponse, BrokenPipe, FinishHandler, handlerVars
    <3>2. handlerPc[s][t] \notin {"none", "copy"} /\ handlerPc'[s][t] \notin {"none", "copy"}
      BY <1>0, <1>2, <2>3
         DEF HandlerStep, Lock, TakeTickets, AdvanceCounter, Unlock, OpenResponse,
             HandlerFails, WriteResponse, BrokenPipe, FinishHandler, handlerVars, At, Goto
    <3>. QED
      BY <3>1, <3>2 DEF Work
  <2>. QED
    BY <2>1, <2>2, <2>3
<1>3. ASSUME NEW u \in Servers, SpawnHandler(u) PROVE Same \/ (u = s /\ t = spawned[s] + 1)
  <2>1. CASE u = s /\ t = spawned[s] + 1
    BY <2>1
  <2>2. CASE ~(u = s /\ t = spawned[s] + 1)
    BY <1>0, <1>3, <2>2 DEF SpawnHandler, Work
  <2>. QED
    BY <2>1, <2>2
<1>4. CASE SpawnHandler(s) /\ t = spawned[s] + 1
  <2>1. handlerPc[s][t] = "none"
    BY <1>4 DEF Fresh, IInv, TypeOK, ServerTypeOK, Threads
  <2>. QED
    BY <1>0, <1>4, <2>1 DEF SpawnHandler, Work
<1>. QED
  BY <1>1, <1>2, <1>3, <1>4
     DEF Next, vars, serverVars, ServerNext, ClientNext, Start, MainStep,
         MakeRequestFifo, OpenRequestFifo, OpenDummy, MainFails, ReadRequest,
         Interrupt, MainExit, Die

\* A steady server that holds a request held it before, has just read it, or
\* has just given it to a new handler.
LEMMA SlotChange ==
    ASSUME IInv, Fresh, MainHolds, [Next]_vars, NEW s \in Servers, NEW t \in Slots,
           Taken(s, t)'
    PROVE  \/ Taken(s, t) /\ Held(s, t)' = Held(s, t) /\ (t = 0 => mainPc[s] = "spawn")
           \/ t = 0 /\ ReadRequest(s) /\ Steady(s) /\ Held(s, t)' = request'[s]
           \/ /\ t # 0 /\ SpawnHandler(s) /\ t = spawned[s] + 1
              /\ Taken(s, 0) /\ Held(s, t)' = Held(s, 0)
<1>0. /\ mainPc \in [Servers -> MainPcs] /\ None \notin Servers
      /\ mainPc[s] \in {"read", "spawn"} => dummyFd[s] \in Servers
      /\ spawned[s] \in 0 .. MaxThreads /\ MaxThreads \in Nat
  BY ProtocolAssumption DEF IInv, TypeOK, ServerTypeOK, Ready, MainReady
<1>1. CASE t = 0
  <2>1. mainPc'[s] = "spawn" /\ Held(s, t)' = request'[s] /\ Steady(s)'
    BY <1>1 DEF Taken, Holds, Held
  <2>2. CASE mainPc'[s] = mainPc[s] /\ UNCHANGED <<requestFd[s], dummyFd[s], request[s], spawned[s]>>
    BY <1>1, <2>1, <2>2 DEF Taken, Holds, Held, Steady
  <2>3. CASE ReadRequest(s)
    BY <1>1, <2>1, <2>3 DEF ReadRequest, Steady
  <2>4. CASE MakeRequestFifo(s) \/ OpenRequestFifo(s) \/ OpenDummy(s) \/ SpawnHandler(s)
    BY <1>0, <2>1, <2>4 DEF MakeRequestFifo, OpenRequestFifo, OpenDummy, SpawnHandler
  <2>. QED
    BY <2>1, <2>2, <2>3, <2>4, MainChange
<1>2. CASE t # 0
  <2>0. t \in Threads
    BY <1>0, <1>2 DEF Slots, Threads
  <2>1. handlerPc'[s][t] # "none" /\ Held(s, t)' = Work(s, t)' /\ Steady(s)'
    BY <1>2 DEF Taken, Holds, Held
  <2>2. CASE handlerPc[s][t] # "none" /\ Work(s, t)' = Work(s, t)
    <3>1. spawned[s] # 0
      <4>1. ~(t > 0) => FALSE
        BY <1>0, <1>2, <2>0 DEF Threads
      <4>. QED
        BY <2>0, <2>2, <4>1 DEF Fresh
    <3>2. dummyFd[s] # None
      BY <3>1 DEF MainHolds
    <3>3. mainPc[s] \notin {"start", "mkfifo", "openRead", "openDummy"}
      BY <3>2 DEF MainHolds
    <3>4. UNCHANGED <<requestFd[s], dummyFd[s]>>
      BY <1>0, <3>3, MainChange
         DEF MakeRequestFifo, OpenRequestFifo, OpenDummy, ReadRequest, SpawnHandler
    <3>. QED
      BY <1>2, <2>1, <2>2, <3>4 DEF Taken, Holds, Held, Steady
  <2>3. CASE SpawnHandler(s) /\ t = spawned[s] + 1 /\ Work(s, t)' = request[s]
    BY <1>2, <2>1, <2>3 DEF SpawnHandler, Taken, Holds, Held, Steady
  <2>. QED
    BY <2>0, <2>1, <2>2, <2>3, WorkStays
<1>. QED
  BY <1>1, <1>2

\* What a client has written stays as it is.
LEMMA RealStays ==
    ASSUME IInv, [Next]_vars, NEW r, Real(r)
    PROVE  Real(r)'
<1>. DEFINE c == r.from
<1>0. /\ c \in Clients /\ r = RequestOf(c)
      /\ clientPc[c] \notin {"start", "openRequest", "write"}
      /\ clientPc \in [Clients -> ClientPcs] /\ numTickets \in [Clients -> Counts \cup {None}]
  BY DEF Real, IInv, TypeOK, ClientTypeOK
<1>1. numTickets'[c] = numTickets[c]
      /\ clientPc'[c] \notin {"start", "openRequest", "write"}
  <2>1. CASE UNCHANGED clientVars
    BY <1>0, <2>1 DEF clientVars
  <2>2. ASSUME NEW d \in Clients, ClientNext(d)
        PROVE  numTickets'[c] = numTickets[c]
               /\ clientPc'[c] \notin {"start", "openRequest", "write"}
    <3>1. clientPc'[c] \notin {"start", "openRequest", "write"}
      <4>1. CASE d # c
        BY <1>0, <2>2, <4>1, OtherClients
      <4>2. CASE d = c
        BY <1>0, <2>2, <4>2
           DEF ClientNext, StartClient, ClientStep, ClientInterrupt, OpenRequest,
               NoServer, WriteRequest, ClientBrokenPipe, CloseRequest, OpenOwnFifo,
               ReadResponse, FinishClient, CreateResponseFifo, FindStaleFifo,
               ClientExit, Killed, ClientGoto
      <4>. QED
        BY <4>1, <4>2
    <3>2. numTickets'[c] = numTickets[c]
      <4>1. CASE UNCHANGED numTickets
        BY <4>1
      <4>2. ASSUME NEW n \in Counts, CreateResponseFifo(d, n)
            PROVE  numTickets'[c] = numTickets[c]
        BY <1>0, <4>2 DEF CreateResponseFifo
      <4>. QED
        BY <2>2, <4>1, <4>2
           DEF ClientNext, StartClient, ClientStep, ClientInterrupt, OpenRequest,
               NoServer, WriteRequest, ClientBrokenPipe, CloseRequest, OpenOwnFifo,
               ReadResponse, FinishClient, FindStaleFifo, Killed
    <3>. QED
      BY <3>1, <3>2
  <2>. QED
    BY <2>1, <2>2 DEF Next, ServerNext, vars, clientVars
<1>. QED
  BY <1>0, <1>1 DEF Real, RequestOf

\* A steady server never meets the end of file: it takes the head of the queue.
LEMMA SteadyRead ==
    ASSUME IInv, MainHolds, NEW s \in Servers, ReadRequest(s), Steady(s)
    PROVE  /\ requestFd[s] \in Servers /\ Queued[requestFd[s]] # << >>
           /\ request'[s] = Head(Queued[requestFd[s]])
           /\ Queued' = Shorter(Queued, requestFd[s])
<1>. DEFINE f == requestFd[s]
<1>0. /\ f \in Servers /\ dummyFd[s] = f /\ process[s] # "gone" /\ mainPc[s] = "read"
      /\ requestFifo[f] \in Fifos(Ends, Requests) /\ request \in [Servers -> MaybeRequest]
      /\ requestFifo \in [Servers -> Fifos(Ends, Requests)]
  BY DEF ReadRequest, Alive, Steady, IInv, TypeOK, FifoTypeOK, ServerTypeOK, Ready, MainReady
<1>1. MainEnd(s) \in requestFifo[f].writers
  BY <1>0 DEF MainHolds
<1>2. ~AtEOF(requestFifo[f])
  BY <1>1 DEF AtEOF
<1>3. /\ HasData(requestFifo[f])
      /\ request'[s] = Head(requestFifo[f].data)
      /\ requestFifo' = [requestFifo EXCEPT ![f] = Drop(@)]
  BY <1>0, <1>2 DEF ReadRequest
<1>4. requestFifo'[f].data = Tail(requestFifo[f].data)
  BY <1>0, <1>3, DropType
<1>5. \A g \in Servers : g # f => requestFifo'[g] = requestFifo[g]
  BY <1>0, <1>3
<1>6. Queued' = Shorter(Queued, f)
  BY <1>0, <1>4, <1>5 DEF Queued, Shorter
<1>. QED
  BY <1>0, <1>3, <1>6 DEF HasData, Queued

\* A request is in a queue only if it was there or is being written.
LEMMA FromShrinks ==
    ASSUME IInv, [Next]_vars, NEW r, Real(r), From(Queued, r.from)'
    PROVE  From(Queued, r.from)
<1>. DEFINE c == r.from
<1>0. Queued \in Queues /\ Queued' \in Queues
  <2>1. IInv'
    BY NextInv
  <2>. QED
    BY <2>1, QueuedType DEF IInv, TypeOK, FifoTypeOK, Queues, Queued, Fifos
<1>1. From(Queued', c)
  BY DEF From
<1>2. CASE Inherits(Queued, Queued')
  BY <1>0, <1>1, <1>2, InheritsOnce
<1>3. ASSUME NEW d \in Clients, WriteRequest(d), requestEnd[d] \in Servers,
             RequestOf(d) \in Requests,
             Queued' = Longer(Queued, requestEnd[d], RequestOf(d))
      PROVE  From(Queued, c)
  <2>1. From(Queued, c) \/ c = RequestOf(d).from
    BY <1>0, <1>1, <1>3, WriteQueue
  <2>2. c # d
    BY <1>3 DEF Real, WriteRequest
  <2>. QED
    BY <2>1, <2>2 DEF RequestOf
<1>4. ASSUME NEW s \in Servers, requestFd[s] \in Servers, Queued[requestFd[s]] # << >>,
             Queued' = Shorter(Queued, requestFd[s])
      PROVE  From(Queued, c)
  BY <1>0, <1>1, <1>4, ReadQueue, InheritsOnce
<1>. QED
  BY <1>2, <1>3, <1>4, QueueChange

\* The requests in the queues are real and stay different.
LEMMA QueueInv ==
    ASSUME IInv, [Next]_vars, QueuedReal, Once(Queued)
    PROVE  QueuedReal' /\ Once(Queued)'
<1>. DEFINE D == Queued
            E == Queued'
<1>0. D \in Queues /\ E \in Queues
  <2>1. IInv'
    BY NextInv
  <2>. QED
    BY <2>1, QueuedType DEF IInv, TypeOK, FifoTypeOK, Queues, Queued, Fifos
<1>q. ASSUME \A f \in Servers : \A i \in 1 .. Len(E[f]) :
                \/ \E x : x = E[f][i] /\ Real(x)
                \/ \E c \in Clients : WriteRequest(c) /\ E[f][i] = RequestOf(c)
      PROVE  QueuedReal'
  <2>1. ASSUME NEW f \in Servers, NEW i \in 1 .. Len(E[f])
        PROVE  Real(Queued[f][i])'
    <3>1. ASSUME NEW x, x = E[f][i], Real(x) PROVE Real(Queued[f][i])'
      <4>1. Real(x)'
        BY <3>1, RealStays
      <4>. QED
        BY <3>1, <4>1 DEF Real, RequestOf
    <3>2. ASSUME NEW c \in Clients, WriteRequest(c), E[f][i] = RequestOf(c)
          PROVE  Real(Queued[f][i])'
      BY <3>2 DEF WriteRequest, ClientGoto, Real, RequestOf, IInv, TypeOK, ClientTypeOK
    <3>. QED
      BY <1>q, <3>1, <3>2
  <2>. QED
    BY <2>1 DEF QueuedReal
<1>1. ASSUME Inherits(D, E)
      PROVE  QueuedReal' /\ Once(E)
  <2>1. ASSUME NEW f \in Servers, NEW i \in 1 .. Len(E[f])
        PROVE  \E x : x = E[f][i] /\ Real(x)
    <3>1. PICK k \in {0, 1} : i + k \in 1 .. Len(D[f]) /\ E[f][i] = D[f][i + k]
      BY <1>1 DEF Inherits
    <3>2. Real(D[f][i + k])
      BY <3>1 DEF QueuedReal
    <3>. QED
      BY <3>1, <3>2
  <2>2. Once(E)
    BY <1>0, <1>1, InheritsOnce
  <2>. QED
    BY <1>q, <2>1, <2>2
<1>2. ASSUME NEW c \in Clients, WriteRequest(c), requestEnd[c] \in Servers,
             RequestOf(c) \in Requests, E = Longer(D, requestEnd[c], RequestOf(c))
      PROVE  QueuedReal' /\ Once(E)
  <2>1. ~From(D, RequestOf(c).from)
    BY <1>2 DEF From, QueuedReal, Real, WriteRequest, RequestOf
  <2>2. Once(E)
    BY <1>0, <1>2, <2>1, WriteQueue
  <2>3. ASSUME NEW f \in Servers, NEW i \in 1 .. Len(E[f])
        PROVE  (\E x : x = E[f][i] /\ Real(x)) \/ E[f][i] = RequestOf(c)
    <3>1. (i \in 1 .. Len(D[f]) /\ E[f][i] = D[f][i]) \/ E[f][i] = RequestOf(c)
      BY <1>0, <1>2, WriteQueue
    <3>2. ASSUME i \in 1 .. Len(D[f]) PROVE Real(D[f][i])
      BY <3>2 DEF QueuedReal
    <3>. QED
      BY <3>1, <3>2
  <2>. QED
    BY <1>2, <1>q, <2>2, <2>3
<1>3. ASSUME NEW s \in Servers, requestFd[s] \in Servers, D[requestFd[s]] # << >>,
             E = Shorter(D, requestFd[s])
      PROVE  QueuedReal' /\ Once(E)
  BY <1>0, <1>1, <1>3, ReadQueue
<1>4. Once(E) => Once(Queued)'
  BY DEF Once
<1>. QED
  BY <1>1, <1>2, <1>3, <1>4, QueueChange

\* What a steady server holds is real and in no queue any more.
LEMMA TakenRealInv ==
    ASSUME IInv, Fresh, MainHolds, [Next]_vars, RInv
    PROVE  TakenReal'
<1> SUFFICES ASSUME NEW s \in Servers, NEW t \in Slots, Taken(s, t)'
             PROVE  (Real(Held(s, t)) /\ ~From(Queued, Held(s, t).from))'
  BY DEF TakenReal
<1>. DEFINE Good(x) == Real(x)' /\ ~From(Queued, x.from)'
<1>0. ASSUME NEW x, x = Held(s, t)', Good(x)
      PROVE  (Real(Held(s, t)) /\ ~From(Queued, Held(s, t).from))'
  BY <1>0 DEF Real, RequestOf, From
<1>1. ASSUME NEW v \in Slots, Taken(s, v)
      PROVE  \E x : x = Held(s, v) /\ Good(x)
  <2>1. PICK x : x = Held(s, v)
    OBVIOUS
  <2>2. Real(x) /\ ~From(Queued, x.from)
    BY <1>1, <2>1 DEF RInv, TakenReal
  <2>3. Real(x)'
    BY <2>2, RealStays
  <2>4. ~From(Queued, x.from)'
    BY <2>2, FromShrinks
  <2>. QED
    BY <2>1, <2>3, <2>4
<1>2. CASE Taken(s, t) /\ Held(s, t)' = Held(s, t)
  BY <1>0, <1>1, <1>2
<1>3. CASE t = 0 /\ ReadRequest(s) /\ Steady(s) /\ Held(s, t)' = request'[s]
  <2>. DEFINE f == requestFd[s]
              x == Head(Queued[f])
  <2>1. /\ f \in Servers /\ Queued[f] # << >> /\ request'[s] = x
        /\ Queued' = Shorter(Queued, f)
    BY <1>3, SteadyRead
  <2>2. Queued \in Queues
    BY QueuedType DEF IInv, TypeOK
  <2>3. ~From(Queued', x.from) /\ Real(x)
    <3>1. Queued[f] \in Seq(Requests) /\ x = Queued[f][1] /\ 1 \in 1 .. Len(Queued[f])
      BY <2>1, <2>2, HeadTailProperties, EmptySeq, LenProperties DEF Queues
    <3>2. Real(x)
      BY <2>1, <3>1 DEF RInv, QueuedReal
    <3>3. ~From(Queued', x.from)
      BY <2>1, <2>2, ReadQueue DEF RInv
    <3>. QED
      BY <3>2, <3>3
  <2>4. PICK y : y = x
    OBVIOUS
  <2>5. Real(y)' /\ ~From(Queued, y.from)'
    BY <2>3, <2>4, RealStays DEF From
  <2>. QED
    BY <1>0, <1>3, <2>1, <2>4, <2>5
<1>4. CASE Taken(s, 0) /\ Held(s, t)' = Held(s, 0)
  <2>1. 0 \in Slots
    BY ProtocolAssumption DEF Slots
  <2>. QED
    BY <1>0, <1>1, <1>4, <2>1
<1>. QED
  BY <1>2, <1>3, <1>4, SlotChange

\* No request is held twice.
LEMMA TakenOnceInv ==
    ASSUME IInv, Fresh, MainHolds, [Next]_vars, RInv
    PROVE  TakenOnce'
<1>0. 0 \in Slots
  BY ProtocolAssumption DEF Slots
<1>. DEFINE Old(s, t, k) == k \in Slots /\ Taken(s, k) /\ Held(s, t)' = Held(s, k)
                            /\ (k = t \/ (k = 0 /\ SpawnHandler(s) /\ t = spawned[s] + 1))
            New(s, t) == t = 0 /\ ReadRequest(s) /\ Steady(s) /\ Held(s, t)' = request'[s]
<1>1. ASSUME NEW s \in Servers, NEW t \in Slots, Taken(s, t)'
      PROVE  New(s, t) \/ \E k : Old(s, t, k)
  <2>1. CASE Taken(s, t) /\ Held(s, t)' = Held(s, t)
    <3>1. Old(s, t, t)
      BY <2>1
    <3>. QED
      BY <3>1
  <2>2. CASE SpawnHandler(s) /\ t = spawned[s] + 1 /\ Taken(s, 0) /\ Held(s, t)' = Held(s, 0)
    <3>1. Old(s, t, 0)
      BY <1>0, <2>2
    <3>. QED
      BY <3>1
  <2>. QED
    BY <1>1, <2>1, <2>2, SlotChange
<1>2. ASSUME NEW s \in Servers, NEW t \in Slots, NEW k, Old(s, t, k),
             NEW u \in Servers, NEW v \in Slots, NEW l, Old(u, v, l),
             Held(s, t)'.from = Held(u, v)'.from
      PROVE  s = u /\ k = l
  BY <1>2 DEF RInv, TakenOnce
<1>3. ASSUME NEW s \in Servers, NEW t \in Slots, NEW k, Old(s, t, k),
             NEW u \in Servers, NEW v \in Slots, New(u, v)
      PROVE  Held(s, t)'.from # Held(u, v)'.from
  <2>1. ~From(Queued, Held(s, k).from)
    BY <1>3 DEF RInv, TakenReal
  <2>2. requestFd[u] \in Servers /\ Queued[requestFd[u]] # << >>
        /\ Held(u, v)' = Head(Queued[requestFd[u]])
    BY <1>3, SteadyRead
  <2>3. From(Queued, Held(u, v)'.from)
    <3>1. Queued \in Queues
      BY QueuedType DEF IInv, TypeOK
    <3>. QED
      BY <2>2, <3>1, ReadQueue
  <2>. QED
    BY <1>3, <2>1, <2>3
<1>4. ASSUME NEW s \in Servers, ReadRequest(s), NEW u \in Servers, ReadRequest(u)
      PROVE  s = u
  BY <1>4 DEF ReadRequest, IInv, TypeOK, ServerTypeOK
<1>5. ASSUME NEW s \in Servers, NEW t \in Slots, Old(s, t, 0), NEW v \in Slots,
             Taken(s, t)', Taken(s, v)', Old(s, v, 0)
      PROVE  t = v
  <2>1. CASE SpawnHandler(s)
    <3>1. mainPc'[s] # "spawn"
      BY <2>1 DEF SpawnHandler, IInv, TypeOK, ServerTypeOK
    <3>2. t # 0 /\ v # 0
      BY <1>5, <3>1 DEF Taken, Holds
    <3>. QED
      BY <1>5, <3>2
  <2>2. CASE ~SpawnHandler(s)
    BY <1>5, <2>2
  <2>. QED
    BY <2>1, <2>2
<1> SUFFICES ASSUME NEW s \in Servers, NEW t \in Slots, Taken(s, t)',
                    NEW u \in Servers, NEW v \in Slots, Taken(u, v)',
                    Held(s, t)'.from = Held(u, v)'.from
             PROVE  s = u /\ t = v
  BY DEF TakenOnce
<1>. HIDE DEF New, Old
<1>6. CASE New(s, t) /\ New(u, v)
  BY <1>4, <1>6 DEF New
<1>7. CASE ~New(s, t) /\ ~New(u, v)
  <2>1. PICK k : Old(s, t, k)
    BY <1>1, <1>7
  <2>2. PICK l : Old(u, v, l)
    BY <1>1, <1>7
  <2>3. s = u /\ k = l
    BY <1>2, <2>1, <2>2
  <2>4. CASE k = 0
    BY <1>5, <2>1, <2>2, <2>3, <2>4
  <2>5. CASE k # 0
    BY <2>1, <2>2, <2>3, <2>5 DEF Old
  <2>. QED
    BY <2>3, <2>4, <2>5
<1>. QED
  BY <1>1, <1>3, <1>6, <1>7

\* Every request is in one place: in a queue, with a main thread or with a
\* handler.
LEMMA RequestsInOnePlace == Spec => [](MainHolds /\ RInv)
<1>1. Init => RInv
  <2> SUFFICES ASSUME Init PROVE RInv
    OBVIOUS
  <2>1. \A f \in Servers : Queued[f] = << >>
    BY DEF Init, FifoInit, NewFifo, Queued
  <2>2. 1 .. Len(<< >>) = {}
    OBVIOUS
  <2>3. \A s \in Servers, t \in Slots : ~Taken(s, t)
    BY DEF Init, ServerInit, Taken, Holds, Slots, Threads
  <2>. QED
    BY <2>1, <2>2, <2>3 DEF RInv, QueuedReal, Once, TakenReal, TakenOnce
<1>2. IInv /\ Fresh /\ MainHolds /\ RInv /\ [Next]_vars => RInv'
  BY QueueInv, TakenRealInv, TakenOnceInv DEF RInv
<1>3. UNCHANGED vars => [Next]_vars
  OBVIOUS
<1>. QED
  BY <1>1, <1>2, ServiceInvariant, FreshHandlers, DummyHolds, PTL DEF Spec

\* The handlers of a server work on requests that clients have written, each on
\* another one (multithreaFfifoserver.c, lines 156-193).
THEOREM RequestsHandledOnce == Spec => []OneHandlerPerRequest
<1>1. RInv => OneHandlerPerRequest
  <2> SUFFICES ASSUME RInv, NEW s \in Servers, dummyFd[s] = requestFd[s],
                      NEW t \in Started(s)
               PROVE  /\ Work(s, t).from # None
                      /\ \A u \in Started(s) \ {t} : Work(s, u).from # Work(s, t).from
    BY DEF OneHandlerPerRequest
  <2>1. \A u \in Started(s) : u \in Slots /\ Taken(s, u) /\ Held(s, u) = Work(s, u)
    BY ProtocolAssumption DEF Started, Taken, Holds, Held, Steady, Threads, Slots
  <2>2. Work(s, t).from \in Clients
    BY <2>1 DEF RInv, TakenReal, Real
  <2>. QED
    BY <2>1, <2>2, ProtocolAssumption DEF RInv, TakenOnce
<1>. QED
  BY <1>1, RequestsInOnePlace, PTL

-----------------------------------------------------------------------------
(* The ends of the response FIFOs *)

\* A step that leaves the handlers that have opened a response FIFO alone.
HandlersKeep ==
    \A s \in Servers, t \in Threads : Opening(s, t) \/ Opening(s, t)' =>
        UNCHANGED <<handlerPc[s][t], responseFd[s][t], job[s][t], response[s][t]>>

\* A step of client c far from its response.
Before(c) ==
    /\ clientPc[c] \notin {"read", "finish", "done", "dead"}
    /\ \E l \in {"openRequest", "write", "closeRequest", "openResponse"} : ClientGoto(c, l)
    /\ UNCHANGED <<responseFifo, got, serverVars>>

\* The end of a server and of a client.
ServerOver(s) ==
    CloseAll(s) /\ process' = [process EXCEPT ![s] = "gone"]
    /\ UNCHANGED <<handlerVars, clientVars>>
ClientOver(c) ==
    /\ CloseAll(c) /\ clientPc[c] \notin {"done", "dead"}
    /\ ClientGoto(c, "done") \/ ClientGoto(c, "dead")
    /\ UNCHANGED <<serverVars, got>>

\* The steps, by what they do to the response FIFOs and to their handlers.
LEMMA ResponseSteps ==
    ASSUME IInv, Fresh, [Next]_vars
    PROVE  \/ UNCHANGED <<responseFifo, clientPc, got>> /\ HandlersKeep
           \/ \E c \in Clients : Before(c)
           \/ \E s \in Servers : ServerOver(s)
           \/ \E c \in Clients : ClientOver(c)
           \/ \E s \in Servers, t \in Threads :
                 /\ OpenResponse(s, t) \/ WriteResponse(s, t) \/ FinishHandler(s, t)
                 /\ UNCHANGED clientVars
           \/ \E c \in Clients : UNCHANGED serverVars /\ (OpenOwnFifo(c) \/ ReadResponse(c))
<1>0. /\ handlerPc \in [Servers -> [Threads -> HandlerPcs]]
      /\ responseFd \in [Servers -> [Threads -> Clients \cup {None}]]
      /\ job \in [Servers -> [Threads -> MaybeRequest]]
      /\ response \in [Servers -> [Threads -> MaybeResponse]]
  BY DEF IInv, TypeOK, ServerTypeOK
<1>1. CASE UNCHANGED <<handlerVars, responseFifo, clientVars>>
  BY <1>1 DEF HandlersKeep, handlerVars, clientVars
<1>2. ASSUME NEW s \in Servers, SpawnHandler(s), UNCHANGED clientVars
      PROVE  UNCHANGED <<responseFifo, clientPc, got>> /\ HandlersKeep
  <2>1. \A t \in Threads : t = spawned[s] + 1 => handlerPc[s][t] = "none"
    BY DEF Fresh, IInv, TypeOK, ServerTypeOK, Threads
  <2>2. ASSUME NEW u \in Servers, NEW t \in Threads, Opening(u, t) \/ Opening(u, t)'
        PROVE  UNCHANGED <<handlerPc[u][t], responseFd[u][t], job[u][t], response[u][t]>>
    BY <1>0, <1>2, <2>1, <2>2 DEF SpawnHandler, Opening
  <2>. QED
    BY <1>2, <2>2 DEF SpawnHandler, HandlersKeep, fifoVars, clientVars
<1>3. ASSUME NEW s \in Servers, NEW t \in Threads, UNCHANGED clientVars,
             CopyRequest(s, t) \/ Lock(s, t) \/ TakeTickets(s, t) \/ AdvanceCounter(s, t)
             \/ Unlock(s, t) \/ HandlerFails(s, t)
      PROVE  UNCHANGED <<responseFifo, clientPc, got>> /\ HandlersKeep
  <2>1. UNCHANGED <<responseFifo, responseFd>>
    BY <1>3 DEF CopyRequest, Lock, TakeTickets, AdvanceCounter, Unlock, HandlerFails, fifoVars
  <2>2. ~Opening(s, t) /\ ~Opening(s, t)'
    BY <1>0, <1>3 DEF CopyRequest, Lock, TakeTickets, AdvanceCounter, Unlock,
       HandlerFails, Opening, At, Goto
  <2>3. ASSUME NEW u \in Servers, NEW v \in Threads, ~(u = s /\ v = t)
        PROVE  UNCHANGED <<handlerPc[u][v], responseFd[u][v], job[u][v], response[u][v]>>
    BY <1>3, <2>3, HandlerFrame DEF HandlerStep
  <2>. QED
    BY <1>3, <2>1, <2>2, <2>3 DEF HandlersKeep, clientVars
<1>4. ASSUME NEW s \in Servers, Die(s), UNCHANGED clientVars PROVE ServerOver(s)
  BY <1>4 DEF Die, ServerOver
<1>5. ASSUME NEW s \in Servers, NEW t \in Threads, BrokenPipe(s, t), UNCHANGED clientVars
      PROVE  ServerOver(s)
  BY <1>5 DEF BrokenPipe, ServerOver
<1>6. ASSUME NEW s \in Servers, Start(s) \/ MainStep(s) \/ Interrupt(s), ~SpawnHandler(s)
      PROVE  UNCHANGED <<handlerVars, responseFifo>>
  BY <1>6 DEF Start, MainStep, MakeRequestFifo, OpenRequestFifo, OpenDummy, MainFails,
     ReadRequest, Interrupt, MainExit, fifoVars
<1>7. ASSUME NEW c \in Clients, UNCHANGED serverVars,
             FindStaleFifo(c) \/ NoServer(c) \/ FinishClient(c)
             \/ ClientBrokenPipe(c) \/ ClientInterrupt(c)
      PROVE  ClientOver(c)
  BY <1>7 DEF FindStaleFifo, NoServer, FinishClient, ClientBrokenPipe, ClientInterrupt,
     ClientExit, Killed, ClientOver, Ended
<1>8. ASSUME NEW c \in Clients, UNCHANGED serverVars,
             (\E n \in Counts : CreateResponseFifo(c, n)) \/ OpenRequest(c)
             \/ WriteRequest(c) \/ CloseRequest(c)
      PROVE  Before(c)
  BY <1>8 DEF CreateResponseFifo, OpenRequest, WriteRequest, CloseRequest, Before
<1>9. ASSUME NEW c \in Clients, ClientNext(c)
      PROVE  \/ Before(c) \/ ClientOver(c)
             \/ UNCHANGED serverVars /\ (OpenOwnFifo(c) \/ ReadResponse(c))
  BY <1>7, <1>8, <1>9 DEF ClientNext, StartClient, ClientStep
<1>. QED
  BY <1>1, <1>2, <1>3, <1>4, <1>5, <1>6, <1>9
     DEF Next, ServerNext, HandlerStep, vars, fifoVars, serverVars

\* The FIFOs behind the names of this module are FIFOs.
LEMMA ResponseFifos ==
    ASSUME IInv
    PROVE  /\ responseFifo \in [Clients -> Fifos(Ends, Responses)]
           /\ \A c \in Clients : responseFifo[c] \in Fifos(Ends, Responses)
           /\ \A s \in Servers, t \in Threads : Opening(s, t) => responseFd[s][t] \in Clients \cup {None}
           /\ \A s \in Servers, t \in Threads :
                 handlerPc[s][t] \in {"write", "close"} => responseFd[s][t] \in Clients
           /\ None \notin Clients
           /\ \A s \in Servers, t \in Threads, c \in Clients : <<s, t>> # ClientEnd(c) /\ s # c
BY ProtocolAssumption
   DEF IInv, TypeOK, FifoTypeOK, ServerTypeOK, Ready, HandlerReady, ClientEnd

\* What the five steps that use a response FIFO make of it.
LEMMA OpenResponseDef ==
    ASSUME IInv, NEW s \in Servers, NEW t \in Threads, OpenResponse(s, t)
    PROVE  /\ responseFd'[s][t] \in Clients
           /\ \A c \in Clients :
                 /\ responseFifo'[c].readers = responseFifo[c].readers
                 /\ responseFifo'[c].data = responseFifo[c].data
                 /\ c = responseFd'[s][t] =>
                       responseFifo'[c].writers = responseFifo[c].writers \cup {<<s, t>>}
                 /\ c # responseFd'[s][t] => responseFifo'[c] = responseFifo[c]
           /\ handlerPc[s][t] = "open" /\ handlerPc'[s][t] = "write"
           /\ job'[s][t] = job[s][t] /\ response'[s][t] = response[s][t]
           /\ responseFd'[s][t] = responsePath[job[s][t].clientId]
           /\ process' = process
<1>. DEFINE c == ResponsePathFor(s, t)
<1>1. c \in Clients
  BY DEF OpenResponse, ResponsePathFor, At, IInv, TypeOK, FifoTypeOK, Ready,
     HandlerReady, Requests
<1>2. responseFd'[s][t] = c /\ responseFifo' = [responseFifo EXCEPT ![c] = OpenForWriting(@, <<s, t>>)]
  BY DEF OpenResponse, IInv, TypeOK, ServerTypeOK
<1>3. responseFifo \in [Clients -> Fifos(Ends, Responses)] /\ responseFifo[c] \in Fifos(Ends, Responses)
  BY <1>1, ResponseFifos
<1>4. responseFifo'[c] = OpenForWriting(responseFifo[c], <<s, t>>)
      /\ \A d \in Clients : d # c => responseFifo'[d] = responseFifo[d]
  BY <1>1, <1>2, <1>3
<1>5. /\ handlerPc[s][t] = "open" /\ handlerPc'[s][t] = "write"
      /\ job'[s][t] = job[s][t] /\ response'[s][t] = response[s][t] /\ process' = process
  BY DEF OpenResponse, At, Goto, IInv, TypeOK, ServerTypeOK, mainVars
<1>6. /\ responseFifo'[c].readers = responseFifo[c].readers
      /\ responseFifo'[c].writers = responseFifo[c].writers \cup {<<s, t>>}
      /\ responseFifo'[c].data = responseFifo[c].data
  BY <1>3, <1>4, OpenForWritingFields
<1>7. responseFd'[s][t] = responsePath[job[s][t].clientId]
  BY <1>2 DEF ResponsePathFor
<1>. HIDE DEF c
<1>. QED
  BY <1>1, <1>2, <1>4, <1>5, <1>6, <1>7

LEMMA WriteResponseDef ==
    ASSUME IInv, NEW s \in Servers, NEW t \in Threads, WriteResponse(s, t)
    PROVE  /\ responseFd[s][t] \in Clients /\ responseFd'[s][t] = responseFd[s][t]
           /\ responseFifo[responseFd[s][t]].readers # {}
           /\ \A c \in Clients :
                 /\ responseFifo'[c].readers = responseFifo[c].readers
                 /\ responseFifo'[c].writers = responseFifo[c].writers
                 /\ responseFifo'[c].met = responseFifo[c].met
                 /\ c = responseFd[s][t] =>
                       responseFifo'[c].data = Append(responseFifo[c].data, response[s][t])
                 /\ c # responseFd[s][t] => responseFifo'[c] = responseFifo[c]
           /\ handlerPc[s][t] = "write" /\ handlerPc'[s][t] = "close"
           /\ job'[s][t] = job[s][t] /\ response'[s][t] = response[s][t]
           /\ response[s][t] \in Responses
           /\ process' = process
<1>. DEFINE c == responseFd[s][t]
<1>1. c \in Clients /\ handlerPc[s][t] = "write" /\ response[s][t] \in Responses
  BY DEF WriteResponse, At, IInv, Ready, HandlerReady
<1>2. responseFifo \in [Clients -> Fifos(Ends, Responses)] /\ responseFifo[c] \in Fifos(Ends, Responses)
  BY <1>1, ResponseFifos
<1>3. /\ responseFifo' = [responseFifo EXCEPT ![c] = Put(@, response[s][t])]
      /\ responseFifo[c].readers # {}
  BY DEF WriteResponse, Broken
<1>4. /\ handlerPc'[s][t] = "close"
      /\ job'[s][t] = job[s][t] /\ response'[s][t] = response[s][t]
      /\ responseFd'[s][t] = responseFd[s][t] /\ process' = process
  BY DEF WriteResponse, Goto, IInv, TypeOK, ServerTypeOK, mainVars
<1>5. responseFifo'[c] = Put(responseFifo[c], response[s][t])
      /\ \A d \in Clients : d # c => responseFifo'[d] = responseFifo[d]
  BY <1>1, <1>2, <1>3
<1>6. /\ responseFifo'[c].readers = responseFifo[c].readers
      /\ responseFifo'[c].writers = responseFifo[c].writers
      /\ responseFifo'[c].met = responseFifo[c].met
      /\ responseFifo'[c].data = Append(responseFifo[c].data, response[s][t])
  BY <1>2, <1>5, PutFields
<1>. QED
  BY <1>1, <1>3, <1>4, <1>5, <1>6

LEMMA FinishHandlerDef ==
    ASSUME IInv, NEW s \in Servers, NEW t \in Threads, FinishHandler(s, t)
    PROVE  /\ responseFd[s][t] \in Clients /\ responseFd'[s][t] = responseFd[s][t]
           /\ \A c \in Clients :
                 /\ responseFifo'[c].readers \in {responseFifo[c].readers,
                                               responseFifo[c].readers \ {<<s, t>>}}
                 /\ responseFifo'[c].writers \in {responseFifo[c].writers,
                                               responseFifo[c].writers \ {<<s, t>>}}
                 /\ responseFifo'[c].met \in {responseFifo[c].met,
                                           responseFifo[c].met \ {<<s, t>>}}
                 /\ responseFifo[c].readers \ {<<s, t>>} # {} =>
                       responseFifo'[c].data = responseFifo[c].data
                 /\ responseFifo'[c].data \in {responseFifo[c].data, << >>}
           /\ handlerPc[s][t] = "close" /\ handlerPc'[s][t] = "done"
           /\ job'[s][t] = job[s][t] /\ response'[s][t] = response[s][t]
           /\ process' = process
<1>. DEFINE c == responseFd[s][t]
<1>1. c \in Clients /\ handlerPc[s][t] = "close"
  BY DEF FinishHandler, At, IInv, Ready, HandlerReady
<1>2. responseFifo \in [Clients -> Fifos(Ends, Responses)] /\ responseFifo[c] \in Fifos(Ends, Responses)
  BY <1>1, ResponseFifos
<1>3. responseFifo' = [responseFifo EXCEPT ![c] = CloseEnds(@, {<<s, t>>})]
  BY DEF FinishHandler
<1>4. /\ handlerPc'[s][t] = "done"
      /\ job'[s][t] = job[s][t] /\ response'[s][t] = response[s][t]
      /\ responseFd'[s][t] = responseFd[s][t] /\ process' = process
  BY DEF FinishHandler, Goto, IInv, TypeOK, ServerTypeOK, mainVars
<1>5. responseFifo'[c] = CloseEnds(responseFifo[c], {<<s, t>>})
      /\ \A d \in Clients : d # c => responseFifo'[d] = responseFifo[d]
  BY <1>1, <1>2, <1>3
<1>6. /\ responseFifo'[c].readers = responseFifo[c].readers \ {<<s, t>>}
      /\ responseFifo'[c].writers = responseFifo[c].writers \ {<<s, t>>}
      /\ responseFifo'[c].met = responseFifo[c].met \ {<<s, t>>}
      /\ responseFifo[c].readers \ {<<s, t>>} # {} => responseFifo'[c].data = responseFifo[c].data
      /\ responseFifo'[c].data \in {responseFifo[c].data, << >>}
  BY <1>5, CloseFields
<1>. QED
  BY <1>1, <1>4, <1>5, <1>6

LEMMA OpenOwnFifoDef ==
    ASSUME IInv, NEW c \in Clients, OpenOwnFifo(c)
    PROVE  /\ responseFifo'[c].readers = responseFifo[c].readers \cup {ClientEnd(c)}
           /\ responseFifo'[c].writers = responseFifo[c].writers
           /\ responseFifo'[c].data = responseFifo[c].data
           /\ responseFifo[c].writers = {} => responseFifo'[c].met = responseFifo[c].met
           /\ \A d \in Clients : d # c => responseFifo'[d] = responseFifo[d]
           /\ \A d \in Clients : d # c => clientPc'[d] = clientPc[d]
           /\ clientPc[c] = "openResponse" /\ clientPc'[c] = "read" /\ got' = got
<1>1. responseFifo \in [Clients -> Fifos(Ends, Responses)] /\ responseFifo[c] \in Fifos(Ends, Responses)
  BY ResponseFifos
<1>2. responseFifo' = [responseFifo EXCEPT ![c] = OpenForReading(@, ClientEnd(c))]
  BY DEF OpenOwnFifo
<1>3. responseFifo'[c] = OpenForReading(responseFifo[c], ClientEnd(c))
      /\ \A d \in Clients : d # c => responseFifo'[d] = responseFifo[d]
  BY <1>1, <1>2
<1>4. /\ responseFifo'[c].readers = responseFifo[c].readers \cup {ClientEnd(c)}
      /\ responseFifo'[c].writers = responseFifo[c].writers
      /\ responseFifo'[c].data = responseFifo[c].data
      /\ responseFifo[c].writers = {} => responseFifo'[c].met = responseFifo[c].met
  BY <1>1, <1>3, OpenForReadingFields
<1>5. /\ \A d \in Clients : d # c => clientPc'[d] = clientPc[d]
      /\ clientPc[c] = "openResponse" /\ clientPc'[c] = "read" /\ got' = got
  BY DEF OpenOwnFifo, ClientGoto, IInv, TypeOK, ClientTypeOK
<1>. QED
  BY <1>3, <1>4, <1>5

LEMMA ReadResponseDef ==
    ASSUME IInv, NEW c \in Clients, ReadResponse(c)
    PROVE  /\ ClientEnd(c) \in responseFifo[c].met
           /\ \A d \in Clients :
                 /\ responseFifo'[d].readers = responseFifo[d].readers
                 /\ responseFifo'[d].writers = responseFifo[d].writers
                 /\ responseFifo'[d].met = responseFifo[d].met
                 /\ d # c => responseFifo'[d] = responseFifo[d] /\ got'[d] = got[d]
           /\ \/ HasData(responseFifo[c]) /\ got'[c] = Head(responseFifo[c].data)
              \/ AtEOF(responseFifo[c]) /\ got'[c] = Garbage
           /\ \A d \in Clients : d # c => clientPc'[d] = clientPc[d]
           /\ clientPc[c] = "read" /\ clientPc'[c] = "finish"
<1>1. responseFifo \in [Clients -> Fifos(Ends, Responses)] /\ responseFifo[c] \in Fifos(Ends, Responses)
  BY ResponseFifos
<1>2. /\ clientPc[c] = "read" /\ clientPc'[c] = "finish" /\ ClientEnd(c) \in responseFifo[c].met
      /\ \A d \in Clients : d # c => clientPc'[d] = clientPc[d]
  BY DEF ReadResponse, ClientGoto, IInv, TypeOK, ClientTypeOK, Opened
<1>3. got \in [Clients -> Responses \cup {Garbage, None}]
  BY DEF IInv, TypeOK, ClientTypeOK
<1>4. /\ \/ HasData(responseFifo[c]) /\ got'[c] = Head(responseFifo[c].data)
         \/ AtEOF(responseFifo[c]) /\ got'[c] = Garbage
      /\ responseFifo'[c] \in {responseFifo[c], Drop(responseFifo[c])}
      /\ \A d \in Clients : d # c => responseFifo'[d] = responseFifo[d] /\ got'[d] = got[d]
  BY <1>1, <1>3 DEF ReadResponse
<1>5. /\ responseFifo'[c].readers = responseFifo[c].readers
      /\ responseFifo'[c].writers = responseFifo[c].writers
      /\ responseFifo'[c].met = responseFifo[c].met
  BY <1>1, <1>4, DropFields
<1>. QED
  BY <1>2, <1>4, <1>5

\* A handler between its open and its close holds the FIFO open, as long as its
\* server lives.
LEMMA HandlerHoldsInv ==
    ASSUME IInv, Fresh, [Next]_vars, HandlerHolds
    PROVE  HandlerHolds'
<1> SUFFICES ASSUME NEW s \in Servers, NEW t \in Threads, process'[s] # "gone",
                    handlerPc'[s][t] \in {"write", "close"}
             PROVE  <<s, t>> \in responseFifo'[responseFd'[s][t]].writers
  BY DEF HandlerHolds
<1>. USE DEF Opening
<1>0. /\ process[s] # "gone"
      /\ \A c \in Clients : responseFifo[c] \in Fifos(Ends, Responses)
      /\ handlerPc[s][t] \in {"write", "close"} =>
            /\ <<s, t>> \in responseFifo[responseFd[s][t]].writers
            /\ responseFd[s][t] \in Clients
      /\ \A c \in Clients : <<s, t>> # ClientEnd(c) /\ s # c
      /\ <<s, t>> \in Ends
  BY ProcessMoves, ResponseFifos, EndsType DEF HandlerHolds
<1>1. CASE UNCHANGED <<responseFifo, clientPc, got>> /\ HandlersKeep
  BY <1>0, <1>1 DEF HandlersKeep
<1>2. ASSUME NEW c \in Clients, Before(c) PROVE <<s, t>> \in responseFifo'[responseFd'[s][t]].writers
  BY <1>0, <1>2 DEF Before, serverVars, handlerVars
<1>3. ASSUME NEW p, p # s, CloseAll(p), UNCHANGED handlerVars
      PROVE  <<s, t>> \in responseFifo'[responseFd'[s][t]].writers
  BY <1>0, <1>3 DEF CloseAll, CloseEnds, EndsOf, handlerVars
<1>4. ASSUME NEW u \in Servers, ServerOver(u)
      PROVE  <<s, t>> \in responseFifo'[responseFd'[s][t]].writers
  <2>1. u # s
    BY <1>4 DEF ServerOver, IInv, TypeOK, ServerTypeOK
  <2>. QED
    BY <1>3, <1>4, <2>1 DEF ServerOver
<1>5. ASSUME NEW c \in Clients, ClientOver(c)
      PROVE  <<s, t>> \in responseFifo'[responseFd'[s][t]].writers
  BY <1>0, <1>3, <1>5 DEF ClientOver, serverVars
<1>6. ASSUME NEW u \in Servers, NEW v \in Threads,
             OpenResponse(u, v) \/ WriteResponse(u, v) \/ FinishHandler(u, v)
      PROVE  <<s, t>> \in responseFifo'[responseFd'[s][t]].writers
  <2>0. ASSUME ~(u = s /\ v = t)
        PROVE  /\ handlerPc'[s][t] = handlerPc[s][t] /\ responseFd'[s][t] = responseFd[s][t]
               /\ <<s, t>> # <<u, v>>
    BY <1>6, <2>0, HandlerFrame DEF HandlerStep
  <2>1. CASE OpenResponse(u, v)
    BY <1>0, <2>0, <2>1, OpenResponseDef
  <2>2. CASE WriteResponse(u, v)
    BY <1>0, <2>0, <2>2, WriteResponseDef
  <2>3. CASE FinishHandler(u, v)
    BY <1>0, <2>0, <2>3, FinishHandlerDef
  <2>. QED
    BY <1>6, <2>1, <2>2, <2>3
<1>7. ASSUME NEW c \in Clients, UNCHANGED serverVars, OpenOwnFifo(c) \/ ReadResponse(c)
      PROVE  <<s, t>> \in responseFifo'[responseFd'[s][t]].writers
  <2>1. CASE OpenOwnFifo(c)
    BY <1>0, <1>7, <2>1, OpenOwnFifoDef DEF serverVars, handlerVars
  <2>2. CASE ReadResponse(c)
    BY <1>0, <1>7, <2>2, ReadResponseDef DEF serverVars, handlerVars
  <2>. QED
    BY <1>7, <2>1, <2>2
<1>. QED
  BY <1>1, <1>2, <1>4, <1>5, <1>6, <1>7, ResponseSteps

\* A client reads its own FIFO from its open to its end, and nobody else does.
LEMMA ClientHoldsInv ==
    ASSUME IInv, Fresh, [Next]_vars, ClientHolds
    PROVE  ClientHolds'
<1>. DEFINE Readers(d) == IF clientPc[d] \in {"read", "finish"} THEN {ClientEnd(d)} ELSE {}
<1> SUFFICES ASSUME NEW d \in Clients
             PROVE  responseFifo'[d].readers = Readers(d)'
  BY DEF ClientHolds
<1>0. /\ responseFifo[d].readers = Readers(d)
      /\ \A c \in Clients : responseFifo[c] \in Fifos(Ends, Responses)
      /\ clientPc \in [Clients -> ClientPcs]
      /\ \A s \in Servers, t \in Threads : <<s, t>> # ClientEnd(d)
      /\ \A s \in Servers : s # d
  BY ResponseFifos, ProtocolAssumption DEF ClientHolds, IInv, TypeOK, ClientTypeOK
<1>e. \A p : ClientEnd(d) \in EndsOf(p) <=> p = d
  BY EndsType DEF EndsOf, ClientEnd
<1>1. CASE UNCHANGED <<responseFifo, clientPc, got>>
  BY <1>0, <1>1
<1>2. ASSUME NEW c \in Clients, Before(c) PROVE responseFifo'[d].readers = Readers(d)'
  BY <1>0, <1>2 DEF Before, ClientGoto
<1>3. ASSUME NEW s \in Servers, ServerOver(s) PROVE responseFifo'[d].readers = Readers(d)'
  <2>1. responseFifo'[d].readers = responseFifo[d].readers \ EndsOf(s)
    BY <1>3 DEF ServerOver, CloseAll, CloseEnds
  <2>. QED
    BY <1>0, <1>e, <1>3, <2>1 DEF ServerOver, clientVars
<1>4. ASSUME NEW c \in Clients, ClientOver(c) PROVE responseFifo'[d].readers = Readers(d)'
  <2>1. responseFifo'[d].readers = responseFifo[d].readers \ EndsOf(c)
    BY <1>4 DEF ClientOver, CloseAll, CloseEnds
  <2>. QED
    BY <1>0, <1>e, <1>4, <2>1 DEF ClientOver, ClientGoto
<1>6. ASSUME NEW u \in Servers, NEW v \in Threads, UNCHANGED clientVars,
             OpenResponse(u, v) \/ WriteResponse(u, v) \/ FinishHandler(u, v)
      PROVE  responseFifo'[d].readers = Readers(d)'
  <2>1. responseFifo'[d].readers = responseFifo[d].readers
    <3>1. CASE OpenResponse(u, v)
      BY <1>0, <3>1, OpenResponseDef
    <3>2. CASE WriteResponse(u, v)
      BY <1>0, <3>2, WriteResponseDef
    <3>3. CASE FinishHandler(u, v)
      <4>1. <<u, v>> \notin responseFifo[d].readers
        BY <1>0
      <4>2. responseFifo[d].readers \ {<<u, v>>} = responseFifo[d].readers
        BY <4>1
      <4>3. responseFifo'[d].readers \in {responseFifo[d].readers,
                                         responseFifo[d].readers \ {<<u, v>>}}
        BY <3>3, FinishHandlerDef
      <4>. QED
        BY <4>2, <4>3
    <3>. QED
      BY <1>6, <3>1, <3>2, <3>3
  <2>. QED
    BY <1>0, <1>6, <2>1 DEF clientVars
<1>7. ASSUME NEW c \in Clients, OpenOwnFifo(c) \/ ReadResponse(c)
      PROVE  responseFifo'[d].readers = Readers(d)'
  <2>1. CASE OpenOwnFifo(c)
    BY <1>0, <2>1, OpenOwnFifoDef
  <2>2. CASE ReadResponse(c)
    BY <1>0, <2>2, ReadResponseDef
  <2>. QED
    BY <1>7, <2>1, <2>2
<1>. QED
  BY <1>1, <1>2, <1>3, <1>4, <1>6, <1>7, ResponseSteps

\* A handler that has opened a response FIFO keeps what it has.
LEMMA OpeningStays ==
    ASSUME IInv, Fresh, [Next]_vars, NEW s \in Servers, NEW t \in Threads
    PROVE  /\ Opening(s, t) => Opening(s, t)' /\
                 UNCHANGED <<responseFd[s][t], job[s][t], response[s][t]>>
           /\ Opening(s, t)' => Opening(s, t) \/ (OpenResponse(s, t) /\ UNCHANGED clientVars)
           /\ Writing(s, t) => Writing(s, t)'
           /\ Writing(s, t)' => Writing(s, t) \/ (WriteResponse(s, t) /\ UNCHANGED clientVars)
<1>. DEFINE Goal == /\ Opening(s, t) => Opening(s, t)' /\
                         UNCHANGED <<responseFd[s][t], job[s][t], response[s][t]>>
                    /\ Opening(s, t)' => Opening(s, t) \/ (OpenResponse(s, t) /\ UNCHANGED clientVars)
                    /\ Writing(s, t) => Writing(s, t)'
                    /\ Writing(s, t)' => Writing(s, t) \/ (WriteResponse(s, t) /\ UNCHANGED clientVars)
<1>. USE DEF Opening, Writing
<1>1. ASSUME HandlersKeep PROVE Goal
  BY <1>1 DEF HandlersKeep
<1>2. ASSUME UNCHANGED handlerVars PROVE Goal
  BY <1>2 DEF handlerVars
<1>3. ASSUME NEW u \in Servers, NEW v \in Threads, UNCHANGED clientVars,
             OpenResponse(u, v) \/ WriteResponse(u, v) \/ FinishHandler(u, v)
      PROVE  Goal
  <2>1. CASE u = s /\ v = t
    BY <1>3, <2>1, OpenResponseDef, WriteResponseDef, FinishHandlerDef
  <2>2. CASE ~(u = s /\ v = t)
    <3>1. UNCHANGED <<handlerPc[s][t], responseFd[s][t], job[s][t], response[s][t]>>
      BY <1>3, <2>2, HandlerFrame DEF HandlerStep
    <3>. QED
      BY <3>1
  <2>. QED
    BY <2>1, <2>2
<1>. QED
  BY <1>1, <1>2, <1>3, ResponseSteps DEF Before, ServerOver, ClientOver, serverVars

\* The FIFO of a client meets no writer but the handlers that open it.
LEMMA MetInv ==
    ASSUME IInv, Fresh, [Next]_vars, Met
    PROVE  Met'
<1> SUFFICES ASSUME NEW c \in Clients,
                    responseFifo'[c].writers # {} \/ ClientEnd(c) \in responseFifo'[c].met
             PROVE  \E s \in Servers, t \in Threads : (Opening(s, t) /\ responseFd[s][t] = c)'
  BY DEF Met, Opened
<1>. DEFINE Was == responseFifo[c].writers # {} \/ ClientEnd(c) \in responseFifo[c].met
<1>0. Was => \E s \in Servers, t \in Threads : (Opening(s, t) /\ responseFd[s][t] = c)'
  <2>1. Was => \E s \in Servers, t \in Threads : Opening(s, t) /\ responseFd[s][t] = c
    BY DEF Met, Opened
  <2>. QED
    BY <2>1, OpeningStays
<1>1. ASSUME NEW p, CloseAll(p) PROVE Was
  BY <1>1, CloseFields DEF CloseAll
<1>2. ASSUME NEW s \in Servers, NEW t \in Threads, OpenResponse(s, t),
             responseFd'[s][t] = c
      PROVE  \E u \in Servers, v \in Threads : (Opening(u, v) /\ responseFd[u][v] = c)'
  BY <1>2, OpenResponseDef DEF Opening
<1>3. ASSUME NEW s \in Servers, NEW t \in Threads, OpenResponse(s, t),
             responseFd'[s][t] # c
      PROVE  Was
  BY <1>3, OpenResponseDef
<1>4. ASSUME NEW s \in Servers, NEW t \in Threads, WriteResponse(s, t) \/ FinishHandler(s, t)
      PROVE  Was
  BY <1>4, WriteResponseDef, FinishHandlerDef
<1>5. ASSUME NEW d \in Clients, OpenOwnFifo(d) \/ ReadResponse(d) PROVE Was
  BY <1>5, OpenOwnFifoDef, ReadResponseDef
<1>6. CASE UNCHANGED responseFifo
  BY <1>0, <1>6
<1>. QED
  BY <1>0, <1>1, <1>2, <1>3, <1>4, <1>5, <1>6, ResponseSteps
     DEF Before, ServerOver, ClientOver

\* What a handler has written stays there until the client reads it.
LEMMA WrittenInv ==
    ASSUME IInv, Fresh, [Next]_vars, ClientHolds, Written
    PROVE  Written'
<1> SUFFICES ASSUME NEW s \in Servers, NEW t \in Threads, Writing(s, t)',
                    NEW c, c = responseFd'[s][t]
             PROVE  /\ c \in Clients
                    /\ clientPc'[c] \in {"read", "finish", "done", "dead"}
                    /\ clientPc'[c] = "read" => responseFifo'[c].data # << >>
  BY DEF Written, HasData
<1>1. CASE ~Writing(s, t)
  <2>1. WriteResponse(s, t) /\ UNCHANGED clientVars
    BY <1>1, OpeningStays
  <2>a. responseFd'[s][t] = responseFd[s][t] /\ responseFd[s][t] \in Clients
    BY <2>1, WriteResponseDef
  <2>b. c \in Clients /\ c = responseFd[s][t]
    BY <2>a
  <2>2. /\ c \in Clients /\ c = responseFd[s][t] /\ responseFifo[c].readers # {}
        /\ responseFifo'[c].data = Append(responseFifo[c].data, response[s][t])
    <3>1. responseFifo[responseFd[s][t]].readers # {}
      BY <2>1, WriteResponseDef
    <3>2. responseFifo'[responseFd[s][t]].data =
            Append(responseFifo[responseFd[s][t]].data, response[s][t])
      BY <2>a, <2>1, WriteResponseDef
    <3>. QED
      BY <2>b, <3>1, <3>2
  <2>3. clientPc[c] \in {"read", "finish"}
    BY <2>2 DEF ClientHolds
  <2>4. responseFifo[c].data \in Seq(Responses) /\ response[s][t] \in Responses
    BY <2>1, <2>2, ResponseFifos, WriteResponseDef DEF Fifos
  <2>5. Append(responseFifo[c].data, response[s][t]) # << >>
    BY <2>4, AppendProperties
  <2>. QED
    BY <2>1, <2>2, <2>3, <2>5 DEF clientVars
<1>2. CASE Writing(s, t)
  <2>1. c = responseFd[s][t]
    BY <1>2, OpeningStays DEF Opening, Writing
  <2>2. /\ c \in Clients /\ clientPc[c] \in {"read", "finish", "done", "dead"}
        /\ clientPc[c] = "read" => responseFifo[c].data # << >>
    BY <1>2, <2>1 DEF Written, HasData
  <2>. DEFINE Goal == /\ clientPc'[c] \in {"read", "finish", "done", "dead"}
                      /\ clientPc'[c] = "read" => responseFifo'[c].data # << >>
  <2>3. clientPc[c] = "read" => responseFifo[c].readers = {ClientEnd(c)}
    BY <2>2 DEF ClientHolds
  <2>4. CASE UNCHANGED <<responseFifo, clientPc, got>>
    BY <2>2, <2>4
  <2>5. ASSUME NEW d \in Clients, Before(d) PROVE Goal
    BY <2>2, <2>5 DEF Before, ClientGoto, IInv, TypeOK, ClientTypeOK
  <2>6. ASSUME NEW p, p # c, CloseAll(p), clientPc[c] = "read" PROVE responseFifo'[c].data # << >>
    <3>1. responseFifo'[c] = CloseEnds(responseFifo[c], EndsOf(p))
      BY <2>2, <2>6 DEF CloseAll
    <3>2. ClientEnd(c) \in responseFifo[c].readers \ EndsOf(p)
      BY <2>3, <2>6 DEF EndsOf, ClientEnd
    <3>. QED
      BY <2>2, <2>6, <3>1, <3>2, CloseFields
  <2>7. ASSUME NEW u \in Servers, ServerOver(u) PROVE Goal
    BY <2>2, <2>6, <2>7, ResponseFifos, ProtocolAssumption DEF ServerOver, clientVars
  <2>8. ASSUME NEW d \in Clients, ClientOver(d) PROVE Goal
    <3>1. CASE d = c
      BY <2>2, <2>8, <3>1 DEF ClientOver, ClientGoto, IInv, TypeOK, ClientTypeOK
    <3>2. CASE d # c
      <4>0. clientPc \in [Clients -> ClientPcs]
        BY DEF IInv, TypeOK, ClientTypeOK
      <4>a. \E l \in ClientPcs : clientPc' = [clientPc EXCEPT ![d] = l]
        BY <2>8 DEF ClientOver, ClientGoto, ClientPcs
      <4>1. clientPc'[c] = clientPc[c]
        BY <2>2, <3>2, <4>0, <4>a
      <4>. QED
        BY <2>2, <2>6, <2>8, <3>2, <4>1 DEF ClientOver
    <3>. QED
      BY <3>1, <3>2
  <2>9. ASSUME NEW u \in Servers, NEW v \in Threads, UNCHANGED clientVars,
               OpenResponse(u, v) \/ WriteResponse(u, v) \/ FinishHandler(u, v)
        PROVE  Goal
    <3>1. CASE OpenResponse(u, v)
      BY <2>2, <2>9, <3>1, OpenResponseDef DEF clientVars
    <3>2. CASE WriteResponse(u, v)
      <4>1. responseFifo[c].data \in Seq(Responses) /\ response[u][v] \in Responses
        BY <2>2, <3>2, ResponseFifos, WriteResponseDef DEF Fifos
      <4>2. Append(responseFifo[c].data, response[u][v]) # << >>
        BY <4>1, AppendProperties
      <4>. QED
        BY <2>2, <2>9, <3>2, <4>2, WriteResponseDef DEF clientVars
    <3>3. CASE FinishHandler(u, v)
      <4>1. <<u, v>> # ClientEnd(c)
        BY <2>2, ResponseFifos
      <4>2. clientPc[c] = "read" => responseFifo[c].readers \ {<<u, v>>} # {}
        BY <2>3, <4>1
      <4>3. clientPc[c] = "read" => responseFifo'[c].data = responseFifo[c].data
        BY <2>2, <3>3, <4>2, FinishHandlerDef
      <4>. QED
        BY <2>2, <2>9, <4>3 DEF clientVars
    <3>. QED
      BY <2>9, <3>1, <3>2, <3>3
  <2>10. ASSUME NEW d \in Clients, OpenOwnFifo(d) \/ ReadResponse(d) PROVE Goal
    BY <2>2, <2>10, OpenOwnFifoDef, ReadResponseDef
  <2>. QED
    BY <2>2, <2>4, <2>5, <2>7, <2>8, <2>9, <2>10, ResponseSteps
<1>. QED
  BY <1>1, <1>2

\* The end of file comes before the response only if a server has gone.
LEMMA GarbageInv ==
    ASSUME IInv, Fresh, [Next]_vars, HandlerHolds, Met, Written, GarbageExplained
    PROVE  GarbageExplained'
<1> SUFFICES ASSUME NEW c \in Clients, got'[c] = Garbage PROVE SomeServerGone'
  BY DEF GarbageExplained
<1>1. SomeServerGone => SomeServerGone'
  BY ProcessMoves DEF SomeServerGone
<1>2. CASE got'[c] = got[c]
  BY <1>1, <1>2 DEF GarbageExplained
<1>3. ASSUME ReadResponse(c), AtEOF(responseFifo[c]) PROVE SomeServerGone
  <2>1. /\ ClientEnd(c) \in responseFifo[c].met /\ clientPc[c] = "read"
        /\ responseFifo[c].data = << >> /\ responseFifo[c].writers = {}
    BY <1>3, ReadResponseDef DEF AtEOF
  <2>2. PICK s \in Servers, t \in Threads : Opening(s, t) /\ responseFd[s][t] = c
    BY <2>1 DEF Met, Opened
  <2>3. ~Writing(s, t)
    BY <2>1, <2>2 DEF Written, HasData
  <2>4. handlerPc[s][t] = "write"
    BY <2>2, <2>3 DEF Opening, Writing
  <2>5. process[s] = "gone"
    BY <2>1, <2>2, <2>4 DEF HandlerHolds
  <2>. QED
    BY <2>5 DEF SomeServerGone
<1>4. ASSUME NEW d \in Clients, ReadResponse(d), got'[c] # got[c]
      PROVE  d = c /\ AtEOF(responseFifo[c])
  <2>1. d = c
    BY <1>4, ReadResponseDef
  <2>2. ~HasData(responseFifo[c]) \/ got'[c] # Head(responseFifo[c].data)
    <3>1. ASSUME HasData(responseFifo[c]) PROVE Head(responseFifo[c].data) \in Responses
      BY <3>1, ResponseFifos, DropType
    <3>. QED
      BY <3>1, GarbageAssumption
  <2>. QED
    BY <1>4, <2>1, <2>2, ReadResponseDef
<1>. QED
  BY <1>1, <1>2, <1>3, <1>4, ResponseSteps, OpenOwnFifoDef
     DEF Before, ServerOver, ClientOver, clientVars

\* A handler and its response FIFO: open, written, met by its client.
Responding == HandlerHolds /\ ClientHolds /\ Met /\ Written /\ GarbageExplained

LEMMA RespondingInv == Spec => []Responding
<1>1. Init => Responding
  <2> SUFFICES ASSUME Init PROVE Responding
    OBVIOUS
  <2>1. \A s \in Servers, t \in Threads : handlerPc[s][t] = "none"
    BY DEF Init, ServerInit
  <2>2. \A c \in Clients : /\ clientPc[c] = "start" /\ got[c] = None
                           /\ responseFifo[c] = NewFifo
    BY DEF Init, ClientInit, FifoInit
  <2>3. HandlerHolds /\ Written
    BY <2>1 DEF HandlerHolds, Written, Writing
  <2>3a. \A c \in Clients : /\ responseFifo[c].readers = {} /\ responseFifo[c].writers = {}
                            /\ responseFifo[c].met = {}
    BY <2>2 DEF NewFifo
  <2>4. ClientHolds
    BY <2>2, <2>3a DEF ClientHolds
  <2>4a. Met
    BY <2>3a DEF Met, Opened
  <2>5. GarbageExplained
    BY <2>2, GarbageAssumption DEF GarbageExplained
  <2>. QED
    BY <2>3, <2>4, <2>4a, <2>5 DEF Responding
<1>2. IInv /\ Fresh /\ Responding /\ [Next]_vars => Responding'
  BY HandlerHoldsInv, ClientHoldsInv, MetInv, WrittenInv, GarbageInv DEF Responding
<1>. QED
  BY <1>1, <1>2, ServiceInvariant, FreshHandlers, PTL DEF Spec

\* The range of a response is as long as its request asks for.
LEMMA RangesInv == Spec => []Ranges
<1>1. Init => Ranges
  BY DEF Init, ServerInit, Ranges
<1>2. IInv /\ Ranges /\ [Next]_vars => Ranges'
  <2> SUFFICES ASSUME IInv, Ranges, [Next]_vars, NEW s \in Servers, NEW t \in Threads,
                      handlerPc'[s][t] \notin {"none", "copy", "lock", "first"}
               PROVE  response'[s][t].lastTicket =
                        Wrap(response'[s][t].firstTicket + job'[s][t].numTickets - 1)
    BY DEF Ranges
  <2>0. /\ handlerPc \in [Servers -> [Threads -> HandlerPcs]]
        /\ response \in [Servers -> [Threads -> MaybeResponse]]
        /\ handlerPc[s][t] \notin {"none", "copy", "lock", "first"} =>
              response[s][t].lastTicket =
                Wrap(response[s][t].firstTicket + job[s][t].numTickets - 1)
    BY DEF Ranges, IInv, TypeOK, ServerTypeOK
  <2>1. CASE UNCHANGED handlerVars
    BY <2>0, <2>1 DEF handlerVars
  <2>2. ASSUME NEW u \in Servers, SpawnHandler(u)
        PROVE  UNCHANGED <<handlerPc[s][t], response[s][t], job[s][t]>>
    BY <2>0, <2>2 DEF SpawnHandler
  <2>3. ASSUME NEW u \in Servers, NEW v \in Threads, HandlerStep(u, v), ~(u = s /\ v = t)
        PROVE  UNCHANGED <<handlerPc[s][t], response[s][t], job[s][t]>>
    BY <2>3, HandlerFrame
  <2>4. CASE HandlerStep(s, t)
    <3>1. CASE CopyRequest(s, t) \/ Lock(s, t)
      BY <2>0, <3>1 DEF CopyRequest, Lock, Goto
    <3>2. CASE TakeTickets(s, t)
      <4>1. response'[s][t] = Answer(s, t, nextTicket[s]) /\ job' = job
        BY <2>0, <3>2 DEF TakeTickets
      <4>. QED
        BY <4>1 DEF Answer
    <3>3. CASE ~(CopyRequest(s, t) \/ Lock(s, t) \/ TakeTickets(s, t))
      <4>1. /\ handlerPc[s][t] \notin {"none", "copy", "lock", "first"}
            /\ UNCHANGED <<job, response>>
        BY <2>4, <3>3
           DEF HandlerStep, AdvanceCounter, Unlock, OpenResponse, HandlerFails,
               WriteResponse, BrokenPipe, FinishHandler, At, handlerVars
      <4>. QED
        BY <2>0, <4>1
    <3>. QED
      BY <3>1, <3>2, <3>3
  <2>5. UNCHANGED <<handlerPc[s][t], response[s][t], job[s][t]>> =>
            response'[s][t].lastTicket =
              Wrap(response'[s][t].firstTicket + job'[s][t].numTickets - 1)
    BY <2>0
  <2>. QED
    BY <2>1, <2>2, <2>3, <2>4, <2>5
       DEF Next, vars, serverVars, ServerNext, ClientNext, Start, MainStep,
           MakeRequestFifo, OpenRequestFifo, OpenDummy, MainFails, ReadRequest,
           Interrupt, MainExit, Die
<1>. QED
  BY <1>1, <1>2, ServiceInvariant, PTL DEF Spec

-----------------------------------------------------------------------------
(* The correct client *)

\* A server that has its dummy descriptor, or handlers, keeps its descriptors.
LEMMA DescriptorsStay ==
    ASSUME IInv, Fresh, MainHolds, [Next]_vars, NEW s \in Servers, dummyFd[s] # None
    PROVE  UNCHANGED <<requestFd[s], dummyFd[s]>>
<1>1. mainPc[s] \notin {"start", "mkfifo", "openRead", "openDummy"}
  BY DEF MainHolds
<1>. QED
  BY <1>1, MainChange
     DEF MakeRequestFifo, OpenRequestFifo, OpenDummy, ReadRequest, SpawnHandler

\* A server that has gone astray remains so, and a process id that a killed run
\* had is not calm again.
LEMMA AstrayStays ==
    ASSUME IInv, Fresh, MainHolds, [Next]_vars
    PROVE  /\ SomeServerAstray => SomeServerAstray'
           /\ \A p \in Pids : CalmPid(p)' => CalmPid(p)
<1>1. SomeServerAstray => SomeServerAstray'
  BY DescriptorsStay DEF SomeServerAstray
<1>2. \A p \in Pids : CalmPid(p)' => CalmPid(p)
  BY ClientMoves DEF CalmPid
<1>. QED
  BY <1>1, <1>2

\* As long as none is astray, whatever a server holds it has taken from the
\* queue it also keeps from the end of file.
AllTaken ==
    ~SomeServerAstray => \A s \in Servers, t \in Slots : Holds(s, t) => Taken(s, t)

LEMMA AllTakenInv == IInv /\ Fresh /\ MainHolds => AllTaken
<1> SUFFICES ASSUME IInv, Fresh, MainHolds, ~SomeServerAstray,
                    NEW s \in Servers, NEW t \in Slots, Holds(s, t)
             PROVE  Taken(s, t)
  BY DEF AllTaken
<1>1. dummyFd[s] # None
  <2>1. CASE t = 0
    BY <2>1, ProtocolAssumption DEF Holds, IInv, Ready, MainReady
  <2>2. CASE t # 0
    <3>1. t \in Threads /\ t > 0
      BY <2>2, ProtocolAssumption DEF Slots, Threads
    <3>2. spawned[s] # 0
      BY <2>2, <3>1 DEF Holds, Fresh
    <3>. QED
      BY <3>2 DEF MainHolds
  <2>. QED
    BY <2>1, <2>2
<1>. QED
  BY <1>1 DEF SomeServerAstray, Taken, Steady

\* A handler in exit() stays there.
LEMMA ExitStays ==
    ASSUME IInv, Fresh, [Next]_vars, NEW s \in Servers, NEW t \in Threads,
           handlerPc[s][t] = "exit"
    PROVE  handlerPc'[s][t] = "exit"
<1>0. handlerPc \in [Servers -> [Threads -> HandlerPcs]]
  BY DEF IInv, TypeOK, ServerTypeOK
<1>1. CASE UNCHANGED handlerPc
  BY <1>1
<1>2. ASSUME NEW u \in Servers, SpawnHandler(u) PROVE handlerPc'[s][t] = "exit"
  <2>1. ASSUME t = spawned[s] + 1 PROVE FALSE
    <3>1. spawned[s] \in 0 .. MaxThreads /\ MaxThreads \in Nat
      BY ProtocolAssumption DEF IInv, TypeOK, ServerTypeOK
    <3>2. t > spawned[s]
      BY <2>1, <3>1
    <3>. QED
      BY <3>2 DEF Fresh
  <2>. QED
    BY <1>0, <1>2, <2>1 DEF SpawnHandler
<1>3. ASSUME NEW u \in Servers, NEW v \in Threads, HandlerStep(u, v)
      PROVE  handlerPc'[s][t] = "exit"
  <2>1. CASE u = s /\ v = t
    BY <1>0, <1>3, <2>1
       DEF HandlerStep, CopyRequest, Lock, TakeTickets, AdvanceCounter, Unlock,
           OpenResponse, HandlerFails, WriteResponse, BrokenPipe, FinishHandler, At
  <2>2. CASE ~(u = s /\ v = t)
    BY <1>3, <2>2, HandlerFrame
  <2>. QED
    BY <2>1, <2>2
<1>. QED
  BY <1>1, <1>2, <1>3
     DEF Next, vars, serverVars, handlerVars, ServerNext, ClientNext, Start, MainStep,
         MakeRequestFifo, OpenRequestFifo, OpenDummy, MainFails, ReadRequest,
         Interrupt, MainExit, Die

\* A request is pending if it was before, or is being written.
LEMMA PendingBefore ==
    ASSUME IInv, Fresh, MainHolds, [Next]_vars, AllTaken', ~SomeServerAstray', NEW d \in Clients, Pending(d)'
    PROVE  Pending(d) \/ WriteRequest(d)
<1>1. CASE From(Queued, d)'
  <2>0. Queued \in Queues /\ Queued' \in Queues
    <3>1. IInv'
      BY NextInv
    <3>. QED
      BY <3>1, QueuedType DEF IInv, TypeOK, FifoTypeOK, Queues, Queued, Fifos
  <2>1. From(Queued', d)
    BY <1>1 DEF From
  <2>2. Inherits(Queued, Queued') => Pending(d)
    BY <2>0, <2>1, InheritsOnce DEF Pending
  <2>3. ASSUME NEW e \in Clients, WriteRequest(e), requestEnd[e] \in Servers,
               RequestOf(e) \in Requests,
               Queued' = Longer(Queued, requestEnd[e], RequestOf(e))
        PROVE  Pending(d) \/ WriteRequest(d)
    <3>1. From(Queued, d) \/ d = RequestOf(e).from
      BY <2>0, <2>1, <2>3, WriteQueue
    <3>. QED
      BY <2>3, <3>1 DEF Pending, RequestOf
  <2>4. ASSUME NEW s \in Servers, requestFd[s] \in Servers, Queued[requestFd[s]] # << >>,
               Queued' = Shorter(Queued, requestFd[s])
        PROVE  Pending(d)
    <3>1. Inherits(Queued, Queued')
      BY <2>0, <2>4, ReadQueue
    <3>. QED
      BY <2>2, <3>1
  <2>. QED
    BY <2>2, <2>3, <2>4, QueueChange
<1>2. ASSUME NEW s \in Servers, NEW t \in Slots, InHand(s, t)', Held(s, t)'.from = d
      PROVE  Pending(d)
  <2>0. 0 \in Slots /\ ~SomeServerAstray
    BY AstrayStays, ProtocolAssumption DEF Slots
  <2>1. Taken(s, t)'
    <3>1. Holds(s, t)'
      BY <1>2 DEF InHand
    <3>. QED
      BY <3>1 DEF AllTaken
  <2>2. CASE Taken(s, t) /\ Held(s, t)' = Held(s, t)
    <3>1. Holds(s, t) /\ Held(s, t).from = d
      BY <1>2, <2>2 DEF Taken
    <3>2. CASE t = 0
      BY <2>0, <3>1, <3>2 DEF Pending, InHand
    <3>3. CASE t # 0
      <4>1. t \in Threads
        BY <3>3, ProtocolAssumption DEF Slots, Threads
      <4>2. process'[s] # "gone" /\ ~Writing(s, t)' /\ handlerPc'[s][t] # "exit"
        BY <1>2, <3>3 DEF InHand
      <4>3. process[s] # "gone" /\ ~Writing(s, t) /\ handlerPc[s][t] # "exit"
        BY <4>1, <4>2, ProcessMoves, OpeningStays, ExitStays
      <4>. QED
        BY <3>1, <4>3 DEF Pending, InHand
    <3>. QED
      BY <3>2, <3>3
  <2>3. CASE t = 0 /\ ReadRequest(s) /\ Steady(s) /\ Held(s, t)' = request'[s]
    <3>1. /\ requestFd[s] \in Servers /\ Queued[requestFd[s]] # << >>
          /\ request'[s] = Head(Queued[requestFd[s]])
      BY <2>3, SteadyRead
    <3>2. From(Queued, Head(Queued[requestFd[s]]).from)
      BY <3>1, ReadQueue, QueuedType DEF IInv, TypeOK
    <3>. QED
      BY <1>2, <2>3, <3>1, <3>2 DEF Pending
  <2>4. CASE Taken(s, 0) /\ Held(s, t)' = Held(s, 0)
    <3>1. InHand(s, 0) /\ Held(s, 0).from = d
      BY <1>2, <2>4 DEF Taken, InHand
    <3>. QED
      BY <2>0, <3>1 DEF Pending
  <2>. QED
    BY <2>1, <2>2, <2>3, <2>4, SlotChange
<1>. QED
  BY <1>1, <1>2 DEF Pending

\* How a client that waits for its response moves.
LEMMA WaitingMoves ==
    ASSUME IInv, [Next]_vars, NEW d \in Clients,
           clientPc[d] \in {"closeRequest", "openResponse", "read"},
           clientPc'[d] \notin {"closeRequest", "openResponse", "read", "dead"}
    PROVE  ReadResponse(d) /\ UNCHANGED serverVars
<1>. USE DEF IInv, TypeOK, ClientTypeOK, ClientGoto, ClientExit, Killed
<1>1. ASSUME NEW c \in Clients, ClientNext(c), c # d PROVE FALSE
  BY <1>1, OtherClients
<1>2. CASE ClientNext(d)
  <2>1. CASE StartClient(d)
    BY <2>1 DEF StartClient, CreateResponseFifo, FindStaleFifo
  <2>2. CASE ClientInterrupt(d)
    BY <2>2 DEF ClientInterrupt
  <2>3. CASE ClientStep(d) /\ ~ReadResponse(d)
    BY <2>3 DEF ClientStep, OpenRequest, NoServer, WriteRequest, ClientBrokenPipe,
       CloseRequest, OpenOwnFifo, FinishClient
  <2>. QED
    BY <1>2, <2>1, <2>2, <2>3 DEF ClientNext
<1>3. CASE UNCHANGED clientPc
  BY <1>3
<1>. QED
  BY <1>1, <1>2, <1>3 DEF Next, ServerNext, ClientNext, vars, clientVars

\* What the steps of this section start from.
Known ==
    /\ IInv /\ Fresh /\ MainHolds /\ RInv /\ AllTaken
    /\ OwnsItsName /\ NameOfARun /\ Provenance /\ Responding

\* A handler that has a response FIFO open has the request it was started with.
LEMMA JobHeld ==
    ASSUME Known, ~SomeServerAstray, NEW s \in Servers, NEW t \in Threads,
           Opening(s, t) \/ handlerPc[s][t] = "open"
    PROVE  /\ t \in Slots /\ t # 0 /\ Taken(s, t) /\ Held(s, t) = job[s][t]
           /\ Real(job[s][t]) /\ ~From(Queued, job[s][t].from)
<1>1. t \in Slots /\ t # 0
  BY ProtocolAssumption DEF Threads, Slots
<1>2. handlerPc[s][t] \notin {"none", "copy"}
  BY DEF Opening
<1>3. Holds(s, t) /\ Held(s, t) = job[s][t]
  BY <1>1, <1>2 DEF Holds, Held, Work
<1>4. Taken(s, t)
  BY <1>1, <1>3 DEF Known, AllTaken
<1>. QED
  BY <1>1, <1>3, <1>4 DEF Known, RInv, TakenReal

\* A request whose handler has the FIFO of its client open is nowhere else, and
\* it is pending only while that handler has yet to write.
LEMMA OnlyHandler ==
    ASSUME Known, ~SomeServerAstray, NEW s \in Servers, NEW t \in Threads,
           Opening(s, t), Pending(job[s][t].from)
    PROVE  process[s] # "gone" /\ handlerPc[s][t] = "write"
<1>1. /\ t \in Slots /\ t # 0 /\ Taken(s, t) /\ Held(s, t) = job[s][t]
      /\ ~From(Queued, job[s][t].from)
  BY JobHeld
<1>2. PICK u \in Servers, v \in Slots : InHand(u, v) /\ Held(u, v).from = job[s][t].from
  BY <1>1 DEF Pending
<1>3. Taken(u, v)
  BY <1>2 DEF Known, AllTaken, InHand
<1>4. u = s /\ v = t
  BY <1>1, <1>2, <1>3 DEF Known, RInv, TakenOnce
<1>. QED
  BY <1>1, <1>2, <1>4 DEF InHand, Opening, Writing

\* The client whose response it is reads it: it was pending no more.
LEMMA ReadIsAnswered ==
    ASSUME Known, ~SomeServerAstray, Addressed, NEW d \in Clients, ReadResponse(d),
           CalmPid(PidOf[d])
    PROVE  ~Pending(d)
<1> SUFFICES ASSUME Pending(d) PROVE FALSE
  OBVIOUS
<1>0. ASSUME NEW s \in Servers, NEW t \in Threads, Opening(s, t), responseFd[s][t] = d
      PROVE  process[s] # "gone" /\ handlerPc[s][t] = "write"
  <2>1. job[s][t].from = d
    BY <1>0 DEF Addressed
  <2>. QED
    BY <1>0, <2>1, OnlyHandler
<1>1. CASE HasData(responseFifo[d])
  <2>. DEFINE m == Head(responseFifo[d].data)
  <2>1. responseFifo[d].data \in Seq(Responses) /\ responseFifo[d].data # << >>
    BY <1>1, ResponseFifos DEF Known, Fifos, HasData
  <2>2. m = responseFifo[d].data[1] /\ 1 \in DOMAIN responseFifo[d].data /\ m \in Responses
    BY <2>1, HeadTailProperties, EmptySeq, LenProperties
  <2>3. WrittenFor(d, m.by[1], m.by[2], m)
    BY <2>2 DEF Known, Provenance, Genuine
  <2>4. PICK s, t : s = m.by[1] /\ t = m.by[2]
    OBVIOUS
  <2>5. s \in Servers /\ t \in Threads /\ WrittenFor(d, s, t, m)
    BY <2>2, <2>3, <2>4, ByType
  <2>6. Opening(s, t) /\ responseFd[s][t] = d /\ handlerPc[s][t] # "write"
    BY <2>5 DEF WrittenFor, Opening
  <2>. QED
    BY <1>0, <2>5, <2>6
<1>2. CASE AtEOF(responseFifo[d])
  <2>1. ClientEnd(d) \in responseFifo[d].met /\ responseFifo[d].writers = {}
    BY <1>2, ReadResponseDef DEF Known, AtEOF
  <2>2. PICK s \in Servers, t \in Threads : Opening(s, t) /\ responseFd[s][t] = d
    BY <2>1 DEF Known, Responding, Met, Opened
  <2>3. process[s] # "gone" /\ handlerPc[s][t] = "write"
    BY <1>0, <2>2
  <2>4. <<s, t>> \in responseFifo[d].writers
    BY <2>2, <2>3 DEF Known, Responding, HandlerHolds
  <2>. QED
    BY <2>1, <2>4
<1>. QED
  BY <1>1, <1>2, ReadResponseDef DEF Known

\* A client whose request may still be answered waits.
LEMMA AwaitedInv ==
    ASSUME Known, [Next]_vars, AllTaken', ~SomeServerAstray', Awaited, Addressed
    PROVE  Awaited'
<1> SUFFICES ASSUME NEW d \in Clients, Pending(d)', CalmPid(PidOf[d])'
             PROVE  clientPc'[d] \in {"closeRequest", "openResponse", "read"}
  BY DEF Awaited
<1>1. ~SomeServerAstray /\ CalmPid(PidOf[d])
  BY AstrayStays, ProtocolAssumption DEF Known
<1>2. CASE WriteRequest(d)
  BY <1>2 DEF WriteRequest, ClientGoto, Known, IInv, TypeOK, ClientTypeOK
<1>3. CASE Pending(d)
  <2>1. clientPc[d] \in {"closeRequest", "openResponse", "read"}
    BY <1>1, <1>3 DEF Awaited
  <2>2. ~ReadResponse(d)
    BY <1>1, <1>3, ReadIsAnswered
  <2>3. clientPc'[d] # "dead"
    BY DEF CalmPid
  <2>. QED
    BY <2>1, <2>2, <2>3, WaitingMoves DEF Known
<1>. QED
  BY <1>2, <1>3, PendingBefore DEF Known

\* A handler opens the FIFO of the client behind its request.
LEMMA AddressedInv ==
    ASSUME Known, [Next]_vars, ~SomeServerAstray', Awaited, Addressed
    PROVE  Addressed'
<1> SUFFICES ASSUME NEW s \in Servers, NEW t \in Threads, Opening(s, t)',
                    NEW c, c = responseFd'[s][t]
             PROVE  /\ PidOf[c] = PidOf[job'[s][t].from]
                    /\ CalmPid(PidOf[c])' => job'[s][t].from = c
  BY DEF Addressed
<1>1. CASE Opening(s, t)
  <2>1. c = responseFd[s][t] /\ job'[s][t] = job[s][t]
    BY <1>1, OpeningStays DEF Known
  <2>2. responseFd[s][t] \in Clients
    BY <1>1, ResponseFifos DEF Known, Responding, Opening, Written, Writing
  <2>3. CalmPid(PidOf[c])' => CalmPid(PidOf[c])
    BY <2>1, <2>2, AstrayStays, ProtocolAssumption DEF Known
  <2>4. /\ PidOf[responseFd[s][t]] = PidOf[job[s][t].from]
        /\ CalmPid(PidOf[responseFd[s][t]]) => job[s][t].from = responseFd[s][t]
    BY <1>1 DEF Addressed
  <2>. QED
    BY <2>1, <2>3, <2>4
<1>2. CASE OpenResponse(s, t)
  <2>. DEFINE d == job[s][t].from
  <2>1. /\ c \in Clients /\ c = responsePath[job[s][t].clientId]
        /\ handlerPc[s][t] = "open" /\ job'[s][t] = job[s][t]
    BY <1>2, OpenResponseDef DEF Known
  <2>2. ~SomeServerAstray /\ (CalmPid(PidOf[c])' => CalmPid(PidOf[c]))
    BY <2>1, AstrayStays, ProtocolAssumption DEF Known
  <2>3. /\ t \in Slots /\ t # 0 /\ Taken(s, t) /\ Held(s, t) = job[s][t]
        /\ Real(job[s][t])
    BY <2>1, <2>2, JobHeld
  <2>4. d \in Clients /\ job[s][t].clientId = PidOf[d]
    BY <2>3 DEF Real, RequestOf
  <2>5. PidOf[c] = PidOf[d]
    BY <2>1, <2>4, ProtocolAssumption DEF Known, NameOfARun
  <2>6. ASSUME CalmPid(PidOf[c]) PROVE c = d
    <3>1. InHand(s, t)
      BY <1>2, <2>1, <2>3 DEF InHand, Taken, Writing, OpenResponse, At, Alive
    <3>2. Pending(d)
      BY <2>3, <3>1 DEF Pending
    <3>3. clientPc[d] \in {"closeRequest", "openResponse", "read"}
      BY <2>4, <2>5, <2>6, <3>2 DEF Awaited
    <3>4. responsePath[PidOf[d]] = d
      BY <2>4, <3>3 DEF Known, OwnsItsName
    <3>. QED
      BY <2>1, <2>4, <3>4
  <2>. QED
    BY <2>1, <2>2, <2>5, <2>6
<1>. QED
  BY <1>1, <1>2, OpeningStays DEF Known

LEMMA KnownInv == Spec => [](Known /\ AInv)
<1>1. Init => AInv
  <2> SUFFICES ASSUME Init PROVE AInv
    OBVIOUS
  <2>1. \A f \in Servers : Queued[f] = << >>
    BY DEF Init, FifoInit, NewFifo, Queued
  <2>2. 1 .. Len(<< >>) = {}
    OBVIOUS
  <2>3. \A s \in Servers, t \in Slots : ~Holds(s, t)
    BY DEF Init, ServerInit, Holds, Slots, Threads
  <2>4. \A d \in Clients : ~Pending(d)
    BY <2>1, <2>2, <2>3 DEF Pending, From, InHand
  <2>5. \A s \in Servers, t \in Threads : ~Opening(s, t)
    BY DEF Init, ServerInit, Opening
  <2>. QED
    BY <2>4, <2>5 DEF AInv, Awaited, Addressed
<1>2. Known /\ AInv /\ [Next]_vars /\ AllTaken' => AInv'
  BY AwaitedInv, AddressedInv, AstrayStays DEF AInv, Known
<1>3. Spec => []Known
  <2>1. IInv /\ Fresh /\ (MainHolds /\ RInv) /\ OwnsItsName /\ NameOfARun
        /\ Provenance /\ Responding => Known
    BY AllTakenInv DEF Known
  <2>. QED
    BY <2>1, ServiceInvariant, FreshHandlers, RequestsInOnePlace, OwnName, NamesOfRuns,
       ResponsesGenuine, RespondingInv, PTL
<1>4. Known => AllTaken
  BY DEF Known
<1>. QED
  BY <1>1, <1>2, <1>3, <1>4, PTL DEF Spec

\* The response a client has read is behind its own request.
OwnAnswer ==
    ~SomeServerAstray => \A c \in Clients :
        Answered(c) /\ ~PidWasKilled(c) => Behind(got[c]).from = c

\* What is read by a client is the response to its request.
LEMMA ReadsItsOwn ==
    ASSUME Known, ~SomeServerAstray, Addressed, NEW c \in Clients, ReadResponse(c),
           ~PidWasKilled(c), NEW m, m = got'[c], m \in Responses
    PROVE  Genuine(c, m) /\ Behind(m).from = c
<1>1. clientPc[c] = "read" /\ HasData(responseFifo[c]) /\ m = Head(responseFifo[c].data)
  BY ReadResponseDef, GarbageAssumption DEF Known
<1>2. responseFifo[c].data \in Seq(Responses) /\ responseFifo[c].data # << >>
  BY <1>1, ResponseFifos DEF Known, Fifos, HasData
<1>3. m = responseFifo[c].data[1] /\ 1 \in DOMAIN responseFifo[c].data
  BY <1>1, <1>2, HeadTailProperties, EmptySeq, LenProperties
<1>4. Genuine(c, m)
  BY <1>3 DEF Known, Provenance
<1>5. CalmPid(PidOf[c])
  BY <1>1 DEF CalmPid, PidWasKilled
<1>6. PICK s, t : s = m.by[1] /\ t = m.by[2]
  OBVIOUS
<1>7. s \in Servers /\ t \in Threads /\ Opening(s, t) /\ responseFd[s][t] = c
  BY <1>4, <1>6, ByType DEF Genuine, WrittenFor, Opening
<1>8. job[s][t].from = c
  BY <1>5, <1>7 DEF Addressed
<1>. QED
  BY <1>4, <1>6, <1>8 DEF Behind

LEMMA OwnAnswerInv == Spec => []OwnAnswer
<1>1. Init => OwnAnswer
  BY NoneAssumption DEF Init, ClientInit, OwnAnswer, Answered
<1>2. Known /\ AInv /\ OwnAnswer /\ [Next]_vars => OwnAnswer'
  <2> SUFFICES ASSUME Known, AInv, OwnAnswer, [Next]_vars, ~SomeServerAstray',
                      NEW c \in Clients, NEW m, m = got'[c], m \in Responses,
                      ~PidWasKilled(c)'
               PROVE  Behind(m)'.from = c
    BY DEF OwnAnswer, Answered, Behind
  <2>1. ~SomeServerAstray /\ Addressed
    BY AstrayStays DEF Known, AInv
  <2>2. ~PidWasKilled(c)
    BY ClientMoves DEF Known, PidWasKilled
  <2>3. Genuine(c, m) /\ Behind(m).from = c
    <3>1. CASE m = got[c]
      BY <2>1, <2>2, <3>1 DEF OwnAnswer, Answered, Known, Provenance
    <3>2. CASE ReadResponse(c)
      BY <2>1, <2>2, <3>2, ReadsItsOwn
    <3>. QED
      BY <3>1, <3>2, ResponseSteps, ReadResponseDef
         DEF Known, Before, ServerOver, ClientOver, OpenOwnFifo, clientVars
  <2>4. PICK s, t : s = m.by[1] /\ t = m.by[2]
    OBVIOUS
  <2>5. s \in Servers /\ t \in Threads /\ Opening(s, t)
    BY <2>3, <2>4, ByType DEF Genuine, WrittenFor, Opening
  <2>6. job'[s][t] = job[s][t]
    BY <2>5, OpeningStays DEF Known
  <2>. QED
    BY <2>3, <2>4, <2>6 DEF Behind
<1>. QED
  BY <1>1, <1>2, KnownInv, PTL DEF Spec

\* "Send the response to the correct client" (multithreaFfifoserver.c, line 82),
\* for as many tickets as it asked for.
THEOREM ResponsesReachTheirClients == Spec => []CorrectClient
<1>1. Known /\ Ranges /\ OwnAnswer => CorrectClient
  <2> SUFFICES ASSUME Known, Ranges, OwnAnswer, NEW c \in Clients, Answered(c),
                      ~PidWasKilled(c), ~SomeServerAstray
               PROVE  /\ Behind(got[c]).from = c
                      /\ got[c].lastTicket = Wrap(got[c].firstTicket + numTickets[c] - 1)
    BY DEF CorrectClient
  <2>1. Behind(got[c]).from = c
    BY DEF OwnAnswer
  <2>2. PICK s, t : s = got[c].by[1] /\ t = got[c].by[2]
    OBVIOUS
  <2>3. s \in Servers /\ t \in Threads /\ WrittenFor(c, s, t, got[c])
    BY <2>2, ByType DEF Answered, Known, Provenance, Genuine
  <2>4. Opening(s, t) /\ response[s][t] = got[c] /\ job[s][t].from = c
    BY <2>1, <2>2, <2>3 DEF WrittenFor, Opening, Behind
  <2>5. Real(job[s][t])
    BY <2>3, <2>4, JobHeld
  <2>6. job[s][t].numTickets = numTickets[c]
    BY <2>4, <2>5 DEF Real, RequestOf
  <2>7. response[s][t].lastTicket =
          Wrap(response[s][t].firstTicket + job[s][t].numTickets - 1)
    BY <2>3, <2>4 DEF Ranges, Opening
  <2>. QED
    BY <2>1, <2>4, <2>6, <2>7
<1>. QED
  BY <1>1, KnownInv, RangesInv, OwnAnswerInv, PTL

\* What FifoClient.c prints after its read() (lines 113 to 124).
THEOREM AnswersPrinted == Spec => []PrintsItsAnswer
<1>1. Known /\ OwnAnswer => PrintsItsAnswer
  <2> SUFFICES ASSUME Known, OwnAnswer, NEW c \in Clients, got[c] # None
               PROVE  \/ /\ Answered(c)
                         /\ Behind(got[c]).from = c \/ PidWasKilled(c) \/ SomeServerAstray
                      \/ got[c] = Garbage /\ SomeServerGone
    BY DEF PrintsItsAnswer
  <2>1. Answered(c) \/ got[c] = Garbage
    BY DEF Known, IInv, TypeOK, ClientTypeOK, Answered
  <2>. QED
    BY <2>1 DEF OwnAnswer, Known, Responding, GarbageExplained
<1>. QED
  BY <1>1, KnownInv, OwnAnswerInv, PTL
=============================================================================
