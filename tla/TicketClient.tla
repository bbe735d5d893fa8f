---------------------------- MODULE TicketClient ----------------------------
(***************************************************************************)
(* The ticket client, class9/FifoClient.c (class8/FifoClient.c is the same  *)
(* program): make a response FIFO named by the process id, send a request,  *)
(* read the response, remove the FIFO on exit.  A run with bad arguments    *)
(* ends before it touches anything and is not modelled.                     *)
(***************************************************************************)
EXTENDS TicketProtocol

CONSTANT Garbage    \* the response variable after a read() that returned 0
ASSUME GarbageAssumption == Garbage \notin Responses \cup {None}

VARIABLES
    clientPc,
    numTickets,     \* the argument of the run
    requestEnd,     \* requestFifoDescriptor: whose FIFO is written
    got             \* the response variable: None until read() has returned

clientVars == <<clientPc, numTickets, requestEnd, got>>

\* "done" is after exit(), "dead" after a signal.
ClientPcs == {"start", "openRequest", "write", "closeRequest", "openResponse",
              "read", "finish", "done", "dead"}

ClientTypeOK ==
    /\ clientPc \in [Clients -> ClientPcs]
    /\ numTickets \in [Clients -> Counts \cup {None}]
    /\ requestEnd \in [Clients -> Servers \cup {None}]
    /\ got \in [Clients -> Responses \cup {Garbage, None}]

ClientInit ==
    /\ clientPc = [c \in Clients |-> "start"]
    /\ numTickets = [c \in Clients |-> None]
    /\ requestEnd = [c \in Clients |-> None]
    /\ got = [c \in Clients |-> None]

ClientEnd(c) == <<c, 0>>
Ended(c) == clientPc[c] \in {"done", "dead"}
ClientGoto(c, l) == clientPc' = [clientPc EXCEPT ![c] = l]

\* A process id is in use by one process at a time.
PidFree(c) ==
    \A d \in Clients \ {c} :
        PidOf[d] = PidOf[c] => clientPc[d] = "start" \/ Ended(d)

\* exit(): the exit handler unlinks the name made from the process id, and the
\* descriptors are closed.
ClientExit(c) ==
    /\ ClientGoto(c, "done")
    /\ responsePath' = [responsePath EXCEPT ![PidOf[c]] = None]
    /\ CloseAll(c)

\* A run starts with argument n and makes its response FIFO ...
CreateResponseFifo(c, n) ==
    /\ clientPc[c] = "start" /\ PidFree(c)
    /\ responsePath[PidOf[c]] = None
    /\ responsePath' = [responsePath EXCEPT ![PidOf[c]] = c]
    /\ numTickets' = [numTickets EXCEPT ![c] = n]
    /\ ClientGoto(c, "openRequest")
    /\ UNCHANGED <<requestPath, requestFifo, responseFifo, requestEnd, got>>

\* A faulty variant: a FIFO that is there already is used.
ReuseStaleFifo(c) ==
    /\ clientPc[c] = "start" /\ PidFree(c)
    /\ responsePath[PidOf[c]] # None
    /\ \E n \in Counts : numTickets' = [numTickets EXCEPT ![c] = n]
    /\ ClientGoto(c, "openRequest")
    /\ UNCHANGED <<fifoVars, requestEnd, got>>

\* ... or finds the one a killed process with the same id left, fails, and
\* removes it on the way out.
FindStaleFifo(c) ==
    /\ clientPc[c] = "start" /\ PidFree(c)
    /\ responsePath[PidOf[c]] # None
    /\ ClientExit(c)
    /\ UNCHANGED <<requestPath, numTickets, requestEnd, got>>

OpenRequest(c) ==
    /\ clientPc[c] = "openRequest"
    /\ requestPath # None
    /\ requestEnd' = [requestEnd EXCEPT ![c] = requestPath]
    /\ requestFifo' = [requestFifo EXCEPT
                         ![requestPath] = OpenForWriting(@, ClientEnd(c))]
    /\ ClientGoto(c, "write")
    /\ UNCHANGED <<requestPath, responsePath, responseFifo, numTickets, got>>

\* "Client cannot reach server."
NoServer(c) ==
    /\ clientPc[c] = "openRequest"
    /\ requestPath = None
    /\ ClientExit(c)
    /\ UNCHANGED <<requestPath, numTickets, requestEnd, got>>

\* The Request a client sends.
RequestOf(c) == [clientId |-> PidOf[c], numTickets |-> numTickets[c], from |-> c]

WriteRequest(c) ==
    /\ clientPc[c] = "write"
    /\ LET s == requestEnd[c]
       IN  /\ Opened(requestFifo[s], ClientEnd(c))
           /\ ~Broken(requestFifo[s])
           /\ requestFifo' = [requestFifo EXCEPT ![s] = Put(@, RequestOf(c))]
    /\ ClientGoto(c, "closeRequest")
    /\ UNCHANGED <<requestPath, responsePath, responseFifo, numTickets,
                   requestEnd, got>>

\* The end of the process by a signal: nothing is unlinked.
Killed(c) ==
    /\ ClientGoto(c, "dead")
    /\ CloseAll(c)
    /\ UNCHANGED <<requestPath, responsePath, numTickets, requestEnd, got>>

\* SIGPIPE: the server died between the open and the write.
ClientBrokenPipe(c) ==
    /\ clientPc[c] = "write"
    /\ LET fifo == requestFifo[requestEnd[c]]
       IN  Opened(fifo, ClientEnd(c)) /\ Broken(fifo)
    /\ Killed(c)

\* CTRL+C at any time of the run.
ClientInterrupt(c) ==
    /\ clientPc[c] # "start" /\ ~Ended(c)
    /\ Killed(c)

CloseRequest(c) ==
    /\ clientPc[c] = "closeRequest"
    /\ requestFifo' = [requestFifo EXCEPT
                         ![requestEnd[c]] = CloseEnds(@, {ClientEnd(c)})]
    /\ ClientGoto(c, "openResponse")
    /\ UNCHANGED <<requestPath, responsePath, responseFifo, numTickets,
                   requestEnd, got>>

\* The name is the one this run made: only a process with this id unlinks it.
OpenOwnFifo(c) ==
    /\ clientPc[c] = "openResponse"
    /\ responseFifo' = [responseFifo EXCEPT ![c] = OpenForReading(@, ClientEnd(c))]
    /\ ClientGoto(c, "read")
    /\ UNCHANGED <<requestPath, requestFifo, responsePath, numTickets,
                   requestEnd, got>>

\* read() and printf(): at the end of file what is printed is garbage.
ReadResponse(c) ==
    /\ clientPc[c] = "read"
    /\ Opened(responseFifo[c], ClientEnd(c))
    /\ \/ /\ HasData(responseFifo[c])
          /\ got' = [got EXCEPT ![c] = Head(responseFifo[c].data)]
          /\ responseFifo' = [responseFifo EXCEPT ![c] = Drop(@)]
       \/ /\ AtEOF(responseFifo[c])
          /\ got' = [got EXCEPT ![c] = Garbage]
          /\ UNCHANGED responseFifo
    /\ ClientGoto(c, "finish")
    /\ UNCHANGED <<requestPath, requestFifo, responsePath, numTickets, requestEnd>>

\* close() and exit().
FinishClient(c) ==
    /\ clientPc[c] = "finish"
    /\ ClientExit(c)
    /\ UNCHANGED <<requestPath, numTickets, requestEnd, got>>

-----------------------------------------------------------------------------
StartClient(c) == (\E n \in Counts : CreateResponseFifo(c, n)) \/ FindStaleFifo(c)

ClientStep(c) ==
    \/ OpenRequest(c) \/ NoServer(c)
    \/ WriteRequest(c) \/ ClientBrokenPipe(c) \/ CloseRequest(c)
    \/ OpenOwnFifo(c) \/ ReadResponse(c) \/ FinishClient(c)
=============================================================================
