----------------------- MODULE IterativeTicketService -----------------------
(***************************************************************************)
(* The iterative ticket server, class8/Fifoserver.c, with the clients of    *)
(* class8/FifoClient.c (the program TicketClient models): one thread that   *)
(* reads a request, computes the response and sends it before it reads the  *)
(* next one.                                                                *)
(*                                                                          *)
(* The server makes the name of the response FIFO with the template         *)
(* "ResponsFifo.%d", the client with "ResponseFifo.%d".  No program makes a *)
(* FIFO of the first name.                                                  *)
(***************************************************************************)
EXTENDS TicketClient

CONSTANT Interruptible      \* the runs somebody may press CTRL+C on

VARIABLES
    serverPc,       \* "new", the steps of main, "gone"
    requestFd,      \* requestFifoDesciptor: whose FIFO is read
    dummyFd,        \* dummyDescriptor: whose FIFO is held open for writing
    request,
    nextTicket

serverVars == <<serverPc, requestFd, dummyFd, request, nextTicket>>
vars == <<fifoVars, clientVars, serverVars>>

Init ==
    /\ FifoInit /\ ClientInit
    /\ serverPc = [s \in Servers |-> "new"]
    /\ requestFd = [s \in Servers |-> None]
    /\ dummyFd = [s \in Servers |-> None]
    /\ request = [s \in Servers |-> None]
    /\ nextTicket = [s \in Servers |-> 1]

End(s) == <<s, 0>>
Goto(s, l) == serverPc' = [serverPc EXCEPT ![s] = l]

-----------------------------------------------------------------------------
\* exit(): the exit handler unlinks "RequestFifo".
ServerExit(s) ==
    /\ Goto(s, "gone")
    /\ requestPath' = None
    /\ CloseAll(s)
    /\ UNCHANGED <<responsePath, requestFd, dummyFd>>

\* CTRL+C
Interrupt(s) ==
    /\ serverPc[s] \notin {"new", "gone"}
    /\ ServerExit(s)
    /\ UNCHANGED <<request, nextTicket>>

Start(s) ==
    /\ serverPc[s] = "new"
    /\ Goto(s, "mkfifo")
    /\ UNCHANGED <<fifoVars, requestFd, dummyFd, request, nextTicket>>

MakeRequestFifo(s) ==
    /\ serverPc[s] = "mkfifo"
    /\ requestPath = None
    /\ requestPath' = s
    /\ Goto(s, "openRead")
    /\ UNCHANGED <<requestFifo, responsePath, responseFifo, requestFd, dummyFd,
                   request, nextTicket>>

\* mkfifo() finds the name taken, an open() finds it gone.
ServerFails(s) ==
    /\ \/ serverPc[s] = "mkfifo" /\ requestPath # None
       \/ serverPc[s] = "openRead" /\ requestPath = None
       \/ /\ serverPc[s] = "openDummy" /\ requestPath = None
          /\ Opened(requestFifo[requestFd[s]], End(s))
    /\ ServerExit(s)
    /\ UNCHANGED <<request, nextTicket>>

OpenRequestFifo(s) ==
    /\ serverPc[s] = "openRead"
    /\ requestPath # None
    /\ requestFd' = [requestFd EXCEPT ![s] = requestPath]
    /\ requestFifo' = [requestFifo EXCEPT ![requestPath] = OpenForReading(@, End(s))]
    /\ Goto(s, "openDummy")
    /\ UNCHANGED <<requestPath, responsePath, responseFifo, dummyFd, request,
                   nextTicket>>

OpenDummy(s) ==
    /\ serverPc[s] = "openDummy"
    /\ Opened(requestFifo[requestFd[s]], End(s))
    /\ requestPath # None
    /\ dummyFd' = [dummyFd EXCEPT ![s] = requestPath]
    /\ requestFifo' = [requestFifo EXCEPT ![requestPath] = OpenForWriting(@, End(s))]
    /\ Goto(s, "read")
    /\ UNCHANGED <<requestPath, responsePath, responseFifo, requestFd, request,
                   nextTicket>>

\* read() of a request, or of an end of file, which is taken for one: the
\* variable, before the first request, may hold anything.  Then the response
\* is computed and the counter advanced.
ReadRequest(s) ==
    /\ serverPc[s] = "read"
    /\ Opened(requestFifo[dummyFd[s]], End(s))
    /\ LET fifo == requestFifo[requestFd[s]]
       IN  \E r \in Requests :
            /\ \/ /\ HasData(fifo) /\ r = Head(fifo.data)
                  /\ requestFifo' = [requestFifo EXCEPT ![requestFd[s]] = Drop(@)]
               \/ /\ AtEOF(fifo) /\ r.from = None
                  /\ UNCHANGED requestFifo
            /\ request' = [request EXCEPT ![s] = r]
            /\ nextTicket' = [nextTicket EXCEPT ![s] = Wrap(@ + r.numTickets)]
    /\ Goto(s, "respond")
    /\ UNCHANGED <<requestPath, responsePath, responseFifo, requestFd, dummyFd>>

\* open() of a name nobody has made: the server exits at its first request.
Respond(s) ==
    /\ serverPc[s] = "respond"
    /\ ServerExit(s)
    /\ UNCHANGED <<request, nextTicket>>

-----------------------------------------------------------------------------
ServerStep(s) ==
    \/ MakeRequestFifo(s) \/ ServerFails(s) \/ OpenRequestFifo(s) \/ OpenDummy(s)
    \/ ReadRequest(s) \/ Respond(s)

ServerNext(s) ==
    /\ Start(s) \/ ServerStep(s) \/ (s \in Interruptible /\ Interrupt(s))
    /\ UNCHANGED clientVars

ClientNext(c) ==
    /\ StartClient(c) \/ ClientStep(c) \/ (c \in Interruptible /\ ClientInterrupt(c))
    /\ UNCHANGED serverVars

Next ==
    \/ \E s \in Servers : ServerNext(s)
    \/ \E c \in Clients : ClientNext(c)

Spec == Init /\ [][Next]_vars
FairSpec ==
    /\ Spec
    /\ \A s \in Servers : WF_vars(ServerStep(s) /\ UNCHANGED clientVars)
    /\ \A c \in Clients : WF_vars(ClientStep(c) /\ UNCHANGED serverVars)

-----------------------------------------------------------------------------
\* Line 97: "send the response to the correct client".
EveryRequestAnswered ==
    \A c \in Clients :
        clientPc[c] = "closeRequest" ~> clientPc[c] = "done" /\ got[c] \in Responses
=============================================================================
