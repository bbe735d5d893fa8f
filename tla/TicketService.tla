--------------------------- MODULE TicketService ---------------------------
(***************************************************************************)
(* The ticket service: runs of the server and of the client that meet in    *)
(* one directory, each stepped by the scheduler in any order, some of them  *)
(* interrupted from the keyboard.                                           *)
(***************************************************************************)
EXTENDS TicketServer, TicketClient

CONSTANT Interruptible      \* the runs somebody may press CTRL+C on
ASSUME InterruptAssumption == Interruptible \subseteq Servers \cup Clients

vars == <<fifoVars, serverVars, clientVars>>

Init == FifoInit /\ ServerInit /\ ClientInit

ServerNext(s) ==
    /\ \/ Start(s)
       \/ MainStep(s)
       \/ \E t \in Threads : HandlerStep(s, t)
       \/ s \in Interruptible /\ Interrupt(s)
       \/ Die(s)
    /\ UNCHANGED clientVars

ClientNext(c) ==
    /\ \/ StartClient(c)
       \/ ClientStep(c)
       \/ c \in Interruptible /\ ClientInterrupt(c)
    /\ UNCHANGED serverVars

Next ==
    \/ \E s \in Servers : ServerNext(s)
    \/ \E c \in Clients : ClientNext(c)

Spec == Init /\ [][Next]_vars

TypeOK == FifoTypeOK /\ ServerTypeOK /\ ClientTypeOK

-----------------------------------------------------------------------------
(* The counter *)

\* The handlers that have advanced the counter.
HasTickets(s, t) ==
    handlerPc[s][t] \in {"unlock", "open", "write", "close", "done", "exit"}

Dispenser == INSTANCE TicketDispenser WITH
    next <- nextTicket,
    total <- issued,
    granted <- [s \in Servers |-> [t \in Threads |->
        IF HasTickets(s, t)
        THEN [firstTicket |-> response[s][t].firstTicket,
              lastTicket |-> response[s][t].lastTicket]
        ELSE None]]

\* The mutex makes the read of the counter and its update in giveOutTickets
\* one step of the dispenser, whatever the handlers of a server interleave.
ImplementsDispenser == Dispenser!Spec

\* The tickets of a response whose numbers did not wrap.
Tickets(r) == r.firstTicket .. r.lastTicket

\* What the customers see: two clients of one server never hold the same
\* ticket before the counter of that server wraps.
NoTicketSoldTwice ==
    \A c, d \in Clients :
        /\ c # d
        /\ got[c] \in Responses /\ got[d] \in Responses
        /\ got[c].by[1] = got[d].by[1]
        /\ issued[got[c].by[1]] < UINT
        => Tickets(got[c]) \cap Tickets(got[d]) = {}

-----------------------------------------------------------------------------
(* Requests and responses *)

Answered(c) == got[c] \in Responses
Behind(r) == job[r.by[1]][r.by[2]]  \* the request a response answers

\* A run that was killed while it had the process id of c.
PidWasKilled(c) == \E d \in Clients \ {c} : PidOf[d] = PidOf[c] /\ clientPc[d] = "dead"

\* A server whose two opens of the name found different FIFOs, which takes two
\* other servers started in between: one that fails and takes the name away,
\* one that makes it again.  The end of file comes in the midst of its requests,
\* and it takes each for one more request.
SomeServerAstray == \E s \in Servers : dummyFd[s] \notin {None, requestFd[s]}

\* "Send the response to the correct client" (line 82), and for the number of
\* tickets it asked for: every client reads the response to its own request.
\* The exceptions are a process id that a killed client left behind, and a
\* server astray, which may answer anybody.
CorrectClient ==
    \A c \in Clients : Answered(c) /\ ~PidWasKilled(c) /\ ~SomeServerAstray =>
        /\ Behind(got[c]).from = c
        /\ got[c].lastTicket = Wrap(got[c].firstTicket + numTickets[c] - 1)

\* The same comment without the exception.  It fails: a handler that is late
\* finds the FIFO of the next process with that id.
ResponseToItsClient ==
    \A c \in Clients : Answered(c) => Behind(got[c]).from = c

Started(s) == {t \in Threads : handlerPc[s][t] # "none"}
Work(s, t) == IF handlerPc[s][t] = "copy" THEN input[s][t] ELSE job[s][t]

\* Every handler of a server works on a request of its own, which a client has
\* written: none is handled twice (the reason of the copy, lines 174-178) and
\* none is made up from an end of file (the reason of the dummy descriptor,
\* line 158).  The exception is a server astray.
OneHandlerPerRequest ==
    \A s \in Servers : dummyFd[s] = requestFd[s] =>
        \A t \in Started(s) :
            /\ Work(s, t).from # None
            /\ \A u \in Started(s) \ {t} : Work(s, u).from # Work(s, t).from

SomeServerGone == \E s \in Servers : process[s] = "gone"

\* What a client prints is the answer to its own request.  The exceptions: a
\* process id a killed client had and a server astray, as above, and garbage
\* where a server died under the client, the one case in which the end of file
\* comes before the response.
PrintsItsAnswer ==
    \A c \in Clients : got[c] # None =>
        \/ /\ Answered(c)
           /\ Behind(got[c]).from = c \/ PidWasKilled(c) \/ SomeServerAstray
        \/ got[c] = Garbage /\ SomeServerGone

-----------------------------------------------------------------------------
(* Names in the file system *)

\* A server between mkfifo() and its end.
Serving(s) == process[s] = "running" /\ mainPc[s] \notin {"start", "mkfifo"}

\* A server that runs can be reached by name, until another one that was
\* started beside it fails and takes the name away.
ReachableUnlessTakenAway ==
    \A s \in Servers : Serving(s) =>
        \/ requestPath = s
        \/ \E r \in Servers \ {s} : process[r] \in {"exiting", "gone"}

\* A client in the middle of its run still owns its name, so that the server
\* finds it and OpenOwnFifo opens what the run created.
OwnsItsName ==
    \A c \in Clients : clientPc[c] \notin {"start", "done", "dead"} =>
        responsePath[PidOf[c]] = c

-----------------------------------------------------------------------------
(* Progress *)

\* In the end every client that was started has ended, and one that wrote its
\* request has its answer, whatever the handlers interleave, unless it is killed
\* or a server has gone: only then can an open() find nobody on the other side
\* for ever.
Settled(c) ==
    \/ clientPc[c] \in {"start", "dead"}
    \/ clientPc[c] = "done" /\ (requestEnd[c] # None => Answered(c))
EveryRequestAnswered ==
    <>[](\A c \in Clients : Settled(c) \/ SomeServerGone)
=============================================================================
