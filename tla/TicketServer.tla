---------------------------- MODULE TicketServer ----------------------------
(***************************************************************************)
(* The multithreaded ticket server, class9/multithreaFfifoserver.c: a main  *)
(* thread that reads requests from the request FIFO and starts one detached *)
(* thread per request, which takes the tickets from a shared counter under  *)
(* a mutex and answers on the response FIFO of the client.                  *)
(*                                                                          *)
(* open() is split: an action registers the end, and the action after it    *)
(* waits until the open has returned.  Failures the program cannot meet     *)
(* here (of atexit, signal, mutex calls, close, malloc, pthread_create) are *)
(* left out.                                                                *)
(***************************************************************************)
EXTENDS TicketProtocol

VARIABLES
    process,        \* "new", "running", "exiting" (exit handler done), "gone"
    mainPc,         \* the main thread
    requestFd,      \* requestFifoDescriptor: whose FIFO is read
    dummyFd,        \* dummyDescriptor: whose FIFO is held open for writing
    request,        \* main's one Request variable
    spawned,        \* handler threads started so far
    handlerPc,      \* each handler
    input,          \* the Request main allocated for it
    job,            \* its own copy
    response,
    responseFd,     \* responseFifoDescriptor: whose FIFO is written
    nextTicket,
    mutex,          \* the handler that holds it, 0 when free
    issued          \* history: how many tickets were given out, not wrapped

mainVars == <<process, mainPc, requestFd, dummyFd, request, spawned>>
handlerVars == <<handlerPc, input, job, response, responseFd>>
counterVars == <<nextTicket, mutex, issued>>
serverVars == <<mainVars, handlerVars, counterVars>>

MainPcs == {"start", "mkfifo", "openRead", "openDummy", "read", "spawn", "exit"}
HandlerPcs == {"none", "copy", "lock", "first", "next", "unlock", "open",
               "write", "close", "done", "exit"}
\* What a handler may have in a pointer, a struct or a descriptor.
MaybeRequest == Requests \cup {None}
MaybeResponse == Responses \cup {None}

ServerTypeOK ==
    /\ process \in [Servers -> {"new", "running", "exiting", "gone"}]
    /\ mainPc \in [Servers -> MainPcs]
    /\ requestFd \in [Servers -> Servers \cup {None}]
    /\ dummyFd \in [Servers -> Servers \cup {None}]
    /\ request \in [Servers -> MaybeRequest]
    /\ spawned \in [Servers -> 0 .. MaxThreads]
    /\ handlerPc \in [Servers -> [Threads -> HandlerPcs]]
    /\ input \in [Servers -> [Threads -> MaybeRequest]]
    /\ job \in [Servers -> [Threads -> MaybeRequest]]
    /\ response \in [Servers -> [Threads -> MaybeResponse]]
    /\ responseFd \in [Servers -> [Threads -> Clients \cup {None}]]
    /\ nextTicket \in [Servers -> Unsigned]
    /\ mutex \in [Servers -> 0 .. MaxThreads]
    /\ issued \in [Servers -> Nat]

ServerInit ==
    /\ process = [s \in Servers |-> "new"]
    /\ mainPc = [s \in Servers |-> "start"]
    /\ requestFd = [s \in Servers |-> None]
    /\ dummyFd = [s \in Servers |-> None]
    /\ request = [s \in Servers |-> None]
    /\ spawned = [s \in Servers |-> 0]
    /\ handlerPc = [s \in Servers |-> [t \in Threads |-> "none"]]
    /\ input = [s \in Servers |-> [t \in Threads |-> None]]
    /\ job = [s \in Servers |-> [t \in Threads |-> None]]
    /\ response = [s \in Servers |-> [t \in Threads |-> None]]
    /\ responseFd = [s \in Servers |-> [t \in Threads |-> None]]
    /\ nextTicket = [s \in Servers |-> 1]
    /\ mutex = [s \in Servers |-> 0]
    /\ issued = [s \in Servers |-> 0]

\* Threads of a process run until it is gone, also while another thread of it
\* is in exit().
Alive(s) == process[s] \in {"running", "exiting"}
MainEnd(s) == <<s, 0>>

-----------------------------------------------------------------------------
(* The end of the process *)

\* exit(): the first call runs the exit handler, which unlinks the name
\* "RequestFifo", whoever made the FIFO it leads to.
RunExitHandler(s) ==
    IF process[s] = "running"
    THEN /\ process' = [process EXCEPT ![s] = "exiting"]
         /\ requestPath' = None
    ELSE UNCHANGED <<process, requestPath>>

\* The process ends once exit() is over: its threads with it.
Die(s) ==
    /\ process[s] = "exiting"
    /\ process' = [process EXCEPT ![s] = "gone"]
    /\ CloseAll(s)
    /\ UNCHANGED <<requestPath, responsePath, mainPc, requestFd, dummyFd,
                   request, spawned, handlerVars, counterVars>>

\* A call of exit() by the main thread.
MainExit(s) ==
    /\ RunExitHandler(s)
    /\ mainPc' = [mainPc EXCEPT ![s] = "exit"]
    /\ UNCHANGED <<requestFifo, responsePath, responseFifo, requestFd, dummyFd,
                   request, spawned, handlerVars, counterVars>>

\* CTRL+C: the signal handler runs in the main thread, which never blocks
\* the signal.
Interrupt(s) ==
    /\ process[s] = "running"
    /\ MainExit(s)

-----------------------------------------------------------------------------
(* The main thread *)

\* The program starts and registers its two handlers.
Start(s) ==
    /\ process[s] = "new"
    /\ process' = [process EXCEPT ![s] = "running"]
    /\ mainPc' = [mainPc EXCEPT ![s] = "mkfifo"]
    /\ UNCHANGED <<fifoVars, requestFd, dummyFd, request, spawned,
                   handlerVars, counterVars>>

\* A faulty variant: the name is taken over instead of refused.
TakeOverName(s) ==
    /\ Alive(s) /\ mainPc[s] = "mkfifo"
    /\ requestPath' = s
    /\ mainPc' = [mainPc EXCEPT ![s] = "openRead"]
    /\ UNCHANGED <<requestFifo, responsePath, responseFifo, process, requestFd,
                   dummyFd, request, spawned, handlerVars, counterVars>>

MakeRequestFifo(s) ==
    /\ Alive(s) /\ mainPc[s] = "mkfifo"
    /\ requestPath = None
    /\ requestPath' = s
    /\ mainPc' = [mainPc EXCEPT ![s] = "openRead"]
    /\ UNCHANGED <<requestFifo, responsePath, responseFifo, process, requestFd,
                   dummyFd, request, spawned, handlerVars, counterVars>>

\* mkfifo() finds the name taken, an open() finds it gone.
MainFails(s) ==
    /\ Alive(s)
    /\ \/ mainPc[s] = "mkfifo" /\ requestPath # None
       \/ mainPc[s] = "openRead" /\ requestPath = None
       \/ /\ mainPc[s] = "openDummy" /\ requestPath = None
          /\ Opened(requestFifo[requestFd[s]], MainEnd(s))
    /\ MainExit(s)

OpenRequestFifo(s) ==
    /\ Alive(s) /\ mainPc[s] = "openRead"
    /\ requestPath # None
    /\ requestFd' = [requestFd EXCEPT ![s] = requestPath]
    /\ requestFifo' = [requestFifo EXCEPT
                         ![requestPath] = OpenForReading(@, MainEnd(s))]
    /\ mainPc' = [mainPc EXCEPT ![s] = "openDummy"]
    /\ UNCHANGED <<requestPath, responsePath, responseFifo, process, dummyFd,
                   request, spawned, handlerVars, counterVars>>

\* A faulty variant: no dummy descriptor.
OpenNoDummy(s) ==
    /\ Alive(s) /\ mainPc[s] = "openDummy"
    /\ Opened(requestFifo[requestFd[s]], MainEnd(s))
    /\ dummyFd' = [dummyFd EXCEPT ![s] = requestFd[s]]
    /\ mainPc' = [mainPc EXCEPT ![s] = "read"]
    /\ UNCHANGED <<fifoVars, process, requestFd, request, spawned,
                   handlerVars, counterVars>>

\* The open for reading returns, and main opens the name again for writing.
OpenDummy(s) ==
    /\ Alive(s) /\ mainPc[s] = "openDummy"
    /\ Opened(requestFifo[requestFd[s]], MainEnd(s))
    /\ requestPath # None
    /\ dummyFd' = [dummyFd EXCEPT ![s] = requestPath]
    /\ requestFifo' = [requestFifo EXCEPT
                         ![requestPath] = OpenForWriting(@, MainEnd(s))]
    /\ mainPc' = [mainPc EXCEPT ![s] = "read"]
    /\ UNCHANGED <<requestPath, responsePath, responseFifo, process, requestFd,
                   request, spawned, handlerVars, counterVars>>

\* read() into the one Request variable.  At the end of file it returns 0,
\* which main takes for a request: the variable keeps what was in it, which
\* before the first request is anything.
ReadRequest(s) ==
    /\ Alive(s) /\ mainPc[s] = "read"
    /\ Opened(requestFifo[dummyFd[s]], MainEnd(s))
    /\ LET fifo == requestFifo[requestFd[s]]
       IN  \/ /\ HasData(fifo)
              /\ request' = [request EXCEPT ![s] = Head(fifo.data)]
              /\ requestFifo' = [requestFifo EXCEPT ![requestFd[s]] = Drop(@)]
           \/ /\ AtEOF(fifo)
              /\ \E r \in Requests :
                    /\ IF request[s] = None THEN r.from = None ELSE r = request[s]
                    /\ request' = [request EXCEPT ![s] = r]
              /\ UNCHANGED requestFifo
    /\ mainPc' = [mainPc EXCEPT ![s] = "spawn"]
    /\ UNCHANGED <<requestPath, responsePath, responseFifo, process, requestFd,
                   dummyFd, spawned, handlerVars, counterVars>>

\* malloc, memcpy, pthread_create, pthread_detach.
SpawnHandler(s) ==
    /\ Alive(s) /\ mainPc[s] = "spawn"
    /\ spawned[s] < MaxThreads
    /\ LET t == spawned[s] + 1
       IN  /\ spawned' = [spawned EXCEPT ![s] = t]
           /\ input' = [input EXCEPT ![s][t] = request[s]]
           /\ handlerPc' = [handlerPc EXCEPT ![s][t] = "copy"]
    /\ mainPc' = [mainPc EXCEPT ![s] = "read"]
    /\ UNCHANGED <<fifoVars, process, requestFd, dummyFd, request,
                   job, response, responseFd, counterVars>>

-----------------------------------------------------------------------------
(* giveOutTickets: handler thread t of server s *)

At(s, t, l) == Alive(s) /\ handlerPc[s][t] = l
Goto(s, t, l) == handlerPc' = [handlerPc EXCEPT ![s][t] = l]

\* A faulty variant: the pointer is to main's variable, not to a copy.
SharedRequest(s, t) == request[s]

\* The request behind the pointer a handler is given.
RequestBehind(s, t) == input[s][t]

CopyRequest(s, t) ==
    /\ At(s, t, "copy")
    /\ job' = [job EXCEPT ![s][t] = RequestBehind(s, t)]
    /\ Goto(s, t, "lock")
    /\ UNCHANGED <<fifoVars, mainVars, input, response, responseFd, counterVars>>

\* A faulty variant: no lock at all.
NoLock(s, t) == TRUE

CanLock(s, t) == mutex[s] = 0

Lock(s, t) ==
    /\ At(s, t, "lock")
    /\ CanLock(s, t)
    /\ mutex' = [mutex EXCEPT ![s] = t]
    /\ Goto(s, t, "first")
    /\ UNCHANGED <<fifoVars, mainVars, input, job, response, responseFd,
                   nextTicket, issued>>

\* The response for a request when the counter has the value n.
Answer(s, t, n) ==
    [firstTicket |-> n,
     lastTicket |-> Wrap(n + job[s][t].numTickets - 1),
     by |-> <<s, t>>]

\* response.firstTicket = nextTicket; response.lastTicket = ...
TakeTickets(s, t) ==
    /\ At(s, t, "first")
    /\ response' = [response EXCEPT ![s][t] = Answer(s, t, nextTicket[s])]
    /\ Goto(s, t, "next")
    /\ UNCHANGED <<fifoVars, mainVars, input, job, responseFd, counterVars>>

\* Two faulty variants: the counter is left at the last ticket sold, and it is
\* wider than a ticket number.
LastTicket(r) == r.lastTicket
TicketAfterUnwrapped(r) == r.lastTicket + 1

\* The first ticket after a response.
TicketAfter(r) == Wrap(r.lastTicket + 1)

\* nextTicket = response.lastTicket + 1
AdvanceCounter(s, t) ==
    /\ At(s, t, "next")
    /\ nextTicket' = [nextTicket EXCEPT ![s] = TicketAfter(response[s][t])]
    /\ issued' = [issued EXCEPT ![s] = @ + job[s][t].numTickets]
    /\ Goto(s, t, "unlock")
    /\ UNCHANGED <<fifoVars, mainVars, input, job, response, responseFd, mutex>>

\* A faulty variant: the mutex is not released.
ForgetUnlock(s, t) ==
    /\ At(s, t, "unlock")
    /\ Goto(s, t, "open")
    /\ UNCHANGED <<fifoVars, mainVars, input, job, response, responseFd,
                   counterVars>>

Unlock(s, t) ==
    /\ At(s, t, "unlock")
    /\ mutex' = [mutex EXCEPT ![s] = 0]
    /\ Goto(s, t, "open")
    /\ UNCHANGED <<fifoVars, mainVars, input, job, response, responseFd,
                   nextTicket, issued>>

\* The name made from the client id of the request leads to its FIFO, or to
\* nothing: then the thread takes the whole server down.
ResponsePathFor(s, t) == responsePath[job[s][t].clientId]

OpenResponse(s, t) ==
    /\ At(s, t, "open")
    /\ LET c == ResponsePathFor(s, t)
       IN  /\ c # None
           /\ responseFd' = [responseFd EXCEPT ![s][t] = c]
           /\ responseFifo' = [responseFifo EXCEPT ![c] = OpenForWriting(@, <<s, t>>)]
    /\ Goto(s, t, "write")
    /\ UNCHANGED <<requestPath, requestFifo, responsePath, mainVars, input, job,
                   response, counterVars>>

HandlerFails(s, t) ==
    /\ At(s, t, "open")
    /\ ResponsePathFor(s, t) = None
    /\ RunExitHandler(s)
    /\ Goto(s, t, "exit")
    /\ UNCHANGED <<requestFifo, responsePath, responseFifo, mainPc, requestFd,
                   dummyFd, request, spawned, input, job, response, responseFd,
                   counterVars>>

\* A faulty variant: the response FIFO is closed before the write.
SkipWrite(s, t) ==
    /\ At(s, t, "write")
    /\ Opened(responseFifo[responseFd[s][t]], <<s, t>>)
    /\ Goto(s, t, "close")
    /\ UNCHANGED <<fifoVars, mainVars, input, job, response, responseFd,
                   counterVars>>

WriteResponse(s, t) ==
    /\ At(s, t, "write")
    /\ LET c == responseFd[s][t]
       IN  /\ Opened(responseFifo[c], <<s, t>>)
           /\ ~Broken(responseFifo[c])
           /\ responseFifo' = [responseFifo EXCEPT ![c] = Put(@, response[s][t])]
    /\ Goto(s, t, "close")
    /\ UNCHANGED <<requestPath, requestFifo, responsePath, mainVars, input, job,
                   response, responseFd, counterVars>>

\* The reader is dead: SIGPIPE, which the server leaves at its default, kills
\* the process.  No exit handler runs.
BrokenPipe(s, t) ==
    /\ At(s, t, "write")
    /\ LET c == responseFd[s][t]
       IN  Opened(responseFifo[c], <<s, t>>) /\ Broken(responseFifo[c])
    /\ process' = [process EXCEPT ![s] = "gone"]
    /\ CloseAll(s)
    /\ UNCHANGED <<requestPath, responsePath, mainPc, requestFd, dummyFd,
                   request, spawned, handlerVars, counterVars>>

\* close, free, pthread_exit.
FinishHandler(s, t) ==
    /\ At(s, t, "close")
    /\ responseFifo' = [responseFifo EXCEPT
                          ![responseFd[s][t]] = CloseEnds(@, {<<s, t>>})]
    /\ input' = [input EXCEPT ![s][t] = None]
    /\ Goto(s, t, "done")
    /\ UNCHANGED <<requestPath, requestFifo, responsePath, mainVars, job,
                   response, responseFd, counterVars>>

-----------------------------------------------------------------------------
MainStep(s) ==
    \/ MakeRequestFifo(s) \/ OpenRequestFifo(s) \/ OpenDummy(s) \/ MainFails(s)
    \/ ReadRequest(s) \/ SpawnHandler(s)

HandlerStep(s, t) ==
    \/ CopyRequest(s, t)
    \/ Lock(s, t) \/ TakeTickets(s, t) \/ AdvanceCounter(s, t) \/ Unlock(s, t)
    \/ OpenResponse(s, t) \/ HandlerFails(s, t)
    \/ WriteResponse(s, t) \/ BrokenPipe(s, t) \/ FinishHandler(s, t)
=============================================================================
