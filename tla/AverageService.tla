--------------------------- MODULE AverageService ---------------------------
(***************************************************************************)
(* class9/Practice/Fifoserver.c and Fifoclient.c, a pair of programs made   *)
(* from the ticket server and its client: a client sends ten numbers and    *)
(* reads their average.  The protocol, the FIFOs and the exit handlers are  *)
(* those of TicketService, and so are the variables: numTickets stands for  *)
(* the numbers of a request, both numbers of a response for the average.    *)
(* What is different is what a handler does under the mutex: it reads and   *)
(* writes local variables, and nextTicket, which is still there, is not     *)
(* used.  One of the two services is run.                                   *)
(***************************************************************************)
EXTENDS TicketService

VARIABLE service        \* "tickets" or "average"

serviceVars == <<vars, service>>

ServiceInit == Init /\ service \in {"tickets", "average"}

-----------------------------------------------------------------------------
(* The programs that compute an average *)

\* The average of the numbers of a request is told from another one by them.
Average(r) == r.numTickets

\* The response is computed from the handler's own copy of the request.
ComputeAverage(s, t) ==
    /\ At(s, t, "first")
    /\ response' = [response EXCEPT ![s][t] =
            [firstTicket |-> Average(job[s][t]), lastTicket |-> Average(job[s][t]),
             by |-> <<s, t>>]]
    /\ Goto(s, t, "unlock")
    /\ UNCHANGED <<fifoVars, mainVars, input, job, responseFd, counterVars>>

\* executeAndSend: copy, lock, compute, unlock, open, write, close.
executeAndSend(s, t) ==
    \/ CopyRequest(s, t)
    \/ Lock(s, t) \/ ComputeAverage(s, t) \/ Unlock(s, t)
    \/ OpenResponse(s, t) \/ HandlerFails(s, t)
    \/ WriteResponse(s, t) \/ BrokenPipe(s, t) \/ FinishHandler(s, t)

\* What the other functions do is what those of the ticket service do.
main(s) == MainStep(s)
handleInterruptSignal(s) == Interrupt(s)
clientStart(c) == StartClient(c)
clientMain(c) == ClientStep(c)

-----------------------------------------------------------------------------
Handler(s, t) ==
    \/ service = "tickets" /\ HandlerStep(s, t)
    \/ service = "average" /\ executeAndSend(s, t)

ServiceNext ==
    /\ \/ \E s \in Servers :
            /\ \/ Start(s) \/ main(s) \/ Die(s)
               \/ \E t \in Threads : Handler(s, t)
               \/ s \in Interruptible /\ handleInterruptSignal(s)
            /\ UNCHANGED clientVars
       \/ \E c \in Clients :
            /\ \/ clientStart(c) \/ clientMain(c)
               \/ c \in Interruptible /\ ClientInterrupt(c)
            /\ UNCHANGED serverVars
    /\ UNCHANGED service

\* A thread that can take a step is scheduled in the end.  Nobody has to start
\* a program, or to interrupt one.
FairServiceSpec ==
    /\ ServiceInit /\ [][ServiceNext]_serviceVars
    /\ \A s \in Servers :
        /\ WF_serviceVars(main(s) /\ UNCHANGED <<clientVars, service>>)
        /\ \A t \in Threads :
            WF_serviceVars(Handler(s, t) /\ UNCHANGED <<clientVars, service>>)
        /\ WF_serviceVars(Die(s) /\ UNCHANGED <<clientVars, service>>)
    /\ \A c \in Clients :
        WF_serviceVars(clientMain(c) /\ UNCHANGED <<serverVars, service>>)
=============================================================================
