------------------------------- MODULE MqTools -------------------------------
(***************************************************************************)
(* The exercises of class9 and assignment5 with one message queue: three    *)
(* groups of programs, each with a name of its own for the queue, of which  *)
(* one group is run.  The user starts a few of its programs, in any order   *)
(* and at any time.  A queue is called after the run that created it; it    *)
(* lives on without its name as long as somebody has it open.               *)
(***************************************************************************)
EXTENDS Integers, FiniteSets, SequencesExt

CONSTANTS
    Runs,           \* programs that are started, each once
    MaxMsg,         \* mq_maxmsg, and the number of messages of a writer (5)
    MayFail,        \* the runs that may be killed, or see a call fail
    None

ToolsAssumption == MaxMsg \in Nat \ {0} /\ MayFail \subseteq Runs /\ None \notin Runs

\* What a program does with the queue: it creates it or wants it to be there,
\* sends so many messages, reads for ever, or until the queue is empty, or as
\* many messages as there were in the beginning, and unlinks the name.
mqCreate == [creates |-> TRUE, sends |-> 0, reads |-> "nothing", unlinks |-> "never"]
mqWrite == [mqCreate EXCEPT !.creates = FALSE, !.sends = MaxMsg]
mqWriteAndCreat == [mqWrite EXCEPT !.creates = TRUE, !.unlinks = "onFailure"]
mqRead == [mqCreate EXCEPT !.creates = FALSE, !.reads = "forever"]
mqNameWriter == mqWriteAndCreat
mqNameReader == [mqRead EXCEPT !.reads = "untilEmpty"]
mqwriter == [mqCreate EXCEPT !.reads = "counted"]
mqreader == [mqwriter EXCEPT !.creates = FALSE, !.unlinks = "always"]
\* Both programs of assignment5 read; who writes is not in the repository.
otherWriter == mqWrite

Groups == {{mqCreate, mqWrite, mqWriteAndCreat, mqRead},
           {mqNameWriter, mqNameReader}, {mqreader, mqwriter, otherWriter}}

VARIABLES
    tool,       \* the program of each run
    at,         \* where it is
    name,       \* the queue that has the name
    messages,   \* what is in each queue
    held,       \* the queue a run has open
    sent, left, \* how many messages it has sent, and wants to receive
    taken,      \* what it has received
    seen,       \* history: what was in the queue when it looked
    destroyed   \* history: what vanished with a queue

vars == <<tool, at, name, messages, held, sent, left, taken, seen, destroyed>>

Init ==
    /\ \E group \in Groups : tool \in [Runs -> group]
    /\ at = [r \in Runs |-> "start"]
    /\ name = None
    /\ messages = [r \in Runs |-> << >>]
    /\ held = [r \in Runs |-> None]
    /\ sent = [r \in Runs |-> 0] /\ left = [r \in Runs |-> 0]
    /\ taken = [r \in Runs |-> << >>]
    /\ seen = [r \in Runs |-> {}] /\ destroyed = {}

Goto(r, place) == at' = [at EXCEPT ![r] = place]
Queue(r) == messages[held[r]]

\* mq_send: behind the messages of the same or a higher priority.
Insert(q, m) ==
    InsertAt(q, 1 + Cardinality({i \in DOMAIN q : q[i].priority >= m.priority}), m)

-----------------------------------------------------------------------------
Start(r) ==
    /\ at[r] = "start"
    /\ Goto(r, "open")
    /\ UNCHANGED <<tool, name, messages, held, sent, left, taken, seen, destroyed>>

\* mq_open, with and without O_CREAT.
Open(r) ==
    /\ at[r] = "open"
    /\ tool[r].creates \/ name # None
    /\ name' = IF name = None THEN r ELSE name
    /\ held' = [held EXCEPT ![r] = name']
    /\ Goto(r, IF tool[r].sends > 0 THEN "send"
               ELSE IF tool[r].reads = "nothing" THEN "close" ELSE "look")
    /\ UNCHANGED <<tool, messages, sent, left, taken, seen, destroyed>>

\* A faulty variant: mq_maxmsg in the place of mq_curmsgs.
LookAtLimit(r) ==
    /\ at[r] = "look"
    /\ left' = [left EXCEPT ![r] = MaxMsg]
    /\ seen' = [seen EXCEPT ![r] = ToSet(Queue(r))]
    /\ Goto(r, "receive")
    /\ UNCHANGED <<tool, name, messages, held, sent, taken, destroyed>>

\* mq_getattr
Look(r) ==
    /\ at[r] = "look"
    /\ left' = [left EXCEPT ![r] = Len(Queue(r))]
    /\ seen' = [seen EXCEPT ![r] = ToSet(Queue(r))]
    /\ Goto(r, "receive")
    /\ UNCHANGED <<tool, name, messages, held, sent, taken, destroyed>>

\* mq_send waits while the queue is full; the index is the priority.
Send(r) ==
    /\ at[r] = "send"
    /\ Len(Queue(r)) < MaxMsg
    /\ messages' = [messages EXCEPT
            ![held[r]] = Insert(@, [from |-> r, priority |-> sent[r]])]
    /\ sent' = [sent EXCEPT ![r] = @ + 1]
    /\ Goto(r, IF sent'[r] < tool[r].sends THEN "send" ELSE "close")
    /\ UNCHANGED <<tool, name, held, left, taken, seen, destroyed>>

\* A reader that counts has what it wants.
HasAll(r) == tool[r].reads = "counted" /\ left[r] = 0

\* mq_receive waits while the queue is empty.
Receive(r) ==
    /\ at[r] = "receive" /\ ~HasAll(r)
    /\ Queue(r) # << >>
    /\ taken' = [taken EXCEPT ![r] = Append(@, Head(Queue(r)))]
    /\ messages' = [messages EXCEPT ![held[r]] = Tail(@)]
    /\ left' = [left EXCEPT ![r] = IF tool[r].reads = "counted" THEN @ - 1 ELSE @]
    /\ UNCHANGED <<tool, at, name, held, sent, seen, destroyed>>

-----------------------------------------------------------------------------
(* The end of a run *)

\* The process closes the queue, and unlinks the name, whatever queue has it.  A
\* queue without a name that nobody has open vanishes with its messages.
Leave(r, place, unlink) ==
    /\ Goto(r, place)
    /\ name' = IF unlink THEN None ELSE name
    /\ held' = [held EXCEPT ![r] = None]
    /\ LET gone == {q \in Runs : q # name' /\ \A s \in Runs : held'[s] # q}
       IN  /\ messages' = [q \in Runs |-> IF q \in gone THEN << >> ELSE messages[q]]
           /\ destroyed' = destroyed \cup UNION {ToSet(messages[q]) : q \in gone}
    /\ UNCHANGED <<tool, sent, left, taken, seen>>

OpenFails(r) ==
    /\ at[r] = "open" /\ ~tool[r].creates /\ name = None
    /\ Leave(r, "failed", FALSE)

\* mqNameReader does not wait: the mq_receive that finds nothing fails, and with
\* it the program.
QueueEmpty(r) ==
    /\ at[r] = "receive" /\ tool[r].reads = "untilEmpty"
    /\ Queue(r) = << >>
    /\ Leave(r, "empty", FALSE)

Finish(r) ==
    /\ at[r] = "close" \/ (at[r] = "receive" /\ HasAll(r))
    /\ Leave(r, "done", tool[r].unlinks = "always")

\* mq_send, mq_receive, or the mq_getattr of those who look at its result fails.
CallFails(r) ==
    /\ r \in MayFail /\ at[r] \in {"look", "send", "receive"}
    /\ at[r] = "look" => tool[r].reads = "counted"
    /\ Leave(r, "failed", tool[r].unlinks # "never")

Kill(r) ==
    /\ r \in MayFail /\ at[r] \in {"look", "send", "receive", "close"}
    /\ Leave(r, "killed", FALSE)

Next ==
    \E r \in Runs :
        \/ Start(r) \/ Open(r) \/ Look(r) \/ Send(r) \/ Receive(r)
        \/ OpenFails(r) \/ QueueEmpty(r) \/ Finish(r) \/ CallFails(r) \/ Kill(r)

-----------------------------------------------------------------------------
Sent == UNION {{[from |-> r, priority |-> i] : i \in 0 .. sent[r] - 1} : r \in Runs}

\* The places of message m: in queues, in the hands of readers, destroyed.
Found(m, place, s) == UNION {{<<place, r, i>> : i \in {k \in DOMAIN s[r] : s[r][k] = m}} : r \in Runs}
Places(m) ==
    Found(m, "queue", messages) \cup Found(m, "reader", taken)
        \cup {<<"destroyed", None, d>> : d \in destroyed \cap {m}}

Unlinkers(r) == tool[r].unlinks = "always" /\ at[r] \in {"done", "failed"}

\* The messages of the tools, whoever reads them at the same time:
\*   - each that was sent is in one place;
\*   - they vanish only behind a run that unlinks: assignment5/mqreader.c at its
\*     end, the writers that create a queue when a mq_send fails;
\*   - mqNameReader.c, which reports a failure whenever the queue is empty, has
\*     left nothing behind that was there when it came, nor has mqRead.c where it
\*     waits;
\*   - the readers of assignment5 have got, at their end, as many messages as
\*     there were, though not the same ones if a message of a higher priority
\*     came later; only then is one of these lost.  They wait for a message that
\*     was counted only if another reader has taken it.
ToolsTrue ==
    /\ \A m \in Sent : Cardinality(Places(m)) = 1
    /\ destroyed # {} =>
        \E r \in Runs : Unlinkers(r) \/ (tool[r].unlinks = "onFailure" /\ at[r] = "failed")
    /\ \A r \in Runs :
        LET others == UNION {ToSet(taken[s]) : s \in Runs \ {r}}
            missed == seen[r] \ (ToSet(taken[r]) \cup others)
            waits == at[r] = "receive" /\ Queue(r) = << >> /\ ~HasAll(r)
        IN  /\ at[r] = "empty" \/ (waits /\ tool[r].reads = "forever") =>
                missed = {}
            /\ at[r] = "done" /\ tool[r].reads = "counted" =>
                /\ Len(taken[r]) = Cardinality(seen[r])
                /\ missed # {} => ~(ToSet(taken[r]) \subseteq seen[r])
            /\ waits /\ tool[r].reads = "counted" => seen[r] \cap others # {}
=============================================================================
