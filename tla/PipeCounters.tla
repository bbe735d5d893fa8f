---------------------------- MODULE PipeCounters ----------------------------
(***************************************************************************)
(* class7/threeTasksSychnronizationPipes.c: two children write one byte to  *)
(* a pipe after each of three tasks, and the parent counts the bytes.       *)
(***************************************************************************)
EXTENDS Integers, Sequences, FiniteSets

CONSTANT MayDie         \* the children that may be killed

Children == {1, 2}
Tasks == 1 .. 3
CountersAssumption == MayDie \subseteq Children

VARIABLES
    parent,         \* where the parent is
    index,          \* its loop variable, in both loops
    next,           \* the task each child is at; 4: at exit(0)
    wrote,          \* whether it has written the byte of its last task
    child,          \* "unborn", "running", "ended" or "reaped"
    bytes,          \* in the pipe
    parentWrites,   \* whether the parent has its write end open
    count,          \* countT1, countT2, countT3
    said            \* history: how often each message was printed

vars == <<parent, index, next, wrote, child, bytes, parentWrites, count, said>>

Init ==
    /\ parent = "fork"
    /\ index = 0
    /\ next = [k \in Children |-> 1]
    /\ wrote = [k \in Children |-> TRUE]
    /\ child = [k \in Children |-> "unborn"]
    /\ bytes = << >>
    /\ parentWrites = TRUE
    /\ count = [task \in Tasks |-> 0]
    /\ said = [task \in Tasks |-> 0]

-----------------------------------------------------------------------------
(* A child *)

\* doTask()
DoTask(k) ==
    /\ child[k] = "running" /\ wrote[k] /\ next[k] \in Tasks
    /\ next' = [next EXCEPT ![k] = @ + 1]
    /\ wrote' = [wrote EXCEPT ![k] = FALSE]
    /\ UNCHANGED <<parent, index, child, bytes, parentWrites, count, said>>

\* A faulty variant: the byte is written before the task it stands for.
WriteAhead(k) ==
    /\ child[k] = "running" /\ ~wrote[k]
    /\ bytes' = Append(bytes, IF next[k] \in Tasks THEN next[k] ELSE 1)
    /\ wrote' = [wrote EXCEPT ![k] = TRUE]
    /\ UNCHANGED <<parent, index, next, child, parentWrites, count, said>>

\* write(pd[1], "1", 1)
WriteByte(k) ==
    /\ child[k] = "running" /\ ~wrote[k]
    /\ parent # "failed"
    /\ bytes' = Append(bytes, next[k] - 1)
    /\ wrote' = [wrote EXCEPT ![k] = TRUE]
    /\ UNCHANGED <<parent, index, next, child, parentWrites, count, said>>

\* SIGPIPE: the parent, the only reader, has exited.
BrokenPipe(k) ==
    /\ child[k] = "running" /\ ~wrote[k]
    /\ parent = "failed"
    /\ child' = [child EXCEPT ![k] = "ended"]
    /\ UNCHANGED <<parent, index, next, wrote, bytes, parentWrites, count, said>>

\* close(pd[1]) and exit(0); or the child is killed.
ChildExit(k) ==
    /\ child[k] = "running"
    /\ (wrote[k] /\ next[k] = 4) \/ k \in MayDie
    /\ child' = [child EXCEPT ![k] = "ended"]
    /\ UNCHANGED <<parent, index, next, wrote, bytes, parentWrites, count, said>>

-----------------------------------------------------------------------------
(* The parent *)

Fork ==
    /\ parent = "fork" /\ index < 2
    /\ index' = index + 1
    /\ child' = [child EXCEPT ![index + 1] = "running"]
    /\ UNCHANGED <<parent, next, wrote, bytes, parentWrites, count, said>>

\* "Could not create child."
ForkFails ==
    /\ parent = "fork" /\ index < 2
    /\ parent' = "failed"
    /\ parentWrites' = FALSE
    /\ UNCHANGED <<index, next, wrote, child, bytes, count, said>>

CloseWriteEnd ==
    /\ parent = "fork" /\ index = 2
    /\ parent' = "loop"
    /\ parentWrites' = FALSE
    /\ UNCHANGED <<index, next, wrote, child, bytes, count, said>>

\* What a counter is once its message has been printed.
AfterMessage(n) == n + 1

\* The three ifs behind the read().
Report(counted) ==
    /\ count' = [task \in Tasks |->
                   IF counted[task] = 2 THEN AfterMessage(2) ELSE counted[task]]
    /\ said' = [task \in Tasks |->
                   said[task] + (IF counted[task] = 2 THEN 1 ELSE 0)]

\* The parent goes on until every counter has reached 2.
Counting == parent = "loop" /\ \E task \in Tasks : count[task] < 2

ReadByte ==
    /\ Counting
    /\ bytes # << >>
    /\ bytes' = Tail(bytes)
    /\ Report([count EXCEPT ![Head(bytes)] = @ + 1])
    /\ UNCHANGED <<parent, index, next, wrote, child, parentWrites>>

\* At the end of file read() returns 0 and the loop goes round.
ReadEOF ==
    /\ Counting
    /\ bytes = << >>
    /\ ~parentWrites /\ \A k \in Children : child[k] # "running"
    /\ Report(count)
    /\ UNCHANGED <<parent, index, next, wrote, child, bytes, parentWrites>>

\* close(pd[0])
LeaveLoop ==
    /\ parent = "loop" /\ ~Counting
    /\ parent' = "wait"
    /\ index' = 0
    /\ UNCHANGED <<next, wrote, child, bytes, parentWrites, count, said>>

Wait ==
    /\ parent = "wait" /\ index < 2
    /\ \E k \in Children :
        /\ child[k] = "ended"
        /\ child' = [child EXCEPT ![k] = "reaped"]
    /\ index' = index + 1
    /\ UNCHANGED <<parent, next, wrote, bytes, parentWrites, count, said>>

\* "All children have completed their tasks and exited."
Finish ==
    /\ parent = "wait" /\ index = 2
    /\ parent' = "done"
    /\ UNCHANGED <<index, next, wrote, child, bytes, parentWrites, count, said>>

-----------------------------------------------------------------------------
ParentStep ==
    \/ Fork \/ ForkFails \/ CloseWriteEnd \/ ReadByte \/ ReadEOF \/ LeaveLoop \/ Wait \/ Finish
ChildStep(k) == DoTask(k) \/ WriteByte(k) \/ BrokenPipe(k) \/ ChildExit(k)

Ended ==
    /\ parent \in {"done", "failed"}
    /\ \A k \in Children : child[k] # "running"
    /\ UNCHANGED vars

Next == ParentStep \/ (\E k \in Children : ChildStep(k)) \/ Ended

Spec == Init /\ [][Next]_vars

-----------------------------------------------------------------------------
\* A message is printed only when both children have completed the task, even
\* if one of them was killed in between, and once: line 70, "To prevent printing
\* this message multiple times".
MessagesTrue ==
    /\ \A task \in Tasks :
        /\ said[task] > 0 => \A k \in Children : next[k] > task
        /\ said[task] <= 1
    /\ parent = "done" => \A k \in Children : next[k] = 4 /\ child[k] = "reaped"

\* The parent has printed its messages, or could not create its children.
Completed ==
    \/ parent = "done" /\ \A task \in Tasks : said[task] = 1
    \/ parent = "failed"

KilledEarly(k) ==
    child[k] \in {"ended", "reaped"} /\ ~(next[k] = 4 /\ wrote[k])
=============================================================================
