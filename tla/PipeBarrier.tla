---------------------------- MODULE PipeBarrier ----------------------------
(***************************************************************************)
(* class7/synchronizationPipe.c: a parent learns from the end of file of a  *)
(* pipe nobody writes to that its children have completed their first task: *)
(* each child closes its write end behind that task.  That they have        *)
(* completed the second it learns from wait().                              *)
(***************************************************************************)
EXTENDS Integers, FiniteSets

CONSTANTS
    NumChildren,        \* 2 in the program
    MayDie              \* the children that may end early

Children == 1 .. NumChildren
BarrierAssumption == NumChildren \in Nat /\ MayDie \subseteq Children

VARIABLES
    parent,         \* where the parent is
    index,          \* its loop variable, in both loops
    child,          \* where each child is
    writeEnd,       \* the processes that hold pd[1], the parent being 0
    completed,      \* the tasks each child has completed
    said            \* what the parent has printed

vars == <<parent, index, child, writeEnd, completed, said>>

Init ==
    /\ parent = "fork"
    /\ index = 0
    /\ child = [k \in Children |-> "unborn"]
    /\ writeEnd = {0}
    /\ completed = [k \in Children |-> {}]
    /\ said = {}

-----------------------------------------------------------------------------
(* The parent *)

\* fork(): the child has a copy of both descriptors.
Fork ==
    /\ parent = "fork" /\ index < NumChildren
    /\ index' = index + 1
    /\ child' = [child EXCEPT ![index + 1] = "T1"]
    /\ writeEnd' = writeEnd \cup {index + 1}
    /\ UNCHANGED <<parent, completed, said>>

\* "Could not created child.": the parent exits, and leaves the children it
\* has to themselves.
ForkFails ==
    /\ parent = "fork" /\ index < NumChildren
    /\ parent' = "failed"
    /\ writeEnd' = writeEnd \ {0}
    /\ UNCHANGED <<index, child, completed, said>>

\* A faulty variant: the parent keeps its own write end.
KeepWriteEnd ==
    /\ parent = "fork" /\ index = NumChildren
    /\ parent' = "read"
    /\ UNCHANGED <<index, child, writeEnd, completed, said>>

CloseWriteEnd ==
    /\ parent = "fork" /\ index = NumChildren
    /\ parent' = "read"
    /\ writeEnd' = writeEnd \ {0}
    /\ UNCHANGED <<index, child, completed, said>>

\* read() returns 0 when nobody has the write end any more, and the parent
\* prints its first message.
ReadEOF ==
    /\ parent = "read"
    /\ writeEnd = {}
    /\ said' = said \cup {"first"}
    /\ parent' = "wait"
    /\ index' = 0
    /\ UNCHANGED <<child, writeEnd, completed>>

\* wait() for some child that has ended.
Wait ==
    /\ parent = "wait" /\ index < NumChildren
    /\ \E k \in Children :
        /\ child[k] = "ended"
        /\ child' = [child EXCEPT ![k] = "reaped"]
    /\ index' = index + 1
    /\ UNCHANGED <<parent, writeEnd, completed, said>>

SaySecond ==
    /\ parent = "wait" /\ index = NumChildren
    /\ said' = said \cup {"second"}
    /\ parent' = "done"
    /\ UNCHANGED <<index, child, writeEnd, completed>>

-----------------------------------------------------------------------------
(* A child *)

\* close(pd[0]) and doTask(index, "T1")
DoFirst(k) ==
    /\ child[k] = "T1"
    /\ completed' = [completed EXCEPT ![k] = @ \cup {"T1"}]
    /\ child' = [child EXCEPT ![k] = "close"]
    /\ UNCHANGED <<parent, index, writeEnd, said>>

\* A faulty variant: the write end is closed before the task.
CloseFirst(k) ==
    /\ child[k] \in {"T1", "close"} /\ k \in writeEnd
    /\ writeEnd' = writeEnd \ {k}
    /\ child' = [child EXCEPT ![k] = IF @ = "close" THEN "T2" ELSE @]
    /\ UNCHANGED <<parent, index, completed, said>>

\* close(pd[1])
CloseChildEnd(k) ==
    /\ child[k] = "close"
    /\ writeEnd' = writeEnd \ {k}
    /\ child' = [child EXCEPT ![k] = "T2"]
    /\ UNCHANGED <<parent, index, completed, said>>

\* sleep(2) and doTask(index, "T2")
DoSecond(k) ==
    /\ child[k] = "T2"
    /\ completed' = [completed EXCEPT ![k] = @ \cup {"T2"}]
    /\ child' = [child EXCEPT ![k] = "exit"]
    /\ UNCHANGED <<parent, index, writeEnd, said>>

\* The end of a process closes what it has open.
End(k) ==
    /\ child' = [child EXCEPT ![k] = "ended"]
    /\ writeEnd' = writeEnd \ {k}
    /\ UNCHANGED <<parent, index, completed, said>>

\* _exit(0)
ChildExit(k) == child[k] = "exit" /\ End(k)

\* A child is killed, or exits because it cannot close its read end.
EndEarly(k) ==
    /\ k \in MayDie
    /\ child[k] \in {"T1", "close", "T2"}
    /\ End(k)

-----------------------------------------------------------------------------
ParentStep == Fork \/ ForkFails \/ CloseWriteEnd \/ ReadEOF \/ Wait \/ SaySecond
ChildStep(k) == DoFirst(k) \/ CloseChildEnd(k) \/ DoSecond(k) \/ ChildExit(k)

\* All processes have ended.
ParentEnded == parent \in {"done", "failed"}
AllEnded ==
    /\ ParentEnded
    /\ \A k \in Children : child[k] \in {"unborn", "ended", "reaped"}
    /\ UNCHANGED vars

Next == ParentStep \/ (\E k \in Children : ChildStep(k) \/ EndEarly(k)) \/ AllEnded

Spec == Init /\ [][Next]_vars

-----------------------------------------------------------------------------
\* A child that has ended, but not by the _exit() behind its second task.
EndedEarly(k) == child[k] \in {"ended", "reaped"} /\ completed[k] # {"T1", "T2"}

\* Lines 8-9: "After C1 and C2 have both completed T1, the parent must print",
\* and lines 10-11: "After C1 and C2 have completed T2 and called exit".
\* Nothing but the closing of descriptors tells it the first; a child that ends
\* early closes them too.
MessagesTrue ==
    /\ "first" \in said =>
            \A k \in Children : "T1" \in completed[k] \/ EndedEarly(k)
    /\ "second" \in said =>
            \A k \in Children : child[k] = "reaped"
=============================================================================
