---------------------------- MODULE ProcessTree ----------------------------
(***************************************************************************)
(* The exercises of class3 and assignment2 in which a parent forks children *)
(* one after the other and waits for each before it forks the next: six     *)
(* programs, one of which is run.  What they print is what there is to see. *)
(***************************************************************************)
EXTENDS Integers, FiniteSets, Functions, Stdio

CONSTANTS
    MaxCount,       \* bound: the argument n
    MayVanish       \* the children that may be killed

TreeAssumption == MaxCount \in Nat \ {0} /\ MayVanish \subseteq 1 .. MaxCount

\* How many children there are, how many lines each prints and how it ends, and
\* what the parent prints: behind the fork, behind each wait, at its end.
\* `image' is the output of a program run by system().
practice ==
    [counts |-> 1 .. MaxCount, lines |-> 2, ends |-> {"exit"},
     greets |-> FALSE, waited |-> 0, last |-> 1, image |-> FALSE]
processes == [practice EXCEPT !.lines = 1]
multiChildProcess == [practice EXCEPT !.lines = 3, !.last = 2]
process3 == [practice EXCEPT !.counts = {3}, !.waited = 1, !.last = 0]
process ==
    [practice EXCEPT !.counts = {1}, !.ends = {"_exit"},
                     !.greets = TRUE, !.waited = 1]
processExited ==
    [practice EXCEPT !.counts = {1}, !.lines = 1, !.ends = {"exec", "_exit"},
                     !.waited = 1, !.last = 0, !.image = TRUE]
Trees == {practice, processes, multiChildProcess, process3, process, processExited}

VARIABLES
    program, count,     \* what is run, with which n
    parent, index,      \* where the parent is, its loop variable
    child,              \* "unborn", "running", "ended", "killed" or "reaped"
    said,               \* the lines each child has printed
    stdout

vars == <<program, count, parent, index, child, said, stdout>>

Children == 1 .. MaxCount

Init ==
    /\ program \in Trees
    /\ count \in program.counts \cap Children
    /\ parent = "fork" /\ index = 1
    /\ child = [k \in Children |-> "unborn"]
    /\ said = [k \in Children |-> 0]
    /\ \E t \in BOOLEAN : stdout = Stdout(0 .. MaxCount, t)

\* What process p prints, as <<p, where, which line>>.
Lines(p, where, from, to) == [i \in 1 .. (to - from + 1) |-> <<p, where, from + i - 1>>]

-----------------------------------------------------------------------------
(* The parent *)

Fork ==
    /\ parent = "fork" /\ index <= count
    /\ child' = [child EXCEPT ![index] = "running"]
    /\ stdout' = CopyBuffer(stdout, 0, index)
    /\ parent' = IF program.greets THEN "greet" ELSE "wait"
    /\ UNCHANGED <<program, count, index, said>>

\* "I am the parent process"
Greet ==
    /\ parent = "greet"
    /\ stdout' = SayLine(stdout, 0, <<<<0, "greeting", 1>>>>)
    /\ parent' = "wait"
    /\ UNCHANGED <<program, count, index, child, said>>

\* The message behind a failing fork() is left out.
ForkFails ==
    /\ parent = "fork" /\ index <= count
    /\ stdout' = Flush(stdout, 0)
    /\ parent' = "failed"
    /\ UNCHANGED <<program, count, index, child, said>>

\* A faulty variant: the next child is forked before the last one has ended.
GoOn ==
    /\ parent = "wait"
    /\ UNCHANGED child
    /\ stdout' = SayLine(stdout, 0, Lines(0, "waited", index, index + program.waited - 1))
    /\ index' = index + 1
    /\ parent' = "fork"
    /\ UNCHANGED <<program, count, said>>

\* wait(), or waitpid(): there is no other child to wait for.
Wait ==
    /\ parent = "wait" /\ child[index] \in {"ended", "killed"}
    /\ child' = [child EXCEPT ![index] = IF @ = "ended" THEN "reaped" ELSE @]
    /\ stdout' = SayLine(stdout, 0, Lines(0, "waited", index, index + program.waited - 1))
    /\ index' = index + 1
    /\ parent' = "fork"
    /\ UNCHANGED <<program, count, said>>

\* system(): a program that flushes its own output, not ours.
RunImage(out) ==
    IF program.image THEN [out EXCEPT !.shown = Append(@, <<0, "image", 1>>)] ELSE out

\* exit(), with the exit handler of class3/process.c.
ParentExit ==
    /\ parent = "fork" /\ index > count
    /\ stdout' = Flush(SayLine(RunImage(stdout), 0, Lines(0, "last", 1, program.last)), 0)
    /\ parent' = "done"
    /\ UNCHANGED <<program, count, index, child, said>>

ParentStep == Fork \/ ForkFails \/ Greet \/ Wait \/ ParentExit

-----------------------------------------------------------------------------
(* A child *)

ChildSays(k) ==
    /\ child[k] = "running" /\ said[k] < program.lines
    /\ said' = [said EXCEPT ![k] = @ + 1]
    /\ stdout' = SayLine(stdout, k, Lines(k, "child", said[k] + 1, said[k] + 1))
    /\ UNCHANGED <<program, count, parent, index, child>>

\* exit(), _exit(), or execv(), whose program prints a line of its own: the exit
\* behind it is reached if it fails.
ChildEnds(k) ==
    /\ child[k] = "running" /\ said[k] = program.lines
    /\ child' = [child EXCEPT ![k] = "ended"]
    /\ \E how \in program.ends :
        stdout' = CASE how = "exit" -> Flush(stdout, k)
                    [] how = "_exit" -> Discard(stdout, k)
                    [] how = "exec" ->
                        Flush(Say(Discard(stdout, k), k, <<<<k, "image", 1>>>>), k)
    /\ UNCHANGED <<program, count, parent, index, said>>

ChildStep(k) == ChildSays(k) \/ ChildEnds(k)

KillChild(k) ==
    /\ k \in MayVanish
    /\ child[k] = "running"
    /\ child' = [child EXCEPT ![k] = "killed"]
    /\ stdout' = Discard(stdout, k)
    /\ UNCHANGED <<program, count, parent, index, said>>

-----------------------------------------------------------------------------
AllEnded ==
    /\ parent \in {"done", "failed"}
    /\ \A k \in Children : child[k] # "running"

Next ==
    \/ ParentStep
    \/ \E k \in Children : ChildStep(k) \/ KillChild(k)
    \/ AllEnded /\ UNCHANGED vars

-----------------------------------------------------------------------------
\* How often a line is to be seen in the end, if nobody was killed.
\*   - A child that ends by _exit(), or runs another program, takes with it what
\*     has not reached a terminal.
\*   - What the parent has not flushed is copied by every later fork(), and
\*     printed again by the exit() of the child.
Expected(line) ==
    IF line[2] = "child"
    THEN IF stdout.terminal \/ program.ends = {"exit"} THEN 1 ELSE 0
    ELSE IF line[2] = "waited" /\ ~stdout.terminal /\ program.ends = {"exit"}
    THEN 1 + count - line[3]
    ELSE 1

AllLines ==
    (UNION {Range(Lines(k, "child", 1, program.lines)) : k \in 1 .. count})
    \cup (IF program.waited = 1 THEN Range(Lines(0, "waited", 1, count)) ELSE {})
    \cup (IF program.greets THEN {<<0, "greeting", 1>>} ELSE {})
    \cup Range(Lines(0, "last", 1, program.last))

\* The order of the lines: a child's before the parent's about it, both before
\* those of the next child.
Place(line) ==
    IF line[2] = "waited" THEN 2 * line[3] + 1
    ELSE IF line[1] = 0 THEN 2 * count + 2
    ELSE 2 * line[1]

\* Because the parent waits for each child before it forks the next one, what
\* they print is in one order, whatever the scheduler does; and each line is
\* there once if it goes to a terminal.
TranscriptTrue ==
    LET shown == stdout.shown
        Copies(line) == Cardinality({i \in DOMAIN shown : shown[i] = line})
        inOrder(before, after) ==
            "greeting" \in {before[2], after[2]} \/ Place(before) <= Place(after)
    IN  /\ stdout.terminal =>
            \A i, j \in DOMAIN shown : i < j => inOrder(shown[i], shown[j])
        /\ \A line \in AllLines : Copies(line) <= Expected(line)
        /\ parent = "done" /\ (\A k \in Children : child[k] # "killed") =>
            \A line \in AllLines : Copies(line) = Expected(line)
        /\ parent = "done" => \A k \in 1 .. count : child[k] \in {"reaped", "killed"}
=============================================================================
