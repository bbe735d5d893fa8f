---------------------------- MODULE PipeExchange ----------------------------
(***************************************************************************)
(* The exercises of class6 and assignment4 in which a parent sends numbers  *)
(* or a string to its child through a pipe: five programs, one of which is  *)
(* run.  A character, and a number, is an integer.                          *)
(***************************************************************************)
EXTENDS Integers, SequencesExt, Stdio

CONSTANTS
    CAPACITY,       \* what fits into a pipe
    LIMIT,          \* the size of the arrays strings are collected in (1000)
    Texts,          \* what is sent, as sequences of numbers or characters
    MayEndEarly     \* the processes that may be killed

Zero == 0           \* '\0'
Junk == -1          \* what printf() may find behind an array without a '\0'
Unlimited == 1000000

ExchangeAssumption ==
    /\ CAPACITY \in Nat \ {0} /\ LIMIT \in Nat \ {0}
    /\ \A text \in Texts : text # << >> /\ text \in Seq(Nat \ {0})
    /\ MayEndEarly \subseteq {"parent", "child"}

VARIABLES
    program, message,   \* what is run, and what its parent is to send
    parent, child,      \* where each process is
    open,               \* the pipe ends that are open: process, pipe, mode
    pipe,               \* what is in each pipe
    taken,              \* what each process has read
    stdout

vars == <<program, message, parent, child, open, pipe, taken, stdout>>

\* The child counts or answers characters up to '\0', or takes numbers up to the
\* end of file.  An array of LIMIT has room for this many of them.
pipes            == [string |-> FALSE, prints |-> "each", room |-> Unlimited]
pipe4            == [string |-> FALSE, prints |-> "sum", room |-> Unlimited]
pipeString       == [string |-> TRUE, prints |-> "line", room |-> Unlimited]
pipeStringCount  == [string |-> TRUE, prints |-> "length", room |-> LIMIT]
pipeStringUpperCase == [string |-> TRUE, prints |-> "upper", room |-> LIMIT - 1]
Programs == {pipes, pipe4, pipeString, pipeStringCount, pipeStringUpperCase}

Replies == program.prints = "upper"
Processes == {"parent", "child"}

\* A faulty variant: strlen(message) without the + 1.
NoTerminator(prog, text) == text

\* What the parent writes: a string with its '\0'.
ToWrite(prog, text) == IF prog.string THEN Append(text, Zero) ELSE text

Ends == IF Replies THEN {"request", "response"} \X {"r", "w"}
                   ELSE {"request"} \X {"r", "w"}
EndsOf(p) == {<<p, end[1], end[2]>> : end \in Ends}
Holders(p, mode) == {q \in Processes : <<q, p, mode>> \in open}

Init ==
    /\ program \in Programs
    /\ message \in {ToWrite(program, text) : text \in Texts}
    /\ parent = "fork" /\ child = "unborn"
    /\ open = EndsOf("parent")
    /\ pipe = [p \in {"request", "response"} |-> << >>]
    /\ taken = [p \in Processes |-> << >>]
    /\ \E t \in BOOLEAN : stdout = Stdout(Processes, t)

-----------------------------------------------------------------------------
(* Both processes *)

\* The first numbers of m that fit into pipe p: one if it is written by itself.
Chunk(p, m, single) ==
    LET room == CAPACITY - Len(pipe[p])
        size == IF single THEN 1 ELSE Len(m)
    IN  SubSeq(m, 1, IF size > room THEN room ELSE size)

\* write() of the rest m, as far as there is room.
WriteSome(p, m, single) ==
    /\ Holders(p, "r") # {}
    /\ Chunk(p, m, single) # << >>
    /\ pipe' = [pipe EXCEPT ![p] = @ \o Chunk(p, m, single)]

\* read() of one number or character; '\0' ends a string.
ReadOne(p, reader) ==
    /\ pipe[p] # << >>
    /\ pipe' = [pipe EXCEPT ![p] = Tail(@)]
    /\ taken' = [taken EXCEPT ![reader] = Append(@, Head(pipe[p]))]
AtEOF(p) == pipe[p] = << >> /\ Holders(p, "w") = {}

Written(p, reader) == Len(taken[reader]) + Len(pipe[p])
Rest(m, p, reader) == SubSeq(m, Written(p, reader) + 1, Len(m))

Gone == {"ended", "killed", "sigpipe"}

\* The end of a process by a signal.
Killed(p) ==
    /\ open' = open \ EndsOf(p)
    /\ stdout' = Discard(stdout, p)
    /\ UNCHANGED <<program, message, pipe, taken>>

-----------------------------------------------------------------------------
(* The parent *)

Fork ==
    /\ parent = "fork"
    /\ parent' = "close" /\ child' = "close"
    /\ open' = open \cup EndsOf("child")
    /\ UNCHANGED <<program, message, pipe, taken, stdout>>

ForkFails ==
    /\ parent = "fork"
    /\ parent' = "ended"
    /\ open' = {}
    /\ UNCHANGED <<program, message, child, pipe, taken, stdout>>

ParentCloses ==
    /\ parent = "close"
    /\ parent' = "write"
    /\ open' = open \ {<<"parent", "request", "r">>, <<"parent", "response", "w">>}
    /\ UNCHANGED <<program, message, child, pipe, taken, stdout>>

ParentWrites ==
    /\ parent = "write"
    /\ LET rest == Rest(message, "request", "child")
       IN  /\ WriteSome("request", rest, ~program.string)
           /\ IF Len(pipe'["request"]) - Len(pipe["request"]) < Len(rest)
                THEN UNCHANGED <<parent, open>>
                ELSE IF Replies
                THEN parent' = "read" /\ UNCHANGED open
                ELSE /\ parent' = "wait"
                     /\ open' = open \ EndsOf("parent")
    /\ UNCHANGED <<program, message, child, taken, stdout>>

ParentBrokenPipe ==
    /\ parent = "write" /\ Holders("request", "r") = {}
    /\ parent' = "sigpipe"
    /\ Killed("parent")
    /\ UNCHANGED child

ParentReads ==
    /\ parent = "read"
    /\ ReadOne("response", "parent")
    /\ parent' = IF Last(taken'["parent"]) = Zero THEN "print" ELSE "read"
    /\ UNCHANGED <<program, message, child, open, stdout>>

ParentEOF ==
    /\ parent = "read" /\ AtEOF("response")
    /\ parent' = "print"
    /\ UNCHANGED <<program, message, child, open, pipe, taken, stdout>>

\* Without its '\0'.
Text(s) == IF s # << >> /\ Last(s) = Zero THEN Front(s) ELSE s

ParentPrints ==
    /\ parent = "print"
    /\ stdout' = SayLine(stdout, "parent", Text(taken["parent"]))
    /\ open' = open \ EndsOf("parent")
    /\ parent' = "wait"
    /\ UNCHANGED <<program, message, child, pipe, taken>>

\* wait() and exit().
ParentEnds ==
    /\ parent = "wait" /\ child \in Gone
    /\ parent' = "ended"
    /\ stdout' = Flush(stdout, "parent")
    /\ UNCHANGED <<program, message, child, open, pipe, taken>>

ParentStep ==
    \/ Fork \/ ForkFails \/ ParentCloses \/ ParentWrites \/ ParentBrokenPipe
    \/ ParentReads \/ ParentEOF \/ ParentPrints \/ ParentEnds

-----------------------------------------------------------------------------
(* The child *)

ChildCloses ==
    /\ child = "close"
    /\ child' = "read"
    /\ open' = open \ {<<"child", "request", "w">>, <<"child", "response", "r">>}
    /\ UNCHANGED <<program, message, parent, pipe, taken, stdout>>

\* What is printed when the character or number c has been read.
Echo(c) ==
    CASE program.prints = "each" -> SayLine(stdout, "child", <<c>>)
      [] program.prints = "line" /\ c = Zero -> SayLine(stdout, "child", << >>)
      [] program.prints = "line" /\ c # Zero -> Say(stdout, "child", <<c>>)
      [] OTHER -> stdout

ChildReads ==
    /\ child = "read"
    /\ ReadOne("request", "child")
    /\ LET c == Head(pipe["request"])
       IN  /\ child' = IF program.string /\ c = Zero THEN "report" ELSE "read"
           /\ stdout' = Echo(c)
    /\ UNCHANGED <<program, message, parent, open>>

\* A faulty variant: the test of the loop comes behind its body.
EchoAgain ==
    /\ child = "read" /\ AtEOF("request")
    /\ child' = "report"
    /\ stdout' = IF taken["child"] = << >> THEN stdout ELSE Echo(Last(taken["child"]))
    /\ UNCHANGED <<program, message, parent, open, pipe, taken>>

ChildEOF ==
    /\ child = "read" /\ AtEOF("request")
    /\ child' = "report"
    /\ UNCHANGED <<program, message, parent, open, pipe, taken, stdout>>

\* What the child makes of what it has read.  The array behind the length is
\* printed as a string, though nobody has put a '\0' into it.
Sum(s) == FoldLeft(+, 0, s)
Reports(text) ==
    CASE program.prints = "length" ->
            {text \o <<Len(text)>>, text \o <<Junk, Len(text)>>}
      [] program.prints = "sum" -> {<<Sum(text)>>}
      [] OTHER -> {<< >>}

ChildReports ==
    /\ child = "report"
    /\ child' = IF Replies THEN "reply" ELSE "exit"
    /\ \E report \in Reports(Text(taken["child"])) :
        stdout' = IF report = << >> THEN stdout ELSE SayLine(stdout, "child", report)
    /\ UNCHANGED <<program, message, parent, open, pipe, taken>>

\* toupper(), in ASCII.
toupper(c) == IF c \in 97 .. 122 THEN c - 32 ELSE c
Upper(text) == [i \in DOMAIN text |-> toupper(text[i])]

ChildReplies ==
    /\ child = "reply"
    /\ LET reply == Append(Upper(Text(taken["child"])), Zero)
           rest == Rest(reply, "response", "parent")
       IN  /\ WriteSome("response", rest, FALSE)
           /\ child' = IF Len(pipe'["response"]) - Len(pipe["response"]) = Len(rest)
                       THEN "exit" ELSE "reply"
    /\ UNCHANGED <<program, message, parent, open, taken, stdout>>

ChildBrokenPipe ==
    /\ child = "reply" /\ Holders("response", "r") = {}
    /\ child' = "sigpipe"
    /\ Killed("child")
    /\ UNCHANGED parent

\* _exit()
ChildEnds ==
    /\ child = "exit"
    /\ child' = "ended"
    /\ open' = open \ EndsOf("child")
    /\ stdout' = Discard(stdout, "child")
    /\ UNCHANGED <<program, message, parent, pipe, taken>>

ChildStep ==
    \/ ChildCloses \/ ChildReads \/ ChildEOF \/ ChildReports \/ ChildReplies
    \/ ChildBrokenPipe \/ ChildEnds

-----------------------------------------------------------------------------
ParentLives == parent \notin Gone
ChildLives == child \notin Gone \cup {"unborn"}

\* More was stored in the array of process p than it has room for: p may go on,
\* or be ended by the fault.
Overflowed(p) == Len(Text(taken[p])) > program.room

KillChild ==
    /\ ChildLives
    /\ "child" \in MayEndEarly \/ Overflowed("child")
    /\ child' = "killed"
    /\ Killed("child")
    /\ UNCHANGED parent

KillParent ==
    /\ ParentLives
    /\ "parent" \in MayEndEarly \/ Overflowed("parent")
    /\ parent' = "killed"
    /\ Killed("parent")
    /\ UNCHANGED child

AllEnded == ~ParentLives /\ ~ChildLives
Next == ParentStep \/ ChildStep \/ KillChild \/ KillParent \/ (AllEnded /\ UNCHANGED vars)

-----------------------------------------------------------------------------
\* What is printed of a whole message.
Results ==
    LET text == Text(message)
    IN  IF program.prints \in {"each", "line"} THEN {text}
        ELSE IF Replies THEN {Upper(text)}
        ELSE Reports(text)

\* A child that is not ended early prints what its parent wanted it to, and the
\* program ends in order: class6/pipes.c, lines 2-3, "Child reads them from the
\* pipe and prnts them in taht order".  The exceptions:
\*   - the end of a parent that is killed looks like the end of its message;
\*   - what a child has printed is lost in _exit() unless it goes to a terminal.
\* Only a process whose other half was killed is ended by SIGPIPE.
Exchanged ==
    /\ parent = "ended" /\ child = "ended" =>
        IF stdout.terminal \/ Replies THEN stdout.shown \in Results
                                      ELSE stdout.shown = << >>
    /\ parent # "killed" /\ child # "killed" =>
        \E result \in Results : IsPrefix(stdout.shown, result)
    /\ parent = "sigpipe" => child = "killed"
    /\ child = "sigpipe" => parent = "killed"
=============================================================================
