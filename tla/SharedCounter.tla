--------------------------- MODULE SharedCounter ---------------------------
(***************************************************************************)
(* The programs in which threads raise (or lower) one global counter: main  *)
(* starts them in order, joins them in order and prints what the counter    *)
(* is.                                                                      *)
(*                                                                          *)
(*   class5/mutexExample.c: with a mutex                                    *)
(*   class5/racecondition.c: without; the counter is volatile               *)
(*   class5/practice/thread_incr.c, thread_incr_2.c: without; not volatile  *)
(*   class5/practice/thread_incr_mutex.c: with; returns out of its loop     *)
(*   assignment3/threads.c: with; one thread up, one thread down            *)
(***************************************************************************)
EXTENDS Integers, FiniteSets, FiniteSetsExt

CONSTANTS
    N,              \* the number of threads, 2 in all of them
    INT,            \* 2^w, w the width of `int': of arguments and counter
    Programs,       \* the programs, as records of
                    \*   arguments      how often each thread may be told to
                    \*                  loop, as longs
                    \*   deltas         what each thread may add in a round
                    \*   locking        a round is between lock and unlock
                    \*   returnsInLoop  `return' is inside the loop
                    \*   volatile       each round reads and writes the counter
    None            \* no arguments read, nothing printed yet

Threads == 1 .. N

ProgramsAssumption ==
    /\ N \in Nat \ {0, 1}
    /\ INT \in Nat \ {0, 1}
    /\ None \notin Int
    /\ \A p \in Programs :
        /\ p.arguments \subseteq [Threads -> Int]
        /\ p.deltas \subseteq [Threads -> {-1, 1}]
        /\ {p.locking, p.returnsInLoop, p.volatile} \subseteq BOOLEAN
        /\ p.returnsInLoop => p.locking

\* (int) of a long, and what is left of a sum that overflows an int.
Narrow(x) == LET low == x % INT IN IF low < INT \div 2 THEN low ELSE low - INT

VARIABLES
    program,        \* the one that runs
    loops,          \* the argument of each of its threads
    delta,          \* what it adds
    created,        \* the threads main has started: 1 .. created
    joined,         \* the threads main has joined: 1 .. joined
    printed,        \* the final value on the screen
    glob,
    mutex,          \* the thread that holds it, 0 when free
    pc,             \* of each thread
    j,              \* its loop variable
    loc             \* its copy of the counter

vars == <<program, loops, delta, created, joined, printed, glob, mutex, pc, j, loc>>

\* How often a thread goes through its loop.
Rounds(t) ==
    LET asked == IF loops[t] > 0 THEN loops[t] ELSE 0
    IN  IF program.returnsInLoop /\ asked > 1 THEN 1 ELSE asked

Init ==
    /\ program \in Programs
    /\ loops = None
    /\ delta \in program.deltas
    /\ created = 0 /\ joined = 0
    /\ printed = None
    /\ glob = 0
    /\ mutex = 0
    /\ pc = [t \in Threads |-> "unborn"]
    /\ j = [t \in Threads |-> 0]
    /\ loc = [t \in Threads |-> 0]

Goto(t, l) == pc' = [pc EXCEPT ![t] = l]

-----------------------------------------------------------------------------
(* main *)

\* What the arguments say, or the constants of the program.  getInt() accepts
\* a positive long and returns it as an int, atoi() accepts any.
ReadArguments ==
    /\ loops = None
    /\ \E a \in program.arguments : loops' = [t \in Threads |-> Narrow(a[t])]
    /\ UNCHANGED <<program, delta, created, joined, printed, glob, mutex, pc, j, loc>>

\* pthread_create
Create ==
    /\ loops # None /\ created < N
    /\ created' = created + 1
    /\ Goto(created + 1, "loop")
    /\ UNCHANGED <<program, loops, delta, joined, printed, glob, mutex, j, loc>>

\* A faulty variant: main does not wait.
NoJoin ==
    /\ created = N /\ joined < N
    /\ joined' = joined + 1
    /\ UNCHANGED <<program, loops, delta, created, printed, glob, mutex, pc, j, loc>>

\* pthread_join
Join ==
    /\ created = N /\ joined < N
    /\ pc[joined + 1] = "done"
    /\ joined' = joined + 1
    /\ UNCHANGED <<program, loops, delta, created, printed, glob, mutex, pc, j, loc>>

PrintFinal ==
    /\ joined = N /\ created = N /\ printed = None
    /\ printed' = glob
    /\ UNCHANGED <<program, loops, delta, created, joined, glob, mutex, pc, j, loc>>

-----------------------------------------------------------------------------
(* A thread *)

\* The condition of the for loop.
MoreRounds(t) == j[t] < loops[t]

MutexFree == mutex = 0

Lock(t) ==
    /\ program.locking
    /\ pc[t] = "loop" /\ MoreRounds(t)
    /\ MutexFree
    /\ mutex' = t
    /\ Goto(t, "load")
    /\ UNCHANGED <<program, loops, delta, created, joined, printed, glob, j, loc>>

\* loc = glob
Load(t) ==
    /\ IF program.locking THEN pc[t] = "load" ELSE pc[t] = "loop" /\ MoreRounds(t)
    /\ loc' = [loc EXCEPT ![t] = glob]
    /\ Goto(t, "store")
    /\ UNCHANGED <<program, loops, delta, created, joined, printed, glob, mutex, j>>

\* The rounds between a read of the counter and the next write: one, but a
\* compiler that need not expect other threads may keep a counter that is not
\* volatile in a register for as many rounds as it likes.
Merged(t) == IF program.volatile \/ program.locking THEN {1} ELSE 1 .. (loops[t] - j[t])

\* glob = loc + 1, and the end of the round where nothing is to be unlocked.
\* The counter is an int: its overflow is undefined in C, and wraps as compiled.
Store(t) ==
    /\ pc[t] = "store"
    /\ \E n \in Merged(t) :
        /\ glob' = Narrow(loc[t] + n * delta[t])
        /\ j' = [j EXCEPT ![t] = @ + n]
    /\ Goto(t, IF program.locking THEN "unlock" ELSE "loop")
    /\ UNCHANGED <<program, loops, delta, created, joined, printed, mutex, loc>>

\* A faulty variant: the mutex is not released.
KeepLock(t) ==
    /\ pc[t] = "unlock"
    /\ Goto(t, IF program.returnsInLoop THEN "done" ELSE "loop")
    /\ UNCHANGED <<program, loops, delta, created, joined, printed, glob, mutex, j, loc>>

Unlock(t) ==
    /\ pc[t] = "unlock"
    /\ mutex' = 0
    /\ Goto(t, IF program.returnsInLoop THEN "done" ELSE "loop")
    /\ UNCHANGED <<program, loops, delta, created, joined, printed, glob, j, loc>>

\* The end of the loop.
Return(t) ==
    /\ pc[t] = "loop" /\ ~MoreRounds(t)
    /\ Goto(t, "done")
    /\ UNCHANGED <<program, loops, delta, created, joined, printed, glob, mutex, j, loc>>

-----------------------------------------------------------------------------
MainStep == ReadArguments \/ Create \/ Join \/ PrintFinal
ThreadStep(t) == Lock(t) \/ Load(t) \/ Store(t) \/ Unlock(t) \/ Return(t)

\* main has printed, and exits.
Finished == printed # None
Exit == Finished /\ UNCHANGED vars

Next == MainStep \/ (\E t \in Threads : ThreadStep(t)) \/ Exit

Spec == Init /\ [][Next]_vars

-----------------------------------------------------------------------------
Total == MapThenSumSet(LAMBDA t : delta[t] * Rounds(t), Threads)

\* With the mutex no increment is lost, and main prints after the last one: the
\* final value is the sum of what the threads were told to add, as an int.
\* Without it any number of increments may be lost, but as long as the sum is an
\* int, never so many that threads which loop at least twice leave the counter
\* at 1.
FinalValue ==
    Finished =>
        /\ program.locking => printed = Narrow(Total)
        /\ (\A t \in Threads : loops[t] >= 2 /\ delta[t] = 1) /\ Total < INT \div 2 =>
                2 <= printed /\ printed <= Total
=============================================================================
