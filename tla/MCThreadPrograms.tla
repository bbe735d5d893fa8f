-------------------------- MODULE MCThreadPrograms --------------------------
(* The programs that count, with few rounds and a narrow int, for TLC. *)
EXTENDS ThreadPrograms

\* Both threads are told the same.
Both(rounds) == {<<n, n>> : n \in rounds}
Up == {<<1, 1>>}

mutexExample ==
    [arguments |-> Both({3}), deltas |-> Up,
     locking |-> TRUE, returnsInLoop |-> FALSE, volatile |-> TRUE]

racecondition == [mutexExample EXCEPT !.locking = FALSE]

\* thread_incr.c: getInt() lets any positive long through, also one that is not
\* a positive int (8, 15, 16 when an int has four bits).
positiveLongs == Both({1, 2, 3, 5, 8, 15, 16, 18})
thread_incr == [racecondition EXCEPT !.arguments = positiveLongs, !.volatile = FALSE]

\* thread_incr_2.c: the printf in the loop makes every round read and write.
thread_incr_2 == [thread_incr EXCEPT !.volatile = TRUE]

thread_incr_mutex ==
    [mutexExample EXCEPT !.arguments = positiveLongs, !.returnsInLoop = TRUE]

\* assignment3: what atoi() makes of two arguments; two threads that go down by 5
\* leave the range of an int of four bits.  The operation of a thread
\* is one character without a terminator, so strcmp() also reads the byte
\* behind it: "+" is recognised only if that byte is 0.
threads ==
    [mutexExample EXCEPT !.arguments = [{1, 2} -> -1 .. 5],
                         !.deltas = {<<1, -1>>, <<-1, -1>>}]

AllPrograms == {mutexExample, racecondition, thread_incr, thread_incr_2,
                thread_incr_mutex, threads}
=============================================================================
