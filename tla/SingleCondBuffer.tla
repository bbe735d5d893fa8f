-------------------------- MODULE SingleCondBuffer --------------------------
(***************************************************************************)
(* class5/conditionvaraibles.c: a producer thread puts ITEMS numbers into   *)
(* an array, a consumer thread takes as many out, last in first out.  Both  *)
(* wait on the same condition variable and each signals it after every      *)
(* item.  main waits for both.  What a thread does with the buffer and with *)
(* the count are steps of their own, which only the mutex keeps together.   *)
(***************************************************************************)
EXTENDS Integers, FiniteSets

CONSTANTS
    BUFFER_SIZE,
    ITEMS               \* the 1000000 of the two loops
SizesAssumption == BUFFER_SIZE \in Nat \ {0} /\ ITEMS \in Nat

VARIABLES
    buffer,
    count,          \* number of items in the buffer
    mutex,
    pc,             \* of each thread
    i,              \* the loop variable of each thread
    read,           \* the count each thread last read for an update
    consumed        \* history: the items taken, in order of the loop

vars == <<buffer, count, mutex, pc, i, read, consumed>>

Workers == {"producer", "consumer"}
Slots == 0 .. (BUFFER_SIZE - 1)
Items == 0 .. (ITEMS - 1)

Init ==
    /\ buffer = [k \in Slots |-> 0]
    /\ count = 0
    /\ mutex = "free"
    /\ pc = [w \in Workers |-> "loop"]
    /\ i = [w \in Workers |-> 0]
    /\ read = [w \in Workers |-> 0]
    /\ consumed = [k \in Items |-> -1]

Goto(w, l) == pc' = [pc EXCEPT ![w] = l]
Other(w) == IF w = "producer" THEN "consumer" ELSE "producer"

MutexFree == mutex = "free"

\* The head of the for loop with pthread_mutex_lock, and the end of a wait.
Acquire(w) ==
    /\ \/ pc[w] = "loop" /\ i[w] < ITEMS
       \/ pc[w] = "awake"
    /\ MutexFree
    /\ mutex' = w
    /\ Goto(w, "test")
    /\ UNCHANGED <<buffer, count, i, read, consumed>>

\* return NULL
Finish(w) ==
    /\ pc[w] = "loop" /\ i[w] = ITEMS
    /\ Goto(w, "done")
    /\ UNCHANGED <<buffer, count, mutex, i, read, consumed>>

MustWait(w) == IF w = "producer" THEN count = BUFFER_SIZE ELSE count = 0

Proceed(w) ==
    /\ pc[w] = "test" /\ ~MustWait(w)
    /\ Goto(w, "update")
    /\ UNCHANGED <<buffer, count, mutex, i, read, consumed>>

\* pthread_cond_wait
Sleep(w) ==
    /\ pc[w] = "test" /\ MustWait(w)
    /\ mutex' = "free"
    /\ Goto(w, "asleep")
    /\ UNCHANGED <<buffer, count, i, read, consumed>>

\* A wait that ends without a signal.
WakeUp(w) ==
    /\ pc[w] = "asleep"
    /\ Goto(w, "awake")
    /\ UNCHANGED <<buffer, count, mutex, i, read, consumed>>

\* buffer[count] = i, and the read of count++
PutItem ==
    /\ pc["producer"] = "update"
    /\ buffer' = [buffer EXCEPT ![count] = i["producer"]]
    /\ read' = [read EXCEPT !["producer"] = count]
    /\ Goto("producer", "write")
    /\ UNCHANGED <<count, mutex, i, consumed>>

\* A faulty variant: the oldest item instead of the newest.
FirstSlot == 0

\* The slot the consumer takes from.
LastSlot == count - 1

\* item = buffer[count - 1], and the read of count--
TakeItem ==
    /\ pc["consumer"] = "update"
    /\ consumed' = [consumed EXCEPT ![i["consumer"]] = buffer[LastSlot]]
    /\ read' = [read EXCEPT !["consumer"] = count]
    /\ Goto("consumer", "write")
    /\ UNCHANGED <<buffer, count, mutex, i>>

\* The write of count++ and count--
WriteCount(w) ==
    /\ pc[w] = "write"
    /\ count' = IF w = "producer" THEN read[w] + 1 ELSE read[w] - 1
    /\ Goto(w, "signal")
    /\ UNCHANGED <<buffer, mutex, i, read, consumed>>

\* A faulty variant: only the producer signals.
OnlyProducerSignals(w) == w = "producer"

Signals(w) == TRUE

\* pthread_cond_signal: the other thread is the only possible waiter.
Signal(w) ==
    /\ pc[w] = "signal"
    /\ pc' = [pc EXCEPT
                ![w] = "unlock",
                ![Other(w)] = IF Signals(w) /\ @ = "asleep" THEN "awake" ELSE @]
    /\ UNCHANGED <<buffer, count, mutex, i, read, consumed>>

\* pthread_mutex_unlock, i++
Unlock(w) ==
    /\ pc[w] = "unlock"
    /\ mutex' = "free"
    /\ i' = [i EXCEPT ![w] = @ + 1]
    /\ Goto(w, "loop")
    /\ UNCHANGED <<buffer, count, read, consumed>>

Step(w) ==
    \/ Acquire(w) \/ Finish(w) \/ Proceed(w) \/ Sleep(w)
    \/ w = "producer" /\ PutItem
    \/ w = "consumer" /\ TakeItem
    \/ WriteCount(w)
    \/ Signal(w) \/ Unlock(w)

\* main returns when it has joined both threads.
Joined == \A w \in Workers : pc[w] = "done"
Exit == Joined /\ UNCHANGED vars

Next == (\E w \in Workers : Step(w) \/ WakeUp(w)) \/ Exit

Spec == Init /\ [][Next]_vars

-----------------------------------------------------------------------------
Put == i["producer"] + (IF pc["producer"] \in {"signal", "unlock"} THEN 1 ELSE 0)
Taken == {consumed[k] : k \in Items} \ {-1}
InBuffer == count - (IF pc["consumer"] = "write" THEN 1 ELSE 0)
Stored == {buffer[k] : k \in 0 .. (InBuffer - 1)}

\* No item is lost, none is taken twice: what was put in is what was taken and
\* what is in the buffer, each item in one place.
EachItemOnce ==
    /\ Taken \cup Stored = 0 .. (Put - 1)
    /\ Taken \cap Stored = {}
    /\ Cardinality(Stored) = InBuffer
    /\ \A k, l \in Items : k # l /\ consumed[k] # -1 => consumed[k] # consumed[l]

\* Although one condition variable serves both, the two threads never sleep at
\* the same time, and the one that sleeps has a reason.
NeverBothAsleep ==
    /\ pc["producer"] = "asleep" => count = BUFFER_SIZE \/ pc["consumer"] = "signal"
    /\ pc["consumer"] = "asleep" => count = 0 \/ pc["producer"] = "signal"

\* Both loops have ended, and all items have been taken.
AllTaken == Joined /\ Taken = Items
=============================================================================
