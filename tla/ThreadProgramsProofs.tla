------------------------ MODULE ThreadProgramsProofs ------------------------
(***************************************************************************)
(* The buffer with one condition variable and the buffer by polling, for    *)
(* any size of the buffer and any number of items, and the counters, for    *)
(* any number of threads and rounds.                                        *)
(***************************************************************************)
EXTENDS ThreadPrograms, FiniteSetTheorems, TLAPS

-----------------------------------------------------------------------------
(* One condition variable *)

Slots == Waiting!Slots
Items == Waiting!Items

\* What the consumer has taken, and what is in the buffer.
TakenCount ==
    i["consumer"] + (IF pc["consumer"] \in {"write", "signal", "unlock"} THEN 1 ELSE 0)
PutCount == Waiting!Put
StoredCount == Waiting!InBuffer

WaitingTypes ==
    /\ buffer \in [Slots -> Int] /\ consumed \in [Items -> Int]
    /\ count \in 0 .. BUFFER_SIZE
    /\ i \in [Workers -> 0 .. ITEMS] /\ read \in [Workers -> Int]
    /\ pc \in [Workers -> {"loop", "test", "update", "write", "signal", "unlock", "asleep",
                           "awake", "done"}]
    /\ \A w \in Workers : pc[w] \notin {"loop", "done"} => i[w] < ITEMS

\* Only the thread that holds the mutex is between lock and unlock.
InSection(w) == pc[w] \in {"test", "update", "write", "signal", "unlock"}
OneAtATime == \A w \in Workers : InSection(w) => mutex = w

\* There is room for what is being put, something where something is being taken,
\* and the count is still what was read.
Rooms ==
    /\ pc["producer"] \in {"update", "write"} => count < BUFFER_SIZE
    /\ pc["consumer"] \in {"update", "write"} => count > 0
    /\ \A w \in Workers : pc[w] = "write" => read[w] = count
    /\ pc["producer"] = "write" => buffer[count] = i["producer"]

\* Each item is in one place: the first ones of `consumed', or of `buffer'.
Distinct ==
    /\ \A k \in 0 .. StoredCount - 1 : buffer[k] \in 0 .. PutCount - 1
    /\ \A k, l \in 0 .. StoredCount - 1 : buffer[k] = buffer[l] => k = l
    /\ \A k \in Items : k < TakenCount => consumed[k] \in 0 .. PutCount - 1
    /\ \A k \in Items : k >= TakenCount => consumed[k] = -1
    /\ \A k, l \in Items : k < TakenCount /\ consumed[k] = consumed[l] => k = l
    /\ \A k \in 0 .. StoredCount - 1, l \in Items : buffer[k] # consumed[l]
Complete ==
    \A x \in 0 .. PutCount - 1 :
        \/ \E k \in 0 .. StoredCount - 1 : buffer[k] = x
        \/ \E k \in Items : consumed[k] = x

WaitingInv ==
    WaitingTypes /\ OneAtATime /\ Rooms /\ Distinct /\ Complete /\ Waiting!NeverBothAsleep
IInv == kind = "waiting" => WaitingInv

-----------------------------------------------------------------------------
(* Polling *)

PollingInv ==
    /\ numberOfUnits \in 0 .. MAX_BUFFER_SIZE
    /\ read \in [Workers -> Int]
    /\ pc \in [Workers -> {"lock", "test", "update", "write", "unlock", "sleep"}]
    /\ \A w \in Workers : pc[w] \in {"test", "update", "write", "unlock"} => mutex = w
    /\ pc["producer"] \in {"update", "write"} => numberOfUnits < MAX_BUFFER_SIZE
    /\ pc["consumer"] \in {"update", "write"} => numberOfUnits > 0
    /\ \A w \in Workers : pc[w] = "write" => read[w] = numberOfUnits
PInv == kind = "polling" => PollingInv

-----------------------------------------------------------------------------
(* The steps of the threads with the condition variable *)

LEMMA WorkerNames ==
  /\ Workers = {"producer", "consumer"} /\ Waiting!Workers = Workers
  /\ Polling!Workers = Workers
  /\ Waiting!Other("producer") = "consumer" /\ Waiting!Other("consumer") = "producer"
BY DEF Workers, Waiting!Workers, Polling!Workers, Waiting!Other

LEMMA Sizes ==
  /\ BUFFER_SIZE \in Nat \ {0} /\ ITEMS \in Nat /\ MAX_BUFFER_SIZE \in Nat \ {0}
  /\ Slots = 0 .. BUFFER_SIZE - 1 /\ Items = 0 .. ITEMS - 1
BY ThreadAssumption
   DEF Waiting!SizesAssumption, Polling!SizeAssumption, Slots, Items, Waiting!Slots,
       Waiting!Items

ThreadStep(w) == Waiting!Step(w) \/ Waiting!WakeUp(w)

\* The steps that leave the items where they are.
QuietStep(w) ==
    \/ Waiting!Acquire(w) \/ Waiting!Finish(w) \/ Waiting!Proceed(w) \/ Waiting!Sleep(w)
    \/ Waiting!WakeUp(w) \/ Waiting!Signal(w) \/ Waiting!Unlock(w)

LEMMA StepKinds ==
  ASSUME NEW w \in Workers, ThreadStep(w)
  PROVE  \/ QuietStep(w)
         \/ w = "producer" /\ Waiting!PutItem
         \/ w = "consumer" /\ Waiting!TakeItem
         \/ Waiting!WriteCount(w)
BY DEF ThreadStep, Waiting!Step, QuietStep

LEMMA QuietInv ==
  ASSUME WaitingInv, NEW w \in Workers, QuietStep(w)
  PROVE  WaitingTypes' /\ OneAtATime' /\ Rooms' /\ Waiting!NeverBothAsleep'
<1> USE WorkerNames, Sizes DEF WaitingInv, WaitingTypes, OneAtATime, InSection, Rooms,
        Waiting!NeverBothAsleep, Waiting!Goto
<1>1. CASE Waiting!Acquire(w)
  BY <1>1 DEF Waiting!Acquire, Waiting!MutexFree
<1>2. CASE Waiting!Finish(w)
  BY <1>2 DEF Waiting!Finish
<1>3. CASE Waiting!Proceed(w)
  BY <1>3 DEF Waiting!Proceed, Waiting!MustWait
<1>4. CASE Waiting!Sleep(w)
  BY <1>4 DEF Waiting!Sleep, Waiting!MustWait
<1>5. CASE Waiting!WakeUp(w)
  BY <1>5 DEF Waiting!WakeUp
<1>6. CASE Waiting!Signal(w)
  BY <1>6 DEF Waiting!Signal, Waiting!Signals
<1>7. CASE Waiting!Unlock(w)
  <2>1. /\ pc[w] = "unlock" /\ pc' = [pc EXCEPT ![w] = "loop"] /\ mutex' = "free"
        /\ i' = [i EXCEPT ![w] = i[w] + 1] /\ i[w] \in 0 .. ITEMS - 1
        /\ UNCHANGED <<buffer, count, read, consumed>>
    BY <1>7 DEF Waiting!Unlock
  <2>2. i' \in [Workers -> 0 .. ITEMS]
    <3>1. i \in [Workers -> 0 .. ITEMS] /\ ITEMS \in Nat
      OBVIOUS
    <3>2. i[w] + 1 \in 0 .. ITEMS
      BY ONLY <2>1, <3>1
    <3>. QED
      BY ONLY <2>1, <3>1, <3>2
  <2>3. WaitingTypes'
    BY <2>1, <2>2
  <2>4. \A v \in Workers : InSection(v) => v = w
    BY <2>1
  <2>5. OneAtATime' /\ Rooms'
    BY <2>1, <2>4
  <2>6. Waiting!NeverBothAsleep'
    BY <2>1
  <2>. QED
    BY <2>3, <2>5, <2>6
<1>. QED
  BY <1>1, <1>2, <1>3, <1>4, <1>5, <1>6, <1>7 DEF QuietStep

LEMMA QuietCounts ==
  ASSUME WaitingInv, NEW w \in Workers, QuietStep(w)
  PROVE  /\ UNCHANGED <<buffer, count, consumed>>
         /\ PutCount' = PutCount /\ StoredCount' = StoredCount /\ TakenCount' = TakenCount
<1> USE WorkerNames, Sizes DEF WaitingInv, WaitingTypes, Waiting!Goto,
        PutCount, StoredCount, TakenCount, Waiting!Put, Waiting!InBuffer
<1>1. CASE Waiting!Acquire(w)
  BY <1>1 DEF Waiting!Acquire
<1>2. CASE Waiting!Finish(w)
  BY <1>2 DEF Waiting!Finish
<1>3. CASE Waiting!Proceed(w)
  BY <1>3 DEF Waiting!Proceed
<1>4. CASE Waiting!Sleep(w)
  BY <1>4 DEF Waiting!Sleep
<1>5. CASE Waiting!WakeUp(w)
  BY <1>5 DEF Waiting!WakeUp
<1>6. CASE Waiting!Signal(w)
  BY <1>6 DEF Waiting!Signal, Waiting!Signals
<1>7. CASE Waiting!Unlock(w)
  BY <1>7 DEF Waiting!Unlock
<1>. QED
  BY <1>1, <1>2, <1>3, <1>4, <1>5, <1>6, <1>7 DEF QuietStep

LEMMA QuietItems ==
  ASSUME WaitingInv, NEW w \in Workers, QuietStep(w)
  PROVE  Distinct' /\ Complete'
<1>1. /\ UNCHANGED <<buffer, count, consumed>>
      /\ PutCount' = PutCount /\ StoredCount' = StoredCount /\ TakenCount' = TakenCount
  BY QuietCounts
<1>. QED
  BY <1>1 DEF WaitingInv, Distinct, Complete

\* The new item goes above the others.
LEMMA PutInv ==
  ASSUME WaitingInv, Waiting!PutItem
  PROVE  WaitingInv'
<1> USE WorkerNames, Sizes
<1>1. /\ pc["producer"] = "update" /\ pc' = [pc EXCEPT !["producer"] = "write"]
      /\ buffer' = [buffer EXCEPT ![count] = i["producer"]]
      /\ read' = [read EXCEPT !["producer"] = count]
      /\ UNCHANGED <<count, mutex, i, consumed>>
  BY DEF Waiting!PutItem, Waiting!Goto
<1>2. pc["consumer"] \notin {"write", "update"} /\ count \in Slots /\ i["producer"] \in 0 .. ITEMS - 1
  BY <1>1 DEF WaitingInv, WaitingTypes, OneAtATime, InSection, Rooms
<1>3. WaitingTypes' /\ OneAtATime' /\ Rooms' /\ Waiting!NeverBothAsleep'
  BY <1>1, <1>2 DEF WaitingInv, WaitingTypes, OneAtATime, InSection, Rooms,
        Waiting!NeverBothAsleep
<1>4. PutCount' = PutCount /\ StoredCount' = StoredCount /\ TakenCount' = TakenCount
  BY <1>1, <1>2 DEF WaitingInv, WaitingTypes, PutCount, StoredCount, TakenCount, Waiting!Put,
        Waiting!InBuffer
<1>5. StoredCount = count
  BY <1>2 DEF StoredCount, Waiting!InBuffer, WaitingInv, WaitingTypes
<1>6. \A k \in 0 .. StoredCount - 1 : buffer'[k] = buffer[k]
  BY <1>1, <1>5 DEF WaitingInv, WaitingTypes
<1>7. Distinct' /\ Complete'
  BY <1>1, <1>4, <1>6 DEF WaitingInv, Distinct, Complete
<1>. QED
  BY <1>3, <1>7 DEF WaitingInv

\* The uppermost item goes to the next place of the consumer.
LEMMA TakeInv ==
  ASSUME WaitingInv, Waiting!TakeItem
  PROVE  WaitingInv'
<1> USE WorkerNames, Sizes
<1> DEFINE c == i["consumer"]
<1>1. /\ pc["consumer"] = "update" /\ pc' = [pc EXCEPT !["consumer"] = "write"]
      /\ consumed' = [consumed EXCEPT ![c] = buffer[count - 1]]
      /\ read' = [read EXCEPT !["consumer"] = count]
      /\ UNCHANGED <<count, mutex, i, buffer>>
  BY DEF Waiting!TakeItem, Waiting!Goto, Waiting!LastSlot
<1>2. /\ pc["producer"] \notin {"write", "update", "signal", "unlock"}
      /\ count > 0 /\ count - 1 \in Slots /\ c \in Items /\ c \in Nat
  BY <1>1 DEF WaitingInv, WaitingTypes, OneAtATime, InSection, Rooms
<1>3. WaitingTypes' /\ OneAtATime' /\ Rooms' /\ Waiting!NeverBothAsleep'
  BY <1>1, <1>2 DEF WaitingInv, WaitingTypes, OneAtATime, InSection, Rooms,
        Waiting!NeverBothAsleep
<1>4. /\ PutCount' = PutCount /\ PutCount \in Nat
      /\ StoredCount = count /\ StoredCount' = count - 1
      /\ TakenCount = c /\ TakenCount' = c + 1
  BY <1>1, <1>2 DEF WaitingInv, WaitingTypes, PutCount, StoredCount, TakenCount, Waiting!Put,
        Waiting!InBuffer
<1>5. /\ consumed'[c] = buffer[count - 1]
      /\ \A k \in Items : k # c => consumed'[k] = consumed[k]
      /\ consumed[c] = -1
  BY <1>1, <1>2, <1>4 DEF WaitingInv, WaitingTypes, Distinct
<1>6. count \in Nat /\ Distinct /\ Complete
  BY DEF WaitingInv, WaitingTypes
<1>7. Distinct'
  <2>1. /\ \A k \in 0 .. count - 2 : buffer[k] \in 0 .. PutCount - 1
        /\ \A k, l \in 0 .. count - 2 : buffer[k] = buffer[l] => k = l
        /\ buffer[count - 1] \in 0 .. PutCount - 1
        /\ \A k \in 0 .. count - 2 : buffer[k] # buffer[count - 1]
    BY <1>2, <1>4, <1>6 DEF Distinct
  <2>2. /\ \A k \in Items : k < c + 1 => consumed'[k] \in 0 .. PutCount - 1
        /\ \A k \in Items : k >= c + 1 => consumed'[k] = -1
    <3> SUFFICES ASSUME NEW k \in Items
                 PROVE  /\ k < c + 1 => consumed'[k] \in 0 .. PutCount - 1
                        /\ k >= c + 1 => consumed'[k] = -1
      OBVIOUS
    <3>1. /\ k < c => consumed[k] \in 0 .. PutCount - 1
          /\ k >= c => consumed[k] = -1
      BY <1>4, <1>6 DEF Distinct
    <3>2. CASE k = c
      BY <1>2, <1>5, <2>1, <3>2
    <3>3. CASE k # c
      BY <1>2, <1>5, <3>1, <3>3
    <3>. QED
      BY <3>2, <3>3
  <2>3. \A l \in Items : consumed[l] # buffer[count - 1]
    BY <1>2, <1>4, <1>6 DEF Distinct
  <2>4. \A k, l \in Items : k < c + 1 /\ consumed'[k] = consumed'[l] => k = l
    BY <1>2, <1>4, <1>5, <1>6, <2>3 DEF Distinct
  <2>5. \A k \in 0 .. count - 2, l \in Items : buffer[k] # consumed'[l]
    BY <1>2, <1>4, <1>5, <1>6, <2>1 DEF Distinct
  <2>. QED
    BY <1>1, <1>4, <1>6, <2>1, <2>2, <2>4, <2>5 DEF Distinct
<1>8. Complete'
  <2> SUFFICES ASSUME NEW x \in 0 .. PutCount - 1
               PROVE  \/ \E k \in 0 .. count - 2 : buffer[k] = x
                      \/ \E k \in Items : consumed'[k] = x
    BY <1>1, <1>4, <1>6 DEF Complete
  <2>1. CASE \E k \in 0 .. count - 1 : buffer[k] = x
    BY <1>2, <1>5, <1>6, <2>1
  <2>2. CASE \E k \in Items : consumed[k] = x
    BY <1>5, <2>2
  <2>. QED
    BY <1>4, <1>6, <2>1, <2>2 DEF Complete
<1>. QED
  BY <1>3, <1>7, <1>8 DEF WaitingInv

\* count++ and count-- make the new item part of the buffer, and the taken one not.
LEMMA WriteInv ==
  ASSUME WaitingInv, NEW w \in Workers, Waiting!WriteCount(w)
  PROVE  WaitingInv'
<1> USE WorkerNames, Sizes
<1>1. /\ pc[w] = "write" /\ pc' = [pc EXCEPT ![w] = "signal"]
      /\ count' = (IF w = "producer" THEN count + 1 ELSE count - 1)
      /\ UNCHANGED <<buffer, mutex, i, read, consumed>>
  BY DEF Waiting!WriteCount, Waiting!Goto, WaitingInv, Rooms
<1>2. \A v \in Workers : v # w => ~InSection(v)
  BY <1>1 DEF WaitingInv, OneAtATime, InSection
<1>3. WaitingTypes' /\ OneAtATime' /\ Rooms' /\ Waiting!NeverBothAsleep'
  BY <1>1, <1>2 DEF WaitingInv, WaitingTypes, OneAtATime, InSection, Rooms,
        Waiting!NeverBothAsleep
<1>4. CASE w = "consumer"
  <2>1. PutCount' = PutCount /\ StoredCount' = StoredCount /\ TakenCount' = TakenCount
    BY <1>1, <1>2, <1>4 DEF WaitingInv, WaitingTypes, PutCount, StoredCount, TakenCount,
       Waiting!Put, Waiting!InBuffer
  <2>2. Distinct' /\ Complete'
    BY <1>1, <2>1 DEF WaitingInv, Distinct, Complete
  <2>. QED
    BY <1>3, <2>2 DEF WaitingInv
<1>5. CASE w = "producer"
  <2>1. /\ StoredCount = count /\ StoredCount' = count + 1 /\ TakenCount' = TakenCount
        /\ PutCount = i["producer"] /\ PutCount' = i["producer"] + 1
        /\ buffer[count] = i["producer"]
        /\ count \in Nat /\ i["producer"] \in Nat /\ TakenCount \in Nat
    BY <1>1, <1>2, <1>5 DEF WaitingInv, WaitingTypes, Rooms, PutCount, StoredCount, TakenCount,
       Waiting!Put, Waiting!InBuffer, InSection
  <2>2. Distinct /\ Complete /\ UNCHANGED <<buffer, consumed>>
    BY <1>1 DEF WaitingInv
  <2>3. \A k \in 0 .. count : k \in 0 .. count - 1 \/ k = count
    BY <2>1
  <2>4. Distinct'
    <3>1. /\ \A k \in 0 .. count - 1 : buffer[k] \in 0 .. PutCount - 1
          /\ \A k, l \in 0 .. count - 1 : buffer[k] = buffer[l] => k = l
          /\ \A k \in Items : k < TakenCount => consumed[k] \in 0 .. PutCount - 1
          /\ \A k \in Items : k >= TakenCount => consumed[k] = -1
          /\ \A k, l \in Items : k < TakenCount /\ consumed[k] = consumed[l] => k = l
          /\ \A k \in 0 .. count - 1, l \in Items : buffer[k] # consumed[l]
      BY <2>1, <2>2 DEF Distinct
    <3>2. \A k \in 0 .. count : buffer[k] \in 0 .. PutCount
      BY <2>1, <2>3, <3>1
    <3>3. \A k, l \in 0 .. count : buffer[k] = buffer[l] => k = l
      BY <2>1, <2>3, <3>1
    <3>4. \A k \in Items : k < TakenCount => consumed[k] \in 0 .. PutCount
      BY <2>1, <3>1
    <3>5. \A l \in Items : consumed[l] # PutCount
      <4> SUFFICES ASSUME NEW l \in Items PROVE consumed[l] # PutCount
        OBVIOUS
      <4>1. l < TakenCount \/ l >= TakenCount
        BY <2>1
      <4>. QED
        BY <2>1, <3>1, <4>1
    <3>6. \A k \in 0 .. count, l \in Items : buffer[k] # consumed[l]
      BY <2>1, <2>3, <3>1, <3>5
    <3>7. PutCount' - 1 = PutCount /\ StoredCount' - 1 = count
      BY <2>1
    <3>. QED
      BY <2>1, <2>2, <3>1, <3>2, <3>3, <3>4, <3>6, <3>7 DEF Distinct
  <2>5. Complete'
    <3> SUFFICES ASSUME NEW x \in 0 .. PutCount' - 1
                 PROVE  \/ \E k \in 0 .. count : buffer[k] = x
                        \/ \E k \in Items : consumed[k] = x
      BY <2>1, <2>2 DEF Complete
    <3>1. CASE x = PutCount
      BY <2>1, <3>1
    <3>2. CASE x # PutCount
      <4>1. x \in 0 .. PutCount - 1
        BY <2>1, <3>2
      <4>. QED
        BY <2>1, <2>2, <4>1 DEF Complete
    <3>. QED
      BY <3>1, <3>2
  <2>. QED
    BY <1>3, <2>4, <2>5 DEF WaitingInv
<1>. QED
  BY <1>4, <1>5

LEMMA InitInv ==
  ASSUME Waiting!Init
  PROVE  WaitingInv
<1> USE WorkerNames, Sizes DEF Waiting!Init
<1>1. /\ buffer = [k \in Slots |-> 0] /\ count = 0
      /\ i = [w \in Workers |-> 0] /\ read = [w \in Workers |-> 0]
      /\ pc = [w \in Workers |-> "loop"] /\ consumed = [k \in Items |-> -1]
  BY DEF Slots, Items
<1>2. PutCount = 0 /\ StoredCount = 0 /\ TakenCount = 0
  <2>1. /\ pc["producer"] = "loop" /\ pc["consumer"] = "loop"
        /\ i["producer"] = 0 /\ i["consumer"] = 0
    BY <1>1
  <2>2. /\ PutCount = 0 + 0 /\ StoredCount = 0 - 0 /\ TakenCount = 0 + 0
    BY <1>1, <2>1, Zenon DEF PutCount, StoredCount, TakenCount, Waiting!Put, Waiting!InBuffer
  <2>. QED
    BY <2>2
<1>3. WaitingTypes /\ OneAtATime /\ Rooms /\ Waiting!NeverBothAsleep
  BY <1>1 DEF WaitingTypes, OneAtATime, InSection, Rooms, Waiting!NeverBothAsleep
<1>4. Distinct /\ Complete
  BY <1>1, <1>2 DEF Distinct, Complete
<1>. QED
  BY <1>3, <1>4 DEF WaitingInv

\* IInv holds in every reachable state.
THEOREM Invariance == Spec => []IInv
<1>1. Init => IInv
  BY InitInv DEF Init, IInv
<1>2. IInv /\ [Next]_vars => IInv'
  <2> SUFFICES ASSUME IInv, [Next]_vars, kind' = "waiting" PROVE WaitingInv'
    BY DEF IInv
  <2>1. kind = "waiting" /\ WaitingInv
    BY DEF IInv, Next, WaitingOnly, PollingOnly, CountingOnly, vars
  <2>2. CASE UNCHANGED <<mutex, pc, read, bufferVars>>
    BY <2>1, <2>2 DEF WaitingInv, WaitingTypes, OneAtATime, InSection, Rooms, Distinct,
       Complete, PutCount, StoredCount, TakenCount, Waiting!Put, Waiting!InBuffer,
       Waiting!NeverBothAsleep, bufferVars
  <2>3. ASSUME NEW w \in Workers, ThreadStep(w)
        PROVE  WaitingInv'
    <3>1. CASE QuietStep(w)
      BY <2>1, <3>1, QuietInv, QuietItems DEF WaitingInv
    <3>. QED
      BY <2>1, <2>3, <3>1, StepKinds, PutInv, TakeInv, WriteInv
  <2>4. CASE Waiting!Next
    BY <2>2, <2>3, <2>4, WorkerNames
       DEF Waiting!Next, ThreadStep, Waiting!Exit, Waiting!vars, bufferVars
  <2>. QED
    BY <2>1, <2>2, <2>4 DEF Next, PollingOnly, CountingOnly, vars
<1>. QED
  BY <1>1, <1>2, PTL DEF Spec

\* The two threads never sleep both, and the one that does has a reason, although
\* they share one condition variable (conditionvaraibles.c).
THEOREM OneStaysAwake == Spec => []NeverBothAsleep
<1>1. IInv => NeverBothAsleep
  BY DEF IInv, WaitingInv, NeverBothAsleep
<1>. QED
  BY <1>1, Invariance, PTL

\* No item is lost and none is taken twice, for any size of the buffer and any
\* number of items (conditionvaraibles.c).
THEOREM ItemsOnce == Spec => []EachItemOnce
<1>1. ASSUME WaitingInv PROVE Waiting!EachItemOnce
  <2> USE WorkerNames, Sizes
  <2> DEFINE n == StoredCount
             f == [k \in 0 .. n - 1 |-> buffer[k]]
  <2>1. /\ n \in Nat /\ PutCount \in Nat /\ TakenCount \in Nat
        /\ \A k \in 0 .. n - 1 : k \in Slots
        /\ Distinct /\ Complete
    BY <1>1 DEF WaitingInv, WaitingTypes, Rooms, StoredCount, PutCount, TakenCount,
       Waiting!InBuffer, Waiting!Put
  <2>2. /\ Waiting!Stored = {buffer[k] : k \in 0 .. n - 1}
        /\ Waiting!Taken = {consumed[k] : k \in Items} \ {-1}
        /\ Waiting!Put = PutCount /\ Waiting!InBuffer = n
    BY DEF Waiting!Stored, Waiting!Taken, StoredCount, PutCount, Items
  <2>3. \A k \in Items : consumed[k] # -1 => k < TakenCount
    BY <2>1 DEF Distinct
  <2>4. \A x \in 0 .. PutCount - 1 : x # -1
    BY <2>1
  <2>5. Waiting!Taken \cup Waiting!Stored = 0 .. PutCount - 1
    BY <2>1, <2>2, <2>3, <2>4 DEF Distinct, Complete
  <2>6. Waiting!Taken \cap Waiting!Stored = {}
    BY <2>1, <2>2 DEF Distinct
  <2>7. \A k, l \in Items : k # l /\ consumed[k] # -1 => consumed[k] # consumed[l]
    BY <2>1, <2>3 DEF Distinct
  <2>8. Cardinality(Waiting!Stored) = n
    <3>1. f \in Surjection(0 .. n - 1, Waiting!Stored)
      BY <2>2 DEF Surjection
    <3>2. f \in Injection(0 .. n - 1, Waiting!Stored)
      <4>1. \A k, l \in 0 .. n - 1 : f[k] = f[l] => k = l
        BY <2>1 DEF Distinct
      <4>. QED
        BY <2>2, <4>1 DEF Injection, IsInjective
    <3>3. IsFiniteSet(0 .. n - 1) /\ Cardinality(0 .. n - 1) = n
      <4>1. 0 \in Int /\ n - 1 \in Int /\ IF 0 > n - 1 THEN 0 = n ELSE n - 1 - 0 + 1 = n
        BY <2>1
      <4>2. /\ IsFiniteSet(0 .. n - 1)
            /\ Cardinality(0 .. n - 1) = IF 0 > n - 1 THEN 0 ELSE n - 1 - 0 + 1
        BY <4>1, FS_Interval, Zenon
      <4>. QED
        BY <4>1, <4>2
    <3> HIDE DEF f
    <3>. QED
      BY <3>1, <3>2, <3>3, FS_Surjection
  <2>0. Waiting!Cardinality(Waiting!Stored) = Cardinality(Waiting!Stored)
    BY DEF Waiting!Cardinality, Cardinality
  <2>9. /\ Waiting!Taken \cup Waiting!Stored = 0 .. Waiting!Put - 1
        /\ Waiting!Cardinality(Waiting!Stored) = Waiting!InBuffer
    BY <2>0, <2>2, <2>5, <2>8
  <2>10. \A k, l \in Waiting!Items : k # l /\ consumed[k] # -1 => consumed[k] # consumed[l]
    BY <2>7 DEF Items
  <2>. QED
    BY <2>6, <2>9, <2>10, Zenon DEF Waiting!EachItemOnce
<1>2. IInv => EachItemOnce
  BY <1>1 DEF IInv, EachItemOnce
<1>. QED
  BY <1>2, Invariance, PTL

-----------------------------------------------------------------------------
(* The threads that poll *)

LEMMA PollingStep ==
  ASSUME PollingInv, NEW w \in Workers, Polling!Step(w)
  PROVE  /\ PollingInv'
         /\ \/ numberOfUnits' = numberOfUnits
            \/ numberOfUnits < MAX_BUFFER_SIZE /\ numberOfUnits' = numberOfUnits + 1
            \/ numberOfUnits > 0 /\ numberOfUnits' = numberOfUnits - 1
<1> USE WorkerNames, Sizes DEF PollingInv, Polling!Goto
<1>1. CASE Polling!Lock(w)
  BY <1>1 DEF Polling!Lock, Polling!MutexFree
<1>2. CASE Polling!Test(w)
  BY <1>2 DEF Polling!Test, Polling!MayUpdate
<1>3. CASE Polling!Read(w)
  BY <1>3 DEF Polling!Read
<1>4. CASE Polling!Write(w)
  BY <1>4 DEF Polling!Write
<1>5. CASE Polling!Unlock(w)
  BY <1>5 DEF Polling!Unlock
<1>6. CASE Polling!Wake(w)
  BY <1>6 DEF Polling!Wake
<1>. QED
  BY <1>1, <1>2, <1>3, <1>4, <1>5, <1>6 DEF Polling!Step

\* The counter that the threads look at and change under the mutex is a bounded
\* buffer: it stays in its range and changes by one (producerconsumer.c,
\* requirements (1) and (2)).
THEOREM PollingImplementsBuffer == Spec => Buffer!Spec
<1> DEFINE units == IF kind = "polling" THEN numberOfUnits ELSE 0
<1>1. Init => PInv /\ Buffer!Init
  BY WorkerNames, Sizes DEF Init, Polling!Init, PInv, PollingInv, Buffer!Init
<1>2. PInv /\ [Next]_vars => PInv' /\ [Buffer!Next]_units
  <2> SUFFICES ASSUME PInv, [Next]_vars PROVE PInv' /\ [Buffer!Next]_units
    OBVIOUS
  <2>1. kind' = kind
    BY DEF Next, WaitingOnly, PollingOnly, CountingOnly, vars
  <2>2. CASE kind # "polling"
    BY <2>1, <2>2 DEF PInv
  <2>3. CASE kind = "polling" /\ UNCHANGED vars
    BY <2>1, <2>3 DEF PInv, PollingInv, vars
  <2>4. CASE kind = "polling" /\ ~UNCHANGED vars
    <3>1. PICK w \in Workers : Polling!Step(w)
      BY <2>4, WorkerNames DEF Next, WaitingOnly, PollingOnly, CountingOnly, Polling!Next
    <3>2. /\ PollingInv'
          /\ \/ numberOfUnits' = numberOfUnits
             \/ numberOfUnits < MAX_BUFFER_SIZE /\ numberOfUnits' = numberOfUnits + 1
             \/ numberOfUnits > 0 /\ numberOfUnits' = numberOfUnits - 1
      BY <2>4, <3>1, PollingStep DEF PInv
    <3>. QED
      BY <2>1, <2>4, <3>2 DEF PInv, Buffer!Next, Buffer!Produce, Buffer!Consume
  <2>. QED
    BY <2>2, <2>3, <2>4
<1>. QED
  BY <1>1, <1>2, PTL DEF Spec, Buffer!Spec

-----------------------------------------------------------------------------
(* Sums over finite sets, as MapThenSumSet defines them *)

\* The g of MapThenSumSet: g[s] adds f[x] for the x in s, a subset of S.
Pick(s) == CHOOSE x \in s : TRUE
IsSum(g, f, S) ==
    g = [s \in SUBSET S |-> IF s = {} THEN 0 ELSE f[Pick(s)] + g[s \ {Pick(s)}]]
Sum(f, S) == (CHOOSE g : IsSum(g, f, S))[S]

\* Induction over the subsets of a finite set: a set of subsets that contains
\* each one with whose proper subsets it has is all of them.
LEMMA SubsetInduction ==
  ASSUME NEW S, IsFiniteSet(S), NEW G,
         \A T \in SUBSET S : (\A U \in SUBSET T : U # T => U \in G) => T \in G
  PROVE  S \in G
<1> SUFFICES ASSUME S \notin G PROVE FALSE
  OBVIOUS
<1> DEFINE Bad == {T \in SUBSET S : T \notin G}
           R == StrictSubsetOrdering(S)
<1>1. IsWellFoundedOn(R, FiniteSubsetsOf(S))
  BY FS_StrictSubsetOrderingWellFounded
<1>2. Bad \subseteq FiniteSubsetsOf(S) /\ Bad # {}
  BY FS_Subset DEF FiniteSubsetsOf
<1>3. PICK T \in Bad : \A U \in Bad : <<U, T>> \notin R
  <2> HIDE DEF Bad, R
  <2>. QED
    BY <1>1, <1>2, WFMin
<1>4. \A U \in SUBSET T : U # T => U \in G
  BY <1>3 DEF StrictSubsetOrdering
<1>. QED
  BY <1>3, <1>4

\* What the sums of subsets are made of, and those of the subsets of a subset.
LEMMA SumAt ==
  ASSUME NEW S, NEW f, NEW g, IsSum(g, f, S), NEW U \in SUBSET S
  PROVE  g[U] = IF U = {} THEN 0 ELSE f[Pick(U)] + g[U \ {Pick(U)}]
BY DEF IsSum

Below(g, U) == [s \in SUBSET U |-> g[s]]

LEMMA SumBelow ==
  ASSUME NEW S, NEW f, NEW g, IsSum(g, f, S), NEW U \in SUBSET S
  PROVE  IsSum(Below(g, U), f, U)
<1>1. \A s \in SUBSET U : g[s] = IF s = {} THEN 0 ELSE f[Pick(s)] + g[s \ {Pick(s)}]
  BY DEF IsSum
<1>. QED
  BY <1>1 DEF IsSum, Below

\* The sum exists and is unique.
LEMMA SumUnique ==
  ASSUME NEW S, IsFiniteSet(S), NEW f
  PROVE  \E g : IsSum(g, f, S) /\ \A h : IsSum(h, f, S) => h = g
<1> DEFINE One(T, g) == IsSum(g, f, T) /\ \A h : IsSum(h, f, T) => h = g
           G == {T \in SUBSET S : \E g : One(T, g)}
<1>1. ASSUME NEW T \in SUBSET S, \A U \in SUBSET T : U # T => \E g : One(U, g)
      PROVE  \E g : One(T, g)
  <2> DEFINE V == [U \in SUBSET T |-> CHOOSE g : One(U, g)]
             W == [s \in SUBSET T |-> V[s][s]]
             c == Pick(T)
             g == [s \in SUBSET T |->
                     IF s # T THEN W[s] ELSE IF T = {} THEN 0 ELSE f[c] + W[T \ {c}]]
  <2>1. \A U \in SUBSET T : U # T => One(U, V[U])
    <3> SUFFICES ASSUME NEW U \in SUBSET T, U # T PROVE One(U, CHOOSE h : One(U, h))
      OBVIOUS
    <3>1. \E h : One(U, h)
      BY <1>1
    <3> HIDE DEF One
    <3>. QED
      BY <3>1
  <2>2. \A s \in SUBSET T : W[s] = V[s][s]
    OBVIOUS
  <2> HIDE DEF V, W
  <2>3. ASSUME NEW U \in SUBSET T, NEW h, IsSum(h, f, U), NEW s \in SUBSET U, s # T
        PROVE  h[s] = W[s]
    <3>1. IsSum(Below(h, s), f, s)
      BY <2>3, SumBelow
    <3>2. Below(h, s) = V[s]
      BY <2>1, <2>3, <3>1
    <3>3. Below(h, s)[s] = h[s]
      BY DEF Below
    <3>. QED
      BY <2>2, <3>2, <3>3
  <2>4. T # {} => c \in T
    BY DEF Pick
  <2>5. ASSUME NEW s \in SUBSET T, s # T
        PROVE  W[s] = IF s = {} THEN 0 ELSE f[Pick(s)] + W[s \ {Pick(s)}]
    <3>1. IsSum(V[s], f, s)
      BY <2>1, <2>5
    <3>2. V[s][s] = IF s = {} THEN 0 ELSE f[Pick(s)] + V[s][s \ {Pick(s)}]
      BY <3>1, SumAt
    <3>3. V[s][s \ {Pick(s)}] = W[s \ {Pick(s)}]
      <4>1. s \ {Pick(s)} \in SUBSET s /\ s \ {Pick(s)} # T
        BY <2>5
      <4>. QED
        BY <2>3, <3>1, <4>1
    <3>. QED
      BY <2>2, <3>2, <3>3
  <2>6. \A s \in SUBSET T : g[s] = IF s = {} THEN 0 ELSE f[Pick(s)] + g[s \ {Pick(s)}]
    <3> SUFFICES ASSUME NEW s \in SUBSET T
                 PROVE  g[s] = IF s = {} THEN 0 ELSE f[Pick(s)] + g[s \ {Pick(s)}]
      OBVIOUS
    <3>1. s # {} => s \ {Pick(s)} # T /\ s \ {Pick(s)} \in SUBSET T
      BY <2>4
    <3>2. CASE s # T
      BY <2>5, <3>1, <3>2
    <3>3. CASE s = T
      BY <3>1, <3>3
    <3>. QED
      BY <3>2, <3>3
  <2>7. g = [s \in SUBSET T |-> g[s]]
    OBVIOUS
  <2> HIDE DEF g
  <2>8. IsSum(g, f, T)
    <3>1. [s \in SUBSET T |-> g[s]]
            = [s \in SUBSET T |-> IF s = {} THEN 0 ELSE f[Pick(s)] + g[s \ {Pick(s)}]]
      BY <2>6
    <3>. QED
      BY <2>7, <3>1 DEF IsSum
  <2>9. ASSUME NEW h, IsSum(h, f, T) PROVE h = g
    <3>1. \A s \in SUBSET T : s # T => h[s] = W[s] /\ g[s] = W[s]
      BY <2>3, <2>8, <2>9
    <3>2. /\ h[T] = IF T = {} THEN 0 ELSE f[c] + h[T \ {c}]
          /\ g[T] = IF T = {} THEN 0 ELSE f[c] + g[T \ {c}]
      BY <2>8, <2>9, SumAt
    <3>3. T # {} => T \ {c} # T /\ T \ {c} \in SUBSET T
      BY <2>4
    <3>4. \A s \in SUBSET T : h[s] = g[s]
      BY <3>1, <3>2, <3>3
    <3>5. h = [s \in SUBSET T |-> h[s]]
      BY <2>9 DEF IsSum
    <3>. QED
      BY <2>7, <3>4, <3>5
  <2>. QED
    BY <2>8, <2>9
<1>2. \A T \in SUBSET S : (\A U \in SUBSET T : U # T => U \in G) => T \in G
  BY <1>1
<1>3. S \in G
  <2> HIDE DEF G
  <2>. QED
    BY <1>2, SubsetInduction
<1>. QED
  BY <1>3

LEMMA SumIsSum ==
  ASSUME NEW S, IsFiniteSet(S), NEW f, NEW g, IsSum(g, f, S), NEW T \in SUBSET S
  PROVE  Sum(f, T) = g[T]
<1>1. IsFiniteSet(T)
  BY FS_Subset
<1>2. IsSum(Below(g, T), f, T)
  BY SumBelow
<1>3. \E h : IsSum(h, f, T)
  BY <1>2
<1>4. IsSum(CHOOSE h : IsSum(h, f, T), f, T)
  BY <1>3, Zenon
<1>5. (CHOOSE h : IsSum(h, f, T)) = Below(g, T)
  BY <1>1, <1>2, <1>4, SumUnique
<1>. QED
  BY <1>5 DEF Sum, Below

\* An element less, whatever the order in which they are added.
LEMMA SumStep ==
  ASSUME NEW S, IsFiniteSet(S), NEW f
  PROVE  Sum(f, S) = IF S = {} THEN 0 ELSE f[Pick(S)] + Sum(f, S \ {Pick(S)})
<1>1. PICK g : IsSum(g, f, S)
  BY SumUnique
<1>2. S \in SUBSET S /\ S \ {Pick(S)} \in SUBSET S
  OBVIOUS
<1>3. Sum(f, S) = g[S] /\ Sum(f, S \ {Pick(S)}) = g[S \ {Pick(S)}]
  BY <1>1, <1>2, SumIsSum
<1>. QED
  BY <1>1, <1>2, <1>3, SumAt

LEMMA SumSplit ==
  ASSUME NEW S, IsFiniteSet(S), NEW f, \A x \in S : f[x] \in Int
  PROVE  /\ Sum(f, S) \in Int
         /\ \A x \in S : Sum(f, S) = f[x] + Sum(f, S \ {x})
<1> DEFINE G == {T \in SUBSET S : /\ Sum(f, T) \in Int
                                  /\ \A x \in T : Sum(f, T) = f[x] + Sum(f, T \ {x})}
<1>1. ASSUME NEW T \in SUBSET S, \A U \in SUBSET T : U # T => U \in G
      PROVE  T \in G
  <2>1. IsFiniteSet(T)
    BY FS_Subset
  <2> DEFINE c == Pick(T)
  <2>2. Sum(f, T) = IF T = {} THEN 0 ELSE f[c] + Sum(f, T \ {c})
    BY <2>1, SumStep
  <2>3. T # {} => c \in T
    BY DEF Pick
  <2> HIDE DEF c
  <2>4. ASSUME NEW x \in T, x # c
        PROVE  Sum(f, T) = f[x] + Sum(f, T \ {x})
    <3>1. /\ T \ {c} \in SUBSET T /\ T \ {c} # T /\ x \in T \ {c}
          /\ T \ {x} \in SUBSET T /\ T \ {x} # T /\ c \in T \ {x}
          /\ (T \ {c}) \ {x} = (T \ {x}) \ {c} /\ (T \ {c}) \ {x} \in SUBSET T
          /\ (T \ {c}) \ {x} # T
      BY <2>3, <2>4
    <3>2. /\ Sum(f, T \ {c}) = f[x] + Sum(f, (T \ {c}) \ {x})
          /\ Sum(f, T \ {x}) = f[c] + Sum(f, (T \ {x}) \ {c})
          /\ Sum(f, (T \ {c}) \ {x}) \in Int
      BY <1>1, <3>1
    <3>. QED
      BY <2>2, <3>1, <3>2
  <2>5. Sum(f, T) \in Int
    <3>1. T # {} => T \ {c} # T /\ T \ {c} \in SUBSET T /\ f[c] \in Int
      BY <2>3
    <3>2. T # {} => Sum(f, T \ {c}) \in Int
      BY <1>1, <3>1
    <3>. QED
      BY <2>2, <3>1, <3>2
  <2>. QED
    BY <2>2, <2>4, <2>5
<1>2. S \in G
  <2> HIDE DEF G
  <2>. QED
    BY <1>1, SubsetInduction
<1>. QED
  BY <1>2

\* The sum depends on the values of f in S only.
LEMMA SumSame ==
  ASSUME NEW S, IsFiniteSet(S), NEW f, NEW h, \A x \in S : h[x] = f[x]
  PROVE  Sum(h, S) = Sum(f, S)
<1>1. PICK g : IsSum(g, f, S)
  BY SumUnique
<1>2. \A s \in SUBSET S : s # {} => Pick(s) \in S
  BY DEF Pick
<1>3. IsSum(g, h, S)
  <2>1. [s \in SUBSET S |-> IF s = {} THEN 0 ELSE f[Pick(s)] + g[s \ {Pick(s)}]]
          = [s \in SUBSET S |-> IF s = {} THEN 0 ELSE h[Pick(s)] + g[s \ {Pick(s)}]]
    BY <1>2
  <2>. QED
    BY <1>1, <2>1 DEF IsSum
<1>. QED
  BY <1>1, <1>3, SumIsSum

LEMMA SumChange ==
  ASSUME NEW S, IsFiniteSet(S), NEW f, NEW h, NEW x \in S,
         \A y \in S : f[y] \in Int /\ h[y] \in Int,
         \A y \in S \ {x} : h[y] = f[y]
  PROVE  Sum(h, S) = Sum(f, S) + (h[x] - f[x])
<1>1. IsFiniteSet(S \ {x})
  BY FS_Subset
<1>2. Sum(h, S \ {x}) = Sum(f, S \ {x})
  BY <1>1, SumSame
<1>3. Sum(f, S \ {x}) \in Int
  BY <1>1, SumSplit
<1>4. Sum(h, S) = h[x] + Sum(h, S \ {x}) /\ Sum(f, S) = f[x] + Sum(f, S \ {x})
  BY SumSplit
<1>. QED
  BY <1>2, <1>3, <1>4

\* A sum of natural numbers is one, and of zeros zero.
LEMMA SumNat ==
  ASSUME NEW S, IsFiniteSet(S), NEW f, \A x \in S : f[x] \in Nat
  PROVE  /\ Sum(f, S) \in Nat
         /\ (\A x \in S : f[x] = 0) => Sum(f, S) = 0
<1> DEFINE G == {T \in SUBSET S : /\ Sum(f, T) \in Nat
                                  /\ (\A x \in T : f[x] = 0) => Sum(f, T) = 0}
<1>1. ASSUME NEW T \in SUBSET S, \A U \in SUBSET T : U # T => U \in G
      PROVE  T \in G
  <2>1. Sum(f, T) = IF T = {} THEN 0 ELSE f[Pick(T)] + Sum(f, T \ {Pick(T)})
    BY FS_Subset, SumStep
  <2>2. T # {} => Pick(T) \in T
    BY DEF Pick
  <2>3. T # {} => T \ {Pick(T)} \in G
    BY <1>1, <2>2
  <2>. QED
    BY <2>1, <2>2, <2>3
<1>2. S \in G
  <2> HIDE DEF G
  <2>. QED
    BY <1>1, SubsetInduction
<1>. QED
  BY <1>2

-----------------------------------------------------------------------------
(* The programs that count *)

Threads == Counting!Threads
Asked(t) == IF loops[t] > 0 THEN loops[t] ELSE 0

CounterTypes ==
    /\ program \in Programs /\ delta \in [Threads -> {-1, 1}]
    /\ created \in 0 .. N /\ joined \in 0 .. N
    /\ loops # None => loops \in [Threads -> Int]
    /\ created > 0 => loops # None
    /\ glob \in Int /\ mutex \in 0 .. N
    /\ pc \in [Threads -> {"unborn", "loop", "load", "store", "unlock", "done"}]
    /\ j \in [Threads -> Nat] /\ loc \in [Threads -> Int]

\* main goes before the threads; with a mutex one thread is in its section.
Order ==
    /\ \A t \in Threads : t <= created <=> pc[t] # "unborn"
    /\ \A t \in Threads : t <= joined => pc[t] = "done"
    /\ joined > 0 => created = N
    /\ printed # None => joined = N /\ printed = glob
    /\ \A t \in Threads :
        /\ pc[t] \in {"load", "unlock"} => program.locking
        /\ program.locking /\ pc[t] \in {"load", "store", "unlock"} => mutex = t

\* A thread goes through its loop as often as it was told to.
RoundsDone ==
    \A t \in Threads :
        /\ pc[t] = "unborn" => j[t] = 0
        /\ pc[t] # "unborn" => j[t] <= Asked(t)
        /\ pc[t] \in {"load", "store"} => j[t] < loops[t]
        /\ pc[t] = "done" => j[t] = Counting!Rounds(t)
        /\ program.returnsInLoop =>
            /\ pc[t] \in {"loop", "load", "store"} => j[t] = 0
            /\ pc[t] = "unlock" => j[t] = 1

\* With a mutex the counter is the sum of all rounds, as an int.
Increments == [t \in Threads |-> delta[t] * j[t]]
Exact ==
    program.locking =>
        /\ glob = Counting!Narrow(Sum(Increments, Threads))
        /\ \A t \in Threads : pc[t] = "store" => loc[t] = glob

\* Without one rounds may be lost.  As long as all rounds are an int, what a thread has read is never more than
\* that sum, and never less than 1 once it has written itself.  So the last
\* round of a thread that loops at least twice leaves at least 2.
OnlyUp == \A t \in Threads : delta[t] = 1
Small == OnlyUp /\ Sum(j, Threads) < INT \div 2
AtMost ==
    Small =>
        /\ glob <= Sum(j, Threads)
        /\ \A t \in Threads : pc[t] = "store" => loc[t] <= Sum(j, Threads)
AtLeast ==
    Small =>
        /\ glob >= 0
        /\ \A t \in Threads :
            /\ pc[t] = "store" => loc[t] >= 0
            /\ j[t] > 0 => glob >= 1
            /\ j[t] > 0 /\ pc[t] = "store" => loc[t] >= 1
        /\ created = N /\ (\A t \in Threads : loops[t] >= 2 /\ j[t] >= loops[t]) => glob >= 2

CounterInv == CounterTypes /\ Order /\ RoundsDone /\ Exact /\ AtMost /\ AtLeast

LEMMA ThreadSet ==
  /\ N \in Nat /\ N > 1 /\ Threads = 1 .. N /\ IsFiniteSet(Threads)
  /\ INT \in Nat /\ INT > 1 /\ None \notin Int
  /\ \A p \in Programs : /\ p.arguments \subseteq [Threads -> Int]
                         /\ p.deltas \subseteq [Threads -> {-1, 1}]
                         /\ p.returnsInLoop => p.locking
<1>1. /\ N \in Nat /\ N > 1 /\ Threads = 1 .. N /\ INT \in Nat /\ INT > 1
      /\ Counting!ProgramsAssumption
  BY ThreadAssumption DEF Counting!ProgramsAssumption, Threads, Counting!Threads
<1>2. IsFiniteSet(1 .. N)
  BY <1>1, FS_Interval
<1>. QED
  BY <1>1, <1>2 DEF Counting!ProgramsAssumption, Threads

\* A round more.
LEMMA OneRound ==
  ASSUME NEW d \in {-1, 1}, NEW n \in Int
  PROVE  d * n \in Int /\ d * (n + 1) - d * n = d /\ (d = 1 => d * n = n)
BY SMT

\* The remainder is the only number below the divisor with a quotient.
LEMMA ModUnique ==
  ASSUME NEW m \in Nat \ {0}, NEW q \in Int, NEW r \in 0 .. m - 1, NEW x \in Int, x = q * m + r
  PROVE  x % m = r
<1>1. /\ x \div m \in Int /\ x % m \in Int /\ x = m * (x \div m) + (x % m)
      /\ 0 <= x % m /\ x % m < m
  BY SMT
<1>2. PICK p, s : p = x \div m /\ s = x % m
  OBVIOUS
<1>3. p \in Int /\ s \in Int /\ x = m * p + s /\ 0 <= s /\ s < m
  BY <1>1, <1>2
<1>4. (q - p) * m = s - r
  BY <1>3, SMT
<1>5. q - p >= 1 => (q - p) * m >= m
  BY <1>3, SMT
<1>6. q - p <= -1 => (q - p) * m <= -m
  BY <1>3, SMT
<1>7. q - p \in Int /\ (q - p >= 1 \/ q - p <= -1 \/ q - p = 0)
  BY <1>3
<1>8. r = s
  BY <1>3, <1>4, <1>5, <1>6, <1>7
<1>. QED
  BY <1>2, <1>8

\* (int) keeps what is an int already, and may as well come after a sum.
LEMMA NarrowFacts ==
  ASSUME NEW x \in Int
  PROVE  /\ Counting!Narrow(x) \in Int
         /\ x >= 0 /\ x < INT \div 2 => Counting!Narrow(x) = x
         /\ \A d \in Int : Counting!Narrow(Counting!Narrow(x) + d) = Counting!Narrow(x + d)
<1>0. INT \in Nat \ {0} /\ INT \div 2 \in Int /\ INT \div 2 <= INT
  BY ThreadSet, SMT
<1>1. \A y \in Int : /\ y % INT \in 0 .. INT - 1 /\ y \div INT \in Int
                      /\ y = (y \div INT) * INT + (y % INT)
  BY <1>0, SMT
<1>2. Counting!Narrow(x) = x % INT \/ Counting!Narrow(x) = (x % INT) - INT
  BY DEF Counting!Narrow
<1>3. ASSUME x >= 0, x < INT \div 2 PROVE Counting!Narrow(x) = x
  <2>1. x = 0 * INT + x /\ x \in 0 .. INT - 1
    BY <1>0, <1>3
  <2>2. x % INT = x
    BY <1>0, <2>1, ModUnique
  <2>. QED
    BY <1>3, <2>2 DEF Counting!Narrow
<1>4. ASSUME NEW d \in Int
      PROVE  Counting!Narrow(Counting!Narrow(x) + d) = Counting!Narrow(x + d)
  <2>1. PICK k \in Int : Counting!Narrow(x) = x - k * INT
    <3>1. PICK q \in Int : x = q * INT + (x % INT)
      BY <1>1
    <3>2. CASE Counting!Narrow(x) = x % INT
      <4>1. x % INT \in Int
        BY <1>1
      <4>2. q * INT \in Int
        BY <1>0
      <4>. QED
        BY <3>1, <3>2, <4>1, <4>2
    <3>3. CASE Counting!Narrow(x) = (x % INT) - INT
      <4>1. x % INT \in Int
        BY <1>1
      <4>2. q * INT \in Int /\ (q + 1) * INT = q * INT + INT
        BY <1>0
      <4>3. PICK a, b, c, e : /\ a = Counting!Narrow(x) /\ b = x % INT
                              /\ c = q * INT /\ e = (q + 1) * INT
        OBVIOUS
      <4>4. a = b - INT /\ x = c + b /\ e = c + INT /\ b \in Int /\ c \in Int
        BY <3>1, <3>3, <4>1, <4>2, <4>3
      <4>5. a = x - e
        BY <1>0, <4>4
      <4>6. Counting!Narrow(x) = x - (q + 1) * INT /\ q + 1 \in Int
        BY <4>3, <4>5
      <4>. QED
        BY <4>6
    <3>. QED
      BY <1>2, <3>2, <3>3
  <2>2. PICK q \in Int, r \in 0 .. INT - 1 : x + d = q * INT + r /\ r = (x + d) % INT
    BY <1>1
  <2>3. Counting!Narrow(x) + d = (q - k) * INT + r /\ Counting!Narrow(x) + d \in Int
    <3>1. (q - k) * INT = q * INT - k * INT /\ q * INT \in Int /\ k * INT \in Int
      BY <1>0
    <3>. QED
      BY <1>0, <2>1, <2>2, <3>1
  <2>4. (Counting!Narrow(x) + d) % INT = r
    <3>1. PICK y, p : y = Counting!Narrow(x) + d /\ p = q - k
      OBVIOUS
    <3>2. y = p * INT + r /\ y \in Int /\ p \in Int
      BY <2>3, <3>1
    <3>3. y % INT = r
      BY <1>0, <3>2, ModUnique
    <3>. QED
      BY <3>1, <3>3
  <2>. QED
    BY <2>2, <2>4 DEF Counting!Narrow
<1>5. Counting!Narrow(x) \in Int
  BY <1>0, <1>1, <1>2
<1>. QED
  BY <1>3, <1>4, <1>5

LEMMA CounterInit ==
  ASSUME Counting!Init
  PROVE  CounterInv
<1> USE ThreadSet DEF Counting!Init
<1>1. CounterTypes /\ Order /\ RoundsDone
  BY DEF CounterTypes, Order, RoundsDone, Threads
<1>2. \A t \in Threads : Increments[t] = 0 /\ j[t] = 0
  BY <1>1, OneRound DEF CounterTypes, Increments, Threads
<1>3. Sum(Increments, Threads) = 0 /\ Sum(j, Threads) = 0
  BY <1>2, SumNat
<1>4. Counting!Narrow(0) = 0
  <2>1. INT \div 2 > 0
    BY SMT
  <2>. QED
    BY <2>1, NarrowFacts
<1>5. Exact /\ AtMost /\ AtLeast
  BY <1>2, <1>3, <1>4 DEF Exact, AtMost, AtLeast, Threads
<1>. QED
  BY <1>1, <1>5 DEF CounterInv

\* The steps of main, and of a thread that neither reads nor writes the counter.
LEMMA CounterQuiet ==
  ASSUME CounterInv, Counting!MainStep \/ \E t \in Threads :
           Counting!Lock(t) \/ Counting!Unlock(t) \/ Counting!Return(t)
  PROVE  CounterInv'
<1> USE ThreadSet DEF CounterInv, CounterTypes, Counting!Goto
<1>1. \A t \in Threads : t \in Int /\ t >= 1 /\ t <= N
  OBVIOUS
<1>2. ASSUME Counting!ReadArguments PROVE CounterInv'
  <2>1. \A x \in Int : Counting!Narrow(x) \in Int
    BY NarrowFacts
  <2>2. /\ UNCHANGED <<program, delta, created, joined, printed, glob, mutex, pc, j, loc>>
        /\ loops' \in [Threads -> Int] /\ created = 0
    <3>1. PICK a \in program.arguments : loops' = [t \in Threads |-> Counting!Narrow(a[t])]
      BY <1>2 DEF Counting!ReadArguments, Threads
    <3>2. a \in [Threads -> Int]
      OBVIOUS
    <3>3. \A t \in Threads : Counting!Narrow(a[t]) \in Int
      BY <2>1, <3>2
    <3>4. loops' \in [Threads -> Int]
      BY <3>1, <3>3
    <3>. QED
      BY <1>2, <3>4 DEF Counting!ReadArguments
  <2>3. \A t \in Threads : pc[t] = "unborn"
    BY <1>1, <2>2 DEF Order
  <2>5. CounterTypes' /\ Order'
    BY <2>2 DEF Order
  <2>6. RoundsDone'
    BY <2>2, <2>3 DEF RoundsDone
  <2>4. Exact' /\ AtMost' /\ AtLeast'
    BY <2>2 DEF Exact, AtMost, AtLeast, OnlyUp, Small, Increments
  <2>. QED
    BY <2>4, <2>5, <2>6
<1>3. ASSUME Counting!Create PROVE CounterInv'
  <2>1. /\ UNCHANGED <<program, loops, delta, joined, printed, glob, mutex, j, loc>>
        /\ created < N /\ created' = created + 1 /\ created + 1 \in Threads
        /\ pc' = [pc EXCEPT ![created + 1] = "loop"] /\ loops # None
    BY <1>3 DEF Counting!Create
  <2>2. pc[created + 1] = "unborn" /\ j[created + 1] = 0 /\ joined = 0
    BY <1>1, <2>1 DEF Order, RoundsDone
  <2>3. /\ pc'[created + 1] = "loop"
        /\ \A u \in Threads \ {created + 1} : pc'[u] = pc[u]
    BY <2>1
  <2>4. CounterTypes' /\ Order'
    BY <1>1, <2>1, <2>2, <2>3 DEF Order
  <2>5. RoundsDone'
    <3>1. \A u \in Threads : Asked(u)' = Asked(u) /\ Counting!Rounds(u)' = Counting!Rounds(u)
      BY <2>1 DEF Asked, Counting!Rounds
    <3>2. Asked(created + 1) >= 0
      BY <2>1 DEF Asked
    <3>. QED
      BY <2>1, <2>2, <2>3, <3>1, <3>2 DEF RoundsDone
  <2>6. Exact' /\ AtMost'
    BY <2>1, <2>2, <2>3 DEF Exact, AtMost, OnlyUp, Small, Increments
  <2>7. AtLeast'
    <3>1. \A u \in Threads : pc'[u] = "store" => pc[u] = "store"
      BY <2>3
    <3>2. ~\A u \in Threads : loops[u] >= 2 /\ j[u] >= loops[u]
      BY <2>1, <2>2
    <3>. QED
      BY <2>1, <3>1, <3>2 DEF AtLeast, OnlyUp, Small
  <2>. QED
    BY <2>4, <2>5, <2>6, <2>7
<1>4. ASSUME Counting!Join \/ Counting!PrintFinal PROVE CounterInv'
  <2>1. /\ UNCHANGED <<program, loops, delta, created, glob, mutex, pc, j, loc>>
        /\ joined' \in 0 .. N /\ created = N
        /\ \A t \in Threads : t <= joined' => pc[t] = "done"
        /\ printed' # None => joined' = N /\ printed' = glob
    <3>1. CASE Counting!Join
      <4>1. joined < N /\ joined' = joined + 1 /\ pc[joined + 1] = "done"
        BY <3>1 DEF Counting!Join
      <4>2. \A t \in Threads : t <= joined' => t <= joined \/ t = joined + 1
        BY <1>1, <4>1
      <4>3. printed' = None
        BY <3>1, <4>1 DEF Counting!Join, Order
      <4>4. \A t \in Threads : t <= joined' => pc[t] = "done"
        BY <4>1, <4>2 DEF Order
      <4>5. joined' \in 0 .. N /\ created = N
        BY <3>1, <4>1 DEF Counting!Join
      <4>. QED
        BY <3>1, <4>3, <4>4, <4>5 DEF Counting!Join
    <3>2. CASE Counting!PrintFinal
      BY <3>2 DEF Counting!PrintFinal, Order
    <3>. QED
      BY <1>4, <3>1, <3>2
  <2>2. CounterTypes' /\ Order' /\ RoundsDone'
    BY <2>1 DEF Order, RoundsDone, Asked, Counting!Rounds
  <2>3. Exact' /\ AtMost' /\ AtLeast'
    BY <2>1 DEF Exact, AtMost, AtLeast, OnlyUp, Small, Increments
  <2>. QED
    BY <2>2, <2>3
<1>5. ASSUME NEW t \in Threads, Counting!Lock(t) \/ Counting!Unlock(t) \/ Counting!Return(t)
      PROVE  CounterInv'
  <2>1. /\ UNCHANGED <<program, loops, delta, created, joined, printed, glob, j, loc>>
        /\ pc[t] \in {"loop", "unlock"}
        /\ \E l \in {"loop", "load", "done"} : pc' = [pc EXCEPT ![t] = l]
        /\ mutex' \in 0 .. N
    <3>1. CASE Counting!Lock(t)
      BY <3>1 DEF Counting!Lock
    <3>2. CASE Counting!Unlock(t)
      <4>1. pc' = [pc EXCEPT ![t] = "done"] \/ pc' = [pc EXCEPT ![t] = "loop"]
        BY <3>2 DEF Counting!Unlock
      <4>. QED
        BY <3>2, <4>1 DEF Counting!Unlock
    <3>3. CASE Counting!Return(t)
      BY <3>3 DEF Counting!Return
    <3>. QED
      BY <1>5, <3>1, <3>2, <3>3
  <2>2. pc'[t] # "store" /\ \A u \in Threads \ {t} : pc'[u] = pc[u]
    BY <2>1
  <2>3. loops \in [Threads -> Int] /\ pc[t] # "unborn"
    BY <1>1, <2>1 DEF Order
  <2>4. Order'
    <3>1. ~(t <= joined)
      BY <2>1 DEF Order
    <3>2. \A u \in Threads : pc'[u] # "unborn" <=> pc[u] # "unborn"
      BY <2>1, <2>2, <2>3
    <3>3. \A u \in Threads : program.locking /\ pc'[u] \in {"load", "store", "unlock"} => mutex' = u
      BY <1>5, <2>1, <2>2
         DEF Counting!Lock, Counting!Unlock, Counting!Return, Counting!MutexFree, Order
    <3>4. \A u \in Threads : pc'[u] \in {"load", "unlock"} => program.locking
      BY <1>5, <2>1, <2>2 DEF Counting!Lock, Counting!Unlock, Counting!Return, Order
    <3>. QED
      BY <2>1, <2>2, <3>1, <3>2, <3>3, <3>4 DEF Order
  <2>5. RoundsDone'
    <3>1. /\ pc'[t] # "unborn" /\ j[t] <= Asked(t)
          /\ pc'[t] = "load" => j[t] < loops[t]
          /\ pc'[t] = "done" => j[t] = Counting!Rounds(t)
          /\ program.returnsInLoop /\ pc'[t] \in {"loop", "load"} => j[t] = 0
      BY <1>5, <2>1, <2>3 DEF Counting!Lock, Counting!Unlock, Counting!Return, RoundsDone,
         Counting!MoreRounds, Counting!Rounds, Asked
    <3>2. \A u \in Threads : Asked(u)' = Asked(u) /\ Counting!Rounds(u)' = Counting!Rounds(u)
      BY <2>1 DEF Asked, Counting!Rounds
    <3>. QED
      BY <2>1, <2>2, <3>1, <3>2 DEF RoundsDone
  <2>6. CounterTypes'
    BY <2>1
  <2>7. Exact' /\ AtMost' /\ AtLeast'
    BY <2>1, <2>2 DEF Exact, AtMost, AtLeast, OnlyUp, Small, Increments
  <2>. QED
    BY <2>4, <2>5, <2>6, <2>7
<1>. QED
  BY <1>2, <1>3, <1>4, <1>5 DEF Counting!MainStep

\* A thread reads the counter.
LEMMA CounterLoad ==
  ASSUME CounterInv, NEW t \in Threads, Counting!Load(t)
  PROVE  CounterInv'
<1> USE ThreadSet DEF CounterInv, CounterTypes, Counting!Goto
<1>1. \A u \in Threads : u \in Int /\ u >= 1 /\ u <= N
  OBVIOUS
<1>2. /\ UNCHANGED <<program, loops, delta, created, joined, printed, glob, mutex, j>>
      /\ loc' = [loc EXCEPT ![t] = glob] /\ pc' = [pc EXCEPT ![t] = "store"]
      /\ pc[t] \in {"loop", "load"}
      /\ IF program.locking THEN pc[t] = "load" ELSE j[t] < loops[t]
  BY DEF Counting!Load, Counting!MoreRounds, Order
<1>3. loops \in [Threads -> Int] /\ j[t] < loops[t]
  BY <1>1, <1>2 DEF Order, RoundsDone
<1>4. /\ pc'[t] = "store" /\ loc'[t] = glob
      /\ \A u \in Threads \ {t} : pc'[u] = pc[u] /\ loc'[u] = loc[u]
  BY <1>2
<1>5. CounterTypes'
  BY <1>2
<1>6. Order'
  <2>1. ~(t <= joined)
    BY <1>2 DEF Order
  <2>. QED
    BY <1>1, <1>2, <1>4, <2>1 DEF Order
<1>7. RoundsDone'
  <2>1. \A u \in Threads : Asked(u)' = Asked(u) /\ Counting!Rounds(u)' = Counting!Rounds(u)
    BY <1>2 DEF Asked, Counting!Rounds
  <2>2. program.returnsInLoop => j[t] = 0
    BY <1>2 DEF RoundsDone
  <2>. QED
    BY <1>2, <1>3, <1>4, <2>1, <2>2 DEF RoundsDone
<1>8. UNCHANGED <<Small, Increments>>
  BY <1>2 DEF OnlyUp, Small, Increments
<1>9. Exact'
  BY <1>2, <1>4, <1>8 DEF Exact
<1>10. AtMost'
  BY <1>2, <1>4, <1>8 DEF AtMost
<1>11. AtLeast'
  BY <1>2, <1>4, <1>8 DEF AtLeast
<1>. QED
  BY <1>5, <1>6, <1>7, <1>9, <1>10, <1>11

\* A thread writes the counter, after a round or, without a mutex and where the
\* compiler keeps the counter in a register, after several.
LEMMA CounterStore ==
  ASSUME CounterInv, NEW t \in Threads, Counting!Store(t)
  PROVE  CounterInv'
<1>1. /\ N \in Nat /\ \A u \in Threads : u \in Int /\ u >= 1 /\ u <= N
      /\ IsFiniteSet(Threads)
  BY ThreadSet
<1>2. CounterTypes /\ Order /\ RoundsDone /\ Exact /\ AtMost /\ AtLeast
  BY DEF CounterInv
<1>3. /\ pc[t] = "store" /\ loops \in [Threads -> Int] /\ j[t] < loops[t]
      /\ j[t] \in Nat /\ loc[t] \in Int /\ loops[t] \in Int /\ delta[t] \in {-1, 1}
  <2>1. pc[t] = "store"
    BY DEF Counting!Store
  <2>2. created > 0 /\ loops # None
    BY <1>1, <1>2, <2>1 DEF Order, CounterTypes
  <2>. QED
    BY <1>2, <2>1, <2>2 DEF CounterTypes, RoundsDone
<1>4. PICK n \in Counting!Merged(t) : glob' = Counting!Narrow(loc[t] + n * delta[t]) /\ j' = [j EXCEPT ![t] = @ + n]
  BY DEF Counting!Store
<1>5. n \in Nat /\ n >= 1 /\ j[t] + n <= loops[t] /\ (program.locking => n = 1)
  BY <1>3 DEF Counting!Merged
<1>6. /\ UNCHANGED <<program, loops, delta, created, joined, printed, mutex, loc>>
      /\ pc' = [pc EXCEPT ![t] = IF program.locking THEN "unlock" ELSE "loop"]
  BY DEF Counting!Store, Counting!Goto
<1>7. /\ pc \in [Threads -> {"unborn", "loop", "load", "store", "unlock", "done"}]
      /\ j \in [Threads -> Nat] /\ loc \in [Threads -> Int]
  BY <1>2 DEF CounterTypes
<1>8. /\ pc'[t] = (IF program.locking THEN "unlock" ELSE "loop") /\ j'[t] = j[t] + n
      /\ \A u \in Threads \ {t} : pc'[u] = pc[u] /\ j'[u] = j[u]
  BY <1>4, <1>6, <1>7
<1>9. /\ j' \in [Threads -> Nat]
      /\ pc' \in [Threads -> {"unborn", "loop", "load", "store", "unlock", "done"}]
  BY <1>4, <1>5, <1>6, <1>7
<1>10. /\ n * delta[t] \in Int
       /\ delta[t] = 1 => n * delta[t] = n
       /\ n = 1 => n * delta[t] = delta[t]
  <2>1. delta[t] = 1 \/ delta[t] = -1
    BY <1>3
  <2>2. n * 1 = n /\ n * (-1) = -n
    BY <1>5
  <2>. QED
    BY <1>5, <2>1, <2>2
<1>11. CounterTypes'
  <2>1. glob' \in Int
    <3>1. loc[t] + n * delta[t] \in Int
      BY <1>3, <1>10
    <3>. QED
      BY <1>4, <3>1, NarrowFacts
  <2>. QED
    BY <1>2, <1>6, <1>9, <2>1 DEF CounterTypes
<1>12. Order'
  <2>1. ~(t <= joined) /\ printed = None
    BY <1>1, <1>2, <1>3 DEF Order
  <2>2. \A u \in Threads : pc'[u] # "unborn" <=> pc[u] # "unborn"
    BY <1>3, <1>8
  <2>3. \A u \in Threads : pc'[u] = "done" <=> pc[u] = "done"
    BY <1>3, <1>8
  <2>4. \A u \in Threads :
          /\ pc'[u] \in {"load", "unlock"} => program.locking
          /\ program.locking /\ pc'[u] \in {"load", "store", "unlock"} => mutex = u
    BY <1>2, <1>3, <1>8 DEF Order
  <2>. QED
    BY <1>2, <1>6, <2>1, <2>2, <2>3, <2>4 DEF Order
<1>13. RoundsDone'
  <2>1. \A u \in Threads : Asked(u)' = Asked(u) /\ Counting!Rounds(u)' = Counting!Rounds(u)
    BY <1>6 DEF Asked, Counting!Rounds
  <2>2. program.returnsInLoop => program.locking /\ j[t] = 0 /\ n = 1
    BY <1>2, <1>3, <1>5, ThreadSet DEF RoundsDone, CounterTypes
  <2>3. j'[t] <= Asked(t)
    BY <1>3, <1>5, <1>8 DEF Asked
  <2>4. /\ pc'[t] \in {"loop", "unlock"} /\ (pc'[t] = "loop" => ~program.returnsInLoop)
        /\ program.returnsInLoop => j'[t] = 1
    BY <1>5, <1>8, <2>2
  <2>. QED
    BY <1>2, <1>6, <1>8, <2>1, <2>3, <2>4 DEF RoundsDone
<1>14. OnlyUp' = OnlyUp
  BY <1>6 DEF OnlyUp
<1>15. Exact'
  <2> SUFFICES ASSUME program.locking
               PROVE  /\ glob' = Counting!Narrow(Sum(Increments', Threads))
                      /\ \A u \in Threads : pc'[u] # "store"
    BY <1>6 DEF Exact
  <2>1. glob = Counting!Narrow(Sum(Increments, Threads)) /\ loc[t] = glob /\ n = 1
    BY <1>2, <1>3, <1>5 DEF Exact
  <2>2. PICK f, h : f = Increments /\ h = Increments'
    OBVIOUS
  <2>3. /\ f = [u \in Threads |-> delta[u] * j[u]]
        /\ h = [u \in Threads |-> delta[u] * j'[u]]
    BY <1>6, <2>2 DEF Increments
  <2>4. \A u \in Threads : delta[u] * j[u] \in Int /\ delta[u] * j'[u] \in Int
    BY <1>2, <1>7, <1>9, OneRound DEF CounterTypes
  <2>5. \A u \in Threads : f[u] \in Int /\ h[u] \in Int
    BY <2>3, <2>4
  <2>6. \A u \in Threads \ {t} : h[u] = f[u]
    BY <1>8, <2>3
  <2>7. Sum(h, Threads) = Sum(f, Threads) + (h[t] - f[t]) /\ Sum(f, Threads) \in Int
    <3>1. Sum(h, Threads) = Sum(f, Threads) + (h[t] - f[t])
      BY <1>1, <2>5, <2>6, SumChange
    <3>2. Sum(f, Threads) \in Int
      BY <1>1, <2>5, SumSplit
    <3>. QED
      BY <3>1, <3>2
  <2>8. h[t] - f[t] = delta[t]
    <3>1. delta[t] * (j[t] + 1) - delta[t] * j[t] = delta[t]
      BY <1>3, OneRound
    <3>. QED
      BY <1>8, <2>1, <2>3, <3>1
  <2>9. glob' = Counting!Narrow(glob + delta[t])
    BY <1>4, <1>10, <2>1
  <2>9a. glob' = Counting!Narrow(Sum(f, Threads) + delta[t])
    <3>1. glob = Counting!Narrow(Sum(f, Threads)) /\ delta[t] \in Int
      BY <1>3, <2>1, <2>2
    <3>2. Counting!Narrow(Counting!Narrow(Sum(f, Threads)) + delta[t])
            = Counting!Narrow(Sum(f, Threads) + delta[t])
      BY <2>7, <3>1, NarrowFacts
    <3>. QED
      BY <2>9, <3>1, <3>2
  <2>10. \A u \in Threads : pc'[u] # "store"
    BY <1>2, <1>3, <1>8 DEF Order
  <2>. QED
    BY <2>2, <2>7, <2>8, <2>9a, <2>10
<1>16. Sum(j', Threads) = Sum(j, Threads) + n /\ Sum(j, Threads) \in Nat
  <2>1. PICK f, h : f = j /\ h = j'
    OBVIOUS
  <2>2. Sum(h, Threads) = Sum(f, Threads) + (h[t] - f[t]) /\ Sum(f, Threads) \in Nat
    <3>1. \A u \in Threads : f[u] \in Int /\ h[u] \in Int /\ f[u] \in Nat
      BY <1>7, <1>9, <2>1
    <3>2. \A u \in Threads \ {t} : h[u] = f[u]
      BY <1>8, <2>1
    <3>. QED
      BY <1>1, <3>1, <3>2, SumChange, SumNat
  <2>. QED
    BY <1>3, <1>5, <1>8, <2>1, <2>2
<1>16a. INT \div 2 \in Int
  BY ThreadSet, SMT
\* Below that bound nothing wraps.
<1>16b. ASSUME Small'
        PROVE  Small /\ delta[t] = 1 /\ glob' = loc[t] + n
  <2>1. Small /\ delta[t] = 1
    BY <1>5, <1>14, <1>16, <1>16a, <1>16b DEF Small, OnlyUp
  <2>2. loc[t] >= 0 /\ loc[t] <= Sum(j, Threads)
    BY <1>2, <1>3, <2>1 DEF AtMost, AtLeast
  <2>3. loc[t] + n >= 0 /\ loc[t] + n < INT \div 2 /\ loc[t] + n \in Int
    BY <1>3, <1>5, <1>16, <1>16a, <1>16b, <2>2 DEF Small
  <2>. QED
    BY <1>4, <1>10, <2>1, <2>3, NarrowFacts
<1>17. AtMost'
  <2> SUFFICES ASSUME Small'
               PROVE  /\ glob' <= Sum(j', Threads)
                      /\ \A u \in Threads : pc'[u] = "store" => loc[u] <= Sum(j', Threads)
    BY <1>6 DEF AtMost
  <2>4. \A u \in Threads : pc[u] = "store" => loc[u] <= Sum(j, Threads)
    BY <1>2, <1>16b DEF AtMost
  <2>5. \A u \in Threads : pc'[u] = "store" => pc[u] = "store" /\ loc[u] \in Int
    BY <1>7, <1>8
  <2>. QED
    BY <1>3, <1>5, <1>16, <1>16b, <2>4, <2>5
<1>18. AtLeast'
  <2> SUFFICES ASSUME Small'
               PROVE  /\ glob' >= 1
                      /\ \A u \in Threads :
                          /\ pc'[u] = "store" => loc[u] >= 0
                          /\ j'[u] > 0 /\ pc'[u] = "store" => loc[u] >= 1
                      /\ (\A u \in Threads : loops[u] >= 2 /\ j'[u] >= loops[u]) => glob' >= 2
    BY <1>6, <1>11 DEF AtLeast, CounterTypes
  <2>1. \A u \in Threads : /\ pc[u] = "store" => loc[u] >= 0
                           /\ j[u] > 0 /\ pc[u] = "store" => loc[u] >= 1
    BY <1>2, <1>16b DEF AtLeast
  <2>2. \A u \in Threads : pc'[u] = "store" => pc[u] = "store" /\ j'[u] = j[u]
    BY <1>8
  <2>3. glob' = loc[t] + n /\ loc[t] >= 0 /\ (j[t] > 0 => loc[t] >= 1)
    BY <1>3, <1>16b, <2>1
  <2>4. loops[t] >= 2 /\ j'[t] >= loops[t] => glob' >= 2
    BY <1>3, <1>5, <1>8, <2>3
  <2>. QED
    BY <1>3, <1>5, <2>1, <2>2, <2>3, <2>4
<1>. QED
  BY <1>11, <1>12, <1>13, <1>15, <1>17, <1>18 DEF CounterInv

\* Every program that counts keeps CounterInv.
THEOREM CounterInvariance == Spec => [](kind = "counting" => CounterInv)
<1> DEFINE CInv == kind = "counting" => CounterInv
<1>1. Init => CInv
  BY CounterInit DEF Init
<1>2. CInv /\ [Next]_vars => CInv'
  <2> SUFFICES ASSUME CInv, [Next]_vars, kind' = "counting" PROVE CounterInv'
    OBVIOUS
  <2>1. kind = "counting" /\ CounterInv
    BY DEF Next, WaitingOnly, PollingOnly, CountingOnly, vars
  <2>2. CASE UNCHANGED <<mutex, pc, counterVars>>
    BY <2>1, <2>2 DEF CounterInv, CounterTypes, Order, RoundsDone, Exact, AtMost, AtLeast,
       OnlyUp, Small, Increments, Asked, Counting!Rounds, counterVars
  <2>3. CASE Counting!Next
    <3>1. CASE Counting!Exit
      BY <2>2, <3>1 DEF Counting!Exit, Counting!vars, counterVars
    <3>2. CASE Counting!MainStep
      BY <2>1, <3>2, CounterQuiet
    <3>3. ASSUME NEW t \in Threads, Counting!ThreadStep(t)
          PROVE  CounterInv'
      BY <2>1, <3>3, CounterQuiet, CounterLoad, CounterStore DEF Counting!ThreadStep
    <3>. QED
      BY <2>3, <3>1, <3>2, <3>3 DEF Counting!Next, Threads
  <2>. QED
    BY <2>1, <2>2, <2>3 DEF Next, WaitingOnly, PollingOnly, vars
<1>. QED
  BY <1>1, <1>2, PTL DEF Spec

\* What the threads were told to add, as a sum.
Told == [t \in Threads |-> delta[t] * Counting!Rounds(t)]

LEMMA TotalIsSum == Counting!Total = Sum(Told, Threads)
<1> DEFINE T == Threads
           IsTotal(g) == g = [s \in SUBSET T |->
                    IF s = {} THEN 0
                    ELSE delta[CHOOSE x \in s : TRUE] * Counting!Rounds(CHOOSE x \in s : TRUE)
                           + g[s \ {CHOOSE x \in s : TRUE}]]
<1>1. Counting!Total = (CHOOSE g : IsTotal(g))[T]
  BY DEF Counting!Total, Counting!MapThenSumSet, Counting!MapThenFoldSet, Threads
<1>2. \A s \in SUBSET T : s # {} =>
        Told[Pick(s)] = delta[CHOOSE x \in s : TRUE] * Counting!Rounds(CHOOSE x \in s : TRUE)
  BY DEF Told, Pick
<1>3. ASSUME NEW g PROVE IsTotal(g) <=> IsSum(g, Told, T)
  <2>1. [s \in SUBSET T |->
           IF s = {} THEN 0
           ELSE delta[CHOOSE x \in s : TRUE] * Counting!Rounds(CHOOSE x \in s : TRUE)
                  + g[s \ {CHOOSE x \in s : TRUE}]]
        = [s \in SUBSET T |-> IF s = {} THEN 0 ELSE Told[Pick(s)] + g[s \ {Pick(s)}]]
    BY <1>2 DEF Pick
  <2>. QED
    BY <2>1, Zenon DEF IsSum
<1> HIDE DEF IsTotal
<1>4. \E g : IsTotal(g)
  <2>1. PICK g : IsSum(g, Told, T)
    BY SumUnique, ThreadSet
  <2>. QED
    BY <1>3, <2>1
<1>5. IsTotal(CHOOSE g : IsTotal(g))
  BY <1>4, Zenon
<1>6. IsSum(CHOOSE g : IsTotal(g), Told, T)
  BY <1>3, <1>5
<1>. QED
  BY <1>1, <1>6, SumIsSum, ThreadSet

\* With the mutex the value printed is what the threads were told to add, as an
\* int, for any number of threads and rounds; without it, threads that loop at
\* least twice leave at least 2 if all their rounds are an int (class5, assignment3).
THEOREM FinalValueRight == Spec => []FinalValue
<1>1. ASSUME CounterInv PROVE Counting!FinalValue
  <2> USE ThreadSet
  <2> SUFFICES ASSUME Counting!Finished
               PROVE  /\ program.locking => printed = Counting!Narrow(Counting!Total)
                      /\ /\ \A t \in Threads : loops[t] >= 2 /\ delta[t] = 1
                         /\ Counting!Total < INT \div 2
                         => 2 <= printed /\ printed <= Counting!Total
    BY DEF Counting!FinalValue, Threads
  <2>1. /\ joined = N /\ printed = glob /\ created = N
        /\ loops \in [Threads -> Int] /\ j \in [Threads -> Nat]
        /\ \A t \in Threads : pc[t] = "done" /\ j[t] = Counting!Rounds(t)
    BY <1>1 DEF Counting!Finished, CounterInv, CounterTypes, Order, RoundsDone
  <2>2. Told = Increments
    BY <2>1 DEF Told, Increments
  <2>3. program.locking => printed = Counting!Narrow(Counting!Total)
    BY <1>1, <2>1, <2>2, TotalIsSum DEF CounterInv, Exact
  <2>4. ASSUME \A t \in Threads : loops[t] >= 2 /\ delta[t] = 1,
               Counting!Total < INT \div 2
        PROVE  2 <= printed /\ printed <= Counting!Total
    <3>2. \A t \in Threads : Told[t] = j[t] /\ Told[t] \in Nat /\ Told[t] >= 1
      <4> SUFFICES ASSUME NEW t \in Threads
                   PROVE  Told[t] = j[t] /\ Told[t] \in Nat /\ Told[t] >= 1
        OBVIOUS
      <4>1. delta[t] = 1 /\ j[t] \in Nat /\ j[t] = Counting!Rounds(t) /\ loops[t] >= 2
        BY <2>1, <2>4
      <4>2. 1 * j[t] = j[t]
        BY <4>1
      <4>3. j[t] >= 1
        BY <2>1, <4>1 DEF Counting!Rounds
      <4>. QED
        BY <4>1, <4>2, <4>3 DEF Told
    <3>3. Sum(j, Threads) = Counting!Total
      BY <3>2, SumSame, TotalIsSum
    <3>1. Small
      BY <2>4, <3>3 DEF Small, OnlyUp
    <3>4. printed <= Counting!Total
      BY <1>1, <2>1, <3>1, <3>3 DEF CounterInv, AtMost
    <3>5. CASE program.returnsInLoop
      <4>1. program.locking
        BY <1>1, <3>5 DEF CounterInv, CounterTypes
      <4>2. /\ 1 \in Threads /\ 2 \in Threads \ {1} /\ IsFiniteSet(Threads \ {1})
            /\ IsFiniteSet((Threads \ {1}) \ {2})
        BY FS_Subset
      <4>3. \A t \in Threads : Told[t] \in Int
        BY <3>2
      <4>4. /\ Sum(Told, Threads) = Told[1] + Sum(Told, Threads \ {1})
            /\ Sum(Told, Threads \ {1}) = Told[2] + Sum(Told, (Threads \ {1}) \ {2})
            /\ Sum(Told, (Threads \ {1}) \ {2}) \in Nat
        <5>1. Sum(Told, Threads) = Told[1] + Sum(Told, Threads \ {1})
          BY <4>3, <4>2, SumSplit
        <5>2. Sum(Told, Threads \ {1}) = Told[2] + Sum(Told, (Threads \ {1}) \ {2})
          <6>1. \A t \in Threads \ {1} : Told[t] \in Int
            BY <4>3
          <6>. QED
            BY <4>2, <6>1, SumSplit
        <5>3. \A t \in (Threads \ {1}) \ {2} : Told[t] \in Nat
          BY <3>2
        <5>4. Sum(Told, (Threads \ {1}) \ {2}) \in Nat
          BY <4>2, <5>3, SumNat
        <5>. QED
          BY <5>1, <5>2, <5>4
      <4>5. /\ Told[1] \in Nat /\ Told[1] >= 1 /\ Told[2] \in Nat /\ Told[2] >= 1
        BY <3>2, <4>2
      <4>6. Sum(Told, Threads) >= 2
        BY <4>4, <4>5
      <4>7. Sum(Told, Threads) \in Int
        BY <4>4, <4>5
      <4>8. Counting!Narrow(Counting!Total) = Counting!Total
        BY <2>4, <4>6, <4>7, TotalIsSum, NarrowFacts
      <4>. QED
        BY <2>3, <3>4, <4>1, <4>6, <4>8, TotalIsSum
    <3>6. CASE ~program.returnsInLoop
      <4>1. \A t \in Threads : loops[t] >= 2 /\ j[t] >= loops[t]
        BY <2>1, <2>4, <3>6 DEF Counting!Rounds
      <4>. QED
        BY <1>1, <2>1, <3>1, <3>4, <4>1 DEF CounterInv, AtLeast
    <3>. QED
      BY <3>5, <3>6
  <2>. QED
    BY <2>3, <2>4
<1>2. (kind = "counting" => CounterInv) => FinalValue
  BY <1>1 DEF FinalValue
<1>. QED
  BY <1>2, CounterInvariance, PTL
=============================================================================
