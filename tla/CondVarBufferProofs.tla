------------------------ MODULE CondVarBufferProofs ------------------------
(***************************************************************************)
(* Proofs about CondVarBuffer for every size of the buffer: its type, that  *)
(* no wake-up is lost, and that it implements the bounded buffer.           *)
(***************************************************************************)
EXTENDS CondVarBuffer, TLAPS

Critical == {"test", "update", "write", "signal", "unlock"}

\* Only the thread that holds the mutex is between lock and unlock.
MutexHeld == \A w \in Workers : pc[w] \in Critical => mutex = w

\* A thread that has passed its test still has room, and what it has read is
\* still the counter.
TestHolds ==
    /\ pc["producer"] \in {"update", "write"} => numberOfUnits < MAX_BUFFER_SIZE
    /\ pc["consumer"] \in {"update", "write"} => numberOfUnits > 0
    /\ \A w \in Workers : pc[w] = "write" => read[w] = numberOfUnits

IInv == TypeOK /\ MutexHeld /\ TestHolds /\ NoLostWakeup

-----------------------------------------------------------------------------
LEMMA InitIInv == Init => IInv
<1> SUFFICES ASSUME Init PROVE IInv
  OBVIOUS
<1>1. TypeOK
  BY BufferAssumption DEF Init, TypeOK, Workers, Labels
<1>2. MutexHeld /\ TestHolds /\ NoLostWakeup
  BY DEF Init, MutexHeld, TestHolds, NoLostWakeup, Workers, Critical
<1> QED
  BY <1>1, <1>2 DEF IInv

LEMMA StepIInv == IInv /\ [Next]_vars => IInv'
<1> SUFFICES ASSUME IInv, [Next]_vars PROVE IInv'
  OBVIOUS
<1> USE BufferAssumption DEF IInv, TypeOK, MutexHeld, TestHolds, NoLostWakeup,
                             Workers, Labels, Critical
<1>1. ASSUME NEW w \in Workers, Acquire(w) PROVE IInv'
  BY <1>1 DEF Acquire, MutexFree, AfterWait, Goto
<1>2. ASSUME NEW w \in Workers, Proceed(w) PROVE IInv'
  BY <1>2 DEF Proceed, MustWait, Goto
<1>3. ASSUME NEW w \in Workers, Sleep(w) PROVE IInv'
  BY <1>3 DEF Sleep, MustWait, Goto
<1>4. ASSUME NEW w \in Workers, Read(w) PROVE IInv'
  BY <1>4 DEF Read, Goto
<1>5. ASSUME NEW w \in Workers, Write(w) PROVE IInv'
  BY <1>5 DEF Write, Goto
<1>6. ASSUME NEW w \in Workers, Signal(w) PROVE IInv'
  BY <1>6 DEF Signal, LeftEnd, Other
<1>7. ASSUME NEW w \in Workers, Unlock(w) PROVE IInv'
  BY <1>7 DEF Unlock, Goto
<1>8. ASSUME NEW w \in Workers, PrintUnits(w) PROVE IInv'
  BY <1>8 DEF PrintUnits, Goto
<1>9. ASSUME NEW w \in Workers, WakeUp(w) PROVE IInv'
  BY <1>9 DEF WakeUp, Goto
<1>10. CASE UNCHANGED vars
  BY <1>10 DEF vars
<1> QED
  BY <1>1, <1>2, <1>3, <1>4, <1>5, <1>6, <1>7, <1>8, <1>9, <1>10 DEF Next, Step

\* The invariant that carries the others holds at all times.
THEOREM BufferInvariant == Spec => []IInv
  BY InitIInv, StepIInv, PTL DEF Spec

\* The counter stays between 0 and MAX_BUFFER_SIZE: requirements (2) and (3).
THEOREM TypeCorrect == Spec => []TypeOK
<1>1. IInv => TypeOK
  BY DEF IInv
<1> QED
  BY BufferInvariant, <1>1, PTL

\* For every size of the buffer, the two signals that are sent only at the ends
\* of the range wake every thread that has something to do.
THEOREM WakeupsArrive == Spec => []NoLostWakeup
<1>1. IInv => NoLostWakeup
  BY DEF IInv
<1> QED
  BY BufferInvariant, <1>1, PTL

-----------------------------------------------------------------------------
LEMMA StepRefines == IInv /\ [Next]_vars => [Buffer!Next]_numberOfUnits
<1> SUFFICES ASSUME IInv, [Next]_vars PROVE [Buffer!Next]_numberOfUnits
  OBVIOUS
<1>1. ASSUME NEW w \in Workers, Write(w) PROVE Buffer!Next
  <2>1. read[w] = numberOfUnits
    BY <1>1 DEF IInv, TestHolds, Write
  <2>2. CASE w = "producer"
    <3>1. Buffer!Produce
      BY <1>1, <2>1, <2>2 DEF Buffer!Produce, Write, IInv, TestHolds
    <3> QED
      BY <3>1 DEF Buffer!Next
  <2>3. CASE w = "consumer"
    <3>1. Buffer!Consume
      BY <1>1, <2>1, <2>3 DEF Buffer!Consume, Write, IInv, TestHolds
    <3> QED
      BY <3>1 DEF Buffer!Next
  <2> QED
    BY <2>2, <2>3 DEF Workers
<1>2. ASSUME NEW w \in Workers, Step(w) \/ WakeUp(w), ~Write(w)
      PROVE  UNCHANGED numberOfUnits
  BY <1>2 DEF Step, Acquire, Proceed, Sleep, Read, Signal, Unlock, PrintUnits, WakeUp
<1>3. CASE UNCHANGED vars
  BY <1>3 DEF vars
<1> QED
  BY <1>1, <1>2, <1>3 DEF Next

\* The two threads together are a bounded buffer: whatever a thread reads for an
\* update is still the counter when it writes, and no unit is lost or made up.
THEOREM CondVarImplementsBuffer == Spec => ImplementsBuffer
<1>1. Init => Buffer!Init
  BY DEF Init, Buffer!Init
<1> QED
  BY <1>1, BufferInvariant, StepRefines, PTL DEF Spec, ImplementsBuffer, Buffer!Spec
=============================================================================
