-------------------------- MODULE SemBufferProofs --------------------------
(***************************************************************************)
(* Proofs about SemBuffer for every number of messages and any number of    *)
(* killed processes and restarts.                                           *)
(***************************************************************************)
EXTENDS SemBuffer, TLAPS

\* How far main has come decides what there is.
SetupOrder ==
    /\ producer \in Setup => consumer = "none"
    /\ producer \in Loop => consumer # "none"
    /\ producer \in Loop \/ consumer \in Loop => mutex >= 0 /\ empty >= 0 /\ full >= 0
    /\ producer \in {"openEmpty", "openFull", "fork"} => mutex >= 0
    /\ producer \in {"openFull", "fork"} => empty >= 0
    /\ producer = "fork" => full >= 0
    /\ producer \in Setup \ {"reset"} => numMessages = 0

\* The mutex and the processes in the section share one token, which may be
\* lost.
Inside(where) == IF where \in {"update", "unlock"} THEN 1 ELSE 0
OneInside == mutex + Inside(producer) + Inside(consumer) <= 1

\* The tokens of the two counting semaphores, also before both exist.
Tokens ==
    /\ empty = -1 => full = -1
    /\ full = -1 => /\ empty \in {-1, MAX_MESSAGES}
                    /\ lost = 0
                    /\ Held(producer) + Held(consumer) = 0
    /\ TokensConserved

\* The messages: exactly the tokens of full as long as nobody was killed, at
\* most these later.
Behind ==
    full + (IF producer \in {"unlock", "give"} THEN 1 ELSE 0)
         + (IF consumer \in {"lock", "update"} THEN 1 ELSE 0)

Messages ==
    /\ kills = 0 => lost = 0 /\ ~killedNow /\ producer # "dead" /\ consumer # "dead"
    /\ kills = 0 /\ producer \in Setup => full \in {-1, 0}
    /\ producer \in Loop /\ ~killedNow => consumer \in Loop /\ numMessages <= Behind
    /\ producer \in Loop /\ kills = 0 => numMessages = Behind

IInv == TypeOK /\ SetupOrder /\ OneInside /\ Tokens /\ Messages

-----------------------------------------------------------------------------
LEMMA InitIInv == Init => IInv
<1> SUFFICES ASSUME Init PROVE IInv
  OBVIOUS
<1>1. killedNow \in BOOLEAN /\ ~killedNow
  BY DEF Init
<1>2. TypeOK
  BY <1>1, SemAssumption DEF Init, TypeOK, Setup, Loop
<1>3. SetupOrder /\ OneInside
  BY DEF Init, SetupOrder, OneInside, Inside, Setup, Loop
<1>4. Tokens
  BY DEF Init, Tokens, TokensConserved, Held, Holding
<1>5. Messages
  BY <1>1 DEF Init, Messages, Setup, Loop
<1> QED
  BY <1>2, <1>3, <1>4, <1>5 DEF IInv

LEMMA StepIInv == IInv /\ [Next]_vars => IInv'
<1> SUFFICES ASSUME IInv, [Next]_vars PROVE IInv'
  OBVIOUS
<1> USE SemAssumption DEF IInv, TypeOK, SetupOrder, OneInside, Tokens, Messages, Behind,
        TokensConserved, Inside, Held, Holding, Setup, Loop
<1>1. CASE ResetCounter
  BY <1>1 DEF ResetCounter
<1>2. CASE OpenMutex
  BY <1>2 DEF OpenMutex, Opened
<1>3. CASE OpenEmpty
  BY <1>3 DEF OpenEmpty, Opened
<1>4. CASE OpenFull
  BY <1>4 DEF OpenFull, Opened
<1>5. CASE Fork
  BY <1>5 DEF Fork
<1>6. CASE CleanUp
  BY <1>6 DEF CleanUp
<1>7. CASE ProducerTake
  BY <1>7 DEF ProducerTake
<1>8. CASE ProducerLock
  BY <1>8 DEF ProducerLock
<1>9. CASE Add
  BY <1>9 DEF Add
<1>10. CASE ProducerUnlock
  BY <1>10 DEF ProducerUnlock
<1>11. CASE ProducerGive
  BY <1>11 DEF ProducerGive
<1>12. CASE ConsumerTake
  BY <1>12 DEF ConsumerTake
<1>13. CASE ConsumerLock
  BY <1>13 DEF ConsumerLock
<1>14. CASE Remove
  BY <1>14 DEF Remove
<1>15. CASE ConsumerUnlock
  BY <1>15 DEF ConsumerUnlock
<1>16. CASE ConsumerGive
  BY <1>16 DEF ConsumerGive
<1>17. CASE KillProducer
  BY <1>17 DEF KillProducer
<1>18. CASE KillConsumer
  BY <1>18 DEF KillConsumer
<1>19. CASE Restart
  BY <1>19 DEF Restart
<1>20. CASE UNCHANGED vars
  BY <1>20 DEF vars
<1> QED
  BY <1>1, <1>2, <1>3, <1>4, <1>5, <1>6, <1>7, <1>8, <1>9, <1>10, <1>11, <1>12,
     <1>13, <1>14, <1>15, <1>16, <1>17, <1>18, <1>19, <1>20
     DEF Next, ProducerStep, ConsumerStep

\* The invariant that carries the others holds at all times.
THEOREM SemInvariant == Spec => []IInv
  BY InitIInv, StepIInv, PTL DEF Spec

\* The values of the semaphores and of the counter stay in their ranges over
\* any number of runs.
THEOREM TypeCorrect == Spec => []TypeOK
<1>1. IInv => TypeOK
  BY DEF IInv
<1> QED
  BY SemInvariant, <1>1, PTL

\* At most one process is in the critical section, also in a run that finds the
\* semaphores a killed process has left.
THEOREM SectionsExclude == Spec => []SectionExclusive
<1>1. IInv => SectionExclusive
  BY DEF IInv, TypeOK, SetupOrder, OneInside, SectionExclusive, InSection, Inside,
     Setup, Loop
<1> QED
  BY SemInvariant, <1>1, PTL

\* The tokens of the two counting semaphores are lost only with the processes
\* that hold them.
THEOREM TokensStay == Spec => []TokensConserved
<1>1. IInv => TokensConserved
  BY DEF IInv, Tokens
<1> QED
  BY SemInvariant, <1>1, PTL

\* In a run in which nobody is killed, every message has a token the consumer
\* can take, whatever semaphores the run has inherited.
THEOREM MessagesReachable == Spec => []MessagesHaveTokens
<1>1. IInv => MessagesHaveTokens
  BY DEF IInv, Messages, Behind, MessagesHaveTokens
<1> QED
  BY SemInvariant, <1>1, PTL

\* Until the first process is killed, a process that has a token finds room, or
\* a message: the two tests of the counter are redundant.
THEOREM TestsRedundant == Spec => []TestsSucceed
<1>1. IInv => TestsSucceed
  BY SemAssumption DEF IInv, TypeOK, SetupOrder, Tokens, TokensConserved, Messages,
     Behind, TestsSucceed, Held, Holding, Setup, Loop
<1> QED
  BY SemInvariant, <1>1, PTL
=============================================================================
