----------------------------- MODULE SemBuffer -----------------------------
(***************************************************************************)
(* class10/Practice/producerConsumer.c: a producer process and the consumer *)
(* process it forks share a counter in shared memory, guarded by three      *)
(* named POSIX semaphores.  Both loop for ever, so cleanup() is reached     *)
(* only when a call of main fails: a run ends by CTRL+C, at any point, and  *)
(* leaves the semaphores as they are to the next run, whose sem_open with   *)
(* O_CREAT finds them and ignores the initial value.  One run at a time.    *)
(***************************************************************************)
EXTENDS Integers

CONSTANTS
    MAX_MESSAGES,
    MaxKills        \* bound: how many processes die
ASSUME SemAssumption == MAX_MESSAGES \in Nat \ {0} /\ MaxKills \in Nat

VARIABLES
    mutex, empty, full,     \* the named semaphores, -1 before they exist
    numMessages,            \* in shared memory
    producer,               \* where the parent process is
    consumer,               \* where the child process is
    kills,                  \* how many processes have died so far
    killedNow,              \* history: one has died in this run
    lost                    \* history: tokens that died with a process

vars == <<mutex, empty, full, numMessages, producer, consumer, kills, killedNow, lost>>

\* main: the counter is reset, the semaphores are opened, the child is forked;
\* then the two loops.
Setup == {"reset", "openMutex", "openEmpty", "openFull", "fork"}
Loop == {"take", "lock", "update", "unlock", "give"}

TypeOK ==
    /\ mutex \in -1 .. 1
    /\ empty \in -1 .. MAX_MESSAGES
    /\ full \in -1 .. MAX_MESSAGES
    /\ numMessages \in 0 .. MAX_MESSAGES
    /\ producer \in Setup \cup Loop \cup {"dead"}
    /\ consumer \in Loop \cup {"none", "dead"}
    /\ kills \in 0 .. MaxKills
    /\ killedNow \in BOOLEAN
    /\ lost \in Nat

Init ==
    /\ mutex = -1 /\ empty = -1 /\ full = -1
    /\ numMessages = 0
    /\ producer = "reset"
    /\ consumer = "none"
    /\ kills = 0
    /\ killedNow = FALSE
    /\ lost = 0

-----------------------------------------------------------------------------
(* main *)

\* A faulty variant: the counter is not reset.
KeepCounter ==
    /\ producer = "reset"
    /\ producer' = "openMutex"
    /\ UNCHANGED <<mutex, empty, full, numMessages, consumer, kills, killedNow, lost>>

ResetCounter ==
    /\ producer = "reset"
    /\ numMessages' = 0
    /\ producer' = "openMutex"
    /\ UNCHANGED <<mutex, empty, full, consumer, kills, killedNow, lost>>

\* A faulty variant: the initial value is set whether the semaphore is there or
\* not.
Reinitialised(sem, value) == value

\* sem_open with O_CREAT and an initial value.
Opened(sem, value) == IF sem = -1 THEN value ELSE sem

OpenMutex ==
    /\ producer = "openMutex"
    /\ mutex' = Opened(mutex, 1)
    /\ producer' = "openEmpty"
    /\ UNCHANGED <<empty, full, numMessages, consumer, kills, killedNow, lost>>

\* A faulty variant: one slot too many.
OpenEmptyTooLarge ==
    /\ producer = "openEmpty"
    /\ empty' = Opened(empty, MAX_MESSAGES + 1)
    /\ producer' = "openFull"
    /\ UNCHANGED <<mutex, full, numMessages, consumer, kills, killedNow, lost>>

OpenEmpty ==
    /\ producer = "openEmpty"
    /\ empty' = Opened(empty, MAX_MESSAGES)
    /\ producer' = "openFull"
    /\ UNCHANGED <<mutex, full, numMessages, consumer, kills, killedNow, lost>>

OpenFull ==
    /\ producer = "openFull"
    /\ full' = Opened(full, 0)
    /\ producer' = "fork"
    /\ UNCHANGED <<mutex, empty, numMessages, consumer, kills, killedNow, lost>>

Fork ==
    /\ producer = "fork"
    /\ producer' = "take"
    /\ consumer' = "take"
    /\ UNCHANGED <<mutex, empty, full, numMessages, kills, killedNow, lost>>

\* sem_open or fork fails: cleanup() unlinks the three names, so that the next
\* run starts with new semaphores.
CleanUp ==
    /\ kills < MaxKills /\ producer \in Setup \ {"reset"}
    /\ mutex' = -1 /\ empty' = -1 /\ full' = -1
    /\ lost' = 0
    /\ producer' = "dead"
    /\ kills' = kills + 1
    /\ UNCHANGED <<numMessages, consumer, killedNow>>

-----------------------------------------------------------------------------
(* producer() *)

\* sem_wait(empty)
ProducerTake ==
    /\ producer = "take" /\ empty > 0
    /\ empty' = empty - 1
    /\ producer' = "lock"
    /\ UNCHANGED <<mutex, full, numMessages, consumer, kills, killedNow, lost>>

\* A faulty variant: the producer goes on when the wait is interrupted.
ProducerLockInterrupted ==
    /\ producer = "lock"
    /\ mutex' = IF mutex > 0 THEN mutex - 1 ELSE mutex
    /\ producer' = "update"
    /\ UNCHANGED <<empty, full, numMessages, consumer, kills, killedNow, lost>>

\* sem_wait(mutex)
ProducerLock ==
    /\ producer = "lock" /\ mutex > 0
    /\ mutex' = mutex - 1
    /\ producer' = "update"
    /\ UNCHANGED <<empty, full, numMessages, consumer, kills, killedNow, lost>>

Add ==
    /\ producer = "update"
    /\ numMessages' = IF numMessages < MAX_MESSAGES THEN numMessages + 1 ELSE numMessages
    /\ producer' = "unlock"
    /\ UNCHANGED <<mutex, empty, full, consumer, kills, killedNow, lost>>

\* sem_post(mutex)
ProducerUnlock ==
    /\ producer = "unlock"
    /\ mutex' = mutex + 1
    /\ producer' = "give"
    /\ UNCHANGED <<empty, full, numMessages, consumer, kills, killedNow, lost>>

\* Two faulty variants: the producer posts empty; it posts the mutex again.
ProducerGiveEmpty ==
    /\ producer = "give"
    /\ empty' = empty + 1
    /\ producer' = "take"
    /\ UNCHANGED <<mutex, full, numMessages, consumer, kills, killedNow, lost>>

ProducerGiveMutex ==
    /\ producer = "give"
    /\ mutex' = mutex + 1
    /\ producer' = "take"
    /\ UNCHANGED <<empty, full, numMessages, consumer, kills, killedNow, lost>>

\* sem_post(full)
ProducerGive ==
    /\ producer = "give"
    /\ full' = full + 1
    /\ producer' = "take"
    /\ UNCHANGED <<mutex, empty, numMessages, consumer, kills, killedNow, lost>>

-----------------------------------------------------------------------------
(* consumer() *)

\* sem_wait(full)
ConsumerTake ==
    /\ consumer = "take" /\ full > 0
    /\ full' = full - 1
    /\ consumer' = "lock"
    /\ UNCHANGED <<mutex, empty, numMessages, producer, kills, killedNow, lost>>

\* sem_wait(mutex)
ConsumerLock ==
    /\ consumer = "lock" /\ mutex > 0
    /\ mutex' = mutex - 1
    /\ consumer' = "update"
    /\ UNCHANGED <<empty, full, numMessages, producer, kills, killedNow, lost>>

Remove ==
    /\ consumer = "update"
    /\ numMessages' = IF numMessages > 0 THEN numMessages - 1 ELSE numMessages
    /\ consumer' = "unlock"
    /\ UNCHANGED <<mutex, empty, full, producer, kills, killedNow, lost>>

\* sem_post(mutex)
ConsumerUnlock ==
    /\ consumer = "unlock"
    /\ mutex' = mutex + 1
    /\ consumer' = "give"
    /\ UNCHANGED <<empty, full, numMessages, producer, kills, killedNow, lost>>

\* sem_post(empty)
ConsumerGive ==
    /\ consumer = "give"
    /\ empty' = empty + 1
    /\ consumer' = "take"
    /\ UNCHANGED <<mutex, full, numMessages, producer, kills, killedNow, lost>>

-----------------------------------------------------------------------------
(* Crashes *)

\* A process between its sem_wait and its sem_post has taken a token out of
\* empty or full.
Holding == {"lock", "update", "unlock", "give"}
Held(where) == IF where \in Holding THEN 1 ELSE 0

KillProducer ==
    /\ kills < MaxKills /\ producer # "dead"
    /\ producer' = "dead"
    /\ lost' = lost + Held(producer)
    /\ kills' = kills + 1
    /\ killedNow' = TRUE
    /\ UNCHANGED <<mutex, empty, full, numMessages, consumer>>

KillConsumer ==
    /\ kills < MaxKills /\ consumer \in Loop
    /\ consumer' = "dead"
    /\ lost' = lost + Held(consumer)
    /\ kills' = kills + 1
    /\ killedNow' = TRUE
    /\ UNCHANGED <<mutex, empty, full, numMessages, producer>>

\* The program is started again after both processes have ended.
Restart ==
    /\ producer = "dead" /\ consumer \in {"none", "dead"}
    /\ producer' = "reset"
    /\ consumer' = "none"
    /\ killedNow' = FALSE
    /\ UNCHANGED <<mutex, empty, full, numMessages, kills, lost>>

-----------------------------------------------------------------------------
ProducerStep ==
    \/ ResetCounter \/ OpenMutex \/ OpenEmpty \/ OpenFull \/ Fork
    \/ ProducerTake \/ ProducerLock \/ Add \/ ProducerUnlock \/ ProducerGive

ConsumerStep ==
    \/ ConsumerTake \/ ConsumerLock \/ Remove \/ ConsumerUnlock \/ ConsumerGive

Next ==
    \/ ProducerStep \/ ConsumerStep \/ KillProducer \/ KillConsumer \/ CleanUp
    \/ Restart

Spec == Init /\ [][Next]_vars

\* Each process runs on while it can.
FairSpec == Spec /\ WF_vars(ProducerStep) /\ WF_vars(ConsumerStep)

-----------------------------------------------------------------------------
\* As long as no process has died, the two tests of numMessages never fail: the
\* semaphores alone keep the counter in its bounds.
TestsSucceed ==
    kills = 0 =>
        /\ producer = "update" => numMessages < MAX_MESSAGES
        /\ consumer = "update" => numMessages > 0

\* The tokens of empty and full are neither made nor lost but by a death:
\* over any number of runs, the stale semaphores never let more than
\* MAX_MESSAGES processes through.
TokensConserved ==
    (empty # -1 /\ full # -1) =>
        empty + full + Held(producer) + Held(consumer) + lost = MAX_MESSAGES

\* A counted message has a token: in a run in which nobody was killed, also one
\* that inherits the semaphores of a killed one, the consumer is never kept
\* waiting for a message that is there.
MessagesHaveTokens ==
    ~killedNow /\ producer \in Loop =>
        numMessages <= full
            + (IF producer \in {"unlock", "give"} THEN 1 ELSE 0)
            + (IF consumer \in {"lock", "update"} THEN 1 ELSE 0)

\* At most one process is in the critical section, over any number of runs that
\* find the mutex of a killed one, and the mutex is taken while it is there.
InSection(where) == where \in {"update", "unlock"}
SectionExclusive ==
    /\ ~(InSection(producer) /\ InSection(consumer))
    /\ InSection(producer) \/ InSection(consumer) => mutex = 0

\* A run in which nobody dies goes on for ever, on whatever semaphores it was
\* started, unless the runs before it took all the tokens or died in the
\* section: neither process starves, and neither waits for the other for good.
SectionOpen == mutex = 1 \/ InSection(producer) \/ InSection(consumer)
NobodyStarves ==
    <>[](~killedNow /\ producer \in Loop /\ lost < MAX_MESSAGES /\ SectionOpen)
        => []<>(producer = "update") /\ []<>(consumer = "update")
=============================================================================
