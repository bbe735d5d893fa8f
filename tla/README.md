# Verification of the concurrent programs of CSCI 7645

The repository is a collection of C programs written for a course on systems programming: FIFO and
message-queue services, socket services, bounded buffers, shared counters, pipe barriers, shared memory.
This directory holds TLA+ models of those in which several processes or threads share state, the TLC runs
that check them on small instances, and TLAPS proofs about them for every value of their constants.

Each program is small; what is hard in them is the order in which steps of several actors happen, what a
dead process leaves behind (FIFO and socket names, message queues, named semaphores), and what a name
means when it is used again. Nothing in the repository tests any of this: there are no tests.

## 1. Inventory

Shared state, operations and correctness of each part. "Modelled in" is empty for parts left out.

| Part (src/) | State | Operations | Modelled in |
|---|---|---|---|
| Ticket service, multithreaded: `class9/multithreaFfifoserver.c`, `class9/FifoClient.c` | request FIFO, one response FIFO per process id, `nextTicket`, `mutex` | server: mkfifo, open, dummy open, read, copy the request, spawn and detach a handler; handler: lock, compute, advance, unlock, open, write, close; exit handlers and SIGINT of both; client: mkfifo, open, write, close, open, read, exit | `Fifo`, `TicketProtocol`, `TicketServer`, `TicketClient`, `TicketService`; promise: `TicketDispenser` |
| Ticket service, iterative: `class8/Fifoserver.c`, `class8/FifoClient.c` | the same, without threads | the same, the server answers between two reads | `IterativeTicketService` (with `TicketClient`) |
| Average service over message queues: `class9/Practice/mqServer.c`, `mqClient.c` | request queue, one response queue per process id; both outlive the processes | open or create, receive, open or create the response queue, send, unlink | `MqService` |
| Buffer, two condition variables: `class5/producerconsumer2.c` | `numberOfUnits`, mutex, `fullCondition`/`emptyCondition` | lock, wait, update, signal at the ends, unlock, print | `CondVarBuffer`; promise: `BoundedBuffer` |
| Buffer, one condition variable: `class5/conditionvaraibles.c` | array, `count`, mutex, `cond` | lock, wait, put or take, signal, unlock, join | `SingleCondBuffer` |
| Buffer by polling: `class5/producerconsumer.c` | `numberOfUnits`, mutex | lock, test, update, unlock, sleep | `BusyWaitBuffer` |
| Buffer with named semaphores: `class10/Practice/producerConsumer.c` | `mutex`, `empty`, `full` (named), `numMessages` in shared memory | open, reset, fork; wait, wait, update, post, post; killed and started again | `SemBuffer` |
| Shared counters: `class5/mutexExample.c`, `racecondition.c`, `practice/thread_incr*.c`, `assignment3/threads.c` | one counter, sometimes a mutex | read the arguments, create, loop, join, print | `SharedCounter` |
| Barrier by end of file: `class7/synchronizationPipe.c` | a pipe nobody writes to | fork, T1, close, T2, exit; read, wait | `PipeBarrier` |
| Barrier by counted bytes: `class7/threeTasksSychnronizationPipes.c` | a pipe, three counters | fork, task, write; read, count, report, wait | `PipeCounters` |
| Tables in shared memory: `assignment6/shm*.c`, `class10/sharedMemory*.c`, `class10/Practice/mypractice/*.c` | a named semaphore, a shared memory object | create, ftruncate, map, wait, write or read, post | `SharedTable` |
| Services over stream sockets: `class11/socketStream*.c` (echo), `assignment7/streamSocketRand*.c` (average) | the socket at the path, its backlog, one connection being served | server: remove, bind, listen, accept, read, write, close; client: connect, write, read, close | `StreamService` |
| Services over datagram sockets: `class11/datagram*.c`, `assignment7/streamDatagramRand*.c` | the socket at the path, one named after the process id of each client, their queues | server: remove, bind, recvfrom, sendto; client: bind, sendto, recvfrom, remove | `DatagramService` |
| Average service over FIFOs: `class9/Practice/Fifoserver.c`, `Fifoclient.c` | as the ticket service, the counter unused | as the ticket service; handler: lock, average, unlock | `AverageService` (with the modules of the ticket service) |
| Message queue tools: `class9/mq*.c`, `class9/Practice/mqName*.c`, `assignment5/mq*.c` | one message queue per group, with priorities | create, open, send, look at `mq_curmsgs`, receive, unlink | `MqTools` |
| Pipes between parent and child: `class6/**`, `assignment4/pipe.c` | one pipe, or two in opposite directions; output buffers | fork, close, write, read, print, reply, wait | `PipeExchange`, `Stdio` |
| FIFO exercises: `class7/*Fifo*.c`, `class7/review/*.c` | a FIFO and its name | mkfifo, open, fork, write, read, close, exit handler | `FifoExercises` (with `Fifo`) |
| Process trees: `assignment2/processes.c`, `class3/process*.c`, `class3/*ractice/*.c` | children, output buffers | fork, print, wait, exit, _exit, execv, system | `ProcessTree`, `Stdio` |
| Copying files: `class2/execludeCreate.c`, `class3/practice/catFiles.c` | the destination | open, read, write, exit, in several runs at a time | `FileExercises` |
| Thread exercises, number and array exercises, directories, tutorials, build files | local | sequential, or nothing shared | see section 8 |

How the parts interact. Server and client of a service share names in the file system only: the request
FIFO or queue, and a response FIFO or queue named after the process id of the client. The records on the
wire are shorter than PIPE_BUF or one message, so that they are written and read whole; over a stream
socket they are bytes that are read in pieces. The threads of a
program share global variables under one mutex. The two processes of a pipe program share the pipe and the
order of wait(), and the output they inherit. The message queue tools, the FIFO exercises and the programs
that copy files meet in the name of a queue, a FIFO or a file, and a user may start them in any order and
several times. Programs of different parts do not interact.

What makes each part correct:

- ticket service: no ticket twice, none lost, each request handled once, each response read by the client
  that asked, every client answered while its server lives, no name left behind;
- message-queue service: each request in one place whatever dies, a restart loses nothing that waits,
  what the dead leave never grows beyond what they sent;
- socket services: a client reads the bytes that answer its own and nobody else's, in order; clients that
  end in order end no server; a client waits for ever only for what nobody can send;
- buffers: the abstract bounded buffer, with fairness to both sides; no lost wake-up; tokens conserved
  over killed runs;
- counters: the exact sum with a mutex, wrapped to an int; the known bounds without, if the sum is an int;
- barriers: a message is printed when, and only when, what it says has happened, and the parent ends;
- shared tables: one process in the section, whole lists, no access beyond the object;
- message queue tools: each message in one place, none lost but behind a run that unlinks the queue, a
  reader that counts gets as many as it counted;
- pipes, FIFOs, trees and files: what a child prints is what its parent sent, in order and once; a reader
  gets the numbers of its own writer; a copy that succeeds is whole; everybody ends.

`PROJECT.json` lists the hazards at their lines with the properties that watch them.

## 2. Modules

| Module | Models | Correspondence |
|---|---|---|
| `Fifo` | a FIFO of the kernel, as the programs use it (external) | open blocks until the other side is there, a read at end of file, SIGPIPE, contents freed with the last end |
| `TicketProtocol` | records, ends and names both programs share | `requestPath` and `responsePath` map names to FIFOs, so that an unlinked FIFO lives on in its ends |
| `TicketServer` | `main` and `giveOutTickets` | `mainPc`, `handlerPc[s][t]`: one action per system call or shared access; `input` is the malloc'ed copy, `job` the handler's local one |
| `TicketClient` | the client | `clientPc`; `Garbage` is the uninitialised response that is printed at end of file |
| `TicketService` | both, composed | properties of the service; refinement to `TicketDispenser` |
| `AverageService` | the servers and clients of class9/Practice, next to those of tickets | `service` says which is run; `executeAndSend` is the handler, the other functions are those of `TicketServer` and `TicketClient`; the numbers of a request and the average are one value |
| `TicketDispenser` | what the counter promises | one step per handler |
| `IterativeTicketService` | the server of class8, composed with `TicketClient` | the two programs name the response FIFO differently |
| `MqService` | server and clients over message queues | `requests`, `queue[p]`: `None` when there is no such name; `orphan`: the contents of a queue the server has open and its client has unlinked |
| `MqTools` | eight programs with one queue | a record says what a program does (creates, sends, reads for ever, until empty or as many as there were, unlinks); a queue is called after the run that created it, `name` leads to one of them, `held` keeps it alive |
| `BoundedBuffer` | the promise of the counting buffers | `Produce`, `Consume` |
| `CondVarBuffer`, `SingleCondBuffer`, `BusyWaitBuffer`, `SemBuffer` | the buffers | a `pc` per thread; an update of a shared variable is a read and a write; `pthread_cond_wait` is "fall asleep and release" and "ask for the mutex again" |
| `SharedCounter` | the counter programs | `program` is a record that says what differs: arguments, what each thread adds, `locking`, `returnsInLoop`, `volatile`; `Narrow` keeps arguments and counter within an int, which wraps where C leaves the overflow undefined and compilers for two's complement add |
| `PipeBarrier`, `PipeCounters` | the pipe programs | who has a write end open decides about end of file |
| `PipeExchange` | five programs, parent and child | `pipe[p]`: what is in it, at most `CAPACITY`; `open`: the ends; a program is a record: what is sent, what is printed of it, how large its array is |
| `ProcessTree` | six programs that fork children one by one | a record says how many children, how many lines each prints, how it ends (`exit`, `_exit`, `exec`) and what the parent prints |
| `Stdio` | printf() with a terminal or not (external) | `buffer[p]` until the end of a line or of the process; fork() copies it, _exit() loses it |
| `FifoExercises` | six programs in three groups over `Fifo` | `path`: the run whose FIFO has the name; a record says what a program opens, writes, reads and unlinks |
| `FileExercises` | two programs that copy, several runs with one destination | `destination.units`: which unit of which source of which run |
| `SharedTable` | six programs over shared memory | `program` is the pair that is run: `counted` (assignment6), `readsInside` (not in mypractice); ftruncate and mmap are two steps, so that a writer whose mmap fails has set the size (`MapFails`) |
| `StreamService` | both pairs of programs over stream sockets | `up[c]`, `down[c]`: the bytes on their way; `link[c]`: what the client finds at the other end (`closed`: end of file, `reset`: an error, because bytes were left unread or the connection never accepted); `kind`: `echo` or `average` |
| `DatagramService` | both pairs over datagram sockets; a single request is the case of assignment7 | `name[p]`: whose socket has the name made of a process id; `inbox[s]`, `replies[c]`: the queues of the sockets |
| `ThreadPrograms`, `PipePrograms`, `SocketPrograms`, `MqPrograms` | choose one of several small programs and run it | `kind` says which; the variables another program would have are `Absent`; the steps are those of the instantiated modules |
| `MC...` | instances for TLC | the programs as records, functions over named processes |
| `...Proofs` | theorems | section 6 |

Operators marked "a faulty variant" next to an action are plausible bugs of that code. They are used by no
specification: each property is checked to fail when the faulty variant takes the place of the original.

Abstractions used throughout. Messages are records of the fields the properties tell apart. Formatting and
printing are left out where no property is about them. A system call that fails for a reason outside the
models (no memory, no thread, a mutex or a close that reports an error) ends the program; such failures are
modelled where they leave something behind that others see (a failing open, mkfifo, write, fork, ftruncate,
mq_open, mq_send), and not where they have the effect of an interrupt at that point.

## 3. Runs

| Run | Question | Bounds |
|---|---|---|
| `ticket_service` | do handlers implement the dispenser; is a ticket sold twice; who reads which answer | 1 server, 3 clients, two of them with one process id after each other, the first may be killed; 3 handlers, counter modulo 8, 1 or 3 tickets each: up to 9 tickets, so that the counter wraps within and between ranges |
| `ticket_faults` | what survives interrupts and a second server; who is answered, who can be stuck | 2 servers, 2 clients with one ticket each; one of each may be interrupted at any point; the ticket service and the average service |
| `ticket_reuse` | finding 1 | 3 clients with one process id: the first leaves its name, the second fails on it and removes it, the third gets the late answer |
| `iterative_calm` | finding 2 | 1 server, 2 clients, no faults |
| `condvar` | bounded buffer, wake-ups, fairness | size 5; spurious wake-ups at any time, but not for ever |
| `condvar_print` | finding 3 | size 5 |
| `sem` | tokens, section and messages over killed runs; who starves | 3 messages and 5 deaths, more than there are tokens |
| `threads` | the small thread programs | buffer of 2 and 6 items (three fills and drains); polling buffer of 10, the code's own; 2 threads, all pairs of arguments in -1..5 for assignment3, an int of 4 bits and longs up to 18 for getInt: loop bounds that are narrowed to a negative int, and sums that leave the range of the counter and wrap |
| `pipes` | what the exercises with processes print; where their data goes; who ends | 3 children at the barrier (2 in the code), 2 children and 3 tasks at the counters (the code's own); pipes of 2, texts of 1, 2, 3 and 4 for arrays of 3: below, at and above both limits; trees of 1 to 3 children, one may be killed; 3 runs of FIFO programs, 2 numbers each, one may get CTRL+C; 2 runs that copy sources of 3 and 1 units in chunks of 1 or 2; any fork, open, read or write of a file may fail |
| `mq` | one copy of each request; what the dead leave; who is answered; where the messages of the tools are | 4 clients, 2 process ids, queues of 2, 3 dead clients, 1 fault of the server: three clients of one id die, two stale responses fill its queue, the third blocks the server for ever and a client of the other id waits with it; clients and ids are used in their order (`InOrder`); 3 runs of the tools, with 2 messages each, so that a writer finds the queue full and two readers share it; one of them may be killed or see a call fail |
| `table` | sections, mixtures, faults, the reader that reads after its post | 3 writers of 2, 2 and 1 pages, 1 reader, 1 failure (a kill, an ftruncate that fails, or an mmap that fails when the size is set), the three pairs of programs |
| `sockets` | whose bytes are read, what ends a server, who waits for ever | 2 servers, 2 clients, one of each may be killed; buffers of 3 bytes and strings of 0, 1, 2 and 4: below the client's buffer, above the server's, and none; a backlog and queues of one; 2 process ids, equal or not |

`InOrder` is an action constraint of `MCMqPrograms`: clients and process ids are interchangeable, so that of
runs which differ in names only one is looked at. A symmetry set would do the same, but not for
`AnsweredAtLast`, since TLC does not check liveness under one. The theorems do not use it.

The bounds are the smallest at which every action fires and every faulty variant is caught: two handlers
are needed for a race, three for a range between two others; a queue has to be filled by the dead, a buffer
to be full and empty more than once, a counter to wrap within a range. `CorrectClient` excepts process ids
that a killed client had; what happens to those is the run `ticket_reuse`. It also excepts states in which a
server is astray (`SomeServerAstray`): the two opens of its name have found different FIFOs, so that it meets an
end of file among its requests and may answer anybody. That takes three servers started side by side, more
than a run here has; the attempt to prove `CorrectClient` for any number of servers led to it, and TLC
confirms it on an instance with three.

Deadlock is checked in `condvar`, `condvar_print`, `threads` and `pipes`, where the programs end in an
explicit final state or never end; for the FIFO exercises that state includes a process in an open() that
nobody will answer (`AllRest`). It is switched off where the system may really stop: every client and
server has ended, a server waits in read(), mq_receive(), accept() or recvfrom() for clients that never
come, or all tokens of
the semaphores died with earlier runs.

## 4. Fairness

Weak fairness of every thread or process: a step that stays possible is taken, as the scheduler of the
kernel does. It is stated per process (per handler in the ticket service), never for interrupts, kills,
spurious wake-ups, failing calls or the start of a server. `Die` in `TicketServer` is fair because a
process inside exit() ends. Three things go beyond it.

- Waits that end without a signal do not go on for ever (`<>[][...no WakeUp...]_vars` in `CondVarBuffer` and
  `ThreadPrograms`): with endless spurious wake-ups a thread could wake and fall asleep and keep the other
  from the mutex.
- `BusyWaitBuffer` has strong fairness of its lock: both threads sleep for seconds between two looks, so the
  mutex is free most of the time and is not taken away from a waiting thread for ever.
- What an antecedent says is assumed there and not in the specification: `AnsweredAtLast` speaks of runs in
  which a server is up at last, `NobodyStarves` of runs in which nobody dies any more, a token is left and
  the section is not closed by a dead process.

`AnsweredAtLast` excepts two waits. A request dies with the server that has it in hand (`lost`). And a server
that is up may wait itself (`BlockedByTheDead`): `mq_send()` (`mqServer.c:76`) blocks on a full response queue,
and when more than `MaxMsg` processes of one id have died without reading, the queue is full and nobody is left
to read it, so that the clients of all other ids wait for ever behind this one response. The run reaches such
states, and without the exception the property is violated there. The exception is no wider than that: a full
queue of fewer dead is one that a live client reads from.

`EveryRequestAnswered` excepts states in which a server has gone: nothing in the code brings an answer to
its clients then. `EveryClientEnds` of the sockets excepts two waits that nothing in the code ends: an empty
string over a stream is no byte to answer, and a datagram that died with its server is not answered. A
stream client whose server dies is not excepted: the kernel closes the connection, and the client ends.
`AllEnd` of `pipes` excepts the parent that counts the bytes of killed children, and processes in an open()
of a FIFO whose other side nobody starts or can find (`WaitsInVain`); two runs of `FifoNumberSum` that leave
each other alone are not excepted. Properties that say "in the end, for ever" are written `<>[]`, since what
they speak of does not change any more.

## 5. Findings

Each is a run that expects its property to be violated.

1. `ticket_reuse`: `class9/multithreaFfifoserver.c:82` promises "Send the response to the correct client".
   A handler that is late finds the FIFO of the next process with the id of a killed client.
2. `iterative_calm`: `class8/Fifoserver.c:97` promises the same, but the server's template (line 13) is
   spelled differently from the client's, and the open of line 103 is for reading. The server ends on the
   first request.
3. `condvar_print`: `class5/producerconsumer2.c:98` reads `numberOfUnits` behind the unlock, against
   requirement (1) on line 6.

More disagreements between code and comment are part of the models, and the properties account for them:
`class5/practice/thread_incr_mutex.c:20` returns inside the loop that line 7 describes as "Loop 'arg'
times" (`Rounds`, `FinalValue`); `class5/practice/func.h:37` narrows to int after the check that line 7
promises (`Narrow`); in `class7/synchronizationPipe.c:85` the end of file also comes from a child that ended
before T1, although lines 8-9 require both to have completed it (`EndedEarly` in the `MessagesTrue` of
`PipeBarrier`). A fourth:
`class11/socketStreamServer.c:17` wants "the server robust", but a string of `BUF_SIZE` bytes or more, of which
the client leaves a part unread, ends it: its read fails or its write raises SIGPIPE, as after a client that
was killed (the exceptions in `EndsExplained`).

## 6. Proofs

TLAPS proves the following for every value of the constants, under the named assumptions of the modules
(sizes are positive, `UINT` is at least 4, an int has more than one value, there are finitely many writers and readers of a table, `None` is
neither a client nor a queue, a request asks for at least one ticket and for less than half of
the number range, as a positive int does, at least two threads share a counter, and of their programs only
those with a lock return inside the loop).

- `TicketServiceProofs`: first the promise, `TicketDispenser`: `TicketsDisjoint`, `TicketsContiguous`. The
  inductive invariant says that, before the wrap, the ranges granted partition `1 .. total` and the next
  ticket is `total + 1`; disjointness alone is not inductive, since it does not bound the next range.
  Then the service: `TypeCorrect`, `ServiceImplementsDispenser`, `TicketsSoldOnce`. The invariant adds
  to the types that a server which does not run has a free mutex or none of its handlers moving, that at
  most one handler is between lock and unlock and holds the mutex, that a handler's response is fixed by the
  counter it saw, and that every response on its way (in a FIFO or in a client's hands) is the one its
  handler computed (`ResponsesGenuine`). `TicketsSoldOnce` follows from the refinement and
  `TicketsDisjoint`: it carries what the dispenser promises to what clients hold. The lemmas about the
  operators of `Fifo` are here too.
  The rest of the module follows a request from its client and back, with any number of servers that share
  one name, any process ids and any interrupts: `OwnName` (`OwnsItsName`), `ReachableByName`
  (`ReachableUnlessTakenAway`), `RequestsHandledOnce` (`OneHandlerPerRequest`), `ResponsesReachTheirClients`
  (`CorrectClient`), `AnswersPrinted` (`PrintsItsAnswer`). Four invariants carry them. `NamesOfRuns`: a name of
  a response FIFO leads to a run with that process id which did not exit. `RequestsInOnePlace`: the requests in
  the FIFOs and those with a main thread or a handler are requests of clients and all different; a read at
  end of file would break it, which the dummy descriptor prevents (`DummyHolds`) except in a server astray.
  `RespondingInv`: a handler that has the response FIFO open is one of its writers, a FIFO that was ever
  opened by another side was opened by a handler, and what it wrote is there until the client reads it; so an
  end of file before the response needs a server that died. `KnownInv`: a client whose request is still in
  hand waits for it, and the FIFO that a handler has open is that of the client behind the request, unless a
  killed run had its process id. Each step of a client or a handler changes one place.
- `CondVarBufferProofs`: `TypeCorrect`, `WakeupsArrive`, `CondVarImplementsBuffer`. `NoLostWakeup` needs to
  know what each thread is about to signal and that an update writes what was read under the mutex.
- `SemBufferProofs`: `TypeCorrect`, `SectionsExclude`, `TokensStay`, `MessagesReachable`, `TestsRedundant`.
  The invariant counts tokens and the mutex over the deaths of any number of runs.
- `SharedTableProofs`: `Exclusion` (`OneInside`), `FaultsExplained` (`FaultNeedsTwoLengths`). `OneInside` is
  inductive once it is known that whoever died inside is dead and that nobody is past `sem_open` before the
  semaphore exists. For the faults the invariant says where lengths come from: the size of an object, the
  number written in it, what a reader has mapped and what it takes for the length of the list are each the
  list length of some writer that has set the size of this object (`Sizing`), whether it went on to map it or
  failed there, and such a writer keeps the object. A fault compares three such lengths, so two writers differ.
  `PagesInOrder` adds what the pages contain: an object that nobody is in the middle of writing, and that two
  lengths never met in, is zero or one writer's list (`Orderly`); a writer inside finds what it wrote, a
  reader inside what it read (`Filling`, `Reading`); an object that was filled once has no gap any more
  (`PublishedFilled`), and who got the semaphore after that reads none (`SeenFilled`). That the reader has
  another object than the one filled before its sem_wait takes a writer that unlinked the name (`Unlinked`). `WholeLists`
  (`WholeList`) and `NoGapRead` (`NoGapOncePublished`) follow. A writer that dies inside leaves a mixture, but
  then nobody comes inside any more.
- `MqProgramsProofs`: `CopiesSingle` (`OneCopy`), `QueuesOwned` (`QueuesBelongToTheLiving`). The places of a
  request (request queue, server, response queues, clients, destroyed) are disjoint and no queue holds a
  request twice; a request is somewhere exactly if its client has sent it. Each action moves one request on.
  That the queues belong to the living needs more: while nobody has died a request on its way belongs to a
  client that waits for it, so the response a client finds is its own, and the server's `O_CREAT` finds a
  live client. `ReadersAccounted` counts what is left over where clients do die: a process reads at most one
  response, so the responses on their way to an id are never more than the processes of that id that wait
  or have died (`Counted`); while none has died, they are those of processes that wait (`Clean`); a client with
  another one's response is behind a dead one of its id (`Shifted`). `WrongResponsesExplained`
  (`WrongResponseExplained`) and `StuckByTheDead` (`StuckOnlyByTheDead`) follow: a full queue holds `MaxMsg`
  responses, and the one that does not fit belongs to a process that still waits or has died as well.
  `ToolsRight` (`ToolsTrue`) is about the tools, any number of them with queues of any length. A message is
  kept apart by who sent it and which of its messages it was; `Places(m)` are all the positions, in the queue
  and in what each receiver got, where it could be. `ToolInv` says which messages exist (`Reached`), that none
  has two places (`OnePlace`) and that none is nowhere (`SomePlace`). The insertion that keeps the queue in
  order of priority shifts the messages behind it and takes none away (`InsertMessage`); `Looked` knows that
  a receiver which has looked at an attribute of the queue has the queue's own limit.
- `ThreadProgramsProofs`: `OneStaysAwake` (`NeverBothAsleep`), `ItemsOnce` (`EachItemOnce`) for the buffer with
  one condition variable, `PollingImplementsBuffer` for the other. The invariant of the first places every item
  put in at one position of the buffer or of `consumed` (`Distinct`, `Complete`) while the count is what was
  read under the mutex (`Rooms`). `PollingImplementsBuffer` is the safety half of `PollingIsABuffer`: each
  step is a step of `BoundedBuffer` or a stutter.
  `FinalValueRight` (`FinalValue`) is about the shared counters: with a lock the counter is what the threads
  have added so far, as an int (`Exact`), except that a thread between its read and its write holds the
  counter's value and the lock. To wrap after each addition is the same as to wrap the sum (`NarrowFacts`, from
  the uniqueness of the remainder, `ModUnique`). Without a lock, as long as the sum is an int (`Small`), nothing
  wraps and the counter never exceeds what was added (`AtMost`). The sum over the threads
  is one over a finite set: what it does when one thread's term changes (`SumChange`) is proved by induction over
  subsets, with the well-founded order of the library rather than its induction theorem.
- `PipeProgramsProofs`: `DataArrivesHolds` (`DataArrives`), for the programs that copy files and those with a
  FIFO of their own, and `MessagesTrueHolds` (`MessagesTrue`), for the others. Files: the destination is in order and without a gap (`InOrder`), and what a run that goes
  on has written is what it has read of its sources (`Behind`), less the units in its hand; who has made the
  destination of `execludeCreate.c` is alone (`Alone`). `FifoNumberSum`: what the child has read and what is in
  the FIFO are, in this order, the numbers written so far (`SumData`); parent and child have one FIFO between
  them, since the name is the parent's until both have opened it (`SumEnds`). `fifoCreateAndWrite` and
  `fifoReader`: a record waits for a reader that is still to read, and none leaves before it (`Awaited`).
  The attempt to prove it found the property true only of three runs: with four, a reader whose open failed
  unlinks the name of a writer that has not opened it yet, and this writer then opens another one's FIFO.
  `Undisturbed` excepts this now, for both groups (`stolen`), and no more than this.
  Barrier by end of file (`BarrierInv`): the parent that has seen it left no child between T1 and its close.
  Barrier by counted bytes (`CountersInv`): for each task the bytes read and those in the pipe are one for
  each child that has written it, so three of them cannot be there before both have done it; `Occ` counts how
  often something is in a sequence, with its laws for `Append`, `Tail` and `\o`.
  Parent and child with pipes (`ExchangeInv`): what has been read and what is in the pipe are a beginning of
  the message, or of the reply (`Stream`, `StreamsRight`); how far one process is says what the other has done,
  unless it was killed (`PlacesRight`); the ends that are still to be used are open, so no end of file and no
  SIGPIPE comes early (`EndsOpen`); what is printed, or still in a buffer, is of that message (`OutputRight`).
  Process trees (`TreeInv`): there is never more than one child (`OneByOne`). On a terminal every line is
  behind those that have an earlier `Place` and not beyond the program's present one (`TerminalSorted`). In a
  file a line may be in the buffer of the parent, be copied by `fork()` into that of the child and come out of
  either: for each kind of line the invariant says how often it is in the output and in each buffer (`FileRight`),
  the parent's "waited" once more for every later child that ended by `exit()` (`EndersOf`).
  Two definitions of the model did not survive the attempt to prove this, and were corrected. `Place` was a
  `CASE` with two arms true of one line, of which TLA+ does not say which is taken; it says so now. `Text`,
  what a reader makes of a string, dropped every zero; it drops the terminator, the only one there is, since
  no text contains a zero.
- `SocketProgramsProofs`: `DeliveredHolds` (`Delivered`), `EndsExplainedHolds` (`EndsExplained`), from one
  invariant, `SocketInvHolds`, that is `DatagramInv` or `StreamInv` by the service that is run.
  Datagrams: a process id may be that of a killed client whose messages are still on their way, so an answer
  sent to a name is not one to its owner for any obvious reason. `Names` says who may have a name: a client
  that is killed leaves it, and `bind()` of the next one with the same id fails, so a name with an owner has
  had no other. `OnTheirWay` then makes every message whose name is taken one of the owner (`Awaited`),
  `AtMostOne` and `OneUnlessDead` count the places it can be in, and `InTurn` orders the answers.
  Streams: `ConservedOf` says that what a client has read, what is on its way back, what a server holds of it
  and what is on its way there are, in this order, the bytes it has written; `WholeOf`, that strings which
  fit go back and forth in one piece; `ClosedOf`, what is left on a stream when its client has ended;
  `ServingOf` and `EndOf`, whom a server serves and what ended it. `Connections` keeps each client in one
  backlog or with one server. The laws about `FlattenSeq` that this needs (what it does to `<< >>` and to a
  sequence with one more element) are proved from its definition: the value of its recursive function exists
  and is unique by a least counterexample (`LeastNumber`, `FlatUnique`, `FlatExists`).
  A client sends at least one string: it exits with its usage message otherwise (`socketStreamClient.c:16`,
  `datagramClient.c:19`).

Only model-checked:

- everything under fairness, and what needs ENABLED: both are out of the prover's reach;
- `AverageService` (the theorems above are about `TicketService`, whose modules it shares) and
  `IterativeTicketService`, whose one property is violated.

## 7. Plan

Every module of the plan is there, and every invariant of the passing runs is proved. What could come next is
one `RequestReply` promise that the FIFO, queue and socket services implement when nobody dies.

## 8. Not modelled

- Sequential exercises (numbers, arrays, swaps, function pointers, a directory that is printed, an exit
  status), tutorials, build files and editor settings: no interleaving, nothing a unit test would not reach.
  `class2/copy.c` and `class3/recursivePrintFiles.c` are comments from end to end.
- `class4/threads.c`, `class5/threadsCreatingMy.c`: threads that share nothing but the output, whose lock is
  in the C library. `class4/threads.c:24` compares strings by address and goes on after its usage message.
- `class3/practice/catFiles.c` with its own destination among the sources: it reads what it appends until
  the disk is full.
- Failures of close(), wait() and the like in the pipe, FIFO and queue exercises, which no other process
  can cause.
- `class5/practice/mutexExample2.c` never starts its threads: the test of line 33 is true for every name of
  the program but "--help".
- The lost output of `_exit(0)` in `class7/synchronizationPipe.c:65`: what children print is not state.
- `threeTasksSychnronizationPipes.c`: a parent whose child is killed reads end of file for ever; `AllEnd` is
  stated for children that live.
- A second server over message queues: `Start` in `MqService` needs the first one to be down, while the code
  opens with O_CREAT alone and lets two servers take requests from one queue.
- `class11` and `assignment7` use the same socket paths: what a client of one reads from a server of the other
  is not modelled, a run has one pair of programs.
- A stream client blocked in connect() stays with the server it found; `StreamService` has it look at the path
  again, so that after a second server has taken the path it reaches that one.
- The byte behind `operation[1]` in `assignment3/threads.c:11`: `SharedCounter` lets a thread count in either
  direction, and `FinalValue` sums what each thread took. That the direction is the one of the source is not
  asserted: it depends on what the compiler puts behind the array.
- Within a page of shared memory, `SharedTable` does not tell values apart: a truncation inside a page shows
  as zeros, not as a fault, and is not modelled.
