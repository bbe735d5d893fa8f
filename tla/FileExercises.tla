---------------------------- MODULE FileExercises ----------------------------
(***************************************************************************)
(* Two exercises that copy files: execludeCreate.c of class2 (here copy)    *)
(* copies one to a file that must not exist, catFiles.c of class3 appends   *)
(* all its sources to dest.txt.  The user starts one of them several times, *)
(* at any time, with sources of its own each time and the same destination. *)
(***************************************************************************)
EXTENDS Integers, Sequences

CONSTANTS
    CopyRuns,       \* runs of the program
    CHUNK_SIZE      \* how many units of data read() returns at most

FilesAssumption == CHUNK_SIZE \in Nat \ {0}

\* How long its sources are, in units; whether the destination must be new, and
\* is opened second; and whether a failure of the first read() is noticed.
copy == [sources |-> <<CHUNK_SIZE + 1>>, exclusive |-> TRUE, checksFirst |-> FALSE]
catFiles ==
    [sources |-> <<CHUNK_SIZE + 1, 1>>, exclusive |-> FALSE, checksFirst |-> TRUE]

VARIABLES
    program,        \* that is run
    at,             \* where each run is
    source,         \* which of its sources it reads
    offset,         \* where it is in that source
    buffer,         \* how many units it has read and not written
    destination     \* the units of the destination, as <<run, source, number>>

progress == <<source, offset>>
vars == <<program, at, progress, buffer, destination>>

Length(r) == program.sources[source[r]]
Places == {"openSource", "openDestination", "first", "read", "write"}

Init ==
    /\ program \in {copy, catFiles}
    /\ at = [r \in CopyRuns |->
               IF program.exclusive THEN "openSource" ELSE "openDestination"]
    /\ source = [r \in CopyRuns |-> 1]
    /\ offset = [r \in CopyRuns |-> 0]
    /\ buffer = [r \in CopyRuns |-> 0]
    /\ destination = [exists |-> FALSE, units |-> << >>]

Goto(r, place) == at' = [at EXCEPT ![r] = place]

OpenSource(r) ==
    /\ at[r] = "openSource"
    /\ Goto(r, IF program.exclusive THEN "openDestination" ELSE "first")
    /\ UNCHANGED <<program, progress, buffer, destination>>

\* open() with O_EXCL fails if the destination is there, of anyone.
OpenDestination(r) ==
    /\ at[r] = "openDestination"
    /\ program.exclusive => ~destination.exists
    /\ destination' = [destination EXCEPT !.exists = TRUE]
    /\ Goto(r, IF program.exclusive THEN "first" ELSE "openSource")
    /\ UNCHANGED <<program, progress, buffer>>

\* Any open() may fail; the other descriptor is closed or goes with the process.
OpenFails(r) ==
    /\ at[r] \in {"openSource", "openDestination"}
    /\ Goto(r, "failed")
    /\ UNCHANGED <<program, progress, buffer, destination>>

Read(r) ==
    /\ at[r] \in {"first", "read"} /\ offset[r] < Length(r)
    /\ \E n \in 1 .. CHUNK_SIZE :
        /\ offset[r] + n <= Length(r)
        /\ buffer' = [buffer EXCEPT ![r] = n]
        /\ offset' = [offset EXCEPT ![r] = @ + n]
    /\ Goto(r, "write")
    /\ UNCHANGED <<program, source, destination>>

\* The source ends: the next one is opened, or the program ends.
ReadEOF(r) ==
    /\ at[r] \in {"first", "read"} /\ offset[r] = Length(r)
    /\ IF source[r] < Len(program.sources)
         THEN /\ source' = [source EXCEPT ![r] = @ + 1]
              /\ offset' = [offset EXCEPT ![r] = 0]
              /\ Goto(r, "openSource")
         ELSE Goto(r, "succeeded") /\ UNCHANGED progress
    /\ UNCHANGED <<program, buffer, destination>>

\* -1 is not greater than 0: copy takes it for the end of its source, if it is
\* the first read() that fails.
ReadFails(r) ==
    /\ at[r] \in {"first", "read"}
    /\ Goto(r, IF at[r] = "first" /\ ~program.checksFirst
               THEN "succeeded" ELSE "failed")
    /\ UNCHANGED <<program, progress, buffer, destination>>

\* The units of its buffer, of which write() writes the first n.
Taken(r, n) ==
    [i \in 1 .. n |-> <<r, source[r], offset[r] - buffer[r] + i>>]
WriteUnits(r, n) ==
    destination' = [destination EXCEPT !.units = @ \o Taken(r, n)]

\* A faulty variant: the whole buffer is written, as full as it may be.
WriteChunk(r) ==
    /\ at[r] = "write"
    /\ WriteUnits(r, CHUNK_SIZE)
    /\ Goto(r, "read")
    /\ UNCHANGED <<program, progress, buffer>>

Write(r) ==
    /\ at[r] = "write"
    /\ WriteUnits(r, buffer[r])
    /\ Goto(r, "read")
    /\ UNCHANGED <<program, progress, buffer>>

\* A faulty variant: the result of write() is not looked at.
GoOnWriting(r) ==
    /\ at[r] = "write"
    /\ \E n \in 0 .. buffer[r] - 1 : WriteUnits(r, n)
    /\ Goto(r, "read")
    /\ UNCHANGED <<program, progress, buffer>>

\* The disk is full.
WritePartly(r) ==
    /\ at[r] = "write"
    /\ \E n \in 0 .. buffer[r] - 1 : WriteUnits(r, n)
    /\ Goto(r, "failed")
    /\ UNCHANGED <<program, progress, buffer>>

\* A signal.
Killed(r) ==
    /\ at[r] \in Places
    /\ Goto(r, "failed")
    /\ UNCHANGED <<program, progress, buffer, destination>>

Step(r) ==
    \/ OpenSource(r) \/ OpenDestination(r) \/ OpenFails(r)
    \/ Read(r) \/ ReadEOF(r) \/ ReadFails(r) \/ Write(r) \/ WritePartly(r)

Next == \E r \in CopyRuns : Step(r) \/ Killed(r)

-----------------------------------------------------------------------------
\* The units of a run's sources, and the order it reads them in.
Units(r) == UNION {{<<r, s, i>> : i \in 1 .. program.sources[s]} :
                      s \in DOMAIN program.sources}
Before(u, v) == u[2] < v[2] \/ (u[2] = v[2] /\ u[3] < v[3])

\* The destination has what each run has read of its sources, in their order, with
\* no gap and nothing twice, and all of it if the run succeeded; only copy succeeds
\* with nothing, if its first read() failed.  The destination of copy has one source.
FilesTrue ==
    LET units == destination.units
        Of(r) == {i \in DOMAIN units : units[i][1] = r}
    IN  /\ \A r \in CopyRuns : \A i \in Of(r) :
            /\ units[i] \in Units(r)
            /\ \A u \in Units(r) :
                   Before(u, units[i]) <=> \E j \in Of(r) : j < i /\ units[j] = u
        /\ \A r \in CopyRuns : at[r] = "succeeded" =>
            \/ \A u \in Units(r) : \E i \in Of(r) : units[i] = u
            \/ program = copy /\ offset[r] = 0 /\ Of(r) = {}
        /\ program = copy => \A i \in DOMAIN units : units[i][1] = units[1][1]

AllEnded == \A r \in CopyRuns : at[r] \in {"succeeded", "failed"}
=============================================================================
