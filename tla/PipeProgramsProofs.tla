------------------------- MODULE PipeProgramsProofs -------------------------
(***************************************************************************)
(* Proofs about the programs that share pipes, FIFOs, an output or a file,  *)
(* for any number of runs and children, any sizes and any deaths.           *)
(***************************************************************************)
EXTENDS PipePrograms, SequenceTheorems, FiniteSetTheorems, TLAPS

-----------------------------------------------------------------------------
(* Files *)

Copying == {"first", "read", "write"}
FileTypes ==
    /\ program \in {Files!copy, Files!catFiles}
    /\ at \in [CopyRuns -> Files!Places \cup {"succeeded", "failed"}]
    /\ source \in [CopyRuns -> Nat]
    /\ offset \in [CopyRuns -> Nat]
    /\ buffer \in [CopyRuns -> Nat]
    /\ destination \in [exists : BOOLEAN, units : Seq(CopyRuns \X Nat \X Nat)]

units == destination.units
Stored == {units[i] : i \in DOMAIN units}

\* Nothing is out of order, and there is no gap.
InOrder ==
    \A i \in DOMAIN units :
        /\ units[i] \in Files!Units(units[i][1])
        /\ \A u \in Files!Units(units[i][1]) :
             Files!Before(u, units[i]) <=> \E j \in DOMAIN units : j < i /\ units[j] = u

\* A run that goes on has written what it has read of its sources.
Put(r) == offset[r] - (IF at[r] = "write" THEN buffer[r] ELSE 0)
Behind(r) ==
    {u \in Files!Units(r) : u[2] < source[r] \/ (u[2] = source[r] /\ u[3] <= Put(r))}
RunOk(r) ==
    /\ source[r] \in DOMAIN program.sources /\ offset[r] <= program.sources[source[r]]
    /\ at[r] = "write" => buffer[r] \in 1 .. offset[r]
    /\ at[r] \in {"openSource", "openDestination", "first"} => offset[r] = 0
    /\ at[r] = "openDestination" => source[r] = 1
    /\ at[r] \in Files!Places => Files!Units(r) \cap Stored = Behind(r)
    /\ at[r] = "succeeded" =>
        \/ Files!Units(r) \subseteq Stored
        \/ program = Files!copy /\ offset[r] = 0 /\ Files!Units(r) \cap Stored = {}

\* Who has made the destination of copy is alone.
Alone ==
    /\ units # << >> => destination.exists
    /\ \A p \in CopyRuns : at[p] \in Copying =>
        /\ destination.exists
        /\ \A i \in DOMAIN units : units[i][1] = p
        /\ \A q \in CopyRuns : at[q] \in Copying => q = p
    /\ \A i \in DOMAIN units : units[i][1] = units[1][1]

FilesInv ==
    /\ FileTypes /\ InOrder
    /\ \A r \in CopyRuns : RunOk(r)
    /\ program = Files!copy => Alone

\* What the two programs have: one source, or two.
LEMMA Sources ==
  ASSUME program \in {Files!copy, Files!catFiles}
  PROVE  /\ DOMAIN program.sources \in {1 .. 1, 1 .. 2}
         /\ Len(program.sources) \in {1, 2}
         /\ DOMAIN program.sources = 1 .. Len(program.sources)
         /\ \A s \in DOMAIN program.sources : program.sources[s] \in Nat \ {0}
         /\ program.exclusive <=> program = Files!copy
         /\ ~program.checksFirst <=> program = Files!copy
         /\ program = Files!copy => Len(program.sources) = 1
<1>1. CHUNK_SIZE \in Nat \ {0}
  BY PipeAssumption DEF Files!FilesAssumption
<1>2. CASE program = Files!copy
  BY <1>1, <1>2 DEF Files!copy
<1>3. CASE program = Files!catFiles
  <2>1. /\ program.sources = <<CHUNK_SIZE + 1, 1>> /\ ~program.exclusive
        /\ program.checksFirst
    BY <1>3 DEF Files!catFiles
  <2>2. program # Files!copy
    BY <2>1 DEF Files!copy
  <2>. QED
    BY <1>1, <2>1, <2>2
<1>. QED
  BY <1>2, <1>3

LEMMA UnitIs ==
  ASSUME program \in {Files!copy, Files!catFiles}, NEW r, NEW u
  PROVE  u \in Files!Units(r) <=>
           \E s \in DOMAIN program.sources : \E i \in 1 .. program.sources[s] : u = <<r, s, i>>
  BY DEF Files!Units

\* What a run does to the others: nothing.
LEMMA RunSame ==
  ASSUME NEW q \in CopyRuns, RunOk(q), UNCHANGED program,
         at'[q] = at[q], source'[q] = source[q], offset'[q] = offset[q],
         buffer'[q] = buffer[q],
         Files!Units(q) \cap Stored' = Files!Units(q) \cap Stored
  PROVE  RunOk(q)'
<1>1. Files!Units(q)' = Files!Units(q)
  BY DEF Files!Units
<1>2. Put(q)' = Put(q)
  BY DEF Put
<1>3. Behind(q)' = Behind(q)
  BY <1>1, <1>2 DEF Behind
<1>4. (Files!Units(q) \cap Stored)' = Files!Units(q) \cap Stored
  BY <1>1
<1>. QED
  BY <1>1, <1>3, <1>4 DEF RunOk

LEMMA OrderSame ==
  ASSUME InOrder, UNCHANGED <<program, units>>
  PROVE  InOrder' /\ Stored' = Stored
<1>1. Stored' = Stored
  BY DEF Stored
<1>2. \A r : Files!Units(r)' = Files!Units(r)
  BY DEF Files!Units
<1>. QED
  BY <1>1, <1>2 DEF InOrder, Files!Before

LEMMA FilesInit ==
  ASSUME Files!Init
  PROVE  FilesInv
<1>1. FileTypes
  BY EmptySeq DEF Files!Init, FileTypes, Files!Places
<1>2. units = << >> /\ Stored = {}
  BY DEF Files!Init, units, Stored
<1>3. InOrder /\ Alone
  BY <1>2 DEF Files!Init, InOrder, Alone, Copying
<1>4. ASSUME NEW r \in CopyRuns PROVE RunOk(r)
  <2>1. /\ at[r] \in {"openSource", "openDestination"} /\ source[r] = 1 /\ offset[r] = 0
    BY DEF Files!Init
  <2>2. 1 \in DOMAIN program.sources /\ program.sources[1] \in Nat
    BY <1>1, Sources DEF FileTypes
  <2>3. Behind(r) = {}
    <3> SUFFICES ASSUME NEW u \in Behind(r) PROVE FALSE
      OBVIOUS
    <3>1. u \in Files!Units(r) /\ (u[2] < 1 \/ (u[2] = 1 /\ u[3] <= 0))
      BY <2>1 DEF Behind, Put
    <3>2. PICK s \in DOMAIN program.sources : \E i \in 1 .. program.sources[s] : u = <<r, s, i>>
      BY <1>1, <3>1, UnitIs DEF FileTypes
    <3>3. program \in {Files!copy, Files!catFiles}
      BY <1>1 DEF FileTypes
    <3>4. /\ DOMAIN program.sources \in {1 .. 1, 1 .. 2}
          /\ program.sources[s] \in Nat \ {0}
      BY <3>3, Sources
    <3>5. s \in Nat \ {0} /\ program.sources[s] \in Nat
      BY <3>4
    <3>. QED
      BY <3>1, <3>2, <3>5
  <2>. QED
    BY <1>2, <2>1, <2>2, <2>3 DEF RunOk
<1>. QED
  BY <1>1, <1>3, <1>4 DEF FilesInv

\* A step that writes nothing.
LEMMA FilesQuiet ==
  ASSUME FilesInv, NEW r \in CopyRuns, UNCHANGED <<program, units>>, FileTypes',
         RunOk(r)', program = Files!copy => Alone',
         \A q \in CopyRuns \ {r} : /\ at'[q] = at[q] /\ source'[q] = source[q]
                                   /\ offset'[q] = offset[q] /\ buffer'[q] = buffer[q]
  PROVE  FilesInv'
<1>1. InOrder' /\ Stored' = Stored
  BY OrderSame DEF FilesInv
<1>2. ASSUME NEW q \in CopyRuns PROVE RunOk(q)'
  BY <1>1, RunSame DEF FilesInv
<1>. QED
  BY <1>1, <1>2 DEF FilesInv

LEMMA OpenSourceFiles ==
  ASSUME FilesInv, NEW r \in CopyRuns, Files!OpenSource(r)
  PROVE  FilesInv'
<1>0. FileTypes /\ RunOk(r) /\ (program = Files!copy => Alone)
  BY DEF FilesInv
<1>1. UNCHANGED <<program, units, Stored, source, offset, buffer, destination>>
  BY DEF Files!OpenSource, Files!progress, units, Stored
<1>2. /\ at[r] = "openSource"
      /\ at' = [at EXCEPT ![r] = IF program.exclusive THEN "openDestination" ELSE "first"]
  BY DEF Files!OpenSource, Files!Goto
<1>3. FileTypes'
  BY <1>0, <1>1, <1>2 DEF FileTypes, Files!Places
<1>4. Behind(r)' = Behind(r) /\ Files!Units(r)' = Files!Units(r)
  BY <1>0, <1>1, <1>2 DEF FileTypes, Behind, Put, Files!Units
<1>5. program.exclusive => source[r] = 1
  BY <1>0, Sources DEF FileTypes, RunOk
<1>6. RunOk(r)'
  BY <1>0, <1>1, <1>2, <1>4, <1>5 DEF FileTypes, RunOk, Files!Places
<1>7. program = Files!copy => Alone'
  <2>1. program = Files!copy => program.exclusive
    BY <1>0, Sources DEF FileTypes
  <2>2. program = Files!copy => \A q \in CopyRuns : at'[q] \in Copying => at[q] \in Copying
    BY <1>0, <1>2, <2>1 DEF FileTypes, Copying
  <2>. QED
    BY <1>0, <1>1, <2>2 DEF Alone
<1>. QED
  BY <1>0, <1>1, <1>2, <1>3, <1>6, <1>7, FilesQuiet DEF FileTypes

LEMMA OpenDestinationFiles ==
  ASSUME FilesInv, NEW r \in CopyRuns, Files!OpenDestination(r)
  PROVE  FilesInv'
<1>0. FileTypes /\ RunOk(r) /\ (program = Files!copy => Alone)
  BY DEF FilesInv
<1>1. UNCHANGED <<program, units, Stored, source, offset, buffer>> /\ destination'.exists
  BY <1>0 DEF Files!OpenDestination, Files!progress, units, Stored, FileTypes
<1>2. /\ at[r] = "openDestination"
      /\ at' = [at EXCEPT ![r] = IF program.exclusive THEN "first" ELSE "openSource"]
      /\ program.exclusive => ~destination.exists
  BY DEF Files!OpenDestination, Files!Goto
<1>3. FileTypes'
  <2>1. destination' \in [exists : BOOLEAN, units : Seq(CopyRuns \X Nat \X Nat)]
    BY <1>0 DEF Files!OpenDestination, FileTypes
  <2>. QED
    BY <1>0, <1>1, <1>2, <2>1 DEF FileTypes, Files!Places
<1>4. Behind(r)' = Behind(r) /\ Files!Units(r)' = Files!Units(r)
  BY <1>0, <1>1, <1>2 DEF FileTypes, Behind, Put, Files!Units
<1>5. RunOk(r)'
  BY <1>0, <1>1, <1>2, <1>4 DEF FileTypes, RunOk, Files!Places
<1>6. ASSUME program = Files!copy PROVE Alone'
  <2>1. program.exclusive
    BY <1>0, <1>6, Sources DEF FileTypes
  <2>2. units' = << >> /\ destination'.exists
    BY <1>0, <1>1, <1>2, <1>6, <2>1 DEF Alone
  <2>3. \A q \in CopyRuns : at[q] \notin Copying
    BY <1>0, <1>2, <1>6, <2>1 DEF Alone
  <2>4. \A q \in CopyRuns : at'[q] \in Copying => q = r
    BY <1>0, <1>2, <2>3 DEF FileTypes
  <2>5. \A i \in DOMAIN units' : FALSE
    BY <2>2
  <2>. QED
    BY <2>2, <2>4, <2>5 DEF Alone
<1>. QED
  BY <1>0, <1>1, <1>2, <1>3, <1>5, <1>6, FilesQuiet DEF FileTypes

\* The end of a run that has not succeeded.
LEMMA FailingFiles ==
  ASSUME FilesInv, NEW r \in CopyRuns, at' = [at EXCEPT ![r] = "failed"],
         UNCHANGED <<program, source, offset, buffer, destination>>
  PROVE  FilesInv'
<1>0. FileTypes /\ RunOk(r) /\ (program = Files!copy => Alone)
  BY DEF FilesInv
<1>1. UNCHANGED <<units, Stored>>
  BY DEF units, Stored
<1>2. FileTypes'
  BY <1>0 DEF FileTypes
<1>3. RunOk(r)'
  BY <1>0 DEF FileTypes, RunOk, Files!Places
<1>4. \A q \in CopyRuns : at'[q] \in Copying => at[q] \in Copying
  BY <1>0 DEF FileTypes, Copying
<1>5. program = Files!copy => Alone'
  BY <1>0, <1>1, <1>4 DEF Alone
<1>. QED
  BY <1>0, <1>1, <1>2, <1>3, <1>5, FilesQuiet DEF FileTypes

LEMMA ReadFiles ==
  ASSUME FilesInv, NEW r \in CopyRuns, Files!Read(r)
  PROVE  FilesInv'
<1>0. FileTypes /\ RunOk(r) /\ (program = Files!copy => Alone)
  BY DEF FilesInv
<1>1. UNCHANGED <<program, units, Stored, source, destination>>
  BY DEF Files!Read, units, Stored
<1>2. /\ at[r] \in {"first", "read"}
      /\ at' = [at EXCEPT ![r] = "write"]
  BY DEF Files!Read, Files!Goto
<1>3. PICK n \in 1 .. CHUNK_SIZE :
        /\ offset[r] + n <= program.sources[source[r]]
        /\ buffer' = [buffer EXCEPT ![r] = n]
        /\ offset' = [offset EXCEPT ![r] = @ + n]
  BY DEF Files!Read, Files!Length
<1>4. n \in Nat \ {0} /\ offset[r] \in Nat /\ offset[r] + n \in Nat
  BY <1>0, PipeAssumption DEF Files!FilesAssumption, FileTypes
<1>5. FileTypes'
  BY <1>0, <1>1, <1>2, <1>3, <1>4 DEF FileTypes, Files!Places
<1>6. offset'[r] = offset[r] + n /\ buffer'[r] = n /\ at'[r] = "write"
  BY <1>0, <1>2, <1>3 DEF FileTypes
<1>7. Put(r)' = Put(r)
  BY <1>2, <1>4, <1>6 DEF Put
<1>8. Behind(r)' = Behind(r) /\ Files!Units(r)' = Files!Units(r)
  BY <1>1, <1>7 DEF Behind, Files!Units
<1>9. buffer'[r] \in 1 .. offset'[r]
  BY <1>4, <1>6
<1>10. RunOk(r)'
  BY <1>0, <1>1, <1>2, <1>3, <1>6, <1>8, <1>9 DEF RunOk, Files!Places
<1>11. \A q \in CopyRuns : at'[q] \in Copying <=> at[q] \in Copying
  BY <1>0, <1>2 DEF FileTypes, Copying
<1>12. program = Files!copy => Alone'
  BY <1>0, <1>1, <1>11 DEF Alone
<1>. QED
  BY <1>0, <1>1, <1>2, <1>3, <1>5, <1>10, <1>12, FilesQuiet DEF FileTypes

\* A unit of the sources by its parts.
LEMMA UnitParts ==
  ASSUME program \in {Files!copy, Files!catFiles}, NEW r, NEW u \in Files!Units(r)
  PROVE  /\ u = <<r, u[2], u[3]>> /\ u[1] = r
         /\ u[2] \in 1 .. Len(program.sources) /\ u[2] \in DOMAIN program.sources
         /\ u[3] \in 1 .. program.sources[u[2]]
         /\ program.sources[u[2]] \in Nat
<1>1. PICK s \in DOMAIN program.sources : \E i \in 1 .. program.sources[s] : u = <<r, s, i>>
  BY UnitIs
<1>. QED
  BY <1>1, Sources

LEMMA ReadEOFFiles ==
  ASSUME FilesInv, NEW r \in CopyRuns, Files!ReadEOF(r)
  PROVE  FilesInv'
<1>0. FileTypes /\ RunOk(r) /\ (program = Files!copy => Alone)
  BY DEF FilesInv
<1>1. UNCHANGED <<program, units, Stored, buffer, destination>>
  BY DEF Files!ReadEOF, units, Stored
<1>2. /\ at[r] \in {"first", "read"} /\ at[r] \in Files!Places
      /\ offset[r] = program.sources[source[r]]
      /\ source[r] \in 1 .. Len(program.sources) /\ source[r] \in Nat
      /\ Len(program.sources) \in {1, 2}
      /\ DOMAIN program.sources = 1 .. Len(program.sources)
  BY <1>0, Sources DEF Files!ReadEOF, Files!Length, RunOk, FileTypes, Files!Places
<1>3. Files!Units(r) \cap Stored = Behind(r) /\ Put(r) = program.sources[source[r]]
  BY <1>0, <1>2, Sources DEF RunOk, Put, FileTypes
<1>4. CASE source[r] < Len(program.sources)
  <2>1. /\ source' = [source EXCEPT ![r] = @ + 1] /\ offset' = [offset EXCEPT ![r] = 0]
        /\ at' = [at EXCEPT ![r] = "openSource"]
    BY <1>4 DEF Files!ReadEOF, Files!Goto
  <2>2. FileTypes'
    BY <1>0, <1>1, <1>2, <2>1 DEF FileTypes, Files!Places
  <2>3. /\ source'[r] = source[r] + 1 /\ offset'[r] = 0 /\ at'[r] = "openSource"
        /\ source'[r] \in DOMAIN program.sources /\ Put(r)' = 0
    BY <1>0, <1>2, <1>4, <2>1 DEF FileTypes, Put
  <2>4. Files!Units(r)' = Files!Units(r)
    BY <1>1 DEF Files!Units
  <2>5. ASSUME NEW u \in Files!Units(r)
        PROVE  (u[2] < source[r] \/ (u[2] = source[r] /\ u[3] <= Put(r)))
                 <=> (u[2] < source[r] + 1 \/ (u[2] = source[r] + 1 /\ u[3] <= 0))
    <3>1. /\ u[2] \in Nat /\ u[3] \in 1 .. program.sources[u[2]]
          /\ program.sources[u[2]] \in Nat
      BY <1>0, UnitParts DEF FileTypes
    <3>. QED
      BY <1>2, <1>3, <3>1
  <2>6. Behind(r)' = Behind(r)
    BY <2>3, <2>4, <2>5 DEF Behind
  <2>7. program.sources[source'[r]] \in Nat
    BY <1>0, <2>3, Sources DEF FileTypes
  <2>8. RunOk(r)'
    BY <1>1, <1>3, <2>3, <2>4, <2>6, <2>7 DEF RunOk
  <2>9. \A q \in CopyRuns : at'[q] \in Copying => at[q] \in Copying
    BY <1>0, <2>1 DEF FileTypes, Copying
  <2>10. program = Files!copy => Alone'
    BY <1>0, <1>1, <2>9 DEF Alone
  <2>. QED
    BY <1>0, <1>1, <2>1, <2>2, <2>8, <2>10, FilesQuiet DEF FileTypes
<1>5. CASE ~(source[r] < Len(program.sources))
  <2>1. at' = [at EXCEPT ![r] = "succeeded"] /\ UNCHANGED <<source, offset>>
    BY <1>5 DEF Files!ReadEOF, Files!Goto, Files!progress
  <2>2. FileTypes'
    BY <1>0, <1>1, <2>1 DEF FileTypes
  <2>3. Files!Units(r)' = Files!Units(r)
    BY <1>1 DEF Files!Units
  <2>4. Files!Units(r) \subseteq Stored
    <3> SUFFICES ASSUME NEW u \in Files!Units(r) PROVE u \in Behind(r)
      BY <1>3
    <3>1. u[2] \in 1 .. Len(program.sources) /\ u[3] \in 1 .. program.sources[u[2]]
          /\ program.sources[u[2]] \in Nat
      BY <1>0, UnitParts DEF FileTypes
    <3>2. u[2] < source[r] \/ (u[2] = source[r] /\ u[3] <= Put(r))
      BY <1>2, <1>3, <1>5, <3>1
    <3>. QED
      BY <3>2 DEF Behind
  <2>5. RunOk(r)'
    BY <1>0, <1>1, <2>1, <2>3, <2>4 DEF FileTypes, RunOk, Files!Places
  <2>6. \A q \in CopyRuns : at'[q] \in Copying => at[q] \in Copying
    BY <1>0, <2>1 DEF FileTypes, Copying
  <2>7. program = Files!copy => Alone'
    BY <1>0, <1>1, <2>6 DEF Alone
  <2>. QED
    BY <1>0, <1>1, <2>1, <2>2, <2>5, <2>7, FilesQuiet DEF FileTypes
<1>. QED
  BY <1>4, <1>5

LEMMA ReadFailsFiles ==
  ASSUME FilesInv, NEW r \in CopyRuns, Files!ReadFails(r)
  PROVE  FilesInv'
<1>0. FileTypes /\ RunOk(r) /\ (program = Files!copy => Alone)
  BY DEF FilesInv
<1>1. UNCHANGED <<program, units, Stored, source, offset, buffer, destination>>
  BY DEF Files!ReadFails, Files!progress, units, Stored
<1>2. CASE at[r] = "first" /\ ~program.checksFirst
  <2>1. at' = [at EXCEPT ![r] = "succeeded"]
    BY <1>2 DEF Files!ReadFails, Files!Goto
  <2>2. FileTypes'
    BY <1>0, <1>1, <2>1 DEF FileTypes
  <2>3. Files!Units(r)' = Files!Units(r)
    BY <1>1 DEF Files!Units
  <2>4. /\ program = Files!copy /\ offset[r] = 0 /\ source[r] = 1 /\ Put(r) = 0
        /\ Files!Units(r) \cap Stored = Behind(r)
    BY <1>0, <1>2, Sources DEF FileTypes, RunOk, Files!Places, Put
  <2>5. Behind(r) = {}
    <3> SUFFICES ASSUME NEW u \in Behind(r) PROVE FALSE
      OBVIOUS
    <3>1. u \in Files!Units(r) /\ (u[2] < 1 \/ u[3] <= 0)
      BY <2>4 DEF Behind
    <3>2. u[2] \in 1 .. Len(program.sources) /\ u[3] \in 1 .. program.sources[u[2]]
          /\ program.sources[u[2]] \in Nat /\ Len(program.sources) \in Nat
      BY <1>0, <3>1, UnitParts, Sources DEF FileTypes
    <3>. QED
      BY <3>1, <3>2
  <2>6. RunOk(r)'
    BY <1>0, <1>1, <2>1, <2>3, <2>4, <2>5 DEF FileTypes, RunOk, Files!Places
  <2>7. \A q \in CopyRuns : at'[q] \in Copying => at[q] \in Copying
    BY <1>0, <2>1 DEF FileTypes, Copying
  <2>8. program = Files!copy => Alone'
    BY <1>0, <1>1, <2>7 DEF Alone
  <2>. QED
    BY <1>0, <1>1, <2>1, <2>2, <2>6, <2>8, FilesQuiet DEF FileTypes
<1>3. CASE ~(at[r] = "first" /\ ~program.checksFirst)
  <2>1. at' = [at EXCEPT ![r] = "failed"]
    BY <1>3 DEF Files!ReadFails, Files!Goto
  <2>. QED
    BY <1>1, <2>1, FailingFiles
<1>. QED
  BY <1>2, <1>3

\* What a write() of n units adds.
LEMMA WriteOrder ==
  ASSUME FileTypes, InOrder, NEW r \in CopyRuns, RunOk(r), at[r] = "write",
         NEW n \in 0 .. buffer[r], Files!WriteUnits(r, n), UNCHANGED program
  PROVE  /\ InOrder'
         /\ Stored' = Stored \cup {<<r, source[r], Put(r) + i>> : i \in 1 .. n}
         /\ units' \in Seq(CopyRuns \X Nat \X Nat)
         /\ \A i \in DOMAIN units' : (i \in DOMAIN units /\ units'[i] = units[i]) \/ units'[i][1] = r
         /\ units # << >> => units'[1] = units[1]
         /\ destination' = [exists |-> destination.exists, units |-> units']
<1>1. /\ source[r] \in DOMAIN program.sources /\ source[r] \in Nat
      /\ offset[r] \in Nat /\ buffer[r] \in Nat /\ n \in Nat /\ Put(r) \in Nat
      /\ Put(r) + buffer[r] = offset[r] /\ n <= buffer[r]
      /\ offset[r] <= program.sources[source[r]]
      /\ Files!Units(r) \cap Stored = Behind(r)
  BY DEF RunOk, FileTypes, Put, Files!Places
<1>2. DEFINE more == Files!Taken(r, n)
             m == Len(units)
<1>3. /\ more = [i \in 1 .. n |-> <<r, source[r], Put(r) + i>>]
  BY <1>1 DEF Files!Taken, Put
<1>4. /\ more \in Seq(CopyRuns \X Nat \X Nat) /\ Len(more) = n
  <2>1. \A i \in 1 .. n : <<r, source[r], Put(r) + i>> \in CopyRuns \X Nat \X Nat
    BY <1>1
  <2>. QED
    BY <1>1, <1>3, <2>1, LenProperties, IsASeq
<1>5. units \in Seq(CopyRuns \X Nat \X Nat) /\ m \in Nat /\ DOMAIN units = 1 .. m
  BY LenProperties DEF FileTypes, units
<1>6. units' = units \o more /\ destination' = [exists |-> destination.exists, units |-> units']
  BY DEF Files!WriteUnits, FileTypes, units
<1>7. /\ units' \in Seq(CopyRuns \X Nat \X Nat) /\ DOMAIN units' = 1 .. m + n
      /\ \A i \in 1 .. m : units'[i] = units[i]
      /\ \A i \in 1 .. n : units'[m + i] = <<r, source[r], Put(r) + i>>
  <2> HIDE DEF more, m
  <2>1. DOMAIN (units \o more) = 1 .. m + n
    <3>1. Len(units \o more) = m + n /\ units \o more \in Seq(CopyRuns \X Nat \X Nat)
      BY <1>4, <1>5, ConcatProperties DEF m
    <3>. QED
      BY <3>1, LenProperties
  <2>2. \A i \in 1 .. m : (units \o more)[i] = units[i]
    BY <1>4, <1>5, ConcatProperties DEF m
  <2>3. \A i \in 1 .. n : (units \o more)[m + i] = more[i]
    BY <1>1, <1>4, <1>5, ConcatProperties DEF m
  <2>. QED
    BY <1>3, <1>4, <1>5, <1>6, <2>1, <2>2, <2>3, ConcatProperties
<1> HIDE DEF more, m
<1>8. \A i \in 1 .. m + n : i \in 1 .. m \/ \E k \in 1 .. n : i = m + k
  <2>1. \A i \in 1 .. m + n : i <= m \/ (i - m \in 1 .. n /\ i = m + (i - m))
    BY <1>1, <1>5
  <2>. QED
    BY <1>1, <1>5, <2>1
<1>9. \A i \in 1 .. n : <<r, source[r], Put(r) + i>> \in Files!Units(r)
  <2> SUFFICES ASSUME NEW i \in 1 .. n PROVE <<r, source[r], Put(r) + i>> \in Files!Units(r)
    OBVIOUS
  <2>1. program.sources[source[r]] \in Nat
    BY <1>1, Sources DEF FileTypes
  <2>2. Put(r) + i \in 1 .. program.sources[source[r]]
    BY <1>1, <2>1
  <2>. QED
    BY <1>1, <2>2, UnitIs DEF FileTypes
<1>10. InOrder'
  <2>1. \A q : Files!Units(q)' = Files!Units(q)
    BY DEF Files!Units
  <2> SUFFICES ASSUME NEW i \in DOMAIN units'
               PROVE  /\ units'[i] \in Files!Units(units'[i][1])
                      /\ \A u \in Files!Units(units'[i][1]) :
                           Files!Before(u, units'[i])
                             <=> \E j \in DOMAIN units' : j < i /\ units'[j] = u
    BY <2>1 DEF InOrder, Files!Before
  <2>2. CASE i \in 1 .. m
    <3>1. units'[i] = units[i] /\ i \in DOMAIN units
      BY <1>5, <1>7, <2>2
    <3>2. \A j \in 1 .. m + n : j < i => j \in 1 .. m
      BY <1>1, <1>5, <2>2
    <3>3. \A j \in 1 .. m : j \in 1 .. m + n
      BY <1>1, <1>5
    <3>4. DOMAIN units' = 1 .. m + n /\ DOMAIN units = 1 .. m
          /\ \A j \in 1 .. m : units'[j] = units[j]
      BY <1>5, <1>7
    <3>5. \A u : (\E j \in DOMAIN units' : j < i /\ units'[j] = u)
                    <=> (\E j \in DOMAIN units : j < i /\ units[j] = u)
      BY <3>2, <3>3, <3>4
    <3>. QED
      BY <3>1, <3>5 DEF InOrder
  <2>3. ASSUME NEW k \in 1 .. n, i = m + k
        PROVE  /\ units'[i] \in Files!Units(units'[i][1])
               /\ \A u \in Files!Units(units'[i][1]) :
                    Files!Before(u, units'[i])
                      <=> \E j \in DOMAIN units' : j < i /\ units'[j] = u
    <3>1. units'[i] = <<r, source[r], Put(r) + k>> /\ units'[i][1] = r
      BY <1>7, <2>3
    <3>2. ASSUME NEW u \in Files!Units(r)
          PROVE  Files!Before(u, units'[i]) <=> \E j \in DOMAIN units' : j < i /\ units'[j] = u
      <4>1. u = <<r, u[2], u[3]>> /\ u[2] \in Nat /\ u[3] \in Nat
        <5>1. Len(program.sources) \in Nat
          BY Sources DEF FileTypes
        <5>. QED
          BY <5>1, UnitParts DEF FileTypes
      <4>2. Files!Before(u, units'[i])
              <=> u \in Behind(r) \/ \E l \in 1 .. n : l < k /\ u = <<r, source[r], Put(r) + l>>
        <5>1. Files!Before(u, units'[i])
                <=> u[2] < source[r] \/ (u[2] = source[r] /\ u[3] < Put(r) + k)
          BY <3>1 DEF Files!Before
        <5>2. u \in Behind(r) <=> u[2] < source[r] \/ (u[2] = source[r] /\ u[3] <= Put(r))
          BY DEF Behind
        <5>3. (\E l \in 1 .. n : l < k /\ u = <<r, source[r], Put(r) + l>>)
                <=> u[2] = source[r] /\ \E l \in 1 .. n : l < k /\ u[3] = Put(r) + l
          BY <4>1
        <5>4. (\E l \in 1 .. n : l < k /\ u[3] = Put(r) + l)
                <=> u[3] > Put(r) /\ u[3] < Put(r) + k
          <6>1. u[3] > Put(r) /\ u[3] < Put(r) + k
                  => u[3] - Put(r) \in 1 .. n /\ u[3] - Put(r) < k
                     /\ u[3] = Put(r) + (u[3] - Put(r))
            BY <1>1, <4>1
          <6>. QED
            BY <1>1, <4>1, <6>1
        <5>5. u[3] < Put(r) + k <=> u[3] <= Put(r) \/ (u[3] > Put(r) /\ u[3] < Put(r) + k)
          BY <1>1, <4>1
        <5>. QED
          BY <5>1, <5>2, <5>3, <5>4, <5>5
      <4>3. u \in Behind(r) <=> \E j \in 1 .. m : units'[j] = u
        BY <1>1, <1>5, <1>7 DEF Stored
      <4>4. (\E l \in 1 .. n : l < k /\ u = <<r, source[r], Put(r) + l>>)
              <=> \E l \in 1 .. n : l < k /\ units'[m + l] = u
        BY <1>7
      <4>5. \A j \in 1 .. m : j < i /\ j \in 1 .. m + n
        BY <1>1, <1>5, <2>3
      <4>6. \A l \in 1 .. n : m + l \in 1 .. m + n /\ (m + l < i <=> l < k)
        BY <1>1, <1>5, <2>3
      <4>. QED
        BY <1>7, <1>8, <4>2, <4>3, <4>4, <4>5, <4>6
    <3>. QED
      BY <1>9, <3>1, <3>2
  <2>. QED
    BY <1>7, <1>8, <2>2, <2>3
<1>11. Stored' = Stored \cup {<<r, source[r], Put(r) + i>> : i \in 1 .. n}
  <2>1. \A i \in 1 .. m : i \in 1 .. m + n
    BY <1>1, <1>5
  <2>2. \A i \in 1 .. n : m + i \in 1 .. m + n
    BY <1>1, <1>5
  <2>3. Stored' = {units'[i] : i \in 1 .. m + n} /\ Stored = {units[i] : i \in 1 .. m}
    BY <1>5, <1>7 DEF Stored
  <2>4. {units'[i] : i \in 1 .. m + n}
          = {units'[i] : i \in 1 .. m} \cup {units'[m + i] : i \in 1 .. n}
    BY <1>8, <2>1, <2>2
  <2>5. {units'[i] : i \in 1 .. m} = {units[i] : i \in 1 .. m}
    BY <1>7
  <2>6. {units'[m + i] : i \in 1 .. n} = {<<r, source[r], Put(r) + i>> : i \in 1 .. n}
    BY <1>7
  <2>. QED
    BY <2>3, <2>4, <2>5, <2>6
<1>12. \A i \in DOMAIN units' : (i \in DOMAIN units /\ units'[i] = units[i]) \/ units'[i][1] = r
  <2> SUFFICES ASSUME NEW i \in 1 .. m + n
               PROVE  (i \in DOMAIN units /\ units'[i] = units[i]) \/ units'[i][1] = r
    BY <1>7
  <2>1. CASE i \in 1 .. m
    BY <1>5, <1>7, <2>1
  <2>2. CASE \E k \in 1 .. n : i = m + k
    <3>1. PICK k \in 1 .. n : i = m + k
      BY <2>2
    <3>2. units'[i] = <<r, source[r], Put(r) + k>>
      BY <1>7, <3>1
    <3>. QED
      BY <3>2
  <2>. QED
    BY <1>8, <2>1, <2>2
<1>13. units # << >> => units'[1] = units[1]
  <2>1. units # << >> => 1 \in 1 .. m
    BY <1>5, EmptySeq DEF m
  <2>. QED
    BY <1>7, <2>1
<1>. QED
  BY <1>6, <1>7, <1>10, <1>11, <1>12, <1>13

\* A write(), of the whole buffer or of less, after which the run has failed.
LEMMA WriteFiles ==
  ASSUME FilesInv, NEW r \in CopyRuns, at[r] = "write",
         NEW n \in 0 .. buffer[r], Files!WriteUnits(r, n),
         NEW place \in {"read", "failed"}, place = "read" => n = buffer[r],
         at' = [at EXCEPT ![r] = place],
         UNCHANGED <<program, source, offset, buffer>>
  PROVE  FilesInv'
<1>0. FileTypes /\ InOrder /\ RunOk(r) /\ (program = Files!copy => Alone)
  BY DEF FilesInv
<1>1. /\ InOrder'
      /\ Stored' = Stored \cup {<<r, source[r], Put(r) + i>> : i \in 1 .. n}
      /\ units' \in Seq(CopyRuns \X Nat \X Nat)
      /\ \A i \in DOMAIN units' : (i \in DOMAIN units /\ units'[i] = units[i]) \/ units'[i][1] = r
      /\ units # << >> => units'[1] = units[1]
      /\ destination' = [exists |-> destination.exists, units |-> units']
  BY <1>0, WriteOrder
<1>2. FileTypes'
  <2>1. destination.exists \in BOOLEAN
    BY <1>0 DEF FileTypes
  <2>2. destination' \in [exists : BOOLEAN, units : Seq(CopyRuns \X Nat \X Nat)]
    BY <1>1, <2>1
  <2>. QED
    BY <1>0, <2>2 DEF FileTypes, Files!Places
<1>3. ASSUME NEW q \in CopyRuns \ {r} PROVE RunOk(q)'
  <2>1. \A u \in Files!Units(q) : u[1] = q
    BY <1>0, UnitParts DEF FileTypes
  <2>2. Files!Units(q) \cap Stored' = Files!Units(q) \cap Stored
    BY <1>1, <2>1
  <2>3. at'[q] = at[q]
    BY <1>0 DEF FileTypes
  <2>. QED
    BY <2>2, <2>3, RunSame DEF FilesInv
<1>4. RunOk(r)'
  <2>1. /\ source[r] \in Nat /\ offset[r] \in Nat /\ buffer[r] \in Nat /\ n \in Nat
        /\ Put(r) \in Nat /\ Put(r) + buffer[r] = offset[r] /\ n <= buffer[r]
        /\ offset[r] <= program.sources[source[r]] /\ source[r] \in DOMAIN program.sources
        /\ Files!Units(r) \cap Stored = Behind(r)
    BY <1>0 DEF RunOk, FileTypes, Put, Files!Places
  <2>2. Files!Units(r)' = Files!Units(r) /\ at'[r] = place
    BY <1>0 DEF Files!Units, FileTypes
  <2>3. ASSUME place = "read" PROVE (Files!Units(r) \cap Stored)' = Behind(r)'
    <3>1. Put(r)' = offset[r]
      BY <2>1, <2>2, <2>3 DEF Put
    <3> SUFFICES ASSUME NEW u \in Files!Units(r)
                 PROVE  u \in Stored' <=>
                          u[2] < source[r] \/ (u[2] = source[r] /\ u[3] <= offset[r])
      BY <2>2, <3>1 DEF Behind
    <3>2. u = <<r, u[2], u[3]>> /\ u[2] \in Nat /\ u[3] \in Nat
      <4>1. Len(program.sources) \in Nat
        BY <1>0, Sources DEF FileTypes
      <4>. QED
        BY <1>0, <4>1, UnitParts DEF FileTypes
    <3>3. u \in Stored <=> u[2] < source[r] \/ (u[2] = source[r] /\ u[3] <= Put(r))
      BY <2>1 DEF Behind
    <3>4. u \in {<<r, source[r], Put(r) + i>> : i \in 1 .. n}
            <=> u[2] = source[r] /\ \E i \in 1 .. n : u[3] = Put(r) + i
      BY <3>2
    <3>5. (\E i \in 1 .. n : u[3] = Put(r) + i) <=> u[3] > Put(r) /\ u[3] <= offset[r]
      <4>1. n = buffer[r]
        BY <2>3
      <4>2. u[3] > Put(r) /\ u[3] <= offset[r]
              => u[3] - Put(r) \in 1 .. n /\ u[3] = Put(r) + (u[3] - Put(r))
        BY <2>1, <3>2, <4>1
      <4>3. ASSUME NEW i \in 1 .. n, u[3] = Put(r) + i PROVE u[3] > Put(r) /\ u[3] <= offset[r]
        BY <2>1, <3>2, <4>1, <4>3
      <4>. QED
        BY <4>2, <4>3
    <3>6. u[3] <= offset[r] <=> u[3] <= Put(r) \/ (u[3] > Put(r) /\ u[3] <= offset[r])
      BY <2>1, <3>2
    <3>. QED
      BY <1>1, <3>3, <3>4, <3>5, <3>6
  <2>. QED
    BY <2>1, <2>2, <2>3 DEF RunOk, Files!Places
<1>5. ASSUME program = Files!copy PROVE Alone'
  <2>1. /\ destination.exists /\ \A i \in DOMAIN units : units[i][1] = r
        /\ \A q \in CopyRuns : at[q] \in Copying => q = r
    BY <1>0, <1>5 DEF Alone, Copying
  <2>2. \A i \in DOMAIN units' : units'[i][1] = r
    BY <1>1, <2>1
  <2>3. \A q \in CopyRuns : at'[q] \in Copying => q = r
    BY <1>0, <2>1 DEF FileTypes, Copying
  <2>4. \A i \in DOMAIN units' : 1 \in DOMAIN units'
    <3>1. DOMAIN units' = 1 .. Len(units') /\ Len(units') \in Nat
      BY <1>1, LenProperties
    <3>. QED
      BY <3>1
  <2>5. destination'.exists
    BY <1>1, <2>1
  <2>. QED
    BY <2>2, <2>3, <2>4, <2>5 DEF Alone
<1>. QED
  BY <1>0, <1>1, <1>2, <1>3, <1>4, <1>5 DEF FilesInv

LEMMA FilesStep ==
  ASSUME FilesInv, Files!Next
  PROVE  FilesInv'
<1>1. PICK r \in CopyRuns : Files!Step(r) \/ Files!Killed(r)
  BY DEF Files!Next
<1>2. CASE Files!OpenFails(r) \/ Files!Killed(r)
  BY <1>2, FailingFiles DEF Files!OpenFails, Files!Killed, Files!Goto, Files!progress
<1>3. buffer[r] \in Nat /\ buffer[r] \in 0 .. buffer[r]
      /\ \A n \in 0 .. buffer[r] - 1 : n \in 0 .. buffer[r]
  BY DEF FilesInv, FileTypes
<1>4. CASE Files!Write(r)
  BY <1>3, <1>4, WriteFiles DEF Files!Write, Files!Goto, Files!progress
<1>5. CASE Files!WritePartly(r)
  BY <1>3, <1>5, WriteFiles DEF Files!WritePartly, Files!Goto, Files!progress
<1>. QED
  BY <1>1, <1>2, <1>4, <1>5, OpenSourceFiles, OpenDestinationFiles, ReadFiles, ReadEOFFiles,
     ReadFailsFiles DEF Files!Step

LEMMA FilesRight ==
  ASSUME FilesInv
  PROVE  Files!FilesTrue
<1>0. FileTypes /\ InOrder /\ (program = Files!copy => Alone)
  BY DEF FilesInv
<1> DEFINE Of(r) == {i \in DOMAIN units : units[i][1] = r}
<1>1. ASSUME NEW r \in CopyRuns, NEW u \in Files!Units(r)
      PROVE  u \in Stored <=> \E i \in Of(r) : units[i] = u
  <2>1. u[1] = r
    BY <1>0, <1>1, UnitParts DEF FileTypes
  <2>. QED
    BY <2>1 DEF Stored
<1>2. ASSUME NEW r \in CopyRuns, NEW i \in Of(r)
      PROVE  /\ units[i] \in Files!Units(r)
             /\ \A u \in Files!Units(r) :
                  Files!Before(u, units[i]) <=> \E j \in Of(r) : j < i /\ units[j] = u
  <2>1. \A u \in Files!Units(r) : u[1] = r
    BY <1>0, UnitParts DEF FileTypes
  <2>. QED
    BY <1>0, <2>1 DEF InOrder
<1>3. ASSUME NEW r \in CopyRuns, at[r] = "succeeded"
      PROVE  \/ \A u \in Files!Units(r) : \E i \in Of(r) : units[i] = u
             \/ program = Files!copy /\ offset[r] = 0 /\ Of(r) = {}
  <2>1. \/ Files!Units(r) \subseteq Stored
        \/ program = Files!copy /\ offset[r] = 0 /\ Files!Units(r) \cap Stored = {}
    BY <1>3 DEF FilesInv, RunOk
  <2>2. \A i \in Of(r) : units[i] \in Files!Units(r) \cap Stored
    BY <1>2 DEF Stored
  <2>. QED
    BY <1>1, <2>1, <2>2
<1>4. program = Files!copy => \A i \in DOMAIN units : units[i][1] = units[1][1]
  BY <1>0 DEF Alone
<1>. QED
  BY <1>2, <1>3, <1>4 DEF Files!FilesTrue, units

-----------------------------------------------------------------------------
(* FIFOs *)

FifoPlaces == {"unborn", "start", "mkfifo", "fork", "open", "write", "close", "wait", "read",
               "exit", "done", "killed"}
P(r) == <<r, 0>>
K(r) == <<r, 1>>
Records == Runs \X Nat

\* What a FIFO may be: who has met a partner has it open.
Kernel ==
    {f \in Fifos!Fifos(Fifos!Processes, Records) : f.met \subseteq f.readers \cup f.writers}
FifoTypes ==
    /\ group \in Fifos!Groups
    /\ \A r \in Runs : program[P(r)] \in group /\ program[K(r)] = Fifos!numberSumChild
    /\ at \in [Fifos!Processes -> FifoPlaces]
    /\ path \in Runs \cup {None}
    /\ fifo \in [Runs -> Kernel]
    /\ fd \in [Fifos!Processes -> Runs \cup {None}]
    /\ written \in [Fifos!Processes -> Nat]
    /\ read \in [Fifos!Processes -> Seq(Records)]

\* A run of FifoNumberSum, its child and their FIFO.
Numbered(r, n) == [i \in 1 .. n |-> <<r, i>>]
SumPlaces(r) ==
    /\ at[P(r)] \in FifoPlaces \ {"unborn", "read", "killed"}
    /\ at[K(r)] \in {"unborn", "open", "read", "exit", "done"}
    /\ at[P(r)] \in {"start", "mkfifo", "fork"} => at[K(r)] = "unborn"
    /\ at[K(r)] \in {"open", "read", "exit"} => at[P(r)] \in {"open", "write", "close", "wait"}
    /\ at[P(r)] \in {"open", "write", "close", "wait"} => at[K(r)] # "unborn"
    /\ at[P(r)] = "close" => at[K(r)] = "read"
    /\ at[K(r)] \in {"exit", "done"} => at[P(r)] \in {"wait", "exit", "done"}
    /\ at[P(r)] = "wait" => at[K(r)] # "open"
SumEnds(r) ==
    /\ at[P(r)] \in {"fork", "open"} \/ at[K(r)] = "open" => path = r
    /\ fd[P(r)] = (IF at[P(r)] \in {"write", "close"} THEN r ELSE None)
    /\ fd[K(r)] = (IF at[K(r)] \in {"read", "exit"} THEN r ELSE None)
    /\ fifo[r].writers = (IF at[P(r)] \in {"write", "close"} THEN {P(r)} ELSE {})
    /\ fifo[r].readers = (IF at[K(r)] \in {"read", "exit"} THEN {K(r)} ELSE {})
    /\ P(r) \in fifo[r].met /\ at[P(r)] = "write" => at[K(r)] = "read"
    /\ K(r) \in fifo[r].met => at[P(r)] \in {"write", "close", "wait"}
SumData(r) ==
    /\ at[P(r)] \in {"start", "mkfifo", "fork", "open"} => written[P(r)] = 0
    /\ at[P(r)] = "write" => written[P(r)] < Numbers
    /\ at[P(r)] \in {"close", "wait"} => written[P(r)] = Numbers
    /\ at[K(r)] \in {"exit", "done"} => written[P(r)] = Numbers /\ fifo[r].data = << >>
    /\ read[K(r)] \o fifo[r].data = Numbered(r, written[P(r)])
SumRun(r) == SumPlaces(r) /\ SumEnds(r) /\ SumData(r)

\* The writers and readers of class7/review, and the FIFO of the run f.
IsWriter(e) == program[e] = Fifos!fifoCreateAndWrite
RelayRun(r) ==
    /\ at[K(r)] = "unborn" /\ fd[K(r)] = None
    /\ IsWriter(P(r)) =>
        /\ at[P(r)] \in {"start", "mkfifo", "open", "write", "close", "exit", "done"}
        /\ at[P(r)] = "open" => path = r
        /\ fd[P(r)] = (IF at[P(r)] \in {"write", "close"} THEN r ELSE None)
    /\ ~IsWriter(P(r)) =>
        /\ at[P(r)] \in {"start", "open", "read", "exit", "done"}
        /\ at[P(r)] = "read" => fd[P(r)] # None
        /\ at[P(r)] \in {"start", "open", "done"} => fd[P(r)] = None
\* Its writer has called mkfifo().
Tried(f) == IsWriter(P(f)) /\ at[P(f)] \notin {"start", "mkfifo"}
ReadersOf(f) == {e \in Fifos!Processes : ~IsWriter(e) /\ fd[e] = f}
\* A record waits for a reader that is still to read; none left early.
Awaited(f) ==
    /\ at[P(f)] = "write" /\ P(f) \in fifo[f].met => ReadersOf(f) # {}
    /\ fifo[f].data # << >> => ReadersOf(f) # {} /\ at[P(f)] \notin {"open", "write"}
    /\ Len(fifo[f].data) <= 1
    /\ at[P(f)] \in {"open", "write"} \/ fifo[f].data # << >> =>
        \A e \in ReadersOf(f) : at[e] = "read"
    /\ \A e \in ReadersOf(f) : e \in fifo[f].met => at[P(f)] # "open"
RelayFifo(f) ==
    /\ fifo[f].readers = ReadersOf(f)
    /\ fifo[f].writers =
        (IF IsWriter(P(f)) /\ at[P(f)] \in {"write", "close"} THEN {P(f)} ELSE {})
    /\ IF Tried(f) THEN Awaited(f)
       ELSE path # f /\ ReadersOf(f) = {} /\ fifo[f].data = << >>

FifoInv ==
    /\ FifoTypes
    /\ Fifos!Undisturbed =>
        /\ group = {Fifos!FifoNumberSum} => \A r \in Runs : SumRun(r)
        /\ Fifos!fifoReader \in group =>
            /\ lost = {}
            /\ \A r \in Runs : RelayRun(r) /\ RelayFifo(r)

LEMMA FifoAssumed ==
  /\ Numbers \in Nat \ {0} /\ Interruptible \subseteq Runs /\ None \notin Runs
  /\ \A r \in Runs : P(r) \in Fifos!Processes /\ K(r) \in Fifos!Processes
  /\ \A e \in Fifos!Processes : e[1] \in Runs /\ (e = P(e[1]) \/ e = K(e[1]))
  /\ \A q, r \in Runs : P(q) # K(r) /\ (P(q) = P(r) => q = r) /\ (K(q) = K(r) => q = r)
<1>1. Numbers \in Nat \ {0} /\ Interruptible \subseteq Runs /\ None \notin Runs
  BY PipeAssumption DEF Fifos!FifoAssumption
<1>. QED
  BY <1>1 DEF P, K, Fifos!Processes

\* What the programs do.
LEMMA ProgramsDo ==
  /\ Fifos!FifoNumberSum.makes /\ Fifos!FifoNumberSum.mode = "w"
  /\ Fifos!FifoNumberSum.writes = Numbers /\ Fifos!FifoNumberSum.unlinks
  /\ Fifos!FifoNumberSum.forks
  /\ Fifos!numberSumChild.mode = "r" /\ Fifos!numberSumChild.writes = 0
  /\ Fifos!numberSumChild.readsAll /\ ~Fifos!numberSumChild.unlinks
  /\ Fifos!fifoCreateAndWrite.makes /\ Fifos!fifoCreateAndWrite.mode = "w"
  /\ Fifos!fifoCreateAndWrite.writes = 1 /\ ~Fifos!fifoCreateAndWrite.unlinks
  /\ ~Fifos!fifoCreateAndWrite.forks
  /\ ~Fifos!fifoReader.makes /\ Fifos!fifoReader.mode = "r" /\ Fifos!fifoReader.writes = 0
  /\ ~Fifos!fifoReader.readsAll /\ Fifos!fifoReader.unlinks
BY DEF Fifos!FifoNumberSum, Fifos!numberSumChild, Fifos!fifoCreateAndWrite, Fifos!fifoReader,
       Fifos!readFromFIFO, Fifos!createFifo

\* A run of the group that makes a FIFO of its own, and one of the group of class7/review.
LEMMA Group ==
  ASSUME FifoTypes
  PROVE  /\ group = {Fifos!FifoNumberSum} => \A r \in Runs : program[P(r)] = Fifos!FifoNumberSum
         /\ Fifos!fifoReader \in group => group # {Fifos!FifoNumberSum}
         /\ Fifos!fifoReader \in group =>
              \A r \in Runs : program[P(r)] \in {Fifos!fifoCreateAndWrite, Fifos!fifoReader}
         /\ Fifos!fifoReader # Fifos!fifoCreateAndWrite
         /\ \A r \in Runs : program[K(r)] = Fifos!numberSumChild
         /\ Fifos!numberSumChild # Fifos!fifoCreateAndWrite
<1>1. /\ Fifos!fifoReader.unlinks = TRUE /\ Fifos!createFifo.unlinks = FALSE
      /\ Fifos!writeToFIFO.unlinks = FALSE /\ Fifos!readFromFIFO.unlinks = FALSE
      /\ Fifos!fifoReader.forks = FALSE /\ Fifos!FifoNumberSum.forks = TRUE
      /\ Fifos!fifoReader.makes = FALSE /\ Fifos!fifoCreateAndWrite.makes = TRUE
      /\ Fifos!numberSumChild.makes = FALSE
  BY DEF Fifos!FifoNumberSum, Fifos!numberSumChild, Fifos!fifoCreateAndWrite, Fifos!fifoReader,
         Fifos!readFromFIFO, Fifos!createFifo, Fifos!writeToFIFO
<1>. QED
  BY <1>1 DEF FifoTypes, Fifos!Groups

-----------------------------------------------------------------------------
\* What the kernel does to a FIFO.
LEMMA OpenRead ==
  ASSUME NEW f \in Kernel, NEW e \in Fifos!Processes
  PROVE  LET g == Fifos!OpenForReading(f, e)
         IN  /\ g \in Kernel
             /\ g.readers = f.readers \cup {e} /\ g.writers = f.writers /\ g.data = f.data
             /\ g.met = IF f.writers = {} THEN f.met ELSE f.met \cup {e} \cup f.writers
BY DEF Fifos!OpenForReading, Kernel, Fifos!Fifos

LEMMA OpenWrite ==
  ASSUME NEW f \in Kernel, NEW e \in Fifos!Processes
  PROVE  LET g == Fifos!OpenForWriting(f, e)
         IN  /\ g \in Kernel
             /\ g.readers = f.readers /\ g.writers = f.writers \cup {e} /\ g.data = f.data
             /\ g.met = IF f.readers = {} THEN f.met ELSE f.met \cup {e} \cup f.readers
BY DEF Fifos!OpenForWriting, Kernel, Fifos!Fifos

LEMMA OpenAny ==
  ASSUME NEW f \in Kernel, NEW e \in Fifos!Processes, NEW mode
  PROVE  Fifos!OpenAs(f, e, mode) \in Kernel
<1> DEFINE reading == IF mode \in {"r", "rw"} THEN Fifos!OpenForReading(f, e) ELSE f
<1>1. reading \in Kernel
  BY OpenRead
<1>2. Fifos!OpenForWriting(reading, e) \in Kernel
  BY <1>1, OpenWrite
<1>3. Fifos!OpenAs(f, e, mode) \in {Fifos!OpenForWriting(reading, e), reading}
  BY DEF Fifos!OpenAs
<1>. QED
  BY <1>1, <1>2, <1>3

LEMMA PutOne ==
  ASSUME NEW f \in Kernel, NEW m \in Records
  PROVE  LET g == Fifos!Put(f, m)
         IN  /\ g \in Kernel
             /\ g.readers = f.readers /\ g.writers = f.writers /\ g.met = f.met
             /\ g.data = Append(f.data, m) /\ f.data \in Seq(Records)
<1>1. f.data \in Seq(Records)
  BY DEF Kernel, Fifos!Fifos
<1>2. Append(f.data, m) \in Seq(Records)
  BY <1>1, AppendProperties
<1>. QED
  BY <1>1, <1>2 DEF Fifos!Put, Kernel, Fifos!Fifos

LEMMA DropOne ==
  ASSUME NEW f \in Kernel, f.data # << >>
  PROVE  LET g == Fifos!Drop(f)
         IN  /\ g \in Kernel
             /\ g.readers = f.readers /\ g.writers = f.writers /\ g.met = f.met
             /\ g.data = Tail(f.data)
             /\ f.data \in Seq(Records) /\ Head(f.data) \in Records
<1>1. f.data \in Seq(Records)
  BY DEF Kernel, Fifos!Fifos
<1>2. Head(f.data) \in Records /\ Tail(f.data) \in Seq(Records)
  BY <1>1, HeadTailProperties
<1>. QED
  BY <1>1, <1>2 DEF Fifos!Drop, Kernel, Fifos!Fifos

LEMMA CloseOne ==
  ASSUME NEW f \in Kernel, NEW e \in Fifos!Processes
  PROVE  LET g == Fifos!CloseEnds(f, {e})
         IN  /\ g \in Kernel
             /\ g.readers = f.readers \ {e} /\ g.writers = f.writers \ {e}
             /\ g.met = f.met \ {e}
             /\ g.data = IF g.readers \cup g.writers = {} THEN << >> ELSE f.data
<1>1. << >> \in Seq(Records)
  BY EmptySeq
<1>. QED
  BY <1>1 DEF Fifos!CloseEnds, Kernel, Fifos!Fifos

\* What close() by a process changes.
LEMMA Closes ==
  ASSUME FifoTypes, NEW e \in Fifos!Processes, Fifos!Close(e)
  PROVE  /\ fifo' \in [Runs -> Kernel] /\ fd' = [fd EXCEPT ![e] = None]
         /\ fd' \in [Fifos!Processes -> Runs \cup {None}]
         /\ fd[e] = None => UNCHANGED <<fifo, fd, lost>>
         /\ \A f \in Runs : f # fd[e] => fifo'[f] = fifo[f]
         /\ fd[e] # None =>
              LET f == fifo[fd[e]]
                  g == fifo'[fd[e]]
              IN  /\ g.readers = f.readers \ {e} /\ g.writers = f.writers \ {e}
                  /\ g.met = f.met \ {e}
                  /\ g.data = IF g.readers \cup g.writers = {} THEN << >> ELSE f.data
                  /\ g.data = f.data => lost' = lost
<1>0. fd[e] \in Runs \cup {None} /\ None \notin Runs
  BY FifoAssumed DEF FifoTypes
<1>1. CASE fd[e] = None
  <2>1. UNCHANGED <<fifo, fd, lost>>
    BY <1>1 DEF Fifos!Close, Fifos!ends
  <2>. QED
    BY <1>1, <2>1 DEF FifoTypes
<1>2. CASE fd[e] # None
  <2> DEFINE g == Fifos!CloseEnds(fifo[fd[e]], {e})
  <2>1. fd[e] \in Runs /\ fifo[fd[e]] \in Kernel
    BY <1>0, <1>2 DEF FifoTypes
  <2>2. /\ fifo' = [fifo EXCEPT ![fd[e]] = g] /\ fd' = [fd EXCEPT ![e] = None]
        /\ lost' = lost \cup (Fifos!Range(fifo[fd[e]].data) \ Fifos!Range(fifo'[fd[e]].data))
    BY <1>2 DEF Fifos!Close
  <2>3. g \in Kernel
    BY <2>1, CloseOne
  <2>4. fifo'[fd[e]] = g
    BY <2>1, <2>2 DEF FifoTypes
  <2>5. fifo'[fd[e]].data = fifo[fd[e]].data => lost' = lost
    BY <2>2
  <2>6. fifo' \in [Runs -> Kernel] /\ \A f \in Runs : f # fd[e] => fifo'[f] = fifo[f]
    BY <2>1, <2>2, <2>3 DEF FifoTypes
  <2>7. fd' \in [Fifos!Processes -> Runs \cup {None}]
    BY <2>2 DEF FifoTypes
  <2>8. LET f == fifo[fd[e]]
        IN  /\ g.readers = f.readers \ {e} /\ g.writers = f.writers \ {e}
            /\ g.met = f.met \ {e}
            /\ g.data = IF g.readers \cup g.writers = {} THEN << >> ELSE f.data
    BY <2>1, CloseOne
  <2> HIDE DEF g
  <2>. QED
    BY <1>2, <2>2, <2>4, <2>5, <2>6, <2>7, <2>8
<1>. QED
  BY <1>1, <1>2

LEMMA FifoTypesInit ==
  ASSUME Fifos!Init
  PROVE  FifoTypes
<1>1. \A r \in Runs : program[P(r)] \in group /\ program[K(r)] = Fifos!numberSumChild
  <2>1. PICK chosen \in [Runs -> group] :
          program = [e \in Fifos!Processes |->
                       IF e[2] = 0 THEN chosen[e[1]] ELSE Fifos!numberSumChild]
    BY DEF Fifos!Init
  <2>2. \A r \in Runs : P(r)[1] = r /\ P(r)[2] = 0 /\ K(r)[2] = 1
    BY DEF P, K
  <2>. QED
    BY <2>1, <2>2, FifoAssumed
<1>2. Fifos!NewFifo \in Kernel
  BY EmptySeq DEF Fifos!NewFifo, Kernel, Fifos!Fifos
<1>. QED
  BY <1>1, <1>2, EmptySeq DEF Fifos!Init, FifoTypes, FifoPlaces

LEMMA FifoTypesStep ==
  ASSUME FifoTypes, NEW e \in Fifos!Processes,
         Fifos!Start(e) \/ Fifos!Step(e) \/ Fifos!Interrupt(e)
  PROVE  FifoTypes'
<1>0. /\ e[1] \in Runs /\ Fifos!Child(e) \in Fifos!Processes
      /\ fd[e] \in Runs \cup {None} /\ None \notin Runs
  BY FifoAssumed DEF FifoTypes, Fifos!Child, K
<1>1. CASE Fifos!Start(e) \/ Fifos!MkfifoFails(e) \/ Fifos!OpenFails(e) \/ Fifos!ForkFails(e)
           \/ Fifos!Wait(e) \/ Fifos!ReadEOF(e)
  BY <1>1 DEF FifoTypes, FifoPlaces, Fifos!Start, Fifos!MkfifoFails, Fifos!OpenFails,
     Fifos!ForkFails, Fifos!Wait, Fifos!ReadEOF, Fifos!Goto, Fifos!choice, Fifos!names,
     Fifos!ends, Fifos!records
<1>2. CASE Fifos!Mkfifo(e) \/ Fifos!Fork(e)
  BY <1>0, <1>2 DEF FifoTypes, FifoPlaces, Fifos!Mkfifo, Fifos!Fork, Fifos!Goto, Fifos!choice,
     Fifos!names, Fifos!ends, Fifos!records
<1>3. CASE Fifos!Open(e)
  <2>1. path \in Runs /\ fifo[path] \in Kernel
    BY <1>3 DEF FifoTypes, Fifos!Open
  <2>2. fifo' \in [Runs -> Kernel]
    BY <1>3, <2>1, OpenAny DEF FifoTypes, Fifos!Open
  <2>. QED
    BY <1>3, <2>1, <2>2 DEF FifoTypes, FifoPlaces, Fifos!Open, Fifos!Goto, Fifos!choice,
       Fifos!names, Fifos!records
<1>4. CASE Fifos!Write(e)
  <2>1. fd[e] \in Runs /\ fifo[fd[e]] \in Kernel
    BY <1>0, <1>4 DEF FifoTypes, Fifos!Write, Fifos!HasOpened
  <2>2. written' \in [Fifos!Processes -> Nat]
    BY <1>4 DEF FifoTypes, Fifos!Write
  <2>3. <<e[1], written'[e]>> \in Records
    BY <1>0, <2>2 DEF Records
  <2>4. Fifos!Put(fifo[fd[e]], <<e[1], written'[e]>>) \in Kernel
    BY <2>1, <2>3, PutOne
  <2>5. fifo' \in [Runs -> Kernel]
    BY <1>4, <2>1, <2>4 DEF FifoTypes, Fifos!Write
  <2>. QED
    BY <1>4, <2>2, <2>5 DEF FifoTypes, FifoPlaces, Fifos!Write, Fifos!Goto, Fifos!choice,
       Fifos!names
<1>5. CASE Fifos!Read(e)
  <2>1. fd[e] \in Runs /\ fifo[fd[e]] \in Kernel /\ fifo[fd[e]].data # << >>
    BY <1>0, <1>5 DEF FifoTypes, Fifos!Read, Fifos!HasOpened, Fifos!HasData
  <2>2. Fifos!Drop(fifo[fd[e]]) \in Kernel /\ Head(fifo[fd[e]].data) \in Records
    BY <2>1, DropOne
  <2>3. fifo' \in [Runs -> Kernel]
    BY <1>5, <2>1, <2>2 DEF FifoTypes, Fifos!Read
  <2>4. Append(read[e], Head(fifo[fd[e]].data)) \in Seq(Records)
    BY <2>2, AppendProperties DEF FifoTypes
  <2>5. read' \in [Fifos!Processes -> Seq(Records)]
    BY <1>5, <2>4 DEF FifoTypes, Fifos!Read
  <2>. QED
    BY <1>5, <2>3, <2>5 DEF FifoTypes, FifoPlaces, Fifos!Read, Fifos!Goto, Fifos!choice,
       Fifos!names
<1>6. CASE Fifos!CloseWriter(e) \/ Fifos!BrokenPipe(e)
  <2>1. Fifos!Close(e)
    BY <1>6 DEF Fifos!CloseWriter, Fifos!BrokenPipe, Fifos!Killed
  <2>. QED
    BY <1>6, <2>1, Closes DEF FifoTypes, FifoPlaces, Fifos!CloseWriter, Fifos!BrokenPipe,
       Fifos!Killed, Fifos!Goto, Fifos!choice, Fifos!names, Fifos!records
<1>7. CASE Fifos!Exit(e)
  <2>1. Fifos!Close(e) /\ path' \in {None, path}
    BY <1>7 DEF Fifos!Exit
  <2>. QED
    BY <1>7, <2>1, Closes DEF FifoTypes, FifoPlaces, Fifos!Exit, Fifos!Goto, Fifos!choice,
       Fifos!records
<1>8. CASE Fifos!Interrupt(e)
  <2>1. CASE program[e].catches
    BY <1>8, <2>1 DEF FifoTypes, FifoPlaces, Fifos!Interrupt, Fifos!Goto, Fifos!choice,
       Fifos!names, Fifos!ends, Fifos!records
  <2>2. CASE ~program[e].catches
    <3>1. Fifos!Close(e)
      BY <1>8, <2>2 DEF Fifos!Interrupt, Fifos!Killed
    <3>. QED
      BY <1>8, <2>2, <3>1, Closes DEF FifoTypes, FifoPlaces, Fifos!Interrupt, Fifos!Killed,
         Fifos!Goto, Fifos!choice, Fifos!names, Fifos!records
  <2>. QED
    BY <2>1, <2>2
<1>. QED
  BY <1>1, <1>2, <1>3, <1>4, <1>5, <1>6, <1>7, <1>8 DEF Fifos!Step

LEMMA MoveOne ==
  ASSUME NEW S, NEW s \in Seq(S), NEW t \in Seq(S), t # << >>
  PROVE  Append(s, Head(t)) \o Tail(t) = s \o t
<1>1. Head(t) \in S /\ Tail(t) \in Seq(S) /\ t = <<Head(t)>> \o Tail(t)
  BY HeadTailProperties, EmptySeq
<1>2. Append(s, Head(t)) = s \o <<Head(t)>> /\ <<Head(t)>> \in Seq(S)
  BY <1>1, AppendIsConcat
<1>. QED
  BY <1>1, <1>2, ConcatAssociative

LEMMA AppendOne ==
  ASSUME NEW S, NEW s \in Seq(S), NEW t \in Seq(S), NEW x \in S
  PROVE  s \o Append(t, x) = Append(s \o t, x)
<1>1. Append(t, x) = t \o <<x>> /\ <<x>> \in Seq(S)
  BY AppendIsConcat
<1>2. s \o t \in Seq(S)
  BY ConcatProperties
<1>3. Append(s \o t, x) = (s \o t) \o <<x>>
  BY <1>2, AppendIsConcat
<1>. QED
  BY <1>1, <1>3, ConcatAssociative

LEMMA MoreNumbers ==
  ASSUME NEW r \in Runs, NEW n \in Nat, NEW s \in Seq(Records), NEW t \in Seq(Records),
         s \o t = Numbered(r, n)
  PROVE  s \o Append(t, <<r, n + 1>>) = Numbered(r, n + 1)
<1>1. <<r, n + 1>> \in Records
  BY DEF Records
<1>2. s \o Append(t, <<r, n + 1>>) = Append(Numbered(r, n), <<r, n + 1>>)
  BY <1>1, AppendOne
<1>3. Append(Numbered(r, n), <<r, n + 1>>) = Numbered(r, n + 1)
  BY DEF Numbered
<1>. QED
  BY <1>2, <1>3

-----------------------------------------------------------------------------
(* FifoNumberSum *)

\* A run of it that another step leaves alone.
LEMMA SumSame ==
  ASSUME NEW q \in Runs, SumRun(q), at'[P(q)] = at[P(q)], at'[K(q)] = at[K(q)],
         fd'[P(q)] = fd[P(q)], fd'[K(q)] = fd[K(q)], fifo'[q] = fifo[q],
         written'[P(q)] = written[P(q)], read'[K(q)] = read[K(q)],
         path' = path \/ ~Fifos!NeedsName(q)
  PROVE  SumRun(q)'
<1>1. ~Fifos!NeedsName(q) => at[P(q)] \notin {"fork", "open"} /\ at[K(q)] # "open"
  BY DEF Fifos!NeedsName, P, K
<1>2. SumPlaces(q)'
  BY DEF SumRun, SumPlaces, P, K
<1>3. SumEnds(q)'
  BY <1>1 DEF SumRun, SumEnds, P, K
<1>4. SumData(q)'
  BY DEF SumRun, SumData, P, K, Numbered
<1>. QED
  BY <1>2, <1>3, <1>4 DEF SumRun

\* What is the same for the other runs after a step of a process of the run r.
OthersSame(r) ==
    \A q \in Runs \ {r} :
        /\ at'[P(q)] = at[P(q)] /\ at'[K(q)] = at[K(q)]
        /\ fd'[P(q)] = fd[P(q)] /\ fd'[K(q)] = fd[K(q)] /\ fifo'[q] = fifo[q]
        /\ written'[P(q)] = written[P(q)] /\ read'[K(q)] = read[K(q)]
        /\ path' = path \/ ~Fifos!NeedsName(q)

SumNow ==
    /\ FifoTypes /\ group = {Fifos!FifoNumberSum}
    /\ \A r \in Runs : SumRun(r)

LEMMA Needs ==
  \A q : Fifos!NeedsName(q) <=> at[P(q)] \in {"fork", "open"} \/ at[K(q)] \in {"fork", "open"}
BY DEF Fifos!NeedsName, P, K

LEMMA Apart ==
  /\ \A q, r \in Runs :
      /\ P(q) \in Fifos!Processes /\ K(q) \in Fifos!Processes
      /\ P(q) # K(r) /\ K(q) # P(r) /\ (q # r => P(q) # P(r) /\ K(q) # K(r))
BY DEF P, K, Fifos!Processes

LEMMA SumProgram ==
  ASSUME SumNow, NEW r \in Runs
  PROVE  /\ program[P(r)].makes /\ program[P(r)].mode = "w" /\ program[P(r)].writes = Numbers
         /\ program[P(r)].unlinks /\ program[P(r)].forks
         /\ program[K(r)].mode = "r" /\ program[K(r)].writes = 0 /\ program[K(r)].readsAll
         /\ ~program[K(r)].unlinks
<1>1. program[P(r)] = Fifos!FifoNumberSum /\ program[K(r)] = Fifos!numberSumChild
  BY Group DEF SumNow
<1>. QED
  BY <1>1, ProgramsDo

LEMMA SumStart ==
  ASSUME SumNow, NEW r \in Runs,
         Fifos!Start(P(r)) \/ Fifos!Mkfifo(P(r)) \/ Fifos!MkfifoFails(P(r))
           \/ Fifos!Fork(P(r)) \/ Fifos!ForkFails(P(r)) \/ Fifos!Wait(P(r))
  PROVE  OthersSame(r) /\ SumRun(r)'
<1>0. SumPlaces(r) /\ SumEnds(r) /\ SumData(r) /\ FifoTypes
  BY DEF SumNow, SumRun
<1>1. /\ program[P(r)].makes /\ program[P(r)].mode = "w" /\ program[P(r)].forks
  BY SumProgram
<1>2. Fifos!Child(P(r)) = K(r) /\ P(r)[1] = r
  BY DEF Fifos!Child, P, K
<1>3. UNCHANGED <<fifo, fd, written, read>>
  BY DEF Fifos!Start, Fifos!Mkfifo, Fifos!MkfifoFails, Fifos!Fork, Fifos!ForkFails, Fifos!Wait,
         Fifos!ends, Fifos!records
<1>4. \/ at[P(r)] = "start" /\ at' = [at EXCEPT ![P(r)] = "mkfifo"] /\ path' = path
      \/ at[P(r)] = "mkfifo" /\ at' = [at EXCEPT ![P(r)] = "fork"] /\ path = None /\ path' = r
      \/ at[P(r)] = "mkfifo" /\ at' = [at EXCEPT ![P(r)] = "exit"] /\ path' = path
      \/ /\ at[P(r)] = "fork" /\ at' = [at EXCEPT ![P(r)] = "open", ![K(r)] = "open"]
         /\ path' = path
      \/ at[P(r)] = "fork" /\ at' = [at EXCEPT ![P(r)] = "exit"] /\ path' = path
      \/ /\ at[P(r)] = "wait" /\ at[K(r)] \in {"done", "killed"}
         /\ at' = [at EXCEPT ![P(r)] = "exit"] /\ path' = path
  BY <1>1, <1>2 DEF Fifos!Start, Fifos!Mkfifo, Fifos!MkfifoFails, Fifos!Fork,
     Fifos!ForkFails, Fifos!Wait, Fifos!Goto, Fifos!Ended, Fifos!names
<1>5. \A q \in Runs \ {r} : path' = path \/ ~Fifos!NeedsName(q)
  <2> SUFFICES ASSUME NEW q \in Runs \ {r}, path = None PROVE ~Fifos!NeedsName(q)
    BY <1>4
  <2>1. at[P(q)] \notin {"fork", "open"} /\ at[K(q)] \notin {"fork", "open"}
    BY FifoAssumed DEF SumNow, SumRun, SumEnds, SumPlaces
  <2>. QED
    BY <2>1, Needs
<1>6. OthersSame(r)
  <2>1. /\ \A q \in Runs \ {r} : at'[P(q)] = at[P(q)] /\ at'[K(q)] = at[K(q)]
    BY <1>0, <1>4, Apart DEF FifoTypes
  <2>. QED
    BY <1>3, <1>5, <2>1 DEF OthersSame
<1>7. \/ at[P(r)] = "start" /\ at'[P(r)] = "mkfifo" /\ at'[K(r)] = at[K(r)]
      \/ at[P(r)] = "mkfifo" /\ at'[P(r)] = "fork" /\ at'[K(r)] = at[K(r)] /\ path' = r
      \/ at[P(r)] \in {"mkfifo", "fork"} /\ at'[P(r)] = "exit" /\ at'[K(r)] = at[K(r)]
      \/ at[P(r)] = "fork" /\ at'[P(r)] = "open" /\ at'[K(r)] = "open" /\ path' = path
      \/ at[P(r)] = "wait" /\ at[K(r)] = "done" /\ at'[P(r)] = "exit" /\ at'[K(r)] = at[K(r)]
  BY <1>0, <1>4, FifoAssumed DEF FifoTypes, SumPlaces
<1>8. SumPlaces(r)'
  BY <1>0, <1>7 DEF SumPlaces, P, K, FifoPlaces
<1>9. SumEnds(r)'
  <2>1. at'[P(r)] \in {"fork", "open"} \/ at'[K(r)] = "open" => path' = r
    BY <1>0, <1>4, <1>7 DEF SumPlaces, SumEnds
  <2>2. /\ at'[P(r)] \in {"write", "close"} <=> at[P(r)] \in {"write", "close"}
        /\ at'[P(r)] = "write" <=> at[P(r)] = "write"
        /\ at'[K(r)] \in {"read", "exit"} <=> at[K(r)] \in {"read", "exit"}
        /\ at'[K(r)] = "read" <=> at[K(r)] = "read"
    BY <1>0, <1>7 DEF SumPlaces
  <2>3. K(r) \in fifo[r].met => at'[P(r)] \in {"write", "close", "wait"}
    <3>1. fifo[r].met \subseteq fifo[r].readers \cup fifo[r].writers
      BY <1>0 DEF FifoTypes, Kernel
    <3>2. K(r) \notin fifo[r].met \/ at[K(r)] \in {"read", "exit"}
      BY <1>0, <3>1, Apart DEF SumEnds
    <3>. QED
      BY <1>0, <1>7, <3>2 DEF SumPlaces, SumEnds
  <2>. QED
    BY <1>0, <1>3, <2>1, <2>2, <2>3 DEF SumEnds, P, K
<1>10. SumData(r)'
  BY <1>0, <1>3, <1>7 DEF SumPlaces, SumData, P, K, Numbered
<1>. QED
  BY <1>6, <1>8, <1>9, <1>10 DEF SumRun

\* Each process opens the FIFO of its run.
LEMMA SumOpen ==
  ASSUME SumNow, NEW r \in Runs, NEW e \in {P(r), K(r)}, Fifos!Open(e)
  PROVE  OthersSame(r) /\ SumRun(r)'
<1>0. SumPlaces(r) /\ SumEnds(r) /\ SumData(r) /\ FifoTypes
  BY DEF SumNow, SumRun
<1>1. /\ at[e] = "open" /\ path = r /\ path' = path /\ UNCHANGED <<written, read>>
      /\ fd' = [fd EXCEPT ![e] = r]
      /\ fifo' = [fifo EXCEPT ![r] = Fifos!OpenAs(fifo[r], e, program[e].mode)]
      /\ at' = [at EXCEPT ![e] = IF program[e].writes > 0 THEN "write" ELSE "read"]
  BY <1>0 DEF Fifos!Open, Fifos!Goto, Fifos!names, Fifos!records, SumEnds
<1>2. \A q \in Runs \ {r} :
        /\ at'[P(q)] = at[P(q)] /\ at'[K(q)] = at[K(q)]
        /\ fd'[P(q)] = fd[P(q)] /\ fd'[K(q)] = fd[K(q)] /\ fifo'[q] = fifo[q]
  BY <1>0, <1>1, Apart DEF FifoTypes
<1>3. OthersSame(r)
  BY <1>1, <1>2 DEF OthersSame
<1>4. /\ fifo[r] \in Kernel /\ e \in Fifos!Processes
      /\ fifo[r].met \subseteq fifo[r].readers \cup fifo[r].writers
      /\ fifo'[r] = Fifos!OpenAs(fifo[r], e, program[e].mode)
  BY <1>0, <1>1, Apart DEF FifoTypes, Kernel
<1>5. CASE e = P(r)
  <2>1. fifo'[r] = Fifos!OpenForWriting(fifo[r], P(r))
    BY <1>4, <1>5, SumProgram DEF Fifos!OpenAs
  <2>2. /\ fifo'[r].readers = fifo[r].readers /\ fifo'[r].writers = {P(r)}
        /\ fifo'[r].data = fifo[r].data
        /\ fifo'[r].met = IF fifo[r].readers = {} THEN fifo[r].met
                          ELSE fifo[r].met \cup {P(r)} \cup fifo[r].readers
    <3>1. fifo[r].writers = {} /\ P(r) \in Fifos!Processes
      BY <1>0, <1>1, <1>5, Apart DEF SumEnds
    <3> DEFINE g == Fifos!OpenForWriting(fifo[r], P(r))
    <3>2. /\ g.readers = fifo[r].readers /\ g.writers = fifo[r].writers \cup {P(r)}
          /\ g.data = fifo[r].data
          /\ g.met = IF fifo[r].readers = {} THEN fifo[r].met
                     ELSE fifo[r].met \cup {P(r)} \cup fifo[r].readers
      BY <1>4, <3>1, OpenWrite
    <3>. QED
      BY <2>1, <3>1, <3>2
  <2>3. /\ at[P(r)] = "open" /\ at'[P(r)] = "write" /\ at'[K(r)] = at[K(r)]
        /\ fd'[P(r)] = r /\ fd'[K(r)] = fd[K(r)]
    BY <1>0, <1>1, <1>5, Apart, SumProgram, FifoAssumed DEF FifoTypes
  <2>4. P(r) \notin fifo[r].met
    BY <1>0, <1>4, <2>3, Apart DEF SumEnds
  <2>5. P(r) \in fifo'[r].met => at[K(r)] = "read"
    BY <1>0, <2>2, <2>3, <2>4 DEF SumEnds, SumPlaces
  <2>6. SumPlaces(r)'
    BY <1>0, <2>3 DEF SumPlaces, P, K, FifoPlaces
  <2>7. SumEnds(r)'
    BY <1>0, <1>1, <2>2, <2>3, <2>5 DEF SumEnds, P, K
  <2>8. SumData(r)'
    <3>1. written[P(r)] = 0 /\ 0 < Numbers
      BY <1>0, <2>3, FifoAssumed DEF SumData
    <3>. QED
      BY <1>0, <1>1, <2>2, <2>3, <3>1 DEF SumData, SumPlaces, P, K, Numbered
  <2>. QED
    BY <1>3, <2>6, <2>7, <2>8 DEF SumRun
<1>6. CASE e = K(r)
  <2>1. fifo'[r] = Fifos!OpenForReading(fifo[r], K(r))
    BY <1>4, <1>6, SumProgram DEF Fifos!OpenAs
  <2>2. /\ fifo'[r].readers = {K(r)} /\ fifo'[r].writers = fifo[r].writers
        /\ fifo'[r].data = fifo[r].data
        /\ fifo'[r].met = IF fifo[r].writers = {} THEN fifo[r].met
                          ELSE fifo[r].met \cup {K(r)} \cup fifo[r].writers
    <3>1. fifo[r].readers = {} /\ K(r) \in Fifos!Processes
      BY <1>0, <1>1, <1>6, Apart DEF SumEnds
    <3> DEFINE g == Fifos!OpenForReading(fifo[r], K(r))
    <3>2. /\ g.readers = fifo[r].readers \cup {K(r)} /\ g.writers = fifo[r].writers
          /\ g.data = fifo[r].data
          /\ g.met = IF fifo[r].writers = {} THEN fifo[r].met
                     ELSE fifo[r].met \cup {K(r)} \cup fifo[r].writers
      BY <1>4, <3>1, OpenRead
    <3>. QED
      BY <2>1, <3>1, <3>2
  <2>3. /\ at[K(r)] = "open" /\ at'[K(r)] = "read" /\ at'[P(r)] = at[P(r)]
        /\ fd'[K(r)] = r /\ fd'[P(r)] = fd[P(r)]
    BY <1>0, <1>1, <1>6, Apart, SumProgram DEF FifoTypes
  <2>4. K(r) \notin fifo[r].met
    BY <1>0, <1>4, <2>3, Apart DEF SumEnds
  <2>5. K(r) \in fifo'[r].met => at[P(r)] \in {"write", "close", "wait"}
    BY <1>0, <2>2, <2>3, <2>4 DEF SumEnds, SumPlaces
  <2>6. SumPlaces(r)'
    BY <1>0, <2>3 DEF SumPlaces, P, K, FifoPlaces
  <2>7. SumEnds(r)'
    BY <1>0, <1>1, <2>2, <2>3, <2>5 DEF SumEnds, SumPlaces, P, K
  <2>8. SumData(r)'
    BY <1>0, <1>1, <2>2, <2>3 DEF SumData, SumPlaces, P, K, Numbered
  <2>. QED
    BY <1>3, <2>6, <2>7, <2>8 DEF SumRun
<1>. QED
  BY <1>5, <1>6

\* The parent writes the next number.
LEMMA SumWrite ==
  ASSUME SumNow, NEW r \in Runs, Fifos!Write(P(r))
  PROVE  OthersSame(r) /\ SumRun(r)'
<1>0. SumPlaces(r) /\ SumEnds(r) /\ SumData(r) /\ FifoTypes
  BY DEF SumNow, SumRun
<1>1. /\ at[P(r)] = "write" /\ fd[P(r)] = r
      /\ P(r)[1] = r /\ program[P(r)].writes = Numbers /\ P(r) \in fifo[r].met
  BY <1>0, SumProgram DEF Fifos!Write, Fifos!HasOpened, Fifos!Opened, SumEnds, P
<1>2. at[K(r)] = "read"
  BY <1>0, <1>1 DEF SumEnds
<1>3. /\ written' = [written EXCEPT ![P(r)] = @ + 1] /\ UNCHANGED <<path, fd, read>>
      /\ fifo' = [fifo EXCEPT ![r] = Fifos!Put(@, <<r, written'[P(r)]>>)]
      /\ at' = [at EXCEPT ![P(r)] = IF written'[P(r)] < Numbers THEN "write" ELSE "close"]
  BY <1>1 DEF Fifos!Write, Fifos!Goto, Fifos!names
<1>4. /\ written[P(r)] \in Nat /\ written'[P(r)] = written[P(r)] + 1
      /\ written[P(r)] < Numbers /\ Numbers \in Nat
      /\ \A q \in Runs \ {r} : written'[P(q)] = written[P(q)]
  BY <1>0, <1>1, <1>3, Apart, FifoAssumed DEF FifoTypes, SumData
<1>5. OthersSame(r)
  BY <1>0, <1>3, <1>4, Apart DEF FifoTypes, OthersSame
<1>6. /\ fifo[r] \in Kernel /\ <<r, written'[P(r)]>> \in Records
      /\ fifo'[r] = Fifos!Put(fifo[r], <<r, written'[P(r)]>>)
  BY <1>0, <1>3, <1>4 DEF FifoTypes, Records
<1>7. /\ fifo'[r].readers = fifo[r].readers /\ fifo'[r].writers = fifo[r].writers
      /\ fifo'[r].met = fifo[r].met /\ fifo[r].data \in Seq(Records)
      /\ fifo'[r].data = Append(fifo[r].data, <<r, written[P(r)] + 1>>)
  <2>1. /\ fifo'[r].readers = fifo[r].readers /\ fifo'[r].writers = fifo[r].writers
        /\ fifo'[r].met = fifo[r].met /\ fifo[r].data \in Seq(Records)
        /\ fifo'[r].data = Append(fifo[r].data, <<r, written'[P(r)]>>)
    <3> DEFINE g == Fifos!Put(fifo[r], <<r, written'[P(r)]>>)
    <3>1. /\ g.readers = fifo[r].readers /\ g.writers = fifo[r].writers
          /\ g.met = fifo[r].met /\ fifo[r].data \in Seq(Records)
          /\ g.data = Append(fifo[r].data, <<r, written'[P(r)]>>)
      BY <1>6, PutOne
    <3>. QED
      BY <1>6, <3>1
  <2>. QED
    BY <1>4, <2>1
<1>8. /\ at'[K(r)] = "read"
      /\ at'[P(r)] = IF written[P(r)] + 1 < Numbers THEN "write" ELSE "close"
  BY <1>0, <1>2, <1>3, <1>4, Apart DEF FifoTypes
<1>9. SumPlaces(r)'
  BY <1>8 DEF SumPlaces, P, K, FifoPlaces
<1>10. SumEnds(r)'
  <2>1. at'[P(r)] \in {"write", "close"}
    BY <1>8
  <2>. QED
    BY <1>0, <1>1, <1>2, <1>3, <1>7, <1>8, <2>1 DEF SumEnds, P, K
<1>11. SumData(r)'
  <2>1. read[K(r)] \in Seq(Records) /\ read[K(r)] \o fifo[r].data = Numbered(r, written[P(r)])
    BY <1>0, Apart DEF FifoTypes, SumData
  <2>2. read[K(r)] \o fifo'[r].data = Numbered(r, written[P(r)] + 1)
    <3>1. read[K(r)] \o Append(fifo[r].data, <<r, written[P(r)] + 1>>)
            = Numbered(r, written[P(r)] + 1)
      <4>1. written[P(r)] \in Nat /\ fifo[r].data \in Seq(Records)
        BY <1>4, <1>7
      <4>. QED
        BY <2>1, <4>1, MoreNumbers
    <3>. QED
      BY <1>7, <3>1
  <2>3. read'[K(r)] \o fifo'[r].data = Numbered(r, written'[P(r)])
    BY <1>3, <1>4, <2>2
  <2>4. /\ at'[P(r)] = "write" => written'[P(r)] < Numbers
        /\ at'[P(r)] = "close" => written'[P(r)] = Numbers
        /\ at'[P(r)] \in {"write", "close"}
    BY <1>4, <1>8
  <2>. QED
    BY <1>8, <2>3, <2>4 DEF SumData, P, K, Numbered
<1>. QED
  BY <1>5, <1>9, <1>10, <1>11 DEF SumRun

\* The child reads the oldest number.
LEMMA SumRead ==
  ASSUME SumNow, NEW r \in Runs, Fifos!Read(K(r))
  PROVE  OthersSame(r) /\ SumRun(r)'
<1>0. SumPlaces(r) /\ SumEnds(r) /\ SumData(r) /\ FifoTypes
  BY DEF SumNow, SumRun
<1>1. /\ at[K(r)] = "read" /\ fd[K(r)] = r /\ fifo[r].data # << >>
  BY <1>0 DEF Fifos!Read, Fifos!HasData, SumEnds
<1>2. /\ UNCHANGED <<path, fd, written>>
      /\ read' = [read EXCEPT ![K(r)] = Append(@, Head(fifo[r].data))]
      /\ fifo' = [fifo EXCEPT ![r] = Fifos!Drop(@)]
      /\ at' = [at EXCEPT ![K(r)] = "read"]
  BY <1>1, SumProgram DEF Fifos!Read, Fifos!ReadsOn, Fifos!Goto, Fifos!names
<1>3. at'[K(r)] = at[K(r)] /\ at'[P(r)] = at[P(r)]
  BY <1>0, <1>1, <1>2, Apart DEF FifoTypes
<1>4. OthersSame(r)
  BY <1>0, <1>2, Apart DEF FifoTypes, OthersSame
<1>5. fifo[r] \in Kernel /\ fifo'[r] = Fifos!Drop(fifo[r]) /\ read[K(r)] \in Seq(Records)
  BY <1>0, <1>2, Apart DEF FifoTypes
<1>6. /\ fifo'[r].readers = fifo[r].readers /\ fifo'[r].writers = fifo[r].writers
      /\ fifo'[r].met = fifo[r].met /\ fifo[r].data \in Seq(Records)
      /\ fifo'[r].data = Tail(fifo[r].data)
  <2> DEFINE g == Fifos!Drop(fifo[r])
  <2>1. /\ g.readers = fifo[r].readers /\ g.writers = fifo[r].writers
        /\ g.met = fifo[r].met /\ fifo[r].data \in Seq(Records)
        /\ g.data = Tail(fifo[r].data)
    BY <1>1, <1>5, DropOne
  <2>. QED
    BY <1>5, <2>1
<1>7. read'[K(r)] \o fifo'[r].data = Numbered(r, written[P(r)])
  <2>1. read'[K(r)] = Append(read[K(r)], Head(fifo[r].data))
    BY <1>0, <1>2, Apart DEF FifoTypes
  <2>2. Append(read[K(r)], Head(fifo[r].data)) \o Tail(fifo[r].data)
          = read[K(r)] \o fifo[r].data
    BY <1>1, <1>5, <1>6, MoveOne
  <2>. QED
    BY <1>0, <1>6, <2>1, <2>2 DEF SumData
<1>8. SumPlaces(r)'
  BY <1>0, <1>3 DEF SumPlaces, P, K, FifoPlaces
<1>9. SumEnds(r)'
  BY <1>0, <1>2, <1>3, <1>6 DEF SumEnds, P, K
<1>10. SumData(r)'
  BY <1>0, <1>1, <1>2, <1>3, <1>7 DEF SumData, P, K, Numbered
<1>. QED
  BY <1>4, <1>8, <1>9, <1>10 DEF SumRun

\* The child has read everything: its parent has closed the FIFO.
LEMMA SumReadEOF ==
  ASSUME SumNow, NEW r \in Runs, Fifos!ReadEOF(K(r))
  PROVE  OthersSame(r) /\ SumRun(r)'
<1>0. SumPlaces(r) /\ SumEnds(r) /\ SumData(r) /\ FifoTypes
  BY DEF SumNow, SumRun
<1>1. /\ at[K(r)] = "read" /\ K(r) \in fifo[r].met
      /\ fifo[r].data = << >> /\ fifo[r].writers = {}
  BY <1>0 DEF Fifos!ReadEOF, Fifos!HasOpened, Fifos!Opened, Fifos!AtEOF, SumEnds
<1>2. at[P(r)] = "wait"
  BY <1>0, <1>1 DEF SumPlaces, SumEnds
<1>3. UNCHANGED <<path, fd, fifo, written, read>> /\ at' = [at EXCEPT ![K(r)] = "exit"]
  BY DEF Fifos!ReadEOF, Fifos!Goto, Fifos!names, Fifos!ends, Fifos!records
<1>4. at'[K(r)] = "exit" /\ at'[P(r)] = "wait"
  BY <1>0, <1>2, <1>3, Apart DEF FifoTypes
<1>5. OthersSame(r)
  BY <1>0, <1>3, Apart DEF FifoTypes, OthersSame
<1>6. SumPlaces(r)'
  BY <1>4 DEF SumPlaces, P, K, FifoPlaces
<1>7. SumEnds(r)'
  BY <1>0, <1>1, <1>2, <1>3, <1>4 DEF SumEnds, P, K
<1>8. SumData(r)'
  BY <1>0, <1>1, <1>2, <1>3, <1>4 DEF SumData, P, K, Numbered
<1>. QED
  BY <1>5, <1>6, <1>7, <1>8 DEF SumRun

\* A descriptor is closed, by the parent or by exit().
LEMMA SumCloses ==
  ASSUME SumNow, NEW r \in Runs, NEW e \in {P(r), K(r)}, fd[e] = r, Fifos!Close(e)
  PROVE  /\ fifo'[r].readers = fifo[r].readers \ {e}
         /\ fifo'[r].writers = fifo[r].writers \ {e}
         /\ fifo'[r].met = fifo[r].met \ {e}
         /\ fifo'[r].data = IF fifo'[r].readers \cup fifo'[r].writers = {} THEN << >>
                            ELSE fifo[r].data
         /\ fd' = [fd EXCEPT ![e] = None]
         /\ \A q \in Runs \ {r} : fifo'[q] = fifo[q]
<1>1. FifoTypes /\ e \in Fifos!Processes /\ fd[e] # None
  BY Apart, FifoAssumed DEF SumNow
<1>. QED
  BY <1>1, Closes

LEMMA SumCloseWriter ==
  ASSUME SumNow, NEW r \in Runs, Fifos!CloseWriter(P(r))
  PROVE  OthersSame(r) /\ SumRun(r)'
<1>0. SumPlaces(r) /\ SumEnds(r) /\ SumData(r) /\ FifoTypes
  BY DEF SumNow, SumRun
<1>1. /\ at[P(r)] = "close" /\ fd[P(r)] = r /\ at[K(r)] = "read" /\ fd[K(r)] = r
      /\ fifo[r].readers = {K(r)} /\ fifo[r].writers = {P(r)} /\ P(r) # K(r)
  BY <1>0, Apart DEF Fifos!CloseWriter, SumPlaces, SumEnds
<1>2. /\ UNCHANGED <<path, written, read>> /\ Fifos!Close(P(r))
      /\ at' = [at EXCEPT ![P(r)] = "wait"]
  BY SumProgram DEF Fifos!CloseWriter, Fifos!Goto, Fifos!names, Fifos!records
<1>3. /\ fifo'[r].readers = {K(r)} /\ fifo'[r].writers = {}
      /\ fifo'[r].met \subseteq fifo[r].met /\ fifo'[r].data = fifo[r].data
      /\ fd' = [fd EXCEPT ![P(r)] = None]
      /\ \A q \in Runs \ {r} : fifo'[q] = fifo[q]
  BY <1>1, <1>2, SumCloses
<1>4. at'[P(r)] = "wait" /\ at'[K(r)] = "read" /\ fd'[P(r)] = None /\ fd'[K(r)] = r
  BY <1>0, <1>1, <1>2, <1>3, Apart DEF FifoTypes
<1>5. OthersSame(r)
  BY <1>0, <1>2, <1>3, Apart DEF FifoTypes, OthersSame
<1>6. SumPlaces(r)'
  BY <1>4 DEF SumPlaces, P, K, FifoPlaces
<1>7. SumEnds(r)'
  BY <1>3, <1>4 DEF SumEnds, P, K
<1>8. SumData(r)'
  BY <1>0, <1>1, <1>2, <1>3, <1>4 DEF SumData, P, K, Numbered
<1>. QED
  BY <1>5, <1>6, <1>7, <1>8 DEF SumRun

\* exit() of the parent: its name is gone, and nobody needed another.
LEMMA SumExitParent ==
  ASSUME SumNow, NEW r \in Runs, Fifos!Exit(P(r)), Fifos!Undisturbed'
  PROVE  OthersSame(r) /\ SumRun(r)'
<1>0. SumPlaces(r) /\ SumEnds(r) /\ SumData(r) /\ FifoTypes
  BY DEF SumNow, SumRun
<1>1. /\ at[P(r)] = "exit" /\ at[K(r)] \in {"unborn", "done"} /\ fd[P(r)] = None
      /\ P(r)[1] = r
  BY <1>0 DEF Fifos!Exit, SumPlaces, SumEnds, P
<1>2. /\ UNCHANGED <<fifo, fd, written, read>> /\ path' = None
      /\ at' = [at EXCEPT ![P(r)] = "done"]
  <2>1. UNCHANGED fifo /\ UNCHANGED fd
    BY <1>1 DEF Fifos!Exit, Fifos!Close, Fifos!ends
  <2>. QED
    BY <2>1, SumProgram DEF Fifos!Exit, Fifos!Goto, Fifos!records
<1>3. \A q \in Runs \ {r} : ~Fifos!NeedsName(q)
  <2> SUFFICES ASSUME NEW q \in Runs \ {r}, Fifos!NeedsName(q) PROVE FALSE
    OBVIOUS
  <2>1. path = q
    BY Needs DEF SumNow, SumRun, SumEnds, SumPlaces
  <2>2. q \in stolen'
    BY <1>1, <2>1, SumProgram DEF Fifos!Exit
  <2>. QED
    BY <2>2 DEF Fifos!Undisturbed
<1>4. at'[P(r)] = "done" /\ at'[K(r)] = at[K(r)]
  BY <1>0, <1>2, Apart DEF FifoTypes
<1>5. OthersSame(r)
  BY <1>0, <1>2, <1>3, Apart DEF FifoTypes, OthersSame
<1>6. SumPlaces(r)'
  BY <1>1, <1>4 DEF SumPlaces, P, K, FifoPlaces
<1>7. SumEnds(r)'
  <2>1. K(r) \notin fifo[r].met
    <3>1. fifo[r].readers = {} /\ fifo[r].writers = {}
      BY <1>0, <1>1 DEF SumEnds
    <3>. QED
      BY <1>0, <3>1 DEF FifoTypes, Kernel
  <2>. QED
    BY <1>0, <1>1, <1>2, <1>4, <2>1 DEF SumEnds, P, K
<1>8. SumData(r)'
  BY <1>0, <1>1, <1>2, <1>4 DEF SumData, P, K, Numbered
<1>. QED
  BY <1>5, <1>6, <1>7, <1>8 DEF SumRun

LEMMA SumExitChild ==
  ASSUME SumNow, NEW r \in Runs, Fifos!Exit(K(r))
  PROVE  OthersSame(r) /\ SumRun(r)'
<1>0. SumPlaces(r) /\ SumEnds(r) /\ SumData(r) /\ FifoTypes
  BY DEF SumNow, SumRun
<1>1. /\ at[K(r)] = "exit" /\ at[P(r)] = "wait" /\ fd[K(r)] = r /\ fd[P(r)] = None
      /\ fifo[r].readers = {K(r)} /\ fifo[r].writers = {} /\ fifo[r].data = << >>
  BY <1>0 DEF Fifos!Exit, SumPlaces, SumEnds, SumData
<1>2. /\ UNCHANGED <<path, written, read>> /\ Fifos!Close(K(r))
      /\ at' = [at EXCEPT ![K(r)] = "done"]
  BY SumProgram DEF Fifos!Exit, Fifos!Goto, Fifos!records
<1>3. /\ fifo'[r].readers = {} /\ fifo'[r].writers = {}
      /\ K(r) \notin fifo'[r].met /\ P(r) \notin fifo'[r].met /\ fifo'[r].data = << >>
      /\ fd' = [fd EXCEPT ![K(r)] = None]
      /\ \A q \in Runs \ {r} : fifo'[q] = fifo[q]
  <2>1. P(r) \notin fifo[r].met
    BY <1>0, <1>1, Apart DEF FifoTypes, Kernel
  <2>. QED
    BY <1>1, <1>2, <2>1, SumCloses
<1>4. at'[P(r)] = "wait" /\ at'[K(r)] = "done" /\ fd'[P(r)] = None /\ fd'[K(r)] = None
  BY <1>0, <1>1, <1>2, <1>3, Apart DEF FifoTypes
<1>5. OthersSame(r)
  BY <1>0, <1>2, <1>3, Apart DEF FifoTypes, OthersSame
<1>6. SumPlaces(r)'
  BY <1>4 DEF SumPlaces, P, K, FifoPlaces
<1>7. SumEnds(r)'
  BY <1>3, <1>4 DEF SumEnds, P, K
<1>8. SumData(r)'
  BY <1>0, <1>1, <1>2, <1>3, <1>4 DEF SumData, P, K, Numbered
<1>. QED
  BY <1>5, <1>6, <1>7, <1>8 DEF SumRun

LEMMA SumStep ==
  ASSUME SumNow, NEW e \in Fifos!Processes, Fifos!Undisturbed',
         Fifos!Start(e) \/ Fifos!Step(e) \/ Fifos!Interrupt(e)
  PROVE  \A r \in Runs : SumRun(r)'
<1> DEFINE r == e[1]
<1>0. r \in Runs /\ (e = P(r) \/ e = K(r)) /\ SumPlaces(r) /\ SumEnds(r)
  BY FifoAssumed DEF SumNow, SumRun
<1> HIDE DEF r
<1>1. ~Fifos!Interrupt(e)
  BY DEF Fifos!Interrupt, Fifos!Undisturbed
<1>2. ~Fifos!OpenFails(e)
  BY <1>0, FifoAssumed DEF Fifos!OpenFails, SumEnds
<1>3. CASE e = P(r)
  <2>1. ~Fifos!Read(e) /\ ~Fifos!ReadEOF(e)
    BY <1>0, <1>3 DEF Fifos!Read, Fifos!ReadEOF, SumPlaces, FifoPlaces
  <2>2. ~Fifos!BrokenPipe(e)
    BY <1>0, <1>3 DEF Fifos!BrokenPipe, Fifos!HasOpened, Fifos!Opened, Fifos!Broken, SumEnds
  <2>3. OthersSame(r) /\ SumRun(r)'
    BY <1>0, <1>1, <1>2, <1>3, <2>1, <2>2, SumStart, SumOpen, SumWrite, SumCloseWriter,
       SumExitParent DEF Fifos!Step
  <2>. QED
    BY <1>0, <2>3, SumSame DEF OthersSame, SumNow
<1>4. CASE e = K(r)
  <2>1. ~(Fifos!Start(e) \/ Fifos!Mkfifo(e) \/ Fifos!MkfifoFails(e) \/ Fifos!Fork(e)
          \/ Fifos!ForkFails(e) \/ Fifos!Wait(e) \/ Fifos!Write(e) \/ Fifos!CloseWriter(e)
          \/ Fifos!BrokenPipe(e))
    BY <1>0, <1>4 DEF SumPlaces, Fifos!Start, Fifos!Mkfifo, Fifos!MkfifoFails, Fifos!Fork, Fifos!ForkFails,
       Fifos!Wait, Fifos!Write, Fifos!CloseWriter, Fifos!BrokenPipe
  <2>2. Fifos!Open(e) \/ Fifos!Read(e) \/ Fifos!ReadEOF(e) \/ Fifos!Exit(e)
    BY <1>1, <1>2, <2>1 DEF Fifos!Step
  <2>3. OthersSame(r) /\ SumRun(r)'
    BY <1>0, <1>4, <2>2, SumOpen, SumRead, SumReadEOF, SumExitChild
  <2>. QED
    BY <1>0, <2>3, SumSame DEF OthersSame, SumNow
<1>. QED
  BY <1>0, <1>3, <1>4

-----------------------------------------------------------------------------
(* fifoCreateAndWrite and fifoReader *)

RelayNow ==
    /\ FifoTypes /\ Fifos!fifoReader \in group /\ lost = {}
    /\ \A r \in Runs : RelayRun(r) /\ RelayFifo(r)

LEMMA RelayProgram ==
  ASSUME RelayNow, NEW r \in Runs
  PROVE  /\ ~IsWriter(K(r))
         /\ IsWriter(P(r)) =>
              /\ program[P(r)].makes /\ program[P(r)].mode = "w" /\ program[P(r)].writes = 1
              /\ ~program[P(r)].unlinks /\ ~program[P(r)].forks
         /\ ~IsWriter(P(r)) =>
              /\ ~program[P(r)].makes /\ program[P(r)].mode = "r" /\ program[P(r)].writes = 0
              /\ ~program[P(r)].readsAll /\ program[P(r)].unlinks
<1>1. /\ program[P(r)] \in {Fifos!fifoCreateAndWrite, Fifos!fifoReader}
      /\ program[K(r)] = Fifos!numberSumChild
      /\ Fifos!numberSumChild # Fifos!fifoCreateAndWrite
  BY Group DEF RelayNow
<1>. QED
  BY <1>1, ProgramsDo DEF IsWriter

\* What another step leaves alone.
LEMMA RelayRunSame ==
  ASSUME NEW q \in Runs, RelayRun(q), program' = program,
         at'[P(q)] = at[P(q)], at'[K(q)] = at[K(q)],
         fd'[P(q)] = fd[P(q)], fd'[K(q)] = fd[K(q)],
         path' = path \/ ~IsWriter(P(q)) \/ at[P(q)] # "open"
  PROVE  RelayRun(q)'
BY DEF RelayRun, IsWriter, P, K

LEMMA RelayFifoSame ==
  ASSUME NEW f \in Runs, RelayFifo(f), program' = program, fifo'[f] = fifo[f],
         IsWriter(P(f)) => at'[P(f)] = at[P(f)],
         \A e \in Fifos!Processes : ~IsWriter(e) /\ (fd[e] = f \/ fd'[e] = f) =>
           fd'[e] = fd[e] /\ at'[e] = at[e],
         path' = path \/ path' # f
  PROVE  RelayFifo(f)'
<1>1. ReadersOf(f)' = ReadersOf(f)
  BY DEF ReadersOf, IsWriter, Fifos!Processes
<1>2. \A e \in ReadersOf(f) : at'[e] = at[e]
  BY DEF ReadersOf
<1>3. Tried(f)' <=> Tried(f)
  BY DEF Tried, IsWriter, P
<1>4. Tried(f) => (Awaited(f)' <=> Awaited(f))
  BY <1>1, <1>2 DEF Awaited, Tried, IsWriter, P
<1>. QED
  BY <1>1, <1>3, <1>4 DEF RelayFifo, IsWriter, P

RelayNext == lost' = {} /\ \A r \in Runs : RelayRun(r)' /\ RelayFifo(r)'

\* A step of a writer changes its own FIFO alone, and who reads it not at all.
LEMMA WriterStep ==
  ASSUME RelayNow, NEW r \in Runs, IsWriter(P(r)), program' = program, lost' = lost,
         NEW place, at' = [at EXCEPT ![P(r)] = place],
         NEW of, fd' = [fd EXCEPT ![P(r)] = of],
         \A f \in Runs \ {r} : fifo'[f] = fifo[f],
         path' = path \/ (path = None /\ path' = r),
         RelayRun(r)', ReadersOf(r)' = ReadersOf(r) => RelayFifo(r)'
  PROVE  RelayNext
<1>0. FifoTypes /\ \A q \in Runs : RelayRun(q) /\ RelayFifo(q)
  BY DEF RelayNow
<1>1. \A e \in Fifos!Processes \ {P(r)} : at'[e] = at[e] /\ fd'[e] = fd[e]
  BY <1>0 DEF FifoTypes
<1>2. ASSUME NEW f \in Runs \ {r} PROVE RelayRun(f)' /\ RelayFifo(f)'
  <2>1. /\ P(f) # P(r) /\ K(f) # P(r) /\ P(f) \in Fifos!Processes /\ K(f) \in Fifos!Processes
    BY Apart
  <2>2. path' = path \/ at[P(f)] # "open" \/ ~IsWriter(P(f))
    BY <1>0, FifoAssumed DEF RelayRun
  <2>3. RelayRun(f)'
    BY <1>0, <1>1, <2>1, <2>2, RelayRunSame
  <2>4. \A e \in Fifos!Processes : ~IsWriter(e) => fd'[e] = fd[e] /\ at'[e] = at[e]
    BY <1>1
  <2>. QED
    BY <1>0, <1>1, <2>1, <2>3, <2>4, RelayFifoSame
<1>3. ReadersOf(r)' = ReadersOf(r)
  BY <1>1 DEF ReadersOf, IsWriter, Fifos!Processes
<1>. QED
  BY <1>2, <1>3 DEF RelayNext, RelayNow

LEMMA WriterQuiet ==
  ASSUME RelayNow, NEW r \in Runs, IsWriter(P(r)),
         Fifos!Start(P(r)) \/ Fifos!Mkfifo(P(r)) \/ Fifos!MkfifoFails(P(r)) \/ Fifos!Exit(P(r))
  PROVE  RelayNext
<1>0. FifoTypes /\ RelayRun(r) /\ RelayFifo(r)
  BY DEF RelayNow
<1>1. /\ program[P(r)].makes /\ program[P(r)].mode = "w" /\ ~program[P(r)].unlinks
      /\ ~program[P(r)].forks /\ P(r)[1] = r
  BY RelayProgram DEF P
<1>2. at[P(r)] \in {"start", "mkfifo", "exit"} /\ fd[P(r)] = None
  BY <1>0 DEF Fifos!Start, Fifos!Mkfifo, Fifos!MkfifoFails, Fifos!Exit, RelayRun
<1>3. UNCHANGED <<program, fifo, fd, lost>>
  BY <1>2 DEF Fifos!Start, Fifos!Mkfifo, Fifos!MkfifoFails, Fifos!Exit, Fifos!Close,
     Fifos!ends, Fifos!choice
<1>4. PICK place \in {"mkfifo", "open", "exit", "done"} :
        /\ at' = [at EXCEPT ![P(r)] = place]
        /\ \/ at[P(r)] = "start" /\ place = "mkfifo" /\ path' = path
           \/ at[P(r)] = "mkfifo" /\ place = "open" /\ path = None /\ path' = r
           \/ at[P(r)] \in {"mkfifo", "exit"} /\ place \in {"exit", "done"} /\ path' = path
  BY <1>1 DEF Fifos!Start, Fifos!Mkfifo, Fifos!MkfifoFails, Fifos!Exit, Fifos!Goto, Fifos!names
<1>5. at'[P(r)] = place /\ at'[K(r)] = at[K(r)] /\ fd' = [fd EXCEPT ![P(r)] = None]
  BY <1>0, <1>2, <1>3, <1>4, Apart DEF FifoTypes
<1>6. RelayRun(r)'
  BY <1>0, <1>2, <1>3, <1>4, <1>5 DEF RelayRun, IsWriter, P, K
<1>7. ASSUME ReadersOf(r)' = ReadersOf(r) PROVE RelayFifo(r)'
  <2>1. CASE at[P(r)] = "start"
    BY <1>0, <1>3, <1>4, <1>5, <1>7, <2>1 DEF RelayFifo, Tried, IsWriter, P
  <2>2. CASE at[P(r)] = "mkfifo"
    <3>1. ReadersOf(r) = {} /\ fifo[r].data = << >> /\ Len(<< >>) = 0
      BY <1>0, <2>2 DEF RelayFifo, Tried
    <3>2. at'[P(r)] \in {"open", "exit", "done"}
      BY <1>4, <1>5, <2>2
    <3>3. Awaited(r)'
      BY <1>3, <1>7, <3>1, <3>2 DEF Awaited, P
    <3>. QED
      BY <1>0, <1>3, <1>7, <2>2, <3>2, <3>3 DEF RelayFifo, Tried, IsWriter, P
  <2>3. CASE at[P(r)] = "exit"
    <3>1. at'[P(r)] \in {"exit", "done"} /\ path' = path
      BY <1>4, <1>5, <2>3
    <3>2. Awaited(r) /\ \A e \in ReadersOf(r) : at'[e] = at[e]
      <4>1. P(r) \notin ReadersOf(r)
        BY DEF ReadersOf
      <4>. QED
        BY <1>0, <1>4, <2>3, <4>1 DEF RelayFifo, Tried, ReadersOf, FifoTypes
    <3>3. Awaited(r)'
      BY <1>3, <1>7, <2>3, <3>1, <3>2 DEF Awaited, P
    <3>. QED
      BY <1>0, <1>3, <1>7, <2>3, <3>1, <3>3 DEF RelayFifo, Tried, IsWriter, P
  <2>. QED
    BY <1>2, <2>1, <2>2, <2>3
<1>. QED
  BY <1>3, <1>4, <1>5, <1>6, <1>7, WriterStep

LEMMA WriterOpen ==
  ASSUME RelayNow, NEW r \in Runs, IsWriter(P(r)), Fifos!Open(P(r))
  PROVE  RelayNext
<1>0. FifoTypes /\ RelayRun(r) /\ RelayFifo(r)
  BY DEF RelayNow
<1>1. /\ at[P(r)] = "open" /\ path = r /\ fd[P(r)] = None
      /\ program[P(r)].mode = "w" /\ program[P(r)].writes = 1
  BY <1>0, RelayProgram DEF Fifos!Open, RelayRun
<1>2. /\ UNCHANGED <<program, path, lost>> /\ fd' = [fd EXCEPT ![P(r)] = r]
      /\ fifo' = [fifo EXCEPT ![r] = Fifos!OpenForWriting(@, P(r))]
      /\ at' = [at EXCEPT ![P(r)] = "write"]
  BY <1>1 DEF Fifos!Open, Fifos!OpenAs, Fifos!Goto, Fifos!choice, Fifos!names
<1>3. at'[P(r)] = "write" /\ at'[K(r)] = at[K(r)] /\ fd'[P(r)] = r /\ fd'[K(r)] = fd[K(r)]
  BY <1>0, <1>2, Apart DEF FifoTypes
<1>4. /\ fifo'[r].readers = fifo[r].readers /\ fifo'[r].writers = {P(r)}
      /\ fifo'[r].data = fifo[r].data
      /\ fifo'[r].met = IF fifo[r].readers = {} THEN fifo[r].met
                        ELSE fifo[r].met \cup {P(r)} \cup fifo[r].readers
  <2>1. /\ fifo[r].writers = {} /\ P(r) \in Fifos!Processes /\ fifo[r] \in Kernel
        /\ fifo'[r] = Fifos!OpenForWriting(fifo[r], P(r))
    BY <1>0, <1>1, <1>2, Apart DEF RelayFifo, FifoTypes
  <2> DEFINE g == Fifos!OpenForWriting(fifo[r], P(r))
  <2>2. /\ g.readers = fifo[r].readers /\ g.writers = fifo[r].writers \cup {P(r)}
        /\ g.data = fifo[r].data
        /\ g.met = IF fifo[r].readers = {} THEN fifo[r].met
                   ELSE fifo[r].met \cup {P(r)} \cup fifo[r].readers
    BY <2>1, OpenWrite
  <2>. QED
    BY <2>1, <2>2
<1>5. RelayRun(r)'
  BY <1>0, <1>2, <1>3 DEF RelayRun, IsWriter, P, K
<1>6. ASSUME ReadersOf(r)' = ReadersOf(r) PROVE RelayFifo(r)'
  <2>1. Awaited(r) /\ fifo[r].readers = ReadersOf(r) /\ fifo[r].writers = {}
    BY <1>0, <1>1 DEF RelayFifo, Tried
  <2>2. P(r) \notin fifo[r].met
    <3>1. P(r) \notin ReadersOf(r) /\ fifo[r].met \subseteq fifo[r].readers \cup fifo[r].writers
      BY <1>0 DEF ReadersOf, FifoTypes, Kernel
    <3>. QED
      BY <2>1, <3>1
  <2>3. P(r) \in fifo'[r].met => ReadersOf(r) # {}
    BY <1>4, <2>1, <2>2
  <2>4. \A e \in ReadersOf(r) : at'[e] = at[e]
    <3>1. P(r) \notin ReadersOf(r)
      BY DEF ReadersOf
    <3>. QED
      BY <1>0, <1>2, <3>1 DEF ReadersOf, FifoTypes
  <2>5. Awaited(r)'
    BY <1>1, <1>3, <1>4, <1>6, <2>1, <2>3, <2>4 DEF Awaited, P
  <2>. QED
    BY <1>0, <1>1, <1>2, <1>3, <1>4, <1>6, <2>1, <2>5 DEF RelayFifo, Tried, IsWriter, P
<1>7. \A f \in Runs \ {r} : fifo'[f] = fifo[f]
  BY <1>0, <1>2 DEF FifoTypes
<1>. QED
  BY <1>2, <1>5, <1>6, <1>7, WriterStep

LEMMA WriterWrite ==
  ASSUME RelayNow, NEW r \in Runs, IsWriter(P(r)), Fifos!Write(P(r))
  PROVE  RelayNext
<1>0. FifoTypes /\ RelayRun(r) /\ RelayFifo(r)
  BY DEF RelayNow
<1>1. /\ at[P(r)] = "write" /\ fd[P(r)] = r /\ P(r) \in fifo[r].met
      /\ program[P(r)].writes = 1
  BY <1>0, RelayProgram DEF Fifos!Write, Fifos!HasOpened, Fifos!Opened, RelayRun
<1>2. written[P(r)] \in Nat /\ written'[P(r)] = written[P(r)] + 1
  BY <1>0, Apart DEF Fifos!Write, FifoTypes
<1>3. ~(written'[P(r)] < 1)
  BY <1>2
<1>4. /\ UNCHANGED <<program, path, fd, lost>>
      /\ fifo' = [fifo EXCEPT ![r] = Fifos!Put(@, <<r, written'[P(r)]>>)]
      /\ at' = [at EXCEPT ![P(r)] = "close"]
  BY <1>1, <1>3 DEF Fifos!Write, Fifos!Goto, Fifos!choice, Fifos!names, P
<1>5. at'[P(r)] = "close" /\ at'[K(r)] = at[K(r)] /\ fd' = [fd EXCEPT ![P(r)] = r]
  BY <1>0, <1>1, <1>4, Apart DEF FifoTypes
<1>6. Awaited(r) /\ fifo[r].readers = ReadersOf(r) /\ fifo[r].writers = {P(r)}
  BY <1>0, <1>1 DEF RelayFifo, Tried
<1>7. /\ fifo[r].data = << >> /\ ReadersOf(r) # {}
      /\ \A e \in ReadersOf(r) : at[e] = "read"
  BY <1>1, <1>6 DEF Awaited
<1>8. /\ fifo'[r].readers = fifo[r].readers /\ fifo'[r].writers = fifo[r].writers
      /\ fifo'[r].met = fifo[r].met /\ Len(fifo'[r].data) = 1
  <2> DEFINE g == Fifos!Put(fifo[r], <<r, written'[P(r)]>>)
  <2>1. /\ fifo[r] \in Kernel /\ <<r, written'[P(r)]>> \in Records /\ fifo'[r] = g
    BY <1>0, <1>2, <1>4 DEF FifoTypes, Records
  <2>2. /\ g.readers = fifo[r].readers /\ g.writers = fifo[r].writers
        /\ g.met = fifo[r].met
        /\ g.data = Append(fifo[r].data, <<r, written'[P(r)]>>)
    BY <2>1, PutOne
  <2>3. Len(g.data) = 1
    <3>1. g.data = Append(<< >>, <<r, written'[P(r)]>>)
      BY <1>7, <2>2
    <3>2. << >> \in Seq(Records) /\ Len(<< >>) = 0 /\ <<r, written'[P(r)]>> \in Records
      BY <2>1, EmptySeq
    <3>3. Len(Append(<< >>, <<r, written'[P(r)]>>)) = Len(<< >>) + 1
      BY <3>2, AppendProperties
    <3>. QED
      BY <3>1, <3>2, <3>3
  <2>. QED
    BY <2>1, <2>2, <2>3
<1>9. RelayRun(r)'
  BY <1>0, <1>1, <1>4, <1>5 DEF RelayRun, IsWriter, P, K
<1>10. ASSUME ReadersOf(r)' = ReadersOf(r) PROVE RelayFifo(r)'
  <2>1. \A e \in ReadersOf(r) : at'[e] = "read"
    <3>1. P(r) \notin ReadersOf(r)
      BY DEF ReadersOf
    <3>. QED
      BY <1>0, <1>4, <1>7, <3>1 DEF ReadersOf, FifoTypes
  <2>2. Awaited(r)'
    BY <1>5, <1>7, <1>8, <1>10, <2>1 DEF Awaited, P
  <2>. QED
    BY <1>0, <1>1, <1>4, <1>5, <1>6, <1>8, <1>10, <2>2 DEF RelayFifo, Tried, IsWriter, P
<1>11. \A f \in Runs \ {r} : fifo'[f] = fifo[f]
  BY <1>0, <1>4 DEF FifoTypes
<1>. QED
  BY <1>4, <1>5, <1>9, <1>10, <1>11, WriterStep

LEMMA WriterClose ==
  ASSUME RelayNow, NEW r \in Runs, IsWriter(P(r)), Fifos!CloseWriter(P(r))
  PROVE  RelayNext
<1>0. FifoTypes /\ RelayRun(r) /\ RelayFifo(r) /\ lost = {}
  BY DEF RelayNow
<1>1. /\ at[P(r)] = "close" /\ fd[P(r)] = r /\ ~program[P(r)].forks
  BY <1>0, RelayProgram DEF Fifos!CloseWriter, RelayRun
<1>2. /\ UNCHANGED <<program, path>> /\ Fifos!Close(P(r))
      /\ at' = [at EXCEPT ![P(r)] = "exit"]
  BY <1>1 DEF Fifos!CloseWriter, Fifos!Goto, Fifos!choice, Fifos!names
<1>3. Awaited(r) /\ fifo[r].readers = ReadersOf(r) /\ fifo[r].writers = {P(r)}
  BY <1>0, <1>1 DEF RelayFifo, Tried
<1>4. P(r) \notin ReadersOf(r) /\ (fifo[r].data # << >> => ReadersOf(r) # {})
  BY <1>3 DEF ReadersOf, Awaited
<1>5. /\ fifo'[r].readers = ReadersOf(r) /\ fifo'[r].writers = {}
      /\ fifo'[r].met \subseteq fifo[r].met
      /\ fifo'[r].data = fifo[r].data /\ lost' = lost
      /\ fd' = [fd EXCEPT ![P(r)] = None]
      /\ \A f \in Runs \ {r} : fifo'[f] = fifo[f]
  <2>1. P(r) \in Fifos!Processes /\ fd[P(r)] # None
    BY <1>1, Apart, FifoAssumed
  <2>2. /\ fifo'[r].readers = fifo[r].readers \ {P(r)}
        /\ fifo'[r].writers = fifo[r].writers \ {P(r)}
        /\ fifo'[r].met = fifo[r].met \ {P(r)}
        /\ fifo'[r].data = IF fifo'[r].readers \cup fifo'[r].writers = {} THEN << >>
                           ELSE fifo[r].data
        /\ fifo'[r].data = fifo[r].data => lost' = lost
        /\ fd' = [fd EXCEPT ![P(r)] = None]
        /\ \A f \in Runs \ {r} : fifo'[f] = fifo[f]
    BY <1>0, <1>1, <1>2, <2>1, Closes
  <2>3. fifo'[r].readers = ReadersOf(r) /\ fifo'[r].writers = {}
    BY <1>3, <1>4, <2>2
  <2>4. fifo'[r].data = fifo[r].data
    BY <1>4, <2>2, <2>3
  <2>. QED
    BY <2>2, <2>3, <2>4
<1>6. at'[P(r)] = "exit" /\ at'[K(r)] = at[K(r)] /\ fd'[P(r)] = None /\ fd'[K(r)] = fd[K(r)]
  BY <1>0, <1>2, <1>5, Apart DEF FifoTypes
<1>7. RelayRun(r)'
  BY <1>0, <1>1, <1>2, <1>6 DEF RelayRun, IsWriter, P, K
<1>8. ASSUME ReadersOf(r)' = ReadersOf(r) PROVE RelayFifo(r)'
  <2>1. \A e \in ReadersOf(r) : at'[e] = at[e]
    BY <1>0, <1>2, <1>4 DEF ReadersOf, FifoTypes
  <2>2. Awaited(r)'
    BY <1>1, <1>3, <1>5, <1>6, <1>8, <2>1 DEF Awaited, P
  <2>. QED
    BY <1>0, <1>1, <1>2, <1>5, <1>6, <1>8, <2>2 DEF RelayFifo, Tried, IsWriter, P
<1>. QED
  BY <1>2, <1>5, <1>7, <1>8, WriterStep

\* A step of a reader changes at most the FIFO it has open before or after it.
LEMMA ReaderStep ==
  ASSUME RelayNow, NEW r \in Runs, ~IsWriter(P(r)), program' = program, lost' = lost,
         NEW place, at' = [at EXCEPT ![P(r)] = place],
         NEW of, fd' = [fd EXCEPT ![P(r)] = of],
         \A f \in Runs : fd[P(r)] # f /\ of # f => fifo'[f] = fifo[f],
         \/ path' = path
         \/ path' = None /\ \A q \in Runs \ {r} : ~IsWriter(P(q)) \/ at[P(q)] # "open",
         RelayRun(r)', \A f \in Runs : fd[P(r)] = f \/ of = f => RelayFifo(f)'
  PROVE  RelayNext
<1>0. FifoTypes /\ lost = {} /\ \A q \in Runs : RelayRun(q) /\ RelayFifo(q)
  BY DEF RelayNow
<1>1. /\ \A e \in Fifos!Processes \ {P(r)} : at'[e] = at[e] /\ fd'[e] = fd[e]
      /\ fd'[P(r)] = of
  BY <1>0, Apart DEF FifoTypes
<1>2. ASSUME NEW q \in Runs \ {r} PROVE RelayRun(q)'
  <2>1. /\ P(q) # P(r) /\ K(q) # P(r) /\ P(q) \in Fifos!Processes /\ K(q) \in Fifos!Processes
    BY Apart
  <2>. QED
    BY <1>0, <1>1, <2>1, RelayRunSame
<1>3. ASSUME NEW f \in Runs, fd[P(r)] # f, of # f PROVE RelayFifo(f)'
  <2>1. IsWriter(P(f)) => at'[P(f)] = at[P(f)]
    BY <1>1, Apart
  <2>2. \A e \in Fifos!Processes : ~IsWriter(e) /\ (fd[e] = f \/ fd'[e] = f) =>
           fd'[e] = fd[e] /\ at'[e] = at[e]
    BY <1>1, <1>3
  <2>3. path' = path \/ path' # f
    BY FifoAssumed
  <2>. QED
    BY <1>0, <1>3, <2>1, <2>2, <2>3, RelayFifoSame
<1>. QED
  BY <1>0, <1>2, <1>3 DEF RelayNext

LEMMA ReaderQuiet ==
  ASSUME RelayNow, NEW r \in Runs, ~IsWriter(P(r)), Fifos!Start(P(r)) \/ Fifos!OpenFails(P(r))
  PROVE  RelayNext
<1>0. FifoTypes /\ RelayRun(r)
  BY DEF RelayNow
<1>1. at[P(r)] \in {"start", "open"} /\ fd[P(r)] = None /\ ~program[P(r)].makes
  BY <1>0, RelayProgram DEF Fifos!Start, Fifos!OpenFails, RelayRun
<1>2. UNCHANGED <<program, fifo, fd, lost, path>>
  BY DEF Fifos!Start, Fifos!OpenFails, Fifos!choice, Fifos!names, Fifos!ends
<1>3. PICK place \in {"open", "exit"} : at' = [at EXCEPT ![P(r)] = place]
  BY <1>1 DEF Fifos!Start, Fifos!OpenFails, Fifos!Goto
<1>4. at'[P(r)] = place /\ at'[K(r)] = at[K(r)] /\ fd' = [fd EXCEPT ![P(r)] = None]
  BY <1>0, <1>1, <1>2, <1>3, Apart DEF FifoTypes
<1>5. RelayRun(r)'
  BY <1>0, <1>1, <1>2, <1>3, <1>4 DEF RelayRun, IsWriter, P, K
<1>6. \A f \in Runs : fd[P(r)] # f /\ None # f
  BY <1>1, FifoAssumed
<1>. QED
  BY <1>2, <1>3, <1>4, <1>5, <1>6, ReaderStep

LEMMA ReaderOpen ==
  ASSUME RelayNow, NEW r \in Runs, ~IsWriter(P(r)), Fifos!Open(P(r))
  PROVE  RelayNext
<1>0. FifoTypes /\ RelayRun(r) /\ path \in Runs /\ RelayFifo(path)
  BY DEF RelayNow, FifoTypes, Fifos!Open
<1>1. /\ at[P(r)] = "open" /\ fd[P(r)] = None
      /\ program[P(r)].mode = "r" /\ program[P(r)].writes = 0
  BY <1>0, RelayProgram DEF Fifos!Open, RelayRun
<1>2. /\ UNCHANGED <<program, path, lost>> /\ fd' = [fd EXCEPT ![P(r)] = path]
      /\ fifo' = [fifo EXCEPT ![path] = Fifos!OpenForReading(@, P(r))]
      /\ at' = [at EXCEPT ![P(r)] = "read"]
  BY <1>1 DEF Fifos!Open, Fifos!OpenAs, Fifos!Goto, Fifos!choice, Fifos!names
<1>3. /\ at'[P(r)] = "read" /\ at'[K(r)] = at[K(r)] /\ fd'[P(r)] = path /\ fd'[K(r)] = fd[K(r)]
      /\ path # None
  BY <1>0, <1>2, Apart, FifoAssumed DEF FifoTypes
<1>4. RelayRun(r)'
  BY <1>0, <1>2, <1>3 DEF RelayRun, IsWriter, P, K
<1>5. Tried(path) /\ Awaited(path) /\ IsWriter(P(path)) /\ P(path) # P(r)
  BY <1>0 DEF RelayFifo, Tried
<1>6. /\ fifo[path].readers = ReadersOf(path) /\ P(r) \notin ReadersOf(path)
      /\ fifo[path].writers = (IF at[P(path)] \in {"write", "close"} THEN {P(path)} ELSE {})
      /\ P(r) \notin fifo[path].met
  <2>1. /\ fifo[path].readers = ReadersOf(path) /\ P(r) \notin ReadersOf(path)
        /\ fifo[path].writers = (IF at[P(path)] \in {"write", "close"} THEN {P(path)} ELSE {})
    BY <1>0, <1>1, <1>3, <1>5 DEF RelayFifo, ReadersOf
  <2>2. fifo[path].met \subseteq fifo[path].readers \cup fifo[path].writers
    BY <1>0 DEF FifoTypes, Kernel
  <2>. QED
    BY <1>5, <2>1, <2>2
<1>7. /\ fifo'[path].readers = fifo[path].readers \cup {P(r)}
      /\ fifo'[path].writers = fifo[path].writers /\ fifo'[path].data = fifo[path].data
      /\ fifo'[path].met = IF fifo[path].writers = {} THEN fifo[path].met
                           ELSE fifo[path].met \cup {P(r)} \cup fifo[path].writers
  <2> DEFINE g == Fifos!OpenForReading(fifo[path], P(r))
  <2>1. P(r) \in Fifos!Processes /\ fifo[path] \in Kernel /\ fifo'[path] = g
    BY <1>0, <1>2, Apart DEF FifoTypes
  <2>2. /\ g.readers = fifo[path].readers \cup {P(r)} /\ g.writers = fifo[path].writers
        /\ g.data = fifo[path].data
        /\ g.met = IF fifo[path].writers = {} THEN fifo[path].met
                   ELSE fifo[path].met \cup {P(r)} \cup fifo[path].writers
    BY <2>1, OpenRead
  <2>. QED
    BY <2>1, <2>2
<1>8. ReadersOf(path)' = ReadersOf(path) \cup {P(r)}
  <2>1. \A e \in Fifos!Processes \ {P(r)} : fd'[e] = fd[e]
    BY <1>0, <1>2 DEF FifoTypes
  <2>. QED
    BY <1>2, <1>3, <2>1, Apart DEF ReadersOf, IsWriter, Fifos!Processes
<1>9. /\ at'[P(path)] = at[P(path)] /\ \A e \in ReadersOf(path) : at'[e] = at[e]
  BY <1>0, <1>2, <1>5, <1>6, Apart DEF FifoTypes, ReadersOf
<1>10. \A e \in ReadersOf(path) \cup {P(r)} : e \in fifo'[path].met => at[P(path)] # "open"
  BY <1>5, <1>6, <1>7 DEF Awaited
<1>11. Awaited(path)'
  <2>1. \A e \in ReadersOf(path)' : e \in fifo'[path].met => at'[P(path)] # "open"
    BY <1>8, <1>9, <1>10
  <2>2. at'[P(path)] \in {"open", "write"} \/ fifo'[path].data # << >> =>
          \A e \in ReadersOf(path)' : at'[e] = "read"
    BY <1>3, <1>5, <1>7, <1>8, <1>9 DEF Awaited
  <2>3. /\ fifo'[path].data # << >> =>
             ReadersOf(path)' # {} /\ at'[P(path)] \notin {"open", "write"}
        /\ Len(fifo'[path].data) <= 1 /\ ReadersOf(path)' # {}
    BY <1>5, <1>7, <1>8, <1>9 DEF Awaited
  <2>. QED
    BY <1>2, <2>1, <2>2, <2>3 DEF Awaited, P
<1>12. RelayFifo(path)'
  BY <1>2, <1>5, <1>6, <1>7, <1>8, <1>9, <1>11 DEF RelayFifo, Tried, IsWriter, P
<1>13. \A f \in Runs : path # f => fifo'[f] = fifo[f]
  BY <1>0, <1>2 DEF FifoTypes
<1>14. \A f \in Runs : fd[P(r)] = f \/ path = f => RelayFifo(f)'
  BY <1>1, <1>2, <1>12, FifoAssumed
<1>. QED
  BY <1>2, <1>4, <1>13, <1>14, ReaderStep

\* A reader takes the record its writer has left, or finds that nothing comes.
LEMMA ReaderReads ==
  ASSUME RelayNow, NEW r \in Runs, ~IsWriter(P(r)), Fifos!Read(P(r)) \/ Fifos!ReadEOF(P(r))
  PROVE  RelayNext
<1> DEFINE f == fd[P(r)]
<1>0. FifoTypes /\ RelayRun(r) /\ \A q \in Runs : RelayFifo(q)
  BY DEF RelayNow
<1>1. /\ at[P(r)] = "read" /\ f # None /\ f \in Runs /\ P(r) \in fifo[f].met
  BY <1>0, Apart DEF Fifos!Read, Fifos!ReadEOF, Fifos!HasOpened, Fifos!Opened, FifoTypes
<1>2. P(r) \in ReadersOf(f)
  BY Apart DEF ReadersOf
<1>3. Tried(f) /\ Awaited(f) /\ IsWriter(P(f)) /\ P(f) # P(r)
  BY <1>0, <1>1, <1>2 DEF RelayFifo, Tried
<1>4. UNCHANGED <<program, path, fd, lost>> /\ at' = [at EXCEPT ![P(r)] = "exit"]
  BY RelayProgram DEF Fifos!Read, Fifos!ReadEOF, Fifos!ReadsOn, Fifos!Goto, Fifos!choice,
     Fifos!names, Fifos!ends
<1>5. /\ fifo'[f].readers = fifo[f].readers /\ fifo'[f].writers = fifo[f].writers
      /\ fifo'[f].met = fifo[f].met /\ fifo'[f].data = << >>
      /\ \A q \in Runs : f # q => fifo'[q] = fifo[q]
      /\ at[P(f)] \notin {"open", "write"}
  <2>1. CASE Fifos!Read(P(r))
    <3> DEFINE g == Fifos!Drop(fifo[f])
    <3>1. fifo[f].data # << >> /\ fifo' = [fifo EXCEPT ![f] = g]
      BY <2>1 DEF Fifos!Read, Fifos!HasData
    <3>2. fifo[f] \in Kernel /\ fifo'[f] = g /\ \A q \in Runs : f # q => fifo'[q] = fifo[q]
      BY <1>0, <1>1, <3>1 DEF FifoTypes
    <3>3. /\ g.readers = fifo[f].readers /\ g.writers = fifo[f].writers
          /\ g.met = fifo[f].met /\ g.data = Tail(fifo[f].data)
          /\ fifo[f].data \in Seq(Records)
      BY <3>1, <3>2, DropOne
    <3>4. Len(fifo[f].data) <= 1 /\ at[P(f)] \notin {"open", "write"}
      BY <1>3, <3>1 DEF Awaited
    <3>5. Tail(fifo[f].data) = << >>
      <4>1. /\ Len(fifo[f].data) \in Nat /\ Tail(fifo[f].data) \in Seq(Records)
            /\ Len(Tail(fifo[f].data)) = Len(fifo[f].data) - 1
        BY <3>1, <3>3, HeadTailProperties, LenProperties
      <4>2. Len(Tail(fifo[f].data)) \notin Nat \ {0}
        <5>1. \A n \in Nat : n <= 1 => n - 1 \notin Nat \ {0}
          OBVIOUS
        <5>. QED
          BY <3>4, <4>1, <5>1
      <4>3. \A seq \in Seq(Records) : seq # << >> => Len(seq) \in Nat \ {0}
        BY EmptySeq
      <4>. QED
        BY <4>1, <4>2, <4>3
    <3>. QED
      BY <3>2, <3>3, <3>4, <3>5
  <2>2. CASE Fifos!ReadEOF(P(r))
    <3>1. UNCHANGED fifo /\ fifo[f].data = << >> /\ fifo[f].writers = {}
      BY <2>2 DEF Fifos!ReadEOF, Fifos!AtEOF, Fifos!ends
    <3>2. at[P(f)] \notin {"write", "close"}
      BY <1>0, <1>1, <1>3, <3>1 DEF RelayFifo
    <3>3. at[P(f)] # "open"
      BY <1>1, <1>2, <1>3 DEF Awaited
    <3>. QED
      BY <3>1, <3>2, <3>3
  <2>. QED
    BY <2>1, <2>2
<1>6. /\ at'[P(r)] = "exit" /\ at'[K(r)] = at[K(r)] /\ fd' = [fd EXCEPT ![P(r)] = f]
      /\ at'[P(f)] = at[P(f)]
  BY <1>0, <1>1, <1>3, <1>4, Apart DEF FifoTypes
<1>7. RelayRun(r)'
  BY <1>0, <1>1, <1>4, <1>6 DEF RelayRun, IsWriter, P, K
<1>8. \A q \in Runs : f = q => RelayFifo(q)'
  <2> SUFFICES ASSUME NEW q \in Runs, q = f PROVE RelayFifo(q)'
    OBVIOUS
  <2>1. ReadersOf(q)' = ReadersOf(q)
    BY <1>4 DEF ReadersOf, IsWriter, Fifos!Processes
  <2>2. Len(<< >>) = 0
    BY EmptySeq
  <2> HIDE DEF f
  <2>3. /\ fifo'[q].readers = fifo[q].readers /\ fifo'[q].writers = fifo[q].writers
        /\ fifo'[q].met = fifo[q].met /\ fifo'[q].data = << >>
        /\ at[P(q)] \notin {"open", "write"} /\ at'[P(q)] = at[P(q)]
        /\ Tried(q) /\ RelayFifo(q)
    BY <1>0, <1>3, <1>5, <1>6
  <2>4. Awaited(q)'
    BY <2>1, <2>2, <2>3 DEF Awaited, P
  <2>. QED
    BY <1>4, <2>1, <2>3, <2>4 DEF RelayFifo, Tried, IsWriter, P
<1> HIDE DEF f
<1>9. /\ \A q \in Runs : fd[P(r)] # q /\ f # q => fifo'[q] = fifo[q]
      /\ \A q \in Runs : fd[P(r)] = q \/ f = q => RelayFifo(q)'
  BY <1>5, <1>8 DEF f
<1>. QED
  BY <1>4, <1>6, <1>7, <1>9, ReaderStep

\* exit() of a reader: no writer needed the name it unlinks.
LEMMA ReaderExit ==
  ASSUME RelayNow, NEW r \in Runs, ~IsWriter(P(r)), Fifos!Exit(P(r)), Fifos!Undisturbed'
  PROVE  RelayNext
<1> DEFINE f == fd[P(r)]
<1>0. FifoTypes /\ RelayRun(r) /\ lost = {} /\ \A q \in Runs : RelayRun(q) /\ RelayFifo(q)
  BY DEF RelayNow
<1>1. /\ at[P(r)] = "exit" /\ Fifos!Close(P(r)) /\ program' = program /\ path' = None
      /\ at' = [at EXCEPT ![P(r)] = "done"]
  BY RelayProgram DEF Fifos!Exit, Fifos!Goto, Fifos!choice
<1>2. \A q \in Runs \ {r} : ~IsWriter(P(q)) \/ at[P(q)] # "open"
  <2> SUFFICES ASSUME NEW q \in Runs \ {r}, IsWriter(P(q)), at[P(q)] = "open" PROVE FALSE
    OBVIOUS
  <2>1. path = q /\ Fifos!NeedsName(q)
    BY <1>0, Needs DEF RelayRun
  <2>2. P(r)[1] = r
    BY DEF P
  <2>3. q \in stolen'
    BY <2>1, <2>2, RelayProgram DEF Fifos!Exit
  <2>. QED
    BY <2>3 DEF Fifos!Undisturbed
<1>3. /\ fd' = [fd EXCEPT ![P(r)] = None] /\ (f = None => fifo' = fifo /\ lost' = lost)
      /\ \A q \in Runs : q # f => fifo'[q] = fifo[q]
  BY <1>0, <1>1, Apart, Closes
<1>4. at'[P(r)] = "done" /\ at'[K(r)] = at[K(r)] /\ fd'[P(r)] = None /\ fd'[K(r)] = fd[K(r)]
  BY <1>0, <1>1, <1>3, Apart DEF FifoTypes
<1>5. RelayRun(r)'
  BY <1>0, <1>1, <1>3, <1>4 DEF RelayRun, IsWriter, P, K
<1>6. ASSUME NEW q \in Runs, f = q PROVE RelayFifo(q)' /\ lost' = lost
  <2>1. P(r) \in ReadersOf(q) /\ f # None
    BY <1>6, Apart, FifoAssumed DEF ReadersOf
  <2>2. Tried(q) /\ Awaited(q) /\ IsWriter(P(q)) /\ P(q) # P(r)
    BY <1>0, <2>1 DEF RelayFifo, Tried
  <2>3. at[P(q)] \notin {"open", "write"} /\ fifo[q].data = << >>
    BY <1>1, <2>1, <2>2 DEF Awaited
  <2>4. /\ fifo'[q].readers = fifo[q].readers \ {P(r)}
        /\ fifo'[q].writers = fifo[q].writers \ {P(r)}
        /\ fifo'[q].data = IF fifo'[q].readers \cup fifo'[q].writers = {} THEN << >>
                           ELSE fifo[q].data
        /\ fifo'[q].data = fifo[q].data => lost' = lost
    BY <1>0, <1>1, <1>6, <2>1, Apart, Closes
  <2>5. fifo'[q].data = << >> /\ lost' = lost
    BY <2>3, <2>4
  <2>6. ReadersOf(q)' = ReadersOf(q) \ {P(r)}
    <3>1. \A e \in Fifos!Processes \ {P(r)} : fd'[e] = fd[e]
      BY <1>0, <1>3 DEF FifoTypes
    <3>. QED
      BY <1>1, <1>4, <3>1, FifoAssumed DEF ReadersOf, IsWriter, Fifos!Processes
  <2>7. at'[P(q)] = at[P(q)]
    BY <1>0, <1>1, <2>2, Apart DEF FifoTypes
  <2>8. Awaited(q)'
    <3>1. Len(<< >>) = 0
      BY EmptySeq
    <3>. QED
      BY <2>3, <2>5, <2>7, <3>1 DEF Awaited, P
  <2>9. /\ fifo[q].readers = ReadersOf(q) /\ P(r) \notin fifo[q].writers
        /\ fifo[q].writers = (IF at[P(q)] \in {"write", "close"} THEN {P(q)} ELSE {})
    BY <1>0, <2>2 DEF RelayFifo
  <2>. QED
    BY <1>1, <2>2, <2>4, <2>5, <2>6, <2>7, <2>8, <2>9 DEF RelayFifo, Tried, IsWriter, P
<1>7. lost' = lost
  <2>1. f \in Runs \cup {None}
    BY <1>0, Apart DEF FifoTypes
  <2>. QED
    BY <1>3, <1>6, <2>1
<1> HIDE DEF f
<1>8. /\ \A q \in Runs : fd[P(r)] # q /\ None # q => fifo'[q] = fifo[q]
      /\ \A q \in Runs : fd[P(r)] = q \/ None = q => RelayFifo(q)'
  BY <1>3, <1>6, FifoAssumed DEF f
<1>. QED
  BY <1>1, <1>2, <1>3, <1>5, <1>7, <1>8, ReaderStep

LEMMA RelayStep ==
  ASSUME RelayNow, NEW e \in Fifos!Processes, Fifos!Undisturbed',
         Fifos!Start(e) \/ Fifos!Step(e) \/ Fifos!Interrupt(e)
  PROVE  RelayNext
<1> DEFINE r == e[1]
<1>0. r \in Runs /\ (e = P(r) \/ e = K(r)) /\ RelayRun(r) /\ RelayFifo(r)
  BY FifoAssumed DEF RelayNow
<1> HIDE DEF r
<1>1. ~Fifos!Interrupt(e)
  BY DEF Fifos!Interrupt, Fifos!Undisturbed
<1>2. at[e] # "unborn"
  BY <1>1 DEF Fifos!Step, Fifos!Start, Fifos!Mkfifo, Fifos!MkfifoFails, Fifos!Fork,
     Fifos!ForkFails, Fifos!Open, Fifos!OpenFails, Fifos!Write, Fifos!CloseWriter, Fifos!Wait,
     Fifos!Read, Fifos!ReadEOF, Fifos!BrokenPipe, Fifos!Exit
<1>3. e = P(r)
  BY <1>0, <1>2 DEF RelayRun
<1>4. CASE IsWriter(P(r))
  <2>1. ~(Fifos!Fork(e) \/ Fifos!ForkFails(e) \/ Fifos!Wait(e) \/ Fifos!Read(e)
          \/ Fifos!ReadEOF(e))
    BY <1>0, <1>3, <1>4 DEF RelayRun, Fifos!Fork, Fifos!ForkFails, Fifos!Wait, Fifos!Read,
       Fifos!ReadEOF
  <2>2. ~Fifos!OpenFails(e)
    BY <1>0, <1>3, <1>4, FifoAssumed DEF RelayRun, Fifos!OpenFails
  <2>3. ~Fifos!BrokenPipe(e)
    <3> SUFFICES ASSUME Fifos!BrokenPipe(e) PROVE FALSE
      OBVIOUS
    <3>1. /\ at[P(r)] = "write" /\ fd[P(r)] = r /\ P(r) \in fifo[r].met
          /\ fifo[r].readers = {}
      BY <1>0, <1>3, <1>4 DEF RelayRun, Fifos!BrokenPipe, Fifos!HasOpened, Fifos!Opened,
         Fifos!Broken
    <3>. QED
      BY <1>0, <1>4, <3>1 DEF RelayFifo, Tried, Awaited
  <2>. QED
    BY <1>0, <1>1, <1>3, <1>4, <2>1, <2>2, <2>3, WriterQuiet, WriterOpen, WriterWrite,
       WriterClose DEF Fifos!Step
<1>5. CASE ~IsWriter(P(r))
  <2>1. ~(Fifos!Mkfifo(e) \/ Fifos!MkfifoFails(e) \/ Fifos!Fork(e) \/ Fifos!ForkFails(e)
          \/ Fifos!Write(e) \/ Fifos!CloseWriter(e) \/ Fifos!Wait(e) \/ Fifos!BrokenPipe(e))
    BY <1>0, <1>3, <1>5 DEF RelayRun, Fifos!Mkfifo, Fifos!MkfifoFails, Fifos!Fork,
       Fifos!ForkFails, Fifos!Write, Fifos!CloseWriter, Fifos!Wait, Fifos!BrokenPipe
  <2>. QED
    BY <1>0, <1>1, <1>3, <1>5, <2>1, ReaderQuiet, ReaderOpen, ReaderReads,
       ReaderExit DEF Fifos!Step
<1>. QED
  BY <1>4, <1>5

-----------------------------------------------------------------------------
LEMMA FifoInit ==
  ASSUME Fifos!Init
  PROVE  FifoInv
<1>1. FifoTypes
  BY FifoTypesInit
<1>2. /\ lost = {} /\ path = None
      /\ \A r \in Runs :
           /\ at[P(r)] = "start" /\ at[K(r)] = "unborn" /\ fd[P(r)] = None /\ fd[K(r)] = None
           /\ written[P(r)] = 0 /\ read[K(r)] = << >>
           /\ fifo[r].readers = {} /\ fifo[r].writers = {} /\ fifo[r].met = {}
           /\ fifo[r].data = << >>
      /\ \A e \in Fifos!Processes : fd[e] = None
  BY DEF Fifos!Init, Fifos!NewFifo, Fifos!Processes, P, K
<1>3. ASSUME NEW r \in Runs PROVE SumRun(r)
  <2>1. << >> \o << >> = Numbered(r, 0)
    <3>1. << >> \o << >> = << >>
      BY EmptySeq, ConcatEmptySeq
    <3>2. Numbered(r, 0) = << >>
      BY DEF Numbered
    <3>. QED
      BY <3>1, <3>2
  <2>2. SumPlaces(r) /\ SumEnds(r)
    BY <1>2 DEF SumPlaces, SumEnds, FifoPlaces
  <2>3. SumData(r)
    BY <1>2, <2>1 DEF SumData
  <2>. QED
    BY <2>2, <2>3 DEF SumRun
<1>4. ASSUME NEW r \in Runs PROVE RelayRun(r) /\ RelayFifo(r)
  <2>1. ReadersOf(r) = {}
    BY <1>2, FifoAssumed DEF ReadersOf
  <2>2. ~Tried(r) /\ path # r
    BY <1>2, FifoAssumed DEF Tried
  <2>. QED
    BY <1>2, <2>1, <2>2 DEF RelayRun, RelayFifo
<1>. QED
  BY <1>1, <1>2, <1>3, <1>4 DEF FifoInv

LEMMA FifoStep ==
  ASSUME FifoInv, Fifos!Next
  PROVE  FifoInv'
<1>1. PICK e \in Fifos!Processes : Fifos!Start(e) \/ Fifos!Step(e) \/ Fifos!Interrupt(e)
  BY DEF Fifos!Next
<1>2. FifoTypes'
  BY <1>1, FifoTypesStep DEF FifoInv
<1>3. group' = group /\ (Fifos!Undisturbed' => Fifos!Undisturbed)
  <2>1. group' = group
    BY <1>1 DEF Fifos!Step, Fifos!Start, Fifos!Mkfifo, Fifos!MkfifoFails, Fifos!Fork,
       Fifos!ForkFails, Fifos!Open, Fifos!OpenFails, Fifos!Write, Fifos!CloseWriter,
       Fifos!Wait, Fifos!Read, Fifos!ReadEOF, Fifos!BrokenPipe, Fifos!Exit, Fifos!Interrupt,
       Fifos!Killed, Fifos!choice
  <2>2. stolen \subseteq stolen' /\ interrupted \subseteq interrupted'
    BY <1>1 DEF Fifos!Step, Fifos!Start, Fifos!Mkfifo, Fifos!MkfifoFails, Fifos!Fork,
       Fifos!ForkFails, Fifos!Open, Fifos!OpenFails, Fifos!Write, Fifos!CloseWriter,
       Fifos!Wait, Fifos!Read, Fifos!ReadEOF, Fifos!BrokenPipe, Fifos!Exit, Fifos!Interrupt,
       Fifos!Killed, Fifos!names
  <2>. QED
    BY <2>1, <2>2 DEF Fifos!Undisturbed
<1>4. ASSUME Fifos!Undisturbed', group = {Fifos!FifoNumberSum}
      PROVE  \A r \in Runs : SumRun(r)'
  <2>1. SumNow
    BY <1>3, <1>4 DEF FifoInv, SumNow
  <2>. QED
    BY <1>1, <1>4, <2>1, SumStep
<1>5. ASSUME Fifos!Undisturbed', Fifos!fifoReader \in group
      PROVE  RelayNext
  <2>1. RelayNow
    BY <1>3, <1>5 DEF FifoInv, RelayNow
  <2>. QED
    BY <1>1, <1>5, <2>1, RelayStep
<1>. QED
  BY <1>2, <1>3, <1>4, <1>5 DEF FifoInv, RelayNext

LEMMA FifoRight ==
  ASSUME FifoInv
  PROVE  Fifos!FifoDelivers
<1>1. ASSUME Fifos!Undisturbed, group = {Fifos!FifoNumberSum}, NEW r \in Runs,
             at[<<r, 1>>] = "done"
      PROVE  read[<<r, 1>>] = [i \in 1 .. Numbers |-> <<r, i>>]
  <2>1. /\ read[K(r)] \o fifo[r].data = Numbered(r, written[P(r)])
        /\ written[P(r)] = Numbers /\ fifo[r].data = << >>
    BY <1>1 DEF FifoInv, SumRun, SumData, K
  <2>2. read[K(r)] \in Seq(Records)
    BY Apart DEF FifoInv, FifoTypes
  <2>3. read[K(r)] \o << >> = read[K(r)]
    BY <2>2, ConcatEmptySeq
  <2>. QED
    BY <2>1, <2>3 DEF Numbered, K
<1>2. ASSUME Fifos!Undisturbed, Fifos!fifoReader \in group, NEW e \in Fifos!Processes
      PROVE  at[e] # "killed"
  <2>1. PICK r \in Runs : e = P(r) \/ e = K(r)
    BY FifoAssumed
  <2>2. RelayRun(r)
    BY <1>2 DEF FifoInv
  <2>. QED
    BY <2>1, <2>2 DEF RelayRun
<1>3. Fifos!Undisturbed /\ Fifos!fifoReader \in group => lost = {}
  BY DEF FifoInv
<1>. QED
  BY <1>1, <1>2, <1>3 DEF Fifos!FifoDelivers

-----------------------------------------------------------------------------
(* The whole *)

DataInv ==
    /\ kind = "files" => FilesInv
    /\ kind = "fifo" => FifoInv

LEMMA DataSame ==
  ASSUME DataInv, UNCHANGED vars
  PROVE  DataInv'
<1>0. UNCHANGED <<kind, program, at>> /\ UNCHANGED fifoVars /\ UNCHANGED fileVars
  BY DEF vars
<1>1. kind = "files" => FilesInv'
  <2> SUFFICES ASSUME kind = "files" PROVE FilesInv'
    OBVIOUS
  <2>1. UNCHANGED units /\ FilesInv /\ UNCHANGED <<source, offset, buffer, destination>>
    BY <1>0 DEF DataInv, units, fileVars
  <2>2. InOrder' /\ Stored' = Stored
    BY <1>0, <2>1, OrderSame DEF FilesInv
  <2>3. \A r \in CopyRuns : RunOk(r)'
    BY <1>0, <2>1, <2>2, RunSame DEF FilesInv
  <2>4. FileTypes' /\ (program' = Files!copy => Alone')
    BY <1>0, <2>1 DEF FilesInv, FileTypes, Alone, Files!Places
  <2>. QED
    BY <2>2, <2>3, <2>4 DEF FilesInv
<1>2. kind = "fifo" => FifoInv'
  <2> SUFFICES ASSUME kind = "fifo" PROVE FifoInv'
    OBVIOUS
  <2>1. FifoInv /\ UNCHANGED <<group, path, fifo, fd, written, read, lost, stolen, interrupted>>
    BY <1>0 DEF DataInv, fifoVars
  <2>2. FifoTypes'
    BY <1>0, <2>1 DEF FifoInv, FifoTypes
  <2>3. Fifos!Undisturbed' <=> Fifos!Undisturbed
    BY <2>1 DEF Fifos!Undisturbed
  <2>4. ASSUME NEW r \in Runs, SumRun(r) PROVE SumRun(r)'
    BY <1>0, <2>1, <2>4, SumSame
  <2>5. ASSUME NEW r \in Runs, RelayRun(r), RelayFifo(r) PROVE RelayRun(r)' /\ RelayFifo(r)'
    BY <1>0, <2>1, <2>5, RelayRunSame, RelayFifoSame
  <2>. QED
    BY <2>1, <2>2, <2>3, <2>4, <2>5 DEF FifoInv
<1>. QED
  BY <1>0, <1>1, <1>2 DEF DataInv

LEMMA DataInit ==
  ASSUME Init
  PROVE  DataInv
<1>1. CASE kind \notin {"fifo", "files"}
  BY <1>1 DEF DataInv
<1>2. CASE kind = "fifo"
  BY <1>2, FifoInit DEF Init, DataInv
<1>3. CASE kind = "files"
  BY <1>3, FilesInit DEF Init, DataInv
<1>. QED
  BY <1>1, <1>2, <1>3

LEMMA DataStep ==
  ASSUME DataInv, [Next]_vars
  PROVE  DataInv'
<1>1. CASE UNCHANGED vars
  BY <1>1, DataSame
<1>2. CASE \/ BarrierOnly /\ Barrier!Next
           \/ CountersOnly /\ Counters!Next
           \/ ExchangeOnly /\ Exchange!Next
           \/ TreeOnly /\ Tree!Next
  BY <1>2 DEF DataInv, BarrierOnly, CountersOnly, ExchangeOnly, TreeOnly, Only
<1>3. CASE FifoOnly /\ Fifos!Next
  BY <1>3, FifoStep DEF DataInv, FifoOnly, NoFamily, Only
<1>4. CASE FilesOnly /\ Files!Next
  BY <1>4, FilesStep DEF DataInv, FilesOnly, NoFamily, Only
<1>5. CASE (FifoOnly /\ FifosRest) \/ (FilesOnly /\ FilesRest)
  BY <1>5, DataSame DEF FifosRest, FilesRest
<1>. QED
  BY <1>1, <1>2, <1>3, <1>4, <1>5 DEF Next

\* DataArrives: FifoNumberSum.c reads its own numbers, all of them, and nothing
\* that fifoCreateAndWrite.c writes gets lost, unless somebody presses CTRL+C or
\* unlinks the name of a FIFO before its maker has opened it; the two programs
\* that copy files succeed with their sources in the destination.
THEOREM DataArrivesHolds == Spec => []DataArrives
<1>1. Init => DataInv
  BY DataInit
<1>2. DataInv /\ [Next]_vars => DataInv'
  BY DataStep
<1>3. DataInv => DataArrives
  BY FilesRight, FifoRight DEF DataInv, DataArrives
<1>. QED
  BY <1>1, <1>2, <1>3, PTL DEF Spec

-----------------------------------------------------------------------------
(* The barrier by end of file *)

BarrierTypes ==
    /\ parent \in {"fork", "failed", "read", "wait", "done"}
    /\ index \in 0 .. NumChildren
    /\ child \in [Barrier!Children ->
                    {"unborn", "T1", "close", "T2", "exit", "ended", "reaped"}]
    /\ completed \in [Barrier!Children -> SUBSET {"T1", "T2"}]

Reaped == {k \in Barrier!Children : child[k] = "reaped"}

\* Who has the write end; what each child has done; whom the parent has waited for.
BarrierInv ==
    /\ BarrierTypes
    /\ \A k \in Barrier!Children :
        /\ child[k] \in {"T1", "close"} => k \in writeEnd
        /\ child[k] \in {"close", "T2", "exit"} => "T1" \in completed[k]
        /\ child[k] = "exit" => completed[k] = {"T1", "T2"}
        /\ parent = "fork" => (child[k] = "unborn" <=> k > index)
        /\ parent \in {"read", "wait", "done"} => child[k] # "unborn"
        /\ parent \in {"fork", "failed", "read"} => child[k] # "reaped"
        /\ "first" \in said => child[k] \notin {"T1", "close"}
    /\ parent \in {"fork", "failed", "read"} => said = {}
    /\ parent = "wait" => "second" \notin said /\ index = Cardinality(Reaped)
    /\ parent = "done" => Reaped = Barrier!Children

LEMMA BarrierAssumed == NumChildren \in Nat /\ Barrier!Children = 1 .. NumChildren
BY PipeAssumption DEF Barrier!BarrierAssumption, Barrier!Children

LEMMA BarrierInit ==
  ASSUME Barrier!Init
  PROVE  BarrierInv
BY BarrierAssumed DEF Barrier!Init, BarrierInv, BarrierTypes

LEMMA BarrierForks ==
  ASSUME BarrierInv, Barrier!Fork \/ Barrier!ForkFails \/ Barrier!CloseWriteEnd
  PROVE  BarrierInv'
<1>1. CASE Barrier!Fork
  <2>1. index + 1 \in Barrier!Children /\ index \in Nat
    BY <1>1, BarrierAssumed DEF BarrierInv, BarrierTypes, Barrier!Fork
  <2>2. \A k \in Barrier!Children : child'[k] = IF k = index + 1 THEN "T1" ELSE child[k]
    BY <1>1, <2>1 DEF BarrierInv, BarrierTypes, Barrier!Fork
  <2>3. BarrierTypes'
    BY <1>1, <2>1, BarrierAssumed DEF BarrierInv, BarrierTypes, Barrier!Fork
  <2>4. \A k \in Barrier!Children : k > index' <=> k > index /\ k # index + 1
    BY <1>1, <2>1, BarrierAssumed DEF Barrier!Fork
  <2>. QED
    BY <1>1, <2>1, <2>2, <2>3, <2>4 DEF BarrierInv, Barrier!Fork
<1>2. CASE Barrier!ForkFails
  <2>1. \A k \in Barrier!Children : k \in writeEnd => k \in writeEnd'
    BY <1>2, BarrierAssumed DEF Barrier!ForkFails
  <2>. QED
    BY <1>2, <2>1 DEF BarrierInv, BarrierTypes, Barrier!ForkFails
<1>3. CASE Barrier!CloseWriteEnd
  <2>1. \A k \in Barrier!Children : k \in writeEnd => k \in writeEnd'
    BY <1>3, BarrierAssumed DEF Barrier!CloseWriteEnd
  <2>2. \A k \in Barrier!Children : ~(k > index)
    BY <1>3, BarrierAssumed DEF Barrier!CloseWriteEnd
  <2>. QED
    BY <1>3, <2>1, <2>2 DEF BarrierInv, BarrierTypes, Barrier!CloseWriteEnd
<1>. QED
  BY <1>1, <1>2, <1>3

\* Nobody has a write end any more: every child is past its first task.
LEMMA BarrierReadEOF ==
  ASSUME BarrierInv, Barrier!ReadEOF
  PROVE  BarrierInv'
<1>1. Reaped' = {} /\ Cardinality({}) = 0
  BY FS_EmptySet DEF BarrierInv, Barrier!ReadEOF, Reaped, Barrier!Children
<1>2. \A k \in Barrier!Children : child[k] \notin {"T1", "close"}
  BY DEF BarrierInv, Barrier!ReadEOF
<1>. QED
  BY <1>1, <1>2, BarrierAssumed DEF BarrierInv, BarrierTypes, Barrier!ReadEOF

LEMMA BarrierWaits ==
  ASSUME BarrierInv, Barrier!Wait \/ Barrier!SaySecond
  PROVE  BarrierInv'
<1>0. IsFiniteSet(Barrier!Children) /\ Cardinality(Barrier!Children) = NumChildren
      /\ Reaped \subseteq Barrier!Children
  BY BarrierAssumed, FS_Interval DEF Reaped
<1>1. IsFiniteSet(Reaped)
  BY <1>0, FS_Subset
<1>2. CASE Barrier!Wait
  <2>1. PICK k \in Barrier!Children :
          child[k] = "ended" /\ child' = [child EXCEPT ![k] = "reaped"]
    BY <1>2 DEF Barrier!Wait
  <2>2. Reaped' = Reaped \cup {k} /\ k \notin Reaped
    BY <2>1 DEF BarrierInv, BarrierTypes, Reaped, Barrier!Children
  <2>3. Cardinality(Reaped') = Cardinality(Reaped) + 1
    BY <1>1, <2>2, FS_AddElement
  <2>. QED
    BY <1>2, <2>1, <2>3, BarrierAssumed DEF BarrierInv, BarrierTypes, Barrier!Wait
<1>3. CASE Barrier!SaySecond
  <2>1. Cardinality(Reaped) = NumChildren
    BY <1>3 DEF BarrierInv, Barrier!SaySecond
  <2>2. Reaped = Barrier!Children
    BY <1>0, <2>1, FS_Subset
  <2>3. Reaped' = Reaped
    BY <1>3 DEF Barrier!SaySecond, Reaped, Barrier!Children
  <2>. QED
    BY <1>3, <2>2, <2>3 DEF BarrierInv, BarrierTypes, Barrier!SaySecond
<1>. QED
  BY <1>2, <1>3

LEMMA BarrierChildren ==
  ASSUME BarrierInv, NEW k \in Barrier!Children, Barrier!ChildStep(k) \/ Barrier!EndEarly(k)
  PROVE  BarrierInv'
<1>1. /\ UNCHANGED <<parent, index, said>>
      /\ \A j \in Barrier!Children \ {k} :
           child'[j] = child[j] /\ completed'[j] = completed[j] /\ (j \in writeEnd => j \in writeEnd')
  BY DEF BarrierInv, BarrierTypes, Barrier!ChildStep, Barrier!DoFirst, Barrier!CloseChildEnd,
         Barrier!DoSecond, Barrier!ChildExit, Barrier!EndEarly, Barrier!End
<1>2. /\ \/ child[k] = "T1" /\ child'[k] = "close" /\ "T1" \in completed'[k] /\ writeEnd' = writeEnd
         \/ child[k] = "close" /\ child'[k] = "T2" /\ completed'[k] = completed[k]
         \/ child[k] = "T2" /\ child'[k] = "exit" /\ completed'[k] = completed[k] \cup {"T2"}
         \/ child[k] \in {"T1", "close", "T2", "exit"} /\ child'[k] = "ended"
      /\ BarrierTypes'
  BY DEF BarrierInv, BarrierTypes, Barrier!ChildStep, Barrier!DoFirst, Barrier!CloseChildEnd,
         Barrier!DoSecond, Barrier!ChildExit, Barrier!EndEarly, Barrier!End
<1>3. Reaped' = Reaped
  BY <1>1, <1>2 DEF Reaped, Barrier!Children
<1>4. \A j \in Barrier!Children :
        /\ child'[j] \in {"T1", "close"} => j \in writeEnd'
        /\ child'[j] \in {"close", "T2", "exit"} => "T1" \in completed'[j]
        /\ child'[j] = "exit" => completed'[j] = {"T1", "T2"}
        /\ child'[j] \notin {"T1", "close"} \/ child[j] \in {"T1", "close"}
        /\ (child'[j] = "unborn" <=> child[j] = "unborn")
        /\ (child'[j] = "reaped" <=> child[j] = "reaped")
  <2>1. completed[k] \subseteq {"T1", "T2"}
    BY DEF BarrierInv, BarrierTypes
  <2>. QED
    BY <1>1, <1>2, <2>1 DEF BarrierInv
<1>. QED
  BY <1>1, <1>2, <1>3, <1>4 DEF BarrierInv

LEMMA BarrierSame ==
  ASSUME BarrierInv, UNCHANGED <<parent, index, child, writeEnd, completed, said>>
  PROVE  BarrierInv'
BY DEF BarrierInv, BarrierTypes, Reaped

LEMMA BarrierStep ==
  ASSUME BarrierInv, Barrier!Next
  PROVE  BarrierInv'
BY BarrierForks, BarrierReadEOF, BarrierWaits, BarrierChildren, BarrierSame
   DEF Barrier!Next, Barrier!ParentStep, Barrier!AllEnded, Barrier!vars

LEMMA BarrierRight ==
  ASSUME BarrierInv
  PROVE  Barrier!MessagesTrue
<1>1. ASSUME "first" \in said, NEW k \in Barrier!Children
      PROVE  "T1" \in completed[k] \/ Barrier!EndedEarly(k)
  <2>1. child[k] \in {"T2", "exit", "ended", "reaped"}
    BY <1>1 DEF BarrierInv, BarrierTypes
  <2>. QED
    BY <1>1, <2>1 DEF BarrierInv, Barrier!EndedEarly
<1>2. "second" \in said => \A k \in Barrier!Children : child[k] = "reaped"
  <2>1. "second" \in said => parent = "done"
    BY DEF BarrierInv, BarrierTypes
  <2>. QED
    BY <2>1 DEF BarrierInv, Reaped
<1>. QED
  BY <1>1, <1>2 DEF Barrier!MessagesTrue

-----------------------------------------------------------------------------
(* How often something is in a sequence *)

Positions(s, x) == {i \in DOMAIN s : s[i] = x}
Occ(s, x) == Cardinality(Positions(s, x))

LEMMA OccNat ==
  ASSUME NEW S, NEW s \in Seq(S), NEW x
  PROVE  /\ IsFiniteSet(Positions(s, x)) /\ Occ(s, x) \in Nat
         /\ Occ(s, x) = 0 <=> \A i \in DOMAIN s : s[i] # x
<1>1. Len(s) \in Nat /\ DOMAIN s = 1 .. Len(s)
  BY LenProperties
<1>2. IsFiniteSet(1 .. Len(s))
  BY <1>1, FS_Interval
<1>3. Positions(s, x) \subseteq 1 .. Len(s)
  BY <1>1 DEF Positions
<1>4. IsFiniteSet(Positions(s, x))
  BY <1>2, <1>3, FS_Subset
<1>5. Occ(s, x) \in Nat
  BY <1>4, FS_CardinalityType DEF Occ
<1>6. Occ(s, x) = 0 <=> Positions(s, x) = {}
  BY <1>4, FS_EmptySet DEF Occ
<1>. QED
  BY <1>4, <1>5, <1>6 DEF Positions

LEMMA OccConcat ==
  ASSUME NEW S, NEW s \in Seq(S), NEW t \in Seq(S), NEW x
  PROVE  Occ(s \o t, x) = Occ(s, x) + Occ(t, x)
<1>1. DEFINE u == s \o t
             n == Len(s)
             A == Positions(s, x)
             B == Positions(t, x)
             C == {n + i : i \in B}
<1>2. /\ n \in Nat /\ DOMAIN s = 1 .. n /\ Len(t) \in Nat /\ DOMAIN t = 1 .. Len(t)
      /\ DOMAIN u = 1 .. n + Len(t)
      /\ \A i \in 1 .. n + Len(t) : u[i] = IF i <= n THEN s[i] ELSE t[i - n]
  <2>1. u \in Seq(S) /\ Len(u) = n + Len(t)
        /\ \A i \in 1 .. n + Len(t) : u[i] = IF i <= n THEN s[i] ELSE t[i - n]
    BY ConcatProperties
  <2>2. DOMAIN u = 1 .. Len(u)
    BY <2>1, LenProperties
  <2>. QED
    BY <2>1, <2>2, LenProperties
<1>3. /\ IsFiniteSet(A) /\ Cardinality(A) = Occ(s, x) /\ Occ(s, x) \in Nat
      /\ IsFiniteSet(B) /\ Cardinality(B) = Occ(t, x) /\ Occ(t, x) \in Nat
  BY OccNat DEF Occ
<1> HIDE DEF u, n
<1>4. A \subseteq 1 .. n /\ B \subseteq 1 .. Len(t)
  BY <1>2 DEF Positions
<1>5. Positions(u, x) = A \cup C
  <2>1. ASSUME NEW i \in Positions(u, x) PROVE i \in A \cup C
    <3>1. i \in 1 .. n + Len(t) /\ u[i] = x
      BY <1>2, <2>1 DEF Positions
    <3>2. CASE i <= n
      <4>1. i \in 1 .. n /\ s[i] = x
        BY <1>2, <3>1, <3>2
      <4>. QED
        BY <1>2, <4>1 DEF Positions
    <3>3. CASE ~(i <= n)
      <4>1. i - n \in 1 .. Len(t) /\ t[i - n] = x /\ i = n + (i - n)
        BY <1>2, <3>1, <3>3
      <4>2. i - n \in B
        BY <1>2, <4>1 DEF Positions
      <4>. QED
        BY <4>1, <4>2
    <3>. QED
      BY <3>2, <3>3
  <2>2. ASSUME NEW i \in A PROVE i \in Positions(u, x)
    <3>1. i \in 1 .. n /\ s[i] = x
      BY <1>2 DEF Positions
    <3>2. i \in 1 .. n + Len(t) /\ i <= n
      BY <1>2, <3>1
    <3>. QED
      BY <1>2, <3>1, <3>2 DEF Positions
  <2>3. ASSUME NEW i \in B PROVE n + i \in Positions(u, x)
    <3>1. i \in 1 .. Len(t) /\ t[i] = x
      BY <1>2 DEF Positions
    <3>2. n + i \in 1 .. n + Len(t) /\ ~(n + i <= n) /\ (n + i) - n = i
      BY <1>2, <3>1
    <3>3. u[n + i] = t[i]
      BY <1>2, <3>2
    <3>. QED
      BY <1>2, <3>1, <3>2, <3>3 DEF Positions
  <2>. QED
    BY <2>1, <2>2, <2>3
<1>6. A \cap C = {}
  BY <1>2, <1>4
<1>7. IsFiniteSet(C) /\ Cardinality(C) = Cardinality(B)
  <2>1. DEFINE f == [i \in B |-> n + i]
  <2>2. f \in Bijection(B, C)
    <3>1. f \in [B -> C]
      OBVIOUS
    <3>2. \A i, j \in B : f[i] = f[j] => i = j
      BY <1>2, <1>4
    <3>3. \A c \in C : \E i \in B : f[i] = c
      OBVIOUS
    <3> HIDE DEF f, B, C
    <3>4. f \in Injection(B, C)
      BY <3>1, <3>2 DEF Injection, IsInjective
    <3>5. f \in Surjection(B, C)
      BY <3>1, <3>3 DEF Surjection
    <3>. QED
      BY <3>4, <3>5 DEF Bijection
  <2>. QED
    BY <1>3, <2>2, FS_Bijection DEF ExistsBijection
<1>8. Cardinality(A \cup C) = Cardinality(A) + Cardinality(C)
  <2>1. /\ Cardinality(A \cup C) = Cardinality(A) + Cardinality(C) - Cardinality(A \cap C)
    BY <1>3, <1>7, FS_Union
  <2>2. Cardinality(A \cap C) = 0
    BY <1>6, FS_EmptySet
  <2>. QED
    BY <1>3, <1>7, <2>1, <2>2
<1>9. Occ(u, x) = Cardinality(A \cup C)
  BY <1>5 DEF Occ
<1>. QED
  BY <1>3, <1>7, <1>8, <1>9 DEF u

LEMMA OccOne ==
  ASSUME NEW e, NEW x
  PROVE  Occ(<<e>>, x) = IF e = x THEN 1 ELSE 0
<1>1. Positions(<<e>>, x) = IF e = x THEN {1} ELSE {}
  BY DEF Positions
<1>. QED
  BY <1>1, FS_EmptySet, FS_Singleton DEF Occ

LEMMA OccEmpty ==
  ASSUME NEW x
  PROVE  Occ(<< >>, x) = 0
<1>1. Positions(<< >>, x) = {}
  BY DEF Positions
<1>. QED
  BY <1>1, FS_EmptySet DEF Occ

LEMMA OccAppend ==
  ASSUME NEW S, NEW s \in Seq(S), NEW e \in S, NEW x
  PROVE  Occ(Append(s, e), x) = Occ(s, x) + IF e = x THEN 1 ELSE 0
<1>1. <<e>> \in Seq(S) /\ Append(s, e) = s \o <<e>>
  BY AppendIsConcat
<1>2. Occ(s \o <<e>>, x) = Occ(s, x) + Occ(<<e>>, x)
  BY <1>1, OccConcat
<1>. QED
  BY <1>1, <1>2, OccOne

LEMMA OccTail ==
  ASSUME NEW S, NEW s \in Seq(S), s # << >>, NEW x
  PROVE  Occ(s, x) = (IF Head(s) = x THEN 1 ELSE 0) + Occ(Tail(s), x)
<1>1. Head(s) \in S /\ Tail(s) \in Seq(S) /\ <<Head(s)>> \in Seq(S)
  BY HeadTailProperties
<1>2. s = <<Head(s)>> \o Tail(s)
  <2>1. Len(s) \in Nat \ {0}
    BY EmptySeq
  <2>2. SubSeq(s, 1, Len(s)) = <<s[1]>> \o SubSeq(s, 1 + 1, Len(s))
    BY <2>1, SubSeqRecursiveFirst
  <2>3. SubSeq(s, 1, Len(s)) = s /\ Tail(s) = SubSeq(s, 2, Len(s)) /\ Head(s) = s[1]
    BY SubSeqFull, TailIsSubSeq
  <2>. QED
    BY <2>2, <2>3
<1>3. Occ(<<Head(s)>> \o Tail(s), x) = Occ(<<Head(s)>>, x) + Occ(Tail(s), x)
  BY <1>1, OccConcat
<1>. QED
  BY <1>2, <1>3, OccOne

-----------------------------------------------------------------------------
(* The barrier by counted bytes *)

CountersTypes ==
    /\ parent \in {"fork", "failed", "loop", "wait", "done"}
    /\ index \in 0 .. 2
    /\ next \in [Counters!Children -> 1 .. 4]
    /\ wrote \in [Counters!Children -> BOOLEAN]
    /\ child \in [Counters!Children -> {"unborn", "running", "ended", "reaped"}]
    /\ bytes \in Seq(Counters!Tasks)
    /\ count \in [Counters!Tasks -> {0, 1, 3}]

\* The bytes child k has written for a task; those the parent has read.
ByteOf(k, task) == IF next[k] > task + 1 \/ (next[k] = task + 1 /\ wrote[k]) THEN 1 ELSE 0
BytesRead(task) == IF count[task] = 3 THEN 2 ELSE count[task]
ReapedOne(k) == IF child[k] = "reaped" THEN 1 ELSE 0

\* No byte gets lost, and none is read twice.
CountersInv ==
    /\ CountersTypes
    /\ \A k \in Counters!Children : next[k] = 1 => wrote[k]
    /\ \A task \in Counters!Tasks :
        /\ BytesRead(task) + Occ(bytes, task) = ByteOf(1, task) + ByteOf(2, task)
        /\ said[task] = IF count[task] = 3 THEN 1 ELSE 0
    /\ said \in [Counters!Tasks -> Nat]
    /\ parent \in {"wait", "done"} => \A task \in Counters!Tasks : count[task] = 3
    /\ parent \in {"fork", "failed", "loop"} => \A k \in Counters!Children : child[k] # "reaped"
    /\ parent = "wait" => index = ReapedOne(1) + ReapedOne(2)
    /\ parent = "done" => \A k \in Counters!Children : child[k] = "reaped"

LEMMA CountersInit ==
  ASSUME Counters!Init
  PROVE  CountersInv
<1>1. \A task \in Counters!Tasks : Occ(<< >>, task) = 0
  BY OccEmpty
<1>2. << >> \in Seq(Counters!Tasks)
  BY EmptySeq
<1>. QED
  BY <1>1, <1>2 DEF Counters!Init, CountersInv, CountersTypes, BytesRead, ByteOf,
     Counters!Children, Counters!Tasks

\* A step that moves no byte.
LEMMA CountersQuiet ==
  ASSUME CountersInv, UNCHANGED <<next, wrote, bytes, count, said>>, CountersTypes',
         parent' \in {"wait", "done"} => \A task \in Counters!Tasks : count[task] = 3,
         parent' \in {"fork", "failed", "loop"} =>
            \A k \in Counters!Children : child'[k] # "reaped",
         parent' = "wait" => index' = ReapedOne(1)' + ReapedOne(2)',
         parent' = "done" => \A k \in Counters!Children : child'[k] = "reaped"
  PROVE  CountersInv'
<1>1. \A task \in Counters!Tasks :
        /\ BytesRead(task)' = BytesRead(task) /\ Occ(bytes, task)' = Occ(bytes, task)
        /\ ByteOf(1, task)' = ByteOf(1, task) /\ ByteOf(2, task)' = ByteOf(2, task)
  BY DEF BytesRead, ByteOf, Occ, Positions
<1>. QED
  BY <1>1 DEF CountersInv

LEMMA CountersParent ==
  ASSUME CountersInv,
         \/ Counters!Fork \/ Counters!ForkFails \/ Counters!CloseWriteEnd
         \/ Counters!LeaveLoop \/ Counters!Wait \/ Counters!Finish
  PROVE  CountersInv'
<1>1. UNCHANGED <<next, wrote, bytes, count, said>>
  BY DEF Counters!Fork, Counters!ForkFails, Counters!CloseWriteEnd, Counters!LeaveLoop,
         Counters!Wait, Counters!Finish
<1>2. CASE Counters!Fork
  <2>1. index + 1 \in Counters!Children
    BY <1>2 DEF CountersInv, CountersTypes, Counters!Fork, Counters!Children
  <2>2. CountersTypes' /\ \A k \in Counters!Children : child'[k] # "reaped"
    BY <1>1, <1>2, <2>1 DEF CountersInv, CountersTypes, Counters!Fork
  <2>. QED
    BY <1>1, <1>2, <2>2, CountersQuiet DEF Counters!Fork
<1>3. CASE Counters!ForkFails \/ Counters!CloseWriteEnd
  <2>1. CountersTypes' /\ UNCHANGED child /\ parent \in {"fork"} /\ parent' \in {"failed", "loop"}
    BY <1>1, <1>3 DEF CountersInv, CountersTypes, Counters!ForkFails, Counters!CloseWriteEnd
  <2>2. \A k \in Counters!Children : child'[k] # "reaped"
    BY <2>1 DEF CountersInv
  <2>. QED
    BY <1>1, <2>1, <2>2, CountersQuiet
<1>4. CASE Counters!LeaveLoop
  <2>1. CountersTypes' /\ UNCHANGED child /\ parent = "loop" /\ parent' = "wait" /\ index' = 0
    BY <1>1, <1>4 DEF CountersInv, CountersTypes, Counters!LeaveLoop
  <2>2. \A task \in Counters!Tasks : count[task] = 3
    <3>1. \A task \in Counters!Tasks : count[task] \in {0, 1, 3} /\ ~(count[task] < 2)
      BY <1>4 DEF Counters!LeaveLoop, Counters!Counting, CountersInv, CountersTypes
    <3>. QED
      BY <3>1
  <2>3. ReapedOne(1)' = 0 /\ ReapedOne(2)' = 0
    BY <2>1 DEF CountersInv, ReapedOne, Counters!Children
  <2>. QED
    BY <1>1, <2>1, <2>2, <2>3, CountersQuiet
<1>5. CASE Counters!Wait
  <2>1. PICK k \in Counters!Children :
          child[k] = "ended" /\ child' = [child EXCEPT ![k] = "reaped"]
    BY <1>5 DEF Counters!Wait
  <2>2. CountersTypes' /\ parent = "wait" /\ parent' = "wait" /\ index' = index + 1
    BY <1>1, <1>5, <2>1 DEF CountersInv, CountersTypes, Counters!Wait
  <2>3. ReapedOne(1)' + ReapedOne(2)' = ReapedOne(1) + ReapedOne(2) + 1
    <3>1. child'[1] = (IF k = 1 THEN "reaped" ELSE child[1])
          /\ child'[2] = (IF k = 2 THEN "reaped" ELSE child[2])
      BY <2>1 DEF CountersInv, CountersTypes, Counters!Children
    <3>2. k = 1 \/ k = 2
      BY DEF Counters!Children
    <3>. QED
      BY <2>1, <3>1, <3>2 DEF ReapedOne
  <2>4. index' = ReapedOne(1)' + ReapedOne(2)'
    BY <2>2, <2>3 DEF CountersInv
  <2>5. \A task \in Counters!Tasks : count[task] = 3
    BY <2>2 DEF CountersInv
  <2>. QED
    BY <1>1, <2>2, <2>4, <2>5, CountersQuiet
<1>6. CASE Counters!Finish
  <2>1. CountersTypes' /\ UNCHANGED child /\ parent = "wait" /\ parent' = "done" /\ index = 2
    BY <1>1, <1>6 DEF CountersInv, CountersTypes, Counters!Finish
  <2>2. \A k \in Counters!Children : child[k] = "reaped"
    BY <2>1 DEF CountersInv, ReapedOne, Counters!Children
  <2>3. \A task \in Counters!Tasks : count[task] = 3
    BY <2>1 DEF CountersInv
  <2>. QED
    BY <1>1, <2>1, <2>2, <2>3, CountersQuiet
<1>. QED
  BY <1>2, <1>3, <1>4, <1>5, <1>6

LEMMA CountersEnd ==
  ASSUME CountersInv, NEW k \in Counters!Children, Counters!BrokenPipe(k) \/ Counters!ChildExit(k)
  PROVE  CountersInv'
<1>1. /\ UNCHANGED <<next, wrote, bytes, count, said, parent, index>>
      /\ child[k] = "running" /\ child' = [child EXCEPT ![k] = "ended"]
  BY DEF Counters!BrokenPipe, Counters!ChildExit
<1>2. CountersTypes'
  BY <1>1 DEF CountersInv, CountersTypes
<1>3. \A j \in Counters!Children : child'[j] = "reaped" <=> child[j] = "reaped"
  BY <1>1 DEF CountersInv, CountersTypes
<1>4. ReapedOne(1)' = ReapedOne(1) /\ ReapedOne(2)' = ReapedOne(2)
  BY <1>3 DEF ReapedOne, Counters!Children
<1>. QED
  BY <1>1, <1>2, <1>3, <1>4, CountersQuiet DEF CountersInv

LEMMA CountersTask ==
  ASSUME CountersInv, NEW k \in Counters!Children, Counters!DoTask(k)
  PROVE  CountersInv'
<1>1. CountersTypes'
  BY DEF CountersInv, CountersTypes, Counters!DoTask, Counters!Tasks
<1>2. \A j \in Counters!Children, task \in Counters!Tasks : ByteOf(j, task)' = ByteOf(j, task)
  <2> SUFFICES ASSUME NEW j \in Counters!Children, NEW task \in Counters!Tasks
               PROVE  ByteOf(j, task)' = ByteOf(j, task)
    OBVIOUS
  <2>1. CASE j = k
    <3>1. next'[k] = next[k] + 1 /\ ~wrote'[k] /\ wrote[k] /\ next[k] \in 1 .. 4
      BY DEF CountersInv, CountersTypes, Counters!DoTask
    <3>. QED
      BY <2>1, <3>1 DEF ByteOf, Counters!Tasks
  <2>2. CASE j # k
    BY <2>2 DEF CountersInv, CountersTypes, Counters!DoTask, ByteOf
  <2>. QED
    BY <2>1, <2>2
<1>3. \A task \in Counters!Tasks :
        BytesRead(task)' = BytesRead(task) /\ Occ(bytes, task)' = Occ(bytes, task)
  BY DEF Counters!DoTask, BytesRead, Occ, Positions
<1>4. \A j \in Counters!Children : next'[j] = 1 => wrote'[j]
  <2>1. next[k] \in 1 .. 3 /\ next'[k] = next[k] + 1
    BY DEF CountersInv, CountersTypes, Counters!DoTask, Counters!Tasks
  <2>2. \A j \in Counters!Children \ {k} : next'[j] = next[j] /\ wrote'[j] = wrote[j]
    BY DEF CountersInv, CountersTypes, Counters!DoTask
  <2>. QED
    BY <2>1, <2>2 DEF CountersInv
<1>5. ReapedOne(1)' = ReapedOne(1) /\ ReapedOne(2)' = ReapedOne(2)
  BY DEF ReapedOne, Counters!DoTask
<1>6. UNCHANGED <<parent, index, child, count, said>>
  BY DEF Counters!DoTask
<1>7. \A task \in Counters!Tasks :
        ByteOf(1, task)' = ByteOf(1, task) /\ ByteOf(2, task)' = ByteOf(2, task)
  BY <1>2 DEF Counters!Children
<1>. QED
  BY <1>1, <1>3, <1>4, <1>5, <1>6, <1>7 DEF CountersInv

LEMMA CountersWrite ==
  ASSUME CountersInv, NEW k \in Counters!Children, Counters!WriteByte(k)
  PROVE  CountersInv'
<1>0. CountersTypes /\ next[k] \in 1 .. 4 /\ ~wrote[k]
  BY DEF CountersInv, CountersTypes, Counters!WriteByte
<1>1. next[k] - 1 \in Counters!Tasks
  BY <1>0 DEF CountersInv, Counters!Tasks
<1>2. /\ bytes \in Seq(Counters!Tasks) /\ bytes' = Append(bytes, next[k] - 1)
      /\ bytes' \in Seq(Counters!Tasks)
  BY <1>1, AppendProperties DEF CountersInv, CountersTypes, Counters!WriteByte
<1>3. CountersTypes'
  BY <1>0, <1>2 DEF CountersTypes, Counters!WriteByte
<1>4. ASSUME NEW task \in Counters!Tasks
      PROVE  BytesRead(task)' + Occ(bytes, task)' = ByteOf(1, task)' + ByteOf(2, task)'
  <2>1. BytesRead(task) + Occ(bytes, task) = ByteOf(1, task) + ByteOf(2, task)
    BY DEF CountersInv
  <2>2. Occ(bytes, task)' = Occ(bytes, task) + IF next[k] - 1 = task THEN 1 ELSE 0
    <3>1. Occ(Append(bytes, next[k] - 1), task)
            = Occ(bytes, task) + IF next[k] - 1 = task THEN 1 ELSE 0
      BY <1>1, <1>2, OccAppend
    <3>2. Occ(bytes, task)' = Occ(bytes', task)
      BY DEF Occ, Positions
    <3>. QED
      BY <1>2, <3>1, <3>2
  <2>3. BytesRead(task)' = BytesRead(task)
    BY DEF BytesRead, Counters!WriteByte
  <2>4. ByteOf(k, task)' = ByteOf(k, task) + IF next[k] - 1 = task THEN 1 ELSE 0
    <3>1. next'[k] = next[k] /\ wrote'[k]
      BY <1>0 DEF CountersTypes, Counters!WriteByte
    <3>. QED
      BY <1>0, <3>1 DEF ByteOf, Counters!Tasks
  <2>5. \A j \in Counters!Children \ {k} : ByteOf(j, task)' = ByteOf(j, task)
    BY <1>0 DEF CountersTypes, Counters!WriteByte, ByteOf
  <2>6. Occ(bytes, task) \in Nat
    BY <1>2, OccNat
  <2>7. BytesRead(task) \in Nat /\ ByteOf(1, task) \in Nat /\ ByteOf(2, task) \in Nat
    BY <1>0 DEF CountersTypes, BytesRead, ByteOf
  <2>8. k = 1 \/ k = 2
    BY DEF Counters!Children
  <2>9. CASE k = 1
    <3>1. ByteOf(2, task)' = ByteOf(2, task)
      BY <2>5, <2>9 DEF Counters!Children
    <3>. QED
      BY <2>1, <2>2, <2>3, <2>4, <2>6, <2>7, <2>9, <3>1
  <2>10. CASE k = 2
    <3>1. ByteOf(1, task)' = ByteOf(1, task)
      BY <2>5, <2>10 DEF Counters!Children
    <3>. QED
      BY <2>1, <2>2, <2>3, <2>4, <2>6, <2>7, <2>10, <3>1
  <2>. QED
    BY <2>8, <2>9, <2>10
<1>5. \A j \in Counters!Children : next'[j] = 1 => wrote'[j]
  BY <1>0 DEF CountersInv, CountersTypes, Counters!WriteByte
<1>6. ReapedOne(1)' = ReapedOne(1) /\ ReapedOne(2)' = ReapedOne(2)
  BY DEF ReapedOne, Counters!WriteByte
<1>7. UNCHANGED <<parent, index, child, count, said>>
  BY DEF Counters!WriteByte
<1>. QED
  BY <1>3, <1>4, <1>5, <1>6, <1>7 DEF CountersInv

LEMMA CountersRead ==
  ASSUME CountersInv, Counters!ReadByte \/ Counters!ReadEOF
  PROVE  CountersInv'
<1>0. CountersTypes /\ parent = "loop" /\ UNCHANGED <<parent, index, next, wrote, child>>
  BY DEF CountersInv, Counters!ReadByte, Counters!ReadEOF, Counters!Counting
<1>1. \A task \in Counters!Tasks :
        /\ count[task] \in {0, 1, 3}
        /\ ByteOf(1, task)' = ByteOf(1, task) /\ ByteOf(2, task)' = ByteOf(2, task)
        /\ ByteOf(1, task) \in {0, 1} /\ ByteOf(2, task) \in {0, 1}
        /\ Occ(bytes, task) \in Nat
        /\ BytesRead(task) + Occ(bytes, task) = ByteOf(1, task) + ByteOf(2, task)
        /\ said[task] = IF count[task] = 3 THEN 1 ELSE 0
  <2>1. \A task \in Counters!Tasks : Occ(bytes, task) \in Nat
    BY <1>0, OccNat DEF CountersTypes
  <2>. QED
    BY <1>0, <2>1 DEF CountersInv, CountersTypes, ByteOf
<1>2. CASE Counters!ReadByte
  <2>1. DEFINE b == Head(bytes)
  <2>2. b \in Counters!Tasks /\ bytes \in Seq(Counters!Tasks) /\ bytes' = Tail(bytes)
        /\ bytes' \in Seq(Counters!Tasks) /\ bytes # << >>
    BY <1>0, <1>2, HeadTailProperties DEF CountersTypes, Counters!ReadByte
  <2>3. Counters!Report([count EXCEPT ![b] = @ + 1])
    BY <1>2 DEF Counters!ReadByte
  <2> HIDE DEF b
  <2>4. ASSUME NEW task \in Counters!Tasks
        PROVE  Occ(bytes, task) = (IF b = task THEN 1 ELSE 0) + Occ(bytes', task)
               /\ Occ(bytes', task) \in Nat
    <3>1. Occ(bytes, task) = (IF Head(bytes) = task THEN 1 ELSE 0) + Occ(Tail(bytes), task)
      BY <2>2, OccTail
    <3>. QED
      BY <2>2, <3>1, OccNat DEF b
  <2>5. ASSUME NEW task \in Counters!Tasks
        PROVE  /\ count'[task] = IF b # task THEN count[task] ELSE IF count[task] = 0 THEN 1 ELSE 3
               /\ said'[task] = IF count'[task] = 3 THEN 1 ELSE 0
               /\ b = task => count[task] # 3
    <3>1. DEFINE counted == [count EXCEPT ![b] = @ + 1]
    <3>2. counted[task] = IF b = task THEN count[task] + 1 ELSE count[task]
      BY <1>0, <2>2 DEF CountersTypes
    <3>3. /\ count'[task] = IF counted[task] = 2 THEN 3 ELSE counted[task]
          /\ said'[task] = said[task] + IF counted[task] = 2 THEN 1 ELSE 0
      BY <2>3 DEF Counters!Report, Counters!AfterMessage
    <3>4. b = task => count[task] # 3
      BY <1>1, <2>4 DEF BytesRead
    <3> HIDE DEF counted
    <3>. QED
      BY <1>1, <3>2, <3>3, <3>4
  <2>6. count' \in [Counters!Tasks -> {0, 1, 3}] /\ said' \in [Counters!Tasks -> Nat]
    <3>1. count' = [t \in Counters!Tasks |-> count'[t]] /\ said' = [t \in Counters!Tasks |-> said'[t]]
      BY <2>3 DEF Counters!Report
    <3>2. \A t \in Counters!Tasks : count'[t] \in {0, 1, 3} /\ said'[t] \in Nat
      BY <1>1, <2>5
    <3>. QED
      BY <3>1, <3>2
  <2>7. CountersTypes'
    BY <1>0, <2>2, <2>6 DEF CountersTypes
  <2>8. ASSUME NEW task \in Counters!Tasks
        PROVE  BytesRead(task)' + Occ(bytes, task)' = ByteOf(1, task)' + ByteOf(2, task)'
    <3>1. Occ(bytes, task)' = Occ(bytes', task)
      BY DEF Occ, Positions
    <3>2. BytesRead(task)' = BytesRead(task) + IF b = task THEN 1 ELSE 0
      BY <1>1, <2>5 DEF BytesRead
    <3>. QED
      BY <1>1, <2>4, <3>1, <3>2 DEF BytesRead
  <2>. QED
    BY <1>0, <2>5, <2>6, <2>7, <2>8 DEF CountersInv
<1>3. CASE Counters!ReadEOF
  <2>1. UNCHANGED bytes /\ Counters!Report(count)
    BY <1>3 DEF Counters!ReadEOF
  <2>2. \A t \in Counters!Tasks : count'[t] = count[t] /\ said'[t] = said[t]
    BY <1>1, <2>1 DEF Counters!Report
  <2>3. count' = count /\ said' = said
    BY <1>0, <2>1, <2>2 DEF Counters!Report, CountersInv, CountersTypes
  <2>4. CountersTypes'
    BY <1>0, <2>1, <2>3 DEF CountersTypes
  <2>. QED
    BY <1>0, <2>1, <2>3, <2>4, CountersQuiet DEF CountersInv
<1>. QED
  BY <1>2, <1>3

LEMMA CountersSame ==
  ASSUME CountersInv, UNCHANGED <<parent, index, next, wrote, child, bytes, count, said>>
  PROVE  CountersInv'
<1>1. ReapedOne(1)' = ReapedOne(1) /\ ReapedOne(2)' = ReapedOne(2) /\ CountersTypes'
  BY DEF ReapedOne, CountersInv, CountersTypes
<1>. QED
  BY <1>1, CountersQuiet DEF CountersInv

LEMMA CountersStep ==
  ASSUME CountersInv, Counters!Next
  PROVE  CountersInv'
BY CountersParent, CountersEnd, CountersTask, CountersWrite, CountersRead, CountersSame
   DEF Counters!Next, Counters!ParentStep, Counters!ChildStep, Counters!Ended, Counters!vars

LEMMA CountersRight ==
  ASSUME CountersInv
  PROVE  Counters!MessagesTrue
<1>1. ASSUME NEW task \in Counters!Tasks, count[task] = 3, NEW k \in Counters!Children
      PROVE  next[k] > task
  <2>1. BytesRead(task) = 2 /\ Occ(bytes, task) \in Nat
        /\ BytesRead(task) + Occ(bytes, task) = ByteOf(1, task) + ByteOf(2, task)
    BY <1>1, OccNat DEF CountersInv, CountersTypes, BytesRead
  <2>2. ByteOf(1, task) = 1 /\ ByteOf(2, task) = 1
    BY <2>1 DEF ByteOf
  <2>3. k = 1 \/ k = 2
    BY DEF Counters!Children
  <2>4. next[k] \in 1 .. 4
    BY DEF CountersInv, CountersTypes
  <2>. QED
    BY <2>2, <2>3, <2>4 DEF ByteOf, Counters!Tasks
<1>2. \A task \in Counters!Tasks : said[task] = IF count[task] = 3 THEN 1 ELSE 0
  BY DEF CountersInv
<1>3. ASSUME parent = "done", NEW k \in Counters!Children
      PROVE  next[k] = 4 /\ child[k] = "reaped"
  <2>1. 3 \in Counters!Tasks /\ count[3] = 3 /\ next[k] \in 1 .. 4
    BY <1>3 DEF CountersInv, CountersTypes, Counters!Tasks
  <2>2. next[k] > 3
    BY <1>1, <2>1
  <2>. QED
    BY <1>3, <2>1, <2>2 DEF CountersInv
<1>. QED
  BY <1>1, <1>2, <1>3 DEF Counters!MessagesTrue

-----------------------------------------------------------------------------
(* Sending and answering *)

\* What has been read, and what is in the pipe, is the beginning of m.
Stream(a, b, m) ==
    /\ Len(a) + Len(b) <= Len(m)
    /\ \A i \in 1 .. Len(a) : a[i] = m[i]
    /\ \A i \in 1 .. Len(b) : b[i] = m[Len(a) + i]

LEMMA StreamEmpty ==
  ASSUME NEW m \in Seq(Nat)
  PROVE  Stream(<< >>, << >>, m)
<1>1. Len(m) \in Nat
  BY LenProperties
<1>. QED
  BY <1>1 DEF Stream

LEMMA StreamRead ==
  ASSUME NEW a \in Seq(Nat), NEW b \in Seq(Nat), NEW m \in Seq(Nat), Stream(a, b, m), b # << >>
  PROVE  /\ Append(a, Head(b)) \in Seq(Nat) /\ Tail(b) \in Seq(Nat)
         /\ Len(Append(a, Head(b))) = Len(a) + 1 /\ Len(Tail(b)) = Len(b) - 1
         /\ Stream(Append(a, Head(b)), Tail(b), m)
         /\ Head(b) = m[Len(a) + 1] /\ Len(a) + 1 \in 1 .. Len(m)
         /\ Append(a, Head(b))[Len(a) + 1] = Head(b)
<1>1. Len(a) \in Nat /\ Len(b) \in Nat \ {0} /\ Len(m) \in Nat
  BY LenProperties, EmptySeq
<1>2. DEFINE c == Append(a, Head(b))
             d == Tail(b)
<1>3. /\ Head(b) \in Nat /\ Head(b) = b[1] /\ d \in Seq(Nat) /\ Len(d) = Len(b) - 1
      /\ \A i \in 1 .. Len(d) : d[i] = b[i + 1]
  BY HeadTailProperties
<1>4. /\ c \in Seq(Nat) /\ Len(c) = Len(a) + 1
      /\ \A i \in 1 .. Len(a) : c[i] = a[i]
      /\ c[Len(a) + 1] = b[1]
  BY <1>3, AppendProperties
<1> HIDE DEF c, d
<1>5. b[1] = m[Len(a) + 1] /\ Len(a) + 1 \in 1 .. Len(m)
  BY <1>1 DEF Stream
<1>6. \A i \in 1 .. Len(c) : c[i] = m[i]
  <2>1. \A i \in 1 .. Len(a) : a[i] = m[i]
    BY DEF Stream
  <2>2. \A i \in 1 .. Len(c) : i \in 1 .. Len(a) \/ i = Len(a) + 1
    BY <1>1, <1>4
  <2>. QED
    BY <1>4, <1>5, <2>1, <2>2
<1>7. \A i \in 1 .. Len(d) : d[i] = m[Len(c) + i]
  <2> SUFFICES ASSUME NEW i \in 1 .. Len(d) PROVE d[i] = m[Len(c) + i]
    OBVIOUS
  <2>1. i + 1 \in 1 .. Len(b) /\ Len(a) + (i + 1) = Len(c) + i
    BY <1>1, <1>3, <1>4
  <2>2. b[i + 1] = m[Len(a) + (i + 1)]
    BY <2>1 DEF Stream
  <2>. QED
    BY <1>3, <2>1, <2>2
<1>8. Len(c) + Len(d) <= Len(m)
  BY <1>1, <1>3, <1>4 DEF Stream
<1>9. Stream(c, d, m)
  BY <1>6, <1>7, <1>8 DEF Stream
<1>. QED
  BY <1>3, <1>4, <1>5, <1>9 DEF c, d

LEMMA StreamWrite ==
  ASSUME NEW a \in Seq(Nat), NEW b \in Seq(Nat), NEW m \in Seq(Nat), Stream(a, b, m),
         NEW j \in 1 .. Len(m) - (Len(a) + Len(b))
  PROVE  LET chunk == SubSeq(SubSeq(m, Len(a) + Len(b) + 1, Len(m)), 1, j)
         IN  /\ b \o chunk \in Seq(Nat) /\ Len(b \o chunk) = Len(b) + j
             /\ Stream(a, b \o chunk, m)
<1>1. Len(a) \in Nat /\ Len(b) \in Nat /\ Len(m) \in Nat
  BY LenProperties
<1>2. DEFINE n == Len(a) + Len(b)
             rest == SubSeq(m, n + 1, Len(m))
             chunk == SubSeq(rest, 1, j)
<1>3. n \in Nat /\ n + 1 \in 1 .. Len(m) /\ j \in Nat /\ n + j \in 1 .. Len(m)
  BY <1>1
<1> HIDE DEF n
<1>4. /\ rest \in Seq(Nat) /\ Len(rest) = Len(m) - n
      /\ \A i \in 1 .. Len(m) - n : rest[i] = m[n + i]
  <2>1. \A i \in n + 1 .. Len(m) : m[i] \in Nat
    BY <1>1, <1>3, ElementOfSeq
  <2>2. /\ rest \in Seq(Nat)
        /\ Len(rest) = IF n + 1 <= Len(m) THEN Len(m) - (n + 1) + 1 ELSE 0
        /\ \A i \in 1 .. Len(m) - (n + 1) + 1 : rest[i] = m[n + 1 + i - 1]
    BY <1>1, <1>3, <2>1, SubSeqProperties
  <2> HIDE DEF rest
  <2>3. Len(m) - (n + 1) + 1 = Len(m) - n /\ n + 1 <= Len(m)
    BY <1>1, <1>3
  <2>4. \A i \in 1 .. Len(m) - n : n + 1 + i - 1 = n + i
    BY <1>1, <1>3
  <2>5. Len(rest) = Len(m) - n /\ rest \in Seq(Nat)
    BY <2>2, <2>3
  <2>6. \A i \in 1 .. Len(m) - n : rest[i] = m[n + 1 + i - 1]
    BY <2>2, <2>3
  <2>. QED
    BY <2>4, <2>5, <2>6
<1> HIDE DEF rest
<1>5. /\ chunk \in Seq(Nat) /\ Len(chunk) = j
      /\ \A i \in 1 .. j : chunk[i] = rest[i]
  <2>0. j <= Len(m) - n
    BY <1>1 DEF n
  <2>1. \A i \in 1 .. j : rest[i] \in Nat
    BY <1>1, <1>3, <1>4, <2>0, ElementOfSeq
  <2>2. /\ chunk \in Seq(Nat)
        /\ Len(chunk) = IF 1 <= j THEN j - 1 + 1 ELSE 0
        /\ \A i \in 1 .. j - 1 + 1 : chunk[i] = rest[1 + i - 1]
    BY <1>3, <2>1, SubSeqProperties
  <2> HIDE DEF chunk
  <2>3. j - 1 + 1 = j /\ \A i \in Nat : 1 + i - 1 = i
    BY <1>3
  <2>. QED
    BY <1>3, <2>2, <2>3
<1> HIDE DEF chunk
<1>6. /\ b \o chunk \in Seq(Nat) /\ Len(b \o chunk) = Len(b) + j
      /\ \A i \in 1 .. Len(b) + j : (b \o chunk)[i] = IF i <= Len(b) THEN b[i] ELSE chunk[i - Len(b)]
  BY <1>5, ConcatProperties
<1>7. \A i \in 1 .. Len(b) + j : (b \o chunk)[i] = m[Len(a) + i]
  <2> SUFFICES ASSUME NEW i \in 1 .. Len(b) + j PROVE (b \o chunk)[i] = m[Len(a) + i]
    OBVIOUS
  <2>1. CASE i <= Len(b)
    <3>1. i \in 1 .. Len(b)
      BY <1>1, <2>1
    <3>2. (b \o chunk)[i] = b[i]
      BY <1>6, <2>1
    <3>. QED
      BY <3>1, <3>2 DEF Stream
  <2>2. CASE ~(i <= Len(b))
    <3>1. /\ i - Len(b) \in 1 .. j /\ i - Len(b) \in 1 .. Len(m) - n
          /\ n + (i - Len(b)) = Len(a) + i
      BY <1>1, <1>3, <2>2 DEF n
    <3>2. (b \o chunk)[i] = chunk[i - Len(b)]
      BY <1>6, <2>2
    <3>3. chunk[i - Len(b)] = m[n + (i - Len(b))]
      BY <1>4, <1>5, <3>1
    <3>. QED
      BY <3>1, <3>2, <3>3
  <2>. QED
    BY <2>1, <2>2
<1>8. Len(a) + (Len(b) + j) <= Len(m)
  BY <1>1
<1>9. Stream(a, b \o chunk, m)
  BY <1>6, <1>7, <1>8 DEF Stream
<1>10. b \o chunk \in Seq(Nat) /\ Len(b \o chunk) = Len(b) + j /\ Stream(a, b \o chunk, m)
  BY <1>6, <1>9
<1>. QED
  BY <1>10 DEF chunk, rest, n

LEMMA StreamWhole ==
  ASSUME NEW a \in Seq(Nat), NEW m \in Seq(Nat), NEW b, Stream(a, b, m), Len(a) = Len(m)
  PROVE  a = m
BY SeqEqual DEF Stream

-----------------------------------------------------------------------------
LEMMA ProgramIs ==
  ASSUME program \in Exchange!Programs
  PROVE  /\ program.string \in BOOLEAN
         /\ program.prints \in {"each", "sum", "line", "length", "upper"}
         /\ program.string <=> program.prints \in {"line", "length", "upper"}
<1>1. CASE program = Exchange!pipes
  BY <1>1 DEF Exchange!pipes
<1>2. CASE program = Exchange!pipe4
  BY <1>2 DEF Exchange!pipe4
<1>3. CASE program = Exchange!pipeString
  BY <1>3 DEF Exchange!pipeString
<1>4. CASE program = Exchange!pipeStringCount
  BY <1>4 DEF Exchange!pipeStringCount
<1>5. CASE program = Exchange!pipeStringUpperCase
  BY <1>5 DEF Exchange!pipeStringUpperCase
<1>. QED
  BY <1>1, <1>2, <1>3, <1>4, <1>5 DEF Exchange!Programs

\* A '\0' behind a text.
LEMMA TextOf ==
  ASSUME NEW t \in Seq(Nat)
  PROVE  /\ Append(t, 0) \in Seq(Nat) /\ Exchange!Text(Append(t, 0)) = t
         /\ Append(t, 0) # << >>
<1>1. /\ Append(t, 0) \in Seq(Nat) /\ Append(t, 0) # << >> /\ Len(Append(t, 0)) = Len(t) + 1
      /\ Append(t, 0)[Len(t) + 1] = 0 /\ Len(t) \in Nat
      /\ \A i \in 1 .. Len(t) : Append(t, 0)[i] = t[i]
  BY AppendProperties, LenProperties
<1>2. DEFINE u == Append(t, 0)
<1> HIDE DEF u
<1>3. Exchange!Text(u) = SubSeq(u, 1, Len(u) - 1)
  BY <1>1 DEF u, Exchange!Text, Exchange!Last, Exchange!Front, Exchange!Zero
<1>4. Len(u) - 1 = Len(t)
  BY <1>1 DEF u
<1>5. /\ SubSeq(u, 1, Len(t)) \in Seq(Nat) /\ Len(SubSeq(u, 1, Len(t))) = Len(t)
      /\ \A i \in 1 .. Len(t) : SubSeq(u, 1, Len(t))[i] = t[i]
  <2>1. \A i \in 1 .. Len(t) : u[i] = t[i] /\ t[i] \in Nat
    BY <1>1, ElementOfSeq DEF u
  <2>2. /\ SubSeq(u, 1, Len(t)) \in Seq(Nat)
        /\ Len(SubSeq(u, 1, Len(t))) = IF 1 <= Len(t) THEN Len(t) - 1 + 1 ELSE 0
        /\ \A i \in 1 .. Len(t) - 1 + 1 : SubSeq(u, 1, Len(t))[i] = u[1 + i - 1]
    BY <1>1, <2>1, SubSeqProperties
  <2>3. Len(t) - 1 + 1 = Len(t) /\ \A i \in Nat : 1 + i - 1 = i
    BY <1>1
  <2>. QED
    BY <1>1, <2>1, <2>2, <2>3
<1>6. SubSeq(u, 1, Len(t)) = t
  BY <1>5, SeqEqual
<1>. QED
  BY <1>1, <1>3, <1>4, <1>6 DEF u

MessageOk ==
    /\ program \in Exchange!Programs
    /\ \E text \in Texts : message = Exchange!ToWrite(program, text)

LEMMA MessageIs ==
  ASSUME MessageOk
  PROVE  /\ message \in Seq(Nat) /\ Len(message) \in Nat \ {0}
         /\ \A i \in 1 .. Len(message) : message[i] = 0 <=> program.string /\ i = Len(message)
         /\ Exchange!Text(message) \in Seq(Nat \ {0})
         /\ ~program.string => Exchange!Text(message) = message
         /\ program.string => message = Append(Exchange!Text(message), 0)
<1>1. PICK text \in Texts : message = Exchange!ToWrite(program, text)
  BY DEF MessageOk
<1>2. text # << >> /\ text \in Seq(Nat \ {0})
  BY PipeAssumption DEF Exchange!ExchangeAssumption
<1>3. /\ Len(text) \in Nat \ {0} /\ text \in Seq(Nat)
      /\ \A i \in 1 .. Len(text) : text[i] # 0
  BY <1>2, EmptySeq, SeqMonotonic, ElementOfSeq
<1>4. program.string \in BOOLEAN
  BY ProgramIs DEF MessageOk
<1>5. CASE program.string
  <2>1. message = Append(text, 0)
    BY <1>1, <1>5 DEF Exchange!ToWrite, Exchange!Zero
  <2>2. Exchange!Text(message) = text
    BY <1>3, <2>1, TextOf
  <2>3. /\ message \in Seq(Nat) /\ Len(message) = Len(text) + 1
        /\ \A i \in 1 .. Len(text) : message[i] = text[i]
        /\ message[Len(text) + 1] = 0
    BY <1>3, <2>1, AppendProperties
  <2>. QED
    BY <1>2, <1>3, <1>5, <2>1, <2>2, <2>3
<1>6. CASE ~program.string
  <2>1. message = text
    BY <1>1, <1>6 DEF Exchange!ToWrite
  <2>2. Exchange!Text(text) = text
    BY <1>3 DEF Exchange!Text, Exchange!Last, Exchange!Zero
  <2>. QED
    BY <1>2, <1>3, <1>6, <2>1, <2>2
<1>. QED
  BY <1>5, <1>6

-----------------------------------------------------------------------------
Requested == Exchange!Written("request", "child")
Replied == Exchange!Written("response", "parent")
Reply == Append(Exchange!Upper(Exchange!Text(taken["child"])), 0)
ChildGoesOn == child \in {"close", "read", "report", "reply", "exit"}

ExchangeTypes ==
    /\ MessageOk
    /\ parent \in {"fork", "close", "write", "read", "print", "wait", "ended", "killed", "sigpipe"}
    /\ child \in {"unborn", "close", "read", "report", "reply", "exit", "ended", "killed", "sigpipe"}
    /\ pipe \in [{"request", "response"} -> Seq(Nat)]
    /\ taken \in [Exchange!Processes -> Seq(Nat)]

\* The ends a process has not closed yet.
EndsOpen ==
    /\ \/ parent \in {"fork", "close", "write"}
       \/ Exchange!Replies /\ parent \in {"read", "print"}
       => <<"parent", "request", "w">> \in open
    /\ Exchange!Replies /\ parent \in {"fork", "close", "write", "read", "print"} =>
        <<"parent", "response", "r">> \in open
    /\ ChildGoesOn =>
        /\ <<"child", "request", "r">> \in open
        /\ Exchange!Replies => <<"child", "response", "w">> \in open

\* What is in the pipes, and what has been taken from them.
StreamsRight ==
    /\ Stream(taken["child"], pipe["request"], message)
    /\ Stream(taken["parent"], pipe["response"], Reply)
    /\ child \in {"unborn", "close"} => taken["child"] = << >>
    /\ child \in {"unborn", "close", "read", "report"} =>
        taken["parent"] = << >> /\ pipe["response"] = << >>
    /\ child = "read" /\ program.string =>
        \A i \in 1 .. Len(taken["child"]) : taken["child"][i] # 0

\* How far each process is, and what the other one has done by then.
PlacesRight ==
    /\ parent = "fork" => child = "unborn"
    /\ child = "unborn" => parent \in {"fork", "ended", "killed"}
    /\ parent \in {"fork", "close", "write"} => Requested < Len(message)
    /\ parent \in {"read", "print", "wait", "ended"} /\ child # "unborn" =>
        Requested = Len(message)
    /\ parent \in {"read", "print"} \/ child \in {"reply", "sigpipe"} => Exchange!Replies
    /\ child = "reply" => Replied < Len(Reply)
    /\ Exchange!Replies /\ child \in {"exit", "ended"} => Replied = Len(Reply)
    /\ child \in {"report", "reply", "exit", "ended"} =>
        \/ parent = "killed"
        \/ taken["child"] = message /\ parent \notin {"fork", "close", "write", "sigpipe"}
    /\ Exchange!Replies /\ parent \in {"print", "wait", "ended"} /\ child # "unborn" =>
        child = "killed" \/ taken["parent"] = Reply
    /\ parent = "sigpipe" => child = "killed"
    /\ child = "sigpipe" => parent = "killed"

\* What the two processes have printed.
Buffers(ours, its) == [p \in Exchange!Processes |-> IF p = "parent" THEN ours ELSE its]
Out(t, ours, its, shown) ==
    [terminal |-> t, buffer |-> Buffers(ours, its), shown |-> shown]
Ours == stdout.buffer["parent"]
Its == stdout.buffer["child"]
ReplyPrinted ==
    /\ Its = << >>
    /\ parent \in {"fork", "close", "write", "read", "print"} =>
        Ours = << >> /\ stdout.shown = << >>
    /\ parent = "wait" =>
        IF stdout.terminal
            THEN Ours = << >> /\ stdout.shown = Exchange!Text(taken["parent"])
            ELSE Ours = Exchange!Text(taken["parent"]) /\ stdout.shown = << >>
    /\ parent = "ended" =>
        stdout.shown = IF child = "unborn" THEN << >> ELSE Exchange!Text(taken["parent"])
MessagePrinted ==
    /\ program.prints = "each" => Its = << >> /\ stdout.shown = taken["child"]
    /\ program.prints = "line" =>
        /\ child \in {"unborn", "close", "read"} =>
            Its = taken["child"] /\ stdout.shown = << >>
        /\ child \in {"report", "exit", "ended"} /\ taken["child"] = message =>
            stdout.shown = Exchange!Text(message)
    /\ program.prints \in {"length", "sum"} =>
        /\ Its = << >>
        /\ child \in {"unborn", "close", "read", "report"} => stdout.shown = << >>
        /\ child \in {"exit", "ended"} =>
            stdout.shown \in Exchange!Reports(Exchange!Text(taken["child"]))
OutputRight ==
    /\ stdout.terminal \in BOOLEAN
    /\ stdout = Out(stdout.terminal, Ours, Its, stdout.shown)
    /\ Exchange!Replies => ReplyPrinted
    /\ ~Exchange!Replies => Ours = << >>
    /\ ~Exchange!Replies /\ stdout.terminal => MessagePrinted
    /\ ~Exchange!Replies /\ ~stdout.terminal => stdout.shown = << >>

ExchangeInv == ExchangeTypes /\ EndsOpen /\ StreamsRight /\ PlacesRight /\ OutputRight

LEMMA CapacityIs == CAPACITY \in Nat \ {0}
BY PipeAssumption DEF Exchange!ExchangeAssumption

\* A write() stores some of what is left of m.
LEMMA WriteSomeIs ==
  ASSUME ExchangeTypes, NEW p \in {"request", "response"}, NEW reader \in Exchange!Processes,
         NEW m \in Seq(Nat), NEW single \in BOOLEAN, Stream(taken[reader], pipe[p], m),
         Exchange!Written(p, reader) < Len(m),
         Exchange!WriteSome(p, Exchange!Rest(m, p, reader), single)
  PROVE  \E j \in 1 .. Len(m) - Exchange!Written(p, reader) :
           /\ pipe' \in [{"request", "response"} -> Seq(Nat)]
           /\ \A q \in {"request", "response"} : q # p => pipe'[q] = pipe[q]
           /\ Len(pipe'[p]) = Len(pipe[p]) + j
           /\ Len(Exchange!Rest(m, p, reader)) = Len(m) - Exchange!Written(p, reader)
           /\ Stream(taken[reader], pipe'[p], m)
<1>1. DEFINE a == taken[reader]
             b == pipe[p]
             n == Len(a) + Len(b)
             rest == Exchange!Rest(m, p, reader)
             chunk == Exchange!Chunk(p, rest, single)
<1>2. a \in Seq(Nat) /\ b \in Seq(Nat)
  BY DEF ExchangeTypes
<1>3. Len(a) \in Nat /\ Len(b) \in Nat /\ Len(m) \in Nat
  BY <1>2, LenProperties
<1>4. Exchange!Written(p, reader) = n /\ n \in Nat /\ n < Len(m)
  <2>1. Exchange!Written(p, reader) = n
    BY DEF Exchange!Written
  <2>2. Exchange!Written(p, reader) < Len(m)
    OBVIOUS
  <2>3. n \in Nat
    <3>1. \A k, l \in Nat : k + l \in Nat
      OBVIOUS
    <3>. QED
      BY <1>3, <3>1
  <2> HIDE DEF n
  <2>. QED
    BY <2>1, <2>2, <2>3
<1>5. rest = SubSeq(m, n + 1, Len(m))
  BY <1>4 DEF Exchange!Rest
<1>6. chunk # << >> /\ pipe' = [pipe EXCEPT ![p] = b \o chunk]
  BY DEF Exchange!WriteSome
<1> HIDE DEF n
<1>7. rest \in Seq(Nat) /\ Len(rest) = Len(m) - n
  <2>1. \A i \in n + 1 .. Len(m) : m[i] \in Nat
    BY <1>3, <1>4, ElementOfSeq
  <2>2. /\ SubSeq(m, n + 1, Len(m)) \in Seq(Nat)
        /\ Len(SubSeq(m, n + 1, Len(m)))
             = IF n + 1 <= Len(m) THEN Len(m) - (n + 1) + 1 ELSE 0
    BY <1>3, <1>4, <2>1, SubSeqProperties
  <2>. QED
    BY <1>3, <1>4, <1>5, <2>2
<1> HIDE DEF rest
<1>8. PICK k \in Int : k <= Len(rest) /\ chunk = SubSeq(rest, 1, k)
  <2>1. DEFINE room == CAPACITY - Len(b)
               size == IF single THEN 1 ELSE Len(rest)
               last == IF size > room THEN room ELSE size
  <2>2. chunk = SubSeq(rest, 1, last)
    BY DEF Exchange!Chunk
  <2>3. last \in Int /\ last <= Len(rest)
    BY <1>3, <1>4, <1>7, CapacityIs
  <2> HIDE DEF last
  <2>. QED
    BY <2>2, <2>3
<1>9. k >= 1
  BY <1>6, <1>8, SubSeqEmpty
<1> HIDE DEF chunk
<1>10. k \in 1 .. Len(m) - n
  BY <1>3, <1>4, <1>7, <1>8, <1>9
<1>11. /\ b \o chunk \in Seq(Nat) /\ Len(b \o chunk) = Len(b) + k
       /\ Stream(a, b \o chunk, m)
  <2>1. k \in 1 .. Len(m) - (Len(a) + Len(b))
    BY <1>10 DEF n
  <2>2. Stream(a, b, m)
    OBVIOUS
  <2> HIDE DEF a, b
  <2>3. chunk = SubSeq(SubSeq(m, Len(a) + Len(b) + 1, Len(m)), 1, k)
    BY <1>5, <1>8 DEF n
  <2>4. LET more == SubSeq(SubSeq(m, Len(a) + Len(b) + 1, Len(m)), 1, k)
        IN  /\ b \o more \in Seq(Nat) /\ Len(b \o more) = Len(b) + k
            /\ Stream(a, b \o more, m)
    BY <1>2, <2>1, <2>2, StreamWrite
  <2>. QED
    BY <2>3, <2>4
<1>12. /\ pipe' \in [{"request", "response"} -> Seq(Nat)] /\ pipe'[p] = b \o chunk
       /\ \A q \in {"request", "response"} : q # p => pipe'[q] = pipe[q]
  BY <1>6, <1>11 DEF ExchangeTypes
<1>. QED
  BY <1>4, <1>7, <1>10, <1>11, <1>12 DEF rest

LEMMA TextIs ==
  ASSUME NEW s \in Seq(Nat)
  PROVE  Exchange!Text(s) \in Seq(Nat)
<1>1. Len(s) \in Nat
  BY LenProperties
<1>2. CASE s # << >> /\ Exchange!Last(s) = 0
  <2>1. Exchange!Text(s) = SubSeq(s, 1, Len(s) - 1)
    BY <1>2 DEF Exchange!Text, Exchange!Front, Exchange!Zero
  <2>2. \A i \in 1 .. Len(s) - 1 : s[i] \in Nat
    BY <1>1, ElementOfSeq
  <2>3. SubSeq(s, 1, Len(s) - 1) \in Seq(Nat)
    BY <1>1, <2>2, SubSeqProperties
  <2>. QED
    BY <2>1, <2>3
<1>3. CASE ~(s # << >> /\ Exchange!Last(s) = 0)
  BY <1>3 DEF Exchange!Text, Exchange!Zero
<1>. QED
  BY <1>2, <1>3

\* In capitals: no '\0' comes out of anything else.
LEMMA UpperIs ==
  ASSUME NEW u \in Seq(Nat)
  PROVE  /\ Exchange!Upper(u) \in Seq(Nat) /\ Len(Exchange!Upper(u)) = Len(u)
         /\ u \in Seq(Nat \ {0}) => \A i \in 1 .. Len(u) : Exchange!Upper(u)[i] # 0
<1>1. Len(u) \in Nat /\ DOMAIN u = 1 .. Len(u) /\ \A i \in 1 .. Len(u) : u[i] \in Nat
  BY LenProperties, ElementOfSeq
<1>2. \A c \in Nat : Exchange!toupper(c) \in Nat /\ (c # 0 => Exchange!toupper(c) # 0)
  BY DEF Exchange!toupper
<1>3. \A i \in 1 .. Len(u) : Exchange!toupper(u[i]) \in Nat
  BY <1>1, <1>2
<1>4. Exchange!Upper(u) = [i \in 1 .. Len(u) |-> Exchange!toupper(u[i])]
  BY <1>1 DEF Exchange!Upper
<1>5. [i \in 1 .. Len(u) |-> Exchange!toupper(u[i])] \in Seq(Nat)
  BY <1>1, <1>3, IsASeq
<1>6. DOMAIN Exchange!Upper(u) = 1 .. Len(u) /\ Exchange!Upper(u) \in Seq(Nat)
  BY <1>4, <1>5
<1>7. DOMAIN Exchange!Upper(u) = 1 .. Len(Exchange!Upper(u)) /\ Len(Exchange!Upper(u)) \in Nat
  BY <1>6, LenProperties
<1>8. Len(Exchange!Upper(u)) = Len(u)
  BY <1>1, <1>6, <1>7
<1>9. u \in Seq(Nat \ {0}) => \A i \in 1 .. Len(u) : u[i] # 0
  BY ElementOfSeq
<1>. QED
  BY <1>1, <1>2, <1>4, <1>6, <1>8, <1>9

LEMMA AnswerIs ==
  ASSUME NEW s \in Seq(Nat)
  PROVE  /\ Append(Exchange!Upper(Exchange!Text(s)), 0) \in Seq(Nat)
         /\ Len(Append(Exchange!Upper(Exchange!Text(s)), 0)) \in Nat \ {0}
<1>1. Exchange!Upper(Exchange!Text(s)) \in Seq(Nat)
  BY TextIs, UpperIs
<1>. QED
  BY <1>1, AppendProperties, LenProperties

LEMMA ReplyIs ==
  ASSUME ExchangeTypes
  PROVE  Reply \in Seq(Nat) /\ Len(Reply) \in Nat \ {0}
<1>1. taken["child"] \in Seq(Nat)
  BY DEF ExchangeTypes, Exchange!Processes
<1>. QED
  BY <1>1, AnswerIs DEF Reply

LEMMA LengthsAre ==
  ASSUME ExchangeTypes
  PROVE  /\ Requested = Len(taken["child"]) + Len(pipe["request"]) /\ Requested \in Nat
         /\ Replied = Len(taken["parent"]) + Len(pipe["response"]) /\ Replied \in Nat
         /\ taken["child"] \in Seq(Nat) /\ taken["parent"] \in Seq(Nat)
         /\ pipe["request"] \in Seq(Nat) /\ pipe["response"] \in Seq(Nat)
         /\ \A q \in Exchange!Processes : Len(taken[q]) \in Nat
         /\ \A p \in {"request", "response"} : Len(pipe[p]) \in Nat
<1>1. \A q \in Exchange!Processes : taken[q] \in Seq(Nat)
  BY DEF ExchangeTypes
<1>2. \A p \in {"request", "response"} : pipe[p] \in Seq(Nat)
  BY DEF ExchangeTypes
<1>3. \A q \in Exchange!Processes : Len(taken[q]) \in Nat
  BY <1>1, LenProperties
<1>4. \A p \in {"request", "response"} : Len(pipe[p]) \in Nat
  BY <1>2, LenProperties
<1>5. Requested = Len(taken["child"]) + Len(pipe["request"])
      /\ Replied = Len(taken["parent"]) + Len(pipe["response"])
  BY DEF Requested, Replied, Exchange!Written
<1>6. "child" \in Exchange!Processes /\ "parent" \in Exchange!Processes
  BY DEF Exchange!Processes
<1>7. /\ Len(taken["child"]) \in Nat /\ Len(taken["parent"]) \in Nat
      /\ Len(pipe["request"]) \in Nat /\ Len(pipe["response"]) \in Nat
  BY <1>3, <1>4, <1>6
<1>8. Requested \in Nat /\ Replied \in Nat
  <2>1. \A k, l \in Nat : k + l \in Nat
    OBVIOUS
  <2>. QED
    BY <1>5, <1>7, <2>1
<1>. QED
  BY <1>1, <1>2, <1>3, <1>4, <1>5, <1>6, <1>8

\* The end of a stream.
LEMMA RequestWhole ==
  ASSUME ExchangeTypes, StreamsRight, pipe["request"] = << >>, Requested = Len(message)
  PROVE  taken["child"] = message
<1>1. Len(taken["child"]) = Len(message)
  BY LengthsAre, EmptySeq
<1>. QED
  BY <1>1, LengthsAre, MessageIs, StreamWhole DEF StreamsRight, ExchangeTypes

LEMMA ReplyWhole ==
  ASSUME ExchangeTypes, StreamsRight, pipe["response"] = << >>, Replied = Len(Reply)
  PROVE  taken["parent"] = Reply
<1>1. Len(taken["parent"]) = Len(Reply)
  BY LengthsAre, EmptySeq
<1>. QED
  BY <1>1, LengthsAre, ReplyIs, StreamWhole DEF StreamsRight

-----------------------------------------------------------------------------
\* Hides a concatenation from the provers.
Followed(s, t) == s \o t

LEMMA OutParts ==
  ASSUME NEW t \in BOOLEAN, NEW ours, NEW its, NEW shown
  PROVE  /\ Out(t, ours, its, shown).terminal = t
         /\ Out(t, ours, its, shown).buffer = Buffers(ours, its)
         /\ Out(t, ours, its, shown).buffer["parent"] = ours
         /\ Out(t, ours, its, shown).buffer["child"] = its
         /\ Out(t, ours, its, shown).shown = shown
         /\ Exchange!Flush(Out(t, ours, its, shown), "parent") = Out(t, << >>, its, shown \o ours)
         /\ Exchange!Flush(Out(t, ours, its, shown), "child") = Out(t, ours, << >>, shown \o its)
         /\ Exchange!Discard(Out(t, ours, its, shown), "parent") = Out(t, << >>, its, shown)
         /\ Exchange!Discard(Out(t, ours, its, shown), "child") = Out(t, ours, << >>, shown)
<1>1. \A o, i, s, new :
        /\ [Buffers(o, i) EXCEPT !["parent"] = new] = Buffers(new, i)
        /\ [Buffers(o, i) EXCEPT !["child"] = new] = Buffers(o, new)
        /\ Buffers(o, i)["parent"] = o /\ Buffers(o, i)["child"] = i
  BY DEF Buffers, Exchange!Processes
<1>2. \A o, i, s :
        /\ Out(t, o, i, s).terminal = t /\ Out(t, o, i, s).buffer = Buffers(o, i)
        /\ Out(t, o, i, s).shown = s
  BY DEF Out
<1>3. \A o, i, s :
        /\ Exchange!Discard(Out(t, o, i, s), "parent") = Out(t, << >>, i, s)
        /\ Exchange!Discard(Out(t, o, i, s), "child") = Out(t, o, << >>, s)
  <2> SUFFICES ASSUME NEW o, NEW i, NEW s
               PROVE  /\ Exchange!Discard(Out(t, o, i, s), "parent") = Out(t, << >>, i, s)
                      /\ Exchange!Discard(Out(t, o, i, s), "child") = Out(t, o, << >>, s)
    OBVIOUS
  <2>1. ASSUME NEW p \in {"parent", "child"}
        PROVE  Exchange!Discard(Out(t, o, i, s), p)
                 = [terminal |-> t, buffer |-> [Buffers(o, i) EXCEPT ![p] = << >>], shown |-> s]
    BY DEF Exchange!Discard, Out
  <2>2. /\ [Buffers(o, i) EXCEPT !["parent"] = << >>] = Buffers(<< >>, i)
        /\ [Buffers(o, i) EXCEPT !["child"] = << >>] = Buffers(o, << >>)
    BY <1>1
  <2>. QED
    BY <2>1, <2>2 DEF Out
<1>4. \A o, i, s :
        /\ Exchange!Flush(Out(t, o, i, s), "parent") = Out(t, << >>, i, s \o o)
        /\ Exchange!Flush(Out(t, o, i, s), "child") = Out(t, o, << >>, s \o i)
  <2> SUFFICES ASSUME NEW o, NEW i, NEW s
               PROVE  /\ Exchange!Flush(Out(t, o, i, s), "parent") = Out(t, << >>, i, s \o o)
                      /\ Exchange!Flush(Out(t, o, i, s), "child") = Out(t, o, << >>, s \o i)
    OBVIOUS
  <2>1. ASSUME NEW b, NEW f, NEW new
        PROVE  [Out(t, b, f, s) EXCEPT !.shown = new] = Out(t, b, f, new)
    BY DEF Out
  <2>2. \A b, f : Out(t, b, f, s).shown = s
    BY <1>2
  <2>3. ASSUME NEW out, NEW p
        PROVE  Exchange!Flush(out, p)
                 = [Exchange!Discard(out, p) EXCEPT !.shown =
                      Followed(Exchange!Discard(out, p).shown, out.buffer[p])]
    BY DEF Exchange!Flush, Followed
  <2>4. Out(t, o, i, s).buffer["parent"] = o /\ Out(t, o, i, s).buffer["child"] = i
    BY <1>1, <1>2
  <2>5. Exchange!Flush(Out(t, o, i, s), "parent") = Out(t, << >>, i, Followed(s, o))
    <3>1. Exchange!Flush(Out(t, o, i, s), "parent")
            = [Out(t, << >>, i, s) EXCEPT !.shown = Followed(s, o)]
      BY <1>3, <2>2, <2>3, <2>4
    <3>. QED
      BY <2>1, <3>1
  <2>6. Exchange!Flush(Out(t, o, i, s), "child") = Out(t, o, << >>, Followed(s, i))
    <3>1. Exchange!Flush(Out(t, o, i, s), "child")
            = [Out(t, o, << >>, s) EXCEPT !.shown = Followed(s, i)]
      BY <1>3, <2>2, <2>3, <2>4
    <3>. QED
      BY <2>1, <3>1
  <2>. QED
    BY <2>5, <2>6 DEF Followed
<1>5. /\ Out(t, ours, its, shown).terminal = t
      /\ Out(t, ours, its, shown).buffer["parent"] = ours
      /\ Out(t, ours, its, shown).buffer["child"] = its
      /\ Out(t, ours, its, shown).shown = shown
  BY <1>1, <1>2
<1>. QED
  BY <1>2, <1>3, <1>4, <1>5

LEMMA OutSays ==
  ASSUME NEW t \in BOOLEAN, NEW ours, NEW its, NEW shown, NEW x
  PROVE  /\ Exchange!Say(Out(t, ours, its, shown), "child", x) = Out(t, ours, its \o x, shown)
         /\ Exchange!SayLine(Out(t, ours, its, shown), "child", x)
              = IF t THEN Out(t, ours, << >>, shown \o (its \o x)) ELSE Out(t, ours, its \o x, shown)
         /\ Exchange!SayLine(Out(t, ours, its, shown), "parent", x)
              = IF t THEN Out(t, << >>, its, shown \o (ours \o x)) ELSE Out(t, ours \o x, its, shown)
<1>1. \A o, i :
        /\ [Buffers(o, i) EXCEPT !["parent"] = Followed(o, x)] = Buffers(Followed(o, x), i)
        /\ [Buffers(o, i) EXCEPT !["child"] = Followed(i, x)] = Buffers(o, Followed(i, x))
        /\ Buffers(o, i)["parent"] = o /\ Buffers(o, i)["child"] = i
  BY DEF Buffers, Exchange!Processes
<1>2. \A o, i, s : Out(t, o, i, s).terminal = t /\ Out(t, o, i, s).buffer = Buffers(o, i)
  BY DEF Out
<1>5. \A o, i, s :
        /\ Exchange!Say(Out(t, o, i, s), "parent", x) = Out(t, o \o x, i, s)
        /\ Exchange!Say(Out(t, o, i, s), "child", x) = Out(t, o, i \o x, s)
  <2> SUFFICES ASSUME NEW o, NEW i, NEW s
               PROVE  /\ Exchange!Say(Out(t, o, i, s), "parent", x) = Out(t, o \o x, i, s)
                      /\ Exchange!Say(Out(t, o, i, s), "child", x) = Out(t, o, i \o x, s)
    OBVIOUS
  <2>1. ASSUME NEW b
        PROVE  [Out(t, o, i, s) EXCEPT !.buffer = b] = [terminal |-> t, buffer |-> b, shown |-> s]
    BY DEF Out
  <2>2. Out(t, o, i, s).buffer = Buffers(o, i)
    BY <1>2
  <2>3. ASSUME NEW out, NEW p
        PROVE  Exchange!Say(out, p, x)
                 = [out EXCEPT !.buffer = [out.buffer EXCEPT ![p] = Followed(out.buffer[p], x)]]
    BY DEF Exchange!Say, Followed
  <2>4. /\ [Buffers(o, i) EXCEPT !["parent"] = Followed(o, x)] = Buffers(Followed(o, x), i)
        /\ [Buffers(o, i) EXCEPT !["child"] = Followed(i, x)] = Buffers(o, Followed(i, x))
        /\ Buffers(o, i)["parent"] = o /\ Buffers(o, i)["child"] = i
    BY <1>1
  <2>5. Exchange!Say(Out(t, o, i, s), "parent", x) = Out(t, Followed(o, x), i, s)
    <3>1. Exchange!Say(Out(t, o, i, s), "parent", x)
            = [Out(t, o, i, s) EXCEPT !.buffer = Buffers(Followed(o, x), i)]
      <4>1. Exchange!Say(Out(t, o, i, s), "parent", x)
              = [Out(t, o, i, s) EXCEPT !.buffer = [Out(t, o, i, s).buffer EXCEPT
                   !["parent"] = Followed(Out(t, o, i, s).buffer["parent"], x)]]
        BY <2>3
      <4>2. [Out(t, o, i, s).buffer EXCEPT
               !["parent"] = Followed(Out(t, o, i, s).buffer["parent"], x)] = Buffers(Followed(o, x), i)
        BY <2>2, <2>4
      <4>. QED
        BY <4>1, <4>2
    <3>. QED
      BY <2>1, <3>1 DEF Out
  <2>6. Exchange!Say(Out(t, o, i, s), "child", x) = Out(t, o, Followed(i, x), s)
    <3>1. Exchange!Say(Out(t, o, i, s), "child", x)
            = [Out(t, o, i, s) EXCEPT !.buffer = Buffers(o, Followed(i, x))]
      <4>1. Exchange!Say(Out(t, o, i, s), "child", x)
              = [Out(t, o, i, s) EXCEPT !.buffer = [Out(t, o, i, s).buffer EXCEPT
                   !["child"] = Followed(Out(t, o, i, s).buffer["child"], x)]]
        BY <2>3
      <4>2. [Out(t, o, i, s).buffer EXCEPT
               !["child"] = Followed(Out(t, o, i, s).buffer["child"], x)] = Buffers(o, Followed(i, x))
        BY <2>2, <2>4
      <4>. QED
        BY <4>1, <4>2
    <3>. QED
      BY <2>1, <3>1 DEF Out
  <2>. QED
    BY <2>5, <2>6 DEF Followed
<1>6. /\ Exchange!Flush(Out(t, ours \o x, its, shown), "parent")
           = Out(t, << >>, its, shown \o (ours \o x))
      /\ Exchange!Flush(Out(t, ours, its \o x, shown), "child")
           = Out(t, ours, << >>, shown \o (its \o x))
  BY OutParts
<1>7. /\ Exchange!Say(Out(t, ours, its, shown), "parent", x) = Out(t, ours \o x, its, shown)
      /\ Exchange!Say(Out(t, ours, its, shown), "child", x) = Out(t, ours, its \o x, shown)
      /\ Out(t, ours, its, shown).terminal = t
  BY <1>2, <1>5
<1>. QED
  BY <1>6, <1>7 DEF Exchange!SayLine

LEMMA EndsAre ==
  ASSUME NEW p
  PROVE  /\ \A m \in {"r", "w"} :
              /\ <<p, "request", m>> \in Exchange!EndsOf(p)
              /\ Exchange!Replies => <<p, "response", m>> \in Exchange!EndsOf(p)
         /\ \A e \in Exchange!EndsOf(p) : e[1] = p
<1>1. ASSUME NEW end \in Exchange!Ends
      PROVE  <<p, end[1], end[2]>> \in Exchange!EndsOf(p)
  BY DEF Exchange!EndsOf
<1>2. ASSUME NEW m \in {"r", "w"}
      PROVE  <<"request", m>> \in Exchange!Ends
             /\ (Exchange!Replies => <<"response", m>> \in Exchange!Ends)
  BY DEF Exchange!Ends
<1>3. ASSUME NEW m \in {"r", "w"}
      PROVE  <<p, "request", m>> \in Exchange!EndsOf(p)
             /\ (Exchange!Replies => <<p, "response", m>> \in Exchange!EndsOf(p))
  <2>1. <<p, <<"request", m>>[1], <<"request", m>>[2]>> \in Exchange!EndsOf(p)
    BY <1>1, <1>2
  <2>2. Exchange!Replies =>
          <<p, <<"response", m>>[1], <<"response", m>>[2]>> \in Exchange!EndsOf(p)
    BY <1>1, <1>2
  <2>. QED
    BY <2>1, <2>2
<1>4. \A e \in Exchange!EndsOf(p) : e[1] = p
  BY DEF Exchange!EndsOf
<1>. QED
  BY <1>3, <1>4

LEMMA NoText ==
  ASSUME NEW x
  PROVE  /\ << >> \o <<x>> = <<x>>
         /\ << >> \o << >> = << >>
<1>1. <<x>> \in Seq({x}) /\ << >> \in Seq({x})
  BY EmptySeq
<1>. QED
  BY <1>1, ConcatEmptySeq

LEMMA SomeText ==
  ASSUME NEW s \in Seq(Nat)
  PROVE  << >> \o s = s /\ s \o << >> = s
BY ConcatEmptySeq

\* A step that moves no data.
LEMMA ExchangeQuiet ==
  ASSUME ExchangeInv, UNCHANGED <<program, message, pipe, taken>>
  PROVE  /\ Requested' = Requested /\ Replied' = Replied /\ Reply' = Reply
         /\ Exchange!Replies' = Exchange!Replies
         /\ MessageOk'
         /\ (\A s : Exchange!Reports(s)' = Exchange!Reports(s))
         /\ StreamsRight'
              <=> /\ child' \in {"unborn", "close"} => taken["child"] = << >>
                  /\ child' \in {"unborn", "close", "read", "report"} =>
                       taken["parent"] = << >> /\ pipe["response"] = << >>
                  /\ child' = "read" /\ program.string =>
                       \A i \in 1 .. Len(taken["child"]) : taken["child"][i] # 0
<1>1. Requested' = Requested /\ Replied' = Replied /\ Reply' = Reply
  BY DEF Requested, Replied, Reply, Exchange!Written
<1>2. Exchange!Replies' = Exchange!Replies /\ MessageOk'
  BY DEF Exchange!Replies, ExchangeInv, ExchangeTypes, MessageOk
<1>3. \A s : Exchange!Reports(s)' = Exchange!Reports(s)
  BY DEF Exchange!Reports
<1>4. /\ Stream(taken["child"], pipe["request"], message)'
      /\ Stream(taken["parent"], pipe["response"], Reply)'
  BY <1>1 DEF ExchangeInv, StreamsRight
<1>. QED
  BY <1>1, <1>2, <1>3, <1>4 DEF StreamsRight

\* A step that prints nothing.
LEMMA Silent ==
  ASSUME ExchangeInv, UNCHANGED <<program, message, taken, stdout>>,
         Exchange!Replies =>
            /\ parent' \in {"fork", "close", "write", "read", "print"} =>
                 parent \in {"fork", "close", "write", "read", "print"}
            /\ parent' = "wait" => parent = "wait"
            /\ parent' = "ended" =>
                 \/ parent = "ended" /\ (child' = "unborn" <=> child = "unborn")
                 \/ child' = "unborn" /\ parent = "fork",
         ~Exchange!Replies =>
            /\ program.prints = "line" /\ child' \in {"unborn", "close", "read"} =>
                 child \in {"unborn", "close", "read"}
            /\ program.prints = "line" /\ child' \in {"report", "exit", "ended"}
                 /\ taken["child"] = message => child \in {"report", "exit", "ended"}
            /\ child' \in {"unborn", "close", "read", "report"} =>
                 child \in {"unborn", "close", "read", "report"}
            /\ child' \in {"exit", "ended"} => child \in {"exit", "ended"}
  PROVE  OutputRight'
<1>1. Ours' = Ours /\ Its' = Its /\ Exchange!Replies' = Exchange!Replies
  BY DEF Ours, Its, Exchange!Replies
<1>2. \A s : Exchange!Reports(s)' = Exchange!Reports(s)
  BY DEF Exchange!Reports
<1>3. stdout'.terminal \in BOOLEAN /\ stdout' = Out(stdout'.terminal, Ours', Its', stdout'.shown)
  BY <1>1 DEF ExchangeInv, OutputRight
<1>4. Exchange!Replies => ReplyPrinted'
  BY <1>1 DEF ExchangeInv, OutputRight, ReplyPrinted
<1>5. ~Exchange!Replies /\ stdout.terminal => MessagePrinted'
  BY <1>1, <1>2 DEF ExchangeInv, OutputRight, MessagePrinted
<1>. QED
  BY <1>1, <1>3, <1>4, <1>5 DEF ExchangeInv, OutputRight

LEMMA ExchangeInit ==
  ASSUME Exchange!Init
  PROVE  ExchangeInv
<1>1. MessageOk
  BY DEF Exchange!Init, MessageOk
<1>2. message \in Seq(Nat) /\ Len(message) \in Nat \ {0}
  BY <1>1, MessageIs
<1>3. ExchangeTypes
  <2>1. << >> \in Seq(Nat)
    BY EmptySeq
  <2>. QED
    BY <1>1, <2>1 DEF Exchange!Init, ExchangeTypes
<1>4. EndsOpen
  BY EndsAre DEF Exchange!Init, EndsOpen, ChildGoesOn
<1>5. /\ taken["child"] = << >> /\ taken["parent"] = << >>
      /\ pipe["request"] = << >> /\ pipe["response"] = << >>
  BY DEF Exchange!Init, Exchange!Processes
<1>6. StreamsRight
  <2>1. Stream(<< >>, << >>, message) /\ Stream(<< >>, << >>, Reply)
    BY <1>2, <1>3, ReplyIs, StreamEmpty
  <2>. QED
    BY <1>5, <2>1 DEF Exchange!Init, StreamsRight
<1>7. PlacesRight
  <2>1. Len(<< >>) = 0
    BY EmptySeq
  <2>2. Requested = 0
    BY <1>3, <1>5, <2>1, LengthsAre
  <2>. QED
    BY <1>2, <2>2 DEF Exchange!Init, PlacesRight
<1>8. OutputRight
  <2>1. PICK t \in BOOLEAN : stdout = Exchange!Stdout(Exchange!Processes, t)
    BY DEF Exchange!Init
  <2>2. /\ stdout.terminal = t /\ Ours = << >> /\ Its = << >> /\ stdout.shown = << >>
        /\ stdout = Out(t, << >>, << >>, << >>)
    BY <2>1 DEF Exchange!Stdout, Out, Buffers, Ours, Its, Exchange!Processes
  <2>. QED
    BY <1>5, <2>1, <2>2 DEF Exchange!Init, OutputRight, ReplyPrinted, MessagePrinted
<1>. QED
  BY <1>3, <1>4, <1>6, <1>7, <1>8 DEF ExchangeInv

\* fork(), and the descriptors each process closes behind it.
LEMMA ExchangeForks ==
  ASSUME ExchangeInv,
         \/ Exchange!Fork \/ Exchange!ForkFails \/ Exchange!ParentCloses \/ Exchange!ChildCloses
  PROVE  ExchangeInv'
<1>1. UNCHANGED <<program, message, pipe, taken, stdout>>
  BY DEF Exchange!Fork, Exchange!ForkFails, Exchange!ParentCloses, Exchange!ChildCloses
<1>2. /\ Requested' = Requested /\ Replied' = Replied /\ Reply' = Reply
      /\ Exchange!Replies' = Exchange!Replies
      /\ MessageOk'
      /\ StreamsRight'
           <=> /\ child' \in {"unborn", "close"} => taken["child"] = << >>
               /\ child' \in {"unborn", "close", "read", "report"} =>
                    taken["parent"] = << >> /\ pipe["response"] = << >>
               /\ child' = "read" /\ program.string =>
                    \A i \in 1 .. Len(taken["child"]) : taken["child"][i] # 0
  BY <1>1, ExchangeQuiet
<1>3. Len(<< >>) = 0
  BY EmptySeq
<1>4. CASE Exchange!Fork
  <2>1. /\ parent = "fork" /\ child = "unborn" /\ parent' = "close" /\ child' = "close"
        /\ open' = open \cup Exchange!EndsOf("child")
    BY <1>4 DEF ExchangeInv, PlacesRight, Exchange!Fork
  <2>2. ExchangeTypes'
    BY <1>1, <1>2, <2>1 DEF ExchangeInv, ExchangeTypes
  <2>3. EndsOpen'
    <3>1. <<"child", "request", "r">> \in open'
          /\ (Exchange!Replies => <<"child", "response", "w">> \in open')
      BY <2>1, EndsAre
    <3>. QED
      BY <1>2, <2>1, <3>1 DEF ExchangeInv, EndsOpen, ChildGoesOn
  <2>4. StreamsRight'
    BY <1>2, <2>1 DEF ExchangeInv, StreamsRight
  <2>5. PlacesRight'
    BY <1>1, <1>2, <2>1 DEF ExchangeInv, PlacesRight
  <2>6. OutputRight'
    BY <1>1, <2>1, Silent
  <2>. QED
    BY <2>2, <2>3, <2>4, <2>5, <2>6 DEF ExchangeInv
<1>5. CASE Exchange!ForkFails
  <2>1. parent = "fork" /\ child = "unborn" /\ parent' = "ended" /\ child' = "unborn"
    BY <1>5 DEF ExchangeInv, PlacesRight, Exchange!ForkFails
  <2>2. ExchangeTypes'
    BY <1>1, <1>2, <2>1 DEF ExchangeInv, ExchangeTypes
  <2>3. EndsOpen'
    BY <2>1 DEF EndsOpen, ChildGoesOn
  <2>4. StreamsRight'
    BY <1>2, <2>1 DEF ExchangeInv, StreamsRight
  <2>5. PlacesRight'
    BY <1>1, <1>2, <2>1 DEF ExchangeInv, PlacesRight
  <2>6. OutputRight'
    BY <1>1, <2>1, Silent
  <2>. QED
    BY <2>2, <2>3, <2>4, <2>5, <2>6 DEF ExchangeInv
<1>6. CASE Exchange!ParentCloses
  <2>1. /\ parent = "close" /\ parent' = "write" /\ child' = child
        /\ open' = open \ {<<"parent", "request", "r">>, <<"parent", "response", "w">>}
    BY <1>6 DEF Exchange!ParentCloses
  <2>2. ExchangeTypes'
    BY <1>1, <1>2, <2>1 DEF ExchangeInv, ExchangeTypes
  <2>3. EndsOpen'
    BY <1>2, <2>1 DEF ExchangeInv, EndsOpen, ChildGoesOn
  <2>4. StreamsRight'
    BY <1>2, <2>1 DEF ExchangeInv, StreamsRight
  <2>5. PlacesRight'
    BY <1>1, <1>2, <2>1 DEF ExchangeInv, PlacesRight
  <2>6. OutputRight'
    BY <1>1, <2>1, Silent
  <2>. QED
    BY <2>2, <2>3, <2>4, <2>5, <2>6 DEF ExchangeInv
<1>7. CASE Exchange!ChildCloses
  <2>1. /\ child = "close" /\ child' = "read" /\ parent' = parent
        /\ open' = open \ {<<"child", "request", "w">>, <<"child", "response", "r">>}
    BY <1>7 DEF Exchange!ChildCloses
  <2>2. ExchangeTypes'
    BY <1>1, <1>2, <2>1 DEF ExchangeInv, ExchangeTypes
  <2>3. EndsOpen'
    BY <1>2, <2>1 DEF ExchangeInv, EndsOpen, ChildGoesOn
  <2>4. StreamsRight'
    <3>1. taken["child"] = << >> /\ \A i \in 1 .. Len(taken["child"]) : FALSE
      BY <1>3, <2>1 DEF ExchangeInv, StreamsRight
    <3>. QED
      BY <1>2, <2>1, <3>1 DEF ExchangeInv, StreamsRight
  <2>5. PlacesRight'
    BY <1>1, <1>2, <2>1 DEF ExchangeInv, PlacesRight
  <2>6. OutputRight'
    BY <1>1, <2>1, Silent
  <2>. QED
    BY <2>2, <2>3, <2>4, <2>5, <2>6 DEF ExchangeInv
<1>. QED
  BY <1>4, <1>5, <1>6, <1>7

LEMMA NewOutput ==
  ASSUME NEW t \in BOOLEAN, NEW o, NEW i, NEW s, stdout' = Out(t, o, i, s)
  PROVE  /\ stdout'.terminal = t /\ Ours' = o /\ Its' = i /\ stdout'.shown = s
         /\ stdout'.terminal \in BOOLEAN
         /\ stdout' = Out(stdout'.terminal, Ours', Its', stdout'.shown)
<1>1. /\ Out(t, o, i, s).terminal = t /\ Out(t, o, i, s).shown = s
      /\ Out(t, o, i, s).buffer["parent"] = o /\ Out(t, o, i, s).buffer["child"] = i
  BY OutParts
<1>. QED
  BY <1>1 DEF Ours, Its

\* A signal ends the parent.
LEMMA ParentDies ==
  ASSUME ExchangeInv, UNCHANGED child, Exchange!Killed("parent"),
         parent' = "killed" \/ (parent' = "sigpipe" /\ child = "killed")
  PROVE  ExchangeInv'
<1>1. /\ UNCHANGED <<program, message, pipe, taken>> /\ open' = open \ Exchange!EndsOf("parent")
      /\ stdout' = Exchange!Discard(stdout, "parent")
  BY DEF Exchange!Killed
<1>2. /\ Requested' = Requested /\ Replied' = Replied /\ Reply' = Reply
      /\ Exchange!Replies' = Exchange!Replies
      /\ MessageOk'
      /\ (\A s : Exchange!Reports(s)' = Exchange!Reports(s))
  BY <1>1, ExchangeQuiet
<1>3. StreamsRight'
  BY <1>1, ExchangeQuiet DEF ExchangeInv, StreamsRight
<1>4. ExchangeTypes'
  BY <1>1, <1>2 DEF ExchangeInv, ExchangeTypes
<1>5. EndsOpen'
  BY <1>1, <1>2, EndsAre DEF ExchangeInv, EndsOpen, ChildGoesOn
<1>6. PlacesRight'
  BY <1>1, <1>2 DEF ExchangeInv, PlacesRight
<1>7. OutputRight'
  <2>1. stdout' = Out(stdout.terminal, << >>, Its, stdout.shown) /\ stdout.terminal \in BOOLEAN
    BY <1>1, OutParts DEF ExchangeInv, OutputRight
  <2>2. /\ stdout'.terminal = stdout.terminal /\ Ours' = << >> /\ Its' = Its
        /\ stdout'.shown = stdout.shown /\ stdout'.terminal \in BOOLEAN
        /\ stdout' = Out(stdout'.terminal, Ours', Its', stdout'.shown)
    BY <2>1, NewOutput
  <2>3. Exchange!Replies => ReplyPrinted'
    BY <2>2 DEF ExchangeInv, OutputRight, ReplyPrinted
  <2>4. ~Exchange!Replies /\ stdout.terminal => MessagePrinted'
    BY <1>1, <1>2, <2>2 DEF ExchangeInv, OutputRight, MessagePrinted
  <2>. QED
    BY <1>2, <2>2, <2>3, <2>4 DEF ExchangeInv, OutputRight
<1>. QED
  BY <1>3, <1>4, <1>5, <1>6, <1>7 DEF ExchangeInv

\* The child ends.
LEMMA ChildDies ==
  ASSUME ExchangeInv, UNCHANGED parent, Exchange!Killed("child"),
         \/ child \in {"close", "read", "report", "reply", "exit"} /\ child' = "killed"
         \/ child = "reply" /\ child' = "sigpipe" /\ parent = "killed"
         \/ child = "exit" /\ child' = "ended"
  PROVE  ExchangeInv'
<1>1. /\ UNCHANGED <<program, message, pipe, taken>> /\ open' = open \ Exchange!EndsOf("child")
      /\ stdout' = Exchange!Discard(stdout, "child")
  BY DEF Exchange!Killed
<1>2. /\ Requested' = Requested /\ Replied' = Replied /\ Reply' = Reply
      /\ Exchange!Replies' = Exchange!Replies
      /\ MessageOk'
      /\ (\A s : Exchange!Reports(s)' = Exchange!Reports(s))
  BY <1>1, ExchangeQuiet
<1>3. StreamsRight'
  BY <1>1, ExchangeQuiet DEF ExchangeInv, StreamsRight
<1>4. ExchangeTypes'
  BY <1>1, <1>2 DEF ExchangeInv, ExchangeTypes
<1>5. EndsOpen'
  BY <1>1, <1>2, EndsAre DEF ExchangeInv, EndsOpen, ChildGoesOn
<1>6. PlacesRight'
  BY <1>1, <1>2 DEF ExchangeInv, PlacesRight
<1>7. OutputRight'
  <2>1. stdout' = Out(stdout.terminal, Ours, << >>, stdout.shown) /\ stdout.terminal \in BOOLEAN
    BY <1>1, OutParts DEF ExchangeInv, OutputRight
  <2>2. /\ stdout'.terminal = stdout.terminal /\ Ours' = Ours /\ Its' = << >>
        /\ stdout'.shown = stdout.shown /\ stdout'.terminal \in BOOLEAN
        /\ stdout' = Out(stdout'.terminal, Ours', Its', stdout'.shown)
    BY <2>1, NewOutput
  <2>3. Exchange!Replies => ReplyPrinted'
    BY <1>1, <2>2 DEF ExchangeInv, OutputRight, ReplyPrinted
  <2>4. ~Exchange!Replies /\ stdout.terminal => MessagePrinted'
    BY <1>1, <1>2, <2>2 DEF ExchangeInv, OutputRight, MessagePrinted
  <2>. QED
    BY <1>2, <2>2, <2>3, <2>4 DEF ExchangeInv, OutputRight
<1>. QED
  BY <1>3, <1>4, <1>5, <1>6, <1>7 DEF ExchangeInv

LEMMA ExchangeDeaths ==
  ASSUME ExchangeInv,
         \/ Exchange!ParentBrokenPipe \/ Exchange!ChildBrokenPipe \/ Exchange!ChildEnds
         \/ Exchange!KillChild \/ Exchange!KillParent
  PROVE  ExchangeInv'
<1>1. CASE Exchange!ParentBrokenPipe
  <2>1. parent = "write" /\ <<"child", "request", "r">> \notin open
    BY <1>1 DEF Exchange!ParentBrokenPipe, Exchange!Holders, Exchange!Processes
  <2>2. ~ChildGoesOn
    BY <2>1 DEF ExchangeInv, EndsOpen
  <2>3. child = "killed"
    BY <2>1, <2>2 DEF ExchangeInv, ExchangeTypes, PlacesRight, ChildGoesOn
  <2>. QED
    BY <1>1, <2>3, ParentDies DEF Exchange!ParentBrokenPipe
<1>2. CASE Exchange!ChildBrokenPipe
  <2>1. child = "reply" /\ <<"parent", "response", "r">> \notin open
    BY <1>2 DEF Exchange!ChildBrokenPipe, Exchange!Holders, Exchange!Processes
  <2>2. Exchange!Replies /\ Replied < Len(Reply)
    BY <2>1 DEF ExchangeInv, PlacesRight
  <2>3. parent \in {"wait", "ended", "killed", "sigpipe"}
    BY <2>1, <2>2 DEF ExchangeInv, ExchangeTypes, EndsOpen
  <2>4. parent # "sigpipe"
    BY <2>1 DEF ExchangeInv, PlacesRight
  <2>5. ASSUME parent \in {"wait", "ended"} PROVE FALSE
    <3>1. taken["parent"] = Reply
      BY <2>1, <2>2, <2>5 DEF ExchangeInv, PlacesRight
    <3>2. Replied = Len(Reply) + Len(pipe["response"]) /\ Len(pipe["response"]) \in Nat
          /\ Len(Reply) \in Nat
      BY <3>1, LengthsAre, ReplyIs DEF ExchangeInv
    <3>. QED
      BY <2>2, <3>2
  <2>6. parent = "killed"
    BY <2>3, <2>4, <2>5
  <2>. QED
    BY <1>2, <2>1, <2>6, ChildDies DEF Exchange!ChildBrokenPipe
<1>3. CASE Exchange!ChildEnds
  BY <1>3, ChildDies DEF Exchange!ChildEnds, Exchange!Killed
<1>4. CASE Exchange!KillChild
  BY <1>4, ChildDies DEF Exchange!KillChild, Exchange!ChildLives, Exchange!Gone,
                         ExchangeInv, ExchangeTypes
<1>5. CASE Exchange!KillParent
  BY <1>5, ParentDies DEF Exchange!KillParent
<1>. QED
  BY <1>1, <1>2, <1>3, <1>4, <1>5

\* The end of a file: the other process has closed its end.
LEMMA ExchangeEOFs ==
  ASSUME ExchangeInv, Exchange!ParentEOF \/ Exchange!ChildEOF
  PROVE  ExchangeInv'
<1>1. UNCHANGED <<program, message, pipe, taken, stdout, open>>
  BY DEF Exchange!ParentEOF, Exchange!ChildEOF
<1>2. /\ Requested' = Requested /\ Replied' = Replied /\ Reply' = Reply
      /\ Exchange!Replies' = Exchange!Replies
      /\ MessageOk'
  BY <1>1, ExchangeQuiet
<1>3. CASE Exchange!ParentEOF
  <2>1. /\ parent = "read" /\ parent' = "print" /\ child' = child /\ pipe["response"] = << >>
        /\ <<"child", "response", "w">> \notin open
    BY <1>3 DEF Exchange!ParentEOF, Exchange!AtEOF, Exchange!Holders, Exchange!Processes
  <2>2. Exchange!Replies /\ ~ChildGoesOn
    BY <2>1 DEF ExchangeInv, PlacesRight, EndsOpen
  <2>3. child \in {"ended", "killed"}
    BY <2>1, <2>2 DEF ExchangeInv, ExchangeTypes, PlacesRight, ChildGoesOn
  <2>4. child = "ended" => taken["parent"] = Reply
    BY <2>1, <2>2, ReplyWhole DEF ExchangeInv, PlacesRight
  <2>5. ExchangeTypes'
    BY <1>1, <1>2, <2>1 DEF ExchangeInv, ExchangeTypes
  <2>6. EndsOpen'
    BY <1>1, <1>2, <2>1 DEF ExchangeInv, EndsOpen, ChildGoesOn
  <2>7. StreamsRight'
    BY <1>1, <2>1, ExchangeQuiet DEF ExchangeInv, StreamsRight
  <2>8. PlacesRight'
    BY <1>1, <1>2, <2>1, <2>2, <2>3, <2>4 DEF ExchangeInv, PlacesRight
  <2>9. OutputRight'
    BY <1>1, <2>1, <2>2, Silent
  <2>. QED
    BY <2>5, <2>6, <2>7, <2>8, <2>9 DEF ExchangeInv
<1>4. CASE Exchange!ChildEOF
  <2>1. /\ child = "read" /\ child' = "report" /\ parent' = parent /\ pipe["request"] = << >>
        /\ <<"parent", "request", "w">> \notin open
    BY <1>4 DEF Exchange!ChildEOF, Exchange!AtEOF, Exchange!Holders, Exchange!Processes
  <2>2. parent \in {"wait", "ended", "killed"}
    BY <2>1 DEF ExchangeInv, ExchangeTypes, EndsOpen, PlacesRight
  <2>3. parent # "killed" => taken["child"] = message
    BY <2>1, <2>2, RequestWhole DEF ExchangeInv, PlacesRight
  <2>4. program.string => taken["child"] # message
    <3>1. SUFFICES ASSUME program.string, taken["child"] = message PROVE FALSE
      OBVIOUS
    <3>2. \A i \in 1 .. Len(message) : message[i] # 0
      BY <2>1, <3>1 DEF ExchangeInv, StreamsRight
    <3>3. Len(message) \in 1 .. Len(message) /\ message[Len(message)] = 0
      BY <3>1, MessageIs DEF ExchangeInv, ExchangeTypes
    <3>. QED
      BY <3>2, <3>3
  <2>5. program.prints = "line" => program.string
    BY ProgramIs DEF ExchangeInv, ExchangeTypes, MessageOk
  <2>6. ExchangeTypes'
    BY <1>1, <1>2, <2>1 DEF ExchangeInv, ExchangeTypes
  <2>7. EndsOpen'
    BY <1>1, <1>2, <2>1 DEF ExchangeInv, EndsOpen, ChildGoesOn
  <2>8. StreamsRight'
    BY <1>1, <2>1, ExchangeQuiet DEF ExchangeInv, StreamsRight
  <2>9. PlacesRight'
    BY <1>1, <1>2, <2>1, <2>2, <2>3 DEF ExchangeInv, PlacesRight
  <2>10. OutputRight'
    BY <1>1, <2>1, <2>4, <2>5, Silent
  <2>. QED
    BY <2>6, <2>7, <2>8, <2>9, <2>10 DEF ExchangeInv
<1>. QED
  BY <1>3, <1>4

\* printf() of a line, to a terminal and to a file.
Interactive(t) == t
LEMMA OutLine ==
  ASSUME NEW t \in BOOLEAN, NEW o, NEW i, NEW s, NEW x
  PROVE  /\ Interactive(t) =>
              /\ Exchange!SayLine(Out(t, o, i, s), "child", x)
                   = Out(t, o, << >>, Followed(s, Followed(i, x)))
              /\ Exchange!SayLine(Out(t, o, i, s), "parent", x)
                   = Out(t, << >>, i, Followed(s, Followed(o, x)))
         /\ ~Interactive(t) =>
              /\ Exchange!SayLine(Out(t, o, i, s), "child", x) = Out(t, o, Followed(i, x), s)
              /\ Exchange!SayLine(Out(t, o, i, s), "parent", x) = Out(t, Followed(o, x), i, s)
         /\ Exchange!Say(Out(t, o, i, s), "child", x) = Out(t, o, Followed(i, x), s)
BY OutSays DEF Followed, Interactive

LEMMA ExchangeParentPrints ==
  ASSUME ExchangeInv, Exchange!ParentPrints
  PROVE  ExchangeInv'
<1>1. /\ parent = "print" /\ parent' = "wait"
      /\ stdout' = Exchange!SayLine(stdout, "parent", Exchange!Text(taken["parent"]))
      /\ open' = open \ Exchange!EndsOf("parent")
      /\ UNCHANGED <<program, message, child, pipe, taken>>
  BY DEF Exchange!ParentPrints
<1>2. /\ Requested' = Requested /\ Replied' = Replied /\ Reply' = Reply
      /\ Exchange!Replies' = Exchange!Replies
      /\ MessageOk'
  BY <1>1, ExchangeQuiet
<1>3. Exchange!Replies
  BY <1>1 DEF ExchangeInv, PlacesRight
<1>4. StreamsRight'
  BY <1>1, ExchangeQuiet DEF ExchangeInv, StreamsRight
<1>5. ExchangeTypes'
  BY <1>1, <1>2 DEF ExchangeInv, ExchangeTypes
<1>6. EndsOpen'
  BY <1>1, <1>2, EndsAre DEF ExchangeInv, EndsOpen, ChildGoesOn
<1>7. PlacesRight'
  BY <1>1, <1>2 DEF ExchangeInv, PlacesRight
<1>8. OutputRight'
  <2>1. DEFINE x == Exchange!Text(taken["parent"])
  <2>2. Followed(<< >>, x) = x
    BY LengthsAre, TextIs, SomeText DEF ExchangeInv, Followed
  <2>3. stdout = Out(stdout.terminal, << >>, << >>, << >>) /\ stdout.terminal \in BOOLEAN
    BY <1>1, <1>3 DEF ExchangeInv, OutputRight, ReplyPrinted
  <2> HIDE DEF x
  <2>4. CASE Interactive(stdout.terminal)
    <3>1. stdout' = Exchange!SayLine(Out(stdout.terminal, << >>, << >>, << >>), "parent", x)
      BY <1>1, <2>3, <2>4 DEF x
    <3>2. stdout' = Out(stdout.terminal, << >>, << >>, x)
      BY <2>2, <2>3, <3>1, <2>4, OutLine
    <3>3. /\ stdout'.terminal = stdout.terminal /\ Ours' = << >> /\ Its' = << >> /\ stdout'.shown = x
          /\ stdout' = Out(stdout'.terminal, Ours', Its', stdout'.shown)
      BY <2>3, <2>4, <3>2, NewOutput
    <3>. QED
      BY <1>1, <1>2, <1>3, <2>4, <3>3 DEF OutputRight, ReplyPrinted, x, Interactive
  <2>5. CASE ~Interactive(stdout.terminal)
    <3>1. stdout' = Exchange!SayLine(Out(stdout.terminal, << >>, << >>, << >>), "parent", x)
      BY <1>1, <2>3, <2>5 DEF x
    <3>2. stdout' = Out(stdout.terminal, x, << >>, << >>)
      BY <2>2, <2>3, <3>1, <2>5, OutLine
    <3>3. /\ stdout'.terminal = stdout.terminal /\ Ours' = x /\ Its' = << >> /\ stdout'.shown = << >>
          /\ stdout' = Out(stdout'.terminal, Ours', Its', stdout'.shown)
      BY <2>3, <2>5, <3>2, NewOutput
    <3>4. ReplyPrinted'
      BY <1>1, <2>5, <3>3 DEF ReplyPrinted, x, Interactive
    <3>. QED
      BY <1>2, <1>3, <2>3, <3>3, <3>4 DEF OutputRight
  <2>. QED
    BY <2>3, <2>4, <2>5
<1>. QED
  BY <1>4, <1>5, <1>6, <1>7, <1>8 DEF ExchangeInv

\* The reports of the child.
LEMMA ReportsAre ==
  ASSUME ExchangeTypes, NEW text \in Seq(Nat), NEW r \in Exchange!Reports(text)
  PROVE  /\ << >> \o r = r /\ r \o << >> = r
         /\ r = << >> <=> program.prints \in {"each", "line", "upper"}
         /\ Len(r) \in Nat
<1>1. program.prints \in {"each", "sum", "line", "length", "upper"}
  BY ProgramIs DEF ExchangeTypes, MessageOk
<1>2. CASE program.prints = "length"
  <2>1. r = text \o <<Len(text)>> \/ r = text \o <<Exchange!Junk, Len(text)>>
    BY <1>2 DEF Exchange!Reports
  <2>2. text \in Seq(Int) /\ Len(text) \in Nat /\ <<Len(text)>> \in Seq(Int) /\ Len(<<Len(text)>>) = 1
        /\ <<Exchange!Junk, Len(text)>> \in Seq(Int) /\ Len(<<Exchange!Junk, Len(text)>>) = 2
    <3>1. text \in Seq(Int) /\ Len(text) \in Nat
      BY SeqMonotonic, LenProperties
    <3>. QED
      BY <3>1 DEF Exchange!Junk
  <2>3. r \in Seq(Int) /\ Len(r) \in {Len(text) + 1, Len(text) + 2}
    <3>1. ASSUME NEW u \in Seq(Int), NEW k \in Nat, Len(u) = k
          PROVE  text \o u \in Seq(Int) /\ Len(text \o u) = Len(text) + k
      BY <2>2, <3>1, ConcatProperties
    <3>2. \A u \in Seq(Int) : Len(u) \in {1, 2} =>
            text \o u \in Seq(Int) /\ Len(text \o u) \in {Len(text) + 1, Len(text) + 2}
      BY <3>1
    <3>. QED
      BY <2>1, <2>2, <3>2
  <2>4. << >> \o r = r /\ r \o << >> = r
    BY <2>3, ConcatEmptySeq
  <2>5. r # << >>
    BY <2>2, <2>3, EmptySeq
  <2>. QED
    BY <1>2, <2>2, <2>3, <2>4, <2>5
<1>3. CASE program.prints = "sum"
  <2>1. r = <<Exchange!Sum(text)>>
    BY <1>3 DEF Exchange!Reports
  <2>2. r \in Seq({Exchange!Sum(text)}) /\ r # << >> /\ Len(r) = 1
    <3>1. PICK v : v = Exchange!Sum(text)
      OBVIOUS
    <3>2. <<v>> \in Seq({v}) /\ <<v>> # << >> /\ Len(<<v>>) = 1
      OBVIOUS
    <3>. QED
      BY <2>1, <3>1, <3>2
  <2>. QED
    BY <1>3, <2>2, ConcatEmptySeq
<1>4. CASE program.prints \in {"each", "line", "upper"}
  <2>1. r = << >>
    BY <1>4 DEF Exchange!Reports
  <2>. QED
    BY <1>4, <2>1, NoText, EmptySeq
<1>. QED
  BY <1>1, <1>2, <1>3, <1>4

LEMMA ExchangeParentEnds ==
  ASSUME ExchangeInv, Exchange!ParentEnds
  PROVE  ExchangeInv'
<1>1. /\ parent = "wait" /\ parent' = "ended" /\ child \in {"ended", "killed", "sigpipe"}
      /\ stdout' = Exchange!Flush(stdout, "parent")
      /\ UNCHANGED <<program, message, child, open, pipe, taken>>
  BY DEF Exchange!ParentEnds, Exchange!Gone
<1>2. /\ Requested' = Requested /\ Replied' = Replied /\ Reply' = Reply
      /\ Exchange!Replies' = Exchange!Replies
      /\ MessageOk'
      /\ (\A s : Exchange!Reports(s)' = Exchange!Reports(s))
  BY <1>1, ExchangeQuiet
<1>3. StreamsRight'
  BY <1>1, ExchangeQuiet DEF ExchangeInv, StreamsRight
<1>4. ExchangeTypes'
  BY <1>1, <1>2 DEF ExchangeInv, ExchangeTypes
<1>5. EndsOpen'
  BY <1>1, <1>2 DEF ExchangeInv, EndsOpen, ChildGoesOn
<1>6. PlacesRight'
  BY <1>1, <1>2 DEF ExchangeInv, PlacesRight
<1>7. stdout' = Out(stdout.terminal, << >>, Its, stdout.shown \o Ours) /\ stdout.terminal \in BOOLEAN
  BY <1>1, OutParts DEF ExchangeInv, OutputRight
<1>8. /\ stdout'.terminal = stdout.terminal /\ Ours' = << >> /\ Its' = Its
      /\ stdout'.shown = stdout.shown \o Ours /\ stdout'.terminal \in BOOLEAN
      /\ stdout' = Out(stdout'.terminal, Ours', Its', stdout'.shown)
  BY <1>7, NewOutput
<1>9. ASSUME Exchange!Replies PROVE ReplyPrinted'
  <2>1. DEFINE x == Exchange!Text(taken["parent"])
  <2>2. << >> \o x = x /\ x \o << >> = x
    BY LengthsAre, TextIs, SomeText DEF ExchangeInv
  <2>3. Its = << >> /\ ((stdout.shown = x /\ Ours = << >>) \/ (stdout.shown = << >> /\ Ours = x))
    BY <1>1, <1>9 DEF ExchangeInv, OutputRight, ReplyPrinted
  <2>4. stdout'.shown = x
    <3> HIDE DEF x
    <3>. QED
      BY <1>8, <2>2, <2>3
  <2>. QED
    BY <1>1, <1>8, <2>3, <2>4 DEF ReplyPrinted
<1>10. ASSUME ~Exchange!Replies, ~stdout.terminal PROVE stdout'.shown = << >>
  BY <1>8, <1>10, NoText DEF ExchangeInv, OutputRight
<1>11. ASSUME ~Exchange!Replies, stdout.terminal PROVE MessagePrinted'
  <2>1. Ours = << >> /\ MessagePrinted
    BY <1>11 DEF ExchangeInv, OutputRight
  <2>2. program.prints = "each" => Its = << >> /\ stdout'.shown = taken["child"]
    <3>1. taken["child"] \o << >> = taken["child"]
      BY LengthsAre, SomeText DEF ExchangeInv
    <3>. QED
      BY <1>8, <2>1, <3>1 DEF MessagePrinted
  <2>3. program.prints = "line" /\ child = "ended" /\ taken["child"] = message =>
          stdout'.shown = Exchange!Text(message)
    <3>1. Exchange!Text(message) \o << >> = Exchange!Text(message)
      BY MessageIs, TextIs, SomeText DEF ExchangeInv, ExchangeTypes
    <3>. QED
      BY <1>8, <2>1, <3>1 DEF MessagePrinted
  <2>4. program.prints \in {"length", "sum"} =>
          /\ Its = << >>
          /\ child = "ended" => stdout'.shown \in Exchange!Reports(Exchange!Text(taken["child"]))
    <3>1. Exchange!Text(taken["child"]) \in Seq(Nat)
      BY LengthsAre, TextIs DEF ExchangeInv
    <3>2. \A r \in Exchange!Reports(Exchange!Text(taken["child"])) : r \o << >> = r
      BY <3>1, ReportsAre DEF ExchangeInv
    <3>. QED
      BY <1>8, <2>1, <3>2 DEF MessagePrinted
  <2>. QED
    BY <1>1, <1>2, <1>8, <2>2, <2>3, <2>4 DEF MessagePrinted
<1>12. OutputRight'
  BY <1>2, <1>8, <1>9, <1>10, <1>11 DEF OutputRight
<1>. QED
  BY <1>3, <1>4, <1>5, <1>6, <1>12 DEF ExchangeInv

LEMMA ExchangeChildReports ==
  ASSUME ExchangeInv, Exchange!ChildReports
  PROVE  ExchangeInv'
<1>1. /\ child = "report" /\ child' = IF Exchange!Replies THEN "reply" ELSE "exit"
      /\ UNCHANGED <<program, message, parent, open, pipe, taken>>
  BY DEF Exchange!ChildReports
<1>2. PICK r \in Exchange!Reports(Exchange!Text(taken["child"])) :
        stdout' = IF r = << >> THEN stdout ELSE Exchange!SayLine(stdout, "child", r)
  BY DEF Exchange!ChildReports
<1>3. /\ Requested' = Requested /\ Replied' = Replied /\ Reply' = Reply
      /\ Exchange!Replies' = Exchange!Replies
      /\ MessageOk'
      /\ (\A s : Exchange!Reports(s)' = Exchange!Reports(s))
  BY <1>1, ExchangeQuiet
<1>4. StreamsRight'
  BY <1>1, ExchangeQuiet DEF ExchangeInv, StreamsRight
<1>5. ExchangeTypes'
  BY <1>1, <1>3 DEF ExchangeInv, ExchangeTypes
<1>6. EndsOpen'
  BY <1>1, <1>3 DEF ExchangeInv, EndsOpen, ChildGoesOn
<1>7. PlacesRight'
  <2>1. Replied < Len(Reply)
    <3>1. taken["parent"] = << >> /\ pipe["response"] = << >>
      BY <1>1 DEF ExchangeInv, StreamsRight
    <3>2. Replied = 0
      BY <3>1, LengthsAre, EmptySeq DEF ExchangeInv
    <3>. QED
      BY <3>2, ReplyIs DEF ExchangeInv
  <2>2. Exchange!Replies => parent \in {"fork", "close", "write", "read", "killed"}
    <3>1. Exchange!Replies /\ parent \in {"print", "wait", "ended"} => taken["parent"] = Reply
      BY <1>1 DEF ExchangeInv, PlacesRight
    <3>2. taken["parent"] # Reply
      BY <1>1, ReplyIs, EmptySeq DEF ExchangeInv, StreamsRight
    <3>. QED
      BY <1>1, <3>1, <3>2 DEF ExchangeInv, ExchangeTypes, PlacesRight
  <2>. QED
    BY <1>1, <1>3, <2>1, <2>2 DEF ExchangeInv, PlacesRight
<1>8. Exchange!Text(taken["child"]) \in Seq(Nat)
  BY LengthsAre, TextIs DEF ExchangeInv
<1>9. << >> \o r = r /\ (r = << >> <=> program.prints \in {"each", "line", "upper"})
  BY <1>8, ReportsAre DEF ExchangeInv
<1>10. program.prints \in {"each", "sum", "line", "length", "upper"}
       /\ (Exchange!Replies <=> program.prints = "upper")
  BY ProgramIs DEF ExchangeInv, ExchangeTypes, MessageOk, Exchange!Replies
<1>11. CASE program.prints \in {"each", "line", "upper"}
  <2>1. UNCHANGED stdout
    BY <1>2, <1>9, <1>11
  <2>2. OutputRight'
    <3>1. Ours' = Ours /\ Its' = Its
      BY <2>1 DEF Ours, Its
    <3>2. Exchange!Replies => ReplyPrinted'
      BY <1>1, <2>1, <3>1 DEF ExchangeInv, OutputRight, ReplyPrinted
    <3>3. ~Exchange!Replies /\ stdout.terminal => MessagePrinted'
      BY <1>1, <1>11, <2>1, <3>1 DEF ExchangeInv, OutputRight, MessagePrinted
    <3>. QED
      BY <1>3, <2>1, <3>1, <3>2, <3>3 DEF ExchangeInv, OutputRight
  <2>. QED
    BY <1>4, <1>5, <1>6, <1>7, <2>2 DEF ExchangeInv
<1>12. CASE program.prints \in {"length", "sum"}
  <2>1. stdout' = Exchange!SayLine(stdout, "child", r) /\ ~Exchange!Replies
    BY <1>2, <1>9, <1>10, <1>12
  <2>2. /\ stdout = Out(stdout.terminal, << >>, Its, << >>) /\ stdout.terminal \in BOOLEAN
        /\ stdout.terminal => Its = << >>
    BY <1>1, <1>12, <2>1 DEF ExchangeInv, OutputRight, MessagePrinted
  <2>3. Followed(<< >>, r) = r
    BY <1>9 DEF Followed
  <2>4. CASE Interactive(stdout.terminal)
    <3>1. stdout' = Exchange!SayLine(Out(stdout.terminal, << >>, << >>, << >>), "child", r)
      BY <2>1, <2>2, <2>4 DEF Interactive
    <3>2. stdout' = Out(stdout.terminal, << >>, << >>, r)
      BY <2>2, <2>3, <2>4, <3>1, OutLine
    <3>3. /\ stdout'.terminal = stdout.terminal /\ Ours' = << >> /\ Its' = << >> /\ stdout'.shown = r
          /\ stdout' = Out(stdout'.terminal, Ours', Its', stdout'.shown)
      BY <2>2, <2>4, <3>2, NewOutput
    <3>4. MessagePrinted'
      BY <1>1, <1>3, <1>12, <2>1, <3>3 DEF MessagePrinted
    <3>5. OutputRight'
      BY <1>3, <2>1, <2>4, <3>3, <3>4 DEF OutputRight, Interactive
    <3>. QED
      BY <1>4, <1>5, <1>6, <1>7, <3>5 DEF ExchangeInv
  <2>5. CASE ~Interactive(stdout.terminal)
    <3>1. PICK i : i = Followed(Its, r)
      OBVIOUS
    <3>2. PICK j : j = Its
      OBVIOUS
    <3>3. stdout' = Exchange!SayLine(Out(stdout.terminal, << >>, j, << >>), "child", r)
      BY <2>1, <2>2, <2>5, <3>2
    <3>4. stdout' = Out(stdout.terminal, << >>, i, << >>)
      BY <2>2, <2>5, <3>1, <3>2, <3>3, OutLine
    <3>5. /\ stdout'.terminal = stdout.terminal /\ Ours' = << >> /\ Its' = i /\ stdout'.shown = << >>
          /\ stdout' = Out(stdout'.terminal, Ours', Its', stdout'.shown)
      BY <2>2, <2>5, <3>4, NewOutput
    <3>6. OutputRight'
      <4>1. stdout'.terminal => MessagePrinted'
        BY <2>5, <3>5 DEF Interactive
      <4>. QED
        BY <1>3, <2>1, <2>2, <3>5, <4>1 DEF OutputRight
    <3>. QED
      BY <1>4, <1>5, <1>6, <1>7, <3>6 DEF ExchangeInv
  <2>. QED
    BY <2>2, <2>4, <2>5
<1>. QED
  BY <1>10, <1>11, <1>12

\* write() of the message, and of the answer to it.
LEMMA ExchangeParentWrites ==
  ASSUME ExchangeInv, Exchange!ParentWrites
  PROVE  ExchangeInv'
<1>1. /\ parent = "write" /\ UNCHANGED <<program, message, child, taken, stdout>>
      /\ Exchange!WriteSome("request", Exchange!Rest(message, "request", "child"), ~program.string)
      /\ IF Len(pipe'["request"]) - Len(pipe["request"])
              < Len(Exchange!Rest(message, "request", "child"))
           THEN UNCHANGED <<parent, open>>
           ELSE IF Exchange!Replies THEN parent' = "read" /\ UNCHANGED open
           ELSE parent' = "wait" /\ open' = open \ Exchange!EndsOf("parent")
  BY DEF Exchange!ParentWrites
<1>2. message \in Seq(Nat) /\ Len(message) \in Nat \ {0}
  BY MessageIs DEF ExchangeInv, ExchangeTypes
<1>3. Requested < Len(message) /\ Stream(taken["child"], pipe["request"], message)
  BY <1>1 DEF ExchangeInv, PlacesRight, StreamsRight
<1>4. PICK j \in 1 .. Len(message) - Requested :
        /\ pipe' \in [{"request", "response"} -> Seq(Nat)]
        /\ \A q \in {"request", "response"} : q # "request" => pipe'[q] = pipe[q]
        /\ Len(pipe'["request"]) = Len(pipe["request"]) + j
        /\ Len(Exchange!Rest(message, "request", "child")) = Len(message) - Requested
        /\ Stream(taken["child"], pipe'["request"], message)
  <2>1. (~program.string) \in BOOLEAN /\ "child" \in Exchange!Processes
    BY DEF Exchange!Processes
  <2>2. Exchange!Written("request", "child") < Len(message)
    BY <1>3 DEF Requested
  <2>3. ExchangeTypes
    BY DEF ExchangeInv
  <2>. QED
    BY <1>1, <1>2, <1>3, <2>1, <2>2, <2>3, WriteSomeIs DEF Requested
<1>5. /\ Requested = Len(taken["child"]) + Len(pipe["request"]) /\ Requested \in Nat
      /\ Len(taken["child"]) \in Nat /\ Len(pipe["request"]) \in Nat
      /\ Len(taken["parent"]) \in Nat /\ Len(pipe["response"]) \in Nat
  BY LengthsAre DEF ExchangeInv, Exchange!Processes
<1>6. /\ pipe'["response"] = pipe["response"] /\ Reply' = Reply /\ Replied' = Replied
      /\ Exchange!Replies' = Exchange!Replies /\ MessageOk'
  BY <1>1, <1>4 DEF Reply, Replied, Exchange!Written, Exchange!Replies,
                    MessageOk, ExchangeInv, ExchangeTypes
<1>7. Requested' = Requested + j /\ Requested' <= Len(message)
  <2>0. /\ pipe \in [{"request", "response"} -> Seq(Nat)]
        /\ taken \in [{"parent", "child"} -> Seq(Nat)]
    BY DEF ExchangeInv, ExchangeTypes, Exchange!Processes
  <2>1. Requested' = Len(taken["child"]) + Len(pipe'["request"])
    BY <1>1 DEF Requested, Exchange!Written
  <2>. QED
    BY <1>2, <1>4, <1>5, <2>0, <2>1
<1>8. \/ UNCHANGED <<parent, open>> /\ Requested' < Len(message)
      \/ /\ Requested' = Len(message)
         /\ IF Exchange!Replies THEN parent' = "read" /\ UNCHANGED open
            ELSE parent' = "wait" /\ open' = open \ Exchange!EndsOf("parent")
  <2>0. /\ pipe \in [{"request", "response"} -> Seq(Nat)]
        /\ taken \in [{"parent", "child"} -> Seq(Nat)]
    BY DEF ExchangeInv, ExchangeTypes, Exchange!Processes
  <2>1. /\ Len(pipe'["request"]) - Len(pipe["request"]) = j
        /\ Len(Exchange!Rest(message, "request", "child")) = Len(message) - Requested
    BY <1>4, <1>5, <2>0
  <2>6. Requested \in Nat /\ j \in Int
    BY <1>4, <1>5, <2>0
  <2>2. j < Len(message) - Requested <=> Requested' < Len(message)
    BY <1>2, <1>7, <2>6
  <2>3. Requested' <= Len(message) /\ Requested' \in Nat
    BY <1>4, <1>5, <1>7, <2>0
  <2>4. \/ UNCHANGED <<parent, open>> /\ j < Len(message) - Requested
        \/ /\ ~(j < Len(message) - Requested)
           /\ IF Exchange!Replies THEN parent' = "read" /\ UNCHANGED open
              ELSE parent' = "wait" /\ open' = open \ Exchange!EndsOf("parent")
    BY <1>1, <2>0, <2>1
  <2>5. ~(Requested' < Len(message)) => Requested' = Len(message)
    BY <1>2, <2>3
  <2>. QED
    BY <2>2, <2>4, <2>5
<1>9. child \in {"close", "read", "killed"}
  BY <1>1 DEF ExchangeInv, ExchangeTypes, PlacesRight
<1>10. ExchangeTypes'
  BY <1>1, <1>4, <1>6, <1>8 DEF ExchangeInv, ExchangeTypes
<1>11. EndsOpen'
  <2>1. \/ UNCHANGED open /\ parent' \in {"write", "read"}
        \/ open' = open \ Exchange!EndsOf("parent") /\ parent' = "wait"
    BY <1>1, <1>8
  <2>2. <<"child", "request", "r">> \in open' <=> <<"child", "request", "r">> \in open
    BY <2>1, EndsAre
  <2>3. <<"child", "response", "w">> \in open' <=> <<"child", "response", "w">> \in open
    BY <2>1, EndsAre
  <2>4. parent' = "read" => Exchange!Replies /\ UNCHANGED open
    BY <1>1, <1>8
  <2>. QED
    BY <1>1, <1>6, <2>1, <2>2, <2>3, <2>4 DEF ExchangeInv, EndsOpen, ChildGoesOn
<1>12. StreamsRight'
  BY <1>1, <1>4, <1>6 DEF ExchangeInv, StreamsRight
<1>13. PlacesRight'
  BY <1>1, <1>6, <1>8, <1>9 DEF ExchangeInv, PlacesRight
<1>14. OutputRight'
  BY <1>1, <1>8, Silent
<1>. QED
  BY <1>10, <1>11, <1>12, <1>13, <1>14 DEF ExchangeInv

LEMMA ExchangeChildReplies ==
  ASSUME ExchangeInv, Exchange!ChildReplies
  PROVE  ExchangeInv'
<1>1. /\ child = "reply" /\ UNCHANGED <<program, message, parent, open, taken, stdout>>
      /\ Exchange!WriteSome("response", Exchange!Rest(Reply, "response", "parent"), FALSE)
      /\ child' = IF Len(pipe'["response"]) - Len(pipe["response"])
                       = Len(Exchange!Rest(Reply, "response", "parent")) THEN "exit" ELSE "reply"
  BY DEF Exchange!ChildReplies, Reply, Exchange!Zero
<1>2. Reply \in Seq(Nat) /\ Len(Reply) \in Nat \ {0}
  BY ReplyIs DEF ExchangeInv
<1>3. /\ Replied < Len(Reply) /\ Stream(taken["parent"], pipe["response"], Reply)
      /\ Exchange!Replies
  BY <1>1 DEF ExchangeInv, PlacesRight, StreamsRight
<1>4. PICK j \in 1 .. Len(Reply) - Replied :
        /\ pipe' \in [{"request", "response"} -> Seq(Nat)]
        /\ \A q \in {"request", "response"} : q # "response" => pipe'[q] = pipe[q]
        /\ Len(pipe'["response"]) = Len(pipe["response"]) + j
        /\ Len(Exchange!Rest(Reply, "response", "parent")) = Len(Reply) - Replied
        /\ Stream(taken["parent"], pipe'["response"], Reply)
  <2>1. FALSE \in BOOLEAN /\ "parent" \in Exchange!Processes
    BY DEF Exchange!Processes
  <2>2. Exchange!Written("response", "parent") < Len(Reply)
    BY <1>3 DEF Replied
  <2>3. ExchangeTypes
    BY DEF ExchangeInv
  <2>. QED
    BY <1>1, <1>2, <1>3, <2>1, <2>2, <2>3, WriteSomeIs DEF Replied
<1>5. /\ Replied = Len(taken["parent"]) + Len(pipe["response"]) /\ Replied \in Nat
      /\ Len(taken["parent"]) \in Nat /\ Len(pipe["response"]) \in Nat
  BY LengthsAre DEF ExchangeInv, Exchange!Processes
<1>6. /\ pipe'["request"] = pipe["request"] /\ Reply' = Reply /\ Requested' = Requested
      /\ Exchange!Replies' = Exchange!Replies /\ MessageOk'
  BY <1>1, <1>4 DEF Reply, Requested, Exchange!Written, Exchange!Replies,
                    MessageOk, ExchangeInv, ExchangeTypes
<1>7. Replied' = Replied + j /\ Replied' <= Len(Reply)
  <2>0. /\ pipe \in [{"request", "response"} -> Seq(Nat)]
        /\ taken \in [{"parent", "child"} -> Seq(Nat)]
    BY DEF ExchangeInv, ExchangeTypes, Exchange!Processes
  <2>1. Replied' = Len(taken["parent"]) + Len(pipe'["response"])
    BY <1>1 DEF Replied, Exchange!Written
  <2>. QED
    BY <1>2, <1>4, <1>5, <2>0, <2>1
<1>8. \/ child' = "reply" /\ Replied' < Len(Reply)
      \/ child' = "exit" /\ Replied' = Len(Reply)
  <2>0. /\ pipe \in [{"request", "response"} -> Seq(Nat)]
        /\ taken \in [{"parent", "child"} -> Seq(Nat)]
    BY DEF ExchangeInv, ExchangeTypes, Exchange!Processes
  <2>1. /\ Len(pipe'["response"]) - Len(pipe["response"]) = j
        /\ Len(Exchange!Rest(Reply, "response", "parent")) = Len(Reply) - Replied
    BY <1>4, <1>5, <2>0
  <2>2. j = Len(Reply) - Replied <=> Replied' = Len(Reply)
    BY <1>2, <1>4, <1>5, <1>7, <2>0
  <2>3. Replied' <= Len(Reply) /\ Replied' \in Nat
    BY <1>4, <1>5, <1>7, <2>0
  <2>4. child' = IF j = Len(Reply) - Replied THEN "exit" ELSE "reply"
    BY <1>1, <2>0, <2>1
  <2>5. Replied' # Len(Reply) => Replied' < Len(Reply)
    BY <1>2, <2>3
  <2>. QED
    BY <2>2, <2>4, <2>5
<1>9. ExchangeTypes'
  BY <1>1, <1>4, <1>6, <1>8 DEF ExchangeInv, ExchangeTypes
<1>10. EndsOpen'
  BY <1>1, <1>6, <1>8 DEF ExchangeInv, EndsOpen, ChildGoesOn
<1>11. StreamsRight'
  BY <1>1, <1>4, <1>6, <1>8 DEF ExchangeInv, StreamsRight
<1>12. PlacesRight'
  BY <1>1, <1>3, <1>6, <1>8 DEF ExchangeInv, PlacesRight
<1>13. OutputRight'
  BY <1>1, <1>3, <1>8, Silent
<1>. QED
  BY <1>9, <1>10, <1>11, <1>12, <1>13 DEF ExchangeInv

\* Hides an Append from the provers.
More(s, e) == Append(s, e)

\* A number or a character is read.
LEMMA ReadOneIs ==
  ASSUME ExchangeTypes, NEW p \in {"request", "response"}, NEW reader \in Exchange!Processes,
         NEW m \in Seq(Nat), Stream(taken[reader], pipe[p], m), Exchange!ReadOne(p, reader)
  PROVE  LET n == Len(taken[reader]) + 1
         IN  /\ pipe' \in [{"request", "response"} -> Seq(Nat)]
             /\ taken' \in [Exchange!Processes -> Seq(Nat)]
             /\ \A q \in {"request", "response"} : q # p => pipe'[q] = pipe[q]
             /\ \A q \in Exchange!Processes : q # reader => taken'[q] = taken[q]
             /\ pipe[p] # << >>
             /\ taken'[reader] = More(taken[reader], Head(pipe[p]))
             /\ Len(taken'[reader]) = n /\ Len(pipe'[p]) = Len(pipe[p]) - 1
             /\ Stream(taken'[reader], pipe'[p], m)
             /\ n \in 1 .. Len(m) /\ Head(pipe[p]) = m[n] /\ taken'[reader][n] = m[n]
             /\ Head(pipe[p]) \in Nat
<1>1. DEFINE a == taken[reader]
             b == pipe[p]
<1>2. a \in Seq(Nat) /\ b \in Seq(Nat)
  BY DEF ExchangeTypes
<1>3. /\ b # << >> /\ pipe' = [pipe EXCEPT ![p] = Tail(b)]
      /\ taken' = [taken EXCEPT ![reader] = Append(a, Head(b))]
  BY DEF Exchange!ReadOne
<1>4. Stream(a, b, m)
  OBVIOUS
<1>5. pipe \in [{"request", "response"} -> Seq(Nat)] /\ taken \in [Exchange!Processes -> Seq(Nat)]
  BY DEF ExchangeTypes
<1> HIDE DEF a, b
<1>6. /\ Append(a, Head(b)) \in Seq(Nat) /\ Tail(b) \in Seq(Nat)
      /\ Len(Append(a, Head(b))) = Len(a) + 1 /\ Len(Tail(b)) = Len(b) - 1
      /\ Stream(Append(a, Head(b)), Tail(b), m)
      /\ Head(b) = m[Len(a) + 1] /\ Len(a) + 1 \in 1 .. Len(m)
      /\ Append(a, Head(b))[Len(a) + 1] = Head(b)
  BY <1>2, <1>3, <1>4, StreamRead
<1>7. /\ pipe' \in [{"request", "response"} -> Seq(Nat)] /\ pipe'[p] = Tail(b)
      /\ \A q \in {"request", "response"} : q # p => pipe'[q] = pipe[q]
      /\ taken' \in [Exchange!Processes -> Seq(Nat)] /\ taken'[reader] = Append(a, Head(b))
      /\ \A q \in Exchange!Processes : q # reader => taken'[q] = taken[q]
  BY <1>3, <1>5, <1>6
<1>8. Head(b) \in Nat
  BY <1>2, <1>3, HeadTailProperties
<1>. QED
  BY <1>3, <1>6, <1>7, <1>8 DEF a, b, More

\* The '\0' of the answer is its end.
LEMMA ReplyEnds ==
  ASSUME ExchangeTypes, Exchange!Replies, taken["child"] = message
  PROVE  /\ Exchange!Text(Reply) = Exchange!Upper(Exchange!Text(message))
         /\ \A i \in 1 .. Len(Reply) : Reply[i] = 0 => i = Len(Reply)
<1>1. DEFINE u == Exchange!Upper(Exchange!Text(message))
<1>2. Exchange!Text(message) \in Seq(Nat \ {0})
  BY MessageIs DEF ExchangeTypes
<1>3. Exchange!Text(message) \in Seq(Nat)
  BY <1>2, SeqMonotonic
<1>4. u \in Seq(Nat) /\ Len(u) \in Nat /\ \A i \in 1 .. Len(u) : u[i] # 0
  <2>1. u \in Seq(Nat) /\ Len(u) = Len(Exchange!Text(message))
    BY <1>3, UpperIs
  <2>2. \A i \in 1 .. Len(Exchange!Text(message)) : u[i] # 0
    BY <1>2, <1>3, UpperIs
  <2>. QED
    BY <2>1, <2>2, LenProperties
<1>5. Reply = Append(u, 0)
  BY DEF Reply
<1> HIDE DEF u
<1>6. Exchange!Text(Append(u, 0)) = u
  BY <1>4, TextOf
<1>7. \A i \in 1 .. Len(Append(u, 0)) : Append(u, 0)[i] = 0 => i = Len(Append(u, 0))
  <2>1. /\ Len(Append(u, 0)) = Len(u) + 1
        /\ \A i \in 1 .. Len(u) : Append(u, 0)[i] = u[i]
    BY <1>4, AppendProperties
  <2>. QED
    BY <1>4, <2>1
<1>. QED
  BY <1>5, <1>6, <1>7 DEF u

LEMMA ExchangeParentReads ==
  ASSUME ExchangeInv, Exchange!ParentReads
  PROVE  ExchangeInv'
<1>1. /\ parent = "read" /\ Exchange!ReadOne("response", "parent")
      /\ parent' = IF Exchange!Last(taken'["parent"]) = 0 THEN "print" ELSE "read"
      /\ UNCHANGED <<program, message, child, open, stdout>>
  BY DEF Exchange!ParentReads, Exchange!Zero
<1>2. /\ Exchange!Replies /\ Stream(taken["parent"], pipe["response"], Reply)
      /\ Stream(taken["child"], pipe["request"], message)
  BY <1>1 DEF ExchangeInv, PlacesRight, StreamsRight
<1>3. Reply \in Seq(Nat) /\ Len(Reply) \in Nat \ {0}
  BY ReplyIs DEF ExchangeInv
<1>4. DEFINE n == Len(taken["parent"]) + 1
<1>5. /\ pipe' \in [{"request", "response"} -> Seq(Nat)]
      /\ taken' \in [Exchange!Processes -> Seq(Nat)]
      /\ pipe'["request"] = pipe["request"] /\ taken'["child"] = taken["child"]
      /\ pipe["response"] # << >>
      /\ Len(taken'["parent"]) = n /\ Len(pipe'["response"]) = Len(pipe["response"]) - 1
      /\ Stream(taken'["parent"], pipe'["response"], Reply)
      /\ n \in 1 .. Len(Reply) /\ taken'["parent"][n] = Reply[n]
  <2>1. "parent" \in Exchange!Processes /\ "child" \in Exchange!Processes
    BY DEF Exchange!Processes
  <2>2. ExchangeTypes
    BY DEF ExchangeInv
  <2>. QED
    BY <1>1, <1>2, <1>3, <2>1, <2>2, ReadOneIs
<1> HIDE DEF n
<1>6. /\ Reply' = Reply /\ Requested' = Requested /\ Replied' = Replied
      /\ Exchange!Replies' = Exchange!Replies /\ MessageOk'
  <2>0. /\ pipe \in [{"request", "response"} -> Seq(Nat)]
        /\ taken \in [{"parent", "child"} -> Seq(Nat)]
    BY DEF ExchangeInv, ExchangeTypes, Exchange!Processes
  <2>1. /\ Reply' = Reply /\ Requested' = Requested
        /\ Exchange!Replies' = Exchange!Replies /\ MessageOk'
    BY <1>1, <1>5 DEF Reply, Requested, Exchange!Written, Exchange!Replies,
                      MessageOk, ExchangeInv, ExchangeTypes
  <2>2. Replied' = Len(taken'["parent"]) + Len(pipe'["response"])
    BY DEF Replied, Exchange!Written
  <2>3. /\ Replied = Len(taken["parent"]) + Len(pipe["response"])
        /\ Len(taken["parent"]) \in Nat /\ Len(pipe["response"]) \in Nat
    BY LengthsAre DEF ExchangeInv, Exchange!Processes
  <2>. QED
    BY <1>5, <2>0, <2>1, <2>2, <2>3 DEF n
<1>7. child \in {"reply", "exit", "ended", "killed"}
  BY <1>1, <1>5 DEF ExchangeInv, ExchangeTypes, StreamsRight, PlacesRight
<1>8. parent' \in {"read", "print"}
      /\ (parent' = "print" /\ child # "killed" => taken'["parent"] = Reply)
  <2>1. Exchange!Last(taken'["parent"]) = Reply[n]
    BY <1>5 DEF Exchange!Last
  <2>2. ASSUME parent' = "print", child # "killed" PROVE taken'["parent"] = Reply
    <3>1. taken["child"] = message
      BY <1>1, <1>7, <2>2 DEF ExchangeInv, PlacesRight
    <3>2. n = Len(Reply)
      BY <1>1, <1>2, <1>5, <2>1, <2>2, <3>1, ReplyEnds DEF ExchangeInv
    <3>3. taken'["parent"] \in Seq(Nat)
      BY <1>5 DEF Exchange!Processes
    <3>. QED
      BY <1>3, <1>5, <3>2, <3>3, StreamWhole
  <2>. QED
    BY <1>1, <2>2
<1>9. ExchangeTypes'
  BY <1>1, <1>5, <1>6, <1>8 DEF ExchangeInv, ExchangeTypes
<1>10. EndsOpen'
  BY <1>1, <1>2, <1>6, <1>8 DEF ExchangeInv, EndsOpen, ChildGoesOn
<1>11. StreamsRight'
  BY <1>1, <1>2, <1>5, <1>6, <1>7 DEF ExchangeInv, StreamsRight
<1>12. PlacesRight'
  BY <1>1, <1>2, <1>5, <1>6, <1>7, <1>8 DEF ExchangeInv, PlacesRight
<1>13. OutputRight'
  <2>1. Ours' = Ours /\ Its' = Its
    BY <1>1 DEF Ours, Its
  <2>2. ReplyPrinted'
    BY <1>1, <1>2, <1>8, <2>1 DEF ExchangeInv, OutputRight, ReplyPrinted
  <2>. QED
    BY <1>1, <1>2, <1>6, <2>1, <2>2 DEF ExchangeInv, OutputRight
<1>. QED
  BY <1>9, <1>10, <1>11, <1>12, <1>13 DEF ExchangeInv

\* What the child prints of a character.
LEMMA EchoIs ==
  ASSUME ExchangeInv, child = "read", NEW c \in Nat,
         stdout' = Exchange!Echo(c), UNCHANGED program
  PROVE  /\ stdout'.terminal = stdout.terminal
         /\ stdout' = Out(stdout'.terminal, Ours', Its', stdout'.shown)
         /\ Ours' = Ours
         /\ program.prints \in {"sum", "length", "upper"} => UNCHANGED stdout
         /\ program.prints = "each" =>
              IF stdout.terminal THEN Its' = << >> /\ stdout'.shown = Append(taken["child"], c)
                                 ELSE stdout'.shown = << >>
         /\ program.prints = "line" =>
              IF stdout.terminal
                THEN IF c = 0 THEN stdout'.shown = taken["child"]
                     ELSE Its' = Append(taken["child"], c) /\ stdout'.shown = << >>
                ELSE stdout'.shown = << >>
<1>1. program.prints \in {"each", "sum", "line", "length", "upper"}
      /\ (Exchange!Replies <=> program.prints = "upper")
  BY ProgramIs DEF ExchangeInv, ExchangeTypes, MessageOk, Exchange!Replies
<1>2. stdout = Out(stdout.terminal, Ours, Its, stdout.shown) /\ stdout.terminal \in BOOLEAN
  BY DEF ExchangeInv, OutputRight
<1>3. taken["child"] \in Seq(Nat)
  BY LengthsAre DEF ExchangeInv
<1>4. /\ Followed(taken["child"], <<c>>) = Append(taken["child"], c)
      /\ Followed(<< >>, <<c>>) = <<c>> /\ Followed(<< >>, << >>) = << >>
      /\ Followed(<< >>, taken["child"]) = taken["child"]
      /\ Followed(taken["child"], << >>) = taken["child"]
  BY <1>3, AppendIsConcat, NoText, SomeText DEF Followed
<1>5. CASE program.prints \in {"sum", "length", "upper"}
  <2>1. UNCHANGED stdout
    BY <1>5 DEF Exchange!Echo
  <2>2. Ours' = Ours /\ Its' = Its
    BY <2>1 DEF Ours, Its
  <2>. QED
    BY <1>2, <1>5, <2>1, <2>2
<1>6. CASE program.prints = "each"
  <2>1. stdout' = Exchange!SayLine(stdout, "child", <<c>>)
    BY <1>6 DEF Exchange!Echo
  <2>2. ~Exchange!Replies
    BY <1>1, <1>6
  <2>3. CASE Interactive(stdout.terminal)
    <3>1. Its = << >> /\ stdout.shown = taken["child"]
      BY <1>6, <2>2, <2>3 DEF ExchangeInv, OutputRight, MessagePrinted, Interactive
    <3>2. PICK o, x : o = Ours /\ x = <<c>>
      OBVIOUS
    <3>3. stdout' = Exchange!SayLine(Out(stdout.terminal, o, << >>, taken["child"]), "child", x)
      BY <1>2, <2>1, <3>1, <3>2
    <3>4. stdout' = Out(stdout.terminal, o, << >>, Followed(taken["child"], Followed(<< >>, x)))
      BY <1>2, <2>3, <3>3, OutLine
    <3>5. stdout' = Out(stdout.terminal, o, << >>, Append(taken["child"], c))
      BY <1>4, <3>2, <3>4
    <3>6. /\ stdout'.terminal = stdout.terminal /\ Ours' = o /\ Its' = << >>
          /\ stdout'.shown = Append(taken["child"], c)
          /\ stdout' = Out(stdout'.terminal, Ours', Its', stdout'.shown)
      BY <1>2, <3>5, NewOutput
    <3>. QED
      BY <1>6, <2>3, <3>2, <3>6 DEF Interactive
  <2>4. CASE ~Interactive(stdout.terminal)
    <3>1. stdout.shown = << >>
      BY <2>2, <2>4 DEF ExchangeInv, OutputRight, Interactive
    <3>2. PICK o, i, x, j : o = Ours /\ x = <<c>> /\ i = Its /\ j = Followed(i, x)
      OBVIOUS
    <3>3. stdout' = Exchange!SayLine(Out(stdout.terminal, o, i, << >>), "child", x)
      BY <1>2, <2>1, <3>1, <3>2
    <3>4. stdout' = Out(stdout.terminal, o, j, << >>)
      BY <1>2, <2>4, <3>2, <3>3, OutLine
    <3>5. /\ stdout'.terminal = stdout.terminal /\ Ours' = o /\ stdout'.shown = << >>
          /\ stdout' = Out(stdout'.terminal, Ours', Its', stdout'.shown)
      BY <1>2, <3>4, NewOutput
    <3>6. ~stdout.terminal
      BY <2>4 DEF Interactive
    <3>. QED
      BY <1>6, <3>2, <3>5, <3>6
  <2>. QED
    BY <2>3, <2>4
<1>7. CASE program.prints = "line"
  <2>1. stdout' = IF c = 0 THEN Exchange!SayLine(stdout, "child", << >>)
                           ELSE Exchange!Say(stdout, "child", <<c>>)
    BY <1>7 DEF Exchange!Echo, Exchange!Zero
  <2>2. ~Exchange!Replies
    BY <1>1, <1>7
  <2>3. stdout.shown = << >> /\ (stdout.terminal => Its = taken["child"])
    BY <1>7, <2>2 DEF ExchangeInv, OutputRight, MessagePrinted
  <2>4. PICK o, i : o = Ours /\ i = Its
    OBVIOUS
  <2>5. stdout = Out(stdout.terminal, o, i, << >>)
    BY <1>2, <2>3, <2>4
  <2>6. CASE c = 0 /\ Interactive(stdout.terminal)
    <3>1. stdout' = Exchange!SayLine(Out(stdout.terminal, o, taken["child"], << >>), "child", << >>)
      BY <2>1, <2>3, <2>4, <2>5, <2>6 DEF Interactive
    <3>2. stdout' = Out(stdout.terminal, o, << >>, Followed(<< >>, Followed(taken["child"], << >>)))
      BY <1>2, <2>6, <3>1, OutLine
    <3>3. stdout' = Out(stdout.terminal, o, << >>, taken["child"])
      BY <1>4, <3>2
    <3>4. /\ stdout'.terminal = stdout.terminal /\ Ours' = o /\ stdout'.shown = taken["child"]
          /\ stdout' = Out(stdout'.terminal, Ours', Its', stdout'.shown)
      BY <1>2, <3>3, NewOutput
    <3>5. stdout.terminal
      BY <2>6 DEF Interactive
    <3>. QED
      BY <1>7, <2>4, <2>6, <3>4, <3>5
  <2>7. CASE c = 0 /\ ~Interactive(stdout.terminal)
    <3>1. stdout' = Exchange!SayLine(Out(stdout.terminal, o, i, << >>), "child", << >>)
      BY <2>1, <2>5, <2>7
    <3>2. PICK j : j = Followed(i, << >>)
      OBVIOUS
    <3>3. stdout' = Out(stdout.terminal, o, j, << >>)
      BY <1>2, <2>7, <3>1, <3>2, OutLine
    <3>4. /\ stdout'.terminal = stdout.terminal /\ Ours' = o /\ stdout'.shown = << >>
          /\ stdout' = Out(stdout'.terminal, Ours', Its', stdout'.shown)
      BY <1>2, <3>3, NewOutput
    <3>5. ~stdout.terminal
      BY <2>7 DEF Interactive
    <3>. QED
      BY <1>7, <2>4, <3>4, <3>5
  <2>8. CASE c # 0
    <3>1. PICK x, j : x = <<c>> /\ j = Followed(i, x)
      OBVIOUS
    <3>2. stdout' = Exchange!Say(Out(stdout.terminal, o, i, << >>), "child", x)
      BY <2>1, <2>5, <2>8, <3>1
    <3>3. stdout' = Out(stdout.terminal, o, j, << >>)
      BY <1>2, <3>1, <3>2, OutLine
    <3>4. /\ stdout'.terminal = stdout.terminal /\ Ours' = o /\ Its' = j /\ stdout'.shown = << >>
          /\ stdout' = Out(stdout'.terminal, Ours', Its', stdout'.shown)
      BY <1>2, <3>3, NewOutput
    <3>5. stdout.terminal => Its' = Append(taken["child"], c)
      BY <1>4, <2>3, <2>4, <3>1, <3>4
    <3>. QED
      BY <1>7, <2>4, <2>8, <3>4, <3>5
  <2>. QED
    BY <2>6, <2>7, <2>8
<1>. QED
  BY <1>1, <1>5, <1>6, <1>7

LEMMA ExchangeChildReads ==
  ASSUME ExchangeInv, Exchange!ChildReads
  PROVE  ExchangeInv'
<1>1. PICK c : c = Head(pipe["request"])
  OBVIOUS
<1>2. /\ child = "read" /\ Exchange!ReadOne("request", "child")
      /\ child' = IF program.string /\ c = 0 THEN "report" ELSE "read"
      /\ stdout' = Exchange!Echo(c)
      /\ UNCHANGED <<program, message, parent, open>>
  BY <1>1 DEF Exchange!ChildReads, Exchange!Zero
<1>3. taken["parent"] = << >> /\ pipe["response"] = << >>
  BY <1>2 DEF ExchangeInv, StreamsRight
<1>4. /\ message \in Seq(Nat) /\ Len(message) \in Nat \ {0}
      /\ \A i \in 1 .. Len(message) : message[i] = 0 <=> program.string /\ i = Len(message)
  BY MessageIs DEF ExchangeInv, ExchangeTypes
<1>5. DEFINE n == Len(taken["child"]) + 1
<1>6. /\ pipe' \in [{"request", "response"} -> Seq(Nat)]
      /\ taken' \in [Exchange!Processes -> Seq(Nat)]
      /\ pipe'["response"] = pipe["response"] /\ taken'["parent"] = taken["parent"]
      /\ pipe["request"] # << >>
      /\ taken'["child"] = Append(taken["child"], c)
      /\ Len(taken'["child"]) = n /\ Len(pipe'["request"]) = Len(pipe["request"]) - 1
      /\ Stream(taken'["child"], pipe'["request"], message)
      /\ n \in 1 .. Len(message) /\ c = message[n] /\ taken'["child"][n] = message[n]
      /\ c \in Nat
  <2>1. "parent" \in Exchange!Processes /\ "child" \in Exchange!Processes
    BY DEF Exchange!Processes
  <2>2. ExchangeTypes
    BY DEF ExchangeInv
  <2>3. pipe \in [{"request", "response"} -> Seq(Nat)]
        /\ taken \in [{"parent", "child"} -> Seq(Nat)]
    BY DEF ExchangeInv, ExchangeTypes, Exchange!Processes
  <2>4. /\ pipe' \in [{"request", "response"} -> Seq(Nat)]
        /\ taken' \in [Exchange!Processes -> Seq(Nat)]
        /\ pipe'["response"] = pipe["response"] /\ taken'["parent"] = taken["parent"]
        /\ pipe["request"] # << >>
        /\ taken'["child"] = More(taken["child"], Head(pipe["request"]))
        /\ Len(taken'["child"]) = n /\ Len(pipe'["request"]) = Len(pipe["request"]) - 1
        /\ Stream(taken'["child"], pipe'["request"], message)
        /\ n \in 1 .. Len(message) /\ Head(pipe["request"]) = message[n]
        /\ taken'["child"][n] = message[n]
        /\ Head(pipe["request"]) \in Nat
    <3>1. Stream(taken["child"], pipe["request"], message)
      BY DEF ExchangeInv, StreamsRight
    <3>. QED
      BY <1>2, <1>4, <2>1, <2>2, <3>1, ReadOneIs
  <2> HIDE DEF n
  <2>5. More(taken["child"], Head(pipe["request"])) = Append(taken["child"], c)
    BY <1>1 DEF More
  <2>. QED
    BY <1>1, <2>3, <2>4, <2>5
<1>7. /\ Requested' = Requested /\ Replied' = Replied
      /\ Exchange!Replies' = Exchange!Replies /\ MessageOk'
      /\ n <= Requested
  <2>0. /\ pipe \in [{"request", "response"} -> Seq(Nat)]
        /\ taken \in [{"parent", "child"} -> Seq(Nat)]
    BY DEF ExchangeInv, ExchangeTypes, Exchange!Processes
  <2>1. /\ Replied' = Replied /\ Exchange!Replies' = Exchange!Replies /\ MessageOk'
    BY <1>2, <1>6 DEF Replied, Exchange!Written, Exchange!Replies,
                      MessageOk, ExchangeInv, ExchangeTypes
  <2>2. Requested' = Len(taken'["child"]) + Len(pipe'["request"])
    BY DEF Requested, Exchange!Written
  <2>3. /\ Requested = Len(taken["child"]) + Len(pipe["request"])
        /\ Len(taken["child"]) \in Nat /\ Len(pipe["request"]) \in Nat
    BY LengthsAre DEF ExchangeInv, Exchange!Processes
  <2>4. Len(pipe["request"]) # 0
    BY <1>6, <2>0, EmptySeq
  <2>5. Requested' = Requested
    BY <1>6, <2>0, <2>2, <2>3
  <2>6. n <= Requested
    BY <2>0, <2>3, <2>4
  <2>. QED
    BY <2>1, <2>5, <2>6
<1> HIDE DEF n
<1>8. child' = "report" => taken'["child"] = message /\ program.string /\ c = 0
  <2>1. child' = "report" => program.string /\ c = 0
    BY <1>2
  <2>2. ASSUME child' = "report" PROVE taken'["child"] = message
    <3>1. n = Len(message)
      BY <1>4, <1>6, <2>1, <2>2
    <3>2. taken'["child"] \in Seq(Nat)
      BY <1>6 DEF Exchange!Processes
    <3>. QED
      BY <1>4, <1>6, <3>1, <3>2, StreamWhole
  <2>. QED
    BY <2>1, <2>2
<1>9. child' \in {"read", "report"} /\ (child' = "read" /\ program.string => c # 0)
  BY <1>2
<1>10. child' = "report" => parent \notin {"fork", "close", "write", "sigpipe"}
  <2>1. child' = "report" => ~(Requested < Len(message))
    <3>1. child' = "report" => n = Len(message)
      BY <1>6, <1>8
    <3>2. Requested \in Nat
      BY LengthsAre DEF ExchangeInv
    <3>. QED
      BY <1>4, <1>6, <1>7, <3>1, <3>2
  <2>. QED
    BY <1>2, <2>1 DEF ExchangeInv, PlacesRight
<1>11. Exchange!Replies => parent \notin {"print", "wait", "ended"}
  <2>1. Reply # << >>
    BY ReplyIs, EmptySeq DEF ExchangeInv
  <2>. QED
    BY <1>2, <1>3, <2>1 DEF ExchangeInv, PlacesRight
<1>12. ExchangeTypes'
  BY <1>2, <1>6, <1>7, <1>9 DEF ExchangeInv, ExchangeTypes
<1>13. EndsOpen'
  BY <1>2, <1>7, <1>9 DEF ExchangeInv, EndsOpen, ChildGoesOn
<1>14. StreamsRight'
  <2>1. Stream(taken["parent"], pipe["response"], Reply')
    <3>1. taken'["child"] \in Seq(Nat)
      BY <1>6 DEF Exchange!Processes
    <3>2. Reply' \in Seq(Nat)
      BY <3>1, AnswerIs DEF Reply
    <3>. QED
      BY <1>3, <3>2, StreamEmpty
  <2>2. child' = "read" /\ program.string =>
          \A i \in 1 .. Len(taken'["child"]) : taken'["child"][i] # 0
    <3>1. SUFFICES ASSUME child' = "read", program.string, NEW i \in 1 .. n
                   PROVE  taken'["child"][i] # 0
      BY <1>6
    <3>2. CASE i = n
      BY <1>6, <1>9, <3>1, <3>2
    <3>3. CASE i # n
      <4>1. Len(taken["child"]) \in Nat /\ taken["child"] \in Seq(Nat)
        BY LengthsAre DEF ExchangeInv, Exchange!Processes
      <4>2. i \in 1 .. Len(taken["child"])
        BY <3>3, <4>1 DEF n
      <4>3. taken["child"][i] # 0
        BY <1>2, <3>1, <4>2 DEF ExchangeInv, StreamsRight
      <4>4. Append(taken["child"], c)[i] = taken["child"][i]
        BY <1>6, <4>1, <4>2, AppendProperties
      <4>. QED
        BY <1>6, <4>3, <4>4
    <3>. QED
      BY <3>2, <3>3
  <2>. QED
    BY <1>2, <1>3, <1>6, <1>7, <1>9, <2>1, <2>2 DEF StreamsRight
<1>15. PlacesRight'
  BY <1>2, <1>7, <1>8, <1>9, <1>10, <1>11 DEF ExchangeInv, PlacesRight
<1>16. OutputRight'
  <2>1. /\ stdout'.terminal = stdout.terminal
        /\ stdout' = Out(stdout'.terminal, Ours', Its', stdout'.shown)
        /\ Ours' = Ours
        /\ program.prints \in {"sum", "length", "upper"} => UNCHANGED stdout
        /\ program.prints = "each" =>
             IF stdout.terminal THEN Its' = << >> /\ stdout'.shown = taken'["child"]
                                ELSE stdout'.shown = << >>
        /\ program.prints = "line" =>
             IF stdout.terminal
               THEN IF c = 0 THEN stdout'.shown = taken["child"]
                    ELSE Its' = taken'["child"] /\ stdout'.shown = << >>
               ELSE stdout'.shown = << >>
    BY <1>2, <1>6, EchoIs
  <2>2. stdout.terminal \in BOOLEAN
    BY DEF ExchangeInv, OutputRight
  <2>3. program.prints \in {"each", "sum", "line", "length", "upper"}
        /\ (Exchange!Replies <=> program.prints = "upper")
        /\ (program.prints = "line" => program.string)
    BY ProgramIs DEF ExchangeInv, ExchangeTypes, MessageOk, Exchange!Replies
  <2>4. UNCHANGED stdout => Its' = Its
    BY DEF Its
  <2>5. ASSUME Exchange!Replies PROVE ReplyPrinted'
    <3>1. UNCHANGED stdout /\ Its' = Its
      BY <2>1, <2>3, <2>4, <2>5
    <3>. QED
      BY <1>2, <1>6, <2>1, <2>5, <3>1 DEF ExchangeInv, OutputRight, ReplyPrinted
  <2>6. ASSUME ~Exchange!Replies, ~stdout.terminal PROVE stdout'.shown = << >>
    <3>1. stdout.shown = << >>
      BY <2>6 DEF ExchangeInv, OutputRight
    <3>. QED
      BY <2>1, <2>3, <2>6, <3>1
  <2>7. ASSUME ~Exchange!Replies, stdout.terminal PROVE MessagePrinted'
    <3>1. MessagePrinted
      BY <2>7 DEF ExchangeInv, OutputRight
    <3>2. program.prints = "each" => Its' = << >> /\ stdout'.shown = taken'["child"]
      BY <2>1, <2>7
    <3>3. program.prints = "line" =>
            IF child' = "read" THEN Its' = taken'["child"] /\ stdout'.shown = << >>
                               ELSE stdout'.shown = Exchange!Text(message)
      <4>1. ASSUME program.prints = "line", child' = "report"
            PROVE  stdout'.shown = Exchange!Text(message)
        <5>1. stdout'.shown = taken["child"] /\ message = Append(taken["child"], 0)
          BY <1>6, <1>8, <2>1, <2>7, <4>1
        <5>2. Exchange!Text(Append(taken["child"], 0)) = taken["child"]
          BY LengthsAre, TextOf DEF ExchangeInv
        <5>. QED
          BY <5>1, <5>2
      <4>. QED
        BY <1>9, <2>1, <2>3, <2>7, <4>1
    <3>4. program.prints \in {"length", "sum"} => Its' = << >> /\ stdout'.shown = << >>
      BY <1>2, <2>1, <2>4, <3>1 DEF MessagePrinted
    <3>. QED
      BY <1>2, <1>9, <3>2, <3>3, <3>4 DEF MessagePrinted
  <2>8. ~Exchange!Replies => Ours' = << >>
    BY <2>1 DEF ExchangeInv, OutputRight
  <2>. QED
    BY <1>7, <2>1, <2>2, <2>5, <2>6, <2>7, <2>8 DEF OutputRight
<1>. QED
  BY <1>12, <1>13, <1>14, <1>15, <1>16 DEF ExchangeInv

LEMMA ExchangeSame ==
  ASSUME ExchangeInv, UNCHANGED <<program, message, parent, child, open, pipe, taken, stdout>>
  PROVE  ExchangeInv'
<1>1. /\ Requested' = Requested /\ Replied' = Replied /\ Reply' = Reply
      /\ Exchange!Replies' = Exchange!Replies
      /\ MessageOk'
  BY ExchangeQuiet
<1>2. ExchangeTypes'
  BY <1>1 DEF ExchangeInv, ExchangeTypes
<1>3. EndsOpen'
  BY <1>1 DEF ExchangeInv, EndsOpen, ChildGoesOn
<1>4. StreamsRight'
  BY ExchangeQuiet DEF ExchangeInv, StreamsRight
<1>5. PlacesRight'
  BY <1>1 DEF ExchangeInv, PlacesRight
<1>6. OutputRight'
  BY Silent
<1>. QED
  BY <1>2, <1>3, <1>4, <1>5, <1>6 DEF ExchangeInv

LEMMA ExchangeStep ==
  ASSUME ExchangeInv, Exchange!Next
  PROVE  ExchangeInv'
<1>1. CASE Exchange!ParentStep
  BY <1>1, ExchangeForks, ExchangeParentWrites, ExchangeDeaths, ExchangeParentReads,
     ExchangeEOFs, ExchangeParentPrints, ExchangeParentEnds DEF Exchange!ParentStep
<1>2. CASE Exchange!ChildStep
  BY <1>2, ExchangeForks, ExchangeChildReads, ExchangeEOFs, ExchangeChildReports,
     ExchangeChildReplies, ExchangeDeaths DEF Exchange!ChildStep
<1>3. CASE Exchange!KillChild \/ Exchange!KillParent
  BY <1>3, ExchangeDeaths
<1>4. CASE Exchange!AllEnded /\ UNCHANGED Exchange!vars
  BY <1>4, ExchangeSame DEF Exchange!vars
<1>. QED
  BY <1>1, <1>2, <1>3, <1>4 DEF Exchange!Next

-----------------------------------------------------------------------------
\* What is printed of a message that has arrived.
LEMMA ResultsAre ==
  ASSUME MessageOk
  PROVE  /\ program.prints \in {"each", "line"} =>
              Exchange!Results = {Exchange!Text(message)}
         /\ Exchange!Replies => Exchange!Results = {Exchange!Upper(Exchange!Text(message))}
         /\ program.prints \in {"length", "sum"} =>
              Exchange!Results = Exchange!Reports(Exchange!Text(message))
         /\ program.prints \in {"each", "sum", "line", "length", "upper"}
         /\ Exchange!Replies <=> program.prints = "upper"
<1>1. program.prints \in {"each", "sum", "line", "length", "upper"}
      /\ (Exchange!Replies <=> program.prints = "upper")
  BY ProgramIs DEF MessageOk, Exchange!Replies
<1>2. PICK t : t = Exchange!Text(message)
  OBVIOUS
<1>3. Exchange!Results
        = IF program.prints \in {"each", "line"} THEN {t}
          ELSE IF Exchange!Replies THEN {Exchange!Upper(t)} ELSE Exchange!Reports(t)
  BY <1>2 DEF Exchange!Results
<1>. QED
  BY <1>1, <1>2, <1>3

\* Each of the results has a length, and is a prefix of itself, as nothing is.
LEMMA ResultsLengths ==
  ASSUME ExchangeTypes
  PROVE  /\ \E result \in Exchange!Results : Exchange!IsPrefix(<< >>, result)
         /\ \A result \in Exchange!Results : Exchange!IsPrefix(result, result)
<1>1. MessageOk
  BY DEF ExchangeTypes
<1>2. Exchange!Text(message) \in Seq(Nat)
  BY <1>1, MessageIs, SeqMonotonic
<1>3. \A result \in Exchange!Results : Len(result) \in Nat
  <2>1. Len(Exchange!Text(message)) \in Nat
        /\ Len(Exchange!Upper(Exchange!Text(message))) \in Nat
    BY <1>2, UpperIs, LenProperties
  <2>2. \A r \in Exchange!Reports(Exchange!Text(message)) : Len(r) \in Nat
    BY <1>2, ReportsAre
  <2>. QED
    BY <1>1, <2>1, <2>2, ResultsAre
<1>4. PICK result \in Exchange!Results : TRUE
  <2>1. PICK t : t = Exchange!Text(message)
    OBVIOUS
  <2>2. \E r : r \in Exchange!Reports(t)
    BY DEF Exchange!Reports
  <2>. QED
    BY <1>1, <2>1, <2>2, ResultsAre
<1>5. ASSUME NEW r, Len(r) \in Nat PROVE Exchange!IsPrefix(<< >>, r)
  <2>1. Len(<< >>) = 0 /\ SubSeq(<< >>, 1, 0) = << >> /\ SubSeq(r, 1, 0) = << >>
    BY SubSeqEmpty, EmptySeq
  <2>. QED
    BY <1>5, <2>1 DEF Exchange!IsPrefix
<1>6. ASSUME NEW r, Len(r) \in Nat PROVE Exchange!IsPrefix(r, r)
  BY <1>6 DEF Exchange!IsPrefix
<1>. QED
  BY <1>3, <1>4, <1>5, <1>6

LEMMA StreamPrefix ==
  ASSUME NEW a \in Seq(Nat), NEW m \in Seq(Nat), NEW b \in Seq(Nat), Stream(a, b, m)
  PROVE  Exchange!IsPrefix(a, m)
<1>1. Len(a) \in Nat /\ Len(b) \in Nat /\ Len(m) \in Nat
  BY LenProperties
<1>2. Len(a) <= Len(m) /\ \A i \in 1 .. Len(a) : a[i] = m[i]
  BY <1>1 DEF Stream
<1>3. \A i \in 1 .. Len(a) : a[i] \in Nat
  BY ElementOfSeq
<1>4. DEFINE u == SubSeq(a, 1, Len(a))
             v == SubSeq(m, 1, Len(a))
<1>5. ASSUME NEW s, \A i \in 1 .. Len(a) : s[i] = a[i]
      PROVE  /\ SubSeq(s, 1, Len(a)) \in Seq(Nat) /\ Len(SubSeq(s, 1, Len(a))) = Len(a)
             /\ \A i \in 1 .. Len(a) : SubSeq(s, 1, Len(a))[i] = a[i]
  <2>1. \A i \in 1 .. Len(a) : s[i] \in Nat
    BY <1>3, <1>5
  <2>2. DEFINE w == SubSeq(s, 1, Len(a))
  <2>3. /\ w \in Seq(Nat) /\ Len(w) = IF 1 <= Len(a) THEN Len(a) - 1 + 1 ELSE 0
        /\ \A i \in 1 .. Len(a) - 1 + 1 : w[i] = s[1 + i - 1]
    BY <1>1, <2>1, SubSeqProperties
  <2> HIDE DEF w
  <2>4. Len(a) - 1 + 1 = Len(a) /\ \A i \in Nat : 1 + i - 1 = i
    BY <1>1
  <2>5. w \in Seq(Nat) /\ Len(w) = Len(a)
    BY <1>1, <2>3
  <2>6. \A i \in 1 .. Len(a) : w[i] = a[i]
    <3>1. \A i \in 1 .. Len(a) : w[i] = s[1 + i - 1]
      BY <2>3, <2>4
    <3>2. \A i \in 1 .. Len(a) : 1 + i - 1 = i
      BY <1>1
    <3>. QED
      BY <1>5, <3>1, <3>2
  <2>. QED
    BY <2>5, <2>6 DEF w
<1>6. /\ u \in Seq(Nat) /\ Len(u) = Len(a) /\ \A i \in 1 .. Len(a) : u[i] = a[i]
  BY <1>5
<1>7. /\ v \in Seq(Nat) /\ Len(v) = Len(a) /\ \A i \in 1 .. Len(a) : v[i] = a[i]
  BY <1>2, <1>5
<1> HIDE DEF u, v
<1>8. u = v
  BY <1>6, <1>7, SeqEqual
<1>. QED
  BY <1>2, <1>8 DEF u, v, Exchange!IsPrefix

\* Where the answer is printed, it is the one to the whole message.
LEMMA AnswerRight ==
  ASSUME ExchangeInv, Exchange!Replies, parent \in {"wait", "ended"},
         child # "unborn", child # "killed"
  PROVE  Exchange!Text(taken["parent"]) = Exchange!Upper(Exchange!Text(message))
<1>1. taken["parent"] = Reply
  BY DEF ExchangeInv, PlacesRight
<1>2. Reply # << >>
  BY ReplyIs, EmptySeq DEF ExchangeInv
<1>3. child \in {"reply", "exit", "ended"}
  BY <1>1, <1>2 DEF ExchangeInv, ExchangeTypes, StreamsRight, PlacesRight
<1>4. taken["child"] = message
  BY <1>3 DEF ExchangeInv, PlacesRight
<1>. QED
  BY <1>1, <1>4, ReplyEnds DEF ExchangeInv

LEMMA ExchangeRight ==
  ASSUME ExchangeInv
  PROVE  Exchange!Exchanged
<1>1. MessageOk /\ ExchangeTypes
  BY DEF ExchangeInv, ExchangeTypes
<1>2. PICK whole : whole = Exchange!Text(message)
  OBVIOUS
<1>3. /\ program.prints \in {"each", "line"} => Exchange!Results = {whole}
      /\ Exchange!Replies => Exchange!Results = {Exchange!Upper(whole)}
      /\ program.prints \in {"length", "sum"} => Exchange!Results = Exchange!Reports(whole)
      /\ program.prints \in {"each", "sum", "line", "length", "upper"}
      /\ Exchange!Replies <=> program.prints = "upper"
  BY <1>1, <1>2, ResultsAre
<1>4. program.prints = "each" => whole = message
  BY <1>1, <1>2, ProgramIs, MessageIs DEF MessageOk
<1>5. child \in {"report", "exit", "ended"} /\ parent # "killed" => taken["child"] = message
  BY DEF ExchangeInv, PlacesRight
<1>6. ASSUME parent # "killed", ~Exchange!Replies, child \in {"exit", "ended"}, stdout.terminal
      PROVE  stdout.shown \in Exchange!Results
  <2>1. MessagePrinted
    BY <1>6 DEF ExchangeInv, OutputRight
  <2>2. taken["child"] = message
    BY <1>5, <1>6
  <2>3. program.prints = "each" => stdout.shown = whole
    BY <1>4, <2>1, <2>2 DEF MessagePrinted
  <2>4. program.prints = "line" => stdout.shown = whole
    BY <1>2, <1>6, <2>1, <2>2 DEF MessagePrinted
  <2>5. program.prints \in {"length", "sum"} => stdout.shown \in Exchange!Reports(whole)
    BY <1>2, <1>6, <2>1, <2>2 DEF MessagePrinted
  <2>. QED
    BY <1>3, <1>6, <2>3, <2>4, <2>5
<1>7. ASSUME parent \in {"wait", "ended"}, child # "unborn", child # "killed", Exchange!Replies
      PROVE  /\ stdout.shown \in Exchange!Results \/ stdout.shown = << >>
             /\ parent = "ended" => stdout.shown \in Exchange!Results
  <2>1. Exchange!Text(taken["parent"]) \in Exchange!Results
    BY <1>2, <1>3, <1>7, AnswerRight
  <2>2. ReplyPrinted
    BY <1>7 DEF ExchangeInv, OutputRight
  <2>. QED
    BY <1>7, <2>1, <2>2 DEF ReplyPrinted
<1>8. parent = "ended" /\ child = "ended" =>
        IF stdout.terminal \/ Exchange!Replies THEN stdout.shown \in Exchange!Results
                                               ELSE stdout.shown = << >>
  <2>1. ~Exchange!Replies /\ ~stdout.terminal => stdout.shown = << >>
    BY DEF ExchangeInv, OutputRight
  <2>. QED
    BY <1>6, <1>7, <2>1
<1>9. ASSUME parent # "killed", child # "killed"
      PROVE  \E result \in Exchange!Results : Exchange!IsPrefix(stdout.shown, result)
  <2>1. /\ stdout.shown = << >> \/ stdout.shown \in Exchange!Results =>
            \E result \in Exchange!Results : Exchange!IsPrefix(stdout.shown, result)
    BY <1>1, ResultsLengths
  <2>2. CASE Exchange!Replies
    <3>1. ReplyPrinted
      BY <2>2 DEF ExchangeInv, OutputRight
    <3>2. child = "unborn" => parent \in {"fork", "ended"}
      BY <1>9 DEF ExchangeInv, PlacesRight
    <3>3. parent \in {"fork", "close", "write", "read", "print", "wait", "ended"}
      BY <1>9 DEF ExchangeInv, ExchangeTypes, PlacesRight
    <3>. QED
      BY <1>7, <1>9, <2>1, <2>2, <3>1, <3>2, <3>3 DEF ReplyPrinted
  <2>3. CASE ~Exchange!Replies
    <3>1. CASE ~stdout.terminal
      BY <2>1, <2>3, <3>1 DEF ExchangeInv, OutputRight
    <3>2. CASE stdout.terminal
      <4>1. MessagePrinted
        BY <2>3, <3>2 DEF ExchangeInv, OutputRight
      <4>2. child \in {"unborn", "close", "read", "report", "exit", "ended"}
        BY <1>9, <2>3 DEF ExchangeInv, ExchangeTypes, PlacesRight
      <4>3. CASE program.prints = "each"
        <5>1. stdout.shown = taken["child"]
          BY <4>1, <4>3 DEF MessagePrinted
        <5>2. Exchange!IsPrefix(taken["child"], message)
          BY <1>1, LengthsAre, MessageIs, StreamPrefix DEF ExchangeInv, StreamsRight
        <5>. QED
          BY <1>3, <1>4, <4>3, <5>1, <5>2
      <4>4. CASE program.prints # "each"
        <5>1. child \in {"unborn", "close", "read"} => stdout.shown = << >>
          BY <1>3, <2>3, <4>1, <4>4 DEF MessagePrinted
        <5>2. child = "report" => stdout.shown = << >> \/ stdout.shown \in Exchange!Results
          BY <1>2, <1>3, <1>5, <1>9, <2>3, <4>1, <4>4 DEF MessagePrinted
        <5>. QED
          BY <1>6, <1>9, <2>1, <2>3, <3>2, <4>2, <5>1, <5>2
      <4>. QED
        BY <4>3, <4>4
    <3>. QED
      BY <3>1, <3>2
  <2>. QED
    BY <2>2, <2>3
<1>10. /\ parent = "sigpipe" => child = "killed"
       /\ child = "sigpipe" => parent = "killed"
  BY DEF ExchangeInv, PlacesRight
<1>. QED
  BY <1>8, <1>9, <1>10 DEF Exchange!Exchanged

-----------------------------------------------------------------------------
(* A parent and its children *)

TreeProcesses == 0 .. MaxCount
Line == TreeProcesses \X {"child", "waited", "greeting", "last", "image"} \X Nat
Buf(p) == stdout.buffer[p]
Shown == stdout.shown

TreeTypes ==
    /\ program \in Tree!Trees
    /\ count \in program.counts /\ count \in 1 .. MaxCount
    /\ index \in 1 .. count + 1
    /\ parent \in {"fork", "greet", "wait", "done", "failed"}
    /\ child \in [Tree!Children -> {"unborn", "running", "ended", "killed", "reaped"}]
    /\ said \in [Tree!Children -> 0 .. 3]

\* The parent has waited for each child before it forks the next one.
Gone(state) == state \in {"ended", "reaped"}
OneByOne ==
    /\ parent = "greet" => program.greets
    /\ parent \in {"greet", "wait"} => index <= count
    /\ parent = "done" => index = count + 1
    /\ \A k \in Tree!Children :
        /\ k < index => child[k] \in {"reaped", "killed"}
        /\ k = index => IF parent \in {"greet", "wait"}
                        THEN child[k] \in {"running", "ended", "killed"}
                        ELSE child[k] = "unborn"
        /\ k > index => child[k] = "unborn"
        /\ child[k] = "unborn" => said[k] = 0
        /\ said[k] <= program.lines
        /\ Gone(child[k]) => said[k] = program.lines

\* The output as one value.
TOut(t, b, s) == [terminal |-> t, buffer |-> b, shown |-> s]
OutOk(out) ==
    /\ out.terminal \in BOOLEAN
    /\ out.buffer \in [TreeProcesses -> Seq(Line)]
    /\ out.shown \in Seq(Line)
    /\ out = TOut(out.terminal, out.buffer, out.shown)

\* The lines of s, and those behind them, are in the order of their places.
PlaceIn(n, line) ==
    IF line[2] = "waited" THEN 2 * line[3] + 1
    ELSE IF line[1] = 0 THEN 2 * n + 2
    ELSE 2 * line[1]
Sorted(n, s, place) ==
    /\ \A i \in DOMAIN s : s[i][2] # "greeting" => PlaceIn(n, s[i]) <= place
    /\ \A i, j \in DOMAIN s :
        i < j => "greeting" \in {s[i][2], s[j][2]} \/ PlaceIn(n, s[i]) <= PlaceIn(n, s[j])
Now == IF parent = "done" THEN 2 * count + 2
       ELSE IF parent \in {"greet", "wait"} THEN 2 * index ELSE 2 * index - 1

\* What has been printed, and how often.
One(b) == IF b THEN 1 ELSE 0
Greeted == index > 1 \/ parent = "wait"
Over == parent \in {"done", "failed"}
Exits == program.ends = {"exit"}
EndersOf(c, j) == {k \in Tree!Children : j < k /\ Gone(c[k])}
SaidBy(k, i) == <<k, "child", i>>
WaitedFor(j) == <<0, "waited", j>>
Greeting == <<0, "greeting", 1>>
AtLast(i) == <<0, "last", i>>

TerminalEmpty == \A p \in TreeProcesses : Buf(p) = << >>
TerminalSorted == Sorted(count, Shown, Now)
TerminalSaid ==
    \A k \in Tree!Children, i \in 1 .. 3 : Occ(Shown, SaidBy(k, i)) = One(i <= said[k])
TerminalWaited ==
    program.waited = 1 =>
        \A j \in Tree!Children : Occ(Shown, WaitedFor(j)) = One(j < index)
TerminalGreeted == program.greets => Occ(Shown, Greeting) = One(Greeted)
TerminalLast == \A i \in 1 .. program.last : Occ(Shown, AtLast(i)) = One(parent = "done")
TerminalRight ==
    /\ TerminalEmpty /\ TerminalSorted /\ TerminalSaid /\ TerminalWaited
    /\ TerminalGreeted /\ TerminalLast

FileEmpty ==
    /\ \A k \in Tree!Children : child[k] # "running" => Buf(k) = << >>
    /\ Over => Buf(0) = << >>
FileSaid ==
    \A k \in Tree!Children, i \in 1 .. 3 :
        /\ Occ(Shown, SaidBy(k, i)) = One(Exits /\ Gone(child[k]) /\ i <= said[k])
        /\ Occ(Buf(0), SaidBy(k, i)) = 0
        /\ \A q \in Tree!Children :
             Occ(Buf(q), SaidBy(k, i)) = One(q = k /\ child[k] = "running" /\ i <= said[k])
FileWaited ==
    program.waited = 1 => \A j \in Tree!Children :
        /\ Occ(Shown, WaitedFor(j))
             = (IF Exits THEN Cardinality(EndersOf(child, j)) ELSE 0) + One(Over /\ j < index)
        /\ Occ(Buf(0), WaitedFor(j)) = One(~Over /\ j < index)
        /\ \A q \in Tree!Children :
             Occ(Buf(q), WaitedFor(j)) = One(child[q] = "running" /\ j < q)
FileGreeted ==
    program.greets =>
        /\ Occ(Shown, Greeting) = One(Over /\ Greeted)
        /\ Occ(Buf(0), Greeting) = One(~Over /\ Greeted)
FileLast ==
    \A i \in 1 .. program.last :
        /\ Occ(Shown, AtLast(i)) = One(parent = "done")
        /\ \A p \in TreeProcesses : Occ(Buf(p), AtLast(i)) = 0
FileRight == FileEmpty /\ FileSaid /\ FileWaited /\ FileGreeted /\ FileLast

TreeInv ==
    /\ TreeTypes /\ OneByOne /\ OutOk(stdout)
    /\ Interactive(stdout.terminal) => TerminalRight
    /\ ~Interactive(stdout.terminal) => FileRight

-----------------------------------------------------------------------------
(* The output of the tree *)

Stow(b, p, v) == [b EXCEPT ![p] = v]

LEMMA TOutParts ==
  ASSUME NEW t, NEW b, NEW s
  PROVE  /\ TOut(t, b, s).terminal = t /\ TOut(t, b, s).buffer = b /\ TOut(t, b, s).shown = s
BY DEF TOut

\* A new value of the output, by its parts.
LEMMA TOutNew ==
  ASSUME NEW out, OutOk(out), NEW b \in [TreeProcesses -> Seq(Line)], NEW s \in Seq(Line),
         NEW o, o = TOut(out.terminal, b, s)
  PROVE  OutOk(o) /\ o.terminal = out.terminal /\ o.buffer = b /\ o.shown = s
<1>1. o.terminal = out.terminal /\ o.buffer = b /\ o.shown = s
  BY TOutParts
<1>2. out.terminal \in BOOLEAN
  BY DEF OutOk
<1>3. o = TOut(o.terminal, o.buffer, o.shown)
  BY <1>1, Zenon
<1>4. o.terminal \in BOOLEAN
  BY <1>1, <1>2, Zenon
<1>5. o.buffer \in [TreeProcesses -> Seq(Line)] /\ o.shown \in Seq(Line)
  BY <1>1, Zenon
<1>6. OutOk(o)
  BY <1>3, <1>4, <1>5, Zenon DEF OutOk
<1>. QED
  BY <1>1, <1>6, Zenon

LEMMA StowIs ==
  ASSUME NEW b \in [TreeProcesses -> Seq(Line)], NEW p \in TreeProcesses, NEW v \in Seq(Line)
  PROVE  /\ Stow(b, p, v) \in [TreeProcesses -> Seq(Line)] /\ Stow(b, p, v)[p] = v
         /\ \A q \in TreeProcesses : q # p => Stow(b, p, v)[q] = b[q]
BY DEF Stow

\* One buffer is changed.
LEMMA StowNew ==
  ASSUME NEW out, OutOk(out), NEW p \in TreeProcesses, NEW v \in Seq(Line),
         NEW o, o = TOut(out.terminal, Stow(out.buffer, p, v), out.shown)
  PROVE  /\ OutOk(o) /\ o.terminal = out.terminal /\ o.shown = out.shown
         /\ o.buffer[p] = v
         /\ \A q \in TreeProcesses : q # p => o.buffer[q] = out.buffer[q]
<1>1. out.buffer \in [TreeProcesses -> Seq(Line)] /\ out.shown \in Seq(Line)
  BY Zenon DEF OutOk
<1>2. /\ Stow(out.buffer, p, v) \in [TreeProcesses -> Seq(Line)]
      /\ Stow(out.buffer, p, v)[p] = v
      /\ \A q \in TreeProcesses : q # p => Stow(out.buffer, p, v)[q] = out.buffer[q]
  BY <1>1, StowIs
<1>3. /\ OutOk(o) /\ o.terminal = out.terminal /\ o.buffer = Stow(out.buffer, p, v)
      /\ o.shown = out.shown
  BY <1>1, <1>2, TOutNew
<1>. QED
  BY <1>2, <1>3, Zenon

LEMMA FollowedIs ==
  ASSUME NEW s \in Seq(Line), NEW x \in Seq(Line)
  PROVE  /\ Followed(s, x) \in Seq(Line)
         /\ Followed(s, << >>) = s /\ Followed(<< >>, s) = s
         /\ \A l : Occ(Followed(s, x), l) = Occ(s, l) + Occ(x, l)
<1>1. Followed(s, x) \in Seq(Line)
  BY ConcatProperties DEF Followed
<1>2. Followed(s, << >>) = s /\ Followed(<< >>, s) = s
  BY ConcatEmptySeq DEF Followed
<1>3. ASSUME NEW l PROVE Occ(Followed(s, x), l) = Occ(s, l) + Occ(x, l)
  BY OccConcat DEF Followed
<1>. QED
  BY <1>1, <1>2, <1>3

LEMMA BufferT ==
  ASSUME NEW t, NEW b, NEW s, NEW v
  PROVE  [TOut(t, b, s) EXCEPT !.buffer = v] = TOut(t, v, s)
BY DEF TOut

LEMMA ShownT ==
  ASSUME NEW t, NEW b, NEW s, NEW v
  PROVE  [TOut(t, b, s) EXCEPT !.shown = v] = TOut(t, b, v)
BY DEF TOut

LEMMA SayT ==
  ASSUME NEW t, NEW b, NEW s, NEW p, NEW x
  PROVE  Tree!Say(TOut(t, b, s), p, x) = TOut(t, Stow(b, p, Followed(b[p], x)), s)
<1>1. Tree!Say(TOut(t, b, s), p, x) =
        [TOut(t, b, s) EXCEPT !.buffer =
           Stow(TOut(t, b, s).buffer, p, Followed(TOut(t, b, s).buffer[p], x))]
  BY DEF Tree!Say, Followed, Stow
<1>. QED
  BY <1>1, BufferT, TOutParts

LEMMA DiscardT ==
  ASSUME NEW t, NEW b, NEW s, NEW p
  PROVE  Tree!Discard(TOut(t, b, s), p) = TOut(t, Stow(b, p, << >>), s)
<1>1. Tree!Discard(TOut(t, b, s), p) =
        [TOut(t, b, s) EXCEPT !.buffer = Stow(TOut(t, b, s).buffer, p, << >>)]
  BY DEF Tree!Discard, Stow
<1>. QED
  BY <1>1, BufferT, TOutParts

LEMMA CopyT ==
  ASSUME NEW t, NEW b, NEW s, NEW p
  PROVE  Tree!CopyBuffer(TOut(t, b, s), 0, p) = TOut(t, Stow(b, p, b[0]), s)
<1>1. Tree!CopyBuffer(TOut(t, b, s), 0, p) =
        [TOut(t, b, s) EXCEPT !.buffer =
           Stow(TOut(t, b, s).buffer, p, TOut(t, b, s).buffer[0])]
  BY DEF Tree!CopyBuffer, Stow
<1>. QED
  BY <1>1, BufferT, TOutParts

LEMMA SayIs ==
  ASSUME NEW out, OutOk(out), NEW p \in TreeProcesses, NEW x \in Seq(Line),
         NEW o, o = Tree!Say(out, p, x)
  PROVE  /\ OutOk(o) /\ o.terminal = out.terminal /\ o.shown = out.shown
         /\ o.buffer[p] = Followed(out.buffer[p], x)
         /\ \A q \in TreeProcesses : q # p => o.buffer[q] = out.buffer[q]
<1>1. out = TOut(out.terminal, out.buffer, out.shown) /\ out.buffer[p] \in Seq(Line)
  BY DEF OutOk
<1>2. Followed(out.buffer[p], x) \in Seq(Line)
  BY <1>1, FollowedIs
<1>3. o = TOut(out.terminal, Stow(out.buffer, p, Followed(out.buffer[p], x)), out.shown)
  BY <1>1, SayT
<1>. QED
  BY <1>2, <1>3, StowNew

LEMMA DiscardIs ==
  ASSUME NEW out, OutOk(out), NEW p \in TreeProcesses, NEW o, o = Tree!Discard(out, p)
  PROVE  /\ OutOk(o) /\ o.terminal = out.terminal /\ o.shown = out.shown
         /\ o.buffer[p] = << >>
         /\ \A q \in TreeProcesses : q # p => o.buffer[q] = out.buffer[q]
<1>1. out = TOut(out.terminal, out.buffer, out.shown)
  BY Zenon DEF OutOk
<1>2. << >> \in Seq(Line)
  BY EmptySeq
<1>3. o = TOut(out.terminal, Stow(out.buffer, p, << >>), out.shown)
  BY <1>1, DiscardT
<1>4. ASSUME NEW v \in Seq(Line), o = TOut(out.terminal, Stow(out.buffer, p, v), out.shown)
      PROVE  /\ OutOk(o) /\ o.terminal = out.terminal /\ o.shown = out.shown
             /\ o.buffer[p] = v
             /\ \A q \in TreeProcesses : q # p => o.buffer[q] = out.buffer[q]
  BY <1>4, StowNew
<1>. QED
  BY <1>2, <1>3, <1>4, Zenon

LEMMA CopyIs ==
  ASSUME NEW out, OutOk(out), NEW p \in TreeProcesses, NEW o, o = Tree!CopyBuffer(out, 0, p)
  PROVE  /\ OutOk(o) /\ o.terminal = out.terminal /\ o.shown = out.shown
         /\ o.buffer[p] = out.buffer[0]
         /\ \A q \in TreeProcesses : q # p => o.buffer[q] = out.buffer[q]
<1>1. out = TOut(out.terminal, out.buffer, out.shown)
  BY Zenon DEF OutOk
<1>2. out.buffer[0] \in Seq(Line)
  BY PipeAssumption DEF OutOk, TreeProcesses, Tree!TreeAssumption
<1>3. o = TOut(out.terminal, Stow(out.buffer, p, out.buffer[0]), out.shown)
  BY <1>1, CopyT
<1>. QED
  BY <1>2, <1>3, StowNew

\* Text that appears without having been in a buffer.
LEMMA ShowIs ==
  ASSUME NEW out, OutOk(out), NEW x \in Seq(Line),
         NEW o, o = [out EXCEPT !.shown = Followed(out.shown, x)]
  PROVE  /\ OutOk(o) /\ o.terminal = out.terminal /\ o.shown = Followed(out.shown, x)
         /\ o.buffer = out.buffer
<1>1. /\ out = TOut(out.terminal, out.buffer, out.shown)
      /\ out.buffer \in [TreeProcesses -> Seq(Line)] /\ out.shown \in Seq(Line)
  BY Zenon DEF OutOk
<1>2. Followed(out.shown, x) \in Seq(Line)
  BY <1>1, FollowedIs
<1>3. o = TOut(out.terminal, out.buffer, Followed(out.shown, x))
  BY <1>1, ShownT
<1>4. ASSUME NEW b \in [TreeProcesses -> Seq(Line)], NEW v \in Seq(Line),
             o = TOut(out.terminal, b, v)
      PROVE  OutOk(o) /\ o.terminal = out.terminal /\ o.shown = v /\ o.buffer = b
  <2>1. \A u : u = TOut(out.terminal, b, v) =>
          OutOk(u) /\ u.terminal = out.terminal /\ u.buffer = b /\ u.shown = v
    BY TOutNew, ZenonT(30)
  <2>. QED
    BY <1>4, <2>1, Zenon
<1>. QED
  BY <1>1, <1>2, <1>3, <1>4, Zenon

LEMMA FlushIs ==
  ASSUME NEW out, OutOk(out), NEW p \in TreeProcesses, NEW o, o = Tree!Flush(out, p)
  PROVE  /\ OutOk(o) /\ o.terminal = out.terminal
         /\ o.shown = Followed(out.shown, out.buffer[p])
         /\ o.buffer[p] = << >>
         /\ \A q \in TreeProcesses : q # p => o.buffer[q] = out.buffer[q]
<1>1. out.buffer[p] \in Seq(Line)
  BY DEF OutOk
<1>2. ASSUME NEW d, d = Tree!Discard(out, p)
      PROVE  /\ OutOk(d) /\ d.terminal = out.terminal /\ d.shown = out.shown
             /\ d.buffer[p] = << >>
             /\ \A q \in TreeProcesses : q # p => d.buffer[q] = out.buffer[q]
             /\ o = [d EXCEPT !.shown = Followed(d.shown, out.buffer[p])]
  <2>1. o = [d EXCEPT !.shown = Followed(d.shown, out.buffer[p])]
    BY <1>2 DEF Tree!Flush, Followed
  <2>. QED
    BY <1>2, <2>1, DiscardIs
<1>3. PICK d : d = Tree!Discard(out, p)
  OBVIOUS
<1>4. /\ OutOk(d) /\ d.terminal = out.terminal /\ d.shown = out.shown
      /\ d.buffer[p] = << >>
      /\ \A q \in TreeProcesses : q # p => d.buffer[q] = out.buffer[q]
      /\ o = [d EXCEPT !.shown = Followed(d.shown, out.buffer[p])]
  BY <1>2, <1>3, Zenon
<1>5. /\ OutOk(o) /\ o.terminal = d.terminal /\ o.buffer = d.buffer
      /\ o.shown = Followed(d.shown, out.buffer[p])
  BY <1>1, <1>4, ShowIs
<1>. QED
  BY <1>4, <1>5, Zenon

LEMMA SayLineIs ==
  ASSUME NEW out, OutOk(out), NEW p \in TreeProcesses, NEW x \in Seq(Line),
         NEW o, o = Tree!SayLine(out, p, x)
  PROVE  /\ OutOk(o) /\ o.terminal = out.terminal
         /\ Interactive(out.terminal) =>
              o.shown = Followed(out.shown, Followed(out.buffer[p], x)) /\ o.buffer[p] = << >>
         /\ ~Interactive(out.terminal) =>
              o.shown = out.shown /\ o.buffer[p] = Followed(out.buffer[p], x)
         /\ \A q \in TreeProcesses : q # p => o.buffer[q] = out.buffer[q]
<1>1. ASSUME NEW d, d = Tree!Say(out, p, x)
      PROVE  /\ OutOk(d) /\ d.terminal = out.terminal /\ d.shown = out.shown
             /\ d.buffer[p] = Followed(out.buffer[p], x)
             /\ \A q \in TreeProcesses : q # p => d.buffer[q] = out.buffer[q]
  BY <1>1, SayIs
<1>2. PICK d : d = Tree!Say(out, p, x)
  OBVIOUS
<1>3. /\ OutOk(d) /\ d.terminal = out.terminal /\ d.shown = out.shown
      /\ d.buffer[p] = Followed(out.buffer[p], x)
      /\ \A q \in TreeProcesses : q # p => d.buffer[q] = out.buffer[q]
  BY <1>1, <1>2, Zenon
<1>4. o = IF Interactive(out.terminal) THEN Tree!Flush(d, p) ELSE d
  BY <1>2, Zenon DEF Tree!SayLine, Interactive
<1>5. CASE Interactive(out.terminal)
  <2>1. o = Tree!Flush(d, p)
    BY <1>4, <1>5, Zenon
  <2>2. /\ OutOk(o) /\ o.terminal = d.terminal
        /\ o.shown = Followed(d.shown, d.buffer[p])
        /\ o.buffer[p] = << >>
        /\ \A q \in TreeProcesses : q # p => o.buffer[q] = d.buffer[q]
    BY <1>3, <2>1, FlushIs
  <2>. QED
    BY <1>3, <1>5, <2>2, Zenon
<1>6. CASE ~Interactive(out.terminal)
  <2>1. o = d
    BY <1>4, <1>6, Zenon
  <2>. QED
    BY <1>3, <1>6, <2>1, Zenon
<1>. QED
  BY <1>5, <1>6, Zenon

-----------------------------------------------------------------------------
(* Lines and their places *)

LEMMA LineIs ==
  ASSUME NEW p \in TreeProcesses, NEW n \in Nat,
         NEW w \in {"child", "waited", "greeting", "last", "image"}
  PROVE  <<p, w, n>> \in Line
BY DEF Line

LEMMA SameLine ==
  ASSUME NEW p, NEW w, NEW n, NEW q, NEW v, NEW m
  PROVE  (<<p, w, n>> = <<q, v, m>>) <=> (p = q /\ w = v /\ n = m)
OBVIOUS

LEMMA LinesAre ==
  ASSUME NEW p \in TreeProcesses, NEW w \in {"child", "waited", "greeting", "last", "image"},
         NEW f \in Nat, NEW t \in Nat, t >= f - 1
  PROVE  /\ Tree!Lines(p, w, f, t) \in Seq(Line)
         /\ DOMAIN Tree!Lines(p, w, f, t) = 1 .. t - f + 1
         /\ \A i \in 1 .. t - f + 1 : Tree!Lines(p, w, f, t)[i] = <<p, w, f + i - 1>>
<1>1. t - f + 1 \in Nat
  OBVIOUS
<1>2. \A i \in 1 .. t - f + 1 : f + i - 1 \in Nat
  OBVIOUS
<1>3. \A i \in 1 .. t - f + 1 : <<p, w, f + i - 1>> \in Line
  BY <1>2, LineIs
<1>4. Tree!Lines(p, w, f, t) = [i \in 1 .. t - f + 1 |-> <<p, w, f + i - 1>>]
  BY DEF Tree!Lines
<1>5. Tree!Lines(p, w, f, t) \in [1 .. t - f + 1 -> Line]
  BY <1>3, <1>4
<1>6. Tree!Lines(p, w, f, t) \in Seq(Line)
  BY <1>1, <1>5, SeqDef
<1>. QED
  BY <1>4, <1>6

\* How often a line is among them.
LEMMA LinesOcc ==
  ASSUME NEW p \in TreeProcesses, NEW w \in {"child", "waited", "greeting", "last", "image"},
         NEW f \in Nat, NEW t \in Nat, t >= f - 1, NEW q, NEW v, NEW n \in Nat
  PROVE  Occ(Tree!Lines(p, w, f, t), <<q, v, n>>)
           = IF p = q /\ w = v /\ f <= n /\ n <= t THEN 1 ELSE 0
<1> DEFINE s == Tree!Lines(p, w, f, t)
<1>1. /\ DOMAIN s = 1 .. t - f + 1
      /\ \A i \in 1 .. t - f + 1 : s[i] = <<p, w, f + i - 1>>
  <2>1. /\ DOMAIN Tree!Lines(p, w, f, t) = 1 .. t - f + 1
        /\ \A i \in 1 .. t - f + 1 : Tree!Lines(p, w, f, t)[i] = <<p, w, f + i - 1>>
    BY DEF Tree!Lines
  <2>. QED
    BY <2>1
<1> HIDE DEF s
<1>2. ASSUME NEW i \in DOMAIN s
      PROVE  s[i] = <<q, v, n>> <=> p = q /\ w = v /\ n = f + i - 1
  BY <1>1, SameLine
<1>3. CASE p = q /\ w = v /\ f <= n /\ n <= t
  <2>1. n - f + 1 \in DOMAIN s
    BY <1>1, <1>3
  <2>2. \A i \in DOMAIN s : s[i] = <<q, v, n>> <=> i = n - f + 1
    BY <1>1, <1>2, <1>3
  <2>3. Positions(s, <<q, v, n>>) = {n - f + 1}
    BY <2>1, <2>2 DEF Positions
  <2>. QED
    BY <1>3, <2>3, FS_Singleton DEF Occ, s
<1>4. CASE ~(p = q /\ w = v /\ f <= n /\ n <= t)
  <2>1. \A i \in DOMAIN s : s[i] # <<q, v, n>>
    BY <1>1, <1>2, <1>4
  <2>2. Positions(s, <<q, v, n>>) = {}
    BY <2>1 DEF Positions
  <2>. QED
    BY <1>4, <2>2, FS_EmptySet DEF Occ, s
<1>. QED
  BY <1>3, <1>4

\* What is printed next is not to be seen before what has been printed.
LEMMA SortedMore ==
  ASSUME NEW n \in Nat, NEW s \in Seq(Line), NEW x \in Seq(Line), NEW a \in Int, NEW b \in Int,
         Sorted(n, s, a), a <= b,
         \A i \in DOMAIN x : x[i][2] # "greeting" => PlaceIn(n, x[i]) = b
  PROVE  Sorted(n, Followed(s, x), b)
<1> DEFINE u == Followed(s, x)
           k == Len(s)
<1>1. /\ k \in Nat /\ Len(x) \in Nat /\ DOMAIN s = 1 .. k /\ DOMAIN x = 1 .. Len(x)
      /\ DOMAIN u = 1 .. k + Len(x)
      /\ \A i \in 1 .. k + Len(x) : u[i] = IF i <= k THEN s[i] ELSE x[i - k]
  <2>1. u \in Seq(Line) /\ Len(u) = k + Len(x)
        /\ \A i \in 1 .. k + Len(x) : u[i] = IF i <= k THEN s[i] ELSE x[i - k]
    BY ConcatProperties DEF Followed
  <2>2. DOMAIN u = 1 .. Len(u)
    BY <2>1, LenProperties
  <2>. QED
    BY <2>1, <2>2, LenProperties
<1> HIDE DEF u, k
<1>2. ASSUME NEW i \in DOMAIN u
      PROVE  \/ i \in DOMAIN s /\ u[i] = s[i] /\ i <= k
             \/ i > k /\ i - k \in DOMAIN x /\ u[i] = x[i - k]
  BY <1>1
<1>3. ASSUME NEW l \in Line PROVE PlaceIn(n, l) \in Int
  BY PipeAssumption DEF Line, PlaceIn, TreeProcesses, Tree!TreeAssumption
<1>4. ASSUME NEW i \in DOMAIN u PROVE u[i] \in Line /\ PlaceIn(n, u[i]) \in Int
  <2>1. u[i] \in Line
    BY <1>1, <1>2
  <2>. QED
    BY <1>3, <2>1
<1>5. ASSUME NEW i \in DOMAIN s PROVE s[i][2] # "greeting" => PlaceIn(n, s[i]) <= a
  BY DEF Sorted
<1>6. ASSUME NEW i \in DOMAIN u PROVE u[i][2] # "greeting" => PlaceIn(n, u[i]) <= b
  <2>1. CASE i \in DOMAIN s /\ u[i] = s[i] /\ i <= k
    BY <1>4, <1>5, <2>1
  <2>2. CASE i - k \in DOMAIN x /\ u[i] = x[i - k]
    <3>1. x[i - k][2] # "greeting" => PlaceIn(n, x[i - k]) = b
      BY <2>2
    <3>. QED
      BY <1>4, <2>2, <3>1
  <2>. QED
    BY <1>2, <2>1, <2>2
<1>7. ASSUME NEW i \in DOMAIN u, NEW j \in DOMAIN u, i < j,
             u[i][2] # "greeting", u[j][2] # "greeting"
      PROVE  PlaceIn(n, u[i]) <= PlaceIn(n, u[j])
  <2>1. CASE j \in DOMAIN s /\ u[j] = s[j] /\ j <= k
    <3>1. i \in DOMAIN s /\ u[i] = s[i]
      BY <1>1, <1>2, <1>7, <2>1
    <3>2. \A c, d \in DOMAIN s :
            c < d => "greeting" \in {s[c][2], s[d][2]} \/ PlaceIn(n, s[c]) <= PlaceIn(n, s[d])
      BY DEF Sorted
    <3>. QED
      BY <1>7, <2>1, <3>1, <3>2
  <2>2. CASE j - k \in DOMAIN x /\ u[j] = x[j - k]
    <3>1. x[j - k][2] # "greeting" => PlaceIn(n, x[j - k]) = b
      BY <2>2
    <3>2. PlaceIn(n, u[j]) = b
      BY <1>7, <2>2, <3>1
    <3>. QED
      BY <1>6, <1>7, <3>2
  <2>. QED
    BY <1>2, <2>1, <2>2
<1>8. \A i, j \in DOMAIN u :
        i < j => "greeting" \in {u[i][2], u[j][2]} \/ PlaceIn(n, u[i]) <= PlaceIn(n, u[j])
  BY <1>7
<1>9. Sorted(n, u, b)
  BY <1>6, <1>8 DEF Sorted
<1>. QED
  BY <1>9 DEF u

\* Nothing is printed.
LEMMA SortedLater ==
  ASSUME NEW n \in Nat, NEW s \in Seq(Line), NEW a \in Int, NEW b \in Int,
         Sorted(n, s, a), a <= b
  PROVE  Sorted(n, s, b)
<1>1. ASSUME NEW l \in Line PROVE PlaceIn(n, l) \in Int
  BY PipeAssumption DEF Line, PlaceIn, TreeProcesses, Tree!TreeAssumption
<1>2. \A i \in DOMAIN s : s[i] \in Line
  BY LenProperties
<1>3. ASSUME NEW i \in DOMAIN s, s[i][2] # "greeting" PROVE PlaceIn(n, s[i]) <= b
  <2>1. PlaceIn(n, s[i]) <= a /\ PlaceIn(n, s[i]) \in Int
    BY <1>1, <1>2, <1>3 DEF Sorted
  <2>. QED
    BY <2>1
<1>. QED
  BY <1>3 DEF Sorted

-----------------------------------------------------------------------------
(* The programs, and who is where *)

LEMMA TreeIs ==
  ASSUME NEW p \in Tree!Trees
  PROVE  /\ p.lines \in 1 .. 3 /\ p.waited \in {0, 1} /\ p.last \in 0 .. 2
         /\ p.greets \in BOOLEAN /\ p.image \in BOOLEAN
         /\ p.ends \in {{"exit"}, {"_exit"}, {"exec", "_exit"}}
         /\ p.greets => p.counts = {1} /\ p.ends = {"_exit"} /\ p.lines = 2
<1> DEFINE Good(p1) ==
             /\ p1.lines \in 1 .. 3 /\ p1.waited \in {0, 1} /\ p1.last \in 0 .. 2
             /\ p1.greets \in BOOLEAN /\ p1.image \in BOOLEAN
             /\ p1.ends \in {{"exit"}, {"_exit"}, {"exec", "_exit"}}
             /\ p1.greets => p1.counts = {1} /\ p1.ends = {"_exit"} /\ p1.lines = 2
<1>1. Good(Tree!practice)
  BY DEF Tree!practice
<1>2. Good(Tree!processes)
  BY DEF Tree!practice, Tree!processes
<1>3. Good(Tree!multiChildProcess)
  BY DEF Tree!practice, Tree!multiChildProcess
<1>4. Good(Tree!process3)
  BY DEF Tree!practice, Tree!process3
<1>5. Good(Tree!process)
  BY DEF Tree!practice, Tree!process
<1>6. Good(Tree!processExited)
  BY DEF Tree!practice, Tree!processExited
<1> HIDE DEF Good
<1>7. Good(p)
  BY <1>1, <1>2, <1>3, <1>4, <1>5, <1>6 DEF Tree!Trees
<1>. QED
  BY <1>7 DEF Good

LEMMA TreeSizes ==
  /\ MaxCount \in Nat \ {0} /\ Tree!Children = 1 .. MaxCount
  /\ 0 \in TreeProcesses /\ \A k \in Tree!Children : k \in TreeProcesses /\ k \in Nat /\ k # 0
  /\ \A p \in TreeProcesses : p # 0 => p \in Tree!Children
BY PipeAssumption DEF Tree!TreeAssumption, Tree!Children, TreeProcesses

LEMMA IndexIs ==
  ASSUME TreeTypes
  PROVE  /\ index \in Nat /\ index >= 1 /\ index <= count + 1 /\ count \in Nat /\ count >= 1
         /\ count <= MaxCount /\ index + 1 \in Nat
         /\ \A k \in 1 .. count : k \in Tree!Children
         /\ index <= count => index \in Tree!Children
BY TreeSizes DEF TreeTypes

LEMMA RunningIs ==
  ASSUME TreeTypes, OneByOne, NEW k \in Tree!Children, child[k] = "running"
  PROVE  k = index /\ parent \in {"greet", "wait"}
<1>1. k \in Int /\ index \in Int
  BY TreeSizes, IndexIs
<1>2. k < index \/ k = index \/ k > index
  BY <1>1
<1>. QED
  BY <1>2 DEF OneByOne

-----------------------------------------------------------------------------
(* The control of the parent and of the children *)

LEMMA ForkControl ==
  ASSUME TreeTypes, OneByOne, Tree!Fork
  PROVE  TreeTypes' /\ OneByOne'
<1>1. /\ parent = "fork" /\ index <= count /\ index \in Tree!Children
      /\ child' = [child EXCEPT ![index] = "running"]
      /\ parent' = IF program.greets THEN "greet" ELSE "wait"
      /\ UNCHANGED <<program, count, index, said>>
  BY IndexIs DEF Tree!Fork
<1>2. TreeTypes'
  BY <1>1 DEF TreeTypes
<1>3. ASSUME NEW k \in Tree!Children
      PROVE  /\ k < index => child'[k] \in {"reaped", "killed"}
             /\ k = index => child'[k] = "running"
             /\ k > index => child'[k] = "unborn"
             /\ child'[k] = "unborn" => said[k] = 0
             /\ said[k] <= program.lines
             /\ Gone(child'[k]) => said[k] = program.lines
  <2>1. k \in Nat /\ index \in Nat
    BY TreeSizes, IndexIs
  <2>2. CASE k = index
    BY <1>1, <2>1, <2>2 DEF OneByOne, TreeTypes, Gone
  <2>3. CASE k # index
    BY <1>1, <2>1, <2>3 DEF OneByOne, TreeTypes
  <2>. QED
    BY <2>2, <2>3
<1>4. OneByOne'
  BY <1>1, <1>3 DEF OneByOne
<1>. QED
  BY <1>2, <1>4

LEMMA StayControl ==
  ASSUME TreeTypes, OneByOne, UNCHANGED <<program, count, index, child, said>>,
         \/ parent = "fork" /\ index <= count /\ parent' = "failed"
         \/ parent = "greet" /\ parent' = "wait"
         \/ parent = "fork" /\ index > count /\ parent' = "done"
  PROVE  TreeTypes' /\ OneByOne'
<1>1. TreeTypes'
  BY DEF TreeTypes
<1>2. /\ parent' \in {"failed", "wait", "done"}
      /\ parent' = "done" => index = count + 1
      /\ parent' = "wait" => index <= count
  BY IndexIs DEF OneByOne
<1>3. ASSUME NEW k \in Tree!Children
      PROVE  k = index => IF parent' = "wait"
                          THEN child[k] \in {"running", "ended", "killed"}
                          ELSE child[k] = "unborn"
  BY DEF OneByOne
<1>4. OneByOne'
  BY <1>2, <1>3 DEF OneByOne
<1>. QED
  BY <1>1, <1>4

LEMMA WaitControl ==
  ASSUME TreeTypes, OneByOne, Tree!Wait
  PROVE  TreeTypes' /\ OneByOne'
<1>1. /\ parent = "wait" /\ index <= count /\ index \in Tree!Children
      /\ child[index] \in {"ended", "killed"}
      /\ child' = [child EXCEPT ![index] = IF child[index] = "ended" THEN "reaped" ELSE child[index]]
      /\ index' = index + 1 /\ parent' = "fork"
      /\ UNCHANGED <<program, count, said>>
  BY IndexIs DEF Tree!Wait, OneByOne
<1>2. /\ child' \in [Tree!Children -> {"unborn", "running", "ended", "killed", "reaped"}]
      /\ child'[index] \in {"reaped", "killed"}
      /\ child'[index] = "reaped" => said[index] = program.lines
      /\ \A k \in Tree!Children : k # index => child'[k] = child[k]
  BY <1>1 DEF TreeTypes, OneByOne, Gone
<1>3. TreeTypes'
  BY <1>1, <1>2, IndexIs DEF TreeTypes
<1>4. ASSUME NEW k \in Tree!Children
      PROVE  /\ k < index + 1 => child'[k] \in {"reaped", "killed"}
             /\ k = index + 1 => child'[k] = "unborn"
             /\ k > index + 1 => child'[k] = "unborn"
             /\ child'[k] = "unborn" => said[k] = 0
             /\ said[k] <= program.lines
             /\ Gone(child'[k]) => said[k] = program.lines
  <2>1. k \in Nat /\ index \in Nat
    BY TreeSizes, IndexIs
  <2>2. CASE k = index
    <3>1. child'[k] \in {"reaped", "killed"}
      BY <1>2, <2>2, Zenon
    <3>4. child'[k] = "reaped" => said[k] = program.lines
      BY <1>2, <2>2, Zenon
    <3>2. k # index + 1 /\ ~(k > index + 1)
      BY <2>1, <2>2
    <3>3. said[k] <= program.lines
      BY DEF OneByOne
    <3>. QED
      BY <3>1, <3>2, <3>3, <3>4 DEF Gone
  <2>3. CASE k < index
    BY <1>1, <1>2, <2>1, <2>3 DEF OneByOne
  <2>4. CASE k > index
    BY <1>1, <1>2, <2>1, <2>4 DEF OneByOne
  <2>. QED
    BY <2>1, <2>2, <2>3, <2>4
<1>5. OneByOne'
  BY <1>1, <1>4 DEF OneByOne
<1>. QED
  BY <1>3, <1>5

\* A child's own steps.
LEMMA ChildControl ==
  ASSUME TreeTypes, OneByOne, NEW k \in Tree!Children, child[k] = "running",
         UNCHANGED <<program, count, parent, index>>,
         \/ /\ said[k] < program.lines /\ UNCHANGED child
            /\ said' = [said EXCEPT ![k] = @ + 1]
         \/ /\ said[k] = program.lines /\ UNCHANGED said
            /\ child' = [child EXCEPT ![k] = "ended"]
         \/ UNCHANGED said /\ child' = [child EXCEPT ![k] = "killed"]
  PROVE  TreeTypes' /\ OneByOne'
<1>1. k = index /\ parent \in {"greet", "wait"}
  BY RunningIs
<1>2. program.lines \in 1 .. 3 /\ said[k] \in 0 .. 3
  BY TreeIs DEF TreeTypes
<1>3. /\ child' \in [Tree!Children -> {"unborn", "running", "ended", "killed", "reaped"}]
      /\ said' \in [Tree!Children -> 0 .. 3]
      /\ child'[k] \in {"running", "ended", "killed"}
      /\ child'[k] = "ended" => said'[k] = program.lines
      /\ said'[k] <= program.lines
      /\ \A j \in Tree!Children : j # k => child'[j] = child[j] /\ said'[j] = said[j]
  <2>1. CASE /\ said[k] < program.lines /\ UNCHANGED child
             /\ said' = [said EXCEPT ![k] = @ + 1]
    <3>1. said[k] + 1 \in 0 .. 3 /\ said[k] + 1 <= program.lines
      BY <1>2, <2>1
    <3>2. said' = [said EXCEPT ![k] = said[k] + 1]
      BY <2>1
    <3>. QED
      BY <2>1, <3>1, <3>2 DEF TreeTypes
  <2>2. CASE UNCHANGED said /\ child' = [child EXCEPT ![k] = "ended"] /\ said[k] = program.lines
    BY <1>2, <2>2 DEF TreeTypes
  <2>3. CASE UNCHANGED said /\ child' = [child EXCEPT ![k] = "killed"]
    BY <1>2, <2>3 DEF TreeTypes, OneByOne
  <2>. QED
    BY <2>1, <2>2, <2>3
<1>4. TreeTypes'
  BY <1>3 DEF TreeTypes
<1>5. ASSUME NEW j \in Tree!Children
      PROVE  /\ j < index => child'[j] \in {"reaped", "killed"}
             /\ j = index => child'[j] \in {"running", "ended", "killed"}
             /\ j > index => child'[j] = "unborn"
             /\ child'[j] = "unborn" => said'[j] = 0
             /\ said'[j] <= program.lines
             /\ Gone(child'[j]) => said'[j] = program.lines
  <2>1. j \in Nat /\ index \in Nat
    BY TreeSizes, IndexIs
  <2>2. CASE j = k
    BY <1>1, <1>3, <2>1, <2>2 DEF Gone
  <2>3. CASE j # k
    BY <1>1, <1>3, <2>1, <2>3 DEF OneByOne
  <2>. QED
    BY <2>2, <2>3
<1>6. OneByOne'
  BY <1>1, <1>5 DEF OneByOne
<1>. QED
  BY <1>4, <1>6

-----------------------------------------------------------------------------
(* The output, to a terminal *)

LEMMA NowIs == TreeTypes => Now \in Int /\ count \in Nat
<1>. SUFFICES ASSUME TreeTypes PROVE Now \in Int /\ count \in Nat
  OBVIOUS
<1>1. index \in Nat /\ count \in Nat
  BY IndexIs
<1>2. 2 * count + 2 \in Int /\ 2 * index \in Int /\ 2 * index - 1 \in Int
  BY <1>1
<1>. QED
  BY <1>1, <1>2 DEF Now

\* x is printed.
Printed(x) ==
    /\ Shown' = Followed(Shown, x)
    /\ TerminalEmpty'
    /\ Now <= Now'
    /\ \A i \in DOMAIN x : x[i][2] # "greeting" => PlaceIn(count, x[i]) = Now'
    /\ \A k \in Tree!Children, i \in 1 .. 3 :
         One(i <= said'[k]) = One(i <= said[k]) + Occ(x, SaidBy(k, i))
    /\ program.waited = 1 =>
         \A j \in Tree!Children : One(j < index') = One(j < index) + Occ(x, WaitedFor(j))
    /\ program.greets => One(Greeted') = One(Greeted) + Occ(x, Greeting)
    /\ \A i \in 1 .. program.last :
         One(parent' = "done") = One(parent = "done") + Occ(x, AtLast(i))

LEMMA TerminalMore ==
  ASSUME TreeTypes, TreeTypes', UNCHANGED <<program, count>>, TerminalRight, OutOk(stdout),
         NEW x \in Seq(Line), Printed(x)
  PROVE  TerminalRight'
<1>1. Shown \in Seq(Line) /\ Shown' = Followed(Shown, x)
  BY DEF OutOk, Shown, Printed
<1>2. \A l : Occ(Shown', l) = Occ(Shown, l) + Occ(x, l)
  <2>1. \A l : Occ(Followed(Shown, x), l) = Occ(Shown, l) + Occ(x, l)
    BY <1>1, FollowedIs
  <2>. QED
    BY <1>1, <2>1
<1>3. TerminalSorted'
  <2>5. Now \in Int /\ count \in Nat
    BY NowIs
  <2>6. (Now \in Int)'
    BY NowIs, PTL
  <2>1. Now \in Int /\ Now' \in Int /\ count \in Nat /\ count' = count
    BY <2>5, <2>6
  <2>2. Sorted(count, Shown, Now)
    BY DEF TerminalRight, TerminalSorted
  <2>3. /\ Now <= Now'
        /\ \A i \in DOMAIN x : x[i][2] # "greeting" => PlaceIn(count, x[i]) = Now'
    BY DEF Printed
  <2>4. Sorted(count, Followed(Shown, x), Now')
    BY <1>1, <2>1, <2>2, <2>3, SortedMore
  <2>. QED
    BY <1>1, <2>1, <2>4 DEF TerminalSorted
<1>4. TerminalSaid'
  <2>1. ASSUME NEW k \in Tree!Children, NEW i \in 1 .. 3
        PROVE  Occ(Shown', SaidBy(k, i)) = One(i <= said'[k])
    BY <1>2 DEF TerminalRight, TerminalSaid, Printed
  <2>. QED
    BY <2>1 DEF TerminalSaid, SaidBy
<1>5. TerminalWaited'
  <2>1. ASSUME NEW j \in Tree!Children, program.waited = 1
        PROVE  Occ(Shown', WaitedFor(j)) = One(j < index')
    BY <1>2, <2>1 DEF TerminalRight, TerminalWaited, Printed
  <2>. QED
    BY <2>1 DEF TerminalWaited, WaitedFor
<1>6. TerminalGreeted'
  BY <1>2 DEF TerminalRight, TerminalGreeted, Printed, Greeting
<1>7. TerminalLast'
  <2>1. ASSUME NEW i \in 1 .. program.last
        PROVE  Occ(Shown', AtLast(i)) = One(parent' = "done")
    BY <1>2 DEF TerminalRight, TerminalLast, Printed
  <2>. QED
    BY <2>1 DEF TerminalLast, AtLast
<1>. QED
  BY <1>3, <1>4, <1>5, <1>6, <1>7 DEF TerminalRight, Printed

LEMMA NothingOcc == << >> \in Seq(Line) /\ \A l : Occ(<< >>, l) = 0
BY OccEmpty, EmptySeq

\* Nothing is printed.
LEMMA TerminalSame ==
  ASSUME TreeTypes, TreeTypes', UNCHANGED <<program, count>>, TerminalRight, OutOk(stdout),
         Shown' = Shown, TerminalEmpty', Now <= Now', said' = said, index' = index,
         program.greets => (parent' = "wait" <=> parent = "wait"),
         parent' = "done" <=> parent = "done"
  PROVE  TerminalRight'
<1>1. Shown \in Seq(Line)
  BY DEF OutOk, Shown
<1>2. TerminalSorted'
  <2>5. Now \in Int /\ count \in Nat
    BY NowIs
  <2>6. (Now \in Int)'
    BY NowIs, PTL
  <2>1. Now \in Int /\ Now' \in Int /\ count \in Nat /\ count' = count
    BY <2>5, <2>6
  <2>2. Sorted(count, Shown, Now)
    BY DEF TerminalRight, TerminalSorted
  <2>3. Sorted(count, Shown, Now')
    BY <1>1, <2>1, <2>2, SortedLater
  <2>. QED
    BY <2>1, <2>3 DEF TerminalSorted
<1>3. TerminalSaid'
  BY DEF TerminalRight, TerminalSaid, SaidBy
<1>4. TerminalWaited'
  BY DEF TerminalRight, TerminalWaited, WaitedFor
<1>5. TerminalGreeted'
  BY DEF TerminalRight, TerminalGreeted, Greeting, Greeted, One
<1>6. TerminalLast'
  BY DEF TerminalRight, TerminalLast, AtLast, One
<1>. QED
  BY <1>2, <1>3, <1>4, <1>5, <1>6 DEF TerminalRight

-----------------------------------------------------------------------------
(* The steps, as seen in the output *)

Alike(p) == \A q \in TreeProcesses : q # p => Buf(q)' = Buf(q)
Kept == OutOk(stdout') /\ stdout'.terminal = stdout.terminal

LEMMA FlushOut ==
  ASSUME OutOk(stdout), NEW p \in TreeProcesses, stdout' = Tree!Flush(stdout, p)
  PROVE  Kept /\ Shown' = Followed(Shown, Buf(p)) /\ Buf(p)' = << >> /\ Alike(p)
BY FlushIs DEF Kept, Shown, Buf, Alike

LEMMA DiscardOut ==
  ASSUME OutOk(stdout), NEW p \in TreeProcesses, stdout' = Tree!Discard(stdout, p)
  PROVE  Kept /\ Shown' = Shown /\ Buf(p)' = << >> /\ Alike(p)
BY DiscardIs DEF Kept, Shown, Buf, Alike

LEMMA CopyOut ==
  ASSUME OutOk(stdout), NEW p \in TreeProcesses, stdout' = Tree!CopyBuffer(stdout, 0, p)
  PROVE  Kept /\ Shown' = Shown /\ Buf(p)' = Buf(0) /\ Alike(p)
BY CopyIs DEF Kept, Shown, Buf, Alike

LEMMA SayLineOut ==
  ASSUME OutOk(stdout), NEW p \in TreeProcesses, NEW x \in Seq(Line),
         stdout' = Tree!SayLine(stdout, p, x)
  PROVE  /\ Kept /\ Alike(p)
         /\ Interactive(stdout.terminal) =>
              Shown' = Followed(Shown, Followed(Buf(p), x)) /\ Buf(p)' = << >>
         /\ ~Interactive(stdout.terminal) =>
              Shown' = Shown /\ Buf(p)' = Followed(Buf(p), x)
BY SayLineIs DEF Kept, Shown, Buf, Alike

\* What a process that prints to a terminal shows.
LEMMA SaidAtOnce ==
  ASSUME OutOk(stdout), NEW p \in TreeProcesses, NEW x \in Seq(Line),
         stdout' = Tree!SayLine(stdout, p, x), TerminalEmpty, Interactive(stdout.terminal)
  PROVE  Shown' = Followed(Shown, x) /\ TerminalEmpty'
<1>1. /\ Alike(p) /\ Shown' = Followed(Shown, Followed(Buf(p), x)) /\ Buf(p)' = << >>
  BY SayLineOut
<1>2. Followed(<< >>, x) = x
  BY FollowedIs
<1>3. Followed(Buf(p), x) = x
  BY <1>2 DEF TerminalEmpty
<1>4. TerminalEmpty'
  BY <1>1 DEF TerminalEmpty, Alike
<1>. QED
  BY <1>1, <1>3, <1>4

LEMMA FlushedAlready ==
  ASSUME OutOk(stdout), NEW p \in TreeProcesses, TerminalEmpty,
         \/ stdout' = Tree!Flush(stdout, p)
         \/ stdout' = Tree!Discard(stdout, p)
         \/ stdout' = Tree!CopyBuffer(stdout, 0, p)
  PROVE  Shown' = Shown /\ TerminalEmpty'
<1>1. Shown \in Seq(Line) /\ Buf(p) = << >> /\ Buf(0) = << >>
  BY TreeSizes DEF OutOk, Shown, TerminalEmpty
<1>2. Followed(Shown, << >>) = Shown
  BY <1>1, FollowedIs
<1>3. Shown' = Shown /\ Buf(p)' = << >> /\ Alike(p)
  <2>1. CASE stdout' = Tree!Flush(stdout, p)
    BY <1>1, <1>2, <2>1, FlushOut
  <2>2. CASE stdout' = Tree!Discard(stdout, p)
    BY <2>2, DiscardOut
  <2>3. CASE stdout' = Tree!CopyBuffer(stdout, 0, p)
    BY <1>1, <2>3, CopyOut
  <2>. QED
    BY <2>1, <2>2, <2>3
<1>4. TerminalEmpty'
  BY <1>3 DEF TerminalEmpty, Alike
<1>. QED
  BY <1>3, <1>4

LEMMA FollowedTwice ==
  ASSUME NEW s \in Seq(Line), NEW x \in Seq(Line), NEW y \in Seq(Line)
  PROVE  Followed(Followed(s, x), y) = Followed(s, Followed(x, y))
BY ConcatAssociative DEF Followed

LEMMA FollowedAll ==
  ASSUME NEW x \in Seq(Line), NEW y \in Seq(Line), NEW i \in DOMAIN Followed(x, y)
  PROVE  \/ \E j \in DOMAIN x : Followed(x, y)[i] = x[j]
         \/ \E j \in DOMAIN y : Followed(x, y)[i] = y[j]
<1> DEFINE u == Followed(x, y)
           k == Len(x)
<1>1. /\ k \in Nat /\ Len(y) \in Nat /\ DOMAIN x = 1 .. k /\ DOMAIN y = 1 .. Len(y)
      /\ DOMAIN u = 1 .. k + Len(y)
      /\ \A j \in 1 .. k + Len(y) : u[j] = IF j <= k THEN x[j] ELSE y[j - k]
  <2>1. u \in Seq(Line) /\ Len(u) = k + Len(y)
        /\ \A j \in 1 .. k + Len(y) : u[j] = IF j <= k THEN x[j] ELSE y[j - k]
    BY ConcatProperties DEF Followed
  <2>2. DOMAIN u = 1 .. Len(u)
    BY <2>1, LenProperties
  <2>. QED
    BY <2>1, <2>2, LenProperties
<1>2. i \in DOMAIN u
  OBVIOUS
<1> HIDE DEF u, k
<1>3. \/ i \in DOMAIN x /\ u[i] = x[i]
      \/ i - k \in DOMAIN y /\ u[i] = y[i - k]
  BY <1>1, <1>2
<1>. QED
  BY <1>3 DEF u

\* A program that the parent, or a child, runs prints a line of its own.
ImageOf(p) == << <<p, "image", 1>> >>

LEMMA ImageIs ==
  ASSUME NEW p \in TreeProcesses
  PROVE  /\ ImageOf(p) \in Seq(Line) /\ DOMAIN ImageOf(p) = {1}
         /\ ImageOf(p)[1] = <<p, "image", 1>>
         /\ \A q, w, n : w # "image" => Occ(ImageOf(p), <<q, w, n>>) = 0
<1>1. <<p, "image", 1>> \in Line
  BY LineIs
<1>2. ImageOf(p) \in Seq(Line) /\ DOMAIN ImageOf(p) = {1} /\ ImageOf(p)[1] = <<p, "image", 1>>
  BY <1>1 DEF ImageOf
<1>3. ASSUME NEW q, NEW w, NEW n, w # "image"
      PROVE  Occ(ImageOf(p), <<q, w, n>>) = 0
  <2>1. <<p, "image", 1>> # <<q, w, n>>
    BY <1>3, SameLine
  <2>. QED
    BY <2>1, OccOne DEF ImageOf
<1>. QED
  BY <1>2, <1>3

LEMMA ExitOut ==
  ASSUME OutOk(stdout), NEW x \in Seq(Line),
         stdout' = Tree!Flush(Tree!SayLine(Tree!RunImage(stdout), 0, x), 0)
  PROVE  /\ Kept /\ Alike(0) /\ Buf(0)' = << >>
         /\ \E img \in {<< >>, ImageOf(0)} :
              Shown' = Followed(Followed(Shown, img), Followed(Buf(0), x))
<1>1. Shown \in Seq(Line) /\ 0 \in TreeProcesses /\ Buf(0) \in Seq(Line)
  BY TreeSizes DEF OutOk, Shown, Buf
<1>13. PICK ran :
        /\ ran = Tree!RunImage(stdout)
        /\ OutOk(ran) /\ ran.terminal = stdout.terminal /\ ran.buffer = stdout.buffer
        /\ \E img \in {<< >>, ImageOf(0)} : ran.shown = Followed(Shown, img)
  <2>1. CASE program.image
    <3>1. [stdout EXCEPT !.shown = Append(@, <<0, "image", 1>>)]
            = [stdout EXCEPT !.shown = Followed(stdout.shown, ImageOf(0))]
      <4>1. Append(Shown, <<0, "image", 1>>) = Followed(Shown, ImageOf(0))
        BY <1>1, LineIs, AppendIsConcat DEF Followed, ImageOf
      <4>. QED
        BY <4>1 DEF Shown
    <3>2. ASSUME NEW o, o = Tree!RunImage(stdout)
          PROVE  /\ OutOk(o) /\ o.terminal = stdout.terminal /\ o.buffer = stdout.buffer
                 /\ o.shown = Followed(Shown, ImageOf(0))
      <4>1. o = [stdout EXCEPT !.shown = Followed(stdout.shown, ImageOf(0))]
        BY <2>1, <3>1, <3>2, Zenon DEF Tree!RunImage
      <4>. QED
        BY <1>1, <4>1, ImageIs, ShowIs DEF Shown
    <3>. QED
      BY <3>2
  <2>2. CASE ~program.image
    <3>1. stdout = Tree!RunImage(stdout)
      BY <2>2 DEF Tree!RunImage
    <3>2. Followed(Shown, << >>) = Shown
      BY <1>1, NothingOcc, FollowedIs
    <3>. QED
      BY <3>1, <3>2 DEF Shown
  <2>. QED
    BY <2>1, <2>2
<1>2. PICK img \in {<< >>, ImageOf(0)} :
        /\ ran = Tree!RunImage(stdout)
        /\ OutOk(ran) /\ ran.terminal = stdout.terminal /\ ran.buffer = stdout.buffer
        /\ ran.shown = Followed(Shown, img)
  BY <1>13
<1>3. img \in Seq(Line) /\ Followed(Shown, img) \in Seq(Line)
  BY <1>1, <1>2, NothingOcc, ImageIs, FollowedIs
<1>4. PICK spoke : spoke = Tree!SayLine(ran, 0, x)
  OBVIOUS
<1>14. ASSUME NEW o, o = Tree!SayLine(ran, 0, x)
      PROVE  /\ OutOk(o) /\ o.terminal = ran.terminal
             /\ Interactive(ran.terminal) =>
                  o.shown = Followed(ran.shown, Followed(ran.buffer[0], x)) /\ o.buffer[0] = << >>
             /\ ~Interactive(ran.terminal) =>
                  o.shown = ran.shown /\ o.buffer[0] = Followed(ran.buffer[0], x)
             /\ \A q \in TreeProcesses : q # 0 => o.buffer[q] = ran.buffer[q]
  <2>1. OutOk(ran) /\ 0 \in TreeProcesses
    BY <1>1, <1>2
  <2>. QED
    BY <1>14, <2>1, SayLineIs
<1>5. /\ OutOk(spoke) /\ spoke.terminal = ran.terminal
      /\ Interactive(ran.terminal) =>
           spoke.shown = Followed(ran.shown, Followed(ran.buffer[0], x)) /\ spoke.buffer[0] = << >>
      /\ ~Interactive(ran.terminal) =>
           spoke.shown = ran.shown /\ spoke.buffer[0] = Followed(ran.buffer[0], x)
      /\ \A q \in TreeProcesses : q # 0 => spoke.buffer[q] = ran.buffer[q]
  BY <1>4, <1>14, Zenon
<1>6. stdout' = Tree!Flush(spoke, 0)
  BY <1>2, <1>4
<1>7. ASSUME NEW o, o = Tree!Flush(spoke, 0)
      PROVE  /\ OutOk(o) /\ o.terminal = spoke.terminal
             /\ o.shown = Followed(spoke.shown, spoke.buffer[0])
             /\ o.buffer[0] = << >>
             /\ \A q \in TreeProcesses : q # 0 => o.buffer[q] = spoke.buffer[q]
  BY <1>1, <1>5, <1>7, FlushIs
<1>8. /\ OutOk(stdout') /\ stdout'.terminal = spoke.terminal
      /\ stdout'.shown = Followed(spoke.shown, spoke.buffer[0])
      /\ stdout'.buffer[0] = << >>
      /\ \A q \in TreeProcesses : q # 0 => stdout'.buffer[q] = spoke.buffer[q]
  BY <1>6, <1>7, Zenon
<1>9. Followed(spoke.shown, spoke.buffer[0])
        = Followed(Followed(Shown, img), Followed(Buf(0), x))
  <2>1. CASE Interactive(ran.terminal)
    <3>1. spoke.shown = Followed(Followed(Shown, img), Followed(Buf(0), x))
          /\ spoke.buffer[0] = << >>
      BY <1>2, <1>5, <2>1, Zenon DEF Buf
    <3>2. Followed(Buf(0), x) \in Seq(Line)
      BY <1>1, FollowedIs
    <3>3. Followed(Followed(Shown, img), Followed(Buf(0), x)) \in Seq(Line)
      BY <1>3, <3>2, FollowedIs
    <3>4. Followed(Followed(Followed(Shown, img), Followed(Buf(0), x)), << >>)
            = Followed(Followed(Shown, img), Followed(Buf(0), x))
      BY <3>3, NothingOcc, FollowedIs
    <3>. QED
      BY <3>1, <3>4, Zenon
  <2>2. CASE ~Interactive(ran.terminal)
    BY <1>2, <1>5, <2>2, Zenon DEF Buf
  <2>. QED
    BY <2>1, <2>2
<1>10. Kept
  BY <1>2, <1>5, <1>8, Zenon DEF Kept
<1>11. Alike(0) /\ Buf(0)' = << >>
  BY <1>2, <1>5, <1>8, Zenon DEF Alike, Buf
<1>12. Shown' = Followed(Followed(Shown, img), Followed(Buf(0), x))
  BY <1>8, <1>9, Zenon DEF Shown
<1>. QED
  BY <1>10, <1>11, <1>12

LEMMA ExecOut ==
  ASSUME OutOk(stdout), NEW p \in TreeProcesses,
         stdout' = Tree!Flush(Tree!Say(Tree!Discard(stdout, p), p, ImageOf(p)), p)
  PROVE  Kept /\ Alike(p) /\ Buf(p)' = << >> /\ Shown' = Followed(Shown, ImageOf(p))
<1>1. ImageOf(p) \in Seq(Line)
  BY ImageIs
<1>2. PICK gone : gone = Tree!Discard(stdout, p)
  OBVIOUS
<1>3. /\ OutOk(gone) /\ gone.terminal = stdout.terminal /\ gone.shown = stdout.shown
      /\ gone.buffer[p] = << >>
      /\ \A q \in TreeProcesses : q # p => gone.buffer[q] = stdout.buffer[q]
  BY <1>2, DiscardIs
<1>4. PICK spoke : spoke = Tree!Say(gone, p, ImageOf(p))
  OBVIOUS
<1>5. /\ OutOk(spoke) /\ spoke.terminal = gone.terminal /\ spoke.shown = gone.shown
      /\ spoke.buffer[p] = Followed(gone.buffer[p], ImageOf(p))
      /\ \A q \in TreeProcesses : q # p => spoke.buffer[q] = gone.buffer[q]
  BY <1>1, <1>3, <1>4, SayIs
<1>6. spoke.buffer[p] = ImageOf(p)
  <2>1. Followed(<< >>, ImageOf(p)) = ImageOf(p)
    BY <1>1, FollowedIs
  <2>. QED
    BY <1>3, <1>5, <2>1, Zenon
<1>7. ASSUME NEW o, o = Tree!Flush(spoke, p)
      PROVE  /\ OutOk(o) /\ o.terminal = spoke.terminal
             /\ o.shown = Followed(spoke.shown, spoke.buffer[p])
             /\ o.buffer[p] = << >>
             /\ \A q \in TreeProcesses : q # p => o.buffer[q] = spoke.buffer[q]
  BY <1>5, <1>7, FlushIs
<1>8. stdout' = Tree!Flush(spoke, p)
  BY <1>2, <1>4
<1>9. /\ OutOk(stdout') /\ stdout'.terminal = spoke.terminal
      /\ stdout'.shown = Followed(spoke.shown, spoke.buffer[p])
      /\ stdout'.buffer[p] = << >>
      /\ \A q \in TreeProcesses : q # p => stdout'.buffer[q] = spoke.buffer[q]
  BY <1>7, <1>8, Zenon
<1>10. Kept
  BY <1>3, <1>5, <1>9, Zenon DEF Kept
<1>11. Alike(p) /\ Buf(p)' = << >>
  BY <1>3, <1>5, <1>9, Zenon DEF Alike, Buf
<1>12. Shown' = Followed(Shown, ImageOf(p))
  BY <1>3, <1>5, <1>6, <1>9, Zenon DEF Shown
<1>. QED
  BY <1>10, <1>11, <1>12

LEMMA PlaceIs ==
  ASSUME NEW n \in Nat, NEW k \in Nat, k # 0
  PROVE  /\ PlaceIn(n, <<0, "waited", k>>) = 2 * k + 1
         /\ \A i : PlaceIn(n, <<k, "child", i>>) = 2 * k
         /\ \A i : PlaceIn(n, <<0, "last", i>>) = 2 * n + 2
         /\ PlaceIn(n, <<0, "image", 1>>) = 2 * n + 2
         /\ PlaceIn(n, <<k, "image", 1>>) = 2 * k
<1>1. <<0, "waited", k>>[2] = "waited" /\ <<0, "waited", k>>[3] = k
  OBVIOUS
<1>2. PlaceIn(n, <<0, "waited", k>>) = 2 * k + 1
  BY <1>1 DEF PlaceIn
<1>. QED
  BY <1>2 DEF PlaceIn

LEMMA LinesAll ==
  ASSUME NEW p \in TreeProcesses, NEW w \in {"child", "waited", "greeting", "last", "image"},
         NEW f \in Nat, NEW t \in Nat, t >= f - 1
  PROVE  \A i \in DOMAIN Tree!Lines(p, w, f, t) :
            \E n \in f .. t : Tree!Lines(p, w, f, t)[i] = <<p, w, n>>
<1>1. ASSUME NEW i \in DOMAIN Tree!Lines(p, w, f, t)
      PROVE  \E n \in f .. t : Tree!Lines(p, w, f, t)[i] = <<p, w, n>>
  <2>1. i \in 1 .. t - f + 1 /\ Tree!Lines(p, w, f, t)[i] = <<p, w, f + i - 1>>
    BY DEF Tree!Lines
  <2>2. f + i - 1 \in f .. t
    BY <2>1
  <2>. QED
    BY <2>1, <2>2
<1>. QED
  BY <1>1

LEMMA LinesSeq ==
  ASSUME NEW p \in TreeProcesses, NEW w \in {"child", "waited", "greeting", "last", "image"},
         NEW f \in Nat, NEW t \in Nat, t >= f - 1
  PROVE  Tree!Lines(p, w, f, t) \in Seq(Line)
BY LinesAre

-----------------------------------------------------------------------------
(* To a terminal, each step *)

TreeBase == TreeTypes /\ OneByOne /\ OutOk(stdout)

LEMMA ForkTerminal ==
  ASSUME TreeBase, TerminalRight, TreeTypes', Tree!Fork
  PROVE  TerminalRight'
<1>1. /\ parent = "fork" /\ index <= count /\ index \in Tree!Children
      /\ index \in TreeProcesses /\ index \in Nat
      /\ stdout' = Tree!CopyBuffer(stdout, 0, index)
      /\ parent' = IF program.greets THEN "greet" ELSE "wait"
      /\ UNCHANGED <<program, count, index, said>>
  BY IndexIs, TreeSizes DEF Tree!Fork, TreeBase
<1>2. Shown' = Shown /\ TerminalEmpty'
  BY <1>1, FlushedAlready DEF TreeBase, TerminalRight
<1>3. Now = 2 * index - 1 /\ Now' = 2 * index
  BY <1>1 DEF Now
<1>4. Now <= Now'
  BY <1>1, <1>3
<1>. QED
  BY <1>1, <1>2, <1>4, TerminalSame DEF TreeBase

LEMMA ForkFailsTerminal ==
  ASSUME TreeBase, TerminalRight, TreeTypes', Tree!ForkFails
  PROVE  TerminalRight'
<1>1. /\ parent = "fork" /\ parent' = "failed" /\ stdout' = Tree!Flush(stdout, 0)
      /\ UNCHANGED <<program, count, index, said>>
      /\ 0 \in TreeProcesses /\ index \in Nat
  BY TreeSizes, IndexIs DEF Tree!ForkFails, TreeBase
<1>2. Shown' = Shown /\ TerminalEmpty'
  BY <1>1, FlushedAlready DEF TreeBase, TerminalRight
<1>3. Now <= Now'
  BY <1>1 DEF Now
<1>. QED
  BY <1>1, <1>2, <1>3, TerminalSame DEF TreeBase

LEMMA KillTerminal ==
  ASSUME TreeBase, TerminalRight, TreeTypes', NEW k \in Tree!Children,
         stdout' \in {Tree!Discard(stdout, k), Tree!Flush(stdout, k)},
         UNCHANGED <<program, count, parent, index, said>>
  PROVE  TerminalRight'
<1>1. k \in TreeProcesses
  BY TreeSizes
<1>2. Shown' = Shown /\ TerminalEmpty'
  BY <1>1, FlushedAlready DEF TreeBase, TerminalRight
<1>3. Now' = Now /\ Now \in Int
  BY NowIs DEF Now, TreeBase
<1>4. Now <= Now'
  BY <1>3
<1>. QED
  BY <1>2, <1>4, TerminalSame DEF TreeBase

LEMMA GreetTerminal ==
  ASSUME TreeBase, TerminalRight, TreeTypes', Tree!Greet, Interactive(stdout.terminal)
  PROVE  TerminalRight'
<1> DEFINE x == << Greeting >>
<1>1. /\ parent = "greet" /\ parent' = "wait"
      /\ stdout' = Tree!SayLine(stdout, 0, x)
      /\ UNCHANGED <<program, count, index, said>>
      /\ 0 \in TreeProcesses /\ index \in Nat /\ index >= 1
  BY TreeSizes, IndexIs DEF Tree!Greet, TreeBase, Greeting
<1>2. index = 1 /\ program.greets
  <2>1. program.greets /\ index <= count /\ count \in program.counts
    BY <1>1 DEF TreeBase, OneByOne, TreeTypes
  <2>2. program.greets => program.counts = {1}
    BY TreeIs DEF TreeBase, TreeTypes
  <2>. QED
    BY <1>1, <2>1, <2>2
<1>3. /\ x \in Seq(Line) /\ DOMAIN x = {1} /\ x[1] = Greeting
      /\ \A l : Occ(x, l) = IF Greeting = l THEN 1 ELSE 0
  <2>1. Greeting \in Line
    BY LineIs, TreeSizes DEF Greeting
  <2>. QED
    BY <2>1, OccOne
<1> HIDE DEF x
<1>4. Shown' = Followed(Shown, x) /\ TerminalEmpty'
  BY <1>1, <1>3, SaidAtOnce DEF TreeBase, TerminalRight
<1>5. Now' = Now /\ Now \in Int
  BY <1>1, NowIs DEF Now, TreeBase
<1>6. Printed(x)
  <2>1. Now <= Now'
    BY <1>5
  <2>2. \A i \in DOMAIN x : x[i][2] = "greeting"
    BY <1>3 DEF Greeting
  <2>3. \A k \in Tree!Children, i \in 1 .. 3 : Occ(x, SaidBy(k, i)) = 0
    BY <1>3, SameLine DEF Greeting, SaidBy
  <2>4. \A j : Occ(x, WaitedFor(j)) = 0 /\ Occ(x, AtLast(j)) = 0
    BY <1>3, SameLine DEF Greeting, WaitedFor, AtLast
  <2>5. Occ(x, Greeting) = 1
    BY <1>3
  <2>6. One(Greeted') = 1 /\ One(Greeted) = 0
    BY <1>1, <1>2 DEF Greeted, One
  <2>7. \A k \in Tree!Children, i \in 1 .. 3 :
          One(i <= said'[k]) = One(i <= said[k]) + Occ(x, SaidBy(k, i))
    BY <1>1, <2>3 DEF One
  <2>8. \A j \in Tree!Children : One(j < index') = One(j < index) + Occ(x, WaitedFor(j))
    BY <1>1, <2>4 DEF One
  <2>9. \A i \in 1 .. program.last :
          One(parent' = "done") = One(parent = "done") + Occ(x, AtLast(i))
    BY <1>1, <2>4 DEF One
  <2>. QED
    BY <1>4, <2>1, <2>2, <2>5, <2>6, <2>7, <2>8, <2>9 DEF Printed
<1>. QED
  BY <1>1, <1>3, <1>6, TerminalMore DEF TreeBase

LEMMA WaitTerminal ==
  ASSUME TreeBase, TerminalRight, TreeTypes', Tree!Wait, Interactive(stdout.terminal)
  PROVE  TerminalRight'
<1> DEFINE x == Tree!Lines(0, "waited", index, index + program.waited - 1)
<1>1. /\ parent = "wait" /\ parent' = "fork" /\ index' = index + 1
      /\ stdout' = Tree!SayLine(stdout, 0, x)
      /\ UNCHANGED <<program, count, said>>
      /\ 0 \in TreeProcesses /\ index \in Nat /\ index >= 1 /\ program.waited \in {0, 1}
  <2>1. program.waited \in {0, 1} /\ 0 \in TreeProcesses /\ index \in Nat /\ index >= 1
    BY TreeSizes, IndexIs, TreeIs DEF TreeBase, TreeTypes
  <2>. QED
    BY <2>1 DEF Tree!Wait
<1>2. index + program.waited - 1 \in Nat /\ index + program.waited - 1 >= index - 1
  BY <1>1
<1>3. x \in Seq(Line)
  BY <1>1, <1>2, LinesSeq
<1>8. \A i \in DOMAIN x :
        \E n \in index .. index + program.waited - 1 : x[i] = <<0, "waited", n>>
  BY <1>1, <1>2, LinesAll
<1>4. ASSUME NEW q, NEW v, NEW n \in Nat
      PROVE  Occ(x, <<q, v, n>>) =
               IF 0 = q /\ "waited" = v /\ index <= n /\ n <= index + program.waited - 1
               THEN 1 ELSE 0
  BY <1>1, <1>2, LinesOcc
<1> HIDE DEF x
<1>5. Shown' = Followed(Shown, x) /\ TerminalEmpty'
  BY <1>1, <1>3, SaidAtOnce DEF TreeBase, TerminalRight
<1>6. Now = 2 * index /\ Now' = 2 * index + 1 /\ Now <= Now'
  BY <1>1 DEF Now
<1>7. Printed(x)
  <2>1. ASSUME NEW i \in DOMAIN x PROVE PlaceIn(count, x[i]) = Now'
    <3>1. x[i] = <<0, "waited", index>>
      BY <1>1, <1>8
    <3>3. index \in Nat /\ index # 0 /\ count \in Nat
      BY <1>1, NowIs DEF TreeBase
    <3>4. \A k \in Nat : k # 0 => PlaceIn(count, <<0, "waited", k>>) = 2 * k + 1
      BY <3>3, PlaceIs
    <3>2. PlaceIn(count, <<0, "waited", index>>) = 2 * index + 1
      BY <3>3, <3>4, Zenon
    <3>. QED
      BY <1>6, <3>1, <3>2
  <2>2. ASSUME NEW k \in Tree!Children, NEW i \in 1 .. 3
        PROVE  One(i <= said'[k]) = One(i <= said[k]) + Occ(x, SaidBy(k, i))
    <3>1. Occ(x, SaidBy(k, i)) = 0
      BY <1>4 DEF SaidBy
    <3>. QED
      BY <1>1, <3>1 DEF One
  <2>3. ASSUME NEW j \in Tree!Children, program.waited = 1
        PROVE  One(j < index') = One(j < index) + Occ(x, WaitedFor(j))
    <3>1. j \in Nat
      BY TreeSizes
    <3>2. Occ(x, WaitedFor(j)) = IF index <= j /\ j <= index + program.waited - 1 THEN 1 ELSE 0
      BY <1>4, <3>1 DEF WaitedFor
    <3>. QED
      BY <1>1, <2>3, <3>1, <3>2 DEF One
  <2>4. program.greets => One(Greeted') = One(Greeted) + Occ(x, Greeting)
    <3>1. Occ(x, Greeting) = 0
      BY <1>4 DEF Greeting
    <3>. QED
      BY <1>1, <3>1 DEF One, Greeted
  <2>5. ASSUME NEW i \in 1 .. program.last
        PROVE  One(parent' = "done") = One(parent = "done") + Occ(x, AtLast(i))
    <3>1. i \in Nat
      BY TreeIs DEF TreeBase, TreeTypes
    <3>2. Occ(x, AtLast(i)) = 0
      BY <1>4, <3>1 DEF AtLast
    <3>. QED
      BY <1>1, <3>2 DEF One
  <2>. QED
    BY <1>5, <1>6, <2>1, <2>2, <2>3, <2>4, <2>5 DEF Printed
<1>. QED
  BY <1>1, <1>3, <1>7, TerminalMore DEF TreeBase

LEMMA SayTerminal ==
  ASSUME TreeBase, TerminalRight, TreeTypes', NEW k \in Tree!Children, Tree!ChildSays(k),
         Interactive(stdout.terminal)
  PROVE  TerminalRight'
<1> DEFINE x == Tree!Lines(k, "child", said[k] + 1, said[k] + 1)
<1>1. /\ child[k] = "running" /\ said' = [said EXCEPT ![k] = said[k] + 1]
      /\ stdout' = Tree!SayLine(stdout, k, x)
      /\ UNCHANGED <<program, count, parent, index, child>>
      /\ k \in TreeProcesses /\ k \in Nat /\ k # 0 /\ said[k] \in 0 .. 3
  BY TreeSizes DEF Tree!ChildSays, TreeBase, TreeTypes
<1>2. k = index /\ parent \in {"greet", "wait"}
  BY <1>1, RunningIs DEF TreeBase
<1>3. x \in Seq(Line)
  <2>1. said[k] + 1 \in Nat /\ said[k] + 1 >= (said[k] + 1) - 1
    BY <1>1
  <2>. QED
    BY <1>1, <2>1, LinesSeq
<1>8. \A i \in DOMAIN x : \E n \in said[k] + 1 .. said[k] + 1 : x[i] = <<k, "child", n>>
  <2>1. said[k] + 1 \in Nat /\ said[k] + 1 >= (said[k] + 1) - 1
    BY <1>1
  <2>. QED
    BY <1>1, <2>1, LinesAll
<1>4. ASSUME NEW q, NEW v, NEW n \in Nat
      PROVE  Occ(x, <<q, v, n>>) =
               IF k = q /\ "child" = v /\ said[k] + 1 <= n /\ n <= said[k] + 1 THEN 1 ELSE 0
  <2>1. said[k] + 1 \in Nat /\ said[k] + 1 >= (said[k] + 1) - 1
    BY <1>1
  <2>. QED
    BY <1>1, <2>1, LinesOcc
<1> HIDE DEF x
<1>5. Shown' = Followed(Shown, x) /\ TerminalEmpty'
  BY <1>1, <1>3, SaidAtOnce DEF TreeBase, TerminalRight
<1>6. Now' = 2 * k /\ Now <= Now'
  BY <1>1, <1>2 DEF Now
<1>7. Printed(x)
  <2>1. ASSUME NEW i \in DOMAIN x PROVE PlaceIn(count, x[i]) = Now'
    <3>1. \A n : PlaceIn(count, <<k, "child", n>>) = 2 * k
      BY <1>1, NowIs, PlaceIs DEF TreeBase
    <3>. QED
      BY <1>6, <1>8, <3>1
  <2>2. ASSUME NEW j \in Tree!Children, NEW i \in 1 .. 3
        PROVE  One(i <= said'[j]) = One(i <= said[j]) + Occ(x, SaidBy(j, i))
    <3>1. Occ(x, SaidBy(j, i)) = IF k = j /\ i = said[k] + 1 THEN 1 ELSE 0
      BY <1>1, <1>4 DEF SaidBy
    <3>2. said'[j] = IF j = k THEN said[k] + 1 ELSE said[j]
      BY <1>1 DEF TreeBase, TreeTypes
    <3>3. said[j] \in 0 .. 3
      BY DEF TreeBase, TreeTypes
    <3>4. CASE j = k
      <4>1. said'[k] = said[k] + 1 /\ Occ(x, SaidBy(k, i)) = IF i = said[k] + 1 THEN 1 ELSE 0
        BY <3>1, <3>2, <3>4
      <4>2. One(i <= said[k] + 1) = One(i <= said[k]) + IF i = said[k] + 1 THEN 1 ELSE 0
        BY <1>1 DEF One
      <4>. QED
        BY <3>4, <4>1, <4>2
    <3>5. CASE j # k
      BY <3>1, <3>2, <3>3, <3>5 DEF One
    <3>. QED
      BY <3>4, <3>5
  <2>3. ASSUME NEW j \in Tree!Children
        PROVE  One(j < index') = One(j < index) + Occ(x, WaitedFor(j))
    <3>1. Occ(x, WaitedFor(j)) = 0
      BY <1>4, TreeSizes DEF WaitedFor
    <3>. QED
      BY <1>1, <3>1 DEF One
  <2>4. program.greets => One(Greeted') = One(Greeted) + Occ(x, Greeting)
    <3>1. Occ(x, Greeting) = 0
      BY <1>4 DEF Greeting
    <3>. QED
      BY <1>1, <3>1 DEF One, Greeted
  <2>5. ASSUME NEW i \in 1 .. program.last
        PROVE  One(parent' = "done") = One(parent = "done") + Occ(x, AtLast(i))
    <3>1. i \in Nat
      BY TreeIs DEF TreeBase, TreeTypes
    <3>2. Occ(x, AtLast(i)) = 0
      BY <1>4, <3>1 DEF AtLast
    <3>. QED
      BY <1>1, <3>2 DEF One
  <2>. QED
    BY <1>5, <1>6, <2>1, <2>2, <2>3, <2>4, <2>5 DEF Printed
<1>. QED
  BY <1>1, <1>3, <1>7, TerminalMore DEF TreeBase

\* A line that nobody asks about, in its place.
LEMMA ImagePrinted ==
  ASSUME TreeTypes, NEW p \in TreeProcesses, TerminalEmpty',
         Shown' = Followed(Shown, ImageOf(p)), UNCHANGED <<parent, index, said>>,
         Now <= Now', PlaceIn(count, <<p, "image", 1>>) = Now'
  PROVE  Printed(ImageOf(p))
<1>1. /\ DOMAIN ImageOf(p) = {1} /\ ImageOf(p)[1] = <<p, "image", 1>>
      /\ \A q, w, n : w # "image" => Occ(ImageOf(p), <<q, w, n>>) = 0
  BY ImageIs
<1>2. \A i \in DOMAIN ImageOf(p) : PlaceIn(count, ImageOf(p)[i]) = Now'
  BY <1>1
<1>3. ASSUME NEW k \in Tree!Children, NEW i \in 1 .. 3
      PROVE  One(i <= said'[k]) = One(i <= said[k]) + Occ(ImageOf(p), SaidBy(k, i))
  <2>1. Occ(ImageOf(p), SaidBy(k, i)) = 0
    BY <1>1 DEF SaidBy
  <2>. QED
    BY <2>1 DEF One
<1>4. ASSUME NEW j \in Tree!Children
      PROVE  One(j < index') = One(j < index) + Occ(ImageOf(p), WaitedFor(j))
  <2>1. Occ(ImageOf(p), WaitedFor(j)) = 0
    BY <1>1 DEF WaitedFor
  <2>. QED
    BY <2>1 DEF One
<1>5. One(Greeted') = One(Greeted) + Occ(ImageOf(p), Greeting)
  <2>1. Occ(ImageOf(p), Greeting) = 0
    BY <1>1 DEF Greeting
  <2>. QED
    BY <2>1 DEF One, Greeted
<1>6. ASSUME NEW i \in 1 .. program.last
      PROVE  One(parent' = "done") = One(parent = "done") + Occ(ImageOf(p), AtLast(i))
  <2>1. Occ(ImageOf(p), AtLast(i)) = 0
    BY <1>1 DEF AtLast
  <2>. QED
    BY <2>1 DEF One
<1>. QED
  BY <1>2, <1>3, <1>4, <1>5, <1>6 DEF Printed

LEMMA EndsTerminal ==
  ASSUME TreeBase, TerminalRight, TreeTypes', NEW k \in Tree!Children, Tree!ChildEnds(k)
  PROVE  TerminalRight'
<1>1. /\ child[k] = "running" /\ k \in TreeProcesses /\ k \in Nat /\ k # 0
      /\ UNCHANGED <<program, count, parent, index, said>>
      /\ program.ends \in {{"exit"}, {"_exit"}, {"exec", "_exit"}}
  BY TreeSizes, TreeIs DEF Tree!ChildEnds, TreeBase, TreeTypes
<1>2. PICK how \in program.ends :
        stdout' = CASE how = "exit" -> Tree!Flush(stdout, k)
                    [] how = "_exit" -> Tree!Discard(stdout, k)
                    [] how = "exec" ->
                        Tree!Flush(Tree!Say(Tree!Discard(stdout, k), k, <<<<k, "image", 1>>>>), k)
  BY DEF Tree!ChildEnds
<1>3. CASE how \in {"exit", "_exit"}
  <2>1. stdout' \in {Tree!Discard(stdout, k), Tree!Flush(stdout, k)}
    BY <1>2, <1>3
  <2>. QED
    BY <1>1, <2>1, KillTerminal
<1>4. CASE how = "exec"
  <2>1. stdout' = Tree!Flush(Tree!Say(Tree!Discard(stdout, k), k, ImageOf(k)), k)
    BY <1>2, <1>4 DEF ImageOf
  <2>2. Alike(k) /\ Buf(k)' = << >> /\ Shown' = Followed(Shown, ImageOf(k))
    BY <1>1, <2>1, ExecOut DEF TreeBase
  <2>3. TerminalEmpty'
    BY <2>2 DEF TerminalRight, TerminalEmpty, Alike
  <2>4. k = index /\ parent \in {"greet", "wait"} /\ count \in Nat
    BY <1>1, RunningIs, NowIs DEF TreeBase
  <2>5. Now = 2 * k /\ Now' = 2 * k
    BY <1>1, <2>4 DEF Now
  <2>6. PlaceIn(count, <<k, "image", 1>>) = 2 * k
    BY <1>1, <2>4, PlaceIs
  <2>7. Now <= Now'
    BY <1>1, <2>5
  <2>8. Printed(ImageOf(k))
    BY <1>1, <2>2, <2>3, <2>5, <2>6, <2>7, ImagePrinted DEF TreeBase
  <2>9. ImageOf(k) \in Seq(Line)
    BY <1>1, ImageIs
  <2>. QED
    BY <1>1, <2>8, <2>9, TerminalMore DEF TreeBase
<1>. QED
  BY <1>1, <1>2, <1>3, <1>4

LEMMA ExitTerminal ==
  ASSUME TreeBase, TerminalRight, TreeTypes', Tree!ParentExit
  PROVE  TerminalRight'
<1> DEFINE last == Tree!Lines(0, "last", 1, program.last)
<1>1. /\ parent = "fork" /\ parent' = "done" /\ index = count + 1
      /\ stdout' = Tree!Flush(Tree!SayLine(Tree!RunImage(stdout), 0, last), 0)
      /\ UNCHANGED <<program, count, index, child, said>>
      /\ count \in Nat /\ count >= 1 /\ 0 \in TreeProcesses /\ program.last \in 0 .. 2
  <2>1. index \in Nat /\ count \in Nat /\ index <= count + 1 /\ count >= 1
    BY IndexIs DEF TreeBase
  <2>2. program.last \in 0 .. 2
    BY TreeIs DEF TreeBase, TreeTypes
  <2>. QED
    BY <2>1, <2>2, TreeSizes DEF Tree!ParentExit
<1>2. last \in Seq(Line)
  <2>1. program.last \in Nat /\ program.last >= 1 - 1
    BY <1>1
  <2>2. \A t \in Nat : t >= 1 - 1 => Tree!Lines(0, "last", 1, t) \in Seq(Line)
    BY <1>1, LinesSeq
  <2>. QED
    BY <2>1, <2>2, Zenon
<1>3. \A i \in DOMAIN last : \E n \in 1 .. program.last : last[i] = <<0, "last", n>>
  BY <1>1, LinesAll
<1>4. ASSUME NEW q, NEW v, NEW n \in Nat
      PROVE  Occ(last, <<q, v, n>>) =
               IF 0 = q /\ "last" = v /\ 1 <= n /\ n <= program.last THEN 1 ELSE 0
  BY <1>1, LinesOcc
<1> HIDE DEF last
<1>5. PICK img \in {<< >>, ImageOf(0)} :
        Shown' = Followed(Followed(Shown, img), Followed(Buf(0), last))
  BY <1>1, <1>2, ExitOut DEF TreeBase
<1>6. Alike(0) /\ Buf(0)' = << >>
  BY <1>1, <1>2, ExitOut DEF TreeBase
<1>7. /\ img \in Seq(Line) /\ Shown \in Seq(Line) /\ Followed(Buf(0), last) = last
      /\ \A i \in DOMAIN img : img[i] = <<0, "image", 1>>
      /\ \A q, w, n : w # "image" => Occ(img, <<q, w, n>>) = 0
  <2>1. Followed(<< >>, last) = last
    BY <1>2, FollowedIs
  <2>2. Buf(0) = << >>
    BY <1>1 DEF TerminalRight, TerminalEmpty
  <2>3. Followed(Buf(0), last) = last
    BY <2>1, <2>2, Zenon
  <2>4. Shown \in Seq(Line)
    BY DEF TreeBase, OutOk, Shown
  <2>5. /\ ImageOf(0) \in Seq(Line) /\ DOMAIN ImageOf(0) = {1}
        /\ ImageOf(0)[1] = <<0, "image", 1>>
        /\ \A q, w, n : w # "image" => Occ(ImageOf(0), <<q, w, n>>) = 0
    BY <1>1, ImageIs
  <2>6. CASE img = << >>
    <3>1. /\ << >> \in Seq(Line) /\ \A i \in DOMAIN << >> : << >>[i] = <<0, "image", 1>>
          /\ \A q, w, n : Occ(<< >>, <<q, w, n>>) = 0
      BY NothingOcc
    <3>. QED
      BY <2>3, <2>4, <2>6, <3>1, Zenon
  <2>7. CASE img = ImageOf(0)
    BY <2>3, <2>4, <2>5, <2>7
  <2>. QED
    BY <1>5, <2>6, <2>7
<1> DEFINE x == Followed(img, last)
<1>8. x \in Seq(Line) /\ \A l : Occ(x, l) = Occ(img, l) + Occ(last, l)
  BY <1>2, <1>7, FollowedIs
<1>9. Shown' = Followed(Shown, x)
  <2>1. Shown' = Followed(Followed(Shown, img), last)
    BY <1>5, <1>7
  <2>2. Followed(Followed(Shown, img), last) = Followed(Shown, Followed(img, last))
    BY <1>2, <1>7, FollowedTwice
  <2>. QED
    BY <2>1, <2>2
<1>10. \A i \in DOMAIN x : \/ \E j \in DOMAIN img : x[i] = img[j]
                           \/ \E j \in DOMAIN last : x[i] = last[j]
  BY <1>2, <1>7, FollowedAll
<1> HIDE DEF x
<1>11. TerminalEmpty'
  BY <1>6 DEF TerminalRight, TerminalEmpty, Alike
<1>12. Now = 2 * count + 1 /\ Now' = 2 * count + 2 /\ Now <= Now'
  BY <1>1 DEF Now
<1>13. ASSUME NEW i \in DOMAIN x PROVE PlaceIn(count, x[i]) = Now'
  <2>1. /\ \A n : PlaceIn(count, <<0, "last", n>>) = 2 * count + 2
        /\ PlaceIn(count, <<0, "image", 1>>) = 2 * count + 2
    BY DEF PlaceIn
  <2>2. x[i] = <<0, "image", 1>> \/ \E n \in 1 .. program.last : x[i] = <<0, "last", n>>
    BY <1>3, <1>7, <1>10
  <2>. QED
    BY <1>12, <2>1, <2>2
<1>14. Printed(x)
  <2>1. ASSUME NEW k \in Tree!Children, NEW i \in 1 .. 3
        PROVE  One(i <= said'[k]) = One(i <= said[k]) + Occ(x, SaidBy(k, i))
    <3>1. Occ(last, SaidBy(k, i)) = 0 /\ Occ(img, SaidBy(k, i)) = 0
      BY <1>4, <1>7 DEF SaidBy
    <3>. QED
      BY <1>1, <1>8, <3>1 DEF One
  <2>2. ASSUME NEW j \in Tree!Children
        PROVE  One(j < index') = One(j < index) + Occ(x, WaitedFor(j))
    <3>1. Occ(last, WaitedFor(j)) = 0 /\ Occ(img, WaitedFor(j)) = 0
      BY <1>4, <1>7, TreeSizes DEF WaitedFor
    <3>. QED
      BY <1>1, <1>8, <3>1 DEF One
  <2>3. One(Greeted') = One(Greeted) + Occ(x, Greeting)
    <3>1. Occ(last, Greeting) = 0 /\ Occ(img, Greeting) = 0
      BY <1>4, <1>7 DEF Greeting
    <3>2. Greeted /\ Greeted'
      BY <1>1 DEF Greeted
    <3>. QED
      BY <1>1, <1>8, <3>1, <3>2 DEF One
  <2>4. ASSUME NEW i \in 1 .. program.last
        PROVE  One(parent' = "done") = One(parent = "done") + Occ(x, AtLast(i))
    <3>1. Occ(last, AtLast(i)) = 1 /\ Occ(img, AtLast(i)) = 0
      BY <1>1, <1>4, <1>7 DEF AtLast
    <3>. QED
      BY <1>1, <1>8, <3>1 DEF One
  <2>. QED
    BY <1>9, <1>11, <1>12, <1>13, <2>1, <2>2, <2>3, <2>4 DEF Printed
<1>. QED
  BY <1>1, <1>8, <1>14, TerminalMore DEF TreeBase

-----------------------------------------------------------------------------
(* To a file or a pipe, each step *)

LEMMA EndersFinite ==
  ASSUME NEW c, NEW j
  PROVE  IsFiniteSet(EndersOf(c, j)) /\ Cardinality(EndersOf(c, j)) \in Nat
<1>1. IsFiniteSet(Tree!Children)
  BY TreeSizes, FS_Interval
<1>2. EndersOf(c, j) \subseteq Tree!Children
  BY DEF EndersOf
<1>. QED
  BY <1>1, <1>2, FS_Subset, FS_CardinalityType

LEMMA BufSeq ==
  ASSUME OutOk(stdout)
  PROVE  Shown \in Seq(Line) /\ \A p \in TreeProcesses : Buf(p) \in Seq(Line)
BY DEF OutOk, Shown, Buf

LEMMA ForkFile ==
  ASSUME TreeBase, FileRight, Tree!Fork
  PROVE  FileRight'
<1>1. /\ parent = "fork" /\ index <= count /\ index \in Tree!Children
      /\ index \in TreeProcesses /\ index \in Nat
      /\ stdout' = Tree!CopyBuffer(stdout, 0, index)
      /\ parent' = IF program.greets THEN "greet" ELSE "wait"
      /\ child' = [child EXCEPT ![index] = "running"]
      /\ UNCHANGED <<program, count, index, said>>
  BY IndexIs, TreeSizes DEF Tree!Fork, TreeBase
<1>12. PICK m \in Tree!Children : m = index
  BY <1>1
<1>2. Shown' = Shown /\ Buf(m)' = Buf(0) /\ \A q \in TreeProcesses : q # m => Buf(q)' = Buf(q)
  <2>1. m \in TreeProcesses /\ stdout' = Tree!CopyBuffer(stdout, 0, m)
    BY <1>1, <1>12, TreeSizes
  <2>. QED
    BY <2>1, CopyOut DEF TreeBase, Alike
<1>3. /\ child[m] = "unborn" /\ said[m] = 0
      /\ child'[m] = "running"
      /\ \A k \in Tree!Children : k # m => child'[k] = child[k]
  BY <1>1, <1>12 DEF TreeBase, TreeTypes, OneByOne
<1>4. ~Over /\ ~Over' /\ (Exits' <=> Exits)
  BY <1>1 DEF Over, Exits
<1>5. /\ Buf(0)' = Buf(0)
      /\ \A q \in Tree!Children : q # m => Buf(q)' = Buf(q)
  BY <1>1, <1>2, <1>12, TreeSizes
<1>6. \A k \in Tree!Children : Gone(child'[k]) <=> Gone(child[k])
  BY <1>3 DEF Gone
<1>7. FileEmpty'
  BY <1>3, <1>4, <1>5 DEF FileRight, FileEmpty
<1>8. FileSaid'
  <2>1. ASSUME NEW k \in Tree!Children, NEW i \in 1 .. 3
        PROVE  /\ Occ(Shown', SaidBy(k, i)) = One(Exits' /\ Gone(child'[k]) /\ i <= said'[k])
               /\ Occ(Buf(0)', SaidBy(k, i)) = 0
    BY <1>1, <1>2, <1>4, <1>5, <1>6 DEF FileRight, FileSaid, One
  <2>2. ASSUME NEW k \in Tree!Children, NEW i \in 1 .. 3, NEW q \in Tree!Children
        PROVE  Occ(Buf(q)', SaidBy(k, i)) = One(q = k /\ child'[k] = "running" /\ i <= said'[k])
    <3>1. CASE q = m
      <4>1. Occ(Buf(q)', SaidBy(k, i)) = 0
        BY <1>2, <3>1 DEF FileRight, FileSaid
      <4>2. ~(q = k /\ i <= said'[k])
        BY <1>1, <1>3, <3>1
      <4>. QED
        BY <4>1, <4>2 DEF One
    <3>2. CASE q # m
      <4>1. Occ(Buf(q)', SaidBy(k, i)) = One(q = k /\ child[k] = "running" /\ i <= said[k])
        BY <1>5, <3>2 DEF FileRight, FileSaid
      <4>2. q = k => child'[k] = child[k]
        BY <1>3, <3>2
      <4>. QED
        BY <1>1, <4>1, <4>2 DEF One
    <3>. QED
      BY <3>1, <3>2
  <2>. QED
    BY <2>1, <2>2 DEF FileSaid, SaidBy
<1>9. FileWaited'
  <2>1. \A j : EndersOf(child', j) = EndersOf(child, j)
    BY <1>6 DEF EndersOf
  <2>2. ASSUME NEW j \in Tree!Children, program.waited = 1
        PROVE  /\ Occ(Shown', WaitedFor(j))
                    = (IF Exits' THEN Cardinality(EndersOf(child', j)) ELSE 0)
                      + One(Over' /\ j < index')
               /\ Occ(Buf(0)', WaitedFor(j)) = One(~Over' /\ j < index')
    <3>1. /\ Occ(Shown, WaitedFor(j))
               = (IF Exits THEN Cardinality(EndersOf(child, j)) ELSE 0) + One(Over /\ j < index)
          /\ Occ(Buf(0), WaitedFor(j)) = One(~Over /\ j < index)
      BY <2>2 DEF FileRight, FileWaited
    <3>. QED
      BY <1>1, <1>2, <1>4, <1>5, <2>1, <3>1 DEF One
  <2>3. ASSUME NEW j \in Tree!Children, program.waited = 1, NEW q \in Tree!Children
        PROVE  Occ(Buf(q)', WaitedFor(j)) = One(child'[q] = "running" /\ j < q)
    <3>1. CASE q = m
      <4>1. Occ(Buf(0), WaitedFor(j)) = One(~Over /\ j < index)
        BY <2>3 DEF FileRight, FileWaited
      <4>2. Occ(Buf(q)', WaitedFor(j)) = One(~Over /\ j < index)
        BY <1>2, <3>1, <4>1
      <4>. QED
        BY <1>3, <1>4, <1>12, <3>1, <4>2 DEF One
    <3>2. CASE q # m
      BY <1>3, <1>5, <2>3, <3>2 DEF FileRight, FileWaited
    <3>. QED
      BY <3>1, <3>2
  <2>. QED
    BY <1>1, <2>2, <2>3 DEF FileWaited, WaitedFor
<1>10. FileGreeted'
  <2>1. program.greets => (Greeted' <=> Greeted)
    BY <1>1 DEF Greeted
  <2>. QED
    BY <1>1, <1>2, <1>4, <1>5, <2>1 DEF FileRight, FileGreeted, One, Greeting
<1>11. FileLast'
  <2>1. ASSUME NEW i \in 1 .. program.last, NEW p \in TreeProcesses
        PROVE  Occ(Buf(p)', AtLast(i)) = 0
    <3>1. \A q \in TreeProcesses : Occ(Buf(q), AtLast(i)) = 0
      BY DEF FileRight, FileLast
    <3>2. Buf(p)' = Buf(p) \/ Buf(p)' = Buf(0)
      BY <1>2
    <3>. QED
      BY <3>1, <3>2, TreeSizes
  <2>2. \A i \in 1 .. program.last : Occ(Shown', AtLast(i)) = One(parent' = "done")
    BY <1>1, <1>2 DEF FileRight, FileLast, One
  <2>. QED
    BY <1>1, <2>1, <2>2 DEF FileLast, AtLast
<1>. QED
  BY <1>7, <1>8, <1>9, <1>10, <1>11 DEF FileRight

LEMMA ForkFailsFile ==
  ASSUME TreeBase, FileRight, Tree!ForkFails
  PROVE  FileRight'
<1>1. /\ parent = "fork" /\ parent' = "failed" /\ stdout' = Tree!Flush(stdout, 0)
      /\ UNCHANGED <<program, count, index, child, said>>
  BY DEF Tree!ForkFails
<1>2. Shown' = Followed(Shown, Buf(0)) /\ Buf(0)' = << >> /\ Alike(0)
  BY <1>1, FlushOut, TreeSizes DEF TreeBase
<1>3. /\ \A l : Occ(Shown', l) = Occ(Shown, l) + Occ(Buf(0), l)
      /\ \A l : Occ(Buf(0)', l) = 0
  <2>1. Shown \in Seq(Line) /\ Buf(0) \in Seq(Line)
    BY BufSeq, TreeSizes DEF TreeBase
  <2>2. \A l : Occ(Followed(Shown, Buf(0)), l) = Occ(Shown, l) + Occ(Buf(0), l)
    BY <2>1, FollowedIs
  <2>. QED
    BY <1>2, <2>2, NothingOcc
<1>4. \A q \in Tree!Children : Buf(q)' = Buf(q)
  BY <1>2, TreeSizes DEF Alike
<1>5. ~Over /\ Over' /\ (Exits' <=> Exits) /\ (Greeted' <=> Greeted)
  BY <1>1 DEF Over, Exits, Greeted
<1>6. FileEmpty'
  BY <1>1, <1>2, <1>4 DEF FileRight, FileEmpty
<1>7. FileSaid'
  <2>1. ASSUME NEW k \in Tree!Children, NEW i \in 1 .. 3
        PROVE  /\ Occ(Shown', SaidBy(k, i)) = One(Exits' /\ Gone(child'[k]) /\ i <= said'[k])
               /\ Occ(Buf(0)', SaidBy(k, i)) = 0
    BY <1>1, <1>3, <1>5 DEF FileRight, FileSaid, One
  <2>2. ASSUME NEW k \in Tree!Children, NEW i \in 1 .. 3, NEW q \in Tree!Children
        PROVE  Occ(Buf(q)', SaidBy(k, i)) = One(q = k /\ child'[k] = "running" /\ i <= said'[k])
    BY <1>1, <1>4 DEF FileRight, FileSaid
  <2>. QED
    BY <2>1, <2>2 DEF FileSaid, SaidBy
<1>8. FileWaited'
  <2>1. ASSUME NEW j \in Tree!Children, program.waited = 1
        PROVE  /\ Occ(Shown', WaitedFor(j))
                    = (IF Exits' THEN Cardinality(EndersOf(child', j)) ELSE 0)
                      + One(Over' /\ j < index')
               /\ Occ(Buf(0)', WaitedFor(j)) = One(~Over' /\ j < index')
    <3>1. /\ Occ(Shown, WaitedFor(j))
               = (IF Exits THEN Cardinality(EndersOf(child, j)) ELSE 0) + One(Over /\ j < index)
          /\ Occ(Buf(0), WaitedFor(j)) = One(~Over /\ j < index)
      BY <2>1 DEF FileRight, FileWaited
    <3>2. Cardinality(EndersOf(child, j)) \in Nat
      BY EndersFinite
    <3>. QED
      BY <1>1, <1>3, <1>5, <3>1, <3>2 DEF One
  <2>2. ASSUME NEW j \in Tree!Children, program.waited = 1, NEW q \in Tree!Children
        PROVE  Occ(Buf(q)', WaitedFor(j)) = One(child'[q] = "running" /\ j < q)
    BY <1>1, <1>4, <2>2 DEF FileRight, FileWaited
  <2>. QED
    BY <1>1, <2>1, <2>2 DEF FileWaited, WaitedFor
<1>9. FileGreeted'
  BY <1>1, <1>3, <1>5 DEF FileRight, FileGreeted, One, Greeting
<1>10. FileLast'
  <2>1. ASSUME NEW i \in 1 .. program.last, NEW p \in TreeProcesses
        PROVE  Occ(Buf(p)', AtLast(i)) = 0
    BY <1>2, <1>3 DEF FileRight, FileLast, Alike
  <2>2. ASSUME NEW i \in 1 .. program.last
        PROVE  Occ(Shown', AtLast(i)) = One(parent' = "done")
    <3>1. Occ(Shown, AtLast(i)) = 0 /\ Occ(Buf(0), AtLast(i)) = 0
      BY <1>1, TreeSizes DEF FileRight, FileLast, One
    <3>. QED
      BY <1>1, <1>3, <3>1 DEF One
  <2>. QED
    BY <1>1, <2>1, <2>2 DEF FileLast, AtLast
<1>. QED
  BY <1>6, <1>7, <1>8, <1>9, <1>10 DEF FileRight

LEMMA GreetFile ==
  ASSUME TreeBase, FileRight, Tree!Greet, ~Interactive(stdout.terminal)
  PROVE  FileRight'
<1> DEFINE x == << Greeting >>
<1>1. /\ parent = "greet" /\ parent' = "wait"
      /\ stdout' = Tree!SayLine(stdout, 0, x)
      /\ UNCHANGED <<program, count, index, child, said>>
      /\ 0 \in TreeProcesses /\ index \in Nat /\ index >= 1
  BY TreeSizes, IndexIs DEF Tree!Greet, TreeBase, Greeting
<1>2. index = 1 /\ program.greets
  <2>1. program.greets /\ index <= count /\ count \in program.counts
    BY <1>1 DEF TreeBase, OneByOne, TreeTypes
  <2>2. program.greets => program.counts = {1}
    BY TreeIs DEF TreeBase, TreeTypes
  <2>. QED
    BY <1>1, <2>1, <2>2
<1>3. x \in Seq(Line) /\ \A l : Occ(x, l) = IF Greeting = l THEN 1 ELSE 0
  <2>1. Greeting \in Line
    BY LineIs, TreeSizes DEF Greeting
  <2>. QED
    BY <2>1, OccOne
<1> HIDE DEF x
<1>4. Shown' = Shown /\ Buf(0)' = Followed(Buf(0), x) /\ Alike(0)
  BY <1>1, <1>3, SayLineOut DEF TreeBase
<1>5. \A l : Occ(Buf(0)', l) = Occ(Buf(0), l) + Occ(x, l)
  <2>1. Buf(0) \in Seq(Line)
    BY BufSeq, TreeSizes DEF TreeBase
  <2>2. \A l : Occ(Followed(Buf(0), x), l) = Occ(Buf(0), l) + Occ(x, l)
    BY <1>3, <2>1, FollowedIs
  <2>. QED
    BY <1>4, <2>2
<1>6. \A q \in Tree!Children : Buf(q)' = Buf(q)
  BY <1>4, TreeSizes DEF Alike
<1>7. ~Over /\ ~Over' /\ (Exits' <=> Exits) /\ ~Greeted /\ Greeted'
  BY <1>1, <1>2 DEF Over, Exits, Greeted
<1>8. FileEmpty'
  BY <1>1, <1>6, <1>7 DEF FileRight, FileEmpty
<1>9. FileSaid'
  <2>1. ASSUME NEW k \in Tree!Children, NEW i \in 1 .. 3
        PROVE  /\ Occ(Shown', SaidBy(k, i)) = One(Exits' /\ Gone(child'[k]) /\ i <= said'[k])
               /\ Occ(Buf(0)', SaidBy(k, i)) = 0
    <3>1. Occ(x, SaidBy(k, i)) = 0
      BY <1>3, SameLine DEF Greeting, SaidBy
    <3>. QED
      BY <1>1, <1>4, <1>5, <1>7, <3>1 DEF FileRight, FileSaid, One
  <2>2. ASSUME NEW k \in Tree!Children, NEW i \in 1 .. 3, NEW q \in Tree!Children
        PROVE  Occ(Buf(q)', SaidBy(k, i)) = One(q = k /\ child'[k] = "running" /\ i <= said'[k])
    BY <1>1, <1>6 DEF FileRight, FileSaid
  <2>. QED
    BY <2>1, <2>2 DEF FileSaid, SaidBy
<1>10. FileWaited'
  <2>1. ASSUME NEW j \in Tree!Children, program.waited = 1
        PROVE  /\ Occ(Shown', WaitedFor(j))
                    = (IF Exits' THEN Cardinality(EndersOf(child', j)) ELSE 0)
                      + One(Over' /\ j < index')
               /\ Occ(Buf(0)', WaitedFor(j)) = One(~Over' /\ j < index')
    <3>1. /\ Occ(Shown, WaitedFor(j))
               = (IF Exits THEN Cardinality(EndersOf(child, j)) ELSE 0) + One(Over /\ j < index)
          /\ Occ(Buf(0), WaitedFor(j)) = One(~Over /\ j < index)
      BY <2>1 DEF FileRight, FileWaited
    <3>2. Occ(x, WaitedFor(j)) = 0
      BY <1>3, SameLine DEF Greeting, WaitedFor
    <3>. QED
      BY <1>1, <1>4, <1>5, <1>7, <3>1, <3>2 DEF One
  <2>2. ASSUME NEW j \in Tree!Children, program.waited = 1, NEW q \in Tree!Children
        PROVE  Occ(Buf(q)', WaitedFor(j)) = One(child'[q] = "running" /\ j < q)
    BY <1>1, <1>6, <2>2 DEF FileRight, FileWaited
  <2>. QED
    BY <1>1, <2>1, <2>2 DEF FileWaited, WaitedFor
<1>11. FileGreeted'
  <2>1. Occ(x, Greeting) = 1
    BY <1>3
  <2>. QED
    BY <1>1, <1>4, <1>5, <1>7, <2>1 DEF FileRight, FileGreeted, One, Greeting
<1>12. FileLast'
  <2>1. ASSUME NEW i \in 1 .. program.last, NEW p \in TreeProcesses
        PROVE  Occ(Buf(p)', AtLast(i)) = 0
    <3>1. Occ(x, AtLast(i)) = 0
      BY <1>3, SameLine DEF Greeting, AtLast
    <3>2. \A q \in TreeProcesses : Occ(Buf(q), AtLast(i)) = 0
      BY DEF FileRight, FileLast
    <3>. QED
      BY <1>1, <1>4, <1>5, <3>1, <3>2 DEF Alike
  <2>2. \A i \in 1 .. program.last : Occ(Shown', AtLast(i)) = One(parent' = "done")
    BY <1>1, <1>4 DEF FileRight, FileLast, One
  <2>. QED
    BY <1>1, <2>1, <2>2 DEF FileLast, AtLast
<1>. QED
  BY <1>8, <1>9, <1>10, <1>11, <1>12 DEF FileRight

LEMMA WaitFile ==
  ASSUME TreeBase, FileRight, Tree!Wait, ~Interactive(stdout.terminal)
  PROVE  FileRight'
<1> DEFINE x == Tree!Lines(0, "waited", index, index + program.waited - 1)
<1>1. /\ parent = "wait" /\ parent' = "fork" /\ index' = index + 1
      /\ stdout' = Tree!SayLine(stdout, 0, x)
      /\ child[index] \in {"ended", "killed"}
      /\ child' = [child EXCEPT ![index] = IF child[index] = "ended" THEN "reaped" ELSE child[index]]
      /\ UNCHANGED <<program, count, said>>
      /\ 0 \in TreeProcesses /\ index \in Nat /\ index >= 1 /\ program.waited \in {0, 1}
  <2>1. program.waited \in {0, 1} /\ 0 \in TreeProcesses /\ index \in Nat /\ index >= 1
    BY TreeSizes, IndexIs, TreeIs DEF TreeBase, TreeTypes
  <2>. QED
    BY <2>1 DEF Tree!Wait
<1>2. index + program.waited - 1 \in Nat /\ index + program.waited - 1 >= index - 1
  BY <1>1
<1>3. x \in Seq(Line)
  BY <1>1, <1>2, LinesSeq
<1>4. ASSUME NEW q, NEW v, NEW n \in Nat
      PROVE  Occ(x, <<q, v, n>>) =
               IF 0 = q /\ "waited" = v /\ index <= n /\ n <= index + program.waited - 1
               THEN 1 ELSE 0
  BY <1>1, <1>2, LinesOcc
<1> HIDE DEF x
<1>5. Shown' = Shown /\ Buf(0)' = Followed(Buf(0), x) /\ Alike(0)
  BY <1>1, <1>3, SayLineOut DEF TreeBase
<1>6. \A l : Occ(Buf(0)', l) = Occ(Buf(0), l) + Occ(x, l)
  <2>1. Buf(0) \in Seq(Line)
    BY BufSeq, TreeSizes DEF TreeBase
  <2>2. \A l : Occ(Followed(Buf(0), x), l) = Occ(Buf(0), l) + Occ(x, l)
    BY <1>3, <2>1, FollowedIs
  <2>. QED
    BY <1>5, <2>2
<1>7. \A q \in Tree!Children : Buf(q)' = Buf(q)
  BY <1>5, TreeSizes DEF Alike
<1>8. ~Over /\ ~Over' /\ (Exits' <=> Exits) /\ Greeted /\ Greeted'
  BY <1>1 DEF Over, Exits, Greeted
<1>9. \A k \in Tree!Children : /\ Gone(child'[k]) <=> Gone(child[k])
                               /\ child'[k] = "running" <=> child[k] = "running"
  <2>1. child \in [Tree!Children -> {"unborn", "running", "ended", "killed", "reaped"}]
    BY DEF TreeBase, TreeTypes
  <2>. QED
    BY <1>1, <2>1 DEF Gone
<1>10. \A j : EndersOf(child', j) = EndersOf(child, j)
  BY <1>9 DEF EndersOf
<1>11. FileEmpty'
  BY <1>7, <1>8, <1>9 DEF FileRight, FileEmpty
<1>12. FileSaid'
  <2>1. ASSUME NEW k \in Tree!Children, NEW i \in 1 .. 3
        PROVE  /\ Occ(Shown', SaidBy(k, i)) = One(Exits' /\ Gone(child'[k]) /\ i <= said'[k])
               /\ Occ(Buf(0)', SaidBy(k, i)) = 0
    <3>1. Occ(x, SaidBy(k, i)) = 0
      BY <1>4 DEF SaidBy
    <3>. QED
      BY <1>1, <1>5, <1>6, <1>8, <1>9, <3>1 DEF FileRight, FileSaid, One
  <2>2. ASSUME NEW k \in Tree!Children, NEW i \in 1 .. 3, NEW q \in Tree!Children
        PROVE  Occ(Buf(q)', SaidBy(k, i)) = One(q = k /\ child'[k] = "running" /\ i <= said'[k])
    BY <1>1, <1>7, <1>9 DEF FileRight, FileSaid, One
  <2>. QED
    BY <2>1, <2>2 DEF FileSaid, SaidBy
<1>13. FileWaited'
  <2>1. ASSUME NEW j \in Tree!Children, program.waited = 1
        PROVE  /\ Occ(Shown', WaitedFor(j))
                    = (IF Exits' THEN Cardinality(EndersOf(child', j)) ELSE 0)
                      + One(Over' /\ j < index')
               /\ Occ(Buf(0)', WaitedFor(j)) = One(~Over' /\ j < index')
    <3>1. /\ Occ(Shown, WaitedFor(j))
               = (IF Exits THEN Cardinality(EndersOf(child, j)) ELSE 0) + One(Over /\ j < index)
          /\ Occ(Buf(0), WaitedFor(j)) = One(~Over /\ j < index)
      BY <2>1 DEF FileRight, FileWaited
    <3>2. j \in Nat
      BY TreeSizes
    <3>3. Occ(x, WaitedFor(j)) = IF j = index THEN 1 ELSE 0
      <4>1. Occ(x, WaitedFor(j)) = IF index <= j /\ j <= index + program.waited - 1 THEN 1 ELSE 0
        BY <1>4, <3>2 DEF WaitedFor
      <4>. QED
        BY <1>1, <2>1, <3>2, <4>1
    <3>4. Occ(Shown', WaitedFor(j))
            = (IF Exits' THEN Cardinality(EndersOf(child', j)) ELSE 0) + One(Over' /\ j < index')
      BY <1>5, <1>8, <1>10, <3>1 DEF One
    <3>5. Occ(Buf(0)', WaitedFor(j)) = One(j < index) + IF j = index THEN 1 ELSE 0
      BY <1>6, <1>8, <3>1, <3>3 DEF One
    <3>6. One(j < index) + (IF j = index THEN 1 ELSE 0) = One(j < index')
      BY <1>1, <3>2 DEF One
    <3>. QED
      BY <1>8, <3>4, <3>5, <3>6 DEF One
  <2>2. ASSUME NEW j \in Tree!Children, program.waited = 1, NEW q \in Tree!Children
        PROVE  Occ(Buf(q)', WaitedFor(j)) = One(child'[q] = "running" /\ j < q)
    BY <1>1, <1>7, <1>9, <2>2 DEF FileRight, FileWaited, One
  <2>. QED
    BY <1>1, <2>1, <2>2 DEF FileWaited, WaitedFor
<1>14. FileGreeted'
  <2>1. Occ(x, Greeting) = 0
    BY <1>4 DEF Greeting
  <2>. QED
    BY <1>1, <1>5, <1>6, <1>8, <2>1 DEF FileRight, FileGreeted, One, Greeting
<1>15. FileLast'
  <2>1. ASSUME NEW i \in 1 .. program.last, NEW p \in TreeProcesses
        PROVE  Occ(Buf(p)', AtLast(i)) = 0
    <3>1. i \in Nat
      BY TreeIs DEF TreeBase, TreeTypes
    <3>2. Occ(x, AtLast(i)) = 0
      BY <1>4, <3>1 DEF AtLast
    <3>3. \A q \in TreeProcesses : Occ(Buf(q), AtLast(i)) = 0
      BY DEF FileRight, FileLast
    <3>. QED
      BY <1>1, <1>5, <1>6, <3>2, <3>3 DEF Alike
  <2>2. \A i \in 1 .. program.last : Occ(Shown', AtLast(i)) = One(parent' = "done")
    BY <1>1, <1>5 DEF FileRight, FileLast, One
  <2>. QED
    BY <1>1, <2>1, <2>2 DEF FileLast, AtLast
<1>. QED
  BY <1>11, <1>12, <1>13, <1>14, <1>15 DEF FileRight

LEMMA ExitFile ==
  ASSUME TreeBase, FileRight, Tree!ParentExit
  PROVE  FileRight'
<1> DEFINE last == Tree!Lines(0, "last", 1, program.last)
<1>1. /\ parent = "fork" /\ parent' = "done" /\ index = count + 1
      /\ stdout' = Tree!Flush(Tree!SayLine(Tree!RunImage(stdout), 0, last), 0)
      /\ UNCHANGED <<program, count, index, child, said>>
      /\ count \in Nat /\ count >= 1 /\ 0 \in TreeProcesses /\ program.last \in 0 .. 2
  <2>1. index \in Nat /\ count \in Nat /\ index <= count + 1 /\ count >= 1
    BY IndexIs DEF TreeBase
  <2>2. program.last \in 0 .. 2
    BY TreeIs DEF TreeBase, TreeTypes
  <2>. QED
    BY <2>1, <2>2, TreeSizes DEF Tree!ParentExit
<1>2. last \in Seq(Line)
  <2>1. program.last \in Nat /\ program.last >= 1 - 1
    BY <1>1
  <2>2. \A t \in Nat : t >= 1 - 1 => Tree!Lines(0, "last", 1, t) \in Seq(Line)
    BY <1>1, LinesSeq
  <2>. QED
    BY <2>1, <2>2, Zenon
<1>4. ASSUME NEW q, NEW v, NEW n \in Nat
      PROVE  Occ(last, <<q, v, n>>) =
               IF 0 = q /\ "last" = v /\ 1 <= n /\ n <= program.last THEN 1 ELSE 0
  BY <1>1, LinesOcc
<1> HIDE DEF last
<1>5. PICK img \in {<< >>, ImageOf(0)} :
        Shown' = Followed(Followed(Shown, img), Followed(Buf(0), last))
  BY <1>1, <1>2, ExitOut DEF TreeBase
<1>6. Alike(0) /\ Buf(0)' = << >>
  BY <1>1, <1>2, ExitOut DEF TreeBase
<1>7. img \in Seq(Line) /\ \A q, w, n : w # "image" => Occ(img, <<q, w, n>>) = 0
  <2>1. /\ ImageOf(0) \in Seq(Line)
        /\ \A q, w, n : w # "image" => Occ(ImageOf(0), <<q, w, n>>) = 0
    BY <1>1, ImageIs
  <2>2. << >> \in Seq(Line) /\ \A q, w, n : Occ(<< >>, <<q, w, n>>) = 0
    BY NothingOcc
  <2>. QED
    BY <1>5, <2>1, <2>2
<1>8. \A l : Occ(Shown', l) = (Occ(Shown, l) + Occ(img, l)) + (Occ(Buf(0), l) + Occ(last, l))
  <2>1. Shown \in Seq(Line) /\ Buf(0) \in Seq(Line)
    BY BufSeq, TreeSizes DEF TreeBase
  <2>2. /\ Followed(Shown, img) \in Seq(Line)
        /\ \A l : Occ(Followed(Shown, img), l) = Occ(Shown, l) + Occ(img, l)
    BY <1>7, <2>1, FollowedIs
  <2>3. /\ Followed(Buf(0), last) \in Seq(Line)
        /\ \A l : Occ(Followed(Buf(0), last), l) = Occ(Buf(0), l) + Occ(last, l)
    BY <1>2, <2>1, FollowedIs
  <2>4. \A l : Occ(Shown', l) = Occ(Followed(Shown, img), l) + Occ(Followed(Buf(0), last), l)
    BY <1>5, <2>2, <2>3, FollowedIs
  <2>. QED
    BY <2>2, <2>3, <2>4
<1>9. \A l : Occ(Buf(0)', l) = 0
  BY <1>6, NothingOcc
<1>10. \A q \in Tree!Children : Buf(q)' = Buf(q)
  BY <1>6, TreeSizes DEF Alike
<1>11. ~Over /\ Over' /\ (Exits' <=> Exits) /\ Greeted /\ Greeted'
  BY <1>1 DEF Over, Exits, Greeted
<1>12. FileEmpty'
  BY <1>1, <1>6, <1>10 DEF FileRight, FileEmpty
<1>13. FileSaid'
  <2>1. ASSUME NEW k \in Tree!Children, NEW i \in 1 .. 3
        PROVE  /\ Occ(Shown', SaidBy(k, i)) = One(Exits' /\ Gone(child'[k]) /\ i <= said'[k])
               /\ Occ(Buf(0)', SaidBy(k, i)) = 0
    <3>1. Occ(last, SaidBy(k, i)) = 0 /\ Occ(img, SaidBy(k, i)) = 0
      BY <1>4, <1>7 DEF SaidBy
    <3>2. /\ Occ(Shown, SaidBy(k, i)) = One(Exits /\ Gone(child[k]) /\ i <= said[k])
          /\ Occ(Buf(0), SaidBy(k, i)) = 0
      BY DEF FileRight, FileSaid
    <3>. QED
      BY <1>1, <1>8, <1>9, <1>11, <3>1, <3>2 DEF One
  <2>2. ASSUME NEW k \in Tree!Children, NEW i \in 1 .. 3, NEW q \in Tree!Children
        PROVE  Occ(Buf(q)', SaidBy(k, i)) = One(q = k /\ child'[k] = "running" /\ i <= said'[k])
    BY <1>1, <1>10 DEF FileRight, FileSaid
  <2>. QED
    BY <2>1, <2>2 DEF FileSaid, SaidBy
<1>14. FileWaited'
  <2>1. ASSUME NEW j \in Tree!Children, program.waited = 1
        PROVE  /\ Occ(Shown', WaitedFor(j))
                    = (IF Exits' THEN Cardinality(EndersOf(child', j)) ELSE 0)
                      + One(Over' /\ j < index')
               /\ Occ(Buf(0)', WaitedFor(j)) = One(~Over' /\ j < index')
    <3>1. /\ Occ(Shown, WaitedFor(j))
               = (IF Exits THEN Cardinality(EndersOf(child, j)) ELSE 0) + One(Over /\ j < index)
          /\ Occ(Buf(0), WaitedFor(j)) = One(~Over /\ j < index)
      BY <2>1 DEF FileRight, FileWaited
    <3>2. Cardinality(EndersOf(child, j)) \in Nat
      BY EndersFinite
    <3>3. Occ(last, WaitedFor(j)) = 0 /\ Occ(img, WaitedFor(j)) = 0
      BY <1>4, <1>7, TreeSizes DEF WaitedFor
    <3>. QED
      BY <1>1, <1>8, <1>9, <1>11, <3>1, <3>2, <3>3 DEF One
  <2>2. ASSUME NEW j \in Tree!Children, program.waited = 1, NEW q \in Tree!Children
        PROVE  Occ(Buf(q)', WaitedFor(j)) = One(child'[q] = "running" /\ j < q)
    BY <1>1, <1>10, <2>2 DEF FileRight, FileWaited
  <2>. QED
    BY <1>1, <2>1, <2>2 DEF FileWaited, WaitedFor
<1>15. FileGreeted'
  <2>1. Occ(last, Greeting) = 0 /\ Occ(img, Greeting) = 0
    BY <1>4, <1>7 DEF Greeting
  <2>. QED
    BY <1>1, <1>8, <1>9, <1>11, <2>1 DEF FileRight, FileGreeted, One, Greeting
<1>16. FileLast'
  <2>1. ASSUME NEW i \in 1 .. program.last, NEW p \in TreeProcesses
        PROVE  Occ(Buf(p)', AtLast(i)) = 0
    BY <1>6, <1>9 DEF FileRight, FileLast, Alike
  <2>2. ASSUME NEW i \in 1 .. program.last
        PROVE  Occ(Shown', AtLast(i)) = One(parent' = "done")
    <3>1. Occ(Shown, AtLast(i)) = 0 /\ Occ(Buf(0), AtLast(i)) = 0
      BY <1>1 DEF FileRight, FileLast, One
    <3>2. Occ(last, AtLast(i)) = 1 /\ Occ(img, AtLast(i)) = 0
      BY <1>1, <1>4, <1>7 DEF AtLast
    <3>. QED
      BY <1>1, <1>8, <3>1, <3>2 DEF One
  <2>. QED
    BY <1>1, <2>1, <2>2 DEF FileLast, AtLast
<1>. QED
  BY <1>12, <1>13, <1>14, <1>15, <1>16 DEF FileRight

LEMMA SayFile ==
  ASSUME TreeBase, FileRight, NEW k \in Tree!Children, Tree!ChildSays(k),
         ~Interactive(stdout.terminal)
  PROVE  FileRight'
<1> DEFINE x == Tree!Lines(k, "child", said[k] + 1, said[k] + 1)
<1>1. /\ child[k] = "running" /\ said' = [said EXCEPT ![k] = said[k] + 1]
      /\ stdout' = Tree!SayLine(stdout, k, x)
      /\ UNCHANGED <<program, count, parent, index, child>>
      /\ k \in TreeProcesses /\ k \in Nat /\ k # 0 /\ said[k] \in 0 .. 3
  BY TreeSizes DEF Tree!ChildSays, TreeBase, TreeTypes
<1>2. said[k] + 1 \in Nat /\ said[k] + 1 >= (said[k] + 1) - 1
  BY <1>1
<1>3. x \in Seq(Line)
  BY <1>1, <1>2, LinesSeq
<1>4. ASSUME NEW q, NEW v, NEW n \in Nat
      PROVE  Occ(x, <<q, v, n>>) =
               IF k = q /\ "child" = v /\ said[k] + 1 <= n /\ n <= said[k] + 1 THEN 1 ELSE 0
  BY <1>1, <1>2, LinesOcc
<1> HIDE DEF x
<1>5. Shown' = Shown /\ Buf(k)' = Followed(Buf(k), x) /\ Alike(k)
  BY <1>1, <1>3, SayLineOut DEF TreeBase
<1>6. \A l : Occ(Buf(k)', l) = Occ(Buf(k), l) + Occ(x, l)
  <2>1. Buf(k) \in Seq(Line)
    BY <1>1, BufSeq DEF TreeBase
  <2>2. \A l : Occ(Followed(Buf(k), x), l) = Occ(Buf(k), l) + Occ(x, l)
    BY <1>3, <2>1, FollowedIs
  <2>. QED
    BY <1>5, <2>2
<1>7. Buf(0)' = Buf(0) /\ \A q \in Tree!Children : q # k => Buf(q)' = Buf(q)
  BY <1>1, <1>5, TreeSizes DEF Alike
<1>8. (Over' <=> Over) /\ (Exits' <=> Exits) /\ (Greeted' <=> Greeted)
  BY <1>1 DEF Over, Exits, Greeted
<1>9. \A j \in Tree!Children : said'[j] = IF j = k THEN said[k] + 1 ELSE said[j]
  BY <1>1 DEF TreeBase, TreeTypes
<1>10. FileEmpty'
  BY <1>1, <1>7, <1>8 DEF FileRight, FileEmpty
<1>11. FileSaid'
  <2>1. ASSUME NEW j \in Tree!Children, NEW i \in 1 .. 3
        PROVE  /\ Occ(Shown', SaidBy(j, i)) = One(Exits' /\ Gone(child'[j]) /\ i <= said'[j])
               /\ Occ(Buf(0)', SaidBy(j, i)) = 0
    <3>1. /\ Occ(Shown, SaidBy(j, i)) = One(Exits /\ Gone(child[j]) /\ i <= said[j])
          /\ Occ(Buf(0), SaidBy(j, i)) = 0
      BY DEF FileRight, FileSaid
    <3>2. ~Gone(child[k])
      BY <1>1 DEF Gone
    <3>3. Gone(child[j]) => said'[j] = said[j]
      BY <1>9, <3>2
    <3>. QED
      BY <1>1, <1>5, <1>7, <1>8, <3>1, <3>3 DEF One
  <2>2. ASSUME NEW j \in Tree!Children, NEW i \in 1 .. 3, NEW q \in Tree!Children
        PROVE  Occ(Buf(q)', SaidBy(j, i)) = One(q = j /\ child'[j] = "running" /\ i <= said'[j])
    <3>1. Occ(Buf(q), SaidBy(j, i)) = One(q = j /\ child[j] = "running" /\ i <= said[j])
      BY DEF FileRight, FileSaid
    <3>2. Occ(x, SaidBy(j, i)) = IF k = j /\ i = said[k] + 1 THEN 1 ELSE 0
      BY <1>1, <1>4 DEF SaidBy
    <3>3. CASE q # k
      <4>1. Buf(q)' = Buf(q) /\ (q = j => said'[j] = said[j])
        BY <1>7, <1>9, <3>3
      <4>. QED
        BY <1>1, <3>1, <4>1 DEF One
    <3>4. CASE q = k /\ j # k
      BY <1>6, <3>1, <3>2, <3>4 DEF One
    <3>5. CASE q = k /\ j = k
      <4>1. Occ(Buf(k), SaidBy(k, i)) = One(i <= said[k])
        BY <1>1, <3>1, <3>5 DEF One
      <4>2. Occ(x, SaidBy(k, i)) = IF i = said[k] + 1 THEN 1 ELSE 0
        BY <3>2, <3>5
      <4>3. Occ(Buf(k)', SaidBy(k, i)) = One(i <= said[k]) + IF i = said[k] + 1 THEN 1 ELSE 0
        BY <1>6, <4>1, <4>2
      <4>4. One(i <= said[k]) + (IF i = said[k] + 1 THEN 1 ELSE 0) = One(i <= said[k] + 1)
        BY <1>1 DEF One
      <4>5. said'[k] = said[k] + 1
        BY <1>9
      <4>6. Occ(Buf(k)', SaidBy(k, i)) = One(i <= said'[k])
        BY <4>3, <4>4, <4>5, Zenon
      <4>. QED
        BY <1>1, <3>5, <4>6 DEF One
    <3>. QED
      BY <3>3, <3>4, <3>5
  <2>. QED
    BY <2>1, <2>2 DEF FileSaid, SaidBy
<1>12. FileWaited'
  <2>1. ASSUME NEW j \in Tree!Children, program.waited = 1
        PROVE  /\ Occ(Shown', WaitedFor(j))
                    = (IF Exits' THEN Cardinality(EndersOf(child', j)) ELSE 0)
                      + One(Over' /\ j < index')
               /\ Occ(Buf(0)', WaitedFor(j)) = One(~Over' /\ j < index')
    <3>1. /\ Occ(Shown, WaitedFor(j))
               = (IF Exits THEN Cardinality(EndersOf(child, j)) ELSE 0) + One(Over /\ j < index)
          /\ Occ(Buf(0), WaitedFor(j)) = One(~Over /\ j < index)
      BY <2>1 DEF FileRight, FileWaited
    <3>. QED
      BY <1>1, <1>5, <1>7, <1>8, <3>1 DEF One
  <2>2. ASSUME NEW j \in Tree!Children, program.waited = 1, NEW q \in Tree!Children
        PROVE  Occ(Buf(q)', WaitedFor(j)) = One(child'[q] = "running" /\ j < q)
    <3>1. Occ(Buf(q), WaitedFor(j)) = One(child[q] = "running" /\ j < q)
      BY <2>2 DEF FileRight, FileWaited
    <3>2. Occ(x, WaitedFor(j)) = 0
      BY <1>4, TreeSizes DEF WaitedFor
    <3>3. Occ(Buf(q)', WaitedFor(j)) = Occ(Buf(q), WaitedFor(j))
      <4>1. CASE q = k
        BY <1>6, <3>1, <3>2, <4>1 DEF One
      <4>2. CASE q # k
        BY <1>7, <4>2
      <4>. QED
        BY <4>1, <4>2
    <3>. QED
      BY <1>1, <3>1, <3>3
  <2>. QED
    BY <1>1, <2>1, <2>2 DEF FileWaited, WaitedFor
<1>13. FileGreeted'
  BY <1>1, <1>5, <1>7, <1>8 DEF FileRight, FileGreeted, One, Greeting
<1>14. FileLast'
  <2>1. ASSUME NEW i \in 1 .. program.last, NEW p \in TreeProcesses
        PROVE  Occ(Buf(p)', AtLast(i)) = 0
    <3>1. i \in Nat
      BY TreeIs DEF TreeBase, TreeTypes
    <3>2. Occ(x, AtLast(i)) = 0
      BY <1>4, <3>1 DEF AtLast
    <3>3. \A q \in TreeProcesses : Occ(Buf(q), AtLast(i)) = 0
      BY DEF FileRight, FileLast
    <3>. QED
      BY <1>1, <1>5, <1>6, <3>2, <3>3 DEF Alike
  <2>2. \A i \in 1 .. program.last : Occ(Shown', AtLast(i)) = One(parent' = "done")
    BY <1>1, <1>5 DEF FileRight, FileLast, One
  <2>. QED
    BY <1>1, <2>1, <2>2 DEF FileLast, AtLast
<1>. QED
  BY <1>10, <1>11, <1>12, <1>13, <1>14 DEF FileRight

\* A child that is killed, or ends without an exit(), takes its buffer with it.
LEMMA LostFile ==
  ASSUME TreeBase, FileRight, NEW k \in Tree!Children, child[k] = "running",
         NEW state \in {"ended", "killed"}, state = "ended" => ~Exits,
         child' = [child EXCEPT ![k] = state],
         UNCHANGED <<program, count, parent, index, said>>,
         Buf(k)' = << >>, Alike(k),
         \A q, w, n : w # "image" => Occ(Shown', <<q, w, n>>) = Occ(Shown, <<q, w, n>>)
  PROVE  FileRight'
<1>1. \A l : Occ(Buf(k)', l) = 0
  BY NothingOcc
<1>2. Buf(0)' = Buf(0) /\ \A q \in Tree!Children : q # k => Buf(q)' = Buf(q)
  BY TreeSizes DEF Alike
<1>3. (Over' <=> Over) /\ (Exits' <=> Exits) /\ (Greeted' <=> Greeted)
  BY DEF Over, Exits, Greeted
<1>4. child'[k] = state /\ \A j \in Tree!Children : j # k => child'[j] = child[j]
  BY DEF TreeBase, TreeTypes
<1>5. /\ \A j, i : Occ(Shown', SaidBy(j, i)) = Occ(Shown, SaidBy(j, i))
      /\ \A j : Occ(Shown', WaitedFor(j)) = Occ(Shown, WaitedFor(j))
      /\ Occ(Shown', Greeting) = Occ(Shown, Greeting)
      /\ \A i : Occ(Shown', AtLast(i)) = Occ(Shown, AtLast(i))
  BY DEF SaidBy, WaitedFor, Greeting, AtLast
<1>6. \A j \in Tree!Children : Exits => (Gone(child'[j]) <=> Gone(child[j]))
  BY <1>4 DEF Gone
<1>7. FileEmpty'
  BY <1>2, <1>3, <1>4 DEF FileRight, FileEmpty
<1>8. FileSaid'
  <2>1. ASSUME NEW j \in Tree!Children, NEW i \in 1 .. 3
        PROVE  /\ Occ(Shown', SaidBy(j, i)) = One(Exits' /\ Gone(child'[j]) /\ i <= said'[j])
               /\ Occ(Buf(0)', SaidBy(j, i)) = 0
    BY <1>2, <1>3, <1>5, <1>6 DEF FileRight, FileSaid, One
  <2>2. ASSUME NEW j \in Tree!Children, NEW i \in 1 .. 3, NEW q \in Tree!Children
        PROVE  Occ(Buf(q)', SaidBy(j, i)) = One(q = j /\ child'[j] = "running" /\ i <= said'[j])
    <3>1. Occ(Buf(q), SaidBy(j, i)) = One(q = j /\ child[j] = "running" /\ i <= said[j])
      BY DEF FileRight, FileSaid
    <3>2. CASE q = k
      <4>1. Occ(Buf(q)', SaidBy(j, i)) = 0
        BY <1>1, <3>2
      <4>2. ~(q = j /\ child'[j] = "running")
        BY <1>4, <3>2
      <4>. QED
        BY <4>1, <4>2 DEF One
    <3>3. CASE q # k
      <4>1. q = j => child'[j] = child[j]
        BY <1>4, <3>3
      <4>. QED
        BY <1>2, <3>1, <3>3, <4>1 DEF One
    <3>. QED
      BY <3>2, <3>3
  <2>. QED
    BY <2>1, <2>2 DEF FileSaid, SaidBy
<1>9. FileWaited'
  <2>1. ASSUME NEW j \in Tree!Children, program.waited = 1
        PROVE  /\ Occ(Shown', WaitedFor(j))
                    = (IF Exits' THEN Cardinality(EndersOf(child', j)) ELSE 0)
                      + One(Over' /\ j < index')
               /\ Occ(Buf(0)', WaitedFor(j)) = One(~Over' /\ j < index')
    <3>1. /\ Occ(Shown, WaitedFor(j))
               = (IF Exits THEN Cardinality(EndersOf(child, j)) ELSE 0) + One(Over /\ j < index)
          /\ Occ(Buf(0), WaitedFor(j)) = One(~Over /\ j < index)
      BY <2>1 DEF FileRight, FileWaited
    <3>2. Exits => EndersOf(child', j) = EndersOf(child, j)
      BY <1>6 DEF EndersOf
    <3>. QED
      BY <1>2, <1>3, <1>5, <3>1, <3>2 DEF One
  <2>2. ASSUME NEW j \in Tree!Children, program.waited = 1, NEW q \in Tree!Children
        PROVE  Occ(Buf(q)', WaitedFor(j)) = One(child'[q] = "running" /\ j < q)
    <3>1. Occ(Buf(q), WaitedFor(j)) = One(child[q] = "running" /\ j < q)
      BY <2>2 DEF FileRight, FileWaited
    <3>2. CASE q = k
      <4>1. Occ(Buf(q)', WaitedFor(j)) = 0 /\ child'[q] # "running"
        BY <1>1, <1>4, <3>2
      <4>. QED
        BY <4>1 DEF One
    <3>3. CASE q # k
      BY <1>2, <1>4, <3>1, <3>3
    <3>. QED
      BY <3>2, <3>3
  <2>. QED
    BY <2>1, <2>2 DEF FileWaited, WaitedFor
<1>10. FileGreeted'
  BY <1>2, <1>3, <1>5 DEF FileRight, FileGreeted, One, Greeting
<1>11. FileLast'
  <2>1. ASSUME NEW i \in 1 .. program.last, NEW p \in TreeProcesses
        PROVE  Occ(Buf(p)', AtLast(i)) = 0
    BY <1>1 DEF FileRight, FileLast, Alike
  <2>2. \A i \in 1 .. program.last : Occ(Shown', AtLast(i)) = One(parent' = "done")
    BY <1>5 DEF FileRight, FileLast, One
  <2>. QED
    BY <2>1, <2>2 DEF FileLast, AtLast
<1>. QED
  BY <1>7, <1>8, <1>9, <1>10, <1>11 DEF FileRight

\* A child that ends by exit() prints what it has said, and its copy of what
\* the parent had not printed before the fork().
LEMMA ExitsFile ==
  ASSUME TreeBase, FileRight, NEW k \in Tree!Children, child[k] = "running", Exits,
         child' = [child EXCEPT ![k] = "ended"],
         UNCHANGED <<program, count, parent, index, said>>,
         stdout' = Tree!Flush(stdout, k)
  PROVE  FileRight'
<1>1. k \in TreeProcesses /\ k \in Nat
  BY TreeSizes
<1>2. Shown' = Followed(Shown, Buf(k)) /\ Buf(k)' = << >> /\ Alike(k)
  BY <1>1, FlushOut DEF TreeBase
<1>3. \A l : Occ(Buf(k)', l) = 0
  BY <1>2, NothingOcc
<1>4. Buf(0)' = Buf(0) /\ \A q \in Tree!Children : q # k => Buf(q)' = Buf(q)
  BY <1>2, TreeSizes DEF Alike
<1>5. (Over' <=> Over) /\ Exits' /\ (Greeted' <=> Greeted)
  BY DEF Over, Exits, Greeted
<1>6. child'[k] = "ended" /\ \A j \in Tree!Children : j # k => child'[j] = child[j]
  BY DEF TreeBase, TreeTypes
<1>7. \A l : Occ(Shown', l) = Occ(Shown, l) + Occ(Buf(k), l)
  <2>1. Shown \in Seq(Line) /\ Buf(k) \in Seq(Line)
    BY <1>1, BufSeq DEF TreeBase
  <2>2. \A l : Occ(Followed(Shown, Buf(k)), l) = Occ(Shown, l) + Occ(Buf(k), l)
    BY <2>1, FollowedIs
  <2>. QED
    BY <1>2, <2>2
<1>8. ~Gone(child[k]) /\ Gone(child'[k])
      /\ \A j \in Tree!Children : j # k => (Gone(child'[j]) <=> Gone(child[j]))
  BY <1>6 DEF Gone
<1>9. FileEmpty'
  BY <1>2, <1>4, <1>5, <1>6 DEF FileRight, FileEmpty
<1>10. FileSaid'
  <2>1. ASSUME NEW j \in Tree!Children, NEW i \in 1 .. 3
        PROVE  /\ Occ(Shown', SaidBy(j, i)) = One(Exits' /\ Gone(child'[j]) /\ i <= said'[j])
               /\ Occ(Buf(0)', SaidBy(j, i)) = 0
    <3>1. /\ Occ(Shown, SaidBy(j, i)) = One(Exits /\ Gone(child[j]) /\ i <= said[j])
          /\ Occ(Buf(0), SaidBy(j, i)) = 0
          /\ Occ(Buf(k), SaidBy(j, i)) = One(k = j /\ child[j] = "running" /\ i <= said[j])
      BY DEF FileRight, FileSaid
    <3>2. Occ(Shown', SaidBy(j, i)) = Occ(Shown, SaidBy(j, i)) + Occ(Buf(k), SaidBy(j, i))
      BY <1>7
    <3>3. CASE j = k
      <4>1. Occ(Shown, SaidBy(j, i)) = 0 /\ Occ(Buf(k), SaidBy(j, i)) = One(i <= said[j])
        BY <1>8, <3>1, <3>3 DEF One
      <4>. QED
        BY <1>4, <1>5, <1>8, <3>1, <3>2, <3>3, <4>1 DEF One
    <3>4. CASE j # k
      <4>1. Occ(Buf(k), SaidBy(j, i)) = 0
        BY <3>1, <3>4 DEF One
      <4>. QED
        BY <1>4, <1>5, <1>8, <3>1, <3>2, <3>4, <4>1 DEF One
    <3>. QED
      BY <3>3, <3>4
  <2>2. ASSUME NEW j \in Tree!Children, NEW i \in 1 .. 3, NEW q \in Tree!Children
        PROVE  Occ(Buf(q)', SaidBy(j, i)) = One(q = j /\ child'[j] = "running" /\ i <= said'[j])
    <3>1. Occ(Buf(q), SaidBy(j, i)) = One(q = j /\ child[j] = "running" /\ i <= said[j])
      BY DEF FileRight, FileSaid
    <3>2. CASE q = k
      <4>1. Occ(Buf(q)', SaidBy(j, i)) = 0
        BY <1>3, <3>2
      <4>2. ~(q = j /\ child'[j] = "running")
        BY <1>6, <3>2
      <4>. QED
        BY <4>1, <4>2 DEF One
    <3>3. CASE q # k
      <4>1. q = j => child'[j] = child[j]
        BY <1>6, <3>3
      <4>. QED
        BY <1>4, <3>1, <3>3, <4>1 DEF One
    <3>. QED
      BY <3>2, <3>3
  <2>. QED
    BY <2>1, <2>2 DEF FileSaid, SaidBy
<1>11. FileWaited'
  <2>1. ASSUME NEW j \in Tree!Children, program.waited = 1
        PROVE  /\ Occ(Shown', WaitedFor(j))
                    = (IF Exits' THEN Cardinality(EndersOf(child', j)) ELSE 0)
                      + One(Over' /\ j < index')
               /\ Occ(Buf(0)', WaitedFor(j)) = One(~Over' /\ j < index')
    <3>1. /\ Occ(Shown, WaitedFor(j))
               = (IF Exits THEN Cardinality(EndersOf(child, j)) ELSE 0) + One(Over /\ j < index)
          /\ Occ(Buf(0), WaitedFor(j)) = One(~Over /\ j < index)
          /\ Occ(Buf(k), WaitedFor(j)) = One(child[k] = "running" /\ j < k)
      BY <2>1 DEF FileRight, FileWaited
    <3>2. j \in Nat
      BY TreeSizes
    <3>3. Cardinality(EndersOf(child', j)) = Cardinality(EndersOf(child, j)) + One(j < k)
      <4>1. IsFiniteSet(EndersOf(child, j)) /\ Cardinality(EndersOf(child, j)) \in Nat
        BY EndersFinite
      <4>2. CASE j < k
        <5>1. EndersOf(child', j) = EndersOf(child, j) \cup {k} /\ k \notin EndersOf(child, j)
          BY <1>8, <4>2 DEF EndersOf
        <5>2. Cardinality(EndersOf(child, j) \cup {k}) = Cardinality(EndersOf(child, j)) + 1
          BY <4>1, <5>1, FS_AddElement
        <5>. QED
          BY <4>2, <5>1, <5>2 DEF One
      <4>3. CASE ~(j < k)
        <5>1. EndersOf(child', j) = EndersOf(child, j)
          BY <1>8, <4>3 DEF EndersOf
        <5>. QED
          BY <4>1, <4>3, <5>1 DEF One
      <4>. QED
        BY <4>2, <4>3
    <3>4. Cardinality(EndersOf(child, j)) \in Nat
      BY EndersFinite
    <3>5. Occ(Shown', WaitedFor(j))
            = (Cardinality(EndersOf(child, j)) + One(Over /\ j < index)) + One(j < k)
      BY <1>7, <3>1 DEF One
    <3>6. Occ(Shown', WaitedFor(j))
            = (Cardinality(EndersOf(child, j)) + One(j < k)) + One(Over /\ j < index)
      BY <3>4, <3>5 DEF One
    <3>. QED
      BY <1>4, <1>5, <3>1, <3>3, <3>6 DEF One
  <2>2. ASSUME NEW j \in Tree!Children, program.waited = 1, NEW q \in Tree!Children
        PROVE  Occ(Buf(q)', WaitedFor(j)) = One(child'[q] = "running" /\ j < q)
    <3>1. Occ(Buf(q), WaitedFor(j)) = One(child[q] = "running" /\ j < q)
      BY <2>2 DEF FileRight, FileWaited
    <3>2. CASE q = k
      <4>1. Occ(Buf(q)', WaitedFor(j)) = 0 /\ child'[q] # "running"
        BY <1>3, <1>6, <3>2
      <4>. QED
        BY <4>1 DEF One
    <3>3. CASE q # k
      BY <1>4, <1>6, <3>1, <3>3
    <3>. QED
      BY <3>2, <3>3
  <2>. QED
    BY <2>1, <2>2 DEF FileWaited, WaitedFor
<1>12. FileGreeted'
  <2>1. program.greets => program.ends = {"_exit"}
    BY TreeIs DEF TreeBase, TreeTypes
  <2>2. ~program.greets
    BY <2>1 DEF Exits
  <2>. QED
    BY <2>2 DEF FileGreeted
<1>13. FileLast'
  <2>1. ASSUME NEW i \in 1 .. program.last, NEW p \in TreeProcesses
        PROVE  Occ(Buf(p)', AtLast(i)) = 0
    BY <1>2, <1>3 DEF FileRight, FileLast, Alike
  <2>2. ASSUME NEW i \in 1 .. program.last
        PROVE  Occ(Shown', AtLast(i)) = One(parent' = "done")
    <3>1. Occ(Shown, AtLast(i)) = One(parent = "done") /\ Occ(Buf(k), AtLast(i)) = 0
      BY <1>1 DEF FileRight, FileLast
    <3>. QED
      BY <1>7, <3>1 DEF One
  <2>. QED
    BY <2>1, <2>2 DEF FileLast, AtLast
<1>. QED
  BY <1>9, <1>10, <1>11, <1>12, <1>13 DEF FileRight

-----------------------------------------------------------------------------
(* Every step, wherever the output goes *)

LEMMA EndsFile ==
  ASSUME TreeBase, FileRight, NEW k \in Tree!Children, Tree!ChildEnds(k)
  PROVE  FileRight'
<1>1. /\ child[k] = "running" /\ k \in TreeProcesses
      /\ child' = [child EXCEPT ![k] = "ended"]
      /\ UNCHANGED <<program, count, parent, index, said>>
      /\ program.ends \in {{"exit"}, {"_exit"}, {"exec", "_exit"}}
  BY TreeSizes, TreeIs DEF Tree!ChildEnds, TreeBase, TreeTypes
<1>2. PICK how \in program.ends :
        stdout' = CASE how = "exit" -> Tree!Flush(stdout, k)
                    [] how = "_exit" -> Tree!Discard(stdout, k)
                    [] how = "exec" ->
                        Tree!Flush(Tree!Say(Tree!Discard(stdout, k), k, <<<<k, "image", 1>>>>), k)
  BY DEF Tree!ChildEnds
<1>3. how \in {"exit", "_exit", "exec"} /\ (how = "exit" <=> Exits)
  BY <1>1 DEF Exits
<1>4. CASE how = "exit"
  <2>1. stdout' = Tree!Flush(stdout, k) /\ Exits
    BY <1>2, <1>3, <1>4
  <2>. QED
    BY <1>1, <2>1, ExitsFile
<1>5. CASE how = "_exit"
  <2>1. stdout' = Tree!Discard(stdout, k) /\ ~Exits
    BY <1>2, <1>3, <1>5
  <2>2. Shown' = Shown /\ Buf(k)' = << >> /\ Alike(k)
    BY <1>1, <2>1, DiscardOut DEF TreeBase
  <2>3. \A q, w, n : w # "image" => Occ(Shown', <<q, w, n>>) = Occ(Shown, <<q, w, n>>)
    BY <2>2
  <2>. QED
    BY <1>1, <2>1, <2>2, <2>3, LostFile
<1>6. CASE how = "exec"
  <2>1. stdout' = Tree!Flush(Tree!Say(Tree!Discard(stdout, k), k, ImageOf(k)), k) /\ ~Exits
    BY <1>2, <1>3, <1>6 DEF ImageOf
  <2>2. Alike(k) /\ Buf(k)' = << >> /\ Shown' = Followed(Shown, ImageOf(k))
    BY <1>1, <2>1, ExecOut DEF TreeBase
  <2>3. /\ Shown \in Seq(Line) /\ ImageOf(k) \in Seq(Line)
        /\ \A q, w, n : w # "image" => Occ(ImageOf(k), <<q, w, n>>) = 0
    BY <1>1, BufSeq, ImageIs DEF TreeBase
  <2>4. \A l : Occ(Shown', l) = Occ(Shown, l) + Occ(ImageOf(k), l)
    <3>1. \A l : Occ(Followed(Shown, ImageOf(k)), l) = Occ(Shown, l) + Occ(ImageOf(k), l)
      BY <2>3, FollowedIs
    <3>. QED
      BY <2>2, <3>1
  <2>5. ASSUME NEW q, NEW w, NEW n, w # "image"
        PROVE  Occ(Shown', <<q, w, n>>) = Occ(Shown, <<q, w, n>>)
    <3>1. Occ(Shown, <<q, w, n>>) \in Nat
      BY <2>3, OccNat
    <3>. QED
      BY <2>3, <2>4, <2>5, <3>1
  <2>. QED
    BY <1>1, <2>1, <2>2, <2>5, LostFile
<1>. QED
  BY <1>3, <1>4, <1>5, <1>6

LEMMA KillFile ==
  ASSUME TreeBase, FileRight, NEW k \in Tree!Children, Tree!KillChild(k)
  PROVE  FileRight'
<1>1. /\ child[k] = "running" /\ k \in TreeProcesses
      /\ child' = [child EXCEPT ![k] = "killed"] /\ stdout' = Tree!Discard(stdout, k)
      /\ UNCHANGED <<program, count, parent, index, said>>
  BY TreeSizes DEF Tree!KillChild
<1>2. Shown' = Shown /\ Buf(k)' = << >> /\ Alike(k)
  BY <1>1, DiscardOut DEF TreeBase
<1>3. \A q, w, n : w # "image" => Occ(Shown', <<q, w, n>>) = Occ(Shown, <<q, w, n>>)
  BY <1>2
<1>. QED
  BY <1>1, <1>2, <1>3, LostFile

\* Where the output goes does not change.
LEMMA ParentOutput ==
  ASSUME TreeBase, Tree!ParentStep
  PROVE  Kept
<1>1. 0 \in TreeProcesses /\ OutOk(stdout)
  BY TreeSizes DEF TreeBase
<1>2. CASE Tree!Fork
  <2>1. index \in TreeProcesses /\ stdout' = Tree!CopyBuffer(stdout, 0, index)
    BY <1>2, IndexIs, TreeSizes DEF Tree!Fork, TreeBase
  <2>2. PICK m \in TreeProcesses : m = index
    BY <2>1
  <2>3. stdout' = Tree!CopyBuffer(stdout, 0, m)
    BY <2>1, <2>2
  <2>. QED
    BY <1>1, <2>3, CopyOut
<1>3. CASE Tree!ForkFails
  BY <1>1, <1>3, FlushOut DEF Tree!ForkFails
<1>4. CASE Tree!Greet
  <2>3. Greeting \in Line
    BY <1>1, LineIs DEF Greeting
  <2>1. << Greeting >> \in Seq(Line)
    BY <2>3
  <2>2. stdout' = Tree!SayLine(stdout, 0, << Greeting >>)
    BY <1>4 DEF Tree!Greet, Greeting
  <2>. QED
    BY <1>1, <2>1, <2>2, SayLineOut
<1>5. CASE Tree!Wait
  <2> DEFINE x == Tree!Lines(0, "waited", index, index + program.waited - 1)
  <2>1. index \in Nat /\ index >= 1 /\ program.waited \in {0, 1}
    BY IndexIs, TreeIs DEF TreeBase, TreeTypes
  <2>2. index + program.waited - 1 \in Nat /\ index + program.waited - 1 >= index - 1
    BY <2>1
  <2>3. x \in Seq(Line)
    BY <1>1, <2>1, <2>2, LinesSeq
  <2>4. stdout' = Tree!SayLine(stdout, 0, x)
    BY <1>5 DEF Tree!Wait
  <2> HIDE DEF x
  <2>. QED
    BY <1>1, <2>3, <2>4, SayLineOut
<1>6. CASE Tree!ParentExit
  <2> DEFINE x == Tree!Lines(0, "last", 1, program.last)
  <2>1. program.last \in Nat /\ program.last >= 1 - 1
    BY TreeIs DEF TreeBase, TreeTypes
  <2>2. \A t \in Nat : t >= 1 - 1 => Tree!Lines(0, "last", 1, t) \in Seq(Line)
    BY <1>1, LinesSeq
  <2>3. x \in Seq(Line)
    BY <2>1, <2>2, Zenon
  <2>4. stdout' = Tree!Flush(Tree!SayLine(Tree!RunImage(stdout), 0, x), 0)
    BY <1>6 DEF Tree!ParentExit
  <2> HIDE DEF x
  <2>. QED
    BY <1>1, <2>3, <2>4, ExitOut
<1>. QED
  BY <1>2, <1>3, <1>4, <1>5, <1>6 DEF Tree!ParentStep

LEMMA ChildOutput ==
  ASSUME TreeBase, NEW k \in Tree!Children, Tree!ChildStep(k) \/ Tree!KillChild(k)
  PROVE  Kept
<1>1. k \in TreeProcesses /\ OutOk(stdout)
  BY TreeSizes DEF TreeBase
<1>2. CASE Tree!ChildSays(k)
  <2> DEFINE x == Tree!Lines(k, "child", said[k] + 1, said[k] + 1)
  <2>1. said[k] + 1 \in Nat /\ said[k] + 1 >= (said[k] + 1) - 1
    BY DEF TreeBase, TreeTypes
  <2>2. x \in Seq(Line)
    BY <1>1, <2>1, LinesSeq
  <2>3. stdout' = Tree!SayLine(stdout, k, x)
    BY <1>2 DEF Tree!ChildSays
  <2> HIDE DEF x
  <2>. QED
    BY <1>1, <2>2, <2>3, SayLineOut
<1>3. CASE Tree!ChildEnds(k)
  <2>1. program.ends \in {{"exit"}, {"_exit"}, {"exec", "_exit"}}
    BY TreeIs DEF TreeBase, TreeTypes
  <2>2. \/ stdout' = Tree!Flush(stdout, k)
        \/ stdout' = Tree!Discard(stdout, k)
        \/ stdout' = Tree!Flush(Tree!Say(Tree!Discard(stdout, k), k, ImageOf(k)), k)
    <3>1. PICK how \in program.ends :
            stdout' = CASE how = "exit" -> Tree!Flush(stdout, k)
                        [] how = "_exit" -> Tree!Discard(stdout, k)
                        [] how = "exec" ->
                            Tree!Flush(Tree!Say(Tree!Discard(stdout, k), k,
                                                <<<<k, "image", 1>>>>), k)
      BY <1>3 DEF Tree!ChildEnds
    <3>2. how \in {"exit", "_exit", "exec"}
      BY <2>1
    <3>. QED
      BY <3>1, <3>2 DEF ImageOf
  <2>. QED
    BY <1>1, <2>2, FlushOut, DiscardOut, ExecOut
<1>4. CASE Tree!KillChild(k)
  BY <1>1, <1>4, DiscardOut DEF Tree!KillChild
<1>. QED
  BY <1>2, <1>3, <1>4 DEF Tree!ChildStep

LEMMA TreeControl ==
  ASSUME TreeBase,
         \/ Tree!ParentStep
         \/ \E k \in Tree!Children : Tree!ChildStep(k) \/ Tree!KillChild(k)
  PROVE  TreeTypes' /\ OneByOne'
<1>1. TreeTypes /\ OneByOne
  BY DEF TreeBase
<1>2. CASE Tree!Fork
  BY <1>1, <1>2, ForkControl
<1>3. CASE Tree!ForkFails \/ Tree!Greet \/ Tree!ParentExit
  <2>1. /\ UNCHANGED <<program, count, index, child, said>>
        /\ \/ parent = "fork" /\ index <= count /\ parent' = "failed"
           \/ parent = "greet" /\ parent' = "wait"
           \/ parent = "fork" /\ index > count /\ parent' = "done"
    BY <1>3 DEF Tree!ForkFails, Tree!Greet, Tree!ParentExit
  <2>. QED
    BY <1>1, <2>1, StayControl
<1>4. CASE Tree!Wait
  BY <1>1, <1>4, WaitControl
<1>5. ASSUME NEW k \in Tree!Children, Tree!ChildStep(k) \/ Tree!KillChild(k)
      PROVE  TreeTypes' /\ OneByOne'
  <2>1. /\ child[k] = "running" /\ UNCHANGED <<program, count, parent, index>>
        /\ \/ /\ said[k] < program.lines /\ UNCHANGED child
              /\ said' = [said EXCEPT ![k] = @ + 1]
           \/ /\ said[k] = program.lines /\ UNCHANGED said
              /\ child' = [child EXCEPT ![k] = "ended"]
           \/ UNCHANGED said /\ child' = [child EXCEPT ![k] = "killed"]
    BY <1>5 DEF Tree!ChildStep, Tree!ChildSays, Tree!ChildEnds, Tree!KillChild
  <2>. QED
    BY <1>1, <2>1, ChildControl
<1>. QED
  BY <1>2, <1>3, <1>4, <1>5 DEF Tree!ParentStep

LEMMA TreeSame ==
  ASSUME TreeInv, UNCHANGED <<program, count, parent, index, child, said, stdout>>
  PROVE  TreeInv'
<1>1. TreeTypes' /\ OneByOne' /\ OutOk(stdout')
  BY DEF TreeInv, TreeTypes, OneByOne
<1>2. Shown' = Shown /\ \A p : Buf(p)' = Buf(p)
  BY DEF Shown, Buf
<1>3. (Over' <=> Over) /\ (Exits' <=> Exits) /\ (Greeted' <=> Greeted) /\ Now' = Now
  BY DEF Over, Exits, Greeted, Now
<1>4. ASSUME TerminalRight PROVE TerminalRight'
  <2>1. TerminalEmpty' /\ TerminalSorted' /\ TerminalSaid'
    BY <1>2, <1>3, <1>4 DEF TerminalRight, TerminalEmpty, TerminalSorted, TerminalSaid, SaidBy
  <2>2. TerminalWaited' /\ TerminalGreeted' /\ TerminalLast'
    BY <1>2, <1>3, <1>4 DEF TerminalRight, TerminalWaited, TerminalGreeted, TerminalLast,
       WaitedFor, Greeting, AtLast, One
  <2>. QED
    BY <2>1, <2>2 DEF TerminalRight
<1>5. ASSUME FileRight PROVE FileRight'
  <2>1. FileEmpty' /\ FileSaid'
    BY <1>2, <1>3, <1>5 DEF FileRight, FileEmpty, FileSaid, SaidBy, One
  <2>2. FileWaited'
    BY <1>2, <1>3, <1>5 DEF FileRight, FileWaited, WaitedFor, One
  <2>3. FileGreeted' /\ FileLast'
    BY <1>2, <1>3, <1>5 DEF FileRight, FileGreeted, FileLast, Greeting, AtLast, One
  <2>. QED
    BY <2>1, <2>2, <2>3 DEF FileRight
<1>. QED
  BY <1>1, <1>4, <1>5 DEF TreeInv

LEMMA TreeStep ==
  ASSUME TreeInv, Tree!Next
  PROVE  TreeInv'
<1>1. CASE Tree!AllEnded /\ UNCHANGED Tree!vars
  BY <1>1, TreeSame DEF Tree!vars
<1>2. CASE Tree!ParentStep \/ \E k \in Tree!Children : Tree!ChildStep(k) \/ Tree!KillChild(k)
  <2>1. TreeBase
    BY DEF TreeInv, TreeBase
  <2>2. TreeTypes' /\ OneByOne'
    BY <1>2, <2>1, TreeControl
  <2>3. OutOk(stdout') /\ stdout'.terminal = stdout.terminal
    BY <1>2, <2>1, ParentOutput, ChildOutput DEF Kept
  <2>4. CASE Interactive(stdout.terminal)
    <3>1. TerminalRight
      BY <2>4 DEF TreeInv
    <3>2. ASSUME Tree!ParentStep PROVE TerminalRight'
      BY <2>1, <2>2, <2>4, <3>1, <3>2, ForkTerminal, ForkFailsTerminal, GreetTerminal,
         WaitTerminal, ExitTerminal DEF Tree!ParentStep
    <3>3. ASSUME NEW k \in Tree!Children, Tree!ChildStep(k) \/ Tree!KillChild(k)
          PROVE  TerminalRight'
      <4>1. CASE Tree!ChildSays(k)
        BY <2>1, <2>2, <2>4, <3>1, <4>1, SayTerminal
      <4>2. CASE Tree!ChildEnds(k)
        BY <2>1, <2>2, <3>1, <4>2, EndsTerminal
      <4>3. CASE Tree!KillChild(k)
        <5>1. /\ stdout' \in {Tree!Discard(stdout, k), Tree!Flush(stdout, k)}
              /\ UNCHANGED <<program, count, parent, index, said>>
          BY <4>3 DEF Tree!KillChild
        <5>. QED
          BY <2>1, <2>2, <3>1, <5>1, KillTerminal
      <4>. QED
        BY <3>3, <4>1, <4>2, <4>3 DEF Tree!ChildStep
    <3>4. TerminalRight'
      BY <1>2, <3>2, <3>3
    <3>. QED
      BY <2>2, <2>3, <2>4, <3>4, Zenon DEF TreeInv
  <2>5. CASE ~Interactive(stdout.terminal)
    <3>1. FileRight
      BY <2>5 DEF TreeInv
    <3>2. ASSUME Tree!ParentStep PROVE FileRight'
      BY <2>1, <2>5, <3>1, <3>2, ForkFile, ForkFailsFile, GreetFile, WaitFile, ExitFile
         DEF Tree!ParentStep
    <3>3. ASSUME NEW k \in Tree!Children, Tree!ChildStep(k) \/ Tree!KillChild(k)
          PROVE  FileRight'
      BY <2>1, <2>5, <3>1, <3>3, SayFile, EndsFile, KillFile DEF Tree!ChildStep
    <3>4. FileRight'
      BY <1>2, <3>2, <3>3
    <3>. QED
      BY <2>2, <2>3, <2>5, <3>4, Zenon DEF TreeInv
  <2>. QED
    BY <2>4, <2>5
<1>. QED
  BY <1>1, <1>2 DEF Tree!Next

LEMMA TreeInit ==
  ASSUME Tree!Init
  PROVE  TreeInv
<1>1. /\ program \in Tree!Trees /\ count \in program.counts /\ count \in 1 .. MaxCount
      /\ parent = "fork" /\ index = 1
      /\ child = [k \in Tree!Children |-> "unborn"] /\ said = [k \in Tree!Children |-> 0]
      /\ program.lines \in 1 .. 3
  BY TreeIs, TreeSizes DEF Tree!Init
<1>2. PICK t \in BOOLEAN : stdout = Tree!Stdout(0 .. MaxCount, t)
  BY DEF Tree!Init
<1>3. /\ stdout.terminal \in BOOLEAN /\ stdout.shown = << >>
      /\ stdout.buffer = [p \in TreeProcesses |-> << >>]
      /\ stdout = TOut(stdout.terminal, stdout.buffer, stdout.shown)
  BY <1>2 DEF Tree!Stdout, TOut, TreeProcesses
<1>4. OutOk(stdout) /\ Shown = << >> /\ \A p \in TreeProcesses : Buf(p) = << >>
  BY <1>3, NothingOcc DEF OutOk, Shown, Buf
<1>5. \A l : Occ(Shown, l) = 0 /\ \A p \in TreeProcesses : Occ(Buf(p), l) = 0
  BY <1>4, NothingOcc
<1>6. TreeTypes
  BY <1>1, TreeSizes DEF TreeTypes
<1>7. \A k \in Tree!Children : child[k] = "unborn" /\ said[k] = 0 /\ k >= 1
  BY <1>1, TreeSizes
<1>8. OneByOne
  BY <1>1, <1>7, TreeSizes DEF OneByOne, Gone
<1>9. ~Over /\ ~Greeted /\ parent # "done"
  BY <1>1 DEF Over, Greeted
<1>10. \A j : EndersOf(child, j) = {}
  BY <1>7 DEF EndersOf, Gone
<1>11. \A j : Cardinality(EndersOf(child, j)) = 0
  BY <1>10, FS_EmptySet
<1>12. Sorted(count, Shown, Now)
  BY <1>4 DEF Sorted
<1>13. \A j \in Tree!Children : ~(j < index)
  BY <1>1, TreeSizes
<1>14. \A k \in Tree!Children, i \in 1 .. 3 : ~(i <= said[k])
  BY <1>7
<1>15. TerminalRight
  <2>1. TerminalEmpty /\ TerminalSorted /\ TerminalSaid
    BY <1>4, <1>5, <1>12, <1>14 DEF TerminalEmpty, TerminalSorted, TerminalSaid, One
  <2>2. TerminalWaited /\ TerminalGreeted /\ TerminalLast
    BY <1>5, <1>9, <1>13 DEF TerminalWaited, TerminalGreeted, TerminalLast, One
  <2>. QED
    BY <2>1, <2>2 DEF TerminalRight
<1>16. FileRight
  <2>1. FileEmpty /\ FileSaid
    BY <1>4, <1>5, <1>9, <1>14, TreeSizes DEF FileEmpty, FileSaid, One
  <2>2. FileWaited
    BY <1>5, <1>7, <1>9, <1>11, <1>13, TreeSizes DEF FileWaited, One
  <2>3. FileGreeted /\ FileLast
    BY <1>5, <1>9, TreeSizes DEF FileGreeted, FileLast, One
  <2>. QED
    BY <2>1, <2>2, <2>3 DEF FileRight
<1>. QED
  BY <1>4, <1>6, <1>8, <1>15, <1>16 DEF TreeInv

LEMMA AllLinesAre ==
  ASSUME TreeTypes, NEW line \in Tree!AllLines
  PROVE  \/ \E k \in 1 .. count, i \in 1 .. program.lines : line = SaidBy(k, i)
         \/ program.waited = 1 /\ \E j \in 1 .. count : line = WaitedFor(j)
         \/ program.greets /\ line = Greeting
         \/ \E i \in 1 .. program.last : line = AtLast(i)
<1>1. /\ count \in Nat /\ count >= 1 /\ 0 \in TreeProcesses
      /\ program.lines \in 1 .. 3 /\ program.last \in 0 .. 2 /\ program.waited \in {0, 1}
      /\ \A k \in 1 .. count : k \in TreeProcesses
  BY IndexIs, TreeSizes, TreeIs DEF TreeTypes
<1>2. ASSUME NEW k \in 1 .. count, line \in Tree!Range(Tree!Lines(k, "child", 1, program.lines))
      PROVE  \E i \in 1 .. program.lines : line = SaidBy(k, i)
  <2>1. k \in TreeProcesses
    BY <1>1
  <2>2. \A i \in DOMAIN Tree!Lines(k, "child", 1, program.lines) :
          \E n \in 1 .. program.lines :
            Tree!Lines(k, "child", 1, program.lines)[i] = <<k, "child", n>>
    BY <1>1, <2>1, LinesAll
  <2>. QED
    BY <1>2, <2>2 DEF Tree!Range, SaidBy
<1>3. ASSUME line \in Tree!Range(Tree!Lines(0, "waited", 1, count))
      PROVE  \E j \in 1 .. count : line = WaitedFor(j)
  <2>1. \A i \in DOMAIN Tree!Lines(0, "waited", 1, count) :
          \E n \in 1 .. count : Tree!Lines(0, "waited", 1, count)[i] = <<0, "waited", n>>
    BY <1>1, LinesAll
  <2>. QED
    BY <1>3, <2>1 DEF Tree!Range, WaitedFor
<1>4. ASSUME line \in Tree!Range(Tree!Lines(0, "last", 1, program.last))
      PROVE  \E i \in 1 .. program.last : line = AtLast(i)
  <2>1. \A i \in DOMAIN Tree!Lines(0, "last", 1, program.last) :
          \E n \in 1 .. program.last :
            Tree!Lines(0, "last", 1, program.last)[i] = <<0, "last", n>>
    <3>1. program.last \in Nat /\ program.last >= 1 - 1
      BY <1>1
    <3>2. \A t \in Nat : t >= 1 - 1 =>
            \A i \in DOMAIN Tree!Lines(0, "last", 1, t) :
              \E n \in 1 .. t : Tree!Lines(0, "last", 1, t)[i] = <<0, "last", n>>
      BY <1>1, LinesAll
    <3>. QED
      BY <3>1, <3>2, Zenon
  <2>. QED
    BY <1>4, <2>1 DEF Tree!Range, AtLast
<1>5. \/ \E k \in 1 .. count : line \in Tree!Range(Tree!Lines(k, "child", 1, program.lines))
      \/ program.waited = 1 /\ line \in Tree!Range(Tree!Lines(0, "waited", 1, count))
      \/ program.greets /\ line = Greeting
      \/ line \in Tree!Range(Tree!Lines(0, "last", 1, program.last))
  <2> DEFINE Told == UNION {Tree!Range(Tree!Lines(k, "child", 1, program.lines)) : k \in 1 .. count}
             Waits == IF program.waited = 1 THEN Tree!Range(Tree!Lines(0, "waited", 1, count)) ELSE {}
             Greets == IF program.greets THEN {<<0, "greeting", 1>>} ELSE {}
             Ends == Tree!Range(Tree!Lines(0, "last", 1, program.last))
  <2>1. line \in Told \/ line \in Waits \/ line \in Greets \/ line \in Ends
    BY Zenon DEF Tree!AllLines
  <2>2. line \in Told => \E k \in 1 .. count : line \in Tree!Range(Tree!Lines(k, "child", 1, program.lines))
    BY Zenon
  <2>3. line \in Waits =>
          program.waited = 1 /\ line \in Tree!Range(Tree!Lines(0, "waited", 1, count))
    BY Zenon
  <2>4. line \in Greets => program.greets /\ line = Greeting
    BY Zenon DEF Greeting
  <2>. QED
    BY <2>1, <2>2, <2>3, <2>4, Zenon
<1>. QED
  BY <1>2, <1>3, <1>4, <1>5

\* Who has ended by exit() behind child j.
LEMMA EndersAre ==
  ASSUME TreeTypes, OneByOne, NEW j \in 1 .. count
  PROVE  /\ Cardinality(EndersOf(child, j)) \in Nat
         /\ Cardinality(EndersOf(child, j)) <= count - j
         /\ parent = "done" /\ (\A k \in Tree!Children : child[k] # "killed") =>
              Cardinality(EndersOf(child, j)) = count - j
<1>1. /\ count \in Nat /\ j \in Nat /\ j <= count /\ index \in Nat /\ index <= count + 1
      /\ \A k \in 1 .. count : k \in Tree!Children
      /\ \A k \in Tree!Children : k \in Nat /\ k >= 1
  BY IndexIs, TreeSizes
<1>2. IsFiniteSet(j + 1 .. count) /\ Cardinality(j + 1 .. count) = count - j
  <2>1. j + 1 \in Int /\ count \in Int
    BY <1>1
  <2>2. IsFiniteSet(j + 1 .. count)
        /\ Cardinality(j + 1 .. count) = IF j + 1 > count THEN 0 ELSE count - (j + 1) + 1
    BY <2>1, FS_Interval
  <2>. QED
    BY <1>1, <2>2
<1>3. EndersOf(child, j) \subseteq j + 1 .. count
  <2>1. ASSUME NEW k \in EndersOf(child, j) PROVE k \in j + 1 .. count
    <3>1. k \in Tree!Children /\ j < k /\ child[k] \in {"ended", "reaped"}
      BY DEF EndersOf, Gone
    <3>2. ~(k > index) /\ (k = index => parent \in {"greet", "wait"})
      BY <3>1 DEF OneByOne
    <3>3. parent \in {"greet", "wait"} => index <= count
      BY DEF OneByOne
    <3>. QED
      BY <1>1, <3>1, <3>2, <3>3
  <2>. QED
    BY <2>1
<1>4. Cardinality(EndersOf(child, j)) \in Nat /\ Cardinality(EndersOf(child, j)) <= count - j
  BY <1>2, <1>3, FS_Subset, EndersFinite
<1>5. ASSUME parent = "done", \A k \in Tree!Children : child[k] # "killed"
      PROVE  EndersOf(child, j) = j + 1 .. count
  <2>1. index = count + 1
    BY <1>5 DEF OneByOne
  <2>2. ASSUME NEW k \in j + 1 .. count PROVE k \in EndersOf(child, j)
    <3>1. k \in Tree!Children /\ k < index /\ j < k
      BY <1>1, <2>1
    <3>2. child[k] = "reaped"
      BY <1>5, <3>1 DEF OneByOne
    <3>. QED
      BY <3>1, <3>2 DEF EndersOf, Gone
  <2>. QED
    BY <1>3, <2>2
<1>. QED
  BY <1>2, <1>4, <1>5

LEMMA LineRight ==
  ASSUME TreeInv, NEW line \in Tree!AllLines
  PROVE  /\ Occ(Shown, line) <= Tree!Expected(line)
         /\ parent = "done" /\ (\A k \in Tree!Children : child[k] # "killed") =>
              Occ(Shown, line) = Tree!Expected(line)
<1> DEFINE Last == parent = "done" /\ \A k \in Tree!Children : child[k] # "killed"
<1>1. /\ TreeTypes /\ OneByOne /\ count \in Nat /\ index \in Nat
      /\ \A k \in 1 .. count : k \in Tree!Children
      /\ program.lines \in 1 .. 3
      /\ Interactive(stdout.terminal) => TerminalRight
      /\ ~Interactive(stdout.terminal) => FileRight
  BY IndexIs, TreeIs DEF TreeInv, TreeTypes
<1>2. Last => /\ index = count + 1 /\ Over /\ Greeted
              /\ \A k \in 1 .. count : child[k] = "reaped" /\ said[k] = program.lines
  <2>1. ASSUME Last PROVE index = count + 1
    BY <1>1, <2>1 DEF OneByOne
  <2>2. ASSUME Last, NEW k \in 1 .. count
        PROVE  child[k] = "reaped" /\ said[k] = program.lines
    <3>1. k \in Tree!Children /\ k < index
      BY <1>1, <2>1, <2>2
    <3>. QED
      BY <1>1, <2>2, <3>1 DEF OneByOne, Gone
  <2>3. ASSUME Last PROVE Over /\ Greeted
    <3>1. count >= 1
      BY <1>1, IndexIs
    <3>. QED
      BY <1>1, <2>1, <2>3, <3>1 DEF Over, Greeted
  <2>. QED
    BY <2>1, <2>2, <2>3
<1> HIDE DEF Last
<1>3. ASSUME NEW k \in 1 .. count, NEW i \in 1 .. program.lines, line = SaidBy(k, i)
      PROVE  Occ(Shown, line) <= Tree!Expected(line) /\ (Last => Occ(Shown, line) = Tree!Expected(line))
  <2>1. k \in Tree!Children /\ i \in 1 .. 3 /\ said[k] \in 0 .. 3
    BY <1>1 DEF TreeTypes
  <2>2. Tree!Expected(line) = IF Interactive(stdout.terminal) \/ Exits THEN 1 ELSE 0
    BY <1>3 DEF Tree!Expected, SaidBy, Interactive, Exits
  <2>3. Last => i <= said[k] /\ Gone(child[k])
    BY <1>2 DEF Gone
  <2>4. CASE Interactive(stdout.terminal)
    <3>1. Occ(Shown, line) = One(i <= said[k])
      BY <1>1, <1>3, <2>1, <2>4 DEF TerminalRight, TerminalSaid
    <3>. QED
      BY <2>2, <2>3, <2>4, <3>1 DEF One
  <2>5. CASE ~Interactive(stdout.terminal)
    <3>1. Occ(Shown, line) = One(Exits /\ Gone(child[k]) /\ i <= said[k])
      BY <1>1, <1>3, <2>1, <2>5 DEF FileRight, FileSaid
    <3>. QED
      BY <2>2, <2>3, <2>5, <3>1 DEF One
  <2>. QED
    BY <2>4, <2>5
<1>4. ASSUME program.waited = 1, NEW j \in 1 .. count, line = WaitedFor(j)
      PROVE  Occ(Shown, line) <= Tree!Expected(line) /\ (Last => Occ(Shown, line) = Tree!Expected(line))
  <2>1. j \in Tree!Children /\ j \in Nat
    BY <1>1
  <2>2. Tree!Expected(line)
          = IF ~Interactive(stdout.terminal) /\ Exits THEN 1 + count - j ELSE 1
    BY <1>4 DEF Tree!Expected, WaitedFor, Interactive, Exits
  <2>3. Last => j < index /\ Over
    BY <1>1, <1>2
  <2>4. CASE Interactive(stdout.terminal)
    <3>1. Occ(Shown, line) = One(j < index)
      BY <1>1, <1>4, <2>1, <2>4 DEF TerminalRight, TerminalWaited
    <3>. QED
      BY <2>2, <2>3, <2>4, <3>1 DEF One
  <2>5. CASE ~Interactive(stdout.terminal)
    <3>1. Occ(Shown, line)
            = (IF Exits THEN Cardinality(EndersOf(child, j)) ELSE 0) + One(Over /\ j < index)
      BY <1>1, <1>4, <2>1, <2>5 DEF FileRight, FileWaited
    <3>2. /\ Cardinality(EndersOf(child, j)) \in Nat
          /\ Cardinality(EndersOf(child, j)) <= count - j
          /\ Last => Cardinality(EndersOf(child, j)) = count - j
      BY <1>1, EndersAre DEF Last
    <3>3. CASE Exits
      <4>1. Occ(Shown, line) = Cardinality(EndersOf(child, j)) + One(Over /\ j < index)
        BY <3>1, <3>3
      <4>2. Tree!Expected(line) = 1 + count - j
        BY <2>2, <2>5, <3>3
      <4>3. One(Over /\ j < index) \in {0, 1} /\ (Last => One(Over /\ j < index) = 1)
        BY <2>3 DEF One
      <4>. QED
        BY <1>1, <2>1, <3>2, <4>1, <4>2, <4>3
    <3>4. CASE ~Exits
      BY <2>2, <2>3, <2>5, <3>1, <3>4 DEF One
    <3>. QED
      BY <3>3, <3>4
  <2>. QED
    BY <2>4, <2>5
<1>5. ASSUME program.greets, line = Greeting
      PROVE  Occ(Shown, line) <= Tree!Expected(line) /\ (Last => Occ(Shown, line) = Tree!Expected(line))
  <2>1. Tree!Expected(line) = 1
    BY <1>5 DEF Tree!Expected, Greeting
  <2>2. CASE Interactive(stdout.terminal)
    <3>1. Occ(Shown, line) = One(Greeted)
      BY <1>1, <1>5, <2>2 DEF TerminalRight, TerminalGreeted
    <3>. QED
      BY <1>2, <2>1, <3>1 DEF One
  <2>3. CASE ~Interactive(stdout.terminal)
    <3>1. Occ(Shown, line) = One(Over /\ Greeted)
      BY <1>1, <1>5, <2>3 DEF FileRight, FileGreeted
    <3>. QED
      BY <1>2, <2>1, <3>1 DEF One
  <2>. QED
    BY <2>2, <2>3
<1>6. ASSUME NEW i \in 1 .. program.last, line = AtLast(i)
      PROVE  Occ(Shown, line) <= Tree!Expected(line) /\ (Last => Occ(Shown, line) = Tree!Expected(line))
  <2>1. Tree!Expected(line) = 1
    BY <1>6 DEF Tree!Expected, AtLast
  <2>2. Occ(Shown, line) = One(parent = "done")
    BY <1>1, <1>6 DEF TerminalRight, TerminalLast, FileRight, FileLast
  <2>3. Last => parent = "done"
    BY DEF Last
  <2>. QED
    BY <2>1, <2>2, <2>3 DEF One
<1>7. Occ(Shown, line) <= Tree!Expected(line) /\ (Last => Occ(Shown, line) = Tree!Expected(line))
  BY <1>1, <1>3, <1>4, <1>5, <1>6, AllLinesAre
<1>. QED
  BY <1>7 DEF Last

LEMMA TreeRight ==
  ASSUME TreeInv
  PROVE  Tree!TranscriptTrue
<1>1. stdout.terminal =>
        \A i, j \in DOMAIN stdout.shown : i < j =>
          \/ "greeting" \in {stdout.shown[i][2], stdout.shown[j][2]}
          \/ Tree!Place(stdout.shown[i]) <= Tree!Place(stdout.shown[j])
  <2>1. Interactive(stdout.terminal) => Sorted(count, Shown, Now)
    BY DEF TreeInv, TerminalRight, TerminalSorted
  <2>2. \A line : PlaceIn(count, line) = Tree!Place(line)
    BY DEF PlaceIn, Tree!Place
  <2>3. Interactive(stdout.terminal) =>
          \A i, j \in DOMAIN Shown : i < j =>
            \/ "greeting" \in {Shown[i][2], Shown[j][2]}
            \/ Tree!Place(Shown[i]) <= Tree!Place(Shown[j])
    BY <2>1, <2>2 DEF Sorted
  <2>. QED
    BY <2>3, Zenon DEF Shown, Interactive
<1>2. \A line :
        Tree!Cardinality({i \in DOMAIN stdout.shown : stdout.shown[i] = line}) = Occ(Shown, line)
  <2>1. \A line : Cardinality({i \in DOMAIN stdout.shown : stdout.shown[i] = line}) = Occ(Shown, line)
    BY DEF Occ, Positions, Shown
  <2>2. \A S : Tree!Cardinality(S) = Cardinality(S)
    BY DEF Tree!Cardinality, Cardinality
  <2>. QED
    BY <2>1, <2>2, Zenon
<1>3. \A line \in Tree!AllLines :
        /\ Occ(Shown, line) <= Tree!Expected(line)
        /\ parent = "done" /\ (\A k \in Tree!Children : child[k] # "killed") =>
             Occ(Shown, line) = Tree!Expected(line)
  BY LineRight
<1>4. parent = "done" => \A k \in 1 .. count : child[k] \in {"reaped", "killed"}
  <2>1. ASSUME parent = "done", NEW k \in 1 .. count PROVE child[k] \in {"reaped", "killed"}
    <3>1. TreeTypes /\ OneByOne
      BY DEF TreeInv
    <3>2. index = count + 1 /\ k \in Tree!Children /\ count \in Nat
      BY <2>1, <3>1, IndexIs DEF OneByOne
    <3>. QED
      BY <2>1, <3>1, <3>2 DEF OneByOne
  <2>. QED
    BY <2>1
<1>5. \A line \in Tree!AllLines :
        Tree!Cardinality({i \in DOMAIN stdout.shown : stdout.shown[i] = line}) <= Tree!Expected(line)
  BY <1>2, <1>3, Zenon
<1>6. parent = "done" /\ (\A k \in Tree!Children : child[k] # "killed") =>
        \A line \in Tree!AllLines :
          Tree!Cardinality({i \in DOMAIN stdout.shown : stdout.shown[i] = line}) = Tree!Expected(line)
  BY <1>2, <1>3, Zenon
<1>. QED
  BY <1>1, <1>4, <1>5, <1>6, Zenon DEF Tree!TranscriptTrue

-----------------------------------------------------------------------------
(* All the programs that print *)

MessagesInv ==
    /\ kind = "barrier" => BarrierInv
    /\ kind = "counters" => CountersInv
    /\ kind = "exchange" => ExchangeInv
    /\ kind = "tree" => TreeInv

LEMMA MessagesInit ==
  ASSUME Init
  PROVE  MessagesInv
BY BarrierInit, CountersInit, ExchangeInit, TreeInit DEF Init, MessagesInv

LEMMA MessagesSame ==
  ASSUME MessagesInv, UNCHANGED vars
  PROVE  MessagesInv'
<1>1. UNCHANGED <<kind, program, parent, child, stdout, index, said, count>>
      /\ UNCHANGED <<writeEnd, completed>> /\ UNCHANGED <<next, wrote, bytes, parentWrites>>
      /\ UNCHANGED <<message, open, pipe, taken>>
  BY DEF vars, barrierVars, countersVars, exchangeVars
<1>2. kind = "barrier" => BarrierInv'
  BY <1>1, BarrierSame DEF MessagesInv
<1>3. kind = "counters" => CountersInv'
  BY <1>1, CountersSame DEF MessagesInv
<1>4. kind = "exchange" => ExchangeInv'
  BY <1>1, ExchangeSame DEF MessagesInv
<1>5. kind = "tree" => TreeInv'
  BY <1>1, TreeSame DEF MessagesInv
<1>. QED
  BY <1>1, <1>2, <1>3, <1>4, <1>5 DEF MessagesInv

LEMMA MessagesStep ==
  ASSUME MessagesInv, [Next]_vars
  PROVE  MessagesInv'
<1>1. CASE UNCHANGED vars
  BY <1>1, MessagesSame
<1>2. CASE BarrierOnly /\ Barrier!Next
  BY <1>2, BarrierStep DEF MessagesInv, BarrierOnly, Only
<1>3. CASE CountersOnly /\ Counters!Next
  BY <1>3, CountersStep DEF MessagesInv, CountersOnly, Only
<1>4. CASE ExchangeOnly /\ Exchange!Next
  BY <1>4, ExchangeStep DEF MessagesInv, ExchangeOnly, Only
<1>5. CASE TreeOnly /\ Tree!Next
  BY <1>5, TreeStep DEF MessagesInv, TreeOnly, Only
<1>6. CASE \/ FifoOnly /\ Fifos!Next
           \/ FifoOnly /\ FifosRest
           \/ FilesOnly /\ Files!Next
           \/ FilesOnly /\ FilesRest
  BY <1>6 DEF MessagesInv, FifoOnly, FilesOnly, NoFamily, Only
<1>. QED
  BY <1>1, <1>2, <1>3, <1>4, <1>5, <1>6 DEF Next

\* MessagesTrue: the parents of synchronizationPipe.c and of
\* threeTasksSychnronizationPipes.c print nothing that is not so, and the latter
\* each message once; the children at the pipes of class6 and assignment4 print
\* what they were sent; the children of class3 and assignment2 and their parents
\* print in one order, and as often as the output and the ends explain.
THEOREM MessagesTrueHolds == Spec => []MessagesTrue
<1>1. Init => MessagesInv
  BY MessagesInit
<1>2. MessagesInv /\ [Next]_vars => MessagesInv'
  BY MessagesStep
<1>3. MessagesInv => MessagesTrue
  BY BarrierRight, CountersRight, ExchangeRight, TreeRight DEF MessagesInv, MessagesTrue
<1>. QED
  BY <1>1, <1>2, <1>3, PTL DEF Spec
=============================================================================
