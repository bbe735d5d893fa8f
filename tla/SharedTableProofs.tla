-------------------------- MODULE SharedTableProofs --------------------------
(***************************************************************************)
(* Proofs about SharedTable for any number of writers and readers, lists of *)
(* any lengths, and any number of failures.                                 *)
(***************************************************************************)
EXTENDS SharedTable, FiniteSetTheorems, TLAPS

Places == {"openSem", "openShm", "size", "map", "wait", "count", "access", "post",
           "late", "ended", "dead"}
Pages == Writers \cup {None}

Types ==
    /\ program \in Programs
    /\ sem \in Nat \cup {-1}
    /\ failures \in Nat /\ failures <= MaxFailures
    /\ made \in Nat /\ name \in 0 .. made
    /\ made <= failures + (IF name = 0 THEN 0 ELSE 1)
    /\ size \in [Objects -> Nat]
    /\ count \in [Objects -> Nat]
    /\ page \in [Objects -> [PageNumbers -> Pages]]
    /\ pc \in [Processes -> Places]
    /\ object \in [Processes -> {0} \cup Objects]
    /\ mapped \in [Processes -> Nat]
    /\ todo \in [Processes -> Nat]
    /\ done \in [Processes -> Seq(Pages)]
    /\ deadInside \subseteq Processes
    /\ faulted \subseteq Processes

\* Who has no object open yet, who has not mapped it, and who has not sized it.
Opening == {"openSem", "openShm", "ended", "dead"}
Unmapped == {"openSem", "openShm", "size", "map"}
Unsized == {"openSem", "openShm", "size"}
Mapping ==
    \A p \in Processes :
        /\ pc[p] \notin Opening => object[p] \in Objects
        /\ pc[p] \in Unmapped => mapped[p] = 0
        /\ pc[p] \notin Opening \cup Unmapped => mapped[p] > 0
Sizing ==
    \A w \in Writers :
        /\ pc[w] \in Unsized => todo[w] = 0
        /\ pc[w] \notin Opening \cup Unsized => todo[w] > 0

\* Who is between sem_wait and sem_post, and who has died there.
Insiders == {p \in Processes : IsInside(p)}
Section ==
    /\ \A p \in deadInside : pc[p] = "dead"
    /\ sem = -1 => /\ deadInside = {}
                   /\ \A p \in Processes : pc[p] \in {"openSem", "ended", "dead"}
    /\ OneInside

\* n is the length of a writer that has sized object o.
LengthOf(n, o) == \E w \in Writers : Sized(w, o) /\ n = Length[w]

\* All lengths a process may find in an object, or remember, come from a writer
\* that has sized it.
Lengths ==
    /\ \A w \in Writers :
        /\ todo[w] > 0 => todo[w] = Length[w] /\ object[w] \in Objects
        /\ mapped[w] > 0 => mapped[w] = Length[w] /\ todo[w] > 0
    /\ \A o \in Objects :
        /\ size[o] = 0 \/ LengthOf(size[o], o)
        /\ count[o] = 0 \/ LengthOf(count[o], o)
        /\ (\E w \in Writers : Sized(w, o)) => size[o] > 0
    /\ \A r \in Readers :
        /\ mapped[r] = 0 \/ LengthOf(mapped[r], object[r])
        /\ pc[r] = "access" => todo[r] = 0 \/ LengthOf(todo[r], object[r])

Faults == \A p \in faulted : pc[p] = "dead" /\ TwoLengths(object[p])

IInv == Types /\ Mapping /\ Sizing /\ Section /\ Lengths /\ Faults

-----------------------------------------------------------------------------
\* A step of Next is one of the actions of a process.
Action(p) ==
    \/ OpenSem(p) \/ OpenShm(p) \/ Wait(p) \/ Access(p) \/ Fault(p)
    \/ EndAccess(p) \/ Post(p) \/ Kill(p)
    \/ p \in Writers /\ (SetSize(p) \/ MapToWrite(p) \/ WriteCount(p) \/ MapFails(p))
    \/ p \in Readers /\ (MapToRead(p) \/ ReadCount(p))

LEMMA NextIsAction == Next => \E p \in Processes : Action(p)
BY DEF Next, WriterStep, ReaderStep, Common, Action, Processes

LEMMA InitIInv == Init => IInv
<1> SUFFICES ASSUME Init PROVE IInv
  OBVIOUS
<1> USE TableAssumption DEF Init
<1>1. Types
  BY DEF Types, Places, Pages, Objects
<1>2. Mapping /\ Sizing
  BY DEF Mapping, Sizing, Opening, Unmapped, Processes
<1>3. Section
  BY DEF Section, OneInside
<1>4. Lengths
  BY DEF Lengths, Sized, Processes
<1>5. Faults
  BY DEF Faults
<1> QED
  BY <1>1, <1>2, <1>3, <1>4, <1>5 DEF IInv

-----------------------------------------------------------------------------
(* Types *)

LEMMA PageExists ==
  ASSUME Types, Mapping, Lengths, NEW p \in Processes,
         pc[p] = "access", Accessible(p)
  PROVE  NextPage(p) \in PageNumbers /\ object[p] \in Objects
<1> USE TableAssumption
<1>1. object[p] \in Objects /\ mapped[p] > 0 /\ mapped[p] \in Nat
  BY DEF Mapping, Types, Opening, Unmapped
<1>2. PICK w \in Writers : mapped[p] = Length[w]
  <2>1. CASE p \in Writers
    BY <1>1, <2>1 DEF Lengths
  <2>2. CASE p \in Readers
    BY <1>1, <2>2 DEF Lengths, LengthOf
  <2> QED
    BY <2>1, <2>2 DEF Processes
<1>3. NextPage(p) \in Nat /\ NextPage(p) >= 1
  BY DEF NextPage, Types
<1> QED
  BY <1>1, <1>2, <1>3 DEF Accessible, PageNumbers

LEMMA StepTypes ==
  ASSUME IInv, NEW p \in Processes, Action(p)
  PROVE  Types' /\ Mapping'
<1> USE TableAssumption DEF IInv, Types, Mapping, Places, Opening, Unmapped,
        shared, private, history, Move
<1>1. CASE OpenSem(p)
  BY <1>1 DEF OpenSem
<1>2. CASE OpenShm(p)
  <2>1. made' \in Nat /\ name' \in 0 .. made'
    BY <1>2 DEF OpenShm
  <2>2. made' <= failures + (IF name' = 0 THEN 0 ELSE 1)
    BY <1>2 DEF OpenShm
  <2>3. name' \in {0} \cup Objects
    BY <2>1, <2>2 DEF Objects
  <2>4. object' \in [Processes -> {0} \cup Objects]
    BY <1>2, <2>3 DEF OpenShm
  <2>5. Types'
    BY <1>2, <2>1, <2>2, <2>4 DEF OpenShm
  <2>6. pc'[p] = "map" => name' # 0
    BY <1>2 DEF OpenShm
  <2> QED
    BY <1>2, <2>3, <2>5, <2>6 DEF OpenShm
<1>3. CASE Wait(p)
  BY <1>3 DEF Wait, SemFree
<1>4. CASE Access(p)
  <2>1. NextPage(p) \in PageNumbers /\ object[p] \in Objects
    BY <1>4, PageExists DEF Access
  <2>2. page' \in [Objects -> [PageNumbers -> Pages]]
    BY <1>4, <2>1 DEF Access, Pages
  <2>3. page'[object[p]][NextPage(p)] \in Pages
    BY <2>1, <2>2
  <2>4. done' \in [Processes -> Seq(Pages)]
    BY <1>4, <2>3 DEF Access
  <2> QED
    BY <1>4, <2>2, <2>4 DEF Access
<1>5. CASE Fault(p)
  BY <1>5 DEF Fault, Die
<1>6. CASE EndAccess(p)
  BY <1>6 DEF EndAccess
<1>7. CASE Post(p)
  BY <1>7 DEF Post
<1>8. CASE Kill(p)
  BY <1>8 DEF Kill, Die
<1>9. CASE p \in Writers /\ SetSize(p)
  <2> DEFINE cut == [i \in PageNumbers |->
                       IF i <= Length[p] THEN page[object[p]][i] ELSE None]
  <2>1. object[p] \in Objects /\ Length[p] \in Nat \ {0}
    BY <1>9 DEF SetSize
  <2>2. cut \in [PageNumbers -> Pages]
    BY <2>1 DEF Pages
  <2>3. page' = [page EXCEPT ![object[p]] = cut]
    BY <1>9, <2>1 DEF SetSize
  <2>4. page' \in [Objects -> [PageNumbers -> Pages]]
    BY <2>1, <2>2, <2>3
  <2>5. size' \in [Objects -> Nat]
    BY <1>9, <2>1 DEF SetSize, Truncate
  <2> QED
    BY <1>9, <2>1, <2>4, <2>5 DEF SetSize
<1>9a. CASE p \in Writers /\ MapToWrite(p)
  <2>1. Length[p] \in Nat \ {0} /\ object[p] \in Objects
    BY <1>9a DEF MapToWrite
  <2>2. mapped' \in [Processes -> Nat] /\ pc' \in [Processes -> Places]
    BY <1>9a, <2>1 DEF MapToWrite
  <2>3. Types'
    BY <1>9a, <2>2 DEF MapToWrite
  <2> QED
    BY <1>9a, <2>1, <2>3 DEF MapToWrite
<1>10. CASE p \in Writers /\ WriteCount(p)
  BY <1>10 DEF WriteCount
<1>11. CASE p \in Writers /\ MapFails(p)
  BY <1>11 DEF MapFails
<1>12. CASE p \in Readers /\ MapToRead(p)
  BY <1>12 DEF MapToRead
<1>13. CASE p \in Readers /\ ReadCount(p)
  BY <1>13 DEF ReadCount
<1> QED
  BY <1>1, <1>2, <1>3, <1>4, <1>5, <1>6, <1>7, <1>8, <1>9, <1>9a, <1>10, <1>11,
     <1>12, <1>13 DEF Action

LEMMA StepSizing ==
  ASSUME IInv, NEW p \in Processes, Action(p)
  PROVE  Sizing'
<1> SUFFICES ASSUME NEW w \in Writers
             PROVE  /\ pc'[w] \in Unsized => todo'[w] = 0
                    /\ pc'[w] \notin Opening \cup Unsized => todo'[w] > 0
  BY DEF Sizing
<1> USE TableAssumption DEF Opening, Unsized, Move, shared, private, history
<1>0. /\ pc \in [Processes -> Places] /\ todo \in [Processes -> Nat]
      /\ w \in Processes /\ w \notin Readers
      /\ pc[w] \in Unsized => todo[w] = 0
      /\ pc[w] \notin Opening \cup Unsized => todo[w] > 0
  BY DEF IInv, Types, Sizing, Processes
<1>1. CASE OpenSem(p) \/ OpenShm(p) \/ Wait(p) \/ EndAccess(p) \/ Post(p)
  BY <1>0, <1>1 DEF OpenSem, OpenShm, Wait, EndAccess, Post
<1>2. CASE Access(p) \/ Fault(p) \/ Kill(p)
  BY <1>0, <1>2 DEF Access, Fault, Kill, Die
<1>3. CASE p \in Writers /\ (SetSize(p) \/ MapToWrite(p) \/ WriteCount(p) \/ MapFails(p))
  BY <1>0, <1>3 DEF SetSize, MapToWrite, WriteCount, MapFails
<1>4. CASE p \in Readers /\ (MapToRead(p) \/ ReadCount(p))
  BY <1>0, <1>4 DEF MapToRead, ReadCount
<1> QED
  BY <1>1, <1>2, <1>3, <1>4 DEF Action

-----------------------------------------------------------------------------
(* The section *)

LEMMA Countable ==
  ASSUME Types
  PROVE  /\ IsFiniteSet(Insiders) /\ Cardinality(Insiders) \in Nat
         /\ IsFiniteSet(deadInside) /\ Cardinality(deadInside) \in Nat
<1>1. IsFiniteSet(Processes)
  BY TableAssumption, FS_Union DEF Processes
<1>2. Insiders \subseteq Processes /\ deadInside \subseteq Processes
  BY DEF Insiders, Types
<1> QED
  BY <1>1, <1>2, FS_Subset, FS_CardinalityType

\* What one action does to the places of the processes in the section.
LEMMA StepDead ==
  ASSUME IInv, NEW p \in Processes, Action(p)
  PROVE  /\ \A q \in deadInside' : pc'[q] = "dead"
         /\ sem' = -1 => /\ deadInside' = {}
                         /\ \A q \in Processes : pc'[q] \in {"openSem", "ended", "dead"}
<1> USE DEF IInv, Types, Section, Move, shared, private, history
<1>1. CASE Fault(p) \/ Kill(p)
  BY <1>1 DEF Fault, Kill, Die, IsInside, Inside
<1>2. CASE OpenSem(p)
  BY <1>2 DEF OpenSem
<1>7. CASE OpenShm(p)
  BY <1>7 DEF OpenShm
<1>3. CASE Wait(p) \/ Post(p)
  BY <1>3 DEF Wait, SemFree, Post
<1>4. CASE Access(p) \/ EndAccess(p)
  BY <1>4 DEF Access, EndAccess
<1>5. CASE p \in Writers /\ (SetSize(p) \/ MapToWrite(p) \/ WriteCount(p) \/ MapFails(p))
  BY <1>5 DEF SetSize, MapToWrite, WriteCount, MapFails
<1>6. CASE p \in Readers /\ (MapToRead(p) \/ ReadCount(p))
  BY <1>6 DEF MapToRead, ReadCount
<1> QED
  BY <1>1, <1>2, <1>3, <1>4, <1>5, <1>6, <1>7 DEF Action

LEMMA StepOneInside ==
  ASSUME IInv, NEW p \in Processes, Action(p)
  PROVE  OneInside'
<1> USE DEF Types, Move, shared, private, history
<1> Types /\ Section
  BY DEF IInv
<1>0. /\ IsFiniteSet(Insiders) /\ Cardinality(Insiders) \in Nat
      /\ IsFiniteSet(deadInside) /\ Cardinality(deadInside) \in Nat
  BY Countable
<1>1. sem # -1 => sem + Cardinality(Insiders) + Cardinality(deadInside) = 1
  BY DEF Section, OneInside, Insiders
<1>2. SUFFICES sem' # -1 =>
                 sem' + Cardinality(Insiders') + Cardinality(deadInside') = 1
  BY DEF OneInside, Insiders
<1>3. ASSUME Insiders' = Insiders, deadInside' = deadInside, sem' = sem
      PROVE  sem' # -1 => sem' + Cardinality(Insiders') + Cardinality(deadInside') = 1
  BY <1>1, <1>3
<1>4. CASE OpenSem(p)
  <2>1. CASE sem' = sem
    <3>1. Insiders' = Insiders /\ deadInside' = deadInside
      BY <1>4 DEF OpenSem, Insiders, IsInside, Inside
    <3> QED
      BY <2>1, <3>1, <1>3
  <2>2. CASE sem' # sem
    <3>1. sem = -1 /\ sem' = 1
      BY <1>4, <2>2 DEF OpenSem
    <3>2. Insiders' = {} /\ deadInside' = {}
      BY <1>4, <3>1 DEF OpenSem, Section, Insiders, IsInside, Inside
    <3> QED
      BY <3>1, <3>2, FS_EmptySet, 1 + 0 + 0 = 1
  <2> QED
    BY <2>1, <2>2
<1>5. CASE Wait(p)
  <2>1. Insiders' = Insiders \cup {p} /\ p \notin Insiders /\ deadInside' = deadInside
    BY <1>5 DEF Wait, Processes, Insiders, IsInside, Inside
  <2>2. Cardinality(Insiders') = Cardinality(Insiders) + 1
    BY <2>1, <1>0, FS_AddElement
  <2>3. sem' = sem - 1 /\ sem > 0
    BY <1>5 DEF Wait, SemFree
  <2> QED
    BY <2>1, <2>2, <2>3, <1>0, <1>1
<1>6. CASE Post(p)
  <2>1. Insiders' = Insiders \ {p} /\ p \in Insiders /\ deadInside' = deadInside
    BY <1>6 DEF Post, Insiders, IsInside, Inside
  <2>2. Cardinality(Insiders') = Cardinality(Insiders) - 1
    BY <2>1, <1>0, FS_RemoveElement
  <2>3. sem' = sem + 1 /\ sem # -1
    BY <1>6 DEF Post, Section
  <2> QED
    BY <2>1, <2>2, <2>3, <1>0, <1>1
<1>7. CASE Fault(p) \/ Kill(p)
  <2>1. sem' = sem /\ pc[p] # "dead" /\ pc' = [pc EXCEPT ![p] = "dead"]
    BY <1>7 DEF Fault, Kill, Die
  <2>2. CASE p \in Insiders
    <3>1. Insiders' = Insiders \ {p} /\ deadInside' = deadInside \cup {p} /\ p \notin deadInside
      BY <1>7, <2>1, <2>2 DEF Fault, Kill, Die, Section, Insiders, IsInside, Inside
    <3>2. Cardinality(Insiders') = Cardinality(Insiders) - 1
      BY <3>1, <2>2, <1>0, FS_RemoveElement
    <3>3. Cardinality(deadInside') = Cardinality(deadInside) + 1
      BY <3>1, <1>0, FS_AddElement
    <3> QED
      BY <2>1, <3>2, <3>3, <1>0, <1>1
  <2>3. CASE p \notin Insiders
    <3>1. Insiders' = Insiders /\ deadInside' = deadInside
      BY <1>7, <2>1, <2>3 DEF Fault, Kill, Die, Insiders, IsInside, Inside
    <3> QED
      BY <2>1, <3>1, <1>3
  <2> QED
    BY <2>2, <2>3
<1>8. CASE OpenShm(p) \/ Access(p) \/ EndAccess(p)
  <2>1. Insiders' = Insiders /\ deadInside' = deadInside /\ sem' = sem
    <3>1. CASE OpenShm(p)
      BY <3>1 DEF OpenShm, Insiders, IsInside, Inside
    <3>2. CASE Access(p) \/ EndAccess(p)
      BY <3>2 DEF Access, EndAccess, Processes, Insiders, IsInside, Inside
    <3> QED
      BY <1>8, <3>1, <3>2
  <2> QED
    BY <2>1, <1>3
<1>9. CASE p \in Writers /\ (SetSize(p) \/ MapToWrite(p) \/ WriteCount(p) \/ MapFails(p))
  <2>1. Insiders' = Insiders /\ deadInside' = deadInside /\ sem' = sem
    BY <1>9 DEF SetSize, MapToWrite, WriteCount, MapFails, Insiders, IsInside, Inside
  <2> QED
    BY <2>1, <1>3
<1>10. CASE p \in Readers /\ (MapToRead(p) \/ ReadCount(p))
  <2>1. Insiders' = Insiders /\ deadInside' = deadInside /\ sem' = sem
    BY <1>10, TableAssumption DEF MapToRead, ReadCount, Insiders, IsInside, Inside
  <2> QED
    BY <2>1, <1>3
<1> QED
  BY <1>4, <1>5, <1>6, <1>7, <1>8, <1>9, <1>10 DEF Action
-----------------------------------------------------------------------------
(* The lengths an object is given *)

\* A process that has mapped an object keeps it.
LEMMA MappedKept ==
  ASSUME IInv, NEW p \in Processes, Action(p),
         NEW q \in Processes, mapped[q] > 0
  PROVE  mapped'[q] = mapped[q] /\ object'[q] = object[q]
<1> USE DEF IInv, Types, Mapping, Unmapped, Move, shared, private, history
<1>1. CASE OpenSem(p) \/ Wait(p) \/ Access(p) \/ EndAccess(p) \/ Post(p)
  BY <1>1 DEF OpenSem, Wait, Access, EndAccess, Post
<1>2. CASE Fault(p) \/ Kill(p)
  BY <1>2 DEF Fault, Kill, Die
<1>3. CASE OpenShm(p)
  BY <1>3 DEF OpenShm
<1>4. CASE p \in Writers /\ (SetSize(p) \/ MapToWrite(p) \/ WriteCount(p) \/ MapFails(p))
  BY <1>4 DEF SetSize, MapToWrite, WriteCount, MapFails
<1>5. CASE p \in Readers /\ (MapToRead(p) \/ ReadCount(p))
  BY <1>5 DEF MapToRead, ReadCount
<1> QED
  BY <1>1, <1>2, <1>3, <1>4, <1>5 DEF Action

\* A writer that has sized an object keeps it, so who has sized it stays so.
LEMMA SizedKept ==
  ASSUME IInv, NEW p \in Processes, Action(p)
  PROVE  /\ \A w \in Writers : todo[w] > 0 =>
                todo'[w] = todo[w] /\ object'[w] = object[w]
         /\ \A o : TwoLengths(o) =>
                \E v, w \in Writers : /\ object'[v] = o /\ todo'[v] > 0
                                      /\ object'[w] = o /\ todo'[w] > 0
                                      /\ Length[v] # Length[w]
<1>1. ASSUME NEW w \in Writers, todo[w] > 0
      PROVE  todo'[w] = todo[w] /\ object'[w] = object[w]
  <2> USE DEF IInv, Types, Sizing, Unsized, Move, shared, private, history
  <2>0. w \in Processes /\ w \notin Readers
    BY TableAssumption DEF Processes
  <2>1. CASE OpenSem(p) \/ Wait(p) \/ Access(p) \/ EndAccess(p) \/ Post(p)
    BY <2>1 DEF OpenSem, Wait, Access, EndAccess, Post
  <2>2. CASE Fault(p) \/ Kill(p)
    BY <2>2 DEF Fault, Kill, Die
  <2>3. CASE OpenShm(p)
    BY <1>1, <2>0, <2>3 DEF OpenShm
  <2>4. CASE p \in Writers /\ (SetSize(p) \/ MapToWrite(p) \/ WriteCount(p) \/ MapFails(p))
    BY <1>1, <2>0, <2>4 DEF SetSize, MapToWrite, WriteCount, MapFails
  <2>5. CASE p \in Readers /\ (MapToRead(p) \/ ReadCount(p))
    BY <1>1, <2>0, <2>5 DEF MapToRead, ReadCount
  <2> QED
    BY <2>1, <2>2, <2>3, <2>4, <2>5 DEF Action
<1> QED
  BY <1>1 DEF TwoLengths, Sized

\* The three parts of Lengths.
WriterLengths ==
    \A w \in Writers :
        /\ todo[w] > 0 => todo[w] = Length[w] /\ object[w] \in Objects
        /\ mapped[w] > 0 => mapped[w] = Length[w] /\ todo[w] > 0
ObjectLengths ==
    \A o \in Objects :
        /\ size[o] = 0 \/ LengthOf(size[o], o)
        /\ count[o] = 0 \/ LengthOf(count[o], o)
        /\ (\E w \in Writers : Sized(w, o)) => size[o] > 0
ReaderLengths ==
    \A r \in Readers :
        /\ mapped[r] = 0 \/ LengthOf(mapped[r], object[r])
        /\ pc[r] = "access" => todo[r] = 0 \/ LengthOf(todo[r], object[r])

LEMMA StepWriterLengths ==
  ASSUME IInv, NEW p \in Processes, Action(p)
  PROVE  WriterLengths'
<1> USE TableAssumption DEF WriterLengths, IInv, Types, Mapping, Sizing, Opening, Unmapped, Unsized, Lengths,
        Move, shared, private, history, Processes
<1>1. CASE OpenSem(p) \/ Wait(p) \/ Access(p) \/ EndAccess(p) \/ Post(p)
  BY <1>1 DEF OpenSem, Wait, Access, EndAccess, Post
<1>2. CASE Fault(p) \/ Kill(p)
  BY <1>2 DEF Fault, Kill, Die
<1>3. CASE OpenShm(p)
  BY <1>3 DEF OpenShm
<1>4. CASE p \in Writers /\ SetSize(p)
  BY <1>4 DEF SetSize
<1>4a. CASE p \in Writers /\ MapToWrite(p)
  <2>1. todo[p] > 0 /\ Length[p] > 0
    BY <1>4a DEF MapToWrite
  <2> QED
    BY <1>4a, <2>1 DEF MapToWrite
<1>5. CASE p \in Writers /\ (WriteCount(p) \/ MapFails(p))
  BY <1>5 DEF WriteCount, MapFails
<1>6. CASE p \in Readers /\ (MapToRead(p) \/ ReadCount(p))
  BY <1>6 DEF MapToRead, ReadCount
<1> QED
  BY <1>1, <1>2, <1>3, <1>4, <1>4a, <1>5, <1>6 DEF Action

LEMMA StepObjectLengths ==
  ASSUME IInv, NEW p \in Processes, Action(p)
  PROVE  ObjectLengths'
<1> SUFFICES ASSUME NEW o \in Objects
             PROVE  /\ (size[o] = 0 \/ LengthOf(size[o], o))'
                    /\ (count[o] = 0 \/ LengthOf(count[o], o))'
                    /\ (\E w \in Writers : Sized(w, o))' => size'[o] > 0
  BY DEF ObjectLengths
<1> USE DEF Move, shared, private, history
<1>1. Types /\ Mapping /\ Sizing /\ ObjectLengths
  BY DEF IInv, Lengths, ObjectLengths
<1>2. \A w \in Writers : todo[w] > 0 => todo'[w] = todo[w] /\ object'[w] = object[w]
  BY SizedKept
<1>3. ASSUME size' = size, count' = count,
             \A w \in Writers : Sized(w, o)' => Sized(w, o)
      PROVE  /\ (size[o] = 0 \/ LengthOf(size[o], o))'
             /\ (count[o] = 0 \/ LengthOf(count[o], o))'
             /\ (\E w \in Writers : Sized(w, o))' => size'[o] > 0
  BY <1>1, <1>2, <1>3 DEF ObjectLengths, LengthOf, Sized
<1>4. CASE OpenSem(p) \/ Wait(p) \/ Access(p) \/ EndAccess(p) \/ Post(p)
  BY <1>3, <1>4 DEF OpenSem, Wait, Access, EndAccess, Post, Sized
<1>5. CASE Fault(p) \/ Kill(p)
  BY <1>3, <1>5 DEF Fault, Kill, Die, Sized
<1>6. CASE OpenShm(p)
  BY <1>1, <1>3, <1>6 DEF OpenShm, Sized, Types, Sizing, Unsized, Processes
<1>7. CASE p \in Writers /\ SetSize(p)
  <2>1. object[p] \in Objects /\ Length[p] \in Nat \ {0}
    BY <1>1, <1>7, TableAssumption DEF SetSize, Mapping, Opening
  <2>2. Sized(p, object[p])'
    BY <1>1, <1>7, <2>1 DEF SetSize, Sized, Types
  <2>3. CASE o = object[p]
    <3>1. size'[o] = Length[p] /\ count'[o] = count[o]
      BY <1>1, <1>7, <2>1, <2>3 DEF SetSize, Truncate, Types
    <3>2. LengthOf(size[o], o)'
      BY <1>7, <2>2, <2>3, <3>1 DEF SetSize, LengthOf, Sized
    <3> QED
      BY <1>1, <1>2, <2>1, <3>1, <3>2 DEF ObjectLengths, LengthOf, Sized
  <2>4. CASE o # object[p]
    <3>1. size'[o] = size[o] /\ count'[o] = count[o]
      BY <1>1, <1>7, <2>1, <2>4 DEF SetSize, Truncate, Types
    <3>2. \A w \in Writers : Sized(w, o)' => Sized(w, o)
      BY <1>1, <1>7, <2>4 DEF SetSize, Sized, Types, Processes
    <3> QED
      BY <1>1, <1>2, <3>1, <3>2 DEF ObjectLengths, LengthOf, Sized
  <2> QED
    BY <2>3, <2>4
<1>7a. CASE p \in Writers /\ MapToWrite(p)
  BY <1>3, <1>7a DEF MapToWrite, Sized
<1>8. CASE p \in Writers /\ WriteCount(p)
  <2>1. object[p] \in Objects /\ todo[p] > 0
    BY <1>1, <1>8 DEF WriteCount, Mapping, Sizing, Opening, Unsized
  <2>2. LengthOf(Length[p], object[p])
    BY <1>8, <2>1 DEF LengthOf, Sized
  <2>3. \A w \in Writers : Sized(w, o)' => Sized(w, o)
    BY <1>8 DEF WriteCount, Sized
  <2>4. count'[o] = count[o] \/ (o = object[p] /\ count'[o] = Length[p])
    BY <1>1, <1>8, <2>1 DEF WriteCount, Types
  <2>5. size' = size
    BY <1>8 DEF WriteCount
  <2> QED
    BY <1>1, <1>2, <2>2, <2>3, <2>4, <2>5 DEF ObjectLengths, LengthOf, Sized
<1>9. CASE p \in Writers /\ MapFails(p)
  BY <1>3, <1>9 DEF MapFails, Sized
<1>10. CASE p \in Readers /\ MapToRead(p)
  BY <1>1, <1>3, <1>10, TableAssumption DEF MapToRead, Sized, Types, Processes
<1>11. CASE p \in Readers /\ ReadCount(p)
  BY <1>1, <1>3, <1>11, TableAssumption DEF ReadCount, Sized, Types, Processes
<1> QED
  BY <1>4, <1>5, <1>6, <1>7, <1>7a, <1>8, <1>9, <1>10, <1>11 DEF Action

LEMMA StepReaderLengths ==
  ASSUME IInv, NEW p \in Processes, Action(p)
  PROVE  ReaderLengths'
<1> SUFFICES ASSUME NEW r \in Readers
             PROVE  /\ (mapped[r] = 0 \/ LengthOf(mapped[r], object[r]))'
                    /\ pc'[r] = "access" => (todo[r] = 0 \/ LengthOf(todo[r], object[r]))'
  BY DEF ReaderLengths
<1> USE DEF Move, shared, private, history
<1>1. Types /\ Mapping /\ ObjectLengths /\ ReaderLengths /\ r \in Processes /\ r \notin Writers
  BY TableAssumption DEF IInv, Lengths, ObjectLengths, ReaderLengths, Processes
<1>2. \A w \in Writers : todo[w] > 0 => todo'[w] = todo[w] /\ object'[w] = object[w]
  BY SizedKept
<1>3. mapped[r] > 0 => mapped'[r] = mapped[r] /\ object'[r] = object[r]
  BY <1>1, MappedKept
<1>4. pc[r] = "access" => mapped[r] > 0
  BY <1>1 DEF Mapping, Opening, Unmapped
<1>5. mapped[r] = 0 \/ mapped[r] > 0
  BY <1>1 DEF Types
<1>6. ASSUME mapped'[r] = mapped[r], todo'[r] = todo[r],
             pc'[r] = "access" => pc[r] = "access"
      PROVE  /\ (mapped[r] = 0 \/ LengthOf(mapped[r], object[r]))'
             /\ pc'[r] = "access" => (todo[r] = 0 \/ LengthOf(todo[r], object[r]))'
  BY <1>1, <1>2, <1>3, <1>4, <1>5, <1>6 DEF ReaderLengths, LengthOf, Sized
<1>7. CASE OpenSem(p) \/ Wait(p) \/ Access(p) \/ EndAccess(p) \/ Post(p)
  BY <1>1, <1>6, <1>7 DEF OpenSem, Wait, Access, EndAccess, Post, Types
<1>8. CASE Fault(p) \/ Kill(p) \/ OpenShm(p)
  BY <1>1, <1>6, <1>8 DEF Fault, Kill, Die, OpenShm, Types
<1>9. CASE p \in Writers /\ (SetSize(p) \/ MapToWrite(p) \/ WriteCount(p) \/ MapFails(p))
  <2>1. p # r
    BY <1>1, <1>9
  <2> QED
    BY <1>1, <1>6, <1>9, <2>1 DEF SetSize, MapToWrite, WriteCount, MapFails, Types
<1>10. CASE MapToRead(p)
  <2>1. CASE p = r
    <3>1. mapped'[r] = size[object[r]] /\ object' = object /\ object[r] \in Objects
      BY <1>1, <1>10, <2>1 DEF MapToRead, Types, Mapping, Opening
    <3>2. pc'[r] # "access"
      BY <1>1, <1>10, <2>1 DEF MapToRead, Types
    <3> QED
      BY <1>1, <1>2, <3>1, <3>2 DEF ObjectLengths, LengthOf, Sized
  <2>2. CASE p # r
    BY <1>1, <1>6, <1>10, <2>2 DEF MapToRead, Types
  <2> QED
    BY <2>1, <2>2
<1>11. CASE ReadCount(p)
  <2>1. CASE p = r
    <3>1. /\ todo'[r] = count[object[r]] \/ todo'[r] = mapped[r]
          /\ object' = object /\ mapped' = mapped /\ object[r] \in Objects
      BY <1>1, <1>11, <2>1 DEF ReadCount, Types, Mapping, Opening
    <3> QED
      BY <1>1, <1>2, <3>1 DEF ObjectLengths, ReaderLengths, LengthOf, Sized
  <2>2. CASE p # r
    BY <1>1, <1>6, <1>11, <2>2 DEF ReadCount, Types
  <2> QED
    BY <2>1, <2>2
<1> QED
  BY <1>7, <1>8, <1>9, <1>10, <1>11 DEF Action

-----------------------------------------------------------------------------
(* The deaths by a bad access *)

\* What a faulting process takes for the length, what it has mapped and the size
\* of the object are lengths of writers: if they differ, the writers do.
LEMMA FaultsByTwoLengths ==
  ASSUME IInv, NEW p \in Processes, Fault(p)
  PROVE  TwoLengths(object[p])
<1> DEFINE o == object[p]
<1>1. Types /\ Mapping /\ WriterLengths /\ ObjectLengths /\ ReaderLengths
  BY DEF IInv, Lengths, WriterLengths, ObjectLengths, ReaderLengths
<1>2. pc[p] = "access" /\ MorePages(p) /\ ~Accessible(p)
  BY DEF Fault
<1>3. o \in Objects /\ mapped[p] > 0
  BY <1>1, <1>2 DEF Mapping, Opening, Unmapped
<1>4. /\ todo[p] \in Nat /\ mapped[p] \in Nat /\ size[o] \in Nat /\ Len(done[p]) \in Nat
      /\ o \in {0} \cup Objects
  BY <1>1, <1>3 DEF Types
<1>5. LengthOf(mapped[p], o) /\ LengthOf(todo[p], o)
  <2>1. CASE p \in Writers
    BY <1>1, <1>3, <2>1 DEF WriterLengths, LengthOf, Sized
  <2>2. CASE p \in Readers
    <3>1. LengthOf(mapped[p], o)
      BY <1>1, <1>3, <1>4, <2>2 DEF ReaderLengths
    <3>2. todo[p] # 0
      BY <1>2, <1>4 DEF MorePages
    <3> QED
      BY <1>1, <1>2, <2>2, <3>1, <3>2 DEF ReaderLengths
  <2> QED
    BY <2>1, <2>2 DEF Processes
<1>6. LengthOf(size[o], o)
  BY <1>1, <1>3, <1>4, <1>5 DEF ObjectLengths, LengthOf
<1>7. todo[p] # mapped[p] \/ todo[p] # size[o]
  BY <1>2, <1>4 DEF MorePages, Accessible, NextPage
<1> QED
  BY <1>5, <1>6, <1>7 DEF LengthOf, TwoLengths

LEMMA StepFaults ==
  ASSUME IInv, NEW p \in Processes, Action(p)
  PROVE  Faults'
<1> SUFFICES ASSUME NEW q \in faulted'
             PROVE  pc'[q] = "dead" /\ TwoLengths(object[q])'
  BY DEF Faults
<1> USE DEF Move, shared, private, history
<1>1. Types /\ Faults
  BY DEF IInv
<1>2. \A o : TwoLengths(o) =>
                \E v, w \in Writers : /\ object'[v] = o /\ todo'[v] > 0
                                      /\ object'[w] = o /\ todo'[w] > 0
                                      /\ Length[v] # Length[w]
  BY SizedKept
<1>3. ASSUME q \in Processes, pc'[q] = "dead", object'[q] = object[q], TwoLengths(object[q])
      PROVE  pc'[q] = "dead" /\ TwoLengths(object[q])'
  BY <1>2, <1>3 DEF TwoLengths, Sized
<1>4. q \in faulted => q \in Processes /\ pc[q] = "dead" /\ TwoLengths(object[q])
  BY <1>1 DEF Types, Faults
<1>5. CASE Fault(p)
  <2>1. TwoLengths(object[p])
    BY <1>5, FaultsByTwoLengths
  <2>2. object' = object /\ faulted' = faulted \cup {p} /\ pc' = [pc EXCEPT ![p] = "dead"]
    BY <1>5 DEF Fault, Die
  <2> QED
    BY <1>1, <1>3, <1>4, <2>1, <2>2 DEF Types
<1>6. CASE OpenSem(p) \/ Wait(p) \/ Access(p) \/ EndAccess(p) \/ Post(p)
  BY <1>1, <1>3, <1>4, <1>6 DEF OpenSem, Wait, Access, EndAccess, Post, Types
<1>7. CASE OpenShm(p) \/ Kill(p)
  BY <1>1, <1>3, <1>4, <1>7 DEF OpenShm, Kill, Die, Types
<1>8. CASE p \in Writers /\ (SetSize(p) \/ MapToWrite(p) \/ WriteCount(p) \/ MapFails(p))
  BY <1>1, <1>3, <1>4, <1>8 DEF SetSize, MapToWrite, WriteCount, MapFails, Types
<1>9. CASE p \in Readers /\ (MapToRead(p) \/ ReadCount(p))
  BY <1>1, <1>3, <1>4, <1>9 DEF MapToRead, ReadCount, Types
<1> QED
  BY <1>5, <1>6, <1>7, <1>8, <1>9 DEF Action

-----------------------------------------------------------------------------
(* The theorems *)

\* IInv holds in every reachable state.
THEOREM Invariance == Spec => []IInv
<1>1. IInv /\ [Next]_vars => IInv'
  <2>1. ASSUME IInv, NEW p \in Processes, Action(p)
        PROVE  IInv'
    <3>1. Types' /\ Mapping' /\ Sizing'
      BY <2>1, StepTypes, StepSizing
    <3>2. Section'
      BY <2>1, StepDead, StepOneInside DEF Section
    <3>3. Lengths'
      BY <2>1, StepWriterLengths, StepObjectLengths, StepReaderLengths
         DEF Lengths, WriterLengths, ObjectLengths, ReaderLengths
    <3>4. Faults'
      BY <2>1, StepFaults
    <3> QED
      BY <3>1, <3>2, <3>3, <3>4 DEF IInv
  <2>2. ASSUME IInv, UNCHANGED vars
        PROVE  IInv'
    BY <2>2 DEF IInv, Types, Mapping, Sizing, Section, OneInside, IsInside, Inside, Lengths,
       LengthOf, Sized, Faults, TwoLengths, vars, shared, private, history
  <2> QED
    BY <2>1, <2>2, NextIsAction
<1> QED
  BY <1>1, InitIInv, PTL DEF Spec

\* The semaphore lets one process in, also while processes are killed and die of
\* bad accesses (sem_wait and sem_post of the writers and readers).
THEOREM Exclusion == Spec => []OneInside
<1>1. IInv => OneInside
  BY DEF IInv, Section
<1> QED
  BY <1>1, Invariance, PTL

\* A bad access needs two writers of lists of different lengths on one object
\* (ftruncate before sem_wait).
THEOREM FaultsExplained == Spec => []FaultNeedsTwoLengths
<1>1. IInv => FaultNeedsTwoLengths
  BY DEF IInv, Faults, FaultNeedsTwoLengths
<1> QED
  BY <1>1, Invariance, PTL

-----------------------------------------------------------------------------
(* What is in the pages *)

\* A process has written or read nothing before it comes to the pages, and then
\* no more than it wants.
Early(p) ==
    \/ pc[p] \in {"openSem", "openShm", "size", "map", "wait", "count", "late"}
    \/ pc[p] = "post" /\ p \in Readers /\ ~program.readsInside
Progress ==
    \A p \in Processes :
        /\ Early(p) => done[p] = << >>
        /\ pc[p] = "access" => Len(done[p]) <= todo[p]

\* The pages of an object that nobody is writing: zeros, or one writer's list.
Uniform(o) ==
    \/ \A i \in PageNumbers : page[o][i] = None
    \/ \E w \in Writers : Sized(w, o) /\ \A i \in 1 .. Length[w] : page[o][i] = w
Unfinished(w, o) == object[w] = o /\ (pc[w] = "access" \/ w \in deadInside)
Orderly ==
    \A o \in Objects : ~TwoLengths(o) => Uniform(o) \/ \E w \in Writers : Unfinished(w, o)

\* A writer inside finds the pages as it left them.
Filling ==
    \A w \in Writers : pc[w] = "access" =>
        /\ count[object[w]] # 0
        /\ ~TwoLengths(object[w]) =>
             \A i \in 1 .. Len(done[w]) : page[object[w]][i] = w

\* A reader inside has read what is still there, and leaves with one list.
OneList(r) ==
    \/ \A i \in DOMAIN done[r] : done[r][i] = None
    \/ \E w \in Writers : todo[r] = Length[w] /\ \A i \in DOMAIN done[r] : done[r][i] = w
Reading ==
    \A r \in Readers : program.readsInside /\ mapped[r] > 0 /\ ~TwoLengths(object[r]) =>
        /\ pc[r] = "access" =>
             \A i \in 1 .. Len(done[r]) : done[r][i] = page[object[r]][i]
        /\ pc[r] \in {"post", "ended"} => OneList(r)

\* An object that was filled once has no gap any more.
Filled(o) ==
    /\ count[o] # 0
    /\ ~TwoLengths(o) =>
         \A w \in Writers : Sized(w, o) => \A i \in 1 .. Length[w] : page[o][i] # None
PublishedFilled == published \subseteq Objects /\ \A o \in published : Filled(o)

NoGap(r) == \A i \in DOMAIN done[r] : done[r][i] # None
SeenFilled ==
    /\ seen \in [Readers -> SUBSET published]
    /\ \A r \in Readers : pc[r] \in Unmapped \cup {"wait"} => seen[r] = {}
    /\ \A r \in Readers : object[r] \in seen[r] =>
        /\ pc[r] = "access" => todo[r] # 0
        /\ ~TwoLengths(object[r]) => NoGap(r)
        /\ pc[r] = "ended" \/ (pc[r] = "post" /\ program.readsInside) => done[r] # << >>

\* A second object, or none behind the name, is the work of a writer that failed.
Unlinked ==
    /\ name \in {0, made} /\ program.counted \in BOOLEAN
    /\ \A p \in Processes : object[p] <= made
    /\ \A o \in published : o <= made
    /\ made > (IF name = 0 THEN 0 ELSE 1) => \E w \in Writers : Unlinker(w)

PInv == Progress /\ Orderly /\ Filling /\ Reading /\ PublishedFilled /\ SeenFilled /\ Unlinked

\* The semaphore lets one process in, and nobody after a death inside.
LEMMA Alone ==
  ASSUME IInv, NEW p \in Processes, IsInside(p)
  PROVE  deadInside = {} /\ \A q \in Processes : IsInside(q) => q = p
<1>1. /\ IsFiniteSet(Insiders) /\ Cardinality(Insiders) \in Nat
      /\ IsFiniteSet(deadInside) /\ Cardinality(deadInside) \in Nat
  BY Countable DEF IInv
<1>2. p \in Insiders
  BY DEF Insiders
<1>3. sem # -1
  BY DEF IInv, Section, IsInside, Inside
<1>4. sem \in Nat /\ sem + Cardinality(Insiders) + Cardinality(deadInside) = 1
  BY <1>3 DEF IInv, Types, Section, OneInside, Insiders
<1>5. /\ Cardinality(Insiders \ {p}) = Cardinality(Insiders) - 1
      /\ IsFiniteSet(Insiders \ {p})
  BY <1>1, <1>2, FS_RemoveElement
<1>5a. Cardinality(Insiders \ {p}) \in Nat
  BY <1>5, FS_CardinalityType
<1>6. Cardinality(Insiders \ {p}) = 0 /\ Cardinality(deadInside) = 0
  BY <1>1, <1>4, <1>5, <1>5a
<1>7. Insiders \ {p} = {} /\ deadInside = {}
  BY <1>1, <1>5, <1>6, FS_EmptySet
<1>. QED
  BY <1>7 DEF Insiders

\* A step leaves the other processes alone.
LEMMA Others ==
  ASSUME IInv, NEW p \in Processes, Action(p), NEW q \in Processes, q # p
  PROVE  /\ pc'[q] = pc[q] /\ object'[q] = object[q] /\ mapped'[q] = mapped[q]
         /\ todo'[q] = todo[q] /\ done'[q] = done[q]
<1> USE DEF IInv, Types, Move, shared, private, history
<1>1. CASE OpenSem(p) \/ OpenShm(p) \/ Wait(p) \/ EndAccess(p) \/ Post(p)
  BY <1>1 DEF OpenSem, OpenShm, Wait, EndAccess, Post
<1>2. CASE Access(p)
  BY <1>2 DEF Access
<1>3. CASE Fault(p) \/ Kill(p)
  BY <1>3 DEF Fault, Kill, Die
<1>4. CASE p \in Writers /\ (SetSize(p) \/ MapToWrite(p) \/ WriteCount(p) \/ MapFails(p))
  BY <1>4 DEF SetSize, MapToWrite, WriteCount, MapFails
<1>5. CASE p \in Readers /\ (MapToRead(p) \/ ReadCount(p))
  BY <1>5 DEF MapToRead, ReadCount
<1>. QED
  BY <1>1, <1>2, <1>3, <1>4, <1>5 DEF Action

\* Where a process goes, and what it has written or read then.
LEMMA OwnStep ==
  ASSUME IInv, NEW p \in Processes, Action(p)
  PROVE  /\ program' = program
         /\ pc'[p] = "access" /\ pc[p] = "access" =>
              /\ Access(p) /\ todo'[p] = todo[p] /\ Len(done[p]) < todo[p]
              /\ done'[p] = Append(done[p], page'[object[p]][NextPage(p)])
              /\ NextPage(p) <= mapped[p]
         /\ pc'[p] = "access" /\ pc[p] # "access" =>
              /\ \/ WriteCount(p) /\ p \in Writers /\ pc[p] = "count" /\ todo'[p] = todo[p]
                 \/ /\ ReadCount(p) /\ p \in Readers
                    /\ pc[p] = IF program.readsInside THEN "count" ELSE "late"
              /\ done'[p] = done[p]
         /\ pc'[p] # "access" => done'[p] = done[p]
         /\ pc'[p] # "access" /\ pc[p] = "access" =>
              \/ pc'[p] = "dead" /\ Die(p)
              \/ /\ EndAccess(p) /\ Len(done[p]) >= todo[p] /\ todo'[p] = todo[p]
                 /\ pc'[p] = IF p \in Writers \/ program.readsInside THEN "post" ELSE "ended"
         /\ pc'[p] = "post" /\ pc[p] # "access" =>
              pc[p] = "wait" /\ Wait(p) /\ p \in Readers /\ ~program.readsInside
         /\ pc[p] = "post" =>
              \/ pc'[p] = "dead"
              \/ /\ pc'[p] = IF p \in Writers \/ program.readsInside THEN "ended" ELSE "late"
                 /\ todo'[p] = todo[p]
         /\ pc'[p] = "ended" =>
              \/ pc[p] = "access" \/ pc[p] = "post"
              \/ pc[p] \in Unmapped /\ mapped'[p] = 0
         /\ pc'[p] \in {"openShm", "size", "map", "wait", "count", "late", "openSem"} =>
              \/ pc'[p] = "openShm" /\ pc[p] = "openSem"
              \/ pc'[p] = "size" /\ pc[p] = "openShm"
              \/ pc'[p] = "map" /\ pc[p] \in {"openShm", "size"}
              \/ pc'[p] = "wait" /\ pc[p] = "map"
              \/ pc'[p] = "count" /\ pc[p] = "wait"
              \/ pc'[p] = "late" /\ pc[p] = "post" /\ p \in Readers /\ ~program.readsInside
         /\ pc[p] \notin {"ended", "dead"}
<1> USE TableAssumption DEF IInv, Types, Mapping, Unmapped, Move, shared, private, history, Processes
<1>1. CASE OpenSem(p)
  BY <1>1 DEF OpenSem
<1>2. CASE OpenShm(p)
  BY <1>2 DEF OpenShm
<1>3. CASE Wait(p)
  BY <1>3 DEF Wait
<1>4. CASE Access(p)
  BY <1>4 DEF Access, MorePages, Accessible
<1>5. CASE EndAccess(p)
  BY <1>5 DEF EndAccess, MorePages
<1>6. CASE Post(p)
  BY <1>6 DEF Post
<1>7. CASE Fault(p) \/ Kill(p)
  BY <1>7 DEF Fault, Kill, Die
<1>8. CASE p \in Writers /\ (SetSize(p) \/ MapToWrite(p))
  BY <1>8 DEF SetSize, MapToWrite
<1>9. CASE p \in Writers /\ WriteCount(p)
  BY <1>9 DEF WriteCount
<1>10. CASE p \in Writers /\ MapFails(p)
  BY <1>10 DEF MapFails
<1>11. CASE p \in Readers /\ MapToRead(p)
  <2>1. pc[p] = "map" /\ size[object[p]] \in Nat
    BY <1>11 DEF MapToRead, Opening
  <2>2. /\ pc'[p] = "wait" \/ (pc'[p] = "ended" /\ mapped'[p] = 0)
        /\ UNCHANGED <<shared, object, todo, done>>
    BY <1>11, <2>1 DEF MapToRead
  <2>. QED
    BY <2>1, <2>2
<1>12. CASE p \in Readers /\ ReadCount(p)
  BY <1>12 DEF ReadCount
<1>. QED
  BY <1>1, <1>2, <1>3, <1>4, <1>5, <1>6, <1>7, <1>8, <1>9, <1>10, <1>11, <1>12 DEF Action

\* The length of a list, where its pages are, and its writer.
LEMMA WriterFacts ==
  ASSUME IInv, NEW w \in Writers
  PROVE  /\ w \in Processes /\ w # None /\ Length[w] \in Nat \ {0}
         /\ \A i \in 1 .. Length[w] : i \in PageNumbers
         /\ \A o : Sized(w, o) => o \in Objects /\ todo[w] = Length[w]
         /\ pc[w] \in {"count", "access", "post"} => Sized(w, object[w])
<1>1. w \in Processes /\ w # None /\ Length[w] \in Nat \ {0}
  BY TableAssumption DEF Processes
<1>2. \A i \in 1 .. Length[w] : i \in PageNumbers
  BY DEF PageNumbers
<1>3. \A o : Sized(w, o) => o \in Objects /\ todo[w] = Length[w]
  BY DEF IInv, Lengths, Sized
<1>4. pc[w] \in {"count", "access", "post"} => Sized(w, object[w])
  BY <1>1 DEF IInv, Sizing, Opening, Unsized, Sized
<1>. QED
  BY <1>1, <1>2, <1>3, <1>4

\* A reader that has mapped an object wants no more than a writer's list.
LEMMA ReaderFacts ==
  ASSUME IInv, NEW r \in Readers, mapped[r] > 0
  PROVE  /\ r \in Processes /\ r \notin Writers /\ object[r] \in Objects
         /\ \E w \in Writers : Sized(w, object[r]) /\ mapped[r] = Length[w]
         /\ pc[r] = "access" =>
              todo[r] = 0 \/ \E w \in Writers : Sized(w, object[r]) /\ todo[r] = Length[w]
<1>1. r \in Processes /\ r \notin Writers
  BY TableAssumption DEF Processes
<1>2. mapped[r] # 0
  BY <1>1 DEF IInv, Types
<1>3. \E w \in Writers : Sized(w, object[r]) /\ mapped[r] = Length[w]
  BY <1>2 DEF IInv, Lengths, LengthOf
<1>4. pc[r] = "access" =>
        todo[r] = 0 \/ \E w \in Writers : Sized(w, object[r]) /\ todo[r] = Length[w]
  BY DEF IInv, Lengths, LengthOf
<1>5. object[r] \in Objects
  BY <1>3, WriterFacts
<1>. QED
  BY <1>1, <1>3, <1>4, <1>5

\* Writers that have sized an object stay, and only SetSize adds one.
LEMMA SizedStep ==
  ASSUME IInv, NEW p \in Processes, Action(p)
  PROVE  /\ \A w \in Writers, o \in Objects : Sized(w, o) => Sized(w, o)'
         /\ \A w \in Writers, o \in Objects :
              Sized(w, o)' => Sized(w, o) \/ (w = p /\ SetSize(p) /\ object[p] = o)
         /\ \A o \in Objects : TwoLengths(o) => TwoLengths(o)'
<1>1. \A w \in Writers : todo[w] > 0 => todo'[w] = todo[w] /\ object'[w] = object[w]
  BY SizedKept
<1>2. \A w \in Writers, o \in Objects : Sized(w, o) => Sized(w, o)'
  BY <1>1 DEF Sized
<1>3. ASSUME NEW w \in Writers, NEW o \in Objects, Sized(w, o)', ~Sized(w, o)
      PROVE  w = p /\ SetSize(p) /\ object[p] = o
  <2>0. w \in Processes /\ w \notin Readers
    BY TableAssumption DEF Processes
  <2>1. w = p
    BY <1>3, <2>0, Others DEF Sized
  <2>2. CASE SetSize(p)
    BY <1>3, <2>1, <2>2 DEF SetSize, Sized
  <2>3. CASE ~SetSize(p)
    <3>1. todo' = todo
      BY <2>0, <2>1, <2>3
         DEF Action, OpenSem, OpenShm, Wait, Access, Fault, EndAccess, Post, Kill, Die,
             MapToWrite, WriteCount, MapFails, private
    <3>2. ~(todo[w] > 0)
      BY <1>1, <1>3 DEF Sized
    <3>. QED
      BY <1>3, <3>1, <3>2 DEF Sized
  <2>. QED
    BY <2>1, <2>2, <2>3
<1>4. \A o \in Objects : TwoLengths(o) => TwoLengths(o)'
  BY <1>2 DEF TwoLengths
<1>. QED
  BY <1>2, <1>3, <1>4

\* What a step does to a page: nothing, a writer writes its own, or ftruncate
\* cuts it off, which does not reach the lists of that length.
LEMMA PageStep ==
  ASSUME IInv, NEW p \in Processes, Action(p), NEW o \in Objects, ~TwoLengths(o)'
  PROVE  \/ page'[o] = page[o]
         \/ /\ \A i \in PageNumbers : page'[o][i] \in {page[o][i], None}
            /\ \A w \in Writers : Sized(w, o)' =>
                 \A i \in 1 .. Length[w] : page'[o][i] = page[o][i]
         \/ /\ p \in Writers /\ Access(p) /\ pc[p] = "access" /\ object[p] = o
            /\ page'[o][NextPage(p)] = p
            /\ \A i \in PageNumbers : i # NextPage(p) => page'[o][i] = page[o][i]
<1>0. page \in [Objects -> [PageNumbers -> Pages]]
  BY DEF IInv, Types
<1>1. CASE Access(p)
  <2>1. pc[p] = "access" /\ Accessible(p)
    BY <1>1 DEF Access
  <2>2. NextPage(p) \in PageNumbers /\ object[p] \in Objects
    BY <2>1, PageExists DEF IInv
  <2>3. CASE p \in Writers /\ object[p] = o
    <3>1. page' = [page EXCEPT ![o][NextPage(p)] = p]
      BY <1>1, <2>3 DEF Access
    <3>2. page'[o] = [page[o] EXCEPT ![NextPage(p)] = p]
      BY <1>0, <3>1
    <3>3. page[o] \in [PageNumbers -> Pages]
      BY <1>0
    <3>. QED
      BY <1>1, <2>1, <2>2, <2>3, <3>2, <3>3
  <2>4. CASE ~(p \in Writers /\ object[p] = o)
    BY <1>0, <1>1, <2>4 DEF Access
  <2>. QED
    BY <2>3, <2>4
<1>2. CASE p \in Writers /\ SetSize(p)
  <2>1. object[p] \in Objects /\ pc[p] = "size"
    BY <1>2 DEF SetSize, Move, IInv, Mapping, Opening
  <2>2. page' = [page EXCEPT ![object[p]] =
                   [i \in PageNumbers |-> IF i <= Length[p] THEN @[i] ELSE None]]
    BY <1>2 DEF SetSize
  <2>3. CASE object[p] # o
    BY <1>0, <2>2, <2>3
  <2>4. CASE object[p] = o
    <3>1. page'[o] = [i \in PageNumbers |-> IF i <= Length[p] THEN page[o][i] ELSE None]
      BY <1>0, <2>1, <2>2, <2>4
    <3>2. Sized(p, o)'
      <4>1. todo'[p] = Length[p] /\ object'[p] = o
        BY <1>2, <2>4 DEF SetSize, IInv, Types
      <4>. QED
        BY <1>2, <4>1, WriterFacts DEF Sized
    <3>3. ASSUME NEW w \in Writers, Sized(w, o)'
          PROVE  Length[w] = Length[p]
      BY <1>2, <3>2, <3>3 DEF TwoLengths
    <3>4. ASSUME NEW w \in Writers, Sized(w, o)', NEW i \in 1 .. Length[w]
          PROVE  page'[o][i] = page[o][i]
      <4>1. i <= Length[p] /\ i \in PageNumbers
        BY <3>3, <3>4, WriterFacts
      <4>. QED
        BY <3>1, <4>1
    <3>5. \A i \in PageNumbers : page'[o][i] \in {page[o][i], None}
      BY <3>1
    <3>. QED
      BY <3>4, <3>5
  <2>. QED
    BY <2>3, <2>4
<1>3. CASE ~Access(p) /\ ~(p \in Writers /\ SetSize(p))
  <2>1. page' = page
    BY <1>3
       DEF Action, OpenSem, OpenShm, Wait, Fault, EndAccess, Post, Kill, Die,
           MapToWrite, WriteCount, MapFails, MapToRead, ReadCount, shared
  <2>. QED
    BY <2>1
<1>. QED
  BY <1>1, <1>2, <1>3

\* The first number of an object is not taken back.
LEMMA CountStep ==
  ASSUME IInv, NEW p \in Processes, Action(p), NEW o \in Objects, count[o] # 0
  PROVE  count'[o] # 0
<1>1. CASE p \in Writers /\ WriteCount(p)
  BY <1>1, TableAssumption DEF WriteCount, IInv, Types
<1>2. CASE ~(p \in Writers /\ WriteCount(p))
  BY <1>2
     DEF Action, OpenSem, OpenShm, Wait, Access, Fault, EndAccess, Post, Kill, Die,
         SetSize, MapToWrite, MapFails, MapToRead, ReadCount, shared
<1>. QED
  BY <1>1, <1>2

LEMMA StepProgress ==
  ASSUME IInv, Progress, NEW p \in Processes, Action(p)
  PROVE  Progress'
<1> SUFFICES ASSUME NEW q \in Processes
             PROVE  /\ Early(q)' => done'[q] = << >>
                    /\ pc'[q] = "access" => Len(done'[q]) <= todo'[q]
  BY DEF Progress
<1>0. /\ Early(q) => done[q] = << >>
      /\ pc[q] = "access" => Len(done[q]) <= todo[q]
      /\ done[q] \in Seq(Pages) /\ todo'[q] \in Nat /\ program' = program
  BY StepTypes, OwnStep DEF Progress, IInv, Types
<1>1. CASE q # p
  BY <1>0, <1>1, Others DEF Early
<1>2. CASE q = p
  <2>1. Early(q)' => done'[q] = << >>
    <3>1. CASE pc'[q] \in {"openSem", "openShm", "size", "map", "wait", "count", "late"}
      BY <1>0, <1>2, <3>1, OwnStep DEF Early
    <3>2. CASE pc'[q] = "post" /\ q \in Readers /\ ~program.readsInside
      <4>1. q \notin Writers
        BY <3>2, TableAssumption
      <4>2. pc[q] = "wait"
        BY <1>2, <3>2, <4>1, OwnStep
      <4>. QED
        BY <1>0, <1>2, <3>2, <4>2, OwnStep DEF Early
    <3>. QED
      BY <1>0, <3>1, <3>2 DEF Early
  <2>2. CASE pc'[q] = "access" /\ pc[q] = "access"
    <3>1. page'[object[p]][NextPage(p)] \in Pages
      <4>1. Access(p)
        BY <1>2, <2>2, OwnStep
      <4>2. NextPage(p) \in PageNumbers /\ object[p] \in Objects
        BY <4>1, PageExists DEF Access, IInv
      <4>. QED
        BY <4>2, StepTypes DEF Types
    <3>2. Len(done'[q]) = Len(done[q]) + 1 /\ Len(done[q]) \in Nat
      BY <1>0, <1>2, <2>2, <3>1, OwnStep
    <3>. QED
      BY <1>0, <1>2, <2>1, <2>2, <3>2, OwnStep DEF IInv, Types
  <2>3. CASE pc'[q] = "access" /\ pc[q] # "access"
    <3>1. done'[q] = << >>
      BY <1>0, <1>2, <2>3, OwnStep DEF Early
    <3>. QED
      BY <1>0, <2>1, <3>1
  <2>. QED
    BY <2>1, <2>2, <2>3
<1>. QED
  BY <1>1, <1>2

LEMMA StepFilling ==
  ASSUME IInv, Progress, Filling, NEW p \in Processes, Action(p)
  PROVE  Filling'
<1> SUFFICES ASSUME NEW w \in Writers, pc'[w] = "access", NEW o, o = object'[w]
             PROVE  /\ count'[o] # 0
                    /\ ~TwoLengths(o)' =>
                         \A i \in 1 .. Len(done'[w]) : page'[o][i] = w
  BY DEF Filling
<1>0. w \in Processes /\ w \notin Readers
  BY TableAssumption DEF Processes
<1>1. CASE pc[w] # "access"
  <2>1. w = p /\ WriteCount(w) /\ done'[w] = done[w] /\ pc[w] = "count"
    BY <1>0, <1>1, Others, OwnStep
  <2>2. o = object[w] /\ o \in Objects /\ count'[o] = Length[w]
    BY <1>0, <2>1 DEF WriteCount, IInv, Types, Mapping, Opening, private
  <2>3. done'[w] = << >>
    BY <1>0, <2>1 DEF Progress, Early
  <2>. QED
    BY <2>2, <2>3, WriterFacts
<1>2. CASE pc[w] = "access"
  <2>1. Sized(w, object[w]) /\ todo[w] = Length[w] /\ object[w] \in Objects
    BY <1>2, WriterFacts
  <2>2. o = object[w]
    BY <2>1, SizedKept DEF Sized
  <2>3. count'[o] # 0
    BY <1>2, <2>1, <2>2, CountStep DEF Filling
  <2>4. ASSUME ~TwoLengths(o)', NEW i \in 1 .. Len(done'[w])
        PROVE  page'[o][i] = w
    <3>0. ~TwoLengths(o) /\ Sized(w, o)'
      BY <2>1, <2>2, <2>4, SizedStep
    <3>1. \A j \in 1 .. Len(done[w]) : page[o][j] = w
      BY <1>2, <2>2, <3>0 DEF Filling
    <3>2. Len(done[w]) <= Length[w] /\ Len(done[w]) \in Nat
      BY <1>0, <1>2, <2>1 DEF Progress, IInv, Types
    <3>3. \A j \in 1 .. Len(done[w]) : j \in 1 .. Length[w] /\ j \in PageNumbers
      BY <3>2, WriterFacts
    <3>4. CASE w = p
      <4>1. Access(p) /\ done'[w] = Append(done[w], page'[o][NextPage(w)])
        BY <1>2, <2>2, <3>4, OwnStep
      <4>2. page'[o][NextPage(w)] \in Pages /\ NextPage(w) \in PageNumbers
        <5>1. NextPage(p) \in PageNumbers
          BY <3>4, <4>1, PageExists DEF Access, IInv
        <5>. QED
          BY <2>1, <2>2, <3>4, <5>1, StepTypes DEF Types
      <4>3. Len(done'[w]) = Len(done[w]) + 1 /\ NextPage(w) = Len(done[w]) + 1
        BY <1>0, <4>1, <4>2 DEF NextPage, IInv, Types
      <4>4. page'[o] = [page[o] EXCEPT ![NextPage(w)] = w]
            /\ page[o] \in [PageNumbers -> Pages]
        <5>1. page' = [page EXCEPT ![o][NextPage(w)] = w]
          BY <2>2, <3>4, <4>1 DEF Access
        <5>. QED
          BY <2>1, <2>2, <5>1 DEF IInv, Types
      <4>5. CASE i = NextPage(w)
        BY <4>2, <4>4, <4>5
      <4>6. CASE i # NextPage(w)
        <5>1. i \in 1 .. Len(done[w])
          BY <3>2, <4>3, <4>6
        <5>. QED
          BY <3>1, <3>3, <4>4, <4>6, <5>1
      <4>. QED
        BY <4>5, <4>6
    <3>5. CASE w # p
      <4>1. done'[w] = done[w]
        BY <1>0, <3>5, Others
      <4>2. ~(p \in Writers /\ Access(p) /\ pc[p] = "access")
        BY <1>0, <1>2, <3>5, Alone DEF IsInside, Inside
      <4>3. page'[o][i] = page[o][i]
        BY <2>1, <2>2, <2>4, <3>0, <3>3, <4>1, <4>2, PageStep
      <4>. QED
        BY <3>1, <4>1, <4>3
    <3>. QED
      BY <3>4, <3>5
  <2>. QED
    BY <2>3, <2>4
<1>. QED
  BY <1>1, <1>2

\* The writer that leaves an object has filled it.
LEMMA LastPage ==
  ASSUME IInv, Filling, NEW w \in Writers, pc[w] = "access", Len(done[w]) >= todo[w],
         ~TwoLengths(object[w])
  PROVE  \A i \in 1 .. Length[w] : page[object[w]][i] = w
<1>1. todo[w] = Length[w] /\ Length[w] \in Nat /\ Len(done[w]) \in Nat
  BY WriterFacts DEF IInv, Types
<1>2. \A i \in 1 .. Len(done[w]) : page[object[w]][i] = w
  BY DEF Filling
<1>. QED
  BY <1>1, <1>2

LEMMA StepOrderly ==
  ASSUME IInv, Filling, Orderly, NEW p \in Processes, Action(p)
  PROVE  Orderly'
<1> SUFFICES ASSUME NEW o \in Objects, ~TwoLengths(o)'
             PROVE  Uniform(o)' \/ \E w \in Writers : Unfinished(w, o)'
  BY DEF Orderly
<1>0. ~TwoLengths(o)
  BY SizedStep
<1>1. ASSUME NEW w \in Writers, Unfinished(w, o)
      PROVE  Uniform(o)' \/ Unfinished(w, o)'
  <2>0. w \in Processes /\ deadInside \subseteq deadInside'
    <3>1. deadInside \subseteq deadInside'
      BY DEF Action, OpenSem, OpenShm, Wait, Access, Fault, EndAccess, Post, Kill, Die,
             SetSize, MapToWrite, WriteCount, MapFails, MapToRead, ReadCount, history
    <3>. QED
      BY <3>1 DEF Processes
  <2>1. CASE w # p
    BY <1>1, <2>0, <2>1, Others DEF Unfinished
  <2>2. CASE w = p /\ pc[w] = "access"
    <3>1. object'[w] = object[w] /\ object[w] = o
      <4>1. todo[w] > 0
        BY <2>2, WriterFacts DEF Sized
      <4>. QED
        BY <1>1, <4>1, SizedKept DEF Unfinished
    <3>2. CASE pc'[w] = "access"
      BY <3>1, <3>2 DEF Unfinished
    <3>3. CASE pc'[w] = "dead" /\ Die(w)
      BY <2>2, <3>1, <3>3 DEF Unfinished, Die, IsInside, Inside
    <3>4. CASE EndAccess(w) /\ Len(done[w]) >= todo[w]
      <4>1. \A i \in 1 .. Length[w] : page[o][i] = w
        BY <1>0, <2>2, <3>1, <3>4, LastPage
      <4>2. page' = page /\ Sized(w, o)'
        BY <2>2, <3>1, <3>4, WriterFacts, SizedStep DEF EndAccess, shared
      <4>. QED
        BY <4>1, <4>2 DEF Uniform
    <3>. QED
      BY <2>2, <3>2, <3>3, <3>4, OwnStep
  <2>3. CASE w = p /\ w \in deadInside
    BY <2>3, OwnStep DEF IInv, Section
  <2>. QED
    BY <1>1, <2>1, <2>2, <2>3 DEF Unfinished
<1>2. CASE \A w \in Writers : ~Unfinished(w, o)
  <2>0. Uniform(o)
    BY <1>0, <1>2 DEF Orderly
  <2>1. ~(p \in Writers /\ pc[p] = "access" /\ object[p] = o)
    BY <1>2 DEF Unfinished
  <2>2. \/ page'[o] = page[o]
        \/ /\ \A i \in PageNumbers : page'[o][i] \in {page[o][i], None}
           /\ \A w \in Writers : Sized(w, o)' =>
                \A i \in 1 .. Length[w] : page'[o][i] = page[o][i]
    BY <2>1, PageStep
  <2>3. CASE \A i \in PageNumbers : page[o][i] = None
    BY <2>2, <2>3 DEF Uniform
  <2>4. ASSUME NEW w \in Writers, Sized(w, o), \A i \in 1 .. Length[w] : page[o][i] = w
        PROVE  Uniform(o)'
    <3>1. Sized(w, o)'
      BY <2>4, SizedStep
    <3>2. \A i \in 1 .. Length[w] : page'[o][i] = w
      BY <2>2, <2>4, <3>1
    <3>. QED
      BY <3>1, <3>2 DEF Uniform
  <2>. QED
    BY <2>0, <2>3, <2>4 DEF Uniform
<1>. QED
  BY <1>1, <1>2

\* A reader that reads inside leaves with one list.
LEMMA LastPageRead ==
  ASSUME IInv, PInv, NEW r \in Readers, program.readsInside, pc[r] = "access",
         ~TwoLengths(object[r])
  PROVE  OneList(r)
<1>. DEFINE o == object[r]
<1>0. r \in Processes /\ r \notin Writers /\ mapped[r] > 0
  BY TableAssumption DEF Processes, IInv, Mapping, Opening, Unmapped
<1>1. /\ o \in Objects /\ Len(done[r]) \in Nat /\ Len(done[r]) <= todo[r]
      /\ DOMAIN done[r] = 1 .. Len(done[r])
      /\ todo[r] = 0 \/ \E w \in Writers : Sized(w, o) /\ todo[r] = Length[w]
  <2>1. done[r] \in Seq(Pages) /\ Len(done[r]) <= todo[r]
    BY <1>0 DEF PInv, Progress, IInv, Types
  <2>. QED
    BY <1>0, <2>1, ReaderFacts
<1>2. \A i \in DOMAIN done[r] : done[r][i] = page[o][i]
  BY <1>0, <1>1 DEF PInv, Reading
<1>3. \A w \in Writers : ~Unfinished(w, o)
  <2>1. IsInside(r)
    BY DEF IsInside, Inside
  <2>2. ASSUME NEW w \in Writers, pc[w] = "access" PROVE FALSE
    BY <1>0, <2>1, <2>2, Alone DEF IsInside, Inside, Processes
  <2>. QED
    BY <1>0, <2>1, <2>2, Alone DEF Unfinished
<1>4. Uniform(o)
  BY <1>1, <1>3 DEF PInv, Orderly
<1>5. CASE todo[r] = 0
  <2>1. DOMAIN done[r] = {}
    BY <1>1, <1>5
  <2>. QED
    BY <2>1 DEF OneList
<1>6. ASSUME NEW v \in Writers, Sized(v, o), todo[r] = Length[v] PROVE OneList(r)
  <2>1. \A i \in DOMAIN done[r] : i \in 1 .. Length[v] /\ i \in PageNumbers
    BY <1>1, <1>6, WriterFacts
  <2>2. CASE \A i \in PageNumbers : page[o][i] = None
    BY <1>2, <2>1, <2>2 DEF OneList
  <2>3. ASSUME NEW w \in Writers, Sized(w, o), \A i \in 1 .. Length[w] : page[o][i] = w
        PROVE  OneList(r)
    <3>1. Length[w] = Length[v]
      BY <1>6, <2>3 DEF TwoLengths
    <3>. QED
      BY <1>2, <1>6, <2>1, <2>3, <3>1 DEF OneList
  <2>. QED
    BY <1>4, <2>2, <2>3 DEF Uniform
<1>. QED
  BY <1>1, <1>5, <1>6

LEMMA StepReading ==
  ASSUME IInv, PInv, NEW p \in Processes, Action(p)
  PROVE  Reading'
<1> SUFFICES ASSUME NEW r \in Readers, program'.readsInside, mapped'[r] > 0,
                    NEW o, o = object'[r], ~TwoLengths(o)'
             PROVE  /\ pc'[r] = "access" =>
                         \A i \in 1 .. Len(done'[r]) : done'[r][i] = page'[o][i]
                    /\ pc'[r] \in {"post", "ended"} => OneList(r)'
  BY DEF Reading
<1>0. r \in Processes /\ r \notin Writers /\ program.readsInside
  BY OwnStep, TableAssumption DEF Processes
<1>1. CASE ~(mapped[r] > 0)
  <2>1. r = p /\ MapToRead(p)
    <3>1. r = p
      BY <1>0, <1>1, Others
    <3>2. mapped' = mapped \/ MapToRead(p)
      BY <1>0, <3>1
         DEF Action, OpenSem, OpenShm, Wait, Access, Fault, EndAccess, Post, Kill, Die,
             ReadCount, private
    <3>. QED
      BY <1>1, <3>1, <3>2
  <2>2. pc'[r] = "wait"
    <3>1. /\ object[r] \in Objects
      BY <1>0, <2>1 DEF MapToRead, IInv, Mapping, Opening
    <3>2. mapped'[r] = size[object[r]]
      BY <1>0, <2>1 DEF MapToRead, IInv, Types
    <3>. QED
      BY <1>0, <2>1, <3>2 DEF MapToRead, Move, IInv, Types
  <2>. QED
    BY <2>2
<1>2. CASE mapped[r] > 0
  <2>1. /\ o = object[r] /\ o \in Objects /\ ~TwoLengths(o)
        /\ pc[r] = "access" =>
             \A i \in 1 .. Len(done[r]) : done[r][i] = page[o][i]
        /\ pc[r] \in {"post", "ended"} => OneList(r)
    <3>1. o = object[r] /\ o \in Objects
      BY <1>0, <1>2, MappedKept, ReaderFacts
    <3>2. ~TwoLengths(o)
      BY <3>1, SizedStep
    <3>. QED
      BY <1>0, <1>2, <3>1, <3>2 DEF PInv, Reading
  <2>2. CASE pc[r] = "access" /\ pc'[r] = "access"
    <3>1. CASE r = p
      <4>1. Access(p) /\ page' = page /\ done'[r] = Append(done[r], page[o][NextPage(r)])
        BY <1>0, <2>1, <2>2, <3>1, OwnStep DEF Access
      <4>2. page[o][NextPage(r)] \in Pages
        BY <2>1, <3>1, <4>1, PageExists DEF Access, IInv, Types
      <4>3. done[r] \in Seq(Pages)
        BY <1>0 DEF IInv, Types
      <4>4. Len(done'[r]) = Len(done[r]) + 1 /\ NextPage(r) = Len(done[r]) + 1
            /\ done'[r][NextPage(r)] = page[o][NextPage(r)]
            /\ \A i \in 1 .. Len(done[r]) : done'[r][i] = done[r][i]
        BY <4>1, <4>2, <4>3 DEF NextPage
      <4>5. \A i \in 1 .. Len(done'[r]) : i \in 1 .. Len(done[r]) \/ i = NextPage(r)
        BY <4>3, <4>4
      <4>. QED
        BY <2>1, <2>2, <4>1, <4>4, <4>5
    <3>2. CASE r # p
      <4>1. done'[r] = done[r] /\ todo'[r] = todo[r]
        BY <1>0, <3>2, Others
      <4>2. ~(p \in Writers /\ Access(p) /\ pc[p] = "access")
        BY <1>0, <2>2, <3>2, Alone DEF IsInside, Inside
      <4>3. ASSUME NEW i \in 1 .. Len(done[r]) PROVE page'[o][i] = page[o][i]
        <5>1. Len(done[r]) \in Nat /\ Len(done[r]) <= todo[r] /\ todo[r] # 0
          <6>1. Len(done[r]) \in Nat /\ Len(done[r]) <= todo[r] /\ todo[r] \in Nat
            BY <1>0, <2>2 DEF PInv, Progress, IInv, Types
          <6>. QED
            BY <4>3, <6>1
        <5>2. PICK w \in Writers : Sized(w, o) /\ todo[r] = Length[w]
          BY <1>2, <2>1, <2>2, <5>1, ReaderFacts
        <5>3. i \in 1 .. Length[w] /\ Sized(w, o)'
          BY <2>1, <5>1, <5>2, SizedStep, WriterFacts
        <5>. QED
          BY <2>1, <4>2, <5>3, PageStep
      <4>. QED
        BY <2>1, <2>2, <4>1, <4>3
    <3>. QED
      BY <3>1, <3>2
  <2>3. CASE pc[r] # "access" /\ pc'[r] = "access"
    <3>1. Early(r) /\ done'[r] = done[r]
      <4>1. r = p
        BY <1>0, <2>3, Others
      <4>. QED
        BY <1>0, <2>3, <4>1, OwnStep DEF Early
    <3>2. done'[r] = << >>
      BY <1>0, <3>1 DEF PInv, Progress
    <3>. QED
      BY <2>3, <3>2
  <2>4. CASE pc'[r] \in {"post", "ended"}
    <3>1. OneList(r) /\ done'[r] = done[r] /\ todo'[r] = todo[r]
      <4>1. CASE r # p
        BY <1>0, <2>1, <2>4, <4>1, Others
      <4>2. CASE r = p /\ pc[r] = "access"
        BY <1>0, <2>1, <2>4, <4>2, OwnStep, LastPageRead
      <4>3. CASE r = p /\ pc[r] # "access"
        <5>1. mapped'[r] # 0
          BY <1>2, <1>0, MappedKept DEF IInv, Types
        <5>2. pc[r] = "post"
          BY <1>0, <2>4, <4>3, <5>1, OwnStep
        <5>. QED
          BY <1>0, <2>1, <2>4, <4>3, <5>2, OwnStep
      <4>. QED
        BY <4>1, <4>2, <4>3
    <3>. QED
      BY <2>4, <3>1 DEF OneList
  <2>. QED
    BY <2>2, <2>3, <2>4
<1>. QED
  BY <1>1, <1>2

LEMMA StepPublished ==
  ASSUME IInv, PInv, NEW p \in Processes, Action(p)
  PROVE  PublishedFilled'
<1>1. published' = published
      \/ (EndAccess(p) /\ p \in Writers /\ published' = published \cup {object[p]})
  BY DEF Action, OpenSem, OpenShm, Wait, Access, Fault, EndAccess, Post, Kill, Die,
         SetSize, MapToWrite, WriteCount, MapFails, MapToRead, ReadCount, history
<1>2. ASSUME NEW o \in published
      PROVE  o \in Objects /\ Filled(o)'
  <2>1. o \in Objects /\ Filled(o)
    BY <1>2 DEF PInv, PublishedFilled
  <2>2. count'[o] # 0
    BY <2>1, CountStep DEF Filled
  <2>3. ASSUME ~TwoLengths(o)', NEW w \in Writers, Sized(w, o)', NEW i \in 1 .. Length[w]
        PROVE  page'[o][i] # None
    <3>0. ~TwoLengths(o) /\ i \in PageNumbers /\ page \in [Objects -> [PageNumbers -> Pages]]
      BY <2>1, <2>3, SizedStep, WriterFacts DEF IInv, Types
    <3>1. PICK v \in Writers : Sized(v, o)
      BY <2>1 DEF Filled, IInv, Lengths, LengthOf
    <3>2. Length[w] = Length[v]
      BY <2>1, <2>3, <3>1, SizedStep DEF TwoLengths
    <3>3. page[o][i] # None
      BY <2>1, <2>3, <3>0, <3>1, <3>2 DEF Filled
    <3>. QED
      BY <2>1, <2>3, <3>0, <3>3, PageStep, WriterFacts
  <2>. QED
    BY <2>1, <2>2, <2>3 DEF Filled
<1>3. ASSUME EndAccess(p), p \in Writers, NEW o, o = object[p]
      PROVE  o \in Objects /\ Filled(o)'
  <2>1. pc[p] = "access" /\ Len(done[p]) >= todo[p] /\ UNCHANGED <<page, count>>
    BY <1>3 DEF EndAccess, Move, MorePages, shared, IInv, Types
  <2>2. Sized(p, o) /\ o \in Objects
    BY <1>3, <2>1, WriterFacts
  <2>3. count'[o] # 0
    BY <1>3, <2>1 DEF PInv, Filling
  <2>4. ASSUME ~TwoLengths(o)', NEW w \in Writers, Sized(w, o)', NEW i \in 1 .. Length[w]
        PROVE  page'[o][i] # None
    <3>1. ~TwoLengths(o) /\ Sized(p, o)'
      BY <1>3, <2>2, <2>4, SizedStep
    <3>2. Length[w] = Length[p]
      BY <1>3, <2>4, <3>1 DEF TwoLengths
    <3>3. page[o][i] = p
      BY <1>3, <2>1, <2>4, <3>1, <3>2, LastPage DEF PInv
    <3>. QED
      BY <1>3, <2>1, <3>3, WriterFacts
  <2>. QED
    BY <2>2, <2>3, <2>4 DEF Filled
<1>. QED
  BY <1>1, <1>2, <1>3 DEF PInv, PublishedFilled

LEMMA StepSeen ==
  ASSUME IInv, PInv, NEW p \in Processes, Action(p)
  PROVE  SeenFilled'
<1>1. published \subseteq published'
      /\ (seen' = seen \/ (Wait(p) /\ p \in Readers /\ pc[p] = "wait"
                           /\ seen' = [seen EXCEPT ![p] = published]))
  BY DEF Action, OpenSem, OpenShm, Wait, Access, Fault, EndAccess, Post, Kill, Die, Move,
         SetSize, MapToWrite, WriteCount, MapFails, MapToRead, ReadCount, history
<1>2. program' = program
  BY OwnStep
<1>2a. seen \in [Readers -> SUBSET published] /\ seen' \in [Readers -> SUBSET published']
  <2>1. seen \in [Readers -> SUBSET published]
    BY DEF PInv, SeenFilled
  <2>2. SUBSET published \subseteq SUBSET published' /\ published \in SUBSET published'
    BY <1>1
  <2>. QED
    BY <1>1, <2>1, <2>2
<1>2b. ASSUME NEW r \in Readers, pc'[r] \in Unmapped \cup {"wait"}
       PROVE  seen'[r] = {}
  <2>0. r \in Processes /\ r \notin Writers
    BY TableAssumption DEF Processes
  <2>1. pc[r] \in Unmapped
        \/ (r # p /\ pc[r] = pc'[r])
    BY <1>2b, <2>0, Others, OwnStep DEF Unmapped
  <2>2. seen[r] = {} /\ (r # p \/ pc[r] # "wait")
    BY <1>2b, <2>1 DEF PInv, SeenFilled, Unmapped
  <2>. QED
    BY <1>1, <1>2a, <2>2
<1>2c. SUFFICES ASSUME NEW r \in Readers, NEW o, o = object'[r], o \in seen'[r]
                PROVE  /\ pc'[r] = "access" => todo'[r] # 0
                       /\ ~TwoLengths(o)' => NoGap(r)'
                       /\ pc'[r] = "ended" \/ (pc'[r] = "post" /\ program'.readsInside) =>
                            done'[r] # << >>
  BY <1>2a, <1>2b DEF SeenFilled
<1>3. CASE object[r] \notin seen[r]
  <2>0. r \in Processes /\ r \notin Writers
    BY TableAssumption DEF Processes
  <2>1. CASE seen'[r] = seen[r]
    <3>1. r = p /\ OpenShm(p)
      <4>1. r = p
        BY <1>3, <2>0, <2>1, <1>2c, Others
      <4>2. object' = object \/ OpenShm(p)
        BY DEF Action, OpenSem, Wait, Access, Fault, EndAccess, Post, Kill, Die,
               SetSize, MapToWrite, WriteCount, MapFails, MapToRead, ReadCount, private
      <4>. QED
        BY <1>2c, <1>3, <2>1, <4>1, <4>2
    <3>2. seen[r] = {}
      BY <3>1 DEF OpenShm, Move, PInv, SeenFilled, Unmapped
    <3>. QED
      BY <1>2c, <2>1, <3>2
  <2>2. CASE seen'[r] # seen[r]
    <3>1. r = p /\ Wait(p)
      BY <1>1, <1>2a, <2>2
    <3>2. /\ pc[r] = "wait" /\ object' = object /\ done' = done
          /\ pc'[r] = IF program.readsInside THEN "count" ELSE "post"
      BY <2>0, <3>1 DEF Wait, Move, private, IInv, Types
    <3>3. done[r] = << >>
      BY <2>0, <3>2 DEF PInv, Progress, Early
    <3>4. NoGap(r)'
      BY <3>2, <3>3 DEF NoGap
    <3>. QED
      BY <1>2, <3>2, <3>4
  <2>. QED
    BY <2>1, <2>2
<1>4. CASE object[r] \in seen[r]
  <2>1. /\ object[r] \in published
        /\ pc[r] \notin Unmapped \cup {"wait"}
        /\ pc[r] = "access" => todo[r] # 0
        /\ ~TwoLengths(object[r]) => NoGap(r)
        /\ pc[r] = "ended" \/ (pc[r] = "post" /\ program.readsInside) => done[r] # << >>
    BY <1>2a, <1>4 DEF PInv, SeenFilled
  <2>2. r \in Processes /\ r \notin Writers /\ object[r] \in Objects /\ Filled(object[r])
    BY <2>1, TableAssumption DEF Processes, PInv, PublishedFilled
  <2>3. CASE r # p
    <3>1. ~TwoLengths(object[r])' => ~TwoLengths(object[r])
      <4>1. PICK x : x = object[r]
        OBVIOUS
      <4>2. ~TwoLengths(x)' => ~TwoLengths(x)
        BY <2>2, <4>1, SizedStep
      <4>3. object'[r] = x
        BY <2>2, <2>3, <4>1, Others
      <4>. QED
        BY <4>1, <4>2, <4>3
    <3>. QED
      BY <1>1, <1>2, <1>2c, <2>1, <2>2, <2>3, <3>1, Others DEF NoGap
  <2>4. CASE r = p
    <3>1. object'[r] = object[r] /\ pc[r] \in {"count", "access", "post", "late"}
          /\ mapped[r] > 0
      <4>1. pc[r] \in {"count", "access", "post", "late"}
        BY <2>1, <2>2, <2>4, OwnStep DEF IInv, Types, Places, Unmapped
      <4>2. mapped[r] > 0
        BY <2>2, <4>1 DEF IInv, Mapping, Opening, Unmapped
      <4>. QED
        BY <2>2, <4>1, <4>2, MappedKept
    <3>2. ~TwoLengths(o)' => ~TwoLengths(object[r])
      BY <1>2c, <2>2, <3>1, SizedStep
    <3>4. CASE pc[r] = "access" /\ pc'[r] = "access"
      <4>1. Access(p) /\ page' = page /\ todo'[r] = todo[r] /\ NextPage(r) <= mapped[r]
            /\ done'[r] = Append(done[r], page[object[r]][NextPage(r)])
        BY <2>2, <2>4, <3>4, OwnStep DEF Access
      <4>2. done[r] \in Seq(Pages) /\ page[object[r]][NextPage(r)] \in Pages
        BY <2>2, <2>4, <4>1, PageExists DEF Access, IInv, Types
      <4>3. ASSUME ~TwoLengths(o)'
            PROVE  page[object[r]][NextPage(r)] # None
        <5>1. PICK w \in Writers : Sized(w, object[r]) /\ mapped[r] = Length[w]
          BY <2>1, <3>1, ReaderFacts
        <5>2. NextPage(r) \in 1 .. Length[w]
          BY <4>1, <4>2, <5>1, WriterFacts DEF NextPage
        <5>. QED
          BY <2>2, <3>2, <4>3, <5>1, <5>2 DEF Filled
      <4>4. ~TwoLengths(o)' => NoGap(r)'
        BY <2>1, <3>2, <4>1, <4>2, <4>3 DEF NoGap
      <4>. QED
        BY <1>1, <2>1, <3>1, <3>4, <4>1, <4>4
    <3>5. CASE pc[r] # "access" /\ pc'[r] = "access"
      <4>1. ReadCount(r) /\ done'[r] = done[r]
        BY <2>2, <2>4, <3>5, OwnStep
      <4>2. todo'[r] # 0
        BY <2>2, <3>1, <4>1 DEF ReadCount, Filled, IInv, Types
      <4>. QED
        BY <1>1, <2>1, <3>1, <3>2, <3>5, <4>1, <4>2 DEF NoGap
    <3>6. CASE pc'[r] # "access"
      <4>1. done'[r] = done[r]
        BY <2>4, <3>6, OwnStep
      <4>2. ~TwoLengths(o)' => NoGap(r)'
        BY <2>1, <3>2, <4>1 DEF NoGap
      <4>3. ASSUME pc'[r] = "ended" \/ (pc'[r] = "post" /\ program'.readsInside)
            PROVE  done[r] # << >>
        <5>1. CASE pc[r] = "access"
          <6>1. Len(done[r]) >= todo[r] /\ todo[r] # 0 /\ todo[r] \in Nat
            BY <2>1, <2>2, <2>4, <3>6, <4>3, <5>1, OwnStep DEF IInv, Types
          <6>. QED
            BY <6>1
        <5>2. CASE pc[r] # "access"
          BY <1>2, <2>1, <2>2, <2>4, <3>1, <4>3, <5>2, OwnStep
        <5>. QED
          BY <5>1, <5>2
      <4>. QED
        BY <1>1, <2>1, <3>1, <3>6, <4>1, <4>2, <4>3
    <3>. QED
      BY <3>4, <3>5, <3>6
  <2>. QED
    BY <2>3, <2>4
<1>. QED
  BY <1>3, <1>4

LEMMA StepUnlinked ==
  ASSUME IInv, PInv, NEW p \in Processes, Action(p)
  PROVE  Unlinked'
<1> USE DEF Move, shared, private, history
<1>0. /\ Types /\ Unlinked /\ program' = program /\ made \in Nat
      /\ object \in [Processes -> {0} \cup Objects] /\ Writers \subseteq Processes
  BY OwnStep DEF PInv, IInv, Types, Processes
<1>1. ASSUME NEW w \in Writers, Unlinker(w)
      PROVE  Unlinker(w)'
  <2>1. w # p
    BY <1>1, OwnStep DEF Unlinker
  <2>. QED
    BY <1>0, <1>1, <2>1, Others DEF Unlinker
<1>2. CASE OpenShm(p)
  <2>1. published' = published /\ (object' = [object EXCEPT ![p] = name'])
    BY <1>2 DEF OpenShm
  <2>2. \/ made' = made /\ name' = name
        \/ name = 0 /\ made' = made + 1 /\ name' = made + 1
    BY <1>2 DEF OpenShm
  <2>3. name' \in {0, made'} /\ made <= made' /\ made' \in Nat
    BY <1>0, <2>2 DEF Unlinked
  <2>4. \A q \in Processes : object'[q] <= made'
    BY <1>0, <2>1, <2>3 DEF Unlinked, Objects
  <2>5. \A o \in published' : o <= made'
    BY <1>0, <2>1, <2>2 DEF Unlinked, PInv, PublishedFilled, Objects
  <2>6. ASSUME made' > (IF name' = 0 THEN 0 ELSE 1)
        PROVE  made > (IF name = 0 THEN 0 ELSE 1)
    BY <1>0, <2>2, <2>6
  <2>. QED
    BY <1>0, <1>1, <2>3, <2>4, <2>5, <2>6 DEF Unlinked
<1>3. CASE p \in Writers /\ MapFails(p)
  <2>1. UNCHANGED <<made, object, published, mapped>> /\ pc' = [pc EXCEPT ![p] = "ended"]
        /\ pc[p] \in {"size", "map"} /\ name' = IF program.counted THEN 0 ELSE name
    BY <1>3 DEF MapFails
  <2>2. program.counted => Unlinker(p)'
    BY <1>0, <1>3, <2>1 DEF Unlinker, IInv, Types, Mapping, Unmapped
  <2>. QED
    BY <1>0, <1>1, <1>3, <2>1, <2>2 DEF Unlinked
<1>4. CASE ~OpenShm(p) /\ ~(p \in Writers /\ MapFails(p))
  <2>1. UNCHANGED <<made, name, object>>
        /\ (published' = published \/ published' = published \cup {object[p]})
    BY <1>4 DEF Action, OpenSem, Wait, Access, Fault, EndAccess, Post, Kill, Die,
                SetSize, MapToWrite, WriteCount, MapToRead, ReadCount
  <2>. QED
    BY <1>0, <1>1, <2>1 DEF Unlinked
<1>. QED
  BY <1>2, <1>3, <1>4

LEMMA InitPInv == Init => PInv
<1> SUFFICES ASSUME Init PROVE PInv
  OBVIOUS
<1> USE DEF Init
<1>1. Progress
  BY DEF Progress
<1>2. Orderly
  BY DEF Orderly, Uniform
<1>3. Filling
  BY DEF Filling, Processes
<1>4. Reading
  BY DEF Reading, Processes
<1>5. PublishedFilled /\ SeenFilled /\ Unlinked
  BY TableAssumption DEF PublishedFilled, SeenFilled, Unlinked
<1>. QED
  BY <1>1, <1>2, <1>3, <1>4, <1>5 DEF PInv

\* PInv holds in every reachable state.
THEOREM PagesInOrder == Spec => [](IInv /\ PInv)
<1>1. ASSUME IInv, PInv, NEW p \in Processes, Action(p)
      PROVE  PInv'
  <2>1. Progress' /\ Filling'
    BY <1>1, StepProgress, StepFilling DEF PInv
  <2>2. Orderly'
    BY <1>1, StepOrderly DEF PInv
  <2>3. Reading'
    BY <1>1, StepReading
  <2>4. PublishedFilled'
    BY <1>1, StepPublished
  <2>5. SeenFilled' /\ Unlinked'
    BY <1>1, StepSeen, StepUnlinked
  <2>. QED
    BY <2>1, <2>2, <2>3, <2>4, <2>5 DEF PInv
<1>2. ASSUME PInv, UNCHANGED vars
      PROVE  PInv'
  <2> USE <1>2 DEF PInv, vars, shared, private, history, TwoLengths, Sized
  <2>1. Progress' /\ Filling'
    BY DEF Progress, Early, Filling
  <2>2. Orderly'
    BY DEF Orderly, Uniform, Unfinished
  <2>3. Reading'
    BY DEF Reading, OneList
  <2>4. PublishedFilled'
    BY DEF PublishedFilled, Filled
  <2>5. SeenFilled' /\ Unlinked'
    BY DEF SeenFilled, NoGap, Unlinked, Unlinker
  <2>. QED
    BY <2>1, <2>2, <2>3, <2>4, <2>5
<1>3. IInv /\ PInv /\ [Next]_vars => PInv'
  BY <1>1, <1>2, NextIsAction
<1>. QED
  BY <1>3, InitPInv, Invariance, PTL DEF Spec

\* A reader that reads inside its section gets one writer's list to its end,
\* unless the object was given two sizes, or zeros if no writer had filled it by
\* then (shmreader's loop between sem_wait and sem_post).
THEOREM WholeLists == Spec => []WholeList
<1>1. ASSUME IInv, PInv PROVE WholeList
  <2>1. SUFFICES ASSUME NEW r \in Readers, Finished(r), program.readsInside,
                        ~TwoLengths(object[r])
                 PROVE  \/ /\ object[r] \notin seen[r]
                           /\ \A i \in DOMAIN done[r] : done[r][i] = None
                        \/ \E w \in Writers :
                             todo[r] = Length[w] /\ \A i \in DOMAIN done[r] : done[r][i] = w
    BY DEF WholeList
  <2>2. OneList(r)
    BY <1>1, <2>1 DEF PInv, Reading, Finished
  <2>3. object[r] \in seen[r] => NoGap(r) /\ done[r] # << >>
    BY <1>1, <2>1 DEF PInv, SeenFilled, Finished
  <2>4. done[r] # << >> => DOMAIN done[r] # {}
    <3>1. done[r] \in Seq(Pages)
      BY <1>1 DEF IInv, Types, Processes
    <3>2. done[r] # << >> => Len(done[r]) # 0
      BY <3>1
    <3>3. DOMAIN done[r] = 1 .. Len(done[r]) /\ Len(done[r]) \in Nat
      BY <3>1
    <3>. QED
      BY <3>2, <3>3
  <2>. QED
    BY <2>2, <2>3, <2>4 DEF OneList, NoGap
<1>. QED
  BY <1>1, PagesInOrder, PTL

\* A reader that came after a writer's sem_post sees no gap, also where it reads
\* after its own sem_post (mypractice/reader.c), but for two sizes of its object,
\* and for a second object that a failed writer's unlink has made room for.
THEOREM NoGapRead == Spec => []NoGapOncePublished
<1>1. ASSUME IInv, PInv PROVE NoGapOncePublished
  <2>1. SUFFICES ASSUME NEW r \in Readers, Finished(r), seen[r] # {},
                        ~TwoLengths(object[r])
                 PROVE  \/ done[r] # << >> /\ \A i \in DOMAIN done[r] : done[r][i] # None
                        \/ object[r] \notin seen[r] /\ \E w \in Writers : Unlinker(w)
    BY DEF NoGapOncePublished
  <2>2. CASE object[r] \in seen[r]
    BY <1>1, <2>1, <2>2 DEF PInv, SeenFilled, NoGap, Finished
  <2>3. CASE object[r] \notin seen[r]
    <3>1. PICK o \in seen[r] : TRUE
      BY <2>1
    <3>2. o \in published /\ o \in Objects /\ o <= made /\ o # object[r]
      BY <1>1, <2>3, <3>1 DEF PInv, SeenFilled, PublishedFilled, Unlinked
    <3>3. object[r] \in Objects /\ object[r] <= made
      BY <1>1, <2>1, ReaderFacts DEF Finished, PInv, Unlinked
    <3>4. made >= 2
      BY <1>1, <3>2, <3>3 DEF Objects, IInv, Types
    <3>5. made > (IF name = 0 THEN 0 ELSE 1)
      BY <1>1, <3>4 DEF IInv, Types
    <3>. QED
      BY <1>1, <2>3, <3>5 DEF PInv, Unlinked
  <2>. QED
    BY <2>2, <2>3
<1>. QED
  BY <1>1, PagesInOrder, PTL
=============================================================================
