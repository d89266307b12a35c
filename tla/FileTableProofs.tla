-------------------------- MODULE FileTableProofs ---------------------------
(* The file system calls contain their failures and respect the table of   *)
(* open files, in the latest handler (FileTable) and in the one of the     *)
(* snapshot phna_13112022 (OpenFiles), for tables of every size, any names *)
(* and any lengths of files.                                               *)
EXTENDS FileTable, FiniteSetTheorems, SequenceTheorems, WellFoundedInduction, TLAPS

CONSTANTS LastSlot, LastClosable, BufferLength, MaxLine
VARIABLES files, openf, buffer

(* The table of the snapshot; names, lengths and r2 are those of FileTable. *)
Old == INSTANCE OpenFiles

USE DEF unix, table

(* A set of natural numbers that has an element has a least one.           *)
LEMMA Least ==
  ASSUME NEW T, T \subseteq Nat, T # {}
  PROVE  \E m \in T : \A x \in T : m <= x
<1> DEFINE R == {p \in Nat \X Nat : p[1] < p[2]}
<1>1. IsWellFoundedOn(R, Nat)
  BY NatLessThanWellFounded DEF OpToRel
<1>2. \A x, y \in Nat : x < y => <<x, y>> \in R
  OBVIOUS
<1> HIDE DEF R
<1>3. PICK m \in T : \A x \in T : ~(<<x, m>> \in R)
  BY <1>1, WFMin
<1>4. \A x \in T : ~(x < m)
  BY <1>2, <1>3
<1> QED BY <1>3, <1>4

----------------------------------------------------------------------------
(* The latest handler.                                                     *)

(* FindSlot returns the first free slot behind the console's two, or -1 if *)
(* there is none.                                                          *)
LEMMA FindSlotExact ==
  ASSUME FindSlot # -1
  PROVE  /\ FindSlot \in 2 .. MaxSlot /\ opened[FindSlot] = NoFile
         /\ \A s \in 2 .. MaxSlot : opened[s] = NoFile => FindSlot <= s
<1> DEFINE free == {s \in 2 .. MaxSlot : opened[s] = NoFile}
<1>1. free # {} /\ FindSlot = CHOOSE s \in free : \A u \in free : s <= u
  BY DEF FindSlot
<1>2. free \subseteq Nat
  BY FileTableAssumption
<1>3. \E s \in free : \A u \in free : s <= u
  BY <1>1, <1>2, Least
<1>4. FindSlot \in free /\ \A u \in free : FindSlot <= u
  BY <1>1, <1>3
<1> QED BY <1>4

(* Open and Close keep count, and what fails to open is counted as well.   *)
IndexCounts == Cardinality(OpenSlots) + 3 <= index

(* A Read that failed is executed again with its result in r2.             *)
ReadFailed == again => r2 = -1

TableInv == TypeOK /\ IndexCounts /\ ReadFailed

LEMMA SlotsFinite ==
  ASSUME NEW S, S \subseteq Slot PROVE IsFiniteSet(S) /\ Cardinality(S) \in Nat
<1>1. IsFiniteSet(Slot)
  BY FileTableAssumption, FS_Interval DEF Slot
<1> QED BY <1>1, FS_Subset, FS_CardinalityType

(* A change of one slot of the table.                                      *)
LEMMA OneSlot ==
  ASSUME opened \in [Slot -> OpenFile \cup {NoFile}],
         NEW id \in Slot, NEW f \in OpenFile \cup {NoFile},
         opened' = [opened EXCEPT ![id] = f]
  PROVE  /\ opened' \in [Slot -> OpenFile \cup {NoFile}]
         /\ opened'[id] = f /\ \A u \in Slot \ {id} : opened'[u] = opened[u]
         /\ Cardinality(OpenSlots') <= Cardinality(OpenSlots) + 1
         /\ id \in OpenSlots => Cardinality(OpenSlots') <= Cardinality(OpenSlots)
         /\ id \in OpenSlots /\ f = NoFile =>
              Cardinality(OpenSlots') = Cardinality(OpenSlots) - 1
<1>1. /\ opened' \in [Slot -> OpenFile \cup {NoFile}]
      /\ opened'[id] = f /\ \A u \in Slot \ {id} : opened'[u] = opened[u]
  OBVIOUS
<1>2. /\ OpenSlots \subseteq Slot /\ OpenSlots' \subseteq OpenSlots \cup {id}
      /\ OpenSlots \ {id} \subseteq OpenSlots'
      /\ f = NoFile => OpenSlots' = OpenSlots \ {id}
  BY <1>1 DEF OpenSlots
<1>3. /\ IsFiniteSet(OpenSlots) /\ Cardinality(OpenSlots) \in Nat
      /\ IsFiniteSet(OpenSlots') /\ Cardinality(OpenSlots') \in Nat
  BY <1>2, SlotsFinite
<1>4. /\ IsFiniteSet(OpenSlots \cup {id})
      /\ Cardinality(OpenSlots \cup {id}) <= Cardinality(OpenSlots) + 1
  <2>1. /\ IsFiniteSet(OpenSlots \cup {id})
        /\ Cardinality(OpenSlots \cup {id}) \in {Cardinality(OpenSlots), Cardinality(OpenSlots) + 1}
    BY <1>3, FS_AddElement
  <2> QED BY <1>3, <2>1
<1>5. Cardinality(OpenSlots') <= Cardinality(OpenSlots \cup {id})
  BY <1>2, <1>4, FS_Subset
<1>6. id \in OpenSlots => OpenSlots \cup {id} = OpenSlots
  OBVIOUS
<1>7. id \in OpenSlots => Cardinality(OpenSlots \ {id}) = Cardinality(OpenSlots) - 1
  BY <1>3, FS_RemoveElement
<1>8. Cardinality(OpenSlots \cup {id}) \in Nat
  BY <1>4, FS_CardinalityType
<1>9. Cardinality(OpenSlots') <= Cardinality(OpenSlots) + 1
  BY <1>3, <1>4, <1>5, <1>8
<1> QED BY <1>1, <1>2, <1>5, <1>6, <1>7, <1>9

LEMMA TableStarts == Init => TableInv
<1> SUFFICES ASSUME Init PROVE TableInv
  OBVIOUS
<1> USE FileTableAssumption
<1>1. PICK first \in {0, 1} : opened = StdTable(first)
  BY DEF Init
<1>2. first \in Slot /\ first + 2 \in Slot /\ first # first + 2
  BY DEF Slot
<1>3. /\ [inode |-> "stdin", pos |-> 0] \in OpenFile
      /\ [inode |-> "stdout", pos |-> 0] \in OpenFile
  BY DEF OpenFile, File, Std
<1>4. opened \in [Slot -> OpenFile \cup {NoFile}]
  BY <1>1, <1>3 DEF StdTable
<1>5. OpenSlots \subseteq {first, first + 2}
  BY <1>1 DEF StdTable, OpenSlots
<1>6. Cardinality({first, first + 2}) = 2 /\ IsFiniteSet({first, first + 2})
  <2>1. IsFiniteSet({first}) /\ Cardinality({first}) = 1
    BY FS_Singleton
  <2>2. /\ IsFiniteSet({first} \cup {first + 2})
        /\ Cardinality({first} \cup {first + 2}) = 1 + 1
    BY <1>2, <2>1, FS_AddElement
  <2>3. {first} \cup {first + 2} = {first, first + 2}
    OBVIOUS
  <2> QED BY <2>2, <2>3
<1>7. Cardinality(OpenSlots) <= Cardinality({first, first + 2})
  BY <1>5, <1>6, FS_Subset
<1>8. Cardinality(OpenSlots) \in Nat /\ Cardinality(OpenSlots) <= 2
  BY <1>6, <1>7, SlotsFinite DEF OpenSlots
<1>9. IndexCounts
  BY <1>8 DEF Init, IndexCounts
<1>10. /\ dir \in [Name -> Inode \cup {NoInode}] /\ length \in [File -> 0 .. MaxLength]
       /\ index \in Nat /\ r2 \in Int /\ again \in BOOLEAN
  <2>1. 0 \in 0 .. MaxLength /\ index \in Nat /\ r2 \in Int
    BY DEF Init
  <2> QED BY <2>1 DEF Init
<1> QED BY <1>4, <1>9, <1>10 DEF TableInv, TypeOK, ReadFailed, Init

(* A call that leaves everything but its result alone.                     *)
LEMMA NothingDone ==
  ASSUME TableInv, UNCHANGED <<unix, table>>, r2' \in Int, again' \in BOOLEAN,
         again' => r2' = -1, again => r2' = -1
  PROVE  TableInv' /\ CallContained
<1>1. OpenSlots' = OpenSlots
  BY DEF OpenSlots
<1>2. TableInv'
  BY <1>1 DEF TableInv, TypeOK, IndexCounts, ReadFailed
<1> QED BY <1>2 DEF CallContained, FailureHarmless, OpenTakesFreeSlot

(* A call that changes one slot, and perhaps a length.                     *)
LEMMA OneSlotCalled ==
  ASSUME TableInv, ~again, NEW id \in Slot, NEW f \in OpenFile \cup {NoFile},
         opened' = [opened EXCEPT ![id] = f],
         index' = index \/ (index' = index + 1 /\ index' \in Nat)
           \/ (index' = index - 1 /\ id \in OpenSlots /\ f = NoFile),
         index' = index => id \in OpenSlots,
         length' \in [File -> 0 .. MaxLength], dir' = dir,
         again' = FALSE, r2' \in Int,
         r2' = -1 => opened' = opened /\ length' = length,
         \/ f = NoFile
         \/ opened[id] = NoFile /\ r2' = id
         \/ opened[id] # NoFile /\ f.inode = opened[id].inode
  PROVE  TableInv' /\ CallContained
<1>1. /\ opened' \in [Slot -> OpenFile \cup {NoFile}]
      /\ opened'[id] = f /\ \A u \in Slot \ {id} : opened'[u] = opened[u]
      /\ Cardinality(OpenSlots') <= Cardinality(OpenSlots) + 1
      /\ id \in OpenSlots => Cardinality(OpenSlots') <= Cardinality(OpenSlots)
      /\ id \in OpenSlots /\ f = NoFile => Cardinality(OpenSlots') = Cardinality(OpenSlots) - 1
  BY OneSlot DEF TableInv, TypeOK
<1>2. Cardinality(OpenSlots) \in Nat /\ Cardinality(OpenSlots') \in Nat
  BY SlotsFinite DEF OpenSlots
<1>3. index \in Nat /\ Cardinality(OpenSlots) + 3 <= index
  BY DEF TableInv, TypeOK, IndexCounts
<1>4. index' \in Nat /\ Cardinality(OpenSlots') + 3 <= index'
  BY <1>1, <1>2, <1>3
<1>5. TableInv'
  BY <1>1, <1>4 DEF TableInv, TypeOK, IndexCounts, ReadFailed
<1>6. OpenTakesFreeSlot
  BY <1>1 DEF OpenTakesFreeSlot
<1> QED BY <1>5, <1>6 DEF CallContained, FailureHarmless

LEMMA OpenKeeps ==
  ASSUME TableInv, ~again, NEW n \in Name, NEW type \in 0 .. 4, Open(n, type)
  PROVE  TableInv' /\ CallContained
<1>1. ASSUME UNCHANGED <<unix, table>>, r2' \in Int, again' = FALSE
      PROVE  TableInv' /\ CallContained
  BY <1>1, NothingDone
<1>2. ASSUME FindSlot # -1, OpenInSlot(FindSlot, n) PROVE TableInv' /\ CallContained
  <2> DEFINE slot == FindSlot
  <2>1. slot \in Slot /\ slot \in 2 .. MaxSlot /\ opened[slot] = NoFile
    BY <1>2, FindSlotExact, FileTableAssumption DEF Slot
  <2>2. /\ index' = index + 1 /\ index \in Nat /\ length' = length /\ dir' = dir
        /\ length \in [File -> 0 .. MaxLength] /\ again' = FALSE
        /\ opened \in [Slot -> OpenFile \cup {NoFile}]
        /\ dir[n] \in Inode \cup {NoInode}
    BY <1>2 DEF OpenInSlot, Failed, Result, TableInv, TypeOK
  <2>3. CASE dir[n] = NoInode
    <3>1. opened' = [opened EXCEPT ![slot] = NoFile] /\ r2' = -1
      BY <1>2, <2>3 DEF OpenInSlot, Failed, Result
    <3>2. opened' = opened
      BY <2>1, <2>2, <3>1
    <3> HIDE DEF slot
    <3>3. r2' \in Int /\ index' \in Nat /\ index' # index
      BY <2>2, <3>1
    <3> QED BY <2>1, <2>2, <3>1, <3>2, <3>3, OneSlotCalled
  <2>4. CASE dir[n] # NoInode
    <3> DEFINE f == [inode |-> dir[n], pos |-> 0]
    <3>1. opened' = [opened EXCEPT ![slot] = f] /\ r2' = slot
      BY <1>2, <2>4 DEF OpenInSlot, Failed, Result
    <3>2. f \in OpenFile
      BY <2>2, <2>4 DEF OpenFile, File
    <3>3. r2' \in Int /\ r2' # -1 /\ index' \in Nat /\ index' # index
      BY <2>1, <2>2, <3>1
    <3> HIDE DEF slot, f
    <3> QED BY <2>1, <2>2, <3>1, <3>2, <3>3, OneSlotCalled
  <2> QED BY <2>3, <2>4
<1>3. CASE FindSlot = -1 \/ type \notin 0 .. 3
  <2>1. UNCHANGED <<unix, table>> /\ r2' = -1 /\ again' = FALSE
    BY <1>3 DEF Open, Failed, Result
  <2>2. -1 \in Int
    OBVIOUS
  <2> QED BY <1>1, <2>1, <2>2
<1>4. CASE FindSlot # -1 /\ type \in {0, 1}
  <2>1. OpenInSlot(FindSlot, n)
    BY <1>4 DEF Open
  <2> QED BY <1>2, <1>4, <2>1
<1>5. CASE FindSlot # -1 /\ type \in {2, 3}
  <2>1. UNCHANGED <<unix, table>> /\ r2' = type - 2 /\ again' = FALSE
    BY <1>5 DEF Open, Result
  <2>2. type - 2 \in Int
    OBVIOUS
  <2> QED BY <1>1, <2>1, <2>2
<1> QED BY <1>3, <1>4, <1>5
LEMMA CloseKeeps ==
  ASSUME TableInv, ~again, NEW id \in Slot, Close(id)
  PROVE  TableInv' /\ CallContained
<1>1. -1 \in Int /\ 0 \in Int
  OBVIOUS
<1>2. CASE id \in OpenSlots
  <2>1. /\ opened' = [opened EXCEPT ![id] = NoFile] /\ index' = index - 1
        /\ length' = length /\ dir' = dir /\ again' = FALSE /\ r2' = 0
        /\ length \in [File -> 0 .. MaxLength] /\ index \in Nat
    BY <1>2 DEF Close, Result, TableInv, TypeOK
  <2>2. index' # index /\ r2' # -1 /\ NoFile \in OpenFile \cup {NoFile}
    BY <2>1
  <2> QED BY <1>1, <1>2, <2>1, <2>2, OneSlotCalled
<1>3. CASE id \notin OpenSlots
  <2>1. UNCHANGED <<unix, table>> /\ r2' = -1 /\ again' = FALSE
    BY <1>3 DEF Close, Failed, Result
  <2> QED BY <1>1, <2>1, NothingDone
<1> QED BY <1>2, <1>3

(* A call that moves the position of an open file.                         *)
LEMMA Moved ==
  ASSUME TableInv, ~again, NEW id \in OpenSlots, NEW pos \in Nat,
         opened' = [opened EXCEPT ![id].pos = pos], index' = index,
         length' \in [File -> 0 .. MaxLength], dir' = dir,
         again' = FALSE, r2' \in Int, r2' # -1
  PROVE  TableInv' /\ CallContained
<1> DEFINE f == [opened[id] EXCEPT !.pos = pos]
<1>1. opened[id] \in OpenFile /\ opened[id] # NoFile /\ id \in Slot
  BY DEF TableInv, TypeOK, OpenSlots
<1>2. f \in OpenFile /\ f.inode = opened[id].inode
  BY <1>1 DEF OpenFile
<1>3. opened' = [opened EXCEPT ![id] = f]
  OBVIOUS
<1> HIDE DEF f
<1> QED BY <1>1, <1>2, <1>3, OneSlotCalled

LEMMA ReadKeeps ==
  ASSUME TableInv, ~again, NEW id \in Slot, NEW n \in 0 .. MaxLength, Read(id, n)
  PROVE  TableInv' /\ CallContained
<1>1. CASE id \notin OpenSlots
  <2>1. UNCHANGED <<unix, table>> /\ r2' = -1 /\ again' = TRUE
    BY <1>1 DEF Read
  <2>2. -1 \in Int
    OBVIOUS
  <2> QED BY <2>1, <2>2, NothingDone
<1>2. CASE id \in OpenSlots
  <2> DEFINE f == opened[id]
             size == length[f.inode]
             k == IF f.pos < size THEN Lesser(n, size - f.pos) ELSE 0
             pos == f.pos + k
  <2>1. f \in OpenFile /\ length \in [File -> 0 .. MaxLength]
    BY <1>2 DEF OpenSlots, TableInv, TypeOK
  <2>2. f.pos \in Nat /\ size \in 0 .. MaxLength
    BY <2>1 DEF OpenFile
  <2>3. k \in Nat
    BY <2>2, FileTableAssumption DEF Lesser
  <2>4. /\ opened' = [opened EXCEPT ![id].pos = pos] /\ r2' = (IF k > 0 THEN k ELSE -2)
        /\ again' = FALSE /\ UNCHANGED <<unix, index>>
    BY <1>2 DEF Read, Result
  <2>5. pos \in Nat /\ r2' \in Int /\ r2' # -1
    BY <2>2, <2>3, <2>4
  <2>6. dir' = dir /\ length' = length /\ index' = index
    BY <2>4
  <2> HIDE DEF f, size, k, pos
  <2> QED BY <1>2, <2>1, <2>4, <2>5, <2>6, Moved
<1> QED BY <1>1, <1>2

LEMMA WriteKeeps ==
  ASSUME TableInv, ~again, NEW id \in Slot, NEW n \in 0 .. MaxLength, NEW name \in Name,
         Write(id, n, name)
  PROVE  TableInv' /\ CallContained
<1>1. CASE id \notin OpenSlots
  <2>1. UNCHANGED <<unix, table>> /\ r2' = -1 /\ again' = FALSE
    BY <1>1 DEF Write, Failed, Result
  <2>2. -1 \in Int
    OBVIOUS
  <2> QED BY <2>1, <2>2, NothingDone
<1>2. CASE id \in OpenSlots /\ n = 0
  BY <1>2, OpenKeeps DEF Write
<1>3. CASE id \in OpenSlots /\ n # 0
  <2> DEFINE f == opened[id]
             end == f.pos + n
  <2>1. f \in OpenFile /\ length \in [File -> 0 .. MaxLength]
    BY <1>3 DEF OpenSlots, TableInv, TypeOK
  <2>2. f.pos \in Nat /\ end \in Nat /\ n \in Nat /\ n # -1
    BY <2>1, FileTableAssumption DEF OpenFile
  <2>3. /\ end <= MaxLength
        /\ length' = [length EXCEPT ![f.inode] = IF end > @ THEN end ELSE @]
        /\ opened' = [opened EXCEPT ![id].pos = end] /\ r2' = n /\ again' = FALSE
        /\ dir' = dir /\ index' = index
    BY <1>3 DEF Write, Result
  <2>4. end \in 0 .. MaxLength
    BY <2>2, <2>3, FileTableAssumption
  <2> HIDE DEF end
  <2>5. length' \in [File -> 0 .. MaxLength]
    BY <2>1, <2>3, <2>4
  <2>6. r2' \in Int /\ r2' # -1
    BY <2>2, <2>3
  <2> QED BY <1>3, <2>2, <2>3, <2>5, <2>6, Moved
<1> QED BY <1>1, <1>2, <1>3

LEMMA SeekKeeps ==
  ASSUME TableInv, ~again, NEW id \in Slot, NEW pos \in -1 .. MaxLength + 1, Seek(pos, id)
  PROVE  TableInv' /\ CallContained
<1> DEFINE size == length[opened[id].inode]
<1>1. ASSUME UNCHANGED <<unix, table>>, r2' = -1, again' = FALSE
      PROVE  TableInv' /\ CallContained
  <2>1. -1 \in Int
    OBVIOUS
  <2> QED BY <1>1, <2>1, NothingDone
<1>2. CASE id < 2 \/ id > index \/ id \notin OpenSlots
  BY <1>1, <1>2 DEF Seek, Failed, Result
<1>3. CASE ~(id < 2 \/ id > index \/ id \notin OpenSlots) /\ pos > size
  BY <1>1, <1>3 DEF Seek, Failed, Result
<1>4. CASE ~(id < 2 \/ id > index \/ id \notin OpenSlots) /\ ~(pos > size)
  <2> DEFINE target == IF pos = -1 THEN size ELSE pos
  <2>1. opened[id] \in OpenFile /\ length \in [File -> 0 .. MaxLength]
    BY <1>4 DEF OpenSlots, TableInv, TypeOK
  <2>2. target \in Nat
    BY <2>1, FileTableAssumption DEF OpenFile
  <2>3. /\ opened' = [opened EXCEPT ![id].pos = target] /\ r2' = target
        /\ again' = FALSE /\ dir' = dir /\ length' = length /\ index' = index
    BY <1>4 DEF Seek, Result
  <2>4. r2' \in Int /\ r2' # -1
    BY <2>2, <2>3
  <2> HIDE DEF target
  <2> QED BY <1>4, <2>1, <2>2, <2>3, <2>4, Moved
<1> QED BY <1>2, <1>3, <1>4

(* Create and Remove change no descriptor.                                 *)
LEMMA NamesKeep ==
  ASSUME TableInv, ~again, NEW n \in Name, Create(n) \/ Remove(n)
  PROVE  TableInv' /\ CallContained
<1>1. /\ opened' = opened /\ index' = index /\ again' = FALSE
      /\ r2' \in {0, 1} /\ r2' \in Int /\ r2' # -1
  BY DEF Create, Remove, Result
<1>2. 0 \in 0 .. MaxLength
  BY FileTableAssumption
<1>3. dir \in [Name -> Inode \cup {NoInode}] /\ length \in [File -> 0 .. MaxLength]
  BY DEF TableInv, TypeOK
<1>4. dir' \in [Name -> Inode \cup {NoInode}] /\ length' \in [File -> 0 .. MaxLength]
  BY <1>2, <1>3 DEF Create, Remove, File
<1>5. TableInv'
  BY <1>1, <1>4 DEF TableInv, TypeOK, IndexCounts, ReadFailed, OpenSlots
<1> QED BY <1>1, <1>5 DEF CallContained, FailureHarmless, OpenTakesFreeSlot

LEMMA CallsKeep == TableInv /\ [Next]_vars => TableInv' /\ [CallContained]_vars
<1> SUFFICES ASSUME TableInv, [Next]_vars PROVE TableInv' /\ [CallContained]_vars
  OBVIOUS
<1>1. CASE UNCHANGED vars
  <2>1. TableInv'
    BY <1>1 DEF vars, TableInv, TypeOK, IndexCounts, ReadFailed, OpenSlots
  <2> QED BY <1>1, <2>1
<1>2. CASE Unexpected
  <2>1. /\ UNCHANGED <<unix, table>> /\ r2' = -1 /\ again' = FALSE
    BY <1>2 DEF Unexpected, Result, TableInv, ReadFailed
  <2>2. -1 \in Int
    OBVIOUS
  <2> QED BY <2>1, <2>2, NothingDone
<1>3. CASE ~again /\ Call
  <2>1. CASE CreateNameless
    <3>1. UNCHANGED <<unix, table>> /\ r2' = -1 /\ again' = FALSE
      BY <2>1 DEF CreateNameless, Failed, Result
    <3>2. -1 \in Int
      OBVIOUS
    <3> QED BY <1>3, <3>1, <3>2, NothingDone
  <2> QED BY <1>3, <2>1, NamesKeep, OpenKeeps, CloseKeeps, ReadKeeps, WriteKeeps, SeekKeeps
          DEF Call
<1> QED BY <1>1, <1>2, <1>3 DEF Next

(* The table of open files stays a table, and index is ahead of the number *)
(* of open files by three at least: what was opened and not closed again,  *)
(* the program among it, is counted.                                       *)
THEOREM TableIsCounted == Spec => [](TypeOK /\ IndexCounts)
BY TableStarts, CallsKeep, PTL DEF Spec, TableInv

(* Calls in any order and with any arguments: one that fails changes no    *)
(* file and no descriptor, and a failed Read still fails when the          *)
(* instruction is executed again; Open takes a free slot; no call changes  *)
(* two descriptors.                                                        *)
THEOREM CallsAreContained == Spec => [][CallContained]_vars
BY TableStarts, CallsKeep, PTL DEF Spec
----------------------------------------------------------------------------
(* The handler of the snapshot.                                            *)

(* No file of the program has the name of one of the console's.            *)
SnapshotAssumption ==
  /\ LastSlot \in Nat /\ BufferLength \in Nat
  /\ "stdin" \notin Name /\ "stdout" \notin Name

Bytes == Seq(Old!Byte)
Opened == [path : Old!Path, type : 0 .. 3, pos : Nat, asked : 0 .. 3]

(* An open file has the type that Open was given; a file that is not the   *)
(* console's exists and has a name of the program's.                       *)
SnapshotInv ==
  /\ files \in [Old!Path -> Bytes \cup {NoFile}]
  /\ files["stdin"] = <<>> /\ files["stdout"] = <<>>
  /\ openf \in [Old!Slot -> Opened \cup {NoFile}]
  /\ \A s \in Old!OpenSlots :
       /\ openf[s].asked = openf[s].type
       /\ openf[s].type \in {0, 1} => openf[s].path \in Name
       /\ files[openf[s].path] \in Bytes
  /\ buffer \in [1 .. BufferLength -> Old!Byte]

LEMMA ThroughNULExact ==
  ASSUME NEW bytes \in Bytes
  PROVE  /\ Old!ThroughNUL(bytes) \in Bytes
         /\ Len(Old!ThroughNUL(bytes)) <= Len(bytes)
<1> USE DEF Bytes
<1> DEFINE nul == {i \in DOMAIN bytes : bytes[i] = Old!NUL}
           first == CHOOSE i \in nul : \A j \in nul : i <= j
<1>1. CASE nul = {}
  <2>1. Old!ThroughNUL(bytes) = bytes
    BY <1>1 DEF Old!ThroughNUL
  <2> QED BY <2>1
<1>2. CASE nul # {}
  <2>1. nul \subseteq Nat
    OBVIOUS
  <2>2. \E i \in nul : \A j \in nul : i <= j
    BY <1>2, <2>1, Least
  <2>3. first \in 1 .. Len(bytes)
    BY <2>2
  <2>4. Old!ThroughNUL(bytes) = SubSeq(bytes, 1, first)
    BY <1>2 DEF Old!ThroughNUL
  <2> HIDE DEF first, nul
  <2>5. SubSeq(bytes, 1, first) \in Seq(Old!Byte) /\ Len(SubSeq(bytes, 1, first)) = first
    BY <2>3, SubSeqProperties
  <2> QED BY <2>3, <2>4, <2>5
<1> QED BY <1>1, <1>2

(* User2System fills the kernel's buffer, of one byte more than it copies. *)
LEMMA User2SystemExact ==
  ASSUME SnapshotAssumption, buffer \in [1 .. BufferLength -> Old!Byte],
         NEW limit \in 0 .. BufferLength
  PROVE  Old!User2System(limit) \in [1 .. limit + 1 -> Old!Byte]
<1> DEFINE text == Old!ThroughNUL(SubSeq(buffer, 1, limit))
<1>1. limit \in Nat /\ BufferLength \in Nat /\ limit <= BufferLength
  BY DEF SnapshotAssumption
<1>2. buffer \in Seq(Old!Byte) /\ Len(buffer) = BufferLength
  BY <1>1
<1>3. SubSeq(buffer, 1, limit) \in Bytes
  BY <1>1, <1>2, SubSeqProperties DEF Bytes
<1>4. text \in Seq(Old!Byte)
  BY <1>3, ThroughNULExact DEF Bytes
<1> HIDE DEF text
<1>5. \A i \in 1 .. limit + 1 : (IF i <= Len(text) THEN text[i] ELSE Old!NUL) \in Old!Byte
  BY <1>1, <1>4 DEF Old!Byte
<1>6. Old!User2System(limit) = [i \in 1 .. limit + 1 |-> IF i <= Len(text) THEN text[i] ELSE Old!NUL]
  BY DEF Old!User2System, text
<1> QED BY <1>5, <1>6

LEMMA System2UserExact ==
  ASSUME buffer \in [1 .. BufferLength -> Old!Byte], NEW bytes \in Bytes
  PROVE  Old!System2User(bytes) \in [1 .. BufferLength -> Old!Byte]
<1> DEFINE copied == Len(Old!ThroughNUL(bytes))
<1>1. copied \in Nat /\ copied <= Len(bytes) /\ bytes \in Seq(Old!Byte)
  BY ThroughNULExact DEF Bytes
<1>2. Old!System2User(bytes) = [i \in 1 .. BufferLength |-> IF i <= copied THEN bytes[i] ELSE buffer[i]]
  BY DEF Old!System2User
<1> HIDE DEF copied
<1>3. \A i \in 1 .. BufferLength : (IF i <= copied THEN bytes[i] ELSE buffer[i]) \in Old!Byte
  BY <1>1
<1> QED BY <1>2, <1>3

(* Bytes laid over a file change no others, and a gap before them is NUL.  *)
LEMMA PatchedExact ==
  ASSUME NEW old \in Bytes, NEW pos \in Nat, NEW bytes \in Bytes
  PROVE  /\ Old!Patched(old, pos, bytes) \in Bytes
         /\ \A i \in DOMAIN old : Old!Patched(old, pos, bytes)[i] # old[i] =>
              i > pos /\ i <= pos + Len(bytes)
         /\ \A i \in DOMAIN Old!Patched(old, pos, bytes) : i > Len(old) =>
              i > pos \/ Old!Patched(old, pos, bytes)[i] = Old!NUL
<1> USE DEF Bytes
<1> DEFINE new == Old!Patched(old, pos, bytes)
           size == IF pos + Len(bytes) > Len(old) THEN pos + Len(bytes) ELSE Len(old)
           Entry(i) == IF i > pos /\ i <= pos + Len(bytes) THEN bytes[i - pos]
                       ELSE IF i <= Len(old) THEN old[i] ELSE Old!NUL
<1>1. new = [i \in 1 .. size |-> Entry(i)]
  BY DEF Old!Patched
<1>2. size \in Nat /\ Len(old) <= size /\ Len(old) \in Nat /\ Len(bytes) \in Nat
  OBVIOUS
<1>3. \A i \in 1 .. size :
        /\ i > pos /\ i <= pos + Len(bytes) => Entry(i) = bytes[i - pos] /\ i - pos \in 1 .. Len(bytes)
        /\ ~(i > pos /\ i <= pos + Len(bytes)) /\ i <= Len(old) => Entry(i) = old[i] /\ i \in 1 .. Len(old)
        /\ ~(i > pos /\ i <= pos + Len(bytes)) /\ ~(i <= Len(old)) => Entry(i) = Old!NUL
  <2> HIDE DEF size
  <2> SUFFICES ASSUME NEW i \in 1 .. size
               PROVE  /\ i > pos /\ i <= pos + Len(bytes) => Entry(i) = bytes[i - pos] /\ i - pos \in 1 .. Len(bytes)
                      /\ ~(i > pos /\ i <= pos + Len(bytes)) /\ i <= Len(old) => Entry(i) = old[i] /\ i \in 1 .. Len(old)
                      /\ ~(i > pos /\ i <= pos + Len(bytes)) /\ ~(i <= Len(old)) => Entry(i) = Old!NUL
    OBVIOUS
  <2>1. i \in Nat /\ i >= 1
    BY <1>2
  <2>2. i > pos /\ i <= pos + Len(bytes) => i - pos \in 1 .. Len(bytes)
    BY <1>2, <2>1
  <2>3. i <= Len(old) => i \in 1 .. Len(old)
    BY <1>2, <2>1
  <2>4. CASE i > pos /\ i <= pos + Len(bytes)
    BY <2>1, <2>2, <2>4
  <2>5. CASE ~(i > pos /\ i <= pos + Len(bytes)) /\ i <= Len(old)
    BY <2>3, <2>5
  <2>6. CASE ~(i > pos /\ i <= pos + Len(bytes)) /\ ~(i <= Len(old))
    BY <2>6
  <2> QED BY <2>4, <2>5, <2>6
<1> HIDE DEF new, size, Entry
<1>4. Old!NUL \in Old!Byte
  BY DEF Old!Byte
<1>5. \A i \in 1 .. size : Entry(i) \in Old!Byte
  BY <1>3, <1>4
<1>6. new \in Seq(Old!Byte) /\ DOMAIN new = 1 .. size /\ \A i \in 1 .. size : new[i] = Entry(i)
  BY <1>1, <1>2, <1>5
<1>7. DOMAIN old = 1 .. Len(old) /\ \A i \in DOMAIN old : i \in 1 .. size /\ i <= Len(old)
  BY <1>2
<1>8. \A i \in DOMAIN old : new[i] # old[i] => i > pos /\ i <= pos + Len(bytes)
  BY <1>3, <1>6, <1>7
<1>9. \A i \in DOMAIN new : i > Len(old) => i > pos \/ new[i] = Old!NUL
  BY <1>2, <1>3, <1>6
<1> QED BY <1>6, <1>8, <1>9 DEF new
LEMMA SnapshotStarts == SnapshotAssumption /\ Old!Init => SnapshotInv
<1> SUFFICES ASSUME SnapshotAssumption, Old!Init PROVE SnapshotInv
  OBVIOUS
<1> USE DEF Old!Path, SnapshotAssumption, Bytes
<1>1. /\ files \in [Old!Path -> Bytes \cup {NoFile}]
      /\ files["stdin"] = <<>> /\ files["stdout"] = <<>>
  BY DEF Old!Init
<1>2. /\ Old!NewOpenFile("stdin", Old!Stdin) \in Opened
      /\ Old!NewOpenFile("stdout", Old!Stdout) \in Opened
  BY DEF Old!NewOpenFile, Opened, Old!Stdin, Old!Stdout
<1>3. openf = [s \in Old!Slot |-> CASE s = 0 -> Old!NewOpenFile("stdin", Old!Stdin)
                                    [] s = 1 -> Old!NewOpenFile("stdout", Old!Stdout)
                                    [] OTHER -> NoFile]
  BY DEF Old!Init
<1>4. openf \in [Old!Slot -> Opened \cup {NoFile}]
  BY <1>2, <1>3
<1>5. \A s \in Old!OpenSlots : openf[s] \in {Old!NewOpenFile("stdin", Old!Stdin),
                                             Old!NewOpenFile("stdout", Old!Stdout)}
  BY <1>3 DEF Old!OpenSlots
<1>6. \A s \in Old!OpenSlots :
        /\ openf[s].asked = openf[s].type /\ openf[s].type \notin {0, 1}
        /\ openf[s].path \in {"stdin", "stdout"}
  BY <1>5 DEF Old!NewOpenFile, Old!Stdin, Old!Stdout
<1>7. buffer \in [1 .. BufferLength -> Old!Byte]
  BY DEF Old!Init, Old!Byte
<1>8. \A s \in Old!OpenSlots : files[openf[s].path] \in Bytes
  <2>1. <<>> \in Bytes
    OBVIOUS
  <2>2. files["stdin"] \in Bytes /\ files["stdout"] \in Bytes
    BY <1>1, <2>1
  <2> HIDE DEF Bytes
  <2> QED BY <1>6, <2>2
<1> QED BY <1>1, <1>4, <1>6, <1>7, <1>8 DEF SnapshotInv

(* A call that changes neither files nor the table.                        *)
LEMMA SnapshotLeftAlone ==
  ASSUME SnapshotInv, UNCHANGED <<files, openf>>, buffer' \in [1 .. BufferLength -> Old!Byte]
  PROVE  SnapshotInv' /\ Old!FailureHarmless /\ Old!AccessExact
<1>1. SnapshotInv'
  BY DEF SnapshotInv, Old!OpenSlots
<1>2. Old!AccessExact
  BY DEF Old!AccessExact, SnapshotInv
<1> QED BY <1>1, <1>2 DEF Old!FailureHarmless

LEMMA SnapshotFailed ==
  ASSUME SnapshotInv, Old!Failed PROVE SnapshotInv' /\ Old!FailureHarmless /\ Old!AccessExact
<1>1. UNCHANGED <<files, openf, buffer>> /\ buffer \in [1 .. BufferLength -> Old!Byte]
  BY DEF Old!Failed, SnapshotInv
<1> QED BY <1>1, SnapshotLeftAlone

(* A call that changes one slot: a free one gets a file of the program's,  *)
(* or the position of an open one moves, or it is closed.                  *)
LEMMA SnapshotSlot ==
  ASSUME SnapshotInv, files' = files, NEW id \in Old!Slot, NEW f \in Opened \cup {NoFile},
         openf' = [openf EXCEPT ![id] = f],
         buffer' \in [1 .. BufferLength -> Old!Byte], r2' # -1,
         \/ f = NoFile
         \/ /\ openf[id] = NoFile /\ f.asked = f.type
            /\ f.path \in Name /\ files[f.path] \in Bytes
         \/ /\ openf[id] # NoFile /\ f.path = openf[id].path
            /\ f.type = openf[id].type /\ f.asked = openf[id].asked
  PROVE  SnapshotInv' /\ Old!FailureHarmless /\ Old!AccessExact
<1>1. /\ openf' \in [Old!Slot -> Opened \cup {NoFile}] /\ openf'[id] = f
      /\ \A u \in Old!Slot \ {id} : openf'[u] = openf[u]
  BY DEF SnapshotInv
<1>2. ASSUME NEW s \in Old!Slot, openf'[s] # NoFile
      PROVE  /\ openf'[s].asked = openf'[s].type
             /\ openf'[s].type \in {0, 1} => openf'[s].path \in Name
             /\ files[openf'[s].path] \in Bytes
  BY <1>1, <1>2 DEF SnapshotInv, Old!OpenSlots
<1>3. SnapshotInv'
  BY <1>1, <1>2 DEF SnapshotInv, Old!OpenSlots
<1>4. \A s \in Old!OpenSlots : openf'[s] # NoFile =>
        openf'[s].path = openf[s].path /\ openf'[s].asked = openf[s].asked
  BY <1>1 DEF Old!OpenSlots
<1>5. Old!AccessExact
  BY <1>1, <1>4 DEF Old!AccessExact, SnapshotInv
<1> QED BY <1>3, <1>5 DEF Old!FailureHarmless

LEMMA FindFreeSlotExact ==
  ASSUME SnapshotAssumption, Old!FindFreeSlot # -1
  PROVE  Old!FindFreeSlot \in 2 .. LastSlot /\ openf[Old!FindFreeSlot] = NoFile
<1> DEFINE free == {s \in 2 .. LastSlot : openf[s] = NoFile}
<1>1. free # {} /\ Old!FindFreeSlot = CHOOSE s \in free : \A u \in free : s <= u
  BY DEF Old!FindFreeSlot
<1>2. free \subseteq Nat
  BY DEF SnapshotAssumption
<1>3. \E s \in free : \A u \in free : s <= u
  BY <1>1, <1>2, Least
<1>4. Old!FindFreeSlot \in free
  BY <1>1, <1>3
<1> QED BY <1>4

LEMMA SnapshotOpens ==
  ASSUME SnapshotAssumption, SnapshotInv, NEW p \in Name, NEW type \in 0 .. 4, Old!Open(p, type)
  PROVE  SnapshotInv' /\ Old!FailureHarmless /\ Old!AccessExact
<1>0. buffer \in [1 .. BufferLength -> Old!Byte]
  BY DEF SnapshotInv
<1>1. CASE Old!FindFreeSlot = -1 \/ type \notin 0 .. 3
  BY <1>1, SnapshotFailed DEF Old!Open
<1>2. CASE Old!FindFreeSlot # -1 /\ type \in {2, 3}
  <2>1. UNCHANGED <<files, openf, buffer>>
    BY <1>2 DEF Old!Open, Old!Stdin, Old!Stdout
  <2> QED BY <1>0, <2>1, SnapshotLeftAlone
<1>3. CASE Old!FindFreeSlot # -1 /\ type \in {0, 1} /\ files[p] = NoFile
  BY <1>3, SnapshotFailed DEF Old!Open, Old!Stdin, Old!Stdout
<1>4. CASE Old!FindFreeSlot # -1 /\ type \in {0, 1} /\ files[p] # NoFile
  <2> DEFINE slot == Old!FindFreeSlot
             f == [path |-> p, type |-> type, pos |-> 0, asked |-> type]
  <2>1. slot \in Old!Slot /\ slot # -1 /\ openf[slot] = NoFile
    BY <1>4, FindFreeSlotExact DEF SnapshotAssumption, Old!Slot
  <2>2. /\ openf' = [openf EXCEPT ![slot] = f] /\ r2' = slot
        /\ files' = files /\ buffer' = buffer
    BY <1>4 DEF Old!Open, Old!Stdin, Old!Stdout, Old!NewOpenFile, Old!StoredType, Old!Return
  <2>3. f \in Opened /\ f.asked = f.type /\ f.path \in Name
    BY <1>4 DEF Opened, Old!Path
  <2>4. files[f.path] \in Bytes
    BY <1>4 DEF SnapshotInv, Old!Path
  <2> HIDE DEF slot, f
  <2> QED BY <1>0, <2>1, <2>2, <2>3, <2>4, SnapshotSlot
<1> QED BY <1>1, <1>2, <1>3, <1>4

LEMMA SnapshotCloses ==
  ASSUME SnapshotInv, NEW id \in Old!Slot, Old!Close(id)
  PROVE  SnapshotInv' /\ Old!FailureHarmless /\ Old!AccessExact
<1>1. CASE id \in Old!OpenSlots /\ id <= LastClosable
  <2>1. /\ openf' = [openf EXCEPT ![id] = NoFile] /\ r2' = 0 /\ files' = files
        /\ buffer' = buffer /\ buffer \in [1 .. BufferLength -> Old!Byte]
    BY <1>1 DEF Old!Close, Old!Return, SnapshotInv
  <2>2. r2' # -1 /\ NoFile \in Opened \cup {NoFile}
    BY <2>1
  <2> QED BY <2>1, <2>2, SnapshotSlot
<1> QED BY <1>1, SnapshotFailed DEF Old!Close

(* A call that moves the position of an open file.                         *)
LEMMA SnapshotMoves ==
  ASSUME SnapshotInv, NEW id \in Old!OpenSlots, NEW pos \in Nat,
         openf' = [openf EXCEPT ![id].pos = pos], files' = files,
         buffer' \in [1 .. BufferLength -> Old!Byte], r2' # -1
  PROVE  SnapshotInv' /\ Old!FailureHarmless /\ Old!AccessExact
<1> DEFINE f == [openf[id] EXCEPT !.pos = pos]
<1>1. id \in Old!Slot /\ openf[id] \in Opened /\ openf[id] # NoFile
  BY DEF SnapshotInv, Old!OpenSlots
<1>2. /\ f \in Opened /\ f.path = openf[id].path
      /\ f.type = openf[id].type /\ f.asked = openf[id].asked
  BY <1>1 DEF Opened
<1>3. openf' = [openf EXCEPT ![id] = f]
  OBVIOUS
<1> HIDE DEF f
<1> QED BY <1>1, <1>2, <1>3, SnapshotSlot

LEMMA SnapshotSeeks ==
  ASSUME SnapshotInv, NEW id \in Old!Slot, NEW pos \in -1 .. MaxLength + 1, Old!Seek(pos, id)
  PROVE  SnapshotInv' /\ Old!FailureHarmless /\ Old!AccessExact
<1> DEFINE refused == \/ id < 2 \/ id > Old!index \/ id \notin Old!OpenSlots
                      \/ pos > Len(Old!Content(id))
<1>1. CASE refused
  BY <1>1, SnapshotFailed DEF Old!Seek
<1>2. CASE ~refused
  <2> DEFINE target == IF pos = -1 THEN Len(Old!Content(id)) ELSE pos
  <2>1. id \in Old!OpenSlots /\ Old!Content(id) \in Bytes
    BY <1>2 DEF SnapshotInv, Old!Content
  <2>2. target \in Nat
    BY <2>1, FileTableAssumption DEF Bytes
  <2>3. /\ openf' = [openf EXCEPT ![id].pos = target] /\ r2' = target
        /\ files' = files /\ buffer' = buffer
    BY <1>2 DEF Old!Seek, Old!Return
  <2>4. r2' # -1 /\ buffer' \in [1 .. BufferLength -> Old!Byte]
    BY <2>2, <2>3 DEF SnapshotInv
  <2> HIDE DEF target
  <2> QED BY <2>1, <2>2, <2>3, <2>4, SnapshotMoves
<1> QED BY <1>1, <1>2
(* What is typed, and read as a line.                                      *)
LEMMA LineIsBytes ==
  ASSUME NEW line \in Old!Lines
  PROVE  line \in Bytes /\ Append(line, Old!Newline) \in Bytes
<1>1. PICK k \in 0 .. MaxLine : line \in [1 .. k -> {Old!Letter}]
  BY DEF Old!Lines
<1>2. k \in Nat /\ Old!Letter \in Old!Byte /\ Old!Newline \in Old!Byte
  BY DEF Old!Byte
<1>3. line \in Seq(Old!Byte)
  BY <1>1, <1>2
<1> QED BY <1>2, <1>3 DEF Bytes

LEMMA SnapshotReads ==
  ASSUME SnapshotInv, NEW id \in Old!Slot, NEW n \in 0 .. BufferLength, SnapshotAssumption,
         Old!Read(id, n)
  PROVE  SnapshotInv' /\ Old!FailureHarmless /\ Old!AccessExact
<1>0. buffer \in [1 .. BufferLength -> Old!Byte] /\ n \in Nat
  BY DEF SnapshotInv, SnapshotAssumption
<1>1. CASE id \notin Old!OpenSlots \/ openf[id].type = Old!Stdout
  BY <1>1, SnapshotFailed DEF Old!Read
<1>2. CASE Old!ReadConsole(n)
  <2>1. PICK line \in Old!Lines : /\ buffer' = Old!System2User(line)
                                  /\ UNCHANGED <<files, openf>>
    BY <1>2 DEF Old!ReadConsole
  <2>2. buffer' \in [1 .. BufferLength -> Old!Byte]
    BY <1>0, <2>1, LineIsBytes, System2UserExact
  <2> QED BY <2>1, <2>2, SnapshotLeftAlone
<1>3. CASE id \in Old!OpenSlots /\ Old!ReadFile(id, n)
  <2> DEFINE f == openf[id]
             content == Old!Content(id)
             end == IF f.pos + n < Len(content) THEN f.pos + n ELSE Len(content)
             read == SubSeq(content, f.pos + 1, end)
             pos == f.pos + Len(read)
  <2>1. f.pos \in Nat /\ content \in Seq(Old!Byte)
    BY <1>3 DEF SnapshotInv, Old!OpenSlots, Old!Content, Opened, Bytes
  <2>2. end \in Nat /\ end <= Len(content) /\ f.pos + 1 \in Int /\ f.pos + 1 >= 1
    BY <1>0, <2>1
  <2>3. CASE read = <<>>
    <3>1. UNCHANGED <<files, openf, buffer>>
      BY <1>3, <2>3 DEF Old!ReadFile
    <3> QED BY <1>0, <3>1, SnapshotLeftAlone
  <2>4. CASE read # <<>>
    <3>1. /\ openf' = [openf EXCEPT ![id].pos = pos] /\ buffer' = Old!System2User(read)
          /\ r2' = Len(read) /\ files' = files
      BY <1>3, <2>4 DEF Old!ReadFile, Old!Return
    <3> HIDE DEF end, content
    <3>2. \A i \in f.pos + 1 .. end : content[i] \in Old!Byte
      BY <2>1, <2>2
    <3>3. read \in Bytes
      BY <2>1, <2>2, <3>2, SubSeqProperties DEF Bytes
    <3>4. Len(read) \in Nat
      BY <3>3 DEF Bytes
    <3> HIDE DEF read
    <3>5. pos \in Nat /\ r2' # -1
      BY <2>1, <3>1, <3>4
    <3>6. buffer' \in [1 .. BufferLength -> Old!Byte]
      BY <1>0, <3>1, <3>3, System2UserExact
    <3> HIDE DEF pos
    <3> QED BY <1>3, <3>1, <3>5, <3>6, SnapshotMoves
  <2> QED BY <2>3, <2>4
<1> QED BY <1>1, <1>2, <1>3 DEF Old!Read

(* Only what was opened with type 0 is written: between the old and the    *)
(* new position of the descriptor.                                         *)
LEMMA SnapshotWritesFile ==
  ASSUME SnapshotAssumption, SnapshotInv, NEW id \in Old!OpenSlots, NEW n \in 1 .. BufferLength,
         openf[id].type = 0, Old!WriteFile(id, n)
  PROVE  SnapshotInv' /\ Old!FailureHarmless /\ Old!AccessExact
<1> DEFINE f == openf[id]
           old == files[f.path]
           text == SubSeq(Old!User2System(n), 1, n)
           new == Old!Patched(old, f.pos, text)
           end == f.pos + n
<1>1. /\ id \in Old!Slot /\ f \in Opened /\ f # NoFile /\ f.asked = 0
      /\ f.path \in Name /\ f.path \in Old!Path /\ old \in Bytes
  BY DEF SnapshotInv, Old!OpenSlots, Opened
<1>2. n \in Nat /\ n # 0 /\ n \in 0 .. BufferLength /\ n # -1 /\ f.pos \in Nat /\ end \in Nat
  BY <1>1 DEF Opened, SnapshotAssumption
<1>3. /\ files' = [files EXCEPT ![f.path] = new]
      /\ openf' = [openf EXCEPT ![id].pos = end] /\ r2' = n /\ buffer' = buffer
  BY <1>2 DEF Old!WriteFile, Old!Return
<1>4. Old!User2System(n) \in [1 .. n + 1 -> Old!Byte]
  BY <1>2, User2SystemExact DEF SnapshotInv
<1>5. text \in Bytes /\ Len(text) = n
  <2>1. \A i \in 1 .. n : Old!User2System(n)[i] \in Old!Byte
    BY <1>2, <1>4
  <2>2. Len(text) = (IF 1 <= n THEN n - 1 + 1 ELSE 0) /\ text \in Bytes
    BY <1>2, <2>1, SubSeqProperties DEF Bytes
  <2> QED BY <1>2, <2>2
<1> HIDE DEF text
<1>6. /\ new \in Bytes
      /\ \A i \in DOMAIN old : new[i] # old[i] => i > f.pos /\ i <= f.pos + n
      /\ \A i \in DOMAIN new : i > Len(old) => i > f.pos \/ new[i] = Old!NUL
  BY <1>1, <1>2, <1>5, PatchedExact
<1> DEFINE g == [f EXCEPT !.pos = end]
<1>7. g \in Opened /\ g.path = f.path /\ g.type = f.type /\ g.asked = f.asked /\ g.pos = end
  BY <1>1, <1>2 DEF Opened
<1>8. openf' = [openf EXCEPT ![id] = g]
  BY <1>3
<1> HIDE DEF new, g, end
<1>9. /\ openf' \in [Old!Slot -> Opened \cup {NoFile}] /\ openf'[id] = g
      /\ \A u \in Old!Slot \ {id} : openf'[u] = openf[u]
  BY <1>1, <1>7, <1>8 DEF SnapshotInv
<1>10. /\ files' \in [Old!Path -> Bytes \cup {NoFile}] /\ files'[f.path] = new
       /\ \A p \in Old!Path \ {f.path} : files'[p] = files[p]
  BY <1>1, <1>3, <1>6 DEF SnapshotInv
<1>11. files'["stdin"] = <<>> /\ files'["stdout"] = <<>>
  BY <1>1, <1>10 DEF SnapshotInv, SnapshotAssumption, Old!Path
<1>12. ASSUME NEW s \in Old!Slot, openf'[s] # NoFile
       PROVE  /\ openf'[s].asked = openf'[s].type
              /\ openf'[s].type \in {0, 1} => openf'[s].path \in Name
              /\ files'[openf'[s].path] \in Bytes
  <2>1. openf[s] \in Opened /\ s \in Old!OpenSlots
    BY <1>1, <1>9, <1>12 DEF SnapshotInv, Old!OpenSlots
  <2>2. /\ openf'[s].asked = openf[s].asked /\ openf'[s].type = openf[s].type
        /\ openf'[s].path = openf[s].path /\ openf[s].path \in Old!Path
    BY <1>7, <1>9, <2>1 DEF Opened
  <2>3. files'[openf[s].path] \in Bytes
    BY <1>6, <1>10, <2>1, <2>2 DEF SnapshotInv
  <2> QED BY <2>1, <2>2, <2>3 DEF SnapshotInv
<1>13. SnapshotInv'
  BY <1>3, <1>9, <1>10, <1>11, <1>12 DEF SnapshotInv, Old!OpenSlots
<1>14. ASSUME NEW p \in Old!Path, files'[p] \notin {files[p], <<>>}
       PROVE  /\ openf[id].path = p /\ openf[id].asked = Old!ReadWrite
              /\ r2' = openf'[id].pos - openf[id].pos
              /\ \A i \in DOMAIN files[p] :
                   files'[p][i] # files[p][i] => i > openf[id].pos /\ i <= openf'[id].pos
              /\ \A i \in DOMAIN files'[p] : i > Len(files[p]) =>
                   i > openf[id].pos \/ files'[p][i] = Old!NUL
  <2>1. p = f.path
    BY <1>10, <1>14
  <2>2. openf'[id].pos = f.pos + n
    BY <1>7, <1>9 DEF end
  <2>3. r2' = openf'[id].pos - openf[id].pos
    BY <1>2, <1>3, <2>2
  <2> QED BY <1>1, <1>6, <1>10, <2>1, <2>2, <2>3 DEF Old!ReadWrite
<1>15. \A s \in Old!OpenSlots : openf'[s] # NoFile =>
         openf'[s].path = openf[s].path /\ openf'[s].asked = openf[s].asked
  BY <1>7, <1>9 DEF Old!OpenSlots
<1>16. \A s, u \in Old!Slot : openf'[s] # openf[s] /\ openf'[u] # openf[u] => s = u
  BY <1>9
<1>17. Old!AccessExact
  BY <1>11, <1>14, <1>15, <1>16 DEF Old!AccessExact
<1> QED BY <1>2, <1>3, <1>13, <1>17 DEF Old!FailureHarmless

LEMMA SnapshotWrites ==
  ASSUME SnapshotAssumption, SnapshotInv, NEW id \in Old!Slot, NEW n \in 0 .. BufferLength,
         Old!Write(id, n)
  PROVE  SnapshotInv' /\ Old!FailureHarmless /\ Old!AccessExact
<1>0. buffer \in [1 .. BufferLength -> Old!Byte]
  BY DEF SnapshotInv
<1>1. CASE id \notin Old!OpenSlots \/ openf[id].type \in {Old!ReadOnly, Old!Stdin}
  BY <1>1, SnapshotFailed DEF Old!Write
<1>2. CASE Old!WriteConsole(n) \/ (n = 0 /\ Old!WriteFile(id, n))
  <2>1. UNCHANGED <<files, openf, buffer>>
    BY <1>2 DEF Old!WriteConsole, Old!WriteFile, Old!Unexpected
  <2> QED BY <1>0, <2>1, SnapshotLeftAlone
<1>3. CASE /\ id \in Old!OpenSlots /\ openf[id].type \notin {Old!ReadOnly, Old!Stdin, Old!Stdout}
           /\ n # 0 /\ Old!WriteFile(id, n)
  <2>1. openf[id].type \in 0 .. 3
    BY <1>3 DEF SnapshotInv, Old!OpenSlots, Opened
  <2>2. openf[id].type = 0
    BY <1>3, <2>1 DEF Old!ReadOnly, Old!Stdin, Old!Stdout
  <2>3. n \in 1 .. BufferLength
    BY <1>3 DEF SnapshotAssumption
  <2> QED BY <1>3, <2>2, <2>3, SnapshotWritesFile
<1> QED BY <1>1, <1>2, <1>3 DEF Old!Write

LEMMA SnapshotCreates ==
  ASSUME SnapshotAssumption, SnapshotInv, NEW p \in Name, Old!CreateFile(p)
  PROVE  SnapshotInv' /\ Old!FailureHarmless /\ Old!AccessExact
<1>1. /\ files' = [files EXCEPT ![p] = <<>>] /\ openf' = openf /\ buffer' = buffer /\ r2' = 0
      /\ p \in Old!Path /\ <<>> \in Bytes
  BY DEF Old!CreateFile, Old!Return, Old!Path, Bytes
<1>2. /\ files' \in [Old!Path -> Bytes \cup {NoFile}]
      /\ \A q \in Old!Path : files'[q] \in {files[q], <<>>}
      /\ \A q \in Old!Path : files[q] \in Bytes => files'[q] \in Bytes
  BY <1>1 DEF SnapshotInv
<1>3. files'["stdin"] = <<>> /\ files'["stdout"] = <<>>
  BY <1>1, <1>2 DEF SnapshotInv, Old!Path
<1>4. \A s \in Old!OpenSlots : openf[s].path \in Old!Path
  BY DEF SnapshotInv, Old!OpenSlots, Opened
<1>5. SnapshotInv'
  BY <1>1, <1>2, <1>3, <1>4 DEF SnapshotInv, Old!OpenSlots
<1>6. Old!AccessExact
  BY <1>1, <1>2, <1>3 DEF Old!AccessExact
<1>7. r2' # -1
  BY <1>1
<1> QED BY <1>5, <1>6, <1>7 DEF Old!FailureHarmless

LEMMA SnapshotKeeps ==
  SnapshotAssumption /\ SnapshotInv /\ [Old!Next]_(Old!vars)
    => SnapshotInv' /\ [Old!FailureHarmless /\ Old!AccessExact]_(Old!vars)
<1> SUFFICES ASSUME SnapshotAssumption, SnapshotInv, [Old!Next]_(Old!vars)
             PROVE  SnapshotInv' /\ [Old!FailureHarmless /\ Old!AccessExact]_(Old!vars)
  OBVIOUS
<1>0. buffer \in [1 .. BufferLength -> Old!Byte]
  BY DEF SnapshotInv
<1>1. CASE UNCHANGED Old!vars
  <2>1. SnapshotInv'
    BY <1>1 DEF Old!vars, SnapshotInv, Old!OpenSlots
  <2> QED BY <1>1, <2>1
<1>2. CASE \E p \in Name : Old!CreateFile(p) \/ \E type \in 0 .. 4 : Old!Open(p, type)
  BY <1>2, SnapshotCreates, SnapshotOpens
<1>3. CASE \E id \in Old!Slot : Old!Close(id) \/ \E pos \in -1 .. MaxLength + 1 : Old!Seek(pos, id)
  BY <1>3, SnapshotCloses, SnapshotSeeks
<1>4. CASE \E id \in Old!Slot, n \in 0 .. BufferLength : Old!Read(id, n) \/ Old!Write(id, n)
  BY <1>4, SnapshotReads, SnapshotWrites
<1>5. CASE Old!CreateNameless
  BY <1>5, SnapshotFailed DEF Old!CreateNameless
<1>6. CASE \/ Old!Unexpected(Old!SC_Remove) \/ Old!Unexpected(Old!SC_PrintNum)
           \/ Old!PrintString \/ Old!OneCharacter \/ Old!OneNumber
  <2>1. UNCHANGED <<files, openf, buffer>>
    BY <1>6 DEF Old!Unexpected, Old!PrintString, Old!OneCharacter, Old!OneNumber
  <2> QED BY <1>0, <2>1, SnapshotLeftAlone
<1>7. CASE Old!Fill
  <2>1. buffer' \in [1 .. BufferLength -> Old!Byte] /\ UNCHANGED <<files, openf>>
    BY <1>0, <1>7 DEF Old!Fill
  <2> QED BY <2>1, SnapshotLeftAlone
<1>8. ASSUME NEW n \in 0 .. BufferLength, Old!ReadString(n)
      PROVE  SnapshotInv' /\ Old!FailureHarmless /\ Old!AccessExact
  <2>0. n \in Nat
    BY DEF SnapshotAssumption
  <2>1. PICK line \in Old!Lines :
          /\ UNCHANGED <<files, openf>>
          /\ buffer' = Old!System2User(SubSeq(
                Old!Patched(Old!User2System(n), 0, Append(line, Old!Newline)), 1, n))
    BY <1>8 DEF Old!ReadString
  <2> DEFINE typed == Append(line, Old!Newline)
             kernel == Old!User2System(n)
             text == Old!Patched(kernel, 0, typed)
  <2>2. typed \in Bytes
    BY LineIsBytes
  <2>3. kernel \in [1 .. n + 1 -> Old!Byte]
    BY <1>0, User2SystemExact
  <2>4. kernel \in Bytes /\ Len(kernel) = n + 1
    BY <2>0, <2>3 DEF Bytes
  <2>5. text = [i \in 1 .. (IF 0 + Len(typed) > Len(kernel) THEN 0 + Len(typed) ELSE Len(kernel)) |->
                 IF i > 0 /\ i <= 0 + Len(typed) THEN typed[i - 0]
                 ELSE IF i <= Len(kernel) THEN kernel[i] ELSE Old!NUL]
    BY DEF Old!Patched
  <2>6. 0 \in Nat /\ text \in Bytes
    BY <2>2, <2>4, PatchedExact
  <2> HIDE DEF kernel, typed
  <2>7. Len(text) >= n + 1
    BY <2>0, <2>2, <2>4, <2>5 DEF Bytes
  <2> HIDE DEF text
  <2>8. \A i \in 1 .. n : text[i] \in Old!Byte
    BY <2>0, <2>6, <2>7 DEF Bytes
  <2>9. SubSeq(text, 1, n) \in Bytes
    BY <2>0, <2>8, SubSeqProperties DEF Bytes
  <2>10. buffer' \in [1 .. BufferLength -> Old!Byte]
    BY <1>0, <2>1, <2>9, System2UserExact DEF text, kernel, typed
  <2> QED BY <2>1, <2>10, SnapshotLeftAlone
<1> QED BY <1>1, <1>2, <1>3, <1>4, <1>5, <1>6, <1>7, <1>8 DEF Old!Next

(* In the snapshot, too, a call that fails changes no file and no          *)
(* descriptor; and a file opened for reading is not written through that   *)
(* descriptor: what a call changes in a file lies between the old and the  *)
(* new position of one descriptor that was opened for writing.             *)
THEOREM AccessIsExact ==
  ASSUME SnapshotAssumption
  PROVE  Old!Spec => [][Old!FailureHarmless /\ Old!AccessExact]_(Old!vars)
<1>1. Old!Init => SnapshotInv
  BY SnapshotStarts
<1>2. SnapshotInv /\ [Old!Next]_(Old!vars)
        => SnapshotInv' /\ [Old!FailureHarmless /\ Old!AccessExact]_(Old!vars)
  BY SnapshotKeeps
<1> QED BY <1>1, <1>2, PTL DEF Old!Spec
=============================================================================
