------------------------- MODULE FileSystemProofs --------------------------
(* The file system keeps its disk and its files, on disks of any size and  *)
(* layout, whatever is done to it and wherever the machine is stopped.     *)
(*                                                                         *)
(* A call is known by the sectors it has still to write: After(d, w, k) is *)
(* disk d after the first k of the writes w.  The invariant says of every  *)
(* call in progress what each of these disks is worth: all of them are     *)
(* Sound, and the last one is Exact.  A stop leaves one of them, so it     *)
(* leaves a sound disk; the end of the call leaves the last one.           *)
EXTENDS FileSystem, FiniteSetTheorems, SequenceTheorems, WellFoundedInduction, TLAPS

(* A disk as the code reads it, whatever the kernel has in memory.         *)
MapSector == MapHeader.dataSectors[1]
DirSector(i) == DirHeader.dataSectors[i]
DirSectors == divRoundUp(DirLength, SectorSize)
IsDisk(d) == d = [s \in Sector |-> d[s]]
TableOf(d) == [c \in Cell |-> d[DirSector(CellSector[c])].cells[c]]
MapOf(d) == d[MapSector].map
Held(d) == {i \in Entry : TableOf(d)[<<i, "inUse">>]}
NameOf(d, i) == TableOf(d)[<<i, "name">>]
HeaderSector(d, i) == TableOf(d)[<<i, "sector">>]
Header(d, i) == d[HeaderSector(d, i)].hdr
Owned(d, i) == {HeaderSector(d, i)} \cup Range(Header(d, i).dataSectors)
Reserved == FormatMap \cup Range(MapHeader.dataSectors) \cup Range(DirHeader.dataSectors)

(* A header as Allocate makes them.                                        *)
IsHeader(hdr) ==
  /\ hdr.numBytes \in Nat
  /\ hdr.dataSectors \in [1 .. divRoundUp(hdr.numBytes, SectorSize) -> Sector]
  /\ IsInjective(hdr.dataSectors)

(* A disk on which the file system can go on, even after a stop: nothing   *)
(* has two owners, and nothing is marked that has none.                    *)
FileSound(d, i) ==
  /\ IsHeader(Header(d, i))
  /\ HeaderSector(d, i) \in Sector
  /\ HeaderSector(d, i) \notin Range(Header(d, i).dataSectors)
  /\ Owned(d, i) \cap Reserved = {}
Apart(d) == \A i, j \in Held(d) : i # j => Owned(d, i) \cap Owned(d, j) = {}
MapSound(d) ==
  /\ Reserved \subseteq MapOf(d)
  /\ \A s \in MapOf(d) : s \in Reserved \/ \E i \in Held(d) : s \in Owned(d, i)
Sound(d) ==
  /\ IsDisk(d)
  /\ d[FreeMapSector] = [kind |-> "header", hdr |-> MapHeader]
  /\ d[DirectorySector] = [kind |-> "header", hdr |-> DirHeader]
  /\ \A i \in Held(d) : FileSound(d, i)
  /\ Apart(d) /\ MapSound(d)

(* Nothing is owned that is not marked.                                    *)
Exact(d) == \A i \in Held(d) : Owned(d, i) \subseteq MapOf(d)

(* The disk as it will be after k more writes, the j-th of which goes to   *)
(* sector To(w, j).                                                        *)
To(w, j) == w[j][1]
What(w, j) == w[j][2]
After(d, w, k) ==
  [s \in Sector |-> IF \E j \in 1 .. k : To(w, j) = s
                    THEN What(w, CHOOSE j \in 1 .. k : To(w, j) = s) ELSE d[s]]

(* The writes of a call go to different sectors.                           *)
IsWrites(w) ==
  /\ Len(w) \in Nat /\ w = [j \in 1 .. Len(w) |-> w[j]]
  /\ \A j \in 1 .. Len(w) : To(w, j) \in Sector
  /\ \A j, k \in 1 .. Len(w) : To(w, j) = To(w, k) => j = k

(* At every instant of the call.                                           *)
SoundAlong(d, w) == \A k \in 0 .. Len(w) : Sound(After(d, w, k))
ExactAlong(d, w) == \A k \in 0 .. Len(w) : Exact(After(d, w, k))

----------------------------------------------------------------------------
(* The inductive invariant.                                                *)
Phase ==
  /\ IsDisk(disk) /\ IsWrites(writes)
  /\ kernel \in {"off", "up", "abort"}
  /\ command.kind \in {"None", "Format", "Copy", "Write", "Remove"}
  /\ command.kind = "None" => command = Nothing /\ writes = <<>>
  /\ kernel # "up" => command = Nothing
  /\ command.kind # "Copy" => openFile = Closed
  /\ command.kind \notin {"None", "Copy"} => writes # <<>>
  /\ command.kind \in {"Copy", "Write"} => torn = {}
  /\ command.kind = "Copy" => command.bytes \in Seq(Int)
  /\ openFile # Closed => /\ openFile = [hdr |-> openFile.hdr, seekPosition |-> openFile.seekPosition]
                          /\ openFile.seekPosition \in Nat
  /\ <<freeMapFile, directoryFile>> \in {<<NoHeader, NoHeader>>, <<MapHeader, DirHeader>>}

TornFormat == \E c \in torn : c.kind = "Format"
Clean == \A c \in torn : c.kind \notin {"Copy", "Remove"}
Outcoming == After(disk, writes, Len(writes))

Raw == kernel = "off" /\ torn = {} /\ directoryFile = NoHeader
       /\ disk[FreeMapSector].kind # "header"
Unfinished == kernel = "off" /\ TornFormat
Formatting == command.kind = "Format" /\ directoryFile = DirHeader
              /\ Sound(Outcoming) /\ Exact(Outcoming)
Usable ==
  /\ directoryFile = DirHeader
  /\ \A c \in torn \cup {command} : c.kind # "Format"
  /\ SoundAlong(disk, writes)
  /\ Clean => Exact(Outcoming)
  /\ command.kind = "Write" => ExactAlong(disk, writes)
  /\ kernel = "abort" => ~Clean
  /\ command.kind = "Copy" =>
       IF openFile = Closed
       THEN Find(TableOf(Outcoming), command.name) # -1
       ELSE \E i \in Held(Outcoming) : openFile.hdr = Header(Outcoming, i)

IInv == Phase /\ (Raw \/ Unfinished \/ Formatting \/ Usable)

----------------------------------------------------------------------------
(* Numbers, and FileHeader::Allocate.                                      *)
(* A set of numbers has a least one, and Min is it.                        *)
LEMMA Least ==
  ASSUME NEW T, T \subseteq Nat, T # {}
  PROVE  Min(T) \in T /\ \A x \in T : Min(T) <= x
<1> DEFINE R == {p \in Nat \X Nat : p[1] < p[2]}
<1>1. IsWellFoundedOn(R, Nat)
  BY NatLessThanWellFounded DEF OpToRel
<1>2. \A x, y \in Nat : x < y => <<x, y>> \in R
  OBVIOUS
<1> HIDE DEF R
<1>3. PICK m \in T : \A x \in T : ~(<<x, m>> \in R)
  BY <1>1, WFMin
<1>4. \A x \in T : ~(x < m)
  BY <1>2, <1>3
<1>5. \E x \in T : \A y \in T : x <= y
  BY <1>3, <1>4
<1> QED BY <1>5 DEF Min

LEMMA MinOfTwo ==
  ASSUME NEW a \in Int, NEW b \in Int
  PROVE  Min({a, b}) = IF a <= b THEN a ELSE b
<1>1. \E x \in {a, b} : \A y \in {a, b} : x <= y
  OBVIOUS
<1>2. Min({a, b}) \in {a, b} /\ \A y \in {a, b} : Min({a, b}) <= y
  BY <1>1 DEF Min
<1> QED BY <1>2

LEMMA Division ==
  ASSUME NEW n \in Nat \ {0}, NEW a \in Nat
  PROVE  /\ a \div n \in Nat /\ a % n \in Nat /\ a % n < n
         /\ a = n * (a \div n) + (a % n)
OBVIOUS

(* Of a finite set of numbers, one has i - 1 others below it.              *)
LEMMA Ranked ==
  ASSUME NEW S, S \subseteq Nat, IsFiniteSet(S), NEW i \in 1 .. Cardinality(S)
  PROVE  \E s \in S : Cardinality({t \in S : t < s}) = i - 1
<1> DEFINE n == Cardinality(S)
           Below(s) == {t \in S : t < s}
           f == [s \in S |-> Cardinality(Below(s))]
<1>1. n \in Nat
  BY FS_CardinalityType
<1>2. ASSUME NEW s \in S PROVE Cardinality(Below(s)) \in 0 .. n - 1 /\ IsFiniteSet(Below(s))
  <2>1. Below(s) \in SUBSET S /\ s \notin Below(s)
    OBVIOUS
  <2>2. IsFiniteSet(Below(s)) /\ Cardinality(Below(s)) <= n /\ Cardinality(Below(s)) # n
    <3> HIDE DEF Below
    <3> QED BY <2>1, FS_Subset
  <2>3. Cardinality(Below(s)) \in Nat
    BY <2>2, FS_CardinalityType
  <2> HIDE DEF Below, n
  <2> QED BY <2>2, <2>3, <1>1
<1>3. f \in [S -> 0 .. n - 1]
  <2> HIDE DEF Below, n
  <2> QED BY <1>2
<1>4. ASSUME NEW s \in S, NEW t \in S, s < t PROVE Cardinality(Below(s)) # Cardinality(Below(t))
  <2>0. \A x \in S : x \in Nat
    OBVIOUS
  <2>1. s \in Below(t) /\ s \notin Below(s) /\ \A x \in Below(s) : x \in Below(t)
    BY <1>4, <2>0
  <2>2. IsFiniteSet(Below(t))
    BY <1>2
  <2> HIDE DEF Below
  <2>3. Below(s) \in SUBSET Below(t)
    BY <2>1
  <2> QED BY <2>1, <2>2, <2>3, FS_Subset
<1>5. f \in Injection(S, 0 .. n - 1)
  <2>1. ASSUME NEW s \in S, NEW t \in S, f[s] = f[t] PROVE s = t
    <3>1. f[s] = Cardinality(Below(s)) /\ f[t] = Cardinality(Below(t))
      OBVIOUS
    <3>2. ~(s < t) /\ ~(t < s)
      <4> HIDE DEF f, Below
      <4> QED BY <2>1, <3>1, <1>4
    <3> HIDE DEF f
    <3> QED BY <3>2
  <2> HIDE DEF f, n
  <2> QED BY <1>3, <2>1 DEF Injection, IsInjective
<1>6. IsFiniteSet(0 .. n - 1) /\ Cardinality(0 .. n - 1) = n
  <2>1. 0 \in Int /\ n - 1 \in Int /\ (IF 0 > n - 1 THEN 0 ELSE (n - 1) - 0 + 1) = n
    <3> HIDE DEF n
    <3> QED BY <1>1
  <2> HIDE DEF n
  <2> QED BY <2>1, FS_Interval
<1>7. f \in Surjection(S, 0 .. n - 1)
  <2>1. Cardinality(S) = Cardinality(0 .. n - 1)
    BY <1>6
  <2> HIDE DEF f, n
  <2> QED BY <1>5, <1>6, <2>1, FS_Injection
<1>8. i - 1 \in 0 .. n - 1
  <2> HIDE DEF n
  <2> QED BY <1>1 DEF n
<1>9. PICK s \in S : f[s] = i - 1
  <2> HIDE DEF f, n
  <2> QED BY <1>7, <1>8 DEF Surjection
<1> QED BY <1>9

LEMMA RoundedUp ==
  ASSUME NEW n \in Nat
  PROVE  divRoundUp(n, SectorSize) \in Nat
<1>1. SectorSize \in Nat \ {0} /\ n + SectorSize - 1 \in Nat
  BY FileSystemAssumption
<1> QED BY <1>1, Division DEF divRoundUp

LEMMA Sectors ==
  /\ Sector \subseteq Nat /\ IsFiniteSet(Sector) /\ Cardinality(Sector) = NumSectors
  /\ FreeMapSector \in Sector /\ DirectorySector \in Sector
<1>0. NumSectors \in Nat /\ NumSectors >= 3
  <2>1. SectorSize \in Nat \ {0} /\ DirLength + SectorSize - 1 \in Nat /\ NumSectors \in Nat
        /\ 3 + (DirLength + SectorSize - 1) \div SectorSize <= NumSectors
    BY FileSystemAssumption
  <2>2. (DirLength + SectorSize - 1) \div SectorSize \in Nat
    BY <2>1, Division
  <2> QED BY <2>1, <2>2
<1>1. 0 \in Int /\ NumSectors - 1 \in Int /\ (IF 0 > NumSectors - 1 THEN 0 ELSE (NumSectors - 1) - 0 + 1) = NumSectors
  BY <1>0
<1>2. IsFiniteSet(0 .. NumSectors - 1) /\ Cardinality(0 .. NumSectors - 1) = NumSectors
  BY <1>1, FS_Interval
<1> QED BY <1>0, <1>2 DEF Sector, FreeMapSector, DirectorySector

(* FileHeader::Allocate: what it takes is free, and taken once.            *)
LEMMA Allocated ==
  ASSUME NEW map, NEW n \in Nat, Allocate(map, n) # NoHeader
  PROVE  /\ IsHeader(Allocate(map, n)) /\ Allocate(map, n).numBytes = n
         /\ Range(Allocate(map, n).dataSectors) \cap map = {}
<1> DEFINE count == divRoundUp(n, SectorSize)
           clear == Sector \ map
           Lowest(i) == CHOOSE s \in clear : Cardinality({t \in clear : t < s}) = i - 1
           data == [i \in 1 .. count |-> Lowest(i)]
<1>1. clear \subseteq Sector /\ clear \subseteq Nat /\ IsFiniteSet(clear) /\ Cardinality(clear) \in Nat
  <2>1. clear \subseteq Sector /\ clear \subseteq Nat
    BY Sectors
  <2>2. IsFiniteSet(clear)
    BY <2>1, Sectors, FS_Subset
  <2> QED BY <2>1, <2>2, FS_CardinalityType
<1>2. count \in Nat
  BY RoundedUp
<1>3. ~(Cardinality(clear) < count) /\ Allocate(map, n) = [numBytes |-> n, dataSectors |-> data]
  BY DEF Allocate
<1>4. count <= Cardinality(clear)
  <2> HIDE DEF clear, count
  <2> QED BY <1>1, <1>2, <1>3
<1>5. ASSUME NEW i \in 1 .. count
      PROVE  Lowest(i) \in clear /\ Cardinality({t \in clear : t < Lowest(i)}) = i - 1
  <2>1. i \in 1 .. Cardinality(clear)
    <3> HIDE DEF clear, count
    <3> QED BY <1>1, <1>2, <1>4, <1>5
  <2>2. \E s \in clear : Cardinality({t \in clear : t < s}) = i - 1
    <3> HIDE DEF clear
    <3> QED BY <1>1, <2>1, Ranked
  <2> HIDE DEF clear, count
  <2> QED BY <2>2
<1>6. data \in [1 .. count -> clear] /\ \A i \in 1 .. count : Cardinality({t \in clear : t < data[i]}) = i - 1
  <2> HIDE DEF clear, count, Lowest
  <2> QED BY <1>5
<1>7. IsInjective(data)
  <2> SUFFICES ASSUME NEW i \in 1 .. count, NEW j \in 1 .. count, data[i] = data[j] PROVE i = j
    BY DEF IsInjective
  <2>1. i - 1 = j - 1
    <3> HIDE DEF data, clear, count
    <3> QED BY <1>6
  <2> HIDE DEF count
  <2> QED BY <2>1, <1>2
<1> DEFINE hdr == Allocate(map, n)
<1>8. hdr.numBytes = n /\ hdr.dataSectors = data
  BY <1>3
<1>9. data \in [1 .. count -> Sector]
  <2> HIDE DEF data, count
  <2> QED BY <1>6, <1>1
<1>10. Range(data) \cap map = {}
  <2> HIDE DEF data, count
  <2> QED BY <1>6 DEF Range
<1> HIDE DEF data
<1> QED BY <1>7, <1>8, <1>9, <1>10 DEF IsHeader

LEMMA Allocates ==
  ASSUME NEW map, NEW n \in Nat, divRoundUp(n, SectorSize) <= Cardinality(Sector \ map)
  PROVE  Allocate(map, n) # NoHeader
<1> DEFINE data == [i \in 1 .. divRoundUp(n, SectorSize) |->
             CHOOSE s \in Sector \ map : Cardinality({t \in Sector \ map : t < s}) = i - 1]
<1>1. Sector \ map \in SUBSET Sector
  OBVIOUS
<1>2. Cardinality(Sector \ map) \in Nat
  BY <1>1, Sectors, FS_Subset, FS_CardinalityType
<1>3. ~(Cardinality(Sector \ map) < divRoundUp(n, SectorSize))
  BY <1>2, RoundedUp
<1>4. Allocate(map, n) = [numBytes |-> n, dataSectors |-> data]
  BY <1>3 DEF Allocate
<1> HIDE DEF data
<1>5. Allocate(map, n).numBytes = n /\ NoHeader.numBytes = -1
  BY <1>4 DEF NoHeader
<1> QED BY <1>5

----------------------------------------------------------------------------
(* Where Format puts the two system files.                                 *)
LEMMA MapAllocated ==
  /\ MapHeader # NoHeader /\ IsHeader(MapHeader) /\ MapHeader.numBytes = MapLength
  /\ divRoundUp(MapLength, SectorSize) = 1
  /\ Range(MapHeader.dataSectors) \cap FormatMap = {}
<1>1. MapLength \in 1 .. SectorSize /\ SectorSize \in Nat \ {0} /\ NumSectors \in Nat
  BY FileSystemAssumption
<1>2. divRoundUp(MapLength, SectorSize) = 1
  <2> DEFINE q == (MapLength + SectorSize - 1) \div SectorSize
             r == (MapLength + SectorSize - 1) % SectorSize
  <2>1. /\ q \in Nat /\ r \in Nat /\ r < SectorSize
        /\ MapLength + SectorSize - 1 = SectorSize * q + r
    <3>1. MapLength + SectorSize - 1 \in Nat
      BY <1>1
    <3> QED BY <1>1, <3>1, Division
  <2> HIDE DEF q, r
  <2>2. q # 0
    BY <1>1, <2>1
  <2>3. ~(q >= 2)
    <3> SUFFICES ASSUME q >= 2 PROVE FALSE
      OBVIOUS
    <3>1. q - 2 \in Nat /\ SectorSize * (q - 2) \in Nat /\ SectorSize * q = SectorSize * (q - 2) + 2 * SectorSize
      BY <1>1, <2>1
    <3> QED BY <1>1, <2>1, <3>1
  <2>4. q = 1
    BY <2>1, <2>2, <2>3
  <2> QED BY <2>4 DEF q, divRoundUp
<1>3. 1 <= Cardinality(Sector \ FormatMap)
  <2>1. MapLength \in Nat /\ 3 <= NumSectors
    <3>1. SectorSize \in Nat \ {0} /\ DirLength + SectorSize - 1 \in Nat
      BY FileSystemAssumption
    <3>2. (DirLength + SectorSize - 1) \div SectorSize \in Nat
      BY <3>1, Division
    <3> QED BY <1>1, <3>2, FileSystemAssumption
  <2>2. 2 \in Sector \ FormatMap
    BY <1>1, <2>1 DEF Sector, FormatMap, FreeMapSector, DirectorySector
  <2>3. Sector \ FormatMap \in SUBSET Sector
    OBVIOUS
  <2>4. IsFiniteSet(Sector \ FormatMap)
    BY <2>3, Sectors, FS_Subset
  <2>5. Cardinality(Sector \ FormatMap) # 0
    BY <2>2, <2>4, FS_EmptySet
  <2> QED BY <2>4, <2>5, FS_CardinalityType
<1>4. MapLength \in Nat
  BY <1>1
<1>5. MapHeader # NoHeader
  BY <1>2, <1>3, <1>4, Allocates DEF MapHeader
<1> QED BY <1>2, <1>4, <1>5, Allocated DEF MapHeader

LEMMA Layout ==
  /\ MapHeader # NoHeader /\ DirHeader # NoHeader /\ IsHeader(MapHeader) /\ IsHeader(DirHeader)
  /\ Len(MapHeader.dataSectors) = 1 /\ Len(DirHeader.dataSectors) = DirSectors
  /\ DirSectors \in Nat /\ CellSector \in [Cell -> 1 .. DirSectors]
  /\ Reserved = {FreeMapSector, DirectorySector, MapSector} \cup {DirSector(i) : i \in 1 .. DirSectors}
  /\ Reserved \subseteq Sector
  /\ FreeMapSector # DirectorySector
  /\ MapSector \in Sector \ {FreeMapSector, DirectorySector}
  /\ \A i \in 1 .. DirSectors :
       /\ DirSector(i) \in Sector \ {FreeMapSector, DirectorySector, MapSector}
       /\ \A j \in 1 .. DirSectors : DirSector(i) = DirSector(j) => i = j
<1>1. MapHeader.dataSectors \in [1 .. 1 -> Sector]
  BY MapAllocated DEF IsHeader
<1>2. Range(MapHeader.dataSectors) = {MapSector} /\ MapSector \in Sector /\ Len(MapHeader.dataSectors) = 1
  BY <1>1 DEF Range, MapSector
<1>3. DirSectors \in Nat /\ DirLength \in Nat
  BY RoundedUp, FileSystemAssumption DEF DirSectors
<1> DEFINE taken == FormatMap \cup Range(MapHeader.dataSectors)
<1>4. DirSectors <= Cardinality(Sector \ taken)
  <2>1. 3 + DirSectors <= NumSectors /\ NumSectors \in Nat
    BY FileSystemAssumption DEF DirSectors, divRoundUp
  <2>2. taken = {FreeMapSector, DirectorySector} \cup {MapSector}
    BY <1>2 DEF FormatMap
  <2>3. IsFiniteSet({}) /\ Cardinality({}) = 0
    BY FS_EmptySet
  <2>4. IsFiniteSet({FreeMapSector}) /\ Cardinality({FreeMapSector}) = 1
    BY FS_Singleton
  <2>5. IsFiniteSet({FreeMapSector} \cup {DirectorySector}) /\ Cardinality({FreeMapSector} \cup {DirectorySector}) <= 2
    BY <2>4, FS_AddElement
  <2>6. Cardinality({FreeMapSector} \cup {DirectorySector}) \in Nat
    BY <2>5, FS_CardinalityType
  <2>7. /\ IsFiniteSet(({FreeMapSector} \cup {DirectorySector}) \cup {MapSector})
        /\ Cardinality(({FreeMapSector} \cup {DirectorySector}) \cup {MapSector}) <= 3
    BY <2>5, <2>6, FS_AddElement
  <2>8. taken = ({FreeMapSector} \cup {DirectorySector}) \cup {MapSector}
    BY <2>2
  <2>9. IsFiniteSet(taken) /\ Cardinality(taken) <= 3 /\ Cardinality(taken) \in Nat
    BY <2>7, <2>8, FS_CardinalityType
  <2> HIDE DEF taken
  <2>10. /\ Cardinality(Sector \ taken) = Cardinality(Sector) - Cardinality(Sector \cap taken)
         /\ IsFiniteSet(Sector \cap taken)
         /\ Cardinality(Sector \cap taken) <= Cardinality(taken)
    <3>1. taken \cap Sector = Sector \cap taken
      OBVIOUS
    <3> QED BY <2>9, <3>1, Sectors, FS_Difference, FS_Intersection
  <2>11. Cardinality(Sector \cap taken) \in Nat
    BY <2>10, FS_CardinalityType
  <2> QED BY <2>1, <2>9, <2>10, <2>11, <1>3, Sectors
<1>5. DirHeader # NoHeader
  BY <1>3, <1>4, Allocates DEF DirHeader, DirSectors
<1>6. /\ IsHeader(DirHeader) /\ DirHeader.numBytes = DirLength
      /\ Range(DirHeader.dataSectors) \cap taken = {}
  BY <1>3, <1>5, Allocated DEF DirHeader
<1>7. DirHeader.dataSectors \in [1 .. DirSectors -> Sector] /\ IsInjective(DirHeader.dataSectors)
  BY <1>6 DEF IsHeader, DirSectors
<1>8. Len(DirHeader.dataSectors) = DirSectors
  BY <1>3, <1>7
<1>9. Range(DirHeader.dataSectors) = {DirSector(i) : i \in 1 .. DirSectors}
  BY <1>7 DEF Range, DirSector
<1>10. CellSector \in [Cell -> 1 .. DirSectors]
  BY FileSystemAssumption DEF DirSectors, divRoundUp
<1>11. Reserved = {FreeMapSector, DirectorySector, MapSector} \cup {DirSector(i) : i \in 1 .. DirSectors}
  BY <1>2, <1>9 DEF Reserved, FormatMap
<1>12. MapSector \notin {FreeMapSector, DirectorySector}
  BY <1>2, MapAllocated DEF FormatMap
<1>13. ASSUME NEW i \in 1 .. DirSectors
       PROVE  /\ DirSector(i) \in Sector \ {FreeMapSector, DirectorySector, MapSector}
              /\ \A j \in 1 .. DirSectors : DirSector(i) = DirSector(j) => i = j
  <2>1. DirSector(i) \in Sector
    BY <1>7 DEF DirSector
  <2>2. DirSector(i) \notin taken
    BY <1>6, <1>9
  <2>3. \A j \in 1 .. DirSectors : DirSector(i) = DirSector(j) => i = j
    BY <1>7 DEF DirSector, IsInjective
  <2> QED BY <2>1, <2>2, <2>3, <1>2 DEF FormatMap
<1>14. Reserved \subseteq Sector
  BY <1>2, <1>11, <1>13, Sectors
<1>15. FreeMapSector # DirectorySector
  BY DEF FreeMapSector, DirectorySector
<1> HIDE DEF taken
<1> QED BY <1>2, <1>3, <1>5, <1>6, <1>8, <1>10, <1>11, <1>12, <1>13, <1>14, <1>15, MapAllocated

----------------------------------------------------------------------------
(* The disk after some of the writes.                                      *)
LEMMA AfterDisk ==
  ASSUME NEW d, NEW w, NEW k
  PROVE  IsDisk(After(d, w, k))
BY DEF IsDisk, After

LEMMA AfterHit ==
  ASSUME NEW d, NEW w, IsWrites(w), NEW k \in Nat, k <= Len(w), NEW j \in Nat, 1 <= j, j <= k
  PROVE  After(d, w, k)[To(w, j)] = What(w, j)
<1> DEFINE s == To(w, j)
           i == CHOOSE i \in 1 .. k : To(w, i) = s
<1>1. j \in 1 .. Len(w) /\ s \in Sector /\ j \in 1 .. k
  BY DEF IsWrites
<1>2. i \in 1 .. k /\ To(w, i) = s
  BY <1>1
<1>3. i = j
  <2> HIDE DEF i
  <2>1. i \in 1 .. Len(w)
    BY <1>2 DEF IsWrites
  <2> QED BY <1>1, <1>2, <2>1 DEF IsWrites
<1>4. After(d, w, k)[s] = What(w, i)
  <2>1. \E x \in 1 .. k : To(w, x) = s
    BY <1>1
  <2> QED BY <1>1, <2>1 DEF After
<1> HIDE DEF i
<1> QED BY <1>3, <1>4

LEMMA AfterElse ==
  ASSUME NEW d, NEW w, NEW k, NEW s \in Sector, \A j \in 1 .. k : To(w, j) # s
  PROVE  After(d, w, k)[s] = d[s]
BY DEF After

LEMMA AfterOnly ==
  ASSUME NEW d, NEW w, IsWrites(w), NEW k \in Nat, k <= Len(w), NEW e, IsDisk(e),
         \A j \in 1 .. k : e[To(w, j)] = What(w, j),
         \A s \in Sector : (\A j \in 1 .. k : To(w, j) # s) => e[s] = d[s]
  PROVE  e = After(d, w, k)
<1> DEFINE f == After(d, w, k)
<1>1. IsDisk(f)
  BY AfterDisk
<1>2. ASSUME NEW s \in Sector PROVE e[s] = f[s]
  <2>1. CASE \E j \in 1 .. k : To(w, j) = s
    <3>1. PICK j \in 1 .. k : To(w, j) = s
      BY <2>1
    <3>2. 1 <= j /\ j <= k /\ j \in Nat
      OBVIOUS
    <3> QED BY <3>1, <3>2, AfterHit
  <2>2. CASE \A j \in 1 .. k : To(w, j) # s
    BY <2>2, AfterElse
  <2> QED BY <2>1, <2>2
<1> HIDE DEF f
<1>3. e = f
  BY <1>1, <1>2 DEF IsDisk
<1> QED BY <1>3 DEF f

LEMMA AfterNone ==
  ASSUME NEW d, NEW w, IsDisk(d), IsWrites(w)
  PROVE  After(d, w, 0) = d
<1>1. 0 \in Nat /\ 0 <= Len(w)
  BY DEF IsWrites
<1>2. /\ \A j \in 1 .. 0 : d[To(w, j)] = What(w, j)
      /\ \A s \in Sector : (\A j \in 1 .. 0 : To(w, j) # s) => d[s] = d[s]
  OBVIOUS
<1>3. d = After(d, w, 0)
  BY <1>1, <1>2, AfterOnly
<1> QED BY <1>3

LEMMA IsSeq ==
  ASSUME NEW w, IsWrites(w), w # <<>>
  PROVE  /\ w \in Seq(Range(w)) /\ Len(w) \in Nat \ {0} /\ Head(w) = w[1] /\ Head(w)[1] \in Sector
         /\ IsWrites(Tail(w)) /\ Len(Tail(w)) = Len(w) - 1
         /\ To(w, 1) = Head(w)[1] /\ What(w, 1) = Head(w)[2]
         /\ \A j \in 1 .. Len(w) - 1 : To(Tail(w), j) = To(w, j + 1) /\ What(Tail(w), j) = What(w, j + 1)
<1>1. Len(w) \in Nat /\ w = [j \in 1 .. Len(w) |-> w[j]]
  BY DEF IsWrites
<1>2. w \in Seq(Range(w))
  <2> DEFINE n == Len(w)
  <2>1. \A j \in 1 .. n : w[j] \in Range(w)
    BY <1>1 DEF Range
  <2>2. [j \in 1 .. n |-> w[j]] \in [1 .. n -> Range(w)]
    BY <2>1
  <2>3. w \in [1 .. n -> Range(w)]
    BY <1>1, <2>2
  <2> HIDE DEF n
  <2> QED BY <1>1, <2>3 DEF n
<1>3. Len(w) # 0
  BY <1>2
<1>4. /\ Head(w) = w[1] /\ Tail(w) \in Seq(Range(w)) /\ Len(Tail(w)) = Len(w) - 1
      /\ \A j \in 1 .. Len(w) - 1 : Tail(w)[j] = w[j + 1]
  BY <1>2
<1> DEFINE t == Tail(w)
<1>5. t = [j \in 1 .. Len(t) |-> t[j]]
  <2>1. t \in Seq(Range(w))
    BY <1>4
  <2> HIDE DEF t
  <2> QED BY <2>1
<1> HIDE DEF t
<1>6. \A j \in 1 .. Len(t) : /\ j + 1 \in 1 .. Len(w) /\ To(t, j) = To(w, j + 1)
                             /\ What(t, j) = What(w, j + 1)
  BY <1>1, <1>3, <1>4 DEF t, To, What
<1>7. IsWrites(t)
  <2>1. Len(t) \in Nat
    BY <1>1, <1>3, <1>4 DEF t
  <2>2. \A j \in 1 .. Len(t) : To(t, j) \in Sector
    BY <1>6 DEF IsWrites
  <2>3. ASSUME NEW j \in 1 .. Len(t), NEW k \in 1 .. Len(t), To(t, j) = To(t, k) PROVE j = k
    <3>1. j + 1 = k + 1
      BY <1>6, <2>3 DEF IsWrites
    <3> QED BY <3>1, <2>1
  <2> QED BY <1>5, <2>1, <2>2, <2>3 DEF IsWrites
<1>8. Head(w)[1] \in Sector
  BY <1>1, <1>3, <1>4 DEF IsWrites, To
<1>9. \A j \in 1 .. Len(w) - 1 : To(t, j) = To(w, j + 1) /\ What(t, j) = What(w, j + 1)
  BY <1>4, <1>6 DEF t
<1> QED BY <1>1, <1>2, <1>3, <1>4, <1>7, <1>8, <1>9 DEF t, To, What

(* One write nearer: t is the rest of w, and e the disk with its first.    *)
IsRest(t, w) ==
  /\ Len(w) = Len(t) + 1
  /\ \A j \in 1 .. Len(t) : To(t, j) = To(w, j + 1) /\ What(t, j) = What(w, j + 1)
FirstDone(d, w, e) ==
  \A s \in Sector : e[s] = IF s = To(w, 1) THEN What(w, 1) ELSE d[s]

LEMMA AfterRest ==
  ASSUME NEW d, NEW w, IsWrites(w), NEW e, NEW t, IsWrites(t), IsRest(t, w),
         FirstDone(d, w, e),
         NEW k \in Nat, k <= Len(t)
  PROVE  After(e, t, k) = After(d, w, k + 1)
<1> DEFINE f == After(e, t, k)
<1>1. Len(t) \in Nat /\ k + 1 \in Nat /\ k + 1 <= Len(w) /\ k \in Nat /\ \A j \in 1 .. k : j \in 1 .. Len(t)
  BY DEF IsWrites, IsRest
<1>2. IsDisk(f) /\ \A j \in 1 .. k : f[To(t, j)] = What(t, j)
  <2>1. IsDisk(f)
    BY AfterDisk
  <2>2. ASSUME NEW j \in 1 .. k PROVE f[To(t, j)] = What(t, j)
    <3>1. j \in Nat /\ 1 <= j /\ j <= k
      OBVIOUS
    <3> QED BY <3>1, AfterHit
  <2> QED BY <2>1, <2>2
<1>3. ASSUME NEW s \in Sector, \A j \in 1 .. k : To(t, j) # s PROVE f[s] = e[s]
  BY ONLY s \in Sector, <1>3, AfterElse
<1> HIDE DEF f
<1>4. \A j \in 1 .. k : To(t, j) = To(w, j + 1) /\ What(t, j) = What(w, j + 1)
  BY <1>1 DEF IsRest
<1>5. \A j \in 1 .. k : To(w, j + 1) # To(w, 1)
  <2>1. \A j \in 1 .. k : j + 1 \in 1 .. Len(w) /\ 1 \in 1 .. Len(w) /\ j + 1 # 1
    BY <1>1
  <2> QED BY <2>1 DEF IsWrites
<1>6. To(w, 1) \in Sector
  <2>1. 1 \in 1 .. Len(w)
    BY <1>1
  <2> QED BY <2>1 DEF IsWrites
<1>7. ASSUME NEW j \in 1 .. k + 1 PROVE f[To(w, j)] = What(w, j)
  <2>1. CASE j = 1
    <3>1. \A i \in 1 .. k : To(t, i) # To(w, 1)
      BY <1>4, <1>5
    <3>2. f[To(w, 1)] = e[To(w, 1)]
      BY <3>1, <1>3, <1>6
    <3>3. e[To(w, 1)] = What(w, 1)
      BY <1>6 DEF FirstDone
    <3> QED BY <2>1, <3>2, <3>3
  <2>2. CASE j # 1
    <3>1. j - 1 \in 1 .. k /\ (j - 1) + 1 = j
      BY <1>1, <2>2
    <3>2. To(t, j - 1) = To(w, j) /\ What(t, j - 1) = What(w, j)
      BY <3>1, <1>4
    <3>3. f[To(t, j - 1)] = What(t, j - 1)
      BY <3>1, <1>2
    <3> QED BY <3>2, <3>3
  <2> QED BY <2>1, <2>2
<1>8. ASSUME NEW s \in Sector, \A j \in 1 .. k + 1 : To(w, j) # s PROVE f[s] = d[s]
  <2>1. \A j \in 1 .. k : To(t, j) # s
    <3>1. \A j \in 1 .. k : j + 1 \in 1 .. k + 1
      BY <1>1
    <3> QED BY <3>1, <1>4, <1>8
  <2>2. 1 \in 1 .. k + 1
    BY <1>1
  <2>3. s # To(w, 1)
    BY <2>2, <1>8
  <2>4. f[s] = e[s]
    BY <2>1, <1>3
  <2> QED BY <2>3, <2>4 DEF FirstDone
<1>9. f = After(d, w, k + 1)
  <2> DEFINE m == k + 1
  <2>1. m \in Nat /\ m <= Len(w) /\ IsDisk(f)
    BY <1>1, <1>2
  <2>2. \A j \in 1 .. m : f[To(w, j)] = What(w, j)
    BY <1>7
  <2>3. \A s \in Sector : (\A j \in 1 .. m : To(w, j) # s) => f[s] = d[s]
    BY <1>8
  <2> HIDE DEF m
  <2>4. f = After(d, w, m)
    BY ONLY IsWrites(w), <2>1, <2>2, <2>3, AfterOnly, SMTT(30)
  <2> QED BY <2>4 DEF m
<1> QED BY <1>9 DEF f

LEMMA AfterNext ==
  ASSUME NEW d, NEW w, IsDisk(d), IsWrites(w), w # <<>>,
         NEW e, e = [d EXCEPT ![Head(w)[1]] = Head(w)[2]]
  PROVE  /\ IsDisk(e)
         /\ \A k \in Nat : k <= Len(Tail(w)) => After(e, Tail(w), k) = After(d, w, k + 1)
<1>1. /\ Len(w) \in Nat \ {0} /\ Head(w) = w[1] /\ Head(w)[1] \in Sector
      /\ IsWrites(Tail(w)) /\ Len(Tail(w)) = Len(w) - 1
      /\ To(w, 1) = Head(w)[1] /\ What(w, 1) = Head(w)[2]
      /\ \A j \in 1 .. Len(w) - 1 : To(Tail(w), j) = To(w, j + 1) /\ What(Tail(w), j) = What(w, j + 1)
  BY IsSeq
<1>2. e = [s \in Sector |-> IF s = To(w, 1) THEN What(w, 1) ELSE d[s]]
  BY <1>1 DEF IsDisk
<1>3. IsDisk(e)
  BY <1>2 DEF IsDisk
<1>4. FirstDone(d, w, e)
  BY <1>2 DEF FirstDone
<1> DEFINE t == Tail(w)
<1>5. IsWrites(t) /\ IsRest(t, w)
  BY <1>1 DEF IsRest
<1> HIDE DEF t
<1>6. \A k \in Nat : k <= Len(t) => After(e, t, k) = After(d, w, k + 1)
  BY <1>4, <1>5, AfterRest
<1> QED BY <1>3, <1>6 DEF t

----------------------------------------------------------------------------
(* What the calls write: the shape of their writes.                        *)
RowOf(t, i) ==
  [kind |-> "directory", cells |-> [c \in {x \in Cell : CellSector[x] = i} |-> t[c]]]
HasTable(w, o, t) ==
  /\ o \in Nat /\ o + DirSectors <= Len(w)
  /\ \A i \in 1 .. DirSectors :
       /\ To(w, o + i) = DirSector(i)
       /\ What(w, o + i) = RowOf(t, i)

(* A sector that a call writes at p holds the new contents from then on.   *)
LEMMA SectorAfter ==
  ASSUME NEW d, NEW w, IsWrites(w), NEW k \in Nat, k <= Len(w),
         NEW p \in Nat, 1 <= p, p <= Len(w)
  PROVE  After(d, w, k)[To(w, p)] = IF p <= k THEN What(w, p) ELSE d[To(w, p)]
<1>1. Len(w) \in Nat /\ To(w, p) \in Sector
  BY DEF IsWrites
<1>2. CASE p <= k
  BY <1>2, AfterHit
<1>3. CASE ~(p <= k)
  <2>1. ASSUME NEW j \in 1 .. k PROVE To(w, j) # To(w, p)
    <3>1. j \in 1 .. Len(w) /\ j # p /\ p \in 1 .. Len(w)
      BY <1>1, <1>3
    <3> QED BY <3>1 DEF IsWrites
  <2> QED BY <1>1, <1>3, <2>1, AfterElse
<1> QED BY <1>2, <1>3

LEMMA TableAfter ==
  ASSUME NEW d, NEW w, IsWrites(w), NEW k \in Nat, k <= Len(w), NEW o, NEW t, HasTable(w, o, t),
         NEW c \in Cell
  PROVE  TableOf(After(d, w, k))[c] = IF o + CellSector[c] <= k THEN t[c] ELSE TableOf(d)[c]
<1> DEFINE e == After(d, w, k)
<1>1. e[DirSector(CellSector[c])].cells[c] =
        IF o + CellSector[c] <= k THEN t[c] ELSE d[DirSector(CellSector[c])].cells[c]
  <2>1. CellSector[c] \in 1 .. DirSectors /\ DirSectors \in Nat
    BY Layout
  <2> DEFINE i == CellSector[c]
             p == o + i
  <2> DEFINE cells == [x \in {y \in Cell : CellSector[y] = i} |-> t[x]]
  <2>2. p \in Nat /\ 1 <= p /\ p <= Len(w)
    <3>1. o \in Nat /\ o + DirSectors <= Len(w) /\ Len(w) \in Nat
      BY DEF HasTable, IsWrites
    <3> QED BY <2>1, <3>1
  <2>3. c \in {y \in Cell : CellSector[y] = i}
    OBVIOUS
  <2>4. cells[c] = t[c]
    BY <2>3
  <2>5. To(w, p) = DirSector(i) /\ What(w, p) = [kind |-> "directory", cells |-> cells]
    BY <2>1 DEF HasTable, RowOf
  <2> HIDE DEF cells, p, i
  <2>6. e[DirSector(i)] = IF p <= k THEN What(w, p) ELSE d[DirSector(i)]
    <3>1. CASE p <= k
      <4>1. After(d, w, k)[To(w, p)] = What(w, p)
        BY <2>2, <3>1, AfterHit
      <4> QED BY <2>5, <3>1, <4>1
    <3>2. CASE ~(p <= k)
      <4>1. To(w, p) \in Sector /\ \A j \in 1 .. k : To(w, j) # To(w, p)
        BY <2>2, <3>2 DEF IsWrites
      <4>2. After(d, w, k)[To(w, p)] = d[To(w, p)]
        BY <4>1, AfterElse
      <4> QED BY <2>5, <3>2, <4>2
    <3> QED BY <3>1, <3>2
  <2> HIDE DEF e
  <2>7. e[DirSector(i)].cells[c] = IF p <= k THEN t[c] ELSE d[DirSector(i)].cells[c]
    BY <2>4, <2>5, <2>6
  <2> QED BY <2>7 DEF i, p
<1> HIDE DEF e
<1>2. TableOf(e)[c] = e[DirSector(CellSector[c])].cells[c] /\ TableOf(d)[c] = d[DirSector(CellSector[c])].cells[c]
  BY DEF TableOf
<1>3. TableOf(e)[c] = IF o + CellSector[c] <= k THEN t[c] ELSE TableOf(d)[c]
  BY <1>1, <1>2
<1> QED BY <1>3 DEF e

IsList(T, n) == T = [i \in 1 .. n |-> T[i]]

IsBetween(w, a, T, b, n) ==
  /\ Len(w) = n + 2 /\ w = [j \in 1 .. Len(w) |-> w[j]]
  /\ w[1] = a /\ w[n + 2] = b /\ \A i \in 1 .. n : w[1 + i] = T[i]
IsBehind(w, x, T, n) ==
  /\ Len(w) = n + Len(x) /\ w = [j \in 1 .. Len(w) |-> w[j]]
  /\ \A i \in 1 .. Len(x) : w[i] = x[i]
  /\ \A i \in 1 .. n : w[Len(x) + i] = T[i]

LEMMA Behind ==
  ASSUME NEW x, NEW m \in Nat, IsList(x, m), NEW n \in Nat, NEW T, IsList(T, n), NEW w, w = x \o T
  PROVE  IsBehind(w, x, T, n)
<1> DEFINE S == Range(x) \cup Range(T)
<1>1. T \in Seq(S) /\ Len(T) = n /\ x \in Seq(S) /\ Len(x) = m
  <2>1. (\A i \in 1 .. n : T[i] \in S) /\ \A i \in 1 .. m : x[i] \in S
    BY DEF Range, IsList
  <2>2. T \in [1 .. n -> S] /\ x \in [1 .. m -> S]
    <3> HIDE DEF S
    <3> QED BY <2>1 DEF IsList
  <2> HIDE DEF S
  <2> QED BY <2>2
<1> HIDE DEF S
<1>2. /\ x \o T \in Seq(S) /\ Len(x \o T) = Len(x) + Len(T)
      /\ \A i \in 1 .. Len(x) + Len(T) : (x \o T)[i] = IF i <= Len(x) THEN x[i] ELSE T[i - Len(x)]
  BY <1>1, ConcatProperties, Zenon
<1>3. /\ w \in Seq(S) /\ Len(w) = m + n
      /\ \A i \in 1 .. m + n : w[i] = IF i <= m THEN x[i] ELSE T[i - m]
  <2> DEFINE v == x \o T
  <2>1. /\ v \in Seq(S) /\ Len(v) = Len(x) + Len(T)
        /\ \A i \in 1 .. Len(x) + Len(T) : v[i] = IF i <= Len(x) THEN x[i] ELSE T[i - Len(x)]
    BY <1>2
  <2>2. v = w
    OBVIOUS
  <2> HIDE DEF v
  <2>3. Len(x) = m /\ Len(T) = n
    BY <1>1
  <2> QED BY <2>1, <2>2, <2>3
<1>4. \A i \in 1 .. m : w[i] = x[i]
  <2>1. \A i \in 1 .. m : i \in 1 .. m + n /\ i <= m
    OBVIOUS
  <2> QED BY ONLY <2>1, <1>3
<1>5. ASSUME NEW i \in 1 .. n PROVE w[m + i] = T[i]
  <2>1. m + i \in 1 .. m + n /\ ~(m + i <= m) /\ (m + i) - m = i
    OBVIOUS
  <2> QED BY ONLY <2>1, <1>3
<1>6. w = [j \in 1 .. Len(w) |-> w[j]]
  BY ONLY <1>3
<1>7. Len(w) = n + Len(x) /\ Len(x) = m
  BY <1>1, <1>3
<1> QED BY ONLY <1>4, <1>5, <1>6, <1>7 DEF IsBehind

LEMMA Between ==
  ASSUME NEW a, NEW b, NEW n \in Nat, NEW T, IsList(T, n),
         NEW w, w = <<a>> \o T \o <<b>>
  PROVE  IsBetween(w, a, T, b, n)
<1> DEFINE x == <<a>>
           y == <<b>>
           z == x \o T
<1>1. 1 \in Nat /\ IsList(x, 1) /\ IsList(y, 1) /\ Len(x) = 1 /\ Len(y) = 1 /\ x[1] = a /\ y[1] = b
  BY DEF IsList
<1>2. z = x \o T /\ w = z \o y
  OBVIOUS
<1> HIDE DEF x, y, z
<1>3. IsBehind(z, x, T, n)
  BY <1>1, <1>2, Behind
<1>4. Len(z) = n + 1 /\ IsList(z, n + 1) /\ z[1] = a /\ \A i \in 1 .. n : z[1 + i] = T[i]
  BY <1>1, <1>3 DEF IsBehind, IsList
<1>5. n + 1 \in Nat
  OBVIOUS
<1>6. IsBehind(w, z, y, 1)
  BY <1>1, <1>2, <1>4, <1>5, Behind
<1>7. /\ Len(w) = n + 2 /\ w = [j \in 1 .. Len(w) |-> w[j]]
      /\ \A i \in 1 .. n + 1 : w[i] = z[i]
  BY <1>4, <1>6 DEF IsBehind
<1>8. w[n + 2] = b
  <2>1. \A i \in 1 .. 1 : w[(n + 1) + i] = y[i]
    BY <1>4, <1>6 DEF IsBehind
  <2>2. 1 \in 1 .. 1 /\ (n + 1) + 1 = n + 2
    OBVIOUS
  <2> QED BY <2>1, <2>2, <1>1
<1>9. w[1] = a /\ \A i \in 1 .. n : w[1 + i] = T[i]
  <2>1. 1 \in 1 .. n + 1 /\ \A i \in 1 .. n : 1 + i \in 1 .. n + 1
    OBVIOUS
  <2> QED BY <2>1, <1>4, <1>7
<1> QED BY <1>7, <1>8, <1>9 DEF IsBetween

LEMMA TableShape ==
  ASSUME NEW t, NEW T, T = WriteTable(DirHeader, t)
  PROVE  /\ IsList(T, DirSectors)
         /\ \A i \in 1 .. DirSectors : T[i] = <<DirSector(i), RowOf(t, i)>>
BY Layout DEF WriteTable, DirSector, RowOf, IsList

(* Create: the new header, the directory, the free map.                    *)
IsCreate(w, sector, hdr, table, map) ==
  /\ Len(w) = DirSectors + 2
  /\ To(w, 1) = sector /\ What(w, 1) = [kind |-> "header", hdr |-> hdr]
  /\ HasTable(w, 1, table)
  /\ To(w, DirSectors + 2) = MapSector
  /\ What(w, DirSectors + 2) = [kind |-> "map", map |-> map]

(* Remove: the free map, the directory.                                    *)
IsRemove(w, table, map) ==
  /\ Len(w) = DirSectors + 1
  /\ To(w, 1) = MapSector /\ What(w, 1) = [kind |-> "map", map |-> map]
  /\ HasTable(w, 1, table)

IsFormat(w) ==
  /\ Len(w) = DirSectors + 3
  /\ To(w, 1) = FreeMapSector /\ What(w, 1) = [kind |-> "header", hdr |-> MapHeader]
  /\ To(w, 2) = DirectorySector /\ What(w, 2) = [kind |-> "header", hdr |-> DirHeader]
  /\ To(w, 3) = MapSector /\ What(w, 3) = [kind |-> "map", map |-> Reserved]
  /\ HasTable(w, 3, EmptyTable)

LEMMA CreateShape ==
  ASSUME NEW sector \in Sector, sector \notin Reserved, NEW hdr, NEW table, NEW map,
         NEW w, w = WriteHeader(sector, hdr) \o WriteTable(DirHeader, table) \o WriteMap(MapHeader, map)
  PROVE  IsWrites(w) /\ IsCreate(w, sector, hdr, table, map)
<1> DEFINE a == <<sector, [kind |-> "header", hdr |-> hdr]>>
           b == <<MapSector, [kind |-> "map", map |-> map]>>
           T == WriteTable(DirHeader, table)
           n == DirSectors
<1>1. n \in Nat
  BY Layout
<1>2. IsList(T, n) /\ \A i \in 1 .. n : T[i] = <<DirSector(i), RowOf(table, i)>>
  <2> HIDE DEF n
  <2> QED BY TableShape DEF n
<1>3. w = <<a>> \o T \o <<b>>
  BY DEF WriteHeader, WriteMap, MapSector
<1>4. a[1] = sector /\ a[2] = [kind |-> "header", hdr |-> hdr] /\ b[1] = MapSector /\ b[2] = [kind |-> "map", map |-> map]
  OBVIOUS
<1> HIDE DEF a, b, T, n
<1>5. /\ Len(w) = n + 2 /\ w = [j \in 1 .. Len(w) |-> w[j]]
      /\ w[1] = a /\ w[n + 2] = b /\ \A i \in 1 .. n : w[1 + i] = T[i]
  <2>1. IsBetween(w, a, T, b, n)
    BY <1>1, <1>2, <1>3, Between
  <2> QED BY <2>1 DEF IsBetween
<1>6. /\ To(w, 1) = sector /\ What(w, 1) = [kind |-> "header", hdr |-> hdr]
      /\ To(w, n + 2) = MapSector /\ What(w, n + 2) = [kind |-> "map", map |-> map]
  BY <1>4, <1>5 DEF To, What
<1>7. \A i \in 1 .. n : To(w, 1 + i) = DirSector(i) /\ What(w, 1 + i) = RowOf(table, i)
  <2> SUFFICES ASSUME NEW i \in 1 .. n
               PROVE  To(w, 1 + i) = DirSector(i) /\ What(w, 1 + i) = RowOf(table, i)
    OBVIOUS
  <2>1. w[1 + i] = <<DirSector(i), RowOf(table, i)>>
    BY <1>2, <1>5
  <2> QED BY <2>1 DEF To, What
<1>8. HasTable(w, 1, table)
  <2>1. 1 \in Nat /\ 1 + n <= Len(w)
    BY <1>1, <1>5
  <2> QED BY <2>1, <1>7 DEF HasTable, n
<1>9. IsCreate(w, sector, hdr, table, map)
  BY <1>5, <1>6, <1>8 DEF IsCreate, n
<1>10. /\ sector \notin {DirSector(i) : i \in 1 .. n} /\ sector # MapSector /\ MapSector \in Sector
       /\ \A i \in 1 .. n : /\ DirSector(i) \in Sector /\ DirSector(i) # MapSector
                            /\ \A j \in 1 .. n : DirSector(i) = DirSector(j) => i = j
  BY Layout DEF n
<1>11. \A j \in 1 .. Len(w) : j = 1 \/ j = n + 2 \/ (j - 1 \in 1 .. n /\ 1 + (j - 1) = j)
  BY <1>1, <1>5
<1>12. \A j \in 1 .. Len(w) : \/ j = 1 /\ To(w, j) = sector
                              \/ j = n + 2 /\ To(w, j) = MapSector
                              \/ j - 1 \in 1 .. n /\ To(w, j) = DirSector(j - 1)
  BY <1>6, <1>7, <1>11
<1>13. \A j \in 1 .. Len(w) : To(w, j) \in Sector
  BY <1>10, <1>12
<1>14. ASSUME NEW j \in 1 .. Len(w), NEW k \in 1 .. Len(w), To(w, j) = To(w, k) PROVE j = k
  <2>1. ASSUME j - 1 \in 1 .. n, k - 1 \in 1 .. n, DirSector(j - 1) = DirSector(k - 1) PROVE j = k
    <3>1. j - 1 = k - 1
      BY <2>1, <1>10
    <3> QED BY <3>1
  <2> QED BY <1>10, <1>12, <1>14, <2>1
<1> QED BY <1>1, <1>5, <1>9, <1>13, <1>14 DEF IsWrites

LEMMA RemoveShape ==
  ASSUME NEW table, NEW map, NEW w, w = WriteMap(MapHeader, map) \o WriteTable(DirHeader, table)
  PROVE  IsWrites(w) /\ IsRemove(w, table, map)
<1> DEFINE a == <<MapSector, [kind |-> "map", map |-> map]>>
           T == WriteTable(DirHeader, table)
           n == DirSectors
<1>1. n \in Nat
  BY Layout
<1>2. IsList(T, n) /\ \A i \in 1 .. n : T[i] = <<DirSector(i), RowOf(table, i)>>
  <2> HIDE DEF n
  <2> QED BY TableShape DEF n
<1>3. w = <<a>> \o T
  BY DEF WriteMap, MapSector
<1>4. a[1] = MapSector /\ a[2] = [kind |-> "map", map |-> map]
  OBVIOUS
<1> HIDE DEF a, T, n
<1>5. /\ Len(w) = n + 1 /\ w = [j \in 1 .. Len(w) |-> w[j]]
      /\ w[1] = a /\ \A i \in 1 .. n : w[1 + i] = T[i]
  <2> DEFINE x == <<a>>
  <2>1. IsList(x, 1) /\ 1 \in Nat /\ Len(x) = 1 /\ x[1] = a /\ w = x \o T
    BY <1>3 DEF IsList
  <2> HIDE DEF x
  <2>2. IsBehind(w, x, T, n)
    BY <2>1, <1>1, <1>2, Behind
  <2>3. Len(w) = n + 1 /\ w = [j \in 1 .. Len(w) |-> w[j]]
    BY <2>1, <2>2 DEF IsBehind
  <2>4. 1 \in 1 .. 1
    OBVIOUS
  <2>5. w[1] = a /\ \A i \in 1 .. n : w[1 + i] = T[i]
    BY <2>1, <2>2, <2>4 DEF IsBehind
  <2> QED BY <2>3, <2>5
<1>6. To(w, 1) = MapSector /\ What(w, 1) = [kind |-> "map", map |-> map]
  BY <1>4, <1>5 DEF To, What
<1>7. \A i \in 1 .. n : To(w, 1 + i) = DirSector(i) /\ What(w, 1 + i) = RowOf(table, i)
  <2> SUFFICES ASSUME NEW i \in 1 .. n
               PROVE  To(w, 1 + i) = DirSector(i) /\ What(w, 1 + i) = RowOf(table, i)
    OBVIOUS
  <2>1. w[1 + i] = <<DirSector(i), RowOf(table, i)>>
    BY <1>2, <1>5
  <2> QED BY <2>1 DEF To, What
<1>8. HasTable(w, 1, table)
  <2>1. 1 \in Nat /\ 1 + n <= Len(w)
    BY <1>1, <1>5
  <2> QED BY <2>1, <1>7 DEF HasTable, n
<1>9. IsRemove(w, table, map)
  BY <1>5, <1>6, <1>8 DEF IsRemove, n
<1>10. /\ MapSector \in Sector
       /\ \A i \in 1 .. n : /\ DirSector(i) \in Sector /\ DirSector(i) # MapSector
                            /\ \A j \in 1 .. n : DirSector(i) = DirSector(j) => i = j
  BY Layout DEF n
<1>11. \A j \in 1 .. Len(w) : j = 1 \/ (j - 1 \in 1 .. n /\ 1 + (j - 1) = j)
  BY <1>1, <1>5
<1>12. \A j \in 1 .. Len(w) : \/ j = 1 /\ To(w, j) = MapSector
                              \/ j - 1 \in 1 .. n /\ To(w, j) = DirSector(j - 1)
  BY <1>6, <1>7, <1>11
<1>13. \A j \in 1 .. Len(w) : To(w, j) \in Sector
  BY <1>10, <1>12
<1>14. ASSUME NEW j \in 1 .. Len(w), NEW k \in 1 .. Len(w), To(w, j) = To(w, k) PROVE j = k
  <2>1. ASSUME j - 1 \in 1 .. n, k - 1 \in 1 .. n, DirSector(j - 1) = DirSector(k - 1) PROVE j = k
    <3>1. j - 1 = k - 1
      BY <2>1, <1>10
    <3> QED BY <3>1
  <2> QED BY <1>10, <1>12, <1>14, <2>1
<1> QED BY <1>1, <1>5, <1>9, <1>13, <1>14 DEF IsWrites

LEMMA FormatShape ==
  IsWrites(FormatWrites) /\ IsFormat(FormatWrites)
<1> DEFINE w == FormatWrites
           a == <<FreeMapSector, [kind |-> "header", hdr |-> MapHeader]>>
           b == <<DirectorySector, [kind |-> "header", hdr |-> DirHeader]>>
           m == <<MapSector, [kind |-> "map", map |-> Reserved]>>
           T == WriteTable(DirHeader, EmptyTable)
           n == DirSectors
<1>1. n \in Nat
  BY Layout
<1>2. IsList(T, n) /\ \A i \in 1 .. n : T[i] = <<DirSector(i), RowOf(EmptyTable, i)>>
  <2> HIDE DEF n
  <2> QED BY TableShape DEF n
<1>3. w = <<a>> \o <<b>> \o <<m>> \o T
  BY DEF FormatWrites, WriteHeader, WriteMap, MapSector, Reserved
<1>4. /\ a[1] = FreeMapSector /\ a[2] = [kind |-> "header", hdr |-> MapHeader]
      /\ b[1] = DirectorySector /\ b[2] = [kind |-> "header", hdr |-> DirHeader]
      /\ m[1] = MapSector /\ m[2] = [kind |-> "map", map |-> Reserved]
  OBVIOUS
<1> HIDE DEF a, b, m, T, n, w
<1>5. /\ Len(w) = n + 3 /\ w = [j \in 1 .. Len(w) |-> w[j]]
      /\ w[1] = a /\ w[2] = b /\ w[3] = m /\ \A i \in 1 .. n : w[3 + i] = T[i]
  <2> DEFINE y == <<b>>
             x == <<a>> \o y \o <<m>>
  <2>1. 1 \in Nat /\ IsList(y, 1) /\ y[1] = b
    BY DEF IsList
  <2>2. w = x \o T
    BY <1>3
  <2> HIDE DEF y
  <2>3. IsBetween(x, a, y, m, 1)
    <3> DEFINE v == x
    <3>1. v = <<a>> \o y \o <<m>>
      OBVIOUS
    <3> HIDE DEF v
    <3>2. IsBetween(v, a, y, m, 1)
      BY <2>1, <3>1, Between
    <3> QED BY <3>2 DEF v
  <2> HIDE DEF x
  <2>4. x[1] = a /\ x[2] = b /\ x[3] = m /\ Len(x) = 3 /\ IsList(x, 3)
    BY <2>1, <2>3 DEF IsBetween, IsList
  <2>5. IsBehind(w, x, T, n)
    BY <2>2, <2>4, <1>1, <1>2, Behind
  <2> QED BY <2>4, <2>5 DEF IsBehind
<1>6. /\ To(w, 1) = FreeMapSector /\ What(w, 1) = [kind |-> "header", hdr |-> MapHeader]
      /\ To(w, 2) = DirectorySector /\ What(w, 2) = [kind |-> "header", hdr |-> DirHeader]
      /\ To(w, 3) = MapSector /\ What(w, 3) = [kind |-> "map", map |-> Reserved]
  BY <1>4, <1>5 DEF To, What
<1>7. \A i \in 1 .. n : To(w, 3 + i) = DirSector(i) /\ What(w, 3 + i) = RowOf(EmptyTable, i)
  <2> SUFFICES ASSUME NEW i \in 1 .. n
               PROVE  To(w, 3 + i) = DirSector(i) /\ What(w, 3 + i) = RowOf(EmptyTable, i)
    OBVIOUS
  <2>1. w[3 + i] = <<DirSector(i), RowOf(EmptyTable, i)>>
    BY <1>2, <1>5
  <2> QED BY <2>1 DEF To, What
<1>8. HasTable(w, 3, EmptyTable)
  <2>1. 3 \in Nat /\ 3 + n <= Len(w)
    BY <1>1, <1>5
  <2> QED BY <2>1, <1>7 DEF HasTable, n
<1>9. IsFormat(w)
  BY <1>5, <1>6, <1>8 DEF IsFormat, n
<1>10. /\ FreeMapSector \in Sector /\ DirectorySector \in Sector /\ MapSector \in Sector
       /\ FreeMapSector # DirectorySector /\ MapSector # FreeMapSector /\ MapSector # DirectorySector
       /\ \A i \in 1 .. n : /\ DirSector(i) \in Sector \ {FreeMapSector, DirectorySector, MapSector}
                            /\ \A j \in 1 .. n : DirSector(i) = DirSector(j) => i = j
  BY Layout, Sectors DEF n
<1>11. \A j \in 1 .. Len(w) : j = 1 \/ j = 2 \/ j = 3 \/ (j - 3 \in 1 .. n /\ 3 + (j - 3) = j)
  BY <1>1, <1>5
<1>12. \A j \in 1 .. Len(w) : \/ j = 1 /\ To(w, j) = FreeMapSector
                              \/ j = 2 /\ To(w, j) = DirectorySector
                              \/ j = 3 /\ To(w, j) = MapSector
                              \/ j - 3 \in 1 .. n /\ To(w, j) = DirSector(j - 3)
  BY <1>6, <1>7, <1>11
<1>13. \A j \in 1 .. Len(w) : To(w, j) \in Sector
  BY <1>10, <1>12
<1>14. ASSUME NEW j \in 1 .. Len(w), NEW k \in 1 .. Len(w), To(w, j) = To(w, k) PROVE j = k
  <2>1. ASSUME j - 3 \in 1 .. n, k - 3 \in 1 .. n, DirSector(j - 3) = DirSector(k - 3) PROVE j = k
    <3>1. j - 3 = k - 3
      BY <2>1, <1>10
    <3> QED BY <3>1
  <2> QED BY <1>10, <1>12, <1>14, <2>1
<1>15. IsWrites(w)
  BY <1>1, <1>5, <1>13, <1>14 DEF IsWrites
<1> QED BY <1>9, <1>15 DEF w

----------------------------------------------------------------------------
(* What of a disk its soundness depends on.                                *)
SystemKept(d, e) ==
  /\ IsDisk(e)
  /\ e[FreeMapSector] = d[FreeMapSector] /\ e[DirectorySector] = d[DirectorySector]
SameEntry(d, e, i) == HeaderSector(e, i) = HeaderSector(d, i) /\ Header(e, i) = Header(d, i)

LEMMA SameOwned ==
  ASSUME NEW d, NEW e, NEW i, SameEntry(d, e, i)
  PROVE  Owned(e, i) = Owned(d, i) /\ (FileSound(d, i) => FileSound(e, i))
BY DEF SameEntry, Owned, FileSound

LEMMA Shrunk ==
  ASSUME NEW d, NEW e, Sound(d), SystemKept(d, e), Held(e) \subseteq Held(d),
         \A i \in Held(e) : SameEntry(d, e, i), MapSound(e)
  PROVE  Sound(e)
<1>1. ASSUME NEW i \in Held(e) PROVE i \in Held(d) /\ Owned(e, i) = Owned(d, i) /\ FileSound(e, i)
  <2>1. FileSound(d, i) /\ i \in Held(d)
    BY DEF Sound
  <2> QED BY <2>1, SameOwned
<1>2. Apart(e)
  BY <1>1 DEF Sound, Apart
<1> QED BY <1>1, <1>2 DEF Sound, SystemKept

LEMMA Grown ==
  ASSUME NEW d, NEW e, Sound(d), SystemKept(d, e), NEW i, Held(e) \subseteq Held(d) \cup {i},
         \A j \in Held(d) : SameEntry(d, e, j), FileSound(e, i),
         \A j \in Held(d) : Owned(e, i) \cap Owned(d, j) = {}, MapSound(e)
  PROVE  Sound(e)
<1>1. ASSUME NEW j \in Held(d) PROVE Owned(e, j) = Owned(d, j) /\ FileSound(e, j)
  <2>1. FileSound(d, j)
    BY DEF Sound
  <2> QED BY <2>1, SameOwned
<1>2. ASSUME NEW j \in Held(e), NEW k \in Held(e), j # k PROVE Owned(e, j) \cap Owned(e, k) = {}
  <2>1. CASE j = i
    <3>1. k \in Held(d)
      BY <2>1, <1>2
    <3> QED BY <2>1, <3>1, <1>1
  <2>2. CASE k = i
    <3>1. j \in Held(d)
      BY <2>2, <1>2
    <3> QED BY <2>2, <3>1, <1>1
  <2>3. CASE j # i /\ k # i
    <3>1. j \in Held(d) /\ k \in Held(d)
      BY <2>3
    <3>2. Owned(d, j) \cap Owned(d, k) = {}
      BY <3>1, <1>2 DEF Sound, Apart
    <3> QED BY <3>1, <3>2, <1>1
  <2> QED BY <2>1, <2>2, <2>3
<1>3. Apart(e)
  BY <1>2 DEF Apart
<1>4. \A j \in Held(e) : FileSound(e, j)
  BY <1>1
<1> QED BY <1>3, <1>4 DEF Sound, SystemKept

(* Sectors that a call does not write.                                     *)
Misses(w, s) == \A j \in 1 .. Len(w) : To(w, j) # s

LEMMA Missed ==
  ASSUME NEW d, NEW w, IsWrites(w), NEW k \in Nat, k <= Len(w), NEW s \in Sector, Misses(w, s)
  PROVE  After(d, w, k)[s] = d[s]
<1>1. \A j \in 1 .. k : j \in 1 .. Len(w)
  BY DEF IsWrites
<1>2. \A j \in 1 .. k : To(w, j) # s
  BY <1>1 DEF Misses
<1> QED BY <1>2, AfterElse

(* Cells of the directory.                                                 *)
LEMMA Cells ==
  ASSUME NEW i \in Entry
  PROVE  /\ <<i, "inUse">> \in Cell /\ <<i, "sector">> \in Cell /\ <<i, "name">> \in Cell
         /\ CellSector[<<i, "sector">>] = CellSector[<<i, "inUse">>]
         /\ CellSector[<<i, "inUse">>] \in 1 .. DirSectors /\ CellSector[<<i, "name">>] \in 1 .. DirSectors
<1>1. <<i, "inUse">> \in Cell /\ <<i, "sector">> \in Cell /\ <<i, "name">> \in Cell
  BY DEF Cell
<1>2. CellSector[<<i, "sector">>] = CellSector[<<i, "inUse">>]
  BY FileSystemAssumption
<1> QED BY <1>1, <1>2, Layout

SameRow(t, u, i) ==
  /\ t[<<i, "inUse">>] = u[<<i, "inUse">>] /\ t[<<i, "sector">>] = u[<<i, "sector">>]
  /\ t[<<i, "name">>] = u[<<i, "name">>]

(* A row of the directory after some writes.                               *)
LEMMA RowAfter ==
  ASSUME NEW d, NEW w, IsWrites(w), NEW k \in Nat, k <= Len(w), NEW o, NEW t, HasTable(w, o, t),
         NEW i \in Entry
  PROVE  LET e == After(d, w, k)
             early == o + CellSector[<<i, "inUse">>] <= k
         IN  /\ TableOf(e)[<<i, "inUse">>] = IF early THEN t[<<i, "inUse">>] ELSE TableOf(d)[<<i, "inUse">>]
             /\ HeaderSector(e, i) = IF early THEN t[<<i, "sector">>] ELSE HeaderSector(d, i)
             /\ NameOf(e, i) = IF o + CellSector[<<i, "name">>] <= k THEN t[<<i, "name">>] ELSE NameOf(d, i)
<1> DEFINE e == After(d, w, k)
<1>2. ASSUME NEW c \in Cell PROVE TableOf(e)[c] = IF o + CellSector[c] <= k THEN t[c] ELSE TableOf(d)[c]
  BY TableAfter
<1> HIDE DEF e
<1>3. /\ <<i, "inUse">> \in Cell /\ <<i, "sector">> \in Cell /\ <<i, "name">> \in Cell
      /\ CellSector[<<i, "sector">>] = CellSector[<<i, "inUse">>]
  BY Cells
<1>4. TableOf(e)[<<i, "inUse">>] =
        IF o + CellSector[<<i, "inUse">>] <= k THEN t[<<i, "inUse">>] ELSE TableOf(d)[<<i, "inUse">>]
  BY <1>2, <1>3
<1>5. TableOf(e)[<<i, "sector">>] =
        IF o + CellSector[<<i, "inUse">>] <= k THEN t[<<i, "sector">>] ELSE TableOf(d)[<<i, "sector">>]
  BY <1>2, <1>3
<1>6. TableOf(e)[<<i, "name">>] =
        IF o + CellSector[<<i, "name">>] <= k THEN t[<<i, "name">>] ELSE TableOf(d)[<<i, "name">>]
  BY <1>2, <1>3
<1> QED BY <1>4, <1>5, <1>6 DEF HeaderSector, NameOf, e

LEMMA RowKept ==
  ASSUME NEW d, NEW w, IsWrites(w), NEW k \in Nat, k <= Len(w), NEW o, NEW t, HasTable(w, o, t),
         NEW i \in Entry, SameRow(t, TableOf(d), i)
  PROVE  SameRow(TableOf(After(d, w, k)), TableOf(d), i)
BY RowAfter DEF SameRow, HeaderSector, NameOf

----------------------------------------------------------------------------
(* Directory::Find, Add and Remove.                                        *)
IsTable(t) == t = [c \in Cell |-> t[c]]
Matches(t, name, i) == i \in Entry /\ t[<<i, "inUse">>] /\ t[<<i, "name">>] = Key(name)

LEMMA Found ==
  ASSUME NEW t, NEW name, NEW i, i = FindIndex(t, name)
  PROVE  /\ i = -1 => \A j : ~Matches(t, name, j)
         /\ i # -1 => /\ Matches(t, name, i) /\ i \in Nat \ {0}
                      /\ \A j : Matches(t, name, j) => i <= j
<1> DEFINE F == {j \in Entry : t[<<j, "inUse">>] /\ t[<<j, "name">>] = Key(name)}
<1>1. \A j : j \in F <=> Matches(t, name, j)
  BY DEF Matches
<1>2. i = IF F = {} THEN -1 ELSE Min(F)
  BY DEF FindIndex
<1>3. F \subseteq Nat \ {0}
  BY DEF Entry
<1> HIDE DEF F
<1>4. F # {} => Min(F) \in F /\ \A j \in F : Min(F) <= j
  BY <1>3, Least
<1>5. -1 \notin F
  BY <1>3
<1> QED BY <1>1, <1>2, <1>3, <1>4, <1>5

AddedAt(t, u, i, name, sector) ==
  /\ i \in Entry /\ ~t[<<i, "inUse">>]
  /\ u[<<i, "inUse">>] = TRUE /\ u[<<i, "sector">>] = sector /\ u[<<i, "name">>] = Key(name)
  /\ \A j \in Entry : j # i => SameRow(u, t, j)
  /\ \A j \in Entry : ~t[<<j, "inUse">>] => i <= j

LEMMA AddedRows ==
  ASSUME NEW t, IsTable(t), FreeEntries(t) # {}, NEW name, NEW sector
  PROVE  AddedAt(t, Added(t, name, sector), Min(FreeEntries(t)), name, sector)
<1> DEFINE F == FreeEntries(t)
           i == Min(F)
           u == Added(t, name, sector)
<1>1. F = {j \in Entry : ~t[<<j, "inUse">>]}
  BY DEF FreeEntries
<1>2. F \subseteq Nat /\ F # {}
  BY DEF FreeEntries, Entry
<1> HIDE DEF F
<1>3. i \in F /\ \A j \in F : i <= j
  BY <1>2, Least
<1>4. u = [t EXCEPT ![<<i, "inUse">>] = TRUE, ![<<i, "name">>] = Key(name), ![<<i, "sector">>] = sector]
  BY DEF Added, F
<1> HIDE DEF i, u
<1>5. i \in Entry
  BY <1>1, <1>3
<1>6. <<i, "inUse">> \in Cell /\ <<i, "sector">> \in Cell /\ <<i, "name">> \in Cell
  BY <1>5, Cells
<1>7. u[<<i, "inUse">>] = TRUE /\ u[<<i, "sector">>] = sector /\ u[<<i, "name">>] = Key(name)
  BY <1>4, <1>6 DEF IsTable
<1>8. ASSUME NEW j \in Entry, j # i PROVE SameRow(u, t, j)
  <2>1. <<j, "inUse">> \in Cell /\ <<j, "sector">> \in Cell /\ <<j, "name">> \in Cell
    BY Cells
  <2> QED BY <1>4, <1>8, <2>1 DEF IsTable, SameRow
<1> QED BY <1>1, <1>3, <1>5, <1>7, <1>8 DEF AddedAt, F, i, u

RemovedAt(t, u, i) ==
  /\ i \in Entry /\ t[<<i, "inUse">>]
  /\ u[<<i, "inUse">>] = FALSE
  /\ u[<<i, "sector">>] = t[<<i, "sector">>] /\ u[<<i, "name">>] = t[<<i, "name">>]
  /\ \A j \in Entry : j # i => SameRow(u, t, j)

LEMMA RemovedRows ==
  ASSUME NEW t, IsTable(t), NEW name, FindIndex(t, name) # -1
  PROVE  RemovedAt(t, Removed(t, name), FindIndex(t, name))
<1> DEFINE i == FindIndex(t, name)
           u == Removed(t, name)
<1>1. Matches(t, name, i)
  BY Found
<1>2. u = [t EXCEPT ![<<i, "inUse">>] = FALSE]
  BY DEF Removed
<1> HIDE DEF i, u
<1>3. i \in Entry /\ t[<<i, "inUse">>]
  BY <1>1 DEF Matches
<1>4. <<i, "inUse">> \in Cell /\ <<i, "sector">> \in Cell /\ <<i, "name">> \in Cell
  BY <1>3, Cells
<1>5. /\ u[<<i, "inUse">>] = FALSE
      /\ u[<<i, "sector">>] = t[<<i, "sector">>] /\ u[<<i, "name">>] = t[<<i, "name">>]
  BY <1>2, <1>4 DEF IsTable
<1>6. ASSUME NEW j \in Entry, j # i PROVE SameRow(u, t, j)
  <2>1. <<j, "inUse">> \in Cell /\ <<j, "sector">> \in Cell /\ <<j, "name">> \in Cell
    BY Cells
  <2> QED BY <1>2, <1>6, <2>1 DEF IsTable, SameRow
<1> QED BY <1>3, <1>5, <1>6 DEF RemovedAt, i, u

LEMMA TableOfIs == ASSUME NEW d PROVE IsTable(TableOf(d))
BY DEF IsTable, TableOf

(* A file whose row is the same on a disk that has the same headers.       *)
LEMMA SameRowHeld ==
  ASSUME NEW d, NEW e, NEW i \in Entry, SameRow(TableOf(e), TableOf(d), i)
  PROVE  /\ i \in Held(e) <=> i \in Held(d)
         /\ HeaderSector(e, i) = HeaderSector(d, i) /\ NameOf(e, i) = NameOf(d, i)
         /\ e[HeaderSector(d, i)] = d[HeaderSector(d, i)] => SameEntry(d, e, i)
BY DEF SameRow, Held, HeaderSector, NameOf, SameEntry, Header

----------------------------------------------------------------------------
(* FileSystem::Create, at every instant.                                   *)
Fresh(d, sector, hdr) ==
  /\ sector \in Sector \ MapOf(d) /\ IsHeader(hdr)
  /\ Range(hdr.dataSectors) \cap (MapOf(d) \cup {sector}) = {}

LEMMA SectorFresh ==
  ASSUME NEW d, Sound(d), NEW sector, NEW hdr, Fresh(d, sector, hdr)
  PROVE  /\ sector \in Sector /\ sector \notin Reserved
         /\ ({sector} \cup Range(hdr.dataSectors)) \cap MapOf(d) = {}
BY DEF Sound, MapSound, Fresh

LEMMA CreateMisses ==
  ASSUME NEW w, NEW sector, NEW hdr, NEW table, NEW map, IsCreate(w, sector, hdr, table, map),
         NEW s, s # sector, s \notin Reserved \ {FreeMapSector, DirectorySector}
  PROVE  Misses(w, s)
<1>1. DirSectors \in Nat
  BY Layout
<1>2. \A i \in 1 .. DirSectors : DirSector(i) \in Reserved \ {FreeMapSector, DirectorySector}
  BY Layout
<1>3. MapSector \in Reserved \ {FreeMapSector, DirectorySector}
  BY Layout
<1>4. \A i \in 1 .. DirSectors : To(w, 1 + i) = DirSector(i)
  BY DEF IsCreate, HasTable
<1>5. ASSUME NEW j \in 1 .. Len(w) PROVE To(w, j) # s
  <2>1. j = 1 \/ j = DirSectors + 2 \/ (j - 1 \in 1 .. DirSectors /\ 1 + (j - 1) = j)
    BY <1>1 DEF IsCreate
  <2>2. CASE j = 1
    BY <2>2 DEF IsCreate
  <2>3. CASE j = DirSectors + 2
    BY <2>3, <1>3 DEF IsCreate
  <2>4. CASE j - 1 \in 1 .. DirSectors /\ 1 + (j - 1) = j
    BY <2>4, <1>2, <1>4
  <2> QED BY <2>1, <2>2, <2>3, <2>4
<1> QED BY <1>5 DEF Misses

LEMMA RemoveMisses ==
  ASSUME NEW w, NEW table, NEW map, IsRemove(w, table, map),
         NEW s, s \notin Reserved \ {FreeMapSector, DirectorySector}
  PROVE  Misses(w, s)
<1>1. DirSectors \in Nat
  BY Layout
<1>2. \A i \in 1 .. DirSectors : DirSector(i) \in Reserved \ {FreeMapSector, DirectorySector}
  BY Layout
<1>3. MapSector \in Reserved \ {FreeMapSector, DirectorySector}
  BY Layout
<1>4. \A i \in 1 .. DirSectors : To(w, 1 + i) = DirSector(i)
  BY DEF IsRemove, HasTable
<1>5. ASSUME NEW j \in 1 .. Len(w) PROVE To(w, j) # s
  <2>1. j = 1 \/ (j - 1 \in 1 .. DirSectors /\ 1 + (j - 1) = j)
    BY <1>1 DEF IsRemove
  <2>2. CASE j = 1
    BY <2>2, <1>3 DEF IsRemove
  <2>4. CASE j - 1 \in 1 .. DirSectors /\ 1 + (j - 1) = j
    BY <2>4, <1>2, <1>4
  <2> QED BY <2>1, <2>2, <2>4
<1> QED BY <1>5 DEF Misses

(* All that Create's caller has seen to when its writes begin.             *)
CreateBegins(d, w, i, name, sector, hdr) ==
  /\ Sound(d) /\ Exact(d) /\ Fresh(d, sector, hdr) /\ IsWrites(w)
  /\ \E table : /\ AddedAt(TableOf(d), table, i, name, sector)
                /\ IsCreate(w, sector, hdr, table, MapOf(d) \cup {sector} \cup Range(hdr.dataSectors))

(* The new file on the disk e, k writes later.                             *)
CreateView(d, e, k, i, name, sector, hdr) ==
  /\ i \in Entry /\ i \notin Held(d) /\ SystemKept(d, e)
  /\ \A j \in Entry : j # i => SameRow(TableOf(e), TableOf(d), j)
  /\ \A s \in Sector : s \notin Reserved /\ s # sector => e[s] = d[s]
  /\ i \in Held(e) => HeaderSector(e, i) = sector /\ Header(e, i) = hdr
  /\ NameOf(e, i) \in {NameOf(d, i), Key(name)}
  /\ MapOf(e) = IF k = DirSectors + 2 THEN MapOf(d) \cup {sector} \cup Range(hdr.dataSectors)
                ELSE MapOf(d)
  /\ k = DirSectors + 2 => i \in Held(e) /\ NameOf(e, i) = Key(name)

LEMMA CreateSeen ==
  ASSUME NEW d, NEW w, NEW i, NEW name, NEW sector, NEW hdr, CreateBegins(d, w, i, name, sector, hdr),
         NEW k \in Nat, k <= Len(w)
  PROVE  CreateView(d, After(d, w, k), k, i, name, sector, hdr)
<1> DEFINE e == After(d, w, k)
           map == MapOf(d) \cup {sector} \cup Range(hdr.dataSectors)
<1>1. Sound(d) /\ Exact(d) /\ Fresh(d, sector, hdr) /\ IsWrites(w)
  BY DEF CreateBegins
<1>2. PICK table : AddedAt(TableOf(d), table, i, name, sector) /\ IsCreate(w, sector, hdr, table, map)
  BY DEF CreateBegins
<1>3. /\ Len(w) = DirSectors + 2 /\ DirSectors \in Nat /\ HasTable(w, 1, table)
      /\ To(w, 1) = sector /\ What(w, 1) = [kind |-> "header", hdr |-> hdr]
      /\ To(w, DirSectors + 2) = MapSector
      /\ What(w, DirSectors + 2) = [kind |-> "map", map |-> map]
  BY <1>2, Layout DEF IsCreate
<1>4. i \in Entry /\ i \notin Held(d)
  BY <1>2 DEF AddedAt, Held
<1>5. sector \in Sector /\ sector \notin Reserved
  BY <1>1, SectorFresh
<1>6. ASSUME NEW s \in Sector, s # sector, s \notin Reserved \ {FreeMapSector, DirectorySector} PROVE e[s] = d[s]
  <2>1. Misses(w, s)
    BY <1>2, <1>6, CreateMisses
  <2> QED BY <2>1, <1>1, Missed
<1>7. SystemKept(d, e)
  <2>1. IsDisk(e)
    BY AfterDisk
  <2>2. FreeMapSector \in Sector /\ DirectorySector \in Sector /\ FreeMapSector \in Reserved /\ DirectorySector \in Reserved
    BY Sectors, Layout
  <2> HIDE DEF e
  <2> QED BY <2>1, <2>2, <1>5, <1>6 DEF SystemKept
<1>8. ASSUME NEW j \in Entry, j # i PROVE SameRow(TableOf(e), TableOf(d), j)
  <2>1. SameRow(table, TableOf(d), j)
    BY <1>2, <1>8 DEF AddedAt
  <2> QED BY <2>1, <1>1, <1>3, RowKept
<1>9. /\ TableOf(e)[<<i, "inUse">>] <=> 1 + CellSector[<<i, "inUse">>] <= k
      /\ 1 + CellSector[<<i, "inUse">>] <= k => HeaderSector(e, i) = sector
      /\ NameOf(e, i) = IF 1 + CellSector[<<i, "name">>] <= k THEN Key(name) ELSE NameOf(d, i)
  <2>1. /\ ~TableOf(d)[<<i, "inUse">>]
        /\ table[<<i, "inUse">>] = TRUE /\ table[<<i, "sector">>] = sector /\ table[<<i, "name">>] = Key(name)
    BY <1>2 DEF AddedAt
  <2>2. /\ TableOf(e)[<<i, "inUse">>] = IF 1 + CellSector[<<i, "inUse">>] <= k THEN table[<<i, "inUse">>] ELSE TableOf(d)[<<i, "inUse">>]
        /\ HeaderSector(e, i) = IF 1 + CellSector[<<i, "inUse">>] <= k THEN table[<<i, "sector">>] ELSE HeaderSector(d, i)
        /\ NameOf(e, i) = IF 1 + CellSector[<<i, "name">>] <= k THEN table[<<i, "name">>] ELSE NameOf(d, i)
    BY <1>1, <1>3, <1>4, RowAfter
  <2>3. CASE 1 + CellSector[<<i, "inUse">>] <= k
    BY <2>1, <2>2, <2>3
  <2>4. CASE ~(1 + CellSector[<<i, "inUse">>] <= k)
    BY <2>1, <2>2, <2>4
  <2> QED BY <2>3, <2>4
<1>10. i \in Held(e) <=> 1 + CellSector[<<i, "inUse">>] <= k
  BY <1>4, <1>9 DEF Held
<1>11. CellSector[<<i, "inUse">>] \in 1 .. DirSectors /\ CellSector[<<i, "name">>] \in 1 .. DirSectors
  BY <1>4, Cells
<1>12. ASSUME i \in Held(e) PROVE HeaderSector(e, i) = sector /\ Header(e, i) = hdr
  <2>1. 1 \in Nat /\ 1 <= k /\ 1 <= Len(w) /\ 1 <= 1
    BY <1>3, <1>10, <1>11, <1>12
  <2>2. e[To(w, 1)] = What(w, 1)
    BY <1>1, <2>1, AfterHit
  <2> HIDE DEF e
  <2> QED BY <2>2, <1>3, <1>9, <1>10, <1>12 DEF Header
<1>13. MapOf(e) = IF k = DirSectors + 2 THEN map ELSE MapOf(d)
  <2> DEFINE p == DirSectors + 2
  <2>1. p \in Nat /\ 1 <= p /\ p <= Len(w) /\ (p <= k <=> k = p)
    BY <1>3
  <2>2. To(w, p) = MapSector /\ What(w, p) = [kind |-> "map", map |-> map]
    BY <1>3
  <2> HIDE DEF p
  <2>3. e[To(w, p)] = IF p <= k THEN What(w, p) ELSE d[To(w, p)]
    BY <1>1, <2>1, SectorAfter
  <2> HIDE DEF e, map
  <2>4. MapOf(e) = IF k = p THEN map ELSE MapOf(d)
    BY <2>1, <2>2, <2>3 DEF MapOf
  <2> QED BY <2>4 DEF p
<1>14. k = DirSectors + 2 => i \in Held(e) /\ NameOf(e, i) = Key(name)
  <2>1. k = DirSectors + 2 => 1 + CellSector[<<i, "inUse">>] <= k /\ 1 + CellSector[<<i, "name">>] <= k
    BY <1>3, <1>11
  <2> QED BY <2>1, <1>9, <1>10
<1>15. NameOf(e, i) \in {NameOf(d, i), Key(name)}
  BY <1>9
<1>16. \A s \in Sector : s \notin Reserved /\ s # sector => e[s] = d[s]
  BY <1>6
<1> HIDE DEF e
<1>17. CreateView(d, e, k, i, name, sector, hdr)
  BY <1>4, <1>7, <1>8, <1>12, <1>13, <1>14, <1>15, <1>16 DEF CreateView
<1> QED BY <1>17 DEF e

LEMMA CreateKeeps ==
  ASSUME NEW d, NEW w, NEW i, NEW name, NEW sector, NEW hdr, CreateBegins(d, w, i, name, sector, hdr),
         NEW k \in Nat, k <= Len(w)
  PROVE  LET e == After(d, w, k)
         IN  /\ Sound(e) /\ Held(e) \subseteq Held(d) \cup {i} /\ Held(d) \subseteq Held(e)
             /\ \A j \in Held(d) : SameEntry(d, e, j)
             /\ k = Len(w) => Exact(e) /\ i \in Held(e)
<1> DEFINE e == After(d, w, k)
           new == {sector} \cup Range(hdr.dataSectors)
<1>1. Sound(d) /\ Exact(d) /\ Fresh(d, sector, hdr) /\ IsWrites(w) /\ Len(w) = DirSectors + 2
  BY DEF CreateBegins, IsCreate
<1>2. CreateView(d, e, k, i, name, sector, hdr)
  BY CreateSeen
<1> HIDE DEF e
<1>3. i \in Entry /\ i \notin Held(d) /\ SystemKept(d, e)
  BY <1>2 DEF CreateView
<1>4. sector \in Sector /\ sector \notin Reserved /\ new \cap MapOf(d) = {} /\ Reserved \subseteq MapOf(d)
  BY <1>1, SectorFresh DEF Sound, MapSound
<1>5. ASSUME NEW j \in Held(d)
      PROVE  j \in Held(e) /\ SameEntry(d, e, j) /\ Owned(e, j) = Owned(d, j) /\ Owned(d, j) \subseteq MapOf(d)
  <2>1. j \in Entry /\ j # i /\ Owned(d, j) \subseteq MapOf(d) /\ FileSound(d, j)
    BY <1>1, <1>3 DEF Held, Exact, Sound
  <2>2. SameRow(TableOf(e), TableOf(d), j)
    BY <1>2, <2>1 DEF CreateView
  <2>3. HeaderSector(d, j) \in Sector /\ HeaderSector(d, j) \notin Reserved /\ HeaderSector(d, j) # sector
    BY <2>1, <1>1 DEF FileSound, Owned, Fresh
  <2>4. e[HeaderSector(d, j)] = d[HeaderSector(d, j)]
    BY <1>2, <2>3 DEF CreateView
  <2>5. SameEntry(d, e, j) /\ j \in Held(e)
    BY <2>1, <2>2, <2>4, SameRowHeld
  <2> QED BY <2>1, <2>5, SameOwned
<1>6. Held(e) \subseteq Held(d) \cup {i}
  <2> SUFFICES ASSUME NEW j \in Held(e), j # i PROVE j \in Held(d)
    OBVIOUS
  <2>1. j \in Entry
    BY DEF Held
  <2>2. SameRow(TableOf(e), TableOf(d), j)
    BY <1>2, <2>1 DEF CreateView
  <2> QED BY <2>1, <2>2, SameRowHeld
<1>7. ASSUME i \in Held(e) PROVE Owned(e, i) = new /\ FileSound(e, i)
  <2>1. HeaderSector(e, i) = sector /\ Header(e, i) = hdr
    BY <1>2, <1>7 DEF CreateView
  <2>2. Owned(e, i) = new
    BY <2>1 DEF Owned
  <2>3. new \cap Reserved = {}
    BY <1>4
  <2>4. sector \notin Range(hdr.dataSectors) /\ IsHeader(hdr)
    BY <1>1 DEF Fresh
  <2> QED BY <2>1, <2>2, <2>3, <2>4, <1>4 DEF FileSound
<1>8. MapOf(e) = IF k = DirSectors + 2 THEN MapOf(d) \cup new ELSE MapOf(d)
  BY <1>2 DEF CreateView
<1>9. k = DirSectors + 2 => i \in Held(e)
  BY <1>2 DEF CreateView
<1>10. MapSound(e)
  <2>1. Reserved \subseteq MapOf(e)
    BY <1>4, <1>8
  <2>2. ASSUME NEW s \in MapOf(d), s \notin Reserved PROVE \E j \in Held(e) : s \in Owned(e, j)
    <3>1. PICK j \in Held(d) : s \in Owned(d, j)
      BY <2>2, <1>1 DEF Sound, MapSound
    <3> QED BY <3>1, <1>5
  <2>3. ASSUME NEW s \in MapOf(e), s \notin Reserved PROVE \E j \in Held(e) : s \in Owned(e, j)
    <3>1. CASE s \in MapOf(d)
      BY <3>1, <2>2, <2>3
    <3>2. CASE s \notin MapOf(d)
      <4>1. k = DirSectors + 2 /\ s \in new
        BY <3>2, <1>8
      <4> QED BY <4>1, <1>7, <1>9
    <3> QED BY <3>1, <3>2
  <2> QED BY <2>1, <2>3 DEF MapSound
<1>11. Sound(e)
  <2>1. CASE i \in Held(e)
    <3>1. \A j \in Held(d) : Owned(e, i) \cap Owned(d, j) = {}
      BY <2>1, <1>4, <1>5, <1>7
    <3> HIDE DEF new
    <3> QED BY <2>1, <3>1, <1>1, <1>3, <1>5, <1>6, <1>7, <1>10, Grown
  <2>2. CASE i \notin Held(e)
    <3>1. Held(e) \subseteq Held(d)
      BY <2>2, <1>6
    <3> QED BY <3>1, <1>1, <1>3, <1>5, <1>10, Shrunk
  <2> QED BY <2>1, <2>2
<1>12. ASSUME k = DirSectors + 2 PROVE Exact(e)
  <2> SUFFICES ASSUME NEW j \in Held(e) PROVE Owned(e, j) \subseteq MapOf(e)
    BY DEF Exact
  <2>1. CASE j = i
    BY <2>1, <1>7, <1>8, <1>12
  <2>2. CASE j # i
    <3>1. j \in Held(d)
      BY <2>2, <1>6
    <3> QED BY <3>1, <1>5, <1>8, <1>12
  <2> QED BY <2>1, <2>2
<1> QED BY <1>1, <1>5, <1>6, <1>9, <1>11, <1>12 DEF e

----------------------------------------------------------------------------
(* FileSystem::Remove, at every instant.                                   *)
RemoveBegins(d, w, i) ==
  /\ Sound(d) /\ i \in Held(d) /\ IsWrites(w)
  /\ \E table : RemovedAt(TableOf(d), table, i) /\ IsRemove(w, table, MapOf(d) \ Owned(d, i))

RemoveView(d, e, k, i) ==
  /\ SystemKept(d, e)
  /\ \A j \in Entry : j # i => SameRow(TableOf(e), TableOf(d), j)
  /\ HeaderSector(e, i) = HeaderSector(d, i) /\ NameOf(e, i) = NameOf(d, i)
  /\ \A s \in Sector : s \notin Reserved => e[s] = d[s]
  /\ MapOf(e) = IF k = 0 THEN MapOf(d) ELSE MapOf(d) \ Owned(d, i)
  /\ k = 0 => i \in Held(e)
  /\ k = DirSectors + 1 => i \notin Held(e)

LEMMA RemoveSeen ==
  ASSUME NEW d, NEW w, NEW i, RemoveBegins(d, w, i), NEW k \in Nat, k <= Len(w)
  PROVE  RemoveView(d, After(d, w, k), k, i)
<1> DEFINE e == After(d, w, k)
           map == MapOf(d) \ Owned(d, i)
<1>1. Sound(d) /\ i \in Held(d) /\ i \in Entry /\ IsWrites(w)
  BY DEF RemoveBegins, Held
<1>2. PICK table : RemovedAt(TableOf(d), table, i) /\ IsRemove(w, table, map)
  BY DEF RemoveBegins
<1>3. /\ Len(w) = DirSectors + 1 /\ DirSectors \in Nat /\ HasTable(w, 1, table)
      /\ To(w, 1) = MapSector /\ What(w, 1) = [kind |-> "map", map |-> map]
  BY <1>2, Layout DEF IsRemove
<1>4. ASSUME NEW s \in Sector, s \notin Reserved \ {FreeMapSector, DirectorySector} PROVE e[s] = d[s]
  <2>1. Misses(w, s)
    BY <1>2, <1>4, RemoveMisses
  <2> QED BY <2>1, <1>1, Missed
<1>5. SystemKept(d, e)
  <2>1. IsDisk(e)
    BY AfterDisk
  <2>2. FreeMapSector \in Sector /\ DirectorySector \in Sector
    BY Sectors
  <2> HIDE DEF e
  <2> QED BY <2>1, <2>2, <1>4 DEF SystemKept
<1>6. ASSUME NEW j \in Entry, j # i PROVE SameRow(TableOf(e), TableOf(d), j)
  <2>1. SameRow(table, TableOf(d), j)
    BY <1>2, <1>6 DEF RemovedAt
  <2> QED BY <2>1, <1>1, <1>3, RowKept
<1>7. /\ TableOf(e)[<<i, "inUse">>] <=> ~(1 + CellSector[<<i, "inUse">>] <= k)
      /\ HeaderSector(e, i) = HeaderSector(d, i) /\ NameOf(e, i) = NameOf(d, i)
  <2>1. /\ TableOf(d)[<<i, "inUse">>] /\ table[<<i, "inUse">>] = FALSE
        /\ table[<<i, "sector">>] = HeaderSector(d, i) /\ table[<<i, "name">>] = NameOf(d, i)
    BY <1>2 DEF RemovedAt, HeaderSector, NameOf
  <2>2. /\ TableOf(e)[<<i, "inUse">>] = IF 1 + CellSector[<<i, "inUse">>] <= k THEN table[<<i, "inUse">>] ELSE TableOf(d)[<<i, "inUse">>]
        /\ HeaderSector(e, i) = IF 1 + CellSector[<<i, "inUse">>] <= k THEN table[<<i, "sector">>] ELSE HeaderSector(d, i)
        /\ NameOf(e, i) = IF 1 + CellSector[<<i, "name">>] <= k THEN table[<<i, "name">>] ELSE NameOf(d, i)
    BY <1>1, <1>3, RowAfter
  <2>3. CASE 1 + CellSector[<<i, "inUse">>] <= k
    BY <2>1, <2>2, <2>3
  <2>4. CASE ~(1 + CellSector[<<i, "inUse">>] <= k)
    BY <2>1, <2>2, <2>4
  <2> QED BY <2>3, <2>4
<1>8. CellSector[<<i, "inUse">>] \in 1 .. DirSectors
  BY <1>1, Cells
<1>9. MapOf(e) = IF k = 0 THEN MapOf(d) ELSE map
  <2>1. 1 \in Nat /\ 1 <= Len(w) /\ 1 <= 1 /\ (1 <= k <=> k # 0)
    BY <1>3
  <2>2. e[To(w, 1)] = IF 1 <= k THEN What(w, 1) ELSE d[To(w, 1)]
    BY <1>1, <2>1, SectorAfter, ZenonT(40)
  <2> HIDE DEF e, map
  <2> QED BY <2>1, <2>2, <1>3 DEF MapOf
<1>10. (k = 0 => i \in Held(e)) /\ (k = DirSectors + 1 => i \notin Held(e))
  BY <1>1, <1>3, <1>7, <1>8 DEF Held
<1>11. \A s \in Sector : s \notin Reserved => e[s] = d[s]
  BY <1>4
<1> HIDE DEF e
<1>12. RemoveView(d, e, k, i)
  BY <1>5, <1>6, <1>7, <1>9, <1>10, <1>11 DEF RemoveView
<1> QED BY <1>12 DEF e

LEMMA RemoveKeeps ==
  ASSUME NEW d, NEW w, NEW i, RemoveBegins(d, w, i), NEW k \in Nat, k <= Len(w)
  PROVE  LET e == After(d, w, k)
         IN  /\ Sound(e) /\ Held(e) \subseteq Held(d) /\ Held(d) \ {i} \subseteq Held(e)
             /\ \A j \in Held(d) : SameEntry(d, e, j)
             /\ k = Len(w) => i \notin Held(e) /\ (Exact(d) => Exact(e))
<1> DEFINE e == After(d, w, k)
<1>1. Sound(d) /\ i \in Held(d) /\ IsWrites(w) /\ Len(w) = DirSectors + 1 /\ DirSectors \in Nat
  BY Layout DEF RemoveBegins, IsRemove
<1>2. RemoveView(d, e, k, i)
  BY RemoveSeen
<1> HIDE DEF e
<1>3. ASSUME NEW j \in Held(d)
      PROVE  SameEntry(d, e, j) /\ Owned(e, j) = Owned(d, j) /\ (j # i => j \in Held(e))
  <2>1. j \in Entry /\ FileSound(d, j)
    BY <1>1 DEF Held, Sound
  <2>2. HeaderSector(d, j) \in Sector /\ HeaderSector(d, j) \notin Reserved
    BY <2>1 DEF FileSound, Owned
  <2>3. e[HeaderSector(d, j)] = d[HeaderSector(d, j)]
    BY <1>2, <2>2 DEF RemoveView
  <2>4. CASE j # i
    <3>1. SameRow(TableOf(e), TableOf(d), j)
      BY <1>2, <2>1, <2>4 DEF RemoveView
    <3> QED BY <2>1, <2>3, <3>1, SameRowHeld, SameOwned
  <2>5. CASE j = i
    <3>1. SameEntry(d, e, j)
      BY <1>2, <2>3, <2>5 DEF RemoveView, SameEntry, Header
    <3> QED BY <2>5, <3>1, SameOwned
  <2> QED BY <2>4, <2>5
<1>4. Held(e) \subseteq Held(d)
  <2> SUFFICES ASSUME NEW j \in Held(e), j # i PROVE j \in Held(d)
    BY <1>1
  <2>1. j \in Entry
    BY DEF Held
  <2>2. SameRow(TableOf(e), TableOf(d), j)
    BY <1>2, <2>1 DEF RemoveView
  <2> QED BY <2>1, <2>2, SameRowHeld
<1>5. MapOf(e) = IF k = 0 THEN MapOf(d) ELSE MapOf(d) \ Owned(d, i)
  BY <1>2 DEF RemoveView
<1>6. (k = 0 => i \in Held(e)) /\ (k = DirSectors + 1 => i \notin Held(e))
  BY <1>2 DEF RemoveView
<1>7. MapSound(e)
  <2>1. Reserved \subseteq MapOf(e)
    <3>1. Reserved \subseteq MapOf(d) /\ Owned(d, i) \cap Reserved = {}
      BY <1>1 DEF Sound, MapSound, FileSound
    <3> QED BY <3>1, <1>5
  <2>2. ASSUME NEW s \in MapOf(e), s \notin Reserved PROVE \E j \in Held(e) : s \in Owned(e, j)
    <3>1. s \in MapOf(d) /\ (k # 0 => s \notin Owned(d, i))
      BY <1>5
    <3>2. PICK j \in Held(d) : s \in Owned(d, j)
      BY <2>2, <3>1, <1>1 DEF Sound, MapSound
    <3>3. j \in Held(e)
      BY <3>1, <3>2, <1>3, <1>6
    <3> QED BY <3>2, <3>3, <1>3
  <2> QED BY <2>1, <2>2 DEF MapSound
<1>8. Sound(e)
  <2>1. SystemKept(d, e)
    BY <1>2 DEF RemoveView
  <2> QED BY <2>1, <1>1, <1>3, <1>4, <1>7, Shrunk
<1>9. ASSUME k = Len(w), Exact(d) PROVE Exact(e)
  <2> SUFFICES ASSUME NEW j \in Held(e) PROVE Owned(e, j) \subseteq MapOf(e)
    BY DEF Exact
  <2>1. j \in Held(d) /\ j # i
    BY <1>1, <1>4, <1>6, <1>9
  <2>2. Owned(e, j) = Owned(d, j) /\ Owned(d, j) \subseteq MapOf(d) /\ Owned(d, j) \cap Owned(d, i) = {}
    BY <2>1, <1>1, <1>3, <1>9 DEF Exact, Sound, Apart
  <2> QED BY <2>2, <1>5
<1> QED BY <1>1, <1>3, <1>4, <1>6, <1>8, <1>9 DEF e

----------------------------------------------------------------------------
(* The constructor that formats: whatever the disk held before.            *)
LEMMA FormatKeeps ==
  ASSUME NEW d
  PROVE  LET e == After(d, FormatWrites, Len(FormatWrites))
         IN  Sound(e) /\ Exact(e) /\ Held(e) = {}
<1> DEFINE w == FormatWrites
           n == Len(w)
           e == After(d, w, n)
<1>1. IsWrites(w) /\ IsFormat(w)
  BY FormatShape
<1> HIDE DEF w
<1>2. /\ n = DirSectors + 3 /\ DirSectors \in Nat /\ HasTable(w, 3, EmptyTable)
      /\ To(w, 1) = FreeMapSector /\ What(w, 1) = [kind |-> "header", hdr |-> MapHeader]
      /\ To(w, 2) = DirectorySector /\ What(w, 2) = [kind |-> "header", hdr |-> DirHeader]
      /\ To(w, 3) = MapSector /\ What(w, 3) = [kind |-> "map", map |-> Reserved]
  BY <1>1, Layout DEF IsFormat
<1>3. n \in Nat /\ n <= Len(w)
  BY <1>2
<1>4. ASSUME NEW j \in Nat, 1 <= j, j <= 3 PROVE e[To(w, j)] = What(w, j)
  <2>1. j <= n
    BY <1>2, <1>4
  <2> HIDE DEF n
  <2> QED BY <1>1, <1>3, <1>4, <2>1, AfterHit
<1>5. ASSUME NEW i \in Entry PROVE ~TableOf(e)[<<i, "inUse">>]
  <2>1. /\ <<i, "inUse">> \in Cell /\ CellSector[<<i, "inUse">>] \in 1 .. DirSectors
    BY Cells
  <2>2. EmptyTable[<<i, "inUse">>] = FALSE
    BY <2>1 DEF EmptyTable
  <2>3. TableOf(e)[<<i, "inUse">>] = IF 3 + CellSector[<<i, "inUse">>] <= n THEN EmptyTable[<<i, "inUse">>] ELSE TableOf(d)[<<i, "inUse">>]
    <3> DEFINE c == <<i, "inUse">>
               t == EmptyTable
    <3>1. HasTable(w, 3, t) /\ IsWrites(w) /\ c \in Cell /\ n \in Nat /\ n <= Len(w)
      BY <1>1, <1>2, <1>3, <2>1
    <3> HIDE DEF n, c, t
    <3>2. TableOf(After(d, w, n))[c] = IF 3 + CellSector[c] <= n THEN t[c] ELSE TableOf(d)[c]
      BY <3>1, TableAfter
    <3> QED BY <3>2 DEF c, t
  <2>4. 3 + CellSector[<<i, "inUse">>] <= n
    BY <1>2, <2>1
  <2> QED BY <2>2, <2>3, <2>4
<1>6. Held(e) = {}
  BY <1>5 DEF Held
<1>7. IsDisk(e)
  BY AfterDisk
<1>8. /\ e[FreeMapSector] = [kind |-> "header", hdr |-> MapHeader]
      /\ e[DirectorySector] = [kind |-> "header", hdr |-> DirHeader]
      /\ MapOf(e) = Reserved
  <2>1. e[To(w, 1)] = What(w, 1) /\ e[To(w, 2)] = What(w, 2) /\ e[To(w, 3)] = What(w, 3)
    <3> HIDE DEF e
    <3> QED BY <1>4
  <2> HIDE DEF e
  <2> QED BY <2>1, <1>2 DEF MapOf
<1> HIDE DEF e
<1>9. Sound(e) /\ Exact(e)
  BY <1>6, <1>7, <1>8 DEF Sound, Exact, Apart, MapSound
<1> QED BY <1>6, <1>9 DEF e, n, w

----------------------------------------------------------------------------
(* Offsets and sectors.                                                    *)
LEMMA Further ==
  ASSUME NEW n \in Nat \ {0}, NEW p \in Nat, NEW q \in Nat, p < q
  PROVE  n * p + n <= n * q
<1>1. q - p - 1 \in Nat /\ q = p + 1 + (q - p - 1)
  OBVIOUS
<1> DEFINE t == q - p - 1
<1>2. n * t \in Nat /\ n * q = n * p + n + n * t
  <2>1. t \in Nat /\ q = p + 1 + t
    BY <1>1
  <2> HIDE DEF t
  <2> QED BY <2>1
<1> HIDE DEF t
<1> QED BY <1>2

LEMMA Quotient ==
  ASSUME NEW n \in Nat \ {0}, NEW q \in Nat, NEW r \in Nat, r < n
  PROVE  n * q + r \in Nat /\ (n * q + r) \div n = q /\ (n * q + r) % n = r
<1> DEFINE a == n * q + r
           p == a \div n
           s == a % n
<1>1. a \in Nat /\ n * q \in Nat
  OBVIOUS
<1> HIDE DEF a
<1>2. p \in Nat /\ s \in Nat /\ s < n /\ a = n * p + s
  BY <1>1, Division
<1> HIDE DEF p, s
<1>3. n * p \in Nat /\ n * p + s = n * q + r
  BY <1>2 DEF a
<1>4. ~(p < q)
  <2> SUFFICES ASSUME p < q PROVE FALSE
    OBVIOUS
  <2>1. n * p + n <= n * q
    BY <1>2, Further
  <2> QED BY <2>1, <1>1, <1>2, <1>3
<1>5. ~(q < p)
  <2> SUFFICES ASSUME q < p PROVE FALSE
    OBVIOUS
  <2>1. n * q + n <= n * p
    BY <1>2, Further
  <2> QED BY <2>1, <1>1, <1>2, <1>3
<1>6. p = q
  BY <1>2, <1>4, <1>5
<1>7. s = r
  BY <1>1, <1>2, <1>3, <1>6
<1> QED BY <1>1, <1>6, <1>7 DEF a, p, s

LEMMA Monotone ==
  ASSUME NEW n \in Nat \ {0}, NEW a \in Nat, NEW b \in Nat, a <= b
  PROVE  a \div n <= b \div n
<1> DEFINE p == a \div n
           q == b \div n
           r == a % n
           s == b % n
<1>1. p \in Nat /\ r \in Nat /\ r < n /\ a = n * p + r /\ q \in Nat /\ s \in Nat /\ s < n /\ b = n * q + s
  BY Division
<1> HIDE DEF p, q, r, s
<1>2. ~(q < p)
  <2> SUFFICES ASSUME q < p PROVE FALSE
    OBVIOUS
  <2>1. n * q + n <= n * p
    BY <1>1, Further
  <2>2. n * q \in Nat /\ n * p \in Nat
    BY <1>1
  <2> QED BY <2>1, <2>2, <1>1
<1>3. p <= q
  BY <1>1, <1>2
<1> QED BY <1>3 DEF p, q

LEMMA InsideFile ==
  ASSUME NEW m \in Nat, NEW a \in Nat, a < m
  PROVE  a \div SectorSize + 1 \in 1 .. divRoundUp(m, SectorSize)
<1> DEFINE n == SectorSize
           p == a \div n
           r == a % n
<1>1. n \in Nat \ {0}
  BY FileSystemAssumption
<1> HIDE DEF n
<1>2. p \in Nat /\ r \in Nat /\ r < n /\ a = n * p + r
  BY <1>1, Division
<1> HIDE DEF p, r
<1>3. n * (p + 1) + r \in Nat /\ (n * (p + 1) + r) \div n = p + 1
  <2>1. p + 1 \in Nat
    BY <1>2
  <2> QED BY <2>1, <1>1, <1>2, Quotient
<1>4. n * (p + 1) + r <= m + n - 1 /\ m + n - 1 \in Nat
  <2>1. n * (p + 1) = n * p + n /\ n * p \in Nat
    BY <1>1, <1>2
  <2> QED BY <2>1, <1>1, <1>2
<1>5. (n * (p + 1) + r) \div n <= (m + n - 1) \div n
  BY <1>1, <1>3, <1>4, Monotone
<1>6. (m + n - 1) \div n \in Nat
  BY <1>1, <1>4, Division
<1> QED BY <1>2, <1>3, <1>5, <1>6 DEF divRoundUp, n, p

LEMMA ClippedLength ==
  ASSUME NEW hdr, hdr.numBytes \in Nat, NEW n \in Nat, NEW position \in Nat
  PROVE  /\ Clipped(hdr, n, position) \in Nat /\ Clipped(hdr, n, position) <= n
         /\ Clipped(hdr, n, position) > 0 => position + Clipped(hdr, n, position) <= hdr.numBytes
<1> DEFINE m == hdr.numBytes - position
<1>1. m \in Int
  OBVIOUS
<1>2. Min({n, m}) = IF n <= m THEN n ELSE m
  <2> HIDE DEF m
  <2> QED BY <1>1, MinOfTwo
<1>3. Clipped(hdr, n, position) = IF n <= 0 \/ position >= hdr.numBytes THEN 0 ELSE Min({n, m})
  BY DEF Clipped
<1>4. CASE n <= 0 \/ position >= hdr.numBytes
  BY <1>3, <1>4
<1>5. CASE ~(n <= 0 \/ position >= hdr.numBytes) /\ n <= m
  BY <1>2, <1>3, <1>5
<1>6. CASE ~(n <= 0 \/ position >= hdr.numBytes) /\ ~(n <= m)
  BY <1>2, <1>3, <1>6
<1> QED BY <1>4, <1>5, <1>6

(* What OpenFile::WriteAt writes: the sectors from the first byte's to the *)
(* last byte's.                                                            *)
From(hdr, into, position) == SubSeq(into, 1, Clipped(hdr, Len(into), position))
FirstSector(position) == position \div SectorSize
LastSector(hdr, into, position) ==
  (position + Clipped(hdr, Len(into), position) - 1) \div SectorSize
NewSector(hdr, from, position, q) ==
  [kind |-> "data", bytes |-> [k \in 1 .. SectorSize |-> Buffer(hdr, from, position, q * SectorSize + k - 1)]]

LEMMA FromIs ==
  ASSUME NEW hdr, hdr.numBytes \in Nat, NEW into \in Seq(Int), NEW position \in Nat,
         NEW count, count = Clipped(hdr, Len(into), position)
  PROVE  /\ count \in Nat /\ count <= Len(into) /\ (count > 0 => position + count <= hdr.numBytes)
         /\ From(hdr, into, position) \in Seq(Int) /\ Len(From(hdr, into, position)) = count
         /\ \A k \in 1 .. count : From(hdr, into, position)[k] = into[k]
         /\ From(hdr, into, position) = <<>> <=> count = 0
<1>1. Len(into) \in Nat
  OBVIOUS
<1>2. count \in Nat /\ count <= Len(into) /\ (count > 0 => position + count <= hdr.numBytes)
  BY <1>1, ClippedLength
<1> DEFINE from == SubSeq(into, 1, count)
<1>3. from \in Seq(Int) /\ Len(from) = count /\ \A k \in 1 .. count : from[k] = into[k]
  BY <1>1, <1>2
<1>4. From(hdr, into, position) = from
  BY DEF From
<1> HIDE DEF from
<1>5. from = <<>> <=> count = 0
  BY <1>3
<1> QED BY <1>2, <1>3, <1>4, <1>5

LEMMA DataRows ==
  ASSUME NEW hdr, IsHeader(hdr), NEW into \in Seq(Int), NEW position \in Nat,
         From(hdr, into, position) # <<>>,
         NEW w, w = WriteAt(hdr, into, position),
         NEW first, first = FirstSector(position), NEW last, last = LastSector(hdr, into, position),
         NEW N, N = divRoundUp(hdr.numBytes, SectorSize)
  PROVE  /\ first \in Nat /\ last \in Nat /\ first <= last /\ last + 1 \in 1 .. N /\ N \in Nat
         /\ Len(w) = last - first + 1 /\ IsList(w, Len(w))
         /\ \A j \in 1 .. Len(w) :
              /\ first + j \in 1 .. N /\ To(w, j) = hdr.dataSectors[first + j]
              /\ What(w, j) = NewSector(hdr, From(hdr, into, position), position, first + j - 1)
<1> DEFINE count == Clipped(hdr, Len(into), position)
           from == From(hdr, into, position)
           new(i) == NewSector(hdr, from, position, first + i - 1)
<1>0. hdr.numBytes \in Nat
  BY DEF IsHeader
<1>1. /\ count \in Nat /\ count > 0 /\ position + count <= hdr.numBytes /\ Len(from) = count
  <2> HIDE DEF count, from
  <2>1. /\ count \in Nat /\ (count > 0 => position + count <= hdr.numBytes) /\ Len(from) = count
        /\ (from = <<>> <=> count = 0)
    BY <1>0, FromIs DEF count, from
  <2>2. from # <<>>
    BY DEF from
  <2> QED BY <2>1, <2>2
<1>2. w = [i \in 1 .. last - first + 1 |-> <<ByteToSector(hdr, (first + i - 1) * SectorSize), new(i)>>]
  BY <1>1 DEF WriteAt, From, FirstSector, LastSector, NewSector
<1> HIDE DEF count, from, new
<1>3. SectorSize \in Nat \ {0} /\ position + count - 1 \in Nat /\ position + count - 1 < hdr.numBytes
  BY <1>0, <1>1, FileSystemAssumption
<1>4. first \in Nat /\ last \in Nat
  BY <1>3, Division DEF FirstSector, LastSector, count
<1>5. first <= last
  <2>1. position <= position + count - 1
    BY <1>1
  <2> QED BY <2>1, <1>3, Monotone DEF FirstSector, LastSector, count
<1>6. last + 1 \in 1 .. N /\ N \in Nat
  BY <1>0, <1>3, InsideFile, RoundedUp DEF LastSector, count
<1> DEFINE n == last - first + 1
<1>7. n \in Nat /\ \A i \in 1 .. n : first + i \in 1 .. N /\ first + i - 1 \in Nat
  BY <1>4, <1>5, <1>6
<1>8. ASSUME NEW i \in 1 .. n PROVE ByteToSector(hdr, (first + i - 1) * SectorSize) = hdr.dataSectors[first + i]
  <2> DEFINE q == first + i - 1
  <2>1. q \in Nat /\ q + 1 = first + i
    BY <1>4, <1>7
  <2> HIDE DEF q
  <2>2. (SectorSize * q + 0) \div SectorSize = q
    BY <1>3, <2>1, Quotient
  <2>3. q * SectorSize = SectorSize * q + 0
    BY <1>3, <2>1
  <2>4. ByteToSector(hdr, q * SectorSize) = hdr.dataSectors[q + 1]
    BY <2>2, <2>3 DEF ByteToSector
  <2> QED BY <2>1, <2>4 DEF q
<1> HIDE DEF n
<1>9. w = [i \in 1 .. n |-> <<ByteToSector(hdr, (first + i - 1) * SectorSize), new(i)>>]
  BY <1>2 DEF n
<1>10. Len(w) = n /\ IsList(w, Len(w))
  BY <1>7, <1>9 DEF IsList
<1>11. ASSUME NEW j \in 1 .. n PROVE To(w, j) = hdr.dataSectors[first + j] /\ What(w, j) = new(j)
  <2>1. w[j] = <<hdr.dataSectors[first + j], new(j)>>
    BY <1>8, <1>9
  <2> QED BY <2>1 DEF To, What
<1> QED BY <1>4, <1>5, <1>6, <1>7, <1>10, <1>11 DEF n, new, from

LEMMA NoData ==
  ASSUME NEW hdr, NEW into, NEW position, From(hdr, into, position) = <<>>
  PROVE  WriteAt(hdr, into, position) = <<>>
BY DEF WriteAt, From

(* They are sectors of the file, each written once.                        *)
LEMMA DataShape ==
  ASSUME NEW hdr, IsHeader(hdr), NEW into \in Seq(Int), NEW position \in Nat,
         NEW w, w = WriteAt(hdr, into, position)
  PROVE  IsWrites(w) /\ \A j \in 1 .. Len(w) : To(w, j) \in Range(hdr.dataSectors)
<1>1. CASE From(hdr, into, position) = <<>>
  <2>1. w = <<>>
    BY <1>1, NoData
  <2> QED BY <2>1 DEF IsWrites
<1>2. CASE From(hdr, into, position) # <<>>
  <2> DEFINE first == FirstSector(position)
             last == LastSector(hdr, into, position)
             N == divRoundUp(hdr.numBytes, SectorSize)
             n == Len(w)
  <2>1. /\ first \in Nat /\ last \in Nat /\ first <= last /\ N \in Nat
        /\ n = last - first + 1 /\ IsList(w, n)
        /\ \A j \in 1 .. n : first + j \in 1 .. N /\ To(w, j) = hdr.dataSectors[first + j]
    <3> HIDE DEF first, last, N
    <3> QED BY <1>2, DataRows DEF first, last, N
  <2>2. hdr.dataSectors \in [1 .. N -> Sector] /\ IsInjective(hdr.dataSectors)
    BY DEF IsHeader
  <2> HIDE DEF first, last, N
  <2>3. ASSUME NEW j \in 1 .. n PROVE To(w, j) \in Sector /\ To(w, j) \in Range(hdr.dataSectors)
    BY <2>1, <2>2 DEF Range
  <2>4. ASSUME NEW j \in 1 .. n, NEW k \in 1 .. n, To(w, j) = To(w, k) PROVE j = k
    <3>1. first + j = first + k
      BY <2>1, <2>2, <2>4 DEF IsInjective
    <3> QED BY <3>1, <2>1
  <2> QED BY <2>1, <2>3, <2>4 DEF IsWrites, IsList
<1> QED BY <1>1, <1>2

(* Writing into an open file, at every instant.                            *)
DataBegins(d, w, i) ==
  /\ Sound(d) /\ i \in Held(d) /\ IsWrites(w)
  /\ \A j \in 1 .. Len(w) : To(w, j) \in Range(Header(d, i).dataSectors)

LEMMA DataSeen ==
  ASSUME NEW d, NEW w, NEW i, DataBegins(d, w, i), NEW k \in Nat, k <= Len(w),
         NEW s \in Sector, s \notin Range(Header(d, i).dataSectors)
  PROVE  After(d, w, k)[s] = d[s]
<1>1. IsWrites(w) /\ Misses(w, s)
  BY DEF DataBegins, Misses
<1> QED BY <1>1, Missed

LEMMA DataKeeps ==
  ASSUME NEW d, NEW w, NEW i, DataBegins(d, w, i), NEW k \in Nat, k <= Len(w)
  PROVE  LET e == After(d, w, k)
         IN  /\ Sound(e) /\ Held(e) = Held(d) /\ TableOf(e) = TableOf(d)
             /\ \A j \in Held(d) : SameEntry(d, e, j)
             /\ Exact(d) => Exact(e)
<1> DEFINE e == After(d, w, k)
           data == Range(Header(d, i).dataSectors)
<1>1. Sound(d) /\ i \in Held(d) /\ FileSound(d, i)
  BY DEF DataBegins, Sound
<1>2. ASSUME NEW s \in Sector, s \notin data PROVE e[s] = d[s]
  BY <1>2, DataSeen
<1>3. IsDisk(e)
  BY AfterDisk
<1> HIDE DEF e
<1>4. data \subseteq Owned(d, i) /\ data \cap Reserved = {} /\ HeaderSector(d, i) \notin data
  BY <1>1 DEF FileSound, Owned
<1>5. ASSUME NEW s \in Reserved PROVE e[s] = d[s]
  BY <1>2, <1>4, Layout
<1>6. MapOf(e) = MapOf(d) /\ SystemKept(d, e)
  <2>1. MapSector \in Reserved /\ FreeMapSector \in Reserved /\ DirectorySector \in Reserved
    BY Layout
  <2> QED BY <2>1, <1>3, <1>5 DEF MapOf, SystemKept
<1>7. TableOf(e) = TableOf(d)
  <2>1. \A c \in Cell : DirSector(CellSector[c]) \in Reserved
    BY Layout
  <2>2. \A c \in Cell : e[DirSector(CellSector[c])] = d[DirSector(CellSector[c])]
    BY <2>1, <1>5
  <2> QED BY <2>2 DEF TableOf
<1>8. Held(e) = Held(d)
  BY <1>7 DEF Held
<1>9. ASSUME NEW j \in Held(d) PROVE SameEntry(d, e, j)
  <2>1. FileSound(d, j) /\ HeaderSector(d, j) \in Sector /\ HeaderSector(d, j) \in Owned(d, j)
    BY <1>1 DEF Sound, FileSound, Owned
  <2>2. HeaderSector(d, j) \notin data
    BY <2>1, <1>1, <1>4 DEF Sound, Apart
  <2>3. e[HeaderSector(d, j)] = d[HeaderSector(d, j)]
    BY <2>1, <2>2, <1>2
  <2> QED BY <2>3, <1>7 DEF SameEntry, HeaderSector, Header
<1>10. \A j \in Held(d) : Owned(e, j) = Owned(d, j)
  BY <1>9, SameOwned
<1>11. MapSound(e)
  BY <1>1, <1>6, <1>8, <1>10 DEF Sound, MapSound
<1>12. Sound(e)
  BY <1>1, <1>6, <1>8, <1>9, <1>11, Shrunk
<1>13. Exact(d) => Exact(e)
  BY <1>6, <1>8, <1>10 DEF Exact
<1> QED BY <1>7, <1>8, <1>9, <1>12, <1>13 DEF e

----------------------------------------------------------------------------
(* Steps from one write to the next, and from call to call.                *)
LEMMA AfterEmpty ==
  ASSUME NEW d, IsDisk(d)
  PROVE  IsWrites(<<>>) /\ Len(<<>>) = 0 /\ After(d, <<>>, 0) = d
<1>1. IsWrites(<<>>)
  <2> DEFINE w == <<>>
  <2>1. Len(w) = 0 /\ w = [j \in 1 .. 0 |-> w[j]]
    OBVIOUS
  <2> HIDE DEF w
  <2>2. IsWrites(w)
    BY <2>1 DEF IsWrites
  <2> QED BY <2>2 DEF w
<1> QED BY <1>1, AfterNone

(* One write of a call nearer to its end.                                  *)
Written(d, w, e) == e = [d EXCEPT ![Head(w)[1]] = Head(w)[2]]
Advanced(d, w, e, t) ==
  /\ IsDisk(e) /\ IsWrites(t)
  /\ After(e, t, Len(t)) = After(d, w, Len(w))
  /\ \A k \in 0 .. Len(t) : k + 1 \in 0 .. Len(w) /\ After(e, t, k) = After(d, w, k + 1)
  /\ SoundAlong(d, w) => SoundAlong(e, t)
  /\ ExactAlong(d, w) => ExactAlong(e, t)

LEMMA Advance ==
  ASSUME NEW d, NEW w, IsDisk(d), IsWrites(w), w # <<>>, NEW e, Written(d, w, e),
         NEW t, t = Tail(w)
  PROVE  Advanced(d, w, e, t)
<1>1. IsDisk(e) /\ \A k \in Nat : k <= Len(t) => After(e, t, k) = After(d, w, k + 1)
  BY AfterNext DEF Written
<1>2. IsWrites(t) /\ Len(w) \in Nat \ {0} /\ Len(t) = Len(w) - 1
  BY IsSeq
<1>3. Len(t) \in Nat /\ Len(t) + 1 = Len(w)
  BY <1>2
<1>4. After(e, t, Len(t)) = After(d, w, Len(w))
  <2> DEFINE n == Len(t)
  <2>1. n \in Nat /\ n <= Len(t) /\ n + 1 = Len(w)
    BY <1>3
  <2> HIDE DEF n
  <2>2. After(e, t, n) = After(d, w, n + 1)
    BY <1>1, <2>1
  <2> QED BY <2>1, <2>2 DEF n
<1>5. ASSUME NEW k \in 0 .. Len(t) PROVE k + 1 \in 0 .. Len(w) /\ After(e, t, k) = After(d, w, k + 1)
  <2>1. k \in Nat /\ k <= Len(t) /\ k + 1 \in 0 .. Len(w)
    BY <1>3
  <2> QED BY <2>1, <1>1
<1>6. SoundAlong(d, w) => SoundAlong(e, t)
  BY <1>5 DEF SoundAlong
<1>7. ExactAlong(d, w) => ExactAlong(e, t)
  BY <1>5 DEF ExactAlong
<1> QED BY <1>1, <1>2, <1>4, <1>5, <1>6, <1>7 DEF Advanced

LEMMA SoundIs ==
  ASSUME NEW d, Sound(d)
  PROVE  /\ IsDisk(d) /\ d[FreeMapSector].kind = "header"
         /\ d[FreeMapSector].hdr = MapHeader /\ d[DirectorySector].hdr = DirHeader
         /\ \A i \in Held(d) : HeaderSector(d, i) \in Sector /\ HeaderSector(d, i) # -1
<1>1. \A i \in Held(d) : HeaderSector(d, i) \in Sector
  BY DEF Sound, FileSound
<1>2. -1 \notin Sector
  BY Sectors
<1> QED BY <1>1, <1>2 DEF Sound

(* Names that were cut stay as they are.                                   *)
LEMMA KeyTwice ==
  ASSUME NEW name, name \in Seq(Range(name))
  PROVE  Key(Key(name)) = Key(name)
<1> DEFINE S == Range(name)
           m == Min({FileNameMaxLen, Len(name)})
           s == SubSeq(name, 1, m)
<1>1. FileNameMaxLen \in Nat /\ Len(name) \in Nat
  BY FileSystemAssumption
<1>2. m \in Nat /\ m <= Len(name) /\ m <= FileNameMaxLen
  BY <1>1, MinOfTwo
<1> HIDE DEF m
<1>3. s \in Seq(S) /\ Len(s) = m
  <2> HIDE DEF S
  <2> QED BY <1>1, <1>2 DEF S
<1>4. Min({FileNameMaxLen, m}) = m
  BY <1>1, <1>2, MinOfTwo
<1>5. SubSeq(s, 1, m) = s
  <2> HIDE DEF s, S
  <2> QED BY <1>2, <1>3
<1>6. Key(name) = s
  BY DEF Key, m
<1> HIDE DEF s
<1>7. Key(s) = SubSeq(s, 1, Min({FileNameMaxLen, m}))
  BY <1>3 DEF Key
<1> QED BY <1>4, <1>5, <1>6, <1>7

(* Find and FindIndex on a sound disk.                                     *)
LEMMA FindIs ==
  ASSUME NEW d, Sound(d), NEW name
  PROVE  /\ Find(TableOf(d), name) # -1 <=> FindIndex(TableOf(d), name) # -1
         /\ Find(TableOf(d), name) # -1 =>
              /\ FindIndex(TableOf(d), name) \in Held(d)
              /\ NameOf(d, FindIndex(TableOf(d), name)) = Key(name)
              /\ Find(TableOf(d), name) = HeaderSector(d, FindIndex(TableOf(d), name))
         /\ \A i \in Held(d) : NameOf(d, i) = Key(name) => Find(TableOf(d), name) # -1
<1> DEFINE t == TableOf(d)
           i == FindIndex(t, name)
<1> HIDE DEF t, i
<1>1. /\ i = -1 => \A j : ~Matches(t, name, j)
      /\ i # -1 => Matches(t, name, i)
  BY Found DEF i
<1>2. \A j : Matches(t, name, j) <=> j \in Held(d) /\ NameOf(d, j) = Key(name)
  BY DEF Matches, Held, NameOf, t
<1>3. Find(t, name) = IF i = -1 THEN -1 ELSE HeaderSector(d, i)
  BY DEF Find, HeaderSector, i, t
<1>4. i # -1 => i \in Held(d) /\ NameOf(d, i) = Key(name) /\ HeaderSector(d, i) # -1
  BY <1>1, <1>2, SoundIs
<1> QED BY <1>1, <1>2, <1>3, <1>4 DEF t, i

----------------------------------------------------------------------------
(* What the invariant says between the writes of two calls.                *)
LEMMA AtRest ==
  ASSUME Phase, Usable, writes = <<>>
  PROVE  /\ Outcoming = disk /\ IsDisk(disk) /\ Sound(disk) /\ (Clean => Exact(disk))
         /\ freeMapFile = MapHeader /\ directoryFile = DirHeader
         /\ FetchTable = TableOf(disk) /\ FetchMap = MapOf(disk)
<1>1. IsDisk(disk) /\ Len(writes) = 0
  BY DEF Phase
<1>2. After(disk, writes, 0) = disk
  BY <1>1, AfterEmpty
<1>3. Outcoming = disk
  BY <1>1, <1>2 DEF Outcoming
<1>4. 0 \in 0 .. Len(writes)
  BY <1>1
<1>5. Sound(disk)
  BY <1>2, <1>4 DEF Usable, SoundAlong
<1>6. Clean => Exact(disk)
  BY <1>3 DEF Usable
<1>7. freeMapFile = MapHeader /\ directoryFile = DirHeader
  BY Layout DEF Phase, Usable
<1>8. FetchTable = TableOf(disk) /\ FetchMap = MapOf(disk)
  BY <1>7 DEF FetchTable, FetchMap, TableOf, MapOf, DirSector, MapSector
<1> QED BY <1>1, <1>3, <1>5, <1>6, <1>7, <1>8

LEMMA Restart ==
  ASSUME NEW d, IsDisk(d), NEW w, w = <<>>
  PROVE  /\ IsWrites(w) /\ After(d, w, Len(w)) = d
         /\ SoundAlong(d, w) <=> Sound(d)
         /\ ExactAlong(d, w) <=> Exact(d)
<1>1. IsWrites(w) /\ Len(w) = 0 /\ After(d, w, 0) = d
  BY AfterEmpty
<1>2. \A k : k \in 0 .. Len(w) <=> k = 0
  BY <1>1
<1> QED BY <1>1, <1>2 DEF SoundAlong, ExactAlong

USE DEF Nothing, Idle

LEMMA IdleUsable ==
  ASSUME IInv, Idle
  PROVE  Phase /\ Usable /\ writes = <<>> /\ openFile = Closed
BY DEF IInv, Phase, Raw, Unfinished, Formatting

LEMMA InitHolds == Init => IInv
<1> SUFFICES ASSUME Init PROVE IInv
  OBVIOUS
<1>1. IsDisk(disk) /\ disk[FreeMapSector].kind # "header"
  BY Sectors DEF Init, IsDisk
<1>2. IsWrites(writes)
  BY <1>1, AfterEmpty DEF Init
<1>3. Phase
  BY <1>1, <1>2 DEF Init, Phase
<1>4. Raw
  <2>1. NoHeader = NoHeader /\ kernel = "off" /\ torn = {} /\ directoryFile = NoHeader
    BY DEF Init
  <2> QED BY <1>1, <2>1 DEF Raw
<1> QED BY <1>3, <1>4 DEF IInv

LEMMA FormatHolds == IInv /\ Format => IInv'
<1> SUFFICES ASSUME IInv, Format PROVE IInv'
  OBVIOUS
<1>1. Phase /\ kernel = "off" /\ command = Nothing /\ openFile = Closed
  BY DEF IInv, Phase, Format
<1>2. /\ kernel' = "up" /\ freeMapFile' = MapHeader /\ directoryFile' = DirHeader
      /\ command' = [kind |-> "Format", name |-> <<>>, bytes |-> <<>>] /\ writes' = FormatWrites
      /\ disk' = disk /\ openFile' = openFile /\ files' = files /\ torn' = torn
  BY DEF Format
<1>3. IsWrites(writes') /\ writes' # <<>>
  <2>1. Len(FormatWrites) = DirSectors + 3 /\ DirSectors \in Nat
    BY FormatShape, Layout DEF IsFormat
  <2> QED BY <1>2, <2>1, FormatShape
<1>4. IsDisk(disk')
  BY <1>1, <1>2 DEF Phase
<1>5. Phase'
  BY <1>1, <1>2, <1>3, <1>4 DEF Phase
<1>6. Sound(Outcoming') /\ Exact(Outcoming')
  BY <1>2, FormatKeeps DEF Outcoming
<1>7. Formatting'
  BY <1>2, <1>6 DEF Formatting
<1> QED BY <1>5, <1>7 DEF IInv

LEMMA MountHolds == IInv /\ Mount => IInv'
<1> SUFFICES ASSUME IInv, Mount PROVE IInv'
  OBVIOUS
<1>1. Phase /\ kernel = "off" /\ command = Nothing /\ openFile = Closed /\ writes = <<>>
  BY DEF IInv, Phase, Mount
<1>2. Usable
  BY <1>1 DEF IInv, Raw, Unfinished, TornFormat, Formatting, Mount, Holds
<1>3. Sound(disk) /\ freeMapFile = MapHeader /\ directoryFile = DirHeader
  BY <1>1, <1>2, AtRest
<1>4. /\ kernel' = "up" /\ freeMapFile' = freeMapFile /\ directoryFile' = directoryFile
      /\ disk' = disk /\ command' = command /\ writes' = writes /\ openFile' = openFile
      /\ files' = files /\ torn' = torn
  BY <1>3, SoundIs DEF Mount, FetchHeader
<1>5. Phase'
  BY <1>1, <1>4 DEF Phase
<1>6. Usable'
  BY <1>1, <1>2, <1>4 DEF Usable, Clean, Outcoming
<1> QED BY <1>5, <1>6 DEF IInv

LEMMA StopHolds == IInv /\ Stop => IInv'
<1> SUFFICES ASSUME IInv, Stop PROVE IInv'
  OBVIOUS
<1>1. Phase /\ kernel = "up"
  BY DEF IInv, Stop
<1>2. /\ kernel' = "off" /\ torn' = torn \cup ({command} \ {Nothing})
      /\ command' = Nothing /\ writes' = <<>> /\ openFile' = Closed
      /\ disk' = disk /\ freeMapFile' = freeMapFile /\ directoryFile' = directoryFile /\ files' = files
  BY DEF Stop
<1>3. IsDisk(disk') /\ IsWrites(writes')
  BY <1>1, <1>2, AfterEmpty DEF Phase
<1>4. Phase'
  BY <1>1, <1>2, <1>3 DEF Phase
<1>5. CASE Formatting
  <2>1. TornFormat'
    BY <1>2, <1>5 DEF Formatting, TornFormat
  <2> QED BY <1>2, <1>4, <2>1 DEF IInv, Unfinished
<1>6. CASE Usable
  <2>1. Outcoming' = disk
    BY <1>2, <1>3, Restart DEF Outcoming
  <2>2. 0 \in 0 .. Len(writes) /\ After(disk, writes, 0) = disk
    BY <1>1, AfterNone DEF Phase, IsWrites
  <2>3. Sound(disk)
    BY <1>6, <2>2 DEF Usable, SoundAlong
  <2>4. SoundAlong(disk', writes')
    BY <1>2, <1>3, <2>3, Restart
  <2>5. \A c \in torn' \cup {command'} : c.kind # "Format"
    BY <1>2, <1>6 DEF Usable
  <2>6. Clean' => Exact(disk)
    <3> SUFFICES ASSUME Clean' PROVE Exact(disk)
      OBVIOUS
    <3>1. Clean /\ (command # Nothing => command.kind \notin {"Copy", "Remove"})
      BY <1>2 DEF Clean
    <3>2. CASE command = Nothing
      <4>1. writes = <<>>
        BY <1>1, <3>2 DEF Phase
      <4> QED BY <1>1, <1>6, <3>1, <4>1, AtRest
    <3>3. CASE command # Nothing
      <4>1. command.kind = "Write"
        BY <1>1, <1>6, <3>1, <3>3 DEF Phase, Usable
      <4> QED BY <1>6, <2>2, <4>1 DEF Usable, ExactAlong
    <3> QED BY <3>2, <3>3
  <2>7. Usable'
    BY <1>2, <1>6, <2>1, <2>4, <2>5, <2>6 DEF Usable
  <2> QED BY <1>4, <2>7 DEF IInv
<1> QED BY <1>1, <1>5, <1>6 DEF IInv, Raw, Unfinished

LEMMA WriteSectorHolds == IInv /\ WriteSector => IInv'
<1> SUFFICES ASSUME IInv, WriteSector PROVE IInv'
  OBVIOUS
<1>1. Phase /\ kernel = "up" /\ writes # <<>>
  BY DEF IInv, WriteSector
<1>2. /\ disk' = [disk EXCEPT ![Head(writes)[1]] = Head(writes)[2]] /\ writes' = Tail(writes)
      /\ kernel' = kernel /\ freeMapFile' = freeMapFile /\ directoryFile' = directoryFile
      /\ openFile' = openFile
  BY DEF WriteSector
<1>3. IsDisk(disk) /\ IsWrites(writes) /\ command.kind # "None"
  BY <1>1 DEF Phase
<1>4. /\ IsDisk(disk') /\ IsWrites(writes')
      /\ After(disk', writes', Len(writes')) = After(disk, writes, Len(writes))
      /\ SoundAlong(disk, writes) => SoundAlong(disk', writes')
      /\ ExactAlong(disk, writes) => ExactAlong(disk', writes')
  <2> DEFINE e == disk'
             t == writes'
  <2>1. Written(disk, writes, e) /\ t = Tail(writes)
    BY <1>2 DEF Written
  <2> HIDE DEF e, t
  <2>2. Advanced(disk, writes, e, t)
    BY <2>1, <1>1, <1>3, Advance
  <2> QED BY <2>2 DEF e, t, Advanced
<1>5. Outcoming' = Outcoming
  BY <1>4 DEF Outcoming
<1> DEFINE last == writes' = <<>> /\ command.kind # "Copy"
<1>6. /\ last => command' = Nothing /\ torn' = IF command.kind = "Format" THEN {} ELSE torn
      /\ ~last => command' = command /\ torn' = torn
  BY DEF WriteSector
<1>7. Phase'
  <2>1. CASE last
    BY <1>1, <1>2, <1>4, <1>6, <2>1 DEF Phase
  <2>2. CASE ~last
    BY <1>1, <1>2, <1>3, <1>4, <1>6, <2>2 DEF Phase
  <2> QED BY <2>1, <2>2
<1>8. CASE Formatting
  <2>1. CASE last
    <3>1. disk' = Outcoming
      BY <1>4, <1>5, <2>1, Restart DEF Outcoming
    <3>2. Sound(disk') /\ Exact(disk')
      BY <1>8, <3>1 DEF Formatting
    <3>3. SoundAlong(disk', writes')
      BY <1>4, <2>1, <3>2, Restart
    <3>4. torn' = {} /\ command' = Nothing
      BY <1>6, <1>8, <2>1 DEF Formatting
    <3>5. Usable'
      BY <1>1, <1>2, <1>5, <1>8, <3>1, <3>2, <3>3, <3>4 DEF Usable, Formatting
    <3> QED BY <1>7, <3>5 DEF IInv
  <2>2. CASE ~last
    <3>1. Formatting'
      BY <1>2, <1>5, <1>6, <1>8, <2>2 DEF Formatting
    <3> QED BY <1>7, <3>1 DEF IInv
  <2> QED BY <2>1, <2>2
<1>9. CASE Usable
  <2>1. CASE last
    <3>1. torn' = torn /\ command' = Nothing
      BY <1>6, <1>9, <2>1 DEF Usable
    <3>2. Usable'
      BY <1>1, <1>2, <1>4, <1>5, <1>9, <3>1 DEF Usable, Clean
    <3> QED BY <1>7, <3>2 DEF IInv
  <2>2. CASE ~last
    <3>1. torn' = torn /\ command' = command
      BY <1>6, <2>2
    <3>2. Usable'
      BY <1>1, <1>2, <1>4, <1>5, <1>9, <3>1 DEF Usable, Clean
    <3> QED BY <1>7, <3>2 DEF IInv
  <2> QED BY <2>1, <2>2
<1> QED BY <1>1, <1>8, <1>9 DEF IInv, Raw, Unfinished

(* A call's writes are known before the first of them.                     *)
LEMMA FreshSector ==
  ASSUME NEW map, FindAndSet(map) # -1
  PROVE  FindAndSet(map) \in Sector \ map
<1>1. ~(Sector \subseteq map) /\ FindAndSet(map) = Min(Sector \ map)
  BY DEF FindAndSet
<1>2. Sector \ map \subseteq Nat /\ Sector \ map # {}
  BY <1>1, Sectors
<1> QED BY <1>1, <1>2, Least

LEMMA CreateStarts ==
  ASSUME IInv, NEW n, NEW b \in Seq(Int), Idle, torn = {},
         CanCreate(FetchTable, FetchMap, n, Len(b)),
         NEW w, w = CreateWrites(FetchTable, FetchMap, n, Len(b))
  PROVE  \E i, sector, hdr : CreateBegins(disk, w, i, n, sector, hdr) /\ hdr.numBytes = Len(b)
                             /\ i = Min(FreeEntries(TableOf(disk)))
<1> DEFINE map == MapOf(disk)
           sector == FindAndSet(map)
           hdr == Allocate(map \cup {sector}, Len(b))
           t == TableOf(disk)
           i == Min(FreeEntries(t))
           u == Added(t, n, sector)
<1>1. Phase /\ Usable /\ writes = <<>>
  BY IdleUsable
<1>2. /\ Sound(disk) /\ Exact(disk) /\ freeMapFile = MapHeader /\ directoryFile = DirHeader
      /\ FetchTable = t /\ FetchMap = map
  BY <1>1, AtRest DEF Clean
<1> HIDE DEF map, t
<1>3. sector # -1 /\ FreeEntries(t) # {} /\ hdr # NoHeader
  BY <1>2 DEF CanCreate
<1>4. w = WriteHeader(sector, hdr) \o WriteTable(DirHeader, u)
          \o WriteMap(MapHeader, map \cup {sector} \cup Range(hdr.dataSectors))
  BY <1>2 DEF CreateWrites
<1>5. sector \in Sector \ map
  BY <1>3, FreshSector
<1> HIDE DEF sector
<1>6. IsHeader(hdr) /\ hdr.numBytes = Len(b) /\ Range(hdr.dataSectors) \cap (map \cup {sector}) = {}
  <2>1. Len(b) \in Nat
    OBVIOUS
  <2> QED BY <1>3, <2>1, Allocated
<1> HIDE DEF hdr
<1>7. AddedAt(t, u, i, n, sector)
  BY <1>3, TableOfIs, AddedRows DEF t
<1> HIDE DEF u, i
<1>8. Fresh(disk, sector, hdr)
  BY <1>5, <1>6 DEF Fresh, map
<1>9. sector \in Sector /\ sector \notin Reserved
  BY <1>2, <1>8, SectorFresh
<1>10. IsWrites(w) /\ IsCreate(w, sector, hdr, u, map \cup {sector} \cup Range(hdr.dataSectors))
  BY <1>4, <1>9, CreateShape
<1>11. CreateBegins(disk, w, i, n, sector, hdr)
  BY <1>2, <1>7, <1>8, <1>10 DEF CreateBegins, map, t
<1> QED BY <1>6, <1>11 DEF i, t

LEMMA CopyCreatesHolds ==
  ASSUME IInv, NEW n \in Name, NEW b \in UnixFile, CopyCreates(n, b)
  PROVE  IInv'
<1>1. /\ Idle /\ torn = {} /\ CanCreate(FetchTable, FetchMap, n, Len(b))
      /\ command' = [kind |-> "Copy", name |-> Key(n), bytes |-> b]
      /\ writes' = CreateWrites(FetchTable, FetchMap, n, Len(b))
      /\ disk' = disk /\ kernel' = kernel /\ freeMapFile' = freeMapFile
      /\ directoryFile' = directoryFile /\ openFile' = openFile /\ torn' = torn
  BY DEF CopyCreates, NoMoreCreates
<1>2. b \in Seq(Int) /\ n \in Seq(Range(n))
  BY FileSystemAssumption
<1>3. Phase /\ Usable /\ writes = <<>> /\ openFile = Closed
  BY <1>1, IdleUsable
<1>4. PICK i, sector, hdr : CreateBegins(disk, writes', i, n, sector, hdr)
  BY <1>1, <1>2, CreateStarts
<1>5. IsWrites(writes') /\ Len(writes') \in Nat
  BY <1>4 DEF CreateBegins, IsWrites
<1>6. Phase'
  BY <1>1, <1>2, <1>3, <1>5 DEF Phase
<1> DEFINE e == After(disk, writes', Len(writes'))
<1>7. Sound(e) /\ Exact(e) /\ i \in Held(e)
  BY <1>4, <1>5, CreateKeeps
<1>8. SoundAlong(disk, writes')
  <2> SUFFICES ASSUME NEW k \in 0 .. Len(writes') PROVE Sound(After(disk, writes', k))
    BY DEF SoundAlong
  <2>1. k \in Nat /\ k <= Len(writes')
    BY <1>5
  <2> QED BY <1>4, <2>1, CreateKeeps
<1>9. NameOf(e, i) = Key(n)
  <2>1. Len(writes') = DirSectors + 2
    BY <1>4 DEF CreateBegins, IsCreate
  <2>2. CreateView(disk, e, Len(writes'), i, n, sector, hdr)
    BY <1>4, <1>5, CreateSeen
  <2> HIDE DEF e
  <2> QED BY <2>1, <2>2 DEF CreateView
<1>10. Outcoming' = e
  BY <1>1 DEF Outcoming
<1> HIDE DEF e
<1>11. Find(TableOf(e), Key(n)) # -1
  <2>1. NameOf(e, i) = Key(Key(n))
    BY <1>2, <1>9, KeyTwice
  <2> QED BY <2>1, <1>7, FindIs
<1>12. Usable'
  BY <1>1, <1>3, <1>7, <1>8, <1>10, <1>11 DEF Usable
<1> QED BY <1>6, <1>12 DEF IInv

LEMMA CopyUsable ==
  ASSUME IInv, command.kind = "Copy", writes = <<>>
  PROVE  /\ Phase /\ Usable /\ kernel = "up" /\ torn = {} /\ Outcoming = disk
         /\ Sound(disk) /\ Exact(disk) /\ FetchTable = TableOf(disk)
<1>1. Phase /\ Usable /\ kernel = "up" /\ torn = {}
  BY DEF IInv, Phase, Raw, Unfinished, Formatting
<1> QED BY <1>1, AtRest DEF Clean

LEMMA CopyOpensHolds == IInv /\ CopyOpens => IInv'
<1> SUFFICES ASSUME IInv, CopyOpens PROVE IInv'
  OBVIOUS
<1>1. command.kind = "Copy" /\ writes = <<>> /\ openFile = Closed
  BY DEF CopyOpens
<1>2. /\ openFile' = [hdr |-> FetchHeader(Find(FetchTable, command.name)), seekPosition |-> 0]
      /\ disk' = disk /\ kernel' = kernel /\ freeMapFile' = freeMapFile
      /\ directoryFile' = directoryFile /\ command' = command /\ writes' = writes /\ torn' = torn
  BY DEF CopyOpens, Opened
<1>3. /\ Phase /\ Usable /\ kernel = "up" /\ torn = {} /\ Outcoming = disk
      /\ Sound(disk) /\ FetchTable = TableOf(disk)
  BY <1>1, CopyUsable
<1>4. Phase'
  BY <1>1, <1>2, <1>3 DEF Phase
<1>5. Find(TableOf(disk), command.name) # -1
  BY <1>1, <1>3 DEF Usable
<1>6. openFile'.hdr = Header(disk, FindIndex(TableOf(disk), command.name))
      /\ FindIndex(TableOf(disk), command.name) \in Held(disk)
  BY <1>2, <1>3, <1>5, FindIs DEF Header, FetchHeader
<1>7. openFile' # Closed
  <2>1. openFile'.seekPosition = 0 /\ Closed.seekPosition = -1
    BY <1>2 DEF Closed
  <2> QED BY <2>1
<1>8. Outcoming' = disk
  BY <1>2, <1>3 DEF Outcoming
<1>9. Usable'
  BY <1>1, <1>2, <1>3, <1>6, <1>7, <1>8 DEF Usable, Clean
<1> QED BY <1>4, <1>9 DEF IInv

LEMMA CopyEndsHolds == IInv /\ CopyEnds => IInv'
<1> SUFFICES ASSUME IInv, CopyEnds PROVE IInv'
  OBVIOUS
<1>1. command.kind = "Copy" /\ writes = <<>>
  BY DEF CopyEnds
<1>2. /\ openFile' = Closed /\ command' = Nothing
      /\ disk' = disk /\ kernel' = kernel /\ freeMapFile' = freeMapFile
      /\ directoryFile' = directoryFile /\ writes' = writes /\ torn' = torn
  BY DEF CopyEnds
<1>3. Phase /\ Usable /\ kernel = "up" /\ torn = {}
  BY <1>1, CopyUsable
<1>4. Phase'
  BY <1>1, <1>2, <1>3 DEF Phase
<1>5. Outcoming' = Outcoming
  BY <1>2 DEF Outcoming
<1>6. Usable'
  BY <1>1, <1>2, <1>3, <1>5 DEF Usable, Clean
<1> QED BY <1>4, <1>6 DEF IInv

(* What a Seek and Write or a chunk of a Copy writes.                      *)
LEMMA DataStarts ==
  ASSUME NEW d, Sound(d), NEW i \in Held(d), NEW hdr, hdr = Header(d, i),
         NEW into \in Seq(Int), NEW position \in Nat, NEW w, w = WriteAt(hdr, into, position)
  PROVE  DataBegins(d, w, i) /\ Len(w) \in Nat /\ SoundAlong(d, w)
         /\ (Exact(d) => ExactAlong(d, w))
<1>1. IsHeader(hdr)
  BY DEF Sound, FileSound
<1>2. DataBegins(d, w, i)
  BY <1>1, DataShape DEF DataBegins
<1>3. Len(w) \in Nat
  BY <1>2 DEF DataBegins, IsWrites
<1>4. ASSUME NEW k \in 0 .. Len(w) PROVE Sound(After(d, w, k)) /\ (Exact(d) => Exact(After(d, w, k)))
  <2>1. k \in Nat /\ k <= Len(w)
    BY <1>3
  <2> QED BY <1>2, <2>1, DataKeeps
<1> QED BY <1>2, <1>3, <1>4 DEF SoundAlong, ExactAlong

LEMMA Chunk ==
  ASSUME NEW b \in Seq(Int), NEW position \in Nat
  PROVE  SubSeq(b, position + 1, Min({position + TransferSize, Len(b)})) \in Seq(Int)
<1> DEFINE m == Min({position + TransferSize, Len(b)})
<1>1. TransferSize \in Nat /\ Len(b) \in Nat
  BY FileSystemAssumption
<1>2. m \in Nat /\ m <= Len(b)
  BY <1>1, MinOfTwo
<1> HIDE DEF m
<1>3. \A x \in position + 1 .. m : b[x] \in Int
  BY <1>1, <1>2
<1>4. SubSeq(b, position + 1, m) \in Seq(Int)
  BY <1>1, <1>2, <1>3
<1> QED BY <1>4 DEF m

LEMMA CopyWritesHolds == IInv /\ CopyWrites => IInv'
<1> SUFFICES ASSUME IInv, CopyWrites PROVE IInv'
  OBVIOUS
<1> DEFINE position == openFile.seekPosition
           chunk == SubSeq(command.bytes, position + 1, Min({position + TransferSize, Len(command.bytes)}))
<1>1. command.kind = "Copy" /\ writes = <<>> /\ openFile # Closed
  BY DEF CopyWrites
<1>2. /\ writes' = WriteAt(openFile.hdr, chunk, position)
      /\ openFile' = [openFile EXCEPT !.seekPosition = @ + Clipped(openFile.hdr, Len(chunk), position)]
      /\ disk' = disk /\ kernel' = kernel /\ freeMapFile' = freeMapFile
      /\ directoryFile' = directoryFile /\ command' = command /\ torn' = torn
  BY DEF CopyWrites
<1>3. Phase /\ Usable /\ kernel = "up" /\ torn = {} /\ Outcoming = disk /\ Sound(disk) /\ Exact(disk)
  BY <1>1, CopyUsable
<1>4. PICK i \in Held(disk) : openFile.hdr = Header(disk, i)
  BY <1>1, <1>3 DEF Usable
<1>5. /\ openFile = [hdr |-> openFile.hdr, seekPosition |-> position] /\ position \in Nat
      /\ chunk \in Seq(Int)
  BY <1>1, <1>3, Chunk DEF Phase
<1> HIDE DEF chunk, position
<1>6. DataBegins(disk, writes', i) /\ Len(writes') \in Nat /\ SoundAlong(disk, writes') /\ IsWrites(writes')
  BY <1>2, <1>3, <1>4, <1>5, DataStarts DEF DataBegins
<1>7. IsHeader(openFile.hdr)
  BY <1>3, <1>4 DEF Sound, FileSound
<1> DEFINE count == Clipped(openFile.hdr, Len(chunk), position)
<1>8. count \in Nat
  <2>1. Len(chunk) \in Nat /\ openFile.hdr.numBytes \in Nat
    BY <1>5, <1>7 DEF IsHeader
  <2> QED BY <2>1, <1>5, ClippedLength
<1>9. openFile' = [hdr |-> openFile.hdr, seekPosition |-> position + count]
  BY <1>2, <1>5 DEF position
<1> HIDE DEF count
<1>10. openFile'.hdr = openFile.hdr /\ openFile'.seekPosition \in Nat /\ openFile' # Closed
  <2>1. openFile'.hdr = openFile.hdr /\ openFile'.seekPosition \in Nat
    BY <1>5, <1>8, <1>9
  <2>2. Closed.seekPosition = -1
    BY DEF Closed
  <2> QED BY <2>1, <2>2
<1>11. openFile' = [hdr |-> openFile'.hdr, seekPosition |-> openFile'.seekPosition]
  BY <1>9
<1>12. Phase'
  BY <1>1, <1>2, <1>3, <1>6, <1>10, <1>11 DEF Phase
<1> DEFINE e == After(disk, writes', Len(writes'))
<1>13. Outcoming' = e
  BY <1>2 DEF Outcoming
<1>14. Sound(e) /\ Exact(e) /\ i \in Held(e) /\ Header(e, i) = openFile.hdr
  BY <1>3, <1>4, <1>6, DataKeeps DEF SameEntry
<1> HIDE DEF e
<1>15. Usable'
  BY <1>1, <1>2, <1>3, <1>6, <1>10, <1>13, <1>14 DEF Usable
<1> QED BY <1>12, <1>15 DEF IInv

LEMMA SeekAndWriteHolds ==
  ASSUME IInv, NEW n \in Name, NEW p \in Patch, SeekAndWrite(n, p)
  PROVE  IInv'
<1>1. /\ Idle /\ torn = {} /\ Find(FetchTable, n) # -1
      /\ writes' = WriteAt(Opened(n).hdr, p.bytes, p.position) /\ writes' # <<>>
      /\ command' = [kind |-> "Write", name |-> Key(n), bytes |-> Overlaid(files[Key(n)], p)]
      /\ disk' = disk /\ kernel' = kernel /\ freeMapFile' = freeMapFile
      /\ directoryFile' = directoryFile /\ openFile' = openFile /\ torn' = torn
  BY DEF SeekAndWrite
<1>2. Phase /\ Usable /\ writes = <<>> /\ openFile = Closed
  BY <1>1, IdleUsable
<1>3. /\ Sound(disk) /\ Exact(disk) /\ directoryFile = DirHeader /\ FetchTable = TableOf(disk)
  BY <1>1, <1>2, AtRest DEF Clean
<1> DEFINE i == FindIndex(TableOf(disk), n)
<1>4. i \in Held(disk) /\ Opened(n).hdr = Header(disk, i)
  BY <1>1, <1>3, FindIs DEF Opened, FetchHeader, Header
<1> HIDE DEF i
<1>5. p.bytes \in Seq(Int) /\ p.position \in Nat
  BY FileSystemAssumption
<1>6. Len(writes') \in Nat /\ SoundAlong(disk, writes') /\ ExactAlong(disk, writes') /\ IsWrites(writes')
  BY <1>1, <1>3, <1>4, <1>5, DataStarts DEF DataBegins
<1>7. Phase'
  BY <1>1, <1>2, <1>6 DEF Phase
<1>8. Exact(Outcoming')
  <2>1. Len(writes') \in 0 .. Len(writes')
    BY <1>6
  <2> QED BY <1>1, <1>6, <2>1 DEF Outcoming, ExactAlong
<1>9. Usable'
  BY <1>1, <1>2, <1>3, <1>6, <1>8 DEF Usable
<1> QED BY <1>7, <1>9 DEF IInv

LEMMA RemoveStarts ==
  ASSUME IInv, NEW n, Idle, Find(FetchTable, n) # -1,
         NEW w, w = RemoveWrites(FetchTable, FetchMap, n)
  PROVE  RemoveBegins(disk, w, FindIndex(TableOf(disk), n))
<1> DEFINE t == TableOf(disk)
           i == FindIndex(t, n)
           u == Removed(t, n)
<1>1. Phase /\ Usable /\ writes = <<>>
  BY IdleUsable
<1>2. /\ Sound(disk) /\ freeMapFile = MapHeader /\ directoryFile = DirHeader
      /\ FetchTable = t /\ FetchMap = MapOf(disk)
  BY <1>1, AtRest
<1>3. i \in Held(disk) /\ Find(t, n) = HeaderSector(disk, i) /\ FindIndex(t, n) # -1
  BY <1>2, FindIs
<1>4. RemovedAt(t, u, i)
  BY <1>3, TableOfIs, RemovedRows
<1> HIDE DEF t, i, u
<1>5. w = WriteMap(MapHeader, (MapOf(disk) \ Range(FetchHeader(HeaderSector(disk, i)).dataSectors)) \ {HeaderSector(disk, i)})
          \o WriteTable(DirHeader, u)
  BY <1>2, <1>3 DEF RemoveWrites, u
<1>6. (MapOf(disk) \ Range(FetchHeader(HeaderSector(disk, i)).dataSectors)) \ {HeaderSector(disk, i)} = MapOf(disk) \ Owned(disk, i)
  BY DEF Owned, Header, FetchHeader
<1>7. IsWrites(w) /\ IsRemove(w, u, MapOf(disk) \ Owned(disk, i))
  BY <1>5, <1>6, RemoveShape
<1>8. RemoveBegins(disk, w, i)
  BY <1>2, <1>3, <1>4, <1>7 DEF RemoveBegins, t
<1> QED BY <1>8 DEF i, t

LEMMA RemoveFileHolds ==
  ASSUME IInv, NEW n \in Name, RemoveFile(n)
  PROVE  IInv'
<1> DEFINE sector == Find(FetchTable, n)
           marked == Removable(n)
           i == FindIndex(TableOf(disk), n)
<1>1. /\ Idle /\ sector # -1
      /\ disk' = disk /\ freeMapFile' = freeMapFile
      /\ directoryFile' = directoryFile /\ openFile' = openFile /\ torn' = torn
  BY DEF RemoveFile
<1>2. marked => /\ command' = [kind |-> "Remove", name |-> Key(n), bytes |-> <<>>]
                /\ writes' = RemoveWrites(FetchTable, FetchMap, n) /\ kernel' = kernel
  BY DEF RemoveFile
<1>3. ~marked => kernel' = "abort" /\ command' = command /\ writes' = writes
  BY DEF RemoveFile
<1>4. Phase /\ Usable /\ writes = <<>> /\ openFile = Closed
  BY <1>1, IdleUsable
<1>5. /\ Outcoming = disk /\ Sound(disk) /\ (Clean => Exact(disk)) /\ directoryFile = DirHeader
      /\ FetchTable = TableOf(disk) /\ FetchMap = MapOf(disk)
  BY <1>4, AtRest
<1>6. i \in Held(disk) /\ sector = HeaderSector(disk, i)
  BY <1>1, <1>5, FindIs
<1> HIDE DEF i, sector, marked
<1>7. CASE marked
  <2>1. RemoveBegins(disk, writes', i)
    BY <1>1, <1>2, <1>7, RemoveStarts DEF sector, i
  <2>2. IsWrites(writes') /\ Len(writes') \in Nat /\ writes' # <<>>
    <3>1. Len(writes') = DirSectors + 1 /\ DirSectors \in Nat
      BY <2>1, Layout DEF RemoveBegins, IsRemove
    <3> QED BY <2>1, <3>1 DEF RemoveBegins
  <2>3. Phase'
    BY <1>1, <1>2, <1>4, <1>7, <2>2 DEF Phase
  <2>4. SoundAlong(disk, writes')
    <3> SUFFICES ASSUME NEW k \in 0 .. Len(writes') PROVE Sound(After(disk, writes', k))
      BY DEF SoundAlong
    <3>1. k \in Nat /\ k <= Len(writes')
      BY <2>2
    <3> QED BY <2>1, <3>1, RemoveKeeps
  <2>5. Exact(disk) => Exact(Outcoming')
    <3> DEFINE e == After(disk, writes', Len(writes'))
    <3>1. Exact(disk) => Exact(e)
      BY <2>1, <2>2, RemoveKeeps
    <3>2. Outcoming' = e
      BY <1>1 DEF Outcoming
    <3> HIDE DEF e
    <3> QED BY <3>1, <3>2
  <2>6. Usable'
    BY <1>1, <1>2, <1>4, <1>5, <1>7, <2>4, <2>5 DEF Usable, Clean
  <2> QED BY <2>3, <2>6 DEF IInv
<1>8. CASE ~marked
  <2>1. Phase'
    BY <1>1, <1>3, <1>4, <1>8 DEF Phase
  <2>2. ~Clean
    <3> SUFFICES ASSUME Clean PROVE FALSE
      OBVIOUS
    <3>1. Owned(disk, i) \subseteq MapOf(disk)
      BY <1>5, <1>6 DEF Exact
    <3>2. HeaderSector(disk, i) \in Sector
      BY <1>5, <1>6 DEF Sound, FileSound
    <3>3. Range(FetchHeader(sector).dataSectors) \subseteq FetchMap
      BY <1>5, <1>6, <3>1 DEF Owned, Header, FetchHeader
    <3> QED BY <1>6, <1>8, <3>2, <3>3 DEF marked, Removable, Deallocatable, sector
  <2>3. Usable'
    BY <1>1, <1>3, <1>4, <1>8, <2>2 DEF Usable, Clean, Outcoming
  <2> QED BY <2>1, <2>3 DEF IInv
<1> QED BY <1>7, <1>8

----------------------------------------------------------------------------
(* Every step keeps the invariant.                                         *)
LEMMA StepHolds == IInv /\ [Next]_vars => IInv'
<1> SUFFICES ASSUME IInv, [Next]_vars PROVE IInv'
  OBVIOUS
<1>1. CASE Next
  BY <1>1, FormatHolds, MountHolds, StopHolds, WriteSectorHolds, CopyOpensHolds, CopyWritesHolds,
     CopyEndsHolds, RemoveFileHolds, CopyCreatesHolds, SeekAndWriteHolds DEF Next
<1>2. CASE UNCHANGED vars
  BY <1>2 DEF vars, IInv, Phase, Raw, Unfinished, TornFormat, Formatting, Usable, Clean, Outcoming
<1> QED BY <1>1, <1>2

(* Wherever the machine is stopped, the disk holds files that do not meet, *)
(* and a free map without a sector that nobody owns.                       *)
THEOREM DiskSound == Spec => []IInv
BY InitHolds, StepHolds, PTL DEF Spec

(* At every instant, also after a stop, no two files share a sector and no *)
(* marked sector is without an owner; between calls, unless a stop came    *)
(* between, free map and directory agree to the sector.                    *)
THEOREM FreeMapIsExact == Spec => []FreeMapExact
<1>1. IInv => FreeMapExact
  <2> SUFFICES ASSUME IInv, Formatted PROVE FreeMapExact
    BY DEF FreeMapExact
  <2>1. Phase /\ Usable
    BY DEF IInv, Formatted, Holds, Raw, Unfinished, TornFormat, Formatting
  <2>2. freeMapFile = MapHeader /\ directoryFile = DirHeader
    BY <2>1, Layout DEF Phase, Usable
  <2>3. Sound(disk)
    <3>1. 0 \in 0 .. Len(writes) /\ After(disk, writes, 0) = disk
      BY <2>1, AfterNone DEF Phase, IsWrites
    <3> QED BY <2>1, <3>1 DEF Usable, SoundAlong
  <2>4. FetchTable = TableOf(disk) /\ FetchMap = MapOf(disk) /\ SystemSectors = Reserved
    BY <2>2 DEF FetchTable, FetchMap, TableOf, MapOf, DirSector, MapSector, SystemSectors, Reserved
  <2>5. Live = Held(disk) /\ \A i \in Entry : Uses(i) = Owned(disk, i)
    BY <2>4 DEF Live, Held, Uses, Owned, HeaderOf, FetchHeader, Header, HeaderSector
  <2>6. \A i \in Live : Uses(i) = Owned(disk, i)
    BY <2>5 DEF Live
  <2>7. \A i \in Live : Uses(i) \cap SystemSectors = {}
    BY <2>3, <2>4, <2>5, <2>6 DEF Sound, FileSound
  <2>8. \A i, j \in Live : i # j => Uses(i) \cap Uses(j) = {}
    BY <2>3, <2>5, <2>6 DEF Sound, Apart
  <2>9. FetchMap \subseteq SystemSectors \cup UNION {Uses(i) : i \in Live}
    <3> SUFFICES ASSUME NEW s \in FetchMap, s \notin SystemSectors PROVE \E i \in Live : s \in Uses(i)
      OBVIOUS
    <3> QED BY <2>3, <2>4, <2>5, <2>6 DEF Sound, MapSound
  <2>10. ASSUME command = Nothing, torn = {}
         PROVE  SystemSectors \cup UNION {Uses(i) : i \in Live} \subseteq FetchMap
    <3>1. Exact(disk)
      <4>1. writes = <<>>
        BY <2>1, <2>10 DEF Phase
      <4> QED BY <2>1, <2>10, <4>1, AtRest DEF Clean
    <3>2. SystemSectors \subseteq FetchMap
      BY <2>3, <2>4 DEF Sound, MapSound
    <3>3. \A i \in Live : Uses(i) \subseteq FetchMap
      BY <2>4, <2>5, <2>6, <3>1 DEF Exact
    <3> QED BY <3>2, <3>3
  <2> QED BY <2>7, <2>8, <2>9, <2>10 DEF FreeMapExact
<1> QED BY <1>1, DiskSound, PTL

----------------------------------------------------------------------------
(* What the files of a disk hold.                                          *)
Value(d, hdr) == [p \in 1 .. hdr.numBytes |->
  Bytes(d[ByteToSector(hdr, p - 1)])[((p - 1) % SectorSize) + 1]]
HeaderFound(d, n) == Header(d, FindIndex(TableOf(d), n))
FileHolds(d, n, bytes) ==
  /\ FindIndex(TableOf(d), n) # -1
  /\ Value(d, HeaderFound(d, n)) = bytes
HoldsAlong(d, w, n, bytes) == \A k \in 0 .. Len(w) : FileHolds(After(d, w, k), n, bytes)

(* A directory in which every name is found where it was put: no name is   *)
(* there twice, and the name that a free entry still has from a file that  *)
(* was removed is not before the entry in use that has this name now.      *)
Named(d) ==
  /\ \A i, j \in Held(d) : NameOf(d, i) = NameOf(d, j) => i = j
  /\ \A i \in Held(d), e \in Entry \ Held(d) : NameOf(d, i) = NameOf(d, e) => i < e

FilesAfter ==
  CASE command.kind = "Copy" -> DOMAIN files \cup {command.name}
    [] command.kind = "Remove" -> DOMAIN files \ {command.name}
    [] OTHER -> DOMAIN files

(* How far a Copy has come.                                                *)
Copied(d, hdr) ==
  /\ hdr.numBytes = Len(command.bytes)
  /\ openFile # Closed =>
       /\ openFile.hdr = hdr /\ openFile.seekPosition <= Len(command.bytes)
       /\ \A p \in 1 .. openFile.seekPosition : Value(d, hdr)[p] = command.bytes[p]

Contents ==
  /\ \A n \in DOMAIN files \cup {command.name} : Key(n) = n
  /\ \A n \in DOMAIN files \ AtRisk : HoldsAlong(disk, writes, n, files[n])
  /\ torn = {} => Named(Outcoming) /\ Listing(TableOf(Outcoming)) = FilesAfter
  /\ command.kind = "Write" => /\ FileHolds(Outcoming, command.name, command.bytes)
                               /\ command.name \in DOMAIN files
  /\ command.kind = "Copy" => Copied(Outcoming, HeaderFound(Outcoming, command.name))

KeptInv ==
  /\ Formatting => Held(Outcoming) = {}
  /\ Usable => Contents

----------------------------------------------------------------------------
(* Files and their contents.                                               *)
LEMMA MatchIs ==
  ASSUME NEW d, NEW n, NEW j
  PROVE  Matches(TableOf(d), n, j) <=> j \in Held(d) /\ NameOf(d, j) = Key(n)
BY DEF Matches, Held, NameOf

LEMMA FoundAt ==
  ASSUME NEW d, NEW n, NEW j, j \in Held(d), NameOf(d, j) = Key(n),
         \A i \in Held(d) : NameOf(d, i) = Key(n) => j <= i
  PROVE  FindIndex(TableOf(d), n) = j /\ j # -1
<1> DEFINE i == FindIndex(TableOf(d), n)
<1>1. Matches(TableOf(d), n, j)
  BY MatchIs
<1>2. i # -1 /\ Matches(TableOf(d), n, i) /\ i \in Nat \ {0} /\ i <= j
  BY <1>1, Found
<1> HIDE DEF i
<1>3. i \in Held(d) /\ NameOf(d, i) = Key(n)
  BY <1>2, MatchIs
<1>4. j <= i /\ j \in Nat
  BY <1>3 DEF Held, Entry
<1> QED BY <1>2, <1>4 DEF i

LEMMA ValueKept ==
  ASSUME NEW d, NEW e, NEW hdr, IsHeader(hdr), \A s \in Range(hdr.dataSectors) : e[s] = d[s]
  PROVE  Value(e, hdr) = Value(d, hdr)
<1>1. ASSUME NEW p \in 1 .. hdr.numBytes PROVE ByteToSector(hdr, p - 1) \in Range(hdr.dataSectors)
  <2>1. hdr.numBytes \in Nat /\ p - 1 \in Nat /\ p - 1 < hdr.numBytes
    BY DEF IsHeader
  <2>2. (p - 1) \div SectorSize + 1 \in 1 .. divRoundUp(hdr.numBytes, SectorSize)
    BY <2>1, InsideFile
  <2>3. hdr.dataSectors \in [1 .. divRoundUp(hdr.numBytes, SectorSize) -> Sector]
    BY DEF IsHeader
  <2> HIDE DEF divRoundUp
  <2> QED BY <2>2, <2>3 DEF ByteToSector, Range
<1>2. ASSUME NEW p \in 1 .. hdr.numBytes PROVE e[ByteToSector(hdr, p - 1)] = d[ByteToSector(hdr, p - 1)]
  BY <1>1
<1> QED BY <1>2 DEF Value

(* A file is left alone when its entry is found as before, and neither its *)
(* header nor its data changes.                                            *)
LEMMA HoldsKept ==
  ASSUME NEW d, Sound(d), NEW n, NEW bytes, FileHolds(d, n, bytes),
         NEW j, j = FindIndex(TableOf(d), n),
         NEW e, FindIndex(TableOf(e), n) = j, SameEntry(d, e, j),
         \A s \in Range(Header(d, j).dataSectors) : e[s] = d[s]
  PROVE  FileHolds(e, n, bytes)
<1>1. j # -1 /\ Value(d, Header(d, j)) = bytes
  BY DEF FileHolds, HeaderFound
<1>2. j \in Held(d)
  BY <1>1, FindIs
<1>3. IsHeader(Header(d, j)) /\ Header(e, j) = Header(d, j)
  BY <1>2 DEF Sound, FileSound, SameEntry
<1>4. Value(e, Header(d, j)) = Value(d, Header(d, j))
  BY <1>3, ValueKept
<1> QED BY <1>1, <1>3, <1>4 DEF FileHolds, HeaderFound

LEMMA FileFound ==
  ASSUME NEW d, Sound(d), NEW n, NEW bytes, FileHolds(d, n, bytes), NEW j, j = FindIndex(TableOf(d), n)
  PROVE  /\ j \in Held(d) /\ j \in Entry /\ NameOf(d, j) = Key(n) /\ FileSound(d, j)
         /\ \A i \in Held(d) : NameOf(d, i) = Key(n) => j <= i
<1>1. j # -1 /\ j \in Held(d) /\ NameOf(d, j) = Key(n)
  BY FindIs DEF FileHolds
<1>2. \A i \in Held(d) : NameOf(d, i) = Key(n) => j <= i
  BY <1>1, Found, MatchIs
<1> QED BY <1>1, <1>2 DEF Sound, Held

(* A file is found in its entry while another is created: also where the   *)
(* new entry still has the name of a file that was removed.                *)
LEMMA CreateFinds ==
  ASSUME NEW d, NEW w, NEW i, NEW name, NEW sector, NEW hdr, CreateBegins(d, w, i, name, sector, hdr),
         Named(d), NEW n, NEW bytes, FileHolds(d, n, bytes), Key(name) # Key(n),
         NEW k \in Nat, k <= Len(w), NEW j, j = FindIndex(TableOf(d), n)
  PROVE  /\ FindIndex(TableOf(After(d, w, k)), n) = j /\ SameEntry(d, After(d, w, k), j)
         /\ j \in Held(d) /\ FileSound(d, j)
<1> DEFINE e == After(d, w, k)
<1>1. Sound(d)
  BY DEF CreateBegins
<1>2. CreateView(d, e, k, i, name, sector, hdr)
  BY CreateSeen
<1>3. Held(e) \subseteq Held(d) \cup {i} /\ Held(d) \subseteq Held(e) /\ \A x \in Held(d) : SameEntry(d, e, x)
  BY CreateKeeps
<1> HIDE DEF e
<1>4. /\ j \in Held(d) /\ j \in Entry /\ NameOf(d, j) = Key(n) /\ FileSound(d, j)
      /\ \A x \in Held(d) : NameOf(d, x) = Key(n) => j <= x
  BY <1>1, FileFound
<1>5. ASSUME NEW x \in Entry, x # i PROVE NameOf(e, x) = NameOf(d, x)
  BY <1>2, <1>5 DEF CreateView, SameRow, NameOf
<1>6. i \in Entry /\ i \notin Held(d) /\ NameOf(e, i) \in {NameOf(d, i), Key(name)}
  BY <1>2 DEF CreateView
<1>7. ASSUME NEW x \in Held(e), NameOf(e, x) = Key(n) PROVE j <= x
  <2>1. CASE x = i
    <3>1. NameOf(d, i) = NameOf(d, j)
      BY <1>4, <1>6, <1>7, <2>1
    <3>2. j < i
      BY <3>1, <1>4, <1>6 DEF Named
    <3> QED BY <3>2, <2>1, <1>4, <1>6 DEF Entry
  <2>2. CASE x # i
    <3>1. x \in Held(d) /\ x \in Entry
      BY <2>2, <1>3 DEF Held
    <3> QED BY <3>1, <2>2, <1>4, <1>5, <1>7
  <2> QED BY <2>1, <2>2
<1>8. j \in Held(e) /\ NameOf(e, j) = Key(n) /\ SameEntry(d, e, j)
  BY <1>3, <1>4, <1>5, <1>6
<1>9. FindIndex(TableOf(e), n) = j
  BY <1>7, <1>8, FoundAt
<1> QED BY <1>4, <1>8, <1>9 DEF e

LEMMA CreateHolds ==
  ASSUME NEW d, NEW w, NEW i, NEW name, NEW sector, NEW hdr, CreateBegins(d, w, i, name, sector, hdr),
         Named(d), NEW n, NEW bytes, FileHolds(d, n, bytes), Key(name) # Key(n),
         NEW k \in Nat, k <= Len(w)
  PROVE  FileHolds(After(d, w, k), n, bytes)
<1> DEFINE e == After(d, w, k)
           j == FindIndex(TableOf(d), n)
<1>1. Sound(d) /\ Exact(d) /\ Fresh(d, sector, hdr)
  BY DEF CreateBegins
<1>2. CreateView(d, e, k, i, name, sector, hdr)
  BY CreateSeen
<1>3. FindIndex(TableOf(e), n) = j /\ SameEntry(d, e, j) /\ j \in Held(d) /\ FileSound(d, j)
  BY CreateFinds
<1> HIDE DEF e, j
<1>4. ASSUME NEW s \in Range(Header(d, j).dataSectors) PROVE e[s] = d[s]
  <2>1. s \in Owned(d, j) /\ Owned(d, j) \subseteq MapOf(d) /\ s \notin Reserved
    BY <1>1, <1>3 DEF Owned, Exact, FileSound
  <2>2. s \in Sector
    BY <1>3 DEF FileSound, IsHeader, Range
  <2>3. s # sector
    BY <2>1, <1>1 DEF Fresh
  <2> QED BY <2>1, <2>2, <2>3, <1>2 DEF CreateView
<1> QED BY <1>1, <1>3, <1>4, HoldsKept DEF j, e

LEMMA ListingIs ==
  ASSUME NEW d
  PROVE  \A n : n \in Listing(TableOf(d)) <=> \E i \in Held(d) : NameOf(d, i) = n
BY DEF Listing, Held, NameOf

(* The first free entry is taken, and the first entry in use found.        *)
LEMMA CreateNamed ==
  ASSUME NEW d, NEW w, NEW i, NEW name, NEW sector, NEW hdr, CreateBegins(d, w, i, name, sector, hdr),
         Named(d), \A j \in Held(d) : NameOf(d, j) # Key(name)
  PROVE  LET e == After(d, w, Len(w))
         IN  /\ Named(e) /\ Listing(TableOf(e)) = Listing(TableOf(d)) \cup {Key(name)}
             /\ \A n : Key(n) = Key(name) => FindIndex(TableOf(e), n) = i /\ HeaderFound(e, n) = hdr
<1> DEFINE k == Len(w)
           e == After(d, w, k)
<1>1. Len(w) = DirSectors + 2 /\ DirSectors \in Nat /\ k \in Nat /\ k <= Len(w)
  BY Layout DEF CreateBegins, IsCreate
<1>2. CreateView(d, e, k, i, name, sector, hdr)
  BY <1>1, CreateSeen
<1>3. Held(e) \subseteq Held(d) \cup {i} /\ Held(d) \subseteq Held(e) /\ i \in Held(e)
  BY <1>1, CreateKeeps
<1>4. \A j \in Entry : j \notin Held(d) => i <= j
  BY DEF CreateBegins, AddedAt, Held
<1> HIDE DEF e
<1>5. ASSUME NEW x \in Entry, x # i PROVE NameOf(e, x) = NameOf(d, x)
  BY <1>2, <1>5 DEF CreateView, SameRow, NameOf
<1>6. /\ i \in Entry /\ i \notin Held(d) /\ NameOf(e, i) = Key(name)
      /\ HeaderSector(e, i) = sector /\ Header(e, i) = hdr
  BY <1>1, <1>2 DEF CreateView
<1>7. Held(e) = Held(d) \cup {i} /\ \A x \in Held(d) : x \in Entry /\ x # i /\ NameOf(e, x) = NameOf(d, x)
  BY <1>3, <1>5, <1>6 DEF Held
<1>8. Named(e)
  <2>1. ASSUME NEW x \in Held(e), NEW y \in Held(e), NameOf(e, x) = NameOf(e, y) PROVE x = y
    <3>1. CASE x \in Held(d) /\ y \in Held(d)
      BY <3>1, <2>1, <1>7 DEF Named
    <3>2. CASE x = i \/ y = i
      BY <3>2, <2>1, <1>6, <1>7
    <3> QED BY <3>1, <3>2, <1>7
  <2>2. ASSUME NEW x \in Held(e), NEW y \in Entry \ Held(e), NameOf(e, x) = NameOf(e, y) PROVE x < y
    <3>1. y \in Entry \ Held(d) /\ y # i /\ NameOf(e, y) = NameOf(d, y)
      BY <1>5, <1>7
    <3>2. CASE x = i
      BY <3>1, <3>2, <1>4, <1>6 DEF Entry
    <3>3. CASE x # i
      BY <3>1, <3>3, <2>2, <1>7 DEF Named
    <3> QED BY <3>2, <3>3
  <2> QED BY <2>1, <2>2 DEF Named
<1>9. Listing(TableOf(e)) = Listing(TableOf(d)) \cup {Key(name)}
  BY <1>6, <1>7, ListingIs
<1>10. ASSUME NEW n, Key(n) = Key(name) PROVE FindIndex(TableOf(e), n) = i /\ HeaderFound(e, n) = hdr
  <2>1. i \in Held(e) /\ NameOf(e, i) = Key(n)
    BY <1>6, <1>7, <1>10
  <2>2. \A x \in Held(e) : NameOf(e, x) = Key(n) => i <= x
    BY <1>6, <1>7, <1>10 DEF Entry
  <2>3. FindIndex(TableOf(e), n) = i
    BY <2>1, <2>2, FoundAt
  <2> QED BY <2>3, <1>6 DEF HeaderFound
<1> QED BY <1>8, <1>9, <1>10 DEF e

LEMMA RemoveHolds ==
  ASSUME NEW d, NEW w, NEW i, RemoveBegins(d, w, i), NEW n, NEW bytes, FileHolds(d, n, bytes),
         NameOf(d, i) # Key(n), NEW k \in Nat, k <= Len(w)
  PROVE  FileHolds(After(d, w, k), n, bytes)
<1> DEFINE e == After(d, w, k)
           j == FindIndex(TableOf(d), n)
<1>1. Sound(d)
  BY DEF RemoveBegins
<1>2. RemoveView(d, e, k, i)
  BY RemoveSeen
<1>3. Held(e) \subseteq Held(d) /\ Held(d) \ {i} \subseteq Held(e) /\ \A x \in Held(d) : SameEntry(d, e, x)
  BY RemoveKeeps
<1> HIDE DEF e, j
<1>4. /\ j \in Held(d) /\ j \in Entry /\ NameOf(d, j) = Key(n) /\ FileSound(d, j)
      /\ \A x \in Held(d) : NameOf(d, x) = Key(n) => j <= x
  BY <1>1, FileFound DEF j
<1>5. ASSUME NEW x \in Entry PROVE NameOf(e, x) = NameOf(d, x)
  BY <1>2, <1>5 DEF RemoveView, SameRow, NameOf
<1>6. \A x \in Held(e) : NameOf(e, x) = Key(n) => j <= x
  BY <1>3, <1>4, <1>5 DEF Held
<1>7. j \in Held(e) /\ NameOf(e, j) = Key(n) /\ SameEntry(d, e, j)
  BY <1>3, <1>4, <1>5
<1>8. FindIndex(TableOf(e), n) = j
  BY <1>6, <1>7, FoundAt
<1>9. ASSUME NEW s \in Range(Header(d, j).dataSectors) PROVE e[s] = d[s]
  <2>1. s \notin Reserved
    BY <1>4 DEF Owned, FileSound
  <2>2. s \in Sector
    BY <1>4 DEF FileSound, IsHeader, Range
  <2> QED BY <2>1, <2>2, <1>2 DEF RemoveView
<1> QED BY <1>1, <1>7, <1>8, <1>9, HoldsKept DEF j, e

LEMMA RemoveNamed ==
  ASSUME NEW d, NEW w, NEW i, RemoveBegins(d, w, i), Named(d)
  PROVE  LET e == After(d, w, Len(w))
         IN  Named(e) /\ Listing(TableOf(e)) = Listing(TableOf(d)) \ {NameOf(d, i)}
<1> DEFINE k == Len(w)
           e == After(d, w, k)
<1>1. k \in Nat /\ k <= Len(w) /\ i \in Held(d)
  BY DEF RemoveBegins, IsWrites
<1>2. RemoveView(d, e, k, i)
  BY <1>1, RemoveSeen
<1>3. Held(e) \subseteq Held(d) /\ Held(d) \ {i} \subseteq Held(e) /\ i \notin Held(e)
  BY <1>1, RemoveKeeps
<1> HIDE DEF e
<1>4. Held(e) = Held(d) \ {i}
  BY <1>3
<1>5. ASSUME NEW x \in Entry PROVE NameOf(e, x) = NameOf(d, x)
  BY <1>2, <1>5 DEF RemoveView, SameRow, NameOf
<1>6. \A x \in Held(d) : x \in Entry
  BY DEF Held
<1>7. Named(e)
  <2>1. ASSUME NEW x \in Held(e), NEW y \in Held(e), NameOf(e, x) = NameOf(e, y) PROVE x = y
    BY <2>1, <1>4, <1>5, <1>6 DEF Named
  <2>2. ASSUME NEW x \in Held(e), NEW y \in Entry \ Held(e), NameOf(e, x) = NameOf(e, y) PROVE x < y
    <3>1. NameOf(d, x) = NameOf(d, y) /\ x \in Held(d) /\ x # i
      BY <2>2, <1>4, <1>5, <1>6
    <3>2. y # i
      BY <3>1, <1>1 DEF Named
    <3> QED BY <3>1, <3>2, <1>4 DEF Named
  <2> QED BY <2>1, <2>2 DEF Named
<1>8. \A n : n \in Listing(TableOf(e)) <=> n \in Listing(TableOf(d)) /\ n # NameOf(d, i)
  <2> SUFFICES ASSUME NEW n PROVE n \in Listing(TableOf(e)) <=> n \in Listing(TableOf(d)) /\ n # NameOf(d, i)
    OBVIOUS
  <2>1. n \in Listing(TableOf(e)) <=> \E x \in Held(e) : NameOf(e, x) = n
    BY ListingIs
  <2>2. n \in Listing(TableOf(d)) <=> \E x \in Held(d) : NameOf(d, x) = n
    BY ListingIs
  <2>3. ASSUME NEW x \in Held(d) PROVE NameOf(e, x) = NameOf(d, x) /\ (NameOf(d, x) = NameOf(d, i) => x = i)
    BY <1>1, <1>5, <1>6 DEF Named
  <2> QED BY <2>1, <2>2, <2>3, <1>4
<1>9. Listing(TableOf(e)) = Listing(TableOf(d)) \ {NameOf(d, i)}
  BY <1>8
<1> QED BY <1>7, <1>9 DEF e

LEMMA DataHolds ==
  ASSUME NEW d, NEW w, NEW i, DataBegins(d, w, i), NEW n, NEW bytes, FileHolds(d, n, bytes),
         NameOf(d, i) # Key(n), NEW k \in Nat, k <= Len(w)
  PROVE  FileHolds(After(d, w, k), n, bytes)
<1> DEFINE e == After(d, w, k)
           j == FindIndex(TableOf(d), n)
<1>1. Sound(d) /\ i \in Held(d)
  BY DEF DataBegins
<1>2. TableOf(e) = TableOf(d) /\ \A x \in Held(d) : SameEntry(d, e, x)
  BY DataKeeps
<1>3. ASSUME NEW s \in Sector, s \notin Range(Header(d, i).dataSectors) PROVE e[s] = d[s]
  BY <1>3, DataSeen
<1> HIDE DEF e, j
<1>4. j \in Held(d) /\ NameOf(d, j) = Key(n) /\ FileSound(d, j)
  BY <1>1, FileFound DEF j
<1>5. FindIndex(TableOf(e), n) = j /\ SameEntry(d, e, j)
  BY <1>2, <1>4 DEF j
<1>6. ASSUME NEW s \in Range(Header(d, j).dataSectors) PROVE e[s] = d[s]
  <2>1. s \in Sector
    BY <1>4 DEF FileSound, IsHeader, Range
  <2>2. Owned(d, i) \cap Owned(d, j) = {}
    BY <1>1, <1>4 DEF Sound, Apart
  <2>3. s \notin Range(Header(d, i).dataSectors)
    BY <2>2 DEF Owned
  <2> QED BY <2>1, <2>3, <1>3
<1> QED BY <1>1, <1>5, <1>6, HoldsKept DEF j, e

LEMMA DataNamed ==
  ASSUME NEW d, NEW e, TableOf(e) = TableOf(d)
  PROVE  /\ Named(e) <=> Named(d)
         /\ Held(e) = Held(d) /\ \A i : NameOf(e, i) = NameOf(d, i)
         /\ Listing(TableOf(e)) = Listing(TableOf(d))
<1>1. Held(e) = Held(d) /\ \A i : NameOf(e, i) = NameOf(d, i)
  BY DEF Held, NameOf
<1> QED BY <1>1 DEF Named

----------------------------------------------------------------------------
(* OpenFile::ReadAt and WriteAt, byte by byte.                             *)
LEMMA ClippedReach ==
  ASSUME NEW hdr, hdr.numBytes \in Nat, NEW n \in Nat, NEW position \in Nat,
         NEW x \in Nat \ {0}, position + x <= hdr.numBytes
  PROVE  x <= Clipped(hdr, n, position) <=> x <= n
<1> DEFINE m == hdr.numBytes - position
<1>1. m \in Int /\ x <= m /\ ~(position >= hdr.numBytes)
  OBVIOUS
<1>2. Min({n, m}) = IF n <= m THEN n ELSE m
  <2> HIDE DEF m
  <2> QED BY <1>1, MinOfTwo
<1>3. Clipped(hdr, n, position) = IF n <= 0 THEN 0 ELSE Min({n, m})
  BY <1>1 DEF Clipped
<1> HIDE DEF m
<1>4. CASE n <= 0
  BY <1>3, <1>4
<1>5. CASE ~(n <= 0) /\ n <= m
  BY <1>2, <1>3, <1>5
<1>6. CASE ~(n <= 0) /\ ~(n <= m)
  BY <1>1, <1>2, <1>3, <1>6
<1> QED BY <1>4, <1>5, <1>6

LEMMA ReadAtIs ==
  ASSUME NEW hdr, hdr.numBytes \in Nat, NEW n \in Nat, NEW position \in Nat
  PROVE  ReadAt(hdr, n, position) = [k \in 1 .. Clipped(hdr, n, position) |-> Value(disk, hdr)[position + k]]
<1> DEFINE count == Clipped(hdr, n, position)
<1>1. count \in Nat /\ (count > 0 => position + count <= hdr.numBytes)
  BY ClippedLength
<1>2. ReadAt(hdr, n, position) =
        [k \in 1 .. count |-> Bytes(disk[ByteToSector(hdr, position + k - 1)])[((position + k - 1) % SectorSize) + 1]]
  BY DEF ReadAt
<1> HIDE DEF count
<1>3. ASSUME NEW k \in 1 .. count
      PROVE  Value(disk, hdr)[position + k] =
               Bytes(disk[ByteToSector(hdr, position + k - 1)])[((position + k - 1) % SectorSize) + 1]
  <2> DEFINE p == position + k
  <2>1. p \in 1 .. hdr.numBytes
    BY <1>1
  <2> HIDE DEF p
  <2>2. Value(disk, hdr)[p] = Bytes(disk[ByteToSector(hdr, p - 1)])[((p - 1) % SectorSize) + 1]
    BY <2>1 DEF Value
  <2> QED BY <2>2 DEF p
<1>4. ReadAt(hdr, n, position) = [k \in 1 .. count |-> Value(disk, hdr)[position + k]]
  BY <1>2, <1>3
<1> QED BY <1>4 DEF count

(* The p-th byte of a file, after "into" was written at position.          *)
Patched(hdr, into, position, p) ==
  IF p - position \in 1 .. Len(into) THEN into[p - position] ELSE Value(disk, hdr)[p]

LEMMA BufferIs ==
  ASSUME NEW hdr, IsHeader(hdr), NEW into \in Seq(Int), NEW position \in Nat, NEW p \in 1 .. hdr.numBytes
  PROVE  Buffer(hdr, From(hdr, into, position), position, p - 1) = Patched(hdr, into, position, p)
<1> DEFINE count == Clipped(hdr, Len(into), position)
           from == From(hdr, into, position)
           x == p - position
           o == p - 1
<1>1. hdr.numBytes \in Nat /\ Len(into) \in Nat /\ o \in Nat /\ o < hdr.numBytes /\ p \in Nat
  BY DEF IsHeader
<1>2. /\ count \in Nat /\ count <= Len(into) /\ Len(from) = count /\ \A k \in 1 .. count : from[k] = into[k]
  <2> HIDE DEF count, from
  <2>1. count = Clipped(hdr, Len(into), position)
    BY DEF count
  <2>2. hdr.numBytes \in Nat
    BY <1>1
  <2>3. count \in Nat /\ count <= Len(into)
    BY <1>1, <2>1, <2>2, ClippedLength
  <2>4. from = SubSeq(into, 1, count)
    BY <2>1 DEF from, From
  <2>5. Len(SubSeq(into, 1, count)) = count /\ \A k \in 1 .. count : SubSeq(into, 1, count)[k] = into[k]
    BY <1>1, <2>3
  <2> QED BY <2>3, <2>4, <2>5
<1>3. x \in 1 .. count <=> x \in 1 .. Len(into)
  <2>1. CASE x \in Nat \ {0}
    <3>1. position + x <= hdr.numBytes
      BY <1>1
    <3>2. x <= count <=> x <= Len(into)
      <4> HIDE DEF x
      <4> QED BY <1>1, <2>1, <3>1, ClippedReach
    <3> HIDE DEF x, count
    <3> QED BY <2>1, <3>2, <1>1, <1>2
  <2>2. CASE x \notin Nat \ {0}
    <3> HIDE DEF x, count
    <3> QED BY <2>2, <1>1, <1>2
  <2> QED BY <2>1, <2>2
<1> HIDE DEF count, from
<1>4. o \in position .. position + Len(from) - 1 <=> x \in 1 .. count
  BY <1>1, <1>2
<1>5. o - position + 1 = x
  BY <1>1
<1>6. ReadAt(hdr, 1, o)[1] = Value(disk, hdr)[p]
  <2> DEFINE c == Clipped(hdr, 1, o)
  <2>1. 1 <= c
    <3>1. 1 \in Nat \ {0} /\ o + 1 <= hdr.numBytes /\ 1 \in Nat
      BY <1>1
    <3> HIDE DEF o
    <3> QED BY <1>1, <3>1, ClippedReach
  <2>2. c \in Nat
    <3> HIDE DEF o
    <3> QED BY <1>1, ClippedLength
  <2>3. ReadAt(hdr, 1, o) = [k \in 1 .. c |-> Value(disk, hdr)[o + k]]
    <3> HIDE DEF o
    <3> QED BY <1>1, ReadAtIs
  <2>4. 1 \in 1 .. c /\ o + 1 = p
    <3> HIDE DEF c
    <3> QED BY <1>1, <2>1, <2>2 DEF o
  <2> HIDE DEF c, o
  <2> QED BY <2>3, <2>4
<1>7. Buffer(hdr, from, position, o) =
        IF o \in position .. position + Len(from) - 1 THEN from[o - position + 1] ELSE ReadAt(hdr, 1, o)[1]
  BY <1>1 DEF Buffer
<1> HIDE DEF o, x
<1>8. Buffer(hdr, from, position, o) = IF x \in 1 .. count THEN from[x] ELSE Value(disk, hdr)[p]
  BY <1>4, <1>5, <1>6, <1>7
<1>9. x \in 1 .. count => from[x] = into[x]
  BY <1>2
<1> QED BY <1>3, <1>8, <1>9 DEF Patched, from, o, x

LEMMA DataContents ==
  ASSUME NEW hdr, IsHeader(hdr), NEW into \in Seq(Int), NEW position \in Nat,
         NEW w, w = WriteAt(hdr, into, position), NEW e, e = After(disk, w, Len(w)),
         NEW p \in 1 .. hdr.numBytes
  PROVE  Value(e, hdr)[p] = Patched(hdr, into, position, p)
<1> DEFINE o == p - 1
           q == o \div SectorSize
           r == o % SectorSize
           from == From(hdr, into, position)
           N == divRoundUp(hdr.numBytes, SectorSize)
           s == hdr.dataSectors[q + 1]
<1>1. o \in Nat /\ o < hdr.numBytes /\ hdr.numBytes \in Nat /\ SectorSize \in Nat \ {0}
  BY FileSystemAssumption DEF IsHeader
<1> HIDE DEF o
<1>2. q \in Nat /\ r \in Nat /\ r < SectorSize /\ o = SectorSize * q + r /\ q + 1 \in 1 .. N
  BY <1>1, Division, InsideFile
<1>3. hdr.dataSectors \in [1 .. N -> Sector] /\ IsInjective(hdr.dataSectors) /\ s \in Sector
  BY <1>2 DEF IsHeader
<1>4. Value(e, hdr)[p] = Bytes(e[s])[r + 1] /\ Value(disk, hdr)[p] = Bytes(disk[s])[r + 1]
  BY DEF Value, ByteToSector, o
<1>5. IsWrites(w)
  BY DataShape
<1>6. Buffer(hdr, from, position, o) = Patched(hdr, into, position, p)
  BY BufferIs DEF o
<1> HIDE DEF from, q, r, N, s
<1>7. CASE from = <<>>
  <2>1. w = <<>>
    BY <1>7, NoData DEF from
  <2>2. Misses(w, s) /\ Len(w) \in Nat /\ Len(w) <= Len(w)
    BY <2>1 DEF Misses
  <2>3. e[s] = disk[s]
    <3> DEFINE k == Len(w)
    <3>1. k \in Nat /\ k <= Len(w)
      BY <2>2
    <3> HIDE DEF k
    <3>2. After(disk, w, k)[s] = disk[s]
      BY <1>3, <1>5, <2>2, <3>1, Missed
    <3> QED BY <3>2 DEF k
  <2>4. Buffer(hdr, from, position, o) = ReadAt(hdr, 1, o)[1]
    <3>1. Len(from) = 0
      BY <1>7
    <3>2. o \notin position .. position + Len(from) - 1
      BY <1>1, <3>1
    <3> QED BY <1>1, <3>2 DEF Buffer
  <2>5. ~(p - position \in 1 .. Len(into))
    <3> SUFFICES ASSUME p - position \in 1 .. Len(into) PROVE FALSE
      OBVIOUS
    <3>1. p - position \in Nat \ {0} /\ position + (p - position) <= hdr.numBytes /\ Len(into) \in Nat
      BY <1>1
    <3>2. p - position <= Clipped(hdr, Len(into), position)
      <4> DEFINE x == p - position
      <4>1. x \in Nat \ {0} /\ position + x <= hdr.numBytes /\ Len(into) \in Nat /\ x <= Len(into)
        BY <3>1
      <4> HIDE DEF x
      <4>2. x <= Clipped(hdr, Len(into), position)
        BY <1>1, <4>1, ClippedReach
      <4> QED BY <4>2 DEF x
    <3>3. Clipped(hdr, Len(into), position) = 0
      BY <1>1, <1>7, FromIs DEF from
    <3> QED BY <3>1, <3>2, <3>3
  <2> QED BY <1>4, <2>3, <2>5 DEF Patched
<1>8. CASE from # <<>>
  <2> DEFINE first == FirstSector(position)
             last == LastSector(hdr, into, position)
             n == Len(w)
             count == Clipped(hdr, Len(into), position)
  <2>1. /\ first \in Nat /\ last \in Nat /\ first <= last
        /\ n = last - first + 1
        /\ \A j \in 1 .. n : /\ first + j \in 1 .. N /\ To(w, j) = hdr.dataSectors[first + j]
                             /\ What(w, j) = NewSector(hdr, from, position, first + j - 1)
    <3> HIDE DEF first, last
    <3>1. From(hdr, into, position) # <<>>
      BY <1>8 DEF from
    <3>2. first = FirstSector(position) /\ last = LastSector(hdr, into, position) /\ N = divRoundUp(hdr.numBytes, SectorSize)
      BY DEF first, last, N
    <3>3. /\ first \in Nat /\ last \in Nat /\ first <= last
          /\ Len(w) = last - first + 1
          /\ \A j \in 1 .. Len(w) :
               /\ first + j \in 1 .. N /\ To(w, j) = hdr.dataSectors[first + j]
               /\ What(w, j) = NewSector(hdr, From(hdr, into, position), position, first + j - 1)
      BY <3>1, <3>2, DataRows
    <3> QED BY <3>3 DEF from
  <2>2. count \in Nat /\ count > 0 /\ Len(from) = count /\ Len(from) \in Nat
    <3> HIDE DEF count
    <3>1. count \in Nat /\ (from = <<>> <=> count = 0) /\ Len(from) = count
      BY <1>1, FromIs DEF from, count
    <3> QED BY <3>1, <1>8
  <2>3. CASE first <= q /\ q <= last
    <3> DEFINE j == q - first + 1
    <3>1. j \in Nat /\ 1 <= j /\ j <= n /\ j \in 1 .. n /\ first + j = q + 1 /\ first + j - 1 = q /\ n \in Nat /\ n <= Len(w)
      <4> HIDE DEF first, last
      <4> QED BY <2>1, <2>3, <1>2
    <3> HIDE DEF j, first, last, n
    <3>2. To(w, j) = s /\ What(w, j) = NewSector(hdr, from, position, q)
      BY <2>1, <3>1 DEF s
    <3>3. After(disk, w, n)[To(w, j)] = What(w, j)
      BY <1>5, <3>1, AfterHit
    <3>4. e[s] = NewSector(hdr, from, position, q)
      BY <3>2, <3>3 DEF n
    <3>5. Bytes(e[s])[r + 1] = Buffer(hdr, from, position, q * SectorSize + (r + 1) - 1)
      <4>1. r + 1 \in 1 .. SectorSize
        BY <1>1, <1>2
      <4> QED BY <3>4, <4>1 DEF Bytes, NewSector
    <3>6. q * SectorSize + (r + 1) - 1 = o
      BY <1>1, <1>2
    <3> QED BY <1>4, <1>6, <3>5, <3>6
  <2>4. CASE ~(first <= q /\ q <= last)
    <3>1. ASSUME NEW j \in 1 .. n PROVE To(w, j) # s
      <4>1. first + j # q + 1
        <5> HIDE DEF first, last
        <5> QED BY <2>1, <2>4, <1>2
      <4> HIDE DEF first, last, n
      <4> QED BY <2>1, <1>2, <1>3, <4>1 DEF IsInjective, s
    <3>2. e[s] = disk[s]
      <4> HIDE DEF first, last
      <4>0. Misses(w, s)
        BY <3>1 DEF Misses
      <4>1. n \in Nat /\ n <= Len(w) /\ Misses(w, s)
        BY <2>1, <4>0
      <4> HIDE DEF n
      <4>2. After(disk, w, n)[s] = disk[s]
        BY <1>3, <1>5, <4>1, Missed
      <4> QED BY <4>2 DEF n
    <3>3. o \notin position .. position + count - 1
      <4> SUFFICES ASSUME o \in position .. position + count - 1 PROVE FALSE
        OBVIOUS
      <4> HIDE DEF count
      <4>1. position <= o /\ o <= position + count - 1 /\ position + count - 1 \in Nat
        BY <2>2, <1>1
      <4>2. first <= q
        BY <1>1, <4>1, Monotone DEF FirstSector, q
      <4>3. q <= last
        BY <1>1, <4>1, Monotone DEF LastSector, q, count
      <4> QED BY <2>4, <4>2, <4>3
    <3>4. ~(p - position \in 1 .. Len(into))
      <4> SUFFICES ASSUME p - position \in 1 .. Len(into) PROVE FALSE
        OBVIOUS
      <4> DEFINE x == p - position
      <4>1. x \in Nat \ {0} /\ position + x <= hdr.numBytes /\ Len(into) \in Nat /\ x <= Len(into) /\ o = position + x - 1
        BY <1>1 DEF o
      <4> HIDE DEF x
      <4>2. x <= count
        BY <1>1, <4>1, ClippedReach
      <4> HIDE DEF count
      <4>3. o \in position .. position + count - 1
        BY <4>1, <4>2, <2>2
      <4> QED BY <3>3, <4>3
    <3> QED BY <1>4, <3>2, <3>4 DEF Patched
  <2> QED BY <2>3, <2>4
<1> QED BY <1>7, <1>8

----------------------------------------------------------------------------
(* What the directory promises between two calls.                          *)
LEMMA EmptyKey == Key(<<>>) = <<>>
<1>1. Len(<<>>) = 0 /\ FileNameMaxLen \in Nat
  BY FileSystemAssumption
<1>2. Min({FileNameMaxLen, 0}) = 0
  BY <1>1, MinOfTwo
<1> QED BY <1>1, <1>2 DEF Key

LEMMA KeptAtRest ==
  ASSUME Phase, Contents, writes = <<>>
  PROVE  /\ \A n \in DOMAIN files \ AtRisk : FileHolds(disk, n, files[n]) /\ Key(n) = n
         /\ torn = {} => Named(disk) /\ Listing(TableOf(disk)) = FilesAfter
<1>1. IsDisk(disk) /\ Len(writes) = 0 /\ After(disk, writes, 0) = disk
  BY AfterEmpty DEF Phase
<1>2. Outcoming = disk /\ 0 \in 0 .. Len(writes)
  BY <1>1 DEF Outcoming
<1>3. ASSUME NEW n \in DOMAIN files \ AtRisk PROVE FileHolds(disk, n, files[n]) /\ Key(n) = n
  <2>1. HoldsAlong(disk, writes, n, files[n])
    BY DEF Contents
  <2>2. FileHolds(After(disk, writes, 0), n, files[n])
    BY <1>2, <2>1 DEF HoldsAlong
  <2> QED BY <1>1, <2>2 DEF Contents
<1> QED BY <1>2, <1>3 DEF Contents

LEMMA HoldsRestart ==
  ASSUME NEW d, IsDisk(d), NEW w, w = <<>>, NEW n, NEW bytes
  PROVE  HoldsAlong(d, w, n, bytes) <=> FileHolds(d, n, bytes)
<1>1. Len(w) = 0 /\ After(d, w, 0) = d
  BY AfterEmpty
<1>2. \A k : k \in 0 .. Len(w) <=> k = 0
  BY <1>1
<1> QED BY <1>1, <1>2 DEF HoldsAlong

LEMMA HoldsAdvance ==
  ASSUME NEW d, NEW w, NEW e, NEW t, Advanced(d, w, e, t), NEW n, NEW bytes,
         HoldsAlong(d, w, n, bytes)
  PROVE  HoldsAlong(e, t, n, bytes)
<1> SUFFICES ASSUME NEW k \in 0 .. Len(t) PROVE FileHolds(After(e, t, k), n, bytes)
  BY DEF HoldsAlong
<1>1. k + 1 \in 0 .. Len(w) /\ After(e, t, k) = After(d, w, k + 1)
  BY DEF Advanced
<1> QED BY <1>1 DEF HoldsAlong

LEMMA HoldsAtEnds ==
  ASSUME NEW d, NEW w, IsDisk(d), IsWrites(w), NEW n, NEW bytes, HoldsAlong(d, w, n, bytes)
  PROVE  FileHolds(d, n, bytes) /\ FileHolds(After(d, w, Len(w)), n, bytes)
<1>1. 0 \in 0 .. Len(w) /\ Len(w) \in 0 .. Len(w) /\ After(d, w, 0) = d
  BY AfterNone DEF IsWrites
<1> QED BY <1>1 DEF HoldsAlong

(* A name that the directory lists is found.                               *)
LEMMA ListedFound ==
  ASSUME NEW d, Sound(d), NEW n, Key(n) = n
  PROVE  n \in Listing(TableOf(d)) <=> FindIndex(TableOf(d), n) # -1
<1>1. n \in Listing(TableOf(d)) <=> \E i \in Held(d) : NameOf(d, i) = n
  BY ListingIs
<1> QED BY <1>1, FindIs

LEMMA InitKept == Init => KeptInv
<1> SUFFICES ASSUME Init PROVE KeptInv
  OBVIOUS
<1>1. directoryFile = NoHeader /\ command.kind # "Format"
  BY DEF Init
<1>2. ~Usable /\ ~Formatting
  BY <1>1, Layout DEF Usable, Formatting
<1> QED BY <1>2 DEF KeptInv

LEMMA FormatKept == IInv /\ Format => KeptInv'
<1> SUFFICES ASSUME IInv, Format PROVE KeptInv'
  OBVIOUS
<1>1. command' = [kind |-> "Format", name |-> <<>>, bytes |-> <<>>] /\ writes' = FormatWrites /\ disk' = disk
  BY DEF Format
<1>2. Held(Outcoming') = {}
  BY <1>1, FormatKeeps DEF Outcoming
<1>3. ~Usable'
  BY <1>1 DEF Usable
<1> QED BY <1>2, <1>3 DEF KeptInv

LEMMA MountKept == IInv /\ KeptInv /\ Mount => KeptInv'
<1> SUFFICES ASSUME IInv, KeptInv, Mount PROVE KeptInv'
  OBVIOUS
<1>1. Phase /\ kernel = "off" /\ command = Nothing
  BY DEF IInv, Phase, Mount
<1>2. Usable
  BY <1>1 DEF IInv, Raw, Unfinished, TornFormat, Formatting, Mount, Holds
<1>3. Contents
  BY <1>2 DEF KeptInv
<1>4. /\ disk' = disk /\ command' = command /\ writes' = writes /\ openFile' = openFile
      /\ files' = files /\ torn' = torn
  BY DEF Mount
<1>5. Contents'
  BY <1>3, <1>4 DEF Contents, AtRisk, Outcoming, FilesAfter, Copied
<1>6. ~Formatting'
  BY <1>1, <1>4 DEF Formatting
<1> QED BY <1>5, <1>6 DEF KeptInv

LEMMA StopKept == IInv /\ KeptInv /\ Stop => KeptInv'
<1> SUFFICES ASSUME IInv, KeptInv, Stop PROVE KeptInv'
  OBVIOUS
<1>1. Phase /\ kernel = "up"
  BY DEF IInv, Stop
<1>2. /\ kernel' = "off" /\ torn' = torn \cup ({command} \ {Nothing})
      /\ command' = Nothing /\ writes' = <<>> /\ openFile' = Closed
      /\ disk' = disk /\ freeMapFile' = freeMapFile /\ directoryFile' = directoryFile /\ files' = files
  BY DEF Stop
<1>3. ~Formatting'
  BY <1>2 DEF Formatting
<1> SUFFICES ASSUME Usable' PROVE Contents'
  BY <1>3 DEF KeptInv
<1>4. Usable
  <2>1. ~Formatting
    <3> SUFFICES ASSUME Formatting PROVE FALSE
      OBVIOUS
    <3>1. command \in torn' /\ command.kind = "Format"
      BY <1>2 DEF Formatting
    <3> QED BY <3>1 DEF Usable
  <2> QED BY <1>1, <2>1 DEF IInv, Raw, Unfinished
<1>5. Contents
  BY <1>4 DEF KeptInv
<1>6. AtRisk' = AtRisk
  <2>1. (torn' \cup {command'}) \ {Nothing} = (torn \cup {command}) \ {Nothing}
    BY <1>2
  <2> QED BY <2>1 DEF AtRisk
<1>7. IsDisk(disk) /\ IsWrites(writes)
  BY <1>1 DEF Phase
<1>8. ASSUME NEW n \in DOMAIN files \ AtRisk PROVE HoldsAlong(disk', writes', n, files[n])
  <2>1. HoldsAlong(disk, writes, n, files[n])
    BY <1>5 DEF Contents
  <2>2. FileHolds(disk, n, files[n])
    BY <1>7, <2>1, HoldsAtEnds
  <2> DEFINE w == writes'
             bytes == files[n]
  <2>3. w = <<>>
    BY <1>2
  <2> HIDE DEF w, bytes
  <2>4. HoldsAlong(disk, w, n, bytes)
    BY <1>7, <2>2, <2>3, HoldsRestart DEF bytes
  <2> QED BY <1>2, <2>4 DEF w, bytes
<1>9. \A n \in DOMAIN files' \cup {command'.name} : Key(n) = n
  BY <1>2, <1>5, EmptyKey DEF Contents
<1>10. ASSUME torn' = {} PROVE Named(Outcoming') /\ Listing(TableOf(Outcoming')) = FilesAfter'
  <2>1. torn = {} /\ command = Nothing /\ writes = <<>>
    BY <1>1, <1>2, <1>10 DEF Phase
  <2>2. Named(disk) /\ Listing(TableOf(disk)) = FilesAfter
    BY <1>1, <1>5, <2>1, KeptAtRest
  <2>3. FilesAfter' = FilesAfter
    BY <1>2, <2>1 DEF FilesAfter
  <2>4. Outcoming' = disk
    BY <1>2, <1>7, Restart DEF Outcoming
  <2> QED BY <2>2, <2>3, <2>4
<1> QED BY <1>2, <1>6, <1>8, <1>9, <1>10 DEF Contents

LEMMA WriteSectorKept == IInv /\ KeptInv /\ WriteSector => KeptInv'
<1> SUFFICES ASSUME IInv, KeptInv, WriteSector PROVE KeptInv'
  OBVIOUS
<1>1. Phase /\ kernel = "up" /\ writes # <<>>
  BY DEF IInv, WriteSector
<1>2. disk' = [disk EXCEPT ![Head(writes)[1]] = Head(writes)[2]] /\ writes' = Tail(writes) /\ openFile' = openFile
  BY DEF WriteSector
<1>3. IsDisk(disk) /\ IsWrites(writes) /\ command.kind # "None"
  BY <1>1 DEF Phase
<1> DEFINE e == disk'
           t == writes'
<1>4. Advanced(disk, writes, e, t)
  <2>1. Written(disk, writes, e) /\ t = Tail(writes)
    BY <1>2 DEF Written
  <2> HIDE DEF e, t
  <2> QED BY <2>1, <1>1, <1>3, Advance
<1>5. Outcoming' = Outcoming
  BY <1>4 DEF Outcoming, Advanced
<1> DEFINE last == writes' = <<>> /\ command.kind # "Copy"
<1>6. ~last => command' = command /\ torn' = torn /\ files' = files
  BY DEF WriteSector
<1>7. last => command' = Nothing /\ files' = Outcome /\ torn' = IF command.kind = "Format" THEN {} ELSE torn
  BY DEF WriteSector
<1>8. last => disk' = Outcoming
  <2>1. last => t = <<>> /\ IsDisk(e)
    BY <1>4 DEF Advanced
  <2>2. last => After(e, t, Len(t)) = e
    <3> HIDE DEF e, t, last
    <3> QED BY <2>1, Restart
  <2> QED BY <1>5, <2>2 DEF Outcoming
<1>9. CASE Formatting
  <2>1. command.kind = "Format" /\ Held(Outcoming) = {}
    BY <1>9 DEF Formatting, KeptInv
  <2>2. CASE ~last
    <3>1. ~Usable'
      BY <1>6, <2>1, <2>2 DEF Usable
    <3> QED BY <1>5, <2>1, <3>1 DEF KeptInv
  <2>3. CASE last
    <3>1. command' = Nothing /\ files' = NoFiles /\ torn' = {} /\ ~Formatting'
      BY <1>7, <2>1, <2>3 DEF Outcome, Formatting
    <3>2. DOMAIN files' = {}
      BY <3>1 DEF NoFiles
    <3>3. Named(Outcoming') /\ Listing(TableOf(Outcoming')) = {}
      <4>1. Named(Outcoming)
        BY <2>1 DEF Named
      <4>2. \A n : n \notin Listing(TableOf(Outcoming))
        BY <2>1, ListingIs
      <4> QED BY <1>5, <4>1, <4>2
    <3>4. FilesAfter' = {}
      BY <3>1, <3>2 DEF FilesAfter
    <3>5. Contents'
      BY <3>1, <3>2, <3>3, <3>4, EmptyKey DEF Contents
    <3> QED BY <3>1, <3>5 DEF KeptInv
  <2> QED BY <2>2, <2>3
<1>10. CASE Usable
  <2>1. Contents /\ command.kind \in {"Copy", "Write", "Remove"}
    BY <1>3, <1>1, <1>10 DEF KeptInv, Phase, Usable
  <2>2. ASSUME NEW n \in DOMAIN files \ AtRisk
        PROVE  HoldsAlong(disk', writes', n, files[n]) /\ (last => FileHolds(Outcoming, n, files[n]))
    <3>1. HoldsAlong(disk, writes, n, files[n])
      BY <2>1 DEF Contents
    <3> DEFINE bytes == files[n]
    <3> HIDE DEF e, t, bytes, last
    <3>2. HoldsAlong(e, t, n, bytes)
      BY <1>4, <3>1, HoldsAdvance DEF bytes
    <3>3. FileHolds(After(disk, writes, Len(writes)), n, bytes)
      BY <1>3, <3>1, HoldsAtEnds DEF bytes
    <3> QED BY <3>2, <3>3 DEF e, t, bytes, Outcoming
  <2>3. CASE ~last
    <3>1. command' = command /\ torn' = torn /\ files' = files /\ ~Formatting'
      BY <1>6, <2>1, <2>3 DEF Formatting
    <3>2. AtRisk' = AtRisk /\ FilesAfter' = FilesAfter
      BY <3>1 DEF AtRisk, FilesAfter
    <3>3. command.kind = "Copy" => Copied(Outcoming, HeaderFound(Outcoming, command.name))'
      BY <1>2, <1>5, <2>1, <3>1 DEF Contents, Copied
    <3>4. Contents'
      BY <1>2, <1>5, <2>1, <2>2, <3>1, <3>2, <3>3 DEF Contents, Copied
    <3> QED BY <3>1, <3>4 DEF KeptInv
  <2>4. CASE last
    <3>1. command' = Nothing /\ files' = Outcome /\ torn' = torn /\ ~Formatting' /\ command.kind \in {"Write", "Remove"}
      BY <1>7, <2>1, <2>4 DEF Formatting
    <3>2. AtRisk' \subseteq AtRisk /\ AtRisk \subseteq AtRisk' \cup {command.name}
      BY <3>1 DEF AtRisk
    <3>3. DOMAIN files' = FilesAfter /\ DOMAIN files' \subseteq DOMAIN files
      BY <3>1 DEF FilesAfter, Outcome
    <3>4. \A n \in DOMAIN files' \cup {command'.name} : Key(n) = n
      BY <2>1, <3>1, <3>3, EmptyKey DEF Contents
    <3>5. torn' = {} => Named(Outcoming') /\ Listing(TableOf(Outcoming')) = FilesAfter'
      <4>1. FilesAfter' = DOMAIN files'
        BY <3>1 DEF FilesAfter
      <4> QED BY <1>5, <2>1, <3>1, <3>3, <4>1 DEF Contents
    <3>6. ASSUME NEW n \in DOMAIN files' \ AtRisk' PROVE FileHolds(Outcoming, n, files'[n])
      <4>1. CASE n # command.name
        <5>1. n \in DOMAIN files \ AtRisk /\ files'[n] = files[n]
          BY <3>1, <3>2, <3>3, <4>1 DEF Outcome
        <5> QED BY <2>2, <2>4, <5>1
      <4>2. CASE n = command.name
        <5>1. command.kind = "Write" /\ files'[n] = command.bytes
          BY <3>1, <3>3, <4>2 DEF Outcome
        <5> QED BY <2>1, <4>2, <5>1 DEF Contents
      <4> QED BY <4>1, <4>2
    <3>7. ASSUME NEW n \in DOMAIN files' \ AtRisk' PROVE HoldsAlong(disk', writes', n, files'[n])
      <4>1. FileHolds(e, n, files'[n]) /\ IsDisk(e) /\ t = <<>>
        BY <1>4, <1>8, <2>4, <3>6 DEF Advanced
      <4> DEFINE bytes == files'[n]
      <4> HIDE DEF e, t, bytes
      <4>2. HoldsAlong(e, t, n, bytes)
        BY <4>1, HoldsRestart DEF bytes
      <4> QED BY <4>2 DEF e, t, bytes
    <3>8. Contents'
      BY <3>1, <3>4, <3>5, <3>7 DEF Contents
    <3> QED BY <3>1, <3>8 DEF KeptInv
  <2> QED BY <2>3, <2>4
<1> QED BY <1>1, <1>9, <1>10 DEF IInv, Raw, Unfinished

LEMMA CopyCreatesKept ==
  ASSUME IInv, KeptInv, NEW n \in Name, NEW b \in UnixFile, CopyCreates(n, b)
  PROVE  KeptInv'
<1>1. /\ Idle /\ torn = {} /\ CanCreate(FetchTable, FetchMap, n, Len(b))
      /\ command' = [kind |-> "Copy", name |-> Key(n), bytes |-> b]
      /\ writes' = CreateWrites(FetchTable, FetchMap, n, Len(b))
      /\ disk' = disk /\ openFile' = openFile /\ torn' = torn /\ files' = files
  BY DEF CopyCreates, NoMoreCreates
<1>2. b \in Seq(Int) /\ Key(Key(n)) = Key(n)
  BY FileSystemAssumption, KeyTwice
<1>3. Phase /\ Usable /\ Contents /\ writes = <<>> /\ openFile = Closed
  BY <1>1, IdleUsable DEF KeptInv
<1>4. Sound(disk) /\ FetchTable = TableOf(disk)
  BY <1>3, AtRest
<1>5. AtRisk = {} /\ AtRisk' = {Key(n)}
  BY <1>1 DEF AtRisk
<1>6. /\ \A m \in DOMAIN files : FileHolds(disk, m, files[m]) /\ Key(m) = m
      /\ Named(disk) /\ Listing(TableOf(disk)) = DOMAIN files
  BY <1>1, <1>3, <1>5, KeptAtRest DEF FilesAfter
<1> DEFINE w == writes'
<1>7. PICK i, sector, hdr : CreateBegins(disk, w, i, n, sector, hdr) /\ hdr.numBytes = Len(b)
  BY <1>1, <1>2, CreateStarts
<1>8. IsWrites(w) /\ Len(w) \in Nat
  BY <1>7 DEF CreateBegins, IsWrites
<1> HIDE DEF w
<1>9. ASSUME NEW m \in DOMAIN files, m # Key(n) PROVE HoldsAlong(disk, w, m, files[m])
  <2> DEFINE bytes == files[m]
  <2>1. FileHolds(disk, m, bytes) /\ Key(n) # Key(m)
    BY <1>6, <1>9
  <2> HIDE DEF bytes
  <2>2. ASSUME NEW k \in 0 .. Len(w) PROVE FileHolds(After(disk, w, k), m, bytes)
    <3>1. k \in Nat /\ k <= Len(w)
      BY <1>8
    <3> QED BY <1>6, <1>7, <2>1, <3>1, CreateHolds
  <2>3. HoldsAlong(disk, w, m, bytes)
    BY <2>2 DEF HoldsAlong
  <2> QED BY <2>3 DEF bytes
<1>10. \A j \in Held(disk) : NameOf(disk, j) # Key(n)
  BY <1>1, <1>4, FindIs DEF CanCreate
<1> DEFINE e == After(disk, w, Len(w))
<1>11. /\ Named(e) /\ Listing(TableOf(e)) = DOMAIN files \cup {Key(n)}
       /\ HeaderFound(e, Key(n)) = hdr
  BY <1>2, <1>6, <1>7, <1>10, CreateNamed
<1>12. Outcoming' = e
  BY <1>1 DEF Outcoming, w
<1> HIDE DEF e
<1>13. FilesAfter' = DOMAIN files \cup {Key(n)}
  BY <1>1 DEF FilesAfter
<1>14. Copied(Outcoming, HeaderFound(Outcoming, command.name))'
  BY <1>1, <1>3, <1>7, <1>11, <1>12 DEF Copied
<1>15. \A m \in DOMAIN files' \cup {command'.name} : Key(m) = m
  BY <1>1, <1>2, <1>6
<1>16. \A m \in DOMAIN files' \ AtRisk' : HoldsAlong(disk', writes', m, files'[m])
  BY <1>1, <1>5, <1>9 DEF w
<1>17. Contents'
  BY <1>1, <1>11, <1>12, <1>13, <1>14, <1>15, <1>16 DEF Contents
<1> QED BY <1>1, <1>17 DEF KeptInv, Formatting

LEMMA CopyOpensKept == IInv /\ KeptInv /\ CopyOpens => KeptInv'
<1> SUFFICES ASSUME IInv, KeptInv, CopyOpens PROVE KeptInv'
  OBVIOUS
<1>1. command.kind = "Copy" /\ writes = <<>> /\ openFile = Closed
  BY DEF CopyOpens
<1>2. /\ openFile' = [hdr |-> FetchHeader(Find(FetchTable, command.name)), seekPosition |-> 0]
      /\ disk' = disk /\ command' = command /\ writes' = writes /\ torn' = torn /\ files' = files
  BY DEF CopyOpens, Opened
<1>3. /\ Phase /\ Usable /\ Contents /\ Outcoming = disk /\ Sound(disk) /\ FetchTable = TableOf(disk)
  BY <1>1, CopyUsable DEF KeptInv
<1>4. Find(TableOf(disk), command.name) # -1
  BY <1>1, <1>3 DEF Usable
<1>5. openFile'.hdr = HeaderFound(disk, command.name) /\ openFile'.seekPosition = 0
  BY <1>2, <1>3, <1>4, FindIs DEF Header, FetchHeader, HeaderFound
<1>6. Outcoming' = disk /\ FilesAfter' = FilesAfter /\ AtRisk' = AtRisk
  BY <1>2, <1>3 DEF Outcoming, FilesAfter, AtRisk
<1>7. HeaderFound(disk, command.name).numBytes = Len(command.bytes) /\ Len(command.bytes) \in Nat
  BY <1>1, <1>3 DEF Contents, Copied, Phase
<1>8. Copied(Outcoming, HeaderFound(Outcoming, command.name))'
  BY <1>2, <1>5, <1>6, <1>7 DEF Copied
<1>9. Contents'
  BY <1>1, <1>2, <1>3, <1>6, <1>8 DEF Contents
<1> QED BY <1>1, <1>2, <1>9 DEF KeptInv, Formatting

IsPart(s, b, p, m) == s = SubSeq(b, p + 1, m)
LEMMA Part ==
  ASSUME NEW b, NEW p \in Nat, NEW m \in Nat, p <= m, NEW s, IsPart(s, b, p, m)
  PROVE  Len(s) = m - p /\ s = [k \in 1 .. m - p |-> b[p + k]]
<1> DEFINE S == {b[x] : x \in p + 1 .. m}
<1>1. p + 1 \in Int /\ m \in Int /\ \A x \in p + 1 .. m : b[x] \in S
  OBVIOUS
<1> HIDE DEF S
<1>2. /\ s \in Seq(S) /\ Len(s) = IF p + 1 <= m THEN m - (p + 1) + 1 ELSE 0
      /\ \A k \in 1 .. m - (p + 1) + 1 : s[k] = b[p + 1 + k - 1]
  BY <1>1, SubSeqProperties DEF IsPart
<1>3. Len(s) = m - p /\ m - (p + 1) + 1 = m - p
  BY <1>1, <1>2
<1>4. \A k \in 1 .. m - p : s[k] = b[p + k]
  <2> SUFFICES ASSUME NEW k \in 1 .. m - p PROVE s[k] = b[p + k]
    OBVIOUS
  <2>1. p + 1 + k - 1 = p + k
    BY <1>1
  <2> QED BY <1>2, <1>3, <2>1
<1>5. s = [k \in 1 .. Len(s) |-> s[k]]
  BY <1>2, LenProperties
<1> QED BY <1>3, <1>4, <1>5

(* The bytes that one Write of a Copy takes from the UNIX file.            *)
IsChunk(chunk, b, position) ==
  chunk = SubSeq(b, position + 1, Min({position + TransferSize, Len(b)})) /\ chunk # <<>>
LEMMA ChunkIs ==
  ASSUME NEW b, b \in Seq(Int), NEW position \in Nat, position <= Len(b),
         NEW chunk, IsChunk(chunk, b, position)
  PROVE  /\ chunk \in Seq(Int) /\ Len(chunk) \in Nat \ {0} /\ position + Len(chunk) <= Len(b)
         /\ \A k \in 1 .. Len(chunk) : chunk[k] = b[position + k]
<1> DEFINE m == Min({position + TransferSize, Len(b)})
<1>1. TransferSize \in Nat /\ Len(b) \in Nat
  BY FileSystemAssumption
<1>2. m = IF position + TransferSize <= Len(b) THEN position + TransferSize ELSE Len(b)
  BY <1>1, MinOfTwo
<1>3. chunk \in Seq(Int) /\ chunk = SubSeq(b, position + 1, m) /\ chunk # <<>>
  BY Chunk DEF IsChunk
<1> HIDE DEF m
<1>4. m \in Nat /\ m <= Len(b) /\ position <= m
  BY <1>1, <1>2
<1>5. Len(chunk) = m - position /\ chunk = [k \in 1 .. m - position |-> b[position + k]]
  <2>1. IsPart(chunk, b, position, m)
    BY <1>3 DEF IsPart
  <2> QED BY <1>4, <2>1, Part
<1>6. Len(chunk) \in Nat \ {0}
  BY <1>3, EmptySeq
<1>7. \A k \in 1 .. Len(chunk) : chunk[k] = b[position + k]
  BY <1>5
<1>8. position + Len(chunk) <= Len(b)
  <2> DEFINE n == Len(chunk)
             N == Len(b)
  <2>1. n = m - position /\ N \in Nat /\ m <= N
    BY <1>1, <1>4, <1>5
  <2> HIDE DEF n, N
  <2>2. position + n <= N
    BY <1>4, <2>1
  <2> QED BY <2>2 DEF n, N
<1> QED BY <1>3, <1>6, <1>7, <1>8

LEMMA WholeClipped ==
  ASSUME NEW hdr, hdr.numBytes \in Nat, NEW n \in Nat \ {0}, NEW position \in Nat,
         position + n <= hdr.numBytes
  PROVE  Clipped(hdr, n, position) = n
<1>1. /\ Clipped(hdr, n, position) \in Nat /\ Clipped(hdr, n, position) <= n
  BY ClippedLength
<1>2. n <= Clipped(hdr, n, position)
  BY ClippedReach
<1> QED BY <1>1, <1>2

(* What a call that writes into the file of entry i leaves of the others.  *)
LEMMA OthersHold ==
  ASSUME NEW d, NEW w, NEW i, DataBegins(d, w, i), NEW n, NEW bytes, FileHolds(d, n, bytes),
         NameOf(d, i) # Key(n)
  PROVE  HoldsAlong(d, w, n, bytes)
<1>1. Len(w) \in Nat
  BY DEF DataBegins, IsWrites
<1> SUFFICES ASSUME NEW k \in 0 .. Len(w) PROVE FileHolds(After(d, w, k), n, bytes)
  BY DEF HoldsAlong
<1>2. k \in Nat /\ k <= Len(w)
  BY <1>1
<1> QED BY <1>2, DataHolds

LEMMA CopyWritesKept == IInv /\ KeptInv /\ CopyWrites => KeptInv'
<1> SUFFICES ASSUME IInv, KeptInv, CopyWrites PROVE KeptInv'
  OBVIOUS
<1> DEFINE position == openFile.seekPosition
           bytes == command.bytes
           chunk == SubSeq(bytes, position + 1, Min({position + TransferSize, Len(bytes)}))
           hdr == openFile.hdr
           name == command.name
<1>1. command.kind = "Copy" /\ writes = <<>> /\ openFile # Closed /\ chunk # <<>>
  BY DEF CopyWrites
<1>2. /\ writes' = WriteAt(hdr, chunk, position)
      /\ openFile' = [openFile EXCEPT !.seekPosition = @ + Clipped(hdr, Len(chunk), position)]
      /\ disk' = disk /\ command' = command /\ torn' = torn /\ files' = files
  BY DEF CopyWrites
<1>3. /\ Phase /\ Usable /\ Contents /\ torn = {} /\ Outcoming = disk /\ Sound(disk)
      /\ bytes \in Seq(Int) /\ Len(bytes) \in Nat
  BY <1>1, CopyUsable DEF KeptInv, Phase
<1>4. openFile = [hdr |-> hdr, seekPosition |-> position] /\ position \in Nat
  BY <1>1, <1>3 DEF Phase
<1>5. /\ hdr = HeaderFound(disk, name) /\ hdr.numBytes = Len(bytes) /\ position <= Len(bytes)
      /\ \A p \in 1 .. position : Value(disk, hdr)[p] = bytes[p]
  BY <1>1, <1>3 DEF Contents, Copied
<1> DEFINE i == FindIndex(TableOf(disk), name)
<1>6. AtRisk = {name} /\ AtRisk' = {name} /\ FilesAfter = DOMAIN files \cup {name} /\ FilesAfter' = FilesAfter
  BY <1>1, <1>2, <1>3 DEF AtRisk, FilesAfter
<1>7. Named(disk) /\ Listing(TableOf(disk)) = FilesAfter /\ Key(name) = name
  BY <1>1, <1>3, KeptAtRest DEF Contents
<1>8. i \in Held(disk) /\ NameOf(disk, i) = name /\ hdr = Header(disk, i)
  <2>1. i # -1
    BY <1>3, <1>6, <1>7, ListedFound
  <2> QED BY <1>3, <1>5, <1>7, <2>1, FindIs DEF HeaderFound
<1>9. IsHeader(hdr)
  BY <1>3, <1>8 DEF Sound, FileSound
<1> HIDE DEF i, position, bytes, hdr, name, chunk
<1>10. /\ chunk \in Seq(Int) /\ Len(chunk) \in Nat \ {0} /\ position + Len(chunk) <= Len(bytes)
       /\ \A k \in 1 .. Len(chunk) : chunk[k] = bytes[position + k]
  <2>1. IsChunk(chunk, bytes, position)
    BY <1>1 DEF IsChunk, chunk
  <2> QED BY <2>1, <1>3, <1>4, <1>5, ChunkIs
<1>11. Clipped(hdr, Len(chunk), position) = Len(chunk)
  BY <1>3, <1>4, <1>5, <1>10, WholeClipped
<1>12. openFile' = [hdr |-> hdr, seekPosition |-> position + Len(chunk)]
  BY <1>2, <1>4, <1>11 DEF position
<1> DEFINE w == writes'
           e == After(disk, w, Len(w))
<1>13. DataBegins(disk, w, i)
  BY <1>2, <1>3, <1>4, <1>8, <1>10, DataStarts
<1>14. TableOf(e) = TableOf(disk) /\ Header(e, i) = hdr
  <2>1. Len(w) \in Nat
    BY <1>13 DEF DataBegins, IsWrites
  <2> QED BY <1>8, <1>13, <2>1, DataKeeps DEF SameEntry
<1>15. Outcoming' = e
  BY <1>2 DEF Outcoming
<1>16. \A p \in 1 .. Len(bytes) : Value(e, hdr)[p] = Patched(hdr, chunk, position, p)
  BY <1>2, <1>4, <1>5, <1>9, <1>10, DataContents
<1>17. ASSUME NEW m \in DOMAIN files, m # name PROVE HoldsAlong(disk, w, m, files[m])
  <2> DEFINE v == files[m]
  <2>1. FileHolds(disk, m, v) /\ Key(m) = m
    BY <1>1, <1>3, <1>6, <1>17, KeptAtRest
  <2> HIDE DEF v, w
  <2>2. HoldsAlong(disk, w, m, v)
    BY <1>8, <1>13, <1>17, <2>1, OthersHold
  <2> QED BY <2>2 DEF v
<1> HIDE DEF e, w
<1>18. Named(e) /\ Listing(TableOf(e)) = FilesAfter' /\ HeaderFound(e, name) = hdr
  BY <1>6, <1>7, <1>14, DataNamed DEF HeaderFound, i
<1>19. ASSUME NEW p \in 1 .. position + Len(chunk) PROVE Value(e, hdr)[p] = bytes[p]
  <2>1. p \in 1 .. Len(bytes) /\ p \in Nat
    BY <1>4, <1>10
  <2>2. Value(e, hdr)[p] = Patched(hdr, chunk, position, p)
    BY <1>16, <2>1
  <2>3. CASE p <= position
    <3>1. p - position \notin 1 .. Len(chunk) /\ p \in 1 .. position
      BY <1>4, <1>10, <2>1, <2>3
    <3> QED BY <1>5, <2>2, <3>1 DEF Patched
  <2>4. CASE ~(p <= position)
    <3>1. p - position \in 1 .. Len(chunk) /\ position + (p - position) = p
      BY <1>4, <1>10, <2>1, <2>4
    <3>2. chunk[p - position] = bytes[p]
      BY <1>10, <3>1
    <3> QED BY <2>2, <3>1, <3>2 DEF Patched
  <2> QED BY <2>3, <2>4
<1>20. Copied(Outcoming, HeaderFound(Outcoming, command.name))'
  <2>1. openFile'.hdr = hdr /\ openFile'.seekPosition = position + Len(chunk)
    BY <1>12
  <2>2. command' = command /\ command.bytes = bytes /\ command.name = name
    BY <1>2 DEF bytes, name
  <2>3. HeaderFound(Outcoming', command.name) = hdr
    BY <1>15, <1>18, <2>2
  <2> QED BY <1>5, <1>10, <1>15, <1>19, <2>1, <2>2, <2>3 DEF Copied
<1>21. \A m \in DOMAIN files' \ AtRisk' : HoldsAlong(disk', writes', m, files'[m])
  BY <1>2, <1>6, <1>17 DEF w
<1>22. Contents'
  BY <1>1, <1>2, <1>3, <1>15, <1>18, <1>20, <1>21 DEF Contents
<1> QED BY <1>1, <1>2, <1>22 DEF KeptInv, Formatting

LEMMA CopyEndsKept == IInv /\ KeptInv /\ CopyEnds => KeptInv'
<1> SUFFICES ASSUME IInv, KeptInv, CopyEnds PROVE KeptInv'
  OBVIOUS
<1> DEFINE bytes == command.bytes
           name == command.name
           hdr == HeaderFound(disk, name)
<1>1. command.kind = "Copy" /\ writes = <<>> /\ openFile # Closed /\ openFile.seekPosition = Len(bytes)
  BY DEF CopyEnds
<1>2. /\ openFile' = Closed /\ command' = Nothing /\ disk' = disk /\ writes' = writes /\ torn' = torn
      /\ files' = [n \in DOMAIN files \cup {name} |-> IF n = name THEN bytes ELSE files[n]]
  BY DEF CopyEnds
<1>3. /\ Phase /\ Usable /\ Contents /\ torn = {} /\ Outcoming = disk /\ Sound(disk) /\ IsDisk(disk)
      /\ bytes \in Seq(Int)
  BY <1>1, CopyUsable DEF KeptInv, Phase
<1>4. hdr.numBytes = Len(bytes) /\ \A p \in 1 .. Len(bytes) : Value(disk, hdr)[p] = bytes[p]
  BY <1>1, <1>3 DEF Contents, Copied
<1>5. AtRisk = {name} /\ AtRisk' = {} /\ FilesAfter = DOMAIN files \cup {name} /\ FilesAfter' = FilesAfter
  BY <1>1, <1>2, <1>3 DEF AtRisk, FilesAfter
<1>6. Named(disk) /\ Listing(TableOf(disk)) = FilesAfter /\ Key(name) = name
  BY <1>1, <1>3, KeptAtRest DEF Contents
<1>7. FindIndex(TableOf(disk), name) # -1
  BY <1>3, <1>5, <1>6, ListedFound
<1>8. Value(disk, hdr) = bytes
  <2> HIDE DEF hdr, bytes
  <2>1. Value(disk, hdr) = [p \in 1 .. Len(bytes) |-> Value(disk, hdr)[p]]
    BY <1>4 DEF Value
  <2>2. bytes = [p \in 1 .. Len(bytes) |-> bytes[p]]
    BY <1>3
  <2> QED BY <1>4, <2>1, <2>2
<1>9. FileHolds(disk, name, bytes)
  BY <1>7, <1>8 DEF FileHolds
<1>10. ASSUME NEW n \in DOMAIN files' PROVE HoldsAlong(disk', writes', n, files'[n])
  <2> DEFINE v == files'[n]
  <2>1. FileHolds(disk, n, v)
    <3>1. CASE n = name
      BY <1>2, <1>9, <3>1
    <3>2. CASE n # name
      <4>1. n \in DOMAIN files \ AtRisk /\ files'[n] = files[n]
        BY <1>2, <1>5, <3>2
      <4> QED BY <1>1, <1>3, <4>1, KeptAtRest
    <3> QED BY <3>1, <3>2
  <2> HIDE DEF v
  <2>2. HoldsAlong(disk, writes, n, v)
    BY <1>1, <1>3, <2>1, HoldsRestart
  <2> QED BY <1>2, <2>2 DEF v
<1>11. Outcoming' = disk
  BY <1>2, <1>3 DEF Outcoming
<1>12. \A n \in DOMAIN files' \cup {command'.name} : Key(n) = n
  BY <1>2, <1>3, <1>6, EmptyKey DEF Contents
<1>13. Contents'
  BY <1>2, <1>5, <1>6, <1>10, <1>11, <1>12 DEF Contents
<1> QED BY <1>2, <1>13 DEF KeptInv, Formatting

LEMMA OverlaidIs ==
  ASSUME NEW hdr, hdr.numBytes \in Nat, NEW v, v = Value(disk, hdr), NEW p
  PROVE  Overlaid(v, p) = [q \in 1 .. hdr.numBytes |-> Patched(hdr, p.bytes, p.position, q)]
<1> DEFINE N == hdr.numBytes
           byte(q) == Bytes(disk[ByteToSector(hdr, q - 1)])[((q - 1) % SectorSize) + 1]
<1>1. v = [q \in 1 .. N |-> byte(q)]
  BY DEF Value
<1> HIDE DEF N, byte
<1>2. N \in Nat
  BY DEF N
<1>3. Len(v) = N
  BY <1>1, <1>2
<1>4. Overlaid(v, p) = [q \in 1 .. N |-> IF q - p.position \in 1 .. Len(p.bytes) THEN p.bytes[q - p.position] ELSE v[q]]
  BY <1>3 DEF Overlaid
<1> QED BY <1>4 DEF Patched, N

LEMMA SeekAndWriteKept ==
  ASSUME IInv, KeptInv, NEW n \in Name, NEW p \in Patch, SeekAndWrite(n, p)
  PROVE  KeptInv'
<1> DEFINE name == Key(n)
           i == FindIndex(TableOf(disk), n)
           hdr == Header(disk, i)
           bytes == Overlaid(files[name], p)
           w == writes'
           e == After(disk, w, Len(w))
<1>1. /\ Idle /\ torn = {} /\ Find(FetchTable, n) # -1
      /\ writes' = WriteAt(Opened(n).hdr, p.bytes, p.position)
      /\ command' = [kind |-> "Write", name |-> name, bytes |-> bytes]
      /\ disk' = disk /\ openFile' = openFile /\ torn' = torn /\ files' = files
  BY DEF SeekAndWrite
<1>2. Phase /\ Usable /\ Contents /\ writes = <<>> /\ openFile = Closed
  BY <1>1, IdleUsable DEF KeptInv
<1>3. Sound(disk) /\ FetchTable = TableOf(disk)
  BY <1>2, AtRest
<1>4. i \in Held(disk) /\ NameOf(disk, i) = name /\ Opened(n).hdr = hdr
  BY <1>1, <1>3, FindIs DEF Opened, FetchHeader, Header
<1>5. p.bytes \in Seq(Int) /\ p.position \in Nat /\ Key(name) = name
  BY FileSystemAssumption, KeyTwice
<1>6. FindIndex(TableOf(disk), name) = i
  BY <1>5 DEF FindIndex
<1>7. AtRisk = {} /\ AtRisk' = {name} /\ FilesAfter = DOMAIN files /\ FilesAfter' = DOMAIN files
  BY <1>1 DEF AtRisk, FilesAfter
<1>8. /\ \A m \in DOMAIN files : FileHolds(disk, m, files[m]) /\ Key(m) = m
      /\ Named(disk) /\ Listing(TableOf(disk)) = DOMAIN files
  BY <1>1, <1>2, <1>7, KeptAtRest
<1>9. name \in DOMAIN files
  BY <1>4, <1>8, ListingIs
<1>10. IsHeader(hdr)
  BY <1>3, <1>4 DEF Sound, FileSound
<1> HIDE DEF name, i, hdr
<1>11. w = WriteAt(hdr, p.bytes, p.position)
  BY <1>1, <1>4
<1> HIDE DEF w
<1>12. DataBegins(disk, w, i)
  BY <1>3, <1>4, <1>5, <1>11, DataStarts DEF hdr
<1>13. TableOf(e) = TableOf(disk) /\ Header(e, i) = hdr
  <2>1. Len(w) \in Nat
    BY <1>12 DEF DataBegins, IsWrites
  <2> QED BY <1>4, <1>12, <2>1, DataKeeps DEF SameEntry, hdr
<1>14. Outcoming' = e
  BY <1>1 DEF Outcoming, w
<1>15. \A q \in 1 .. hdr.numBytes : Value(e, hdr)[q] = Patched(hdr, p.bytes, p.position, q)
  BY <1>5, <1>10, <1>11, DataContents
<1>16. ASSUME NEW m \in DOMAIN files, m # name PROVE HoldsAlong(disk, w, m, files[m])
  <2> DEFINE v == files[m]
  <2>1. FileHolds(disk, m, v) /\ Key(m) = m
    BY <1>8
  <2> HIDE DEF v
  <2>2. HoldsAlong(disk, w, m, v)
    BY <1>4, <1>12, <1>16, <2>1, OthersHold
  <2> QED BY <2>2 DEF v
<1> HIDE DEF e
<1>17. Named(e) /\ Listing(TableOf(e)) = FilesAfter'
  BY <1>7, <1>8, <1>13, DataNamed
<1>18. FindIndex(TableOf(e), name) = i /\ i # -1
  <2>1. i # -1
    BY <1>4 DEF Held, Entry
  <2> QED BY <1>6, <1>13, <2>1
<1>19. files[name] = Value(disk, hdr)
  BY <1>6, <1>8, <1>9 DEF FileHolds, HeaderFound, hdr
<1>20. Value(e, hdr) = bytes
  <2>1. hdr.numBytes \in Nat
    BY <1>10 DEF IsHeader
  <2>2. bytes = [q \in 1 .. hdr.numBytes |-> Patched(hdr, p.bytes, p.position, q)]
    BY <1>19, <2>1, OverlaidIs
  <2>3. Value(e, hdr) = [q \in 1 .. hdr.numBytes |-> Value(e, hdr)[q]]
    BY DEF Value
  <2> HIDE DEF bytes
  <2> QED BY <1>15, <2>2, <2>3
<1>21. FileHolds(e, name, bytes)
  BY <1>13, <1>18, <1>20 DEF FileHolds, HeaderFound
<1>22. \A m \in DOMAIN files' \ AtRisk' : HoldsAlong(disk', writes', m, files'[m])
  BY <1>1, <1>7, <1>16 DEF w
<1> HIDE DEF bytes
<1>23. FileHolds(Outcoming', command'.name, command'.bytes) /\ command'.name \in DOMAIN files'
  BY <1>1, <1>9, <1>14, <1>21
<1>24. \A m \in DOMAIN files' \cup {command'.name} : Key(m) = m
  BY <1>1, <1>5, <1>8
<1>25. Contents'
  BY <1>1, <1>14, <1>17, <1>22, <1>23, <1>24 DEF Contents
<1> QED BY <1>1, <1>25 DEF KeptInv, Formatting

LEMMA RemoveFileKept ==
  ASSUME IInv, KeptInv, NEW n \in Name, RemoveFile(n)
  PROVE  KeptInv'
<1> DEFINE sector == Find(FetchTable, n)
           marked == Removable(n)
           i == FindIndex(TableOf(disk), n)
           name == Key(n)
<1>1. /\ Idle /\ sector # -1
      /\ disk' = disk /\ openFile' = openFile /\ torn' = torn /\ files' = files
  BY DEF RemoveFile
<1>2. marked => /\ command' = [kind |-> "Remove", name |-> name, bytes |-> <<>>]
                /\ writes' = RemoveWrites(FetchTable, FetchMap, n)
  BY DEF RemoveFile
<1>3. ~marked => command' = command /\ writes' = writes
  BY DEF RemoveFile
<1>4. Phase /\ Usable /\ Contents /\ writes = <<>> /\ openFile = Closed
  BY <1>1, IdleUsable DEF KeptInv
<1>5. Sound(disk) /\ FetchTable = TableOf(disk)
  BY <1>4, AtRest
<1>6. NameOf(disk, i) = name /\ Key(name) = name
  BY <1>1, <1>5, FindIs, FileSystemAssumption, KeyTwice
<1>7. /\ \A m \in DOMAIN files \ AtRisk : FileHolds(disk, m, files[m]) /\ Key(m) = m
      /\ torn = {} => Named(disk) /\ Listing(TableOf(disk)) = DOMAIN files
  BY <1>1, <1>4, KeptAtRest DEF FilesAfter
<1>8. ~marked => KeptInv'
  <2> HIDE DEF marked
  <2> SUFFICES ASSUME ~marked PROVE KeptInv'
    OBVIOUS
  <2>1. command' = command /\ writes' = writes
    BY <1>3
  <2>2. Contents'
    BY <1>1, <1>4, <2>1 DEF Contents, AtRisk, Outcoming, FilesAfter, Copied
  <2> QED BY <1>1, <2>1, <2>2 DEF KeptInv, Formatting
<1>9. marked => KeptInv'
  <2> HIDE DEF marked
  <2> SUFFICES ASSUME marked PROVE KeptInv'
    OBVIOUS
  <2> DEFINE w == writes'
             e == After(disk, w, Len(w))
  <2>1. RemoveBegins(disk, w, i)
    BY <1>1, <1>2, RemoveStarts
  <2> HIDE DEF i, name, sector
  <2>2. command' = [kind |-> "Remove", name |-> name, bytes |-> <<>>]
    BY <1>2
  <2>3. AtRisk \subseteq AtRisk' /\ name \in AtRisk'
    <3>1. (torn \cup {command}) \ {Nothing} \subseteq (torn' \cup {command'}) \ {Nothing}
      BY <1>1
    <3>2. command' \in (torn' \cup {command'}) \ {Nothing} /\ command'.name = name
      BY <2>2
    <3> QED BY <3>1, <3>2 DEF AtRisk
  <2>4. Outcoming' = e
    BY <1>1 DEF Outcoming
  <2>5. IsWrites(w) /\ Len(w) \in Nat
    BY <2>1 DEF RemoveBegins, IsWrites
  <2> HIDE DEF w
  <2>6. ASSUME NEW m \in DOMAIN files \ AtRisk' PROVE HoldsAlong(disk, w, m, files[m])
    <3> DEFINE v == files[m]
    <3>1. FileHolds(disk, m, v) /\ NameOf(disk, i) # Key(m)
      BY <1>6, <1>7, <2>3, <2>6
    <3> HIDE DEF v
    <3>2. ASSUME NEW k \in 0 .. Len(w) PROVE FileHolds(After(disk, w, k), m, v)
      <4>1. k \in Nat /\ k <= Len(w)
        BY <2>5
      <4> QED BY <2>1, <3>1, <4>1, RemoveHolds
    <3>3. HoldsAlong(disk, w, m, v)
      BY <3>2 DEF HoldsAlong
    <3> QED BY <3>3 DEF v
  <2>7. ASSUME torn = {} PROVE Named(e) /\ Listing(TableOf(e)) = DOMAIN files \ {name}
    BY <1>6, <1>7, <2>1, <2>7, RemoveNamed
  <2> HIDE DEF e
  <2>8. FilesAfter' = DOMAIN files \ {name}
    BY <1>1, <2>2 DEF FilesAfter
  <2>9. \A m \in DOMAIN files' \cup {command'.name} : Key(m) = m
    BY <1>1, <1>4, <1>6, <2>2 DEF Contents
  <2>10. \A m \in DOMAIN files' \ AtRisk' : HoldsAlong(disk', writes', m, files'[m])
    BY <1>1, <2>6 DEF w
  <2>11. torn' = {} => Named(Outcoming') /\ Listing(TableOf(Outcoming')) = FilesAfter'
    BY <1>1, <2>4, <2>7, <2>8
  <2>12. Contents'
    BY <2>2, <2>9, <2>10, <2>11 DEF Contents
  <2> QED BY <2>2, <2>12 DEF KeptInv, Formatting
<1> QED BY <1>8, <1>9

LEMMA StepKept == IInv /\ KeptInv /\ [Next]_vars => KeptInv'
<1> SUFFICES ASSUME IInv, KeptInv, [Next]_vars PROVE KeptInv'
  OBVIOUS
<1>1. CASE Next
  BY <1>1, FormatKept, MountKept, StopKept, WriteSectorKept, CopyOpensKept, CopyWritesKept,
     CopyEndsKept, RemoveFileKept, CopyCreatesKept, SeekAndWriteKept DEF Next
<1>2. CASE UNCHANGED vars
  BY <1>2 DEF vars, KeptInv, Formatting, Usable, Clean, Contents, AtRisk, Outcoming, FilesAfter, Copied
<1> QED BY <1>1, <1>2

(* At every instant of every call each file holds what it should, except   *)
(* the one that the call is about and those that a stop left torn; and a   *)
(* call that creates or writes a file ends with its bytes in it.           *)
THEOREM ContentsSound == Spec => [](IInv /\ KeptInv)
BY InitHolds, InitKept, StepHolds, StepKept, PTL DEF Spec

(* The k-th of the chunks that a Copy or a Print takes begins in the file. *)
LEMMA BeforeEnd ==
  ASSUME NEW N \in Nat, NEW T \in Nat \ {0}, NEW k \in 1 .. divRoundUp(N, T)
  PROVE  (k - 1) * T \in Nat /\ k * T = (k - 1) * T + T /\ (k - 1) * T < N
<1> DEFINE a == N + T - 1
           q == a \div T
           p == k - 1
<1>1. a \in Nat
  OBVIOUS
<1> HIDE DEF a
<1>2. q \in Nat /\ a % T < T /\ a % T \in Nat /\ a = T * q + (a % T)
  BY <1>1, Division
<1>3. q = divRoundUp(N, T)
  BY DEF divRoundUp, a
<1> HIDE DEF q
<1>4. p \in Nat /\ p < q /\ k = p + 1
  BY <1>2, <1>3
<1> HIDE DEF p
<1>5. T * p + T <= T * q /\ T * p \in Nat /\ T * q \in Nat /\ p * T = T * p
  BY <1>2, <1>4, Further
<1> DEFINE r == a % T
           x == T * q
           y == T * p
<1>6. r \in Nat /\ x \in Nat /\ y \in Nat /\ y + T <= x /\ a = x + r /\ a = N + T - 1
  BY <1>2, <1>5 DEF a
<1> HIDE DEF r, x, y
<1>7. y < N
  BY <1>6
<1>8. k * T = T * p + T
  BY <1>4
<1> QED BY <1>5, <1>6, <1>7, <1>8 DEF y, p

LEMMA PrintedIs ==
  ASSUME NEW hdr, hdr.numBytes \in Nat, NEW bytes, Value(disk, hdr) = bytes
  PROVE  Printed(hdr) = Chunks(bytes)
<1> DEFINE N == hdr.numBytes
           T == TransferSize
           n == divRoundUp(N, T)
           chunk(k) == SubSeq(bytes, (k - 1) * T + 1, Min({k * T, N}))
<1>1. T \in Nat \ {0} /\ N \in Nat
  BY FileSystemAssumption
<1>2. Len(bytes) = N
  BY DEF Value
<1>3. Printed(hdr) = [k \in 1 .. n |-> ReadAt(hdr, T, (k - 1) * T)]
  BY DEF Printed
<1>4. Chunks(bytes) = [k \in 1 .. n |-> chunk(k)]
  BY <1>2 DEF Chunks
<1> HIDE DEF N, T, n, chunk
<1>5. ASSUME NEW k \in 1 .. n PROVE ReadAt(hdr, T, (k - 1) * T) = chunk(k)
  <2> DEFINE p == (k - 1) * T
             m == Min({k * T, N})
  <2>1. p \in Nat /\ k * T = p + T /\ p < N
    BY <1>1, <1>5, BeforeEnd DEF n
  <2> HIDE DEF p
  <2>2. m = IF p + T <= N THEN p + T ELSE N
    BY <1>1, <2>1, MinOfTwo
  <2>3. m \in Nat /\ p <= m /\ m <= N
    BY <1>1, <2>1, <2>2
  <2> DEFINE left == N - p
  <2>4. left \in Int /\ Min({T, left}) = IF T <= left THEN T ELSE left
    <3>1. left \in Int
      BY <1>1, <2>1
    <3> HIDE DEF left
    <3> QED BY <1>1, <3>1, MinOfTwo
  <2>5. Clipped(hdr, T, p) = m - p
    <3>1. Clipped(hdr, T, p) = Min({T, left})
      BY <1>1, <2>1 DEF Clipped, N
    <3> HIDE DEF m
    <3> QED BY <1>1, <2>1, <2>2, <2>4, <3>1
  <2> HIDE DEF m
  <2>6. ReadAt(hdr, T, p) = [j \in 1 .. m - p |-> bytes[p + j]]
    BY <1>1, <2>1, <2>5, ReadAtIs DEF N
  <2> DEFINE s == SubSeq(bytes, p + 1, m)
  <2>7. s = [j \in 1 .. m - p |-> bytes[p + j]]
    <3> HIDE DEF s
    <3>1. IsPart(s, bytes, p, m)
      BY DEF s, IsPart
    <3> QED BY <1>2, <2>1, <2>3, <3>1, Part
  <2>8. chunk(k) = SubSeq(bytes, (k - 1) * T + 1, Min({k * T, N}))
    BY DEF chunk
  <2>9. ReadAt(hdr, T, p) = chunk(k)
    BY <2>6, <2>7, <2>8 DEF p, m
  <2> QED BY <2>9 DEF p
<1> QED BY <1>3, <1>4, <1>5

(* Files print what was copied or written into them, whatever is done to   *)
(* other files and wherever the machine is stopped.                        *)
THEOREM FilesAreKept == Spec => []FilesKept
<1>1. IInv /\ KeptInv => FilesKept
  <2> SUFFICES ASSUME IInv, KeptInv, Formatted PROVE FilesKept
    BY DEF FilesKept
  <2>1. Phase /\ Usable
    BY DEF IInv, Formatted, Holds, Raw, Unfinished, TornFormat, Formatting
  <2>2. Contents
    BY <2>1 DEF KeptInv
  <2>3. directoryFile = DirHeader /\ FetchTable = TableOf(disk)
    BY <2>1, Layout DEF Phase, Usable, FetchTable, TableOf, DirSector
  <2>4. IsDisk(disk) /\ IsWrites(writes)
    BY <2>1 DEF Phase
  <2>5. Sound(disk)
    <3>1. 0 \in 0 .. Len(writes) /\ After(disk, writes, 0) = disk
      BY <2>4, AfterNone DEF IsWrites
    <3> QED BY <2>1, <3>1 DEF Usable, SoundAlong
  <2>6. ASSUME NEW n \in DOMAIN files \ AtRisk
        PROVE  Find(FetchTable, n) # -1 /\ Printed(Opened(n).hdr) = Chunks(files[n])
    <3> DEFINE i == FindIndex(TableOf(disk), n)
               hdr == Header(disk, i)
    <3>1. HoldsAlong(disk, writes, n, files[n])
      BY <2>2 DEF Contents
    <3>2. FileHolds(disk, n, files[n])
      BY <2>4, <3>1, HoldsAtEnds
    <3>3. i # -1 /\ Value(disk, hdr) = files[n]
      BY <3>2 DEF FileHolds, HeaderFound
    <3>4. Find(FetchTable, n) # -1 /\ i \in Held(disk) /\ Opened(n).hdr = hdr
      BY <2>3, <2>5, <3>3, FindIs DEF Opened, FetchHeader, Header
    <3>5. hdr.numBytes \in Nat
      BY <2>5, <3>4 DEF Sound, FileSound, IsHeader
    <3> HIDE DEF hdr, i
    <3>6. Printed(hdr) = Chunks(files[n])
      BY <3>3, <3>5, PrintedIs
    <3> QED BY <3>4, <3>6
  <2>7. ASSUME torn = {}, command = Nothing PROVE Listing(FetchTable) = DOMAIN files
    <3>1. writes = <<>>
      BY <2>1, <2>7 DEF Phase
    <3> QED BY <2>1, <2>2, <2>3, <2>7, <3>1, KeptAtRest DEF FilesAfter
  <2> QED BY <2>6, <2>7 DEF FilesKept
<1> QED BY <1>1, ContentsSound, PTL

----------------------------------------------------------------------------
(* Which files the assertion of Deallocate can meet: T has the commands    *)
(* that a stop interrupted (or may yet), F the names of the files.         *)
Marked(d, i) == Owned(d, i) \subseteq MapOf(d)
Tied(T, n) == \E c \in T : c.kind \in {"Copy", "Remove"} /\ c.name = n
Lost(d, T, i) ==
  \E c \in T : /\ c.kind = "Copy" /\ Find(TableOf(d), c.name) = -1
               /\ Header(d, i).numBytes = Len(c.bytes)
Explained(d, T) == \A i \in Held(d) : Marked(d, i) \/ Tied(T, NameOf(d, i)) \/ Lost(d, T, i)
Intact(d, T, F) ==
  \A n \in F : LET i == FindIndex(TableOf(d), n)
               IN  i # -1 => Marked(d, i) \/ Tied(T, n)

(* At every instant of the command c; its last write makes good what it    *)
(* left unexplained before.                                                *)
MarkedAlong(d, w, T, c, F) ==
  \A k \in 0 .. Len(w) :
    /\ Explained(After(d, w, k), IF k = Len(w) THEN T ELSE T \cup {c})
    /\ Intact(After(d, w, k), T \cup {c}, F)

MarkedInv == Usable => MarkedAlong(disk, writes, torn, command, DOMAIN files)

LEMMA FoundHeld ==
  ASSUME NEW d, NEW n, NEW i, i = FindIndex(TableOf(d), n), i # -1
  PROVE  /\ i \in Held(d) /\ NameOf(d, i) = Key(n)
         /\ \A x \in Held(d) : NameOf(d, x) = Key(n) => i <= x
BY Found, MatchIs

LEMMA MoreTorn ==
  ASSUME NEW T, NEW S, \A c \in T : c.kind \in {"Copy", "Remove"} => c \in S, NEW d
  PROVE  /\ Explained(d, T) => Explained(d, S)
         /\ \A F : Intact(d, T, F) => Intact(d, S, F)
<1>1. \A n : Tied(T, n) => Tied(S, n)
  BY DEF Tied
<1>2. \A i : Lost(d, T, i) => Lost(d, S, i)
  BY DEF Lost
<1> QED BY <1>1, <1>2 DEF Explained, Intact

LEMMA ExactMarked ==
  ASSUME NEW d, Exact(d), NEW T, NEW F
  PROVE  Explained(d, T) /\ Intact(d, T, F)
<1>1. \A i \in Held(d) : Marked(d, i)
  BY DEF Exact, Marked
<1> QED BY <1>1, FoundHeld DEF Explained, Intact

LEMMA ExactMarkedAlong ==
  ASSUME NEW d, NEW w, ExactAlong(d, w), NEW T, NEW c, NEW F
  PROVE  MarkedAlong(d, w, T, c, F)
BY ExactMarked DEF ExactAlong, MarkedAlong

LEMMA MarkedRestart ==
  ASSUME NEW d, IsDisk(d), NEW w, w = <<>>, NEW T, NEW c, NEW F
  PROVE  MarkedAlong(d, w, T, c, F) <=> Explained(d, T) /\ Intact(d, T \cup {c}, F)
<1>1. Len(w) = 0 /\ After(d, w, 0) = d
  BY AfterEmpty
<1>2. \A k : k \in 0 .. Len(w) <=> k = 0
  BY <1>1
<1> QED BY <1>1, <1>2 DEF MarkedAlong

(* Create: until the free map is written, the only file that is not marked *)
(* is the new one, under its name or under the one its entry had before.   *)
LEMMA CreateMarked ==
  ASSUME NEW d, NEW w, NEW i, NEW name, NEW sector, NEW hdr, CreateBegins(d, w, i, name, sector, hdr),
         \A j \in Held(d) : NameOf(d, j) # Key(name), Key(Key(name)) = Key(name),
         NEW c, c.kind = "Copy", c.name = Key(name), hdr.numBytes = Len(c.bytes), NEW T,
         Named(d), NEW files0, \A n \in DOMAIN files0 : FileHolds(d, n, files0[n]) /\ Key(n) = n
  PROVE  MarkedAlong(d, w, T, c, DOMAIN files0)
<1>1. Sound(d) /\ Exact(d) /\ IsWrites(w) /\ Len(w) = DirSectors + 2
  BY DEF CreateBegins, IsCreate
<1> SUFFICES ASSUME NEW k \in 0 .. Len(w)
             PROVE  /\ Explained(After(d, w, k), IF k = Len(w) THEN T ELSE T \cup {c})
                    /\ Intact(After(d, w, k), T \cup {c}, DOMAIN files0)
  BY DEF MarkedAlong
<1> DEFINE e == After(d, w, k)
<1>2. k \in Nat /\ k <= Len(w)
  BY <1>1 DEF IsWrites
<1>3. CreateView(d, e, k, i, name, sector, hdr)
  BY <1>2, CreateSeen
<1>4. /\ Sound(e) /\ Held(e) \subseteq Held(d) \cup {i} /\ Held(d) \subseteq Held(e)
      /\ \A j \in Held(d) : SameEntry(d, e, j)
      /\ k = Len(w) => Exact(e)
  BY <1>2, CreateKeeps
<1>5. CASE k = Len(w)
  BY <1>4, <1>5, ExactMarked
<1>6. CASE k # Len(w)
  <2>1. MapOf(e) = MapOf(d) /\ i \in Entry /\ i \notin Held(d)
    BY <1>1, <1>3, <1>6 DEF CreateView
  <2>2. \A j \in Held(d) : Marked(e, j)
    <3> HIDE DEF e
    <3> QED BY <1>1, <1>4, <2>1, SameOwned DEF Marked, Exact
  <2>3. Tied(T \cup {c}, Key(name))
    BY DEF Tied
  <2>4. ASSUME i \in Held(e) PROVE Tied(T \cup {c}, NameOf(e, i)) \/ Lost(e, T \cup {c}, i)
    <3> HIDE DEF e
    <3> SUFFICES ASSUME NameOf(e, i) # Key(name) PROVE Lost(e, T \cup {c}, i)
      BY <2>3
    <3>1. ASSUME NEW j \in Held(e) PROVE NameOf(e, j) # Key(name)
      <4>1. CASE j = i
        BY <4>1
      <4>2. CASE j # i
        <5>1. j \in Held(d) /\ j \in Entry
          BY <4>2, <1>4 DEF Held
        <5>2. NameOf(e, j) = NameOf(d, j)
          BY <5>1, <4>2, <1>3 DEF CreateView, SameRow, NameOf
        <5> QED BY <5>1, <5>2
      <4> QED BY <4>1, <4>2
    <3>2. Find(TableOf(e), Key(name)) = -1
      BY <1>4, <3>1, FindIs
    <3>3. Header(e, i) = hdr
      BY <1>3, <2>4 DEF CreateView
    <3> QED BY <3>2, <3>3 DEF Lost
  <2>5. Explained(e, T \cup {c})
    <3> HIDE DEF e
    <3> QED BY <1>4, <2>2, <2>4 DEF Explained
  <2>6. ASSUME NEW n \in DOMAIN files0, FindIndex(TableOf(e), n) # -1
        PROVE  Marked(e, FindIndex(TableOf(e), n)) \/ Tied(T \cup {c}, n)
    <3> DEFINE j == FindIndex(TableOf(d), n)
    <3>1. FileHolds(d, n, files0[n]) /\ Key(n) = n
      OBVIOUS
    <3>2. CASE Key(n) = Key(name)
      BY <2>3, <3>1, <3>2
    <3>3. CASE Key(n) # Key(name)
      <4>1. FindIndex(TableOf(e), n) = j /\ j \in Held(d)
        BY <1>2, <3>1, <3>3, CreateFinds
      <4> HIDE DEF e, j
      <4> QED BY <2>2, <4>1
    <3> QED BY <3>2, <3>3
  <2>7. Intact(e, T \cup {c}, DOMAIN files0)
    <3> HIDE DEF e
    <3> QED BY <2>6 DEF Intact
  <2> QED BY <1>6, <2>5, <2>7
<1> QED BY <1>5, <1>6

(* Remove: the sectors that it takes out of the free map are those of the  *)
(* file of its name, and of that file only.                                *)
LEMMA RemoveMarked ==
  ASSUME NEW d, NEW w, NEW i, RemoveBegins(d, w, i), NEW T, Explained(d, T),
         NEW c, c.kind = "Remove", c.name = NameOf(d, i),
         NEW F, Intact(d, T, F), \A n \in F : Key(n) = n
  PROVE  MarkedAlong(d, w, T, c, F)
<1>1. Sound(d) /\ i \in Held(d) /\ IsWrites(w) /\ Len(w) = DirSectors + 1
  BY DEF RemoveBegins, IsRemove
<1> SUFFICES ASSUME NEW k \in 0 .. Len(w)
             PROVE  /\ Explained(After(d, w, k), IF k = Len(w) THEN T ELSE T \cup {c})
                    /\ Intact(After(d, w, k), T \cup {c}, F)
  BY DEF MarkedAlong
<1> DEFINE e == After(d, w, k)
           S == IF k = Len(w) THEN T ELSE T \cup {c}
<1>2. k \in Nat /\ k <= Len(w)
  BY <1>1 DEF IsWrites
<1>3. RemoveView(d, e, k, i)
  BY <1>2, RemoveSeen
<1>4. /\ Sound(e) /\ Held(e) \subseteq Held(d) /\ Held(d) \ {i} \subseteq Held(e)
      /\ \A j \in Held(d) : SameEntry(d, e, j)
      /\ k = Len(w) => i \notin Held(e)
  BY <1>2, RemoveKeeps
<1> HIDE DEF e
<1>5. \A x \in Held(d) : NameOf(e, x) = NameOf(d, x)
  BY <1>3 DEF RemoveView, SameRow, NameOf, Held
<1>6. ASSUME NEW x \in Held(d), x # i, Marked(d, x) PROVE Marked(e, x)
  <2>1. Owned(e, x) = Owned(d, x) /\ Owned(d, x) \cap Owned(d, i) = {}
    BY <1>1, <1>4, <1>6, SameOwned DEF Sound, Apart
  <2>2. MapOf(d) \ Owned(d, i) \subseteq MapOf(e)
    BY <1>3 DEF RemoveView
  <2> QED BY <1>6, <2>1, <2>2 DEF Marked
<1>7. ASSUME NEW name, Find(TableOf(d), name) = -1 PROVE Find(TableOf(e), name) = -1
  <2>1. \A x \in Held(d) : NameOf(d, x) # Key(name)
    BY <1>1, <1>7, FindIs
  <2>2. \A x \in Held(e) : NameOf(e, x) # Key(name)
    BY <1>4, <1>5, <2>1
  <2> QED BY <1>4, <2>2, FindIs
<1>8. T \subseteq S
  OBVIOUS
<1>9. \A n : Tied(T, n) => Tied(S, n) /\ Tied(T \cup {c}, n)
  BY <1>8 DEF Tied
<1>10. ASSUME NEW x \in Held(d), Lost(d, T, x) PROVE Lost(e, S, x)
  <2>1. Header(e, x) = Header(d, x)
    BY <1>4 DEF SameEntry
  <2>2. PICK r \in T : /\ r.kind = "Copy" /\ Find(TableOf(d), r.name) = -1
                       /\ Header(d, x).numBytes = Len(r.bytes)
    BY <1>10 DEF Lost
  <2> HIDE DEF S
  <2> QED BY <1>7, <1>8, <2>1, <2>2 DEF Lost
<1>11. Explained(e, S)
  <2> SUFFICES ASSUME NEW x \in Held(e)
               PROVE  Marked(e, x) \/ Tied(S, NameOf(e, x)) \/ Lost(e, S, x)
    BY DEF Explained
  <2>1. x \in Held(d) /\ NameOf(e, x) = NameOf(d, x)
    BY <1>4, <1>5
  <2>2. CASE x = i
    <3>1. c \in S
      BY <1>4, <2>2
    <3> HIDE DEF S
    <3> QED BY <2>1, <2>2, <3>1 DEF Tied
  <2>3. CASE x # i
    <3>1. Marked(d, x) \/ Tied(T, NameOf(d, x)) \/ Lost(d, T, x)
      BY <2>1 DEF Explained
    <3> HIDE DEF S
    <3> QED BY <1>6, <1>9, <1>10, <2>1, <2>3, <3>1
  <2> QED BY <2>2, <2>3
<1>12. Intact(e, T \cup {c}, F)
  <2> SUFFICES ASSUME NEW n \in F, NEW j, j = FindIndex(TableOf(e), n), j # -1
               PROVE  Marked(e, j) \/ Tied(T \cup {c}, n)
    BY DEF Intact
  <2>1. CASE NameOf(d, i) = n
    BY <2>1 DEF Tied
  <2>2. CASE NameOf(d, i) # n
    <3>1. /\ j \in Held(e) /\ NameOf(e, j) = Key(n) /\ Key(n) = n
          /\ \A x \in Held(e) : NameOf(e, x) = Key(n) => j <= x
      BY FoundHeld
    <3>2. j \in Held(d) /\ j # i /\ NameOf(d, j) = Key(n)
      BY <1>4, <1>5, <2>2, <3>1
    <3>3. \A x \in Held(d) : NameOf(d, x) = Key(n) => j <= x
      BY <1>4, <1>5, <2>2, <3>1
    <3>4. FindIndex(TableOf(d), n) = j
      BY <3>2, <3>3, FoundAt
    <3>5. Marked(d, j) \/ Tied(T, n)
      BY <3>4 DEF Intact
    <3> QED BY <1>6, <1>9, <3>2, <3>5
  <2> QED BY <2>1, <2>2
<1> HIDE DEF S
<1>13. Explained(e, S) /\ Intact(e, T \cup {c}, F)
  BY <1>11, <1>12
<1> QED BY <1>13 DEF e, S

(* Every step keeps it.                                                    *)
LEMMA MountMarked == IInv /\ MarkedInv /\ Mount => MarkedInv'
<1> SUFFICES ASSUME IInv, MarkedInv, Mount PROVE MarkedInv'
  OBVIOUS
<1>1. Usable
  BY DEF IInv, Phase, Raw, Unfinished, TornFormat, Formatting, Mount, Holds
<1>2. disk' = disk /\ command' = command /\ writes' = writes /\ files' = files /\ torn' = torn
  BY DEF Mount
<1> QED BY <1>1, <1>2 DEF MarkedInv

LEMMA StopMarked == IInv /\ MarkedInv /\ Stop => MarkedInv'
<1> SUFFICES ASSUME IInv, MarkedInv, Stop, Usable' PROVE MarkedInv'
  BY DEF MarkedInv
<1>1. Phase /\ kernel = "up"
  BY DEF IInv, Stop
<1>2. /\ torn' = torn \cup ({command} \ {Nothing}) /\ command' = Nothing
      /\ writes' = <<>> /\ disk' = disk /\ files' = files
  BY DEF Stop
<1>3. Usable
  <2>1. ~Formatting
    <3> SUFFICES ASSUME Formatting PROVE FALSE
      OBVIOUS
    <3>1. command \in torn' /\ command.kind = "Format"
      BY <1>2 DEF Formatting
    <3> QED BY <3>1 DEF Usable
  <2> QED BY <1>1, <2>1 DEF IInv, Raw, Unfinished
<1> DEFINE F == DOMAIN files
           S == torn'
           T == torn \cup {command}
<1>4. IsDisk(disk) /\ 0 \in 0 .. Len(writes) /\ After(disk, writes, 0) = disk
  BY <1>1, AfterNone DEF Phase, IsWrites
<1>5. \A c \in T : c.kind \in {"Copy", "Remove"} => c \in S
  BY <1>2
<1>6. Explained(disk, T) /\ Intact(disk, T, F)
  <2>1. Explained(disk, IF 0 = Len(writes) THEN torn ELSE T) /\ Intact(disk, T, F)
    BY <1>3, <1>4 DEF MarkedInv, MarkedAlong
  <2>2. \A c \in torn : c.kind \in {"Copy", "Remove"} => c \in T
    OBVIOUS
  <2> HIDE DEF T
  <2> QED BY <2>1, <2>2, MoreTorn
<1> HIDE DEF S, T, F
<1>7. Explained(disk, S) /\ Intact(disk, S, F)
  BY <1>5, <1>6, MoreTorn
<1> DEFINE w == writes'
<1>8. w = <<>>
  BY <1>2
<1> HIDE DEF w
<1>9. Intact(disk, S \cup {Nothing}, F)
  <2>1. \A c \in S : c.kind \in {"Copy", "Remove"} => c \in S \cup {Nothing}
    OBVIOUS
  <2> QED BY <1>7, <2>1, MoreTorn
<1>10. MarkedAlong(disk, w, S, Nothing, F)
  BY <1>4, <1>7, <1>8, <1>9, MarkedRestart
<1> QED BY <1>2, <1>10 DEF MarkedInv, w, S, F

LEMMA WriteSectorMarked == IInv /\ MarkedInv /\ WriteSector => MarkedInv'
<1> SUFFICES ASSUME IInv, MarkedInv, WriteSector, Usable' PROVE MarkedInv'
  BY DEF MarkedInv
<1>1. Phase /\ kernel = "up" /\ writes # <<>>
  BY DEF IInv, WriteSector
<1>2. disk' = [disk EXCEPT ![Head(writes)[1]] = Head(writes)[2]] /\ writes' = Tail(writes)
  BY DEF WriteSector
<1>3. IsDisk(disk) /\ IsWrites(writes) /\ Len(writes) \in Nat /\ command.kind # "None"
  BY <1>1 DEF Phase, IsWrites
<1> DEFINE e == disk'
           t == writes'
           F == DOMAIN files
<1>4. Advanced(disk, writes, e, t) /\ t = Tail(writes)
  <2>1. Written(disk, writes, e) /\ t = Tail(writes)
    BY <1>2 DEF Written
  <2> HIDE DEF e, t
  <2> QED BY <2>1, <1>1, <1>3, Advance
<1> DEFINE last == t = <<>> /\ command.kind # "Copy"
<1>5. ~last => command' = command /\ torn' = torn /\ files' = files
  BY DEF WriteSector
<1>6. last => command' = Nothing /\ files' = Outcome /\ torn' = IF command.kind = "Format" THEN {} ELSE torn
  BY DEF WriteSector
<1>7. IsDisk(e) /\ IsWrites(t) /\ After(e, t, Len(t)) = Outcoming
  BY <1>4 DEF Advanced, Outcoming
<1>8. last => e = Outcoming
  <2> HIDE DEF e
  <2>1. ASSUME t = <<>> PROVE After(e, t, Len(t)) = e
    <3> HIDE DEF t
    <3> QED BY <1>7, <2>1, Restart
  <2> QED BY <1>7, <2>1
<1>9. CASE Formatting
  <2>1. last
    <3> SUFFICES ASSUME ~last PROVE FALSE
      OBVIOUS
    <3>1. command'.kind = "Format"
      BY <1>5, <1>9 DEF Formatting
    <3> QED BY <3>1 DEF Usable
  <2>2. Exact(e) /\ t = <<>>
    BY <1>8, <1>9, <2>1 DEF Formatting
  <2> HIDE DEF e, t
  <2>3. ExactAlong(e, t)
    BY <1>7, <2>2, Restart
  <2> QED BY <2>3, ExactMarkedAlong DEF MarkedInv, e, t
<1>10. CASE Usable
  <2>1. MarkedAlong(disk, writes, torn, command, F)
    BY <1>10 DEF MarkedInv
  <2>2. MarkedAlong(e, t, torn, command, F)
    <3> HIDE DEF e, t, F, last
    <3> SUFFICES ASSUME NEW k \in 0 .. Len(t)
                 PROVE  /\ Explained(After(e, t, k), IF k = Len(t) THEN torn ELSE torn \cup {command})
                        /\ Intact(After(e, t, k), torn \cup {command}, F)
      BY DEF MarkedAlong
    <3>1. k + 1 \in 0 .. Len(writes) /\ After(e, t, k) = After(disk, writes, k + 1)
      BY <1>4 DEF Advanced
    <3>2. k = Len(t) <=> k + 1 = Len(writes)
      <4>1. Len(t) = Len(writes) - 1
        BY <1>1, <1>3, <1>4, IsSeq
      <4> QED BY <1>3, <4>1
    <3>3. /\ Explained(After(disk, writes, k + 1), IF k + 1 = Len(writes) THEN torn ELSE torn \cup {command})
          /\ Intact(After(disk, writes, k + 1), torn \cup {command}, F)
      BY <2>1, <3>1 DEF MarkedAlong
    <3> QED BY <3>1, <3>2, <3>3
  <2>3. CASE ~last
    BY <1>5, <2>2, <2>3 DEF MarkedInv
  <2>4. CASE last
    <3>1. /\ command' = Nothing /\ torn' = torn /\ files' = Outcome /\ t = <<>>
          /\ command.kind \in {"Write", "Remove"}
      BY <1>1, <1>3, <1>6, <1>10, <2>4 DEF Phase, Usable
    <3>2. Explained(e, torn) /\ Intact(e, torn \cup {command}, F)
      <4> HIDE DEF e, t, F
      <4> QED BY <1>7, <2>2, <3>1, MarkedRestart
    <3>3. ASSUME NEW n \in DOMAIN files' PROVE n \in F /\ (Tied(torn \cup {command}, n) => Tied(torn \cup {Nothing}, n))
      <4>1. CASE command.kind = "Remove"
        <5>1. n \in F /\ n # command.name
          BY <3>1, <3>3, <4>1 DEF Outcome
        <5> QED BY <5>1 DEF Tied
      <4>2. CASE command.kind = "Write"
        <5>1. n \in F
          BY <3>1, <3>3, <4>2 DEF Outcome
        <5> QED BY <4>2, <5>1 DEF Tied
      <4> QED BY <3>1, <4>1, <4>2
    <3> DEFINE G == DOMAIN files'
    <3>4. Intact(e, torn \cup {Nothing}, G)
      <4> HIDE DEF e, F
      <4> QED BY <3>2, <3>3 DEF Intact
    <3> HIDE DEF e, t, G
    <3>5. MarkedAlong(e, t, torn, Nothing, G)
      BY <1>7, <3>1, <3>2, <3>4, MarkedRestart
    <3> QED BY <3>1, <3>5 DEF MarkedInv, e, t, G
  <2> QED BY <2>3, <2>4
<1> QED BY <1>1, <1>9, <1>10 DEF IInv, Raw, Unfinished

LEMMA CopyCreatesMarked ==
  ASSUME IInv, KeptInv, NEW n \in Name, NEW b \in UnixFile, CopyCreates(n, b)
  PROVE  MarkedInv'
<1> DEFINE w == writes'
           c == command'
<1>1. /\ Idle /\ torn = {} /\ CanCreate(FetchTable, FetchMap, n, Len(b))
      /\ c = [kind |-> "Copy", name |-> Key(n), bytes |-> b]
      /\ w = CreateWrites(FetchTable, FetchMap, n, Len(b))
      /\ disk' = disk /\ torn' = torn /\ files' = files
  BY DEF CopyCreates, NoMoreCreates
<1> HIDE DEF w, c
<1>2. b \in Seq(Int) /\ Key(Key(n)) = Key(n)
  BY FileSystemAssumption, KeyTwice
<1>3. Phase /\ Usable /\ Contents /\ writes = <<>>
  BY <1>1, IdleUsable DEF KeptInv
<1>4. Sound(disk) /\ FetchTable = TableOf(disk)
  BY <1>3, AtRest
<1>5. AtRisk = {}
  BY <1>1 DEF AtRisk
<1>6. (\A m \in DOMAIN files : FileHolds(disk, m, files[m]) /\ Key(m) = m) /\ Named(disk)
  BY <1>1, <1>3, <1>5, KeptAtRest
<1>7. PICK i, sector, hdr : CreateBegins(disk, w, i, n, sector, hdr) /\ hdr.numBytes = Len(b)
  BY <1>1, <1>2, CreateStarts
<1>8. \A j \in Held(disk) : NameOf(disk, j) # Key(n)
  BY <1>1, <1>4, FindIs DEF CanCreate
<1>9. c.kind = "Copy" /\ c.name = Key(n) /\ hdr.numBytes = Len(c.bytes)
  BY <1>1, <1>7
<1>10. MarkedAlong(disk, w, torn, c, DOMAIN files)
  BY <1>2, <1>6, <1>7, <1>8, <1>9, CreateMarked
<1> QED BY <1>1, <1>10 DEF MarkedInv, w, c

LEMMA CopyRestsMarked == IInv /\ (CopyOpens \/ CopyEnds) => MarkedInv'
<1> SUFFICES ASSUME IInv, CopyOpens \/ CopyEnds PROVE MarkedInv'
  OBVIOUS
<1> DEFINE w == writes'
<1>1. command.kind = "Copy" /\ writes = <<>> /\ disk' = disk /\ w = writes
  BY DEF CopyOpens, CopyEnds
<1>2. Exact(disk) /\ IsDisk(disk)
  BY <1>1, CopyUsable DEF Sound
<1> HIDE DEF w
<1>3. ExactAlong(disk, w)
  BY <1>1, <1>2, Restart
<1> QED BY <1>1, <1>3, ExactMarkedAlong DEF MarkedInv, w

LEMMA CopyWritesMarked == IInv /\ CopyWrites => MarkedInv'
<1> SUFFICES ASSUME IInv, CopyWrites PROVE MarkedInv'
  OBVIOUS
<1> DEFINE position == openFile.seekPosition
           chunk == SubSeq(command.bytes, position + 1, Min({position + TransferSize, Len(command.bytes)}))
           w == writes'
<1>1. command.kind = "Copy" /\ writes = <<>> /\ openFile # Closed
  BY DEF CopyWrites
<1>2. w = WriteAt(openFile.hdr, chunk, position) /\ disk' = disk
  BY DEF CopyWrites
<1>3. Phase /\ Usable /\ Outcoming = disk /\ Sound(disk) /\ Exact(disk)
  BY <1>1, CopyUsable
<1>4. PICK i \in Held(disk) : openFile.hdr = Header(disk, i)
  BY <1>1, <1>3 DEF Usable
<1>5. position \in Nat /\ chunk \in Seq(Int)
  BY <1>1, <1>3, Chunk DEF Phase
<1> HIDE DEF chunk, position, w
<1>6. ExactAlong(disk, w)
  BY <1>2, <1>3, <1>4, <1>5, DataStarts
<1> QED BY <1>2, <1>6, ExactMarkedAlong DEF MarkedInv, w

LEMMA SeekAndWriteMarked ==
  ASSUME IInv, NEW n \in Name, NEW p \in Patch, SeekAndWrite(n, p)
  PROVE  MarkedInv'
<1> DEFINE w == writes'
           i == FindIndex(TableOf(disk), n)
<1>1. /\ Idle /\ torn = {} /\ Find(FetchTable, n) # -1 /\ disk' = disk
      /\ w = WriteAt(Opened(n).hdr, p.bytes, p.position)
  BY DEF SeekAndWrite
<1>2. Sound(disk) /\ Exact(disk) /\ FetchTable = TableOf(disk)
  BY <1>1, IdleUsable, AtRest DEF Clean
<1>3. i \in Held(disk) /\ Opened(n).hdr = Header(disk, i)
  BY <1>1, <1>2, FindIs DEF Opened, FetchHeader, Header
<1>4. p.bytes \in Seq(Int) /\ p.position \in Nat
  BY FileSystemAssumption
<1> HIDE DEF i, w
<1>5. ExactAlong(disk, w)
  BY <1>1, <1>2, <1>3, <1>4, DataStarts
<1> QED BY <1>1, <1>5, ExactMarkedAlong DEF MarkedInv, w

(* Between two calls.                                                      *)
LEMMA MarkedAtRest ==
  ASSUME Phase, MarkedAlong(disk, writes, torn, command, DOMAIN files), writes = <<>>, command = Nothing
  PROVE  Explained(disk, torn) /\ Intact(disk, torn, DOMAIN files)
<1>1. Explained(disk, torn) /\ Intact(disk, torn \cup {command}, DOMAIN files)
  BY MarkedRestart DEF Phase
<1>2. \A c \in torn \cup {command} : c.kind \in {"Copy", "Remove"} => c \in torn
  OBVIOUS
<1> QED BY <1>1, <1>2, MoreTorn

LEMMA RemoveFileMarked ==
  ASSUME IInv, KeptInv, MarkedInv, NEW n \in Name, RemoveFile(n)
  PROVE  MarkedInv'
<1> DEFINE i == FindIndex(TableOf(disk), n)
           w == writes'
           c == command'
<1>1. Idle /\ Find(FetchTable, n) # -1 /\ disk' = disk /\ torn' = torn /\ files' = files
  BY DEF RemoveFile
<1>2. /\ Phase /\ Usable /\ Contents /\ writes = <<>> /\ command = Nothing
      /\ MarkedAlong(disk, writes, torn, command, DOMAIN files)
  BY <1>1, IdleUsable DEF KeptInv, MarkedInv
<1>3. CASE Removable(n)
  <2>1. /\ c = [kind |-> "Remove", name |-> Key(n), bytes |-> <<>>]
        /\ w = RemoveWrites(FetchTable, FetchMap, n)
    BY <1>3 DEF RemoveFile
  <2>2. RemoveBegins(disk, w, i)
    BY <1>1, <2>1, RemoveStarts
  <2>3. c.kind = "Remove" /\ c.name = NameOf(disk, i)
    BY <1>1, <1>2, <2>1, AtRest, FindIs
  <2>4. Explained(disk, torn) /\ Intact(disk, torn, DOMAIN files)
    BY <1>2, MarkedAtRest
  <2>5. \A m \in DOMAIN files : Key(m) = m
    BY <1>2 DEF Contents
  <2> HIDE DEF w, c, i
  <2>6. MarkedAlong(disk, w, torn, c, DOMAIN files)
    BY <2>2, <2>3, <2>4, <2>5, RemoveMarked
  <2> QED BY <1>1, <2>6 DEF MarkedInv, w, c
<1>4. CASE ~Removable(n)
  <2>1. command' = command /\ writes' = writes
    BY <1>4 DEF RemoveFile
  <2> QED BY <1>1, <1>2, <2>1 DEF MarkedInv
<1> QED BY <1>3, <1>4

LEMMA StepMarked == IInv /\ KeptInv /\ MarkedInv /\ [Next]_vars => MarkedInv'
<1> SUFFICES ASSUME IInv, KeptInv, MarkedInv, [Next]_vars PROVE MarkedInv'
  OBVIOUS
<1>1. CASE Format
  <2>1. ~Usable'
    BY <1>1 DEF Format, Usable
  <2> QED BY <2>1 DEF MarkedInv
<1>2. CASE Next /\ ~Format
  BY <1>2, MountMarked, StopMarked, WriteSectorMarked, CopyRestsMarked, CopyWritesMarked,
     RemoveFileMarked, CopyCreatesMarked, SeekAndWriteMarked DEF Next
<1>3. CASE UNCHANGED vars
  BY <1>3 DEF vars, MarkedInv, Usable, Clean, Outcoming
<1> QED BY <1>1, <1>2, <1>3

(* "Ought to be marked!", the assertion of Deallocate, fails only for the  *)
(* file of a Copy or Remove that a stop interrupted: under its own name,   *)
(* or, where the stop came between the two directory sectors of its entry, *)
(* under an older name that no complete file has.                          *)
THEOREM AbortsWhenTorn == Spec => AbortsOnlyWhenTorn
<1>1. Init => MarkedInv
  <2> SUFFICES ASSUME Init PROVE ~Usable
    BY DEF MarkedInv
  <2> QED BY Layout DEF Init, Usable
<1>2. ASSUME IInv, KeptInv, MarkedInv, NEW n \in Name, RemoveFile(n), kernel' = "abort"
      PROVE  Interrupted(Key(n)) \/ (HalfEntered(n) /\ Key(n) \notin DOMAIN files)
  <2> DEFINE i == FindIndex(TableOf(disk), n)
  <2>1. Idle /\ Find(FetchTable, n) # -1 /\ ~Removable(n)
    BY <1>2 DEF RemoveFile
  <2>2. Phase /\ Usable /\ writes = <<>> /\ command = Nothing
    BY <1>2, <2>1, IdleUsable
  <2>3. Sound(disk) /\ FetchTable = TableOf(disk) /\ FetchMap = MapOf(disk)
    BY <2>2, AtRest
  <2>4. /\ i \in Held(disk) /\ NameOf(disk, i) = Key(n) /\ i # -1
        /\ Find(FetchTable, n) = HeaderSector(disk, i) /\ HeaderSector(disk, i) \in Sector
    BY <2>1, <2>3, FindIs, SoundIs
  <2>5. Explained(disk, torn) /\ Intact(disk, torn, DOMAIN files)
    BY <1>2, <2>2, MarkedAtRest DEF MarkedInv
  <2>6. FindIndex(TableOf(disk), Key(n)) = i
    <3>1. Key(Key(n)) = Key(n)
      BY FileSystemAssumption, KeyTwice
    <3> QED BY <3>1 DEF FindIndex
  <2> HIDE DEF i
  <2>7. ~Marked(disk, i)
    BY <2>1, <2>3, <2>4 DEF Removable, Deallocatable, Marked, Owned, Header, FetchHeader
  <2>8. \A m : Tied(torn, m) <=> Interrupted(m)
    BY DEF Tied, Interrupted
  <2>9. Lost(disk, torn, i) => HalfEntered(n)
    BY <2>3, <2>4 DEF Lost, HalfEntered, Opened, Header, FetchHeader
  <2>10. Interrupted(Key(n)) \/ HalfEntered(n)
    BY <2>4, <2>5, <2>7, <2>8, <2>9 DEF Explained
  <2>11. Key(n) \in DOMAIN files => Interrupted(Key(n))
    BY <2>4, <2>5, <2>6, <2>7, <2>8 DEF Intact
  <2> QED BY <2>10, <2>11
<1>3. IInv /\ KeptInv /\ MarkedInv /\ [Next]_vars =>
        [\A n \in Name : RemoveFile(n) /\ kernel' = "abort" =>
           \/ Interrupted(Key(n))
           \/ HalfEntered(n) /\ Key(n) \notin DOMAIN files]_vars
  BY <1>2
<1> QED BY <1>1, <1>3, ContentsSound, StepMarked, PTL DEF Spec, AbortsOnlyWhenTorn
=============================================================================
