----------------------------- MODULE FileSystem -----------------------------
(* The Nachos file system proper (filesys/, built without FILESYS_STUB):   *)
(* free map, directory, file headers and open files on a disk of sectors,  *)
(* and the commands of threads/main.cc that use them.                      *)
(*                                                                         *)
(* Every call first reads and computes, and then writes sectors one after  *)
(* the other: "writes" holds the sectors that the call in progress has yet *)
(* to write.  The machine may be stopped between any two of them.  main.cc *)
(* runs one command at a time, and so does the model: the code "assumes    *)
(* there is no concurrent access to the file system".                      *)
EXTENDS Integers, FiniteSets, SequencesExt, FiniteSetsExt

CONSTANTS NumSectors, SectorSize,
          NumDirEntries, FileNameMaxLen,
          NumDirect,        \* sectors that a header has room for
          MapLength, DirLength,   \* sizes of the two system files, in bytes
          CellSector,       \* which sector of its file a directory cell is in
          TransferSize,     \* chunk of Copy and Print
          Name, UnixFile,   \* file names, contents of UNIX files
          Patch             \* [position, bytes] of a Seek and Write

FreeMapSector == 0
DirectorySector == 1
Sector == 0 .. NumSectors - 1
Entry == 1 .. NumDirEntries
Cell == Entry \X {"inUse", "sector", "name"}

(* The map fits its sector and the two system files fit the disk (the      *)
(* ASSERTs of Format); of an entry's 20 bytes only the name is ever split  *)
(* by the end of a sector, never the flag from the number beside it.       *)
ASSUME FileSystemAssumption ==
  /\ NumSectors \in Nat /\ SectorSize \in Nat \ {0} /\ TransferSize \in Nat \ {0}
  /\ NumDirEntries \in Nat /\ FileNameMaxLen \in Nat /\ NumDirect \in Nat
  /\ MapLength \in 1 .. SectorSize /\ DirLength \in Nat
  /\ 3 + (DirLength + SectorSize - 1) \div SectorSize <= NumSectors
  /\ CellSector \in [Cell -> 1 .. (DirLength + SectorSize - 1) \div SectorSize]
  /\ \A i \in Entry : CellSector[<<i, "inUse">>] = CellSector[<<i, "sector">>]
  /\ \A n \in Name : n \in Seq(Range(n))
  /\ \A b \in UnixFile : b \in Seq(Int)
  /\ \A p \in Patch : p.position \in Nat /\ p.bytes \in Seq(Int)

VARIABLES disk,          \* contents of every sector
          kernel,        \* "off", "up" or "abort" (a failed ASSERT)
          freeMapFile, directoryFile,    \* headers of the two open files
          command,       \* the command of main.cc in progress
          writes,        \* <<sector, contents>> still to be written by it
          openFile,      \* the command's OpenFile: [hdr, seekPosition]
          files,         \* what the files should hold (history)
          torn           \* the commands that a stop interrupted (history)

vars == <<disk, kernel, freeMapFile, directoryFile, command, writes, openFile,
          files, torn>>

Nothing == [kind |-> "None", name |-> <<>>, bytes |-> <<>>]
Closed == [hdr |-> [numBytes |-> 0, dataSectors |-> <<>>], seekPosition |-> -1]
Junk == -1               \* a byte that nobody wrote
NoFiles == [n \in {} |-> <<>>]

----------------------------------------------------------------------------
(* OpenFile: ReadAt and WriteAt of a file with header hdr.                 *)
divRoundUp(n, s) == (n + s - 1) \div s

ByteToSector(hdr, offset) == hdr.dataSectors[offset \div SectorSize + 1]

Bytes(contents) ==
  IF contents.kind = "data" THEN contents.bytes ELSE [k \in 1 .. SectorSize |-> Junk]

Clipped(hdr, numBytes, position) ==
  IF numBytes <= 0 \/ position >= hdr.numBytes THEN 0
  ELSE Min({numBytes, hdr.numBytes - position})

ReadAt(hdr, numBytes, position) ==
  [k \in 1 .. Clipped(hdr, numBytes, position) |->
     LET offset == position + k - 1
     IN  Bytes(disk[ByteToSector(hdr, offset)])[(offset % SectorSize) + 1]]

(* WriteAt fills the first and the last sector from the file, as far as    *)
(* the file goes, and then writes whole sectors.  (A faulty one does not   *)
(* read the sectors it covers in part.)                                    *)
BlankBuffer(hdr, from, position, offset) ==
  IF offset \in position .. position + Len(from) - 1 THEN from[offset - position + 1] ELSE Junk
Buffer(hdr, from, position, offset) ==
  IF offset \in position .. position + Len(from) - 1 THEN from[offset - position + 1]
  ELSE IF offset < hdr.numBytes THEN ReadAt(hdr, 1, offset)[1]
  ELSE Junk

WriteAt(hdr, into, position) ==
  LET from == SubSeq(into, 1, Clipped(hdr, Len(into), position))
      firstSector == position \div SectorSize
      lastSector == (position + Len(from) - 1) \div SectorSize
  IN  IF from = <<>> THEN <<>>
      ELSE [i \in 1 .. lastSector - firstSector + 1 |->
              LET start == (firstSector + i - 1) * SectorSize
              IN  <<ByteToSector(hdr, start),
                    [kind |-> "data",
                     bytes |-> [k \in 1 .. SectorSize |->
                                  Buffer(hdr, from, position, start + k - 1)]]>>]

----------------------------------------------------------------------------
(* FileHeader                                                              *)
FetchHeader(sector) == disk[sector].hdr
Holds(sector, kind) == disk[sector].kind = kind
WriteHeader(sector, hdr) == << <<sector, [kind |-> "header", hdr |-> hdr]>> >>

NoHeader == [numBytes |-> -1, dataSectors |-> <<>>]
Allocate(map, fileSize) ==
  LET numSectors == divRoundUp(fileSize, SectorSize)
      clear == Sector \ map
      Lowest(i) == CHOOSE s \in clear : Cardinality({t \in clear : t < s}) = i - 1
  IN  IF Cardinality(clear) < numSectors THEN NoHeader
      ELSE [numBytes |-> fileSize, dataSectors |-> [i \in 1 .. numSectors |-> Lowest(i)]]

Deallocatable(map, hdr) == Range(hdr.dataSectors) \subseteq map

----------------------------------------------------------------------------
(* PersistentBitmap, as the set of its marked bits, in one sector.         *)
FetchMap == disk[freeMapFile.dataSectors[1]].map
WriteMap(file, map) == << <<file.dataSectors[1], [kind |-> "map", map |-> map]>> >>
FindAndSet(map) == IF Sector \subseteq map THEN -1 ELSE Min(Sector \ map)

----------------------------------------------------------------------------
(* Directory.  Its file takes more than one sector, and where one sector   *)
(* ends an entry is split: WriteBack writes it in several steps.           *)
EmptyTable == [c \in Cell |-> CASE c[2] = "inUse" -> FALSE [] c[2] = "sector" -> 0
                                [] OTHER -> <<>>]
FetchTable ==
  [c \in Cell |-> disk[directoryFile.dataSectors[CellSector[c]]].cells[c]]
WriteTable(file, table) ==
  [i \in 1 .. Len(file.dataSectors) |->
     <<file.dataSectors[i],
       [kind |-> "directory",
        cells |-> [c \in {x \in Cell : CellSector[x] = i} |-> table[c]]]>>]

(* Names are compared and stored up to FileNameMaxLen characters.          *)
Key(name) == SubSeq(name, 1, Min({FileNameMaxLen, Len(name)}))
FindIndex(table, name) ==
  LET found == {i \in Entry : table[<<i, "inUse">>] /\ table[<<i, "name">>] = Key(name)}
  IN  IF found = {} THEN -1 ELSE Min(found)
Find(table, name) ==
  IF FindIndex(table, name) = -1 THEN -1 ELSE table[<<FindIndex(table, name), "sector">>]
FreeEntries(table) == {i \in Entry : ~table[<<i, "inUse">>]}
Added(table, name, sector) ==
  LET i == Min(FreeEntries(table))
  IN  [table EXCEPT ![<<i, "inUse">>] = TRUE, ![<<i, "name">>] = Key(name),
                    ![<<i, "sector">>] = sector]
Removed(table, name) == [table EXCEPT ![<<FindIndex(table, name), "inUse">>] = FALSE]
Listing(table) ==
  {table[<<i, "name">>] : i \in {j \in Entry : table[<<j, "inUse">>]}}

----------------------------------------------------------------------------
(* FileSystem::FileSystem(format)                                          *)
FormatMap == {FreeMapSector, DirectorySector}
MapHeader == Allocate(FormatMap, MapLength)
DirHeader == Allocate(FormatMap \cup Range(MapHeader.dataSectors), DirLength)

FormatWrites ==
  WriteHeader(FreeMapSector, MapHeader) \o WriteHeader(DirectorySector, DirHeader)
  \o WriteMap(MapHeader, FormatMap \cup Range(MapHeader.dataSectors)
                                   \cup Range(DirHeader.dataSectors))
  \o WriteTable(DirHeader, EmptyTable)

Format ==
  /\ kernel = "off"
  /\ kernel' = "up"
  /\ freeMapFile' = MapHeader /\ directoryFile' = DirHeader
  /\ command' = [Nothing EXCEPT !.kind = "Format"]
  /\ writes' = FormatWrites
  /\ UNCHANGED <<disk, openFile, files, torn>>

(* A disk can be used without formatting once it has been formatted.       *)
Mount ==
  /\ kernel = "off"
  /\ Holds(FreeMapSector, "header") /\ Holds(DirectorySector, "header")
  /\ \A c \in torn : c.kind # "Format"
  /\ kernel' = "up"
  /\ freeMapFile' = FetchHeader(FreeMapSector)
  /\ directoryFile' = FetchHeader(DirectorySector)
  /\ UNCHANGED <<disk, command, writes, openFile, files, torn>>

(* Halt, control-C (Cleanup) or a crash of the host.                       *)
Stop ==
  /\ kernel = "up"
  /\ kernel' = "off"
  /\ torn' = torn \cup ({command} \ {Nothing})
  /\ command' = Nothing /\ writes' = <<>> /\ openFile' = Closed
  /\ UNCHANGED <<disk, freeMapFile, directoryFile, files>>

Idle == kernel = "up" /\ command = Nothing

----------------------------------------------------------------------------
(* FileSystem::Create: the sectors it writes, none when it fails.  (Faulty *)
(* ones write the free map first, or forget it.)                           *)
CanCreate(table, map, name, size) ==
  /\ Find(table, name) = -1
  /\ FindAndSet(map) # -1
  /\ FreeEntries(table) # {}
  /\ Allocate(map \cup {FindAndSet(map)}, size) # NoHeader

UnmappedWrites(table, map, name, size) ==
  LET sector == FindAndSet(map)
      hdr == Allocate(map \cup {sector}, size)
  IN  WriteHeader(sector, hdr) \o WriteTable(directoryFile, Added(table, name, sector))
EarlyMapWrites(table, map, name, size) ==
  LET sector == FindAndSet(map)
      hdr == Allocate(map \cup {sector}, size)
  IN  WriteMap(freeMapFile, map \cup {sector} \cup Range(hdr.dataSectors))
      \o WriteHeader(sector, hdr) \o WriteTable(directoryFile, Added(table, name, sector))
CreateWrites(table, map, name, size) ==
  LET sector == FindAndSet(map)
      hdr == Allocate(map \cup {sector}, size)
  IN  WriteHeader(sector, hdr) \o WriteTable(directoryFile, Added(table, name, sector))
      \o WriteMap(freeMapFile, map \cup {sector} \cup Range(hdr.dataSectors))

(* Copy(from, to) of main.cc.  Two bounds.  A file created on a disk that  *)
(* a stop has left torn may take the sectors of the torn file, header      *)
(* included, after which headers are read from data ("it may corrupt the   *)
(* disk", filesys.cc): until the disk is formatted again the model only    *)
(* lists, prints and removes (NoMoreCreates).  And it copies no file that  *)
(* a header has no room for (FitsHeader).                                  *)
NoMoreCreates == torn # {}
FitsHeader(bytes) == divRoundUp(Len(bytes), SectorSize) <= NumDirect

CopyCreates(to, bytes) ==
  /\ Idle /\ ~NoMoreCreates /\ FitsHeader(bytes)
  /\ CanCreate(FetchTable, FetchMap, to, Len(bytes))
  /\ command' = [kind |-> "Copy", name |-> Key(to), bytes |-> bytes]
  /\ writes' = CreateWrites(FetchTable, FetchMap, to, Len(bytes))
  /\ UNCHANGED <<disk, kernel, freeMapFile, directoryFile, openFile, files, torn>>

Opened(name) == [hdr |-> FetchHeader(Find(FetchTable, name)), seekPosition |-> 0]

CopyOpens ==
  /\ command.kind = "Copy" /\ writes = <<>> /\ openFile = Closed
  /\ openFile' = Opened(command.name)
  /\ UNCHANGED <<disk, kernel, freeMapFile, directoryFile, command, writes,
                 files, torn>>

(* The next TransferSize bytes of the UNIX file go to OpenFile::Write.     *)
CopyWrites ==
  LET position == openFile.seekPosition
      chunk == SubSeq(command.bytes, position + 1,
                      Min({position + TransferSize, Len(command.bytes)}))
  IN  /\ command.kind = "Copy" /\ writes = <<>> /\ openFile # Closed
      /\ chunk # <<>>
      /\ writes' = WriteAt(openFile.hdr, chunk, position)
      /\ openFile' = [openFile EXCEPT
                        !.seekPosition = @ + Clipped(openFile.hdr, Len(chunk), position)]
      /\ UNCHANGED <<disk, kernel, freeMapFile, directoryFile, command, files, torn>>

CopyEnds ==
  /\ command.kind = "Copy" /\ writes = <<>> /\ openFile # Closed
  /\ openFile.seekPosition = Len(command.bytes)
  /\ openFile' = Closed /\ command' = Nothing
  /\ files' = [n \in DOMAIN files \cup {command.name} |->
                 IF n = command.name THEN command.bytes ELSE files[n]]
  /\ UNCHANGED <<disk, kernel, freeMapFile, directoryFile, writes, torn>>

(* A client that opens a file, seeks and writes some bytes of it.          *)
Overlaid(contents, patch) ==
  [k \in 1 .. Len(contents) |->
     IF k - patch.position \in 1 .. Len(patch.bytes) THEN patch.bytes[k - patch.position]
     ELSE contents[k]]

SeekAndWrite(name, patch) ==
  /\ Idle /\ torn = {} /\ Find(FetchTable, name) # -1
  /\ writes' = WriteAt(Opened(name).hdr, patch.bytes, patch.position)
  /\ writes' # <<>>
  /\ command' = [kind |-> "Write", name |-> Key(name),
                 bytes |-> Overlaid(files[Key(name)], patch)]
  /\ UNCHANGED <<disk, kernel, freeMapFile, directoryFile, openFile, files, torn>>

----------------------------------------------------------------------------
(* FileSystem::Remove: of the free map, then of the directory.             *)
RemoveWrites(table, map, name) ==
  LET sector == Find(table, name)
  IN  WriteMap(freeMapFile, (map \ Range(FetchHeader(sector).dataSectors)) \ {sector})
      \o WriteTable(directoryFile, Removed(table, name))

(* "Ought to be marked!", the ASSERT of Deallocate.                        *)
Removable(name) ==
  LET sector == Find(FetchTable, name)
  IN  sector \in Sector /\ Deallocatable(FetchMap, FetchHeader(sector))

RemoveFile(name) ==
  /\ Idle /\ Find(FetchTable, name) # -1
  /\ IF Removable(name)
     THEN /\ command' = [Nothing EXCEPT !.kind = "Remove", !.name = Key(name)]
          /\ writes' = RemoveWrites(FetchTable, FetchMap, name)
          /\ UNCHANGED kernel
     ELSE kernel' = "abort" /\ UNCHANGED <<command, writes>>
  /\ UNCHANGED <<disk, freeMapFile, directoryFile, openFile, files, torn>>

(* The next sector of the call in progress reaches the disk; the last one  *)
(* ends the command, unless that is a Copy.                                *)
Outcome ==
  CASE command.kind = "Format" -> NoFiles
    [] command.kind = "Remove" -> [n \in DOMAIN files \ {command.name} |-> files[n]]
    [] command.kind = "Write" -> [files EXCEPT ![command.name] = command.bytes]
    [] OTHER -> files

WriteSector ==
  /\ kernel = "up" /\ writes # <<>>
  /\ disk' = [disk EXCEPT ![Head(writes)[1]] = Head(writes)[2]]
  /\ writes' = Tail(writes)
  /\ IF writes' = <<>> /\ command.kind # "Copy"
     THEN /\ command' = Nothing /\ files' = Outcome
          /\ torn' = IF command.kind = "Format" THEN {} ELSE torn
     ELSE UNCHANGED <<command, files, torn>>
  /\ UNCHANGED <<kernel, freeMapFile, directoryFile, openFile>>

----------------------------------------------------------------------------
(* Print(name) of main.cc: Read in chunks of TransferSize until one is     *)
(* empty.  Print, List and -D change nothing.                              *)
Printed(hdr) ==
  [k \in 1 .. divRoundUp(hdr.numBytes, TransferSize) |->
     ReadAt(hdr, TransferSize, (k - 1) * TransferSize)]

----------------------------------------------------------------------------
Init ==
  /\ disk = [s \in Sector |-> [kind |-> "blank"]]
  /\ kernel = "off"
  /\ freeMapFile = NoHeader /\ directoryFile = NoHeader
  /\ command = Nothing /\ writes = <<>> /\ openFile = Closed
  /\ files = NoFiles /\ torn = {}

Next ==
  \/ Format \/ Mount \/ Stop \/ WriteSector
  \/ CopyOpens \/ CopyWrites \/ CopyEnds
  \/ \E n \in Name :
       \/ RemoveFile(n)
       \/ \E b \in UnixFile : CopyCreates(n, b)
       \/ \E p \in Patch : SeekAndWrite(n, p)

Spec == Init /\ [][Next]_vars

----------------------------------------------------------------------------
(* Seen from the disk alone: the files of the directory.                   *)
Formatted == Holds(FreeMapSector, "header") /\ directoryFile # NoHeader
             /\ \A c \in torn \cup {command} : c.kind # "Format"
Live == {i \in Entry : FetchTable[<<i, "inUse">>]}
HeaderOf(i) == FetchHeader(FetchTable[<<i, "sector">>])
Uses(i) == {FetchTable[<<i, "sector">>]} \cup Range(HeaderOf(i).dataSectors)
SystemSectors == FormatMap \cup Range(freeMapFile.dataSectors)
                           \cup Range(directoryFile.dataSectors)

(* No sector is lost and none has two owners: at every instant, also after *)
(* a stop in the middle of a call, a sector marked in the free map of the  *)
(* disk is one of the system's or of a file in the directory, and no two   *)
(* files meet; between calls every sector of a file is marked, unless a    *)
(* stop came between.                                                      *)
FreeMapExact ==
  Formatted =>
    /\ \A i \in Live : Uses(i) \cap SystemSectors = {}
    /\ \A i, j \in Live : i # j => Uses(i) \cap Uses(j) = {}
    /\ FetchMap \subseteq SystemSectors \cup UNION {Uses(i) : i \in Live}
    /\ command = Nothing /\ torn = {} =>
         SystemSectors \cup UNION {Uses(i) : i \in Live} \subseteq FetchMap

(* Files print what was copied or written into them, whatever is done to   *)
(* other files and wherever the machine is stopped: only the file of the   *)
(* command that was interrupted is at risk.                                *)
AtRisk == {c.name : c \in (torn \cup {command}) \ {Nothing}}
Chunks(contents) ==
  [k \in 1 .. divRoundUp(Len(contents), TransferSize) |->
     SubSeq(contents, (k - 1) * TransferSize + 1, Min({k * TransferSize, Len(contents)}))]
FilesKept ==
  Formatted =>
    /\ \A n \in DOMAIN files \ AtRisk :
         /\ Find(FetchTable, n) # -1
         /\ Printed(Opened(n).hdr) = Chunks(files[n])
    /\ torn = {} /\ command = Nothing => Listing(FetchTable) = DOMAIN files

(* The assertion of Deallocate fails only for the file whose Copy or       *)
(* Remove a stop interrupted: Remove meets it under the name of that       *)
(* command; or under an older one, of no file that is complete, which its  *)
(* entry still bears because the stop came between the two sectors of the  *)
(* directory that the entry lies across.  In that case the name of the     *)
(* copy is not in the directory, and the header found has its length.      *)
Interrupted(key) == \E c \in torn : c.kind \in {"Copy", "Remove"} /\ c.name = key
HalfEntered(n) ==
  \E c \in torn : /\ c.kind = "Copy" /\ Find(FetchTable, c.name) = -1
                  /\ Opened(n).hdr.numBytes = Len(c.bytes)

AbortsOnlyWhenTorn ==
  [][\A n \in Name :
       RemoveFile(n) /\ kernel' = "abort" =>
         \/ Interrupted(Key(n))
         \/ HalfEntered(n) /\ Key(n) \notin DOMAIN files]_vars
=============================================================================
