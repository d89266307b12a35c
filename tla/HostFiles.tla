------------------------------ MODULE HostFiles -----------------------------
(* The stub file system on its host: objects of class OpenFile             *)
(* (filesys/openfile.h, with FILESYS_STUB) on descriptors of UNIX, through *)
(* the calls of lib/sysdep.cc.  Each object keeps an offset of its own     *)
(* beside the one the host keeps for its descriptor; the two agree only    *)
(* after some of the calls.  In the snapshot code/ there is no Seek, and   *)
(* Length leaves the host's offset at the end of the file.                 *)
(*                                                                         *)
(* There are descriptors enough for every object and one more, the one     *)
(* that Create uses; a call that fails an ASSERT of sysdep.cc is not made. *)
EXTENDS Integers, Sequences

CONSTANTS Name, Inode, Object, Byte, NoFile,
          Size,        \* the numbers of bytes that callers ask for
          Fd,          \* the descriptors of the process
          NUL,         \* the byte that fills a gap
          MaxLength    \* bound on the length of a file (guards the calls that
                       \* write or move)

VARIABLES version,     \* "code" or "14112022_1830"
          dir, data,   \* names and contents of the host's files
          hostOffset,  \* per descriptor: file and the host's offset; NoFile = closed
          open,        \* OpenFile: file (a descriptor) and currentOffset
          result       \* the last call and what it returned

hostFileVars == <<version, dir, data, hostOffset, open, result>>

Descriptor == [inode : Inode, at : 0 .. MaxLength]
OpenFile == [file : Fd, currentOffset : 0 .. MaxLength]
Handle == [inode : Inode, pos : 0 .. MaxLength]     \* of PositionedFiles

ASSUME HostFilesAssumption ==
  /\ MaxLength \in Nat /\ Size \subseteq Nat /\ Fd \subseteq Nat
  /\ NUL \in Byte
  /\ NoFile \notin Descriptor /\ NoFile \notin OpenFile /\ NoFile \notin Handle

HostTypeOK ==
  /\ version \in {"code", "14112022_1830"}
  /\ dir \in [Name -> Inode \cup {NoFile}]
  /\ data \in [Inode -> Seq(Byte)]
  /\ \A i \in Inode : Len(data[i]) <= MaxLength
  /\ hostOffset \in [Fd -> Descriptor \cup {NoFile}]
  /\ open \in [Object -> OpenFile \cup {NoFile}]

HostInit ==
  /\ version \in {"code", "14112022_1830"}
  /\ dir = [n \in Name |-> NoFile]
  /\ data = [i \in Inode |-> <<>>]
  /\ hostOffset = [f \in Fd |-> NoFile]
  /\ open = [o \in Object |-> NoFile]
  /\ result = <<"none", 0>>

----------------------------------------------------------------------------
(* UNIX: a file lives while it has a name or is open; read and write start *)
(* at the descriptor's offset and move it.                                 *)
InUse(i) ==
  \/ \E n \in Name : dir[n] = i
  \/ \E f \in Fd : hostOffset[f] # NoFile /\ hostOffset[f].inode = i
Lesser(a, b) == IF a < b THEN a ELSE b
Part(s, at, n) == SubSeq(s, at + 1, Lesser(at + n, Len(s)))
Overlaid(s, at, bytes) ==
  [k \in 1 .. (IF at + Len(bytes) > Len(s) THEN at + Len(bytes) ELSE Len(s)) |->
     IF k > at /\ k <= at + Len(bytes) THEN bytes[k - at]
     ELSE IF k <= Len(s) THEN s[k] ELSE NUL]

(* Lseek to an absolute position, and ReadPartial and WriteFile there: the *)
(* bytes, the contents, and the offsets afterwards.                        *)
Lseek(f, at) == [hostOffset EXCEPT ![f].at = at]
File(o) == open[o].file
Content(o) == data[hostOffset[File(o)].inode]
ReadPartial(o, at, n) == Part(Content(o), at, n)
WriteFile(o, at, bytes) ==
  [data EXCEPT ![hostOffset[File(o)].inode] = IF bytes = <<>> THEN @ ELSE Overlaid(@, at, bytes)]

----------------------------------------------------------------------------
(* FileSystem::Create: OpenForWrite cuts an old file to nothing or makes a *)
(* new one; the descriptor is closed at once.                              *)
CreateFile(n) ==
  /\ \E f \in Fd : hostOffset[f] = NoFile
  /\ \E i \in Inode : /\ IF dir[n] # NoFile THEN i = dir[n] ELSE ~InUse(i)
                      /\ dir' = [dir EXCEPT ![n] = i]
                      /\ data' = [data EXCEPT ![i] = <<>>]
  /\ result' = <<"Create", TRUE>>
  /\ UNCHANGED <<version, hostOffset, open>>

(* FileSystem::Remove: Unlink returns an error number as a bool.           *)
Unlink(n) ==
  /\ dir' = [dir EXCEPT ![n] = NoFile]
  /\ result' = <<"Remove", dir[n] # NoFile>>
  /\ UNCHANGED <<version, data, hostOffset, open>>

(* FileSystem::Open, OpenForReadWrite: the lowest free descriptor and a    *)
(* new object, or NULL if there is no such file.                           *)
LowestFree(f) == hostOffset[f] = NoFile /\ \A g \in Fd : hostOffset[g] = NoFile => f <= g
OpenNamed(o, n) ==
  /\ open[o] = NoFile
  /\ IF dir[n] = NoFile THEN UNCHANGED <<hostOffset, open>>
     ELSE \E f \in Fd :
            /\ LowestFree(f)
            /\ hostOffset' = [hostOffset EXCEPT ![f] = [inode |-> dir[n], at |-> 0]]
            /\ open' = [open EXCEPT ![o] = [file |-> f, currentOffset |-> 0]]
  /\ result' = <<"Open", dir[n] # NoFile>>
  /\ UNCHANGED <<version, dir, data>>

(* ~OpenFile                                                               *)
CloseFile(o) ==
  /\ open[o] # NoFile
  /\ hostOffset' = [hostOffset EXCEPT ![File(o)] = NoFile]
  /\ open' = [open EXCEPT ![o] = NoFile]
  /\ result' = <<"Close", 0>>
  /\ UNCHANGED <<version, dir, data>>

(* Where ReadAt and WriteAt start: where Lseek has put the host's offset.  *)
(* (A faulty one relies on the hostOffset being there already.)                *)
Unmoved(o, position) == hostOffset[File(o)].at
Moved(o, position) == position

LseekRead(o, n, position) ==
  LET at == Moved(o, position)
      bytes == ReadPartial(o, at, n)
  IN  [bytes |-> bytes, offsets |-> Lseek(File(o), at + Len(bytes))]

(* ReadAt on its own is what AddrSpace::Load uses.                         *)
ReadAt(o, n, position) ==
  /\ open[o] # NoFile
  /\ result' = <<"ReadAt", LseekRead(o, n, position).bytes>>
  /\ hostOffset' = LseekRead(o, n, position).offsets
  /\ UNCHANGED <<version, dir, data, open>>
Read(o, n) ==
  /\ open[o] # NoFile
  /\ LET read == LseekRead(o, n, open[o].currentOffset)
     IN  /\ result' = <<"Read", read.bytes>>
         /\ hostOffset' = read.offsets
         /\ open' = [open EXCEPT ![o].currentOffset = @ + Len(read.bytes)]
  /\ UNCHANGED <<version, dir, data>>

(* WriteAt, which only Write calls.                                        *)
WriteAt(o, bytes, position) ==
  LET at == Moved(o, position)
  IN  /\ at + Len(bytes) <= MaxLength
      /\ data' = WriteFile(o, at, bytes)
      /\ hostOffset' = Lseek(File(o), at + Len(bytes))
Write(o, bytes) ==
  /\ open[o] # NoFile
  /\ WriteAt(o, bytes, open[o].currentOffset)
  /\ open' = [open EXCEPT ![o].currentOffset = @ + Len(bytes)]
  /\ result' = <<"Write", Len(bytes)>>
  /\ UNCHANGED <<version, dir>>

Seek(o, pos) ==
  /\ version # "code" /\ open[o] # NoFile
  /\ hostOffset' = Lseek(File(o), pos)
  /\ open' = [open EXCEPT ![o].currentOffset = pos]
  /\ result' = <<"Seek", pos>>
  /\ UNCHANGED <<version, dir, data>>

(* Length goes to the end to see where that is, and in the later version   *)
(* back to currentOffset.                                                  *)
Length(o) ==
  /\ open[o] # NoFile
  /\ result' = <<"Length", Len(Content(o))>>
  /\ hostOffset' = Lseek(File(o), IF version = "code" THEN Len(Content(o)) ELSE open[o].currentOffset)
  /\ UNCHANGED <<version, dir, data, open>>

HostNext ==
  \/ \E n \in Name : CreateFile(n) \/ Unlink(n) \/ \E o \in Object : OpenNamed(o, n)
  \/ \E o \in Object :
       \/ CloseFile(o) \/ Length(o)
       \/ \E p \in 0 .. MaxLength : Seek(o, p) \/ \E n \in Size : ReadAt(o, n, p)
       \/ \E n \in Size : Read(o, n) \/ \E bytes \in [1 .. n -> Byte] : Write(o, bytes)

HostSpec == HostInit /\ [][HostNext]_hostFileVars

----------------------------------------------------------------------------
(* Each object owns its descriptor, and no descriptor is open without an   *)
(* object (Create and ~OpenFile close theirs).                             *)
OwnDescriptors ==
  /\ \A o, p \in Object : open[o] # NoFile /\ open[p] # NoFile /\ o # p => File(o) # File(p)
  /\ {f \in Fd : hostOffset[f] # NoFile} = {File(o) : o \in {p \in Object : open[p] # NoFile}}

(* However the objects are used side by side on the same file, each one's  *)
(* Read, Write and Length do what they would if it were alone, at the      *)
(* position it left itself: the host's offsets never show.                 *)
HandleOf(o) ==
  IF open[o] = NoFile THEN NoFile
  ELSE [inode |-> hostOffset[File(o)].inode, pos |-> open[o].currentOffset]
Files == INSTANCE PositionedFiles WITH handle <- [o \in Object |-> HandleOf(o)]
ImplementsFiles == Files!FilesSpec
=============================================================================
