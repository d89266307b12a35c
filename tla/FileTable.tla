----------------------------- MODULE FileTable ------------------------------
(* The file system calls of a user program: the branches of                *)
(* ExceptionHandler (userprog/exception.cc) on the table of open files of  *)
(* the stub file system (filesys/filesys.h, filesys/openfile.h), which     *)
(* passes everything on to UNIX files.                                     *)
(*                                                                         *)
(* A file is its length; what the bytes are is left out.  OpenFile::type   *)
(* is 0 whatever type Open is given, so the branches for read-only files   *)
(* and for the console (types 1 to 3) are never taken.                     *)
EXTENDS Integers, FiniteSets

CONSTANTS Name,       \* names the program uses for files
          Inode,      \* UNIX files
          NoInode, NoFile,
          MaxSlot,    \* the last slot of the table (9 in the code)
          MaxLength,  \* bound on the length of a file (guards Write)
          MaxIndex    \* bound on index (guards the calls that open)

ASSUME FileTableAssumption ==
  /\ NoInode \notin Inode
  /\ MaxSlot \in Nat /\ MaxSlot >= 3
  /\ MaxLength \in Nat /\ MaxIndex \in Nat

VARIABLES
  dir,      \* the UNIX directory: the file behind each name
  length,   \* the length of each UNIX file
  opened,   \* FileSystem::opened
  index,    \* FileSystem::index
  r2,       \* the result register
  again     \* did the handler return without IncreasePC?

unix == <<dir, length>>
table == <<opened, index>>
vars == <<unix, table, r2, again>>

Slot == 0 .. MaxSlot
Std == {"stdin", "stdout"}        \* the files of those names
File == Inode \cup Std
OpenFile == [inode : File, pos : Nat]      \* currentOffset

(* FileSystem::FileSystem: opened[index++] = Open(...), where Open counts  *)
(* in index as well.  Whether the slot is taken before or after Open runs  *)
(* is up to the compiler, so the two files are in slots 0 and 2 or in 1    *)
(* and 3, and index is 4.  AddrSpace::Load opens the program and never     *)
(* gives that count back.                                                  *)
StdTable(first) ==
  [s \in Slot |-> CASE s = first -> [inode |-> "stdin", pos |-> 0]
                    [] s = first + 2 -> [inode |-> "stdout", pos |-> 0]
                    [] OTHER -> NoFile]

Init ==
  /\ dir = [n \in Name |-> NoInode]
  /\ length = [f \in File |-> 0]
  /\ \E first \in {0, 1} : opened = StdTable(first)
  /\ index = 4 + 1
  /\ r2 = 0 /\ again = FALSE

OpenSlots == {s \in Slot : opened[s] # NoFile}
InUse(i) == (\E n \in Name : dir[n] = i) \/ (\E s \in OpenSlots : opened[s].inode = i)

Result(v) == r2' = v /\ again' = FALSE
Failed == Result(-1)

(* SC_Create, OpenForWrite: a new empty file, or an old one cut to nothing *)
Create(n) ==
  /\ IF dir[n] # NoInode
     THEN length' = [length EXCEPT ![dir[n]] = 0] /\ UNCHANGED dir
     ELSE \E i \in Inode : /\ ~InUse(i)
                           /\ dir' = [dir EXCEPT ![n] = i]
                           /\ length' = [length EXCEPT ![i] = 0]
  /\ Result(0)
  /\ UNCHANGED table

CreateNameless == Failed /\ UNCHANGED <<unix, table>>

(* FindSlot.  (A faulty one goes by index.)                                *)
SlotAtIndex == IF index <= MaxSlot THEN index ELSE -1
FindSlot ==
  LET free == {s \in 2 .. MaxSlot : opened[s] = NoFile}
  IN  IF free = {} THEN -1 ELSE CHOOSE s \in free : \A u \in free : s <= u

(* FileSystem::Open counts even when there is no such file; the slot gets  *)
(* what it returns.                                                        *)
OpenInSlot(slot, n) ==
  /\ index < MaxIndex
  /\ index' = index + 1
  /\ IF dir[n] = NoInode
     THEN opened' = [opened EXCEPT ![slot] = NoFile] /\ Failed
     ELSE opened' = [opened EXCEPT ![slot] = [inode |-> dir[n], pos |-> 0]] /\ Result(slot)
  /\ UNCHANGED unix

(* SC_Open                                                                 *)
Open(n, type) ==
  IF FindSlot = -1 \/ type \notin 0 .. 3
  THEN Failed /\ UNCHANGED <<unix, table>>
  ELSE IF type \in {0, 1}
  THEN OpenInSlot(FindSlot, n)
  ELSE Result(type - 2) /\ UNCHANGED <<unix, table>>

(* SC_Close                                                                *)
Close(id) ==
  IF id \in OpenSlots
  THEN opened' = [opened EXCEPT ![id] = NoFile] /\ index' = index - 1 /\ Result(0) /\ UNCHANGED unix
  ELSE Failed /\ UNCHANGED <<unix, table>>

Lesser(a, b) == IF a < b THEN a ELSE b

(* SC_Read: the error branches return without IncreasePC, so the system    *)
(* call is executed again, with -1 in r2 for its number.                   *)
Read(id, n) ==
  IF id \notin OpenSlots
  THEN r2' = -1 /\ again' = TRUE /\ UNCHANGED <<unix, table>>
  ELSE LET f == opened[id]
           k == IF f.pos < length[f.inode] THEN Lesser(n, length[f.inode] - f.pos) ELSE 0
       IN  /\ opened' = [opened EXCEPT ![id].pos = f.pos + k]
           /\ Result(IF k > 0 THEN k ELSE -2)
           /\ UNCHANGED <<unix, index>>

(* The second time round: "Unexpected system call", which leaves r2 alone. *)
Unexpected ==
  /\ again
  /\ Result(r2)
  /\ UNCHANGED <<unix, table>>

(* SC_Write.  Writing nothing falls through to SC_Open, which takes the    *)
(* buffer for a file name and the size, 0, for a type.                     *)
Write(id, n, name) ==
  IF id \notin OpenSlots
  THEN Failed /\ UNCHANGED <<unix, table>>
  ELSE IF n = 0
  THEN Open(name, 0)
  ELSE LET f == opened[id]
           end == f.pos + n
       IN  /\ end <= MaxLength
           /\ length' = [length EXCEPT ![f.inode] = IF end > @ THEN end ELSE @]
           /\ opened' = [opened EXCEPT ![id].pos = end]
           /\ Result(n)
           /\ UNCHANGED <<dir, index>>

(* SC_Seek (positions below -1 fail the ASSERT of Lseek).                  *)
Seek(pos, id) ==
  IF id < 2 \/ id > index \/ id \notin OpenSlots
  THEN Failed /\ UNCHANGED <<unix, table>>
  ELSE LET len == length[opened[id].inode]
           target == IF pos = -1 THEN len ELSE pos
       IN  IF pos > len
           THEN Failed /\ UNCHANGED <<unix, table>>
           ELSE /\ opened' = [opened EXCEPT ![id].pos = target]
                /\ Result(target)
                /\ UNCHANGED <<unix, index>>

(* SC_Remove reports success even if there is no such file.                *)
Remove(n) ==
  /\ dir' = [dir EXCEPT ![n] = NoInode]
  /\ Result(1)
  /\ UNCHANGED <<length, table>>

Call ==
  \/ \E n \in Name : Create(n) \/ Remove(n) \/ (\E type \in 0 .. 4 : Open(n, type))
  \/ CreateNameless
  \/ \E id \in Slot : Close(id)
  \/ \E id \in Slot, n \in 0 .. MaxLength :
       Read(id, n) \/ (\E name \in Name : Write(id, n, name))
  \/ \E id \in Slot, pos \in -1 .. MaxLength + 1 : Seek(pos, id)

Next == (~again /\ Call) \/ Unexpected

Spec == Init /\ [][Next]_vars

----------------------------------------------------------------------------
(* Properties.                                                             *)

TypeOK ==
  /\ dir \in [Name -> Inode \cup {NoInode}]
  /\ length \in [File -> 0 .. MaxLength]
  /\ opened \in [Slot -> OpenFile \cup {NoFile}]
  /\ index \in Nat
  /\ r2 \in Int /\ again \in BOOLEAN

(* A call that fails leaves the files and the open files alone, and its    *)
(* result is still in r2 after the second execution of the instruction.    *)
FailureHarmless ==
  /\ r2' = -1 => UNCHANGED <<dir, length, opened>>
  /\ again => r2' = -1

(* Opening a file takes a slot that was free: no other descriptor changes, *)
(* and none is overwritten.  No call moves two descriptors.                *)
OpenTakesFreeSlot ==
  \A s \in Slot :
    /\ opened'[s] # NoFile /\ (opened[s] = NoFile \/ opened[s].inode # opened'[s].inode) =>
         opened[s] = NoFile /\ r2' = s
    /\ opened'[s] # opened[s] => \A u \in Slot \ {s} : opened'[u] = opened[u]

(* The calls of a program, in any order and with any arguments, keep       *)
(* within what they are given.                                             *)
CallContained == FailureHarmless /\ OpenTakesFreeSlot

(* "Set the seek position of the open file" (syscall.h): an open file can  *)
(* be sought in, that is, its id is not beyond index.                      *)
OpenFilesSeekable == \A s \in OpenSlots : s <= index
=============================================================================
