--------------------------- MODULE PositionedFiles --------------------------
(* What class OpenFile promises (filesys/openfile.h): a handle on a file,  *)
(* with a position of its own that only its own Read, Write and Seek move, *)
(* whatever else is open on the same file.  A file without a name lives on *)
(* while a handle is open on it.                                           *)
EXTENDS Integers, Sequences

CONSTANTS Name, Inode, Object, Byte, NUL, NoFile,
          Size,        \* the numbers of bytes that callers ask for
          MaxLength    \* bound on the length of a file

VARIABLES dir,         \* the file behind each name
          data,        \* the bytes of each file
          handle,      \* the file and the position of each open object
          result       \* the last call and what it returned

filesVars == <<dir, data, handle, result>>

Handle == [inode : Inode, pos : 0 .. MaxLength]

FilesInit ==
  /\ dir = [n \in Name |-> NoFile]
  /\ data = [i \in Inode |-> <<>>]
  /\ handle = [o \in Object |-> NoFile]
  /\ result = <<"none", 0>>

Used(i) ==
  \/ \E n \in Name : dir[n] = i
  \/ \E o \in Object : handle[o] # NoFile /\ handle[o].inode = i

(* At most n bytes of s from position pos on, and s with bytes laid over   *)
(* it there; what lies between the end of s and pos reads as NUL.          *)
Lesser(a, b) == IF a < b THEN a ELSE b
Part(s, pos, n) == SubSeq(s, pos + 1, Lesser(pos + n, Len(s)))
Overlaid(s, pos, bytes) ==
  [k \in 1 .. (IF pos + Len(bytes) > Len(s) THEN pos + Len(bytes) ELSE Len(s)) |->
     IF k > pos /\ k <= pos + Len(bytes) THEN bytes[k - pos]
     ELSE IF k <= Len(s) THEN s[k] ELSE NUL]

Create(n) ==
  /\ result' = <<"Create", TRUE>>
  /\ \E i \in Inode : /\ IF dir[n] # NoFile THEN i = dir[n] ELSE ~Used(i)
                      /\ dir' = [dir EXCEPT ![n] = i]
                      /\ data' = [data EXCEPT ![i] = <<>>]
  /\ UNCHANGED handle

Remove(n) ==
  /\ result' = <<"Remove", dir[n] # NoFile>>
  /\ dir' = [dir EXCEPT ![n] = NoFile]
  /\ UNCHANGED <<data, handle>>

Open(o, n) ==
  /\ result' = <<"Open", dir[n] # NoFile>>
  /\ handle[o] = NoFile
  /\ handle' = [handle EXCEPT ![o] =
                  IF dir[n] = NoFile THEN NoFile ELSE [inode |-> dir[n], pos |-> 0]]
  /\ UNCHANGED <<dir, data>>

(* The calls on a handle that is open.                                     *)
Opened == {o \in Object : handle[o] # NoFile}

Close(o) ==
  /\ result' = <<"Close", 0>>
  /\ handle' = [handle EXCEPT ![o] = NoFile]
  /\ UNCHANGED <<dir, data>>

ReadAt(o, n, pos) ==
  /\ result' = <<"ReadAt", Part(data[handle[o].inode], pos, n)>>
  /\ UNCHANGED <<dir, data, handle>>

Read(o, n) ==
  LET bytes == Part(data[handle[o].inode], handle[o].pos, n)
  IN  /\ result' = <<"Read", bytes>>
      /\ handle' = [handle EXCEPT ![o].pos = @ + Len(bytes)]
      /\ UNCHANGED <<dir, data>>

Write(o, bytes) ==
  /\ result' = <<"Write", Len(bytes)>>
  /\ handle[o].pos + Len(bytes) <= MaxLength
  /\ data' = [data EXCEPT ![handle[o].inode] =
                IF bytes = <<>> THEN @ ELSE Overlaid(@, handle[o].pos, bytes)]
  /\ handle' = [handle EXCEPT ![o].pos = @ + Len(bytes)]
  /\ UNCHANGED dir

Seek(o, pos) ==
  /\ result' = <<"Seek", pos>>
  /\ handle' = [handle EXCEPT ![o].pos = pos]
  /\ UNCHANGED <<dir, data>>

Length(o) ==
  /\ result' = <<"Length", Len(data[handle[o].inode])>>
  /\ UNCHANGED <<dir, data, handle>>

FilesNext ==
  \/ \E n \in Name : Create(n) \/ Remove(n) \/ \E o \in Object : Open(o, n)
  \/ \E o \in Opened :
       \/ Close(o) \/ Length(o)
       \/ \E p \in 0 .. MaxLength : Seek(o, p) \/ \E n \in Size : ReadAt(o, n, p)
       \/ \E n \in Size : Read(o, n) \/ \E bytes \in [1 .. n -> Byte] : Write(o, bytes)

FilesSpec == FilesInit /\ [][FilesNext]_filesVars
=============================================================================
