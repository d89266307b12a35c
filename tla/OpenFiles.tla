------------------------------ MODULE OpenFiles -------------------------------
(* The file system calls as the snapshot phna_13112022 has them: the       *)
(* branches of its ExceptionHandler (userprog/exception.cc) on the table   *)
(* openf of its stub file system (filesys/filesys.h).  Here Open keeps the *)
(* type it is given, slots 0 and 1 are the console and every branch ends   *)
(* in IncreasePC, but files can be neither removed nor sought in freely.   *)
(*                                                                         *)
(* A file is the sequence of its bytes.  No call unbinds a name, so a file *)
(* is known by its name.  What is typed and shown is nondeterministic; how *)
(* the console reads and writes is the matter of SynchConsole.             *)
EXTENDS Integers, FiniteSets, SequencesExt

CONSTANTS Name,          \* names the program uses for files
          NoFile,
          LastSlot,      \* the last slot of openf (14 in the code)
          LastClosable,  \* the last slot that Close accepts (9 in the code)
          BufferLength,  \* the size of the program's buffer
          MaxLength,     \* bound on the length of a file (guards Write)
          MaxLine        \* bound on the length of a line typed

VARIABLES
  files,    \* the UNIX directory: the bytes behind each name
  openf,    \* FileSystem::openf
  buffer,   \* the program's buffer
  r2        \* the result register; at the call it holds the call's number

vars == <<files, openf, buffer, r2>>

(* Characters; only which of the three they are matters.                  *)
NUL == 0
Newline == 1
Letter == 2
Byte == {NUL, Newline, Letter}

Slot == 0 .. LastSlot
Path == Name \cup {"stdin", "stdout"}
ReadWrite == 0
ReadOnly == 1
Stdin == 2
Stdout == 3

(* FileSystem::index: 2 after the constructor, and nothing counts in it    *)
(* afterwards.                                                             *)
index == 2

(* OpenFile::OpenFile(f, t); asked remembers the type of the call Open.     *)
NewOpenFile(path, type) == [path |-> path, type |-> type, pos |-> 0, asked |-> type]

(* FileSystem::FileSystem: both console files are created, cut to nothing, *)
(* and opened.                                                             *)
Init ==
  /\ files = [p \in Path |-> IF p \in Name THEN NoFile ELSE <<>>]
  /\ openf = [s \in Slot |-> CASE s = 0 -> NewOpenFile("stdin", Stdin)
                               [] s = 1 -> NewOpenFile("stdout", Stdout)
                               [] OTHER -> NoFile]
  /\ buffer \in [1 .. BufferLength -> {NUL, Letter}]
  /\ r2 = 0

OpenSlots == {s \in Slot : openf[s] # NoFile}
Content(s) == files[openf[s].path]

Return(v) == r2' = v
Failed == Return(-1) /\ UNCHANGED <<files, openf, buffer>>

----------------------------------------------------------------------------
(* The program's memory.  User2System copies up to a NUL or the limit into *)
(* a buffer of zeros, System2User copies back up to a NUL, included.       *)
ThroughNUL(bytes) ==
  LET nul == {i \in DOMAIN bytes : bytes[i] = NUL}
  IN  IF nul = {} THEN bytes
      ELSE SubSeq(bytes, 1, CHOOSE i \in nul : \A j \in nul : i <= j)

User2System(limit) ==
  LET text == ThroughNUL(SubSeq(buffer, 1, limit))
  IN  [i \in 1 .. limit + 1 |-> IF i <= Len(text) THEN text[i] ELSE NUL]

System2User(bytes) ==
  LET copied == Len(ThroughNUL(bytes))
  IN  [i \in 1 .. BufferLength |-> IF i <= copied THEN bytes[i] ELSE buffer[i]]

(* bytes laid over old from position pos (0 the first); a gap reads NUL.   *)
Patched(old, pos, bytes) ==
  [i \in 1 .. (IF pos + Len(bytes) > Len(old) THEN pos + Len(bytes) ELSE Len(old)) |->
     IF i > pos /\ i <= pos + Len(bytes) THEN bytes[i - pos]
     ELSE IF i <= Len(old) THEN old[i] ELSE NUL]

(* What the user types: the characters before the newline or NUL.          *)
Lines == UNION {[1 .. k -> {Letter}] : k \in 0 .. MaxLine}

----------------------------------------------------------------------------
(* SC_CreateFile                                                           *)
CreateFile(p) ==
  /\ files' = [files EXCEPT ![p] = <<>>]
  /\ Return(0)
  /\ UNCHANGED <<openf, buffer>>
CreateNameless == Failed

FindFreeSlot ==
  LET free == {s \in 2 .. LastSlot : openf[s] = NoFile}
  IN  IF free = {} THEN -1 ELSE CHOOSE s \in free : \A u \in free : s <= u

(* SC_Open.  (A faulty one opens every file for reading and writing.)      *)
ForgottenType(type) == ReadWrite
StoredType(type) == type

Open(p, type) ==
  IF FindFreeSlot = -1 \/ type \notin 0 .. 3 THEN Failed
  ELSE IF type \in {Stdin, Stdout}
  THEN Return(type - 2) /\ UNCHANGED <<files, openf, buffer>>
  ELSE IF files[p] = NoFile THEN Failed
  ELSE /\ openf' = [openf EXCEPT ![FindFreeSlot] =
                      [NewOpenFile(p, StoredType(type)) EXCEPT !.asked = type]]
       /\ Return(FindFreeSlot)
       /\ UNCHANGED <<files, buffer>>

(* SC_Close: slots behind LastClosable stay open for good.                 *)
Close(id) ==
  IF id \in OpenSlots /\ id <= LastClosable
  THEN openf' = [openf EXCEPT ![id] = NoFile] /\ Return(0) /\ UNCHANGED <<files, buffer>>
  ELSE Failed

(* SC_Seek (positions below -1 fail the ASSERT of Lseek).                  *)
Seek(pos, id) ==
  IF id < 2 \/ id > index \/ id \notin OpenSlots \/ pos > Len(Content(id))
  THEN Failed
  ELSE LET target == IF pos = -1 THEN Len(Content(id)) ELSE pos
       IN  /\ openf' = [openf EXCEPT ![id].pos = target]
           /\ Return(target)
           /\ UNCHANGED <<files, buffer>>

(* SC_Read.  A line longer than n + 1 characters overruns the kernel's     *)
(* buffer and is left out.  Of bytes with a NUL among them only those up   *)
(* to the NUL reach the program, whatever the result says.                 *)
ReadConsole(n) ==
  \E line \in Lines :
    /\ Len(line) <= n
    /\ buffer' = System2User(line)
    /\ Return(Len(line))
    /\ UNCHANGED <<files, openf>>

ReadFile(id, n) ==
  LET f == openf[id]
      read == SubSeq(Content(id), f.pos + 1,
                     IF f.pos + n < Len(Content(id)) THEN f.pos + n ELSE Len(Content(id)))
  IN  IF read = <<>> THEN Return(-2) /\ UNCHANGED <<files, openf, buffer>>
      ELSE /\ openf' = [openf EXCEPT ![id].pos = f.pos + Len(read)]
           /\ buffer' = System2User(read)
           /\ Return(Len(read))
           /\ UNCHANGED files

Read(id, n) ==
  IF id \notin OpenSlots \/ openf[id].type = Stdout THEN Failed
  ELSE IF openf[id].type = Stdin THEN ReadConsole(n) ELSE ReadFile(id, n)

(* default: "Unexpected system call", which leaves the call's number in r2 *)
SC_Remove == 5
SC_Write == 8
Unexpected(code) == Return(code) /\ UNCHANGED <<files, openf, buffer>>

(* SC_Write.  To the console goes the text before a newline or NUL, then a *)
(* newline; the result is one less than that text's length.  Writing       *)
(* nothing to a file falls through to default.                             *)
WriteConsole(n) ==
  LET buf == User2System(n)
      end == CHOOSE i \in DOMAIN buf :
               buf[i] \in {NUL, Newline} /\ \A j \in 1 .. i - 1 : buf[j] \notin {NUL, Newline}
  IN  Return(end - 2) /\ UNCHANGED <<files, openf, buffer>>

WriteFile(id, n) ==
  LET f == openf[id]
  IN  IF n = 0 THEN Unexpected(SC_Write)
      ELSE /\ f.pos + n <= MaxLength
           /\ files' = [files EXCEPT ![f.path] = Patched(@, f.pos, SubSeq(User2System(n), 1, n))]
           /\ openf' = [openf EXCEPT ![id].pos = f.pos + n]
           /\ Return(n)
           /\ UNCHANGED buffer

Write(id, n) ==
  IF id \notin OpenSlots \/ openf[id].type \in {ReadOnly, Stdin} THEN Failed
  ELSE IF openf[id].type = Stdout THEN WriteConsole(n) ELSE WriteFile(id, n)

(* The calls on the console alone.  ReadString has a do-while that stores  *)
(* the newline as well.  PrintNum leaves its call's number in r2.          *)
SC_PrintNum == 44
PrintString == Return(0) /\ UNCHANGED <<files, openf, buffer>>
ReadString(limit) ==
  \E line \in Lines :
    /\ Len(line) <= limit
    /\ buffer' = System2User(SubSeq(Patched(User2System(limit), 0, Append(line, Newline)), 1, limit))
    /\ Return(0)
    /\ UNCHANGED <<files, openf>>
OneCharacter == (\E c \in Byte : Return(c)) /\ UNCHANGED <<files, openf, buffer>>
OneNumber == (\E n \in {-1, 0, 1} : Return(n)) /\ UNCHANGED <<files, openf, buffer>>

(* The program fills its buffer.                                           *)
Fill == \E i \in 1 .. BufferLength, b \in Byte :
  buffer' = [buffer EXCEPT ![i] = b] /\ UNCHANGED <<files, openf, r2>>

Next ==
  \/ \E p \in Name : CreateFile(p) \/ (\E type \in 0 .. 4 : Open(p, type))
  \/ CreateNameless \/ Unexpected(SC_Remove) \/ Unexpected(SC_PrintNum)
  \/ \E id \in Slot : Close(id) \/ (\E pos \in -1 .. MaxLength + 1 : Seek(pos, id))
  \/ \E id \in Slot, n \in 0 .. BufferLength : Read(id, n) \/ Write(id, n)
  \/ PrintString \/ (\E n \in 0 .. BufferLength : ReadString(n))
  \/ OneCharacter \/ OneNumber \/ Fill

Spec == Init /\ [][Next]_vars

----------------------------------------------------------------------------
(* Properties.                                                             *)

(* A call that returns -1 leaves the files and the open files alone.       *)
FailureHarmless == r2' = -1 => UNCHANGED <<files, openf>>

(* A file opened with type 1 is not written through that descriptor: when  *)
(* a file changes, other than by being cut to nothing, it is by a          *)
(* descriptor opened with type 0, between its old and its new position,    *)
(* and the result is the number of bytes.  No call moves two descriptors,  *)
(* takes a slot in use, or touches the files behind the console.           *)
AccessExact ==
  /\ \A p \in Path : files'[p] \notin {files[p], <<>>} =>
       \E s \in OpenSlots :
         /\ openf[s].path = p /\ openf[s].asked = ReadWrite
         /\ r2' = openf'[s].pos - openf[s].pos
         /\ \A i \in DOMAIN files[p] :
              files'[p][i] # files[p][i] => i > openf[s].pos /\ i <= openf'[s].pos
         /\ \A i \in DOMAIN files'[p] : i > Len(files[p]) =>
              i > openf[s].pos \/ files'[p][i] = NUL
  /\ files'["stdin"] = <<>> /\ files'["stdout"] = <<>>
  /\ \A s, u \in Slot : openf'[s] # openf[s] /\ openf'[u] # openf[u] => s = u
  /\ \A s \in OpenSlots : openf'[s] # NoFile =>
       openf'[s].path = openf[s].path /\ openf'[s].asked = openf[s].asked
=============================================================================
