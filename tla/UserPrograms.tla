----------------------------- MODULE UserPrograms -----------------------------
(* The user programs of test/ that use files, as they run on the calls of  *)
(* FileTable: Nachos starts, runs one program (nachos -x) on any files     *)
(* that earlier ones left, and halts.  A step of a program is one system   *)
(* call.  To the lengths of FileTable this module adds the bytes.          *)
(*                                                                         *)
(* The programs read a file through "char *c", which nothing sets.  The    *)
(* registers and the stack start as zeros, so it is address 0, where a     *)
(* byte fits: behind it is a zero byte of start.S, so the byte read is a   *)
(* string of at most one character.                                        *)
EXTENDS FileTable, Sequences

LOCAL Seqs == INSTANCE SequencesExt

CONSTANTS Testr,     \* the name "testr.txt"
          Arrays     \* arrays to sort

VARIABLES
  bytes,    \* the bytes of each UNIX file
  job       \* the program that runs

programsVars == <<dir, length, opened, index, r2, again, bytes, job>>

NUL == 0
Letter == 120
Byte == {NUL, Letter}

(* at: the call to make next; src, dst: the names typed in; srcId, dstId,  *)
(* i, size, c: the variables of main; shown: what PrintString(c) showed;   *)
(* before: the files as the program found them.                            *)
NoJob == [program |-> "none", at |-> "halted"]
Started(program, src, dst) ==
  [program |-> program, at |-> "open", src |-> src, dst |-> dst, srcId |-> 0, dstId |-> 0,
   i |-> 0, size |-> 0, c |-> NUL, shown |-> <<>>,
   before |-> [n \in Name |-> IF dir[n] = NoInode THEN <<-1>> ELSE bytes[dir[n]]]]
Programs == {"copy", "cat", "concatenate", "createfile", "delete", "testr", "testc"}

(* Any files may be there.                                                 *)
ProgramsInit ==
  /\ dir \in {d \in [Name -> Inode \cup {NoInode}] :
                \A m, n \in Name : m # n /\ d[m] = d[n] => d[m] = NoInode}
  /\ bytes \in {b \in [File -> UNION {[1 .. k -> Byte] : k \in 0 .. 2}] :
                  \A f \in File : b[f] # <<>> => \E n \in Name : dir[n] = f}
  /\ length = [f \in File |-> Len(bytes[f])]
  /\ opened = [s \in Slot |-> NoFile] /\ index = 0
  /\ r2 = 0 /\ again = FALSE
  /\ job = NoJob

(* Kernel::Initialize, AddrSpace::Load, start.S and the start of main: the *)
(* names are typed in.  The console files are cut to nothing.              *)
Start(program, src, dst) ==
  /\ job = NoJob
  /\ \E first \in {0, 1} : opened' = StdTable(first)
  /\ index' = 4 + 1
  /\ job' = Started(program, src, dst)
  /\ UNCHANGED <<dir, length, r2, again, bytes>>

(* A file that is cut or is new has no bytes.                              *)
CutBytes == bytes' = [f \in File |-> IF length'[f] = 0 THEN <<>> ELSE bytes[f]]

Goto(at) == job' = [job EXCEPT !.at = at]
Make(call, at) == call /\ UNCHANGED bytes /\ Goto(at)

(* createfile.c, delete.c                                                  *)
RunCreate ==
  /\ job.program = "createfile" /\ job.at = "open"
  /\ Create(job.src) /\ CutBytes /\ Goto("exit")
RunDelete ==
  /\ job.program = "delete" /\ job.at = "open"
  /\ Make(Remove(job.src), "exit")

(* copy.c, cat.c, concatenate.c, testr.c, testc.c: "if ((id = Open(...))   *)
(* == -1)" prints a message and returns (testr and testc call Close(-1)    *)
(* before).                                                                *)
Reads == {"copy", "cat", "concatenate", "testr", "testc"}
OpenedName == IF job.program = "testr" THEN Testr ELSE job.src
OpenSource ==
  /\ job.program \in Reads /\ job.at = "open"
  /\ Open(OpenedName, IF job.program \in {"testr", "testc"} THEN 1 ELSE 0)
  /\ UNCHANGED bytes
  /\ job' = [job EXCEPT !.srcId = r2',
                        !.at = IF r2' = -1
                               THEN IF job.program \in {"testr", "testc"} THEN "close source" ELSE "exit"
                               ELSE CASE job.program = "copy" -> "create"
                                      [] job.program = "concatenate" -> "open destination"
                                      [] job.program = "testr" -> "remove"
                                      [] OTHER -> "end of source"]

RunRemove == job.at = "remove" /\ Make(Remove(job.src), "close source")

(* copy.c: Create(dst); dstId = Open(dst, 1).  concatenate.c: Open(dst, 0) *)
CreateDestination ==
  /\ job.at = "create"
  /\ Create(job.dst) /\ CutBytes /\ Goto("open destination")
OpenDestination ==
  /\ job.at = "open destination"
  /\ Open(job.dst, IF job.program = "copy" THEN 1 ELSE 0)
  /\ UNCHANGED bytes
  /\ job' = [job EXCEPT !.dstId = r2',
                        !.at = IF job.program # "concatenate" THEN "end of source"
                               ELSE IF r2' = -1 THEN "exit" ELSE "end of destination"]

(* The positions: the file that is read is sought to its end, for its      *)
(* size, and back; the one that is written is sought to its end.           *)
ReadId == IF job.program = "concatenate" THEN job.dstId ELSE job.srcId
WriteId == IF job.program = "concatenate" THEN job.srcId ELSE job.dstId

EndOfRead ==
  /\ job.at = (IF job.program = "concatenate" THEN "end of destination" ELSE "end of source")
  /\ Seek(-1, ReadId) /\ UNCHANGED bytes
  /\ job' = [job EXCEPT !.size = r2',
                        !.at = IF job.program = "testc" THEN "close source" ELSE "rewind"]
Rewind ==
  /\ job.at = "rewind"
  /\ Seek(0, ReadId) /\ UNCHANGED bytes
  /\ job' = [job EXCEPT !.i = IF job.program = "concatenate" THEN 0 ELSE r2',
                        !.at = IF job.program = "cat" THEN "loop" ELSE "end of written"]
EndOfWritten ==
  /\ job.at = "end of written"
  /\ Seek(-1, WriteId) /\ UNCHANGED bytes
  /\ job' = [job EXCEPT !.i = IF job.program = "concatenate" THEN r2' ELSE @,
                        !.size = IF job.program = "concatenate" THEN r2' + @ ELSE @,
                        !.at = "loop"]

(* while (i < size) { Read(c, 1, ...); PrintString(c) or Write(c, 1, ...); *)
(* i++; }  (A faulty one stops one byte early.)                            *)
StopsEarly == job.i < job.size - 1
More == job.i < job.size

ReadByte ==
  /\ job.at = "loop" /\ More
  /\ Read(ReadId, 1) /\ UNCHANGED bytes
  /\ job' = [job EXCEPT !.c = IF r2' = 1 THEN bytes[opened[ReadId].inode][opened[ReadId].pos + 1]
                              ELSE @,
                        !.at = IF job.program = "cat" THEN "show" ELSE "write"]
ShowByte ==
  /\ job.at = "show"
  /\ job' = [job EXCEPT !.shown = IF job.c = NUL THEN @ ELSE Append(@, job.c),
                        !.i = @ + 1, !.at = "loop"]
  /\ r2' = 0
  /\ UNCHANGED <<dir, length, opened, index, again, bytes>>
WriteByte ==
  /\ job.at = "write"
  /\ Write(WriteId, 1, Testr)
  /\ LET f == opened[WriteId]
     IN  bytes' = [bytes EXCEPT ![f.inode] =
                     [k \in 1 .. length'[f.inode] |-> IF k = f.pos + 1 THEN job.c ELSE @[k]]]
  /\ job' = [job EXCEPT !.i = @ + 1, !.at = "loop"]
LoopEnds ==
  /\ job.at = "loop" /\ ~More
  /\ Goto(IF job.program = "cat" THEN "close source" ELSE "close destination")
  /\ UNCHANGED <<dir, length, opened, index, r2, again, bytes>>

CloseDestination == job.at = "close destination" /\ Make(Close(job.dstId), "close source")
CloseSource == job.at = "close source" /\ Make(Close(job.srcId), "exit")

(* The system calls of syscall.h, and the stubs of start.S, which put the  *)
(* number of their call into r2.                                           *)
Code == [Halt |-> 0, Exit |-> 1, Exec |-> 2, Join |-> 3, Create |-> 4, Remove |-> 5,
         Open |-> 6, Read |-> 7, Write |-> 8, Seek |-> 9, Close |-> 10, ThreadFork |-> 11,
         ThreadYield |-> 12, ExecV |-> 13, ThreadExit |-> 14, ThreadJoin |-> 15, Add |-> 42,
         ReadNum |-> 43, PrintNum |-> 44, RandomNum |-> 45, ReadChar |-> 46,
         PrintChar |-> 47, ReadString |-> 48, PrintString |-> 49]
Stub(call) == r2' = Code[call]

(* The calls that ExceptionHandler has a case for.                         *)
Handled == {"Halt", "Create", "Remove", "Open", "Read", "Write", "Seek", "Close", "Add",
            "ReadNum", "PrintNum", "RandomNum", "ReadChar", "PrintChar", "ReadString",
            "PrintString"}

(* main returns to __start, which calls Exit.  The kernel does not know    *)
(* SC_Exit, so the stub returns, and the program goes on with what is      *)
(* behind __start, the stub of Halt.                                       *)
Exit ==
  /\ job.at = "exit"
  /\ Stub("Exit")
  /\ Goto(IF "Exit" \in Handled THEN "halted" ELSE "behind start")
  /\ UNCHANGED <<dir, length, opened, index, again, bytes>>
Halt ==
  /\ job.at = "behind start"
  /\ Stub("Halt")
  /\ Goto("halted")
  /\ UNCHANGED <<dir, length, opened, index, again, bytes>>

----------------------------------------------------------------------------
(* The programs that only compute run in one step.                         *)

(* sort.c: bubble sort of the first n elements (n at most SIZE), 1 for     *)
(* ascending and 2 for descending; any other choice asks again.            *)
OutOfOrder(a, b, c) == IF c = 1 THEN a > b ELSE a < b
Swapped(array, j) == [array EXCEPT ![j] = array[j + 1], ![j + 1] = array[j]]
Pass(array, last, c) ==
  Seqs!FoldLeft(LAMBDA a, j : IF OutOfOrder(a[j], a[j + 1], c) THEN Swapped(a, j) ELSE a,
           array, [j \in 1 .. last |-> j])
Sort(array, c) ==
  LET n == Len(array)
  IN  Seqs!FoldLeft(LAMBDA a, i : Pass(a, n - i, c), array, [i \in 1 .. n - 1 |-> i])

(* matmult.c: A[i][k] = i, B[k][j] = j; Exit gets the last element of C.   *)
Dim == 20
Product(i, j) == Seqs!FoldLeft(LAMBDA sum, k : sum + i * j, 0, [k \in 1 .. Dim |-> k - 1])
MatmultExit == Product(Dim - 1, Dim - 1)

(* ascii.c: the printable characters, eight to a line.                     *)
Newline == 10
Space == 32
AsciiText ==
  Seqs!FoldLeft(LAMBDA text, i : text \o (IF i % 8 = 0 THEN <<Newline>> ELSE <<>>) \o <<i, Space>>,
           <<>>, [k \in 1 .. 95 |-> k + 31]) \o <<Newline>>

(* segments.c fills uninitdata; add.c asks the kernel for a sum.           *)
Uninitdata == [i \in 0 .. 4 |-> i]
Sum == 42 + 23

Compute(program, input, choice) ==
  /\ job = NoJob
  /\ job' = [program |-> program, at |-> "exit", input |-> input, choice |-> choice,
             output |-> CASE program = "sort" -> Sort(input, choice)
                          [] program = "matmult" -> <<MatmultExit>>
                          [] program = "ascii" -> AsciiText
                          [] program = "segments" -> [k \in 1 .. 5 |-> Uninitdata[k - 1]]
                          [] program = "add" -> <<Sum>>]
  /\ UNCHANGED <<dir, length, opened, index, r2, again, bytes>>

ProgramsNext ==
  \/ \E p \in Programs, src, dst \in Name : Start(p, src, dst)
  \/ RunCreate \/ RunDelete \/ OpenSource \/ RunRemove
  \/ CreateDestination \/ OpenDestination
  \/ EndOfRead \/ Rewind \/ EndOfWritten
  \/ ReadByte \/ ShowByte \/ WriteByte \/ LoopEnds
  \/ CloseDestination \/ CloseSource \/ Exit \/ Halt
  \/ \E array \in Arrays, c \in {1, 2} : Compute("sort", array, c)
  \/ \E p \in {"matmult", "ascii", "segments", "add"} : Compute(p, <<>>, 1)

ProgramsSpec == ProgramsInit /\ [][ProgramsNext]_programsVars

----------------------------------------------------------------------------
Missing == <<-1>>
Now(n) == IF dir[n] = NoInode THEN Missing ELSE bytes[dir[n]]

(* Every program that halts has done what its name says, given the names   *)
(* and the files it found: copy leaves the destination equal to the source *)
(* (and empties a file copied to itself), cat shows the characters of the  *)
(* file, concatenate appends the destination to the source, and no program *)
(* touches a file that it does not name.  All descriptors are closed, but  *)
(* for the source when concatenate finds no destination.                   *)
(*                                                                         *)
(* What is expected is what the program means to do, under the handler as  *)
(* it is.  That copy succeeds is no sign that the types of descriptors are *)
(* respected: it writes through one opened with type 1, read-only to the   *)
(* handler, which gets away with it because the stub Open drops the type   *)
(* (ReadOnlyRefused below is violated; README, section 5).                 *)
Expected(n) ==
  LET old == job.before
      sourceThere == old[job.src] # Missing
  IN  CASE job.program = "createfile" /\ n = job.src -> <<>>
        [] job.program = "delete" /\ n = job.src -> Missing
        [] job.program = "testr" /\ n = job.src /\ old[Testr] # Missing -> Missing
        [] job.program = "copy" /\ n = job.dst /\ sourceThere ->
             IF job.src = job.dst THEN <<>> ELSE old[job.src]
        [] job.program = "concatenate" /\ n = job.src /\ sourceThere /\ old[job.dst] # Missing ->
             old[job.src] \o old[job.dst]
        [] OTHER -> old[n]

FilesExact ==
  job.program \in Programs =>
  /\ \A f \in File : length[f] = Len(bytes[f])
  /\ job.at = "halted" =>
       LET old == job.before
           sourceThere == old[job.src] # Missing
       IN  /\ \A n \in Name : Now(n) = Expected(n)
           /\ job.program = "cat" /\ sourceThere =>
                job.shown = SelectSeq(old[job.src], LAMBDA c : c # NUL)
           /\ job.program = "testc" /\ sourceThere => job.size = Len(old[job.src])
           /\ Cardinality(OpenSlots) =
                IF job.program = "concatenate" /\ sourceThere /\ old[job.dst] = Missing
                THEN 3 ELSE 2

(* sort's output is its input in order: neighbours are in order and every  *)
(* value occurs as often.  ascii shows each printable character once, in   *)
(* order, with at most eight to a line.  matmult's last element is the     *)
(* product of its last row and column.                                     *)
OutputsExact ==
  /\ job.program = "sort" =>
       /\ \A j \in 1 .. Len(job.output) - 1 :
            IF job.choice = 1 THEN job.output[j] <= job.output[j + 1]
            ELSE job.output[j] >= job.output[j + 1]
       /\ \A v \in Seqs!Range(job.input \o job.output) :
            Cardinality({j \in DOMAIN job.input : job.input[j] = v})
              = Cardinality({j \in DOMAIN job.output : job.output[j] = v})
  /\ job.program = "ascii" =>
       LET shown == SelectSeq(job.output, LAMBDA c : c # Newline)
           breaks == {k \in DOMAIN job.output : job.output[k] = Newline}
       IN  /\ Len(shown) = 2 * 95
           /\ \A k \in 1 .. 95 : shown[(2 * k) - 1] = 31 + k
           /\ \A k \in DOMAIN job.output : \E b \in breaks : k \in b - 17 .. b + 16
  /\ job.program = "matmult" => job.output = <<Dim * 19 * 19>>

ProgramsExact == FilesExact /\ OutputsExact

(* The handler's comment on Write (exception.cc:453): through a file that  *)
(* is read-only, "type quy uoc la 1", it returns -1.  The one program that *)
(* writes through a descriptor it opened with type 1 is copy: its Writes   *)
(* would have to fail.                                                     *)
ReadOnlyRefused ==
  [][job.at = "write" /\ job.program = "copy" /\ job'.at = "loop" => r2' = -1]_programsVars
=============================================================================
