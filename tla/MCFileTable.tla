---------------------------- MODULE MCFileTable -----------------------------
(* The file calls three times over; part, which never changes, says which. *)
(*   calls     any calls in any order, with one name and two UNIX files    *)
(*   programs  the programs of test/, with two names and up to two bytes   *)
(*             in each file to begin with                                  *)
(*   snapshot  any calls of the snapshot phna_13112022, with four slots,   *)
(*             of which the last cannot be closed                          *)
EXTENDS UserPrograms

CONSTANTS a, b, i1, i2, i3

VARIABLES part, oldFiles, oldOpenf, oldBuffer, oldR2

callsAndPrograms == <<dir, length, opened, index, r2, again, bytes, job>>
snapshot == <<oldFiles, oldOpenf, oldBuffer, oldR2>>

Calls == INSTANCE FileTable
         WITH Name <- {a}, Inode <- {i1, i2}, MaxLength <- 1, MaxIndex <- 6
Old == INSTANCE OpenFiles
       WITH Name <- {a}, LastSlot <- 3, LastClosable <- 2, BufferLength <- 2,
            MaxLength <- 2, MaxLine <- 1, files <- oldFiles, openf <- oldOpenf,
            buffer <- oldBuffer, r2 <- oldR2

ArraysToSort == UNION {[1 .. k -> 1 .. 3] : k \in 0 .. 4}

NoSnapshot == oldFiles = 0 /\ oldOpenf = 0 /\ oldBuffer = 0 /\ oldR2 = 0

MCInit ==
  \/ part = "calls" /\ Calls!Init /\ bytes = <<>> /\ job = NoJob /\ NoSnapshot
  \/ part = "programs" /\ ProgramsInit /\ NoSnapshot
  \/ /\ part = "snapshot" /\ Old!Init
     /\ dir = <<>> /\ length = <<>> /\ opened = <<>> /\ index = 0
     /\ r2 = 0 /\ again = FALSE /\ bytes = <<>> /\ job = NoJob

MCNext ==
  /\ UNCHANGED part
  /\ \/ part = "calls" /\ Calls!Next /\ UNCHANGED <<bytes, job, snapshot>>
     \/ part = "programs" /\ ProgramsNext /\ UNCHANGED snapshot
     \/ part = "snapshot" /\ Old!Next /\ UNCHANGED callsAndPrograms

MCSpec == MCInit /\ [][MCNext]_<<part, callsAndPrograms, snapshot>>

(* In both versions of the handler a call that fails changes no file and   *)
(* no descriptor; in the later one moreover opening never overwrites a     *)
(* descriptor, and a failed Read, which is executed twice, still fails; in *)
(* the earlier one a file opened for reading is not written through that   *)
(* descriptor, and no call moves another's (AccessExact of OpenFiles).     *)
CallsContained ==
  [][ /\ part = "calls" => Calls!CallContained
      /\ part = "snapshot" => Old!FailureHarmless /\ Old!AccessExact
    ]_<<part, callsAndPrograms, snapshot>>
=============================================================================
