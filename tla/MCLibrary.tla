------------------------------ MODULE MCLibrary -----------------------------
(* What the kernel stands on: the containers, the switch of threads on the *)
(* host's processor and the files of the host, one at a time: "part" says  *)
(* which of them is used in a behaviour.                                   *)
EXTENDS ContextSwitch, HostFiles, LinkedList, TLC

CONSTANTS i1, i2, i3, i4, e1, e2, e3, e4, v1, v2

VARIABLES part,
          buckets, numBuckets, numItems, iterator, inserted,
          map, found, marked,
          top, stack, stackFirst, stackLast, element, popped, test, calledSoFar, q

Keys == i1 :> 1 @@ i2 :> 2 @@ i3 :> 2 @@ i4 :> 2

T == INSTANCE LibTests
     WITH Key <- 0 .. 5, InitialBuckets <- 1, ResizeRatio <- 2, IncreaseSizeBy <- 2, MaxBuckets <- 4,
          numBits <- 5, BitsInWord <- 3,
          Value <- {v1, v2}, size <- 3, Cell <- {e1, e2, e3},
          listTestVector <- <<i3, i1, i2>>, hashTestVector <- <<0, 1, 2, 3, 4, 5>>,
          stackTestVector <- <<v1, v2, v1>>,
          calls <- calledSoFar

tableVars == <<buckets, numBuckets, numItems, iterator, inserted>>
bitmapVars == <<map, found, marked>>
stackVars == <<top, stack, stackFirst, stackLast, element, popped>>
testVars == <<test, calledSoFar, q>>
containers == <<listVars, tableVars, bitmapVars, stackVars>>
all == <<part, containers, testVars, switchVars, hostFileVars>>

MCInit ==
  /\ part \in {"list", "table", "bitmap", "stacks", "tests", "switch", "files"}
  /\ ListInit /\ T!H!TableInit /\ T!B!BitmapInit /\ T!S!StackInit /\ T!LibTestInit
  /\ SwitchInit /\ HostInit
  /\ part # "switch" => arch = "x86"
  /\ part \notin {"list", "tests"} => ~sorted
  /\ part \notin {"tests", "list"} => test = "list"
  /\ part = "list" => test \in {"list", "sorted"}
  /\ part # "files" => version = "code"

List == part = "list" /\ ListNext /\ UNCHANGED <<tableVars, bitmapVars, stackVars>>
Table == part = "table" /\ T!H!TableNext /\ UNCHANGED <<listVars, bitmapVars, stackVars>>
Bits == part = "bitmap" /\ T!B!BitmapNext /\ UNCHANGED <<listVars, tableVars, stackVars>>
Stacks == part = "stacks" /\ T!S!StackNext /\ UNCHANGED <<listVars, tableVars, bitmapVars>>
Tests == part = "tests" /\ T!LibTestNext
(* The machine's registers are saved the same way on every host: programs  *)
(* run on one of them only.                                                *)
Switch == part = "switch" /\ SwitchNext /\ (arch # "x86" => \A t \in Thread : ~space'[t])
Host == part = "files" /\ HostNext

MCNext ==
  /\ UNCHANGED part
  /\ \/ List \/ Table \/ Bits \/ Stacks \/ Tests
     \/ (Switch \/ Host) /\ UNCHANGED containers
  /\ part # "tests" => UNCHANGED testVars
  /\ part # "switch" => UNCHANGED switchVars
  /\ part # "files" => UNCHANGED hostFileVars

MCSpec == MCInit /\ [][MCNext]_all

(* Hash table, bitmap and stacks hold what was put into them, lists keep   *)
(* their pointers sane and lose no element, so the ASSERTs of the          *)
(* self-tests hold; and an OpenFile never shares a descriptor with another *)
(* or leaves one open behind it.                                           *)
ContainersExact ==
  /\ SanityCheck /\ NoneLost
  /\ T!H!TableExact /\ T!B!BitmapExact /\ T!S!StacksAgree
  /\ part = "tests" => T!LibAssertsHold
  /\ HostTypeOK /\ OwnDescriptors
=============================================================================
