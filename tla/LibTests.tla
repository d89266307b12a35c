------------------------------ MODULE LibTests ------------------------------
(* The self-tests of the containers (LibSelfTest and the SelfTest of each  *)
(* class, main of c++example): programs of one thread that make a fixed    *)
(* sequence of calls and state with ASSERTs what must be true after each.  *)
EXTENDS Integers, Sequences

CONSTANTS Item, KeyOf, Element, NULL,
          Key, InitialBuckets, ResizeRatio, IncreaseSizeBy, MaxBuckets,
          numBits, BitsInWord,
          Value, size, Cell,
          listTestVector, hashTestVector, stackTestVector

VARIABLES heap, first, last, numInList, sorted, removed,
          buckets, numBuckets, numItems, iterator, inserted,
          map, found, marked,
          top, stack, stackFirst, stackLast, element, popped,
          test, calls,     \* the self-test that runs, and how many calls it has made
          q                \* what a sorted list gave back

L == INSTANCE LinkedList
H == INSTANCE HashTable
B == INSTANCE Bitmap
S == INSTANCE Stacks WITH first <- stackFirst, last <- stackLast

listVars == <<heap, first, last, numInList, sorted, removed>>
tableVars == <<buckets, numBuckets, numItems, iterator, inserted>>
bitmapVars == <<map, found, marked>>
stackVars == <<top, stack, stackFirst, stackLast, element, popped>>
containers == <<listVars, tableVars, bitmapVars, stackVars>>

IntCompare(x, y) ==
  CASE KeyOf[x] < KeyOf[y] -> -1 [] KeyOf[x] = KeyOf[y] -> 0 [] KeyOf[x] > KeyOf[y] -> 1

(* The calls of each test, with their arguments or, for FindAndSet, with   *)
(* the result that the test expects.                                       *)
Each(call, s) == [k \in DOMAIN s |-> <<call, s[k]>>]
Bits == [k \in 1 .. numBits |-> k - 1]
ListTest == Each("Append", listTestVector) \o Each("Remove", listTestVector)
SortedTest ==
  Each("Insert", listTestVector) \o Each("Remove", listTestVector)
  \o Each("Insert", listTestVector) \o Each("RemoveFront", listTestVector)
TableTest ==
  <<<<"iterator", 0>>, <<"IsDone", 0>>>>
  \o Each("Insert", hashTestVector) \o Each("Remove", hashTestVector)
BitmapTest ==
  <<<<"FindAndSet", 0>>, <<"Mark", BitsInWord - 1>>, <<"FindAndSet", 1>>,
    <<"Clear", 0>>, <<"Clear", 1>>, <<"Clear", BitsInWord - 1>>>>
  \o Each("Mark", Bits) \o <<<<"FindAndSet", -1>>>> \o Each("Clear", Bits)
StackTest == Each("Push", stackTestVector) \o Each("Pop", stackTestVector)

Program ==
  [list |-> ListTest, sorted |-> SortedTest, table |-> TableTest, bitmap |-> BitmapTest,
   stacks |-> StackTest]
Tests == DOMAIN Program

LibTestInit ==
  /\ test \in Tests /\ calls = 0 /\ q = <<>>
  /\ sorted = (test = "sorted")

ListCall(call, x) ==
  /\ \/ call = "Append" /\ \E e \in Element : L!AppendItem(e, x)
     \/ call = "Insert" /\ \E e \in Element : L!InsertItem(e, x)
     \/ call = "Remove" /\ L!RemoveItem(x)
     \/ call = "RemoveFront" /\ L!RemoveFront
  /\ q' = IF call = "RemoveFront" THEN Append(q, removed') ELSE q
  /\ UNCHANGED <<tableVars, bitmapVars, stackVars>>
TableCall(call, x) ==
  /\ \/ call = "iterator" /\ H!StartIteration
     \/ call = "IsDone" /\ H!EndIteration
     \/ call = "Insert" /\ H!Insert(x)
     \/ call = "Remove" /\ H!RemoveKey(x)
  /\ UNCHANGED <<listVars, bitmapVars, stackVars, q>>
BitmapCall(call, x) ==
  /\ \/ call = "FindAndSet" /\ B!FindAndSet
     \/ call = "Mark" /\ B!Mark(x)
     \/ call = "Clear" /\ B!Clear(x)
  /\ UNCHANGED <<listVars, tableVars, stackVars, q>>
StackCall(call, x) ==
  /\ \/ call = "Push" /\ \E c \in Cell : S!Push(c, x)
     \/ call = "Pop" /\ S!Pop
  /\ UNCHANGED <<listVars, tableVars, bitmapVars, q>>

LibTestNext ==
  /\ calls < Len(Program[test])
  /\ LET next == Program[test][calls + 1]
     IN  CASE test \in {"list", "sorted"} -> ListCall(next[1], next[2])
           [] test = "table" -> TableCall(next[1], next[2])
           [] test = "bitmap" -> BitmapCall(next[1], next[2])
           [] test = "stacks" -> StackCall(next[1], next[2])
  /\ calls' = calls + 1 /\ UNCHANGED test

----------------------------------------------------------------------------
(* The ASSERTs: what each call returned or left behind, what the next one  *)
(* requires, and that all is gone at the end, in order if sorted.          *)
After(call, x) ==
  CASE test \in {"list", "sorted"} /\ call \in {"Append", "Insert"} -> L!IsInList(x) /\ ~L!IsEmpty
    [] test \in {"list", "sorted"} /\ call = "Remove" -> ~L!IsInList(x)
    [] call = "RemoveFront" -> ~L!IsInList(q[Len(q)])
    [] test = "table" /\ call = "Insert" -> H!IsInTable(x) /\ numItems > 0
    [] test = "bitmap" /\ call = "FindAndSet" -> found = x
    [] test = "bitmap" /\ call = "Mark" -> B!Test(x)
    [] OTHER -> TRUE
Before(call, x) ==
  CASE test \in {"list", "sorted"} /\ call = "Remove" -> L!IsInList(x)
    [] call = "RemoveFront" -> ~L!IsEmpty
    [] call = "IsDone" -> H!IsDone
    [] test = "table" /\ call = "Remove" -> H!IsInTable(x)
    [] call = "Push" -> ~S!Full
    [] call = "Pop" -> ~S!Empty /\ ~S!ListEmpty
    [] OTHER -> TRUE
LibAssertsHold ==
  LET done == calls = Len(Program[test])
  IN  /\ calls > 0 => After(Program[test][calls][1], Program[test][calls][2])
      /\ ~done => Before(Program[test][calls + 1][1], Program[test][calls + 1][2])
      /\ calls = 0 \/ done => /\ L!IsEmpty /\ first = NULL /\ numItems = 0
                              /\ B!NumClear = numBits /\ S!Empty /\ S!ListEmpty
      /\ \A i, j \in DOMAIN q : j = i + 1 => IntCompare(q[i], q[j]) <= 0
=============================================================================
