----------------------------- MODULE LinkedList -----------------------------
(* List and SortedList of lib/list.cc, down to their pointers: elements in *)
(* a heap, each with an item and a next element, and the fields first,     *)
(* last and numInList.  One client makes the calls, and keeps to what the  *)
(* ASSERTs ask of it: no item is put in twice, none is taken that is not   *)
(* there.                                                                  *)
EXTENDS Integers, Sequences, FiniteSets

CONSTANTS Item, KeyOf,      \* items, and what compare() looks at
          Element, NULL     \* addresses of list elements

VARIABLES heap,             \* ListElement: item and next; NULL item = free
          first, last, numInList,
          sorted,           \* is it a SortedList?
          removed            \* the item removed last

listVars == <<heap, first, last, numInList, sorted, removed>>

IsEmpty == numInList = 0

(* The elements from an element on, as ListIterator steps through them.    *)
From(h, e) ==
  LET steps[k \in 0 .. Cardinality(Element)] ==
        IF k = 0 THEN e ELSE IF steps[k - 1] = NULL THEN NULL ELSE h[steps[k - 1]].next
      reached == {k \in 0 .. Cardinality(Element) : steps[k] # NULL}
  IN  [k \in 1 .. Cardinality(reached) |-> steps[k - 1]]
Elements == From(heap, first)
Contents == [k \in DOMAIN Elements |-> heap[Elements[k]].item]
IsInList(item) == \E k \in DOMAIN Contents : Contents[k] = item

ListInit ==
  /\ heap = [e \in Element |-> [item |-> NULL, next |-> NULL]]
  /\ first = NULL /\ last = NULL /\ numInList = 0
  /\ sorted \in BOOLEAN /\ removed = NULL

(* "new ListElement(item)" at any free address.                            *)
New(e, item) == heap[e].item = NULL /\ ~IsInList(item)
ListElement(item, next) == [item |-> item, next |-> next]
Freed(h, e) == [h EXCEPT ![e] = [item |-> NULL, next |-> NULL]]

PutAlone(e, item) ==
  /\ IsEmpty
  /\ heap' = [heap EXCEPT ![e] = ListElement(item, NULL)]
  /\ first' = e /\ last' = e
PutFirst(e, item) ==
  /\ heap' = [heap EXCEPT ![e] = ListElement(item, first)]
  /\ first' = e /\ UNCHANGED last
PutLast(e, item) ==
  /\ heap' = [heap EXCEPT ![e] = ListElement(item, NULL), ![last].next = e]
  /\ last' = e /\ UNCHANGED first
PutBehind(e, item, ptr) ==
  /\ heap' = [heap EXCEPT ![e] = ListElement(item, heap[ptr].next), ![ptr].next = e]
  /\ UNCHANGED <<first, last>>

Counted == numInList' = numInList + 1 /\ UNCHANGED <<sorted, removed>>

AppendItem(e, item) ==
  /\ ~sorted /\ New(e, item)
  /\ PutAlone(e, item) \/ (~IsEmpty /\ PutLast(e, item))
  /\ Counted

PrependItem(e, item) ==
  /\ ~sorted /\ New(e, item)
  /\ PutAlone(e, item) \/ (~IsEmpty /\ PutFirst(e, item))
  /\ Counted

(* SortedList::Insert: before the first item that is bigger (or, in a      *)
(* faulty one, as big).                                                    *)
AsBig(item, e) == KeyOf[item] <= KeyOf[heap[e].item]
Bigger(item, e) == KeyOf[item] < KeyOf[heap[e].item]
InsertItem(e, item) ==
  /\ sorted /\ New(e, item)
  /\ \/ PutAlone(e, item)
     \/ ~IsEmpty /\ Bigger(item, first) /\ PutFirst(e, item)
     \/ /\ ~IsEmpty /\ ~Bigger(item, first)
        /\ LET later == {k \in 2 .. Len(Elements) : Bigger(item, Elements[k])}
           IN  IF later = {} THEN PutLast(e, item)
               ELSE PutBehind(e, item,
                              Elements[(CHOOSE k \in later : \A j \in later : k <= j) - 1])
  /\ Counted

UnlinkFirst ==
  /\ IF first = last THEN first' = NULL /\ last' = NULL
     ELSE first' = heap[first].next /\ UNCHANGED last
  /\ heap' = Freed(heap, first)
  /\ removed' = heap[first].item

RemoveFront ==
  /\ ~IsEmpty
  /\ UnlinkFirst
  /\ numInList' = numInList - 1
  /\ UNCHANGED sorted

(* Remove(item): the first element like RemoveFront, any other by hooking  *)
(* its neighbours together.                                                *)
RemoveItem(item) ==
  /\ IsInList(item)
  /\ IF heap[first].item = item THEN UnlinkFirst
     ELSE LET k == CHOOSE k \in DOMAIN Elements : heap[Elements[k]].item = item
              e == Elements[k]
              prev == Elements[k - 1]
          IN  /\ heap' = Freed([heap EXCEPT ![prev].next = heap[e].next], e)
              /\ last' = IF heap[e].next = NULL THEN prev ELSE last
              /\ removed' = item
              /\ UNCHANGED first
  /\ numInList' = numInList - 1
  /\ UNCHANGED sorted

ListNext ==
  \/ \E e \in Element, i \in Item : AppendItem(e, i) \/ PrependItem(e, i) \/ InsertItem(e, i)
  \/ RemoveFront
  \/ \E i \in Item : RemoveItem(i)

----------------------------------------------------------------------------
(* SanityCheck: the list ends with last, holds numInList items, and is in  *)
(* order if it is sorted.                                                  *)
SanityCheck ==
  /\ numInList = Len(Elements)
  /\ IF Elements = <<>> THEN first = NULL /\ last = NULL
     ELSE last = Elements[Len(Elements)]
  /\ sorted => \A j, k \in DOMAIN Contents :
                 j < k => KeyOf[Contents[j]] <= KeyOf[Contents[k]]

(* No element is lost or used twice: those in use are the ones in the list.*)
NoneLost == {e \in Element : heap[e].item # NULL} = {Elements[k] : k \in DOMAIN Elements}

ListSpec == ListInit /\ [][ListNext]_listVars

Abstract == INSTANCE ItemSequence WITH items <- Contents, taken <- removed

(* Each call of a List or SortedList does to the items what it does to a   *)
(* sequence.                                                               *)
ImplementsSequence == Abstract!SequenceSpec
=============================================================================
