----------------------------- MODULE HashTable ------------------------------
(* HashTable and HashIterator of lib/hash.cc.  A bucket is a List, here a  *)
(* sequence (see LinkedList).  An item is named by its key, and the hash   *)
(* function is that of the self-test: the key itself.                      *)
EXTENDS Integers, Sequences, FiniteSets

CONSTANTS Key, InitialBuckets, ResizeRatio, IncreaseSizeBy,
          MaxBuckets        \* bound on the growth of the table

VARIABLES buckets, numBuckets, numItems,
          iterator,         \* HashIterator: bucket, place in it, keys seen
          inserted          \* the keys that should be in the table (history)

tableVars == <<buckets, numBuckets, numItems, iterator, inserted>>

Idle == [bucket |-> -1, place |-> 1, seen |-> <<>>]
Keys(s) == {s[k] : k \in DOMAIN s}

InitBuckets(size) == [b \in 0 .. size - 1 |-> <<>>]
HashValue(key, size) == key % size

TableInit ==
  /\ numBuckets = InitialBuckets /\ buckets = InitBuckets(InitialBuckets)
  /\ numItems = 0 /\ iterator = Idle /\ inserted = {}

FindInBucket(bucket, key) == key \in Keys(buckets[bucket])
IsInTable(key) == FindInBucket(HashValue(key, numBuckets), key)

(* ReHash: every item, bucket by bucket and from the front, to its bucket  *)
(* in a larger table.  (A faulty one keeps the old hash value.)            *)
InOrder ==
  LET upTo[b \in 0 .. numBuckets] == IF b = 0 THEN <<>> ELSE upTo[b - 1] \o buckets[b - 1]
  IN  upTo[numBuckets]
OldPlace(key, size) == HashValue(key, numBuckets)
NewPlace(key, size) == HashValue(key, size)
ReHash(size) ==
  [b \in 0 .. size - 1 |-> SelectSeq(InOrder, LAMBDA key : NewPlace(key, size) = b)]

Insert(key) ==
  LET grow == numItems \div numBuckets >= ResizeRatio
      size == IF grow THEN numBuckets * IncreaseSizeBy ELSE numBuckets
      table == IF grow THEN ReHash(size) ELSE buckets
  IN  /\ iterator = Idle /\ ~IsInTable(key) /\ size <= MaxBuckets
      /\ numBuckets' = size
      /\ buckets' = [table EXCEPT ![HashValue(key, size)] = Append(@, key)]
      /\ numItems' = numItems + 1
      /\ inserted' = inserted \cup {key}
      /\ UNCHANGED iterator

RemoveKey(key) ==
  /\ iterator = Idle /\ IsInTable(key)
  /\ buckets' = [buckets EXCEPT ![HashValue(key, numBuckets)] =
                   SelectSeq(@, LAMBDA k : k # key)]
  /\ numItems' = numItems - 1
  /\ inserted' = inserted \ {key}
  /\ UNCHANGED <<numBuckets, iterator>>

(* The iterator: to the next bucket that is not empty, numBuckets when     *)
(* there is none.                                                          *)
FindNextFullBucket(bucket) ==
  CHOOSE b \in bucket .. numBuckets :
    /\ b < numBuckets => buckets[b] # <<>>
    /\ \A c \in bucket .. b - 1 : buckets[c] = <<>>
IsDone == iterator.bucket = numBuckets

StartIteration ==
  /\ iterator = Idle
  /\ iterator' = [Idle EXCEPT !.bucket = FindNextFullBucket(0)]
  /\ UNCHANGED <<buckets, numBuckets, numItems, inserted>>
NextItem ==
  /\ iterator.bucket >= 0 /\ ~IsDone
  /\ LET items == buckets[iterator.bucket]
         seen == Append(iterator.seen, items[iterator.place])
     IN  iterator' = IF iterator.place < Len(items)
                     THEN [iterator EXCEPT !.place = @ + 1, !.seen = seen]
                     ELSE [bucket |-> FindNextFullBucket(iterator.bucket + 1),
                           place |-> 1, seen |-> seen]
  /\ UNCHANGED <<buckets, numBuckets, numItems, inserted>>
EndIteration ==
  /\ IsDone
  /\ iterator' = Idle
  /\ UNCHANGED <<buckets, numBuckets, numItems, inserted>>

TableNext ==
  \/ \E key \in Key : Insert(key) \/ RemoveKey(key)
  \/ StartIteration \/ NextItem \/ EndIteration

----------------------------------------------------------------------------
(* SanityCheck and what Find and the iterator promise: exactly the keys    *)
(* that were inserted and not removed are found, also after the table has  *)
(* grown, and an iteration visits each of them once; buckets stay short.   *)
Found == {key \in Key : IsInTable(key)}
TableExact ==
  /\ Found = inserted
  /\ numItems = Len(InOrder) /\ numItems = Cardinality(inserted)
  /\ \A b \in 0 .. numBuckets - 1 : \A key \in Keys(buckets[b]) : HashValue(key, numBuckets) = b
  /\ numItems <= ResizeRatio * numBuckets
  /\ IsDone => Keys(iterator.seen) = inserted /\ Len(iterator.seen) = numItems
=============================================================================
