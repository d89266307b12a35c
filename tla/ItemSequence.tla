---------------------------- MODULE ItemSequence ----------------------------
(* What a list of the library promises (lib/list.h): a sequence of         *)
(* different items that can be put at either end, put in by order of their *)
(* keys, and taken from the front or from anywhere.  An item inserted by   *)
(* order comes behind those with the same key.                             *)
EXTENDS Integers, Sequences

CONSTANTS Item, KeyOf

VARIABLES items,    \* the items, front first
          taken     \* the item removed last

Without(seq, i) == SubSeq(seq, 1, i - 1) \o SubSeq(seq, i + 1, Len(seq))
In(seq, i) == \E k \in DOMAIN seq : seq[k] = i

Add(i) ==
  /\ ~In(items, i)
  /\ \E k \in 0 .. Len(items) :
       /\ \/ k \in {0, Len(items)}
          \/ /\ \A j \in 1 .. k : KeyOf[items[j]] <= KeyOf[i]
             /\ KeyOf[i] < KeyOf[items[k + 1]]
       /\ items' = SubSeq(items, 1, k) \o <<i>> \o SubSeq(items, k + 1, Len(items))
  /\ UNCHANGED taken

Take(k) ==
  /\ k \in DOMAIN items
  /\ taken' = items[k]
  /\ items' = Without(items, k)

SequenceSpec ==
  /\ items = <<>>
  /\ [][(\E i \in Item : Add(i)) \/ (\E k \in DOMAIN items : Take(k))]_<<items, taken>>
=============================================================================
