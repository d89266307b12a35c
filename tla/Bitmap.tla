------------------------------- MODULE Bitmap -------------------------------
(* Bitmap of lib/bitmap.cc: bits packed into words, which are natural      *)
(* numbers of BitsInWord bits.                                             *)
EXTENDS Integers, FiniteSets

CONSTANTS numBits, BitsInWord

VARIABLES map,       \* the words
          found,     \* what FindAndSet returned last
          marked     \* the bits that should be set (history)

bitmapVars == <<map, found, marked>>

Bit == 0 .. numBits - 1
numWords == (numBits + BitsInWord - 1) \div BitsInWord
Mask(which) == 2^(which % BitsInWord)
Test(which) == (map[which \div BitsInWord] \div Mask(which)) % 2 = 1

(* "|=" and "&= ~" of a mask with one bit.                                 *)
Marked(which) ==
  [map EXCEPT ![which \div BitsInWord] = IF Test(which) THEN @ ELSE @ + Mask(which)]
Cleared(which) ==
  [map EXCEPT ![which \div BitsInWord] = IF Test(which) THEN @ - Mask(which) ELSE @]

BitmapInit == map = [w \in 0 .. numWords - 1 |-> 0] /\ found = -1 /\ marked = {}

Mark(which) ==
  map' = Marked(which) /\ marked' = marked \cup {which} /\ UNCHANGED found
Clear(which) ==
  map' = Cleared(which) /\ marked' = marked \ {which} /\ UNCHANGED found
NumClear == Cardinality({b \in Bit : ~Test(b)})

FindAndSet ==
  IF NumClear = 0 THEN found' = -1 /\ UNCHANGED <<map, marked>>
  ELSE LET b == CHOOSE b \in Bit : ~Test(b) /\ \A c \in 0 .. b - 1 : Test(c)
       IN  found' = b /\ map' = Marked(b) /\ marked' = marked \cup {b}

BitmapNext == FindAndSet \/ \E which \in Bit : Mark(which) \/ Clear(which)

(* The words hold exactly the bits that were marked and not cleared, in    *)
(* whatever order and however often, and no bit beyond the last.           *)
BitmapExact ==
  /\ {b \in Bit : Test(b)} = marked
  /\ \A w \in DOMAIN map : map[w] < 2^BitsInWord
  /\ NumClear = numBits - Cardinality(marked)
  /\ \A w \in DOMAIN map : \A k \in 0 .. BitsInWord - 1 :
       (map[w] \div 2^k) % 2 = 1 => w * BitsInWord + k < numBits
=============================================================================
