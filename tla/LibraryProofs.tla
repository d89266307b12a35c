---------------------------- MODULE LibraryProofs ---------------------------
(* What the kernel stands on, on any host and of any size: the lists of    *)
(* lib/list.cc are sequences, the objects of the stub file system are files*)
(* with a position per object, and the consoles lose and reorder nothing.  *)
EXTENDS HostFiles, LinkedList, SynchConsole, FiniteSetTheorems, SequenceTheorems, WellFoundedInduction, TLAPS

(* A set of numbers has a least one.                                       *)
LEMMA Least ==
  ASSUME NEW T, T \subseteq Nat, T # {}
  PROVE  \E m \in T : \A x \in T : m <= x
<1> DEFINE R == {p \in Nat \X Nat : p[1] < p[2]}
<1>1. IsWellFoundedOn(R, Nat)
  BY NatLessThanWellFounded DEF OpToRel
<1>2. \A x, y \in Nat : x < y => <<x, y>> \in R
  OBVIOUS
<1> HIDE DEF R
<1>3. PICK m \in T : \A x \in T : ~(<<x, m>> \in R)
  BY <1>1, WFMin
<1>4. \A x \in T : ~(x < m)
  BY <1>2, <1>3
<1> QED BY <1>3, <1>4

(* What holds at 0, and at n + 1 if it does at n, holds everywhere. *)
LEMMA Everywhere ==
  ASSUME NEW T, 0 \in T, \A n \in Nat : n \in T => n + 1 \in T
  PROVE  Nat \subseteq T
<1> SUFFICES ASSUME Nat \ T # {} PROVE FALSE
  OBVIOUS
<1>1. PICK m \in Nat \ T : \A x \in Nat \ T : m <= x
  BY Least
<1>2. m # 0 /\ m - 1 \in Nat /\ m - 1 < m
  BY <1>1
<1>3. m - 1 \in T
  BY <1>1, <1>2
<1>4. (m - 1) + 1 = m
  BY <1>1
<1> QED BY <1>1, <1>2, <1>3, <1>4

(* The steps of a ListIterator (lib/list.h) from an element on.            *)
Steps(h, e, N) ==
  CHOOSE steps : steps = [k \in 0 .. N |-> IF k = 0 THEN e ELSE IF steps[k - 1] = NULL THEN NULL ELSE h[steps[k - 1]].next]

LEMMA FromSteps ==
  ASSUME NEW h, NEW e
  PROVE  From(h, e) =
           LET reached == {k \in 0 .. Cardinality(Element) : Steps(h, e, Cardinality(Element))[k] # NULL}
           IN  [k \in 1 .. Cardinality(reached) |-> Steps(h, e, Cardinality(Element))[k - 1]]
BY Zenon DEF From, Steps
(* A chain: what is found from e on is s.                                  *)
Chain(h, e, s) ==
  /\ s \in Seq(Element) /\ \A j, k \in 1 .. Len(s) : s[j] = s[k] => j = k
  /\ e = IF s = <<>> THEN NULL ELSE s[1]
  /\ \A k \in 1 .. Len(s) : h[s[k]].next = IF k < Len(s) THEN s[k + 1] ELSE NULL

LEMMA ChainFits ==
  ASSUME IsFiniteSet(Element), NEW s \in Seq(Element),
         \A j, k \in 1 .. Len(s) : s[j] = s[k] => j = k
  PROVE  Len(s) <= Cardinality(Element) /\ Cardinality(Element) \in Nat
<1>1. IsFiniteSet(1 .. Len(s)) /\ Cardinality(1 .. Len(s)) = Len(s)
  <2>1. 1 \in Int /\ Len(s) \in Int /\ Len(s) \in Nat
    OBVIOUS
  <2>2. /\ IsFiniteSet(1 .. Len(s))
        /\ Cardinality(1 .. Len(s)) = IF 1 > Len(s) THEN 0 ELSE Len(s) - 1 + 1
    BY <2>1, FS_Interval
  <2> QED BY <2>1, <2>2
<1>2. s \in Injection(1 .. Len(s), Element)
  BY DEF Injection, IsInjective
<1>3. Cardinality(1 .. Len(s)) <= Cardinality(Element)
  BY <1>1, <1>2, FS_Injection
<1> QED BY <1>1, <1>3, FS_CardinalityType

LEMMA StepsOfChain ==
  ASSUME NULL \notin Element, NEW h, NEW e, NEW s, Chain(h, e, s), NEW N \in Nat, Len(s) <= N
  PROVE  Steps(h, e, N) = [k \in 0 .. N |-> IF k < Len(s) THEN s[k + 1] ELSE NULL]
<1> DEFINE g == [k \in 0 .. N |-> IF k < Len(s) THEN s[k + 1] ELSE NULL]
           Eq(f) == f = [k \in 0 .. N |-> IF k = 0 THEN e ELSE IF f[k - 1] = NULL THEN NULL ELSE h[f[k - 1]].next]
           f == Steps(h, e, N)
<1>0. Len(s) \in Nat /\ (s = <<>> <=> Len(s) = 0)
  BY DEF Chain
<1>1. \A k \in 0 .. N : g[k] = IF k < Len(s) THEN s[k + 1] ELSE NULL
  OBVIOUS
<1>2. \A k \in 0 .. N : g[k] = IF k = 0 THEN e ELSE IF g[k - 1] = NULL THEN NULL ELSE h[g[k - 1]].next
  <2> HIDE DEF g
  <2> SUFFICES ASSUME NEW k \in 0 .. N
               PROVE  g[k] = IF k = 0 THEN e ELSE IF g[k - 1] = NULL THEN NULL ELSE h[g[k - 1]].next
    OBVIOUS
  <2>1. CASE k = 0
    BY <1>0, <1>1, <2>1 DEF Chain
  <2>2. CASE k # 0 /\ k - 1 < Len(s)
    <3>1. k - 1 \in 0 .. N /\ k \in 1 .. Len(s) /\ (k - 1) + 1 = k
      BY <1>0, <2>2
    <3>2. g[k - 1] = s[k] /\ s[k] \in Element
      BY <1>1, <2>2, <3>1 DEF Chain
    <3>3. h[s[k]].next = IF k < Len(s) THEN s[k + 1] ELSE NULL
      BY <3>1 DEF Chain
    <3> QED BY <1>1, <2>2, <3>2, <3>3
  <2>3. CASE k # 0 /\ ~(k - 1 < Len(s))
    <3>1. k - 1 \in 0 .. N /\ ~(k < Len(s))
      BY <1>0, <2>3
    <3> QED BY <1>1, <2>3, <3>1
  <2> QED BY <2>1, <2>2, <2>3
<1>3. Eq(g)
  <2>1. g = [k \in 0 .. N |-> g[k]]
    OBVIOUS
  <2> HIDE DEF g
  <2> QED BY <1>2, <2>1
<1>4. Eq(f)
  <2> HIDE DEF g
  <2>1. Eq(CHOOSE x : Eq(x))
    BY <1>3, Zenon
  <2> QED BY <2>1, Zenon DEF Steps
<1>5. \A k \in 0 .. N : f[k] = IF k = 0 THEN e ELSE IF f[k - 1] = NULL THEN NULL ELSE h[f[k - 1]].next
  <2> HIDE DEF f
  <2> QED BY <1>4
<1> DEFINE T == {k \in Nat : k <= N => f[k] = g[k]}
<1> HIDE DEF f, g
<1>6. 0 \in T
  BY <1>2, <1>5
<1>7. ASSUME NEW n \in Nat, n \in T PROVE n + 1 \in T
  <2> SUFFICES ASSUME n + 1 <= N PROVE f[n + 1] = g[n + 1]
    OBVIOUS
  <2>1. n + 1 \in 0 .. N /\ n + 1 # 0 /\ (n + 1) - 1 = n /\ n <= N
    OBVIOUS
  <2>2. f[n] = g[n]
    BY <1>7, <2>1
  <2> QED BY <1>2, <1>5, <2>1, <2>2
<1>8. Nat \subseteq T
  <2> HIDE DEF T
  <2> QED BY <1>6, <1>7, Everywhere
<1>9. \A k \in 0 .. N : f[k] = g[k]
  BY <1>8
<1>10. f = [k \in 0 .. N |-> f[k]]
  BY <1>4
<1>11. g = [k \in 0 .. N |-> g[k]]
  BY DEF g
<1>12. f = g
  BY <1>9, <1>10, <1>11
<1> QED BY <1>12 DEF f, g

LEMMA FromChain ==
  ASSUME IsFiniteSet(Element), NULL \notin Element, NEW h, NEW e, NEW s, Chain(h, e, s)
  PROVE  From(h, e) = s
<1> DEFINE N == Cardinality(Element)
           reached == {k \in 0 .. N : Steps(h, e, N)[k] # NULL}
<1>1. N \in Nat /\ Len(s) <= N /\ s \in Seq(Element)
  BY ChainFits DEF Chain
<1> HIDE DEF N
<1>2. Steps(h, e, N) = [k \in 0 .. N |-> IF k < Len(s) THEN s[k + 1] ELSE NULL]
  BY <1>1, StepsOfChain
<1>3. \A k \in 0 .. N : k < Len(s) => s[k + 1] \in Element
  BY <1>1
<1>4. reached = 0 .. Len(s) - 1
  BY <1>1, <1>2, <1>3
<1>5. Cardinality(0 .. Len(s) - 1) = Len(s)
  <2>1. 0 \in Int /\ Len(s) - 1 \in Int
    BY <1>1
  <2>2. Cardinality(0 .. Len(s) - 1) = IF 0 > Len(s) - 1 THEN 0 ELSE Len(s) - 1 - 0 + 1
    BY <2>1, FS_Interval
  <2> QED BY <1>1, <2>2
<1>6. From(h, e) = [k \in 1 .. Cardinality(reached) |-> Steps(h, e, N)[k - 1]]
  BY FromSteps DEF N
<1>7. \A k \in 1 .. Len(s) : Steps(h, e, N)[k - 1] = s[k]
  BY <1>1, <1>2
<1> HIDE DEF reached
<1>8. From(h, e) = [k \in 1 .. Len(s) |-> Steps(h, e, N)[k - 1]]
  BY <1>4, <1>5, <1>6
<1>9. From(h, e) = [k \in 1 .. Len(s) |-> s[k]]
  BY <1>7, <1>8
<1> QED BY <1>1, <1>9
----------------------------------------------------------------------------
(* A sequence with x put in behind its k-th entry, and without the k-th.   *)
Put(s, k, x) ==
  [j \in 1 .. Len(s) + 1 |-> IF j <= k THEN s[j] ELSE IF j = k + 1 THEN x ELSE s[j - 1]]
Drop(s, k) == [j \in 1 .. Len(s) - 1 |-> IF j < k THEN s[j] ELSE s[j + 1]]

LEMMA PutExact ==
  ASSUME NEW S, NEW s \in Seq(S), NEW k \in 0 .. Len(s), NEW x \in S
  PROVE  /\ Put(s, k, x) \in Seq(S) /\ Len(Put(s, k, x)) = Len(s) + 1 /\ Put(s, k, x) # <<>>
         /\ \A j \in 1 .. k : Put(s, k, x)[j] = s[j]
         /\ Put(s, k, x)[k + 1] = x
         /\ \A j \in k + 1 .. Len(s) : Put(s, k, x)[j + 1] = s[j]
<1>1. k \in Nat /\ Len(s) \in Nat /\ k <= Len(s)
  OBVIOUS
<1>2. \A j \in 1 .. Len(s) + 1 :
        (IF j <= k THEN s[j] ELSE IF j = k + 1 THEN x ELSE s[j - 1]) \in S
  OBVIOUS
<1>3. Put(s, k, x) \in Seq(S) /\ Len(Put(s, k, x)) = Len(s) + 1
  BY <1>1, <1>2 DEF Put
<1>4. \A j \in 1 .. k : Put(s, k, x)[j] = s[j]
  BY <1>1 DEF Put
<1>5. Put(s, k, x)[k + 1] = x
  BY <1>1 DEF Put
<1>6. \A j \in k + 1 .. Len(s) : Put(s, k, x)[j + 1] = s[j]
  BY <1>1 DEF Put
<1>7. Put(s, k, x) # <<>>
  BY <1>1, <1>3
<1> QED BY <1>3, <1>4, <1>5, <1>6, <1>7

LEMMA PutIsConcat ==
  ASSUME NEW S, NEW s \in Seq(S), NEW k \in 0 .. Len(s), NEW x \in S
  PROVE  Put(s, k, x) = SubSeq(s, 1, k) \o <<x>> \o SubSeq(s, k + 1, Len(s))
<1>1. k \in Nat /\ Len(s) \in Nat /\ k <= Len(s)
  OBVIOUS
<1>3. Put(s, k, x) \in Seq(S) /\ Len(Put(s, k, x)) = Len(s) + 1
  BY PutExact
<1>4. Put(s, k, x) = SubSeq(s, 1, k) \o <<x>> \o SubSeq(s, k + 1, Len(s))
  <2> DEFINE a == SubSeq(s, 1, k)
             b == SubSeq(s, k + 1, Len(s))
             p == Put(s, k, x)
  <2>1. a \in Seq(S) /\ Len(a) = k /\ \A j \in 1 .. k : a[j] = s[j]
    BY <1>1
  <2>2. b \in Seq(S) /\ Len(b) = Len(s) - k /\ \A j \in 1 .. Len(s) - k : b[j] = s[k + j]
    <3>1. b \in Seq(S)
      OBVIOUS
    <3>2. Len(b) = Len(s) - k
      BY <1>1
    <3>3. \A j \in 1 .. Len(s) - k : b[j] = s[k + j]
      BY <1>1
    <3> QED BY <3>1, <3>2, <3>3
  <2> HIDE DEF a, b, p
  <2> DEFINE q == a \o <<x>>
  <2>3. q \in Seq(S) /\ Len(q) = k + 1 /\ (\A j \in 1 .. k : q[j] = a[j]) /\ q[k + 1] = x
    <3>1. q \in Seq(S) /\ Len(q) = k + 1
      BY <1>1, <2>1
    <3>2. \A j \in 1 .. k : q[j] = a[j]
      BY <1>1, <2>1
    <3>3. q[k + 1] = x
      BY <1>1, <2>1
    <3> QED BY <3>1, <3>2, <3>3
  <2> HIDE DEF q
  <2>4. q \o b \in Seq(S) /\ Len(q \o b) = Len(s) + 1
    <3>1. q \in Seq(S) /\ b \in Seq(S) /\ Len(q) = k + 1 /\ Len(b) = Len(s) - k
      BY <2>2, <2>3
    <3>2. q \o b \in Seq(S) /\ Len(q \o b) = Len(q) + Len(b)
      BY <3>1
    <3>3. k \in Nat /\ Len(s) \in Nat
      BY <1>1
    <3> QED BY <3>1, <3>2, <3>3
  <2>5. \A j \in 1 .. Len(s) + 1 : (q \o b)[j] = IF j <= k + 1 THEN q[j] ELSE b[j - (k + 1)]
    BY <1>1, <2>2, <2>3
  <2>6. \A j \in 1 .. Len(s) + 1 : (q \o b)[j] = p[j]
    <3> SUFFICES ASSUME NEW j \in 1 .. Len(s) + 1 PROVE (q \o b)[j] = p[j]
      OBVIOUS
    <3>1. p[j] = IF j <= k THEN s[j] ELSE IF j = k + 1 THEN x ELSE s[j - 1]
      BY DEF p, Put
    <3>2. CASE j <= k
      BY <1>1, <2>1, <2>3, <2>5, <3>1, <3>2
    <3>3. CASE j = k + 1
      BY <1>1, <2>3, <2>5, <3>1, <3>3
    <3>4. CASE j > k + 1
      <4>1. j - (k + 1) \in 1 .. Len(s) - k /\ k + (j - (k + 1)) = j - 1
        BY <1>1, <3>4
      <4>2. b[j - (k + 1)] = s[j - 1]
        BY <2>2, <4>1
      <4>3. (q \o b)[j] = b[j - (k + 1)]
        <5>1. ~(j <= k + 1)
          BY <1>1, <3>4
        <5> QED BY <2>5, <5>1
      <4>4. p[j] = s[j - 1]
        BY <1>1, <3>1, <3>4
      <4> QED BY <4>2, <4>3, <4>4
    <3>5. j \in Int /\ k \in Int
      BY <1>1
    <3>6. j <= k \/ j = k + 1 \/ j > k + 1
      BY <3>5
    <3> QED BY <3>2, <3>3, <3>4, <3>6
  <2>7. p \in Seq(S) /\ Len(p) = Len(s) + 1
    BY <1>3 DEF p
  <2>8. q \o b = p
    BY <1>1, <2>4, <2>6, <2>7, SeqEqual
  <2> QED BY <2>8 DEF a, b, p, q
<1> QED BY <1>4

LEMMA DropExact ==
  ASSUME NEW S, NEW s \in Seq(S), NEW k \in 1 .. Len(s)
  PROVE  /\ Drop(s, k) \in Seq(S) /\ Len(Drop(s, k)) = Len(s) - 1
         /\ \A j \in 1 .. k - 1 : Drop(s, k)[j] = s[j]
         /\ \A j \in k .. Len(s) - 1 : Drop(s, k)[j] = s[j + 1]
         /\ Drop(s, k) = SubSeq(s, 1, k - 1) \o SubSeq(s, k + 1, Len(s))
<1>1. k \in Nat /\ Len(s) \in Nat /\ 1 <= k /\ k <= Len(s)
  OBVIOUS
<1>2. \A j \in 1 .. Len(s) - 1 : (IF j < k THEN s[j] ELSE s[j + 1]) \in S
  OBVIOUS
<1>3. Drop(s, k) \in Seq(S) /\ Len(Drop(s, k)) = Len(s) - 1
  BY <1>1, <1>2 DEF Drop
<1>4. \A j \in 1 .. k - 1 : Drop(s, k)[j] = s[j]
  BY <1>1 DEF Drop
<1>6. \A j \in k .. Len(s) - 1 : Drop(s, k)[j] = s[j + 1]
  BY <1>1 DEF Drop
<1>7. Drop(s, k) = SubSeq(s, 1, k - 1) \o SubSeq(s, k + 1, Len(s))
  <2> DEFINE a == SubSeq(s, 1, k - 1)
             b == SubSeq(s, k + 1, Len(s))
             p == Drop(s, k)
  <2>1. a \in Seq(S) /\ Len(a) = k - 1 /\ \A j \in 1 .. k - 1 : a[j] = s[j]
    BY <1>1
  <2>2. b \in Seq(S) /\ Len(b) = Len(s) - k /\ \A j \in 1 .. Len(s) - k : b[j] = s[k + j]
    <3>1. b \in Seq(S)
      OBVIOUS
    <3>2. Len(b) = Len(s) - k
      BY <1>1
    <3>3. \A j \in 1 .. Len(s) - k : b[j] = s[k + j]
      BY <1>1
    <3> QED BY <3>1, <3>2, <3>3
  <2> HIDE DEF a, b, p
  <2>3. a \o b \in Seq(S) /\ Len(a \o b) = Len(s) - 1
    <3>1. a \o b \in Seq(S) /\ Len(a \o b) = Len(a) + Len(b)
      BY <2>1, <2>2, ConcatProperties
    <3>2. Len(a) + Len(b) = Len(s) - 1
      BY <1>1, <2>1, <2>2
    <3> QED BY <3>1, <3>2
  <2>4. \A j \in 1 .. Len(s) - 1 : (a \o b)[j] = IF j <= k - 1 THEN a[j] ELSE b[j - (k - 1)]
    <3>1. \A j \in 1 .. Len(a) + Len(b) : (a \o b)[j] = IF j <= Len(a) THEN a[j] ELSE b[j - Len(a)]
      BY <2>1, <2>2, ConcatProperties
    <3>2. Len(a) = k - 1 /\ Len(a) + Len(b) = Len(s) - 1
      BY <1>1, <2>1, <2>2
    <3> QED BY <3>1, <3>2
  <2>5. \A j \in 1 .. Len(s) - 1 : (a \o b)[j] = p[j]
    <3> SUFFICES ASSUME NEW j \in 1 .. Len(s) - 1 PROVE (a \o b)[j] = p[j]
      OBVIOUS
    <3>1. p[j] = IF j < k THEN s[j] ELSE s[j + 1]
      BY DEF p, Drop
    <3>2. CASE j < k
      BY <1>1, <2>1, <2>4, <3>1, <3>2
    <3>3. CASE ~(j < k)
      <4>1. j - (k - 1) \in 1 .. Len(s) - k /\ k + (j - (k - 1)) = j + 1
        BY <1>1, <3>3
      <4>2. b[j - (k - 1)] = s[j + 1]
        BY <2>2, <4>1
      <4>3. (a \o b)[j] = b[j - (k - 1)]
        <5>1. ~(j <= k - 1)
          BY <1>1, <3>3
        <5> QED BY <2>4, <5>1
      <4> QED BY <3>1, <3>3, <4>2, <4>3
    <3> QED BY <3>2, <3>3
  <2>6. p \in Seq(S) /\ Len(p) = Len(s) - 1
    BY <1>3 DEF p
  <2>7. a \o b = p
    BY <1>1, <2>3, <2>5, <2>6, SeqEqual
  <2> QED BY <2>7 DEF a, b, p
<1> QED BY <1>3, <1>4, <1>6, <1>7
----------------------------------------------------------------------------
(* The list from f to l of heap h consists of the elements s, all others   *)
(* are free.                                                               *)
Cells == [item : Item \cup {NULL}, next : Element \cup {NULL}]
Linked(h, f, l, s) ==
  /\ h \in [Element -> Cells]
  /\ Chain(h, f, s)
  /\ l = IF s = <<>> THEN NULL ELSE s[Len(s)]
  /\ \A x \in Element : h[x].item # NULL <=> \E k \in 1 .. Len(s) : s[k] = x
ItemsOf(h, s) == [k \in 1 .. Len(s) |-> h[s[k]].item]
Ordered(c) == \A j, k \in 1 .. Len(c) : j < k => KeyOf[c[j]] <= KeyOf[c[k]]

ListAssumption ==
  /\ IsFiniteSet(Element) /\ NULL \notin Element
  /\ NULL \notin Item /\ KeyOf \in [Item -> Int]

ListInv ==
  /\ Linked(heap, first, last, Elements)
  /\ numInList = Len(Elements)
  /\ sorted \in BOOLEAN
  /\ sorted => Ordered(ItemsOf(heap, Elements))

LEMMA LinkedItems ==
  ASSUME ListAssumption, NEW h, NEW f, NEW l, NEW s, Linked(h, f, l, s)
  PROVE  /\ s \in Seq(Element) /\ Len(s) \in Nat /\ (s = <<>> <=> Len(s) = 0)
         /\ ItemsOf(h, s) \in Seq(Item) /\ Len(ItemsOf(h, s)) = Len(s)
         /\ \A k \in 1 .. Len(s) : ItemsOf(h, s)[k] = h[s[k]].item /\ h[s[k]].item \in Item
<1>1. s \in Seq(Element) /\ Len(s) \in Nat
  BY DEF Linked, Chain
<1>2. \A k \in 1 .. Len(s) : s[k] \in Element /\ h[s[k]].item \in Item
  BY <1>1 DEF Linked, Cells
<1>3. s = <<>> <=> Len(s) = 0
  BY <1>1
<1> QED BY <1>1, <1>2, <1>3 DEF ItemsOf

(* The heap and the ends of the list after an element e with the item i    *)
(* was put in behind the k-th: what the four ways to put one in have in    *)
(* common.                                                                 *)
Inserted(h, f, l, s, k, e, i, h2, f2, l2) ==
  /\ h2 \in [Element -> Cells]
  /\ \A x \in Element : h2[x].item = IF x = e THEN i ELSE h[x].item
  /\ h2[e].next = IF k < Len(s) THEN s[k + 1] ELSE NULL
  /\ \A x \in Element \ {e} : h2[x].next = IF k > 0 /\ x = s[k] THEN e ELSE h[x].next
  /\ f2 = IF k = 0 THEN e ELSE f
  /\ l2 = IF k = Len(s) THEN e ELSE l

(* The same after the k-th was unlinked and freed.                         *)
Unlinked(h, f, l, s, k, h2, f2, l2) ==
  /\ h2 \in [Element -> Cells]
  /\ h2[s[k]].item = NULL
  /\ \A x \in Element \ {s[k]} :
       /\ h2[x].item = h[x].item
       /\ h2[x].next = IF k > 1 /\ x = s[k - 1] THEN h[s[k]].next ELSE h[x].next
  /\ f2 = IF k = 1 THEN h[f].next ELSE f
  /\ l2 = IF k = Len(s) THEN IF k = 1 THEN NULL ELSE s[k - 1] ELSE l

LEMMA InsertLinked ==
  ASSUME ListAssumption, NEW h, NEW f, NEW l, NEW s, Linked(h, f, l, s),
         NEW k \in 0 .. Len(s), NEW e \in Element, h[e].item = NULL, NEW i \in Item,
         NEW h2, NEW f2, NEW l2, Inserted(h, f, l, s, k, e, i, h2, f2, l2)
  PROVE  /\ Linked(h2, f2, l2, Put(s, k, e))
         /\ ItemsOf(h2, Put(s, k, e)) = Put(ItemsOf(h, s), k, i)
<1>   /\ h2 \in [Element -> Cells]
      /\ \A x \in Element : h2[x].item = IF x = e THEN i ELSE h[x].item
      /\ h2[e].next = IF k < Len(s) THEN s[k + 1] ELSE NULL
      /\ \A x \in Element \ {e} : h2[x].next = IF k > 0 /\ x = s[k] THEN e ELSE h[x].next
      /\ f2 = IF k = 0 THEN e ELSE f
      /\ l2 = IF k = Len(s) THEN e ELSE l
  BY DEF Inserted
<1> DEFINE t == Put(s, k, e)
           n == Len(s)
<1>1. /\ s \in Seq(Element) /\ n \in Nat /\ (s = <<>> <=> n = 0)
      /\ k \in Nat /\ k <= n
  BY LinkedItems
<1>2. /\ \A j \in 1 .. n : s[j] \in Element /\ s[j] # e
      /\ \A j, m \in 1 .. n : s[j] = s[m] => j = m
      /\ \A j \in 1 .. n : h[s[j]].next = IF j < n THEN s[j + 1] ELSE NULL
  BY <1>1 DEF Linked, Chain
<1>3. /\ t \in Seq(Element) /\ Len(t) = n + 1 /\ t # <<>>
      /\ \A j \in 1 .. k : t[j] = s[j]
      /\ t[k + 1] = e
      /\ \A j \in k + 1 .. n : t[j + 1] = s[j]
  <2>1. s \in Seq(Element) /\ k \in 0 .. Len(s) /\ e \in Element
    BY <1>1
  <2> HIDE DEF t
  <2>2. t \in Seq(Element) /\ Len(t) = Len(s) + 1 /\ t # <<>>
    BY <2>1, PutExact DEF t
  <2>3. \A j \in 1 .. k : t[j] = s[j]
    BY <2>1, PutExact DEF t
  <2>4. t[k + 1] = e
    BY <2>1, PutExact DEF t
  <2>5. \A j \in k + 1 .. Len(s) : t[j + 1] = s[j]
    BY <2>1, PutExact DEF t
  <2> QED BY <2>2, <2>3, <2>4, <2>5
<1> HIDE DEF t
<1>4. \A j \in 1 .. n + 1 : t[j] = IF j <= k THEN s[j] ELSE IF j = k + 1 THEN e ELSE s[j - 1]
  BY DEF t, Put
<1>5. \A j, m \in 1 .. n + 1 : t[j] = t[m] => j = m
  <2> SUFFICES ASSUME NEW j \in 1 .. n + 1, NEW m \in 1 .. n + 1, t[j] = t[m] PROVE j = m
    OBVIOUS
  <2> DEFINE a(q) == IF q <= k THEN q ELSE q - 1
  <2>1. \A q \in 1 .. n + 1 : q # k + 1 => a(q) \in 1 .. n /\ t[q] = s[a(q)]
    BY <1>1, <1>4
  <2>2. \A q, r \in 1 .. n + 1 : q # k + 1 /\ r # k + 1 /\ a(q) = a(r) => q = r
    BY <1>1
  <2> HIDE DEF a
  <2>3. CASE j = k + 1 \/ m = k + 1
    <3>1. \A q \in 1 .. n + 1 : q # k + 1 => t[q] # e
      BY <1>2, <2>1
    <3> QED BY <1>3, <2>3, <3>1
  <2>4. CASE j # k + 1 /\ m # k + 1
    <3>1. s[a(j)] = s[a(m)] /\ a(j) \in 1 .. n /\ a(m) \in 1 .. n
      BY <2>1, <2>4
    <3>2. a(j) = a(m)
      BY <1>2, <3>1
    <3> QED BY <2>2, <2>4, <3>2
  <2> QED BY <2>3, <2>4
<1>6. f2 = t[1]
  <2>1. CASE k = 0
    BY <1>3, <2>1
  <2>2. CASE k # 0
    <3>1. 1 \in 1 .. k /\ n # 0
      BY <1>1, <2>2
    <3> QED BY <1>1, <1>3, <2>2, <3>1 DEF Linked, Chain
  <2> QED BY <2>1, <2>2
<1>7. \A j \in 1 .. n + 1 : h2[t[j]].next = IF j < n + 1 THEN t[j + 1] ELSE NULL
  <2> SUFFICES ASSUME NEW j \in 1 .. n + 1
               PROVE  h2[t[j]].next = IF j < n + 1 THEN t[j + 1] ELSE NULL
    OBVIOUS
  <2>1. CASE j < k
    <3>1. j \in 1 .. k /\ j + 1 \in 1 .. k /\ j \in 1 .. n /\ k \in 1 .. n /\ j # k /\ j < n /\ j < n + 1
      BY <1>1, <2>1
    <3>2. t[j] = s[j] /\ t[j + 1] = s[j + 1] /\ s[j] # s[k] /\ s[j] \in Element \ {e}
      BY <1>2, <1>3, <3>1
    <3>3. h2[s[j]].next = h[s[j]].next
      BY <3>2
    <3> QED BY <1>2, <3>1, <3>2, <3>3
  <2>2. CASE j = k
    <3>1. j \in 1 .. k /\ k \in 1 .. n /\ k > 0 /\ j < n + 1
      BY <1>1, <2>2
    <3>2. t[j] = s[k] /\ t[j + 1] = e /\ s[k] \in Element \ {e}
      BY <1>2, <1>3, <2>2, <3>1
    <3> QED BY <3>1, <3>2
  <2>3. CASE j = k + 1
    <3>1. CASE k < n
      <4>1. k + 1 \in k + 1 .. n /\ j < n + 1
        BY <1>1, <2>3, <3>1
      <4> QED BY <1>3, <2>3, <3>1, <4>1
    <3>2. CASE ~(k < n)
      <4>1. ~(j < n + 1)
        BY <1>1, <2>3, <3>2
      <4> QED BY <1>3, <2>3, <3>2, <4>1
    <3> QED BY <3>1, <3>2
  <2>4. CASE j > k + 1
    <3>1. /\ j - 1 \in k + 1 .. n /\ j - 1 \in 1 .. n /\ (j - 1) + 1 = j /\ (j < n + 1 <=> j - 1 < n)
          /\ j - 1 # k /\ (k > 0 => k \in 1 .. n)
      BY <1>1, <2>4
    <3>2. t[j] = s[j - 1] /\ s[j - 1] \in Element \ {e}
      BY <1>2, <1>3, <3>1
    <3>3. ~(k > 0 /\ s[j - 1] = s[k])
      BY <1>2, <3>1
    <3>4. h2[t[j]].next = h[s[j - 1]].next
      BY <3>2, <3>3
    <3>5. h[s[j - 1]].next = IF j - 1 < n THEN s[j] ELSE NULL
      BY <1>2, <3>1
    <3>6. j < n + 1 => t[j + 1] = s[j]
      BY <1>1, <1>3, <2>4
    <3> QED BY <3>1, <3>4, <3>5, <3>6
  <2>5. j < k \/ j = k \/ j = k + 1 \/ j > k + 1
    BY <1>1
  <2> QED BY <2>1, <2>2, <2>3, <2>4, <2>5
<1>8. Chain(h2, f2, t)
  BY <1>3, <1>5, <1>6, <1>7 DEF Chain
<1>9. l2 = t[n + 1]
  <2>1. CASE k = n
    BY <1>3, <2>1
  <2>2. CASE k # n
    <3>1. n \in k + 1 .. n /\ n # 0
      BY <1>1, <2>2
    <3> QED BY <1>1, <1>3, <2>2, <3>1 DEF Linked
  <2> QED BY <2>1, <2>2
<1>10. \A x \in Element : h2[x].item # NULL <=> \E j \in 1 .. n + 1 : t[j] = x
  <2> SUFFICES ASSUME NEW x \in Element
               PROVE  h2[x].item # NULL <=> \E j \in 1 .. n + 1 : t[j] = x
    OBVIOUS
  <2>1. CASE x = e
    <3>1. k + 1 \in 1 .. n + 1
      BY <1>1
    <3> QED BY <1>3, <2>1, <3>1 DEF ListAssumption
  <2>2. CASE x # e
    <3>1. h2[x].item # NULL <=> \E j \in 1 .. n : s[j] = x
      BY <2>2 DEF Linked
    <3>2. ASSUME NEW j \in 1 .. n, s[j] = x PROVE \E m \in 1 .. n + 1 : t[m] = x
      <4>1. CASE j <= k
        <5>1. j \in 1 .. k /\ j \in 1 .. n + 1
          BY <1>1, <4>1
        <5> QED BY <1>3, <3>2, <5>1
      <4>2. CASE ~(j <= k)
        <5>1. j \in k + 1 .. n /\ j + 1 \in 1 .. n + 1
          BY <1>1, <4>2
        <5> QED BY <1>3, <3>2, <5>1
      <4> QED BY <4>1, <4>2
    <3>3. ASSUME NEW j \in 1 .. n + 1, t[j] = x PROVE \E m \in 1 .. n : s[m] = x
      <4>1. j # k + 1
        BY <1>3, <2>2, <3>3
      <4>2. CASE j <= k
        <5>1. j \in 1 .. n
          BY <1>1, <4>2
        <5> QED BY <1>4, <3>3, <4>2, <5>1
      <4>3. CASE ~(j <= k)
        <5>1. j - 1 \in 1 .. n
          BY <1>1, <4>1, <4>3
        <5> QED BY <1>4, <3>3, <4>1, <4>3, <5>1
      <4> QED BY <4>2, <4>3
    <3> QED BY <3>1, <3>2, <3>3
  <2> QED BY <2>1, <2>2
<1>11. Linked(h2, f2, l2, t)
  BY <1>3, <1>8, <1>9, <1>10 DEF Linked
<1>12. ItemsOf(h2, t) = Put(ItemsOf(h, s), k, i)
  <2>1. Len(ItemsOf(h, s)) = n /\ \A j \in 1 .. n : ItemsOf(h, s)[j] = h[s[j]].item
    BY LinkedItems
  <2>2. ASSUME NEW j \in 1 .. n + 1
        PROVE  h2[t[j]].item = IF j <= k THEN ItemsOf(h, s)[j] ELSE IF j = k + 1 THEN i ELSE ItemsOf(h, s)[j - 1]
    <3>1. CASE j <= k
      <4>1. j \in 1 .. n
        BY <1>1, <3>1
      <4> QED BY <1>2, <1>4, <2>1, <3>1, <4>1
    <3>2. CASE j = k + 1
      <4>1. ~(j <= k)
        BY <1>1, <3>2
      <4> QED BY <1>3, <3>2, <4>1
    <3>3. CASE ~(j <= k) /\ j # k + 1
      <4>1. j - 1 \in 1 .. n
        BY <1>1, <3>3
      <4>2. t[j] = s[j - 1]
        BY <1>4, <3>3
      <4>3. h2[s[j - 1]].item = h[s[j - 1]].item
        BY <1>2, <4>1
      <4> QED BY <2>1, <3>3, <4>1, <4>2, <4>3
    <3> QED BY <3>1, <3>2, <3>3
  <2>3. Put(ItemsOf(h, s), k, i)
        = [j \in 1 .. n + 1 |-> IF j <= k THEN ItemsOf(h, s)[j] ELSE IF j = k + 1 THEN i ELSE ItemsOf(h, s)[j - 1]]
    BY <2>1 DEF Put
  <2>4. ItemsOf(h2, t) = [j \in 1 .. n + 1 |-> h2[t[j]].item]
    BY <1>3 DEF ItemsOf
  <2> QED BY <2>2, <2>3, <2>4
<1> QED BY <1>11, <1>12 DEF t

LEMMA RemoveLinked ==
  ASSUME ListAssumption, NEW h, NEW f, NEW l, NEW s, Linked(h, f, l, s),
         NEW k \in 1 .. Len(s), NEW h2, NEW f2, NEW l2,
         Unlinked(h, f, l, s, k, h2, f2, l2)
  PROVE  /\ Linked(h2, f2, l2, Drop(s, k))
         /\ ItemsOf(h2, Drop(s, k)) = Drop(ItemsOf(h, s), k)
<1>   /\ h2 \in [Element -> Cells]
      /\ h2[s[k]].item = NULL
      /\ \A x \in Element \ {s[k]} :
           /\ h2[x].item = h[x].item
           /\ h2[x].next = IF k > 1 /\ x = s[k - 1] THEN h[s[k]].next ELSE h[x].next
      /\ f2 = IF k = 1 THEN h[f].next ELSE f
      /\ l2 = IF k = Len(s) THEN IF k = 1 THEN NULL ELSE s[k - 1] ELSE l
  BY DEF Unlinked
<1> DEFINE t == Drop(s, k)
           n == Len(s)
<1>1. /\ s \in Seq(Element) /\ n \in Nat /\ (s = <<>> <=> n = 0)
      /\ k \in Nat /\ 1 <= k /\ k <= n /\ n - 1 \in Nat
  BY LinkedItems
<1>2. /\ \A j \in 1 .. n : s[j] \in Element
      /\ \A j, m \in 1 .. n : s[j] = s[m] => j = m
      /\ \A j \in 1 .. n : h[s[j]].next = IF j < n THEN s[j + 1] ELSE NULL
  BY <1>1 DEF Linked, Chain
<1>3. /\ t \in Seq(Element) /\ Len(t) = n - 1
      /\ \A j \in 1 .. k - 1 : t[j] = s[j]
      /\ \A j \in k .. n - 1 : t[j] = s[j + 1]
  BY <1>1, DropExact
<1> DEFINE a(q) == IF q < k THEN q ELSE q + 1
<1>4. \A q \in 1 .. n - 1 : a(q) \in 1 .. n /\ a(q) # k /\ t[q] = s[a(q)]
  BY <1>1 DEF Drop
<1>4a. \A q, r \in 1 .. n - 1 : a(q) = a(r) => q = r
  BY <1>1
<1>4b. \A m \in 1 .. n : m # k => \E q \in 1 .. n - 1 : a(q) = m
  <2> SUFFICES ASSUME NEW m \in 1 .. n, m # k PROVE \E q \in 1 .. n - 1 : a(q) = m
    OBVIOUS
  <2>1. CASE m < k
    <3>1. m \in 1 .. n - 1
      BY <1>1, <2>1
    <3> QED BY <2>1, <3>1
  <2>2. CASE ~(m < k)
    <3>1. m - 1 \in 1 .. n - 1 /\ ~(m - 1 < k) /\ (m - 1) + 1 = m
      BY <1>1, <2>2
    <3> QED BY <3>1
  <2> QED BY <2>1, <2>2
<1> HIDE DEF t
<1>5. \A j, m \in 1 .. n - 1 : t[j] = t[m] => j = m
  <2> HIDE DEF a
  <2> SUFFICES ASSUME NEW j \in 1 .. n - 1, NEW m \in 1 .. n - 1, t[j] = t[m] PROVE j = m
    OBVIOUS
  <2>1. a(j) \in 1 .. n /\ a(m) \in 1 .. n /\ s[a(j)] = s[a(m)]
    BY <1>4
  <2>2. a(j) = a(m)
    BY <1>2, <2>1
  <2> QED BY <1>4a, <2>2
<1>6. f2 = IF t = <<>> THEN NULL ELSE t[1]
  <2>1. t = <<>> <=> n = 1
    BY <1>1, <1>3
  <2>2. f = s[1] /\ 1 \in 1 .. n
    BY <1>1 DEF Linked, Chain
  <2>3. CASE k = 1
    <3>1. f2 = IF 1 < n THEN s[2] ELSE NULL
      BY <1>2, <2>2, <2>3
    <3>2. n # 1 => t[1] = s[2] /\ 1 < n
      BY <1>1, <1>3, <2>3
    <3> QED BY <1>1, <2>1, <3>1, <3>2
  <2>4. CASE k # 1
    <3>1. 1 \in 1 .. k - 1 /\ n # 1
      BY <1>1, <2>4
    <3> QED BY <1>3, <2>1, <2>2, <2>4, <3>1
  <2> QED BY <2>3, <2>4
<1>7. \A j \in 1 .. n - 1 : h2[t[j]].next = IF j < n - 1 THEN t[j + 1] ELSE NULL
  <2> SUFFICES ASSUME NEW j \in 1 .. n - 1
               PROVE  h2[t[j]].next = IF j < n - 1 THEN t[j + 1] ELSE NULL
    OBVIOUS
  <2>1. CASE j < k - 1
    <3>1. /\ j \in 1 .. k - 1 /\ j + 1 \in 1 .. k - 1 /\ j \in 1 .. n /\ k - 1 \in 1 .. n
          /\ j # k /\ j # k - 1 /\ j < n /\ j < n - 1
      BY <1>1, <2>1
    <3>2. t[j] = s[j] /\ t[j + 1] = s[j + 1] /\ s[j] # s[k - 1] /\ s[j] \in Element \ {s[k]}
      BY <1>2, <1>3, <3>1
    <3>3. h2[s[j]].next = h[s[j]].next
      BY <3>2
    <3> QED BY <1>2, <3>1, <3>2, <3>3
  <2>2. CASE j = k - 1
    <3>1. /\ j \in 1 .. k - 1 /\ j \in 1 .. n /\ k > 1 /\ k - 1 # k /\ k - 1 \in 1 .. n
          /\ (j < n - 1 <=> k < n) /\ j + 1 = k
      BY <1>1, <2>2
    <3>2. t[j] = s[k - 1] /\ s[k - 1] \in Element \ {s[k]}
      BY <1>2, <1>3, <2>2, <3>1
    <3>3. h2[t[j]].next = h[s[k]].next
      BY <3>1, <3>2
    <3>4. h[s[k]].next = IF k < n THEN s[k + 1] ELSE NULL
      BY <1>2
    <3>5. k < n => t[k] = s[k + 1]
      BY <1>1, <1>3
    <3> QED BY <3>1, <3>3, <3>4, <3>5
  <2>3. CASE j >= k
    <3>1. /\ j \in k .. n - 1 /\ j + 1 \in 1 .. n /\ j + 1 # k /\ (j < n - 1 <=> j + 1 < n)
          /\ j + 1 # k - 1 /\ (k > 1 => k - 1 \in 1 .. n)
      BY <1>1, <2>3
    <3>2. t[j] = s[j + 1] /\ s[j + 1] \in Element \ {s[k]}
      BY <1>2, <1>3, <3>1
    <3>3. ~(k > 1 /\ s[j + 1] = s[k - 1])
      BY <1>2, <3>1
    <3>4. h2[t[j]].next = h[s[j + 1]].next
      BY <3>2, <3>3
    <3>5. h[s[j + 1]].next = IF j + 1 < n THEN s[(j + 1) + 1] ELSE NULL
      BY <1>2, <3>1
    <3>6. j < n - 1 => t[j + 1] = s[(j + 1) + 1]
      BY <1>1, <1>3, <2>3
    <3> QED BY <3>1, <3>4, <3>5, <3>6
  <2>4. j < k - 1 \/ j = k - 1 \/ j >= k
    BY <1>1
  <2> QED BY <2>1, <2>2, <2>3, <2>4
<1>8. Chain(h2, f2, t)
  BY <1>3, <1>5, <1>6, <1>7 DEF Chain
<1>9. l2 = IF t = <<>> THEN NULL ELSE t[Len(t)]
  <2>1. t = <<>> <=> n = 1
    BY <1>1, <1>3
  <2>2. l = s[n]
    BY <1>1 DEF Linked
  <2>3. CASE k = n
    <3>1. n # 1 => n - 1 \in 1 .. k - 1
      BY <1>1, <2>3
    <3> QED BY <1>3, <2>1, <2>3, <3>1
  <2>4. CASE k # n
    <3>1. n - 1 \in k .. n - 1
      BY <1>1, <2>4
    <3>2. (n - 1) + 1 = n
      BY <1>1
    <3>3. n # 1
      <4>1. n > k
        BY <1>1, <2>4
      <4> SUFFICES ASSUME n = 1 PROVE FALSE
        OBVIOUS
      <4> QED BY <1>1, <4>1
    <3> QED BY <1>3, <2>1, <2>2, <2>4, <3>1, <3>2, <3>3
  <2> QED BY <2>3, <2>4
<1>10. \A x \in Element : h2[x].item # NULL <=> \E j \in 1 .. n - 1 : t[j] = x
  <2> HIDE DEF a
  <2> SUFFICES ASSUME NEW x \in Element
               PROVE  h2[x].item # NULL <=> \E j \in 1 .. n - 1 : t[j] = x
    OBVIOUS
  <2>1. CASE x = s[k]
    BY <1>2, <1>4, <2>1
  <2>2. CASE x # s[k]
    <3>1. h2[x].item # NULL <=> \E j \in 1 .. n : s[j] = x
      BY <2>2 DEF Linked
    <3>2. (\E j \in 1 .. n : s[j] = x) => \E q \in 1 .. n - 1 : t[q] = x
      <4> SUFFICES ASSUME NEW j \in 1 .. n, s[j] = x PROVE \E q \in 1 .. n - 1 : t[q] = x
        OBVIOUS
      <4>1. PICK q \in 1 .. n - 1 : a(q) = j
        BY <1>4b, <2>2
      <4> QED BY <1>4, <4>1
    <3> QED BY <1>4, <3>1, <3>2
  <2> QED BY <2>1, <2>2
<1>11. Linked(h2, f2, l2, t)
  BY <1>3, <1>8, <1>9, <1>10 DEF Linked
<1>12. ItemsOf(h2, t) = Drop(ItemsOf(h, s), k)
  <2>1. Len(ItemsOf(h, s)) = n /\ \A j \in 1 .. n : ItemsOf(h, s)[j] = h[s[j]].item
    BY LinkedItems
  <2>2. ASSUME NEW j \in 1 .. n - 1
        PROVE  h2[t[j]].item = IF j < k THEN ItemsOf(h, s)[j] ELSE ItemsOf(h, s)[j + 1]
    <3>1. h2[s[a(j)]].item = h[s[a(j)]].item
      <4> HIDE DEF a
      <4>1. s[a(j)] \in Element \ {s[k]}
        BY <1>2, <1>4
      <4> QED BY <4>1
    <3>2. h2[t[j]].item = ItemsOf(h, s)[a(j)]
      <4> HIDE DEF a
      <4> QED BY <1>4, <2>1, <3>1
    <3> QED BY <3>2
  <2>3. Drop(ItemsOf(h, s), k)
        = [j \in 1 .. n - 1 |-> IF j < k THEN ItemsOf(h, s)[j] ELSE ItemsOf(h, s)[j + 1]]
    BY <2>1 DEF Drop
  <2>4. ItemsOf(h2, t) = [j \in 1 .. n - 1 |-> h2[t[j]].item]
    BY <1>3 DEF ItemsOf
  <2> QED BY <2>2, <2>3, <2>4
<1> QED BY <1>11, <1>12 DEF t
----------------------------------------------------------------------------
LEMMA PutKeepsOrder ==
  ASSUME KeyOf \in [Item -> Int], NEW c \in Seq(Item), NEW k \in 0 .. Len(c), NEW i \in Item,
         Ordered(c),
         \A j \in 1 .. k : KeyOf[c[j]] <= KeyOf[i],
         \A j \in k + 1 .. Len(c) : KeyOf[i] <= KeyOf[c[j]]
  PROVE  Ordered(Put(c, k, i))
<1> DEFINE p == Put(c, k, i)
           n == Len(c)
<1>1. n \in Nat /\ k \in Nat /\ k <= n /\ \A j \in 1 .. n : c[j] \in Item /\ KeyOf[c[j]] \in Int
  OBVIOUS
<1>2. Len(p) = n + 1
  BY PutExact
<1>3. \A j \in 1 .. n + 1 : p[j] = IF j <= k THEN c[j] ELSE IF j = k + 1 THEN i ELSE c[j - 1]
  BY DEF Put
<1>4. KeyOf[i] \in Int
  OBVIOUS
<1> HIDE DEF p
<1>5. ASSUME NEW j \in 1 .. n + 1, NEW m \in 1 .. n + 1, j < m
      PROVE  KeyOf[p[j]] <= KeyOf[p[m]]
  <2>1. CASE m <= k
    <3>1. j \in 1 .. n /\ m \in 1 .. n /\ j <= k
      BY <1>1, <1>5, <2>1
    <3>2. p[j] = c[j] /\ p[m] = c[m]
      BY <1>3, <2>1, <3>1
    <3> QED BY <1>5, <3>1, <3>2 DEF Ordered
  <2>2. CASE m = k + 1
    <3>1. j \in 1 .. k /\ ~(m <= k) /\ j <= k
      BY <1>1, <1>5, <2>2
    <3>2. p[j] = c[j] /\ p[m] = i
      BY <1>3, <2>2, <3>1
    <3> QED BY <3>1, <3>2
  <2>3. CASE m > k + 1
    <3>1. m - 1 \in k + 1 .. n /\ m - 1 \in 1 .. n /\ ~(m <= k) /\ m # k + 1
      BY <1>1, <2>3
    <3>2. p[m] = c[m - 1]
      BY <1>3, <3>1
    <3>3. CASE j <= k
      <4>1. j \in 1 .. n /\ j < m - 1
        BY <1>1, <2>3, <3>3
      <4> QED BY <1>3, <3>1, <3>2, <3>3, <4>1 DEF Ordered
    <3>4. CASE j = k + 1
      <4>1. ~(j <= k)
        BY <1>1, <3>4
      <4>2. p[j] = i
        BY <1>3, <3>4, <4>1
      <4> QED BY <3>1, <3>2, <4>2
    <3>5. CASE j > k + 1
      <4>1. j - 1 \in 1 .. n /\ j - 1 < m - 1 /\ ~(j <= k) /\ j # k + 1
        BY <1>1, <1>5, <3>5
      <4>2. p[j] = c[j - 1]
        BY <1>3, <4>1
      <4> QED BY <3>1, <3>2, <4>1, <4>2 DEF Ordered
    <3>6. j <= k \/ j = k + 1 \/ j > k + 1
      BY <1>1
    <3> QED BY <3>3, <3>4, <3>5, <3>6
  <2>4. m <= k \/ m = k + 1 \/ m > k + 1
    BY <1>1
  <2> QED BY <2>1, <2>2, <2>3, <2>4
<1> QED BY <1>2, <1>5 DEF Ordered, p

LEMMA DropKeepsOrder ==
  ASSUME NEW c \in Seq(Item), NEW k \in 1 .. Len(c), Ordered(c)
  PROVE  Ordered(Drop(c, k))
<1> DEFINE p == Drop(c, k)
           n == Len(c)
           a(q) == IF q < k THEN q ELSE q + 1
<1>1. n \in Nat /\ k \in Nat /\ k <= n
  OBVIOUS
<1>1a. Len(p) = n - 1
  BY DropExact
<1>2. \A j \in 1 .. n - 1 : p[j] = c[a(j)] /\ a(j) \in 1 .. n
  BY <1>1 DEF Drop
<1>3. \A j, m \in 1 .. n - 1 : j < m => a(j) < a(m)
  BY <1>1
<1> HIDE DEF p, a
<1>4. ASSUME NEW j \in 1 .. n - 1, NEW m \in 1 .. n - 1, j < m
      PROVE  KeyOf[p[j]] <= KeyOf[p[m]]
  BY <1>2, <1>3, <1>4 DEF Ordered
<1> QED BY <1>1a, <1>4 DEF Ordered, p

LEMMA ContentsAre ==
  ASSUME ListAssumption, ListInv
  PROVE  /\ Contents = ItemsOf(heap, Elements) /\ Contents \in Seq(Item)
         /\ Len(Contents) = Len(Elements) /\ Len(Elements) \in Nat
         /\ numInList = Len(Elements)
         /\ \A k \in 1 .. Len(Elements) :
              Contents[k] = heap[Elements[k]].item /\ Elements[k] \in Element
<1>1. /\ Elements \in Seq(Element) /\ Len(Elements) \in Nat
      /\ ItemsOf(heap, Elements) \in Seq(Item) /\ Len(ItemsOf(heap, Elements)) = Len(Elements)
      /\ \A k \in 1 .. Len(Elements) : ItemsOf(heap, Elements)[k] = heap[Elements[k]].item
  BY LinkedItems DEF ListInv
<1>2. Contents = ItemsOf(heap, Elements)
  BY <1>1 DEF Contents, ItemsOf
<1> QED BY <1>1, <1>2 DEF ListInv

SplicedIn(k, e, i) == Inserted(heap, first, last, Elements, k, e, i, heap', first', last')

LEMMA Inserting ==
  ASSUME ListAssumption, ListInv, NEW e \in Element, NEW i \in Item, New(e, i), Counted,
         NEW k \in 0 .. Len(Elements), SplicedIn(k, e, i),
         sorted => /\ \A j \in 1 .. k : KeyOf[Contents[j]] <= KeyOf[i]
                   /\ \A j \in k + 1 .. Len(Contents) : KeyOf[i] <= KeyOf[Contents[j]],
         \/ k \in {0, Len(Contents)}
         \/ /\ \A j \in 1 .. k : KeyOf[Contents[j]] <= KeyOf[i]
            /\ KeyOf[i] < KeyOf[Contents[k + 1]]
  PROVE  ListInv' /\ Abstract!Add(i)
<1>1. /\ Contents = ItemsOf(heap, Elements) /\ Contents \in Seq(Item)
      /\ Len(Contents) = Len(Elements) /\ Len(Elements) \in Nat
  BY ContentsAre
<1>2. /\ Linked(heap', first', last', Put(Elements, k, e))
      /\ ItemsOf(heap', Put(Elements, k, e)) = Put(Contents, k, i)
  BY <1>1, InsertLinked DEF ListInv, SplicedIn, New
<1>3. Elements' = Put(Elements, k, e)
  BY <1>2, FromChain DEF Elements, Linked, ListAssumption
<1>4. Len(Elements') = Len(Elements) + 1
  <2>1. Elements \in Seq(Element)
    BY DEF ListInv, Linked, Chain
  <2> QED BY <1>3, <2>1, PutExact
<1>5. sorted' => Ordered(ItemsOf(heap', Elements'))
  <2> SUFFICES ASSUME sorted PROVE Ordered(Put(Contents, k, i))
    BY <1>2, <1>3 DEF Counted
  <2>1. Ordered(Contents)
    BY <1>1 DEF ListInv
  <2> QED BY <1>1, <2>1, PutKeepsOrder DEF ListAssumption
<1>6. ListInv'
  BY <1>2, <1>3, <1>4, <1>5 DEF ListInv, Counted
<1>7. Contents' = Put(Contents, k, i)
  <2>1. Contents' = ItemsOf(heap', Elements')
    <3>1. DOMAIN Elements' = 1 .. Len(Elements')
      BY <1>6 DEF ListInv, Linked, Chain
    <3> QED BY <3>1 DEF Contents, ItemsOf
  <2> QED BY <1>2, <1>3, <2>1
<1>8. Contents' = SubSeq(Contents, 1, k) \o <<i>> \o SubSeq(Contents, k + 1, Len(Contents))
  <2>1. k \in 0 .. Len(Contents)
    BY <1>1
  <2> QED BY <1>1, <1>7, <2>1, PutIsConcat
<1>9. ~Abstract!In(Contents, i)
  BY DEF New, IsInList, Abstract!In
<1>10. k \in 0 .. Len(Contents)
  BY <1>1
<1> QED BY <1>6, <1>8, <1>9, <1>10 DEF Abstract!Add, Counted

LEMMA Removing ==
  ASSUME ListAssumption, ListInv, NEW k \in 1 .. Len(Elements),
         Unlinked(heap, first, last, Elements, k, heap', first', last'),
         removed' = heap[Elements[k]].item, numInList' = numInList - 1, UNCHANGED sorted
  PROVE  ListInv' /\ Abstract!Take(k) /\ k \in DOMAIN Contents
<1>1. /\ Contents = ItemsOf(heap, Elements) /\ Contents \in Seq(Item)
      /\ Len(Contents) = Len(Elements) /\ Len(Elements) \in Nat
      /\ numInList = Len(Elements) /\ Contents[k] = heap[Elements[k]].item
  BY ContentsAre
<1>2. /\ Linked(heap', first', last', Drop(Elements, k))
      /\ ItemsOf(heap', Drop(Elements, k)) = Drop(Contents, k)
  BY <1>1, RemoveLinked DEF ListInv
<1>3. Elements' = Drop(Elements, k)
  BY <1>2, FromChain DEF Elements, Linked, ListAssumption
<1>4. Len(Elements') = Len(Elements) - 1
  <2>1. Elements \in Seq(Element)
    BY DEF ListInv, Linked, Chain
  <2> QED BY <1>3, <2>1, DropExact
<1>5. k \in 1 .. Len(Contents)
  BY <1>1
<1>6. sorted' => Ordered(ItemsOf(heap', Elements'))
  <2> SUFFICES ASSUME sorted PROVE Ordered(Drop(Contents, k))
    BY <1>2, <1>3
  <2>1. Ordered(Contents)
    BY <1>1 DEF ListInv
  <2> QED BY <1>1, <1>5, <2>1, DropKeepsOrder
<1>7. ListInv'
  <2>1. numInList' = Len(Elements')
    BY <1>1, <1>4
  <2> QED BY <1>2, <1>3, <1>6, <2>1 DEF ListInv
<1>8. Contents' = Drop(Contents, k)
  <2>1. Contents' = ItemsOf(heap', Elements')
    <3>1. DOMAIN Elements' = 1 .. Len(Elements')
      BY <1>7 DEF ListInv, Linked, Chain
    <3> QED BY <3>1 DEF Contents, ItemsOf
  <2> QED BY <1>2, <1>3, <2>1
<1>9. Contents' = Abstract!Without(Contents, k)
  BY <1>1, <1>5, <1>8, DropExact DEF Abstract!Without
<1>10. k \in DOMAIN Contents
  BY <1>1, <1>5
<1> QED BY <1>1, <1>7, <1>9, <1>10 DEF Abstract!Take

(* The fields of a list that has elements, and the way through them.       *)
LEMMA Ends ==
  ASSUME ListAssumption, ListInv
  PROVE  /\ Elements \in Seq(Element) /\ Len(Elements) \in Nat /\ numInList = Len(Elements)
         /\ heap \in [Element -> Cells]
         /\ IsEmpty <=> Len(Elements) = 0
         /\ Len(Elements) = 0 => first = NULL /\ last = NULL
         /\ Len(Elements) # 0 => /\ first = Elements[1] /\ last = Elements[Len(Elements)]
                                 /\ first \in Element /\ last \in Element
         /\ \A k \in 1 .. Len(Elements) :
              /\ Elements[k] \in Element /\ heap[Elements[k]].item \in Item
              /\ heap[Elements[k]].next = IF k < Len(Elements) THEN Elements[k + 1] ELSE NULL
         /\ \A j, k \in 1 .. Len(Elements) : Elements[j] = Elements[k] => j = k
<1>1. Elements \in Seq(Element) /\ Len(Elements) \in Nat /\ numInList = Len(Elements)
  BY DEF ListInv, Linked, Chain
<1>2. Elements = <<>> <=> Len(Elements) = 0
  BY <1>1
<1>3. IsEmpty <=> Len(Elements) = 0
  BY <1>1 DEF IsEmpty
<1>4. Len(Elements) = 0 => first = NULL /\ last = NULL
  BY <1>2 DEF ListInv, Linked, Chain
<1>5. Len(Elements) # 0 => first = Elements[1] /\ last = Elements[Len(Elements)]
  BY <1>2 DEF ListInv, Linked, Chain
<1>6. \A k \in 1 .. Len(Elements) : Elements[k] \in Element
  BY <1>1
<1>7. \A k \in 1 .. Len(Elements) : heap[Elements[k]].item \in Item
  BY <1>1, LinkedItems DEF ListInv
<1>8. \A k \in 1 .. Len(Elements) :
        heap[Elements[k]].next = IF k < Len(Elements) THEN Elements[k + 1] ELSE NULL
  BY DEF ListInv, Linked, Chain
<1>9. \A j, k \in 1 .. Len(Elements) : Elements[j] = Elements[k] => j = k
  BY DEF ListInv, Linked, Chain
<1>10. Len(Elements) # 0 => first \in Element /\ last \in Element
  <2>1. Len(Elements) # 0 => 1 \in 1 .. Len(Elements) /\ Len(Elements) \in 1 .. Len(Elements)
    BY <1>1
  <2> QED BY <1>5, <1>6, <2>1
<1>11. heap \in [Element -> Cells]
  BY DEF ListInv, Linked
<1> QED BY <1>1, <1>3, <1>4, <1>5, <1>6, <1>7, <1>8, <1>9, <1>10, <1>11

(* Each of the four ways puts the element in somewhere.                    *)
LEMMA PutAloneInserts ==
  ASSUME ListAssumption, ListInv, NEW e \in Element, NEW i \in Item, New(e, i), PutAlone(e, i)
  PROVE  0 = Len(Elements) /\ SplicedIn(0, e, i)
<1>1. Len(Elements) = 0 /\ heap \in [Element -> Cells]
  BY Ends DEF PutAlone
<1>2. heap' = [heap EXCEPT ![e] = [item |-> i, next |-> NULL]]
  BY DEF PutAlone, ListElement
<1>3. heap' \in [Element -> Cells]
  BY <1>1, <1>2 DEF Cells
<1> QED BY <1>1, <1>2, <1>3 DEF SplicedIn, Inserted, PutAlone

LEMMA PutFirstInserts ==
  ASSUME ListAssumption, ListInv, NEW e \in Element, NEW i \in Item, New(e, i),
         ~IsEmpty, PutFirst(e, i)
  PROVE  SplicedIn(0, e, i)
<1>1. /\ Len(Elements) # 0 /\ Len(Elements) \in Nat /\ heap \in [Element -> Cells]
      /\ first = Elements[1] /\ first \in Element
  BY Ends
<1>2. heap' = [heap EXCEPT ![e] = [item |-> i, next |-> first]]
  BY DEF PutFirst, ListElement
<1>3. heap' \in [Element -> Cells]
  BY <1>1, <1>2 DEF Cells
<1>4. 0 < Len(Elements) /\ 0 # Len(Elements) /\ 0 + 1 = 1
  BY <1>1
<1>5. heap'[e].next = Elements[0 + 1]
  BY <1>1, <1>2, <1>4
<1> QED BY <1>1, <1>2, <1>3, <1>4, <1>5 DEF SplicedIn, Inserted, PutFirst

LEMMA PutBehindInserts ==
  ASSUME ListAssumption, ListInv, NEW e \in Element, NEW i \in Item, New(e, i),
         NEW k \in 1 .. Len(Elements),
         heap' = [heap EXCEPT ![e] = [item |-> i, next |-> heap[Elements[k]].next],
                              ![Elements[k]].next = e],
         first' = first, last' = IF k = Len(Elements) THEN e ELSE last
  PROVE  SplicedIn(k, e, i)
<1> DEFINE p == Elements[k]
<1>1. /\ heap \in [Element -> Cells] /\ p \in Element /\ heap[p].item \in Item
      /\ heap[p].next = IF k < Len(Elements) THEN Elements[k + 1] ELSE NULL
      /\ Len(Elements) \in Nat /\ k # 0 /\ k > 0
  BY Ends
<1>2. p # e
  BY <1>1 DEF New, ListAssumption
<1> HIDE DEF p
<1> DEFINE g == [heap EXCEPT ![e] = [item |-> i, next |-> heap[p].next]]
<1>3. heap' = [g EXCEPT ![p] = [g[p] EXCEPT !.next = e]]
  BY DEF p
<1>4. heap[p].next \in Element \cup {NULL}
  BY <1>1 DEF Cells
<1>5. g \in [Element -> Cells] /\ g[p] = heap[p] /\ g[e] = [item |-> i, next |-> heap[p].next]
      /\ \A x \in Element \ {e} : g[x] = heap[x]
  BY <1>1, <1>2, <1>4 DEF Cells
<1> HIDE DEF g
<1>6. heap[p] = [item |-> heap[p].item, next |-> heap[p].next]
  BY <1>1 DEF Cells
<1>7. [g[p] EXCEPT !.next = e] = [item |-> heap[p].item, next |-> e]
  BY <1>5, <1>6
<1>8. heap' = [g EXCEPT ![p] = [item |-> heap[p].item, next |-> e]]
  BY <1>3, <1>7
<1>9. heap' \in [Element -> Cells]
  <2>1. [item |-> heap[p].item, next |-> e] \in Cells
    BY <1>1 DEF Cells
  <2> QED BY <1>5, <1>8, <2>1
<1>10. /\ heap'[e] = [item |-> i, next |-> heap[p].next]
       /\ heap'[p] = [item |-> heap[p].item, next |-> e]
       /\ \A x \in Element : x # e /\ x # p => heap'[x] = heap[x]
  BY <1>1, <1>2, <1>5, <1>8
<1>11. \A x \in Element : heap'[x].item = IF x = e THEN i ELSE heap[x].item
  <2> SUFFICES ASSUME NEW x \in Element
               PROVE  heap'[x].item = IF x = e THEN i ELSE heap[x].item
    OBVIOUS
  <2>1. CASE x = e
    BY <1>10, <2>1
  <2>2. CASE x = p
    BY <1>2, <1>10, <2>2
  <2>3. CASE x # e /\ x # p
    <3>1. heap'[x] = heap[x]
      BY <1>10, <2>3
    <3> QED BY <2>3, <3>1
  <2> QED BY <2>1, <2>2, <2>3
<1>12. \A x \in Element \ {e} : heap'[x].next = IF k > 0 /\ x = p THEN e ELSE heap[x].next
  BY <1>1, <1>10
<1>13. heap'[e].next = IF k < Len(Elements) THEN Elements[k + 1] ELSE NULL
  BY <1>1, <1>10
<1> QED BY <1>1, <1>9, <1>11, <1>12, <1>13 DEF SplicedIn, Inserted, p

LEMMA PutLastInserts ==
  ASSUME ListAssumption, ListInv, NEW e \in Element, NEW i \in Item, New(e, i),
         ~IsEmpty, PutLast(e, i)
  PROVE  SplicedIn(Len(Elements), e, i)
<1> DEFINE n == Len(Elements)
<1>1. n # 0 /\ n \in Nat /\ last = Elements[n]
  BY Ends
<1>2. n \in 1 .. n /\ ~(n < n)
  BY <1>1
<1>3. heap[Elements[n]].next = NULL
  BY <1>2, Ends
<1>4. heap' = [heap EXCEPT ![e] = [item |-> i, next |-> heap[Elements[n]].next],
                           ![Elements[n]].next = e]
  BY <1>1, <1>3 DEF PutLast, ListElement
<1> HIDE DEF n
<1>5. first' = first /\ last' = IF n = n THEN e ELSE last
  BY DEF PutLast
<1> QED BY <1>2, <1>4, <1>5, PutBehindInserts DEF n

LEMMA AppendStep ==
  ASSUME ListAssumption, ListInv, NEW e \in Element, NEW i \in Item, AppendItem(e, i)
  PROVE  ListInv' /\ Abstract!Add(i)
<1>1. ~sorted /\ New(e, i) /\ Counted
  BY DEF AppendItem
<1>2. Len(Contents) = Len(Elements) /\ Len(Elements) \in Nat
  BY ContentsAre
<1>3. CASE PutAlone(e, i)
  <2>1. 0 \in 0 .. Len(Elements) /\ SplicedIn(0, e, i)
    BY <1>1, <1>2, <1>3, PutAloneInserts
  <2>2. 0 \in {0, Len(Contents)}
    OBVIOUS
  <2> QED BY <1>1, <2>1, <2>2, Inserting
<1>4. CASE ~IsEmpty /\ PutLast(e, i)
  <2>1. Len(Elements) \in 0 .. Len(Elements) /\ SplicedIn(Len(Elements), e, i)
    BY <1>1, <1>2, <1>4, PutLastInserts
  <2>2. Len(Elements) \in {0, Len(Contents)}
    BY <1>2
  <2> QED BY <1>1, <2>1, <2>2, Inserting
<1> QED BY <1>3, <1>4 DEF AppendItem

LEMMA PrependStep ==
  ASSUME ListAssumption, ListInv, NEW e \in Element, NEW i \in Item, PrependItem(e, i)
  PROVE  ListInv' /\ Abstract!Add(i)
<1>1. ~sorted /\ New(e, i) /\ Counted
  BY DEF PrependItem
<1>2. 0 \in 0 .. Len(Elements) /\ 0 \in {0, Len(Contents)}
  BY ContentsAre
<1>3. SplicedIn(0, e, i)
  BY <1>1, PutAloneInserts, PutFirstInserts DEF PrependItem
<1> QED BY <1>1, <1>2, <1>3, Inserting

(* SortedList::Insert finds a place that keeps the list in order.          *)
LEMMA InsertStep ==
  ASSUME ListAssumption, ListInv, NEW e \in Element, NEW i \in Item, InsertItem(e, i)
  PROVE  ListInv' /\ Abstract!Add(i)
<1> DEFINE n == Len(Elements)
           later == {k \in 2 .. Len(Elements) : Bigger(i, Elements[k])}
<1>1. sorted /\ New(e, i) /\ Counted
  BY DEF InsertItem
<1>2. /\ Len(Contents) = n /\ n \in Nat /\ Contents \in Seq(Item)
      /\ Contents = ItemsOf(heap, Elements)
      /\ \A k \in 1 .. n : Contents[k] = heap[Elements[k]].item
  BY ContentsAre
<1>3. \A j, k \in 1 .. n : j < k => KeyOf[Contents[j]] <= KeyOf[Contents[k]]
  BY <1>1, <1>2 DEF ListInv, Ordered
<1>4. /\ KeyOf[i] \in Int
      /\ \A k \in 1 .. n : /\ KeyOf[Contents[k]] \in Int
                           /\ Bigger(i, Elements[k]) <=> KeyOf[i] < KeyOf[Contents[k]]
  BY <1>2 DEF ListAssumption, Bigger
<1>5. IsEmpty <=> n = 0
  BY Ends
<1>6. n # 0 => first = Elements[1] /\ 1 \in 1 .. n
  BY <1>2, Ends
<1> HIDE DEF later
<1>7. CASE PutAlone(e, i)
  <2>1. SplicedIn(0, e, i) /\ n = 0
    BY <1>1, <1>7, PutAloneInserts
  <2>2. 0 \in 0 .. n /\ 0 \in {0, Len(Contents)}
    BY <1>2
  <2>3. /\ \A j \in 1 .. 0 : KeyOf[Contents[j]] <= KeyOf[i]
        /\ \A j \in 0 + 1 .. Len(Contents) : KeyOf[i] <= KeyOf[Contents[j]]
    BY <1>2, <2>1
  <2> QED BY <1>1, <2>1, <2>2, <2>3, Inserting
<1>8. CASE ~IsEmpty /\ Bigger(i, first) /\ PutFirst(e, i)
  <2>1. SplicedIn(0, e, i)
    BY <1>1, <1>8, PutFirstInserts
  <2>2. 0 \in 0 .. n /\ 0 \in {0, Len(Contents)}
    BY <1>2
  <2>3. \A j \in 1 .. 0 : KeyOf[Contents[j]] <= KeyOf[i]
    OBVIOUS
  <2>4. KeyOf[i] < KeyOf[Contents[1]]
    BY <1>4, <1>5, <1>6, <1>8
  <2>5. ASSUME NEW j \in 0 + 1 .. Len(Contents) PROVE KeyOf[i] <= KeyOf[Contents[j]]
    <3>1. j \in 1 .. n /\ 1 \in 1 .. n /\ (j = 1 \/ 1 < j)
      BY <1>2
    <3>2. KeyOf[Contents[1]] <= KeyOf[Contents[j]]
      BY <1>3, <1>4, <3>1
    <3> QED BY <1>4, <2>4, <3>1, <3>2
  <2> QED BY <1>1, <2>1, <2>2, <2>3, <2>5, Inserting
<1>9. CASE ~IsEmpty /\ ~Bigger(i, first) /\ later = {} /\ PutLast(e, i)
  <2>1. SplicedIn(n, e, i)
    BY <1>1, <1>9, PutLastInserts
  <2>2. n \in 0 .. n /\ n \in {0, Len(Contents)}
    BY <1>2
  <2>3. ASSUME NEW j \in 1 .. n PROVE KeyOf[Contents[j]] <= KeyOf[i]
    <3>1. ~Bigger(i, Elements[j])
      <4>1. CASE j = 1
        BY <1>5, <1>6, <1>9, <4>1
      <4>2. CASE j # 1
        <5>1. j \in 2 .. Len(Elements)
          BY <1>2, <4>2
        <5> QED BY <1>9, <5>1 DEF later
      <4> QED BY <4>1, <4>2
    <3> QED BY <1>4, <3>1
  <2>4. \A j \in n + 1 .. Len(Contents) : KeyOf[i] <= KeyOf[Contents[j]]
    BY <1>2
  <2> QED BY <1>1, <2>1, <2>2, <2>3, <2>4, Inserting
<1>10. CASE /\ ~IsEmpty /\ ~Bigger(i, first) /\ later # {}
            /\ PutBehind(e, i, Elements[(CHOOSE k \in later : \A j \in later : k <= j) - 1])
  <2> DEFINE m == CHOOSE k \in later : \A j \in later : k <= j
  <2>1. later \subseteq Nat /\ later \subseteq 2 .. n
    BY <1>2 DEF later
  <2>2. m \in later /\ \A j \in later : m <= j
    <3>1. \E k \in later : \A j \in later : k <= j
      BY <1>10, <2>1, Least
    <3> QED BY <3>1
  <2>3. PutBehind(e, i, Elements[m - 1])
    BY <1>10
  <2> HIDE DEF m
  <2>4. m \in 2 .. n /\ KeyOf[i] < KeyOf[Contents[m]]
    <3>1. m \in 2 .. n /\ Bigger(i, Elements[m])
      BY <2>2 DEF later
    <3>2. m \in 1 .. n
      BY <3>1
    <3> QED BY <1>4, <3>1, <3>2
  <2> DEFINE k == m - 1
  <2>5. k \in 1 .. n /\ k \in 0 .. n /\ k # n /\ k + 1 = m /\ k \in Int /\ m \in 1 .. n
    BY <1>2, <2>4
  <2>6. SplicedIn(k, e, i)
    <3>1. heap' = [heap EXCEPT ![e] = [item |-> i, next |-> heap[Elements[k]].next],
                               ![Elements[k]].next = e]
      BY <2>3 DEF PutBehind, ListElement
    <3>2. first' = first /\ last' = IF k = n THEN e ELSE last
      BY <2>3, <2>5 DEF PutBehind
    <3> HIDE DEF k
    <3> QED BY <1>1, <2>5, <3>1, <3>2, PutBehindInserts
  <2>7. ASSUME NEW j \in 1 .. k PROVE KeyOf[Contents[j]] <= KeyOf[i]
    <3>1. j \in 1 .. n /\ ~(m <= j)
      BY <2>4
    <3>2. ~Bigger(i, Elements[j])
      <4>1. CASE j = 1
        BY <1>5, <1>6, <1>10, <4>1
      <4>2. CASE j # 1
        <5>1. j \in 2 .. Len(Elements)
          BY <3>1, <4>2
        <5> QED BY <2>2, <3>1, <5>1 DEF later
      <4> QED BY <4>1, <4>2
    <3> QED BY <1>4, <3>1, <3>2
  <2>8. ASSUME NEW j \in k + 1 .. Len(Contents) PROVE KeyOf[i] <= KeyOf[Contents[j]]
    <3>1. j \in 1 .. n /\ (j = m \/ m < j)
      BY <1>2, <2>4, <2>5
    <3>2. KeyOf[Contents[m]] <= KeyOf[Contents[j]]
      BY <1>3, <1>4, <2>5, <3>1
    <3> QED BY <1>4, <2>4, <2>5, <3>1, <3>2
  <2>9. KeyOf[i] < KeyOf[Contents[k + 1]]
    BY <2>4, <2>5
  <2> HIDE DEF k
  <2> QED BY <1>1, <2>5, <2>6, <2>7, <2>8, <2>9, Inserting
<1>11. \/ PutAlone(e, i)
       \/ ~IsEmpty /\ Bigger(i, first) /\ PutFirst(e, i)
       \/ ~IsEmpty /\ ~Bigger(i, first) /\ later = {} /\ PutLast(e, i)
       \/ /\ ~IsEmpty /\ ~Bigger(i, first) /\ later # {}
          /\ PutBehind(e, i, Elements[(CHOOSE k \in later : \A j \in later : k <= j) - 1])
  BY Zenon DEF InsertItem, later
<1> QED BY <1>7, <1>8, <1>9, <1>10, <1>11

LEMMA UnlinkFirstRemoves ==
  ASSUME ListAssumption, ListInv, ~IsEmpty, UnlinkFirst
  PROVE  /\ 1 \in 1 .. Len(Elements) /\ first = Elements[1]
         /\ Unlinked(heap, first, last, Elements, 1, heap', first', last')
         /\ removed' = heap[Elements[1]].item
<1> DEFINE n == Len(Elements)
<1>1. /\ n \in Nat /\ n # 0 /\ first = Elements[1] /\ last = Elements[n] /\ first \in Element
      /\ heap \in [Element -> Cells]
  BY Ends
<1>2. 1 \in 1 .. n /\ n \in 1 .. n
  BY <1>1
<1>3. first = last <=> 1 = n
  BY <1>1, <1>2, Ends
<1>4. heap[first].next = IF 1 < n THEN Elements[2] ELSE NULL
  BY <1>1, <1>2, Ends
<1>5. heap' = [heap EXCEPT ![first] = [item |-> NULL, next |-> NULL]]
  BY DEF UnlinkFirst, Freed
<1>6. heap' \in [Element -> Cells]
  <2>1. [item |-> NULL, next |-> NULL] \in Cells
    BY DEF Cells
  <2> QED BY <1>1, <1>5, <2>1
<1>7. heap'[first].item = NULL /\ \A x \in Element \ {first} : heap'[x] = heap[x]
  BY <1>1, <1>5
<1>8. first' = heap[first].next
  <2>1. CASE first = last
    <3>1. ~(1 < n)
      <4>1. 1 = n
        BY <1>3, <2>1
      <4>2. n \in Int
        BY <1>1
      <4> HIDE DEF n
      <4> QED BY <4>1, <4>2
    <3> QED BY <1>4, <2>1, <3>1 DEF UnlinkFirst
  <2>2. CASE first # last
    BY <2>2 DEF UnlinkFirst
  <2> QED BY <2>1, <2>2
<1>9. last' = IF 1 = n THEN NULL ELSE last
  BY <1>3 DEF UnlinkFirst
<1>10. removed' = heap[Elements[1]].item
  BY <1>1 DEF UnlinkFirst
<1>11. ~(1 > 1)
  OBVIOUS
<1>12. Unlinked(heap, first, last, Elements, 1, heap', first', last')
  BY <1>1, <1>6, <1>7, <1>8, <1>9, <1>11 DEF Unlinked
<1> QED BY <1>1, <1>2, <1>10, <1>12

LEMMA RemoveFrontStep ==
  ASSUME ListAssumption, ListInv, RemoveFront
  PROVE  ListInv' /\ \E k \in DOMAIN Contents : Abstract!Take(k)
<1>1. /\ 1 \in 1 .. Len(Elements)
      /\ Unlinked(heap, first, last, Elements, 1, heap', first', last')
      /\ removed' = heap[Elements[1]].item
  BY UnlinkFirstRemoves DEF RemoveFront
<1>2. ListInv' /\ Abstract!Take(1) /\ 1 \in DOMAIN Contents
  BY <1>1, Removing DEF RemoveFront
<1> QED BY <1>2

LEMMA RemoveStep ==
  ASSUME ListAssumption, ListInv, NEW i \in Item, RemoveItem(i)
  PROVE  ListInv' /\ \E k \in DOMAIN Contents : Abstract!Take(k)
<1> DEFINE n == Len(Elements)
<1>1. PICK c \in 1 .. n : heap[Elements[c]].item = i
  <2>1. DOMAIN Contents = 1 .. n /\ \A k \in 1 .. n : Contents[k] = heap[Elements[k]].item
    BY ContentsAre
  <2> QED BY <2>1 DEF RemoveItem, IsInList
<1>2. n \in Nat /\ n # 0 /\ ~IsEmpty /\ DOMAIN Elements = 1 .. n
  BY <1>1, Ends
<1>3. CASE heap[first].item = i
  <2>1. /\ 1 \in 1 .. n
        /\ Unlinked(heap, first, last, Elements, 1, heap', first', last')
        /\ removed' = heap[Elements[1]].item
    BY <1>2, <1>3, UnlinkFirstRemoves DEF RemoveItem
  <2>2. ListInv' /\ Abstract!Take(1) /\ 1 \in DOMAIN Contents
    BY <2>1, Removing DEF RemoveItem
  <2> QED BY <2>2
<1>4. CASE heap[first].item # i
  <2> DEFINE k == CHOOSE k \in DOMAIN Elements : heap[Elements[k]].item = i
             e == Elements[k]
             p == Elements[k - 1]
  <2>1. k \in 1 .. n /\ heap[Elements[k]].item = i
    BY <1>1, <1>2
  <2>2. /\ heap' = Freed([heap EXCEPT ![p].next = heap[e].next], e)
        /\ last' = IF heap[e].next = NULL THEN p ELSE last
        /\ removed' = i /\ first' = first
    BY <1>4, Zenon DEF RemoveItem
  <2> HIDE DEF k
  <2>3. first = Elements[1]
    BY <1>2, Ends
  <2>4. k # 1
    BY <1>4, <2>1, <2>3
  <2>5. k > 1 /\ k - 1 \in 1 .. n /\ k - 1 # k
    BY <2>1, <2>4
  <2>6. /\ e \in Element /\ p \in Element /\ p # e
        /\ heap \in [Element -> Cells] /\ heap[e] \in Cells /\ heap[p] \in Cells
        /\ heap[e].next = IF k < n THEN Elements[k + 1] ELSE NULL
    <3>1. e \in Element /\ heap[e].next = IF k < n THEN Elements[k + 1] ELSE NULL
      BY <2>1, Ends
    <3>2. p \in Element /\ p # e
      BY <2>1, <2>5, Ends
    <3>3. heap \in [Element -> Cells]
      BY Ends
    <3> QED BY <3>1, <3>2, <3>3
  <2> HIDE DEF e, p
  <2> DEFINE g == [heap EXCEPT ![p] = [heap[p] EXCEPT !.next = heap[e].next]]
  <2>7. heap' = [g EXCEPT ![e] = [item |-> NULL, next |-> NULL]]
    BY <2>2 DEF Freed
  <2>8. heap[p] = [item |-> heap[p].item, next |-> heap[p].next]
    BY <2>6 DEF Cells
  <2>9. [heap[p] EXCEPT !.next = heap[e].next] = [item |-> heap[p].item, next |-> heap[e].next]
    BY <2>8
  <2>10. /\ [item |-> NULL, next |-> NULL] \in Cells
         /\ [item |-> heap[p].item, next |-> heap[e].next] \in Cells
    BY <2>6 DEF Cells
  <2>11. /\ g \in [Element -> Cells] /\ g[p] = [item |-> heap[p].item, next |-> heap[e].next]
         /\ \A x \in Element \ {p} : g[x] = heap[x]
    BY <2>6, <2>9, <2>10
  <2> HIDE DEF g
  <2>12. /\ heap' \in [Element -> Cells] /\ heap'[e].item = NULL
         /\ \A x \in Element \ {e} : heap'[x] = g[x]
    BY <2>6, <2>7, <2>10, <2>11
  <2>13. ASSUME NEW x \in Element \ {e}
         PROVE  /\ heap'[x].item = heap[x].item
                /\ heap'[x].next = IF k > 1 /\ x = p THEN heap[e].next ELSE heap[x].next
    <3>1. CASE x = p
      BY <2>5, <2>11, <2>12, <3>1
    <3>2. CASE x # p
      BY <2>11, <2>12, <3>2
    <3> QED BY <3>1, <3>2
  <2>14. heap[e].next = NULL <=> k = n
    <3>1. CASE k = n
      <4>1. ~(k < n)
        BY <1>2, <3>1
      <4> QED BY <2>6, <3>1, <4>1
    <3>2. CASE k # n
      <4>1. k < n /\ k + 1 \in 1 .. n
        <5>1. k \in Int /\ n \in Int /\ 1 <= k /\ k <= n
          BY <1>2, <2>1
        <5>2. k < n
          BY <3>2, <5>1
        <5> QED BY <5>1, <5>2
      <4>2. Elements[k + 1] \in Element
        BY <4>1, Ends
      <4> QED BY <2>6, <3>2, <4>1, <4>2 DEF ListAssumption
    <3> QED BY <3>1, <3>2
  <2>15. last' = IF k = n THEN IF k = 1 THEN NULL ELSE p ELSE last
    BY <2>2, <2>4, <2>14
  <2>16. first' = IF k = 1 THEN heap[first].next ELSE first
    BY <2>2, <2>4
  <2>17. Unlinked(heap, first, last, Elements, k, heap', first', last')
    BY <2>12, <2>13, <2>15, <2>16 DEF Unlinked, e, p
  <2>18. removed' = heap[Elements[k]].item
    BY <2>1, <2>2
  <2>19. ListInv' /\ Abstract!Take(k) /\ k \in DOMAIN Contents
    BY <2>1, <2>17, <2>18, Removing DEF RemoveItem
  <2> QED BY <2>19
<1> QED BY <1>3, <1>4

LEMMA ListInitially ==
  ASSUME ListAssumption, ListInit
  PROVE  ListInv /\ Contents = <<>>
<1>1. Chain(heap, first, <<>>)
  BY DEF ListInit, Chain
<1>2. Elements = <<>>
  BY <1>1, FromChain DEF Elements, ListAssumption
<1>3. heap \in [Element -> Cells]
  BY DEF ListInit, Cells
<1>4. Linked(heap, first, last, <<>>)
  BY <1>1, <1>3 DEF ListInit, Linked
<1>5. Ordered(ItemsOf(heap, <<>>))
  BY DEF ItemsOf, Ordered
<1>6. ListInv
  BY <1>2, <1>4, <1>5 DEF ListInv, ListInit
<1> QED BY <1>2, <1>6 DEF Contents

LEMMA ListStep ==
  ASSUME ListAssumption, ListInv, [ListNext]_listVars
  PROVE  /\ ListInv'
         /\ [(\E i \in Item : Abstract!Add(i)) \/ (\E k \in DOMAIN Contents : Abstract!Take(k))]_<<Contents, removed>>
<1>1. ASSUME NEW e \in Element, NEW i \in Item,
             AppendItem(e, i) \/ PrependItem(e, i) \/ InsertItem(e, i)
      PROVE  ListInv' /\ Abstract!Add(i)
  BY <1>1, AppendStep, PrependStep, InsertStep
<1>2. ASSUME RemoveFront \/ \E i \in Item : RemoveItem(i)
      PROVE  ListInv' /\ \E k \in DOMAIN Contents : Abstract!Take(k)
  BY <1>2, RemoveFrontStep, RemoveStep
<1>3. ASSUME UNCHANGED listVars PROVE ListInv' /\ UNCHANGED <<Contents, removed>>
  <2>1. Elements' = Elements
    BY <1>3 DEF listVars, Elements
  <2>2. ListInv'
    BY <1>3, <2>1 DEF listVars, ListInv
  <2>3. Contents' = Contents
    BY <1>3, <2>1 DEF listVars, Contents
  <2> QED BY <1>3, <2>2, <2>3 DEF listVars
<1> QED BY <1>1, <1>2, <1>3 DEF ListNext

LEMMA ListInvMeans ==
  ASSUME ListAssumption, ListInv
  PROVE  SanityCheck /\ NoneLost
<1>1. /\ Contents = ItemsOf(heap, Elements) /\ Len(Contents) = Len(Elements)
      /\ Contents \in Seq(Item) /\ numInList = Len(Elements)
  BY ContentsAre
<1>2. DOMAIN Contents = 1 .. Len(Contents) /\ DOMAIN Elements = 1 .. Len(Elements)
  BY <1>1, Ends
<1>3. sorted => \A j, k \in DOMAIN Contents : j < k => KeyOf[Contents[j]] <= KeyOf[Contents[k]]
  BY <1>1, <1>2 DEF ListInv, Ordered
<1>4. IF Elements = <<>> THEN first = NULL /\ last = NULL ELSE last = Elements[Len(Elements)]
  BY DEF ListInv, Linked, Chain
<1>5. NoneLost
  BY <1>2, Ends DEF NoneLost, ListInv, Linked
<1> QED BY <1>1, <1>3, <1>4, <1>5 DEF SanityCheck

(* SanityCheck of List and SortedList (lib/list.cc) never fails: the list  *)
(* ends with last, holds numInList items and is in order if it is sorted;  *)
(* and no element leaks or is in it twice.                                 *)
THEOREM ListsAreSane == ASSUME ListAssumption PROVE ListSpec => [](SanityCheck /\ NoneLost)
<1>1. ListInit => ListInv
  BY ListInitially
<1>2. ListInv /\ [ListNext]_listVars => ListInv'
  BY ListStep
<1>3. ListInv => SanityCheck /\ NoneLost
  BY ListInvMeans
<1> QED BY <1>1, <1>2, <1>3, PTL DEF ListSpec

(* Every call of a List or SortedList does to the items, through the       *)
(* pointers, what the promised sequence does (lib/list.cc, lib/list.h).    *)
THEOREM ListsAreSequences == ASSUME ListAssumption PROVE ListSpec => ImplementsSequence
<1>1. ListInit => ListInv /\ Contents = <<>>
  BY ListInitially
<1>2. ListInv /\ [ListNext]_listVars
      => /\ ListInv'
         /\ [(\E i \in Item : Abstract!Add(i)) \/ (\E k \in DOMAIN Contents : Abstract!Take(k))]_<<Contents, removed>>
  BY ListStep
<1> QED BY <1>1, <1>2, PTL DEF ListSpec, ImplementsSequence, Abstract!SequenceSpec
----------------------------------------------------------------------------
USE HostFilesAssumption

HostInv == HostTypeOK /\ OwnDescriptors

(* An open object has a descriptor of its own, and it is open.             *)
LEMMA OpenObjects ==
  ASSUME HostInv, NEW o \in Object, open[o] # NoFile
  PROVE  /\ open[o] \in OpenFile /\ File(o) \in Fd
         /\ hostOffset[File(o)] # NoFile /\ hostOffset[File(o)] \in Descriptor
         /\ Content(o) \in Seq(Byte) /\ Len(Content(o)) <= MaxLength
         /\ \A p \in Object : open[p] # NoFile /\ p # o => File(p) # File(o)
<1>1. open[o] \in OpenFile /\ File(o) \in Fd
  BY DEF HostInv, HostTypeOK, OpenFile, File
<1>2. hostOffset[File(o)] # NoFile
  BY <1>1 DEF HostInv, OwnDescriptors
<1>3. hostOffset[File(o)] \in Descriptor
  BY <1>1, <1>2 DEF HostInv, HostTypeOK
<1>4. Content(o) \in Seq(Byte) /\ Len(Content(o)) <= MaxLength
  BY <1>3 DEF HostInv, HostTypeOK, Content, Descriptor
<1> QED BY <1>1, <1>2, <1>3, <1>4 DEF HostInv, OwnDescriptors

(* What is read at a position inside the bound ends inside it.             *)
LEMMA PartBounded ==
  ASSUME NEW s \in Seq(Byte), Len(s) <= MaxLength, NEW n \in Size, NEW p \in 0 .. MaxLength
  PROVE  /\ Part(s, p, n) \in Seq(Byte)
         /\ p + Len(Part(s, p, n)) \in 0 .. MaxLength
<1> DEFINE m == Lesser(p + n, Len(s))
<1>1. m \in Nat /\ m <= Len(s)
  BY DEF Lesser
<1>2. Part(s, p, n) \in Seq(Byte)
  BY <1>1 DEF Part
<1>3. CASE p + 1 <= m
  <2>1. Len(SubSeq(s, p + 1, m)) = m - p
    BY <1>1, <1>3
  <2> QED BY <1>1, <1>2, <1>3, <2>1 DEF Part
<1>4. CASE ~(p + 1 <= m)
  <2>1. Len(SubSeq(s, p + 1, m)) = 0
    BY <1>1, <1>4
  <2> QED BY <1>2, <2>1 DEF Part
<1> QED BY <1>3, <1>4

(* What writing within the bound leaves is a file within the bound.        *)
LEMMA OverlaidBounded ==
  ASSUME NEW s \in Seq(Byte), Len(s) <= MaxLength, NEW n \in Size, NEW bytes \in [1 .. n -> Byte],
         NEW p \in 0 .. MaxLength, p + Len(bytes) <= MaxLength
  PROVE  /\ Overlaid(s, p, bytes) \in Seq(Byte)
         /\ Len(Overlaid(s, p, bytes)) <= MaxLength
<1>1. bytes \in Seq(Byte) /\ Len(bytes) = n /\ n \in Nat
  OBVIOUS
<1> DEFINE m == IF p + n > Len(s) THEN p + n ELSE Len(s)
           f == [k \in 1 .. m |-> IF k > p /\ k <= p + n THEN bytes[k - p]
                                  ELSE IF k <= Len(s) THEN s[k] ELSE NUL]
<1>2. m \in Nat /\ m <= MaxLength
  BY <1>1
<1>3. \A k \in 1 .. m : f[k] \in Byte
  BY <1>1, <1>2
<1>4. Overlaid(s, p, bytes) = f
  BY <1>1 DEF Overlaid
<1> HIDE DEF f, m
<1>5. f \in [1 .. m -> Byte]
  BY <1>3 DEF f
<1>6. f \in Seq(Byte) /\ Len(f) = m
  BY <1>2, <1>5
<1> QED BY <1>2, <1>4, <1>6
(* What the calls on an object do to the handles: the one of the object    *)
(* goes to another position, wherever the host's offset of its descriptor  *)
(* goes.                                                                   *)
Handles == [o \in Object |-> HandleOf(o)]

LEMMA HandleType ==
  ASSUME HostInv, NEW o \in Object
  PROVE  /\ HandleOf(o) \in Handle \cup {NoFile}
         /\ HandleOf(o) = NoFile <=> open[o] = NoFile
<1>1. CASE open[o] = NoFile
  BY <1>1 DEF HandleOf
<1>2. CASE open[o] # NoFile
  <2>1. hostOffset[File(o)].inode \in Inode /\ open[o].currentOffset \in 0 .. MaxLength
    BY <1>2, OpenObjects DEF Descriptor, OpenFile
  <2>2. HandleOf(o) \in Handle
    BY <1>2, <2>1 DEF HandleOf, Handle
  <2> QED BY <1>2, <2>2
<1> QED BY <1>1, <1>2

LEMMA CallMoves ==
  ASSUME HostInv, NEW o \in Object, open[o] # NoFile,
         NEW at \in 0 .. MaxLength, NEW pos \in 0 .. MaxLength,
         hostOffset' = Lseek(File(o), at),
         open' = [open EXCEPT ![o].currentOffset = pos]
  PROVE  /\ hostOffset' \in [Fd -> Descriptor \cup {NoFile}]
         /\ open' \in [Object -> OpenFile \cup {NoFile}]
         /\ OwnDescriptors'
         /\ Handles' = [Handles EXCEPT ![o].pos = pos]
<1>0. /\ hostOffset \in [Fd -> Descriptor \cup {NoFile}]
      /\ open \in [Object -> OpenFile \cup {NoFile}]
  BY DEF HostInv, HostTypeOK
<1>1. /\ open[o] \in OpenFile /\ File(o) \in Fd
      /\ hostOffset[File(o)] # NoFile /\ hostOffset[File(o)] \in Descriptor
      /\ \A p \in Object : open[p] # NoFile /\ p # o => File(p) # File(o)
  BY OpenObjects
<1>2. /\ hostOffset'[File(o)] = [hostOffset[File(o)] EXCEPT !.at = at]
      /\ \A f \in Fd : f # File(o) => hostOffset'[f] = hostOffset[f]
  BY <1>0, <1>1 DEF Lseek
<1>3. /\ open'[o] = [open[o] EXCEPT !.currentOffset = pos]
      /\ \A p \in Object : p # o => open'[p] = open[p]
  BY <1>0
<1>4. /\ hostOffset'[File(o)] \in Descriptor
      /\ hostOffset'[File(o)].inode = hostOffset[File(o)].inode
  BY <1>1, <1>2 DEF Descriptor
<1>5. /\ open'[o] \in OpenFile
      /\ open'[o].file = open[o].file /\ open'[o].currentOffset = pos
  BY <1>1, <1>3 DEF OpenFile
<1>6. \A f \in Fd : hostOffset'[f] \in Descriptor \cup {NoFile}
  BY <1>0, <1>2, <1>4
<1>7. hostOffset' \in [Fd -> Descriptor \cup {NoFile}]
  BY <1>0, <1>6 DEF Lseek
<1>8. \A p \in Object : open'[p] \in OpenFile \cup {NoFile}
  BY <1>0, <1>3, <1>5
<1>9. open' \in [Object -> OpenFile \cup {NoFile}]
  BY <1>0, <1>8
<1>10. \A p \in Object : open'[p] # NoFile <=> open[p] # NoFile
  BY <1>3, <1>5
<1>11. \A p \in Object : open[p] # NoFile => File(p)' = File(p)
  BY <1>3, <1>5 DEF File
<1>12. \A f \in Fd : hostOffset'[f] # NoFile <=> hostOffset[f] # NoFile
  BY <1>1, <1>2, <1>4
<1>13. OwnDescriptors'
  BY <1>10, <1>11, <1>12 DEF HostInv, OwnDescriptors
<1>14. HandleOf(o) = [inode |-> hostOffset[File(o)].inode, pos |-> open[o].currentOffset]
  BY DEF HandleOf
<1>15. HandleOf(o)' = [inode |-> hostOffset[File(o)].inode, pos |-> pos]
  BY <1>4, <1>5, <1>10, <1>11 DEF HandleOf
<1>16. \A p \in Object : p # o => HandleOf(p)' = HandleOf(p)
  <2> SUFFICES ASSUME NEW p \in Object, p # o PROVE HandleOf(p)' = HandleOf(p)
    OBVIOUS
  <2>1. CASE open[p] = NoFile
    BY <1>3, <2>1 DEF HandleOf
  <2>2. CASE open[p] # NoFile
    BY <1>1, <1>2, <1>3, <1>11, <2>2, OpenObjects DEF HandleOf
  <2> QED BY <2>1, <2>2
<1>17. Handles' = [Handles EXCEPT ![o].pos = pos]
  <2>1. HandleOf(o)' = [HandleOf(o) EXCEPT !.pos = pos]
    BY <1>14, <1>15
  <2>2. Handles' = [p \in Object |-> HandleOf(p)']
    BY DEF Handles
  <2>3. [Handles EXCEPT ![o].pos = pos]
          = [p \in Object |-> IF p = o THEN [HandleOf(o) EXCEPT !.pos = pos] ELSE HandleOf(p)]
    BY DEF Handles
  <2> QED BY <1>16, <2>1, <2>2, <2>3
<1> QED BY <1>7, <1>9, <1>13, <1>17
LEMMA CallStays ==
  ASSUME HostInv, NEW o \in Object, open[o] # NoFile, NEW at \in 0 .. MaxLength,
         hostOffset' = Lseek(File(o), at), open' = open
  PROVE  /\ hostOffset' \in [Fd -> Descriptor \cup {NoFile}]
         /\ OwnDescriptors'
         /\ Handles' = Handles
<1> DEFINE pos == open[o].currentOffset
<1>1. pos \in 0 .. MaxLength /\ open[o] \in OpenFile
  BY OpenObjects DEF OpenFile
<1>2. [open[o] EXCEPT !.currentOffset = pos] = open[o]
  BY <1>1 DEF OpenFile
<1>3. open' = [open EXCEPT ![o].currentOffset = pos]
  BY <1>2 DEF HostInv, HostTypeOK
<1>4. HandleOf(o) = [inode |-> hostOffset[File(o)].inode, pos |-> pos]
  BY DEF HandleOf
<1>5. [Handles EXCEPT ![o].pos = pos] = Handles
  BY <1>4 DEF Handles
<1> HIDE DEF pos
<1> QED BY <1>1, <1>3, <1>5, CallMoves

(* A descriptor in use is that of an object.                               *)
LEMMA SameUse ==
  ASSUME HostInv, NEW i \in Inode
  PROVE  InUse(i) <=> Files!Used(i)
<1>1. (\E f \in Fd : hostOffset[f] # NoFile /\ hostOffset[f].inode = i)
        <=> (\E o \in Object : open[o] # NoFile /\ hostOffset[File(o)].inode = i)
  BY OpenObjects DEF HostInv, OwnDescriptors
<1>2. \A o \in Object : /\ HandleOf(o) # NoFile <=> open[o] # NoFile
                        /\ open[o] # NoFile => HandleOf(o).inode = hostOffset[File(o)].inode
  BY HandleType DEF HandleOf
<1> QED BY <1>1, <1>2 DEF InUse, Files!Used

----------------------------------------------------------------------------
(* Each call keeps the invariant and is the call of the same name there.   *)
LEMMA CreateImplements ==
  ASSUME HostInv, NEW n \in Name, CreateFile(n)
  PROVE  HostInv' /\ Files!Create(n)
<1>1. PICK i \in Inode : /\ IF dir[n] # NoFile THEN i = dir[n] ELSE ~InUse(i)
                         /\ dir' = [dir EXCEPT ![n] = i]
                         /\ data' = [data EXCEPT ![i] = <<>>]
  BY DEF CreateFile
<1>2. Handles' = Handles
  BY DEF CreateFile, Handles, HandleOf, File
<1>3. /\ dir' \in [Name -> Inode \cup {NoFile}]
      /\ data' \in [Inode -> Seq(Byte)]
      /\ \A j \in Inode : Len(data'[j]) <= MaxLength
  BY <1>1 DEF HostInv, HostTypeOK
<1>4. HostInv'
  BY <1>3 DEF HostInv, HostTypeOK, OwnDescriptors, CreateFile, File
<1>5. Files!Create(n)
  BY <1>1, <1>2, SameUse DEF Files!Create, CreateFile, Handles
<1> QED BY <1>4, <1>5

LEMMA RemoveImplements ==
  ASSUME HostInv, NEW n \in Name, Unlink(n)
  PROVE  HostInv' /\ Files!Remove(n)
<1>1. Handles' = Handles
  BY DEF Unlink, Handles, HandleOf, File
<1>2. dir' \in [Name -> Inode \cup {NoFile}]
  BY DEF HostInv, HostTypeOK, Unlink
<1>3. HostInv'
  BY <1>2 DEF HostInv, HostTypeOK, OwnDescriptors, Unlink, File
<1>4. Files!Remove(n)
  BY <1>1 DEF Files!Remove, Unlink, Handles
<1> QED BY <1>3, <1>4

(* What is the same when an object gets or gives up its descriptor.        *)
LEMMA OthersKeep ==
  ASSUME HostInv, NEW o \in Object, NEW p \in Object, p # o, NEW f \in Fd,
         open'[p] = open[p], open[p] # NoFile => File(p) # f,
         \A g \in Fd : g # f => hostOffset'[g] = hostOffset[g]
  PROVE  HandleOf(p)' = HandleOf(p) /\ (open[p] # NoFile => File(p)' = File(p))
<1>1. CASE open[p] = NoFile
  BY <1>1 DEF HandleOf
<1>2. CASE open[p] # NoFile
  <2>1. File(p) \in Fd /\ File(p)' = File(p)
    BY <1>2, OpenObjects DEF File
  <2> QED BY <1>2, <2>1 DEF HandleOf
<1> QED BY <1>1, <1>2

LEMMA OpenImplements ==
  ASSUME HostInv, NEW o \in Object, NEW n \in Name, OpenNamed(o, n)
  PROVE  HostInv' /\ Files!Open(o, n)
<1>0. /\ hostOffset \in [Fd -> Descriptor \cup {NoFile}]
      /\ open \in [Object -> OpenFile \cup {NoFile}]
      /\ dir \in [Name -> Inode \cup {NoFile}]
  BY DEF HostInv, HostTypeOK
<1>1. open[o] = NoFile /\ HandleOf(o) = NoFile
  BY DEF OpenNamed, HandleOf
<1>2. Files!Open(o, n) <=>
        /\ result' = <<"Open", dir[n] # NoFile>> /\ Handles[o] = NoFile
        /\ Handles' = [Handles EXCEPT ![o] =
                         IF dir[n] = NoFile THEN NoFile ELSE [inode |-> dir[n], pos |-> 0]]
        /\ UNCHANGED <<dir, data>>
  BY DEF Files!Open, Handles
<1>3. Handles[o] = NoFile
  BY <1>1 DEF Handles
<1>4. CASE dir[n] = NoFile
  <2>1. Handles' = Handles
    BY <1>4 DEF OpenNamed, Handles, HandleOf, File
  <2>2. [Handles EXCEPT ![o] = NoFile] = Handles
    BY <1>3 DEF Handles
  <2>3. HostInv'
    BY <1>4 DEF HostInv, HostTypeOK, OwnDescriptors, OpenNamed, File
  <2> QED BY <1>2, <1>3, <1>4, <2>1, <2>2, <2>3 DEF OpenNamed
<1>5. CASE dir[n] # NoFile
  <2>1. PICK f \in Fd :
          /\ LowestFree(f)
          /\ hostOffset' = [hostOffset EXCEPT ![f] = [inode |-> dir[n], at |-> 0]]
          /\ open' = [open EXCEPT ![o] = [file |-> f, currentOffset |-> 0]]
    BY <1>5 DEF OpenNamed
  <2>2. /\ hostOffset[f] = NoFile
        /\ hostOffset'[f] = [inode |-> dir[n], at |-> 0]
        /\ open'[o] = [file |-> f, currentOffset |-> 0]
        /\ \A g \in Fd : g # f => hostOffset'[g] = hostOffset[g]
        /\ \A p \in Object : p # o => open'[p] = open[p]
    BY <1>0, <2>1 DEF LowestFree
  <2>3. hostOffset'[f] \in Descriptor /\ open'[o] \in OpenFile /\ File(o)' = f
    BY <1>0, <1>5, <2>2 DEF Descriptor, OpenFile, File
  <2>4. \A p \in Object : open[p] # NoFile => File(p) # f
    BY <2>2, OpenObjects
  <2>5. \A p \in Object : p # o =>
          HandleOf(p)' = HandleOf(p) /\ (open[p] # NoFile => File(p)' = File(p))
    BY <2>2, <2>4, OthersKeep
  <2>6. HandleOf(o)' = [inode |-> dir[n], pos |-> 0]
    BY <2>2, <2>3 DEF HandleOf
  <2>7. hostOffset' \in [Fd -> Descriptor \cup {NoFile}]
    BY <1>0, <2>1, <2>2, <2>3
  <2>8. open' \in [Object -> OpenFile \cup {NoFile}]
    BY <1>0, <2>1, <2>2, <2>3
  <2>9. OwnDescriptors'
    <3>1. \A p, r \in Object : open'[p] # NoFile /\ open'[r] # NoFile /\ p # r =>
            File(p)' # File(r)'
      BY <2>2, <2>3, <2>4, <2>5 DEF HostInv, OwnDescriptors
    <3>2. \A g \in Fd : hostOffset'[g] # NoFile <=> g = f \/ hostOffset[g] # NoFile
      BY <2>2, <2>3
    <3>3. \A g : (\E p \in Object : open'[p] # NoFile /\ g = File(p)')
                   <=> g = f \/ (\E p \in Object : open[p] # NoFile /\ g = File(p))
      BY <1>1, <2>2, <2>3, <2>5
    <3>4. \A g : g \in {h \in Fd : hostOffset[h] # NoFile}
                 <=> g \in {File(p) : p \in {q \in Object : open[q] # NoFile}}
      BY DEF HostInv, OwnDescriptors
    <3>5. \A g : (g \in Fd /\ hostOffset[g] # NoFile)
                 <=> (\E p \in Object : open[p] # NoFile /\ g = File(p))
      BY <3>4
    <3>6. \A g : (g \in Fd /\ hostOffset'[g] # NoFile)
                 <=> (\E p \in Object : open'[p] # NoFile /\ g = File(p)')
      BY <3>2, <3>3, <3>5
    <3>7. {g \in Fd : hostOffset'[g] # NoFile}
            = {File(p)' : p \in {q \in Object : open'[q] # NoFile}}
      BY <3>6
    <3> QED BY <3>1, <3>7 DEF OwnDescriptors
  <2>10. HostInv'
    BY <2>7, <2>8, <2>9 DEF HostInv, HostTypeOK, OpenNamed
  <2>11. Handles' = [Handles EXCEPT ![o] = [inode |-> dir[n], pos |-> 0]]
    <3>1. Handles' = [p \in Object |-> HandleOf(p)']
      BY DEF Handles
    <3>2. [Handles EXCEPT ![o] = [inode |-> dir[n], pos |-> 0]]
            = [p \in Object |-> IF p = o THEN [inode |-> dir[n], pos |-> 0] ELSE HandleOf(p)]
      BY DEF Handles
    <3> QED BY <2>5, <2>6, <3>1, <3>2
  <2> QED BY <1>2, <1>3, <1>5, <2>10, <2>11 DEF OpenNamed
<1> QED BY <1>4, <1>5

LEMMA CloseImplements ==
  ASSUME HostInv, NEW o \in Object, CloseFile(o)
  PROVE  HostInv' /\ Files!Close(o)
<1> DEFINE f == File(o)
<1>0. /\ hostOffset \in [Fd -> Descriptor \cup {NoFile}]
      /\ open \in [Object -> OpenFile \cup {NoFile}]
  BY DEF HostInv, HostTypeOK
<1>1. /\ open[o] # NoFile /\ f \in Fd
      /\ \A p \in Object : open[p] # NoFile /\ p # o => File(p) # f
  BY OpenObjects DEF CloseFile
<1> HIDE DEF f
<1>2. /\ hostOffset' = [hostOffset EXCEPT ![f] = NoFile]
      /\ open' = [open EXCEPT ![o] = NoFile]
  BY DEF CloseFile, f
<1>3. /\ hostOffset'[f] = NoFile /\ open'[o] = NoFile
      /\ \A g \in Fd : g # f => hostOffset'[g] = hostOffset[g]
      /\ \A p \in Object : p # o => open'[p] = open[p]
  BY <1>0, <1>1, <1>2
<1>4. \A p \in Object : p # o =>
        HandleOf(p)' = HandleOf(p) /\ (open[p] # NoFile => File(p)' = File(p))
  BY <1>1, <1>3, OthersKeep
<1>5. HandleOf(o)' = NoFile
  BY <1>3 DEF HandleOf
<1>6. /\ hostOffset' \in [Fd -> Descriptor \cup {NoFile}]
      /\ open' \in [Object -> OpenFile \cup {NoFile}]
  BY <1>0, <1>2
<1>7. OwnDescriptors'
  <2>1. \A p, r \in Object : open'[p] # NoFile /\ open'[r] # NoFile /\ p # r =>
          File(p)' # File(r)'
    BY <1>3, <1>4 DEF HostInv, OwnDescriptors
  <2>2. \A g : g \in {h \in Fd : hostOffset[h] # NoFile}
               <=> g \in {File(p) : p \in {q \in Object : open[q] # NoFile}}
    BY DEF HostInv, OwnDescriptors
  <2>3. \A g : (g \in Fd /\ hostOffset[g] # NoFile)
               <=> (\E p \in Object : open[p] # NoFile /\ g = File(p))
    BY <2>2
  <2>4. \A g : (g \in Fd /\ hostOffset'[g] # NoFile)
               <=> g # f /\ (\E p \in Object : open[p] # NoFile /\ g = File(p))
    BY <1>3, <2>3
  <2>5. \A g : (\E p \in Object : open'[p] # NoFile /\ g = File(p)')
               <=> g # f /\ (\E p \in Object : open[p] # NoFile /\ g = File(p))
    BY <1>1, <1>3, <1>4 DEF f
  <2>6. {g \in Fd : hostOffset'[g] # NoFile}
          = {File(p)' : p \in {q \in Object : open'[q] # NoFile}}
    BY <2>4, <2>5
  <2> QED BY <2>1, <2>6 DEF OwnDescriptors
<1>8. HostInv'
  BY <1>6, <1>7 DEF HostInv, HostTypeOK, CloseFile
<1>9. Handles' = [Handles EXCEPT ![o] = NoFile]
  <2>1. Handles' = [p \in Object |-> HandleOf(p)']
    BY DEF Handles
  <2>2. [Handles EXCEPT ![o] = NoFile]
          = [p \in Object |-> IF p = o THEN NoFile ELSE HandleOf(p)]
    BY DEF Handles
  <2> QED BY <1>4, <1>5, <2>1, <2>2
<1>10. Files!Close(o)
  BY <1>9 DEF Files!Close, CloseFile, Handles
<1> QED BY <1>8, <1>10

(* The handle of an open object, and the operators of both modules.        *)
LEMMA SameFile ==
  ASSUME HostInv, NEW o \in Object, open[o] # NoFile
  PROVE  /\ o \in Files!Opened
         /\ Handles[o].inode = hostOffset[File(o)].inode
         /\ Handles[o].inode \in Inode
         /\ Handles[o].pos = open[o].currentOffset
         /\ Handles[o].pos \in 0 .. MaxLength
         /\ Content(o) = data[Handles[o].inode]
<1>1. HandleOf(o) = [inode |-> hostOffset[File(o)].inode, pos |-> open[o].currentOffset]
  BY DEF HandleOf
<1>2. Handles[o] = HandleOf(o)
  BY DEF Handles
<1>3. o \in Files!Opened
  BY HandleType DEF Files!Opened
<1>4. open[o].currentOffset \in 0 .. MaxLength /\ hostOffset[File(o)].inode \in Inode
  BY OpenObjects DEF OpenFile, Descriptor
<1> QED BY <1>1, <1>2, <1>3, <1>4 DEF Content

LEMMA ReadAtImplements ==
  ASSUME HostInv, NEW o \in Object, NEW n \in Size, NEW p \in 0 .. MaxLength, ReadAt(o, n, p)
  PROVE  HostInv' /\ o \in Files!Opened /\ Files!ReadAt(o, n, p)
<1> DEFINE bytes == Part(Content(o), p, n)
<1>1. open[o] # NoFile /\ Content(o) \in Seq(Byte) /\ Len(Content(o)) <= MaxLength
  BY OpenObjects DEF ReadAt
<1>2. p + Len(bytes) \in 0 .. MaxLength
  BY <1>1, PartBounded
<1>3. /\ result' = <<"ReadAt", bytes>> /\ open' = open /\ dir' = dir /\ data' = data
      /\ version' = version
  BY DEF ReadAt, LseekRead, Moved, ReadPartial
<1>4. hostOffset' = Lseek(File(o), p + Len(bytes))
  BY DEF ReadAt, LseekRead, Moved, ReadPartial
<1> HIDE DEF bytes
<1>5. /\ hostOffset' \in [Fd -> Descriptor \cup {NoFile}] /\ OwnDescriptors'
      /\ Handles' = Handles
  BY <1>1, <1>2, <1>3, <1>4, CallStays
<1>6. HostInv'
  BY <1>3, <1>5 DEF HostInv, HostTypeOK
<1>7. o \in Files!Opened /\ bytes = Files!Part(data[Handles[o].inode], p, n)
  BY <1>1, SameFile DEF bytes, Part, Lesser, Files!Part, Files!Lesser
<1> QED BY <1>3, <1>5, <1>6, <1>7 DEF Files!ReadAt, Handles

LEMMA LengthImplements ==
  ASSUME HostInv, NEW o \in Object, Length(o)
  PROVE  HostInv' /\ o \in Files!Opened /\ Files!Length(o)
<1> DEFINE at == IF version = "code" THEN Len(Content(o)) ELSE open[o].currentOffset
<1>1. open[o] # NoFile /\ Content(o) \in Seq(Byte) /\ Len(Content(o)) <= MaxLength
  BY OpenObjects DEF Length
<1>2. /\ o \in Files!Opened /\ Content(o) = data[Handles[o].inode]
      /\ open[o].currentOffset \in 0 .. MaxLength
  BY <1>1, SameFile
<1>3. at \in 0 .. MaxLength
  BY <1>1, <1>2
<1>4. /\ result' = <<"Length", Len(Content(o))>> /\ open' = open /\ dir' = dir
      /\ data' = data /\ version' = version /\ hostOffset' = Lseek(File(o), at)
  BY DEF Length
<1> HIDE DEF at
<1>5. /\ hostOffset' \in [Fd -> Descriptor \cup {NoFile}] /\ OwnDescriptors'
      /\ Handles' = Handles
  BY <1>1, <1>3, <1>4, CallStays
<1>6. HostInv'
  BY <1>4, <1>5 DEF HostInv, HostTypeOK
<1> QED BY <1>2, <1>4, <1>5, <1>6 DEF Files!Length, Handles

LEMMA ReadImplements ==
  ASSUME HostInv, NEW o \in Object, NEW n \in Size, Read(o, n)
  PROVE  HostInv' /\ o \in Files!Opened /\ Files!Read(o, n)
<1> DEFINE pos == open[o].currentOffset
           bytes == Part(Content(o), pos, n)
<1>1. open[o] # NoFile /\ Content(o) \in Seq(Byte) /\ Len(Content(o)) <= MaxLength
  BY OpenObjects DEF Read
<1>2. /\ o \in Files!Opened /\ Content(o) = data[Handles[o].inode]
      /\ Handles[o].pos = pos /\ pos \in 0 .. MaxLength
  BY <1>1, SameFile
<1>3. pos + Len(bytes) \in 0 .. MaxLength
  BY <1>1, <1>2, PartBounded
<1>4. /\ result' = <<"Read", bytes>> /\ dir' = dir /\ data' = data /\ version' = version
      /\ open' = [open EXCEPT ![o].currentOffset = @ + Len(bytes)]
      /\ hostOffset' = Lseek(File(o), pos + Len(bytes))
  BY DEF Read, LseekRead, Moved, ReadPartial
<1>5. open' = [open EXCEPT ![o].currentOffset = pos + Len(bytes)]
  BY <1>4
<1>6. bytes = Files!Part(data[Handles[o].inode], Handles[o].pos, n)
  BY <1>2 DEF Part, Lesser, Files!Part, Files!Lesser
<1> HIDE DEF pos, bytes
<1>7. /\ hostOffset' \in [Fd -> Descriptor \cup {NoFile}] /\ OwnDescriptors'
      /\ open' \in [Object -> OpenFile \cup {NoFile}]
      /\ Handles' = [Handles EXCEPT ![o].pos = pos + Len(bytes)]
  BY <1>1, <1>3, <1>4, <1>5, CallMoves
<1>8. HostInv'
  BY <1>4, <1>7 DEF HostInv, HostTypeOK
<1>9. Handles' = [Handles EXCEPT ![o].pos = @ + Len(bytes)]
  BY <1>2, <1>7
<1> QED BY <1>2, <1>4, <1>6, <1>8, <1>9 DEF Files!Read, Handles

LEMMA WriteImplements ==
  ASSUME HostInv, NEW o \in Object, NEW n \in Size, NEW bytes \in [1 .. n -> Byte], Write(o, bytes)
  PROVE  HostInv' /\ o \in Files!Opened /\ Files!Write(o, bytes)
<1> DEFINE pos == open[o].currentOffset
           i == hostOffset[File(o)].inode
<1>0. bytes \in Seq(Byte) /\ Len(bytes) = n /\ n \in Nat
  OBVIOUS
<1>1. /\ open[o] # NoFile /\ Content(o) = data[i] /\ Content(o) \in Seq(Byte)
      /\ Len(Content(o)) <= MaxLength
  BY OpenObjects DEF Write, Content
<1>2. /\ o \in Files!Opened /\ Handles[o].inode = i /\ i \in Inode
      /\ Handles[o].pos = pos /\ pos \in 0 .. MaxLength
  BY <1>1, SameFile
<1>3. /\ result' = <<"Write", Len(bytes)>> /\ dir' = dir /\ version' = version
      /\ pos + Len(bytes) <= MaxLength
      /\ data' = [data EXCEPT ![i] = IF bytes = <<>> THEN @ ELSE Overlaid(@, pos, bytes)]
      /\ open' = [open EXCEPT ![o].currentOffset = @ + Len(bytes)]
      /\ hostOffset' = Lseek(File(o), pos + Len(bytes))
  BY DEF Write, WriteAt, WriteFile, Moved
<1>4. open' = [open EXCEPT ![o].currentOffset = pos + Len(bytes)]
  BY <1>3
<1>5. Overlaid(data[i], pos, bytes) = Files!Overlaid(data[i], pos, bytes)
  BY DEF Overlaid, Files!Overlaid
<1> HIDE DEF pos, i
<1>6. pos + Len(bytes) \in 0 .. MaxLength
  BY <1>0, <1>2, <1>3
<1>7. /\ hostOffset' \in [Fd -> Descriptor \cup {NoFile}] /\ OwnDescriptors'
      /\ open' \in [Object -> OpenFile \cup {NoFile}]
      /\ Handles' = [Handles EXCEPT ![o].pos = pos + Len(bytes)]
  BY <1>1, <1>3, <1>4, <1>6, CallMoves
<1>8. /\ data' \in [Inode -> Seq(Byte)]
      /\ \A j \in Inode : Len(data'[j]) <= MaxLength
  <2> DEFINE written == Overlaid(data[i], pos, bytes)
  <2>1. written \in Seq(Byte) /\ Len(written) <= MaxLength
    BY <1>1, <1>2, <1>3, OverlaidBounded
  <2>2. data' = [data EXCEPT ![i] = IF bytes = <<>> THEN data[i] ELSE written]
    BY <1>3
  <2>3. data \in [Inode -> Seq(Byte)] /\ \A j \in Inode : Len(data[j]) <= MaxLength
    BY DEF HostInv, HostTypeOK
  <2> HIDE DEF written
  <2> QED BY <1>2, <2>1, <2>2, <2>3
<1>9. HostInv'
  BY <1>3, <1>7, <1>8 DEF HostInv, HostTypeOK
<1>10. Handles' = [Handles EXCEPT ![o].pos = @ + Len(bytes)]
  BY <1>2, <1>7
<1>11. data' = [data EXCEPT ![Handles[o].inode] =
                  IF bytes = <<>> THEN @ ELSE Files!Overlaid(@, Handles[o].pos, bytes)]
  BY <1>2, <1>3, <1>5
<1> QED BY <1>2, <1>3, <1>9, <1>10, <1>11 DEF Files!Write, Handles

LEMMA SeekImplements ==
  ASSUME HostInv, NEW o \in Object, NEW p \in 0 .. MaxLength, Seek(o, p)
  PROVE  HostInv' /\ o \in Files!Opened /\ Files!Seek(o, p)
<1>1. /\ open[o] # NoFile /\ result' = <<"Seek", p>> /\ dir' = dir /\ data' = data
      /\ version' = version /\ hostOffset' = Lseek(File(o), p)
      /\ open' = [open EXCEPT ![o].currentOffset = p]
  BY DEF Seek
<1>2. o \in Files!Opened
  BY <1>1, SameFile
<1>3. /\ hostOffset' \in [Fd -> Descriptor \cup {NoFile}] /\ OwnDescriptors'
      /\ open' \in [Object -> OpenFile \cup {NoFile}]
      /\ Handles' = [Handles EXCEPT ![o].pos = p]
  BY <1>1, CallMoves
<1>4. HostInv'
  BY <1>1, <1>3 DEF HostInv, HostTypeOK
<1> QED BY <1>1, <1>2, <1>3, <1>4 DEF Files!Seek, Handles

----------------------------------------------------------------------------
LEMMA HostInitially ==
  ASSUME HostInit
  PROVE  HostInv /\ Files!FilesInit
<1>1. \A o \in Object : HandleOf(o) = NoFile
  BY DEF HostInit, HandleOf
<1>2. HostInv
  BY DEF HostInit, HostInv, HostTypeOK, OwnDescriptors
<1>3. Files!FilesInit
  BY <1>1 DEF HostInit, Files!FilesInit
<1> QED BY <1>2, <1>3

LEMMA HostStep ==
  ASSUME HostInv, [HostNext]_hostFileVars
  PROVE  HostInv' /\ [Files!FilesNext]_(Files!filesVars)
<1>1. ASSUME NEW n \in Name, CreateFile(n) PROVE HostInv' /\ Files!FilesNext
  BY <1>1, CreateImplements DEF Files!FilesNext
<1>2. ASSUME NEW n \in Name, Unlink(n) PROVE HostInv' /\ Files!FilesNext
  BY <1>2, RemoveImplements DEF Files!FilesNext
<1>3. ASSUME NEW n \in Name, NEW o \in Object, OpenNamed(o, n) PROVE HostInv' /\ Files!FilesNext
  BY <1>3, OpenImplements DEF Files!FilesNext
<1>4. ASSUME NEW o \in Object, CloseFile(o) PROVE HostInv' /\ Files!FilesNext
  <2>1. o \in Files!Opened
    BY <1>4, SameFile DEF CloseFile
  <2> QED BY <1>4, <2>1, CloseImplements DEF Files!FilesNext
<1>5. ASSUME NEW o \in Object, Length(o) PROVE HostInv' /\ Files!FilesNext
  BY <1>5, LengthImplements DEF Files!FilesNext
<1>6. ASSUME NEW o \in Object, NEW p \in 0 .. MaxLength, Seek(o, p)
      PROVE  HostInv' /\ Files!FilesNext
  BY <1>6, SeekImplements DEF Files!FilesNext
<1>7. ASSUME NEW o \in Object, NEW p \in 0 .. MaxLength, NEW n \in Size, ReadAt(o, n, p)
      PROVE  HostInv' /\ Files!FilesNext
  BY <1>7, ReadAtImplements DEF Files!FilesNext
<1>8. ASSUME NEW o \in Object, NEW n \in Size, Read(o, n) PROVE HostInv' /\ Files!FilesNext
  BY <1>8, ReadImplements DEF Files!FilesNext
<1>9. ASSUME NEW o \in Object, NEW n \in Size, NEW bytes \in [1 .. n -> Byte], Write(o, bytes)
      PROVE  HostInv' /\ Files!FilesNext
  BY <1>9, WriteImplements DEF Files!FilesNext
<1>10. ASSUME UNCHANGED hostFileVars PROVE HostInv' /\ UNCHANGED Files!filesVars
  <2>1. HostInv'
    BY <1>10 DEF hostFileVars, HostInv, HostTypeOK, OwnDescriptors, File
  <2>2. Handles' = Handles
    BY <1>10 DEF hostFileVars, Handles, HandleOf, File
  <2> QED BY <1>10, <2>1, <2>2 DEF hostFileVars, Files!filesVars, Handles
<1> QED
  BY <1>1, <1>2, <1>3, <1>4, <1>5, <1>6, <1>7, <1>8, <1>9, <1>10 DEF HostNext

(* Each open object has a descriptor of its own, and every descriptor that *)
(* is open belongs to one: Create and ~OpenFile leave none behind          *)
(* (filesys/filesys.h, filesys/openfile.h).                                *)
THEOREM DescriptorsAreOwned == HostSpec => []OwnDescriptors
<1>1. HostInit => HostInv
  BY HostInitially
<1>2. HostInv /\ [HostNext]_hostFileVars => HostInv'
  BY HostStep
<1>3. HostInv => OwnDescriptors
  BY DEF HostInv
<1> QED BY <1>1, <1>2, <1>3, PTL DEF HostSpec

(* Objects of class OpenFile used side by side on the same files do what   *)
(* handles with a position of their own do: the offsets that the host      *)
(* keeps, and that ReadAt and Length leave elsewhere, never show           *)
(* (filesys/openfile.h with FILESYS_STUB).                                 *)
THEOREM FilesAreImplemented == HostSpec => ImplementsFiles
<1>1. HostInit => HostInv /\ Files!FilesInit
  BY HostInitially
<1>2. HostInv /\ [HostNext]_hostFileVars => HostInv' /\ [Files!FilesNext]_(Files!filesVars)
  BY HostStep
<1> QED BY <1>1, <1>2, PTL DEF HostSpec, ImplementsFiles, Files!FilesSpec

-----------------------------------------------------------------------------
(* What holds of the console, for any number of threads that share it, any *)
(* script and any number of calls.                                         *)
USE DEF keyboard, input, output

(* The lock of a wrapper keeps the others out of the part it protects.     *)
Reading(t) == pc[t] \in {"readWait", "readTake"}
Writing(t) == pc[t] \in {"writePut", "writeWait", "writeDone"}
Locked ==
  /\ \A t \in Thread : Reading(t) => inLock = t
  /\ \A t \in Thread : Writing(t) => outLock = t

(* The display: one completion, under way or counted by the semaphore, for *)
(* the thread that waits for it.                                           *)
OutputPaired ==
  \/ /\ \E t \in Thread : pc[t] = "writeWait"
     /\ outDone = IF putBusy THEN 0 ELSE 1
  \/ /\ \A t \in Thread : pc[t] # "writeWait"
     /\ ~putBusy /\ outDone = 0

(* The keyboard: the right to its buffer is with the device (polling), in  *)
(* the semaphore, with the thread that takes the character, or nowhere     *)
(* once the input has ended.                                               *)
Taking == \E t \in Thread : pc[t] = "readTake"
InputPassedOn ==
  /\ inDone \in {0, 1}
  /\ polling => inDone = 0 /\ ~Taking
  /\ inDone = 1 => ~Taking
  /\ incoming # EOF => inDone = 1 \/ Taking

ConsoleInv == TypeOK /\ Locked /\ OutputPaired /\ InputPassedOn /\ InputInOrder

LEMMA ConsoleInvInit == Init => ConsoleInv
<1> SUFFICES ASSUME Init PROVE ConsoleInv
  OBVIOUS
<1> USE ConsoleAssumption DEF Init
<1>1. TypeOK
  <2>1. /\ typed \in 0 .. Len(Script) /\ taken \in 0 .. typed
        /\ reads \in 0 .. MaxReads /\ writes \in 0 .. MaxWrites
    OBVIOUS
  <2>2. pc \in [Thread -> Place] /\ got \in Seq(Char \cup {EOF}) /\ inDone \in Nat /\ outDone \in Nat
    BY DEF Place
  <2>3. polling \in BOOLEAN /\ putBusy \in BOOLEAN /\ closed \in BOOLEAN
    OBVIOUS
  <2> QED BY <2>1, <2>2, <2>3 DEF TypeOK
<1>2. Locked /\ OutputPaired /\ InputPassedOn
  BY DEF Locked, Reading, Writing, OutputPaired, InputPassedOn, Taking
<1>3. InputInOrder
  <2>1. CharsRead(Len(got)) = {}
    BY DEF CharsRead
  <2>2. Cardinality(CharsRead(Len(got))) = 0
    BY <2>1, FS_EmptySet
  <2> QED BY <2>1, <2>2 DEF InputInOrder, Bit
<1> QED BY <1>1, <1>2, <1>3 DEF ConsoleInv

(* The types of a step.                                                    *)
LEMMA TypeStep ==
  ASSUME TypeOK, [Next]_vars
  PROVE  TypeOK'
<1> USE ConsoleAssumption DEF TypeOK, Place, Goto
<1>1. CASE Type \/ EndInput
  <2>1. typed' \in 0 .. Len(Script) /\ taken' \in 0 .. typed'
    BY <1>1 DEF Type, EndInput
  <2>2. closed' \in BOOLEAN
    BY <1>1 DEF Type, EndInput
  <2> QED BY <1>1, <2>1, <2>2 DEF Type, EndInput
<1>2. CASE InputInterrupt
  <2>1. polling' \in BOOLEAN
    BY <1>2 DEF InputInterrupt, PollAgain, KeyboardQuiet
  <2>2. /\ taken' \in 0 .. typed /\ inDone' \in Nat
        /\ incoming' \in Char \cup {EOF}
    <3>1. CASE KeyboardQuiet
      BY <1>2, <3>1 DEF InputInterrupt
    <3>2. CASE ~KeyboardQuiet /\ taken < typed
      <4>1. /\ taken' = taken + 1 /\ incoming' = Script[taken + 1] /\ inDone' = inDone + 1
        BY <1>2, <3>2 DEF InputInterrupt, Posted
      <4>2. taken + 1 \in 1 .. Len(Script) /\ taken + 1 \in 0 .. typed
        BY <3>2
      <4> QED BY <4>1, <4>2
    <3>3. CASE ~KeyboardQuiet /\ ~(taken < typed)
      BY <1>2, <3>3 DEF InputInterrupt, Posted
    <3> QED BY <3>1, <3>2, <3>3
  <2> QED BY <1>2, <2>1, <2>2 DEF InputInterrupt
<1>3. CASE OutputInterrupt
  <2>1. outDone' \in Nat
    BY <1>3 DEF OutputInterrupt, Posted
  <2>2. putBusy' \in BOOLEAN
    BY <1>3 DEF OutputInterrupt
  <2> QED BY <1>3, <2>1, <2>2 DEF OutputInterrupt
<1>4. ASSUME NEW t \in Thread, CallGetChar(t) \/ CallPutChar(t) PROVE TypeOK'
  <2>1. reads' \in 0 .. MaxReads /\ writes' \in 0 .. MaxWrites
    BY <1>4 DEF CallGetChar, CallPutChar
  <2>2. pc' \in [Thread -> Place]
    BY <1>4 DEF CallGetChar, CallPutChar
  <2> QED BY <1>4, <2>1, <2>2 DEF CallGetChar, CallPutChar
<1>5. ASSUME NEW t \in Thread, LockInput(t) \/ LockOutput(t) \/ UnlockOutput(t) PROVE TypeOK'
  <2>1. /\ pc' \in [Thread -> Place]
        /\ inLock' \in Thread \cup {NoThread} /\ outLock' \in Thread \cup {NoThread}
    BY <1>5 DEF LockInput, LockOutput, UnlockOutput
  <2> QED BY <1>5, <2>1 DEF LockInput, LockOutput, UnlockOutput
<1>6. ASSUME NEW t \in Thread, AwaitInput(t) \/ AwaitOutput(t) PROVE TypeOK'
  <2>1. inDone' \in Nat /\ outDone' \in Nat
    BY <1>6 DEF AwaitInput, AwaitOutput, Positive
  <2>2. pc' \in [Thread -> Place]
    BY <1>6 DEF AwaitInput, AwaitOutput
  <2> QED BY <1>6, <2>1, <2>2 DEF AwaitInput, AwaitOutput
<1>7. ASSUME NEW t \in Thread, TakeChar(t) PROVE TypeOK'
  <2>1. got' \in Seq(Char \cup {EOF})
    BY <1>7 DEF TakeChar
  <2>2. polling' \in BOOLEAN /\ incoming' \in Char \cup {EOF}
    BY <1>7 DEF TakeChar, RestartPolling, BufferEmptied
  <2>3. pc' \in [Thread -> Place] /\ inLock' \in Thread \cup {NoThread}
    BY <1>7 DEF TakeChar
  <2> QED BY <1>7, <2>1, <2>2, <2>3 DEF TakeChar
<1>8. ASSUME NEW t \in Thread, PutChar(t) PROVE TypeOK'
  <2>1. pc' \in [Thread -> Place] /\ putBusy' \in BOOLEAN
    BY <1>8 DEF PutChar
  <2> QED BY <1>8, <2>1 DEF PutChar
<1>9. CASE UNCHANGED vars
  BY <1>9 DEF vars
<1> QED BY <1>1, <1>2, <1>3, <1>4, <1>5, <1>6, <1>7, <1>8, <1>9 DEF Next, ThreadStep

(* The calls that returned a character, after one more call.               *)
LEMMA ReadsFinite ==
  ASSUME NEW n \in Nat
  PROVE  IsFiniteSet(CharsRead(n)) /\ Cardinality(CharsRead(n)) \in Nat
<1>1. IsFiniteSet(1 .. n) /\ CharsRead(n) \subseteq 1 .. n
  BY FS_Interval DEF CharsRead
<1> QED BY <1>1, FS_Subset, FS_CardinalityType

LEMMA ReadsAfter ==
  ASSUME TypeOK, NEW n \in Nat, n = Len(got), NEW c, got' = Append(got, c)
  PROVE  /\ Len(got') = n + 1 /\ got'[n + 1] = c
         /\ \A k \in 0 .. n : CharsRead(k)' = CharsRead(k)
         /\ \A k \in 1 .. n : got'[k] = got[k]
         /\ c = EOF => CharsRead(n + 1)' = CharsRead(n)
         /\ c # EOF => /\ CharsRead(n + 1)' = CharsRead(n) \cup {n + 1}
                       /\ Cardinality(CharsRead(n + 1)') = Cardinality(CharsRead(n)) + 1
<1>1. got \in Seq(Char \cup {EOF})
  BY DEF TypeOK
<1>2. /\ Len(got') = n + 1 /\ got'[n + 1] = c
      /\ \A i \in 1 .. n : got'[i] = got[i]
  BY <1>1
<1>3. \A k \in 0 .. n : CharsRead(k)' = CharsRead(k)
  BY <1>2 DEF CharsRead
<1>4. ASSUME c = EOF PROVE CharsRead(n + 1)' = CharsRead(n)
  BY <1>2, <1>4 DEF CharsRead
<1>5. ASSUME c # EOF
      PROVE  /\ CharsRead(n + 1)' = CharsRead(n) \cup {n + 1}
             /\ Cardinality(CharsRead(n + 1)') = Cardinality(CharsRead(n)) + 1
  <2>1. CharsRead(n + 1)' = CharsRead(n) \cup {n + 1} /\ n + 1 \notin CharsRead(n)
    BY <1>2, <1>5 DEF CharsRead
  <2>2. Cardinality(CharsRead(n) \cup {n + 1}) = Cardinality(CharsRead(n)) + 1
    BY <2>1, ReadsFinite, FS_AddElement
  <2> QED BY <2>1, <2>2
<1> QED BY <1>2, <1>3, <1>4, <1>5

(* A character that arrives is the next one typed, because the buffer was  *)
(* empty; a character that is taken is the next one returned.              *)
LEMMA OrderStep ==
  ASSUME ConsoleInv,
         \/ InputInterrupt
         \/ \E t \in Thread : TakeChar(t)
         \/ UNCHANGED <<taken, incoming, got>>
  PROVE  InputInOrder'
<1> SUFFICES ASSUME \A k \in DOMAIN Script : Script[k] # EOF
             PROVE  InputInOrder'
  BY DEF InputInOrder
<1> DEFINE n == Cardinality(CharsRead(Len(got)))
<1>0. /\ TypeOK /\ InputPassedOn
      /\ n + Bit(incoming # EOF) = taken
      /\ incoming # EOF => incoming = Script[taken]
      /\ \A i \in CharsRead(Len(got)) : got[i] = Script[Cardinality(CharsRead(i))]
      /\ n \in Nat /\ taken \in Nat /\ Len(got) \in Nat
  <2>1. Len(got) \in Nat /\ taken \in Nat
    BY DEF ConsoleInv, TypeOK
  <2>2. n \in Nat
    BY <2>1, ReadsFinite
  <2> QED BY <2>1, <2>2 DEF ConsoleInv, InputInOrder
<1>1. CASE UNCHANGED <<taken, incoming, got>>
  <2>1. CharsRead(Len(got))' = CharsRead(Len(got)) /\ \A i \in Nat : CharsRead(i)' = CharsRead(i)
    BY <1>1 DEF CharsRead
  <2>2. \A i \in CharsRead(Len(got)) : i \in Nat
    BY DEF CharsRead
  <2> QED BY <1>0, <1>1, <2>1, <2>2 DEF InputInOrder
<1>2. CASE InputInterrupt /\ taken' = taken + 1
  <2>1. /\ incoming = EOF /\ incoming' = Script[taken + 1] /\ got' = got
        /\ taken + 1 \in DOMAIN Script
    <3>1. polling /\ ~KeyboardQuiet /\ taken < typed
      BY <1>0, <1>2 DEF InputInterrupt
    <3>2. incoming = EOF
      BY <1>0, <3>1 DEF InputPassedOn
    <3>3. taken + 1 \in 1 .. Len(Script)
      BY <1>0, <3>1, ConsoleAssumption DEF TypeOK
    <3> QED BY <1>2, <3>1, <3>2, <3>3, ConsoleAssumption DEF InputInterrupt
  <2>2. incoming' # EOF /\ n = taken
    BY <1>0, <2>1 DEF Bit
  <2>3. CharsRead(Len(got))' = CharsRead(Len(got)) /\ \A i \in Nat : CharsRead(i)' = CharsRead(i)
    BY <2>1 DEF CharsRead
  <2>4. \A i \in CharsRead(Len(got)) : i \in Nat
    BY DEF CharsRead
  <2>5. Cardinality(CharsRead(Len(got)))' + Bit(incoming # EOF)' = taken'
    BY <1>0, <1>2, <2>2, <2>3 DEF Bit
  <2> QED BY <1>0, <1>2, <2>1, <2>3, <2>4, <2>5 DEF InputInOrder
<1>3. CASE InputInterrupt /\ taken' # taken + 1
  <2>1. UNCHANGED <<taken, incoming, got>>
    BY <1>3 DEF InputInterrupt
  <2> QED BY <1>1, <2>1
<1>4. ASSUME NEW t \in Thread, TakeChar(t) PROVE InputInOrder'
  <2>1. got' = Append(got, incoming) /\ incoming' = EOF /\ taken' = taken
    BY <1>4 DEF TakeChar, BufferEmptied
  <2>2. PICK m \in Nat : m = Len(got)
    BY <1>0
  <2>3. /\ Len(got') = m + 1 /\ got'[m + 1] = incoming
        /\ \A k \in 0 .. m : CharsRead(k)' = CharsRead(k)
        /\ \A k \in 1 .. m : got'[k] = got[k]
        /\ incoming = EOF => CharsRead(m + 1)' = CharsRead(m)
        /\ incoming # EOF => /\ CharsRead(m + 1)' = CharsRead(m) \cup {m + 1}
                             /\ Cardinality(CharsRead(m + 1)') = Cardinality(CharsRead(m)) + 1
    BY <1>0, <2>1, <2>2, ReadsAfter
  <2>4. CharsRead(Len(got))' = CharsRead(m + 1)'
    BY <2>3
  <2>5. \A k \in CharsRead(m) : k \in 1 .. m
    BY DEF CharsRead
  <2>6. CASE incoming = EOF
    BY <1>0, <2>1, <2>2, <2>3, <2>4, <2>5, <2>6 DEF InputInOrder, Bit
  <2>7. CASE incoming # EOF
    <3>1. Cardinality(CharsRead(m + 1)') = taken
      BY <1>0, <2>2, <2>3, <2>7 DEF Bit
    <3>2. incoming = Script[taken]
      BY <1>0, <2>7
    <3>3. ASSUME NEW i \in CharsRead(Len(got))'
          PROVE  got'[i] = Script[Cardinality(CharsRead(i)')]
      <4>1. i \in CharsRead(m) \/ i = m + 1
        BY <2>3, <2>4, <2>7
      <4> QED BY <1>0, <2>2, <2>3, <2>5, <3>1, <3>2, <4>1
    <3>4. Cardinality(CharsRead(Len(got)))' + Bit(incoming # EOF)' = taken'
      BY <1>0, <2>1, <2>4, <3>1 DEF Bit
    <3> QED BY <2>1, <3>3, <3>4 DEF InputInOrder
  <2> QED BY <2>6, <2>7
<1> QED BY <1>1, <1>2, <1>3, <1>4

(* Every step keeps the protocols of the two devices.                      *)
LEMMA DeviceStep ==
  ASSUME ConsoleInv, [Next]_vars
  PROVE  Locked' /\ OutputPaired' /\ InputPassedOn'
<1> USE DEF ConsoleInv
<1>0. TypeOK /\ Locked /\ OutputPaired /\ InputPassedOn /\ pc \in [Thread -> Place]
  BY DEF TypeOK
<1> USE DEF Reading, Writing, Taking, Goto
<1>1. CASE Type \/ EndInput \/ UNCHANGED vars
  <2>1. /\ UNCHANGED <<incoming, polling, inLock, inDone, putBusy, outLock, outDone>>
        /\ UNCHANGED pc
    BY <1>1 DEF Type, EndInput, vars
  <2> QED BY <1>0, <2>1 DEF Locked, OutputPaired, InputPassedOn
<1>2. CASE InputInterrupt
  <2>1. /\ UNCHANGED <<inLock, putBusy, outLock, outDone, pc>>
        /\ polling /\ inDone = 0 /\ ~Taking /\ incoming = EOF
    BY <1>0, <1>2 DEF InputInterrupt, InputPassedOn
  <2>2. \/ polling' /\ inDone' = 0 /\ incoming' = EOF
        \/ ~polling' /\ inDone' = 1
    BY <1>2, <2>1 DEF InputInterrupt, PollAgain, Posted
  <2>3. InputPassedOn'
    BY <2>1, <2>2 DEF InputPassedOn
  <2> QED BY <1>0, <2>1, <2>3 DEF Locked, OutputPaired
<1>3. CASE OutputInterrupt
  <2>1. /\ UNCHANGED <<incoming, polling, inLock, inDone, outLock, pc>>
        /\ ~putBusy' /\ putBusy /\ outDone' = outDone + 1
    BY <1>3 DEF OutputInterrupt, Posted
  <2>2. OutputPaired'
    BY <1>0, <2>1 DEF OutputPaired
  <2> QED BY <1>0, <2>1, <2>2 DEF Locked, InputPassedOn
<1>4. ASSUME NEW t \in Thread, NEW place \in {"read", "write"},
             pc[t] = "idle", Goto(t, place), UNCHANGED <<input, output>>
      PROVE  Locked' /\ OutputPaired' /\ InputPassedOn'
  BY <1>0, <1>4 DEF Locked, OutputPaired, InputPassedOn
<1>5. ASSUME NEW t \in Thread, LockInput(t)
      PROVE  Locked' /\ OutputPaired' /\ InputPassedOn'
  <2>1. /\ pc[t] = "read" /\ inLock = NoThread /\ inLock' = t
        /\ pc' = [pc EXCEPT ![t] = "readWait"]
        /\ UNCHANGED <<incoming, polling, inDone, putBusy, outLock, outDone>>
    BY <1>5 DEF LockInput
  <2>2. Locked'
    BY <1>0, <2>1, ConsoleAssumption DEF Locked
  <2> QED BY <1>0, <2>1, <2>2 DEF OutputPaired, InputPassedOn
<1>6. ASSUME NEW t \in Thread, AwaitInput(t)
      PROVE  Locked' /\ OutputPaired' /\ InputPassedOn'
  <2>1. /\ pc[t] = "readWait" /\ inDone > 0 /\ inDone' = inDone - 1
        /\ pc' = [pc EXCEPT ![t] = "readTake"]
        /\ UNCHANGED <<incoming, polling, inLock, putBusy, outLock, outDone>>
    BY <1>6 DEF AwaitInput, Positive
  <2>2. inDone = 1 /\ inDone' = 0 /\ ~polling
    BY <1>0, <2>1 DEF InputPassedOn
  <2>3. InputPassedOn'
    BY <1>0, <2>1, <2>2 DEF InputPassedOn
  <2> QED BY <1>0, <2>1, <2>3 DEF Locked, OutputPaired
<1>7. ASSUME NEW t \in Thread, TakeChar(t)
      PROVE  Locked' /\ OutputPaired' /\ InputPassedOn'
  <2>1. /\ pc[t] = "readTake" /\ inLock' = NoThread /\ incoming' = EOF
        /\ pc' = [pc EXCEPT ![t] = "idle"]
        /\ UNCHANGED <<inDone, putBusy, outLock, outDone>>
    BY <1>7 DEF TakeChar, BufferEmptied
  <2>2. inLock = t /\ inDone = 0 /\ \A u \in Thread \ {t} : ~Reading(u)
    BY <1>0, <2>1 DEF Locked, InputPassedOn
  <2>3. Locked'
    BY <1>0, <2>1, <2>2 DEF Locked
  <2>4. InputPassedOn'
    BY <1>0, <2>1, <2>2 DEF InputPassedOn
  <2> QED BY <1>0, <2>1, <2>3, <2>4 DEF OutputPaired
<1>8. ASSUME NEW t \in Thread, LockOutput(t)
      PROVE  Locked' /\ OutputPaired' /\ InputPassedOn'
  <2>1. /\ pc[t] = "write" /\ outLock = NoThread /\ outLock' = t
        /\ pc' = [pc EXCEPT ![t] = "writePut"]
        /\ UNCHANGED <<incoming, polling, inLock, inDone, putBusy, outDone>>
    BY <1>8 DEF LockOutput
  <2>2. Locked'
    BY <1>0, <2>1, ConsoleAssumption DEF Locked
  <2> QED BY <1>0, <2>1, <2>2 DEF OutputPaired, InputPassedOn
<1>9. ASSUME NEW t \in Thread, PutChar(t)
      PROVE  Locked' /\ OutputPaired' /\ InputPassedOn'
  <2>1. /\ pc[t] = "writePut" /\ putBusy' /\ pc' = [pc EXCEPT ![t] = "writeWait"]
        /\ UNCHANGED <<incoming, polling, inLock, inDone, outLock, outDone>>
    BY <1>9 DEF PutChar
  <2>2. \A u \in Thread : pc[u] # "writeWait"
    BY <1>0, <2>1 DEF Locked
  <2>3. OutputPaired'
    <3>1. outDone' = 0 /\ pc'[t] = "writeWait"
      BY <1>0, <2>1, <2>2 DEF OutputPaired
    <3>2. \E u \in Thread : pc'[u] = "writeWait"
      BY <3>1
    <3> QED BY <2>1, <3>1, <3>2 DEF OutputPaired
  <2> QED BY <1>0, <2>1, <2>3 DEF Locked, InputPassedOn
<1>10. ASSUME NEW t \in Thread, AwaitOutput(t)
       PROVE  Locked' /\ OutputPaired' /\ InputPassedOn'
  <2>1. /\ pc[t] = "writeWait" /\ outDone > 0 /\ outDone' = outDone - 1
        /\ pc' = [pc EXCEPT ![t] = "writeDone"]
        /\ UNCHANGED <<incoming, polling, inLock, inDone, putBusy, outLock>>
    BY <1>10 DEF AwaitOutput, Positive
  <2>2. \A u \in Thread \ {t} : pc[u] # "writeWait"
    BY <1>0, <2>1 DEF Locked
  <2>3. OutputPaired'
    <3>1. ~putBusy /\ outDone' = 0
      BY <1>0, <2>1 DEF OutputPaired
    <3>2. \A u \in Thread : pc'[u] # "writeWait"
      BY <1>0, <2>1, <2>2
    <3> QED BY <2>1, <3>1, <3>2 DEF OutputPaired
  <2> QED BY <1>0, <2>1, <2>3 DEF Locked, InputPassedOn
<1>11. ASSUME NEW t \in Thread, UnlockOutput(t)
       PROVE  Locked' /\ OutputPaired' /\ InputPassedOn'
  <2>1. /\ pc[t] = "writeDone" /\ outLock' = NoThread
        /\ pc' = [pc EXCEPT ![t] = "idle"]
        /\ UNCHANGED <<incoming, polling, inLock, inDone, putBusy, outDone>>
    BY <1>11 DEF UnlockOutput
  <2>2. \A u \in Thread \ {t} : ~Writing(u)
    BY <1>0, <2>1 DEF Locked
  <2>3. Locked'
    BY <1>0, <2>1, <2>2 DEF Locked
  <2> QED BY <1>0, <2>1, <2>3 DEF OutputPaired, InputPassedOn
<1> QED BY <1>1, <1>2, <1>3, <1>4, <1>5, <1>6, <1>7, <1>8, <1>9, <1>10, <1>11
        DEF Next, ThreadStep, CallGetChar, CallPutChar

LEMMA ConsoleInvStep == ConsoleInv /\ [Next]_vars => ConsoleInv'
<1> SUFFICES ASSUME ConsoleInv, [Next]_vars PROVE ConsoleInv'
  OBVIOUS
<1>1. TypeOK'
  BY TypeStep DEF ConsoleInv
<1>2. Locked' /\ OutputPaired' /\ InputPassedOn'
  BY DeviceStep
<1>3. \/ InputInterrupt
      \/ \E t \in Thread : TakeChar(t)
      \/ UNCHANGED <<taken, incoming, got>>
  BY DEF Next, vars, ThreadStep, Type, EndInput, OutputInterrupt, CallGetChar, CallPutChar,
         LockInput, AwaitInput, LockOutput, PutChar, AwaitOutput, UnlockOutput
<1>4. InputInOrder'
  BY <1>3, OrderStep
<1> QED BY <1>1, <1>2, <1>4 DEF ConsoleInv

(* Counting the threads that wait for the display.                         *)
LEMMA WaitersCounted == ConsoleInv => DevicesReady
<1> SUFFICES ASSUME ConsoleInv PROVE DevicesReady
  OBVIOUS
<1>0. TypeOK /\ Locked /\ OutputPaired /\ InputPassedOn
  BY DEF ConsoleInv
<1>1. \A t \in Thread : pc[t] = "writePut" => ~putBusy
  BY <1>0 DEF Locked, Writing, OutputPaired
<1>2. Bit(putBusy) + outDone = Count("writeWait")
  <2> DEFINE W == {t \in Thread : pc[t] = "writeWait"}
  <2>1. CASE \E t \in Thread : pc[t] = "writeWait"
    <3>1. PICK t \in Thread : pc[t] = "writeWait"
      BY <2>1
    <3>2. W = {t}
      BY <1>0, <3>1 DEF Locked, Writing
    <3>3. Cardinality(W) = 1
      BY <3>2, FS_Singleton
    <3>4. Bit(putBusy) + outDone = 1
      BY <1>0, <2>1 DEF OutputPaired, Bit
    <3> QED BY <3>3, <3>4 DEF Count
  <2>2. CASE \A t \in Thread : pc[t] # "writeWait"
    <3>1. W = {}
      BY <2>2
    <3>2. Cardinality(W) = 0
      BY <3>1, FS_EmptySet
    <3>3. Bit(putBusy) + outDone = 0
      BY <1>0, <2>2 DEF OutputPaired, Bit
    <3> QED BY <3>2, <3>3 DEF Count
  <2> QED BY <2>1, <2>2
<1>3. polling => incoming = EOF /\ inDone = 0 /\ Count("readTake") = 0
  <2>1. SUFFICES ASSUME polling PROVE incoming = EOF /\ inDone = 0 /\ Count("readTake") = 0
    OBVIOUS
  <2>2. incoming = EOF /\ inDone = 0 /\ {t \in Thread : pc[t] = "readTake"} = {}
    BY <1>0, <2>1 DEF InputPassedOn, Taking
  <2> QED BY <2>2, FS_EmptySet DEF Count
<1> QED BY <1>0, <1>1, <1>2, <1>3 DEF DevicesReady

(* The display is never given a character while it is busy, the buffer of  *)
(* the keyboard is free whenever the device polls, and a completion is     *)
(* that of the thread that waits for it (the ASSERTs of console.cc).       *)
THEOREM DevicesAreReady == Spec => []DevicesReady
<1>1. Spec => []ConsoleInv
  BY ConsoleInvInit, ConsoleInvStep, PTL DEF Spec
<1> QED BY <1>1, WaitersCounted, PTL

(* The callers of GetChar get what was typed, in order, nothing twice and  *)
(* nothing skipped.                                                        *)
THEOREM InputStaysInOrder == Spec => []InputInOrder
<1>1. Spec => []ConsoleInv
  BY ConsoleInvInit, ConsoleInvStep, PTL DEF Spec
<1>2. ConsoleInv => InputInOrder
  BY DEF ConsoleInv
<1> QED BY <1>1, <1>2, PTL
=============================================================================
