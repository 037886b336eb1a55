------------------------ MODULE RangeAllocatorProofs ------------------------
(***************************************************************************)
(* What the operators of RangeAllocator do to a free list, for any number  *)
(* of pages and any list: the ranges stay apart and in order, and their    *)
(* pages and headers change by exactly what was taken or given back.       *)
(***************************************************************************)
EXTENDS RangeAllocator, SequenceTheorems, FiniteSetTheorems, TLAPS

(* The sequence without its i-th element.                                  *)
LEMMA RemoveAtFacts ==
    ASSUME NEW X, NEW r \in Seq(X), NEW i \in DOMAIN r,
           NEW q, q = Seqs!RemoveAt(r, i)
    PROVE  /\ q \in Seq(X) /\ Len(q) = Len(r) - 1
           /\ \A j \in 1 .. Len(r) - 1 : q[j] = IF j < i THEN r[j] ELSE r[j + 1]
<1> DEFINE b == SubSeq(r, 1, i - 1)
           c == SubSeq(r, i + 1, Len(r))
<1>1. b \in Seq(X) /\ Len(b) = i - 1 /\ \A j \in 1 .. i - 1 : b[j] = r[j]
  OBVIOUS
<1>2. c \in Seq(X) /\ Len(c) = Len(r) - i /\ \A j \in 1 .. Len(r) - i : c[j] = r[i + j]
  OBVIOUS
<1>3. q = b \o c
  BY DEF Seqs!RemoveAt
<1> HIDE DEF b, c
<1>4. b \o c \in Seq(X) /\ Len(b \o c) = Len(r) - 1
  BY <1>1, <1>2
<1>5. \A j \in 1 .. Len(r) - 1 : (b \o c)[j] = IF j < i THEN r[j] ELSE r[j + 1]
  BY <1>1, <1>2
<1> QED BY <1>3, <1>4, <1>5

(* The sequence with x before its i-th element.                            *)
LEMMA InsertAtFacts ==
    ASSUME NEW X, NEW r \in Seq(X), NEW i \in 1 .. Len(r) + 1, NEW x \in X,
           NEW q, q = Seqs!InsertAt(r, i, x)
    PROVE  /\ q \in Seq(X) /\ Len(q) = Len(r) + 1 /\ q[i] = x
           /\ \A j \in 1 .. Len(r) : (j < i => q[j] = r[j]) /\ (i <= j => q[j + 1] = r[j])
<1> DEFINE b == SubSeq(r, 1, i - 1)
           c == SubSeq(r, i, Len(r))
           d == b \o <<x>>
<1>1. b \in Seq(X) /\ Len(b) = i - 1 /\ \A j \in 1 .. i - 1 : b[j] = r[j]
  OBVIOUS
<1>2. /\ c \in Seq(X) /\ Len(c) = Len(r) + 1 - i
      /\ \A j \in 1 .. Len(r) + 1 - i : c[j] = r[i + j - 1]
  OBVIOUS
<1>3. q = d \o c
  BY DEF Seqs!InsertAt
<1> HIDE DEF b, c
<1>4. d \in Seq(X) /\ Len(d) = i /\ \A j \in 1 .. i : d[j] = IF j < i THEN r[j] ELSE x
  BY <1>1
<1> HIDE DEF d
<1>5. d \o c \in Seq(X) /\ Len(d \o c) = Len(r) + 1
  <2>1. d \o c \in Seq(X) /\ Len(d \o c) = Len(d) + Len(c)
    BY <1>2, <1>4, ConcatProperties
  <2> QED BY <2>1, <1>4, <1>2
<1>6. (d \o c)[i] = x
  BY <1>4, <1>2
<1>7. ASSUME NEW j \in 1 .. Len(r), j < i
      PROVE  (d \o c)[j] = r[j]
  BY <1>4, <1>2, <1>7
<1>8. ASSUME NEW j \in 1 .. Len(r), i <= j
      PROVE  (d \o c)[j + 1] = r[j]
  <2>1. (d \o c)[j + 1] = c[j + 1 - i]
    <3>1. \A k \in 1 .. Len(d) + Len(c) :
              (d \o c)[k] = IF k <= Len(d) THEN d[k] ELSE c[k - Len(d)]
      BY <1>2, <1>4, ConcatProperties
    <3>2. j + 1 \in 1 .. Len(d) + Len(c) /\ ~(j + 1 <= Len(d)) /\ Len(d) = i
      BY <1>2, <1>4, <1>8
    <3> QED BY <3>1, <3>2
  <2>2. j + 1 - i \in 1 .. Len(r) + 1 - i /\ i + (j + 1 - i) - 1 = j
    BY <1>8
  <2> QED BY <2>1, <2>2, <1>2
<1> QED BY <1>3, <1>5, <1>6, <1>7, <1>8

(* The order of the naturals as the relation that WFMin asks for.          *)
LEMMA Less ==
    \A x, y \in Nat : y < x => <<y, x>> \in OpToRel(<, Nat)
  BY Zenon DEF OpToRel

(* A nonempty set of naturals has a smallest element,                      *)
LEMMA Smallest ==
    ASSUME NEW S \in SUBSET Nat, S # {}
    PROVE  \E x \in S : \A y \in S : x <= y
<1>1. PICK x \in S : \A y \in S : ~(<<y, x>> \in OpToRel(<, Nat))
  BY WFMin, NatLessThanWellFounded
<1>2. \A y \in S : ~ (y < x) 
  BY <1>1, Less, Zenon
<1> QED BY <1>2

(* and one of the numbers up to n a largest one.                           *)
LEMMA Largest ==
    ASSUME NEW n \in Nat, NEW S \in SUBSET (1 .. n), S # {}
    PROVE  \E x \in S : \A y \in S : y <= x
<1>1. {n - y : y \in S} \in SUBSET Nat /\ {n - y : y \in S} # {}
  <2>1. \A y \in S : n - y \in Nat
    OBVIOUS
  <2> QED BY <2>1
<1>2. PICK z \in {n - y : y \in S} : \A y \in {n - y : y \in S} : z <= y
  BY <1>1, Smallest, Zenon
<1>3. PICK x \in S : z = n - x
  BY <1>2
<1> QED BY <1>2, <1>3

(* The first fit is large enough.                                          *)
LEMMA FirstFitFacts ==
    ASSUME NEW X, NEW r \in Seq([start : X, size : Nat]), NEW n \in Nat, FirstFit(r, n) # 0
    PROVE  FirstFit(r, n) \in DOMAIN r /\ r[FirstFit(r, n)].size >= n
<1> DEFINE fits == {i \in DOMAIN r : r[i].size >= n}
<1>1. fits \in SUBSET Nat
  OBVIOUS
<1>2. fits # {} /\ FirstFit(r, n) = CHOOSE i \in fits : \A j \in fits : i <= j
  BY DEF FirstFit
<1> HIDE DEF fits
<1>3. \E i \in fits : \A j \in fits : i <= j
  BY <1>1, <1>2, Smallest
<1>4. FirstFit(r, n) \in fits
  BY <1>2, <1>3, Zenon
<1> QED BY <1>4 DEF fits

RangeIn(n) == [start : 0 .. n - 1, size : 1 .. n]
InOrder(r) == \A i, j \in DOMAIN r : i < j => End(r[i]) < r[j].start
Below(r, n) == \A i \in DOMAIN r : End(r[i]) <= n
FreeListOf(r, n) == r \in Seq(RangeIn(n)) /\ InOrder(r) /\ Below(r, n)

(* What a free list below n consists of.                                   *)
LEMMA RangeFacts ==
    ASSUME NEW N \in Nat, NEW r, FreeListOf(r, N)
    PROVE  /\ r \in Seq(RangeIn(N)) /\ Len(r) \in Nat /\ DOMAIN r = 1 .. Len(r)
           /\ \A i \in 1 .. Len(r) :
                 /\ r[i] \in RangeIn(N) /\ r[i].start \in Nat /\ r[i].size \in Nat \ {0}
                 /\ End(r[i]) = r[i].start + r[i].size /\ End(r[i]) <= N /\ End(r[i]) \in Nat
                 /\ r[i].start < End(r[i])
           /\ \A i, j \in 1 .. Len(r) : i < j => r[i].start + r[i].size < r[j].start
<1>1. r \in Seq(RangeIn(N)) /\ Len(r) \in Nat /\ DOMAIN r = 1 .. Len(r)
  BY DEF FreeListOf
<1>2. ASSUME NEW i \in 1 .. Len(r)
      PROVE  /\ r[i] \in RangeIn(N) /\ r[i].start \in Nat /\ r[i].size \in Nat \ {0}
             /\ End(r[i]) = r[i].start + r[i].size /\ End(r[i]) <= N /\ End(r[i]) \in Nat
             /\ r[i].start < End(r[i])
  <2>1. r[i] \in RangeIn(N)
    BY <1>1, ElementOfSeq
  <2>2. r[i].start \in 0 .. N - 1 /\ r[i].size \in 1 .. N
    BY <2>1 DEF RangeIn
  <2> QED BY <2>1, <2>2, <1>1 DEF End, FreeListOf, Below
<1>3. \A i, j \in 1 .. Len(r) : i < j => r[i].start + r[i].size < r[j].start
  BY <1>1 DEF FreeListOf, InOrder, End
<1> QED BY <1>1, <1>2, <1>3

(* The pages of a range.                                                   *)
LEMMA PagesFacts ==
    ASSUME NEW x, NEW a \in Int, NEW n \in Int, x.start = a, x.size = n
    PROVE  \A v : v \in PagesOf(x) <=> v \in Int /\ a <= v /\ v < a + n
  BY DEF PagesOf, End

(* A page is free when it lies in one of the ranges.                       *)
LEMMA FreePageFacts ==
    ASSUME NEW N \in Nat, NEW r, FreeListOf(r, N)
    PROVE  \A v : v \in FreePages(r) <=>
               /\ v \in Int
               /\ \E i \in 1 .. Len(r) : r[i].start <= v /\ v < r[i].start + r[i].size
<1>1. DOMAIN r = 1 .. Len(r)
  BY RangeFacts
<1>3. \A i \in 1 .. Len(r) : r[i].start \in Int /\ r[i].size \in Int
  BY RangeFacts
<1>4. \A i \in 1 .. Len(r) : \A v : v \in PagesOf(r[i]) <=>
           v \in Int /\ r[i].start <= v /\ v < r[i].start + r[i].size
  BY <1>3 DEF PagesOf, End
<1> QED BY <1>1, <1>4 DEF FreePages

(* Different ranges of a free list have no page in common.                 *)
LEMMA RangesApart ==
    ASSUME NEW N \in Nat, NEW r, FreeListOf(r, N), NEW i \in DOMAIN r,
           NEW j \in DOMAIN r, i # j
    PROVE  PagesOf(r[i]) \cap PagesOf(r[j]) = {} /\ r[i].start # r[j].start
<1>1. i \in 1 .. Len(r) /\ j \in 1 .. Len(r) /\ Len(r) \in Nat
  BY RangeFacts
<1>2. /\ r[i].start \in Nat /\ r[i].size \in Nat \ {0}
      /\ r[j].start \in Nat /\ r[j].size \in Nat \ {0}
      /\ i < j => r[i].start + r[i].size < r[j].start
      /\ j < i => r[j].start + r[j].size < r[i].start
  BY <1>1, RangeFacts
<1> QED BY <1>1, <1>2 DEF PagesOf, End

(* The range before address a ends at or below a, the next is above.       *)
LEMMA BeforeFacts ==
    ASSUME NEW N \in Nat, NEW r, FreeListOf(r, N), NEW a \in Nat, NEW n \in Nat \ {0},
           \A v \in a .. a + n - 1 : v \notin FreePages(r)
    PROVE  /\ Before(r, a) \in 0 .. Len(r)
           /\ \A j \in 1 .. Before(r, a) : End(r[j]) <= a
           /\ \A j \in Before(r, a) + 1 .. Len(r) : a + n <= r[j].start
<1> DEFINE below == {i \in DOMAIN r : \A j \in 1 .. i : End(r[j]) <= a}
           i == Before(r, a)
<1>0. r \in Seq(RangeIn(N)) /\ DOMAIN r = 1 .. Len(r) /\ Len(r) \in Nat
  BY DEF FreeListOf
<1>1. below \in SUBSET (1 .. Len(r))
  BY <1>0
<1>2. i = IF below = {} THEN 0 ELSE CHOOSE x \in below : \A y \in below : y <= x
  BY DEF Before
<1> HIDE DEF below, i
<1>3. (below = {} /\ i = 0) \/ (i \in below /\ \A y \in below : y <= i)
  <2>1. CASE below = {}
    BY <2>1, <1>2
  <2>2. CASE below # {}
    <3>1. \E x \in below : \A y \in below : y <= x
      BY <2>2, <1>0, <1>1, Largest
    <3> QED BY <3>1, <2>2, <1>2, Zenon
  <2> QED BY <2>1, <2>2
<1>4. i \in 0 .. Len(r) /\ \A j \in 1 .. i : End(r[j]) <= a
  BY <1>0, <1>1, <1>3 DEF below
<1>5. ASSUME i < Len(r)
      PROVE  a + n <= r[i + 1].start
  <2>1. i + 1 \notin below /\ i + 1 \in DOMAIN r /\ i \in Nat
    BY <1>0, <1>1, <1>3, <1>4, <1>5
  <2>2. PICK j \in 1 .. i + 1 : ~(End(r[j]) <= a)
    BY <2>1 DEF below
  <2>3. j = i + 1
    BY <2>2, <2>1, <1>4
  <2>4. r[i + 1].start \in Nat /\ r[i + 1].size \in Nat \ {0} /\ End(r[i + 1]) > a
    BY <2>1, <2>2, <2>3, <1>0, RangeFacts
  <2>5. \A v \in PagesOf(r[i + 1]) : v \notin a .. a + n - 1
    BY <2>1 DEF FreePages
  <2>6. CASE r[i + 1].start <= a
    <3>1. a \in PagesOf(r[i + 1])
      BY <2>4, <2>6 DEF PagesOf, End
    <3> QED BY <3>1, <2>5
  <2>7. CASE r[i + 1].start > a
    <3>1. r[i + 1].start \in PagesOf(r[i + 1])
      BY <2>4 DEF PagesOf, End
    <3> QED BY <3>1, <2>5, <2>4, <2>7
  <2> QED BY <2>4, <2>6, <2>7
<1>6. ASSUME NEW j \in i + 1 .. Len(r)
      PROVE  a + n <= r[j].start
  <2>1. CASE j = i + 1
    BY <2>1, <1>4, <1>0, <1>5
  <2>2. CASE j # i + 1
    <3>1. i + 1 \in DOMAIN r /\ j \in DOMAIN r /\ i + 1 < j
      BY <2>2, <1>0, <1>4, <1>6
    <3>2. End(r[i + 1]) < r[j].start
      BY <3>1 DEF FreeListOf, InOrder
    <3>3. r[i + 1].start \in Nat /\ r[i + 1].size \in Nat /\ r[j].start \in Nat
      BY <3>1, <1>0, RangeFacts
    <3> QED BY <3>1, <3>2, <3>3, <1>5, <1>4, <1>0 DEF End
  <2> QED BY <2>1, <2>2
<1> QED BY <1>4, <1>6 DEF i

(* The list without its i-th range.                                        *)
LEMMA WithoutRange ==
    ASSUME NEW N \in Nat, NEW r, FreeListOf(r, N), NEW i \in DOMAIN r,
           NEW q, q = Seqs!RemoveAt(r, i)
    PROVE  /\ FreeListOf(q, N)
           /\ FreePages(q) = FreePages(r) \ PagesOf(r[i])
           /\ Headers(q) = Headers(r) \ {r[i].start}
<1>1. /\ r \in Seq(RangeIn(N)) /\ Len(r) \in Nat /\ DOMAIN r = 1 .. Len(r)
      /\ i \in 1 .. Len(r)
  BY RangeFacts
<1>2. /\ q \in Seq(RangeIn(N)) /\ Len(q) = Len(r) - 1 /\ DOMAIN q = 1 .. Len(r) - 1
      /\ \A j \in 1 .. Len(r) - 1 : q[j] = IF j < i THEN r[j] ELSE r[j + 1]
  <2>1. /\ q \in Seq(RangeIn(N)) /\ Len(q) = Len(r) - 1
        /\ \A j \in 1 .. Len(r) - 1 : q[j] = IF j < i THEN r[j] ELSE r[j + 1]
    BY <1>1, RemoveAtFacts
  <2> QED BY <2>1, LenProperties
<1> DEFINE to(j) == IF j < i THEN j ELSE j + 1
<1>3. /\ \A j \in 1 .. Len(r) - 1 : to(j) \in 1 .. Len(r) /\ to(j) # i /\ q[j] = r[to(j)]
      /\ \A j, k \in 1 .. Len(r) - 1 : j < k => to(j) < to(k)
      /\ \A l \in 1 .. Len(r) : l # i => \E j \in 1 .. Len(r) - 1 : to(j) = l
  <2>1. ASSUME NEW l \in 1 .. Len(r), l # i
        PROVE  \E j \in 1 .. Len(r) - 1 : to(j) = l
    <3>1. CASE l < i
      BY <3>1, <1>1
    <3>2. CASE l > i
      <4>1. l - 1 \in 1 .. Len(r) - 1 /\ to(l - 1) = l
        BY <3>2, <1>1
      <4> QED BY <4>1
    <3> QED BY <2>1, <3>1, <3>2, <1>1
  <2> QED BY <2>1, <1>1, <1>2
<1> HIDE DEF to
<1>4. FreeListOf(q, N)
  <2>1. \A j, k \in 1 .. Len(r) - 1 : j < k => End(q[j]) < q[k].start
    BY <1>1, <1>3 DEF FreeListOf, InOrder
  <2>2. \A j \in 1 .. Len(r) - 1 : End(q[j]) <= N
    BY <1>1, <1>3 DEF FreeListOf, Below
  <2> QED BY <2>1, <2>2, <1>2 DEF FreeListOf, InOrder, Below
<1>5. \A l \in 1 .. Len(r) : l # i =>
          PagesOf(r[l]) \cap PagesOf(r[i]) = {} /\ r[l].start # r[i].start
  BY <1>1, RangesApart
<1>6. FreePages(q) = FreePages(r) \ PagesOf(r[i])
  <2>1. \A l \in 1 .. Len(r) - 1 : PagesOf(q[l]) \subseteq FreePages(r) \ PagesOf(r[i])
    BY <1>1, <1>3, <1>5 DEF FreePages
  <2>2. \A l \in 1 .. Len(r) : l # i => PagesOf(r[l]) \subseteq FreePages(q)
    BY <1>2, <1>3 DEF FreePages
  <2> QED BY <2>1, <2>2, <1>1, <1>2 DEF FreePages
<1>7. Headers(q) = Headers(r) \ {r[i].start}
  <2>1. \A l \in 1 .. Len(r) - 1 : q[l].start \in Headers(r) \ {r[i].start}
    BY <1>1, <1>3, <1>5 DEF Headers
  <2>2. \A l \in 1 .. Len(r) : l # i => r[l].start \in Headers(q)
    BY <1>2, <1>3 DEF Headers
  <2>3. Headers(q) \subseteq Headers(r) \ {r[i].start}
    BY <2>1, <1>2 DEF Headers
  <2>4. Headers(r) \ {r[i].start} \subseteq Headers(q)
    BY <2>2, <1>1 DEF Headers
  <2> QED BY <2>3, <2>4
<1> QED BY <1>4, <1>6, <1>7

(* Range x has its place behind the ranges before the i-th and before the  *)
(* ones behind the k-th, and touches none of them.                         *)
FitsAt(x, r, i, k, n) ==
    /\ x \in RangeIn(n) /\ End(x) <= n
    /\ \A j \in DOMAIN r : j < i => End(r[j]) < x.start
    /\ \A j \in DOMAIN r : k < j => End(x) < r[j].start

(* The list after its i-th range was replaced by another that is as far    *)
(* from its neighbours.                                                    *)
LEMMA ReplacedRange ==
    ASSUME NEW N \in Nat, NEW r, FreeListOf(r, N), NEW i \in DOMAIN r,
           NEW x, FitsAt(x, r, i, i, N), NEW q, q = Seqs!ReplaceAt(r, i, x)
    PROVE  /\ FreeListOf(q, N)
           /\ FreePages(q) = (FreePages(r) \ PagesOf(r[i])) \cup PagesOf(x)
           /\ Headers(q) = (Headers(r) \ {r[i].start}) \cup {x.start}
<1>0. /\ x \in RangeIn(N) /\ End(x) <= N
      /\ \A j \in DOMAIN r : j < i => End(r[j]) < x.start
      /\ \A j \in DOMAIN r : i < j => End(x) < r[j].start
  BY RangeFacts DEF FitsAt
<1>1. /\ r \in Seq(RangeIn(N)) /\ Len(r) \in Nat /\ DOMAIN r = 1 .. Len(r)
      /\ i \in 1 .. Len(r)
  BY RangeFacts
<1>2. /\ q \in Seq(RangeIn(N)) /\ Len(q) = Len(r) /\ DOMAIN q = 1 .. Len(r)
      /\ q[i] = x /\ \A j \in 1 .. Len(r) : j # i => q[j] = r[j]
  BY <1>0, <1>1, ExceptSeq DEF Seqs!ReplaceAt
<1>4. FreeListOf(q, N)
  <2>1. \A j, k \in 1 .. Len(r) : j < k => End(q[j]) < q[k].start
    BY <1>0, <1>1, <1>2 DEF FreeListOf, InOrder
  <2>2. \A j \in 1 .. Len(r) : End(q[j]) <= N
    BY <1>0, <1>1, <1>2 DEF FreeListOf, Below
  <2> QED BY <2>1, <2>2, <1>2 DEF FreeListOf, InOrder, Below
<1>5. \A l \in 1 .. Len(r) : l # i =>
          PagesOf(r[l]) \cap PagesOf(r[i]) = {} /\ r[l].start # r[i].start
  BY <1>1, RangesApart
<1>6. FreePages(q) = (FreePages(r) \ PagesOf(r[i])) \cup PagesOf(x)
  <2>1. \A l \in 1 .. Len(r) : PagesOf(q[l]) \subseteq
            (FreePages(r) \ PagesOf(r[i])) \cup PagesOf(x)
    BY <1>1, <1>2, <1>5 DEF FreePages
  <2>2. \A l \in 1 .. Len(r) : l # i => PagesOf(r[l]) \subseteq FreePages(q)
    BY <1>2 DEF FreePages
  <2>3. PagesOf(x) \subseteq FreePages(q)
    BY <1>1, <1>2 DEF FreePages
  <2> QED BY <2>1, <2>2, <2>3, <1>1, <1>2 DEF FreePages
<1>7. Headers(q) = (Headers(r) \ {r[i].start}) \cup {x.start}
  BY <1>1, <1>2, <1>5 DEF Headers
<1> QED BY <1>4, <1>6, <1>7

(* The list with one more range, between its neighbours.                   *)
LEMMA InsertedRange ==
    ASSUME NEW N \in Nat, NEW r, FreeListOf(r, N), NEW i \in 1 .. Len(r) + 1,
           NEW x, FitsAt(x, r, i, i - 1, N), NEW q, q = Seqs!InsertAt(r, i, x)
    PROVE  /\ FreeListOf(q, N)
           /\ FreePages(q) = FreePages(r) \cup PagesOf(x)
           /\ Headers(q) = Headers(r) \cup {x.start}
<1>0. /\ x \in RangeIn(N) /\ End(x) <= N
      /\ \A j \in DOMAIN r : j < i => End(r[j]) < x.start
      /\ \A j \in DOMAIN r : i <= j => End(x) < r[j].start
  BY RangeFacts DEF FitsAt
<1>1. /\ r \in Seq(RangeIn(N)) /\ Len(r) \in Nat /\ DOMAIN r = 1 .. Len(r)
  BY RangeFacts
<1>2. /\ q \in Seq(RangeIn(N)) /\ Len(q) = Len(r) + 1 /\ q[i] = x
      /\ \A j \in 1 .. Len(r) : (j < i => q[j] = r[j]) /\ (i <= j => q[j + 1] = r[j])
  <2> DEFINE X == RangeIn(N)
  <2>1. r \in Seq(X) /\ x \in X /\ i \in 1 .. Len(r) + 1 /\ q = Seqs!InsertAt(r, i, x)
    BY <1>0, <1>1
  <2> HIDE DEF X
  <2>2. /\ q \in Seq(X) /\ Len(q) = Len(r) + 1 /\ q[i] = x
        /\ \A j \in 1 .. Len(r) : (j < i => q[j] = r[j]) /\ (i <= j => q[j + 1] = r[j])
    BY ONLY <2>1, InsertAtFacts
  <2> QED BY <2>2 DEF X
<1>3. DOMAIN q = 1 .. Len(r) + 1
  BY <1>1, <1>2
<1>4. FreeListOf(q, N)
  <2>1. ASSUME NEW j \in 1 .. Len(r) + 1, NEW k \in 1 .. Len(r) + 1, j < k
        PROVE  End(q[j]) < q[k].start
    <3>1. CASE k < i
      <4>1. q[j] = r[j] /\ q[k] = r[k] /\ j \in 1 .. Len(r) /\ k \in 1 .. Len(r)
        BY <3>1, <2>1, <1>1, <1>2
      <4> QED BY <4>1, <2>1, <1>1 DEF FreeListOf, InOrder
    <3>2. CASE k = i
      <4>1. q[j] = r[j] /\ q[k] = x /\ j \in DOMAIN r /\ j < i
        BY <3>2, <2>1, <1>1, <1>2
      <4> QED BY <4>1, <1>0
    <3>3. CASE j = i
      <4>1. k - 1 \in 1 .. Len(r) /\ i <= k - 1 /\ (k - 1) + 1 = k
        BY <3>3, <2>1, <1>1
      <4>2. q[j] = x /\ q[k] = r[k - 1] /\ k - 1 \in DOMAIN r /\ i <= k - 1
        BY <4>1, <3>3, <1>1, <1>2
      <4> QED BY <4>2, <1>0
    <3>4. CASE j < i /\ k > i
      <4>1. k - 1 \in 1 .. Len(r) /\ i <= k - 1 /\ (k - 1) + 1 = k
        BY <3>4, <2>1, <1>1
      <4>2. /\ q[j] = r[j] /\ q[k] = r[k - 1] /\ j \in 1 .. Len(r)
            /\ k - 1 \in 1 .. Len(r) /\ j < k - 1
        BY <4>1, <3>4, <2>1, <1>1, <1>2
      <4> QED BY <4>2, <1>1 DEF FreeListOf, InOrder
    <3>5. CASE j > i
      <4>1. /\ j - 1 \in 1 .. Len(r) /\ i <= j - 1 /\ (j - 1) + 1 = j
            /\ k - 1 \in 1 .. Len(r) /\ i <= k - 1 /\ (k - 1) + 1 = k /\ j - 1 < k - 1
        BY <3>5, <2>1, <1>1
      <4>2. q[j] = r[j - 1] /\ q[k] = r[k - 1]
        BY <4>1, <1>2
      <4> QED BY <4>1, <4>2, <1>1 DEF FreeListOf, InOrder
    <3> QED BY <3>1, <3>2, <3>3, <3>4, <3>5, <1>1
  <2>2. \A j \in 1 .. Len(r) + 1 : End(q[j]) <= N
    <3>1. ASSUME NEW j \in 1 .. Len(r) + 1
          PROVE  q[j] = x \/ \E l \in 1 .. Len(r) : q[j] = r[l]
      <4>1. CASE j < i
        BY <4>1, <1>1, <1>2
      <4>2. CASE j > i
        <5>1. j - 1 \in 1 .. Len(r) /\ i <= j - 1 /\ (j - 1) + 1 = j
          BY <4>2, <1>1
        <5> QED BY <5>1, <1>2
      <4> QED BY <4>1, <4>2, <1>2
    <3> QED BY <3>1, <1>0, <1>1 DEF FreeListOf, Below
  <2> QED BY <2>1, <2>2, <1>2, <1>3 DEF FreeListOf, InOrder, Below
<1>5. /\ \A l \in 1 .. Len(r) : \E j \in 1 .. Len(r) + 1 : q[j] = r[l]
      /\ \A j \in 1 .. Len(r) + 1 : q[j] = x \/ \E l \in 1 .. Len(r) : q[j] = r[l]
  <2>1. \A l \in 1 .. Len(r) : \E j \in 1 .. Len(r) + 1 : q[j] = r[l]
    <3>1. \A l \in 1 .. Len(r) : l < i => q[l] = r[l] /\ l \in 1 .. Len(r) + 1
      BY <1>1, <1>2
    <3>2. \A l \in 1 .. Len(r) : i <= l => q[l + 1] = r[l] /\ l + 1 \in 1 .. Len(r) + 1
      BY <1>1, <1>2
    <3> QED BY <3>1, <3>2, <1>1
  <2>2. ASSUME NEW j \in 1 .. Len(r) + 1
        PROVE  q[j] = x \/ \E l \in 1 .. Len(r) : q[j] = r[l]
    <3>1. CASE j < i
      BY <3>1, <1>1, <1>2
    <3>2. CASE j > i
      <4>1. j - 1 \in 1 .. Len(r) /\ i <= j - 1 /\ (j - 1) + 1 = j
        BY <3>2, <1>1
      <4> QED BY <4>1, <1>2
    <3> QED BY <3>1, <3>2, <1>2
  <2> QED BY <2>1, <2>2
<1>6. FreePages(q) = FreePages(r) \cup PagesOf(x)
  <2>1. \A l \in 1 .. Len(r) + 1 : PagesOf(q[l]) \subseteq FreePages(r) \cup PagesOf(x)
    BY <1>1, <1>5 DEF FreePages
  <2>2. \A l \in 1 .. Len(r) : PagesOf(r[l]) \subseteq FreePages(q)
    BY <1>3, <1>5 DEF FreePages
  <2>3. PagesOf(x) \subseteq FreePages(q)
    BY <1>1, <1>2, <1>3 DEF FreePages
  <2> QED BY <2>1, <2>2, <2>3, <1>1, <1>3 DEF FreePages
<1>7. Headers(q) = Headers(r) \cup {x.start}
  <2>1. \A l \in 1 .. Len(r) + 1 : q[l].start \in Headers(r) \cup {x.start}
    BY <1>1, <1>5 DEF Headers
  <2>2. \A l \in 1 .. Len(r) : r[l].start \in Headers(q)
    BY <1>3, <1>5 DEF Headers
  <2>3. x.start \in Headers(q)
    BY <1>1, <1>2, <1>3 DEF Headers
  <2>4. Headers(q) \subseteq Headers(r) \cup {x.start}
    BY <2>1, <1>3 DEF Headers
  <2>5. Headers(r) \subseteq Headers(q)
    BY <2>2, <1>1 DEF Headers
  <2> QED BY <2>3, <2>4, <2>5
<1> QED BY <1>4, <1>6, <1>7

(* Taking the first n pages of a range leaves a free list without them.    *)
LEMMA TakenFacts ==
    ASSUME NEW N \in Nat, NEW r, FreeListOf(r, N), NEW i \in DOMAIN r,
           NEW n \in Nat \ {0}, r[i].size >= n,
           NEW a, a = r[i].start, NEW q, q = Taken(r, i, n)
    PROVE  /\ FreeListOf(q, N)
           /\ a \in Headers(r) /\ a .. a + n - 1 \subseteq FreePages(r)
           /\ a \in 0 .. N - 1 /\ a + n <= N
           /\ FreePages(q) = FreePages(r) \ (a .. a + n - 1)
           /\ IsExact(r, i, n) => Headers(q) = Headers(r) \ {a}
           /\ ~IsExact(r, i, n) =>
                 /\ Headers(q) = (Headers(r) \ {a}) \cup {a + n}
                 /\ a + n \in FreePages(r) \ Headers(r)
<1>1. /\ r \in Seq(RangeIn(N)) /\ Len(r) \in Nat /\ DOMAIN r = 1 .. Len(r)
      /\ i \in 1 .. Len(r)
  BY RangeFacts
<1> DEFINE z == r[i].size
<1>2. a \in Nat /\ z \in Nat \ {0} /\ End(r[i]) = a + z /\ a + z <= N /\ n <= z
  BY <1>1, RangeFacts
<1>3. a \in Headers(r)
  BY <1>1 DEF Headers
<1>4. /\ \A v : v \in PagesOf(r[i]) <=> v \in Int /\ a <= v /\ v < a + z
      /\ PagesOf(r[i]) \subseteq FreePages(r)
  BY <1>1, <1>2, PagesFacts DEF FreePages
<1>5. IsExact(r, i, n) <=> z = n
  BY DEF IsExact
<1>6. a .. a + n - 1 \subseteq FreePages(r)
  BY <1>2, <1>4
<1>7. CASE IsExact(r, i, n)
  <2>1. q = Seqs!RemoveAt(r, i)
    BY <1>7 DEF Taken
  <2>2. /\ FreeListOf(q, N)
        /\ FreePages(q) = FreePages(r) \ PagesOf(r[i])
        /\ Headers(q) = Headers(r) \ {a}
    BY <2>1, WithoutRange
  <2> HIDE DEF z
  <2>3. PagesOf(r[i]) = a .. a + n - 1
    <3>1. \A v : v \in PagesOf(r[i]) <=> v \in a .. a + n - 1
      BY <1>2, <1>4, <1>5, <1>7
    <3> QED BY <3>1, Zenon
  <2> QED BY <2>2, <2>3, <1>2, <1>3, <1>6, <1>7
<1>8. CASE ~IsExact(r, i, n)
  <2> DEFINE x == FreeRange(a + n, z - n)
  <2>1. q = Seqs!ReplaceAt(r, i, x)
    BY <1>8 DEF Taken, Seqs!ReplaceAt
  <2>2. x.start = a + n /\ x.size = z - n /\ End(x) = a + z /\ x \in RangeIn(N)
    BY <1>2, <1>5, <1>8 DEF FreeRange, RangeIn, End
  <2> HIDE DEF x, z
  <2>3. \A v : v \in PagesOf(x) <=> v \in Int /\ a + n <= v /\ v < a + z
    <3>1. a + n \in Int /\ z - n \in Int /\ (a + n) + (z - n) = a + z
      BY <1>2
    <3>2. \A v : v \in PagesOf(x) <=> v \in Int /\ a + n <= v /\ v < (a + n) + (z - n)
      BY <2>2, <3>1, PagesFacts
    <3> QED BY <3>1, <3>2
  <2>4. \A j \in DOMAIN r : j < i => End(r[j]) < x.start
    <3>1. ASSUME NEW j \in 1 .. Len(r), j < i
          PROVE  End(r[j]) < a /\ End(r[j]) \in Int
      <4>1. End(r[j]) = r[j].start + r[j].size /\ End(r[j]) \in Nat
        BY RangeFacts
      <4>2. r[j].start + r[j].size < r[i].start
        <5>1. \A k, l \in 1 .. Len(r) : k < l => r[k].start + r[k].size < r[l].start
          BY RangeFacts
        <5> QED BY ONLY <5>1, <1>1, j \in 1 .. Len(r), <3>1
      <4> QED BY ONLY <4>1, <4>2, a = r[i].start
    <3>2. a \in Int /\ n \in Int /\ n > 0 /\ x.start = a + n
      BY <1>2, <2>2
    <3>3. ASSUME NEW j \in 1 .. Len(r), j < i
          PROVE  End(r[j]) < x.start
      <4> DEFINE e == End(r[j])
      <4>1. e < a /\ e \in Int
        BY <3>1, <3>3
      <4> HIDE DEF e
      <4>2. e < x.start
        BY ONLY <3>2, <4>1
      <4> QED BY <4>2 DEF e
    <3> QED BY <3>3, <1>1
  <2>5. \A j \in DOMAIN r : i < j => End(x) < r[j].start
    BY <1>1, <1>2, <2>2 DEF FreeListOf, InOrder
  <2>6. /\ FreeListOf(q, N)
        /\ FreePages(q) = (FreePages(r) \ PagesOf(r[i])) \cup PagesOf(x)
        /\ Headers(q) = (Headers(r) \ {a}) \cup {a + n}
    <3>1. FitsAt(x, r, i, i, N)
      BY <2>2, <2>4, <2>5, <1>2 DEF FitsAt
    <3>2. /\ FreeListOf(q, N)
          /\ FreePages(q) = (FreePages(r) \ PagesOf(r[i])) \cup PagesOf(x)
          /\ Headers(q) = (Headers(r) \ {r[i].start}) \cup {x.start}
      BY <2>1, <3>1, ReplacedRange
    <3> QED BY <3>2, <2>2
  <2>7. FreePages(q) = FreePages(r) \ (a .. a + n - 1)
    <3>1. PagesOf(x) = PagesOf(r[i]) \ (a .. a + n - 1)
      BY <2>3, <1>2, <1>4
    <3>2. a .. a + n - 1 \subseteq PagesOf(r[i])
      BY <1>2, <1>4
    <3> QED BY <3>1, <3>2, <2>6, <1>4
  <2>8. a + n \in PagesOf(r[i])
    BY <1>2, <1>4, <1>5, <1>8
  <2>9. a + n \notin Headers(r)
    <3>1. \A j \in 1 .. Len(r) : r[j].start \in PagesOf(r[j])
      <4>1. \A j \in 1 .. Len(r) : r[j].start \in Nat /\ r[j].size \in Nat \ {0}
        BY RangeFacts
      <4> QED BY <4>1 DEF PagesOf, End
    <3>2. \A j \in 1 .. Len(r) : j # i => r[j].start \notin PagesOf(r[i])
      BY <3>1, <1>1, RangesApart
    <3>3. r[i].start # a + n
      BY <1>2
    <3> QED BY <3>2, <3>3, <2>8, <1>1 DEF Headers
  <2> QED BY <2>6, <2>7, <2>8, <2>9, <1>2, <1>3, <1>4, <1>6, <1>8
<1> QED BY <1>7, <1>8

(* Giving back pages that are not free leaves a free list with them.       *)
LEMMA ReturnedFacts ==
    ASSUME NEW N \in Nat, NEW r, FreeListOf(r, N), NEW a \in Nat, NEW n \in Nat \ {0},
           a + n <= N, (a .. a + n - 1) \cap FreePages(r) = {},
           NEW q, q = Returned(r, a, n)
    PROVE  /\ FreeListOf(q, N)
           /\ FreePages(q) = FreePages(r) \cup (a .. a + n - 1)
           /\ Headers(q) = (Headers(r) \ (IF TouchesNext(r, a, n) THEN {a + n} ELSE {}))
                             \cup (IF TouchesPrev(r, a) THEN {} ELSE {a})
           /\ TouchesNext(r, a, n) =>
                 a + n \in Headers(r) /\ r[Before(r, a) + 1].start = a + n
<1> DEFINE i == Before(r, a)
           k == i + 1
<1>1. /\ r \in Seq(RangeIn(N)) /\ Len(r) \in Nat /\ DOMAIN r = 1 .. Len(r)
  BY RangeFacts
<1>2. /\ \A j \in 1 .. Len(r) :
             /\ r[j].start \in Nat /\ r[j].size \in Nat \ {0}
             /\ End(r[j]) = r[j].start + r[j].size /\ End(r[j]) <= N /\ End(r[j]) \in Nat
             /\ r[j].start < End(r[j])
      /\ \A j, l \in 1 .. Len(r) : j < l => End(r[j]) < r[l].start
  BY RangeFacts
<1>21. \A j \in 1 .. Len(r) : r[j].start \in Headers(r) /\ PagesOf(r[j]) \subseteq FreePages(r)
  BY <1>1 DEF Headers, FreePages
<1>22. \A j \in 1 .. Len(r) : \A v : v \in PagesOf(r[j]) <=>
             v \in Int /\ r[j].start <= v /\ v < r[j].start + r[j].size
  BY <1>2, PagesFacts
<1>3. /\ i \in 0 .. Len(r)
      /\ \A j \in 1 .. i : End(r[j]) <= a
      /\ \A j \in k .. Len(r) : a + n <= r[j].start
  <2>1. \A v \in a .. a + n - 1 : v \notin FreePages(r)
    OBVIOUS
  <2> QED BY <2>1, BeforeFacts, Zenon
<1>4. /\ TouchesPrev(r, a) <=> i > 0 /\ End(r[i]) = a
      /\ TouchesNext(r, a, n) <=> i < Len(r) /\ r[k].start = a + n
  BY DEF TouchesPrev, TouchesNext
<1>5. q = CASE TouchesPrev(r, a) /\ TouchesNext(r, a, n) ->
                 Seqs!RemoveAt([r EXCEPT ![i] =
                     FreeRange(@.start, @.size + n + r[k].size)], k)
          [] TouchesPrev(r, a) /\ ~TouchesNext(r, a, n) ->
                 [r EXCEPT ![i] = FreeRange(@.start, @.size + n)]
          [] ~TouchesPrev(r, a) /\ TouchesNext(r, a, n) ->
                 [r EXCEPT ![k] = FreeRange(a, @.size + n)]
          [] OTHER -> Seqs!InsertAt(r, k, FreeRange(a, n))
  BY Zenon DEF Returned
<1>6. k = i + 1 /\ r[Before(r, a) + 1] = r[k]
  OBVIOUS
<1> HIDE DEF i, k
<1>7. i \in Nat /\ k \in Nat
  BY <1>1, <1>3, <1>6
<1>8. TouchesNext(r, a, n) => k \in 1 .. Len(r) /\ a + n \in Headers(r) /\ r[k].start = a + n
  BY <1>1, <1>21, <1>3, <1>4, <1>6, <1>7
<1>9. ~TouchesPrev(r, a) => \A j \in 1 .. Len(r) : j < k => End(r[j]) < a
  <2>1. SUFFICES ASSUME ~TouchesPrev(r, a), NEW j \in 1 .. Len(r), j < k
                 PROVE  End(r[j]) < a
    OBVIOUS
  <2>2. j \in 1 .. i /\ i \in 1 .. Len(r)
    BY <2>1, <1>1, <1>3, <1>6, <1>7
  <2>3. End(r[j]) <= a /\ End(r[j]) \in Nat /\ End(r[i]) \in Nat /\ End(r[i]) <= a
    <3>1. i \in 1 .. i
      BY <2>2
    <3>2. End(r[j]) <= a /\ End(r[i]) <= a
      BY <2>2, <3>1, <1>3
    <3>3. End(r[j]) \in Nat /\ End(r[i]) \in Nat
      BY <2>2, <1>2
    <3> QED BY <3>2, <3>3
  <2>4. CASE j = i
    BY <2>4, <2>3, <2>2, <2>1, <1>4
  <2>5. CASE j < i
    <3>1. End(r[j]) < r[i].start /\ r[i].start < End(r[i]) /\ r[i].start \in Nat
      BY <2>5, <2>2, <1>2
    <3> QED BY <3>1, <2>3
  <2> QED BY <2>2, <2>4, <2>5
<1>10. ~TouchesNext(r, a, n) => \A j \in 1 .. Len(r) : i < j => a + n < r[j].start
  <2>1. SUFFICES ASSUME ~TouchesNext(r, a, n), NEW j \in 1 .. Len(r), i < j
                 PROVE  a + n < r[j].start
    OBVIOUS
  <2>2. k \in 1 .. Len(r) /\ j \in k .. Len(r) /\ k \in k .. Len(r) /\ i < Len(r)
    BY <2>1, <1>1, <1>6, <1>7
  <2>3. a + n <= r[j].start /\ r[j].start \in Nat /\ a + n <= r[k].start /\ r[k].start \in Nat
    BY <2>2, <1>2, <1>3
  <2>4. CASE j = k
    BY <2>4, <2>3, <2>2, <2>1, <1>4
  <2>5. CASE k < j
    <3>1. End(r[k]) < r[j].start /\ r[k].start < End(r[k]) /\ End(r[k]) \in Nat
      BY <2>5, <2>2, <1>2
    <3> QED BY <3>1, <2>3
  <2> QED BY <2>2, <2>4, <2>5
<1>11. CASE TouchesPrev(r, a) /\ TouchesNext(r, a, n)
  <2> DEFINE y == r[i].start
             w == r[i].size
             z == r[k].size
             x == FreeRange(y, w + n + z)
             p == Seqs!RemoveAt(r, k)
             r2 == [r EXCEPT ![i] = x]
  <2>1. q = Seqs!RemoveAt(r2, k)
    BY <1>5, <1>11
  <2>2. /\ i \in 1 .. Len(r) /\ k \in 1 .. Len(r) /\ r[k].start = a + n
        /\ y \in Nat /\ w \in Nat \ {0} /\ z \in Nat \ {0} /\ y + w = a
        /\ End(r[k]) = a + n + z /\ a + n + z <= N
    <3>1. i \in 1 .. Len(r) /\ k \in 1 .. Len(r) /\ r[k].start = a + n /\ End(r[i]) = a
      BY <1>1, <1>3, <1>4, <1>8, <1>11
    <3> QED BY <3>1, <1>2
  <2>20. r[i].start = y /\ r[i].size = w /\ r[k].size = z
    OBVIOUS
  <2> HIDE DEF y, w, z
  <2>3. /\ x.start = y /\ x.size = w + n + z /\ x \in RangeIn(N)
        /\ End(x) = a + n + z
    <3>1. w + n + z \in 1 .. N /\ y \in 0 .. N - 1 /\ y + (w + n + z) = a + n + z
      BY <2>2
    <3>2. x.start = y /\ x.size = w + n + z
      BY DEF FreeRange
    <3> QED BY <3>1, <3>2 DEF FreeRange, RangeIn, End
  <2>4. /\ FreeListOf(p, N)
        /\ FreePages(p) = FreePages(r) \ PagesOf(r[k])
        /\ Headers(p) = Headers(r) \ {a + n}
    <3>1. k \in DOMAIN r /\ p = Seqs!RemoveAt(r, k)
      BY <2>2, <1>1
    <3> HIDE DEF p
    <3>2. /\ FreeListOf(p, N)
          /\ FreePages(p) = FreePages(r) \ PagesOf(r[k])
          /\ Headers(p) = Headers(r) \ {r[k].start}
      BY <3>1, WithoutRange
    <3> QED BY <3>2, <2>2
  <2>5. /\ p \in Seq(RangeIn(N)) /\ Len(p) = Len(r) - 1
        /\ \A j \in 1 .. Len(r) - 1 : p[j] = IF j < k THEN r[j] ELSE r[j + 1]
    <3>1. k \in DOMAIN r
      BY <2>2, <1>1
    <3> DEFINE X == RangeIn(N)
    <3>2. r \in Seq(X) /\ k \in DOMAIN r /\ p = Seqs!RemoveAt(r, k)
      BY <3>1, <1>1
    <3> HIDE DEF X, p
    <3>3. /\ p \in Seq(X) /\ Len(p) = Len(r) - 1
          /\ \A j \in 1 .. Len(r) - 1 : p[j] = IF j < k THEN r[j] ELSE r[j + 1]
      <4> DEFINE e == Seqs!RemoveAt(r, k)
      <4>1. /\ e \in Seq(X) /\ Len(e) = Len(r) - 1
            /\ \A j \in 1 .. Len(r) - 1 : e[j] = IF j < k THEN r[j] ELSE r[j + 1]
        <5> HIDE DEF e
        <5>1. e = Seqs!RemoveAt(r, k)
          BY DEF e
        <5> QED BY ONLY <3>2, <5>1, RemoveAtFacts
      <4> QED BY ONLY <3>2, <4>1
    <3> QED BY <3>3 DEF X
  <2>6. DOMAIN p = 1 .. Len(r) - 1
    BY <2>5, <1>1
  <2>7. /\ r2 \in Seq(RangeIn(N)) /\ Len(r2) = Len(r) /\ DOMAIN r2 = 1 .. Len(r)
        /\ r2[i] = x /\ \A j \in 1 .. Len(r) : j # i => r2[j] = r[j]
    BY <1>1, <2>2, <2>3, ExceptSeq
  <2> HIDE DEF p, r2, x
  <2>8. /\ q \in Seq(RangeIn(N)) /\ Len(q) = Len(r) - 1
        /\ \A j \in 1 .. Len(r) - 1 : q[j] = IF j < k THEN r2[j] ELSE r2[j + 1]
    <3>1. k \in DOMAIN r2
      BY <2>2, <2>7
    <3>2. /\ q \in Seq(RangeIn(N)) /\ Len(q) = Len(r2) - 1
          /\ \A j \in 1 .. Len(r2) - 1 : q[j] = IF j < k THEN r2[j] ELSE r2[j + 1]
      <4>1. r2 \in Seq(RangeIn(N))
        BY <2>7
      <4> QED BY <3>1, <4>1, <2>1, RemoveAtFacts
    <3> QED BY <3>2, <2>7
  <2>9. i \in 1 .. Len(r) - 1 /\ i < k
    BY <2>2, <1>1, <1>6, <1>7
  <2>10. q = Seqs!ReplaceAt(p, i, x)
    <3> DEFINE u == [p EXCEPT ![i] = x]
    <3>1. /\ u \in Seq(RangeIn(N)) /\ Len(u) = Len(r) - 1 /\ u[i] = x
          /\ \A j \in 1 .. Len(r) - 1 : j # i => u[j] = p[j]
      BY <2>3, <2>5, <2>6, <2>9, ExceptSeq
    <3> HIDE DEF u
    <3>2. ASSUME NEW j \in 1 .. Len(r) - 1
          PROVE  q[j] = u[j]
      <4>1. CASE j < k
        <5>1. q[j] = r2[j] /\ p[j] = r[j] /\ j \in 1 .. Len(r)
          BY <4>1, <2>5, <2>8, <1>1
        <5> QED BY <5>1, <3>1, <2>7
      <4>2. CASE ~(j < k)
        <5>1. j + 1 \in 1 .. Len(r) /\ j + 1 # i /\ j # i
          BY <4>2, <1>1, <1>6, <1>7, <2>9
        <5> QED BY <5>1, <4>2, <3>1, <2>5, <2>7, <2>8
      <4> QED BY <4>1, <4>2
    <3>3. q = u
      BY <3>1, <3>2, <2>8, SeqEqual
    <3> QED BY <3>3 DEF u, Seqs!ReplaceAt
  <2>11. i \in DOMAIN p /\ p[i] = r[i]
    BY <2>5, <2>6, <2>9
  <2>12. \A j \in DOMAIN p : j < i => End(p[j]) < x.start
    <3>1. ASSUME NEW j \in 1 .. Len(r) - 1, j < i
          PROVE  p[j] = r[j] /\ j \in 1 .. Len(r)
      <4>1. j < k /\ j \in 1 .. Len(r)
        BY <3>1, <1>1, <1>6, <1>7
      <4> QED BY <4>1, <2>5
    <3> QED BY <3>1, <2>2, <2>3, <2>6, <2>20, <1>2
  <2>13. \A j \in DOMAIN p : i < j => End(x) < p[j].start
    <3>1. SUFFICES ASSUME NEW j \in 1 .. Len(r) - 1, i < j
                   PROVE  a + n + z < p[j].start
      BY <2>3, <2>6
    <3>2. p[j] = r[j + 1] /\ k < j + 1 /\ j + 1 \in 1 .. Len(r)
      BY <3>1, <2>5, <1>1, <1>6, <1>7
    <3> QED BY <3>2, <2>2, <1>2
  <2>14. /\ FreeListOf(q, N)
         /\ FreePages(q) = (FreePages(p) \ PagesOf(p[i])) \cup PagesOf(x)
         /\ Headers(q) = (Headers(p) \ {p[i].start}) \cup {x.start}
    <3>1. FitsAt(x, p, i, i, N)
      BY <2>2, <2>3, <2>12, <2>13 DEF FitsAt
    <3> QED BY <2>4, <2>10, <2>11, <3>1, ReplacedRange
  <2>15. FreePages(q) = FreePages(r) \cup (a .. a + n - 1)
    <3> DEFINE A == PagesOf(r[i])
               B == PagesOf(r[k])
               C == PagesOf(x)
    <3>1. /\ \A v : v \in A <=> v \in Int /\ y <= v /\ v < a
          /\ \A v : v \in B <=> v \in Int /\ a + n <= v /\ v < a + n + z
      BY <2>2, <2>20, <1>22
    <3>2. \A v : v \in C <=> v \in Int /\ y <= v /\ v < a + n + z
      <4>1. y \in Int /\ w + n + z \in Int /\ y + (w + n + z) = a + n + z
        <5>1. y \in Int /\ w \in Int /\ z \in Int /\ n \in Int /\ y + w = a
          BY <2>2
        <5> QED BY ONLY <5>1
      <4>2. \A v : v \in C <=> v \in Int /\ y <= v /\ v < y + (w + n + z)
        BY <2>3, <4>1, PagesFacts
      <4> QED BY <4>1, <4>2
    <3> HIDE DEF A, B, C
    <3>3. \A v : v \in C <=> v \in A \/ v \in B \/ v \in a .. a + n - 1
      <4>1. y \in Nat /\ y <= a /\ z \in Nat
        BY <2>2
      <4> QED BY <3>1, <3>2, <4>1
    <3>4. A \subseteq FreePages(r) /\ B \subseteq FreePages(r)
      BY <2>2, <1>21 DEF A, B
    <3>5. FreePages(q) = ((FreePages(r) \ B) \ A) \cup C
      BY <2>4, <2>11, <2>14 DEF A, B, C
    <3> QED BY <3>3, <3>4, <3>5
  <2>16. Headers(q) = Headers(r) \ {a + n}
    <3>1. y \in Headers(r) /\ y # a + n
      BY <2>2, <2>20, <1>21
    <3> QED BY <3>1, <2>3, <2>4, <2>11, <2>14, <2>20
  <2> QED BY <2>14, <2>15, <2>16, <1>6, <1>8, <1>11
<1>12. CASE TouchesPrev(r, a) /\ ~TouchesNext(r, a, n)
  <2> DEFINE y == r[i].start
             w == r[i].size
             x == FreeRange(y, w + n)
  <2>1. q = Seqs!ReplaceAt(r, i, x)
    BY <1>5, <1>12 DEF Seqs!ReplaceAt
  <2>2. /\ i \in 1 .. Len(r) /\ i \in DOMAIN r
        /\ y \in Nat /\ w \in Nat \ {0} /\ y + w = a
    <3>1. i \in 1 .. Len(r) /\ End(r[i]) = a
      BY <1>1, <1>3, <1>4, <1>12
    <3> QED BY <3>1, <1>1, <1>2
  <2>3. x.start = y /\ x.size = w + n /\ x \in RangeIn(N) /\ End(x) = a + n
    BY <2>2 DEF FreeRange, RangeIn, End
  <2> HIDE DEF x
  <2>4. \A j \in DOMAIN r : j < i => End(r[j]) < x.start
    BY <2>2, <2>3, <1>1, <1>2
  <2>5. \A j \in DOMAIN r : i < j => End(x) < r[j].start
    BY <2>3, <1>1, <1>10, <1>12
  <2>6. /\ FreeListOf(q, N)
        /\ FreePages(q) = (FreePages(r) \ PagesOf(r[i])) \cup PagesOf(x)
        /\ Headers(q) = (Headers(r) \ {y}) \cup {x.start}
    <3>1. FitsAt(x, r, i, i, N)
      BY <2>3, <2>4, <2>5 DEF FitsAt
    <3> QED BY <2>1, <2>2, <3>1, ReplacedRange
  <2>7. FreePages(q) = FreePages(r) \cup (a .. a + n - 1)
    <3> DEFINE A == PagesOf(r[i])
               C == PagesOf(x)
    <3>1. \A v : v \in A <=> v \in Int /\ y <= v /\ v < a
      BY <2>2, <1>22
    <3>2. \A v : v \in C <=> v \in Int /\ y <= v /\ v < a + n
      <4>1. y \in Int /\ w + n \in Int /\ y + (w + n) = a + n
        BY <2>2
      <4>2. \A v : v \in C <=> v \in Int /\ y <= v /\ v < y + (w + n)
        BY <2>3, <4>1, PagesFacts
      <4> QED BY <4>1, <4>2
    <3> HIDE DEF A, C, y, w
    <3>3. \A v : v \in C <=> v \in A \/ v \in a .. a + n - 1
      BY <3>1, <3>2, <2>2
    <3>4. A \subseteq FreePages(r)
      BY <2>2, <1>21 DEF A
    <3>5. FreePages(q) = (FreePages(r) \ A) \cup C
      BY <2>6 DEF A, C
    <3> QED BY <3>3, <3>4, <3>5
  <2>8. y \in Headers(r)
    BY <2>2, <1>21
  <2> QED BY <2>3, <2>6, <2>7, <2>8, <1>12
<1>13. CASE ~TouchesPrev(r, a) /\ TouchesNext(r, a, n)
  <2> DEFINE z == r[k].size
             x == FreeRange(a, z + n)
  <2>1. q = Seqs!ReplaceAt(r, k, x)
    BY <1>5, <1>13 DEF Seqs!ReplaceAt
  <2>2. /\ k \in 1 .. Len(r) /\ k \in DOMAIN r /\ r[k].start = a + n
        /\ z \in Nat \ {0} /\ End(r[k]) = a + n + z /\ a + n + z <= N
    <3>1. k \in 1 .. Len(r) /\ r[k].start = a + n
      BY <1>8, <1>13
    <3> QED BY <3>1, <1>1, <1>2
  <2>3. x.start = a /\ x.size = z + n /\ x \in RangeIn(N) /\ End(x) = a + n + z
    BY <2>2 DEF FreeRange, RangeIn, End
  <2> HIDE DEF x
  <2>4. \A j \in DOMAIN r : j < k => End(r[j]) < x.start
    BY <2>3, <1>1, <1>9, <1>13
  <2>5. \A j \in DOMAIN r : k < j => End(x) < r[j].start
    BY <2>2, <2>3, <1>1, <1>2
  <2>6. /\ FreeListOf(q, N)
        /\ FreePages(q) = (FreePages(r) \ PagesOf(r[k])) \cup PagesOf(x)
        /\ Headers(q) = (Headers(r) \ {a + n}) \cup {x.start}
    <3>1. FitsAt(x, r, k, k, N)
      BY <2>2, <2>3, <2>4, <2>5 DEF FitsAt
    <3>2. /\ FreeListOf(q, N)
          /\ FreePages(q) = (FreePages(r) \ PagesOf(r[k])) \cup PagesOf(x)
          /\ Headers(q) = (Headers(r) \ {r[k].start}) \cup {x.start}
      BY <2>1, <2>2, <3>1, ReplacedRange
    <3> QED BY <3>2, <2>2
  <2>7. FreePages(q) = FreePages(r) \cup (a .. a + n - 1)
    <3> DEFINE A == PagesOf(r[k])
               C == PagesOf(x)
    <3>1. \A v : v \in A <=> v \in Int /\ a + n <= v /\ v < a + n + z
      BY <2>2, <1>22
    <3>2. \A v : v \in C <=> v \in Int /\ a <= v /\ v < a + n + z
      <4>1. a \in Int /\ z + n \in Int /\ a + (z + n) = a + n + z
        BY <2>2
      <4>2. \A v : v \in C <=> v \in Int /\ a <= v /\ v < a + (z + n)
        BY <2>3, <4>1, PagesFacts
      <4> QED BY <4>1, <4>2
    <3> HIDE DEF A, C, z
    <3>3. \A v : v \in C <=> v \in A \/ v \in a .. a + n - 1
      BY <3>1, <3>2, <2>2
    <3>4. A \subseteq FreePages(r)
      BY <2>2, <1>21 DEF A
    <3>5. FreePages(q) = (FreePages(r) \ A) \cup C
      BY <2>6 DEF A, C
    <3> QED BY <3>3, <3>4, <3>5
  <2> QED BY <2>3, <2>6, <2>7, <1>6, <1>8, <1>13
<1>14. CASE ~TouchesPrev(r, a) /\ ~TouchesNext(r, a, n)
  <2> DEFINE x == FreeRange(a, n)
  <2>1. q = Seqs!InsertAt(r, k, x)
    BY <1>5, <1>14
  <2>2. k \in 1 .. Len(r) + 1
    BY <1>1, <1>3, <1>6
  <2>3. x.start = a /\ x.size = n /\ x \in RangeIn(N) /\ End(x) = a + n
    BY DEF FreeRange, RangeIn, End
  <2> HIDE DEF x
  <2>4. \A j \in DOMAIN r : j < k => End(r[j]) < x.start
    BY <2>3, <1>1, <1>9, <1>14
  <2>5. \A j \in DOMAIN r : k <= j => End(x) < r[j].start
    BY <2>3, <1>1, <1>6, <1>7, <1>10, <1>14
  <2>6. /\ FreeListOf(q, N)
        /\ FreePages(q) = FreePages(r) \cup PagesOf(x)
        /\ Headers(q) = Headers(r) \cup {x.start}
    <3>1. FitsAt(x, r, k, k - 1, N)
      BY <2>3, <2>4, <2>5, <1>1, <1>7 DEF FitsAt
    <3> QED BY <2>1, <2>2, <3>1, InsertedRange
  <2>7. PagesOf(x) = a .. a + n - 1
    BY <2>3 DEF PagesOf
  <2> QED BY <2>3, <2>6, <2>7, <1>14
<1> QED BY <1>11, <1>12, <1>13, <1>14

(* A free list with a single range.                                        *)
LEMMA FirstRange ==
    ASSUME NEW N \in Nat, NEW a \in Nat, a < N, NEW q, q = <<FreeRange(a, N - a)>>
    PROVE  FreeListOf(q, N) /\ FreePages(q) = a .. N - 1 /\ Headers(q) = {a}
<1> DEFINE x == FreeRange(a, N - a)
<1>1. x \in RangeIn(N) /\ x.start = a /\ x.size = N - a
  BY DEF FreeRange, RangeIn
<1>2. End(x) = N /\ PagesOf(x) = a .. N - 1
  BY <1>1 DEF End, PagesOf
<1> HIDE DEF x
<1>3. q = <<x>>
  BY DEF x
<1>4. q \in Seq(RangeIn(N)) /\ DOMAIN q = {1} /\ q[1] = x
  BY <1>1, <1>3
<1>5. FreePages(q) = PagesOf(x) /\ Headers(q) = {x.start}
  BY <1>4 DEF FreePages, Headers
<1>6. InOrder(q) /\ Below(q, N)
  BY <1>2, <1>4 DEF InOrder, Below
<1> QED BY <1>1, <1>2, <1>4, <1>5, <1>6 DEF FreeListOf

(* A range that fits is in the free list.                                  *)
LEMMA FitsFacts ==
    ASSUME NEW N \in Nat, NEW r, FreeListOf(r, N), NEW n \in Nat, FirstFit(r, n) # 0
    PROVE  FirstFit(r, n) \in DOMAIN r /\ r[FirstFit(r, n)].size >= n
<1> DEFINE X == 0 .. N - 1
           S == [start : X, size : Nat]
<1>1. r \in Seq(RangeIn(N))
  BY DEF FreeListOf
<1>2. RangeIn(N) \subseteq S
  BY DEF RangeIn
<1> HIDE DEF S
<1>4. r \in Seq(S)
  BY <1>1, <1>2, SeqMonotonic
<1> HIDE DEF X
<1> QED BY <1>4, FirstFitFacts DEF S

(* The first page of a free range is free.                                 *)
LEMMA HeadersAreFree ==
    ASSUME NEW N \in Nat, NEW r, FreeListOf(r, N)
    PROVE  Headers(r) \subseteq FreePages(r)
<1>1. DOMAIN r = 1 .. Len(r) /\ \A i \in 1 .. Len(r) : r[i].start \in Nat /\ r[i].size \in Nat \ {0}
  BY RangeFacts
<1>2. \A i \in DOMAIN r : r[i].start \in FreePages(r)
  BY <1>1, FreePageFacts
<1> QED BY <1>2 DEF Headers
=============================================================================
