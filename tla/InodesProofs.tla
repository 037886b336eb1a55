---------------------------- MODULE InodesProofs ---------------------------
(***************************************************************************)
(* Proofs about the tree of inodes: the reference counts and link counts   *)
(* are exact and names are unique, for every number of processes and       *)
(* inodes, every path, and however the steps of the calls interleave.      *)
(*                                                                         *)
(* An inode is counted in two families of lists: the entries of the        *)
(* directories, and what each process holds (its variables, its file, its  *)
(* working directory, and the references it is about to give up).  A step  *)
(* changes one list of each family; the first lemmas say by how much that  *)
(* changes what the families count.                                        *)
(***************************************************************************)
EXTENDS Inodes, Integers, FiniteSetTheorems, SequenceTheorems, TLAPS

-----------------------------------------------------------------------------
(* Counting in a list.                                                     *)

Cnt(s, i) == Cardinality(Positions(s, i))
One(x, i) == IF x = i THEN 1 ELSE 0

(* A list names an inode finitely often.                                   *)
LEMMA CntType ==
    ASSUME NEW S, NEW s \in Seq(S), NEW i
    PROVE  /\ IsFiniteSet(Positions(s, i)) /\ Cnt(s, i) \in Nat
           /\ \A k \in DOMAIN s : s[k] = i => Cnt(s, i) > 0
           /\ (\A k \in DOMAIN s : s[k] # i) => Cnt(s, i) = 0
<1>1. Positions(s, i) \subseteq 1..Len(s) /\ Len(s) \in Nat
  BY DEF Positions
<1>2. IsFiniteSet(Positions(s, i))
  <2>1. IsFiniteSet(1..Len(s))
    BY <1>1, FS_Interval
  <2> QED BY <1>1, <2>1, FS_Subset
<1>3. Cnt(s, i) \in Nat /\ (Cnt(s, i) = 0 <=> Positions(s, i) = {})
  BY <1>2, FS_CardinalityType, FS_EmptySet, Zenon DEF Cnt
<1>4. ASSUME NEW k \in DOMAIN s, s[k] = i
      PROVE  Positions(s, i) # {}
  BY <1>4 DEF Positions
<1>5. (\A k \in DOMAIN s : s[k] # i) => Positions(s, i) = {}
  BY DEF Positions
<1> QED BY <1>2, <1>3, <1>4, <1>5

(* The empty list, and a list of one.                                      *)
LEMMA CntNone ==
    ASSUME NEW i
    PROVE  Cnt(<<>>, i) = 0
<1>1. Positions(<<>>, i) = {}
  BY DEF Positions
<1> QED BY <1>1, FS_EmptySet DEF Cnt

(* A list of one names that one.                                           *)
LEMMA CntOne ==
    ASSUME NEW x, NEW i
    PROVE  Cnt(<<x>>, i) = One(x, i)
<1>1. Positions(<<x>>, i) = IF x = i THEN {1} ELSE {}
  BY DEF Positions
<1>2. Cardinality({1}) = 1 /\ Cardinality({}) = 0
  BY FS_Singleton, FS_EmptySet
<1> QED BY <1>1, <1>2 DEF Cnt, One

(* What a concatenation names.                                             *)
LEMMA CntConcat ==
    ASSUME NEW S, NEW s \in Seq(S), NEW t \in Seq(S), NEW i
    PROVE  Cnt(s \o t, i) = Cnt(s, i) + Cnt(t, i)
<1> DEFINE n == Len(s)
           A == Positions(s, i)
           B == Positions(t, i)
           C == {k \in n + 1 .. n + Len(t) : t[k - n] = i}
           f == [k \in B |-> k + n]
<1>1. /\ s \o t \in Seq(S) /\ Len(s \o t) = n + Len(t) /\ n \in Nat /\ Len(t) \in Nat
      /\ \A k \in 1 .. n + Len(t) : (s \o t)[k] = IF k <= n THEN s[k] ELSE t[k - n]
  BY ConcatProperties
<1>2. /\ DOMAIN s = 1..n /\ DOMAIN t = 1..Len(t) /\ DOMAIN (s \o t) = 1 .. n + Len(t)
  BY <1>1, LenProperties
<1>3. Positions(s \o t, i) = A \cup C /\ A \cap C = {}
  BY <1>1, <1>2 DEF Positions
<1>4. f \in Bijection(B, C)
  <2>1. \A k \in B : k + n \in C
    BY <1>1, <1>2 DEF Positions
  <2>2. \A k \in C : k - n \in B /\ (k - n) + n = k
    BY <1>1, <1>2 DEF Positions
  <2>3. \A j, k \in B : j + n = k + n => j = k
    BY <1>1, <1>2 DEF Positions
  <2> HIDE DEF B, C, n
  <2>4. f \in Injection(B, C)
    BY <2>1, <2>3 DEF Injection, IsInjective
  <2>5. f \in Surjection(B, C)
    BY <2>1, <2>2 DEF Surjection
  <2> QED BY <2>4, <2>5 DEF Bijection
<1>5. IsFiniteSet(A) /\ IsFiniteSet(B) /\ Cardinality(A) \in Nat /\ Cardinality(B) \in Nat
  BY CntType DEF Cnt
<1>6. IsFiniteSet(C) /\ Cardinality(C) = Cardinality(B)
  <2> HIDE DEF B, C, f
  <2> QED BY <1>4, <1>5, FS_Bijection DEF ExistsBijection
<1> HIDE DEF A, B, C
<1>7. Cardinality(A \cup C) = Cardinality(A) + Cardinality(C) - Cardinality(A \cap C)
  BY <1>5, <1>6, FS_Union
<1>8. Cardinality(A \cap C) = 0
  BY <1>3, FS_EmptySet
<1>9. Cardinality(Positions(s \o t, i)) = Cardinality(A) + Cardinality(B)
  BY <1>3, <1>5, <1>6, <1>7, <1>8
<1> QED BY <1>9 DEF Cnt, A, B

(* One more at the end, and one less at the beginning.                     *)
LEMMA CntEnds ==
    ASSUME NEW S, NEW s \in Seq(S), NEW i
    PROVE  /\ \A x \in S : Cnt(Append(s, x), i) = Cnt(s, i) + One(x, i)
           /\ s # <<>> => Cnt(Tail(s), i) = Cnt(s, i) - One(Head(s), i)
<1>1. ASSUME NEW x \in S
      PROVE  Cnt(Append(s, x), i) = Cnt(s, i) + One(x, i)
  <2>1. Append(s, x) = s \o <<x>> /\ <<x>> \in Seq(S)
    BY AppendIsConcat
  <2>2. Cnt(s \o <<x>>, i) = Cnt(s, i) + Cnt(<<x>>, i)
    BY <2>1, CntConcat
  <2>3. Cnt(<<x>>, i) = One(x, i)
    BY CntOne
  <2> QED BY <2>1, <2>2, <2>3
<1>2. ASSUME s # <<>>
      PROVE  Cnt(Tail(s), i) = Cnt(s, i) - One(Head(s), i)
  <2>1. Head(s) \in S /\ Tail(s) \in Seq(S)
    BY <1>2, HeadTailProperties
  <2>2. s = <<Head(s)>> \o Tail(s) /\ <<Head(s)>> \in Seq(S)
    BY <1>2, <2>1
  <2>3. Cnt(s, i) = One(Head(s), i) + Cnt(Tail(s), i)
    <3>1. Cnt(<<Head(s)>> \o Tail(s), i) = Cnt(<<Head(s)>>, i) + Cnt(Tail(s), i)
      BY <2>1, <2>2, CntConcat
    <3>2. Cnt(<<Head(s)>>, i) = One(Head(s), i)
      BY CntOne
    <3> QED BY <2>2, <3>1, <3>2
  <2>4. Cnt(Tail(s), i) \in Nat /\ One(Head(s), i) \in Nat
    BY <2>1, CntType DEF One
  <2> QED BY <2>3, <2>4
<1> QED BY <1>1, <1>2

(* One less in the middle.                                                 *)
LEMMA CntRemoveAt ==
    ASSUME NEW S, NEW s \in Seq(S), NEW k \in DOMAIN s, NEW i
    PROVE  /\ RemoveAt(s, k) \in Seq(S) /\ Len(RemoveAt(s, k)) = Len(s) - 1
           /\ \A j \in DOMAIN RemoveAt(s, k) :
                 RemoveAt(s, k)[j] = IF j < k THEN s[j] ELSE s[j + 1]
           /\ Cnt(RemoveAt(s, k), i) = Cnt(s, i) - One(s[k], i)
<1> DEFINE a == SubSeq(s, 1, k - 1)
           b == SubSeq(s, k + 1, Len(s))
           c == <<s[k]>>
<1>1. Len(s) \in Nat /\ DOMAIN s = 1..Len(s) /\ k \in 1..Len(s) /\ s[k] \in S
  BY LenProperties, ElementOfSeq
<1>2. a \in Seq(S) /\ Len(a) = k - 1 /\ \A j \in 1 .. k - 1 : a[j] = s[j]
  OBVIOUS
<1>3. b \in Seq(S) /\ Len(b) = Len(s) - k /\ \A j \in 1 .. Len(s) - k : b[j] = s[k + j]
  OBVIOUS
<1>4. c \in Seq(S) /\ Len(c) = 1 /\ c[1] = s[k]
  BY <1>1
<1>5. Cnt(c, i) = One(s[k], i)
  BY CntOne
<1>6. RemoveAt(s, k) = a \o b
  BY DEF RemoveAt
<1> HIDE DEF a, b, c
<1>7. /\ a \o b \in Seq(S) /\ Len(a \o b) = Len(a) + Len(b)
      /\ \A j \in 1 .. Len(a) + Len(b) :
            (a \o b)[j] = IF j <= Len(a) THEN a[j] ELSE b[j - Len(a)]
  BY <1>2, <1>3, ConcatProperties
<1>8. \A j \in 1 .. Len(s) - 1 : (a \o b)[j] = IF j < k THEN s[j] ELSE s[j + 1]
  <2>1. ASSUME NEW j \in 1 .. Len(s) - 1, k <= j
        PROVE  b[j - (k - 1)] = s[j + 1]
    <3>1. j - (k - 1) \in 1 .. Len(s) - k /\ k + (j - (k - 1)) = j + 1
      BY <1>1, <2>1
    <3> QED BY <1>3, <3>1
  <2> QED BY <1>1, <1>2, <1>3, <1>7, <2>1
<1>9. /\ a \o c \in Seq(S) /\ Len(a \o c) = Len(a) + Len(c)
      /\ \A j \in 1 .. Len(a) + Len(c) :
            (a \o c)[j] = IF j <= Len(a) THEN a[j] ELSE c[j - Len(a)]
  BY <1>2, <1>4, ConcatProperties
<1>10. s = (a \o c) \o b
  <2> DEFINE d == a \o c
  <2>1. d \in Seq(S) /\ Len(d) = k /\ \A j \in 1..k : d[j] = s[j]
    BY <1>1, <1>2, <1>4, <1>9
  <2> HIDE DEF d
  <2>2. /\ d \o b \in Seq(S) /\ Len(d \o b) = Len(d) + Len(b)
        /\ \A j \in 1 .. Len(d) + Len(b) :
              (d \o b)[j] = IF j <= Len(d) THEN d[j] ELSE b[j - Len(d)]
    BY <1>3, <2>1, ConcatProperties
  <2>3. \A j \in 1..Len(s) : (d \o b)[j] = s[j]
    <3>1. ASSUME NEW j \in 1..Len(s), k < j
          PROVE  b[j - k] = s[j]
      <4>1. j - k \in 1 .. Len(s) - k /\ k + (j - k) = j
        BY <1>1, <3>1
      <4> QED BY <1>3, <4>1
    <3>2. Len(d) + Len(b) = Len(s)
      BY <1>1, <1>3, <2>1
    <3> QED BY <1>1, <2>1, <2>2, <3>1, <3>2
  <2>4. Len(d \o b) = Len(s)
    BY <1>1, <1>3, <2>1, <2>2
  <2>5. d \o b = s
    BY <1>1, <2>2, <2>3, <2>4, SeqEqual
  <2> QED BY <2>5 DEF d
<1>11. Cnt((a \o c) \o b, i) = Cnt(a \o c, i) + Cnt(b, i)
  BY <1>3, <1>9, CntConcat
<1>12. Cnt(a \o c, i) = Cnt(a, i) + Cnt(c, i)
  BY <1>2, <1>4, CntConcat
<1>13. Cnt(a \o b, i) = Cnt(a, i) + Cnt(b, i)
  BY <1>2, <1>3, CntConcat
<1>14. Cnt(a, i) \in Nat /\ Cnt(b, i) \in Nat /\ One(s[k], i) \in Nat
  BY <1>2, <1>3, CntType DEF One
<1>15. Cnt(a \o b, i) = Cnt(s, i) - One(s[k], i)
  BY <1>5, <1>10, <1>11, <1>12, <1>13, <1>14
<1>16. Len(a \o b) = Len(s) - 1 /\ DOMAIN (a \o b) = 1 .. Len(s) - 1
  <2>1. Len(a \o b) = Len(s) - 1
    BY <1>1, <1>2, <1>3, <1>7
  <2>2. DOMAIN (a \o b) = 1 .. Len(a \o b)
    BY <1>7, LenProperties
  <2> QED BY <2>1, <2>2
<1> QED BY <1>6, <1>7, <1>8, <1>15, <1>16

(* Lists of two and of four.                                               *)
LEMMA CntTwo ==
    ASSUME NEW a, NEW b, NEW i
    PROVE  Cnt(<<a, b>>, i) = One(a, i) + One(b, i)
<1> DEFINE S == {a, b}
           w == Append(<<a>>, b)
           t == <<a, b>>
<1>1. <<a>> \in Seq(S) /\ b \in S
  OBVIOUS
<1>2. w \in Seq(S) /\ Len(w) = 2 /\ t \in Seq(S) /\ Len(t) = 2
  OBVIOUS
<1>3. ASSUME NEW n \in 1..2
      PROVE  w[n] = t[n]
  OBVIOUS
<1>4. w = t
  <2> HIDE DEF w, t
  <2> QED BY <1>2, <1>3, SeqEqual
<1> HIDE DEF S
<1>5. Cnt(w, i) = Cnt(<<a>>, i) + One(b, i)
  BY <1>1, CntEnds
<1>6. Cnt(<<a>>, i) = One(a, i)
  BY CntOne
<1> QED BY <1>4, <1>5, <1>6

(* A list of four names its four members.                                  *)
LEMMA CntFour ==
    ASSUME NEW a, NEW b, NEW c, NEW d, NEW i
    PROVE  Cnt(<<a, b, c, d>>, i) = One(a, i) + One(b, i) + One(c, i) + One(d, i)
<1> DEFINE S == {a, b, c, d}
           s == <<a, b>>
           t == <<c, d>>
           w == s \o t
           u == <<a, b, c, d>>
<1>1. w \in Seq(S) /\ Len(w) = 4 /\ u \in Seq(S) /\ Len(u) = 4
  OBVIOUS
<1>2. ASSUME NEW n \in 1..4
      PROVE  w[n] = u[n]
  OBVIOUS
<1>3. w = u
  <2> HIDE DEF w, u
  <2> QED BY <1>1, <1>2, SeqEqual
<1>4. s \in Seq(S) /\ t \in Seq(S)
  OBVIOUS
<1> HIDE DEF S
<1>5. Cnt(s, i) = One(a, i) + One(b, i) /\ Cnt(t, i) = One(c, i) + One(d, i)
  BY CntTwo
<1> HIDE DEF s, t
<1>6. Cnt(w, i) = Cnt(s, i) + Cnt(t, i)
  BY <1>4, CntConcat
<1>7. /\ One(a, i) \in Nat /\ One(b, i) \in Nat
      /\ One(c, i) \in Nat /\ One(d, i) \in Nat
  BY DEF One
<1>8. Cnt(u, i) = One(a, i) + One(b, i) + One(c, i) + One(d, i)
  <2> HIDE DEF w, u
  <2> QED BY <1>3, <1>5, <1>6, <1>7
<1> QED BY <1>8 DEF u

(* What a step hands to inode_unref() is what it names, except for null    *)
(* pointers.                                                               *)
Weight(s, k, i) == IF k <= Len(s) /\ s[k] = i THEN 1 ELSE 0

(* The list NonNull() makes of up to four pointers.                        *)
LEMMA NonNullFacts ==
    ASSUME NEW s \in Seq(Inode \cup {None})
    PROVE  /\ NonNull(s) \in Seq(Inode)
           /\ \A i \in Inode : Cnt(NonNull(s), i)
                = Weight(s, 1, i) + Weight(s, 2, i) + Weight(s, 3, i) + Weight(s, 4, i)
<1> DEFINE at(k) == IF k <= Len(s) /\ s[k] # None THEN <<s[k]>> ELSE <<>>
<1>1. ASSUME NEW k \in 1..4
      PROVE  at(k) \in Seq(Inode) /\ \A i \in Inode : Cnt(at(k), i) = Weight(s, k, i)
  <2>1. CASE k <= Len(s) /\ s[k] # None
    <3>1. s[k] \in Inode
      BY <2>1
    <3>2. \A i \in Inode : Cnt(<<s[k]>>, i) = One(s[k], i)
      BY CntOne
    <3> QED BY <2>1, <3>1, <3>2 DEF Weight, One
  <2>2. CASE ~(k <= Len(s) /\ s[k] # None)
    <3>1. \A i \in Inode : Cnt(<<>>, i) = 0
      BY CntNone
    <3>2. None \notin Inode
      BY DEF None, Inode
    <3> QED BY <2>2, <3>1, <3>2 DEF Weight
  <2> QED BY <2>1, <2>2
<1>2. NonNull(s) = at(1) \o at(2) \o at(3) \o at(4)
  BY DEF NonNull
<1> DEFINE a == at(1)
           b == at(2)
           c == at(3)
           d == at(4)
<1>3. /\ a \in Seq(Inode) /\ b \in Seq(Inode) /\ c \in Seq(Inode) /\ d \in Seq(Inode)
      /\ \A i \in Inode : /\ Cnt(a, i) = Weight(s, 1, i) /\ Cnt(b, i) = Weight(s, 2, i)
                          /\ Cnt(c, i) = Weight(s, 3, i) /\ Cnt(d, i) = Weight(s, 4, i)
  BY <1>1
<1> HIDE DEF a, b, c, d
<1> DEFINE e == a \o b
           f == e \o c
           g == f \o d
<1>4. e \in Seq(Inode) /\ \A i \in Inode : Cnt(e, i) = Cnt(a, i) + Cnt(b, i)
  BY <1>3, ConcatProperties, CntConcat
<1> HIDE DEF e
<1>5. f \in Seq(Inode) /\ \A i \in Inode : Cnt(f, i) = Cnt(e, i) + Cnt(c, i)
  BY <1>3, <1>4, ConcatProperties, CntConcat
<1> HIDE DEF f
<1>6. g \in Seq(Inode) /\ \A i \in Inode : Cnt(g, i) = Cnt(f, i) + Cnt(d, i)
  BY <1>3, <1>5, ConcatProperties, CntConcat
<1>7. NonNull(s) = g
  BY <1>2 DEF a, b, c, d, e, f
<1> HIDE DEF g
<1> QED BY <1>3, <1>4, <1>5, <1>6, <1>7

-----------------------------------------------------------------------------
(* Counting in a family of lists.                                          *)

Pointers(lists, i) == Cardinality(PointersTo(lists, i))
Lists(X, S) == [X -> Seq(S)]
Differ(L, M, X, o) == \A x \in X : x # o => M[x] = L[x]

(* It names an inode finitely often, and as often as each list at least.   *)
LEMMA PointersType ==
    ASSUME NEW X, IsFiniteSet(X), NEW S, NEW L, DOMAIN L = X,
           \A x \in X : L[x] \in Seq(S), NEW i
    PROVE  /\ IsFiniteSet(PointersTo(L, i)) /\ Pointers(L, i) \in Nat
           /\ \A x \in X : Cnt(L[x], i) <= Pointers(L, i)
           /\ (\A x \in X : Cnt(L[x], i) = 0) => Pointers(L, i) = 0
<1> DEFINE P == PointersTo(L, i)
<1>1. \A x \in X : IsFiniteSet(Positions(L[x], i)) /\ Cnt(L[x], i) \in Nat
  BY CntType
<1>2. IsFiniteSet(P)
  <2> DEFINE row(x) == {<<x, k>> : k \in Positions(L[x], i)}
             R == {row(x) : x \in X}
             g == [x \in X |-> row(x)]
  <2>1. g \in Surjection(X, R)
    BY DEF Surjection
  <2>2. ASSUME NEW x \in X
        PROVE  IsFiniteSet(row(x))
    <3> DEFINE f == [k \in Positions(L[x], i) |-> <<x, k>>]
    <3>1. f \in Surjection(Positions(L[x], i), row(x))
      BY DEF Surjection
    <3> HIDE DEF f, row
    <3> QED BY <1>1, <3>1, FS_Surjection
  <2>3. IsFiniteSet(R)
    <3> HIDE DEF g, R
    <3> QED BY <2>1, FS_Surjection
  <2>4. IsFiniteSet(UNION R)
    <3>1. \A T \in R : IsFiniteSet(T)
      BY <2>2
    <3> HIDE DEF R
    <3> QED BY <2>3, <3>1, FS_UNION
  <2> QED BY <2>4 DEF PointersTo
<1>3. Pointers(L, i) \in Nat
  BY <1>2, FS_CardinalityType DEF Pointers
<1>4. ASSUME NEW x \in X
      PROVE  Cnt(L[x], i) <= Pointers(L, i)
  <2> DEFINE f == [k \in Positions(L[x], i) |-> <<x, k>>]
  <2>1. f \in Injection(Positions(L[x], i), P)
    BY DEF Injection, IsInjective, PointersTo
  <2> HIDE DEF f, P
  <2>2. Cardinality(Positions(L[x], i)) <= Cardinality(P)
    BY <1>2, <2>1, FS_Injection
  <2> QED BY <2>2 DEF Cnt, Pointers, P
<1>5. ASSUME \A x \in X : Cnt(L[x], i) = 0
      PROVE  Pointers(L, i) = 0
  <2>1. \A x \in X : Positions(L[x], i) = {}
    BY <1>1, <1>5, FS_EmptySet DEF Cnt
  <2>2. P = {}
    BY <2>1 DEF PointersTo
  <2> QED BY <2>2, FS_EmptySet DEF Pointers
<1> QED BY <1>2, <1>3, <1>4, <1>5

(* When one list changes, the family changes as that list does.            *)
LEMMA PointersMoved ==
    ASSUME NEW X, IsFiniteSet(X), NEW S, NEW L \in Lists(X, S), NEW M \in Lists(X, S),
           NEW o \in X, Differ(L, M, X, o), NEW i
    PROVE  Pointers(M, i) = Pointers(L, i) - Cnt(L[o], i) + Cnt(M[o], i)
<1>0. /\ DOMAIN L = X /\ DOMAIN M = X
      /\ \A x \in X : L[x] \in Seq(S) /\ M[x] \in Seq(S)
      /\ \A x \in X : x # o => M[x] = L[x]
  BY DEF Lists, Differ
<1> DEFINE row(K) == {<<o, k>> : k \in Positions(K[o], i)}
           A == UNION {{<<x, k>> : k \in Positions(L[x], i)} : x \in X \ {o}}
           B == row(L)
           C == row(M)
<1>1. PointersTo(L, i) = A \cup B /\ A \cap B = {}
  BY <1>0 DEF PointersTo
<1>2. PointersTo(M, i) = A \cup C /\ A \cap C = {}
  BY <1>0 DEF PointersTo
<1>3. ASSUME NEW K, K[o] \in Seq(S)
      PROVE  IsFiniteSet(row(K)) /\ Cardinality(row(K)) = Cnt(K[o], i)
  <2> DEFINE f == [k \in Positions(K[o], i) |-> <<o, k>>]
  <2>1. f \in Bijection(Positions(K[o], i), row(K))
    BY DEF Bijection, Injection, Surjection, IsInjective
  <2>2. IsFiniteSet(Positions(K[o], i))
    BY <1>3, CntType
  <2> HIDE DEF f, row
  <2>3. IsFiniteSet(row(K)) /\ Cardinality(row(K)) = Cardinality(Positions(K[o], i))
    BY <2>1, <2>2, FS_Bijection DEF ExistsBijection
  <2> QED BY <2>3 DEF Cnt
<1>4. IsFiniteSet(B) /\ Cardinality(B) = Cnt(L[o], i)
      /\ IsFiniteSet(C) /\ Cardinality(C) = Cnt(M[o], i)
  BY <1>0, <1>3
<1>5. IsFiniteSet(PointersTo(L, i))
  BY <1>0, PointersType
<1> HIDE DEF A, B, C
<1>6. IsFiniteSet(A) /\ Cardinality(A) \in Nat
  BY <1>1, <1>5, FS_Subset, FS_CardinalityType
<1>7. Cardinality(A \cup B) = Cardinality(A) + Cardinality(B) - Cardinality(A \cap B)
  BY <1>4, <1>6, FS_Union
<1>8. Cardinality(A \cup C) = Cardinality(A) + Cardinality(C) - Cardinality(A \cap C)
  BY <1>4, <1>6, FS_Union
<1>9. Cardinality(A \cap B) = 0 /\ Cardinality(A \cap C) = 0
  BY <1>1, <1>2, FS_EmptySet
<1>10. Cnt(L[o], i) \in Nat /\ Cnt(M[o], i) \in Nat
  BY <1>0, CntType
<1> QED BY <1>1, <1>2, <1>4, <1>6, <1>7, <1>8, <1>9, <1>10 DEF Pointers

-----------------------------------------------------------------------------
(* Inodes: the inductive invariant.                                        *)

NoneOr == Inode \cup {None}

(* A frame names inodes; a list of entries does, too.                      *)
IsFrame(f) ==
    f \in [todo : {f.todo}, cur : NoneOr, rc : {f.rc}, par : NoneOr, base : {f.base},
           old : NoneOr, oldpar : NoneOr, oldbase : {f.oldbase}]

IsList(s) == \E S : s \in Seq(S) /\ \A e \in S : e.ino \in Inode

UniqueNames(s) == \A j, k \in DOMAIN s : s[j].name = s[k].name => j = k

(* Which of its variables a call uses, by where it is: whatever it has     *)
(* taken a reference to is still named when it comes to give it up.        *)
CallIsSound(at, c, f, fl) ==
    /\ "op" \in DOMAIN c
    /\ c.op = "open" => fl = None
    /\ c.op = "mknod" => c.mode \in {"reg", "chr", "nodev"}
    /\ f.old # None => c.op \in {"link", "rename"}
    /\ c.op # "rename" => f.oldpar = None
    /\ c.op = "rename" => (f.old = None <=> f.oldpar = None)
    /\ at = "idle" => f = NoFrame
    /\ at = "walk" => f.cur # None /\ f.par = None /\ (c.op = "open" => ~c.made)
    /\ at = "found" /\ f.par # None =>
         \/ c.op \in {"mkdir", "mknod", "unlink", "rename", "rmdir"}
         \/ c.op = "open" /\ c.creat /\ ~c.made
         \/ c.op = "link" /\ f.old # None
    /\ at \in {"create", "again"} =>
         /\ f.cur = None /\ f.par # None /\ c.op \in {"mkdir", "mknod", "open"}
         /\ at = "again" => c.op = "open"
    /\ at = "setdev" => f.cur # None /\ f.par = None /\ c.op = "mknod"
    /\ at = "link" => /\ f.old # None /\ f.par # None /\ c.op \in {"link", "rename"}
                      /\ c.op = "link" => f.cur = None
    /\ at = "unlink" => /\ f.par # None /\ f.cur = None /\ f.old = None
                        /\ f.oldpar = None
    /\ at = "empty" => /\ f.cur # None /\ c.op \in {"rmdir", "rename"}
                       /\ c.op = "rmdir" => f.par # None
                       /\ c.op = "rename" => f.old # None
    /\ at = "replace" => f.old # None /\ c.op = "rename"

(* What a call knows of the kinds of the inodes it names: entries are made *)
(* in directories only.                                                    *)
KindsAreKnown(k, at, f) ==
    /\ at = "found" /\ f.cur = None /\ f.par # None /\ f.rc = "ENOENT"
         => k[f.par] = "dir"
    /\ at \in {"create", "again", "link"} => k[f.par] = "dir"
    /\ at = "setdev" => k[f.cur] # "dir"

IsFamily(g) == g = [p \in InodeProcess |-> g[p]]

Kinds == {"free", "dir", "reg", "chr", "nodev"}

TreeTypes ==
    /\ kind \in [Inode -> Kinds] /\ ref \in [Inode -> Nat] /\ links \in [Inode -> Nat]
    /\ debt \in [Inode -> Nat]
    /\ DOMAIN kids = Inode /\ \A d \in Inode : IsList(kids[d])
    /\ file \in [InodeProcess -> NoneOr] /\ drop \in [InodeProcess -> Seq(Inode)]
    /\ IsFamily(fr) /\ IsFamily(cwd) /\ IsFamily(inodePc) /\ IsFamily(call)
    /\ \A p \in InodeProcess : IsFrame(fr[p]) /\ cwd[p].ino \in Inode

TreeInv ==
    /\ TreeTypes /\ CountsAreExact /\ NamesAreUnique /\ InodeAsserts
    /\ \A p \in InodeProcess :
          /\ CallIsSound(inodePc[p], call[p], fr[p], file[p])
          /\ KindsAreKnown(kind, inodePc[p], fr[p])

-----------------------------------------------------------------------------
(* What a process holds, and how often.                                    *)

Hold(f, fl, w, dr) == <<f.cur, f.par, f.old, f.oldpar, fl, w>> \o dr

Mine(f, fl, w, i) == One(f.cur, i) + One(f.par, i) + One(f.old, i)
                       + One(f.oldpar, i) + One(fl, i) + One(w, i)

(* A pointer counts once at most, and a null pointer never.                *)
LEMMA OneType ==
    /\ \A x, i : One(x, i) \in Nat
    /\ \A i \in Inode : One(None, i) = 0
BY DEF One, None, Inode

(* A null pointer is no inode.                                             *)
LEMMA OneFacts ==
    /\ \A x, i : One(x, i) \in {0, 1} /\ (One(x, i) = 1 <=> x = i)
    /\ \A i \in Inode : One(None, i) = 0
    /\ None \notin Inode
BY DEF One, None, Inode

(* What the variables of a process name is counted.                        *)
LEMMA MineType ==
    ASSUME NEW f, NEW fl, NEW w, NEW i
    PROVE  /\ Mine(f, fl, w, i) \in Nat
           /\ i \in {f.cur, f.par, f.old, f.oldpar, fl, w} => Mine(f, fl, w, i) > 0
BY DEF Mine, One

(* The list of what a process holds counts its variables and its queue.    *)
LEMMA HoldFacts ==
    ASSUME NEW f, IsFrame(f), NEW fl \in NoneOr, NEW w \in Inode, NEW dr \in Seq(Inode)
    PROVE  /\ Hold(f, fl, w, dr) \in Seq(NoneOr)
           /\ \A i : Cnt(Hold(f, fl, w, dr), i) = Mine(f, fl, w, i) + Cnt(dr, i)
<1> DEFINE a == f.cur
           b == f.par
           c == f.old
           d == f.oldpar
           s == <<a, b, c, d>>
           t == <<fl, w>>
           u == s \o t
<1>1. a \in NoneOr /\ b \in NoneOr /\ c \in NoneOr /\ d \in NoneOr /\ w \in NoneOr
  BY DEF IsFrame, NoneOr
<1>2. s \in Seq(NoneOr) /\ t \in Seq(NoneOr) /\ dr \in Seq(NoneOr)
  <2>1. Inode \subseteq NoneOr
    BY DEF NoneOr
  <2>2. dr \in Seq(NoneOr)
    BY <2>1, SeqMonotonic
  <2> HIDE DEF a, b, c, d
  <2> QED BY <1>1, <2>2
<1>3. <<a, b, c, d, fl, w>> = u
  <2> DEFINE v == <<a, b, c, d, fl, w>>
  <2> HIDE DEF a, b, c, d
  <2>1. v \in Seq(NoneOr) /\ Len(v) = 6 /\ u \in Seq(NoneOr) /\ Len(u) = 6
    BY <1>1, <1>2
  <2>2. ASSUME NEW n \in 1..6
        PROVE  v[n] = u[n]
    OBVIOUS
  <2> HIDE DEF v, u
  <2>3. v = u
    BY <2>1, <2>2, SeqEqual
  <2> QED BY <2>3 DEF v
<1> HIDE DEF s, t
<1>4. u \in Seq(NoneOr)
  BY <1>2, ConcatProperties
<1>5. Hold(f, fl, w, dr) = u \o dr
  BY <1>3 DEF Hold
<1>6. ASSUME NEW i
      PROVE  Cnt(u \o dr, i) = Mine(f, fl, w, i) + Cnt(dr, i)
  <2>1. Cnt(u, i) = Cnt(s, i) + Cnt(t, i)
    BY <1>2, CntConcat
  <2> HIDE DEF u
  <2>2. Cnt(u \o dr, i) = Cnt(u, i) + Cnt(dr, i)
    BY <1>2, <1>4, CntConcat
  <2>3. Cnt(s, i) = One(a, i) + One(b, i) + One(c, i) + One(d, i)
    <3> HIDE DEF a, b, c, d
    <3>1. Cnt(<<a, b, c, d>>, i) = One(a, i) + One(b, i) + One(c, i) + One(d, i)
      BY CntFour
    <3> QED BY <3>1 DEF s
  <2>4. Cnt(t, i) = One(fl, i) + One(w, i)
    BY CntTwo DEF t
  <2>5. Cnt(dr, i) \in Nat
    BY CntType
  <2>6. /\ One(f.cur, i) \in Nat /\ One(f.par, i) \in Nat /\ One(f.old, i) \in Nat
        /\ One(f.oldpar, i) \in Nat /\ One(fl, i) \in Nat /\ One(w, i) \in Nat
    BY DEF One
  <2> QED BY <2>1, <2>2, <2>3, <2>4, <2>5, <2>6 DEF Mine
<1>7. u \o dr \in Seq(NoneOr)
  BY <1>2, <1>4, ConcatProperties
<1> QED BY <1>5, <1>6, <1>7

(* The inodes of a list of entries.                                        *)
Inos(s) == [k \in DOMAIN s |-> s[k].ino]
Kid(s, i) == Cnt(Inos(s), i)

(* A list of entries is a list of inodes, and each of them is counted.     *)
LEMMA InosFacts ==
    ASSUME NEW s, IsList(s)
    PROVE  /\ Inos(s) \in Seq(Inode) /\ Len(Inos(s)) = Len(s)
           /\ Len(s) \in Nat /\ DOMAIN s = 1..Len(s)
           /\ \A k \in DOMAIN s : s[k].ino \in Inode
           /\ \A i : Kid(s, i) \in Nat
           /\ \A k \in DOMAIN s : Kid(s, s[k].ino) > 0
<1>1. PICK S : s \in Seq(S) /\ \A e \in S : e.ino \in Inode
  BY DEF IsList
<1>2. Len(s) \in Nat /\ DOMAIN s = 1..Len(s) /\ \A k \in DOMAIN s : s[k] \in S
  BY <1>1, LenProperties
<1>3. Inos(s) \in Seq(Inode) /\ Len(Inos(s)) = Len(s)
  BY <1>1, <1>2 DEF Inos
<1>4. ASSUME NEW i
      PROVE  /\ Cnt(Inos(s), i) \in Nat
             /\ \A k \in DOMAIN Inos(s) : Inos(s)[k] = i => Cnt(Inos(s), i) > 0
  BY <1>3, CntType
<1>5. DOMAIN Inos(s) = DOMAIN s /\ \A k \in DOMAIN s : Inos(s)[k] = s[k].ino
  BY DEF Inos
<1> QED BY <1>1, <1>2, <1>3, <1>4, <1>5 DEF Kid

(* What boot leaves is referenced for ever.                                *)
LEMMA StaticFacts ==
    /\ {Root, DirD, Host, Guest, Device, FileA} \subseteq Inode
    /\ \A i : StaticRefs(i) = One(Root, i) + One(Host, i) + One(Guest, i) + One(Device, i)
    /\ \A i : FindMountedGuest(i) = IF i = Host THEN Guest ELSE i
<1>1. {Root, DirD, Host, Guest, Device, FileA} \subseteq Inode
  BY InodesAssumption DEF Root, DirD, Host, Guest, Device, FileA, Inode
<1>2. ASSUME NEW i
      PROVE  /\ {m \in MountPoints : m[1] = i} = IF i = Host THEN {<<Host, Guest>>} ELSE {}
             /\ {m \in MountPoints : m[2] = i} = IF i = Guest THEN {<<Host, Guest>>} ELSE {}
  BY DEF MountPoints
<1>3. Cardinality({<<Host, Guest>>}) = 1 /\ Cardinality({}) = 0
  BY FS_Singleton, FS_EmptySet
<1>4. ASSUME NEW i
      PROVE  MountRefs(i) = One(Host, i) + One(Guest, i)
  <2>1. Cardinality({m \in MountPoints : m[1] = i}) = IF i = Host THEN 1 ELSE 0
    BY <1>2, <1>3
  <2>2. Cardinality({m \in MountPoints : m[2] = i}) = IF i = Guest THEN 1 ELSE 0
    BY <1>2, <1>3
  <2> QED BY <2>1, <2>2 DEF MountRefs, One
<1>5. ASSUME NEW i
      PROVE  StaticRefs(i) = One(Root, i) + One(Host, i) + One(Guest, i) + One(Device, i)
  BY <1>4 DEF StaticRefs, One
<1>6. ASSUME NEW i
      PROVE  FindMountedGuest(i) = IF i = Host THEN Guest ELSE i
  <2>1. (\E m \in MountPoints : m[1] = i) <=> i = Host
    BY DEF MountPoints
  <2>2. i = Host => (CHOOSE m \in MountPoints : m[1] = i) = <<Host, Guest>>
    BY DEF MountPoints
  <2>3. <<Host, Guest>>[2] = Guest
    OBVIOUS
  <2>4. CASE i = Host
    BY <2>1, <2>2, <2>3, <2>4, Zenon DEF FindMountedGuest
  <2>5. CASE i # Host
    BY <2>1, <2>5, Zenon DEF FindMountedGuest
  <2> QED BY <2>4, <2>5
<1> QED BY <1>1, <1>5, <1>6

(* The pointers that the invariant counts.                                 *)
LEMMA CountFacts ==
    ASSUME TreeInv
    PROVE  /\ DOMAIN Held = InodeProcess /\ DOMAIN Entries = Inode
           /\ IsFiniteSet(InodeProcess) /\ IsFiniteSet(Inode)
           /\ \A p \in InodeProcess :
                 /\ Held[p] = Hold(fr[p], file[p], cwd[p].ino, drop[p])
                 /\ Held[p] \in Seq(NoneOr)
                 /\ \A i : Cnt(Held[p], i)
                             = Mine(fr[p], file[p], cwd[p].ino, i) + Cnt(drop[p], i)
           /\ \A d \in Inode : Entries[d] = Inos(kids[d]) /\ Entries[d] \in Seq(Inode)
           /\ \A i \in Inode : /\ Pointers(Held, i) \in Nat /\ Pointers(Entries, i) \in Nat
                               /\ \A p \in InodeProcess : Cnt(Held[p], i) <= Pointers(Held, i)
                               /\ \A d \in Inode : Kid(kids[d], i) <= Pointers(Entries, i)
<1>1. IsFiniteSet(InodeProcess) /\ IsFiniteSet(Inode)
  BY InodesAssumption, FS_Interval DEF Inode
<1>2. DOMAIN Held = InodeProcess /\ DOMAIN Entries = Inode
  BY DEF Held, Entries
<1>3. ASSUME NEW p \in InodeProcess
      PROVE  /\ Held[p] = Hold(fr[p], file[p], cwd[p].ino, drop[p])
             /\ Held[p] \in Seq(NoneOr)
             /\ \A i : Cnt(Held[p], i)
                         = Mine(fr[p], file[p], cwd[p].ino, i) + Cnt(drop[p], i)
  <2>1. /\ IsFrame(fr[p]) /\ file[p] \in NoneOr /\ cwd[p].ino \in Inode
        /\ drop[p] \in Seq(Inode)
    BY DEF TreeInv, TreeTypes
  <2>2. Held[p] = Hold(fr[p], file[p], cwd[p].ino, drop[p])
    BY DEF Held, Hold
  <2> QED BY <2>1, <2>2, HoldFacts
<1>4. ASSUME NEW d \in Inode
      PROVE  Entries[d] = Inos(kids[d]) /\ Entries[d] \in Seq(Inode)
  <2>1. Entries[d] = Inos(kids[d])
    BY DEF Entries, Inos, Children
  <2>2. IsList(kids[d])
    BY DEF TreeInv, TreeTypes
  <2> QED BY <2>1, <2>2, InosFacts
<1>5. ASSUME NEW i \in Inode
      PROVE  /\ Pointers(Held, i) \in Nat
             /\ \A p \in InodeProcess : Cnt(Held[p], i) <= Pointers(Held, i)
  BY <1>1, <1>2, <1>3, PointersType
<1>6. ASSUME NEW i \in Inode
      PROVE  /\ Pointers(Entries, i) \in Nat
             /\ \A d \in Inode : Cnt(Entries[d], i) <= Pointers(Entries, i)
  BY <1>1, <1>2, <1>4, PointersType
<1> QED BY <1>1, <1>2, <1>3, <1>4, <1>5, <1>6 DEF Kid

(* What is referenced is alive, and so is what has a name.                 *)
LEMMA Alive ==
    ASSUME TreeInv, NEW i \in Inode
    PROVE  /\ ref[i] = StaticRefs(i) + Pointers(Entries, i) + Pointers(Held, i) + debt[i]
           /\ links[i] = Pointers(Entries, i)
           /\ kind[i] = "free" => ref[i] = 0
           /\ \A p \in InodeProcess :
                 Mine(fr[p], file[p], cwd[p].ino, i) + Cnt(drop[p], i) > 0
                    => ref[i] > 0 /\ kind[i] # "free"
           /\ \A d \in Inode : Kid(kids[d], i) > 0
                    => ref[i] > 0 /\ kind[i] # "free" /\ links[i] > 0
           /\ StaticRefs(i) > 0 => ref[i] > 0 /\ kind[i] # "free"
           /\ ref[i] \in Nat /\ links[i] \in Nat /\ debt[i] \in Nat /\ StaticRefs(i) \in Nat
           /\ Pointers(Entries, i) \in Nat /\ Pointers(Held, i) \in Nat
<1>1. /\ ref[i] = StaticRefs(i) + Pointers(Entries, i) + Pointers(Held, i) + debt[i]
      /\ links[i] = Pointers(Entries, i) /\ (kind[i] = "free" => ref[i] = 0)
  BY DEF TreeInv, CountsAreExact, Pointers
<1>2. ref[i] \in Nat /\ links[i] \in Nat /\ debt[i] \in Nat
  BY DEF TreeInv, TreeTypes
<1>3. StaticRefs(i) \in Nat
  BY StaticFacts DEF One
<1>4. /\ Pointers(Held, i) \in Nat /\ Pointers(Entries, i) \in Nat
      /\ \A p \in InodeProcess :
            Mine(fr[p], file[p], cwd[p].ino, i) + Cnt(drop[p], i) <= Pointers(Held, i)
      /\ \A d \in Inode : Kid(kids[d], i) <= Pointers(Entries, i)
  BY CountFacts
<1>5. ASSUME NEW p \in InodeProcess
      PROVE  Mine(fr[p], file[p], cwd[p].ino, i) + Cnt(drop[p], i) \in Nat
  <2>1. drop[p] \in Seq(Inode)
    BY DEF TreeInv, TreeTypes
  <2>2. Cnt(drop[p], i) \in Nat
    BY <2>1, CntType
  <2> QED BY <2>2 DEF Mine, One
<1>6. ASSUME NEW d \in Inode
      PROVE  Kid(kids[d], i) \in Nat
  BY InosFacts DEF TreeInv, TreeTypes
<1> HIDE DEF Mine, Kid, Pointers, StaticRefs, Held, Entries
<1> QED BY <1>1, <1>2, <1>3, <1>4, <1>5, <1>6

-----------------------------------------------------------------------------
(* Inodes: what a step must show.                                          *)

Put(g, h, p, x) == h = [q \in InodeProcess |-> IF q = p THEN x ELSE g[q]]

(* A step changes one process's variable and leaves the others.            *)
LEMMA PutFacts ==
    ASSUME NEW g, IsFamily(g), NEW p \in InodeProcess, NEW x
    PROVE  /\ Put(g, [g EXCEPT ![p] = x], p, x)
           /\ Put(g, g, p, g[p])
           /\ \A h : Put(g, h, p, x) => h[p] = x /\ IsFamily(h)
<1>1. DOMAIN g = InodeProcess
  BY DEF IsFamily
<1>2. Put(g, [g EXCEPT ![p] = x], p, x)
  BY <1>1 DEF Put
<1>3. Put(g, g, p, g[p])
  BY DEF Put, IsFamily
<1>4. ASSUME NEW h, Put(g, h, p, x)
      PROVE  h[p] = x /\ IsFamily(h)
  BY <1>4 DEF Put, IsFamily
<1> QED BY <1>2, <1>3, <1>4

(* What p's variables become in a step, and what becomes of the entries of *)
(* one directory.                                                          *)
Becomes(p, f, fl, w, at, c) ==
    /\ IsFrame(f) /\ fl \in NoneOr /\ w.ino \in Inode
    /\ CallIsSound(at, c, f, fl) /\ KindsAreKnown(kind', at, f)
    /\ Put(fr, fr', p, f) /\ Put(file, file', p, fl) /\ Put(cwd, cwd', p, w)
    /\ Put(inodePc, inodePc', p, at) /\ Put(call, call', p, c)

OnlyKidsOf(o) ==
    /\ DOMAIN kids' = Inode /\ IsList(kids'[o]) /\ UniqueNames(kids'[o])
    /\ kids'[o] # <<>> => kind'[o] = "dir"
    /\ \A d \in Inode : d # o => /\ kids'[d] = kids[d]
                                 /\ kind'[d] = "free" => kind[d] = "free"

(* The counters follow the pointers.                                       *)
Moves(p, f, fl, w, dr, o) ==
    \A i \in Inode :
       /\ links'[i] = links[i] + Kid(kids'[o], i) - Kid(kids[o], i)
       /\ ref'[i] - debt'[i]
             = ref[i] - debt[i] + Kid(kids'[o], i) - Kid(kids[o], i)
                 + (Mine(f, fl, w.ino, i) + Cnt(dr, i))
                 - (Mine(fr[p], file[p], cwd[p].ino, i) + Cnt(drop[p], i))
       /\ kind'[i] = "free" => ref'[i] = 0
       /\ kind[i] # "free" /\ kind'[i] # "free" => (kind'[i] = "dir" <=> kind[i] = "dir")

(* A step of p changes what p holds, and the entries of one directory; the *)
(* counters follow.                                                        *)
LEMMA CountsFollow ==
    ASSUME NEW a \in Nat, NEW b \in Nat, NEW x \in Nat, NEW y \in Nat, NEW E \in Nat,
           NEW F \in Nat, NEW G \in Nat, NEW H \in Nat, NEW z \in Nat, NEW r \in Nat,
           NEW s \in Nat, NEW t \in Nat, NEW u \in Nat, NEW v \in Nat, NEW l \in Nat,
           F = E - x + y, H = G - a + b, u = z + E + G + v, l = E,
           t = l + y - x, r - s = u - v + y - x + b - a
    PROVE  t = F /\ r = z + F + H + s
OBVIOUS

(* The invariant after a step that changes what p holds and the entries of *)
(* one directory, when the counters follow.                                *)
LEMMA TreeStep ==
    ASSUME TreeInv, NEW p \in InodeProcess, NEW f, NEW fl, NEW w, NEW at, NEW c,
           Becomes(p, f, fl, w, at, c), NEW dr \in Seq(Inode), Put(drop, drop', p, dr),
           kind' \in [Inode -> Kinds], ref' \in [Inode -> Nat], links' \in [Inode -> Nat],
           debt' \in [Inode -> Nat], stopped' = stopped,
           NEW o \in Inode, OnlyKidsOf(o), Moves(p, f, fl, w, dr, o)
    PROVE  TreeInv'
<1>0. /\ IsFrame(f) /\ fl \in NoneOr /\ w.ino \in Inode
      /\ CallIsSound(at, c, f, fl) /\ KindsAreKnown(kind', at, f)
      /\ Put(fr, fr', p, f) /\ Put(file, file', p, fl) /\ Put(cwd, cwd', p, w)
      /\ Put(inodePc, inodePc', p, at) /\ Put(call, call', p, c)
      /\ DOMAIN kids' = Inode /\ IsList(kids'[o]) /\ UniqueNames(kids'[o])
      /\ kids'[o] # <<>> => kind'[o] = "dir"
      /\ \A d \in Inode : d # o => /\ kids'[d] = kids[d]
                                   /\ kind'[d] = "free" => kind[d] = "free"
      /\ \A i \in Inode :
            /\ links'[i] = links[i] + Kid(kids'[o], i) - Kid(kids[o], i)
            /\ ref'[i] - debt'[i]
                  = ref[i] - debt[i] + Kid(kids'[o], i) - Kid(kids[o], i)
                      + (Mine(f, fl, w.ino, i) + Cnt(dr, i))
                      - (Mine(fr[p], file[p], cwd[p].ino, i) + Cnt(drop[p], i))
            /\ kind'[i] = "free" => ref'[i] = 0
            /\ kind[i] # "free" /\ kind'[i] # "free" => (kind'[i] = "dir" <=> kind[i] = "dir")
  BY DEF Becomes, OnlyKidsOf, Moves
<1>1. TreeTypes'
  <2>1. \A d \in Inode : IsList(kids'[d])
    BY <1>0 DEF TreeInv, TreeTypes
  <2>2. file' \in [InodeProcess -> NoneOr] /\ drop' \in [InodeProcess -> Seq(Inode)]
    BY <1>0 DEF TreeInv, TreeTypes, Put
  <2>3. IsFamily(fr') /\ IsFamily(cwd') /\ IsFamily(inodePc') /\ IsFamily(call')
    BY <1>0 DEF Put, IsFamily
  <2>4. ASSUME NEW q \in InodeProcess
        PROVE  IsFrame(fr'[q]) /\ cwd'[q].ino \in Inode
    <3>1. CASE q = p
      BY <1>0, <3>1 DEF Put
    <3>2. CASE q # p
      BY <1>0, <3>2 DEF Put, TreeInv, TreeTypes
    <3> QED BY <1>0, <3>1, <3>2
  <2> QED BY <1>0, <2>1, <2>2, <2>3, <2>4 DEF TreeTypes
<1>2. /\ Entries[o] = Inos(kids[o]) /\ Entries'[o] = Inos(kids'[o])
      /\ DOMAIN Entries = Inode /\ DOMAIN Entries' = Inode
      /\ \A d \in Inode : /\ Entries[d] \in Seq(Inode) /\ Entries'[d] \in Seq(Inode)
                          /\ d # o => Entries'[d] = Entries[d]
  <2>1. \A d \in Inode : IsList(kids[d]) /\ IsList(kids'[d])
    BY <1>0, <1>1 DEF TreeInv, TreeTypes
  <2>2. DOMAIN Entries = Inode /\ DOMAIN Entries' = Inode
    BY <1>0 DEF Entries
  <2>3. ASSUME NEW d \in Inode
        PROVE  Entries[d] = Inos(kids[d]) /\ Entries'[d] = Inos(kids'[d])
    BY <1>0 DEF Entries, Inos, Children
  <2>4. \A d \in Inode : d # o => kids'[d] = kids[d]
    BY <1>0
  <2>5. \A d \in Inode : Inos(kids[d]) \in Seq(Inode) /\ Inos(kids'[d]) \in Seq(Inode)
    BY ONLY <2>1, InosFacts
  <2> QED BY ONLY <2>2, <2>3, <2>4, <2>5, o \in Inode
<1>3. /\ DOMAIN Held = InodeProcess /\ DOMAIN Held' = InodeProcess
      /\ Held'[p] = Hold(f, fl, w.ino, dr)
      /\ \A q \in InodeProcess : /\ Held[q] \in Seq(NoneOr) /\ Held'[q] \in Seq(NoneOr)
                                 /\ q # p => Held'[q] = Held[q]
  <2>1. DOMAIN Held = InodeProcess /\ DOMAIN Held' = InodeProcess
    BY <1>0 DEF Held
  <2>2. Held'[p] = Hold(f, fl, w.ino, dr)
    BY <1>0 DEF Held, Hold, Put
  <2>3. Held'[p] \in Seq(NoneOr)
    BY <1>0, <2>2, HoldFacts
  <2>4. \A q \in InodeProcess : q # p => Held'[q] = Held[q]
    BY <1>0 DEF Held, Put
  <2>5. \A q \in InodeProcess : Held[q] \in Seq(NoneOr)
    BY <1>0, CountFacts
  <2> QED BY <1>0, <2>1, <2>2, <2>3, <2>4, <2>5
<1>4. IsFiniteSet(InodeProcess) /\ IsFiniteSet(Inode)
  BY <1>0, CountFacts
<1>5. ASSUME NEW i \in Inode
      PROVE  /\ Pointers(Entries', i) \in Nat /\ Pointers(Held', i) \in Nat
             /\ Pointers(Entries', i) = Pointers(Entries, i) - Kid(kids[o], i) + Kid(kids'[o], i)
             /\ Pointers(Held', i)
                   = Pointers(Held, i) - (Mine(fr[p], file[p], cwd[p].ino, i) + Cnt(drop[p], i))
                       + (Mine(f, fl, w.ino, i) + Cnt(dr, i))
             /\ \A q \in InodeProcess : Cnt(Held'[q], i) <= Pointers(Held', i)
  <2>1. Pointers(Entries', i) \in Nat
    BY <1>0, <1>2, <1>4, PointersType
  <2>2. /\ Pointers(Held', i) \in Nat
        /\ \A q \in InodeProcess : Cnt(Held'[q], i) <= Pointers(Held', i)
    BY <1>0, <1>3, <1>4, PointersType
  <2>3. Pointers(Entries', i) = Pointers(Entries, i) - Cnt(Entries[o], i) + Cnt(Entries'[o], i)
    <3>1. Entries \in Lists(Inode, Inode)
      BY <1>0, <1>2 DEF Entries, Lists
    <3>2. Entries' \in Lists(Inode, Inode)
      BY <1>0, <1>2 DEF Entries, Lists
    <3>3. Differ(Entries, Entries', Inode, o)
      BY <1>0, <1>2 DEF Differ
    <3> QED BY ONLY <1>4, <3>1, <3>2, <3>3, PointersMoved, o \in Inode
  <2>4. Pointers(Held', i) = Pointers(Held, i) - Cnt(Held[p], i) + Cnt(Held'[p], i)
    <3>1. Held \in Lists(InodeProcess, NoneOr)
      BY <1>0, <1>3 DEF Held, Lists
    <3>2. Held' \in Lists(InodeProcess, NoneOr)
      BY <1>0, <1>3 DEF Held, Lists
    <3>3. Differ(Held, Held', InodeProcess, p)
      BY <1>0, <1>3 DEF Differ
    <3> QED BY ONLY <1>4, <3>1, <3>2, <3>3, PointersMoved, p \in InodeProcess
  <2>5. Cnt(Held[p], i) = Mine(fr[p], file[p], cwd[p].ino, i) + Cnt(drop[p], i)
    BY <1>0, CountFacts
  <2>6. Cnt(Held'[p], i) = Mine(f, fl, w.ino, i) + Cnt(dr, i)
    BY <1>0, <1>3, HoldFacts
  <2> QED BY <1>0, <1>2, <2>1, <2>2, <2>3, <2>4, <2>5, <2>6 DEF Kid
<1>6. ASSUME NEW i \in Inode
      PROVE  /\ links'[i] = Pointers(Entries', i)
             /\ ref'[i] = StaticRefs(i) + Pointers(Entries', i) + Pointers(Held', i) + debt'[i]
  <2> DEFINE a == Mine(fr[p], file[p], cwd[p].ino, i) + Cnt(drop[p], i)
             b == Mine(f, fl, w.ino, i) + Cnt(dr, i)
             x == Kid(kids[o], i)
             y == Kid(kids'[o], i)
             E == Pointers(Entries, i)
             F == Pointers(Entries', i)
             G == Pointers(Held, i)
             H == Pointers(Held', i)
             z == StaticRefs(i)
             r == ref'[i]
             s == debt'[i]
             t == links'[i]
             u == ref[i]
             v == debt[i]
             l == links[i]
  <2>1. /\ E \in Nat /\ F \in Nat /\ G \in Nat /\ H \in Nat /\ z \in Nat
        /\ r \in Nat /\ s \in Nat /\ t \in Nat
        /\ u \in Nat /\ v \in Nat /\ l \in Nat
    BY <1>0, <1>5, Alive
  <2>2. x \in Nat /\ y \in Nat
    BY <1>0, <1>1, InosFacts DEF TreeInv, TreeTypes
  <2>3. a \in Nat /\ b \in Nat
    <3>1. drop[p] \in Seq(Inode)
      BY <1>0 DEF TreeInv, TreeTypes
    <3>2. Cnt(drop[p], i) \in Nat /\ Cnt(dr, i) \in Nat
      BY <1>0, <3>1, CntType
    <3>3. /\ Mine(fr[p], file[p], cwd[p].ino, i) \in Nat
          /\ Mine(f, fl, w.ino, i) \in Nat
      BY <1>0, MineType
    <3> QED BY ONLY <3>2, <3>3
  <2>4. F = E - x + y /\ H = G - a + b
    BY <1>0, <1>5
  <2>5. u = z + E + G + v /\ l = E
    BY <1>0, Alive
  <2>6. t = l + y - x /\ r - s = u - v + y - x + b - a
    BY <1>0
  <2> HIDE DEF a, b, x, y, E, F, G, H, z, r, s, t, u, v, l
  <2>7. t = F /\ r = z + F + H + s
    BY ONLY <2>1, <2>2, <2>3, <2>4, <2>5, <2>6, CountsFollow
  <2> QED BY <1>0, <2>7 DEF F, H, z, r, s, t
<1>7. CountsAreExact'
  <2>1. \A i \in Inode : kind'[i] = "free" => ref'[i] = 0
    BY <1>0
  <2> QED BY <1>0, <1>6, <2>1 DEF CountsAreExact, Pointers, StaticRefs, MountRefs
<1>8. NamesAreUnique'
  <2>1. ASSUME NEW d \in Inode
        PROVE  UniqueNames(kids'[d]) /\ (kids'[d] # <<>> => kind'[d] = "dir")
    <3>1. CASE d # o
      <4>1. UniqueNames(kids[d]) /\ (kids[d] # <<>> => kind[d] = "dir")
        BY <1>0 DEF TreeInv, NamesAreUnique, UniqueNames
      <4>2. kids'[d] = kids[d] /\ (kind'[d] = "free" => kind[d] = "free")
        BY <1>0, <3>1
      <4>3. kind[d] # "free" /\ kind'[d] # "free" => (kind'[d] = "dir" <=> kind[d] = "dir")
        BY <1>0
      <4> QED BY <1>0, <4>1, <4>2, <4>3
    <3> QED BY <1>0, <3>1
  <2> QED BY <1>0, <2>1 DEF NamesAreUnique, UniqueNames
<1>9. InodeAsserts'
  BY <1>0 DEF TreeInv, InodeAsserts
<1>10. ASSUME NEW q \in InodeProcess
       PROVE  /\ CallIsSound(inodePc'[q], call'[q], fr'[q], file'[q])
              /\ KindsAreKnown(kind', inodePc'[q], fr'[q])
  <2>1. CASE q = p
    BY <1>0, <2>1 DEF Put
  <2>2. CASE q # p
    <3>1. /\ inodePc'[q] = inodePc[q] /\ call'[q] = call[q] /\ fr'[q] = fr[q]
          /\ file'[q] = file[q] /\ cwd'[q] = cwd[q] /\ drop'[q] = drop[q]
      BY <1>0, <2>2 DEF Put
    <3>2. CallIsSound(inodePc[q], call[q], fr[q], file[q]) /\ KindsAreKnown(kind, inodePc[q], fr[q])
      BY <1>0 DEF TreeInv
    <3>3. ASSUME NEW i \in Inode, i \in {fr[q].cur, fr[q].par}
          PROVE  kind'[i] = "dir" <=> kind[i] = "dir"
      <4>1. Mine(fr[q], file[q], cwd[q].ino, i) > 0
        BY <1>0, <3>3, MineType
      <4>2. drop[q] \in Seq(Inode)
        BY <1>0 DEF TreeInv, TreeTypes
      <4>3. Cnt(drop[q], i) \in Nat
        BY <1>0, <4>2, CntType
      <4>4. Mine(fr[q], file[q], cwd[q].ino, i) \in Nat
        BY <1>0, MineType
      <4>5. Mine(fr[q], file[q], cwd[q].ino, i) + Cnt(drop[q], i) > 0
        BY <1>0, <4>1, <4>3, <4>4
      <4>6. kind[i] # "free"
        BY <1>0, <4>5, Alive
      <4>7. Cnt(Held'[q], i) > 0
        <5>1. Held'[q] = Held[q]
          BY <1>0, <1>3, <2>2
        <5>2. Cnt(Held[q], i) = Mine(fr[q], file[q], cwd[q].ino, i) + Cnt(drop[q], i)
          BY <1>0, CountFacts
        <5> QED BY <1>0, <4>5, <5>1, <5>2
      <4>8. ref'[i] > 0
        <5> DEFINE z == StaticRefs(i)
                   F == Pointers(Entries', i)
                   H == Pointers(Held', i)
                   h == Cnt(Held'[q], i)
        <5>1. z \in Nat /\ F \in Nat /\ H \in Nat /\ debt'[i] \in Nat /\ h <= H
          BY <1>0, <1>5, Alive
        <5>2. h \in Nat
          BY <1>0, <1>3, CntType
        <5>3. ref'[i] = z + F + H + debt'[i] /\ h > 0
          BY <1>0, <1>6, <4>7
        <5> HIDE DEF z, F, H, h
        <5> QED BY <1>0, <5>1, <5>2, <5>3
      <4>9. kind'[i] # "free"
        BY <1>0, <4>8
      <4> QED BY <1>0, <4>6, <4>9
    <3>4. fr[q].par \in NoneOr /\ fr[q].cur \in NoneOr
      BY <1>0 DEF TreeInv, TreeTypes, IsFrame
    <3>5. KindsAreKnown(kind', inodePc[q], fr[q])
      <4>1. fr[q].par # None => (kind'[fr[q].par] = "dir" <=> kind[fr[q].par] = "dir")
        BY <1>0, <3>3, <3>4 DEF NoneOr
      <4>2. fr[q].cur # None => (kind'[fr[q].cur] = "dir" <=> kind[fr[q].cur] = "dir")
        BY <1>0, <3>3, <3>4 DEF NoneOr
      <4> QED BY <1>0, <3>2, <4>1, <4>2 DEF KindsAreKnown, CallIsSound
    <3> QED BY <1>0, <3>1, <3>2, <3>5
  <2> QED BY <1>0, <2>1, <2>2
<1> QED BY <1>0, <1>1, <1>7, <1>8, <1>9, <1>10 DEF TreeInv

(* What a step hands to inode_unref(), as four pointers.                   *)
Gave(p, a, b, g, d) ==
    \E dr \in Seq(Inode) :
       /\ Put(drop, drop', p, dr)
       /\ \A i \in Inode : Cnt(dr, i) = One(a, i) + One(b, i) + One(g, i) + One(d, i)

(* What GiveUp() queues, for one to four pointers.                         *)
LEMMA GaveFacts ==
    ASSUME TreeInv, NEW p \in InodeProcess, drop[p] = <<>>,
           NEW a \in NoneOr, NEW b \in NoneOr, NEW g \in NoneOr, NEW d \in NoneOr
    PROVE  /\ drop' = drop => Gave(p, None, None, None, None)
           /\ GiveUp(p, <<a>>) => Gave(p, a, None, None, None)
           /\ GiveUp(p, <<a, b>>) => Gave(p, a, b, None, None)
           /\ GiveUp(p, <<a, b, g>>) => Gave(p, a, b, g, None)
           /\ GiveUp(p, <<a, b, g, d>>) => Gave(p, a, b, g, d)
<1>1. IsFamily(drop)
  BY DEF TreeInv, TreeTypes, IsFamily
<1>2. ASSUME NEW s \in Seq(NoneOr), GiveUp(p, s)
      PROVE  /\ NonNull(s) \in Seq(Inode) /\ Put(drop, drop', p, NonNull(s))
             /\ \A i \in Inode : Cnt(NonNull(s), i)
                  = Weight(s, 1, i) + Weight(s, 2, i) + Weight(s, 3, i) + Weight(s, 4, i)
  <2>1. /\ NonNull(s) \in Seq(Inode)
        /\ \A i \in Inode : Cnt(NonNull(s), i)
             = Weight(s, 1, i) + Weight(s, 2, i) + Weight(s, 3, i) + Weight(s, 4, i)
    BY NonNullFacts DEF NoneOr
  <2>2. <<>> \o NonNull(s) = NonNull(s)
    BY <2>1, ConcatEmptySeq
  <2>3. drop' = [drop EXCEPT ![p] = NonNull(s)]
    BY <1>2, <2>2 DEF GiveUp
  <2>4. Put(drop, drop', p, NonNull(s))
    BY <1>1, <2>3, PutFacts
  <2> QED BY <2>1, <2>4
<1>3. \A i \in Inode : One(None, i) = 0
  BY OneFacts
<1>4. ASSUME drop' = drop
      PROVE  Gave(p, None, None, None, None)
  <2>1. Put(drop, drop', p, <<>>)
    BY <1>1, <1>4 DEF Put, IsFamily
  <2>2. ASSUME NEW i \in Inode
        PROVE  Cnt(<<>>, i) = One(None, i) + One(None, i) + One(None, i) + One(None, i)
    BY <1>3, CntNone
  <2> DEFINE s == <<>>
  <2>3. s \in Seq(Inode)
    OBVIOUS
  <2> HIDE DEF s
  <2> QED BY <2>1, <2>2, <2>3 DEF Gave, s
<1>5. ASSUME GiveUp(p, <<a>>)
      PROVE  Gave(p, a, None, None, None)
  <2> DEFINE s == <<a>>
  <2>1. s \in Seq(NoneOr)
    OBVIOUS
  <2>2. \A i : /\ Weight(s, 1, i) = One(a, i) /\ Weight(s, 2, i) = 0
               /\ Weight(s, 3, i) = 0 /\ Weight(s, 4, i) = 0
    BY DEF Weight, One
  <2> HIDE DEF s
  <2>3. GiveUp(p, s)
    BY <1>5 DEF s
  <2> QED BY <1>2, <1>3, <2>1, <2>2, <2>3 DEF Gave
<1>6. ASSUME GiveUp(p, <<a, b>>)
      PROVE  Gave(p, a, b, None, None)
  <2> DEFINE s == <<a, b>>
  <2>1. s \in Seq(NoneOr)
    OBVIOUS
  <2>2. \A i : /\ Weight(s, 1, i) = One(a, i) /\ Weight(s, 2, i) = One(b, i)
               /\ Weight(s, 3, i) = 0 /\ Weight(s, 4, i) = 0
    BY DEF Weight, One
  <2> HIDE DEF s
  <2>3. GiveUp(p, s)
    BY <1>6 DEF s
  <2> QED BY <1>2, <1>3, <2>1, <2>2, <2>3 DEF Gave
<1>7. ASSUME GiveUp(p, <<a, b, g>>)
      PROVE  Gave(p, a, b, g, None)
  <2> DEFINE s == <<a, b, g>>
  <2>1. s \in Seq(NoneOr)
    OBVIOUS
  <2>2. \A i : /\ Weight(s, 1, i) = One(a, i) /\ Weight(s, 2, i) = One(b, i)
               /\ Weight(s, 3, i) = One(g, i) /\ Weight(s, 4, i) = 0
    BY DEF Weight, One
  <2> HIDE DEF s
  <2>3. GiveUp(p, s)
    BY <1>7 DEF s
  <2> QED BY <1>2, <1>3, <2>1, <2>2, <2>3 DEF Gave
<1>8. ASSUME GiveUp(p, <<a, b, g, d>>)
      PROVE  Gave(p, a, b, g, d)
  <2> DEFINE s == <<a, b, g, d>>
  <2>1. s \in Seq(NoneOr)
    OBVIOUS
  <2>2. \A i : /\ Weight(s, 1, i) = One(a, i) /\ Weight(s, 2, i) = One(b, i)
               /\ Weight(s, 3, i) = One(g, i) /\ Weight(s, 4, i) = One(d, i)
    BY DEF Weight, One
  <2> HIDE DEF s
  <2>3. GiveUp(p, s)
    BY <1>8 DEF s
  <2> QED BY <1>2, <2>1, <2>2, <2>3 DEF Gave
<1> QED BY <1>4, <1>5, <1>6, <1>7, <1>8

(* The weights of four pointers.                                           *)
LEMMA Sum4 ==
    \A r, s, t, u, x, m, n, q, v, a, b, g, d \in Nat :
       q = a + b + g + d /\ v = 0 /\ r - s = t - u + m + a + b + g + d - n
          => r - s = t - u + x - x + (m + q) - (n + v)
OBVIOUS

(* A step that leaves the tree alone.                                      *)
LEMMA LocalStep ==
    ASSUME TreeInv, NEW p \in InodeProcess, drop[p] = <<>>, NEW f, NEW fl, NEW w, NEW at,
           NEW c, Becomes(p, f, fl, w, at, c), NEW a, NEW b, NEW g, NEW d, Gave(p, a, b, g, d),
           ref' \in [Inode -> Nat], debt' \in [Inode -> Nat],
           kind' = kind, kids' = kids, links' = links, stopped' = stopped,
           \A i \in Inode :
              /\ ref'[i] - debt'[i]
                    = ref[i] - debt[i] + Mine(f, fl, w.ino, i)
                        + One(a, i) + One(b, i) + One(g, i) + One(d, i)
                        - Mine(fr[p], file[p], cwd[p].ino, i)
              /\ kind[i] = "free" => ref'[i] = 0
    PROVE  TreeInv'
<1>1. PICK dr \in Seq(Inode) :
         /\ Put(drop, drop', p, dr)
         /\ \A i \in Inode : Cnt(dr, i) = One(a, i) + One(b, i) + One(g, i) + One(d, i)
  BY DEF Gave
<1> DEFINE o == Root
<1>2. o \in Inode
  BY StaticFacts
<1>3. kind' \in [Inode -> Kinds] /\ links' \in [Inode -> Nat] /\ OnlyKidsOf(o)
  BY <1>2 DEF TreeInv, TreeTypes, NamesAreUnique, UniqueNames, OnlyKidsOf
<1>5. ASSUME NEW i \in Inode
      PROVE  /\ links'[i] = links[i] + Kid(kids'[o], i) - Kid(kids[o], i)
             /\ ref'[i] - debt'[i]
                   = ref[i] - debt[i] + Kid(kids'[o], i) - Kid(kids[o], i)
                       + (Mine(f, fl, w.ino, i) + Cnt(dr, i))
                       - (Mine(fr[p], file[p], cwd[p].ino, i) + Cnt(drop[p], i))
             /\ kind'[i] = "free" => ref'[i] = 0
             /\ kind[i] # "free" /\ kind'[i] # "free" => (kind'[i] = "dir" <=> kind[i] = "dir")
  <2> DEFINE x == Kid(kids[o], i)
             m == Mine(f, fl, w.ino, i)
             n == Mine(fr[p], file[p], cwd[p].ino, i)
             q == Cnt(dr, i)
             r == ref'[i]
             s == debt'[i]
             t == ref[i]
             u == debt[i]
             v == Cnt(drop[p], i)
             e == One(a, i) + One(b, i) + One(g, i) + One(d, i)
  <2>1. x \in Nat
    BY <1>2, InosFacts DEF TreeInv, TreeTypes
  <2>2. m \in Nat /\ n \in Nat
    BY MineType
  <2>3. q = e /\ e \in Nat
    BY <1>1 DEF One
  <2>4. v = 0
    BY CntNone
  <2>5. links[i] \in Nat /\ r \in Nat /\ s \in Nat /\ t \in Nat /\ u \in Nat
    BY DEF TreeInv, TreeTypes
  <2>6. One(a, i) \in Nat /\ One(b, i) \in Nat /\ One(g, i) \in Nat /\ One(d, i) \in Nat
    BY DEF One
  <2>7. r - s = t - u + m + One(a, i) + One(b, i) + One(g, i) + One(d, i) - n
    OBVIOUS
  <2>8. links'[i] = links[i] + x - x
    BY <2>1, <2>5
  <2>9. r - s = t - u + x - x + (m + q) - (n + v)
    <3> DEFINE e1 == One(a, i)
               e2 == One(b, i)
               e3 == One(g, i)
               e4 == One(d, i)
    <3>1. e1 \in Nat /\ e2 \in Nat /\ e3 \in Nat /\ e4 \in Nat
      BY <2>6
    <3>2. q = e1 + e2 + e3 + e4 /\ r - s = t - u + m + e1 + e2 + e3 + e4 - n
      BY <2>3, <2>7
    <3> HIDE DEF x, m, n, q, r, s, t, u, v, e1, e2, e3, e4
    <3> QED BY ONLY <2>1, <2>2, <2>4, <2>5, <3>1, <3>2, Sum4
  <2> QED BY <2>8, <2>9
<1>6. Moves(p, f, fl, w, dr, o)
  BY ONLY <1>5 DEF Moves
<1> HIDE DEF o
<1> QED BY ONLY <1>1, <1>2, <1>3, <1>6, TreeInv, p \in InodeProcess,
       Becomes(p, f, fl, w, at, c), ref' \in [Inode -> Nat], debt' \in [Inode -> Nat],
       stopped' = stopped, TreeStep

(* A step of a call that neither opens a file nor changes the directory:   *)
(* its variables, and the references it takes and gives up.                *)
Shift(p, f, a, b, g, d) ==
    \A i \in Inode :
       /\ ref'[i] - debt'[i]
             = ref[i] - debt[i] + One(f.cur, i) + One(f.par, i) + One(f.old, i)
                 + One(f.oldpar, i) + One(a, i) + One(b, i) + One(g, i) + One(d, i)
                 - (One(fr[p].cur, i) + One(fr[p].par, i) + One(fr[p].old, i)
                      + One(fr[p].oldpar, i))
       /\ kind[i] = "free" => ref'[i] = 0

(* The invariant after a step of a call that leaves every directory alone. *)
LEMMA CallStep ==
    ASSUME TreeInv, NEW p \in InodeProcess, drop[p] = <<>>, NEW f, NEW at, NEW c,
           IsFrame(f), CallIsSound(at, c, f, file[p]), KindsAreKnown(kind, at, f),
           Put(fr, fr', p, f), Put(inodePc, inodePc', p, at), Put(call, call', p, c),
           NEW a, NEW b, NEW g, NEW d, Gave(p, a, b, g, d), Shift(p, f, a, b, g, d),
           ref' \in [Inode -> Nat], debt' \in [Inode -> Nat],
           kind' = kind, kids' = kids, links' = links, file' = file, cwd' = cwd,
           stopped' = stopped
    PROVE  TreeInv'
<1> DEFINE fl == file[p]
           w == cwd[p]
<1>1. file[p] \in NoneOr /\ cwd[p].ino \in Inode /\ IsFamily(cwd) /\ IsFamily(file)
  BY DEF TreeInv, TreeTypes, IsFamily
<1>2. Put(file, file', p, fl) /\ Put(cwd, cwd', p, w)
  BY <1>1 DEF Put, IsFamily
<1>3. Becomes(p, f, fl, w, at, c)
  BY <1>1, <1>2 DEF Becomes
<1>4. ASSUME NEW i \in Inode
      PROVE  /\ ref'[i] - debt'[i]
                   = ref[i] - debt[i] + Mine(f, fl, w.ino, i)
                       + One(a, i) + One(b, i) + One(g, i) + One(d, i)
                       - Mine(fr[p], file[p], cwd[p].ino, i)
             /\ kind[i] = "free" => ref'[i] = 0
  <2>1. /\ One(fl, i) \in Nat /\ One(w.ino, i) \in Nat /\ One(a, i) \in Nat
        /\ One(b, i) \in Nat /\ One(g, i) \in Nat /\ One(d, i) \in Nat
        /\ One(f.cur, i) \in Nat /\ One(f.par, i) \in Nat /\ One(f.old, i) \in Nat
        /\ One(f.oldpar, i) \in Nat /\ One(fr[p].cur, i) \in Nat /\ One(fr[p].par, i) \in Nat
        /\ One(fr[p].old, i) \in Nat /\ One(fr[p].oldpar, i) \in Nat
    BY DEF One
  <2>2. ref[i] \in Nat /\ debt[i] \in Nat /\ ref'[i] \in Nat /\ debt'[i] \in Nat
    BY DEF TreeInv, TreeTypes
  <2>3. Shift(p, f, a, b, g, d)
    OBVIOUS
  <2> QED BY ONLY <2>1, <2>2, <2>3, i \in Inode DEF Shift, Mine
<1> HIDE DEF fl, w
<1> QED BY <1>3, <1>4, LocalStep

(* When it takes no reference, and forgets none, it only moves pointers.   *)
Same(p, f, a, b, g, d) ==
    \A i \in Inode :
       One(f.cur, i) + One(f.par, i) + One(f.old, i) + One(f.oldpar, i)
         + One(a, i) + One(b, i) + One(g, i) + One(d, i)
       = One(fr[p].cur, i) + One(fr[p].par, i) + One(fr[p].old, i) + One(fr[p].oldpar, i)

(* The same for a step that changes no counter.                            *)
LEMMA QuietStep ==
    ASSUME TreeInv, NEW p \in InodeProcess, drop[p] = <<>>, NEW f, NEW at, NEW c,
           IsFrame(f), CallIsSound(at, c, f, file[p]), KindsAreKnown(kind, at, f),
           Put(fr, fr', p, f), Put(inodePc, inodePc', p, at), Put(call, call', p, c),
           NEW a, NEW b, NEW g, NEW d, Gave(p, a, b, g, d), Same(p, f, a, b, g, d),
           ref' = ref, debt' = debt, kind' = kind, kids' = kids, links' = links,
           file' = file, cwd' = cwd, stopped' = stopped
    PROVE  TreeInv'
<1>1. ref' \in [Inode -> Nat] /\ debt' \in [Inode -> Nat]
  BY DEF TreeInv, TreeTypes
<1>2. Shift(p, f, a, b, g, d)
  <2>1. ASSUME NEW i \in Inode
        PROVE  /\ ref'[i] - debt'[i]
                     = ref[i] - debt[i] + One(f.cur, i) + One(f.par, i) + One(f.old, i)
                         + One(f.oldpar, i) + One(a, i) + One(b, i) + One(g, i) + One(d, i)
                         - (One(fr[p].cur, i) + One(fr[p].par, i) + One(fr[p].old, i)
                              + One(fr[p].oldpar, i))
               /\ kind[i] = "free" => ref'[i] = 0
    <3>1. /\ One(a, i) \in Nat
          /\ One(b, i) \in Nat /\ One(g, i) \in Nat /\ One(d, i) \in Nat
          /\ One(f.cur, i) \in Nat /\ One(f.par, i) \in Nat /\ One(f.old, i) \in Nat
          /\ One(f.oldpar, i) \in Nat /\ One(fr[p].cur, i) \in Nat /\ One(fr[p].par, i) \in Nat
          /\ One(fr[p].old, i) \in Nat /\ One(fr[p].oldpar, i) \in Nat
      BY DEF One
    <3>2. ref[i] \in Nat /\ debt[i] \in Nat /\ ref'[i] = ref[i] /\ debt'[i] = debt[i]
      BY DEF TreeInv, TreeTypes
    <3>3. Same(p, f, a, b, g, d)
      OBVIOUS
    <3>4. kind[i] = "free" => ref[i] = 0
      BY Alive
    <3> QED BY ONLY <3>1, <3>2, <3>3, <3>4, i \in Inode DEF Same
  <2> QED BY ONLY <2>1 DEF Shift
<1> QED BY <1>1, <1>2, CallStep

(* The call returns.                                                       *)
LEMMA ReturnFacts ==
    ASSUME TreeInv, NEW p \in InodeProcess, Return(p)
    PROVE  /\ IsFrame(NoFrame) /\ CallIsSound("idle", NoCall, NoFrame, file[p])
           /\ \A k : KindsAreKnown(k, "idle", NoFrame)
           /\ Put(fr, fr', p, NoFrame) /\ Put(inodePc, inodePc', p, "idle")
           /\ Put(call, call', p, NoCall)
           /\ \A i \in Inode : /\ One(NoFrame.cur, i) = 0 /\ One(NoFrame.par, i) = 0
                               /\ One(NoFrame.old, i) = 0 /\ One(NoFrame.oldpar, i) = 0
<1>1. IsFamily(fr) /\ IsFamily(inodePc) /\ IsFamily(call)
  BY DEF TreeInv, TreeTypes
<1>2. /\ Put(fr, fr', p, NoFrame) /\ Put(inodePc, inodePc', p, "idle")
      /\ Put(call, call', p, NoCall)
  BY <1>1, PutFacts DEF Return
<1>3. IsFrame(NoFrame)
  BY DEF IsFrame, NoFrame, NoneOr
<1>4. CallIsSound("idle", NoCall, NoFrame, file[p])
  BY DEF CallIsSound, NoCall, NoFrame
<1>5. \A k : KindsAreKnown(k, "idle", NoFrame)
  BY DEF KindsAreKnown
<1>6. \A i \in Inode : /\ One(NoFrame.cur, i) = 0 /\ One(NoFrame.par, i) = 0
                       /\ One(NoFrame.old, i) = 0 /\ One(NoFrame.oldpar, i) = 0
  BY OneFacts DEF NoFrame
<1> QED BY <1>2, <1>3, <1>4, <1>5, <1>6

(* It returns and gives up all that it holds.                              *)
LEMMA QuietReturn ==
    ASSUME TreeInv, NEW p \in InodeProcess, drop[p] = <<>>, Return(p),
           NEW a, NEW b, NEW g, NEW d, Gave(p, a, b, g, d), Same(p, NoFrame, a, b, g, d),
           ref' = ref, debt' = debt, kind' = kind, kids' = kids, links' = links,
           file' = file, cwd' = cwd, stopped' = stopped
    PROVE  TreeInv'
BY ReturnFacts, QuietStep

(* A call returns after its last references have changed.                  *)
LEMMA ReturnStep ==
    ASSUME TreeInv, NEW p \in InodeProcess, drop[p] = <<>>, Return(p),
           NEW a, NEW b, NEW g, NEW d, Gave(p, a, b, g, d), Shift(p, NoFrame, a, b, g, d),
           ref' \in [Inode -> Nat], debt' \in [Inode -> Nat],
           kind' = kind, kids' = kids, links' = links,
           file' = file, cwd' = cwd, stopped' = stopped
    PROVE  TreeInv'
BY ReturnFacts, CallStep

(* A panic changes nothing but the reason for it.                          *)
LEMMA PanicKeeps ==
    ASSUME TreeInv,
           \/ \E why \in {"rename_same", "null_parent", "stale_target"} : Panic(why)
           \/ UNCHANGED inodeVars
    PROVE  TreeInv'
<1>0. /\ kind' = kind /\ ref' = ref /\ links' = links /\ kids' = kids /\ inodePc' = inodePc
      /\ call' = call /\ fr' = fr /\ file' = file /\ cwd' = cwd /\ drop' = drop
      /\ debt' = debt /\ InodeAsserts'
  BY DEF Panic, inodeVars, InodeAsserts, TreeInv
<1>1. Entries' = Entries /\ Held' = Held
  BY <1>0 DEF Entries, Held, Children
<1>2. TreeTypes'
  BY <1>0 DEF TreeInv, TreeTypes, IsFamily
<1>3. CountsAreExact'
  <2>1. \A i : PointersTo(Entries, i)' = PointersTo(Entries, i)
               /\ PointersTo(Held, i)' = PointersTo(Held, i)
    BY <1>1
  <2>2. ref' = ref /\ debt' = debt /\ links' = links /\ kind' = kind
    BY <1>0
  <2> QED BY <1>1, <2>2 DEF TreeInv, CountsAreExact
<1>4. NamesAreUnique'
  BY <1>0 DEF TreeInv, NamesAreUnique
<1>5. \A p \in InodeProcess : /\ CallIsSound(inodePc[p], call[p], fr[p], file[p])'
                               /\ KindsAreKnown(kind, inodePc[p], fr[p])'
  BY <1>0 DEF TreeInv
<1> QED BY <1>0, <1>2, <1>3, <1>4, <1>5 DEF TreeInv

-----------------------------------------------------------------------------
(* Inodes: the actions that leave the tree alone.                          *)

(* A process that is about to make a step of its call.                     *)
LEMMA FrameFacts ==
    ASSUME TreeInv, NEW p \in InodeProcess
    PROVE  /\ IsFrame(fr[p]) /\ file[p] \in NoneOr /\ cwd[p].ino \in Inode
           /\ fr[p].cur \in NoneOr /\ fr[p].par \in NoneOr /\ fr[p].old \in NoneOr
           /\ fr[p].oldpar \in NoneOr /\ None \in NoneOr
           /\ IsFamily(fr) /\ IsFamily(cwd) /\ IsFamily(inodePc) /\ IsFamily(call)
           /\ IsFamily(file) /\ IsFamily(drop)
           /\ CallIsSound(inodePc[p], call[p], fr[p], file[p])
           /\ KindsAreKnown(kind, inodePc[p], fr[p])
           /\ ref \in [Inode -> Nat] /\ debt \in [Inode -> Nat]
<1>1. IsFrame(fr[p])
  BY DEF TreeInv, TreeTypes
<1>2. /\ fr[p].cur \in NoneOr /\ fr[p].par \in NoneOr /\ fr[p].old \in NoneOr
      /\ fr[p].oldpar \in NoneOr
  BY <1>1 DEF IsFrame
<1> QED BY <1>1, <1>2 DEF TreeInv, TreeTypes, IsFamily, NoneOr

(* inode_ref() of no inode, and of one.                                    *)
Counters == [Inode -> Nat]

(* No inode is referenced by an empty list.                                *)
LEMMA RefFacts ==
    ASSUME NEW g \in Counters
    PROVE  Ref(g, <<>>) = g
<1>1. \A i : Cardinality(Positions(<<>>, i)) = 0
  BY CntNone DEF Cnt
<1> QED BY <1>1 DEF Ref, Counters

(* One reference is forgotten.                                             *)
LEMMA ForgetFacts ==
    ASSUME debt \in Counters, NEW a, Forget(<<a>>)
    PROVE  debt' \in Counters /\ \A i \in Inode : debt'[i] = debt[i] + One(a, i)
<1>1. \A i : Cardinality(Positions(<<a>>, i)) = One(a, i) /\ One(a, i) \in Nat
  BY CntOne DEF Cnt, One
<1> QED BY <1>1 DEF Ref, Forget, Counters

(* A path leads nowhere.                                                   *)
LEMMA ResolveFailedKeeps ==
    ASSUME TreeInv, NEW p \in InodeProcess, ResolveFailed(p)
    PROVE  TreeInv'
<1> DEFINE f == fr[p]
<1>1. Gave(p, f.old, f.oldpar, f.par, None)
  BY FrameFacts, GaveFacts DEF ResolveFailed, At
<1>2. Same(p, NoFrame, f.old, f.oldpar, f.par, None)
  <2>1. f.cur = None
    BY DEF ResolveFailed
  <2> HIDE DEF f
  <2> QED BY ONLY <2>1, OneFacts DEF Same, NoFrame, f
<1> QED BY <1>1, <1>2, QuietReturn DEF ResolveFailed, At

(* The open file is closed.                                                *)
LEMMA CloseKeeps ==
    ASSUME TreeInv, NEW p \in InodeProcess, Close(p)
    PROVE  TreeInv'
<1> DEFINE f == fr[p]
           w == cwd[p]
           at == inodePc[p]
           c == call[p]
<1>1. Gave(p, file[p], None, None, None)
  BY FrameFacts, GaveFacts DEF Close, At
<1>2. CallIsSound(at, c, f, None)
  BY FrameFacts DEF CallIsSound
<1>3. Becomes(p, f, None, w, at, c)
  BY <1>2, FrameFacts, PutFacts DEF Becomes, Close
<1>4. ASSUME NEW i \in Inode
      PROVE  /\ ref'[i] - debt'[i]
                   = ref[i] - debt[i] + Mine(f, None, w.ino, i)
                       + One(file[p], i) + One(None, i) + One(None, i) + One(None, i)
                       - Mine(fr[p], file[p], cwd[p].ino, i)
             /\ kind[i] = "free" => ref'[i] = 0
  <2>1. ref[i] \in Nat /\ debt[i] \in Nat /\ ref'[i] = ref[i] /\ debt'[i] = debt[i]
    BY FrameFacts DEF Close
  <2>2. kind[i] = "free" => ref[i] = 0
    BY Alive
  <2> QED BY <2>1, <2>2 DEF Mine, One, None, Inode
<1>5. /\ drop[p] = <<>> /\ ref' \in [Inode -> Nat] /\ debt' \in [Inode -> Nat]
      /\ kind' = kind /\ kids' = kids /\ links' = links /\ stopped' = stopped
  BY FrameFacts DEF Close, At
<1> HIDE DEF f, w, at, c
<1> QED BY <1>1, <1>3, <1>4, <1>5, LocalStep

(* Nothing names a destroyed inode.                                        *)
LEMMA FreeFacts ==
    ASSUME TreeInv, NEW i \in Inode, kind[i] = "free"
    PROVE  /\ ref[i] = 0
           /\ i \notin {Root, Host, Guest, Device}
           /\ \A p \in InodeProcess :
                 i \notin {fr[p].cur, fr[p].par, fr[p].old, fr[p].oldpar, file[p], cwd[p].ino}
           /\ \A d \in Inode : \A k \in DOMAIN kids[d] : kids[d][k].ino # i
<1>1. ref[i] = 0 /\ StaticRefs(i) \in Nat /\ ~(StaticRefs(i) > 0)
  BY Alive
<1>2. i \notin {Root, Host, Guest, Device}
  <2>1. StaticRefs(i) = One(Root, i) + One(Host, i) + One(Guest, i) + One(Device, i)
    BY StaticFacts
  <2> QED BY <1>1, <2>1 DEF One
<1>3. ASSUME NEW p \in InodeProcess
      PROVE  i \notin {fr[p].cur, fr[p].par, fr[p].old, fr[p].oldpar, file[p], cwd[p].ino}
  <2>1. drop[p] \in Seq(Inode)
    BY DEF TreeInv, TreeTypes
  <2>2. Cnt(drop[p], i) \in Nat
    BY <2>1, CntType
  <2>3. ~(Mine(fr[p], file[p], cwd[p].ino, i) + Cnt(drop[p], i) > 0)
    BY Alive
  <2>4. /\ Mine(fr[p], file[p], cwd[p].ino, i) \in Nat
        /\ i \in {fr[p].cur, fr[p].par, fr[p].old, fr[p].oldpar, file[p], cwd[p].ino}
             => Mine(fr[p], file[p], cwd[p].ino, i) > 0
    BY MineType
  <2> QED BY ONLY <2>2, <2>3, <2>4
<1>4. ASSUME NEW d \in Inode, NEW k \in DOMAIN kids[d], kids[d][k].ino = i
      PROVE  FALSE
  <2>1. IsList(kids[d])
    BY DEF TreeInv, TreeTypes
  <2>2. Kid(kids[d], i) > 0
    BY <1>4, <2>1, InosFacts
  <2> QED BY <2>2, Alive
<1> QED BY <1>1, <1>2, <1>3, <1>4

(* References to one or two inodes that are alive are taken.               *)
Took(a, b) ==
    \A j \in Inode :
       /\ ref[j] \in Nat /\ debt[j] \in Nat /\ ref'[j] \in Nat /\ debt'[j] \in Nat
       /\ ref'[j] - debt'[j] = ref[j] - debt[j] + One(a, j) + One(b, j)
       /\ kind[j] = "free" => ref'[j] = 0

(* Ref() of one or two inodes that are alive takes those references.       *)
LEMMA TookFacts ==
    ASSUME TreeInv, NEW a \in NoneOr, NEW b \in NoneOr,
           a # None => kind[a] # "free", b # None => kind[b] # "free", debt' = debt,
           NEW s, ref' = Ref(ref, s),
           s = <<a, b>> \/ (s = <<a>> /\ b = None) \/ (s = <<>> /\ a = None /\ b = None)
    PROVE  debt' \in Counters /\ ref' \in Counters /\ Took(a, b)
<1>1. ref \in Counters /\ debt \in Counters
  BY DEF TreeInv, TreeTypes, Counters
<1>2. ASSUME NEW j \in Inode
      PROVE  /\ kind[j] = "free" => ref[j] = 0 /\ One(a, j) = 0 /\ One(b, j) = 0
             /\ One(None, j) = 0
             /\ One(a, j) \in Nat /\ One(b, j) \in Nat
  BY FreeFacts, OneFacts DEF One
<1>3. \A j \in Inode : Cnt(s, j) = One(a, j) + One(b, j)
  <2>1. CASE s = <<a, b>>
    BY <2>1, CntTwo
  <2>2. CASE s = <<a>> /\ b = None
    BY <1>2, <2>2, CntOne
  <2>3. CASE s = <<>> /\ a = None /\ b = None
    BY <1>2, <2>3, CntNone
  <2> QED BY <2>1, <2>2, <2>3
<1>4. \A j \in Inode : ref'[j] = ref[j] + One(a, j) + One(b, j)
  BY <1>1, <1>2, <1>3 DEF Ref, Cnt, Counters
<1>5. ref' \in Counters
  <2>1. ref' = [j \in Inode |-> ref[j] + Cardinality(Positions(s, j))]
    BY DEF Ref
  <2> QED BY ONLY <1>1, <1>2, <1>3, <2>1 DEF Cnt, Counters
<1>6. ASSUME NEW j \in Inode
      PROVE  /\ ref[j] \in Nat /\ debt[j] \in Nat /\ ref'[j] \in Nat /\ debt'[j] \in Nat
             /\ ref'[j] - debt'[j] = ref[j] - debt[j] + One(a, j) + One(b, j)
             /\ kind[j] = "free" => ref'[j] = 0
  <2>1. ref[j] \in Nat /\ debt[j] \in Nat /\ ref'[j] \in Nat /\ debt'[j] = debt[j]
    BY <1>1, <1>5 DEF Counters
  <2> QED BY ONLY <1>2, <1>4, <2>1, j \in Inode
<1> QED BY ONLY <1>1, <1>5, <1>6, debt' = debt DEF Took

(* What a step takes a reference to is among what it then names or gives   *)
(* up.                                                                     *)
Trade(p, f, x, y, a, b, g, d) ==
    \A i \in Inode :
       One(f.cur, i) + One(f.par, i) + One(f.old, i) + One(f.oldpar, i)
         + One(a, i) + One(b, i) + One(g, i) + One(d, i)
       = One(fr[p].cur, i) + One(fr[p].par, i) + One(fr[p].old, i) + One(fr[p].oldpar, i)
           + One(x, i) + One(y, i)

(* A step that names, or gives up, what it has taken keeps the balance.    *)
LEMMA TradeFacts ==
    ASSUME NEW p, NEW f, NEW x, NEW y, NEW a, NEW b, NEW g, NEW d,
           Trade(p, f, x, y, a, b, g, d), Took(x, y)
    PROVE  Shift(p, f, a, b, g, d)
<1>1. ASSUME NEW i \in Inode
      PROVE  /\ ref'[i] - debt'[i]
                   = ref[i] - debt[i] + One(f.cur, i) + One(f.par, i) + One(f.old, i)
                       + One(f.oldpar, i) + One(a, i) + One(b, i) + One(g, i) + One(d, i)
                       - (One(fr[p].cur, i) + One(fr[p].par, i) + One(fr[p].old, i)
                            + One(fr[p].oldpar, i))
             /\ kind[i] = "free" => ref'[i] = 0
  <2>1. /\ One(a, i) \in Nat /\ One(x, i) \in Nat /\ One(y, i) \in Nat
        /\ One(b, i) \in Nat /\ One(g, i) \in Nat /\ One(d, i) \in Nat
        /\ One(f.cur, i) \in Nat /\ One(f.par, i) \in Nat /\ One(f.old, i) \in Nat
        /\ One(f.oldpar, i) \in Nat /\ One(fr[p].cur, i) \in Nat /\ One(fr[p].par, i) \in Nat
        /\ One(fr[p].old, i) \in Nat /\ One(fr[p].oldpar, i) \in Nat
    BY DEF One
  <2>2. /\ ref[i] \in Nat /\ debt[i] \in Nat /\ ref'[i] \in Nat /\ debt'[i] \in Nat
        /\ ref'[i] - debt'[i] = ref[i] - debt[i] + One(x, i) + One(y, i)
        /\ kind[i] = "free" => ref'[i] = 0
    BY DEF Took
  <2>3. Trade(p, f, x, y, a, b, g, d)
    OBVIOUS
  <2> QED BY ONLY <2>1, <2>2, <2>3, i \in Inode DEF Trade
<1> QED BY ONLY <1>1 DEF Shift

(* A call goes on at another place.                                        *)
LEMMA GotoFacts ==
    ASSUME TreeInv, NEW p \in InodeProcess, NEW at, InodeGoto(p, at)
    PROVE  /\ Put(inodePc, inodePc', p, at) /\ Put(call, call', p, call[p])
           /\ fr' = fr => Put(fr, fr', p, fr[p])
<1>1. IsFamily(fr) /\ IsFamily(inodePc) /\ IsFamily(call)
  BY FrameFacts
<1> QED BY <1>1, PutFacts DEF InodeGoto

(* A call goes on, with its variables as they are.                         *)
LEMMA GotoStep ==
    ASSUME TreeInv, NEW p \in InodeProcess, drop[p] = <<>>, NEW at, InodeGoto(p, at),
           fr' = fr, drop' = drop, CallIsSound(at, call[p], fr[p], file[p]),
           KindsAreKnown(kind, at, fr[p]),
           ref' = ref, debt' = debt, kind' = kind, kids' = kids, links' = links,
           file' = file, cwd' = cwd, stopped' = stopped
    PROVE  TreeInv'
<1>1. Gave(p, None, None, None, None)
  BY FrameFacts, GaveFacts
<1>2. Same(p, fr[p], None, None, None, None)
  BY OneFacts DEF Same
<1> QED BY <1>1, <1>2, FrameFacts, GotoFacts, QuietStep

(* stat() of what the path names.                                          *)
LEMMA VfsStatKeeps ==
    ASSUME TreeInv, NEW p \in InodeProcess, VfsStat(p)
    PROVE  TreeInv'
<1> DEFINE f == fr[p]
           i == f.cur
           d == Device
<1>0. f.par = None /\ f.old = None /\ f.oldpar = None /\ i \in Inode /\ d \in NoneOr
  BY FrameFacts, StaticFacts DEF VfsStat, At, CallIsSound, NoneOr
<1>1. CASE IsDevice(i) /\ FindDevice(i) # None
  <2>1. ref' = Ref(ref, <<d>>) /\ GiveUp(p, <<i, d>>)
    BY <1>1 DEF VfsStat, FindDevice
  <2>2. Gave(p, i, d, None, None)
    BY <1>0, <2>1, FrameFacts, GaveFacts DEF VfsStat, At
  <2>3. kind[d] # "free"
    BY FreeFacts, StaticFacts
  <2>4. debt' \in Counters /\ ref' \in Counters /\ Took(d, None)
    BY <1>0, <2>1, <2>3, FrameFacts, TookFacts DEF VfsStat
  <2> HIDE DEF f, i, d
  <2>5. Trade(p, NoFrame, d, None, i, d, None, None)
    BY ONLY <1>0, OneType DEF Trade, NoFrame, f, i
  <2>6. Shift(p, NoFrame, i, d, None, None)
    BY <2>4, <2>5, TradeFacts
  <2> QED BY <2>2, <2>4, <2>6, ReturnStep DEF VfsStat, At, Counters
<1>2. CASE ~(IsDevice(i) /\ FindDevice(i) # None)
  <2>1. Gave(p, i, None, None, None)
    BY <1>2, FrameFacts, GaveFacts DEF VfsStat, At
  <2>2. Same(p, NoFrame, i, None, None, None)
    <3> HIDE DEF f
    <3> QED BY ONLY <1>0, OneType DEF Same, NoFrame, f
  <2> QED BY <1>2, <2>1, <2>2, QuietReturn DEF VfsStat, At
<1> QED BY <1>1, <1>2

(* link() gets to know its second path.                                    *)
LEMMA LinkNewKeeps ==
    ASSUME TreeInv, NEW p \in InodeProcess, LinkNew(p)
    PROVE  TreeInv'
<1> DEFINE f == fr[p]
<1>0. f.oldpar = None
  BY FrameFacts DEF LinkNew, At, CallIsSound
<1>1. CASE GiveUp(p, <<f.old, f.par, f.cur>>) /\ Return(p)
  <2>1. Gave(p, f.old, f.par, f.cur, None)
    BY <1>1, FrameFacts, GaveFacts DEF LinkNew, At
  <2>2. Same(p, NoFrame, f.old, f.par, f.cur, None)
    <3> HIDE DEF f
    <3> QED BY ONLY <1>0, OneType DEF Same, NoFrame, f
  <2> QED BY <1>1, <2>1, <2>2, QuietReturn DEF LinkNew, At
<1>2. CASE f.cur = None /\ f.rc = "ENOENT" /\ f.par # None /\ InodeGoto(p, "link")
             /\ UNCHANGED <<fr, drop>>
  <2>1. CallIsSound("link", call[p], f, file[p]) /\ KindsAreKnown(kind, "link", f)
    BY <1>2, FrameFacts DEF LinkNew, At, CallIsSound, KindsAreKnown
  <2> QED BY <1>2, <2>1, GotoStep DEF LinkNew, At
<1> QED BY <1>1, <1>2 DEF LinkNew

(* A call changes some of its variables.                                   *)
Edit(f, t, i, r, j, b) ==
    [f EXCEPT !.todo = t, !.cur = i, !.rc = r, !.par = j, !.base = b]

Edits(p, t, i, r, j, b) == fr' = [fr EXCEPT ![p] = Edit(fr[p], t, i, r, j, b)]

(* The variables that a call does not edit stay.                           *)
LEMMA EditFacts ==
    ASSUME TreeInv, NEW p \in InodeProcess, NEW i \in NoneOr, NEW j \in NoneOr,
           NEW t, NEW r, NEW b, Edits(p, t, i, r, j, b)
    PROVE  \E f : /\ Put(fr, fr', p, f) /\ IsFrame(f)
                  /\ f.cur = i /\ f.par = j /\ f.rc = r
                  /\ f.old = fr[p].old /\ f.oldpar = fr[p].oldpar
<1> DEFINE g == fr[p]
           x == Edit(fr[p], t, i, r, j, b)
<1>1. IsFamily(fr) /\ IsFrame(g)
  BY FrameFacts
<1>2. Put(fr, fr', p, x)
  BY <1>1, PutFacts DEF Edits
<1> HIDE DEF g
<1>3. /\ IsFrame(x) /\ x.old = g.old /\ x.oldpar = g.oldpar
      /\ x.cur = i /\ x.par = j /\ x.rc = r
  BY <1>1 DEF IsFrame, Edit, g
<1> HIDE DEF x
<1> QED BY <1>2, <1>3 DEF g

(* unlink() of what the path names.                                        *)
LEMMA SysUnlinkKeeps ==
    ASSUME TreeInv, NEW p \in InodeProcess, SysUnlink(p)
    PROVE  TreeInv'
<1> DEFINE f == fr[p]
<1>0. f.old = None /\ f.oldpar = None
  BY FrameFacts DEF SysUnlink, At, CallIsSound
<1>1. CASE f.par = None \/ kind[f.cur] = "dir"
  <2>1. GiveUp(p, <<f.par, f.cur>>) /\ Return(p)
    BY <1>1 DEF SysUnlink
  <2>2. Gave(p, f.par, f.cur, None, None)
    BY <2>1, FrameFacts, GaveFacts DEF SysUnlink, At
  <2>3. Same(p, NoFrame, f.par, f.cur, None, None)
    <3> HIDE DEF f
    <3> QED BY ONLY <1>0, OneType DEF Same, NoFrame, f
  <2> QED BY <2>1, <2>2, <2>3, QuietReturn DEF SysUnlink, At
<1>2. CASE ~(f.par = None \/ kind[f.cur] = "dir")
  <2>1. /\ GiveUp(p, <<f.cur>>) /\ fr' = [fr EXCEPT ![p].cur = None]
        /\ InodeGoto(p, "unlink")
    BY <1>2 DEF SysUnlink
  <2>2. Gave(p, f.cur, None, None, None)
    BY <2>1, FrameFacts, GaveFacts DEF SysUnlink, At
  <2>3. PICK x : /\ Put(fr, fr', p, x) /\ IsFrame(x) /\ x.cur = None /\ x.par = f.par
                 /\ x.old = f.old /\ x.oldpar = f.oldpar
    <3>1. Edits(p, f.todo, None, f.rc, f.par, f.base)
      BY <2>1, FrameFacts DEF Edits, Edit, IsFrame, IsFamily
    <3> QED BY <3>1, FrameFacts, EditFacts
  <2>4. Same(p, x, f.cur, None, None, None)
    <3> HIDE DEF f
    <3> QED BY ONLY <1>0, <2>3, OneType DEF Same, f
  <2>5. CallIsSound("unlink", call[p], x, file[p]) /\ KindsAreKnown(kind, "unlink", x)
    BY <1>0, <1>2, <2>3, FrameFacts DEF SysUnlink, CallIsSound, KindsAreKnown
  <2> QED BY <2>1, <2>2, <2>3, <2>4, <2>5, GotoFacts, QuietStep DEF SysUnlink, At
<1> QED BY <1>1, <1>2

(* rmdir() of what the path names.                                         *)
LEMMA SysRmdirKeeps ==
    ASSUME TreeInv, NEW p \in InodeProcess, SysRmdir(p)
    PROVE  TreeInv'
<1> DEFINE f == fr[p]
<1>0. f.old = None /\ f.oldpar = None
  BY FrameFacts DEF SysRmdir, At, CallIsSound
<1>1. CASE f.par = None \/ kind[f.cur] # "dir"
  <2>1. GiveUp(p, <<f.par, f.cur>>) /\ Return(p)
    BY <1>1 DEF SysRmdir
  <2>2. Gave(p, f.par, f.cur, None, None)
    BY <2>1, FrameFacts, GaveFacts DEF SysRmdir, At
  <2>3. Same(p, NoFrame, f.par, f.cur, None, None)
    <3> HIDE DEF f
    <3> QED BY ONLY <1>0, OneType DEF Same, NoFrame, f
  <2> QED BY <2>1, <2>2, <2>3, QuietReturn DEF SysRmdir, At
<1>2. CASE ~(f.par = None \/ kind[f.cur] # "dir")
  <2>1. CallIsSound("empty", call[p], f, file[p]) /\ KindsAreKnown(kind, "empty", f)
    BY <1>0, <1>2, FrameFacts DEF SysRmdir, At, CallIsSound, KindsAreKnown
  <2> QED BY <1>2, <2>1, GotoStep DEF SysRmdir, At
<1> QED BY <1>1, <1>2

(* The directory is empty, or it is not.                                   *)
LEMMA MakeSureDirectoryIsEmptyKeeps ==
    ASSUME TreeInv, NEW p \in InodeProcess, MakeSureDirectoryIsEmpty(p)
    PROVE  TreeInv'
<1> DEFINE f == fr[p]
<1>1. CASE GiveUp(p, <<f.cur, f.par, f.old, f.oldpar>>) /\ Return(p)
  <2>1. Gave(p, f.cur, f.par, f.old, f.oldpar)
    BY <1>1, FrameFacts, GaveFacts DEF MakeSureDirectoryIsEmpty, At
  <2>2. Same(p, NoFrame, f.cur, f.par, f.old, f.oldpar)
    <3> HIDE DEF f
    <3> QED BY ONLY OneType DEF Same, NoFrame, f
  <2> QED BY <1>1, <2>1, <2>2, QuietReturn DEF MakeSureDirectoryIsEmpty, At
<1>2. CASE GiveUp(p, <<f.cur>>) /\ call[p].op = "rmdir"
             /\ fr' = [fr EXCEPT ![p].cur = None] /\ InodeGoto(p, "unlink")
  <2>1. Gave(p, f.cur, None, None, None)
    BY <1>2, FrameFacts, GaveFacts DEF MakeSureDirectoryIsEmpty, At
  <2>2. PICK x : /\ Put(fr, fr', p, x) /\ IsFrame(x) /\ x.cur = None /\ x.par = f.par
                 /\ x.old = f.old /\ x.oldpar = f.oldpar
    <3>1. Edits(p, f.todo, None, f.rc, f.par, f.base)
      BY <1>2, FrameFacts DEF Edits, Edit, IsFrame, IsFamily
    <3> QED BY <3>1, FrameFacts, EditFacts
  <2>3. Same(p, x, f.cur, None, None, None)
    <3> HIDE DEF f
    <3> QED BY ONLY <2>2, OneType DEF Same, f
  <2>4. CallIsSound("unlink", call[p], x, file[p]) /\ KindsAreKnown(kind, "unlink", x)
    BY <1>2, <2>2, FrameFacts DEF MakeSureDirectoryIsEmpty, At, CallIsSound, KindsAreKnown
  <2> QED BY <1>2, <2>1, <2>2, <2>3, <2>4, GotoFacts, QuietStep
          DEF MakeSureDirectoryIsEmpty, At
<1>3. CASE GiveUp(p, <<f.cur>>) /\ call[p].op # "rmdir"
             /\ fr' = [fr EXCEPT ![p].cur = None, ![p].rc = "stale"]
             /\ InodeGoto(p, "replace")
  <2>1. Gave(p, f.cur, None, None, None)
    BY <1>3, FrameFacts, GaveFacts DEF MakeSureDirectoryIsEmpty, At
  <2>2. PICK x : /\ Put(fr, fr', p, x) /\ IsFrame(x) /\ x.cur = None /\ x.par = f.par
                 /\ x.old = f.old /\ x.oldpar = f.oldpar
    <3>1. Edits(p, f.todo, None, "stale", f.par, f.base)
      BY <1>3, FrameFacts DEF Edits, Edit, IsFrame, IsFamily
    <3> QED BY <3>1, FrameFacts, EditFacts
  <2>3. Same(p, x, f.cur, None, None, None)
    <3> HIDE DEF f
    <3> QED BY ONLY <2>2, OneType DEF Same, f
  <2>4. CallIsSound("replace", call[p], x, file[p]) /\ KindsAreKnown(kind, "replace", x)
    BY <1>3, <2>2, FrameFacts DEF MakeSureDirectoryIsEmpty, At, CallIsSound, KindsAreKnown
  <2> QED BY <1>3, <2>1, <2>2, <2>3, <2>4, GotoFacts, QuietStep
          DEF MakeSureDirectoryIsEmpty, At
<1> QED BY <1>1, <1>2, <1>3 DEF MakeSureDirectoryIsEmpty

(* rename() gets to know its second path.                                  *)
LEMMA RenameNewKeeps ==
    ASSUME TreeInv, NEW p \in InodeProcess, RenameNew(p)
    PROVE  TreeInv'
<1> DEFINE f == fr[p]
<1>1. CASE Panic("rename_same")
  BY <1>1, PanicKeeps
<1>2. CASE GiveUp(p, <<f.oldpar, f.old, f.par, f.cur>>) /\ Return(p) /\ ~Panic("rename_same")
  <2>1. Gave(p, f.oldpar, f.old, f.par, f.cur)
    BY <1>2, FrameFacts, GaveFacts DEF RenameNew, At
  <2>2. Same(p, NoFrame, f.oldpar, f.old, f.par, f.cur)
    <3> HIDE DEF f
    <3> QED BY ONLY OneType DEF Same, NoFrame, f
  <2> QED BY <1>2, <2>1, <2>2, QuietReturn DEF RenameNew, At
<1>3. CASE f.cur # None /\ InodeGoto(p, "empty") /\ UNCHANGED <<drop, fr>>
             /\ ~Panic("rename_same")
  <2>1. CallIsSound("empty", call[p], f, file[p]) /\ KindsAreKnown(kind, "empty", f)
    BY <1>3, FrameFacts DEF RenameNew, At, CallIsSound, KindsAreKnown
  <2> QED BY <1>3, <2>1, GotoStep DEF RenameNew, At
<1>4. CASE f.cur # None /\ InodeGoto(p, "replace") /\ UNCHANGED <<drop, fr>>
             /\ ~Panic("rename_same")
  <2>1. CallIsSound("replace", call[p], f, file[p]) /\ KindsAreKnown(kind, "replace", f)
    BY <1>4, FrameFacts DEF RenameNew, At, CallIsSound, KindsAreKnown
  <2> QED BY <1>4, <2>1, GotoStep DEF RenameNew, At
<1>5. CASE f.cur = None /\ f.rc = "ENOENT" /\ f.par # None /\ InodeGoto(p, "link")
             /\ UNCHANGED <<drop, fr>> /\ ~Panic("rename_same")
  <2>1. CallIsSound("link", call[p], f, file[p]) /\ KindsAreKnown(kind, "link", f)
    BY <1>5, FrameFacts DEF RenameNew, At, CallIsSound, KindsAreKnown
  <2> QED BY <1>5, <2>1, GotoStep DEF RenameNew, At
<1> QED BY <1>1, <1>2, <1>3, <1>4, <1>5 DEF RenameNew

(* Lists that a step puts together.                                        *)
LEMMA TupleFacts ==
    ASSUME NEW a, NEW b, NEW c, NEW d
    PROVE  /\ <<a>> \o <<>> = <<a>> /\ <<a>> \o <<b>> = <<a, b>> /\ <<>> \o <<a>> = <<a>>
           /\ <<>> \o <<b, c, d>> = <<b, c, d>>
           /\ <<a>> \o <<b, c, d>> = <<a, b, c, d>>
<1> DEFINE S == {a, b, c, d}
           u == <<a>>
           v == <<b, c, d>>
           w == <<a, b, c, d>>
           n == <<>>
           x == <<b>>
           y == <<a, b>>
<1>1. u \in Seq(S) /\ v \in Seq(S) /\ n \in Seq(S) /\ x \in Seq(S)
  OBVIOUS
<1>2. w \in Seq(S) /\ Len(w) = 4 /\ y \in Seq(S) /\ Len(y) = 2
  OBVIOUS
<1>3. u \o n = u /\ n \o u = u /\ n \o v = v
  BY <1>1, ConcatEmptySeq
<1>4. u \o v = w
  <2> DEFINE z == u \o v
  <2>1. z \in Seq(S) /\ Len(z) = 4
    OBVIOUS
  <2>2. ASSUME NEW k \in 1..4
        PROVE  z[k] = w[k]
    OBVIOUS
  <2> HIDE DEF z, w, S
  <2>3. z = w
    BY <1>2, <2>1, <2>2, SeqEqual
  <2> QED BY <2>3 DEF z
<1>5. u \o x = y
  <2> DEFINE z == u \o x
  <2>1. z \in Seq(S) /\ Len(z) = 2
    OBVIOUS
  <2>2. ASSUME NEW k \in 1..2
        PROVE  z[k] = y[k]
    OBVIOUS
  <2> HIDE DEF z, y, S
  <2>3. z = y
    BY <1>2, <2>1, <2>2, SeqEqual
  <2> QED BY <2>3 DEF z
<1> QED BY <1>3, <1>4, <1>5

(* Nothing is given up.                                                    *)
LEMMA GaveNothing ==
    ASSUME TreeInv, NEW p \in InodeProcess, drop[p] = <<>>, GiveUp(p, <<>>)
    PROVE  Gave(p, None, None, None, None)
<1>1. NonNull(<<>>) = <<>> \o <<>> \o <<>> \o <<>>
  BY DEF NonNull
<1> DEFINE s == <<>>
<1>2. s \in Seq(Inode) /\ s \o s = s
  OBVIOUS
<1>3. IsFamily(drop) /\ drop[p] = s
  BY FrameFacts
<1>4. NonNull(<<>>) = s
  BY <1>1, <1>2
<1>5. drop' = [drop EXCEPT ![p] = s]
  BY <1>2, <1>3, <1>4 DEF GiveUp
<1>6. drop' = drop
  BY <1>3, <1>5 DEF IsFamily
<1> QED BY <1>6, FrameFacts, GaveFacts

(* The name that a call is to create exists, or it does not.               *)
LEMMA CreateResolvedKeeps ==
    ASSUME TreeInv, NEW p \in InodeProcess, CreateResolved(p)
    PROVE  TreeInv'
<1> DEFINE f == fr[p]
<1>0. f.old = None /\ f.oldpar = None
  BY FrameFacts DEF CreateResolved, At, CallIsSound
<1>1. CASE GiveUp(p, <<f.par, f.cur>>) /\ Return(p)
  <2>1. Gave(p, f.par, f.cur, None, None)
    BY <1>1, FrameFacts, GaveFacts DEF CreateResolved, At
  <2>2. Same(p, NoFrame, f.par, f.cur, None, None)
    <3> HIDE DEF f
    <3> QED BY ONLY <1>0, OneType DEF Same, NoFrame, f
  <2> QED BY <1>1, <2>1, <2>2, QuietReturn DEF CreateResolved, At
<1>2. CASE /\ f.cur # None /\ ~Exclusive(call[p]) /\ GiveUp(p, <<f.par>>)
           /\ fr' = [fr EXCEPT ![p].par = None]
           /\ call' = [call EXCEPT ![p].made = TRUE] /\ UNCHANGED inodePc
  <2> DEFINE c == [call[p] EXCEPT !.made = TRUE]
  <2>1. Gave(p, f.par, None, None, None)
    BY <1>2, FrameFacts, GaveFacts DEF CreateResolved, At
  <2>2. PICK x : /\ Put(fr, fr', p, x) /\ IsFrame(x) /\ x.cur = f.cur /\ x.par = None
                 /\ x.old = f.old /\ x.oldpar = f.oldpar
    <3>1. Edits(p, f.todo, f.cur, f.rc, None, f.base)
      BY <1>2, FrameFacts DEF Edits, Edit, IsFrame, IsFamily
    <3> QED BY <3>1, FrameFacts, EditFacts
  <2>3. Same(p, x, f.par, None, None, None)
    <3> HIDE DEF f
    <3> QED BY ONLY <2>2, OneType DEF Same, f
  <2>4. "op" \in DOMAIN c /\ c.op = "open" /\ file[p] = None
    BY <1>2, FrameFacts DEF CreateResolved, Exclusive, CallIsSound
  <2>5. Put(call, call', p, c) /\ Put(inodePc, inodePc', p, "found")
    <3>1. IsFamily(call) /\ IsFamily(inodePc) /\ inodePc[p] = "found"
      BY FrameFacts DEF CreateResolved, At
    <3>2. call' = [call EXCEPT ![p] = c] /\ inodePc' = inodePc
      BY <1>2, <3>1 DEF IsFamily
    <3> HIDE DEF c
    <3>3. Put(call, [call EXCEPT ![p] = c], p, c)
      BY <3>1, PutFacts
    <3>4. Put(inodePc, inodePc, p, inodePc[p])
      BY <3>1, PutFacts
    <3> QED BY <3>1, <3>2, <3>3, <3>4
  <2> HIDE DEF c
  <2>6. CallIsSound("found", c, x, file[p]) /\ KindsAreKnown(kind, "found", x)
    BY <1>0, <2>2, <2>4 DEF CallIsSound, KindsAreKnown
  <2> QED BY <2>1, <2>2, <2>3, <2>5, <2>6, QuietStep DEF CreateResolved, At
<1>3. CASE f.cur = None /\ f.rc = "ENOENT" /\ f.par # None /\ InodeGoto(p, "create")
             /\ UNCHANGED <<fr, drop>>
  <2>1. CallIsSound("create", call[p], f, file[p]) /\ KindsAreKnown(kind, "create", f)
    BY <1>3, FrameFacts DEF CreateResolved, At, CallIsSound, KindsAreKnown
  <2> QED BY <1>3, <2>1, GotoStep DEF CreateResolved, At
<1> QED BY <1>1, <1>2, <1>3 DEF CreateResolved

(* chdir() to what the path names.                                         *)
LEMMA SysChdirKeeps ==
    ASSUME TreeInv, NEW p \in InodeProcess, SysChdir(p)
    PROVE  TreeInv'
<1> DEFINE f == fr[p]
           i == f.cur
           u == cwd[p].ino
<1>0. /\ f.par = None /\ f.old = None /\ f.oldpar = None /\ i \in Inode
      /\ u \in Inode /\ u \in NoneOr
  BY FrameFacts, StaticFacts DEF SysChdir, At, CallIsSound, NoneOr
<1>1. CASE kind[i] # "dir"
  <2>1. Gave(p, i, None, None, None)
    BY <1>1, FrameFacts, GaveFacts DEF SysChdir, At
  <2>2. Same(p, NoFrame, i, None, None, None)
    <3> HIDE DEF f
    <3> QED BY ONLY <1>0, OneType DEF Same, NoFrame, f
  <2> QED BY <1>1, <2>1, <2>2, QuietReturn DEF SysChdir, At
<1>2. CASE kind[i] = "dir"
  <2> DEFINE fl == file[p]
             w == [ino |-> i, path |-> VfsCanonicalizePath(cwd[p].path, call[p].path).names]
  <2>1. Gave(p, u, None, None, None)
    BY <1>0, <1>2, FrameFacts, GaveFacts DEF SysChdir, At
  <2>2. w.ino = i
    OBVIOUS
  <2>3. Put(cwd, cwd', p, w)
    BY <1>2, FrameFacts, PutFacts DEF SysChdir
  <2>4. Put(file, file', p, fl) /\ fl \in NoneOr
    BY FrameFacts, PutFacts DEF SysChdir
  <2> HIDE DEF w, fl
  <2>5. Becomes(p, NoFrame, fl, w, "idle", NoCall)
    BY <1>0, <2>2, <2>3, <2>4, ReturnFacts DEF Becomes, SysChdir, fl
  <2>6. ASSUME NEW j \in Inode
        PROVE  /\ ref'[j] - debt'[j]
                     = ref[j] - debt[j] + Mine(NoFrame, fl, w.ino, j)
                         + One(u, j) + One(None, j) + One(None, j) + One(None, j)
                         - Mine(fr[p], file[p], cwd[p].ino, j)
               /\ kind[j] = "free" => ref'[j] = 0
    <3>1. /\ ref[j] \in Nat /\ debt[j] \in Nat /\ ref'[j] = ref[j] /\ debt'[j] = debt[j]
          /\ kind[j] = "free" => ref[j] = 0
      BY FrameFacts, Alive DEF SysChdir
    <3>2. One(NoFrame.cur, j) = 0 /\ One(NoFrame.par, j) = 0 /\ One(NoFrame.old, j) = 0
          /\ One(NoFrame.oldpar, j) = 0 /\ One(None, j) = 0
      BY OneType DEF NoFrame
    <3> HIDE DEF f, i, u
    <3> QED BY ONLY <1>0, <2>2, <3>1, <3>2, OneType DEF Mine, f, i, u, fl
  <2>7. /\ drop[p] = <<>> /\ ref' \in [Inode -> Nat] /\ debt' \in [Inode -> Nat]
        /\ kind' = kind /\ kids' = kids /\ links' = links /\ stopped' = stopped
    BY FrameFacts DEF SysChdir, At
  <2> HIDE DEF f, i, u
  <2> QED BY <2>1, <2>5, <2>6, <2>7, LocalStep
<1> QED BY <1>1, <1>2

(* open() of what the path names, or of the device it names.               *)
Opened(p, fl, x, a, b) ==
    /\ \A j \in Inode : One(fl, j) + One(a, j) + One(b, j) = One(fr[p].cur, j) + One(x, j)
    /\ fr[p].par = None /\ fr[p].old = None /\ fr[p].oldpar = None /\ file[p] = None

(* open() ends with the file, or gives everything up.                      *)
LEMMA OpenStep ==
    ASSUME TreeInv, NEW p \in InodeProcess, drop[p] = <<>>, Return(p),
           NEW x \in NoneOr, NEW a \in NoneOr, NEW b \in NoneOr, Gave(p, a, b, None, None),
           NEW fl \in NoneOr, Put(file, file', p, fl),
           Took(x, None), ref' \in Counters, debt' \in Counters,
           Opened(p, fl, x, a, b),
           kind' = kind, kids' = kids, links' = links, cwd' = cwd, stopped' = stopped
    PROVE  TreeInv'
<1> DEFINE w == cwd[p]
<1>1. CallIsSound("idle", NoCall, NoFrame, fl)
  BY DEF CallIsSound, NoCall, NoFrame
<1>2. Put(cwd, cwd', p, w) /\ w.ino \in Inode
  BY FrameFacts, PutFacts
<1>3. Becomes(p, NoFrame, fl, w, "idle", NoCall)
  BY <1>1, <1>2, ReturnFacts DEF Becomes
<1>4. ASSUME NEW j \in Inode
      PROVE  /\ ref'[j] - debt'[j]
                   = ref[j] - debt[j] + Mine(NoFrame, fl, w.ino, j)
                       + One(a, j) + One(b, j) + One(None, j) + One(None, j)
                       - Mine(fr[p], file[p], cwd[p].ino, j)
             /\ kind[j] = "free" => ref'[j] = 0
  <2>1. /\ ref[j] \in Nat /\ debt[j] \in Nat /\ ref'[j] \in Nat /\ debt'[j] \in Nat
        /\ ref'[j] - debt'[j] = ref[j] - debt[j] + One(x, j) + One(None, j)
        /\ kind[j] = "free" => ref'[j] = 0
    BY DEF Took
  <2>2. /\ One(NoFrame.cur, j) = 0 /\ One(NoFrame.par, j) = 0 /\ One(NoFrame.old, j) = 0
        /\ One(NoFrame.oldpar, j) = 0 /\ One(None, j) = 0
    BY OneType DEF NoFrame
  <2>3. One(fl, j) + One(a, j) + One(b, j) = One(fr[p].cur, j) + One(x, j)
    BY DEF Opened
  <2>4. /\ One(fl, j) \in Nat /\ One(a, j) \in Nat /\ One(b, j) \in Nat
        /\ One(fr[p].cur, j) \in Nat /\ One(x, j) \in Nat /\ One(w.ino, j) \in Nat
    BY OneType
  <2>5. fr[p].par = None /\ fr[p].old = None /\ fr[p].oldpar = None /\ file[p] = None
    BY DEF Opened
  <2>6. Mine(NoFrame, fl, w.ino, j) = One(fl, j) + One(w.ino, j)
    BY ONLY <2>2, <2>4 DEF Mine
  <2>7. Mine(fr[p], file[p], cwd[p].ino, j) = One(fr[p].cur, j) + One(w.ino, j)
    BY ONLY <2>2, <2>4, <2>5 DEF Mine, w
  <2> HIDE DEF w
  <2> QED BY ONLY <2>1, <2>2, <2>3, <2>4, <2>6, <2>7
<1> HIDE DEF w
<1> QED BY <1>3, <1>4, LocalStep DEF Counters

(* open() of what the path names, or of the device that it names.          *)
LEMMA VfsOpenEndKeeps ==
    ASSUME TreeInv, NEW p \in InodeProcess, VfsOpenEnd(p)
    PROVE  TreeInv'
<1> DEFINE f == fr[p]
           i == f.cur
           d == Device
<1>0. /\ f.par = None /\ f.old = None /\ f.oldpar = None /\ i \in NoneOr /\ d \in NoneOr
      /\ file[p] = None /\ None \in NoneOr /\ IsFamily(file) /\ drop[p] = <<>>
      /\ call[p].op = "open"
  BY FrameFacts, StaticFacts DEF VfsOpenEnd, At, CallIsSound, NoneOr
<1>1. /\ debt' = debt /\ kind' = kind /\ kids' = kids /\ links' = links /\ cwd' = cwd
      /\ stopped' = stopped /\ Return(p)
  BY DEF VfsOpenEnd
<1>2. ASSUME ref' = ref
      PROVE  ref' \in Counters /\ debt' \in Counters /\ Took(None, None)
  <2>1. Ref(ref, <<>>) = ref
    BY FrameFacts, RefFacts DEF Counters
  <2> QED BY <1>0, <1>1, <1>2, <2>1, TookFacts
<1>3. ASSUME ref' = Ref(ref, <<d>>)
      PROVE  ref' \in Counters /\ debt' \in Counters /\ Took(d, None)
  <2>1. kind[d] # "free"
    BY FreeFacts, StaticFacts
  <2> QED BY <1>0, <1>1, <1>3, <2>1, TookFacts
<1>4. /\ file' = file => Put(file, file', p, None)
      /\ \A o : file' = [file EXCEPT ![p] = o] => Put(file, file', p, o)
  <2>1. Put(file, file, p, file[p])
    BY <1>0, PutFacts
  <2>2. \A o : Put(file, [file EXCEPT ![p] = o], p, o)
    BY <1>0, PutFacts
  <2> QED BY <1>0, <2>1, <2>2
<1>5. CASE ref' = ref /\ GiveUp(p, <<i>>) /\ file' = file
  <2>1. Gave(p, i, None, None, None)
    BY <1>0, <1>5, GaveFacts
  <2> HIDE DEF f, d
  <2>2. Opened(p, None, None, i, None)
    BY ONLY <1>0, OneType DEF Opened, f, i
  <2> HIDE DEF i
  <2> QED BY <1>0, <1>1, <1>2, <1>4, <1>5, <2>1, <2>2, OpenStep DEF f
<1>6. CASE ref' = ref /\ GiveUp(p, <<>>) /\ file' = [file EXCEPT ![p] = i]
  <2>1. Gave(p, None, None, None, None)
    BY <1>0, <1>6, GaveNothing
  <2> HIDE DEF f, d
  <2>2. Opened(p, i, None, None, None)
    BY ONLY <1>0, OneType DEF Opened, f, i
  <2>3. Put(file, file', p, i)
    BY <1>4, <1>6
  <2> HIDE DEF i
  <2> QED BY <1>0, <1>1, <1>2, <1>6, <2>1, <2>2, <2>3, OpenStep DEF f
<1>7. CASE ref' = Ref(ref, <<d>>) /\ GiveUp(p, <<d, i>>) /\ file' = file
  <2>1. Gave(p, d, i, None, None)
    BY <1>0, <1>7, GaveFacts
  <2> HIDE DEF f, d
  <2>2. Opened(p, None, d, d, i)
    BY ONLY <1>0, OneType DEF Opened, f, i
  <2> HIDE DEF i
  <2> QED BY <1>0, <1>1, <1>3, <1>4, <1>7, <2>1, <2>2, OpenStep DEF f
<1>8. CASE ref' = Ref(ref, <<d>>) /\ GiveUp(p, <<i>>) /\ file' = [file EXCEPT ![p] = d]
  <2>1. Gave(p, i, None, None, None)
    BY <1>0, <1>8, GaveFacts
  <2> HIDE DEF f, d
  <2>2. Opened(p, d, d, i, None)
    BY ONLY <1>0, OneType DEF Opened, f, i
  <2>3. Put(file, file', p, d)
    BY <1>4, <1>8
  <2> HIDE DEF i
  <2> QED BY <1>0, <1>1, <1>3, <1>8, <2>1, <2>2, <2>3, OpenStep DEF f
<1>9. ASSUME NEW o, NEW s, InodeOpen(p, o, s)
      PROVE  \/ GiveUp(p, <<o>> \o s) /\ file' = file
             \/ GiveUp(p, s) /\ file' = [file EXCEPT ![p] = o]
  BY <1>9 DEF InodeOpen
<1>10. CASE ~IsDevice(i)
  <2>1. InodeOpen(p, i, <<>>) /\ ref' = ref
    BY <1>10 DEF VfsOpenEnd
  <2>2. <<i>> \o <<>> = <<i>>
    BY TupleFacts
  <2> QED BY <1>5, <1>6, <1>9, <2>1, <2>2
<1>11. CASE IsDevice(i) /\ FindDevice(i) = None
  BY <1>5, <1>11 DEF VfsOpenEnd
<1>12. CASE IsDevice(i) /\ FindDevice(i) # None
  <2>1. InodeOpen(p, d, <<i>>) /\ ref' = Ref(ref, <<d>>)
    BY <1>12 DEF VfsOpenEnd, FindDevice
  <2>2. <<d>> \o <<i>> = <<d, i>>
    BY TupleFacts
  <2> QED BY <1>7, <1>8, <1>9, <2>1, <2>2
<1> QED BY <1>10, <1>11, <1>12

(* The look-up of a path name begins: what the call held is in the frame   *)
(* it begins with.                                                         *)
Kept(p, f) ==
    \A i \in Inode : One(f.old, i) + One(f.oldpar, i)
                       = One(fr[p].cur, i) + One(fr[p].par, i) + One(fr[p].old, i)
                           + One(fr[p].oldpar, i)

(* A path begins to be walked, or its components do not fit.               *)
LEMMA ResolveStep ==
    ASSUME TreeInv, NEW p \in InodeProcess, drop[p] = <<>>, drop' = drop,
           NEW path, NEW f, IsFrame(f), f.cur = None, f.par = None, Kept(p, f),
           NEW c, Put(call, call', p, c), CallIsSound("found", c, f, file[p]),
           c.op = "open" => ~c.made, ResolvePath(p, path, f),
           debt' = debt, kind' = kind, kids' = kids, links' = links,
           file' = file, cwd' = cwd, stopped' = stopped
    PROVE  TreeInv'
<1>0. /\ IsFamily(fr) /\ IsFamily(inodePc) /\ None \in NoneOr /\ Root \in NoneOr
      /\ kind[Root] # "free" /\ Root # None
  BY FrameFacts, FreeFacts, StaticFacts DEF NoneOr, Root, None
<1>1. Gave(p, None, None, None, None)
  BY FrameFacts, GaveFacts
<1> DEFINE list == CreatePathComponentList(cwd[p].path, path)
<1> HIDE DEF list
<1>2. CASE /\ ref' = Ref(ref, <<Root>>)
           /\ inodePc' = [inodePc EXCEPT ![p] = IF list = <<>> THEN "found" ELSE "walk"]
           /\ fr' = [fr EXCEPT ![p] = [f EXCEPT !.todo = list, !.cur = Root, !.rc = "ok"]]
  <2> DEFINE x == [f EXCEPT !.todo = list, !.cur = Root, !.rc = "ok"]
             at == IF list = <<>> THEN "found" ELSE "walk"
  <2>1. /\ IsFrame(x) /\ x.cur = Root /\ x.par = None /\ x.old = f.old
        /\ x.oldpar = f.oldpar /\ x.rc = "ok"
    BY <1>0 DEF IsFrame
  <2>2. Put(fr, fr', p, x) /\ Put(inodePc, inodePc', p, at)
    BY <1>0, <1>2, PutFacts
  <2>3. at \in {"found", "walk"}
    OBVIOUS
  <2> HIDE DEF x, at
  <2>4. Took(Root, None) /\ ref' \in Counters /\ debt' \in Counters
    BY <1>0, <1>2, TookFacts
  <2>5. Trade(p, x, Root, None, None, None, None, None)
    BY ONLY <2>1, Kept(p, f), OneType DEF Trade, Kept
  <2>6. Shift(p, x, None, None, None, None)
    BY <2>4, <2>5, TradeFacts
  <2>7. CallIsSound(at, c, x, file[p]) /\ KindsAreKnown(kind, at, x)
    BY <1>0, <2>1, <2>3 DEF CallIsSound, KindsAreKnown
  <2> QED BY <1>1, <2>1, <2>2, <2>4, <2>6, <2>7, CallStep DEF Counters
<1>3. CASE /\ inodePc' = [inodePc EXCEPT ![p] = "found"]
           /\ fr' = [fr EXCEPT ![p] = [f EXCEPT !.rc = "ENOMEM"]] /\ UNCHANGED ref
  <2> DEFINE x == [f EXCEPT !.rc = "ENOMEM"]
  <2>1. /\ IsFrame(x) /\ x.cur = None /\ x.par = None /\ x.old = f.old
        /\ x.oldpar = f.oldpar
    BY <1>0 DEF IsFrame
  <2>2. Put(fr, fr', p, x) /\ Put(inodePc, inodePc', p, "found")
    BY <1>0, <1>3, PutFacts
  <2> HIDE DEF x
  <2>3. Same(p, x, None, None, None, None)
    BY ONLY <2>1, Kept(p, f), OneType DEF Same, Kept
  <2>4. CallIsSound("found", c, x, file[p]) /\ KindsAreKnown(kind, "found", x)
    BY <1>0, <2>1 DEF CallIsSound, KindsAreKnown
  <2> QED BY <1>1, <1>3, <2>1, <2>2, <2>3, <2>4, QuietStep
<1> QED BY <1>2, <1>3 DEF ResolvePath, list

(* A call begins.                                                          *)
LEMMA InodeCallKeeps ==
    ASSUME TreeInv, NEW p \in InodeProcess, InodeCall(p)
    PROVE  TreeInv'
<1>1. PICK c \in Requests : /\ c.op = "open" => file[p] = None
                            /\ call' = [call EXCEPT ![p] = c]
                            /\ ResolvePath(p, c.path, NoFrame)
  BY DEF InodeCall
<1>2. /\ "op" \in DOMAIN c
      /\ c.op = "open" => ~c.made
      /\ c.op = "mknod" => c.mode \in {"reg", "chr", "nodev"}
  BY DEF Requests
<1>3. fr[p] = NoFrame
  BY FrameFacts DEF InodeCall, At, CallIsSound
<1>4. IsFrame(NoFrame) /\ NoFrame.cur = None /\ NoFrame.par = None
  BY DEF IsFrame, NoFrame, NoneOr
<1>5. Kept(p, NoFrame)
  <2>1. /\ NoFrame.cur = None /\ NoFrame.par = None /\ NoFrame.old = None
        /\ NoFrame.oldpar = None
    BY DEF NoFrame
  <2> QED BY ONLY <1>3, <2>1, OneType DEF Kept
<1>6. CallIsSound("found", c, NoFrame, file[p])
  BY <1>1, <1>2 DEF CallIsSound, NoFrame
<1>7. Put(call, call', p, c)
  BY <1>1, FrameFacts, PutFacts
<1> DEFINE f == NoFrame
           path == c.path
<1> HIDE DEF f, path
<1> QED BY <1>1, <1>2, <1>4, <1>5, <1>6, <1>7, ResolveStep DEF InodeCall, At, f, path

(* The old name of a link is found.                                        *)
LEMMA LinkOldKeeps ==
    ASSUME TreeInv, NEW p \in InodeProcess, LinkOld(p)
    PROVE  TreeInv'
<1> DEFINE f == fr[p]
<1>0. /\ f.par = None /\ f.oldpar = None /\ f.old = None /\ f.cur # None
      /\ f.cur \in NoneOr /\ "op" \in DOMAIN call[p] /\ call[p].op = "link"
  BY FrameFacts DEF LinkOld, At, CallIsSound
<1>1. CASE GiveUp(p, <<f.cur>>) /\ Return(p) /\ UNCHANGED ref
  <2>1. Gave(p, f.cur, None, None, None)
    BY <1>1, FrameFacts, GaveFacts DEF LinkOld, At
  <2>2. Same(p, NoFrame, f.cur, None, None, None)
    <3> HIDE DEF f
    <3> QED BY ONLY <1>0, OneType DEF Same, NoFrame, f
  <2> QED BY <1>1, <2>1, <2>2, QuietReturn DEF LinkOld, At
<1>2. CASE ResolvePath(p, call[p].new, [NoFrame EXCEPT !.old = f.cur])
             /\ UNCHANGED <<drop, call>>
  <2> DEFINE x == [NoFrame EXCEPT !.old = f.cur]
             path == call[p].new
  <2>1. /\ IsFrame(x) /\ x.cur = None /\ x.par = None /\ x.old = f.cur /\ x.oldpar = None
    BY <1>0 DEF IsFrame, NoFrame, NoneOr
  <2>2. ResolvePath(p, path, x)
    BY <1>2
  <2> HIDE DEF x, path
  <2>3. Kept(p, x)
    <3> HIDE DEF f
    <3> QED BY ONLY <1>0, <2>1, OneType DEF Kept, f
  <2>4. CallIsSound("found", call[p], x, file[p])
    BY <1>0, <2>1 DEF CallIsSound
  <2>5. Put(call, call', p, call[p])
    BY <1>2, FrameFacts, PutFacts
  <2> QED BY <1>0, <1>2, <2>1, <2>2, <2>3, <2>4, <2>5, ResolveStep DEF LinkOld, At
<1> QED BY <1>1, <1>2 DEF LinkOld

(* The old name of a rename is found.                                      *)
LEMMA RenameOldKeeps ==
    ASSUME TreeInv, NEW p \in InodeProcess, RenameOld(p)
    PROVE  TreeInv'
<1> DEFINE f == fr[p]
<1>0. /\ f.oldpar = None /\ f.old = None /\ f.cur # None /\ f.par \in NoneOr
      /\ f.cur \in NoneOr /\ "op" \in DOMAIN call[p] /\ call[p].op = "rename"
  BY FrameFacts DEF RenameOld, At, CallIsSound
<1>1. CASE f.par = None /\ GiveUp(p, <<f.cur>>) /\ Return(p) /\ UNCHANGED ref
  <2>1. Gave(p, f.cur, None, None, None)
    BY <1>1, FrameFacts, GaveFacts DEF RenameOld, At
  <2>2. Same(p, NoFrame, f.cur, None, None, None)
    <3> HIDE DEF f
    <3> QED BY ONLY <1>0, <1>1, OneType DEF Same, NoFrame, f
  <2> QED BY <1>1, <2>1, <2>2, QuietReturn DEF RenameOld, At
<1>2. CASE /\ f.par # None
           /\ ResolvePath(p, call[p].new, [NoFrame EXCEPT !.old = f.cur, !.oldpar = f.par,
                                                          !.oldbase = f.base])
           /\ UNCHANGED <<drop, call>>
  <2> DEFINE x == [NoFrame EXCEPT !.old = f.cur, !.oldpar = f.par, !.oldbase = f.base]
             path == call[p].new
  <2>1. /\ IsFrame(x) /\ x.cur = None /\ x.par = None /\ x.old = f.cur
        /\ x.oldpar = f.par
    BY <1>0 DEF IsFrame, NoFrame, NoneOr
  <2>2. ResolvePath(p, path, x)
    BY <1>2
  <2> HIDE DEF x, path
  <2>3. Kept(p, x)
    <3> HIDE DEF f
    <3> QED BY ONLY <1>0, <2>1, OneType DEF Kept, f
  <2>4. CallIsSound("found", call[p], x, file[p])
    BY <1>0, <1>2, <2>1 DEF CallIsSound
  <2>5. Put(call, call', p, call[p])
    BY <1>2, FrameFacts, PutFacts
  <2> QED BY <1>0, <1>2, <2>1, <2>2, <2>3, <2>4, <2>5, ResolveStep DEF RenameOld, At
<1> QED BY <1>1, <1>2 DEF RenameOld

-----------------------------------------------------------------------------
(* Entries of a directory.                                                 *)

(* A name that exists has one entry; the inode it names is alive.          *)
LEMMA EntryFacts ==
    ASSUME TreeInv, NEW d \in Inode, NEW n, n \in Names(d)
    PROVE  /\ DentryIndex(d, n) \in DOMAIN kids[d]
           /\ kids[d][DentryIndex(d, n)].name = n
           /\ DentryFind(d, n) \in Inode /\ kind[DentryFind(d, n)] # "free"
           /\ links[DentryFind(d, n)] > 0
           /\ FindMountedGuest(DentryFind(d, n)) \in Inode
           /\ kind[FindMountedGuest(DentryFind(d, n))] # "free"
<1> DEFINE k == DentryIndex(d, n)
           i == DentryFind(d, n)
<1>1. \E j \in DOMAIN kids[d] : kids[d][j].name = n
  BY DEF Names
<1>2. k \in DOMAIN kids[d] /\ kids[d][k].name = n
  BY <1>1 DEF DentryIndex
<1>3. IsList(kids[d])
  BY DEF TreeInv, TreeTypes
<1>4. i = kids[d][k].ino
  BY DEF DentryFind
<1> HIDE DEF k, i
<1>5. i \in Inode /\ Kid(kids[d], i) > 0
  BY <1>2, <1>3, <1>4, InosFacts
<1>6. kind[i] # "free" /\ links[i] > 0
  BY <1>5, Alive
<1>7. FindMountedGuest(i) = i \/ FindMountedGuest(i) = Guest
  BY StaticFacts
<1>8. Guest \in Inode /\ kind[Guest] # "free"
  BY StaticFacts, FreeFacts
<1> QED BY <1>2, <1>5, <1>6, <1>7, <1>8 DEF k, i

(* One component of a path is looked up.                                   *)
LEMMA ResolveComponentKeeps ==
    ASSUME TreeInv, NEW p \in InodeProcess, ResolveComponent(p)
    PROVE  TreeInv'
<1> DEFINE f == fr[p]
           u == f.cur
           n == Head(f.todo)
           last == Len(f.todo) = 1
           rc == InodeLookupChild(u, n)
           kept == IF last /\ WantsParent(p) THEN <<u>> ELSE <<>>
           keep == IF last /\ WantsParent(p) THEN u ELSE None
<1>0. /\ f.par = None /\ u # None /\ u \in Inode /\ u \in NoneOr
      /\ kind[u] # "free" /\ IsFrame(f) /\ IsFamily(fr) /\ IsFamily(inodePc) /\ IsFamily(call)
      /\ keep \in NoneOr /\ None \in NoneOr
      /\ debt' = debt /\ kind' = kind /\ kids' = kids /\ links' = links
      /\ file' = file /\ cwd' = cwd /\ stopped' = stopped /\ drop[p] = <<>>
      /\ GiveUp(p, <<u>>) /\ debt' \in Counters /\ (keep # None => kind[keep] # "free")
  BY FrameFacts, FreeFacts DEF ResolveComponent, At, CallIsSound, NoneOr, Counters
<1>1. Gave(p, u, None, None, None)
  BY <1>0, GaveFacts
<1>2. ASSUME NEW i \in NoneOr, NEW j \in NoneOr, NEW r, NEW at, InodeGoto(p, at),
             NEW t, NEW b, Edits(p, t, i, r, j, b), i = None \/ kind[i] # "free",
             Took(i, j), ref' \in Counters,
             at \in {"walk", "found"}, at = "walk" => i # None /\ j = None,
             j # None => WantsParent(p),
             at = "found" /\ i = None /\ j # None /\ r = "ENOENT" => kind[j] = "dir"
      PROVE  TreeInv'
  <2>1. PICK x : /\ Put(fr, fr', p, x) /\ IsFrame(x) /\ x.cur = i /\ x.par = j /\ x.rc = r
                 /\ x.old = f.old /\ x.oldpar = f.oldpar
    BY <1>2, EditFacts
  <2>2. Put(inodePc, inodePc', p, at) /\ Put(call, call', p, call[p])
    BY <1>2, GotoFacts
  <2>3. Trade(p, x, i, j, u, None, None, None)
    <3> HIDE DEF f, u
    <3> QED BY ONLY <1>0, <2>1, OneType DEF Trade, f, u
  <2>4. Shift(p, x, u, None, None, None)
    BY <1>2, <2>3, TradeFacts
  <2>5. CallIsSound(at, call[p], x, file[p])
    BY <1>2, <2>1, FrameFacts DEF ResolveComponent, At, CallIsSound, WantsParent
  <2>6. KindsAreKnown(kind, at, x)
    BY <1>2, <2>1 DEF KindsAreKnown
  <2> HIDE DEF u
  <2> QED BY <1>0, <1>1, <1>2, <2>1, <2>2, <2>4, <2>5, <2>6, CallStep DEF Counters
<1>3. CASE last /\ WantsParent(p) /\ InodeGoto(p, "found") /\ ref' = ref
             /\ fr' = [fr EXCEPT ![p].todo = <<>>, ![p].cur = None, ![p].rc = "ENOMEM"]
  <2>1. Edits(p, <<>>, None, "ENOMEM", None, f.base)
    BY <1>0, <1>3 DEF Edits, Edit, IsFrame, IsFamily
  <2>2. ref' = Ref(ref, <<>>)
    BY <1>3, FrameFacts, RefFacts DEF Counters
  <2>3. Took(None, None) /\ ref' \in Counters
    BY <1>0, <2>2, TookFacts
  <2> QED BY <1>0, <1>2, <1>3, <2>1, <2>3
<1>4. kept = <<keep>> \/ (kept = <<>> /\ keep = None)
  OBVIOUS
<1>5. rc = "ENOENT" => kind[u] = "dir"
  BY DEF InodeLookupChild
<1>6. CASE /\ rc = "ok"
           /\ LET child == FindMountedGuest(DentryFind(u, n))
              IN  /\ ref' = Ref(ref, <<child>> \o kept)
                  /\ IF last
                     THEN ResolveEnd(p, child, "ok") /\ InodeGoto(p, "found")
                     ELSE /\ fr' = [fr EXCEPT ![p].todo = Tail(@), ![p].cur = child]
                          /\ InodeGoto(p, "walk")
  <2> DEFINE i == FindMountedGuest(DentryFind(u, n))
  <2>1. i \in Inode /\ i \in NoneOr /\ i # None /\ kind[i] # "free"
    <3>1. n \in Names(u)
      BY <1>6 DEF InodeLookupChild, DentryExists
    <3> HIDE DEF n, u
    <3>2. i \in Inode /\ kind[i] # "free"
      BY <1>0, <3>1, EntryFacts
    <3> QED BY <3>2 DEF NoneOr, None, Inode
  <2>2. \/ <<i>> \o kept = <<i, keep>>
        \/ <<i>> \o kept = <<i>> /\ keep = None
    BY <1>4, TupleFacts
  <2> HIDE DEF kept
  <2>3. Took(i, keep) /\ ref' \in Counters
    <3> DEFINE s == <<i>> \o kept
    <3>1. ref' = Ref(ref, s)
      BY <1>6
    <3> HIDE DEF s, i, keep
    <3>2. s = <<i, keep>> \/ (s = <<i>> /\ keep = None)
      BY <2>2 DEF s
    <3> QED BY <1>0, <2>1, <3>1, <3>2, TookFacts
  <2>4. CASE last
    <3>1. ResolveEnd(p, i, "ok") /\ InodeGoto(p, "found")
      BY <1>6, <2>4
    <3>2. Edits(p, <<>>, i, "ok", keep, n)
      BY <1>0, <2>4, <3>1 DEF ResolveEnd, Edits, Edit, IsFrame, IsFamily
    <3> HIDE DEF i
    <3> QED BY <1>0, <1>2, <2>1, <2>3, <2>4, <3>1, <3>2
  <2>5. CASE ~last
    <3>1. fr' = [fr EXCEPT ![p].todo = Tail(@), ![p].cur = i] /\ InodeGoto(p, "walk")
      BY <1>6, <2>5
    <3>2. Edits(p, Tail(f.todo), i, f.rc, None, f.base)
      BY <1>0, <3>1 DEF Edits, Edit, IsFrame, IsFamily
    <3> HIDE DEF i
    <3> QED BY <1>0, <1>2, <2>1, <2>3, <2>5, <3>1, <3>2
  <2> QED BY <2>4, <2>5
<1>7. CASE /\ rc # "ok"
           /\ IF last THEN ResolveEnd(p, None, rc)
              ELSE fr' = [fr EXCEPT ![p].todo = <<>>, ![p].cur = None, ![p].rc = rc]
           /\ ref' = Ref(ref, kept) /\ InodeGoto(p, "found")
  <2>1. Took(keep, None) /\ ref' \in Counters
    <3> HIDE DEF kept, keep
    <3> QED BY <1>0, <1>4, <1>7, TookFacts
  <2>2. Took(None, keep)
    BY <2>1 DEF Took, One
  <2> HIDE DEF rc
  <2>3. CASE last
    <3>1. Edits(p, <<>>, None, rc, keep, n)
      BY <1>0, <1>7, <2>3 DEF ResolveEnd, Edits, Edit, IsFrame, IsFamily
    <3> QED BY <1>0, <1>2, <1>5, <1>7, <2>1, <2>2, <2>3, <3>1
  <2>4. CASE ~last
    <3>1. Edits(p, <<>>, None, rc, None, f.base)
      BY <1>0, <1>7, <2>4 DEF Edits, Edit, IsFrame, IsFamily
    <3> QED BY <1>0, <1>2, <1>7, <2>1, <2>2, <2>4, <3>1
  <2> QED BY <2>3, <2>4
<1> QED BY <1>3, <1>6, <1>7 DEF ResolveComponent

-----------------------------------------------------------------------------
(* Inodes: the actions that change the tree.                               *)

(* A step of a call that changes the entries of one directory.             *)
Has(f, i) == One(f.cur, i) + One(f.par, i) + One(f.old, i) + One(f.oldpar, i)
Gives(a, b, g, d, i) == One(a, i) + One(b, i) + One(g, i) + One(d, i)

(* What a frame names and what a step gives up are counted.                *)
LEMMA HasFacts ==
    ASSUME NEW i
    PROVE  /\ \A f : Has(f, i) \in Nat
           /\ \A f, fl, w : Mine(f, fl, w, i) = Has(f, i) + (One(fl, i) + One(w, i))
           /\ \A a, b, g, d : Gives(a, b, g, d, i) \in Nat
<1>1. \A x : One(x, i) \in Nat
  BY DEF One
<1> QED BY ONLY <1>1 DEF Has, Mine, Gives

Moved(p, f, a, b, g, d, o) ==
    \A i \in Inode :
       /\ links'[i] = links[i] + Kid(kids'[o], i) - Kid(kids[o], i)
       /\ ref'[i] - debt'[i]
             = ref[i] - debt[i] + Kid(kids'[o], i) - Kid(kids[o], i)
                 + (Has(f, i) + Gives(a, b, g, d, i)) - Has(fr[p], i)
       /\ kind'[i] = "free" => ref'[i] = 0
       /\ kind[i] # "free" /\ kind'[i] # "free" => (kind'[i] = "dir" <=> kind[i] = "dir")

(* The invariant after a step of a call that changes one directory.        *)
LEMMA TreeCallStep ==
    ASSUME TreeInv, NEW p \in InodeProcess, drop[p] = <<>>, NEW f, NEW at, NEW c,
           IsFrame(f), CallIsSound(at, c, f, file[p]), KindsAreKnown(kind', at, f),
           Put(fr, fr', p, f), Put(inodePc, inodePc', p, at), Put(call, call', p, c),
           NEW a, NEW b, NEW g, NEW d, Gave(p, a, b, g, d),
           NEW o \in Inode, OnlyKidsOf(o), Moved(p, f, a, b, g, d, o),
           ref' \in Counters, debt' \in Counters, links' \in Counters,
           kind' \in [Inode -> Kinds], file' = file, cwd' = cwd, stopped' = stopped
    PROVE  TreeInv'
<1> DEFINE fl == file[p]
           w == cwd[p]
<1>1. file[p] \in NoneOr /\ cwd[p].ino \in Inode /\ IsFamily(cwd) /\ IsFamily(file)
  BY FrameFacts
<1>2. Put(file, file', p, fl) /\ Put(cwd, cwd', p, w)
  BY <1>1 DEF Put, IsFamily
<1>3. Becomes(p, f, fl, w, at, c)
  BY <1>1, <1>2 DEF Becomes
<1>4. PICK dr \in Seq(Inode) :
         /\ Put(drop, drop', p, dr)
         /\ \A i \in Inode : Cnt(dr, i) = One(a, i) + One(b, i) + One(g, i) + One(d, i)
  BY DEF Gave
<1>5. ASSUME NEW i \in Inode
      PROVE  /\ links'[i] = links[i] + Kid(kids'[o], i) - Kid(kids[o], i)
             /\ ref'[i] - debt'[i]
                   = ref[i] - debt[i] + Kid(kids'[o], i) - Kid(kids[o], i)
                       + (Mine(f, fl, w.ino, i) + Cnt(dr, i))
                       - (Mine(fr[p], file[p], cwd[p].ino, i) + Cnt(drop[p], i))
             /\ kind'[i] = "free" => ref'[i] = 0
             /\ kind[i] # "free" /\ kind'[i] # "free" => (kind'[i] = "dir" <=> kind[i] = "dir")
  <2> DEFINE V == One(fl, i) + One(w.ino, i)
  <2>1. /\ Has(f, i) \in Nat /\ Has(fr[p], i) \in Nat /\ Gives(a, b, g, d, i) \in Nat
        /\ V \in Nat
        /\ Mine(f, fl, w.ino, i) = Has(f, i) + V
        /\ Mine(fr[p], file[p], cwd[p].ino, i) = Has(fr[p], i) + V
    <3>1. One(fl, i) \in Nat /\ One(w.ino, i) \in Nat
      BY OneType
    <3>2. V \in Nat
      BY ONLY <3>1
    <3>3. Has(f, i) \in Nat /\ Has(fr[p], i) \in Nat /\ Gives(a, b, g, d, i) \in Nat
      BY ONLY HasFacts
    <3>4. /\ Mine(f, fl, w.ino, i) = Has(f, i) + V
          /\ Mine(fr[p], fl, w.ino, i) = Has(fr[p], i) + V
      BY ONLY HasFacts
    <3> QED BY ONLY <3>2, <3>3, <3>4
  <2>2. ref[i] \in Nat /\ debt[i] \in Nat /\ ref'[i] \in Nat /\ debt'[i] \in Nat
    BY FrameFacts DEF Counters
  <2>3. Kid(kids[o], i) \in Nat /\ Kid(kids'[o], i) \in Nat
    BY InosFacts DEF TreeInv, TreeTypes, OnlyKidsOf
  <2>4. Cnt(drop[p], i) = 0 /\ Cnt(dr, i) = Gives(a, b, g, d, i)
    BY <1>4, CntNone DEF Gives
  <2>5. /\ links'[i] = links[i] + Kid(kids'[o], i) - Kid(kids[o], i)
        /\ ref'[i] - debt'[i]
              = ref[i] - debt[i] + Kid(kids'[o], i) - Kid(kids[o], i)
                  + (Has(f, i) + Gives(a, b, g, d, i)) - Has(fr[p], i)
        /\ kind'[i] = "free" => ref'[i] = 0
        /\ kind[i] # "free" /\ kind'[i] # "free" => (kind'[i] = "dir" <=> kind[i] = "dir")
    BY DEF Moved
  <2> HIDE DEF V
  <2>6. ref'[i] - debt'[i]
           = ref[i] - debt[i] + Kid(kids'[o], i) - Kid(kids[o], i)
               + (Mine(f, fl, w.ino, i) + Cnt(dr, i))
               - (Mine(fr[p], file[p], cwd[p].ino, i) + Cnt(drop[p], i))
    BY ONLY <2>1, <2>2, <2>3, <2>4, <2>5
  <2> QED BY <2>5, <2>6
<1>6. Moves(p, f, fl, w, dr, o)
  BY ONLY <1>5 DEF Moves
<1> HIDE DEF fl, w
<1> QED BY ONLY <1>3, <1>4, <1>6, TreeInv, p \in InodeProcess, o \in Inode, OnlyKidsOf(o),
       ref' \in Counters, debt' \in Counters, links' \in Counters,
       kind' \in [Inode -> Kinds], stopped' = stopped, TreeStep DEF Counters

(* A name is appended to a directory that does not have it.                *)
LEMMA AppendFacts ==
    ASSUME TreeInv, NEW d \in Inode, NEW n, n \notin Names(d), NEW i \in Inode,
           kids' = DentryAppend(d, n, i), kind'[d] = "dir",
           \A e \in Inode : kind'[e] = "free" => kind[e] = "free"
    PROVE  /\ OnlyKidsOf(d)
           /\ \A j : Kid(kids'[d], j) = Kid(kids[d], j) + One(i, j) /\ Kid(kids[d], j) \in Nat
<1> DEFINE s == kids[d]
           e == Entry(n, i)
           t == Append(s, e)
<1>1. IsList(s) /\ UniqueNames(s) /\ DOMAIN kids = Inode
  BY DEF TreeInv, TreeTypes, NamesAreUnique, UniqueNames
<1>2. kids' = [kids EXCEPT ![d] = t]
  BY DEF DentryAppend
<1>3. PICK S : s \in Seq(S) /\ \A x \in S : x.ino \in Inode
  BY <1>1 DEF IsList
<1>4. e.name = n /\ e.ino = i
  BY DEF Entry
<1>5. \A k \in DOMAIN s : s[k].name # n
  BY DEF Names
<1> HIDE DEF s, e
<1> DEFINE T == S \cup {e}
<1>6. s \in Seq(T) /\ e \in T
  <2>1. S \subseteq T
    OBVIOUS
  <2> HIDE DEF T
  <2>2. s \in Seq(T)
    BY <1>3, <2>1, SeqMonotonic
  <2> QED BY <2>2 DEF T
<1>7. \A x \in T : x.ino \in Inode
  BY <1>3, <1>4
<1> HIDE DEF T
<1>8. /\ t \in Seq(T) /\ Len(t) = Len(s) + 1 /\ Len(s) \in Nat /\ DOMAIN s = 1..Len(s)
      /\ DOMAIN t = 1 .. Len(s) + 1
      /\ \A k \in 1..Len(s) : t[k] = s[k]
      /\ t[Len(s) + 1] = e
  BY <1>6, AppendProperties, LenProperties
<1> HIDE DEF t
<1>9. IsList(t)
  BY <1>7, <1>8 DEF IsList
<1>10. UniqueNames(t)
  <2> SUFFICES ASSUME NEW j \in DOMAIN t, NEW k \in DOMAIN t, t[j].name = t[k].name
               PROVE  j = k
    BY DEF UniqueNames
  <2>1. CASE j \in 1..Len(s) /\ k \in 1..Len(s)
    BY <1>1, <1>8, <2>1 DEF UniqueNames
  <2>2. CASE j = Len(s) + 1 /\ k \in 1..Len(s)
    BY <1>4, <1>5, <1>8, <2>2
  <2>3. CASE k = Len(s) + 1 /\ j \in 1..Len(s)
    BY <1>4, <1>5, <1>8, <2>3
  <2>4. CASE k = Len(s) + 1 /\ j = Len(s) + 1
    BY <2>4
  <2> QED BY <1>8, <2>1, <2>2, <2>3, <2>4
<1>11. kids'[d] = t /\ DOMAIN kids' = Inode /\ \A x \in Inode : x # d => kids'[x] = kids[x]
  BY <1>1, <1>2
<1>12. OnlyKidsOf(d)
  BY <1>9, <1>10, <1>11 DEF OnlyKidsOf
<1>13. ASSUME NEW j
       PROVE  Kid(t, j) = Kid(s, j) + One(i, j) /\ Kid(s, j) \in Nat
  <2>1. /\ Inos(s) \in Seq(Inode) /\ Inos(t) \in Seq(Inode) /\ Len(Inos(s)) = Len(s)
        /\ Len(Inos(t)) = Len(t) /\ Kid(s, j) \in Nat
    BY <1>1, <1>9, InosFacts
  <2> DEFINE u == Append(Inos(s), i)
             v == Inos(t)
  <2>2. /\ u \in Seq(Inode) /\ Len(u) = Len(s) + 1
        /\ \A k \in 1..Len(s) : u[k] = Inos(s)[k]
        /\ u[Len(s) + 1] = i
    BY <2>1, AppendProperties
  <2>3. \A k \in 1..Len(s) : Inos(s)[k] = s[k].ino
    BY <1>8 DEF Inos
  <2>4. \A k \in 1 .. Len(s) + 1 : v[k] = t[k].ino
    BY <1>8 DEF Inos
  <2>5. \A k \in 1 .. Len(s) + 1 : v[k] = u[k]
    <3> HIDE DEF u, v
    <3> QED BY <1>4, <1>8, <2>2, <2>3, <2>4
  <2>6. v = u
    <3>1. v \in Seq(Inode) /\ Len(v) = Len(s) + 1
      BY <1>8, <2>1
    <3> HIDE DEF u, v
    <3> QED BY ONLY <2>2, <2>5, <3>1, SeqEqual
  <2>7. Cnt(u, j) = Cnt(Inos(s), j) + One(i, j)
    BY <2>1, CntEnds
  <2> HIDE DEF u
  <2> QED BY <2>1, <2>6, <2>7 DEF Kid
<1> QED BY <1>11, <1>12, <1>13 DEF s

(* The entry of a name is removed from a directory.                        *)
LEMMA RemoveFacts ==
    ASSUME TreeInv, NEW d \in Inode, NEW n, n \in Names(d), kids' = DentryRemove(d, n),
           kind' = kind
    PROVE  /\ OnlyKidsOf(d)
           /\ \A j : /\ Kid(kids'[d], j) = Kid(kids[d], j) - One(DentryFind(d, n), j)
                     /\ Kid(kids[d], j) \in Nat /\ Kid(kids'[d], j) \in Nat
<1> DEFINE s == kids[d]
           k == DentryIndex(d, n)
           t == RemoveAt(s, k)
<1>1. /\ IsList(s) /\ UniqueNames(s) /\ DOMAIN kids = Inode /\ (s # <<>> => kind[d] = "dir")
  BY DEF TreeInv, TreeTypes, NamesAreUnique, UniqueNames
<1>2. k \in DOMAIN s
  BY EntryFacts
<1>3. kids' = [kids EXCEPT ![d] = t]
  BY DEF DentryRemove
<1>4. DentryFind(d, n) = s[k].ino
  BY DEF DentryFind
<1>5. PICK S : s \in Seq(S) /\ \A x \in S : x.ino \in Inode
  BY <1>1 DEF IsList
<1> HIDE DEF s, k, t
<1>6. /\ t \in Seq(S) /\ Len(t) = Len(s) - 1
      /\ \A j \in DOMAIN t : t[j] = IF j < k THEN s[j] ELSE s[j + 1]
  BY <1>2, <1>5, CntRemoveAt DEF t
<1>7. /\ Len(s) \in Nat /\ DOMAIN s = 1..Len(s) /\ DOMAIN t = 1 .. Len(s) - 1
  BY <1>5, <1>6, LenProperties
<1>8. IsList(t)
  BY <1>5, <1>6 DEF IsList
<1>9. UniqueNames(t)
  <2> SUFFICES ASSUME NEW i \in DOMAIN t, NEW j \in DOMAIN t, t[i].name = t[j].name
               PROVE  i = j
    BY DEF UniqueNames
  <2> DEFINE f(x) == IF x < k THEN x ELSE x + 1
  <2>1. f(i) \in DOMAIN s /\ f(j) \in DOMAIN s /\ t[i] = s[f(i)] /\ t[j] = s[f(j)]
    BY <1>2, <1>6, <1>7
  <2>2. f(i) = f(j)
    <3> HIDE DEF f
    <3> QED BY <1>1, <2>1 DEF UniqueNames
  <2> QED BY <1>2, <1>7, <2>2
<1>10. kids'[d] = t /\ DOMAIN kids' = Inode /\ \A x \in Inode : x # d => kids'[x] = kids[x]
  BY <1>1, <1>3
<1>11. t # <<>> => kind'[d] = "dir"
  <2>1. s # <<>>
    BY <1>2, <1>7
  <2> QED BY <1>1, <2>1
<1>12. OnlyKidsOf(d)
  BY <1>8, <1>9, <1>10, <1>11 DEF OnlyKidsOf
<1>13. ASSUME NEW j
       PROVE  Kid(t, j) = Kid(s, j) - One(s[k].ino, j) /\ Kid(s, j) \in Nat /\ Kid(t, j) \in Nat
  <2>1. /\ Inos(s) \in Seq(Inode) /\ Inos(t) \in Seq(Inode) /\ Len(Inos(s)) = Len(s)
        /\ Len(Inos(t)) = Len(t) /\ Kid(s, j) \in Nat /\ Kid(t, j) \in Nat
    BY <1>1, <1>8, InosFacts
  <2> DEFINE r == Inos(s)
             u == RemoveAt(r, k)
             v == Inos(t)
  <2>2. r \in Seq(Inode) /\ k \in DOMAIN r /\ DOMAIN r = 1..Len(s) /\ \A x \in DOMAIN s : r[x] = s[x].ino
    BY <1>2, <1>7, <2>1 DEF Inos
  <2>3. v \in Seq(Inode) /\ Len(v) = Len(s) - 1 /\ \A x \in DOMAIN t : v[x] = t[x].ino
    BY <1>6, <2>1 DEF Inos
  <2> HIDE DEF r, v
  <2>4. /\ u \in Seq(Inode) /\ Len(u) = Len(r) - 1
        /\ \A x \in DOMAIN u : u[x] = IF x < k THEN r[x] ELSE r[x + 1]
        /\ Cnt(u, j) = Cnt(r, j) - One(r[k], j)
    <3>1. r \in Seq(Inode) /\ k \in DOMAIN r
      BY <2>2
    <3>2. Cnt(RemoveAt(r, k), j) = Cnt(r, j) - One(r[k], j)
      BY ONLY <3>1, CntRemoveAt
    <3>3. /\ RemoveAt(r, k) \in Seq(Inode) /\ Len(RemoveAt(r, k)) = Len(r) - 1
          /\ \A x \in DOMAIN RemoveAt(r, k) :
                RemoveAt(r, k)[x] = IF x < k THEN r[x] ELSE r[x + 1]
      BY ONLY <3>1, CntRemoveAt
    <3> QED BY ONLY <3>2, <3>3
  <2> HIDE DEF u
  <2>5. DOMAIN u = 1 .. Len(s) - 1 /\ Len(u) = Len(s) - 1
    BY <2>1, <2>4, LenProperties DEF r
  <2>6. \A x \in 1 .. Len(s) - 1 : v[x] = u[x]
    BY <1>2, <1>6, <1>7, <2>2, <2>3, <2>4, <2>5
  <2>7. v = u
    BY ONLY <2>3, <2>4, <2>5, <2>6, SeqEqual
  <2>8. r[k] = s[k].ino
    BY <1>2, <2>2
  <2> QED BY <2>1, <2>4, <2>7, <2>8 DEF Kid, r, v
<1> QED BY <1>4, <1>10, <1>12, <1>13 DEF s, k

(* inode_unlink_child() of a name that exists.                             *)
LEMMA UnlinkStep ==
    ASSUME TreeInv, NEW p \in InodeProcess, drop[p] = <<>>, NEW d \in Inode,
           NEW n, n \in Names(d), NEW f, NEW at, NEW c,
           IsFrame(f), CallIsSound(at, c, f, file[p]), KindsAreKnown(kind, at, f),
           Put(fr, fr', p, f), Put(inodePc, inodePc', p, at), Put(call, call', p, c),
           NEW a, Gave(p, a, DentryFind(d, n), None, None),
           \A i \in Inode : Has(f, i) + One(a, i) = Has(fr[p], i),
           kids' = DentryRemove(d, n),
           links' = [links EXCEPT ![DentryFind(d, n)] = @ - 1],
           ref' = ref, debt' = debt, kind' = kind, file' = file, cwd' = cwd,
           stopped' = stopped
    PROVE  TreeInv'
<1> DEFINE e == DentryFind(d, n)
<1>1. e \in Inode /\ links[e] > 0
  BY EntryFacts
<1>2. /\ OnlyKidsOf(d)
      /\ \A j : /\ Kid(kids'[d], j) = Kid(kids[d], j) - One(e, j)
                /\ Kid(kids[d], j) \in Nat /\ Kid(kids'[d], j) \in Nat
  BY RemoveFacts
<1>3. links \in Counters /\ ref' \in Counters /\ debt' \in Counters /\ kind' \in [Inode -> Kinds]
  BY DEF TreeInv, TreeTypes, Counters
<1> HIDE DEF e
<1>4. links' = [links EXCEPT ![e] = @ - 1]
  BY DEF e
<1>5. links' \in Counters
  BY ONLY <1>1, <1>3, <1>4 DEF Counters
<1>6. ASSUME NEW i \in Inode
      PROVE  /\ links'[i] = links[i] + Kid(kids'[d], i) - Kid(kids[d], i)
             /\ ref'[i] - debt'[i]
                   = ref[i] - debt[i] + Kid(kids'[d], i) - Kid(kids[d], i)
                       + (Has(f, i) + Gives(a, e, None, None, i)) - Has(fr[p], i)
             /\ kind'[i] = "free" => ref'[i] = 0
             /\ kind[i] # "free" /\ kind'[i] # "free" => (kind'[i] = "dir" <=> kind[i] = "dir")
  <2>1. links[i] \in Nat /\ links'[i] = links[i] - One(e, i) /\ One(e, i) \in Nat
    BY ONLY <1>1, <1>3, <1>4 DEF Counters, One
  <2>2. Kid(kids'[d], i) = Kid(kids[d], i) - One(e, i) /\ Kid(kids[d], i) \in Nat
    BY <1>2
  <2>3. /\ ref[i] \in Nat /\ debt[i] \in Nat /\ ref'[i] = ref[i] /\ debt'[i] = debt[i]
        /\ kind'[i] = kind[i] /\ (kind[i] = "free" => ref[i] = 0)
    BY FrameFacts, Alive
  <2>4. Has(f, i) + One(a, i) = Has(fr[p], i) /\ Has(f, i) \in Nat /\ One(a, i) \in Nat
    BY HasFacts, OneType
  <2>5. Gives(a, e, None, None, i) = One(a, i) + One(e, i)
    BY ONLY OneType, i \in Inode DEF Gives
  <2> HIDE DEF Kid
  <2> QED BY ONLY <2>1, <2>2, <2>3, <2>4, <2>5
<1>7. Moved(p, f, a, e, None, None, d)
  BY ONLY <1>6 DEF Moved
<1>8. Gave(p, a, e, None, None)
  BY DEF e
<1>9. KindsAreKnown(kind', at, f)
  OBVIOUS
<1> QED BY <1>2, <1>3, <1>5, <1>7, <1>8, <1>9, TreeCallStep

(* unlink() and rmdir() remove the name; so does rename(), in the end.     *)
LEMMA UnlinkLastKeeps ==
    ASSUME TreeInv, NEW p \in InodeProcess, UnlinkLast(p)
    PROVE  TreeInv'
<1> DEFINE f == fr[p]
           d == f.par
           n == f.base
           e == DentryFind(d, n)
<1>0. /\ d \in Inode /\ d \in NoneOr /\ f.cur = None /\ f.old = None /\ f.oldpar = None
      /\ drop[p] = <<>>
  BY FrameFacts DEF UnlinkLast, At, CallIsSound, NoneOr
<1>1. CASE n \in Names(d) /\ UnlinkChild(p, n, <<d>>, Return(p))
  <2>1. e \in Inode /\ links[e] > 0 /\ e \in NoneOr
    <3>1. n \in Names(d)
      BY <1>1
    <3> HIDE DEF d, n
    <3> QED BY <1>0, <3>1, EntryFacts DEF NoneOr
  <2>2. <<d>> \o <<e>> = <<d, e>>
    BY TupleFacts
  <2>3. /\ kids' = DentryRemove(d, n) /\ links' = [links EXCEPT ![e] = @ - 1]
        /\ GiveUp(p, <<d>> \o <<e>>) /\ Return(p)
        /\ ref' = ref /\ debt' = debt /\ kind' = kind /\ file' = file /\ cwd' = cwd
        /\ stopped' = stopped
    BY <1>1, <2>1 DEF UnlinkChild
  <2>4. Gave(p, d, e, None, None)
    <3>1. GiveUp(p, <<d, e>>)
      BY <2>2, <2>3
    <3> HIDE DEF d, e
    <3> QED BY <1>0, <2>1, <3>1, GaveFacts
  <2>5. \A i \in Inode : Has(NoFrame, i) + One(d, i) = Has(fr[p], i)
    <3>1. /\ NoFrame.cur = None /\ NoFrame.par = None /\ NoFrame.old = None
          /\ NoFrame.oldpar = None
      BY DEF NoFrame
    <3> HIDE DEF f
    <3> QED BY ONLY <1>0, <3>1, OneType DEF Has, f
  <2> DEFINE g == NoFrame
             at == "idle"
             c == NoCall
  <2>6. /\ IsFrame(g) /\ CallIsSound(at, c, g, file[p]) /\ KindsAreKnown(kind, at, g)
        /\ Put(fr, fr', p, g) /\ Put(inodePc, inodePc', p, at) /\ Put(call, call', p, c)
    BY <2>3, ReturnFacts
  <2>7. n \in Names(d)
    BY <1>1
  <2> HIDE DEF g, at, c
  <2>8. \A i \in Inode : Has(g, i) + One(d, i) = Has(fr[p], i)
    BY <2>5 DEF g
  <2> HIDE DEF d, n
  <2> QED BY <1>0, <2>3, <2>4, <2>6, <2>7, <2>8, UnlinkStep DEF e
<1>2. CASE GiveUp(p, <<d>>) /\ Return(p) /\ UNCHANGED <<ref, debt, kind, kids, links, file, cwd, stopped>>
  <2>1. Gave(p, d, None, None, None)
    BY <1>0, <1>2, GaveFacts, FrameFacts
  <2>2. Same(p, NoFrame, d, None, None, None)
    <3> HIDE DEF f
    <3> QED BY ONLY <1>0, OneType DEF Same, NoFrame, f
  <2> QED BY <1>0, <1>2, <2>1, <2>2, QuietReturn
<1> QED BY <1>1, <1>2 DEF UnlinkLast

(* rename() removes the target's name before it makes the new entry.       *)
LEMMA RenameReplaceKeeps ==
    ASSUME TreeInv, NEW p \in InodeProcess, RenameReplace(p)
    PROVE  TreeInv'
<1> DEFINE f == fr[p]
           d == f.par
           n == f.base
           e == DentryFind(d, n)
<1>0. d \in NoneOr /\ drop[p] = <<>> /\ f.old # None
  BY FrameFacts DEF RenameReplace, At, CallIsSound
<1>1. CASE Panic("null_parent") \/ Panic("stale_target")
  BY <1>1, PanicKeeps
<1>2. CASE d # None /\ n \in Names(d)
             /\ UnlinkChild(p, n, <<>>, InodeGoto(p, "link") /\ UNCHANGED fr)
  <2>1. d \in Inode /\ e \in Inode /\ links[e] > 0 /\ e \in NoneOr /\ n \in Names(d)
    <3>1. n \in Names(d) /\ d \in Inode
      BY <1>0, <1>2 DEF NoneOr
    <3> HIDE DEF d, n
    <3> QED BY <3>1, EntryFacts DEF NoneOr
  <2>2. <<>> \o <<e>> = <<e>>
    BY TupleFacts
  <2>3. /\ kids' = DentryRemove(d, n) /\ links' = [links EXCEPT ![e] = @ - 1]
        /\ GiveUp(p, <<>> \o <<e>>) /\ InodeGoto(p, "link") /\ fr' = fr
        /\ ref' = ref /\ debt' = debt /\ kind' = kind /\ file' = file /\ cwd' = cwd
        /\ stopped' = stopped
    BY <1>2, <2>1 DEF UnlinkChild
  <2>4. Gave(p, None, e, None, None)
    <3>1. GiveUp(p, <<e>>)
      BY <2>2, <2>3
    <3> HIDE DEF e
    <3>2. Gave(p, e, None, None, None)
      BY <1>0, <2>1, <3>1, GaveFacts, FrameFacts
    <3>3. \A i : One(e, i) + One(None, i) + One(None, i) + One(None, i)
                   = One(None, i) + One(e, i) + One(None, i) + One(None, i)
      BY ONLY OneType
    <3> QED BY <3>2, <3>3 DEF Gave
  <2>5. ASSUME NEW i \in Inode
        PROVE  Has(f, i) + One(None, i) = Has(fr[p], i)
    <3>1. Has(f, i) \in Nat
      BY ONLY HasFacts
    <3>2. One(None, i) = 0
      BY OneType
    <3> QED BY ONLY <3>1, <3>2
  <2>6. kind[d] = "dir"
    BY <2>1 DEF Names, TreeInv, NamesAreUnique
  <2>7. CallIsSound("link", call[p], f, file[p]) /\ KindsAreKnown(kind, "link", f)
    BY <1>2, <2>6, FrameFacts DEF RenameReplace, At, CallIsSound, KindsAreKnown
  <2>8. /\ IsFrame(f) /\ Put(fr, fr', p, f) /\ Put(inodePc, inodePc', p, "link")
        /\ Put(call, call', p, call[p])
    BY <2>3, FrameFacts, GotoFacts
  <2> DEFINE at == "link"
             c == call[p]
  <2>9. /\ IsFrame(f) /\ CallIsSound(at, c, f, file[p]) /\ KindsAreKnown(kind, at, f)
        /\ Put(fr, fr', p, f) /\ Put(inodePc, inodePc', p, at) /\ Put(call, call', p, c)
    BY <2>7, <2>8
  <2> HIDE DEF at, c, d, n, f
  <2> QED BY <1>0, <2>1, <2>3, <2>4, <2>5, <2>9, UnlinkStep DEF e
<1>3. CASE GiveUp(p, <<f.oldpar, f.old, d, f.cur>>) /\ Return(p)
             /\ UNCHANGED <<ref, debt, kind, kids, links, file, cwd, stopped>>
  <2>1. Gave(p, f.oldpar, f.old, d, f.cur)
    BY <1>0, <1>3, GaveFacts, FrameFacts
  <2>2. Same(p, NoFrame, f.oldpar, f.old, d, f.cur)
    <3> HIDE DEF f
    <3> QED BY ONLY OneType DEF Same, NoFrame, f
  <2> QED BY <1>0, <1>3, <2>1, <2>2, QuietReturn
<1> QED BY <1>1, <1>2, <1>3 DEF RenameReplace

(* An inode gets one more name.                                            *)
LEMMA LinkChildKeeps ==
    ASSUME TreeInv, NEW p \in InodeProcess, LinkChild(p)
    PROVE  TreeInv'
<1> DEFINE f == fr[p]
           d == f.par
           o == f.old
           n == f.base
           u == f.cur
           v == f.oldpar
<1>0. /\ d \in Inode /\ d \in NoneOr /\ o \in Inode /\ o \in NoneOr /\ u \in NoneOr
      /\ v \in NoneOr /\ None \in NoneOr /\ drop[p] = <<>> /\ stopped = "no"
      /\ kind[d] = "dir" /\ kind[o] # "free"
  BY FrameFacts, FreeFacts DEF LinkChild, At, CallIsSound, KindsAreKnown, NoneOr
<1>1. /\ ref \in Counters /\ debt \in Counters /\ links \in Counters
      /\ kind \in [Inode -> Kinds]
  BY DEF TreeInv, TreeTypes, Counters
<1>2. CASE Panic("stale_target")
  BY <1>2, PanicKeeps
<1>3. CASE GiveUp(p, <<o>> \o <<d, v, u>>) /\ Return(p)
             /\ UNCHANGED <<kind, ref, links, kids, file, cwd, debt, stopped>>
  <2>1. <<o>> \o <<d, v, u>> = <<o, d, v, u>>
    BY TupleFacts
  <2>2. Gave(p, o, d, v, u)
    <3>1. GiveUp(p, <<o, d, v, u>>)
      BY <1>3, <2>1
    <3> HIDE DEF o, d, v, u
    <3> QED BY <1>0, <3>1, GaveFacts
  <2>3. Same(p, NoFrame, o, d, v, u)
    <3> HIDE DEF f
    <3> QED BY ONLY OneType DEF Same, NoFrame, f
  <2> QED BY <1>0, <1>3, <2>2, <2>3, QuietReturn
<1>4. CASE GiveUp(p, <<>> \o <<d, v, u>>) /\ Return(p) /\ Forget(<<o>>)
             /\ UNCHANGED <<kind, ref, links, kids, file, cwd, stopped>>
  <2>1. <<>> \o <<d, v, u>> = <<d, v, u>>
    BY TupleFacts
  <2>2. Gave(p, d, v, u, None)
    <3>1. GiveUp(p, <<d, v, u>>)
      BY <1>4, <2>1
    <3> HIDE DEF d, v, u
    <3> QED BY <1>0, <3>1, GaveFacts
  <2>3. debt' \in Counters /\ \A i \in Inode : debt'[i] = debt[i] + One(o, i)
    <3>1. Forget(<<o>>)
      BY <1>4
    <3> HIDE DEF o
    <3> QED BY ONLY <1>1, <3>1, ForgetFacts
  <2>4. Shift(p, NoFrame, d, v, u, None)
    <3>1. ASSUME NEW i \in Inode
          PROVE  /\ ref'[i] - debt'[i]
                       = ref[i] - debt[i] + One(NoFrame.cur, i) + One(NoFrame.par, i)
                           + One(NoFrame.old, i) + One(NoFrame.oldpar, i)
                           + One(d, i) + One(v, i) + One(u, i) + One(None, i)
                           - (One(fr[p].cur, i) + One(fr[p].par, i) + One(fr[p].old, i)
                                + One(fr[p].oldpar, i))
                 /\ kind[i] = "free" => ref'[i] = 0
      <4>1. /\ ref[i] \in Nat /\ debt[i] \in Nat /\ ref'[i] = ref[i]
            /\ debt'[i] = debt[i] + One(o, i) /\ (kind[i] = "free" => ref[i] = 0)
        BY <1>1, <1>4, <2>3, Alive DEF Counters
      <4>2. /\ One(NoFrame.cur, i) = 0 /\ One(NoFrame.par, i) = 0
            /\ One(NoFrame.old, i) = 0 /\ One(NoFrame.oldpar, i) = 0 /\ One(None, i) = 0
        BY OneType DEF NoFrame
      <4>3. One(d, i) \in Nat /\ One(v, i) \in Nat /\ One(u, i) \in Nat /\ One(o, i) \in Nat
        BY OneType
      <4> QED BY ONLY <4>1, <4>2, <4>3
    <3> QED BY ONLY <3>1 DEF Shift
  <2> QED BY <1>0, <1>1, <1>4, <2>2, <2>3, <2>4, ReturnStep DEF Counters
<1>5. ASSUME n \notin Names(d), kids' = DentryAppend(d, n, o),
             links' = [links EXCEPT ![o] = @ + 1], GiveUp(p, <<d>>),
             UNCHANGED <<kind, ref, file, cwd, stopped>>,
             NEW x, NEW at, NEW c,
             IsFrame(x), CallIsSound(at, c, x, file[p]), KindsAreKnown(kind, at, x),
             Put(fr, fr', p, x), Put(inodePc, inodePc', p, at), Put(call, call', p, c),
             x.cur = None, x.old = None, x.oldpar = None,
             NEW y, debt' \in Counters, \A i \in Inode : debt'[i] = debt[i] + One(y, i),
             \A i \in Inode : One(x.par, i) + One(y, i) = One(v, i) + One(u, i)
      PROVE  TreeInv'
  <2>1. Gave(p, d, None, None, None)
    BY <1>0, <1>5, GaveFacts
  <2>2. /\ OnlyKidsOf(d)
        /\ \A j : Kid(kids'[d], j) = Kid(kids[d], j) + One(o, j) /\ Kid(kids[d], j) \in Nat
    <3> HIDE DEF d, o, n
    <3> QED BY <1>0, <1>5, AppendFacts
  <2>3. links' \in Counters
    <3> HIDE DEF o
    <3> QED BY ONLY <1>0, <1>1, <1>5 DEF Counters
  <2>4. ASSUME NEW i \in Inode
        PROVE  /\ links'[i] = links[i] + Kid(kids'[d], i) - Kid(kids[d], i)
               /\ ref'[i] - debt'[i]
                     = ref[i] - debt[i] + Kid(kids'[d], i) - Kid(kids[d], i)
                         + (Has(x, i) + Gives(d, None, None, None, i)) - Has(fr[p], i)
               /\ kind'[i] = "free" => ref'[i] = 0
               /\ kind[i] # "free" /\ kind'[i] # "free" => (kind'[i] = "dir" <=> kind[i] = "dir")
    <3>1. links[i] \in Nat /\ links'[i] = links[i] + One(o, i) /\ One(o, i) \in Nat
      <4> HIDE DEF o
      <4> QED BY ONLY <1>0, <1>1, <1>5, i \in Inode DEF Counters, One
    <3>2. Kid(kids'[d], i) = Kid(kids[d], i) + One(o, i) /\ Kid(kids[d], i) \in Nat
      BY <2>2
    <3>3. /\ ref[i] \in Nat /\ debt[i] \in Nat /\ ref'[i] = ref[i]
          /\ debt'[i] = debt[i] + One(y, i)
          /\ kind'[i] = kind[i] /\ (kind[i] = "free" => ref[i] = 0)
      BY <1>1, <1>5, Alive DEF Counters
    <3>4. Has(x, i) = One(x.par, i) /\ Gives(d, None, None, None, i) = One(d, i)
      BY ONLY <1>5, OneType, i \in Inode DEF Has, Gives
    <3>5. Has(fr[p], i) = One(u, i) + One(d, i) + One(o, i) + One(v, i)
      BY DEF Has
    <3>6. /\ One(u, i) \in Nat /\ One(d, i) \in Nat /\ One(v, i) \in Nat
          /\ One(x.par, i) \in Nat /\ One(y, i) \in Nat
          /\ One(x.par, i) + One(y, i) = One(v, i) + One(u, i)
      BY <1>5, OneType
    <3> HIDE DEF Kid, f, d, o, u, v
    <3> QED BY ONLY <3>1, <3>2, <3>3, <3>4, <3>5, <3>6
  <2>5. Moved(p, x, d, None, None, None, d)
    BY ONLY <2>4 DEF Moved
  <2>6. KindsAreKnown(kind', at, x) /\ ref' \in Counters /\ kind' \in [Inode -> Kinds]
    BY <1>1, <1>5
  <2> HIDE DEF d
  <2> QED BY <1>0, <1>5, <2>1, <2>2, <2>3, <2>5, <2>6, TreeCallStep
<1>6. CASE /\ n \notin Names(d) /\ kids' = DentryAppend(d, n, o)
           /\ links' = [links EXCEPT ![o] = @ + 1] /\ GiveUp(p, <<d>>)
           /\ call[p].op = "link" /\ Return(p)
           /\ UNCHANGED <<kind, ref, file, cwd, stopped, debt>>
  <2> DEFINE x == NoFrame
             at == "idle"
             c == NoCall
  <2>1. /\ IsFrame(x) /\ CallIsSound(at, c, x, file[p]) /\ KindsAreKnown(kind, at, x)
        /\ Put(fr, fr', p, x) /\ Put(inodePc, inodePc', p, at) /\ Put(call, call', p, c)
    BY <1>6, ReturnFacts
  <2>2. x.cur = None /\ x.par = None /\ x.old = None /\ x.oldpar = None
    BY DEF NoFrame
  <2>3. v = None /\ u = None
    BY <1>6, FrameFacts DEF LinkChild, At, CallIsSound
  <2> HIDE DEF x, at, c, f
  <2>4. debt' \in Counters /\ \A i \in Inode : debt'[i] = debt[i] + One(None, i)
    BY <1>1, <1>6, OneType DEF Counters
  <2>5. \A i \in Inode : One(x.par, i) + One(None, i) = One(v, i) + One(u, i)
    BY ONLY <2>2, <2>3, OneType
  <2> HIDE DEF d, o, n, u, v
  <2> QED BY <1>5, <1>6, <2>1, <2>2, <2>4, <2>5
<1>7. CASE /\ n \notin Names(d) /\ kids' = DentryAppend(d, n, o)
           /\ links' = [links EXCEPT ![o] = @ + 1] /\ GiveUp(p, <<d>>)
           /\ call[p].op # "link" /\ Forget(<<u>>) /\ InodeGoto(p, "unlink")
           /\ fr' = [fr EXCEPT ![p] = [NoFrame EXCEPT !.par = v, !.base = f.oldbase]]
           /\ UNCHANGED <<kind, ref, file, cwd, stopped>>
  <2> DEFINE x == [NoFrame EXCEPT !.par = v, !.base = f.oldbase]
             at == "unlink"
             c == call[p]
  <2>1. IsFrame(x) /\ x.cur = None /\ x.par = v /\ x.old = None /\ x.oldpar = None
    BY <1>0 DEF IsFrame, NoFrame, NoneOr
  <2>2. Put(fr, fr', p, x)
    <3>1. fr' = [fr EXCEPT ![p] = x]
      BY <1>7
    <3> HIDE DEF x
    <3> QED BY <3>1, FrameFacts, PutFacts
  <2>3. Put(inodePc, inodePc', p, at) /\ Put(call, call', p, c)
    BY <1>7, GotoFacts
  <2>4. v # None
    BY <1>7, FrameFacts DEF LinkChild, At, CallIsSound
  <2> HIDE DEF x
  <2>5. CallIsSound(at, c, x, file[p]) /\ KindsAreKnown(kind, at, x)
    BY <2>1, <2>4, FrameFacts DEF CallIsSound, KindsAreKnown
  <2>6. debt' \in Counters /\ \A i \in Inode : debt'[i] = debt[i] + One(u, i)
    <3>1. Forget(<<u>>)
      BY <1>7
    <3> HIDE DEF u
    <3> QED BY ONLY <1>1, <3>1, ForgetFacts
  <2>7. \A i \in Inode : One(x.par, i) + One(u, i) = One(v, i) + One(u, i)
    BY ONLY <2>1
  <2> HIDE DEF at, c, d, o, n, u, v
  <2> QED BY <1>5, <1>7, <2>1, <2>2, <2>3, <2>5, <2>6, <2>7
<1> QED BY <1>0, <1>2, <1>3, <1>4, <1>6, <1>7 DEF LinkChild, LinkFailed, DentryExists

(* mknod() sets the device of its node.                                    *)
LEMMA SysMknodEndKeeps ==
    ASSUME TreeInv, NEW p \in InodeProcess, SysMknodEnd(p)
    PROVE  TreeInv'
<1> DEFINE f == fr[p]
           o == f.cur
           m == call[p].mode
<1>0. /\ o \in Inode /\ o \in NoneOr /\ None \in NoneOr /\ drop[p] = <<>>
      /\ f.par = None /\ f.old = None /\ f.oldpar = None
      /\ kind[o] # "dir" /\ kind[o] # "free" /\ m \in {"reg", "chr", "nodev"}
  BY FrameFacts, FreeFacts DEF SysMknodEnd, At, CallIsSound, KindsAreKnown, NoneOr
<1>1. /\ ref \in Counters /\ debt \in Counters /\ links \in Counters
      /\ kind \in [Inode -> Kinds] /\ DOMAIN kids = Inode
  BY DEF TreeInv, TreeTypes, Counters
<1>2. /\ kind' = [kind EXCEPT ![o] = m] /\ GiveUp(p, <<o>>) /\ Return(p)
      /\ ref' = ref /\ links' = links /\ kids' = kids /\ file' = file /\ cwd' = cwd
      /\ debt' = debt /\ stopped' = stopped
  BY DEF SysMknodEnd
<1>3. kids[o] = <<>> /\ IsList(kids[o]) /\ UniqueNames(kids[o])
  BY <1>0 DEF TreeInv, TreeTypes, NamesAreUnique, UniqueNames
<1> DEFINE g == NoFrame
           at == "idle"
           c == NoCall
<1>4. /\ IsFrame(g) /\ CallIsSound(at, c, g, file[p]) /\ KindsAreKnown(kind', at, g)
      /\ Put(fr, fr', p, g) /\ Put(inodePc, inodePc', p, at) /\ Put(call, call', p, c)
  BY <1>2, ReturnFacts
<1>5. \A i \in Inode : Has(g, i) = 0 /\ Has(fr[p], i) = One(o, i)
                         /\ Gives(o, None, None, None, i) = One(o, i)
  <2>1. /\ NoFrame.cur = None /\ NoFrame.par = None /\ NoFrame.old = None
        /\ NoFrame.oldpar = None
    BY DEF NoFrame
  <2> HIDE DEF f
  <2> QED BY ONLY <1>0, <2>1, OneType DEF Has, Gives, g, f, o
<1> HIDE DEF g, at, c, f, o, m
<1>6. Gave(p, o, None, None, None)
  BY <1>0, <1>2, GaveFacts
<1>7. kind' \in [Inode -> Kinds] /\ kind'[o] = m
      /\ \A i \in Inode : i # o => kind'[i] = kind[i]
  BY <1>0, <1>1, <1>2 DEF Kinds
<1>8. OnlyKidsOf(o)
  BY <1>0, <1>1, <1>2, <1>3, <1>7 DEF OnlyKidsOf
<1>9. ASSUME NEW i \in Inode
      PROVE  /\ links'[i] = links[i] + Kid(kids'[o], i) - Kid(kids[o], i)
             /\ ref'[i] - debt'[i]
                   = ref[i] - debt[i] + Kid(kids'[o], i) - Kid(kids[o], i)
                       + (Has(g, i) + Gives(o, None, None, None, i)) - Has(fr[p], i)
             /\ kind'[i] = "free" => ref'[i] = 0
             /\ kind[i] # "free" /\ kind'[i] # "free" => (kind'[i] = "dir" <=> kind[i] = "dir")
  <2>1. /\ links[i] \in Nat /\ links'[i] = links[i] /\ ref[i] \in Nat /\ debt[i] \in Nat
        /\ ref'[i] = ref[i] /\ debt'[i] = debt[i] /\ (kind[i] = "free" => ref[i] = 0)
    BY <1>1, <1>2, Alive DEF Counters
  <2>2. Kid(kids'[o], i) = Kid(kids[o], i) /\ Kid(kids[o], i) \in Nat
    BY <1>2, <1>3, InosFacts
  <2>3. Has(g, i) = 0 /\ Has(fr[p], i) = One(o, i) /\ One(o, i) \in Nat
          /\ Gives(o, None, None, None, i) = One(o, i)
    BY <1>5, OneType
  <2>4. /\ kind'[i] = "free" => kind[i] = "free"
        /\ kind[i] # "free" /\ kind'[i] # "free" => (kind'[i] = "dir" <=> kind[i] = "dir")
    BY <1>0, <1>7
  <2> HIDE DEF Kid
  <2> QED BY ONLY <2>1, <2>2, <2>3, <2>4
<1>10. Moved(p, g, o, None, None, None, o)
  BY ONLY <1>9 DEF Moved
<1> QED BY <1>0, <1>1, <1>2, <1>4, <1>6, <1>7, <1>8, <1>10, TreeCallStep

(* What a call made is marked as made.                                     *)
LEMMA MadeFacts ==
    ASSUME TreeInv, NEW p \in InodeProcess, call' = [call EXCEPT ![p].made = TRUE]
    PROVE  \E c : Put(call, call', p, c) /\ "op" \in DOMAIN c /\ c.op = call[p].op
<1> DEFINE c == [call[p] EXCEPT !.made = TRUE]
<1>1. IsFamily(call) /\ "op" \in DOMAIN call[p]
  BY FrameFacts DEF CallIsSound
<1>2. call' = [call EXCEPT ![p] = c]
  BY <1>1 DEF IsFamily
<1>3. "op" \in DOMAIN c /\ c.op = call[p].op
  BY <1>1
<1> HIDE DEF c
<1>4. Put(call, [call EXCEPT ![p] = c], p, c)
  BY <1>1, PutFacts
<1> QED BY <1>2, <1>3, <1>4

(* open() looks the name up again, after another process has created it.   *)
LEMMA CreateLookupKeeps ==
    ASSUME TreeInv, NEW p \in InodeProcess, CreateLookup(p)
    PROVE  TreeInv'
<1> DEFINE f == fr[p]
           d == f.par
           n == f.base
           e == DentryFind(d, n)
<1>0. /\ d \in Inode /\ d \in NoneOr /\ None \in NoneOr /\ drop[p] = <<>>
      /\ f.cur = None /\ f.old = None /\ f.oldpar = None /\ call[p].op = "open"
      /\ IsFamily(fr) /\ IsFrame(f) /\ file[p] = None /\ kind[d] = "dir"
  BY FrameFacts DEF CreateLookup, At, CallIsSound, KindsAreKnown, NoneOr
<1>1. CASE InodeGoto(p, "create") /\ UNCHANGED <<ref, drop, fr>>
  <2>1. CallIsSound("create", call[p], f, file[p]) /\ KindsAreKnown(kind, "create", f)
    BY <1>0, FrameFacts DEF CreateLookup, At, CallIsSound, KindsAreKnown
  <2> QED BY <1>1, <2>1, GotoStep DEF CreateLookup, At
<1>2. CASE /\ f.base \in Names(d) /\ ref' = Ref(ref, <<e>>) /\ CreateEnd(p, e)
           /\ GiveUp(p, <<d>>)
  <2>1. e \in NoneOr /\ kind[e] # "free"
    <3>1. n \in Names(d)
      BY <1>2
    <3> HIDE DEF d, n
    <3> QED BY <1>0, <3>1, EntryFacts DEF NoneOr
  <2>2. /\ fr' = [fr EXCEPT ![p].cur = e, ![p].par = None]
        /\ inodePc' = [inodePc EXCEPT ![p] = "found"]
        /\ call' = [call EXCEPT ![p].made = TRUE]
    BY <1>0, <1>2 DEF CreateEnd
  <2>3. Gave(p, d, None, None, None)
    BY <1>0, <1>2, GaveFacts
  <2>4. PICK x : /\ Put(fr, fr', p, x) /\ IsFrame(x) /\ x.cur = e /\ x.par = None
                 /\ x.old = f.old /\ x.oldpar = f.oldpar
    <3>1. Edits(p, f.todo, e, f.rc, None, f.base)
      <4> HIDE DEF e
      <4> QED BY <1>0, <2>2 DEF Edits, Edit, IsFrame, IsFamily
    <3> HIDE DEF e
    <3> QED BY <1>0, <2>1, <3>1, EditFacts
  <2>5. PICK c : Put(call, call', p, c) /\ "op" \in DOMAIN c /\ c.op = "open"
    BY <1>0, <2>2, MadeFacts
  <2>6. Put(inodePc, inodePc', p, "found")
    BY <2>2, FrameFacts, PutFacts
  <2>7. /\ debt' = debt /\ kind' = kind /\ kids' = kids /\ links' = links
        /\ file' = file /\ cwd' = cwd /\ stopped' = stopped
    BY DEF CreateLookup
  <2> HIDE DEF e
  <2>8. Took(e, None) /\ ref' \in Counters /\ debt' \in Counters
    BY <1>0, <1>2, <2>1, <2>7, TookFacts
  <2>9. Trade(p, x, e, None, d, None, None, None)
    <3> HIDE DEF f
    <3> QED BY ONLY <1>0, <2>4, OneType DEF Trade, f, d
  <2>10. Shift(p, x, d, None, None, None)
    BY <2>8, <2>9, TradeFacts
  <2>11. CallIsSound("found", c, x, file[p]) /\ KindsAreKnown(kind, "found", x)
    BY <1>0, <2>4, <2>5 DEF CallIsSound, KindsAreKnown
  <2> HIDE DEF d
  <2> QED BY <1>0, <2>3, <2>4, <2>5, <2>6, <2>7, <2>8, <2>10, <2>11, CallStep DEF Counters
<1> QED BY <1>1, <1>2 DEF CreateLookup

(* A new inode has neither a name nor a reference yet.                     *)
LEMMA NewInodeFacts ==
    ASSUME TreeInv, NEW i \in Inode, kind[i] = "free"
    PROVE  ref[i] = 0 /\ links[i] = 0 /\ debt[i] = 0
<1>1. ref[i] = 0
  BY FreeFacts
<1>2. /\ ref[i] = StaticRefs(i) + Pointers(Entries, i) + Pointers(Held, i) + debt[i]
      /\ links[i] = Pointers(Entries, i)
      /\ debt[i] \in Nat /\ StaticRefs(i) \in Nat
      /\ Pointers(Entries, i) \in Nat /\ Pointers(Held, i) \in Nat
  BY Alive
<1> HIDE DEF Pointers, StaticRefs, Entries, Held
<1> QED BY ONLY <1>1, <1>2

(* A new inode gets its name; the call keeps the other reference to it.    *)
Makes(d, n, o, k) ==
    /\ kids' = DentryAppend(d, n, o) /\ kind' = [kind EXCEPT ![o] = k]
    /\ ref' = [ref EXCEPT ![o] = 2] /\ links' = [links EXCEPT ![o] = 1]
    /\ debt' = debt

Keeps(p, f, a, b, o) ==
    \A i \in Inode : Has(f, i) + One(a, i) + One(b, i) = Has(fr[p], i) + One(o, i)

(* The invariant after the creation of an inode in a directory.            *)
LEMMA CreateStep ==
    ASSUME TreeInv, NEW p \in InodeProcess, drop[p] = <<>>, NEW d \in Inode, NEW n,
           n \notin Names(d), kind[d] = "dir", NEW o \in Inode, kind[o] = "free",
           NEW k \in Kinds \ {"free"}, Makes(d, n, o, k), file' = file, cwd' = cwd,
           stopped' = stopped, NEW f, NEW at, NEW c,
           IsFrame(f), CallIsSound(at, c, f, file[p]), KindsAreKnown(kind', at, f),
           Put(fr, fr', p, f), Put(inodePc, inodePc', p, at), Put(call, call', p, c),
           NEW a, NEW b, Gave(p, a, b, None, None), Keeps(p, f, a, b, o)
    PROVE  TreeInv'
<1>0. /\ kids' = DentryAppend(d, n, o) /\ kind' = [kind EXCEPT ![o] = k]
      /\ ref' = [ref EXCEPT ![o] = 2] /\ links' = [links EXCEPT ![o] = 1]
      /\ debt' = debt
  BY DEF Makes
<1>1. /\ ref \in Counters /\ debt \in Counters /\ links \in Counters
      /\ kind \in [Inode -> Kinds]
  BY DEF TreeInv, TreeTypes, Counters
<1>2. ref[o] = 0 /\ links[o] = 0 /\ debt[o] = 0
  BY NewInodeFacts
<1>3. /\ kind' \in [Inode -> Kinds] /\ kind'[o] = k /\ k # "free"
      /\ \A i \in Inode : i # o => kind'[i] = kind[i]
  BY <1>0, <1>1
<1>4. kind'[d] = "dir" /\ \A i \in Inode : kind'[i] = "free" => kind[i] = "free"
  BY <1>3
<1>5. /\ OnlyKidsOf(d)
      /\ \A j : Kid(kids'[d], j) = Kid(kids[d], j) + One(o, j) /\ Kid(kids[d], j) \in Nat
  BY <1>0, <1>4, AppendFacts
<1>6. ref' \in Counters /\ links' \in Counters
  BY <1>0, <1>1 DEF Counters
<1>7. ASSUME NEW i \in Inode
      PROVE  /\ links'[i] = links[i] + Kid(kids'[d], i) - Kid(kids[d], i)
             /\ ref'[i] - debt'[i]
                   = ref[i] - debt[i] + Kid(kids'[d], i) - Kid(kids[d], i)
                       + (Has(f, i) + Gives(a, b, None, None, i)) - Has(fr[p], i)
             /\ kind'[i] = "free" => ref'[i] = 0
             /\ kind[i] # "free" /\ kind'[i] # "free" => (kind'[i] = "dir" <=> kind[i] = "dir")
  <2>1. /\ links[i] \in Nat /\ ref[i] \in Nat /\ debt[i] \in Nat /\ debt'[i] = debt[i]
        /\ links'[i] = links[i] + One(o, i) /\ ref'[i] = ref[i] + One(o, i) + One(o, i)
        /\ One(o, i) \in Nat
    <3>1. CASE i = o
      BY <1>0, <1>1, <1>2, <3>1 DEF Counters, One
    <3>2. CASE i # o
      BY <1>0, <1>1, <3>2 DEF Counters, One
    <3> QED BY <3>1, <3>2
  <2>2. Kid(kids'[d], i) = Kid(kids[d], i) + One(o, i) /\ Kid(kids[d], i) \in Nat
    BY <1>5
  <2>3. /\ kind'[i] = "free" => ref'[i] = 0
        /\ kind[i] # "free" /\ kind'[i] # "free" => (kind'[i] = "dir" <=> kind[i] = "dir")
    <3>1. CASE i = o
      BY <1>3, <3>1
    <3>2. CASE i # o
      <4>1. kind'[i] = kind[i] /\ ref'[i] = ref[i] /\ (kind[i] = "free" => ref[i] = 0)
        BY <1>0, <1>1, <1>3, <3>2, Alive DEF Counters
      <4> QED BY ONLY <4>1
    <3> QED BY <3>1, <3>2
  <2>4. /\ Has(f, i) \in Nat /\ Has(fr[p], i) \in Nat /\ One(a, i) \in Nat /\ One(b, i) \in Nat
        /\ Has(f, i) + One(a, i) + One(b, i) = Has(fr[p], i) + One(o, i)
    BY HasFacts, OneType DEF Keeps
  <2>5. Gives(a, b, None, None, i) = One(a, i) + One(b, i)
    BY ONLY OneType, i \in Inode DEF Gives
  <2> HIDE DEF Kid
  <2>6. ref'[i] - debt'[i]
           = ref[i] - debt[i] + Kid(kids'[d], i) - Kid(kids[d], i)
               + (Has(f, i) + Gives(a, b, None, None, i)) - Has(fr[p], i)
    BY ONLY <2>1, <2>2, <2>4, <2>5
  <2>7. links'[i] = links[i] + Kid(kids'[d], i) - Kid(kids[d], i)
    BY ONLY <2>1, <2>2
  <2> QED BY ONLY <2>3, <2>6, <2>7
<1>8. Moved(p, f, a, b, None, None, d)
  BY ONLY <1>7 DEF Moved
<1>9. debt' \in Counters
  BY <1>0, <1>1
<1> QED BY <1>0, <1>3, <1>5, <1>6, <1>8, <1>9, TreeCallStep

(* A call creates an inode in its directory, or fails to.                  *)
LEMMA CreateChildKeeps ==
    ASSUME TreeInv, NEW p \in InodeProcess, CreateChild(p)
    PROVE  TreeInv'
<1> DEFINE f == fr[p]
           d == f.par
           n == f.base
           free == {i \in Inode : kind[i] = "free"}
           o == CHOOSE i \in Inode : kind[i] = "free"
           k == NewKind(call[p])
<1>0. /\ d \in Inode /\ d \in NoneOr /\ None \in NoneOr /\ drop[p] = <<>>
      /\ f.cur = None /\ f.old = None /\ f.oldpar = None
      /\ call[p].op \in {"mkdir", "mknod", "open"} /\ "op" \in DOMAIN call[p]
      /\ call[p].op = "mknod" => call[p].mode \in {"reg", "chr", "nodev"}
      /\ IsFamily(fr) /\ IsFrame(f) /\ kind[d] = "dir"
      /\ call[p].op = "open" => file[p] = None
  BY FrameFacts DEF CreateChild, At, CallIsSound, KindsAreKnown, NoneOr
<1>1. /\ file' = file /\ cwd' = cwd /\ stopped' = stopped
      /\ ref \in Counters /\ debt \in Counters
  BY DEF CreateChild, TreeInv, TreeTypes, Counters
<1>2. Same(p, NoFrame, d, None, None, None)
  <2> HIDE DEF f
  <2> QED BY ONLY <1>0, OneType DEF Same, NoFrame, f, d
<1>3. CASE /\ ref' = Ref(ref, <<d>>) /\ Forget(<<d>>) /\ GiveUp(p, <<d>>) /\ Return(p)
           /\ UNCHANGED <<kind, fsroot, links, kids>>
  <2> HIDE DEF d
  <2>1. Gave(p, d, None, None, None)
    BY <1>0, <1>3, GaveFacts
  <2>2. debt' \in Counters /\ \A i \in Inode : debt'[i] = debt[i] + One(d, i)
    BY <1>1, <1>3, ForgetFacts
  <2>3. ref' \in Counters /\ \A i \in Inode : ref'[i] = ref[i] + One(d, i)
    <3>1. \A i : Cardinality(Positions(<<d>>, i)) = One(d, i) /\ One(d, i) \in Nat
      BY CntOne DEF Cnt, One
    <3> QED BY <1>1, <1>3, <3>1 DEF Ref, Counters
  <2>4. ASSUME NEW i \in Inode
        PROVE  /\ ref'[i] - debt'[i] = ref[i] - debt[i]
               /\ kind[i] = "free" => ref'[i] = 0
    <3>1. /\ ref[i] \in Nat /\ debt[i] \in Nat /\ One(d, i) \in Nat
          /\ ref'[i] = ref[i] + One(d, i) /\ debt'[i] = debt[i] + One(d, i)
      BY <1>1, <2>2, <2>3, OneType DEF Counters
    <3>2. kind[i] = "free" => ref[i] = 0 /\ One(d, i) = 0
      BY <1>0, FreeFacts DEF One
    <3> QED BY ONLY <3>1, <3>2
  <2>5. Shift(p, NoFrame, d, None, None, None)
    <3>1. ASSUME NEW i \in Inode
          PROVE  /\ ref'[i] - debt'[i]
                       = ref[i] - debt[i] + One(NoFrame.cur, i) + One(NoFrame.par, i)
                           + One(NoFrame.old, i) + One(NoFrame.oldpar, i) + One(d, i)
                           + One(None, i) + One(None, i) + One(None, i)
                           - (One(fr[p].cur, i) + One(fr[p].par, i) + One(fr[p].old, i)
                                + One(fr[p].oldpar, i))
                 /\ kind[i] = "free" => ref'[i] = 0
      <4>1. /\ ref[i] \in Nat /\ debt[i] \in Nat /\ ref'[i] \in Nat /\ debt'[i] \in Nat
        BY <1>1, <2>2, <2>3 DEF Counters
      <4>2. Same(p, NoFrame, d, None, None, None)
        BY <1>2
      <4> QED BY ONLY <2>4, <4>1, <4>2, OneType, i \in Inode DEF Same
    <3> QED BY ONLY <3>1 DEF Shift
  <2>6. kind' = kind /\ kids' = kids /\ links' = links
    BY <1>3
  <2> QED BY <1>0, <1>1, <1>3, <2>1, <2>2, <2>3, <2>5, <2>6, ReturnStep DEF Counters
<1>4. CASE GiveUp(p, <<d>>) /\ Return(p) /\ UNCHANGED <<kind, ref, links, kids, debt>>
  <2> HIDE DEF d
  <2>1. Gave(p, d, None, None, None)
    BY <1>0, <1>4, GaveFacts
  <2> QED BY <1>0, <1>1, <1>2, <1>4, <2>1, QuietReturn
<1>5. CASE /\ ~Exclusive(call[p]) /\ InodeGoto(p, "again") /\ UNCHANGED <<fr, drop>>
           /\ UNCHANGED <<kind, fsroot, ref, links, kids, debt, fails>>
  <2>1. CallIsSound("again", call[p], f, file[p]) /\ KindsAreKnown(kind, "again", f)
    BY <1>0, <1>5, FrameFacts DEF CreateChild, At, CallIsSound, KindsAreKnown, Exclusive
  <2> QED BY <1>0, <1>1, <1>5, <2>1, GotoStep
<1>6. CASE /\ ~DentryExists(d, n) /\ free # {} /\ kids' = DentryAppend(d, n, o)
           /\ kind' = [kind EXCEPT ![o] = k] /\ ref' = [ref EXCEPT ![o] = 2]
           /\ links' = [links EXCEPT ![o] = 1] /\ CreateEnd(p, o)
           /\ GiveUp(p, IF call[p].op = "mkdir" THEN <<d, o>> ELSE <<d>>)
           /\ debt' = debt
  <2>1. o \in Inode /\ kind[o] = "free"
    BY <1>6
  <2>2. /\ k \in Kinds \ {"free"} /\ (call[p].op = "mknod" => k # "dir")
        /\ o \in NoneOr
    BY <1>0, <2>1 DEF NewKind, Kinds, NoneOr
  <2>3. n \notin Names(d) /\ Makes(d, n, o, k)
    BY <1>6 DEF DentryExists, Makes
  <2>4. kind'[o] = k
    <3> HIDE DEF o, k
    <3> QED BY <2>1, <2>3 DEF Makes, TreeInv, TreeTypes
  <2>5. CASE call[p].op = "open"
    <3>1. /\ fr' = [fr EXCEPT ![p].cur = o, ![p].par = None]
          /\ inodePc' = [inodePc EXCEPT ![p] = "found"]
          /\ call' = [call EXCEPT ![p].made = TRUE] /\ GiveUp(p, <<d>>)
      BY <1>6, <2>5 DEF CreateEnd
    <3> HIDE DEF o, k
    <3>2. PICK x : /\ Put(fr, fr', p, x) /\ IsFrame(x) /\ x.cur = o /\ x.par = None
                   /\ x.old = f.old /\ x.oldpar = f.oldpar
      <4>1. Edits(p, f.todo, o, f.rc, None, f.base)
        BY <1>0, <3>1 DEF Edits, Edit, IsFrame, IsFamily
      <4> QED BY <1>0, <2>2, <4>1, EditFacts
    <3>3. PICK c : Put(call, call', p, c) /\ "op" \in DOMAIN c /\ c.op = "open"
      BY <2>5, <3>1, MadeFacts
    <3>4. Put(inodePc, inodePc', p, "found")
      BY <3>1, FrameFacts, PutFacts
    <3>5. CallIsSound("found", c, x, file[p]) /\ KindsAreKnown(kind', "found", x)
      BY <1>0, <2>5, <3>2, <3>3 DEF CallIsSound, KindsAreKnown
    <3>6. Gave(p, d, None, None, None)
      <4> HIDE DEF d
      <4> QED BY <1>0, <3>1, GaveFacts
    <3>7. Keeps(p, x, d, None, o)
      <4> HIDE DEF f
      <4> QED BY ONLY <1>0, <3>2, OneType DEF Keeps, Has, f, d
    <3> HIDE DEF d, n
    <3> QED BY <1>0, <1>1, <2>1, <2>2, <2>3, <3>2, <3>3, <3>4, <3>5, <3>6, <3>7, CreateStep
  <2>6. CASE call[p].op = "mknod"
    <3>1. /\ fr' = [fr EXCEPT ![p].cur = o, ![p].par = None]
          /\ InodeGoto(p, "setdev") /\ GiveUp(p, <<d>>)
      BY <1>6, <2>6 DEF CreateEnd
    <3> HIDE DEF o, k
    <3>2. PICK x : /\ Put(fr, fr', p, x) /\ IsFrame(x) /\ x.cur = o /\ x.par = None
                   /\ x.old = f.old /\ x.oldpar = f.oldpar
      <4>1. Edits(p, f.todo, o, f.rc, None, f.base)
        BY <1>0, <3>1 DEF Edits, Edit, IsFrame, IsFamily
      <4> QED BY <1>0, <2>2, <4>1, EditFacts
    <3>3. Put(call, call', p, call[p]) /\ Put(inodePc, inodePc', p, "setdev")
      BY <3>1, GotoFacts
    <3>4. o # None
      BY <2>1 DEF Inode, None
    <3>5. CallIsSound("setdev", call[p], x, file[p]) /\ KindsAreKnown(kind', "setdev", x)
      BY <1>0, <2>2, <2>4, <2>6, <3>2, <3>4 DEF CallIsSound, KindsAreKnown
    <3>6. Gave(p, d, None, None, None)
      <4> HIDE DEF d
      <4> QED BY <1>0, <3>1, GaveFacts
    <3>7. Keeps(p, x, d, None, o)
      <4> HIDE DEF f
      <4> QED BY ONLY <1>0, <3>2, OneType DEF Keeps, Has, f, d
    <3> HIDE DEF d, n
    <3> QED BY <1>0, <1>1, <2>1, <2>2, <2>3, <3>2, <3>3, <3>5, <3>6, <3>7, CreateStep
  <2>7. CASE call[p].op = "mkdir"
    <3>1. Return(p) /\ GiveUp(p, <<d, o>>)
      BY <1>6, <2>7 DEF CreateEnd
    <3> HIDE DEF o, k
    <3> DEFINE g == NoFrame
               at == "idle"
               c == NoCall
    <3>2. /\ IsFrame(g) /\ CallIsSound(at, c, g, file[p]) /\ KindsAreKnown(kind', at, g)
          /\ Put(fr, fr', p, g) /\ Put(inodePc, inodePc', p, at) /\ Put(call, call', p, c)
      BY <3>1, ReturnFacts
    <3>3. g.cur = None /\ g.par = None /\ g.old = None /\ g.oldpar = None
      BY DEF NoFrame
    <3> HIDE DEF g, at, c
    <3>4. Gave(p, d, o, None, None)
      <4> HIDE DEF d
      <4> QED BY <1>0, <2>2, <3>1, GaveFacts
    <3>5. Keeps(p, g, d, o, o)
      <4> HIDE DEF f
      <4> QED BY ONLY <1>0, <3>3, OneType DEF Keeps, Has, f, d
    <3> HIDE DEF d, n
    <3> QED BY <1>0, <1>1, <2>1, <2>2, <2>3, <3>2, <3>4, <3>5, CreateStep
  <2> QED BY <1>0, <2>5, <2>6, <2>7
<1> QED BY <1>3, <1>4, <1>5, <1>6 DEF CreateChild

(* A reference is given up; with the last one the inode is destroyed, and  *)
(* those to its children are to be given up.                               *)
LEMMA InodeUnrefKeeps ==
    ASSUME TreeInv, NEW p \in InodeProcess, InodeUnref(p)
    PROVE  TreeInv'
<1> DEFINE f == fr[p]
           fl == file[p]
           w == cwd[p]
           at == inodePc[p]
           c == call[p]
           i == Head(drop[p])
           t == Tail(drop[p])
           s == Children(i)
<1>0. /\ ref \in Counters /\ debt \in Counters /\ links \in Counters
      /\ kind \in [Inode -> Kinds] /\ DOMAIN kids = Inode
      /\ drop[p] \in Seq(Inode) /\ drop[p] # <<>> /\ drop \in [InodeProcess -> Seq(Inode)]
  BY DEF TreeInv, TreeTypes, Counters, InodeUnref
<1>1. /\ i \in Inode /\ t \in Seq(Inode)
      /\ \A j : /\ Cnt(t, j) = Cnt(drop[p], j) - One(i, j)
                /\ Cnt(t, j) \in Nat /\ Cnt(drop[p], j) \in Nat
  <2>1. i \in Inode /\ t \in Seq(Inode)
    BY <1>0, HeadTailProperties
  <2>2. \A j : Cnt(t, j) = Cnt(drop[p], j) - One(i, j)
    BY <1>0, CntEnds
  <2>3. \A j : Cnt(t, j) \in Nat /\ Cnt(drop[p], j) \in Nat
    BY <1>0, <2>1, CntType
  <2> QED BY ONLY <2>1, <2>2, <2>3
<1>2. Cnt(drop[p], i) > 0 /\ ref[i] > 0 /\ kind[i] # "free"
  <2>1. One(i, i) = 1
    BY DEF One
  <2>2. Cnt(drop[p], i) > 0
    <3> HIDE DEF i, t
    <3> QED BY ONLY <1>1, <2>1
  <2>3. Mine(fr[p], file[p], cwd[p].ino, i) \in Nat
    BY MineType
  <2>4. Mine(fr[p], file[p], cwd[p].ino, i) + Cnt(drop[p], i) > 0
    BY ONLY <1>1, <2>2, <2>3
  <2> QED BY <1>1, <2>2, <2>4, Alive
<1>3. /\ IsFrame(f) /\ fl \in NoneOr /\ w.ino \in Inode /\ CallIsSound(at, c, f, fl)
      /\ KindsAreKnown(kind, at, f)
  BY FrameFacts
<1>4. ASSUME file' = file, cwd' = cwd, fr' = fr, inodePc' = inodePc, call' = call
      PROVE  /\ Put(fr, fr', p, f) /\ Put(file, file', p, fl) /\ Put(cwd, cwd', p, w)
             /\ Put(inodePc, inodePc', p, at) /\ Put(call, call', p, c)
  BY <1>4, FrameFacts, PutFacts
<1>5. ASSUME NEW dr, drop' = [drop EXCEPT ![p] = dr]
      PROVE  Put(drop, drop', p, dr)
  BY <1>5, FrameFacts, PutFacts
<1>6. ASSUME NEW j \in Inode
      PROVE  /\ Mine(f, fl, w.ino, j) \in Nat /\ One(i, j) \in Nat
             /\ ref[j] \in Nat /\ links[j] \in Nat /\ debt[j] \in Nat
             /\ kind[j] = "free" => ref[j] = 0
             /\ \A d \in Inode : Kid(kids[d], j) \in Nat /\ Kid(kids[d], j) <= links[j]
             /\ Mine(f, fl, w.ino, j) + Cnt(drop[p], j) <= ref[j]
  <2>1. Mine(f, fl, w.ino, j) \in Nat /\ One(i, j) \in Nat
    BY MineType, OneType
  <2>2. /\ ref[j] = StaticRefs(j) + Pointers(Entries, j) + Pointers(Held, j) + debt[j]
        /\ links[j] = Pointers(Entries, j)
        /\ kind[j] = "free" => ref[j] = 0
        /\ ref[j] \in Nat /\ links[j] \in Nat /\ debt[j] \in Nat /\ StaticRefs(j) \in Nat
        /\ Pointers(Entries, j) \in Nat /\ Pointers(Held, j) \in Nat
    BY Alive
  <2>3. /\ Mine(f, fl, w.ino, j) + Cnt(drop[p], j) <= Pointers(Held, j)
        /\ \A d \in Inode : Kid(kids[d], j) <= Pointers(Entries, j)
    BY CountFacts
  <2>4. \A d \in Inode : Kid(kids[d], j) \in Nat
    BY InosFacts DEF TreeInv, TreeTypes
  <2> HIDE DEF Mine, Pointers, StaticRefs, Kid, i, t, f, fl, w, Held, Entries
  <2> QED BY ONLY <1>1, <2>1, <2>2, <2>3, <2>4
<1>7. IsList(kids[i]) /\ s = Inos(kids[i]) /\ s \in Seq(Inode)
      /\ \A j : Cnt(s, j) = Kid(kids[i], j)
  <2>1. IsList(kids[i])
    BY <1>1 DEF TreeInv, TreeTypes
  <2>2. s = Inos(kids[i])
    BY DEF Children, Inos
  <2> QED BY <2>1, <2>2, InosFacts DEF Kid
<1>8. CASE ref[i] = 0 /\ Panic("unref_zero")
  BY <1>2, <1>8
<1>9. CASE /\ ref' = [ref EXCEPT ![i] = @ - 1] /\ ~InodeUnrefIsLast(i)
           /\ drop' = [drop EXCEPT ![p] = Tail(@)]
           /\ UNCHANGED <<kind, fsroot, links, kids, inodePc, call, fr, file, cwd,
                          debt, calls, fails, stopped>>
  <2>1. Becomes(p, f, fl, w, at, c)
    BY <1>3, <1>4, <1>9 DEF Becomes
  <2>2. Put(drop, drop', p, t)
    BY <1>0, <1>5, <1>9
  <2>3. /\ ref' \in Counters
        /\ \A j \in Inode : ref'[j] = ref[j] - One(i, j)
    <3>1. ref' = [ref EXCEPT ![i] = ref[i] - 1]
      BY <1>9
    <3> HIDE DEF i
    <3>2. ref[i] \in Nat /\ ref[i] > 0
      BY ONLY <1>0, <1>1, <1>2 DEF Counters
    <3>3. ref[i] - 1 \in Nat
      BY ONLY <3>2
    <3>4. ref' \in Counters
      BY ONLY <1>0, <3>1, <3>3 DEF Counters
    <3>5. ASSUME NEW j \in Inode
          PROVE  ref'[j] = ref[j] - One(i, j)
      <4>1. ref[j] \in Nat
        BY ONLY <1>0, j \in Inode DEF Counters
      <4>2. CASE j = i
        BY ONLY <1>0, <1>1, <3>1, <4>1, <4>2 DEF Counters, One
      <4>3. CASE j # i
        BY ONLY <1>0, <3>1, <4>1, <4>3, j \in Inode DEF Counters, One
      <4> QED BY ONLY <4>2, <4>3
    <3> QED BY ONLY <3>4, <3>5
  <2>4. OnlyKidsOf(Root) /\ Root \in Inode
    <3>1. Root \in Inode
      BY StaticFacts
    <3> QED BY <1>0, <1>9, <3>1 DEF OnlyKidsOf, TreeInv, TreeTypes, NamesAreUnique, UniqueNames
  <2>5. ASSUME NEW j \in Inode
        PROVE  /\ links'[j] = links[j] + Kid(kids'[Root], j) - Kid(kids[Root], j)
               /\ ref'[j] - debt'[j]
                     = ref[j] - debt[j] + Kid(kids'[Root], j) - Kid(kids[Root], j)
                         + (Mine(f, fl, w.ino, j) + Cnt(t, j))
                         - (Mine(fr[p], file[p], cwd[p].ino, j) + Cnt(drop[p], j))
               /\ kind'[j] = "free" => ref'[j] = 0
               /\ kind[j] # "free" /\ kind'[j] # "free"
                    => (kind'[j] = "dir" <=> kind[j] = "dir")
    <3>1. /\ links'[j] = links[j] /\ debt'[j] = debt[j] /\ kind'[j] = kind[j]
          /\ Kid(kids'[Root], j) = Kid(kids[Root], j) /\ Kid(kids[Root], j) \in Nat
      BY <1>6, <1>9, StaticFacts
    <3>2. ref'[j] = ref[j] - One(i, j) /\ Cnt(t, j) = Cnt(drop[p], j) - One(i, j)
          /\ Cnt(drop[p], j) \in Nat
      BY <1>1, <2>3
    <3>3. kind[j] = "free" => One(i, j) = 0
      BY <1>2 DEF One
    <3> DEFINE m == Mine(fr[p], file[p], cwd[p].ino, j)
    <3>4. m \in Nat /\ One(i, j) \in Nat /\ ref[j] \in Nat /\ links[j] \in Nat
          /\ debt[j] \in Nat /\ (kind[j] = "free" => ref[j] = 0)
          /\ Mine(f, fl, w.ino, j) = m
      BY <1>6
    <3> HIDE DEF m, Kid, Mine, i, t, f, fl, w
    <3>5. ref'[j] - debt'[j]
             = ref[j] - debt[j] + Kid(kids'[Root], j) - Kid(kids[Root], j)
                 + (Mine(f, fl, w.ino, j) + Cnt(t, j)) - (m + Cnt(drop[p], j))
      BY ONLY <3>1, <3>2, <3>4
    <3>6. /\ links'[j] = links[j] + Kid(kids'[Root], j) - Kid(kids[Root], j)
          /\ kind'[j] = "free" => ref'[j] = 0
      BY ONLY <3>1, <3>2, <3>3, <3>4
    <3> QED BY <3>1, <3>5, <3>6 DEF m
  <2>6. Moves(p, f, fl, w, t, Root)
    BY ONLY <2>5 DEF Moves
  <2>7. kind' \in [Inode -> Kinds] /\ links' \in Counters /\ debt' \in Counters
          /\ stopped' = stopped
    BY <1>0, <1>9
  <2> HIDE DEF f, fl, w, at, c, t, i
  <2> QED BY <1>1, <2>1, <2>2, <2>3, <2>4, <2>6, <2>7, TreeStep DEF Counters
<1>10. CASE /\ InodeUnrefIsLast(i)
            /\ IF \E k \in DOMAIN kids[i] : links[Children(i)[k]] = 0
               THEN Panic("links_zero")
               ELSE /\ ref' = [ref EXCEPT ![i] = 0]
                    /\ kind' = [kind EXCEPT ![i] = "free"]
                    /\ kids' = [kids EXCEPT ![i] = <<>>]
                    /\ links' = [j \in Inode |-> links[j] -
                          Cardinality(Positions(Children(i), j))]
                    /\ drop' = [drop EXCEPT ![p] = Tail(@) \o Children(i)]
                    /\ UNCHANGED <<fsroot, inodePc, call, fr, file, cwd, debt,
                                   calls, fails, stopped>>
  <2>1. ref[i] = 1 /\ links[i] = 0
    BY <1>10 DEF InodeUnrefIsLast
  <2>2. ASSUME NEW k \in DOMAIN kids[i]
        PROVE  links[Children(i)[k]] # 0
    <3>1. kids[i][k].ino \in Inode /\ Kid(kids[i], kids[i][k].ino) > 0
      BY <1>7, InosFacts
    <3>2. Children(i)[k] = kids[i][k].ino
      BY DEF Children
    <3>3. links[kids[i][k].ino] > 0
      BY <1>1, <3>1, Alive
    <3> QED BY <3>2, <3>3
  <2>3. /\ ref' = [ref EXCEPT ![i] = 0] /\ kind' = [kind EXCEPT ![i] = "free"]
        /\ kids' = [kids EXCEPT ![i] = <<>>]
        /\ links' = [j \in Inode |-> links[j] - Cardinality(Positions(s, j))]
        /\ drop' = [drop EXCEPT ![p] = Tail(@) \o s]
        /\ inodePc' = inodePc /\ call' = call /\ fr' = fr /\ file' = file /\ cwd' = cwd
        /\ debt' = debt /\ stopped' = stopped
    BY <1>10, <2>2
  <2> DEFINE dr == t \o s
  <2>4. dr \in Seq(Inode) /\ Put(drop, drop', p, dr)
        /\ \A j : Cnt(dr, j) = Cnt(t, j) + Kid(kids[i], j)
    <3>1. dr \in Seq(Inode)
      BY <1>1, <1>7, ConcatProperties
    <3>2. \A j : Cnt(dr, j) = Cnt(t, j) + Cnt(s, j)
      BY <1>1, <1>7, CntConcat
    <3>3. Put(drop, drop', p, dr)
      BY <1>0, <1>5, <2>3
    <3> QED BY <1>7, <3>1, <3>2, <3>3
  <2>5. Mine(f, fl, w.ino, i) = 0 /\ Kid(kids[i], i) = 0
    <3> HIDE DEF Mine, Kid, i, t, f, fl, w
    <3>1. /\ Mine(f, fl, w.ino, i) \in Nat /\ Cnt(drop[p], i) \in Nat
          /\ Mine(f, fl, w.ino, i) + Cnt(drop[p], i) <= ref[i]
          /\ Kid(kids[i], i) \in Nat /\ Kid(kids[i], i) <= links[i]
      BY <1>1, <1>6
    <3> QED BY ONLY <1>2, <2>1, <3>1
  <2>6. i # f.par /\ i # f.cur
    <3>1. i \notin {f.cur, f.par, f.old, f.oldpar, fl, w.ino}
      <4> HIDE DEF i, f, fl, w
      <4> QED BY <2>5, MineType
    <3> QED BY <3>1
  <2>7. /\ kind' \in [Inode -> Kinds] /\ kind'[i] = "free"
        /\ \A j \in Inode : j # i => kind'[j] = kind[j]
    <3> HIDE DEF i
    <3> QED BY <1>0, <1>1, <2>3 DEF Kinds
  <2>8. KindsAreKnown(kind', at, f)
    <3>1. /\ f.par # None => kind'[f.par] = kind[f.par]
          /\ f.cur # None => kind'[f.cur] = kind[f.cur]
      BY <1>3, <2>6, <2>7 DEF IsFrame, NoneOr
    <3> HIDE DEF f, at, i
    <3> QED BY <1>3, <3>1 DEF KindsAreKnown, CallIsSound
  <2>9. Becomes(p, f, fl, w, at, c)
    BY <1>3, <1>4, <2>3, <2>8 DEF Becomes
  <2>10. /\ kids'[i] = <<>> /\ DOMAIN kids' = Inode
         /\ \A d \in Inode : d # i => kids'[d] = kids[d]
    BY <1>0, <1>1, <2>3
  <2>11. OnlyKidsOf(i)
    <3>1. <<>> \in Seq({}) /\ \A e \in {} : e.ino \in Inode
      OBVIOUS
    <3>2. IsList(<<>>) /\ UniqueNames(<<>>)
      <4> DEFINE e == <<>>
      <4>1. DOMAIN e = {} /\ e \in Seq({})
        BY <3>1
      <4> HIDE DEF e
      <4>2. IsList(e) /\ UniqueNames(e)
        BY ONLY <4>1 DEF IsList, UniqueNames
      <4> QED BY <4>2 DEF e
    <3> HIDE DEF i
    <3> QED BY <2>7, <2>10, <3>2 DEF OnlyKidsOf
  <2>12. \A j : Kid(kids'[i], j) = 0
    <3>1. Inos(<<>>) = <<>>
      BY DEF Inos
    <3> HIDE DEF i
    <3> QED BY <2>10, <3>1, CntNone DEF Kid
  <2>13. /\ links' \in Counters /\ ref' \in Counters
         /\ \A j \in Inode : links'[j] = links[j] - Kid(kids[i], j)
         /\ \A j \in Inode : ref'[j] = ref[j] - One(i, j)
    <3>1. \A j \in Inode : links'[j] = links[j] - Kid(kids[i], j)
      BY <1>7, <2>3 DEF Cnt
    <3>2. \A j \in Inode : links[j] - Kid(kids[i], j) \in Nat
      <4>1. ASSUME NEW j \in Inode
            PROVE  links[j] - Kid(kids[i], j) \in Nat
        <5>1. links[j] \in Nat /\ Kid(kids[i], j) \in Nat /\ Kid(kids[i], j) <= links[j]
          BY <1>1, <1>6
        <5> HIDE DEF Kid, i
        <5> QED BY ONLY <5>1
      <4> QED BY <4>1
    <3>3. links' = [j \in Inode |-> links'[j]]
      BY <2>3
    <3>4. links' \in Counters
      BY <3>1, <3>2, <3>3 DEF Counters
    <3> HIDE DEF i
    <3>5. ref' \in Counters
      BY <1>0, <2>3 DEF Counters
    <3>6. \A j \in Inode : ref'[j] = ref[j] - One(i, j)
      BY <1>0, <1>1, <2>1, <2>3 DEF Counters, One
    <3> QED BY <3>1, <3>4, <3>5, <3>6
  <2>14. ASSUME NEW j \in Inode
         PROVE  /\ links'[j] = links[j] + Kid(kids'[i], j) - Kid(kids[i], j)
                /\ ref'[j] - debt'[j]
                      = ref[j] - debt[j] + Kid(kids'[i], j) - Kid(kids[i], j)
                          + (Mine(f, fl, w.ino, j) + Cnt(dr, j))
                          - (Mine(fr[p], file[p], cwd[p].ino, j) + Cnt(drop[p], j))
                /\ kind'[j] = "free" => ref'[j] = 0
                /\ kind[j] # "free" /\ kind'[j] # "free"
                     => (kind'[j] = "dir" <=> kind[j] = "dir")
    <3> DEFINE m == Mine(fr[p], file[p], cwd[p].ino, j)
    <3>1. m \in Nat /\ One(i, j) \in Nat /\ ref[j] \in Nat /\ links[j] \in Nat
          /\ debt[j] \in Nat /\ (kind[j] = "free" => ref[j] = 0)
          /\ Kid(kids[i], j) \in Nat /\ Mine(f, fl, w.ino, j) = m
      BY <1>1, <1>6
    <3>2. /\ links'[j] = links[j] - Kid(kids[i], j) /\ ref'[j] = ref[j] - One(i, j)
          /\ debt'[j] = debt[j] /\ Kid(kids'[i], j) = 0
      BY <2>3, <2>12, <2>13
    <3>3. /\ Cnt(dr, j) = Cnt(t, j) + Kid(kids[i], j)
          /\ Cnt(t, j) = Cnt(drop[p], j) - One(i, j) /\ Cnt(drop[p], j) \in Nat
      BY <1>1, <2>4
    <3>4. kind'[j] = "free" => j = i \/ kind[j] = "free"
      BY <2>7
    <3>5. One(i, i) = 1 /\ (j # i => One(i, j) = 0)
      BY DEF One
    <3>6. kind[j] # "free" /\ kind'[j] # "free" => (kind'[j] = "dir" <=> kind[j] = "dir")
      BY <2>7
    <3> HIDE DEF m, Kid, Mine, i, t, f, fl, w, dr
    <3>7. ref'[j] - debt'[j]
             = ref[j] - debt[j] + Kid(kids'[i], j) - Kid(kids[i], j)
                 + (Mine(f, fl, w.ino, j) + Cnt(dr, j)) - (m + Cnt(drop[p], j))
      BY ONLY <3>1, <3>2, <3>3
    <3>8. links'[j] = links[j] + Kid(kids'[i], j) - Kid(kids[i], j)
      BY ONLY <3>1, <3>2
    <3>9. kind'[j] = "free" => ref'[j] = 0
      BY ONLY <2>1, <3>1, <3>2, <3>4, <3>5
    <3> QED BY <3>6, <3>7, <3>8, <3>9 DEF m
  <2>15. Moves(p, f, fl, w, dr, i)
    BY ONLY <2>14 DEF Moves
  <2>16. debt' \in Counters /\ stopped' = stopped
    BY <1>0, <2>3
  <2> HIDE DEF f, fl, w, at, c, t, i, dr
  <2> QED BY <1>1, <2>4, <2>7, <2>9, <2>11, <2>13, <2>15, <2>16, TreeStep DEF Counters
<1> QED BY <1>8, <1>9, <1>10 DEF InodeUnref

-----------------------------------------------------------------------------
(* Inodes: what boot leaves is counted.                                    *)

(* The entries of the initial archive name /d, /m and /d/a.                *)
LEMMA InitEntries ==
    ASSUME InodesInit
    PROVE  /\ DOMAIN kids = Inode /\ \A d \in Inode : IsList(kids[d])
           /\ \A i \in Inode : Pointers(Entries, i) = One(DirD, i) + One(Host, i) + One(FileA, i)
<1>0. /\ {Root, DirD, Host, Guest, Device, FileA} \subseteq Inode
      /\ kids = InitrdKids
  BY StaticFacts DEF InodesInit
<1> DEFINE r == <<Entry("d", DirD), Entry("m", Host)>>
           a == <<Entry("a", FileA)>>
           e == <<>>
<1>1. /\ DOMAIN kids = Inode /\ kids[Root] = r /\ kids[DirD] = a
      /\ \A d \in Inode \ {Root, DirD} : kids[d] = e
  BY <1>0 DEF InitrdKids, Root, DirD
<1>2. /\ IsList(r) /\ DOMAIN r = {1, 2} /\ r[1].ino = DirD /\ r[2].ino = Host
      /\ IsList(a) /\ DOMAIN a = {1} /\ a[1].ino = FileA
      /\ IsList(e) /\ DOMAIN e = {}
  <2> DEFINE S == {Entry("d", DirD), Entry("m", Host), Entry("a", FileA)}
  <2>1. r \in Seq(S) /\ a \in Seq(S) /\ e \in Seq(S)
    OBVIOUS
  <2>2. \A x \in S : x.ino \in Inode
    BY <1>0 DEF Entry
  <2>3. DOMAIN r = {1, 2} /\ r[1].ino = DirD /\ r[2].ino = Host
    BY DEF Entry
  <2>4. DOMAIN a = {1} /\ a[1].ino = FileA
    BY DEF Entry
  <2>5. DOMAIN e = {}
    OBVIOUS
  <2> HIDE DEF r, a, e, S
  <2>6. IsList(r) /\ IsList(a) /\ IsList(e)
    BY <2>1, <2>2 DEF IsList
  <2> QED BY <2>3, <2>4, <2>5, <2>6
<1> HIDE DEF r, a, e
<1>3. \A d \in Inode : IsList(kids[d])
  BY <1>1, <1>2
<1>4. DOMAIN Entries = Inode
  BY DEF Entries
<1>5. ASSUME NEW i \in Inode, NEW d \in Inode
      PROVE  Positions(Entries[d], i)
                = {k \in DOMAIN kids[d] : kids[d][k].ino = i}
  BY DEF Entries, Children, Positions
<1>6. ASSUME NEW i \in Inode
      PROVE  Pointers(Entries, i) = One(DirD, i) + One(Host, i) + One(FileA, i)
  <2>1. PointersTo(Entries, i)
           = {x \in Inode \X {1, 2} : /\ x[2] \in DOMAIN kids[x[1]]
                                      /\ kids[x[1]][x[2]].ino = i}
    <3>1. PointersTo(Entries, i)
             = UNION {{<<d, k>> : k \in {h \in DOMAIN kids[d] : kids[d][h].ino = i}} :
                        d \in Inode}
      BY <1>4, <1>5 DEF PointersTo
    <3>2. \A d \in Inode : DOMAIN kids[d] \subseteq {1, 2}
      BY <1>1, <1>2
    <3> QED BY <3>1, <3>2
  <2>2. ASSUME NEW d \in Inode, NEW k \in {1, 2}
        PROVE  (k \in DOMAIN kids[d] /\ kids[d][k].ino = i)
                 <=> \/ d = Root /\ k = 1 /\ i = DirD
                     \/ d = Root /\ k = 2 /\ i = Host
                     \/ d = DirD /\ k = 1 /\ i = FileA
    <3>1. CASE d = Root
      BY <1>1, <1>2, <3>1 DEF Root, DirD
    <3>2. CASE d = DirD
      BY <1>1, <1>2, <3>2 DEF Root, DirD
    <3>3. CASE d \notin {Root, DirD}
      BY <1>1, <1>2, <3>3
    <3> QED BY <3>1, <3>2, <3>3
  <2>3. PointersTo(Entries, i)
           = IF i = DirD THEN {<<Root, 1>>} ELSE IF i = Host THEN {<<Root, 2>>}
             ELSE IF i = FileA THEN {<<DirD, 1>>} ELSE {}
    <3>1. Root \in Inode /\ DirD \in Inode /\ DirD # Host /\ DirD # FileA /\ Host # FileA
      BY <1>0 DEF DirD, Host, FileA
    <3>2. ASSUME NEW x \in Inode \X {1, 2}
          PROVE  x \in PointersTo(Entries, i)
                   <=> \/ x = <<Root, 1>> /\ i = DirD
                       \/ x = <<Root, 2>> /\ i = Host
                       \/ x = <<DirD, 1>> /\ i = FileA
      <4>1. PICK d \in Inode, k \in {1, 2} : x = <<d, k>>
        OBVIOUS
      <4>2. x \in PointersTo(Entries, i) <=> (k \in DOMAIN kids[d] /\ kids[d][k].ino = i)
        BY <2>1, <4>1
      <4>3. \A y, h : x = <<y, h>> <=> (d = y /\ k = h)
        BY <4>1
      <4> QED BY ONLY <2>2, <4>2, <4>3, d \in Inode, k \in {1, 2}
    <3>3. PointersTo(Entries, i) \subseteq Inode \X {1, 2}
      BY <2>1
    <3> DEFINE P == PointersTo(Entries, i)
    <3> HIDE DEF P
    <3>4. CASE i = DirD
      <4>1. \A x \in Inode \X {1, 2} : x \in P <=> x = <<Root, 1>>
        BY <3>1, <3>2, <3>4 DEF P
      <4>2. P \subseteq Inode \X {1, 2}
        BY <3>3 DEF P
      <4>3. <<Root, 1>> \in Inode \X {1, 2} /\ P = {<<Root, 1>>}
        BY <3>1, <4>1, <4>2
      <4> QED BY <3>4, <4>3 DEF P
    <3>5. CASE i = Host
      <4>1. \A x \in Inode \X {1, 2} : x \in P <=> x = <<Root, 2>>
        BY <3>1, <3>2, <3>5 DEF P
      <4>2. P \subseteq Inode \X {1, 2}
        BY <3>3 DEF P
      <4>3. <<Root, 2>> \in Inode \X {1, 2} /\ P = {<<Root, 2>>}
        BY <3>1, <4>1, <4>2
      <4> QED BY <3>1, <3>5, <4>3 DEF P
    <3>6. CASE i = FileA
      <4>1. \A x \in Inode \X {1, 2} : x \in P <=> x = <<DirD, 1>>
        BY <3>1, <3>2, <3>6 DEF P
      <4>2. P \subseteq Inode \X {1, 2}
        BY <3>3 DEF P
      <4>3. <<DirD, 1>> \in Inode \X {1, 2} /\ P = {<<DirD, 1>>}
        BY <3>1, <4>1, <4>2
      <4> QED BY <3>1, <3>6, <4>3 DEF P
    <3>7. CASE i \notin {DirD, Host, FileA}
      <4>1. \A x \in Inode \X {1, 2} : x \notin P
        BY <3>2, <3>7 DEF P
      <4>2. P \subseteq Inode \X {1, 2}
        BY <3>3 DEF P
      <4>3. P = {}
        BY <4>1, <4>2
      <4> QED BY <3>7, <4>3 DEF P
    <3> QED BY <3>4, <3>5, <3>6, <3>7
  <2>4. /\ Cardinality({<<Root, 1>>}) = 1 /\ Cardinality({<<Root, 2>>}) = 1
        /\ Cardinality({<<DirD, 1>>}) = 1 /\ Cardinality({}) = 0
    BY FS_Singleton, FS_EmptySet
  <2>5. DirD # Host /\ DirD # FileA /\ Host # FileA
    BY DEF DirD, Host, FileA
  <2> QED BY <2>3, <2>4, <2>5 DEF Pointers, One
<1> QED BY <1>1, <1>3, <1>6

(* Every process has the root as its working directory, and nothing else.  *)
LEMMA InitHeld ==
    ASSUME InodesInit
    PROVE  \A i \in Inode : Pointers(Held, i)
              = IF i = Root THEN Cardinality(InodeProcess) ELSE 0
<1>0. /\ fr = [p \in InodeProcess |-> NoFrame] /\ file = [p \in InodeProcess |-> None]
      /\ cwd = [p \in InodeProcess |-> [path |-> <<>>, ino |-> Root]]
      /\ drop = [p \in InodeProcess |-> <<>>]
  BY DEF InodesInit
<1> DEFINE h == <<None, None, None, None, None, Root>>
<1>1. DOMAIN Held = InodeProcess
  BY DEF Held
<1>2. ASSUME NEW p \in InodeProcess
      PROVE  Held[p] = h
  <2>1. Held[p] = h \o <<>>
    BY <1>0 DEF Held, NoFrame
  <2> DEFINE S == {None, Root}
  <2>2. h \in Seq(S)
    OBVIOUS
  <2> HIDE DEF h, S
  <2> QED BY <2>1, <2>2, ConcatEmptySeq
<1>3. ASSUME NEW i \in Inode
      PROVE  Positions(h, i) = IF i = Root THEN {6} ELSE {}
  BY DEF Positions, None, Root, Inode
<1> HIDE DEF h
<1>4. ASSUME NEW i \in Inode
      PROVE  PointersTo(Held, i) = IF i = Root THEN {<<p, 6>> : p \in InodeProcess} ELSE {}
  <2>1. PointersTo(Held, i)
           = UNION {{<<p, k>> : k \in Positions(h, i)} : p \in InodeProcess}
    BY <1>1, <1>2 DEF PointersTo
  <2>2. CASE i = Root
    <3>1. Positions(h, i) = {6}
      BY <1>3, <2>2
    <3> QED BY <2>1, <2>2, <3>1
  <2>3. CASE i # Root
    <3>1. Positions(h, i) = {}
      BY <1>3, <2>3
    <3> QED BY <2>1, <2>3, <3>1
  <2> QED BY <2>2, <2>3
<1>5. Cardinality({<<p, 6>> : p \in InodeProcess}) = Cardinality(InodeProcess)
  <2> DEFINE T == {<<p, 6>> : p \in InodeProcess}
             g == [p \in InodeProcess |-> <<p, 6>>]
  <2>1. g \in Injection(InodeProcess, T)
    BY DEF Injection, IsInjective
  <2>2. g \in Surjection(InodeProcess, T)
    BY DEF Surjection
  <2>3. g \in Bijection(InodeProcess, T)
    BY <2>1, <2>2 DEF Bijection
  <2> HIDE DEF g, T
  <2>4. IsFiniteSet(InodeProcess)
    BY InodesAssumption
  <2>5. Cardinality(T) = Cardinality(InodeProcess)
    BY <2>3, <2>4, FS_Bijection DEF ExistsBijection
  <2> QED BY <2>5 DEF T
<1> QED BY <1>4, <1>5, FS_EmptySet DEF Pointers

(* What boot leaves is a sound tree.                                       *)
LEMMA TreeInvInit ==
    ASSUME InodesInit
    PROVE  TreeInv
<1>0. /\ {Root, DirD, Host, Guest, Device, FileA} \subseteq Inode
      /\ \A i : StaticRefs(i) = One(Root, i) + One(Host, i) + One(Guest, i) + One(Device, i)
  BY StaticFacts
<1>1. Cardinality(InodeProcess) \in Nat
  BY InodesAssumption, FS_CardinalityType
<1>2. /\ kind \in [Inode -> Kinds] /\ ref \in [Inode -> Nat] /\ links \in [Inode -> Nat]
      /\ debt \in [Inode -> Nat]
  <2>1. kind \in [Inode -> Kinds]
    BY DEF InodesInit, Kinds
  <2>2. ref \in [Inode -> Nat]
    <3> DEFINE m == Cardinality(InodeProcess)
    <3>1. m \in Nat
      BY <1>1
    <3>2. ref = [i \in Inode |-> CASE i = Root -> 1 + m [] i = DirD -> 2 [] i = Host -> 3
                                   [] i \in {Guest, Device, FileA} -> 1 [] OTHER -> 0]
      BY DEF InodesInit
    <3> HIDE DEF m
    <3> QED BY <3>1, <3>2
  <2>3. links \in [Inode -> Nat] /\ debt \in [Inode -> Nat]
    BY DEF InodesInit, InitrdDebt
  <2> QED BY <2>1, <2>2, <2>3
<1>3. TreeTypes
  <2>1. DOMAIN kids = Inode /\ \A d \in Inode : IsList(kids[d])
    BY InitEntries
  <2>2. file \in [InodeProcess -> NoneOr] /\ drop \in [InodeProcess -> Seq(Inode)]
    BY DEF InodesInit, NoneOr
  <2>3. IsFamily(fr) /\ IsFamily(cwd) /\ IsFamily(inodePc) /\ IsFamily(call)
    BY DEF InodesInit, IsFamily
  <2>4. \A p \in InodeProcess : IsFrame(fr[p]) /\ cwd[p].ino \in Inode
    BY <1>0 DEF InodesInit, IsFrame, NoFrame, NoneOr
  <2> QED BY <1>2, <2>1, <2>2, <2>3, <2>4 DEF TreeTypes
<1>4. CountsAreExact
  <2>1. ASSUME NEW i \in Inode
        PROVE  /\ links[i] = Pointers(Entries, i)
               /\ ref[i] = StaticRefs(i) + Pointers(Entries, i) + Pointers(Held, i) + debt[i]
               /\ kind[i] = "free" => ref[i] = 0
    <3> DEFINE m == Cardinality(InodeProcess)
    <3>1. /\ Pointers(Entries, i) = One(DirD, i) + One(Host, i) + One(FileA, i)
          /\ Pointers(Held, i) = IF i = Root THEN m ELSE 0
          /\ StaticRefs(i) = One(Root, i) + One(Host, i) + One(Guest, i) + One(Device, i)
      BY <1>0, InitEntries, InitHeld
    <3>2. /\ links[i] = IF i \in {DirD, Host, FileA} THEN 1 ELSE 0
          /\ debt[i] = IF i \in {DirD, Host} THEN 1 ELSE 0
          /\ ref[i] = CASE i = Root -> 1 + m [] i = DirD -> 2 [] i = Host -> 3
                        [] i \in {Guest, Device, FileA} -> 1 [] OTHER -> 0
          /\ kind[i] = "free" => i \notin {Root, DirD, Host, Guest, Device, FileA}
      BY DEF InodesInit, InitrdDebt
    <3>3. m \in Nat
      BY <1>1
    <3> HIDE DEF m
    <3> QED BY <3>1, <3>2, <3>3 DEF One, Root, DirD, Host, Guest, Device, FileA
  <2> QED BY <2>1 DEF CountsAreExact, Pointers
<1>5. NamesAreUnique
  <2>1. kids = InitrdKids /\ kind[Root] = "dir" /\ kind[DirD] = "dir"
    BY <1>0 DEF InodesInit, Root, DirD, Host, Guest, Device, FileA
  <2>2. ASSUME NEW d \in Inode
        PROVE  /\ \A j, k \in DOMAIN kids[d] : kids[d][j].name = kids[d][k].name => j = k
               /\ kids[d] # <<>> => kind[d] = "dir"
    <3>1. CASE d = Root
      <4>1. kids[d] = <<Entry("d", DirD), Entry("m", Host)>>
        BY <2>1, <3>1 DEF InitrdKids, Root, DirD
      <4> QED BY <2>1, <3>1, <4>1 DEF Entry
    <3>2. CASE d = DirD
      <4>1. kids[d] = <<Entry("a", FileA)>>
        BY <2>1, <3>2 DEF InitrdKids, Root, DirD
      <4> QED BY <2>1, <3>2, <4>1 DEF Entry
    <3>3. CASE d \notin {Root, DirD}
      <4>1. kids[d] = <<>>
        BY <2>1, <3>3 DEF InitrdKids
      <4> QED BY <4>1
    <3> QED BY <3>1, <3>2, <3>3
  <2> QED BY <2>2 DEF NamesAreUnique
<1>6. InodeAsserts
  BY DEF InodesInit, InodeAsserts
<1>7. ASSUME NEW p \in InodeProcess
      PROVE  /\ CallIsSound(inodePc[p], call[p], fr[p], file[p])
             /\ KindsAreKnown(kind, inodePc[p], fr[p])
  <2>1. inodePc[p] = "idle" /\ call[p] = NoCall /\ fr[p] = NoFrame
    BY DEF InodesInit
  <2>2. CallIsSound("idle", NoCall, NoFrame, file[p])
    BY DEF CallIsSound, NoCall, NoFrame
  <2>3. KindsAreKnown(kind, "idle", NoFrame)
    BY DEF KindsAreKnown
  <2> QED BY <2>1, <2>2, <2>3
<1> QED BY <1>3, <1>4, <1>5, <1>6, <1>7 DEF TreeInv

-----------------------------------------------------------------------------
(* Inodes: every step keeps the tree sound.                                *)

(* Each call, and the giving up of a reference, step by step.              *)
LEMMA TreeInvStep ==
    ASSUME TreeInv, [InodesNext]_inodeVars
    PROVE  TreeInv'
<1>1. CASE UNCHANGED inodeVars
  BY <1>1, PanicKeeps
<1>2. ASSUME NEW p \in InodeProcess, InodesStep(p)
      PROVE  TreeInv'
  <2>1. CASE InodeCall(p) \/ Close(p) \/ InodeUnref(p)
    BY <2>1, InodeCallKeeps, CloseKeeps, InodeUnrefKeeps
  <2>2. CASE ResolveComponent(p) \/ ResolveFailed(p)
    BY <2>2, ResolveComponentKeeps, ResolveFailedKeeps
  <2>3. CASE VfsOpenEnd(p) \/ VfsStat(p) \/ SysChdir(p)
    BY <2>3, VfsOpenEndKeeps, VfsStatKeeps, SysChdirKeeps
  <2>4. CASE CreateResolved(p) \/ CreateChild(p) \/ CreateLookup(p) \/ SysMknodEnd(p)
    BY <2>4, CreateResolvedKeeps, CreateChildKeeps, CreateLookupKeeps, SysMknodEndKeeps
  <2>5. CASE LinkOld(p) \/ LinkNew(p) \/ LinkChild(p)
    BY <2>5, LinkOldKeeps, LinkNewKeeps, LinkChildKeeps
  <2>6. CASE SysUnlink(p) \/ SysRmdir(p) \/ UnlinkLast(p) \/ MakeSureDirectoryIsEmpty(p)
    BY <2>6, SysUnlinkKeeps, SysRmdirKeeps, UnlinkLastKeeps, MakeSureDirectoryIsEmptyKeeps
  <2>7. CASE RenameOld(p) \/ RenameNew(p) \/ RenameReplace(p)
    BY <2>7, RenameOldKeeps, RenameNewKeeps, RenameReplaceKeeps
  <2> QED BY <1>2, <2>1, <2>2, <2>3, <2>4, <2>5, <2>6, <2>7 DEF InodesStep
<1> QED BY <1>1, <1>2 DEF InodesNext

(* The property, from the invariant.                                       *)
LEMMA TreeInvIsSound ==
    ASSUME TreeInv
    PROVE  TreeIsSound
<1>1. InodesTypeOK
  <2>1. \A d \in Inode : \A k \in DOMAIN kids[d] : kids[d][k].ino \in Inode
    BY InosFacts DEF TreeInv, TreeTypes
  <2> QED BY <2>1 DEF InodesTypeOK, TreeInv, TreeTypes, Kinds, NoneOr
<1> QED BY <1>1 DEF TreeInv, TreeIsSound

(* Whatever the calls of several processes do to the tree, however their   *)
(* steps interleave and whichever allocation fails: an inode's ref_count   *)
(* is the number of pointers to it (with those the code has lost), its     *)
(* num_links the number of its names, no pointer is left to a destroyed    *)
(* inode, a directory lists a name once, and no counter is decremented at  *)
(* zero (fs.c:92, :98, dentry.c:80, :122).                                 *)
THEOREM TheTreeStaysSound == InodesSpec => []TreeIsSound
<1>1. InodesInit => TreeInv
  BY TreeInvInit
<1>2. TreeInv /\ [InodesNext]_inodeVars => TreeInv'
  BY TreeInvStep
<1>3. TreeInv => TreeIsSound
  BY TreeInvIsSound
<1> QED BY <1>1, <1>2, <1>3, PTL DEF InodesSpec
=============================================================================
