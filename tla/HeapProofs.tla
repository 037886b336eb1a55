----------------------------- MODULE HeapProofs -----------------------------
(***************************************************************************)
(* The kernel's addresses stay partitioned, for any number of threads,     *)
(* pages and physical pages.  The first part is about sets of pages that   *)
(* change hands, the second the invariant, and then comes one lemma per    *)
(* action.                                                                 *)
(***************************************************************************)
EXTENDS Heap, RangeAllocatorProofs, FiniteSetTheorems, TLAPS

HeapPage == 0 .. HeapPages - 1
BlockPages(b) == Extent(b.addr, b.pages)

HeapBlock == {b \in [addr : HeapPage, pages : 1 .. HeapPages, size : 1 .. HeapPages] :
                b.addr + b.pages <= HeapPages /\ b.size <= b.pages}
HeapPC == {"idle", "alloc", "map", "copy", "unmapped", "return"}
UserRecord == [pc : HeapPC, addr : HeapPage, n : Nat,
               old : HeapBlock \cup {NoBlock}]

HeapTypeOK ==
    /\ FreeListOf(heapRanges, HeapPages)
    /\ heapLocked \subseteq HeapUser /\ heapPanic \in BOOLEAN
    /\ heapMapped \subseteq HeapPage /\ heapLost \subseteq HeapPage
    /\ heapFree \in Nat /\ heapFree = HeapFrames - Cardinality(heapMapped)
    /\ blocks \subseteq HeapBlock
    /\ heapUser \in [HeapUser -> UserRecord]

(* The pages a thread has between two steps.                               *)
Held(u) == IF u.pc \in {"map", "unmapped", "return"} THEN Extent(u.addr, u.n) ELSE {}
HeldBy == [t \in HeapUser |-> Held(heapUser[t])]

(* The free pages F, the blocks B, what each thread holds, T, and the lost *)
(* pages L are apart, and there is nothing else.                           *)
Partition(F, B, T, L) ==
    /\ \A b \in B : BlockPages(b) \cap F = {} /\ BlockPages(b) \cap L = {}
    /\ \A b, c \in B : b # c => BlockPages(b) \cap BlockPages(c) = {}
    /\ \A t \in HeapUser : T[t] \cap F = {} /\ T[t] \cap L = {}
    /\ \A t \in HeapUser, b \in B : T[t] \cap BlockPages(b) = {}
    /\ \A t, u \in HeapUser : t # u => T[t] \cap T[u] = {}
    /\ F \cap L = {}
    /\ \A v \in HeapPage : \/ v \in F \/ v \in L
                           \/ \E b \in B : v \in BlockPages(b)
                           \/ \E t \in HeapUser : v \in T[t]

(* The mapped pages M are the headers H of free ranges, the blocks, and    *)
(* lost pages.                                                             *)
MappedRight(M, H, B, L) ==
    /\ H \subseteq M
    /\ \A b \in B : BlockPages(b) \subseteq M
    /\ \A v \in M : v \in H \/ v \in L \/ \E b \in B : v \in BlockPages(b)

(* A thread in krealloc() has an old block and, when it copies, a new one, *)
(* which are still there,                                                  *)
New(u) == Block(u.addr, u.n, u.n)
UserSound(u, B) ==
    /\ u.pc # "idle" => u.n > 0
    /\ u.pc \in {"map", "unmapped", "return", "copy"} => u.addr + u.n <= HeapPages
    /\ u.pc \in {"idle", "unmapped", "return"} => u.old = NoBlock
    /\ u.pc \in {"alloc", "map"} => u.old \in B \cup {NoBlock}
    /\ u.pc = "copy" => u.old \in B /\ New(u) \in B /\ u.old # New(u)
    /\ u.old.pages <= u.n

(* and no other thread has one of them.                                    *)
Distinct(u, w) ==
    /\ u.old = NoBlock \/ u.old # w.old
    /\ u.pc = "copy" => New(u) # w.old
    /\ u.pc = "copy" /\ w.pc = "copy" => New(u) # New(w)

Threads(U, B) ==
    /\ \A t \in HeapUser : UserSound(U[t], B)
    /\ \A t, w \in HeapUser : t # w => Distinct(U[t], U[w])

HeapInv == /\ HeapTypeOK
           /\ Partition(FreePages(heapRanges), blocks, HeldBy, heapLost)
           /\ MappedRight(heapMapped, Headers(heapRanges), blocks, heapLost)
           /\ Threads(heapUser, blocks)

-----------------------------------------------------------------------------
(* What is taken from the free list is the thread's.                       *)
LEMMA FreeToThread ==
    ASSUME NEW F, NEW B, NEW T, NEW L, Partition(F, B, T, L), NEW t \in HeapUser,
           NEW X \in SUBSET F, T[t] = {}, NEW U, U[t] = X,
           \A w \in HeapUser : w # t => U[w] = T[w], NEW G, G = F \ X
    PROVE  Partition(G, B, U, L)
  BY Zenon DEF Partition

(* A mapped range becomes a block.                                         *)
LEMMA ThreadToBlock ==
    ASSUME NEW F, NEW B, NEW T, NEW L, Partition(F, B, T, L), NEW t \in HeapUser,
           NEW b, BlockPages(b) = T[t], NEW U, U[t] = {},
           \A w \in HeapUser : w # t => U[w] = T[w], NEW C, C = B \cup {b}
    PROVE  Partition(F, C, U, L)
  BY DEF Partition

(* What could not be mapped is lost.                                       *)
LEMMA ThreadToLost ==
    ASSUME NEW F, NEW B, NEW T, NEW L, Partition(F, B, T, L), NEW t \in HeapUser,
           NEW U, U[t] = {}, \A w \in HeapUser : w # t => U[w] = T[w],
           NEW M, M = L \cup T[t]
    PROVE  Partition(F, B, U, M)
  BY DEF Partition

(* The first pages X of a freed block are the thread's, the others lost.   *)
LEMMA BlockToThread ==
    ASSUME NEW F, NEW B, NEW T, NEW L, Partition(F, B, T, L), NEW t \in HeapUser,
           NEW b \in B, NEW X \in SUBSET BlockPages(b), T[t] = {}, NEW U, U[t] = X,
           \A w \in HeapUser : w # t => U[w] = T[w]
    PROVE  Partition(F, B \ {b}, U, L \cup (BlockPages(b) \ X))
  BY DEF Partition

(* What is given back is free.                                             *)
LEMMA ThreadToFree ==
    ASSUME NEW F, NEW B, NEW T, NEW L, Partition(F, B, T, L), NEW t \in HeapUser,
           NEW U, U[t] = {}, \A w \in HeapUser : w # t => U[w] = T[w],
           NEW G, G = F \cup T[t]
    PROVE  Partition(G, B, U, L)
  BY DEF Partition

(* A block with another header is the same pages.                          *)
LEMMA BlockRewritten ==
    ASSUME NEW F, NEW B, NEW T, NEW L, Partition(F, B, T, L), NEW b \in B,
           BlockPages(b) # {}, NEW c, BlockPages(c) = BlockPages(b),
           NEW C, C = (B \ {b}) \cup {c}
    PROVE  Partition(F, C, T, L)
  BY DEF Partition

(* A header moves from one free page to others.                            *)
LEMMA HeadersMoved ==
    ASSUME NEW F, NEW B, NEW T, NEW L, Partition(F, B, T, L),
           NEW M, NEW H, MappedRight(M, H, B, L), NEW a \in F, NEW Z
    PROVE  MappedRight((M \ {a}) \cup Z, (H \ {a}) \cup Z, B, L)
<1> DEFINE N == (M \ {a}) \cup Z
           J == (H \ {a}) \cup Z
<1>1. J \subseteq N
  BY DEF MappedRight
<1>2. \A b \in B : BlockPages(b) \subseteq N
  BY DEF MappedRight, Partition
<1>3. \A v \in N : v \in J \/ v \in L \/ \E b \in B : v \in BlockPages(b)
  BY DEF MappedRight
<1> QED BY <1>1, <1>2, <1>3 DEF MappedRight

(* How many pages are mapped when an extent is added or removed.           *)
LEMMA ExtentFacts ==
    ASSUME NEW a \in Nat, NEW n \in Nat
    PROVE  /\ \A v : v \in Extent(a, n) <=> v \in Int /\ a <= v /\ v < a + n
           /\ IsFiniteSet(Extent(a, n)) /\ Cardinality(Extent(a, n)) = n
<1>1. Extent(a, n) = a .. a + n - 1
  BY DEF Extent
<1> QED BY <1>1, FS_Interval

LEMMA ExtentAdded ==
    ASSUME NEW M, IsFiniteSet(M), NEW a \in Nat, NEW n \in Nat, M \cap Extent(a, n) = {}
    PROVE  Cardinality(M \cup Extent(a, n)) = Cardinality(M) + n
<1> DEFINE E == Extent(a, n)
<1>1. IsFiniteSet(E) /\ Cardinality(E) = n
  BY ExtentFacts
<1> HIDE DEF E
<1>2. /\ Cardinality(M \cup E) = Cardinality(M) + Cardinality(E) - Cardinality(M \cap E)
      /\ Cardinality(M) \in Nat
  BY <1>1, FS_Union, FS_CardinalityType
<1>3. M \cap E = {} /\ Cardinality({}) = 0
  BY FS_EmptySet DEF E
<1>4. Cardinality(M \cup E) = Cardinality(M) + n
  BY <1>1, <1>2, <1>3
<1> QED BY <1>4 DEF E

LEMMA ExtentRemoved ==
    ASSUME NEW M, IsFiniteSet(M), NEW a \in Nat, NEW n \in Nat, Extent(a, n) \subseteq M
    PROVE  Cardinality(M \ Extent(a, n)) = Cardinality(M) - n
<1> DEFINE E == Extent(a, n)
<1>1. Cardinality(E) = n
  BY ExtentFacts
<1> HIDE DEF E
<1>2. /\ Cardinality(M \ E) = Cardinality(M) - Cardinality(M \cap E)
  BY FS_Difference
<1>3. M \cap E = E
  BY DEF E
<1>4. Cardinality(M \ E) = Cardinality(M) - n
  BY <1>1, <1>2, <1>3
<1> QED BY <1>4 DEF E

-----------------------------------------------------------------------------
(* What a block is.                                                        *)
LEMMA BlockFacts ==
    ASSUME NEW b \in HeapBlock
    PROVE  /\ b.addr \in HeapPage /\ b.addr \in Nat /\ b.pages \in Nat \ {0} /\ b.size \in Nat \ {0}
           /\ b.addr + b.pages <= HeapPages /\ b.size <= b.pages
           /\ b.addr \in BlockPages(b) /\ BlockPages(b) \subseteq HeapPage
           /\ Extent(b.addr, b.size) \subseteq BlockPages(b)
           /\ b = Block(b.addr, b.pages, b.size) /\ b # NoBlock
<1>1. /\ b.addr \in HeapPage /\ b.addr \in Nat /\ b.pages \in Nat \ {0} /\ b.size \in Nat \ {0}
      /\ b.addr + b.pages <= HeapPages /\ b.size <= b.pages
      /\ b = Block(b.addr, b.pages, b.size)
  BY HeapAssumption DEF HeapBlock, HeapPage, Block
<1>2. b # NoBlock
  <2>1. NoBlock.pages = 0
    BY DEF NoBlock, Block
  <2> QED BY <1>1, <2>1
<1>3. /\ \A v : v \in BlockPages(b) <=> v \in Int /\ b.addr <= v /\ v < b.addr + b.pages
      /\ \A v : v \in Extent(b.addr, b.size) <=> v \in Int /\ b.addr <= v /\ v < b.addr + b.size
  BY <1>1, ExtentFacts DEF BlockPages
<1>4. /\ b.addr \in BlockPages(b) /\ BlockPages(b) \subseteq HeapPage
      /\ Extent(b.addr, b.size) \subseteq BlockPages(b)
  BY <1>1, <1>3, HeapAssumption DEF HeapPage
<1> QED BY <1>1, <1>2, <1>4

LEMMA UserFacts ==
    ASSUME HeapTypeOK, NEW t \in HeapUser
    PROVE  /\ heapUser[t] \in UserRecord
           /\ heapUser[t].pc \in HeapPC
           /\ heapUser[t].addr \in HeapPage /\ heapUser[t].addr \in Nat
           /\ heapUser[t].n \in Nat
           /\ heapUser[t].old \in HeapBlock \cup {NoBlock}
           /\ IsFiniteSet(heapMapped)
<1>1. heapUser[t] \in UserRecord
  BY DEF HeapTypeOK
<1>2. IsFiniteSet(heapMapped)
  <2>1. IsFiniteSet(HeapPage)
    BY HeapAssumption, FS_Interval DEF HeapPage
  <2> QED BY <2>1, FS_Subset DEF HeapTypeOK
<1> QED BY <1>1, <1>2, HeapAssumption DEF UserRecord, HeapPC, HeapPage

(* One thread goes on.                                                     *)
LEMMA UserMoved ==
    ASSUME HeapTypeOK, NEW t \in HeapUser, NEW x \in UserRecord,
           heapUser' = [heapUser EXCEPT ![t] = x]
    PROVE  /\ heapUser' \in [HeapUser -> UserRecord] /\ heapUser'[t] = x
           /\ \A w \in HeapUser : w # t => heapUser'[w] = heapUser[w]
           /\ HeldBy'[t] = Held(x)
           /\ \A w \in HeapUser : w # t => HeldBy'[w] = HeldBy[w]
  BY DEF HeapTypeOK, HeldBy, Held

LEMMA StillDistinct ==
    ASSUME NEW U, NEW B, Threads(U, B), NEW t \in HeapUser, NEW W, NEW C,
           \A w \in HeapUser : w # t => W[w] = U[w],
           UserSound(W[t], C),
           \A w \in HeapUser : w # t => UserSound(U[w], C),
           \A w \in HeapUser : w # t => Distinct(W[t], U[w]) /\ Distinct(U[w], W[t])
    PROVE  Threads(W, C)
<1>1. \A w \in HeapUser : UserSound(W[w], C)
  OBVIOUS
<1>2. ASSUME NEW u \in HeapUser, NEW w \in HeapUser, u # w
      PROVE  Distinct(W[u], W[w])
  <2>1. CASE u = t
    BY <2>1, <1>2
  <2>2. CASE w = t
    BY <2>2, <1>2
  <2>3. CASE u # t /\ w # t
    BY <2>3, <1>2 DEF Threads
  <2> QED BY <2>1, <2>2, <2>3
<1> QED BY <1>1, <1>2 DEF Threads

-----------------------------------------------------------------------------
(* A thread goes on and nothing else changes: it holds what it held, and   *)
(* what it has of blocks is as it should be.                               *)
LEMMA CallGoesOn ==
    ASSUME HeapInv, NEW t \in HeapUser, NEW x \in UserRecord,
           heapUser' = [heapUser EXCEPT ![t] = x], heapPanic' \in BOOLEAN,
           heapLocked' \subseteq HeapUser,
           UNCHANGED <<heapRanges, heapMapped, heapFree, blocks, heapLost>>,
           Held(x) = HeldBy[t], UserSound(x, blocks),
           \A w \in HeapUser : w # t => Distinct(x, heapUser[w]) /\ Distinct(heapUser[w], x)
    PROVE  HeapInv'
<1>1. /\ HeapTypeOK /\ Partition(FreePages(heapRanges), blocks, HeldBy, heapLost)
      /\ MappedRight(heapMapped, Headers(heapRanges), blocks, heapLost)
      /\ Threads(heapUser, blocks)
  BY DEF HeapInv
<1>2. /\ heapUser' \in [HeapUser -> UserRecord] /\ heapUser'[t] = x
      /\ \A w \in HeapUser : w # t => heapUser'[w] = heapUser[w]
      /\ HeldBy'[t] = Held(x)
      /\ \A w \in HeapUser : w # t => HeldBy'[w] = HeldBy[w]
  BY <1>1, UserMoved
<1>3. \A w \in HeapUser : HeldBy'[w] = HeldBy[w]
  BY <1>2
<1>4. Partition(FreePages(heapRanges), blocks, HeldBy', heapLost)
  BY <1>1, <1>3 DEF Partition
<1>5. HeapTypeOK'
  BY <1>1, <1>2 DEF HeapTypeOK
<1>6. Threads(heapUser', blocks)
  BY <1>1, <1>2, StillDistinct DEF Threads
<1> QED BY <1>1, <1>4, <1>5, <1>6 DEF HeapInv

(* An idle thread has nothing that another one could have.                 *)
LEMMA NothingInCommon ==
    ASSUME HeapInv, NEW x, x.old = NoBlock, x.pc # "copy", NEW w \in HeapUser
    PROVE  Distinct(x, heapUser[w]) /\ Distinct(heapUser[w], x)
<1>1. UserSound(heapUser[w], blocks) /\ blocks \subseteq HeapBlock
  BY DEF HeapInv, HeapTypeOK, Threads
<1>2. heapUser[w].pc = "copy" => New(heapUser[w]) # NoBlock
  BY <1>1, BlockFacts DEF UserSound
<1> QED BY <1>2 DEF Distinct

(* A call begins.                                                          *)
LEMMA KCallStep ==
    ASSUME HeapInv, NEW t \in HeapUser, KCall(t)
    PROVE  HeapInv'
<1>1. PICK n \in 1 .. MaxBlock, old \in {b \in blocks : Usable(b)} \cup {NoBlock} :
         /\ old.pages <= n
         /\ heapUser' = [heapUser EXCEPT ![t] =
              [pc |-> "alloc", addr |-> 0, n |-> n, old |-> old]]
  BY DEF KCall
<1>2. /\ heapUser[t].pc = "idle" /\ heapPanic' \in BOOLEAN
      /\ UNCHANGED <<heapRanges, heapLocked, heapMapped, heapFree, blocks, heapLost>>
  BY DEF KCall, HeapAt
<1>3. heapLocked' \subseteq HeapUser /\ blocks \subseteq HeapBlock
  BY <1>2 DEF HeapInv, HeapTypeOK
<1> DEFINE x == [pc |-> "alloc", addr |-> 0, n |-> n, old |-> old]
<1>4. /\ x \in UserRecord /\ x.pc = "alloc" /\ x.old = old /\ x.n = n
      /\ heapUser' = [heapUser EXCEPT ![t] = x]
  BY <1>1, <1>3, HeapAssumption DEF UserRecord, HeapPC, HeapPage
<1> HIDE DEF x
<1>5. Held(x) = HeldBy[t]
  BY <1>2, <1>4 DEF Held, HeldBy
<1>6. UserSound(x, blocks)
  BY <1>1, <1>4 DEF UserSound
<1>7. ASSUME NEW w \in HeapUser, w # t
      PROVE  Distinct(x, heapUser[w]) /\ Distinct(heapUser[w], x)
  <2>1. CASE old = NoBlock
    BY <2>1, <1>4, NothingInCommon
  <2>2. CASE old # NoBlock
    <3>1. Usable(old)
      BY <2>2
    <3>2. New(heapUser[w]).addr = heapUser[w].addr
      BY DEF New, Block
    <3> QED BY <3>1, <3>2, <1>4, <1>7 DEF Usable, Distinct
  <2> QED BY <2>1, <2>2
<1> QED BY <1>2, <1>3, <1>4, <1>5, <1>6, <1>7, CallGoesOn

(* kaligned_alloc() takes a range.                                         *)
LEMMA KAllocStep ==
    ASSUME HeapInv, NEW t \in HeapUser, KAlloc(t)
    PROVE  HeapInv'
<1> DEFINE n == heapUser[t].n
           old == heapUser[t].old
           i == FirstFit(heapRanges, n)
           a == heapRanges[i].start
           x == [heapUser[t] EXCEPT !.pc = "map", !.addr = a]
<1>1. /\ heapUser[t].pc = "alloc" /\ UNCHANGED <<blocks, heapLost, heapPanic>>
      /\ IF i = 0
         THEN /\ heapLocked' = {t} /\ heapUser' = [heapUser EXCEPT ![t] = HeapIdle]
              /\ UNCHANGED <<heapRanges, heapMapped, heapFree>>
         ELSE /\ heapRanges' = Taken(heapRanges, i, n)
              /\ heapMapped' = (heapMapped \ {a}) \cup
                   (IF IsExact(heapRanges, i, n) THEN {} ELSE {a + n})
              /\ heapFree' = IF IsExact(heapRanges, i, n) THEN heapFree + 1 ELSE heapFree
              /\ heapUser' = [heapUser EXCEPT ![t].pc = "map", ![t].addr = a]
              /\ UNCHANGED heapLocked
  BY DEF KAlloc, HeapAt
<1>2. /\ HeapTypeOK /\ heapUser[t] \in UserRecord /\ UserSound(heapUser[t], blocks)
      /\ n \in Nat /\ old.pages <= n /\ old \in blocks \cup {NoBlock}
      /\ old.pages \in Nat /\ heapPanic \in BOOLEAN
  <2>1. HeapTypeOK /\ heapUser[t] \in UserRecord /\ UserSound(heapUser[t], blocks)
        /\ n \in Nat /\ blocks \subseteq HeapBlock /\ heapPanic \in BOOLEAN
    BY UserFacts DEF HeapInv, HeapTypeOK, Threads
  <2>2. old.pages <= n /\ old \in blocks \cup {NoBlock}
    BY <2>1, <1>1 DEF UserSound
  <2> QED BY <2>1, <2>2, BlockFacts DEF NoBlock, Block
<1>3. CASE i = 0
  <2>1. /\ HeapIdle \in UserRecord /\ HeapIdle.pc = "idle" /\ HeapIdle.old = NoBlock
        /\ HeapIdle.n = 0 /\ NoBlock.pages = 0
    BY HeapAssumption DEF HeapIdle, UserRecord, HeapPC, HeapPage, NoBlock, Block
  <2>2. Held(HeapIdle) = HeldBy[t] /\ UserSound(HeapIdle, blocks)
    BY <2>1, <1>1 DEF Held, HeldBy, UserSound
  <2>3. \A w \in HeapUser : Distinct(HeapIdle, heapUser[w]) /\ Distinct(heapUser[w], HeapIdle)
    BY <2>1, NothingInCommon
  <2> QED BY <1>1, <1>2, <1>3, <2>1, <2>2, <2>3, CallGoesOn
<1>4. CASE i # 0
  <2>1. /\ heapRanges' = Taken(heapRanges, i, n)
        /\ heapMapped' = (heapMapped \ {a}) \cup (IF IsExact(heapRanges, i, n) THEN {} ELSE {a + n})
        /\ heapFree' = IF IsExact(heapRanges, i, n) THEN heapFree + 1 ELSE heapFree
        /\ heapUser' = [heapUser EXCEPT ![t] = x] /\ heapLocked' = heapLocked
        /\ old.pages <= n
    BY <1>1, <1>2, <1>4 DEF HeapTypeOK
  <2>2. n \in Nat \ {0} /\ HeapPages \in Nat /\ FreeListOf(heapRanges, HeapPages) /\ HeapTypeOK
    BY <1>1, <1>2, HeapAssumption DEF HeapTypeOK, UserSound
  <2>3. i \in DOMAIN heapRanges /\ heapRanges[i].size >= n
    BY <2>2, <1>4, FitsFacts
  <2> DEFINE F == FreePages(heapRanges)
             H == Headers(heapRanges)
             G == FreePages(heapRanges')
             J == Headers(heapRanges')
             X == Extent(a, n)
  <2>4. /\ FreeListOf(heapRanges', HeapPages) /\ a \in H /\ a .. a + n - 1 \subseteq F
        /\ a \in 0 .. HeapPages - 1 /\ a + n <= HeapPages
        /\ G = F \ (a .. a + n - 1)
        /\ IsExact(heapRanges, i, n) => J = H \ {a}
        /\ ~IsExact(heapRanges, i, n) => J = (H \ {a}) \cup {a + n} /\ a + n \in F \ H
    BY <2>1, <2>2, <2>3, TakenFacts
  <2>5. H \subseteq F
    BY <2>2, HeadersAreFree
  <2>6. X = a .. a + n - 1
    BY DEF Extent
  <2>7. x \in UserRecord /\ x.pc = "map" /\ x.addr = a /\ x.n = n /\ x.old = old
    BY <1>2, <2>4 DEF UserRecord, HeapPC, HeapPage
  <2> HIDE DEF n, old, i, a, x, F, H, G, J
  <2>8. /\ heapUser' \in [HeapUser -> UserRecord] /\ heapUser'[t] = x
        /\ \A w \in HeapUser : w # t => heapUser'[w] = heapUser[w]
        /\ HeldBy'[t] = Held(x)
        /\ \A w \in HeapUser : w # t => HeldBy'[w] = HeldBy[w]
    BY <2>1, <2>2, <2>7, UserMoved
  <2>9. HeldBy'[t] = X /\ HeldBy[t] = {}
    BY <2>7, <2>8, <1>1 DEF Held, HeldBy
  <2> HIDE DEF X
  <2>10. Partition(F, blocks, HeldBy, heapLost) /\ MappedRight(heapMapped, H, blocks, heapLost)
         /\ Threads(heapUser, blocks)
    BY DEF HeapInv, F, H
  <2>11. Partition(G, blocks, HeldBy', heapLost)
    BY ONLY <2>4, <2>6, <2>8, <2>9, <2>10, t \in HeapUser, FreeToThread
  <2>12. a \in heapMapped /\ a \in F /\ a + n # a
    BY <2>4, <2>5, <2>10, <2>2 DEF MappedRight
  <2> DEFINE Z == IF IsExact(heapRanges, i, n) THEN {} ELSE {a + n}
  <2>13. MappedRight(heapMapped', J, blocks, heapLost)
    <3>1. J = (H \ {a}) \cup Z /\ heapMapped' = (heapMapped \ {a}) \cup Z
      BY <2>1, <2>4
    <3> HIDE DEF Z
    <3>2. a \in F /\ Partition(F, blocks, HeldBy, heapLost) /\ MappedRight(heapMapped, H, blocks, heapLost)
      BY <2>10, <2>12
    <3>3. MappedRight((heapMapped \ {a}) \cup Z, (H \ {a}) \cup Z, blocks, heapLost)
      BY ONLY <3>2, HeadersMoved
    <3> QED BY ONLY <3>1, <3>3, Zenon
  <2>14. /\ heapFree' \in Nat /\ heapFree' = HeapFrames - Cardinality(heapMapped')
         /\ heapMapped' \subseteq HeapPage
    <3>1. /\ IsFiniteSet(heapMapped) /\ heapFree \in Nat /\ heapFree = HeapFrames - Cardinality(heapMapped)
          /\ heapMapped \subseteq HeapPage
      BY <2>2, UserFacts DEF HeapTypeOK
    <3>2. /\ IsFiniteSet(heapMapped \ {a}) /\ Cardinality(heapMapped \ {a}) = Cardinality(heapMapped) - 1
          /\ Cardinality(heapMapped) \in Nat /\ HeapFrames \in Nat
      BY <3>1, <2>12, FS_RemoveElement, FS_CardinalityType, HeapAssumption
    <3>3. CASE IsExact(heapRanges, i, n)
      <4>1. heapMapped' = heapMapped \ {a} /\ heapFree' = heapFree + 1
        BY <2>1, <3>3
      <4> QED BY <3>1, <3>2, <4>1
    <3>4. CASE ~IsExact(heapRanges, i, n)
      <4>1. heapMapped' = (heapMapped \ {a}) \cup {a + n} /\ heapFree' = heapFree
        BY <2>1, <3>4
      <4>2. a + n \notin heapMapped /\ a + n \in HeapPage
        <5>1. a + n \in F /\ a + n \notin H
          BY <2>4, <3>4
        <5>2. a + n \notin heapMapped
          BY <5>1, <2>10 DEF MappedRight, Partition
        <5>3. F \subseteq HeapPage
          <6>1. \A v : v \in F <=> v \in Int /\ \E k \in 1 .. Len(heapRanges) :
                         heapRanges[k].start <= v /\ v < heapRanges[k].start + heapRanges[k].size
            BY <2>2, FreePageFacts DEF F
          <6>2. \A k \in 1 .. Len(heapRanges) :
                   /\ heapRanges[k].start \in Nat /\ heapRanges[k].size \in Nat
                   /\ heapRanges[k].start + heapRanges[k].size <= HeapPages
            BY <2>2, RangeFacts
          <6> QED BY <6>1, <6>2, HeapAssumption DEF HeapPage
        <5> QED BY <5>1, <5>2, <5>3
      <4>3. Cardinality(heapMapped') = Cardinality(heapMapped \ {a}) + 1
        BY <4>1, <4>2, <3>2, FS_AddElement
      <4> QED BY <3>1, <3>2, <4>1, <4>2, <4>3
    <3> QED BY <3>3, <3>4
  <2>15. HeapTypeOK'
    BY <1>1, <1>2, <2>1, <2>2, <2>4, <2>8, <2>14 DEF HeapTypeOK
  <2>16. Threads(heapUser', blocks)
    <3>1. UserSound(x, blocks)
      BY <1>2, <2>1, <2>2, <2>4, <2>7 DEF UserSound
    <3>2. ASSUME NEW w \in HeapUser, w # t
          PROVE  Distinct(x, heapUser[w]) /\ Distinct(heapUser[w], x)
      <4>1. Distinct(heapUser[t], heapUser[w]) /\ Distinct(heapUser[w], heapUser[t])
        BY <3>2, <2>10 DEF Threads
      <4>2. New(x) = Block(a, n, n) /\ x.old = heapUser[t].old /\ x.pc = "map"
        BY <2>7 DEF New, old
      <4> QED BY <4>1, <4>2, <1>1 DEF Distinct
    <3> QED BY <3>1, <3>2, <2>8, <2>10, StillDistinct DEF Threads
  <2> QED BY <2>11, <2>13, <2>15, <2>16, <1>1 DEF HeapInv, G, J
<1> QED BY <1>3, <1>4

(* What no part but the thread's has is not mapped.                        *)
LEMMA HeldIsUnmapped ==
    ASSUME NEW F, NEW B, NEW T, NEW L, Partition(F, B, T, L), NEW t \in HeapUser,
           NEW M, NEW H, H \subseteq F, MappedRight(M, H, B, L)
    PROVE  M \cap T[t] = {}
  BY DEF Partition, MappedRight

(* kaligned_alloc() maps it.                                               *)
LEMMA KMapStep ==
    ASSUME HeapInv, NEW t \in HeapUser, KMap(t)
    PROVE  HeapInv'
<1> DEFINE u == heapUser[t]
           done == IF u.n <= heapFree THEN u.n ELSE heapFree
           b == Block(u.addr, u.n, u.n)
           x == IF u.old = NoBlock THEN HeapIdle ELSE [u EXCEPT !.pc = "copy"]
           E == Extent(u.addr, done)
           F == FreePages(heapRanges)
           H == Headers(heapRanges)
<1>1. /\ u.pc = "map"
      /\ heapMapped' = heapMapped \cup E /\ heapFree' = heapFree - done
      /\ UNCHANGED <<heapRanges, heapLocked, heapPanic>>
  BY DEF KMap, HeapAt
<1>2. done = u.n => /\ blocks' = blocks \cup {b} /\ heapLost' = heapLost
                    /\ heapUser' = [heapUser EXCEPT ![t] = x]
  BY DEF KMap
<1>3. done # u.n => /\ heapLost' = heapLost \cup Extent(u.addr, u.n) /\ blocks' = blocks
                    /\ heapUser' = [heapUser EXCEPT ![t] = HeapIdle]
  BY DEF KMap
<1>4. HeapTypeOK /\ Partition(F, blocks, HeldBy, heapLost)
      /\ MappedRight(heapMapped, H, blocks, heapLost) /\ Threads(heapUser, blocks)
      /\ HeapPages \in Nat \ {0} /\ FreeListOf(heapRanges, HeapPages) /\ heapFree \in Nat
  BY HeapAssumption DEF HeapInv, HeapTypeOK
<1>5. /\ u \in UserRecord /\ u.addr \in HeapPage /\ u.addr \in Nat /\ u.n \in Nat
      /\ u.old \in HeapBlock \cup {NoBlock} /\ IsFiniteSet(heapMapped)
  BY <1>4, UserFacts
<1>6. u.n > 0 /\ u.addr + u.n <= HeapPages /\ u.old \in blocks \cup {NoBlock} /\ u.old.pages <= u.n
      /\ UserSound(u, blocks)
  BY <1>1, <1>4 DEF Threads, UserSound
<1>7. done \in Nat /\ done <= u.n /\ done <= heapFree
  BY <1>4, <1>5
<1>8. HeldBy[t] = Extent(u.addr, u.n)
  BY <1>1 DEF HeldBy, Held
<1>9. /\ \A v : v \in HeldBy[t] <=> v \in Int /\ u.addr <= v /\ v < u.addr + u.n
      /\ \A v : v \in E <=> v \in Int /\ u.addr <= v /\ v < u.addr + done
  BY <1>5, <1>7, <1>8, ExtentFacts
<1>10. H \subseteq F
  BY <1>4, HeadersAreFree
<1>11. HeapIdle \in UserRecord /\ HeapIdle.pc = "idle" /\ HeapIdle.old = NoBlock /\ HeapIdle.n = 0
       /\ NoBlock.pages = 0
  BY HeapAssumption DEF HeapIdle, UserRecord, HeapPC, HeapPage, NoBlock, Block
<1>12. /\ x \in UserRecord
       /\ u.old = NoBlock => x = HeapIdle
       /\ u.old # NoBlock => x.pc = "copy" /\ x.addr = u.addr /\ x.n = u.n /\ x.old = u.old
  BY <1>5, <1>11 DEF UserRecord, HeapPC
<1>13. /\ b \in HeapBlock /\ BlockPages(b) = HeldBy[t] /\ b = New(u)
  <2>1. b.addr = u.addr /\ b.pages = u.n /\ b.size = u.n /\ b = New(u)
    BY DEF Block, New
  <2>2. b \in HeapBlock
    BY <1>4, <1>5, <1>6 DEF HeapBlock, HeapPage, Block
  <2> QED BY <2>1, <2>2, <1>8 DEF BlockPages
<1> HIDE DEF u, b, x, F, H, done, E
<1>14. E \subseteq HeldBy[t] /\ E \subseteq HeapPage /\ HeldBy[t] \subseteq HeapPage /\ u.addr \in HeldBy[t]
       /\ (done = u.n => E = HeldBy[t])
  <2>1. E \subseteq HeldBy[t] /\ u.addr \in HeldBy[t]
    BY <1>5, <1>6, <1>7, <1>9
  <2>2. HeldBy[t] \subseteq HeapPage
    BY <1>4, <1>5, <1>6, <1>9 DEF HeapPage
  <2>3. done = u.n => E = HeldBy[t]
    BY <1>8 DEF E
  <2> QED BY <2>1, <2>2, <2>3
<1>15. heapMapped \cap HeldBy[t] = {}
  BY <1>4, <1>10, HeldIsUnmapped
<1>16. /\ heapFree' \in Nat /\ heapFree' = HeapFrames - Cardinality(heapMapped')
       /\ heapMapped' \subseteq HeapPage
  <2>1. Cardinality(heapMapped \cup E) = Cardinality(heapMapped) + done
    <3>1. heapMapped \cap E = {}
      BY <1>14, <1>15
    <3> QED BY <3>1, <1>5, <1>7, ExtentAdded DEF E
  <2>2. Cardinality(heapMapped) \in Nat /\ HeapFrames \in Nat /\ heapFree = HeapFrames - Cardinality(heapMapped)
        /\ heapMapped \subseteq HeapPage
    BY <1>4, <1>5, FS_CardinalityType, HeapAssumption DEF HeapTypeOK
  <2> QED BY <1>1, <1>4, <1>7, <1>14, <2>1, <2>2
<1>17. \A c \in blocks : c \in HeapBlock /\ c.addr \in BlockPages(c) /\ c # NoBlock
  <2>1. blocks \subseteq HeapBlock
    BY <1>4 DEF HeapTypeOK
  <2> QED BY <2>1, BlockFacts
<1>18. b \notin blocks /\ b # NoBlock
  BY <1>4, <1>13, <1>14, BlockFacts DEF Partition
<1>19. CASE done = u.n
  <2>1. /\ blocks' = blocks \cup {b} /\ heapLost' = heapLost /\ heapUser' = [heapUser EXCEPT ![t] = x]
    BY <1>2, <1>19
  <2>2. /\ heapUser' \in [HeapUser -> UserRecord] /\ heapUser'[t] = x
        /\ \A w \in HeapUser : w # t => heapUser'[w] = heapUser[w]
        /\ HeldBy'[t] = Held(x)
        /\ \A w \in HeapUser : w # t => HeldBy'[w] = HeldBy[w]
    BY <1>4, <1>12, <2>1, UserMoved
  <2>3. HeldBy'[t] = {}
    BY <2>2, <1>11, <1>12 DEF Held
  <2>4. Partition(F, blocks', HeldBy', heapLost)
    BY <1>4, <1>13, <2>1, <2>2, <2>3, ThreadToBlock
  <2>5. MappedRight(heapMapped', H, blocks', heapLost)
    <3>1. BlockPages(b) \subseteq heapMapped' /\ heapMapped' = heapMapped \cup BlockPages(b)
      BY <1>1, <1>13, <1>14, <1>19
    <3> QED BY <3>1, <2>1, <1>4 DEF MappedRight
  <2>6. HeapTypeOK'
    BY <1>1, <1>4, <1>13, <1>16, <2>1, <2>2 DEF HeapTypeOK
  <2>7. Threads(heapUser', blocks')
    <3>1. UserSound(x, blocks')
      <4>1. CASE u.old = NoBlock
        BY <4>1, <1>11, <1>12 DEF UserSound
      <4>2. CASE u.old # NoBlock
        <5>1. New(x) = b
          BY <4>2, <1>12, <1>13 DEF New
        <5>2. u.old \in blocks /\ u.old # b
          BY <4>2, <1>6, <1>18
        <5> QED BY <4>2, <5>1, <5>2, <1>6, <1>12, <2>1 DEF UserSound
      <4> QED BY <4>1, <4>2
    <3>2. \A w \in HeapUser : w # t => UserSound(heapUser[w], blocks')
      BY <1>4, <2>1 DEF Threads, UserSound
    <3>3. ASSUME NEW w \in HeapUser, w # t
          PROVE  Distinct(x, heapUser[w]) /\ Distinct(heapUser[w], x)
      <4>1. Distinct(u, heapUser[w]) /\ Distinct(heapUser[w], u) /\ UserSound(heapUser[w], blocks)
        BY <3>3, <1>4 DEF Threads, u
      <4>2. heapUser[w].old # b /\ (heapUser[w].pc = "copy" => New(heapUser[w]) # b)
        <5>1. heapUser[w].pc \in HeapPC
          BY <1>4, UserFacts
        <5> QED BY <4>1, <5>1, <1>18 DEF UserSound, HeapPC
      <4>3. CASE u.old = NoBlock
        <5>1. heapUser[w].pc = "copy" => New(heapUser[w]) # NoBlock
          BY <4>1, <1>17 DEF UserSound
        <5> QED BY <4>3, <5>1, <1>11, <1>12 DEF Distinct
      <4>4. CASE u.old # NoBlock
        <5>1. New(x) = b /\ x.old = u.old /\ x.pc = "copy"
          BY <4>4, <1>12, <1>13 DEF New
        <5> QED BY <4>1, <4>2, <4>4, <5>1 DEF Distinct
      <4> QED BY <4>3, <4>4
    <3> QED BY <3>1, <3>2, <3>3, <2>2, <1>4, StillDistinct
  <2> QED BY <1>1, <2>1, <2>4, <2>5, <2>6, <2>7 DEF HeapInv, F, H
<1>20. CASE done # u.n
  <2>1. /\ heapLost' = heapLost \cup HeldBy[t] /\ blocks' = blocks
        /\ heapUser' = [heapUser EXCEPT ![t] = HeapIdle]
    BY <1>3, <1>8, <1>20
  <2>2. /\ heapUser' \in [HeapUser -> UserRecord] /\ heapUser'[t] = HeapIdle
        /\ \A w \in HeapUser : w # t => heapUser'[w] = heapUser[w]
        /\ HeldBy'[t] = Held(HeapIdle)
        /\ \A w \in HeapUser : w # t => HeldBy'[w] = HeldBy[w]
    BY <1>4, <1>11, <2>1, UserMoved
  <2>3. HeldBy'[t] = {}
    BY <2>2, <1>11 DEF Held
  <2>4. Partition(F, blocks, HeldBy', heapLost')
    BY <1>4, <2>1, <2>2, <2>3, ThreadToLost
  <2>5. MappedRight(heapMapped', H, blocks, heapLost')
    BY <1>1, <1>4, <1>14, <2>1 DEF MappedRight
  <2>6. HeapTypeOK'
    BY <1>1, <1>4, <1>14, <1>16, <2>1, <2>2 DEF HeapTypeOK
  <2>7. Threads(heapUser', blocks)
    <3>1. UserSound(HeapIdle, blocks)
      BY <1>11 DEF UserSound
    <3>2. ASSUME NEW w \in HeapUser, w # t
          PROVE  Distinct(HeapIdle, heapUser[w]) /\ Distinct(heapUser[w], HeapIdle)
      <4>1. heapUser[w].pc = "copy" => New(heapUser[w]) # NoBlock
        BY <1>4, <1>17 DEF Threads, UserSound
      <4> QED BY <4>1, <1>11 DEF Distinct
    <3> QED BY <3>1, <3>2, <2>2, <1>4, StillDistinct DEF Threads
  <2> QED BY <1>1, <2>1, <2>4, <2>5, <2>6, <2>7 DEF HeapInv, F, H
<1> QED BY <1>19, <1>20

-----------------------------------------------------------------------------
(* kfree() unmaps a block of bs, which may be blocks after krealloc() has  *)
(* copied.                                                                 *)
LEMMA UnmappedStep ==
    ASSUME HeapTypeOK, NEW t \in HeapUser, HeldBy[t] = {},
           NEW bs \in SUBSET HeapBlock,
           Partition(FreePages(heapRanges), bs, HeldBy, heapLost),
           MappedRight(heapMapped, Headers(heapRanges), bs, heapLost),
           NEW b \in bs, Unmapped(t, b, bs), NEW U, Threads(U, bs),
           \A w \in HeapUser : w # t => U[w] = heapUser[w] /\ heapUser[w].old # b
                                        /\ (heapUser[w].pc = "copy" => New(heapUser[w]) # b)
    PROVE  HeapInv'
<1> DEFINE X == KFreeExtent(b)
           x == [pc |-> "unmapped", addr |-> b.addr, n |-> b.size, old |-> NoBlock]
           F == FreePages(heapRanges)
           H == Headers(heapRanges)
<1>1. /\ heapMapped' = heapMapped \ X /\ heapFree' = heapFree + Cardinality(X)
      /\ blocks' = bs \ {b}
      /\ heapLost' = heapLost \cup (Extent(b.addr, b.pages) \ Extent(b.addr, b.size))
      /\ heapUser' = [heapUser EXCEPT ![t] = x]
      /\ UNCHANGED <<heapRanges, heapLocked, heapPanic>>
  BY DEF Unmapped
<1>2. X = Extent(b.addr, b.size) /\ BlockPages(b) = Extent(b.addr, b.pages)
  BY DEF KFreeExtent, BlockPages
<1>3. /\ b \in HeapBlock /\ b.addr \in HeapPage /\ b.addr \in Nat /\ b.size \in Nat \ {0}
      /\ X \subseteq BlockPages(b) /\ BlockPages(b) \subseteq HeapPage
      /\ b.addr + b.size <= HeapPages
  <2>1. b \in HeapBlock
    OBVIOUS
  <2>2. /\ b.addr \in HeapPage /\ b.addr \in Nat /\ b.pages \in Nat \ {0} /\ b.size \in Nat \ {0}
        /\ b.addr + b.pages <= HeapPages /\ b.size <= b.pages
        /\ BlockPages(b) \subseteq HeapPage
        /\ Extent(b.addr, b.size) \subseteq BlockPages(b)
    BY <2>1, BlockFacts
  <2> QED BY <2>1, <2>2, <1>2, HeapAssumption
<1>4. Cardinality(X) = b.size
  BY <1>2, <1>3, ExtentFacts
<1>5. x \in UserRecord /\ x.pc = "unmapped" /\ x.old = NoBlock /\ x.n = b.size /\ x.addr = b.addr
      /\ NoBlock.pages = 0
  BY <1>3 DEF UserRecord, HeapPC, NoBlock, Block
<1> HIDE DEF X, x, F, H
<1>6. /\ heapUser' \in [HeapUser -> UserRecord] /\ heapUser'[t] = x
      /\ \A w \in HeapUser : w # t => heapUser'[w] = heapUser[w]
      /\ HeldBy'[t] = Held(x)
      /\ \A w \in HeapUser : w # t => HeldBy'[w] = HeldBy[w]
  BY <1>1, <1>5, UserMoved
<1>7. HeldBy'[t] = X
  BY <1>2, <1>5, <1>6 DEF Held
<1>8. Partition(F, blocks', HeldBy', heapLost')
  <2>1. heapLost' = heapLost \cup (BlockPages(b) \ X)
    BY <1>1, <1>2
  <2>2. Partition(F, bs \ {b}, HeldBy', heapLost \cup (BlockPages(b) \ X))
    <3>1. /\ Partition(F, bs, HeldBy, heapLost) /\ b \in bs /\ X \in SUBSET BlockPages(b)
          /\ HeldBy[t] = {} /\ HeldBy'[t] = X /\ t \in HeapUser
          /\ \A w \in HeapUser : w # t => HeldBy'[w] = HeldBy[w]
      BY <1>3, <1>6, <1>7 DEF F
    <3> QED BY ONLY <3>1, BlockToThread, Zenon
  <2> QED BY ONLY <2>1, <2>2, <1>1, Zenon
<1>9. MappedRight(heapMapped', H, blocks', heapLost')
  <2>1. H \subseteq F
    BY HeadersAreFree, HeapAssumption DEF F, H, HeapTypeOK
  <2>2. H \subseteq heapMapped'
    BY <2>1, <1>1, <1>3 DEF Partition, MappedRight, F, H
  <2>3. \A c \in blocks' : BlockPages(c) \subseteq heapMapped'
    BY <1>1, <1>3 DEF Partition, MappedRight
  <2>4. ASSUME NEW v \in heapMapped', v \notin H, v \notin heapLost'
        PROVE  \E c \in blocks' : v \in BlockPages(c)
    <3>1. v \in heapMapped /\ v \notin X /\ v \notin heapLost
      BY <1>1, <2>4
    <3>2. v \notin BlockPages(b)
      BY <1>1, <1>2, <2>4, <3>1
    <3>3. PICK c \in bs : v \in BlockPages(c)
      BY <3>1, <2>4 DEF MappedRight, H
    <3> QED BY <3>2, <3>3, <1>1
  <2> QED BY <2>2, <2>3, <2>4 DEF MappedRight
<1>10. /\ heapFree' \in Nat /\ heapFree' = HeapFrames - Cardinality(heapMapped')
       /\ heapMapped' \subseteq HeapPage
  <2>1. IsFiniteSet(heapMapped) /\ heapFree \in Nat /\ heapMapped \subseteq HeapPage
        /\ heapFree = HeapFrames - Cardinality(heapMapped)
    BY UserFacts DEF HeapTypeOK
  <2>2. X \subseteq heapMapped
    BY <1>3 DEF MappedRight
  <2>3. Cardinality(heapMapped \ X) = Cardinality(heapMapped) - b.size
    BY <1>2, <1>3, <2>1, <2>2, ExtentRemoved
  <2>4. Cardinality(heapMapped) \in Nat /\ HeapFrames \in Nat
    BY <2>1, FS_CardinalityType, HeapAssumption
  <2> QED BY <1>1, <1>3, <1>4, <2>1, <2>3, <2>4
<1>11. HeapTypeOK'
  <2>1. heapLost' \subseteq HeapPage
    BY <1>1, <1>2, <1>3 DEF HeapTypeOK
  <2> QED BY <2>1, <1>1, <1>6, <1>10 DEF HeapTypeOK
<1>12. Threads(heapUser', blocks')
  <2>1. UserSound(x, blocks')
    BY <1>3, <1>5 DEF UserSound
  <2>2. ASSUME NEW w \in HeapUser, w # t
        PROVE  /\ UserSound(U[w], blocks') /\ U[w] = heapUser[w]
               /\ Distinct(x, U[w]) /\ Distinct(U[w], x)
    <3>1. UserSound(U[w], bs) /\ U[w] = heapUser[w]
      BY <2>2 DEF Threads
    <3>2. U[w].old # b /\ (U[w].pc = "copy" => New(U[w]) # b)
      BY <2>2, <3>1
    <3>3. UserSound(U[w], blocks')
      BY <3>1, <3>2, <1>1 DEF UserSound
    <3>4. U[w].pc = "copy" => New(U[w]) # NoBlock
      BY <3>1, BlockFacts DEF UserSound
    <3> QED BY <3>1, <3>3, <3>4, <1>5 DEF Distinct
  <2>3. \A w \in HeapUser : w # t => heapUser'[w] = U[w]
    BY <2>2, <1>6
  <2> QED BY <2>1, <2>2, <2>3, <1>6, StillDistinct
<1> QED BY <1>1, <1>8, <1>9, <1>11, <1>12 DEF HeapInv, F, H

LEMMA KFreeStep ==
    ASSUME HeapInv, NEW t \in HeapUser, KFree(t)
    PROVE  HeapInv'
<1>1. PICK b \in blocks : Usable(b) /\ Unmapped(t, b, blocks)
  BY DEF KFree
<1>2. heapUser[t].pc = "idle"
  BY DEF KFree, HeapAt
<1>3. HeldBy[t] = {}
  BY <1>2 DEF HeldBy, Held
<1>4. \A w \in HeapUser : heapUser[w].old # b /\ (heapUser[w].pc = "copy" => New(heapUser[w]) # b)
  BY <1>1 DEF Usable, New, Block
<1>5. blocks \in SUBSET HeapBlock
  BY DEF HeapInv, HeapTypeOK
<1> QED BY <1>1, <1>3, <1>4, <1>5, UnmappedStep DEF HeapInv

(* krealloc() copies the header with the rest.                             *)
LEMMA KReallocStep ==
    ASSUME HeapInv, NEW t \in HeapUser, KRealloc(t)
    PROVE  HeapInv'
<1> DEFINE u == heapUser[t]
           new == Block(u.addr, u.n, u.n)
           copy == [new EXCEPT !.size = u.old.size]
           bs == (blocks \ {new}) \cup {copy}
           F == FreePages(heapRanges)
           H == Headers(heapRanges)
           U == [heapUser EXCEPT ![t] = [@ EXCEPT !.pc = "idle", !.old = NoBlock]]
<1>1. u.pc = "copy" /\ Unmapped(t, u.old, bs)
  BY DEF KRealloc, HeapAt
<1>2. /\ HeapTypeOK /\ Partition(F, blocks, HeldBy, heapLost)
      /\ MappedRight(heapMapped, H, blocks, heapLost) /\ Threads(heapUser, blocks)
      /\ blocks \subseteq HeapBlock
  BY DEF HeapInv, HeapTypeOK
<1>3. /\ UserSound(u, blocks) /\ u \in UserRecord /\ u.n \in Nat /\ u.addr \in Nat
      /\ u.old \in blocks /\ new \in blocks /\ u.old # new /\ new = New(u) /\ u.old.pages <= u.n
  <2>1. UserSound(u, blocks) /\ u \in UserRecord /\ u.n \in Nat /\ u.addr \in Nat
    BY <1>2, UserFacts DEF Threads
  <2> QED BY <2>1, <1>1 DEF UserSound, New
<1>4. /\ copy.addr = new.addr /\ copy.pages = new.pages /\ copy.size = u.old.size
      /\ new.addr = u.addr /\ new.pages = u.n /\ copy = Block(u.addr, u.n, u.old.size)
  BY DEF Block
<1>5. /\ new \in HeapBlock /\ u.old \in HeapBlock
      /\ u.old.size \in Nat \ {0} /\ u.old.size <= u.old.pages /\ u.old.pages \in Nat
      /\ u.addr \in BlockPages(new) /\ u.old.addr \in BlockPages(u.old)
      /\ u.addr \in HeapPage /\ u.n \in Nat \ {0} /\ u.addr + u.n <= HeapPages
  <2>1. new \in HeapBlock /\ u.old \in HeapBlock
    BY <1>2, <1>3
  <2>2. /\ new.addr \in BlockPages(new) /\ new.addr \in HeapPage /\ new.pages \in Nat \ {0}
        /\ new.addr + new.pages <= HeapPages
    BY <2>1, BlockFacts
  <2>3. /\ u.old.size \in Nat \ {0} /\ u.old.size <= u.old.pages /\ u.old.pages \in Nat
        /\ u.old.addr \in BlockPages(u.old)
    BY <2>1, BlockFacts
  <2> QED BY <2>1, <2>2, <2>3, <1>4
<1>6. copy \in HeapBlock
  BY <1>3, <1>4, <1>5, HeapAssumption DEF HeapBlock, Block
<1>7. BlockPages(copy) = BlockPages(new) /\ BlockPages(new) # {}
  BY <1>4, <1>5 DEF BlockPages
<1> HIDE DEF u, new, copy, F, H
<1>8. Partition(F, bs, HeldBy, heapLost)
  <2> HIDE DEF bs
  <2>1. bs = (blocks \ {new}) \cup {copy}
    BY DEF bs
  <2> QED BY <2>1, <1>2, <1>3, <1>7, BlockRewritten
<1>9. MappedRight(heapMapped, H, bs, heapLost)
  BY <1>2, <1>3, <1>7 DEF MappedRight
<1>10. bs \in SUBSET HeapBlock /\ u.old \in bs
  BY <1>2, <1>3, <1>6
<1>11. HeldBy[t] = {}
  BY <1>1 DEF HeldBy, Held, u
<1>12. \A w \in HeapUser : w # t => U[w] = heapUser[w]
  OBVIOUS
<1>13. /\ U[t].pc = "idle" /\ U[t].old = NoBlock
       /\ NoBlock.pages = 0 /\ U[t].n = u.n
  BY <1>2 DEF u, NoBlock, Block, HeapTypeOK, UserRecord
<1>14. ASSUME NEW w \in HeapUser, w # t
       PROVE  /\ heapUser[w].old # u.old /\ heapUser[w].old # new
              /\ heapUser[w].pc = "copy" => New(heapUser[w]) # u.old /\ New(heapUser[w]) # new
              /\ UserSound(heapUser[w], bs)
  <2>1. Distinct(u, heapUser[w]) /\ Distinct(heapUser[w], u) /\ UserSound(heapUser[w], blocks)
    BY <1>14, <1>2 DEF Threads, u
  <2>2. u.old # NoBlock
    BY <1>5, BlockFacts
  <2>3. /\ heapUser[w].old # u.old /\ heapUser[w].old # new
        /\ heapUser[w].pc = "copy" => New(heapUser[w]) # u.old /\ New(heapUser[w]) # new
    BY <2>1, <2>2, <1>1, <1>3 DEF Distinct
  <2> QED BY <2>1, <2>3 DEF UserSound
<1>15. Threads(U, bs)
  <2> HIDE DEF U, bs
  <2>1. UserSound(U[t], bs)
    BY <1>3, <1>13 DEF UserSound
  <2>2. ASSUME NEW w \in HeapUser, w # t
        PROVE  Distinct(U[t], heapUser[w]) /\ Distinct(heapUser[w], U[t])
    <3>1. heapUser[w].pc = "copy" => New(heapUser[w]) # NoBlock
      <4>1. UserSound(heapUser[w], bs)
        BY <2>2, <1>14
      <4> QED BY <4>1, <1>10, BlockFacts DEF UserSound
    <3> QED BY <3>1, <1>13 DEF Distinct
  <2> QED BY <2>1, <2>2, <1>2, <1>12, <1>14, StillDistinct
<1> HIDE DEF U, bs
<1> QED BY <1>1, <1>2, <1>8, <1>9, <1>10, <1>11, <1>12, <1>14, <1>15, UnmappedStep DEF F, H

(* range_allocator_free() looks at the list.                               *)
LEMMA KFreeAssertsStep ==
    ASSUME HeapInv, NEW t \in HeapUser, KFreeAsserts(t)
    PROVE  HeapInv'
<1> DEFINE u == heapUser[t]
           x == [u EXCEPT !.pc = "return"]
<1>1. /\ u.pc = "unmapped" /\ heapPanic' \in BOOLEAN
      /\ heapUser' = [heapUser EXCEPT ![t].pc = "return"]
      /\ UNCHANGED <<heapRanges, heapLocked, heapMapped, heapFree, blocks, heapLost>>
  BY DEF KFreeAsserts, HeapAt
<1>2. /\ HeapTypeOK /\ heapLocked' \subseteq HeapUser
      /\ u \in UserRecord /\ UserSound(u, blocks)
  BY <1>1, UserFacts DEF HeapInv, HeapTypeOK, Threads
<1>3. /\ x \in UserRecord /\ x.pc = "return" /\ x.old = NoBlock /\ x.n = u.n
      /\ x.addr = u.addr /\ u.old = NoBlock /\ heapUser' = [heapUser EXCEPT ![t] = x]
  BY <1>1, <1>2 DEF UserRecord, HeapPC, HeapTypeOK, UserSound
<1> HIDE DEF x
<1>4. Held(x) = HeldBy[t]
  BY <1>1, <1>3 DEF Held, HeldBy
<1>5. UserSound(x, blocks)
  BY <1>1, <1>2, <1>3 DEF UserSound
<1>6. \A w \in HeapUser : Distinct(x, heapUser[w]) /\ Distinct(heapUser[w], x)
  BY <1>3, NothingInCommon
<1> QED BY <1>1, <1>2, <1>3, <1>4, <1>5, <1>6, CallGoesOn

(* range_allocator_free() takes the range back.                            *)
LEMMA KFreeRangeStep ==
    ASSUME HeapInv, NEW t \in HeapUser, KFreeRange(t)
    PROVE  HeapInv'
<1> DEFINE a == heapUser[t].addr
           n == heapUser[t].n
           prev == TouchesPrev(heapRanges, a)
           next == TouchesNext(heapRanges, a, n)
           F == FreePages(heapRanges)
           H == Headers(heapRanges)
           Y == IF next THEN {a + n} ELSE {}
           Z == IF prev THEN {} ELSE {a}
<1>1. heapUser[t].pc = "return" /\ UNCHANGED <<heapLocked, blocks, heapLost>>
  BY DEF KFreeRange, HeapAt
<1>2. \/ /\ heapPanic' = TRUE /\ UNCHANGED <<heapRanges, heapMapped, heapFree, heapUser>>
      \/ /\ ~(~prev /\ ~next /\ heapFree = 0)
         /\ heapRanges' = Returned(heapRanges, a, n)
         /\ heapMapped' = (heapMapped \ Y) \cup Z
         /\ heapFree' = heapFree + (IF next THEN 1 ELSE 0) - (IF prev THEN 0 ELSE 1)
         /\ heapUser' = [heapUser EXCEPT ![t] = HeapIdle]
         /\ UNCHANGED heapPanic
  BY DEF KFreeRange
<1>3. CASE /\ heapPanic' = TRUE /\ UNCHANGED <<heapRanges, heapMapped, heapFree, heapUser>>
  BY <1>1, <1>3 DEF HeapInv, HeapTypeOK, HeldBy
<1>4. CASE /\ ~(~prev /\ ~next /\ heapFree = 0)
           /\ heapRanges' = Returned(heapRanges, a, n)
           /\ heapMapped' = (heapMapped \ Y) \cup Z
           /\ heapFree' = heapFree + (IF next THEN 1 ELSE 0) - (IF prev THEN 0 ELSE 1)
           /\ heapUser' = [heapUser EXCEPT ![t] = HeapIdle]
           /\ UNCHANGED heapPanic
  <2> DEFINE G == FreePages(heapRanges')
             J == Headers(heapRanges')
             X == Extent(a, n)
  <2>1. /\ HeapTypeOK /\ Partition(F, blocks, HeldBy, heapLost)
        /\ MappedRight(heapMapped, H, blocks, heapLost) /\ Threads(heapUser, blocks)
        /\ blocks \subseteq HeapBlock
        /\ HeapPages \in Nat \ {0} /\ FreeListOf(heapRanges, HeapPages) /\ heapFree \in Nat
    BY HeapAssumption DEF HeapInv, HeapTypeOK
  <2>2. a \in HeapPage /\ a \in Nat /\ n \in Nat /\ IsFiniteSet(heapMapped)
    BY <2>1, UserFacts
  <2>3. n > 0 /\ a + n <= HeapPages
    BY <1>1, <2>1 DEF Threads, UserSound
  <2>4. HeldBy[t] = X /\ X = a .. a + n - 1
    BY <1>1 DEF HeldBy, Held, Extent
  <2>5. X \cap F = {}
    BY <2>1, <2>4 DEF Partition
  <2>6. /\ FreeListOf(heapRanges', HeapPages)
        /\ G = F \cup X
        /\ J = (H \ Y) \cup Z
        /\ next => a + n \in H
    <3>1. n \in Nat \ {0} /\ (a .. a + n - 1) \cap F = {} /\ heapRanges' = Returned(heapRanges, a, n)
      BY <1>4, <2>2, <2>3, <2>4, <2>5
    <3> HIDE DEF a, n
    <3> QED BY <2>1, <2>2, <2>3, <2>4, <3>1, ReturnedFacts
  <2>7. a \in X /\ a + n \notin X /\ a # a + n
    BY <2>2, <2>3, <2>4
  <2>8. H \subseteq F
    BY <2>1, HeadersAreFree
  <2>9. HeapIdle \in UserRecord /\ HeapIdle.pc = "idle" /\ HeapIdle.old = NoBlock /\ HeapIdle.n = 0
        /\ NoBlock.pages = 0
    BY HeapAssumption DEF HeapIdle, UserRecord, HeapPC, HeapPage, NoBlock, Block
  <2>10. /\ heapUser' \in [HeapUser -> UserRecord] /\ heapUser'[t] = HeapIdle
         /\ \A w \in HeapUser : w # t => heapUser'[w] = heapUser[w]
         /\ HeldBy'[t] = Held(HeapIdle)
         /\ \A w \in HeapUser : w # t => HeldBy'[w] = HeldBy[w]
    BY <1>4, <2>1, <2>9, UserMoved
  <2>11. HeldBy'[t] = {}
    BY <2>9, <2>10 DEF Held
  <2> HIDE DEF a, n, prev, next, F, H, G, J, X, Z
  <2>12. Partition(G, blocks, HeldBy', heapLost)
    <3>1. G = F \cup HeldBy[t]
      BY <2>4, <2>6
    <3> QED BY <3>1, <2>1, <2>10, <2>11, ThreadToFree
  <2>13. heapMapped \cap X = {}
    <3>1. heapMapped \cap HeldBy[t] = {}
      BY <2>1, <2>8, HeldIsUnmapped
    <3> QED BY <3>1, <2>4
  <2>14. Y \subseteq H /\ Z \subseteq X /\ Y \subseteq heapMapped /\ heapMapped \cap Z = {}
    BY <2>1, <2>6, <2>7, <2>13 DEF Z, MappedRight
  <2>15. MappedRight(heapMapped', J, blocks, heapLost)
    <3>1. J = (H \ Y) \cup Z /\ heapMapped' = (heapMapped \ Y) \cup Z
      BY <1>4, <2>6
    <3> HIDE DEF Y
    <3>2. J \subseteq heapMapped'
      BY <3>1, <2>1 DEF MappedRight
    <3>3. \A c \in blocks : BlockPages(c) \subseteq heapMapped'
      BY <3>1, <2>1, <2>8, <2>14 DEF MappedRight, Partition
    <3>4. \A v \in heapMapped' : v \in J \/ v \in heapLost \/ \E c \in blocks : v \in BlockPages(c)
      BY <3>1, <2>1 DEF MappedRight
    <3> QED BY <3>2, <3>3, <3>4 DEF MappedRight
  <2>16. /\ heapFree' \in Nat /\ heapFree' = HeapFrames - Cardinality(heapMapped')
         /\ heapMapped' \subseteq HeapPage
    <3>1. /\ Cardinality(heapMapped) \in Nat /\ HeapFrames \in Nat /\ heapMapped \subseteq HeapPage
          /\ heapFree = HeapFrames - Cardinality(heapMapped)
      BY <2>1, <2>2, FS_CardinalityType, HeapAssumption DEF HeapTypeOK
    <3>2. /\ IsFiniteSet(heapMapped \ Y)
          /\ Cardinality(heapMapped \ Y) = Cardinality(heapMapped) - (IF next THEN 1 ELSE 0)
      <4>1. CASE next
        <5>1. a + n \in heapMapped /\ Y = {a + n}
          BY <4>1, <2>14
        <5> QED BY <4>1, <5>1, <2>2, <3>1, FS_RemoveElement
      <4>2. CASE ~next
        <5>1. heapMapped \ Y = heapMapped
          BY <4>2
        <5> QED BY <4>2, <5>1, <2>2, <3>1
      <4> QED BY <4>1, <4>2
    <3>3. Cardinality(heapMapped') = Cardinality(heapMapped \ Y) + (IF prev THEN 0 ELSE 1)
      <4>1. CASE prev
        <5>1. heapMapped' = heapMapped \ Y
          BY <4>1, <1>4 DEF Z
        <5>2. Cardinality(heapMapped \ Y) \in Nat
          BY <3>2, FS_CardinalityType
        <5> QED BY <4>1, <5>1, <5>2
      <4>2. CASE ~prev
        <5>1. heapMapped' = (heapMapped \ Y) \cup {a} /\ a \notin heapMapped \ Y
          BY <4>2, <1>4, <2>14 DEF Z
        <5>2. Cardinality(heapMapped') = Cardinality(heapMapped \ Y) + 1
          BY <5>1, <3>2, FS_AddElement
        <5> QED BY <4>2, <5>2
      <4> QED BY <4>1, <4>2
    <3>4. heapFree' = heapFree + (IF next THEN 1 ELSE 0) - (IF prev THEN 0 ELSE 1)
          /\ ~(~prev /\ ~next /\ heapFree = 0)
      BY <1>4
    <3>5. heapFree' \in Nat
      BY <3>4, <2>1
    <3>6. heapFree' = HeapFrames - Cardinality(heapMapped')
      BY <3>1, <3>2, <3>3, <3>4
    <3>7. heapMapped' \subseteq HeapPage
      BY <3>1, <1>4, <2>2 DEF Z
    <3> QED BY <3>5, <3>6, <3>7
  <2>17. HeapTypeOK'
    BY <1>1, <1>4, <2>1, <2>6, <2>10, <2>16 DEF HeapTypeOK
  <2>18. Threads(heapUser', blocks)
    <3>1. UserSound(HeapIdle, blocks)
      BY <2>9 DEF UserSound
    <3>2. ASSUME NEW w \in HeapUser, w # t
          PROVE  Distinct(HeapIdle, heapUser[w]) /\ Distinct(heapUser[w], HeapIdle)
      <4>1. heapUser[w].pc = "copy" => New(heapUser[w]) # NoBlock
        BY <2>1, BlockFacts DEF Threads, UserSound
      <4> QED BY <4>1, <2>9 DEF Distinct
    <3> QED BY <3>1, <3>2, <2>1, <2>10, StillDistinct DEF Threads
  <2> QED BY <1>1, <2>12, <2>15, <2>17, <2>18 DEF HeapInv, G, J
<1> QED BY <1>2, <1>3, <1>4

-----------------------------------------------------------------------------
LEMMA HeapStarts ==
    ASSUME HeapInit
    PROVE  HeapInv
<1>1. HeapPages \in Nat \ {0} /\ HeapFrames \in Nat \ {0}
  BY HeapAssumption
<1>2. /\ FreeListOf(heapRanges, HeapPages) /\ FreePages(heapRanges) = HeapPage
      /\ Headers(heapRanges) = {0}
  <2>1. heapRanges = <<FreeRange(0, HeapPages - 0)>>
    BY <1>1 DEF HeapInit
  <2> QED BY <1>1, <2>1, FirstRange DEF HeapPage
<1>3. heapMapped = {0} /\ Cardinality({0}) = 1 /\ heapFree = HeapFrames - 1
  BY FS_Singleton DEF HeapInit
<1>4. /\ HeapIdle \in UserRecord /\ HeapIdle.pc = "idle" /\ HeapIdle.old = NoBlock
      /\ NoBlock.pages = 0 /\ HeapIdle.n = 0
  BY <1>1 DEF HeapIdle, UserRecord, HeapPC, HeapPage, NoBlock, Block
<1>5. \A t \in HeapUser : heapUser[t] = HeapIdle
  BY DEF HeapInit
<1>6. HeapTypeOK
  <2>1. heapUser \in [HeapUser -> UserRecord]
    BY <1>4 DEF HeapInit
  <2>2. /\ heapLocked = {} /\ heapPanic = FALSE /\ blocks = {} /\ heapLost = {}
    BY DEF HeapInit
  <2>3. 0 \in HeapPage /\ HeapFrames - 1 \in Nat
    BY <1>1 DEF HeapPage
  <2> QED BY <1>2, <1>3, <2>1, <2>2, <2>3 DEF HeapTypeOK
<1>7. \A t \in HeapUser : HeldBy[t] = {}
  BY <1>4, <1>5 DEF HeldBy, Held
<1>8. Partition(FreePages(heapRanges), blocks, HeldBy, heapLost)
  BY <1>2, <1>7 DEF Partition, HeapInit
<1>9. MappedRight(heapMapped, Headers(heapRanges), blocks, heapLost)
  BY <1>2, <1>3 DEF MappedRight, HeapInit
<1>10. Threads(heapUser, blocks)
  BY <1>4, <1>5 DEF Threads, UserSound, Distinct
<1> QED BY <1>6, <1>8, <1>9, <1>10 DEF HeapInv

LEMMA HeapStep ==
    ASSUME HeapInv, [HeapNext]_heapVars
    PROVE  HeapInv'
<1>1. CASE UNCHANGED heapVars
  BY <1>1 DEF heapVars, HeapInv, HeapTypeOK, HeldBy
<1>2. CASE HeapNext
  BY <1>2, KCallStep, KAllocStep, KMapStep, KFreeStep, KReallocStep, KFreeAssertsStep,
     KFreeRangeStep DEF HeapNext
<1> QED BY <1>1, <1>2

(* The parts of the heap are what the invariant says they are.             *)
LEMMA PartitionHolds ==
    ASSUME HeapInv
    PROVE  HeapIsPartitioned
<1> DEFINE F == FreePages(heapRanges)
           H == Headers(heapRanges)
<1>1. /\ HeapTypeOK /\ Partition(F, blocks, HeldBy, heapLost)
      /\ MappedRight(heapMapped, H, blocks, heapLost) /\ Threads(heapUser, blocks)
      /\ blocks \subseteq HeapBlock /\ heapLost \subseteq HeapPage
      /\ HeapPages \in Nat \ {0} /\ FreeListOf(heapRanges, HeapPages)
  BY HeapAssumption DEF HeapInv, HeapTypeOK
<1> DEFINE A == {PagesOf(heapRanges[i]) : i \in DOMAIN heapRanges}
           B == {Extent(b.addr, b.pages) : b \in blocks}
           C == {Extent(heapUser[t].addr, heapUser[t].n) :
                   t \in {u \in HeapUser : heapUser[u].pc \in {"map", "unmapped", "return"}}}
           D == IF heapLost = {} THEN {} ELSE {heapLost}
<1>2. HeapParts = A \cup B \cup C \cup D
  BY DEF HeapParts
<1>3. \A P \in A : P \subseteq F
  BY DEF FreePages
<1>4. \A P, Q \in A : P = Q \/ P \cap Q = {}
  BY <1>1, RangesApart
<1>5. \A P \in B : \E b \in blocks : P = BlockPages(b)
  BY DEF BlockPages
<1>6. \A P \in C : \E t \in HeapUser : P = HeldBy[t]
  BY DEF HeldBy, Held
<1>7. \A P \in D : P = heapLost
  OBVIOUS
<1>8. UNION A = F
  BY DEF FreePages
<1>9. \A b \in blocks : BlockPages(b) \in B
  BY DEF BlockPages
<1>10. \A t \in HeapUser : HeldBy[t] = {} \/ HeldBy[t] \in C
  BY DEF HeldBy, Held
<1>11. heapLost = {} \/ heapLost \in D
  OBVIOUS
<1>12. /\ \A P \in A : P \subseteq HeapPage
       /\ \A P \in B : P \subseteq HeapPage
       /\ \A P \in C : P \subseteq HeapPage
       /\ \A P \in D : P \subseteq HeapPage
  <2>1. F \subseteq HeapPage
    <3>1. \A v : v \in F <=> v \in Int /\ \E k \in 1 .. Len(heapRanges) :
                   heapRanges[k].start <= v /\ v < heapRanges[k].start + heapRanges[k].size
      BY <1>1, FreePageFacts
    <3>2. \A k \in 1 .. Len(heapRanges) :
             /\ heapRanges[k].start \in Nat /\ heapRanges[k].size \in Nat
             /\ heapRanges[k].start + heapRanges[k].size <= HeapPages
      BY <1>1, RangeFacts
    <3> HIDE DEF F
    <3> QED BY <3>1, <3>2, <1>1 DEF HeapPage
  <2>2. \A P \in B : P \subseteq HeapPage
    BY <1>1, <1>5, BlockFacts
  <2>3. ASSUME NEW t \in HeapUser
        PROVE  HeldBy[t] \subseteq HeapPage
    <3> DEFINE a == heapUser[t].addr
               n == heapUser[t].n
    <3>1. a \in Nat /\ n \in Nat
      BY <1>1, UserFacts
    <3>2. CASE heapUser[t].pc \in {"map", "unmapped", "return"}
      <4>1. a + n <= HeapPages
        BY <1>1, <3>2 DEF Threads, UserSound
      <4>2. HeldBy[t] = Extent(a, n)
        BY <3>2 DEF HeldBy, Held
      <4> HIDE DEF a, n
      <4>3. \A v : v \in HeldBy[t] <=> v \in Int /\ a <= v /\ v < a + n
        BY <3>1, <4>2, ExtentFacts
      <4> QED BY <1>1, <3>1, <4>1, <4>3 DEF HeapPage
    <3>3. CASE heapUser[t].pc \notin {"map", "unmapped", "return"}
      BY <3>3 DEF HeldBy, Held
    <3> QED BY <3>2, <3>3
  <2> HIDE DEF A, B, C, D, F
  <2> QED BY <2>1, <2>2, <2>3, <1>1, <1>3, <1>6, <1>7
<1> HIDE DEF A, B, C, D, F
<1>13. \A P, Q \in HeapParts : P = Q \/ P \cap Q = {}
  <2> SUFFICES ASSUME NEW P \in HeapParts, NEW Q \in HeapParts, P # Q
               PROVE  P \cap Q = {}
    OBVIOUS
  <2>1. \A R \in B : R \cap F = {} /\ R \cap heapLost = {}
    BY <1>1, <1>5 DEF Partition
  <2>2. \A R \in C : R \cap F = {} /\ R \cap heapLost = {} /\ \A S \in B : R \cap S = {}
    BY <1>1, <1>5, <1>6 DEF Partition
  <2>3. \A R, S \in B : R # S => R \cap S = {}
    BY <1>1, <1>5 DEF Partition
  <2>4. \A R, S \in C : R # S => R \cap S = {}
    BY <1>1, <1>6 DEF Partition
  <2>5. F \cap heapLost = {}
    BY <1>1 DEF Partition
  <2>6. CASE P \in A
    BY <2>6, <1>2, <1>3, <1>4, <1>7, <2>1, <2>2, <2>5
  <2>7. CASE P \in B
    BY <2>7, <1>2, <1>3, <1>7, <2>1, <2>2, <2>3
  <2>8. CASE P \in C
    BY <2>8, <1>2, <1>3, <1>7, <2>2, <2>4
  <2>9. CASE P \in D
    BY <2>9, <1>2, <1>3, <1>7, <2>1, <2>2, <2>5
  <2> QED BY <1>2, <2>6, <2>7, <2>8, <2>9
<1>14. UNION HeapParts = 0 .. HeapPages - 1
  <2>1. UNION HeapParts \subseteq HeapPage
    BY <1>2, <1>12
  <2>2. ASSUME NEW v \in HeapPage
        PROVE  v \in UNION HeapParts
    <3>1. CASE v \in F
      BY <3>1, <1>2, <1>8
    <3>2. CASE v \in heapLost
      BY <3>2, <1>2, <1>11
    <3>3. CASE \E b \in blocks : v \in BlockPages(b)
      BY <3>3, <1>2, <1>9
    <3>4. CASE \E t \in HeapUser : v \in HeldBy[t]
      BY <3>4, <1>2, <1>10
    <3> QED BY <3>1, <3>2, <3>3, <3>4, <1>1 DEF Partition
  <2> QED BY <2>1, <2>2 DEF HeapPage
<1>15. LET used == Headers(heapRanges) \cup UNION {Extent(b.addr, b.pages) : b \in blocks}
       IN used \subseteq heapMapped /\ heapMapped \subseteq used \cup heapLost
  BY <1>1 DEF MappedRight, BlockPages
<1>16. heapFree = HeapFrames - Cardinality(heapMapped)
  BY <1>1 DEF HeapTypeOK
<1> QED BY <1>13, <1>14, <1>15, <1>16 DEF HeapIsPartitioned

(* However kmalloc(), krealloc() and kfree() of any number of threads are  *)
(* mixed, no page of the kernel's addresses has two owners and none is     *)
(* forgotten (kmalloc.c:66, 108, 120).                                     *)
THEOREM TheHeapStaysPartitioned == HeapSpec => []HeapIsPartitioned
<1>1. HeapInit => HeapInv
  BY HeapStarts
<1>2. HeapInv /\ [HeapNext]_heapVars => HeapInv'
  BY HeapStep
<1>3. HeapInv => HeapIsPartitioned
  BY PartitionHolds
<1> QED BY <1>1, <1>2, <1>3, PTL DEF HeapSpec
=============================================================================
