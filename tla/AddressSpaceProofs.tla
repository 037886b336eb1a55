------------------------- MODULE AddressSpaceProofs -------------------------
(***************************************************************************)
(* Theorems about AddressSpace, for any number of frames, pages, spaces    *)
(* and references that a count can hold.                                   *)
(*                                                                         *)
(* The first part is about frames and whatever refers to them: the tally   *)
(* of a frame is the number of its references, and drawing, linking,       *)
(* moving and dropping one keep memory, tables and tally in step.  The     *)
(* second is the invariant, Inv: all frames are accounted for, and every   *)
(* space is sound for where its owner is in a system call.  Then comes one *)
(* lemma per action, and the theorems.                                     *)
(***************************************************************************)
EXTENDS AddressSpace, RangeAllocatorProofs, SequenceTheorems, FiniteSetTheorems, TLAPS

(* Frames are numbers, of memory or of devices, and NoFrame is none of     *)
(* them.                                                                   *)
LEMMA FrameFacts ==
    /\ RAM \subseteq Frame /\ DeviceFrame \subseteq Frame /\ RAM \cap DeviceFrame = {}
    /\ Frame = RAM \cup DeviceFrame
    /\ Frame \subseteq Nat /\ NoFrame \notin Frame /\ MaxRef \in Nat /\ MaxRef > 2
  BY FramesAssumption, DeviceAssumption, MaxRefAssumption
  DEF Frame, RAM, DeviceFrame, NoFrame

(* A memory whose counts, below MaxRef, are the numbers n of references,   *)
(* and in which the frames of RAM without one are available.               *)
Tallied(m, n) == \A f \in Frame :
    /\ m.ref_counts[f] = MaxRef \/ m.ref_counts[f] = n[f]
    /\ f \in m.bitmap <=> f \in RAM /\ m.ref_counts[f] = 0

(* One reference more to frame f, and one less.                            *)
OneMore(n, k, f) == \A g \in Frame : k[g] = IF g = f THEN n[g] + 1 ELSE n[g]

(* Drawing a frame keeps the counts exact when the tally goes along.       *)
LEMMA AllocTallies ==
    ASSUME NEW m \in Memory, NEW n \in [Frame -> Nat], NEW k \in [Frame -> Nat],
           Tallied(m, n), ~Exhausted(m), NEW f, f = bitmap_find_first_set(m),
           OneMore(n, k, f)
    PROVE  /\ f \in RAM /\ n[f] = 0
           /\ page_allocator_alloc(m) \in Memory
           /\ Tallied(page_allocator_alloc(m), k)
<1> DEFINE b == m.bitmap
           c == m.ref_counts
           w == page_allocator_alloc(m)
<1>1. b \in SUBSET Frame /\ c \in [Frame -> 0 .. MaxRef] /\ b # {}
  BY DEF Memory, Exhausted
<1>2. f \in b
  <2>1. f = CHOOSE x \in b : \A g \in b : x <= g
    BY DEF bitmap_find_first_set
  <2>2. \E x \in b : \A g \in b : x <= g
    BY <1>1, Smallest, FrameFacts
  <2> QED BY <2>1, <2>2, Zenon
<1>3. w.bitmap = b \ {f} /\ w.ref_counts = [c EXCEPT ![f] = 1]
  BY DEF page_allocator_alloc
<1>4. w = [bitmap |-> b \ {f}, ref_counts |-> [c EXCEPT ![f] = 1]]
  BY DEF page_allocator_alloc
<1>5. \A g \in Frame : (c[g] = MaxRef \/ c[g] = n[g]) /\ (g \in b <=> g \in RAM /\ c[g] = 0)
  BY DEF Tallied
<1> HIDE DEF b, c, w
<1>6. f \in RAM /\ c[f] = 0 /\ n[f] = 0 /\ f \in Frame
  <2>1. f \in Frame
    BY <1>1, <1>2
  <2>2. f \in RAM /\ c[f] = 0 /\ (c[f] = MaxRef \/ c[f] = n[f])
    BY <2>1, <1>2, <1>5
  <2> QED BY <2>1, <2>2, MaxRefAssumption
<1> DEFINE d == [c EXCEPT ![f] = 1]
<1>7. d \in [Frame -> 0 .. MaxRef] /\ \A g \in Frame : d[g] = IF g = f THEN 1 ELSE c[g]
  BY <1>1, <1>6, FrameFacts
<1> HIDE DEF d
<1>8. w \in Memory
  BY <1>1, <1>4, <1>7 DEF Memory, d
<1>9. \A g \in Frame : /\ d[g] = MaxRef \/ d[g] = k[g]
                       /\ g \in b \ {f} <=> g \in RAM /\ d[g] = 0
  BY <1>5, <1>6, <1>7 DEF OneMore
<1> QED BY <1>3, <1>6, <1>8, <1>9 DEF Tallied, w, d

(* page_allocator_ref_page(), which does not count further than MaxRef.    *)
LEMMA RefTallies ==
    ASSUME NEW m \in Memory, NEW n \in [Frame -> Nat], NEW k \in [Frame -> Nat],
           Tallied(m, n), NEW f \in Frame, OneMore(n, k, f),
           f \in DeviceFrame \/ n[f] > 0
    PROVE  /\ page_allocator_ref_page(m, f) \in Memory
           /\ Tallied(page_allocator_ref_page(m, f), k)
<1> DEFINE b == m.bitmap
           c == m.ref_counts
           w == page_allocator_ref_page(m, f)
<1>1. b \in SUBSET Frame /\ c \in [Frame -> 0 .. MaxRef]
  BY DEF Memory
<1>2. \A g \in Frame : (c[g] = MaxRef \/ c[g] = n[g]) /\ (g \in b <=> g \in RAM /\ c[g] = 0)
  BY DEF Tallied
<1>3. f \in RAM => c[f] > 0
  BY <1>1, <1>2, FrameFacts
<1>4. CASE ~(c[f] < MaxRef)
  <2>1. w = m
    BY <1>4 DEF page_allocator_ref_page
  <2>2. \A g \in Frame : c[g] = MaxRef \/ c[g] = k[g]
    BY <1>1, <1>2, <1>4, FrameFacts DEF OneMore
  <2> QED BY <2>1, <2>2, <1>2 DEF Tallied
<1>5. CASE c[f] < MaxRef
  <2> DEFINE d == [c EXCEPT ![f] = @ + 1]
  <2>1. w.bitmap = b /\ w.ref_counts = d /\ w = [m EXCEPT !.ref_counts = d]
    BY <1>5 DEF page_allocator_ref_page, Memory
  <2>2. d \in [Frame -> 0 .. MaxRef] /\ \A g \in Frame : d[g] = IF g = f THEN c[g] + 1 ELSE c[g]
    BY <1>1, <1>5, FrameFacts
  <2> HIDE DEF d
  <2>3. w \in Memory
    BY <2>1, <2>2 DEF Memory
  <2>4. \A g \in Frame : /\ d[g] = MaxRef \/ d[g] = k[g]
                         /\ g \in b <=> g \in RAM /\ d[g] = 0
    BY <1>1, <1>2, <1>3, <1>5, <2>2, FrameFacts DEF OneMore
  <2> QED BY <2>1, <2>3, <2>4 DEF Tallied
<1> QED BY <1>4, <1>5

(* page_allocator_unref_page(), of a frame that someone refers to.         *)
LEMMA UnrefTallies ==
    ASSUME NEW m \in Memory, NEW n \in [Frame -> Nat], NEW k \in [Frame -> Nat],
           Tallied(m, n), NEW f \in Frame, OneMore(k, n, f),
           f \in RAM \/ m.ref_counts[f] # 1
    PROVE  /\ page_allocator_unref_page(m, f) \in Memory
           /\ Tallied(page_allocator_unref_page(m, f), k)
<1> DEFINE b == m.bitmap
           c == m.ref_counts
           w == page_allocator_unref_page(m, f)
<1>1. b \in SUBSET Frame /\ c \in [Frame -> 0 .. MaxRef]
  BY DEF Memory
<1>2. \A g \in Frame : (c[g] = MaxRef \/ c[g] = n[g]) /\ (g \in b <=> g \in RAM /\ c[g] = 0)
  BY DEF Tallied
<1>3. n[f] > 0 /\ c[f] > 0 /\ k[f] = n[f] - 1 /\ \A g \in Frame : g # f => k[g] = n[g]
  BY <1>1, <1>2, FrameFacts DEF OneMore
<1>4. CASE c[f] = MaxRef
  <2>1. w = m
    BY <1>4 DEF page_allocator_unref_page
  <2>2. \A g \in Frame : c[g] = MaxRef \/ c[g] = k[g]
    BY <1>2, <1>3, <1>4
  <2> QED BY <2>1, <2>2, <1>2 DEF Tallied
<1>5. CASE c[f] # MaxRef
  <2> DEFINE d == [c EXCEPT ![f] = @ - 1]
             a == IF c[f] = 1 THEN b \cup {f} ELSE b
  <2>1. w = [bitmap |-> a, ref_counts |-> d]
    BY <1>5 DEF page_allocator_unref_page
  <2>2. d \in [Frame -> 0 .. MaxRef] /\ \A g \in Frame : d[g] = IF g = f THEN c[g] - 1 ELSE c[g]
    BY <1>1, <1>3, <1>5, FrameFacts
  <2> HIDE DEF d
  <2>3. w \in Memory /\ w.bitmap = a /\ w.ref_counts = d
    BY <2>1, <2>2, <1>1 DEF Memory
  <2>4. \A g \in Frame : /\ d[g] = MaxRef \/ d[g] = k[g]
                         /\ g \in a <=> g \in RAM /\ d[g] = 0
    BY <1>1, <1>2, <1>3, <1>5, <2>2, FrameFacts
  <2> QED BY <2>3, <2>4 DEF Tallied
<1> QED BY <1>4, <1>5

-----------------------------------------------------------------------------
(* Where frames are referred to: P gives for every slot of a finite set    *)
(* the frame, or NoFrame.                                                  *)
Slots(P, f) == {e \in DOMAIN P : P[e] = f}
Put(P, e, f) == [P EXCEPT ![e] = f]

(* A map after one slot was overwritten.                                   *)
LEMMA PutFacts ==
    ASSUME NEW D, NEW V, NEW P \in [D -> V], NEW e \in D, NEW f \in V
    PROVE  /\ Put(P, e, f) \in [D -> V]
           /\ \A d \in D : Put(P, e, f)[d] = IF d = e THEN f ELSE P[d]
  BY DEF Put

(* Finitely many slots refer to a frame.                                   *)
LEMMA SlotsFinite ==
    ASSUME NEW D, IsFiniteSet(D), NEW V, NEW P \in [D -> V], NEW f
    PROVE  IsFiniteSet(Slots(P, f)) /\ Cardinality(Slots(P, f)) \in Nat
<1>1. Slots(P, f) \subseteq D
  BY DEF Slots
<1> QED BY <1>1, FS_Subset, FS_CardinalityType

(* A slot comes to refer to frame f.                                       *)
LEMMA SlotGained ==
    ASSUME NEW D, IsFiniteSet(D), NEW V, NEW P \in [D -> V], NEW e \in D, NEW f \in V,
           P[e] # f, NEW Q, Q = Put(P, e, f)
    PROVE  /\ Cardinality(Slots(Q, f)) = Cardinality(Slots(P, f)) + 1
           /\ \A g : g # f /\ g # P[e] => Slots(Q, g) = Slots(P, g)
<1>1. Q \in [D -> V] /\ \A d \in D : Q[d] = IF d = e THEN f ELSE P[d]
  BY PutFacts
<1>2. Slots(Q, f) = Slots(P, f) \cup {e} /\ e \notin Slots(P, f)
  BY <1>1 DEF Slots
<1>3. IsFiniteSet(Slots(P, f)) /\ Cardinality(Slots(P, f)) \in Nat
  BY SlotsFinite
<1>4. Cardinality(Slots(Q, f)) = Cardinality(Slots(P, f)) + 1
  BY <1>2, <1>3, FS_AddElement
<1>5. \A g : g # f /\ g # P[e] => Slots(Q, g) = Slots(P, g)
  BY <1>1 DEF Slots
<1> QED BY <1>4, <1>5

(* It no longer refers to frame g.                                         *)
LEMMA SlotLost ==
    ASSUME NEW D, IsFiniteSet(D), NEW V, NEW P \in [D -> V], NEW e \in D, NEW f \in V,
           P[e] # f, NEW Q, Q = Put(P, e, f)
    PROVE  Cardinality(Slots(P, P[e])) = Cardinality(Slots(Q, P[e])) + 1
<1> DEFINE g == P[e]
<1>1. Q \in [D -> V] /\ \A d \in D : Q[d] = IF d = e THEN f ELSE P[d]
  BY PutFacts
<1>2. Slots(P, g) = Slots(Q, g) \cup {e} /\ e \notin Slots(Q, g)
  BY <1>1 DEF Slots
<1>3. IsFiniteSet(Slots(Q, g)) /\ Cardinality(Slots(Q, g)) \in Nat
  BY <1>1, SlotsFinite
<1> QED BY <1>2, <1>3, FS_AddElement

-----------------------------------------------------------------------------
PageSlot == Space \X Page
TableSlot == Space \X Table

(* The page table and page directory entries are finitely many.            *)
LEMMA SlotSetsFinite == IsFiniteSet(PageSlot) /\ IsFiniteSet(TableSlot)
<1>1. IsFiniteSet(Page) /\ IsFiniteSet(Table)
  <2>1. IsFiniteSet(Page)
    BY FS_Interval, PagesAssumption DEF Page
  <2>2. IsFiniteSet({TableOf(v) : v \in Page})
    <3> DEFINE to == [v \in Page |-> TableOf(v)]
    <3>1. to \in Surjection(Page, {TableOf(v) : v \in Page})
      BY Zenon DEF Surjection
    <3> QED BY <3>1, <2>1, FS_Surjection DEF ExistsSurjection
  <2> QED BY <2>1, <2>2 DEF Table
<1> QED BY <1>1, SpaceAssumption, FS_Product DEF PageSlot, TableSlot

(* The number of references to each frame: from page tables, from page     *)
(* directories, forgotten ones and the console's.                          *)
Tally(P, T, l) ==
    [f \in Frame |-> Cardinality(Slots(P, f)) + Cardinality(Slots(T, f)) + l[f]
                        + ConsoleRefs(f)]

Maps(P, T, l) == /\ P \in [PageSlot -> Frame \cup {NoFrame}]
                 /\ T \in [TableSlot -> RAM \cup {NoFrame}]
                 /\ l \in [Frame -> 0 .. MaxRef]

(* The tally is a sum of naturals.                                         *)
LEMMA TallyFacts ==
    ASSUME NEW P, NEW T, NEW l, Maps(P, T, l)
    PROVE  /\ Tally(P, T, l) \in [Frame -> Nat]
           /\ \A f \in Frame :
                 /\ Tally(P, T, l)[f] = Cardinality(Slots(P, f))
                        + Cardinality(Slots(T, f)) + l[f] + ConsoleRefs(f)
                 /\ Cardinality(Slots(P, f)) \in Nat /\ Cardinality(Slots(T, f)) \in Nat
                 /\ l[f] \in Nat /\ ConsoleRefs(f) \in Nat
<1>1. ASSUME NEW f \in Frame
      PROVE  /\ Cardinality(Slots(P, f)) \in Nat /\ Cardinality(Slots(T, f)) \in Nat
             /\ l[f] \in Nat /\ ConsoleRefs(f) \in Nat
  <2>1. Cardinality(Slots(P, f)) \in Nat /\ Cardinality(Slots(T, f)) \in Nat
    BY SlotSetsFinite, SlotsFinite DEF Maps
  <2>2. ConsoleRefs(f) \in Nat
    BY DEF ConsoleRefs, page_allocator_init
  <2> QED BY <2>1, <2>2, FrameFacts DEF Maps
<1> QED BY <1>1 DEF Tally

(* A page table entry that comes to refer to f adds 1 to the tally of f.   *)
LEMMA PageGained ==
    ASSUME NEW P, NEW T, NEW l, Maps(P, T, l), NEW e \in PageSlot, NEW f \in Frame,
           P[e] = NoFrame, NEW Q, Q = Put(P, e, f)
    PROVE  Maps(Q, T, l) /\ OneMore(Tally(P, T, l), Tally(Q, T, l), f)
<1> DEFINE V == Frame \cup {NoFrame}
<1>1. P \in [PageSlot -> V] /\ f \in V /\ P[e] # f
  BY FrameFacts DEF Maps
<1> HIDE DEF V
<1>2. Q \in [PageSlot -> V]
  BY <1>1, PutFacts
<1>3. Maps(Q, T, l)
  BY <1>2 DEF Maps, V
<1>4. /\ Cardinality(Slots(Q, f)) = Cardinality(Slots(P, f)) + 1
      /\ \A g : g # f /\ g # P[e] => Slots(Q, g) = Slots(P, g)
  BY <1>1, SlotSetsFinite, SlotGained
<1>5. \A g \in Frame : g # P[e]
  BY FrameFacts
<1>6. ASSUME NEW g \in Frame
      PROVE  Tally(Q, T, l)[g] = IF g = f THEN Tally(P, T, l)[g] + 1 ELSE Tally(P, T, l)[g]
  <2> DEFINE x == Tally(P, T, l)[g]
             y == Tally(Q, T, l)[g]
             t == Cardinality(Slots(T, g))
             c == ConsoleRefs(g)
             o == l[g]
             p == Cardinality(Slots(P, g))
             q == Cardinality(Slots(Q, g))
  <2>1. x = p + t + o + c /\ p \in Nat /\ t \in Nat /\ o \in Nat /\ c \in Nat
    BY TallyFacts
  <2>2. y = q + t + o + c /\ q \in Nat
    BY <1>3, TallyFacts
  <2>3. q = IF g = f THEN p + 1 ELSE p
    BY <1>4, <1>5
  <2> HIDE DEF x, y, t, c, o, p, q
  <2>4. y = IF g = f THEN x + 1 ELSE x
    BY <2>1, <2>2, <2>3
  <2> QED BY <2>4 DEF x, y
<1> QED BY <1>3, <1>6 DEF OneMore

(* One that is cleared takes 1 off.                                        *)
LEMMA PageLost ==
    ASSUME NEW P, NEW T, NEW l, Maps(P, T, l), NEW e \in PageSlot,
           P[e] # NoFrame, NEW Q, Q = Put(P, e, NoFrame)
    PROVE  Maps(Q, T, l) /\ OneMore(Tally(Q, T, l), Tally(P, T, l), P[e])
<1> DEFINE V == Frame \cup {NoFrame}
           f == P[e]
           n == NoFrame
<1>1. P \in [PageSlot -> V] /\ f \in Frame /\ n \in V /\ Q = Put(P, e, n)
  BY DEF Maps
<1> HIDE DEF V, n
<1>2. Q \in [PageSlot -> V] /\ Q[e] = n /\ P = Put(Q, e, P[e])
  BY <1>1 DEF Put
<1>3. Maps(Q, T, l) /\ Q[e] = NoFrame
  BY <1>2 DEF Maps, V, n
<1>4. P = Put(Q, e, f)
  BY <1>2
<1> HIDE DEF f
<1>5. OneMore(Tally(Q, T, l), Tally(P, T, l), f)
  BY <1>1, <1>3, <1>4, PageGained
<1> QED BY <1>3, <1>5 DEF f

(* The same of the entries of page directories.                            *)
LEMMA TableGained ==
    ASSUME NEW P, NEW T, NEW l, Maps(P, T, l), NEW e \in TableSlot, NEW f \in RAM,
           T[e] = NoFrame, NEW Q, Q = Put(T, e, f)
    PROVE  Maps(P, Q, l) /\ OneMore(Tally(P, T, l), Tally(P, Q, l), f)
<1> DEFINE V == RAM \cup {NoFrame}
<1>1. T \in [TableSlot -> V] /\ f \in V /\ T[e] # f /\ f \in Frame
  BY FrameFacts DEF Maps
<1> HIDE DEF V
<1>2. Q \in [TableSlot -> V]
  BY <1>1, PutFacts
<1>3. Maps(P, Q, l)
  BY <1>2 DEF Maps, V
<1>4. /\ Cardinality(Slots(Q, f)) = Cardinality(Slots(T, f)) + 1
      /\ \A g : g # f /\ g # T[e] => Slots(Q, g) = Slots(T, g)
  BY <1>1, SlotSetsFinite, SlotGained
<1>5. \A g \in Frame : g # T[e]
  BY FrameFacts
<1>6. ASSUME NEW g \in Frame
      PROVE  Tally(P, Q, l)[g] = IF g = f THEN Tally(P, T, l)[g] + 1 ELSE Tally(P, T, l)[g]
  <2> DEFINE x == Tally(P, T, l)[g]
             y == Tally(P, Q, l)[g]
             t == Cardinality(Slots(T, g))
             c == ConsoleRefs(g)
             o == l[g]
             p == Cardinality(Slots(P, g))
             q == Cardinality(Slots(Q, g))
  <2>1. x = p + t + o + c /\ p \in Nat /\ t \in Nat /\ o \in Nat /\ c \in Nat
    BY TallyFacts
  <2>2. y = p + q + o + c /\ q \in Nat
    BY <1>3, TallyFacts
  <2>3. q = IF g = f THEN t + 1 ELSE t
    BY <1>4, <1>5
  <2> HIDE DEF x, y, t, c, o, p, q
  <2>4. y = IF g = f THEN x + 1 ELSE x
    BY <2>1, <2>2, <2>3
  <2> QED BY <2>4 DEF x, y
<1> QED BY <1>3, <1>6 DEF OneMore

(* A page directory entry that is cleared takes 1 off.                     *)
LEMMA TableLost ==
    ASSUME NEW P, NEW T, NEW l, Maps(P, T, l), NEW e \in TableSlot,
           T[e] # NoFrame, NEW Q, Q = Put(T, e, NoFrame)
    PROVE  Maps(P, Q, l) /\ OneMore(Tally(P, Q, l), Tally(P, T, l), T[e])
<1> DEFINE V == RAM \cup {NoFrame}
           f == T[e]
           n == NoFrame
<1>1. T \in [TableSlot -> V] /\ f \in RAM /\ n \in V /\ Q = Put(T, e, n)
  BY DEF Maps
<1> HIDE DEF V, n
<1>2. Q \in [TableSlot -> V] /\ Q[e] = n /\ T = Put(Q, e, T[e])
  BY <1>1 DEF Put
<1>3. Maps(P, Q, l) /\ Q[e] = NoFrame
  BY <1>2 DEF Maps, V, n
<1>4. T = Put(Q, e, f)
  BY <1>2
<1> HIDE DEF f
<1>5. OneMore(Tally(P, Q, l), Tally(P, T, l), f)
  BY <1>1, <1>3, <1>4, TableGained
<1> QED BY <1>3, <1>5 DEF f

(* A frame that some slot refers to has a positive tally.                  *)
LEMMA Referred ==
    ASSUME NEW P, NEW T, NEW l, Maps(P, T, l), NEW f \in Frame
    PROVE  /\ \A e \in PageSlot : P[e] = f => Tally(P, T, l)[f] > 0
           /\ \A e \in TableSlot : T[e] = f => Tally(P, T, l)[f] > 0
<1>1. /\ Tally(P, T, l)[f] = Cardinality(Slots(P, f)) + Cardinality(Slots(T, f))
                             + l[f] + ConsoleRefs(f)
      /\ Cardinality(Slots(P, f)) \in Nat /\ Cardinality(Slots(T, f)) \in Nat
      /\ l[f] \in Nat /\ ConsoleRefs(f) \in Nat
  BY TallyFacts
<1>2. /\ IsFiniteSet(Slots(P, f)) /\ IsFiniteSet(Slots(T, f))
      /\ DOMAIN P = PageSlot /\ DOMAIN T = TableSlot
  BY SlotSetsFinite, SlotsFinite DEF Maps
<1>3. \A e \in PageSlot : P[e] = f => Slots(P, f) # {}
  BY <1>2 DEF Slots
<1>4. \A e \in TableSlot : T[e] = f => Slots(T, f) # {}
  BY <1>2 DEF Slots
<1>5. Slots(P, f) # {} => Cardinality(Slots(P, f)) # 0
  BY <1>2, FS_EmptySet
<1>6. Slots(T, f) # {} => Cardinality(Slots(T, f)) # 0
  BY <1>2, FS_EmptySet
<1>7. (Cardinality(Slots(P, f)) # 0 \/ Cardinality(Slots(T, f)) # 0) => Tally(P, T, l)[f] > 0
  BY <1>1
<1> QED BY <1>3, <1>4, <1>5, <1>6, <1>7

(* What belongs to one process only: a frame that two slots refer to is    *)
(* shared by both, a page table is no page, and the memory of the frame    *)
(* buffer is always shared.                                                *)
Exclusive(P, T, S) ==
    /\ \A e, g \in PageSlot :
          (P[e] # NoFrame /\ P[e] = P[g] /\ e # g) => e \in S /\ g \in S
    /\ \A e \in PageSlot, k \in TableSlot : P[e] # NoFrame => P[e] # T[k]
    /\ \A e \in PageSlot : P[e] \in DeviceFrame => e \in S

Accounted(m, P, T, S, l) ==
    /\ m \in Memory /\ Maps(P, T, l)
    /\ Tallied(m, Tally(P, T, l))
    /\ Exclusive(P, T, S)

(* U shares what S shares, but for slot e.                                 *)
SharesBut(P, S, U, e) == \A d \in PageSlot : P[d] # NoFrame /\ d # e /\ d \in S => d \in U

(* A frame without references is in no slot.                               *)
LEMMA Unreferred ==
    ASSUME NEW P, NEW T, NEW l, Maps(P, T, l), NEW f \in Frame, Tally(P, T, l)[f] = 0
    PROVE  /\ \A e \in PageSlot : P[e] # f
           /\ \A e \in TableSlot : T[e] # f
  BY Referred

(* The frame that is drawn has no references.                              *)
LEMMA FirstIsFree ==
    ASSUME NEW m, NEW P, NEW T, NEW S, NEW l, Accounted(m, P, T, S, l), ~Exhausted(m),
           NEW f, f = bitmap_find_first_set(m)
    PROVE  f \in RAM /\ Tally(P, T, l)[f] = 0
<1>1. m \in Memory /\ Maps(P, T, l) /\ Tallied(m, Tally(P, T, l))
  BY DEF Accounted
<1> DEFINE n == Tally(P, T, l)
             x == [g \in Frame |-> IF g = f THEN n[g] + 1 ELSE n[g]]
<1>2. n \in [Frame -> Nat]
  BY <1>1, TallyFacts
<1>3. x \in [Frame -> Nat] /\ OneMore(n, x, f)
  BY <1>2 DEF OneMore
<1> HIDE DEF n, x
<1>4. f \in RAM /\ n[f] = 0
  BY <1>1, <1>2, <1>3, AllocTallies DEF n
<1> QED BY <1>4 DEF n

(* A frame is drawn for a page table.                                      *)
LEMMA TableDrawn ==
    ASSUME NEW m, NEW P, NEW T, NEW S, NEW l, Accounted(m, P, T, S, l),
           NEW k \in TableSlot, T[k] = NoFrame, ~Exhausted(m),
           NEW f, f = bitmap_find_first_set(m), NEW U, U = Put(T, k, f)
    PROVE  f \in RAM /\ Accounted(page_allocator_alloc(m), P, U, S, l)
<1>1. f \in RAM /\ Tally(P, T, l)[f] = 0
  BY FirstIsFree
<1>2. Maps(P, T, l) /\ m \in Memory /\ Tallied(m, Tally(P, T, l)) /\ Exclusive(P, T, S)
  BY DEF Accounted
<1>3. Maps(P, U, l) /\ OneMore(Tally(P, T, l), Tally(P, U, l), f)
  BY <1>1, <1>2, TableGained
<1>4. Tally(P, T, l) \in [Frame -> Nat] /\ Tally(P, U, l) \in [Frame -> Nat]
  BY <1>2, <1>3, TallyFacts
<1>5. /\ page_allocator_alloc(m) \in Memory
      /\ Tallied(page_allocator_alloc(m), Tally(P, U, l))
  BY <1>2, <1>3, <1>4, AllocTallies
<1>6. \A e \in PageSlot : P[e] # f
  BY <1>1, <1>2, Unreferred, FrameFacts
<1>7. \A d \in TableSlot : U[d] = f \/ U[d] = T[d]
  BY <1>2 DEF Maps, Put
<1>8. Exclusive(P, U, S)
  BY <1>2, <1>6, <1>7 DEF Exclusive
<1> QED BY <1>1, <1>3, <1>5, <1>8 DEF Accounted

(* A frame is drawn for a page.                                            *)
LEMMA PageDrawn ==
    ASSUME NEW m, NEW P, NEW T, NEW S, NEW l, Accounted(m, P, T, S, l),
           NEW e \in PageSlot, P[e] = NoFrame, ~Exhausted(m), NEW U, SharesBut(P, S, U, e),
           NEW f, f = bitmap_find_first_set(m), NEW Q, Q = Put(P, e, f)
    PROVE  f \in RAM /\ Accounted(page_allocator_alloc(m), Q, T, U, l)
<1>1. f \in RAM /\ Tally(P, T, l)[f] = 0
  BY FirstIsFree
<1>2. Maps(P, T, l) /\ m \in Memory /\ Tallied(m, Tally(P, T, l)) /\ Exclusive(P, T, S)
  BY DEF Accounted
<1>3. Maps(Q, T, l) /\ OneMore(Tally(P, T, l), Tally(Q, T, l), f)
  BY <1>1, <1>2, PageGained, FrameFacts
<1>4. Tally(P, T, l) \in [Frame -> Nat] /\ Tally(Q, T, l) \in [Frame -> Nat]
  BY <1>2, <1>3, TallyFacts
<1>5. /\ page_allocator_alloc(m) \in Memory
      /\ Tallied(page_allocator_alloc(m), Tally(Q, T, l))
  BY <1>2, <1>3, <1>4, AllocTallies
<1>6. (\A d \in PageSlot : P[d] # f) /\ (\A d \in TableSlot : T[d] # f)
  BY <1>1, <1>2, Unreferred, FrameFacts
<1>7. \A d \in PageSlot : Q[d] = IF d = e THEN f ELSE P[d]
  BY <1>2 DEF Maps, Put
<1>8. Exclusive(Q, T, U)
  BY <1>1, <1>2, <1>6, <1>7, FrameFacts DEF Exclusive, SharesBut
<1> QED BY <1>1, <1>3, <1>5, <1>8 DEF Accounted

(* A page is mapped to a frame that is shared, or to a device frame.       *)
LEMMA PageLinked ==
    ASSUME NEW m, NEW P, NEW T, NEW S, NEW l, Accounted(m, P, T, S, l),
           NEW e \in PageSlot, P[e] = NoFrame, NEW f \in Frame,
           f \in DeviceFrame \/ \E d \in PageSlot : d \in S /\ P[d] = f,
           NEW U, SharesBut(P, S, U, e), e \in U, NEW Q, Q = Put(P, e, f)
    PROVE  Accounted(page_allocator_ref_page(m, f), Q, T, U, l)
<1>2. Maps(P, T, l) /\ m \in Memory /\ Tallied(m, Tally(P, T, l)) /\ Exclusive(P, T, S)
  BY DEF Accounted
<1>3. Maps(Q, T, l) /\ OneMore(Tally(P, T, l), Tally(Q, T, l), f)
  BY <1>2, PageGained
<1>4. Tally(P, T, l) \in [Frame -> Nat] /\ Tally(Q, T, l) \in [Frame -> Nat]
  BY <1>2, <1>3, TallyFacts
<1>5. f \in DeviceFrame \/ Tally(P, T, l)[f] > 0
  BY <1>2, Referred
<1>6. /\ page_allocator_ref_page(m, f) \in Memory
      /\ Tallied(page_allocator_ref_page(m, f), Tally(Q, T, l))
  BY <1>2, <1>3, <1>4, <1>5, RefTallies
<1>7. \A d \in PageSlot : Q[d] = IF d = e THEN f ELSE P[d]
  BY <1>2 DEF Maps, Put
<1>8. f # NoFrame /\ \A d \in PageSlot : P[d] = f => d \in S /\ d \in U
  <2>1. f # NoFrame /\ P[e] # f
    BY FrameFacts
  <2>2. ASSUME NEW d \in PageSlot, P[d] = f
        PROVE  d \in S
    BY <1>2, <2>1, <2>2 DEF Exclusive
  <2> QED BY <2>1, <2>2 DEF SharesBut
<1>9. \A k \in TableSlot : T[k] # f
  <2>1. \A k \in TableSlot : T[k] \notin DeviceFrame
    BY <1>2, FrameFacts DEF Maps
  <2> QED BY <2>1, <1>2, <1>8 DEF Exclusive
<1>10. Exclusive(Q, T, U)
  <2>1. ASSUME NEW d \in PageSlot, NEW g \in PageSlot, Q[d] # NoFrame, Q[d] = Q[g], d # g
        PROVE  d \in U
    <3>1. CASE d = e
      BY <3>1
    <3>2. CASE g = e
      BY <2>1, <3>2, <1>7, <1>8
    <3>3. CASE d # e /\ g # e
      <4>1. P[d] # NoFrame /\ P[d] = P[g]
        BY <2>1, <3>3, <1>7
      <4> QED BY <2>1, <3>3, <4>1, <1>2 DEF Exclusive, SharesBut
    <3> QED BY <3>1, <3>2, <3>3
  <2>2. \A d \in PageSlot, k \in TableSlot : Q[d] # NoFrame => Q[d] # T[k]
    BY <1>2, <1>7, <1>9 DEF Exclusive
  <2>3. ASSUME NEW d \in PageSlot, Q[d] \in DeviceFrame
        PROVE  d \in U
    <3>1. CASE d = e
      BY <3>1
    <3>2. CASE d # e
      <4>1. P[d] \in DeviceFrame /\ P[d] # NoFrame
        BY <2>3, <3>2, <1>7, FrameFacts
      <4> QED BY <3>2, <4>1, <1>2 DEF Exclusive, SharesBut
    <3> QED BY <3>1, <3>2
  <2> QED BY <2>1, <2>2, <2>3 DEF Exclusive
<1> QED BY <1>3, <1>6, <1>10 DEF Accounted

(* A page is unmapped and its frame loses a reference.                     *)
LEMMA PageDropped ==
    ASSUME NEW m, NEW P, NEW T, NEW S, NEW l, Accounted(m, P, T, S, l),
           NEW e \in PageSlot, NEW f \in Frame, P[e] = f,
           f \in DeviceFrame => m.ref_counts[f] # 1,
           NEW U, SharesBut(P, S, U, e), NEW Q, Q = Put(P, e, NoFrame)
    PROVE  Accounted(page_allocator_unref_page(m, f), Q, T, U, l)
<1>1. f # NoFrame
  BY FrameFacts
<1>2. Maps(P, T, l) /\ m \in Memory /\ Tallied(m, Tally(P, T, l)) /\ Exclusive(P, T, S)
  BY DEF Accounted
<1>3. Maps(Q, T, l) /\ OneMore(Tally(Q, T, l), Tally(P, T, l), f)
  BY <1>1, <1>2, PageLost
<1>4. Tally(P, T, l) \in [Frame -> Nat] /\ Tally(Q, T, l) \in [Frame -> Nat]
  BY <1>2, <1>3, TallyFacts
<1>5. f \in RAM \/ m.ref_counts[f] # 1
  BY FrameFacts
<1>6. /\ page_allocator_unref_page(m, f) \in Memory
      /\ Tallied(page_allocator_unref_page(m, f), Tally(Q, T, l))
  BY <1>2, <1>3, <1>4, <1>5, UnrefTallies
<1>7. \A d \in PageSlot : Q[d] = IF d = e THEN NoFrame ELSE P[d]
  BY <1>2 DEF Maps, Put
<1>8. Exclusive(Q, T, U)
  BY <1>2, <1>7, FrameFacts DEF Exclusive, SharesBut
<1> QED BY <1>3, <1>6, <1>8 DEF Accounted

(* A page table is given back.                                             *)
LEMMA TableDropped ==
    ASSUME NEW m, NEW P, NEW T, NEW S, NEW l, Accounted(m, P, T, S, l),
           NEW k \in TableSlot, NEW f, f = T[k], f # NoFrame,
           NEW U, U = Put(T, k, NoFrame)
    PROVE  Accounted(page_allocator_unref_page(m, f), P, U, S, l)
<1>2. Maps(P, T, l) /\ m \in Memory /\ Tallied(m, Tally(P, T, l)) /\ Exclusive(P, T, S)
  BY DEF Accounted
<1>1. f \in RAM /\ f \in Frame
  BY <1>2, FrameFacts DEF Maps
<1>3. Maps(P, U, l) /\ OneMore(Tally(P, U, l), Tally(P, T, l), f)
  BY <1>2, TableLost
<1>4. Tally(P, T, l) \in [Frame -> Nat] /\ Tally(P, U, l) \in [Frame -> Nat]
  BY <1>2, <1>3, TallyFacts
<1>6. /\ page_allocator_unref_page(m, f) \in Memory
      /\ Tallied(page_allocator_unref_page(m, f), Tally(P, U, l))
  BY <1>1, <1>2, <1>3, <1>4, UnrefTallies
<1>7. \A d \in TableSlot : U[d] = IF d = k THEN NoFrame ELSE T[d]
  BY <1>2 DEF Maps, Put
<1>8. Exclusive(P, U, S)
  BY <1>2, <1>7 DEF Exclusive
<1> QED BY <1>3, <1>6, <1>8 DEF Accounted

(* The header of a free range moves to another page.                       *)
LEMMA PageMoved ==
    ASSUME NEW m, NEW P, NEW T, NEW S, NEW l, Accounted(m, P, T, S, l),
           NEW e \in PageSlot, NEW d \in PageSlot, e # d, e \notin S,
           NEW f \in Frame, P[e] = f, P[d] = NoFrame, d \notin S,
           NEW Q, Q = Put(P, d, f), NEW R, R = Put(Q, e, NoFrame)
    PROVE  Accounted(page_allocator_unref_page(page_allocator_ref_page(m, f), f), R, T, S, l)
<1>1. f # NoFrame
  BY FrameFacts
<1>2. Maps(P, T, l) /\ m \in Memory /\ Tallied(m, Tally(P, T, l)) /\ Exclusive(P, T, S)
  BY DEF Accounted
<1>3. Maps(Q, T, l) /\ OneMore(Tally(P, T, l), Tally(Q, T, l), f)
  BY <1>2, PageGained
<1>7. \A g \in PageSlot : Q[g] = IF g = d THEN f ELSE P[g]
  BY <1>2 DEF Maps, Put
<1>4. Q[e] = f
  BY <1>7
<1>5. Maps(R, T, l) /\ OneMore(Tally(R, T, l), Tally(Q, T, l), f)
  BY <1>1, <1>3, <1>4, PageLost
<1>6. \A g \in PageSlot : R[g] = IF g = e THEN NoFrame ELSE Q[g]
  BY <1>3 DEF Maps, Put
<1>8. Tally(P, T, l) \in [Frame -> Nat] /\ Tally(Q, T, l) \in [Frame -> Nat]
        /\ Tally(R, T, l) \in [Frame -> Nat]
  BY <1>2, <1>3, <1>5, TallyFacts
<1>9. Tally(P, T, l)[f] > 0
  BY <1>2, Referred
<1>10. f \in RAM
  BY <1>2, FrameFacts DEF Exclusive
<1> DEFINE w == page_allocator_ref_page(m, f)
<1>11. w \in Memory /\ Tallied(w, Tally(Q, T, l))
  BY <1>2, <1>3, <1>8, <1>9, RefTallies
<1> HIDE DEF w
<1>12. /\ page_allocator_unref_page(w, f) \in Memory
       /\ Tallied(page_allocator_unref_page(w, f), Tally(R, T, l))
  BY <1>5, <1>8, <1>10, <1>11, UnrefTallies
<1>13. \A g \in PageSlot : g # e => P[g] # f
  BY <1>1, <1>2 DEF Exclusive
<1>14. \A k \in TableSlot : T[k] # f
  BY <1>1, <1>2 DEF Exclusive
<1>15. Exclusive(R, T, S)
  BY <1>2, <1>6, <1>7, <1>10, <1>13, <1>14, FrameFacts DEF Exclusive
<1> QED BY <1>5, <1>12, <1>15 DEF Accounted, w

(* Nothing but what is shared has changed.                                 *)
LEMMA StillAccounted ==
    ASSUME NEW m, NEW P, NEW T, NEW S, NEW l, Accounted(m, P, T, S, l),
           NEW U, \A d \in PageSlot : P[d] # NoFrame /\ d \in S => d \in U
    PROVE  Accounted(m, P, T, U, l)
<1>1. \A d \in PageSlot : P[d] \in DeviceFrame => P[d] # NoFrame
  BY FrameFacts
<1> QED BY <1>1 DEF Accounted, Exclusive

(* The slots in E that refer to f, taken apart from the others.            *)
From(P, E, f) == {e \in E : P[e] = f}

(* The slots of space t and those of the others.                           *)
LEMMA SlotsApart ==
    ASSUME NEW D, IsFiniteSet(D), NEW V, NEW P \in [D -> V], NEW f \in V, f # NoFrame,
           NEW E \in SUBSET D, NEW Q, Q = [e \in D |-> IF e \in E THEN NoFrame ELSE P[e]]
    PROVE  /\ Cardinality(From(P, E, f)) \in Nat
           /\ Cardinality(Slots(P, f))
                 = Cardinality(Slots(Q, f)) + Cardinality(From(P, E, f))
<1> DEFINE A == From(P, E, f)
           B == Slots(Q, f)
<1>1. B = {e \in D \ E : P[e] = f}
  BY DEF Slots
<1>2. A \cup B = Slots(P, f) /\ A \cap B = {} /\ A \subseteq D /\ B \subseteq D
  BY <1>1 DEF Slots, From
<1>3. IsFiniteSet(A) /\ IsFiniteSet(B)
  BY <1>2, FS_Subset
<1> HIDE DEF A, B
<1>4. Cardinality(A) \in Nat /\ Cardinality(B) \in Nat
  BY <1>3, FS_CardinalityType
<1>5. Cardinality(A \cup B) = Cardinality(A) + Cardinality(B) - Cardinality(A \cap B)
  BY <1>3, FS_Union
<1>6. Cardinality(A \cap B) = 0 /\ Cardinality(A \cup B) = Cardinality(Slots(P, f))
  BY <1>2, FS_EmptySet
<1> DEFINE a == Cardinality(A)
           b == Cardinality(B)
           c == Cardinality(A \cap B)
           d == Cardinality(A \cup B)
<1> HIDE DEF a, b, c, d
<1>7. a \in Nat /\ b \in Nat /\ d = a + b - c /\ c = 0
  BY <1>4, <1>5, <1>6 DEF a, b, c, d
<1>8. d = b + a
  BY <1>7
<1> QED BY <1>4, <1>6, <1>8 DEF A, B, a, b, d

(* The references of a space t are forgotten: they go on being counted.    *)
LEMMA Forgotten ==
    ASSUME NEW m, NEW P, NEW T, NEW S, NEW l, Accounted(m, P, T, S, l), NEW t \in Space,
           NEW Q, Q = [e \in PageSlot |-> IF e \in {t} \X Page THEN NoFrame ELSE P[e]],
           NEW U, U = [e \in TableSlot |-> IF e \in {t} \X Table THEN NoFrame ELSE T[e]],
           NEW n, \A f \in Frame : n[f] = Cardinality(From(P, {t} \X Page, f))
                                       + Cardinality(From(T, {t} \X Table, f)),
           NEW k, k = [f \in Frame |-> IF l[f] + n[f] > MaxRef THEN MaxRef ELSE l[f] + n[f]],
           NEW V, \A d \in PageSlot : d \notin {t} \X Page /\ d \in S => d \in V
    PROVE  Accounted(m, Q, U, V, k)
<1>1. Maps(P, T, l) /\ m \in Memory /\ Tallied(m, Tally(P, T, l)) /\ Exclusive(P, T, S)
  BY DEF Accounted
<1>2. {t} \X Page \subseteq PageSlot /\ {t} \X Table \subseteq TableSlot
  BY DEF PageSlot, TableSlot
<1>3. ASSUME NEW f \in Frame
      PROVE  /\ Cardinality(From(P, {t} \X Page, f)) \in Nat
             /\ Cardinality(Slots(P, f)) = Cardinality(Slots(Q, f))
                   + Cardinality(From(P, {t} \X Page, f))
  <2> DEFINE W == Frame \cup {NoFrame}
             E == {t} \X Page
  <2>1. P \in [PageSlot -> W] /\ f \in W /\ f # NoFrame /\ E \in SUBSET PageSlot
        /\ Q = [e \in PageSlot |-> IF e \in E THEN NoFrame ELSE P[e]]
    BY <1>1, <1>2, FrameFacts DEF Maps
  <2> HIDE DEF W, E
  <2>2. /\ Cardinality(From(P, E, f)) \in Nat
        /\ Cardinality(Slots(P, f)) = Cardinality(Slots(Q, f))
                   + Cardinality(From(P, E, f))
    BY <2>1, SlotSetsFinite, SlotsApart
  <2> QED BY <2>2 DEF E
<1>4. ASSUME NEW f \in Frame
      PROVE  /\ Cardinality(From(T, {t} \X Table, f)) \in Nat
             /\ Cardinality(Slots(T, f)) = Cardinality(Slots(U, f))
                   + Cardinality(From(T, {t} \X Table, f))
  <2> DEFINE W == Frame \cup {NoFrame}
             E == {t} \X Table
  <2>1. T \in [TableSlot -> W] /\ f \in W /\ f # NoFrame /\ E \in SUBSET TableSlot
        /\ U = [e \in TableSlot |-> IF e \in E THEN NoFrame ELSE T[e]]
    BY <1>1, <1>2, FrameFacts DEF Maps
  <2> HIDE DEF W, E
  <2>2. /\ Cardinality(From(T, E, f)) \in Nat
        /\ Cardinality(Slots(T, f)) = Cardinality(Slots(U, f))
                   + Cardinality(From(T, E, f))
    BY <2>1, SlotSetsFinite, SlotsApart
  <2> QED BY <2>2 DEF E
<1>5. ASSUME NEW f \in Frame
      PROVE  n[f] \in Nat /\ l[f] \in 0 .. MaxRef
  <2> DEFINE a == Cardinality(From(P, {t} \X Page, f))
             b == Cardinality(From(T, {t} \X Table, f))
  <2>1. a \in Nat /\ b \in Nat /\ n[f] = a + b
    BY <1>3, <1>4
  <2> HIDE DEF a, b
  <2> QED BY <2>1, <1>1 DEF Maps
<1>6. Maps(Q, U, k)
  <2>1. k \in [Frame -> 0 .. MaxRef]
    BY <1>5, FrameFacts
  <2> QED BY <1>1, <2>1 DEF Maps
<1>7. ASSUME NEW f \in Frame
      PROVE  m.ref_counts[f] = MaxRef \/ m.ref_counts[f] = Tally(Q, U, k)[f]
  <2> DEFINE x == Tally(P, T, l)[f]
             y == Tally(Q, U, k)[f]
             p == Cardinality(Slots(P, f))
             q == Cardinality(Slots(Q, f))
             r == Cardinality(Slots(T, f))
             u == Cardinality(Slots(U, f))
             a == Cardinality(From(P, {t} \X Page, f))
             b == Cardinality(From(T, {t} \X Table, f))
             o == l[f]
             z == k[f]
             c == ConsoleRefs(f)
             i == m.ref_counts[f]
  <2>1. x = p + r + o + c /\ p \in Nat /\ r \in Nat /\ o \in Nat /\ c \in Nat
    BY <1>1, TallyFacts
  <2>2. y = q + u + z + c /\ q \in Nat /\ u \in Nat /\ z \in Nat
    BY <1>6, TallyFacts
  <2>3. p = q + a /\ r = u + b /\ a \in Nat /\ b \in Nat
    BY <1>3, <1>4
  <2>4. z = IF o + (a + b) > MaxRef THEN MaxRef ELSE o + (a + b)
    OBVIOUS
  <2>5. i \in 0 .. MaxRef /\ (i = MaxRef \/ i = x)
    BY <1>1 DEF Tallied, Memory
  <2> HIDE DEF x, y, p, q, r, u, a, b, o, z, c, i
  <2>6. i = MaxRef \/ i = y
    BY <2>1, <2>2, <2>3, <2>4, <2>5, FrameFacts
  <2> QED BY <2>6 DEF i, y
<1>8. Tallied(m, Tally(Q, U, k))
  BY <1>1, <1>7 DEF Tallied
<1>9. \A d \in PageSlot : Q[d] # NoFrame => Q[d] = P[d] /\ (d \in S => d \in V)
  OBVIOUS
<1>10. \A d \in TableSlot : U[d] = NoFrame \/ U[d] = T[d]
  OBVIOUS
<1>11. Exclusive(Q, U, V)
  BY <1>1, <1>9, <1>10, FrameFacts DEF Exclusive
<1> QED BY <1>1, <1>6, <1>8, <1>11 DEF Accounted

-----------------------------------------------------------------------------
(* The inductive invariant.                                                *)

(* What the page tables and page directories of the spaces refer to.       *)
RefOf(u, v) == IF v \in PageRefs(u) THEN pte[u][v] ELSE NoFrame
PageSlots == [e \in PageSlot |-> RefOf(e[1], e[2])]
TableSlots == [e \in TableSlot |-> pde[e[1]][e[2]]]
SharedSlots == {e \in PageSlot : e[2] \in shared[e[1]]}

Frames == Accounted(mem, PageSlots, TableSlots, SharedSlots, lost)

FreeList(s) ==
    /\ FreeListOf(ranges[s], NPages)
    /\ FreePages(ranges[s]) \cap Mapped(s) = Headers(ranges[s])
    /\ FreePages(ranges[s]) \cap user[s] = {}
    /\ user[s] \subseteq Mapped(s)
    /\ Headers(ranges[s]) \cap shared[s] = {}

(* The pages that a mmap() or munmap() is about.                           *)
ReqPages(s) == Pages(req[s].addr, req[s].n)
Asked(s) == req[s].n > 0 /\ (req[s].kind = "framebuffer" => req[s].n <= NDevice)
Held(s) == /\ ReqPages(s) \subseteq Page
           /\ ReqPages(s) \cap FreePages(ranges[s]) = {}
           /\ todo[s] \subseteq ReqPages(s)
           /\ req[s].n > 0

(* A space that exec() is making.                                          *)
Fresh(s) == shared[s] = {} /\ user[s] = {} /\ todo[s] \cap Mapped(s) = {}

HasTables(s) == \A v \in Mapped(s) : pde[s][TableOf(v)] # NoFrame

(* What a space is like at each point of a call of its owner.              *)
Local(s) ==
    /\ shared[s] \subseteq Mapped(s)
    /\ pc[s] # "destroy_tables" => HasTables(s)
    /\ HasFreeList(s) => FreeList(s)
    /\ pc[s] = "unused" => /\ pde[s] = NoTables /\ pte[s] = NoPages
                           /\ user[s] = {} /\ todo[s] = {}
    /\ pc[s] = "mmap_alloc" => Asked(s)
    /\ pc[s] = "mmap_map" =>
          /\ Held(s) /\ Asked(s)
          /\ \A v \in ReqPages(s) : v \in todo[s] <=> v \notin Mapped(s)
    /\ pc[s] \in {"unmap", "munmap_free"} =>
          /\ Held(s) /\ ReqPages(s) \cap user[s] = {}
          /\ \A v \in ReqPages(s) : v \in todo[s] <=> v \in Mapped(s)
    /\ pc[s] = "munmap_free" => todo[s] = {}
    /\ pc[s] = "exec_load" =>
          Fresh(s) /\ Mapped(s) \cup todo[s] \subseteq Pages(0, ImagePages)
    /\ pc[s] = "exec_init" =>
          /\ Fresh(s) /\ todo[s] \subseteq {ImagePages}
          /\ Mapped(s) \subseteq Pages(0, ImagePages + 1)
          /\ ImagePages \in todo[s] \cup Mapped(s)
    /\ pc[s] = "exec_map_stack" =>
          todo[s] \cap (Mapped(s) \cup FreePages(ranges[s])) = {}
    /\ pc[s] = "destroy" => todo[s] \subseteq Mapped(s)
    /\ pc[s] = "destroy_tables" => todo[s] = {}

(* The two spaces of a fork() or exec().                                   *)
Building == {"exec_load", "exec_init", "exec_stack", "exec_map_stack"}
Going == {"destroy", "destroy_tables"}
Coupled == {"fork", "clone", "fork_done", "exec", "exec_done"}

Paired(s, t) ==
    /\ t \in Space /\ peer[t] = s /\ t # s
    /\ \/ pc[s] = "fork" /\ pc[t] \in {"clone", "fork_done"}
       \/ pc[s] \in {"clone", "fork_done"} /\ pc[t] = "fork"
       \/ pc[s] = "exec" /\ pc[t] \in Building \cup Going
       \/ pc[s] \in Building \cup Going /\ pc[t] = "exec"
       \/ pc[s] = "exec_done" /\ pc[t] \in Going
       \/ pc[s] \in Going /\ pc[t] = "exec_done"
Pair(s) == \/ peer[s] = NoSpace /\ pc[s] \notin Coupled
           \/ Paired(s, peer[s])

(* How far the copy t of a space is.                                       *)
Cloned(t) == pc[t] = "clone" =>
    /\ todo[t] \cap Mapped(t) = {}
    /\ todo[t] \cup Mapped(t)
          = {v \in Mapped(peer[t]) : pde[t][TableOf(v)] # NoFrame}
    /\ shared[t] \subseteq shared[peer[t]]
    /\ shared[peer[t]] \cap Mapped(t) \subseteq shared[t]

Quick ==
    /\ quickmap_lock # NoSpace => /\ pc[quickmap_lock] = "fork"
                                  /\ pc[peer[quickmap_lock]] = "clone"
    /\ quickmapped # NoFrame => /\ quickmap_lock # NoSpace
                                /\ todo[peer[quickmap_lock]] # {}

Sound(s) == Local(s) /\ Pair(s) /\ Cloned(s)
Inv == TypeOK /\ Frames /\ Quick /\ \A s \in Space : Sound(s)

-----------------------------------------------------------------------------
(* Steps.                                                                  *)

(* A step leaves space u alone.                                            *)
Kept(u) == /\ pde'[u] = pde[u] /\ pte'[u] = pte[u] /\ shared'[u] = shared[u]
           /\ ranges'[u] = ranges[u] /\ user'[u] = user[u]
           /\ pc'[u] = pc[u] /\ todo'[u] = todo[u] /\ req'[u] = req[u]

(* What is mapped depends on pte alone.                                    *)
LEMMA MappedKept ==
    ASSUME NEW u, pte'[u] = pte[u]
    PROVE  Mapped(u)' = Mapped(u)
  BY DEF Mapped

(* A space that a step leaves alone stays sound.                           *)
LEMMA LocalKept ==
    ASSUME NEW u \in Space, Kept(u), Local(u)
    PROVE  Local(u)'
<1>1. Mapped(u)' = Mapped(u)
  BY MappedKept DEF Kept
<1>2. HasTables(u)' <=> HasTables(u)
  BY <1>1 DEF HasTables, Kept
<1>3. FreeList(u)' <=> FreeList(u)
  BY <1>1 DEF FreeList, Kept
<1>4. ReqPages(u)' = ReqPages(u)
  BY DEF ReqPages, Kept
<1>5. (Held(u)' <=> Held(u)) /\ (Asked(u)' <=> Asked(u))
  BY <1>4 DEF Held, Asked, Kept
<1>6. Fresh(u)' <=> Fresh(u)
  BY <1>1 DEF Fresh, Kept
<1>7. HasFreeList(u)' <=> HasFreeList(u)
  BY DEF HasFreeList, Kept
<1> QED BY <1>1, <1>2, <1>3, <1>4, <1>5, <1>6, <1>7 DEF Local, Kept

(* Its references stay what they were.                                     *)
LEMMA RefsKept ==
    ASSUME NEW u \in Space, pte'[u] = pte[u], pc'[u] = pc[u], todo'[u] = todo[u], NEW w \in Page
    PROVE  RefOf(u, w)' = RefOf(u, w)
<1>1. Mapped(u)' = Mapped(u)
  BY MappedKept
<1> QED BY <1>1 DEF RefOf, PageRefs

(* What a page refers to, by where the owner of its space is.              *)
LEMMA RefFacts ==
    ASSUME NEW u \in Space, NEW w \in Page
    PROVE  /\ pc[u] \notin Going => RefOf(u, w) = pte[u][w]
           /\ pc[u] = "destroy" => RefOf(u, w) = IF w \in todo[u] THEN pte[u][w] ELSE NoFrame
           /\ pc[u] = "destroy_tables" => RefOf(u, w) = NoFrame
  BY DEF RefOf, PageRefs, Mapped, Going

(* The same after a step.                                                  *)
LEMMA RefFactsPrimed ==
    ASSUME NEW u \in Space, NEW w \in Page
    PROVE  /\ pc'[u] \notin Going => RefOf(u, w)' = pte'[u][w]
           /\ pc'[u] = "destroy" => RefOf(u, w)' = IF w \in todo'[u] THEN pte'[u][w] ELSE NoFrame
           /\ pc'[u] = "destroy_tables" => RefOf(u, w)' = NoFrame
  BY DEF RefOf, PageRefs, Mapped, Going

(* One page comes to refer to f.                                           *)
LEMMA PageSlotPut ==
    ASSUME NEW s \in Space, NEW v \in Page, NEW f,
           \A u \in Space, w \in Page :
              RefOf(u, w)' = IF u = s /\ w = v THEN f ELSE RefOf(u, w)
    PROVE  PageSlots' = Put(PageSlots, <<s, v>>, f)
<1>1. \A e \in PageSlot : e[1] \in Space /\ e[2] \in Page /\ e = <<e[1], e[2]>>
  BY DEF PageSlot
<1>2. PageSlots' = [e \in PageSlot |-> RefOf(e[1], e[2])']
  BY DEF PageSlots
<1>3. \A e \in PageSlot : RefOf(e[1], e[2])' = IF e = <<s, v>> THEN f ELSE RefOf(e[1], e[2])
  BY <1>1
<1> QED BY <1>2, <1>3 DEF PageSlots, Put

(* No page comes to refer to anything else.                                *)
LEMMA PageSlotsSame ==
    ASSUME \A u \in Space, w \in Page : RefOf(u, w)' = RefOf(u, w)
    PROVE  PageSlots' = PageSlots
<1>1. \A e \in PageSlot : e[1] \in Space /\ e[2] \in Page
  BY DEF PageSlot
<1>2. PageSlots' = [e \in PageSlot |-> RefOf(e[1], e[2])']
  BY DEF PageSlots
<1> QED BY <1>1, <1>2 DEF PageSlots

(* A copy under way stays sound when a step leaves both spaces alone.      *)
LEMMA ClonedKept ==
    ASSUME NEW t \in Space, Cloned(t), Kept(t), peer'[t] = peer[t],
           pc[t] = "clone" => Kept(peer[t])
    PROVE  Cloned(t)'
<1> SUFFICES ASSUME pc[t] = "clone"
             PROVE  Cloned(t)'
  BY DEF Cloned, Kept
<1>1. Mapped(t)' = Mapped(t)
  BY MappedKept DEF Kept
<1> DEFINE s == peer[t]
<1>2. Mapped(s)' = Mapped(s) /\ shared'[s] = shared[s]
  BY MappedKept DEF Kept
<1>3. Mapped(peer[t])' = Mapped(s)
  <2>1. Mapped(peer[t])' = {v \in Page : pte'[s][v] # NoFrame}
    BY DEF Mapped
  <2> QED BY <2>1 DEF Kept, Mapped
<1>4. pde'[t] = pde[t] /\ todo'[t] = todo[t] /\ shared'[t] = shared[t]
  BY DEF Kept
<1> QED BY <1>1, <1>2, <1>3, <1>4 DEF Cloned

(* A step of the owner of s, that is not in the middle of a fork(), leaves *)
(* the other spaces alone and stays in its role.                           *)
Moves(s) ==
    \/ pc'[s] = pc[s]
    \/ pc[s] \in Building /\ pc'[s] \in Building
    \/ pc[s] \in Building \cup Going /\ pc'[s] \in Going
    \/ peer[s] = NoSpace /\ pc'[s] \notin Coupled

(* A step of one space, with its frames accounted for, keeps the           *)
(* invariant.                                                              *)
LEMMA SoloStep ==
    ASSUME Inv, TypeOK', Frames', NEW s \in Space, \A u \in Space : u # s => Kept(u),
           Local(s)', peer' = peer, UNCHANGED quick, Moves(s),
           pc[s] \notin {"fork", "clone"}, pc'[s] \notin {"fork", "clone"}
    PROVE  Inv'
<1>1. \A u \in Space : Local(u) /\ Pair(u) /\ Cloned(u)
  BY DEF Inv, Sound
<1>2. ASSUME NEW u \in Space
      PROVE  Local(u)'
  BY <1>1, LocalKept
<1>3. \A u \in Space : u # s => pc'[u] = pc[u]
  BY DEF Kept
<1>4. ASSUME NEW u \in Space
      PROVE  Pair(u)'
  <2>1. CASE peer[u] = NoSpace /\ pc[u] \notin Coupled
    <3>1. peer'[u] = NoSpace
      BY <2>1
    <3>2. pc'[u] \notin Coupled
      BY <2>1, <1>3 DEF Moves, Building, Going, Coupled
    <3> QED BY <3>1, <3>2 DEF Pair
  <2>2. CASE Paired(u, peer[u])
    <3> DEFINE t == peer[u]
    <3>1. t \in Space /\ peer[t] = u /\ t # u /\ peer[u] # NoSpace /\ peer[t] # NoSpace
      BY <2>2, SpaceAssumption DEF Paired
    <3>2. Paired(u, t)'
      BY <2>2, <3>1, <1>3 DEF Paired, Moves, Building, Going, Coupled
    <3> QED BY <3>2 DEF Pair
  <2> QED BY <1>1, <2>1, <2>2 DEF Pair
<1>5. ASSUME NEW u \in Space
      PROVE  Cloned(u)'
  <2>1. CASE u = s
    BY <2>1 DEF Cloned
  <2>2. CASE u # s
    <3>1. pc[u] = "clone" => peer[u] \in Space /\ peer[u] # s
      BY <1>1 DEF Pair, Paired, Coupled, Building, Going
    <3> QED BY <2>2, <3>1, <1>1, ClonedKept
  <2> QED BY <2>1, <2>2
<1>6. Quick'
  <2>1. quickmap_lock' = quickmap_lock /\ quickmapped' = quickmapped
    BY DEF quick
  <2>2. CASE quickmap_lock = NoSpace
    BY <2>1, <2>2 DEF Inv, Quick
  <2>3. CASE quickmap_lock # NoSpace
    <3> DEFINE q == quickmap_lock
               t == peer[q]
    <3>1. q \in Space /\ pc[q] = "fork" /\ pc[t] = "clone"
      BY <2>3 DEF Inv, Quick, TypeOK
    <3>2. t \in Space
      BY <3>1, <1>1 DEF Pair, Paired, Coupled
    <3>3. q # s /\ t # s /\ Kept(t) /\ Kept(q)
      BY <3>1, <3>2
    <3> QED BY <2>1, <2>3, <3>1, <3>3 DEF Inv, Quick, Kept
  <2> QED BY <2>2, <2>3
<1> QED BY <1>2, <1>4, <1>5, <1>6 DEF Inv, Sound

(* A step that changes nothing, or only fails an assertion.                *)
LEMMA NothingMoves ==
    ASSUME Inv, UNCHANGED <<mem, tables, lists, calls, quick, lost>>, panic' \in {"no", "ranges", "bitmap"}
    PROVE  Inv'
<1>1. TypeOK'
  BY DEF Inv, TypeOK, tables, lists, calls, quick, Memory
<1>2. \A u \in Space : Kept(u)
  BY DEF Kept, tables, lists, calls
<1>3. peer' = peer /\ quickmap_lock' = quickmap_lock /\ quickmapped' = quickmapped
      /\ pc' = pc /\ todo' = todo /\ mem' = mem /\ lost' = lost /\ pde' = pde /\ shared' = shared
      /\ pte' = pte
  BY DEF quick, calls, tables
<1>4. ASSUME NEW u \in Space
      PROVE  Sound(u)'
  <2>1. Local(u) /\ Pair(u) /\ Cloned(u)
    BY DEF Inv, Sound
  <2>2. Local(u)'
    BY <1>2, <2>1, LocalKept
  <2>3. Pair(u)'
    BY <1>3, <2>1 DEF Pair, Paired
  <2>4. Cloned(u)'
    <3>1. pc[u] = "clone" => Kept(peer[u])
      BY <2>1, <1>2 DEF Pair, Paired, Coupled
    <3> QED BY <1>2, <1>3, <2>1, <3>1, ClonedKept
  <2> QED BY <2>2, <2>3, <2>4 DEF Sound
<1>5. Frames'
  <2>1. PageSlots' = PageSlots
    BY <1>3, RefsKept, PageSlotsSame
  <2>2. TableSlots' = TableSlots /\ SharedSlots' = SharedSlots
    BY <1>3 DEF TableSlots, SharedSlots
  <2> QED BY <1>3, <2>1, <2>2 DEF Frames, Inv
<1>6. Quick'
  BY <1>3 DEF Inv, Quick
<1> QED BY <1>1, <1>4, <1>5, <1>6 DEF Inv

-----------------------------------------------------------------------------
(* Frames and the functions that the entries are in.                       *)
LEMMA SharedPut ==
    ASSUME NEW s \in Space, NEW v \in Page, shared \in [Space -> SUBSET Page],
           \/ shared' = shared
           \/ shared' = [shared EXCEPT ![s] = @ \cup {v}]
           \/ shared' = [shared EXCEPT ![s] = @ \ {v}]
    PROVE  /\ SharesBut(PageSlots, SharedSlots, SharedSlots', <<s, v>>)
           /\ shared' = [shared EXCEPT ![s] = @ \cup {v}] => <<s, v>> \in SharedSlots'
           /\ shared' \in [Space -> SUBSET Page]
           /\ \A u \in Space : u # s => shared'[u] = shared[u]
<1>1. SharedSlots' = {e \in PageSlot : e[2] \in shared'[e[1]]}
  BY DEF SharedSlots
<1>2. \A e \in PageSlot : e[1] \in Space /\ e[2] \in Page /\ e = <<e[1], e[2]>>
  BY DEF PageSlot
<1>3. ASSUME NEW d \in PageSlot, d # <<s, v>>, d \in SharedSlots
      PROVE  d \in SharedSlots'
  <2> DEFINE a == d[1]
             b == d[2]
  <2>1. a \in Space /\ b \in Page /\ d = <<a, b>> /\ b \in shared[a] /\ (a # s \/ b # v)
    BY <1>2, <1>3 DEF SharedSlots
  <2> HIDE DEF a, b
  <2>2. b \in shared'[a]
    BY <2>1
  <2> QED BY <1>1, <2>2 DEF a, b
<1>4. <<s, v>> \in PageSlot
  BY DEF PageSlot
<1>5. shared' = [shared EXCEPT ![s] = @ \cup {v}] => <<s, v>> \in SharedSlots'
  BY <1>1, <1>4
<1> QED BY <1>3, <1>5 DEF SharesBut

(* One page directory entry comes to refer to f.                           *)
LEMMA TableSlotPut ==
    ASSUME NEW s \in Space, NEW k \in Table, NEW f, f \in RAM \cup {NoFrame},
           pde \in [Space -> [Table -> RAM \cup {NoFrame}]],
           pde' = [pde EXCEPT ![s][k] = f]
    PROVE  /\ TableSlots' = Put(TableSlots, <<s, k>>, f) /\ <<s, k>> \in TableSlot
           /\ TableSlots[<<s, k>>] = pde[s][k]
           /\ pde' \in [Space -> [Table -> RAM \cup {NoFrame}]]
           /\ \A u \in Space : u # s => pde'[u] = pde[u]
           /\ \A l \in Table : pde'[s][l] = IF l = k THEN f ELSE pde[s][l]
<1>1. \A e \in TableSlot : e[1] \in Space /\ e[2] \in Table /\ e = <<e[1], e[2]>>
  BY DEF TableSlot
<1>2. /\ \A u \in Space : u # s => pde'[u] = pde[u]
      /\ \A l \in Table : pde'[s][l] = IF l = k THEN f ELSE pde[s][l]
      /\ pde' \in [Space -> [Table -> RAM \cup {NoFrame}]]
  OBVIOUS
<1>3. TableSlots' = [e \in TableSlot |-> pde'[e[1]][e[2]]]
  BY DEF TableSlots
<1>4. <<s, k>> \in TableSlot /\ TableSlots[<<s, k>>] = pde[s][k]
  BY DEF TableSlot, TableSlots
<1>5. ASSUME NEW e \in TableSlot
      PROVE  pde'[e[1]][e[2]] = IF e = <<s, k>> THEN f ELSE pde[e[1]][e[2]]
  <2> DEFINE a == e[1]
             b == e[2]
  <2>1. a \in Space /\ b \in Table /\ (e = <<s, k>> <=> a = s /\ b = k)
    BY <1>1
  <2> HIDE DEF a, b
  <2>2. pde'[a][b] = IF a = s /\ b = k THEN f ELSE pde[a][b]
    BY <1>2, <2>1
  <2> QED BY <2>1, <2>2 DEF a, b
<1>6. TableSlots' = Put(TableSlots, <<s, k>>, f)
  BY <1>3, <1>5 DEF TableSlots, Put
<1> QED BY <1>2, <1>4, <1>6

(* Every page has a page table.                                            *)
LEMMA TableOfPage == \A v \in Page : TableOf(v) \in Table
  BY DEF Table

(* A page table is there when a page is mapped, and only added to.         *)
Grown(s) == /\ pde' \in [Space -> [Table -> RAM \cup {NoFrame}]]
            /\ \A u \in Space : u # s => pde'[u] = pde[u]
            /\ \A k \in Table : pde[s][k] # NoFrame => pde'[s][k] # NoFrame

(* get_or_create_page_table() keeps the frames accounted for.              *)
LEMMA TableAdded ==
    ASSUME TypeOK, Frames, NEW s \in Space, NEW v \in Page, ~TableFails(s, v), AddTable(s, v)
    PROVE  /\ Accounted(WithTable(s, v), PageSlots, TableSlots', SharedSlots, lost)
           /\ Grown(s) /\ pde'[s][TableOf(v)] # NoFrame
<1> DEFINE k == TableOf(v)
<1>1. k \in Table /\ pde \in [Space -> [Table -> RAM \cup {NoFrame}]]
  BY TableOfPage DEF TypeOK
<1>2. CASE ~NeedsTable(s, v)
  <2>1. pde' = pde /\ WithTable(s, v) = mem /\ pde[s][k] # NoFrame
    BY <1>2 DEF AddTable, WithTable, NeedsTable
  <2>2. TableSlots' = TableSlots
    BY <2>1 DEF TableSlots
  <2> QED BY <1>1, <2>1, <2>2 DEF Frames, Grown
<1>3. CASE NeedsTable(s, v)
  <2> DEFINE f == bitmap_find_first_set(mem)
             e == <<s, k>>
  <2> HIDE DEF k
  <2>1. /\ pde[s][k] = NoFrame /\ ~Exhausted(mem) /\ WithTable(s, v) = page_allocator_alloc(mem)
        /\ pde' = [pde EXCEPT ![s][k] = f]
    BY <1>3 DEF AddTable, WithTable, NeedsTable, TableFails, k
  <2>2. f \in RAM
    BY <2>1, FirstIsFree DEF Frames
  <2> HIDE DEF f
  <2>3. /\ TableSlots' = Put(TableSlots, e, f) /\ e \in TableSlot
        /\ TableSlots[e] = pde[s][k]
        /\ pde' \in [Space -> [Table -> RAM \cup {NoFrame}]]
        /\ \A u \in Space : u # s => pde'[u] = pde[u]
        /\ \A l \in Table : pde'[s][l] = IF l = k THEN f ELSE pde[s][l]
    BY <1>1, <2>1, <2>2, TableSlotPut
  <2>4. f # NoFrame
    BY <2>2, FrameFacts
  <2>5. Grown(s) /\ pde'[s][k] # NoFrame
    BY <1>1, <2>3, <2>4 DEF Grown
  <2> HIDE DEF e
  <2>6. Accounted(page_allocator_alloc(mem), PageSlots, TableSlots', SharedSlots, lost)
    BY <2>1, <2>3, TableDrawn DEF Frames, f
  <2> QED BY <2>1, <2>5, <2>6 DEF k
<1> QED BY <1>2, <1>3

(* When tables are only added, mapped pages keep theirs.                   *)
LEMMA TablesKept ==
    ASSUME NEW s \in Space, HasTables(s), Grown(s), pte'[s] = pte[s]
    PROVE  HasTables(s)'
<1>1. Mapped(s)' = Mapped(s) /\ Mapped(s) \subseteq Page
  BY MappedKept DEF Mapped
<1> QED BY <1>1, TableOfPage DEF HasTables, Grown

(* A space that is to be destroyed, from any other point.                  *)
LEMMA DestroyStep ==
    ASSUME TypeOK, NEW s \in Space, Local(s), pc[s] \notin Going, Destroy(s),
           pte'[s] = pte[s], shared'[s] = shared[s], Grown(s)
    PROVE  /\ Local(s)' /\ \A w \in Page : RefOf(s, w)' = RefOf(s, w)
           /\ pc' \in [Space -> PCs] /\ todo' \in [Space -> SUBSET Page]
           /\ pc'[s] = "destroy"
           /\ \A u \in Space : u # s => pc'[u] = pc[u] /\ todo'[u] = todo[u]
<1>1. Mapped(s)' = Mapped(s) /\ Mapped(s) \subseteq Page
  BY MappedKept DEF Mapped
<1>2. /\ pc' \in [Space -> PCs] /\ todo' \in [Space -> SUBSET Page]
      /\ pc'[s] = "destroy" /\ todo'[s] = Mapped(s)
      /\ \A u \in Space : u # s => pc'[u] = pc[u] /\ todo'[u] = todo[u]
  BY <1>1 DEF TypeOK, Destroy, Goto, PCs
<1>3. HasTables(s)'
  BY TablesKept DEF Local, Going
<1>4. Local(s)'
  BY <1>1, <1>2, <1>3 DEF Local, HasFreeList
<1>5. \A w \in Page : RefOf(s, w)' = RefOf(s, w)
  BY <1>1, <1>2, RefFacts, RefFactsPrimed DEF Mapped
<1> QED BY <1>2, <1>4, <1>5

(* A call that returns, and leaves the mappings and the free list alone.   *)
LEMMA UserStep ==
    ASSUME TypeOK, NEW s \in Space, Local(s), HasFreeList(s), pc'[s] = "user",
           pte'[s] = pte[s], shared'[s] = shared[s], ranges'[s] = ranges[s],
           user'[s] = user[s], Grown(s)
    PROVE  Local(s)' /\ \A w \in Page : RefOf(s, w)' = RefOf(s, w)
<1>1. Mapped(s)' = Mapped(s)
  BY MappedKept
<1>2. HasTables(s)'
  BY TablesKept DEF Local, HasFreeList
<1>3. FreeList(s)'
  BY <1>1 DEF Local, FreeList
<1>4. Local(s)'
  BY <1>1, <1>2, <1>3 DEF Local, HasFreeList
<1>5. \A w \in Page : RefOf(s, w)' = RefOf(s, w)
  BY RefFacts, RefFactsPrimed DEF HasFreeList, Going
<1> QED BY <1>4, <1>5

(* The mappings after a page was mapped or unmapped.                       *)
LEMMA PteAfter ==
    ASSUME TypeOK, NEW s \in Space, NEW v \in Page, NEW f \in Frame \cup {NoFrame},
           pte' = [pte EXCEPT ![s][v] = f]
    PROVE  /\ pte' \in [Space -> [Page -> Frame \cup {NoFrame}]]
           /\ \A u \in Space : u # s => pte'[u] = pte[u]
           /\ \A w \in Page : pte'[s][w] = IF w = v THEN f ELSE pte[s][w]
           /\ Mapped(s)' = IF f = NoFrame THEN Mapped(s) \ {v} ELSE Mapped(s) \cup {v}
<1>1. pte \in [Space -> [Page -> Frame \cup {NoFrame}]]
  BY DEF TypeOK
<1>2. /\ pte' \in [Space -> [Page -> Frame \cup {NoFrame}]]
      /\ \A u \in Space : u # s => pte'[u] = pte[u]
      /\ \A w \in Page : pte'[s][w] = IF w = v THEN f ELSE pte[s][w]
  BY <1>1
<1>3. Mapped(s)' = {w \in Page : pte'[s][w] # NoFrame}
  BY DEF Mapped
<1>4. Mapped(s)' = IF f = NoFrame THEN Mapped(s) \ {v} ELSE Mapped(s) \cup {v}
  BY <1>2, <1>3 DEF Mapped
<1> QED BY <1>2, <1>4

(* The entry of one page of s changes, none of another space.              *)
LEMMA SlotsAfter ==
    ASSUME TypeOK, NEW s \in Space, NEW v \in Page, NEW f \in Frame \cup {NoFrame},
           pte' = [pte EXCEPT ![s][v] = f], pc[s] \notin Going, pc'[s] \notin Going,
           \A u \in Space : u # s => pc'[u] = pc[u] /\ todo'[u] = todo[u]
    PROVE  /\ PageSlots' = Put(PageSlots, <<s, v>>, f) /\ <<s, v>> \in PageSlot
           /\ PageSlots[<<s, v>>] = pte[s][v]
<1>0. /\ \A u \in Space : u # s => pte'[u] = pte[u]
      /\ \A w \in Page : pte'[s][w] = IF w = v THEN f ELSE pte[s][w]
  BY PteAfter
<1>1. ASSUME NEW u \in Space, NEW w \in Page
      PROVE  RefOf(u, w)' = IF u = s /\ w = v THEN f ELSE RefOf(u, w)
  <2>1. CASE u = s
    <3>1. RefOf(s, w) = pte[s][w] /\ RefOf(s, w)' = pte'[s][w]
      BY RefFacts, RefFactsPrimed
    <3> QED BY <1>0, <2>1, <3>1
  <2>2. CASE u # s
    BY <1>0, <2>2, RefsKept
  <2> QED BY <2>1, <2>2
<1>2. <<s, v>> \in PageSlot /\ PageSlots[<<s, v>>] = pte[s][v]
  BY RefFacts DEF PageSlot, PageSlots
<1> QED BY <1>1, <1>2, PageSlotPut

(* Nothing is mapped or unmapped.                                          *)
LEMMA SameSlots ==
    ASSUME NEW s \in Space, \A w \in Page : RefOf(s, w)' = RefOf(s, w),
           \A u \in Space : u # s => pte'[u] = pte[u] /\ pc'[u] = pc[u] /\ todo'[u] = todo[u]
    PROVE  PageSlots' = PageSlots
  BY RefsKept, PageSlotsSame

(* One page less to do.                                                    *)
LEMMA DoneFacts ==
    ASSUME TypeOK, NEW s \in Space, NEW v, Done(s, v)
    PROVE  /\ todo' \in [Space -> SUBSET Page] /\ todo'[s] = todo[s] \ {v}
           /\ \A u \in Space : u # s => todo'[u] = todo[u]
  BY DEF TypeOK, Done

(* Only the owner of s moves on.                                           *)
LEMMA GotoFacts ==
    ASSUME TypeOK, NEW s \in Space, NEW l \in PCs, Goto(s, l)
    PROVE  /\ pc' \in [Space -> PCs] /\ pc'[s] = l
           /\ \A u \in Space : u # s => pc'[u] = pc[u]
  BY DEF TypeOK, Goto

(* A call that cannot get a page.                                          *)
LEMMA MapFailsStep ==
    ASSUME TypeOK, NEW s \in Space, Local(s), pc[s] \in Mapping, MapFails(s),
           pte' = pte, shared' = shared, ranges' = ranges, user' = user, Grown(s)
    PROVE  /\ Local(s)' /\ PageSlots' = PageSlots /\ SharedSlots' = SharedSlots
           /\ pc' \in [Space -> PCs] /\ todo' \in [Space -> SUBSET Page]
           /\ pc'[s] = IF pc[s] = "mmap_map" THEN "user" ELSE "destroy"
           /\ \A u \in Space : u # s => pc'[u] = pc[u] /\ todo'[u] = todo[u]
<1>1. SharedSlots' = SharedSlots
  BY DEF SharedSlots
<1>2. CASE pc[s] = "mmap_map"
  <2>1. Goto(s, "user") /\ todo' = [todo EXCEPT ![s] = {}] /\ HasFreeList(s)
    BY <1>2 DEF MapFails, HasFreeList
  <2>2. /\ pc' \in [Space -> PCs] /\ pc'[s] = "user"
        /\ \A u \in Space : u # s => pc'[u] = pc[u]
    BY <2>1, GotoFacts DEF PCs
  <2>3. /\ todo' \in [Space -> SUBSET Page]
        /\ \A u \in Space : u # s => todo'[u] = todo[u]
    BY <2>1 DEF TypeOK
  <2>4. Local(s)' /\ \A w \in Page : RefOf(s, w)' = RefOf(s, w)
    BY <2>1, <2>2, UserStep
  <2>5. PageSlots' = PageSlots
    BY <2>2, <2>3, <2>4, SameSlots
  <2> QED BY <1>1, <1>2, <2>2, <2>3, <2>4, <2>5
<1>3. CASE pc[s] # "mmap_map"
  <2>1. Destroy(s) /\ pc[s] \notin Going
    BY <1>3 DEF MapFails, Mapping, Going
  <2>2. /\ Local(s)' /\ \A w \in Page : RefOf(s, w)' = RefOf(s, w)
        /\ pc' \in [Space -> PCs] /\ todo' \in [Space -> SUBSET Page]
        /\ pc'[s] = "destroy"
        /\ \A u \in Space : u # s => pc'[u] = pc[u] /\ todo'[u] = todo[u]
    BY <2>1, DestroyStep
  <2>3. PageSlots' = PageSlots
    BY <2>2, SameSlots
  <2> QED BY <1>1, <1>3, <2>2, <2>3
<1> QED BY <1>2, <1>3

(* The types of what most steps change.                                    *)
LEMMA TypeAfter ==
    ASSUME TypeOK, mem' \in Memory, pde' \in [Space -> [Table -> RAM \cup {NoFrame}]],
           pte' \in [Space -> [Page -> Frame \cup {NoFrame}]],
           shared' \in [Space -> SUBSET Page], pc' \in [Space -> PCs],
           todo' \in [Space -> SUBSET Page],
           UNCHANGED <<lists, req, peer, quick, lost, panic>>
    PROVE  TypeOK'
<1>1. /\ ranges' = ranges /\ lock' = lock /\ user' = user
      /\ quickmap_lock' = quickmap_lock /\ quickmapped' = quickmapped
  BY DEF lists, quick
<1> QED BY <1>1 DEF TypeOK

(* The next page to map is not mapped and not free.                        *)
LEMMA MapsNew ==
    ASSUME TypeOK, NEW s \in Space, Local(s), pc[s] \in Mapping, NEW v \in Page, v \in todo[s]
    PROVE  pte[s][v] = NoFrame /\ v \notin Mapped(s)
<1>1. v \notin Mapped(s)
  <2>1. CASE pc[s] = "mmap_map"
    BY <2>1 DEF Local, Held
  <2>2. CASE pc[s] \in {"exec_load", "exec_init"}
    BY <2>2 DEF Local, Fresh
  <2>3. CASE pc[s] = "exec_map_stack"
    BY <2>3 DEF Local
  <2> QED BY <2>1, <2>2, <2>3 DEF Mapping
<1> QED BY <1>1 DEF Mapped

(* ... and afterwards it is.                                               *)
LEMMA MappedStep ==
    ASSUME TypeOK, NEW s \in Space, Local(s), pc[s] \in Mapping, NEW v \in Page, v \in todo[s],
           NEW f \in Frame, pte' = [pte EXCEPT ![s][v] = f], Grown(s),
           pde'[s][TableOf(v)] # NoFrame, Done(s, v), pc' = pc,
           ranges' = ranges, user' = user, req' = req,
           \/ shared'[s] = shared[s]
           \/ pc[s] = "mmap_map" /\ shared'[s] = shared[s] \cup {v}
    PROVE  Local(s)'
<1>0. f \in Frame \cup {NoFrame} /\ f # NoFrame
  BY FrameFacts
<1>1. Mapped(s)' = Mapped(s) \cup {v} /\ Mapped(s) \subseteq Page
  BY <1>0, PteAfter DEF Mapped
<1>2. todo'[s] = todo[s] \ {v}
  BY DoneFacts
<1>3. HasTables(s)'
  BY <1>1, TableOfPage DEF HasTables, Grown, Local, Mapping
<1>4. ReqPages(s)' = ReqPages(s)
  BY DEF ReqPages
<1>5. shared'[s] \subseteq Mapped(s)'
  BY <1>1 DEF Local
<1>6. CASE pc[s] = "mmap_map"
  <2>1. v \in ReqPages(s) /\ v \notin FreePages(ranges[s])
    BY <1>6 DEF Local, Held
  <2>2. FreeList(s)'
    BY <1>1, <2>1, <1>6 DEF Local, FreeList, HasFreeList
  <2>3. Held(s)' /\ Asked(s)'
    BY <1>2, <1>4, <1>6 DEF Local, Held, Asked
  <2>4. \A w \in ReqPages(s) : w \in todo'[s] <=> w \notin Mapped(s)'
    BY <1>1, <1>2, <1>6 DEF Local
  <2> QED BY <1>1, <1>2, <1>3, <1>4, <1>5, <1>6, <2>2, <2>3, <2>4 DEF Local, HasFreeList
<1>7. CASE pc[s] = "exec_load"
  BY <1>1, <1>2, <1>3, <1>5, <1>7 DEF Local, HasFreeList, Fresh
<1>8. CASE pc[s] = "exec_init"
  <2>1. ImagePages \in Pages(0, ImagePages + 1)
    BY PagesAssumption DEF Pages
  <2> QED BY <1>1, <1>2, <1>3, <1>5, <1>8, <2>1 DEF Local, HasFreeList, Fresh
<1>9. CASE pc[s] = "exec_map_stack"
  <2>1. v \notin FreePages(ranges[s])
    BY <1>9 DEF Local
  <2>2. FreeList(s)'
    BY <1>1, <2>1, <1>9 DEF Local, FreeList, HasFreeList
  <2> QED BY <1>1, <1>2, <1>3, <1>5, <1>9, <2>2 DEF Local, HasFreeList
<1> QED BY <1>6, <1>7, <1>8, <1>9 DEF Mapping

(* The invariant, of one space.                                            *)
LEMMA Parts ==
    ASSUME Inv, NEW s \in Space
    PROVE  TypeOK /\ Frames /\ Quick /\ Local(s) /\ Pair(s) /\ Cloned(s)
  BY DEF Inv, Sound

(* A process that makes no fork() or exec() has no second space.           *)
LEMMA Alone ==
    ASSUME Inv, NEW s \in Space,
           pc[s] \in {"unused", "user", "mmap_alloc", "mmap_map", "unmap", "munmap_free"}
    PROVE  peer[s] = NoSpace
  BY Parts DEF Pair, Paired, Building, Going

(* Nothing becomes shared.                                                 *)
LEMMA SharedSame ==
    ASSUME NEW e, shared' = shared
    PROVE  SharesBut(PageSlots, SharedSlots, SharedSlots', e)
  BY DEF SharedSlots, SharesBut

(* map_page_to_free_page() keeps the invariant.                            *)
LEMMA MapFreePage ==
    ASSUME Inv, NEW s \in Space, map_page_to_free_page(s)
    PROVE  Inv'
<1>1. PICK v \in Page :
        LET m == WithTable(s, v) IN
        /\ panic = "no" /\ pc[s] \in Mapping /\ Upcoming(s, v)
        /\ \/ /\ TableFails(s, v) /\ MapFails(s) /\ UNCHANGED <<mem, pde, pte, shared>>
           \/ /\ ~TableFails(s, v) /\ Exhausted(m) /\ mem' = m /\ AddTable(s, v) /\ MapFails(s)
              /\ UNCHANGED <<pte, shared>>
           \/ /\ ~TableFails(s, v) /\ ~Exhausted(m) /\ mem' = page_allocator_alloc(m)
              /\ AddTable(s, v)
              /\ pte' = [pte EXCEPT ![s][v] = bitmap_find_first_set(m)]
              /\ shared' = IF pc[s] = "mmap_map" /\ req[s].kind = "shared"
                           THEN [shared EXCEPT ![s] = @ \cup {v}] ELSE shared
              /\ Done(s, v) /\ UNCHANGED pc
        /\ UNCHANGED <<lists, req, peer, quick, lost, panic>>
  BY Zenon DEF map_page_to_free_page
<1> DEFINE m == WithTable(s, v)
<1>2. /\ TypeOK /\ Frames /\ Local(s) /\ v \in todo[s] /\ pc[s] \in Mapping
      /\ ranges' = ranges /\ user' = user /\ lock' = lock /\ req' = req /\ peer' = peer
      /\ lost' = lost /\ UNCHANGED quick /\ pc[s] \notin Going
      /\ UNCHANGED <<lists, req, peer, quick, lost, panic>>
  BY <1>1, Parts DEF Upcoming, lists, Mapping, Going
<1>3. /\ mem \in Memory /\ pde \in [Space -> [Table -> RAM \cup {NoFrame}]]
      /\ pte \in [Space -> [Page -> Frame \cup {NoFrame}]] /\ shared \in [Space -> SUBSET Page]
      /\ pc \in [Space -> PCs]
  BY <1>2 DEF TypeOK
<1>4. pc[s] \notin {"fork", "clone"} /\ (pc[s] = "mmap_map" => peer[s] = NoSpace)
  BY <1>2, Alone DEF Mapping
<1>5. ASSUME MapFails(s), pte' = pte, shared' = shared, Grown(s),
             Accounted(mem', PageSlots, TableSlots', SharedSlots, lost)
      PROVE  Inv'
  <2>1. /\ Local(s)' /\ PageSlots' = PageSlots /\ SharedSlots' = SharedSlots
        /\ pc' \in [Space -> PCs] /\ todo' \in [Space -> SUBSET Page]
        /\ pc'[s] = IF pc[s] = "mmap_map" THEN "user" ELSE "destroy"
        /\ \A u \in Space : u # s => pc'[u] = pc[u] /\ todo'[u] = todo[u]
    BY <1>2, <1>5, MapFailsStep
  <2>2. Frames'
    BY <1>2, <1>5, <2>1 DEF Frames
  <2>3. TypeOK'
    BY <1>2, <1>3, <1>5, <2>1, TypeAfter DEF Accounted, Grown
  <2>4. \A u \in Space : u # s => Kept(u)
    BY <1>2, <1>5, <2>1 DEF Kept, Grown
  <2>5. Moves(s) /\ pc'[s] \notin {"fork", "clone"}
    BY <1>2, <1>4, <2>1 DEF Moves, Mapping, Building, Going, Coupled
  <2> QED BY <1>2, <1>4, <2>1, <2>2, <2>3, <2>4, <2>5, SoloStep
<1>6. CASE TableFails(s, v) /\ MapFails(s) /\ UNCHANGED <<mem, pde, pte, shared>>
  <2>1. Grown(s) /\ TableSlots' = TableSlots
    BY <1>3, <1>6 DEF Grown, TableSlots
  <2> QED BY <1>2, <1>5, <1>6, <2>1 DEF Frames
<1>7. CASE /\ ~TableFails(s, v) /\ mem' = m /\ AddTable(s, v) /\ MapFails(s)
           /\ UNCHANGED <<pte, shared>>
  <2>1. Accounted(m, PageSlots, TableSlots', SharedSlots, lost) /\ Grown(s)
    BY <1>2, <1>7, TableAdded
  <2> QED BY <1>5, <1>7, <2>1
<1>8. CASE /\ ~TableFails(s, v) /\ ~Exhausted(m) /\ mem' = page_allocator_alloc(m)
           /\ AddTable(s, v)
           /\ pte' = [pte EXCEPT ![s][v] = bitmap_find_first_set(m)]
           /\ shared' = IF pc[s] = "mmap_map" /\ req[s].kind = "shared"
                        THEN [shared EXCEPT ![s] = @ \cup {v}] ELSE shared
           /\ Done(s, v) /\ pc' = pc
  <2> DEFINE f == bitmap_find_first_set(m)
             e == <<s, v>>
  <2>1. /\ Accounted(m, PageSlots, TableSlots', SharedSlots, lost)
        /\ Grown(s) /\ pde'[s][TableOf(v)] # NoFrame
    BY <1>2, <1>8, TableAdded
  <2> HIDE DEF m
  <2>2. f \in RAM /\ f \in Frame /\ f \in Frame \cup {NoFrame}
    BY <1>8, <2>1, FirstIsFree, FrameFacts
  <2>3. pte' = [pte EXCEPT ![s][v] = f]
    BY <1>8
  <2> HIDE DEF f
  <2>4. pte[s][v] = NoFrame
    BY <1>2, MapsNew
  <2>5. /\ SharesBut(PageSlots, SharedSlots, SharedSlots', <<s, v>>)
        /\ shared' \in [Space -> SUBSET Page]
        /\ \A u \in Space : u # s => shared'[u] = shared[u]
    BY <1>3, <1>8, SharedPut
  <2>6. /\ todo' \in [Space -> SUBSET Page]
        /\ \A u \in Space : u # s => todo'[u] = todo[u]
    BY <1>2, <1>8, DoneFacts
  <2>7. /\ PageSlots' = Put(PageSlots, <<s, v>>, f) /\ <<s, v>> \in PageSlot
        /\ PageSlots[<<s, v>>] = pte[s][v]
    BY <1>2, <1>8, <2>2, <2>3, <2>6, SlotsAfter
  <2> HIDE DEF e
  <2>8. Accounted(page_allocator_alloc(m), PageSlots', TableSlots', SharedSlots', lost)
    BY <1>8, <2>1, <2>4, <2>5, <2>7, PageDrawn DEF f, e
  <2>9. Frames'
    BY <1>2, <1>8, <2>8 DEF Frames
  <2>10. /\ pte' \in [Space -> [Page -> Frame \cup {NoFrame}]]
         /\ \A u \in Space : u # s => pte'[u] = pte[u]
    BY <1>2, <2>2, <2>3, PteAfter
  <2>11. TypeOK'
    BY <1>2, <1>3, <1>8, <2>1, <2>5, <2>6, <2>8, <2>10, TypeAfter DEF Accounted, Grown
  <2>12. shared'[s] = shared[s] \/ (pc[s] = "mmap_map" /\ shared'[s] = shared[s] \cup {v})
    BY <1>3, <1>8
  <2>13. Local(s)'
    BY <1>2, <1>8, <2>1, <2>2, <2>3, <2>12, MappedStep
  <2>14. \A u \in Space : u # s => Kept(u)
    BY <1>2, <1>8, <2>1, <2>5, <2>6, <2>10 DEF Kept, Grown
  <2>15. Moves(s)
    BY <1>8 DEF Moves
  <2> QED BY <1>2, <1>4, <1>8, <2>9, <2>11, <2>13, <2>14, <2>15, SoloStep
<1> QED BY <1>1, <1>6, <1>7, <1>8

(* map_page_to_physical_addr() keeps the invariant.                        *)
LEMMA MapPhysical ==
    ASSUME Inv, NEW s \in Space, map_page_to_physical_addr(s)
    PROVE  Inv'
<1>1. PICK v \in Page :
        LET f == NFrames + v - req[s].addr IN
        /\ At(s, "mmap_map") /\ Upcoming(s, v) /\ req[s].kind = "framebuffer"
        /\ \/ TableFails(s, v) /\ MapFails(s) /\ UNCHANGED <<mem, pde, pte, shared>>
           \/ /\ ~TableFails(s, v) /\ mem' = page_allocator_ref_page(WithTable(s, v), f)
              /\ AddTable(s, v) /\ pte' = [pte EXCEPT ![s][v] = f]
              /\ shared' = [shared EXCEPT ![s] = @ \cup {v}]
              /\ Done(s, v) /\ UNCHANGED pc
        /\ UNCHANGED <<lists, req, peer, quick, lost, panic>>
  BY Zenon DEF map_page_to_physical_addr
<1> DEFINE m == WithTable(s, v)
           f == NFrames + v - req[s].addr
<1>2. /\ TypeOK /\ Frames /\ Local(s) /\ v \in todo[s] /\ pc[s] = "mmap_map"
      /\ ranges' = ranges /\ user' = user /\ lock' = lock /\ req' = req /\ peer' = peer
      /\ lost' = lost /\ UNCHANGED quick /\ pc[s] \notin Going
      /\ UNCHANGED <<lists, req, peer, quick, lost, panic>>
  BY <1>1, Parts DEF Upcoming, lists, Going, At
<1>3. /\ mem \in Memory /\ pde \in [Space -> [Table -> RAM \cup {NoFrame}]]
      /\ pte \in [Space -> [Page -> Frame \cup {NoFrame}]] /\ shared \in [Space -> SUBSET Page]
      /\ pc \in [Space -> PCs]
  BY <1>2 DEF TypeOK
<1>4. peer[s] = NoSpace /\ pc[s] \in Mapping
  BY <1>2, Alone DEF Mapping
<1>5. CASE TableFails(s, v) /\ MapFails(s) /\ UNCHANGED <<mem, pde, pte, shared>>
  <2>1. Grown(s) /\ TableSlots' = TableSlots
    BY <1>3, <1>5 DEF Grown, TableSlots
  <2>2. /\ Local(s)' /\ PageSlots' = PageSlots /\ SharedSlots' = SharedSlots
        /\ pc' \in [Space -> PCs] /\ todo' \in [Space -> SUBSET Page]
        /\ pc'[s] = "user"
        /\ \A u \in Space : u # s => pc'[u] = pc[u] /\ todo'[u] = todo[u]
    BY <1>2, <1>4, <1>5, <2>1, MapFailsStep
  <2>3. Frames'
    BY <1>2, <1>5, <2>1, <2>2 DEF Frames
  <2>4. TypeOK'
    BY <1>2, <1>3, <1>5, <2>1, <2>2, TypeAfter DEF Grown
  <2>5. \A u \in Space : u # s => Kept(u)
    BY <1>2, <1>5, <2>2 DEF Kept
  <2>6. Moves(s)
    BY <1>4, <2>2 DEF Moves, Coupled
  <2> QED BY <1>2, <2>2, <2>3, <2>4, <2>5, <2>6, SoloStep
<1>6. CASE /\ ~TableFails(s, v) /\ mem' = page_allocator_ref_page(m, f)
           /\ AddTable(s, v) /\ pte' = [pte EXCEPT ![s][v] = f]
           /\ shared' = [shared EXCEPT ![s] = @ \cup {v}]
           /\ Done(s, v) /\ pc' = pc
  <2>1. /\ Accounted(m, PageSlots, TableSlots', SharedSlots, lost)
        /\ Grown(s) /\ pde'[s][TableOf(v)] # NoFrame
    BY <1>2, <1>6, TableAdded
  <2> HIDE DEF m
  <2>2. f \in DeviceFrame
    <3> DEFINE a == req[s].addr
               n == req[s].n
    <3>1. a \in Nat /\ n \in Nat /\ v \in Nat
      BY <1>2, PagesAssumption DEF TypeOK, Request, Page
    <3>2. v \in a .. a + n - 1 /\ n <= NDevice
      BY <1>1, <1>2 DEF Local, Held, Asked, ReqPages, Pages
    <3> HIDE DEF a, n
    <3>3. NFrames + v - a \in NFrames .. NFrames + NDevice - 1
      BY <3>1, <3>2, FramesAssumption, DeviceAssumption
    <3> QED BY <3>3 DEF DeviceFrame, a
  <2>3. f \in Frame /\ f \in Frame \cup {NoFrame}
    BY <2>2, FrameFacts
  <2>4. pte' = [pte EXCEPT ![s][v] = f]
    BY <1>6
  <2> HIDE DEF f
  <2>5. pte[s][v] = NoFrame
    BY <1>2, <1>4, MapsNew
  <2>6. /\ SharesBut(PageSlots, SharedSlots, SharedSlots', <<s, v>>)
        /\ shared' \in [Space -> SUBSET Page] /\ <<s, v>> \in SharedSlots'
        /\ \A u \in Space : u # s => shared'[u] = shared[u]
    BY <1>3, <1>6, SharedPut
  <2>7. /\ todo' \in [Space -> SUBSET Page]
        /\ \A u \in Space : u # s => todo'[u] = todo[u]
    BY <1>2, <1>6, DoneFacts
  <2> DEFINE e == <<s, v>>
  <2>8. /\ PageSlots' = Put(PageSlots, e, f) /\ e \in PageSlot
        /\ PageSlots[e] = pte[s][v]
    BY <1>2, <1>6, <2>3, <2>4, <2>7, SlotsAfter
  <2>9. SharesBut(PageSlots, SharedSlots, SharedSlots', e) /\ e \in SharedSlots'
    BY <2>6
  <2> HIDE DEF e
  <2>10. Accounted(page_allocator_ref_page(m, f), PageSlots', TableSlots', SharedSlots', lost)
    BY <2>1, <2>2, <2>3, <2>5, <2>8, <2>9, PageLinked
  <2>11. Frames'
    BY <1>2, <1>6, <2>10 DEF Frames
  <2>12. /\ pte' \in [Space -> [Page -> Frame \cup {NoFrame}]]
         /\ \A u \in Space : u # s => pte'[u] = pte[u]
    BY <1>2, <2>3, <2>4, PteAfter
  <2>13. TypeOK'
    BY <1>2, <1>3, <1>6, <2>1, <2>6, <2>7, <2>10, <2>12, TypeAfter DEF Accounted, Grown
  <2>14. shared'[s] = shared[s] \cup {v}
    BY <1>3, <1>6
  <2>15. Local(s)'
    BY <1>2, <1>4, <1>6, <2>1, <2>3, <2>4, <2>14, MappedStep
  <2>16. \A u \in Space : u # s => Kept(u)
    BY <1>2, <1>6, <2>1, <2>6, <2>7, <2>12 DEF Kept, Grown
  <2>17. Moves(s)
    BY <1>6 DEF Moves
  <2> QED BY <1>2, <1>6, <2>11, <2>13, <2>15, <2>16, <2>17, SoloStep
<1> QED BY <1>1, <1>5, <1>6

(* Page tables that stay as they are.                                      *)
LEMMA GrownSame ==
    ASSUME TypeOK, pde' = pde
    PROVE  TableSlots' = TableSlots /\ \A s \in Space : Grown(s)
  BY DEF TypeOK, Grown, TableSlots

(* unmap_page() keeps the invariant.                                       *)
LEMMA UnmapPage ==
    ASSUME Inv, NEW s \in Space, unmap_page(s)
    PROVE  Inv'
<1>1. PICK v \in Page :
        /\ At(s, "unmap") /\ Upcoming(s, v)
        /\ \/ /\ UnrefAsserts(pte[s][v])
              /\ mem' = page_allocator_unref_page(mem, pte[s][v])
              /\ pte' = [pte EXCEPT ![s][v] = NoFrame]
              /\ shared' = [shared EXCEPT ![s] = @ \ {v}]
              /\ Done(s, v)
              /\ UNCHANGED <<pde, lists, pc, req, peer, quick, lost, panic>>
           \/ Panic("bitmap")
  BY Zenon DEF unmap_page
<1>2. CASE Panic("bitmap")
  BY <1>2, NothingMoves DEF Panic
<1>3. CASE /\ UnrefAsserts(pte[s][v])
           /\ mem' = page_allocator_unref_page(mem, pte[s][v])
           /\ pte' = [pte EXCEPT ![s][v] = NoFrame]
           /\ shared' = [shared EXCEPT ![s] = @ \ {v}]
           /\ Done(s, v)
           /\ UNCHANGED <<pde, lists, pc, req, peer, quick, lost, panic>>
  <2> DEFINE f == pte[s][v]
             e == <<s, v>>
             n == NoFrame
  <2>1. /\ TypeOK /\ Frames /\ Local(s) /\ v \in todo[s] /\ pc[s] = "unmap" /\ pc' = pc
        /\ ranges' = ranges /\ user' = user /\ lock' = lock /\ req' = req /\ peer' = peer
        /\ lost' = lost /\ UNCHANGED quick /\ pc[s] \notin Going /\ pde' = pde
        /\ UNCHANGED <<lists, req, peer, quick, lost, panic>>
    BY <1>1, <1>3, Parts DEF Upcoming, lists, Going, At
  <2>2. /\ mem \in Memory /\ pde \in [Space -> [Table -> RAM \cup {NoFrame}]]
        /\ pte \in [Space -> [Page -> Frame \cup {NoFrame}]] /\ shared \in [Space -> SUBSET Page]
        /\ pc \in [Space -> PCs]
    BY <2>1 DEF TypeOK
  <2>3. v \in Mapped(s) /\ v \in ReqPages(s)
    BY <2>1 DEF Local, Held
  <2>4. f \in Frame
    BY <2>2, <2>3 DEF Mapped
  <2>5. n \in Frame \cup {NoFrame} /\ pte' = [pte EXCEPT ![s][v] = n]
    BY <1>3
  <2> HIDE DEF n
  <2>6. /\ SharesBut(PageSlots, SharedSlots, SharedSlots', e)
        /\ shared' \in [Space -> SUBSET Page]
        /\ \A u \in Space : u # s => shared'[u] = shared[u]
    BY <1>3, <2>2, SharedPut
  <2>7. /\ todo' \in [Space -> SUBSET Page] /\ todo'[s] = todo[s] \ {v}
        /\ \A u \in Space : u # s => todo'[u] = todo[u]
    BY <1>3, <2>1, DoneFacts
  <2>8. /\ PageSlots' = Put(PageSlots, e, n) /\ e \in PageSlot
        /\ PageSlots[e] = pte[s][v]
    BY <2>1, <2>5, <2>7, SlotsAfter
  <2>9. /\ pte' \in [Space -> [Page -> Frame \cup {NoFrame}]]
        /\ \A u \in Space : u # s => pte'[u] = pte[u]
        /\ Mapped(s)' = IF n = NoFrame THEN Mapped(s) \ {v} ELSE Mapped(s) \cup {v}
    BY <2>1, <2>5, PteAfter
  <2>10. f \in DeviceFrame => mem.ref_counts[f] # 1
    BY <1>3 DEF UnrefAsserts
  <2>11. TableSlots' = TableSlots /\ Grown(s)
    BY <2>1, GrownSame
  <2>12. mem' = page_allocator_unref_page(mem, f) /\ PageSlots[e] = f /\ PageSlots' = Put(PageSlots, e, NoFrame)
    BY <1>3, <2>8 DEF n
  <2> HIDE DEF e, f
  <2>13. Accounted(mem', PageSlots', TableSlots, SharedSlots', lost)
    BY <2>1, <2>4, <2>6, <2>8, <2>10, <2>12, PageDropped DEF Frames
  <2>14. Frames'
    BY <2>1, <2>11, <2>13 DEF Frames
  <2>15. TypeOK'
    BY <2>1, <2>2, <2>6, <2>7, <2>9, <2>13, TypeAfter DEF Accounted
  <2>16. Mapped(s)' = Mapped(s) \ {v} /\ Mapped(s) \subseteq Page
    BY <2>9 DEF n, Mapped
  <2>17. Local(s)'
    <3>1. HasTables(s)'
      BY <2>1, <2>16 DEF HasTables, Local
    <3>2. shared'[s] = shared[s] \ {v}
      BY <1>3, <2>2
    <3>3. v \notin FreePages(ranges[s]) /\ v \notin user[s]
      BY <2>1, <2>3 DEF Local, Held
    <3>4. FreeList(s)'
      BY <2>1, <2>16, <3>2, <3>3 DEF Local, FreeList, HasFreeList
    <3>5. ReqPages(s)' = ReqPages(s)
      BY <2>1 DEF ReqPages
    <3>6. Held(s)'
      BY <2>1, <2>7, <3>5 DEF Local, Held
    <3>7. shared'[s] \subseteq Mapped(s)'
      BY <2>1, <2>16, <3>2 DEF Local
    <3>8. \A w \in ReqPages(s) : w \in todo'[s] <=> w \in Mapped(s)'
      BY <2>1, <2>7, <2>16 DEF Local
    <3>9. ReqPages(s) \cap user[s] = {}
      BY <2>1 DEF Local
    <3> QED BY <2>1, <3>1, <3>4, <3>5, <3>6, <3>7, <3>8, <3>9 DEF Local, HasFreeList
  <2>18. \A u \in Space : u # s => Kept(u)
    BY <2>1, <2>6, <2>7, <2>9 DEF Kept
  <2>19. Moves(s)
    BY <2>1 DEF Moves
  <2> QED BY <2>1, <2>14, <2>15, <2>17, <2>18, <2>19, SoloStep
<1> QED BY <1>1, <1>2, <1>3

(* A step that changes no mapping.                                         *)
LEMMA CalmStep ==
    ASSUME Inv, NEW s \in Space, UNCHANGED <<mem, tables, peer, quick, lost, panic>>,
           ranges' \in [Space -> Seq([start : Page, size : 1 .. NPages])],
           lock' \in [Space -> {"free", "own", "foreign"}], user' \in [Space -> SUBSET Page],
           pc' \in [Space -> PCs], todo' \in [Space -> SUBSET Page], req' \in [Space -> Request],
           \A u \in Space : u # s => /\ ranges'[u] = ranges[u] /\ user'[u] = user[u]
                                     /\ pc'[u] = pc[u] /\ todo'[u] = todo[u] /\ req'[u] = req[u],
           \A w \in Page : RefOf(s, w)' = RefOf(s, w), Local(s)', Moves(s),
           pc[s] \notin {"fork", "clone"}, pc'[s] \notin {"fork", "clone"}
    PROVE  Inv'
<1>1. /\ mem' = mem /\ pde' = pde /\ pte' = pte /\ shared' = shared /\ peer' = peer
      /\ quickmap_lock' = quickmap_lock /\ quickmapped' = quickmapped /\ lost' = lost
      /\ panic' = panic
  BY DEF tables, quick
<1>2. TypeOK
  BY DEF Inv
<1>3. TypeOK'
  BY <1>1, <1>2 DEF TypeOK
<1>4. \A u \in Space : u # s => Kept(u)
  BY <1>1 DEF Kept
<1>5. PageSlots' = PageSlots
  BY <1>1, SameSlots
<1>6. TableSlots' = TableSlots /\ SharedSlots' = SharedSlots
  BY <1>1 DEF TableSlots, SharedSlots
<1>7. Frames'
  BY <1>1, <1>5, <1>6 DEF Inv, Frames
<1> QED BY <1>1, <1>3, <1>4, <1>7, SoloStep

(* Neither the tables nor anything else of the others.                     *)
LEMMA SameRefs ==
    ASSUME NEW s \in Space, pte'[s] = pte[s], pc[s] \notin Going, pc'[s] \notin Going
    PROVE  \A w \in Page : RefOf(s, w)' = RefOf(s, w)
  BY RefFacts, RefFactsPrimed

(* The beginning of mmap() keeps the invariant.                            *)
LEMMA SysMmap ==
    ASSUME Inv, NEW s \in Space, NEW n \in Sizes, NEW kind \in Kinds, sys_mmap(s, n, kind)
    PROVE  Inv'
<1> DEFINE r == [addr |-> 0, n |-> n, kind |-> kind]
<1>1. /\ TypeOK /\ Local(s) /\ pc[s] = "user" /\ peer[s] = NoSpace
      /\ UNCHANGED <<mem, tables, peer, quick, lost, panic>>
      /\ ranges' = ranges /\ lock' = lock /\ user' = user /\ todo' = todo
      /\ Goto(s, "mmap_alloc") /\ pte' = pte /\ shared' = shared /\ pde' = pde
      /\ req' = [req EXCEPT ![s] = r]
      /\ kind = "framebuffer" => n <= NDevice
  BY Parts, Alone DEF sys_mmap, At, lists, tables
<1>2. /\ pc' \in [Space -> PCs] /\ pc'[s] = "mmap_alloc"
      /\ \A u \in Space : u # s => pc'[u] = pc[u]
  BY <1>1, GotoFacts DEF PCs
<1>3. n \in Nat /\ n > 0 /\ 0 \in Page /\ kind \in {"private", "shared", "framebuffer"}
  BY SizesAssumption, KindsAssumption, PagesAssumption DEF Page
<1>4. r \in Request /\ r.n = n /\ r.kind = kind
  BY <1>3 DEF Request
<1> HIDE DEF r
<1>5. /\ req' \in [Space -> Request] /\ req'[s] = r
      /\ \A u \in Space : u # s => req'[u] = req[u]
  BY <1>1, <1>4 DEF TypeOK
<1>6. Mapped(s)' = Mapped(s)
  BY <1>1, MappedKept
<1>7. HasTables(s)' /\ FreeList(s)'
  BY <1>1, <1>6 DEF HasTables, FreeList, Local, HasFreeList
<1>8. Asked(s)'
  BY <1>1, <1>3, <1>4, <1>5 DEF Asked
<1>9. Local(s)'
  BY <1>1, <1>2, <1>6, <1>7, <1>8 DEF Local, HasFreeList
<1>10. \A w \in Page : RefOf(s, w)' = RefOf(s, w)
  BY <1>1, <1>2, SameRefs DEF Going
<1>11. Moves(s) /\ pc[s] \notin {"fork", "clone"} /\ pc'[s] \notin {"fork", "clone"}
  BY <1>1, <1>2 DEF Moves, Coupled
<1>12. /\ ranges' \in [Space -> Seq([start : Page, size : 1 .. NPages])]
       /\ lock' \in [Space -> {"free", "own", "foreign"}] /\ user' \in [Space -> SUBSET Page]
       /\ todo' \in [Space -> SUBSET Page]
  BY <1>1 DEF TypeOK
<1> QED BY <1>1, <1>2, <1>5, <1>9, <1>10, <1>11, <1>12, CalmStep

(* The request of a space that asks for nothing.                           *)
LEMMA NoRequestFacts == NoRequest \in Request
  BY PagesAssumption DEF NoRequest, Request, Page

(* The return of mmap() keeps the invariant.                               *)
LEMMA MmapReturnsStep ==
    ASSUME Inv, NEW s \in Space, MmapReturns(s)
    PROVE  Inv'
<1>1. /\ TypeOK /\ Local(s) /\ pc[s] = "mmap_map" /\ peer[s] = NoSpace /\ todo[s] = {}
      /\ UNCHANGED <<mem, tables, peer, quick, lost, panic>>
      /\ ranges' = ranges /\ lock' = lock /\ todo' = todo
      /\ Goto(s, "user") /\ pte' = pte /\ shared' = shared /\ pde' = pde
      /\ req' = [req EXCEPT ![s] = NoRequest]
      /\ user' = [user EXCEPT ![s] = @ \cup ReqPages(s)]
  BY Parts, Alone DEF MmapReturns, At, tables, ReqPages
<1>2. /\ pc' \in [Space -> PCs] /\ pc'[s] = "user"
      /\ \A u \in Space : u # s => pc'[u] = pc[u]
  BY <1>1, GotoFacts DEF PCs
<1>3. /\ req' \in [Space -> Request]
      /\ \A u \in Space : u # s => req'[u] = req[u]
  BY <1>1, NoRequestFacts DEF TypeOK
<1>4. ReqPages(s) \subseteq Page /\ ReqPages(s) \subseteq Mapped(s)
      /\ ReqPages(s) \cap FreePages(ranges[s]) = {}
  BY <1>1 DEF Local, Held
<1>5. /\ user' \in [Space -> SUBSET Page] /\ user'[s] = user[s] \cup ReqPages(s)
      /\ \A u \in Space : u # s => user'[u] = user[u]
  BY <1>1, <1>4 DEF TypeOK
<1>6. Mapped(s)' = Mapped(s)
  BY <1>1, MappedKept
<1>7. HasTables(s)'
  BY <1>1, <1>6 DEF HasTables, Local
<1>8. FreeList(s)'
  BY <1>1, <1>4, <1>5, <1>6 DEF FreeList, Local, HasFreeList
<1>9. Local(s)'
  BY <1>1, <1>2, <1>6, <1>7, <1>8 DEF Local, HasFreeList
<1>10. \A w \in Page : RefOf(s, w)' = RefOf(s, w)
  BY <1>1, <1>2, SameRefs DEF Going
<1>11. Moves(s) /\ pc[s] \notin {"fork", "clone"} /\ pc'[s] \notin {"fork", "clone"}
  BY <1>1, <1>2 DEF Moves, Coupled
<1>12. /\ ranges' \in [Space -> Seq([start : Page, size : 1 .. NPages])]
       /\ lock' \in [Space -> {"free", "own", "foreign"}]
       /\ todo' \in [Space -> SUBSET Page]
  BY <1>1 DEF TypeOK
<1> QED BY <1>1, <1>2, <1>3, <1>5, <1>9, <1>10, <1>11, <1>12, CalmStep

(* A mmap() refused after it got its range keeps the invariant.            *)
LEMMA MmapRefusedStep ==
    ASSUME Inv, NEW s \in Space, MmapRefused(s)
    PROVE  Inv'
<1>1. /\ TypeOK /\ Local(s) /\ pc[s] = "mmap_map" /\ peer[s] = NoSpace
      /\ UNCHANGED <<mem, tables, peer, quick, lost, panic>>
      /\ ranges' = ranges /\ lock' = lock /\ user' = user
      /\ todo' = [todo EXCEPT ![s] = {}]
      /\ Goto(s, "user") /\ pte' = pte /\ shared' = shared /\ pde' = pde
      /\ req' = [req EXCEPT ![s] = NoRequest]
  BY Parts, Alone DEF MmapRefused, At, tables, lists
<1>2. /\ pc' \in [Space -> PCs] /\ pc'[s] = "user"
      /\ \A u \in Space : u # s => pc'[u] = pc[u]
  BY <1>1, GotoFacts DEF PCs
<1>3. /\ req' \in [Space -> Request]
      /\ \A u \in Space : u # s => req'[u] = req[u]
  BY <1>1, NoRequestFacts DEF TypeOK
<1>4. /\ todo' \in [Space -> SUBSET Page]
      /\ \A u \in Space : u # s => todo'[u] = todo[u]
  BY <1>1 DEF TypeOK
<1>5. Grown(s) /\ HasFreeList(s)
  BY <1>1, GrownSame DEF HasFreeList
<1>6. Local(s)' /\ \A w \in Page : RefOf(s, w)' = RefOf(s, w)
  BY <1>1, <1>2, <1>5, UserStep
<1>11. Moves(s) /\ pc[s] \notin {"fork", "clone"} /\ pc'[s] \notin {"fork", "clone"}
  BY <1>1, <1>2 DEF Moves, Coupled
<1>12. /\ ranges' \in [Space -> Seq([start : Page, size : 1 .. NPages])]
       /\ lock' \in [Space -> {"free", "own", "foreign"}] /\ user' \in [Space -> SUBSET Page]
  BY <1>1 DEF TypeOK
<1> QED BY <1>1, <1>2, <1>3, <1>4, <1>6, <1>11, <1>12, CalmStep

(* The beginning of munmap() keeps the invariant.                          *)
LEMMA SysMunmap ==
    ASSUME Inv, NEW s \in Space, NEW a \in Page, NEW n \in Sizes, sys_munmap(s, a, n)
    PROVE  Inv'
<1> DEFINE r == [addr |-> a, n |-> n, kind |-> "private"]
           R == Pages(a, n)
<1>1. /\ TypeOK /\ Local(s) /\ pc[s] = "user" /\ peer[s] = NoSpace /\ R \subseteq user[s]
      /\ UNCHANGED <<mem, tables, peer, quick, lost, panic>>
      /\ ranges' = ranges /\ lock' = lock /\ user' = [user EXCEPT ![s] = @ \ R]
      /\ todo' = [todo EXCEPT ![s] = R]
      /\ Goto(s, "unmap") /\ pte' = pte /\ shared' = shared /\ pde' = pde
      /\ req' = [req EXCEPT ![s] = r]
  BY Parts, Alone DEF sys_munmap, At, tables
<1>2. /\ pc' \in [Space -> PCs] /\ pc'[s] = "unmap"
      /\ \A u \in Space : u # s => pc'[u] = pc[u]
  BY <1>1, GotoFacts DEF PCs
<1>3. n \in Nat /\ n > 0 /\ r \in Request /\ r.n = n /\ r.addr = a
  BY SizesAssumption DEF Request
<1>4. R = Pages(r.addr, r.n)
  BY <1>3
<1> HIDE DEF r, R
<1>5. /\ req' \in [Space -> Request] /\ req'[s] = r
      /\ \A u \in Space : u # s => req'[u] = req[u]
  BY <1>1, <1>3 DEF TypeOK
<1>6. ReqPages(s)' = R
  BY <1>4, <1>5 DEF ReqPages
<1>7. R \subseteq Page /\ R \subseteq Mapped(s) /\ R \cap FreePages(ranges[s]) = {}
  BY <1>1 DEF TypeOK, Local, FreeList, HasFreeList
<1>8. /\ todo' \in [Space -> SUBSET Page] /\ todo'[s] = R
      /\ \A u \in Space : u # s => todo'[u] = todo[u]
  BY <1>1, <1>7 DEF TypeOK
<1>9. /\ user' \in [Space -> SUBSET Page] /\ user'[s] = user[s] \ R
      /\ \A u \in Space : u # s => user'[u] = user[u]
  BY <1>1 DEF TypeOK
<1>10. Mapped(s)' = Mapped(s)
  BY <1>1, MappedKept
<1>11. HasTables(s)'
  BY <1>1, <1>10 DEF HasTables, Local
<1>12. FreeList(s)'
  BY <1>1, <1>9, <1>10 DEF FreeList, Local, HasFreeList
<1>13. Held(s)'
  BY <1>1, <1>3, <1>5, <1>6, <1>7, <1>8 DEF Held
<1>14. Local(s)'
  BY <1>1, <1>2, <1>6, <1>7, <1>8, <1>9, <1>10, <1>11, <1>12, <1>13 DEF Local, HasFreeList
<1>15. \A w \in Page : RefOf(s, w)' = RefOf(s, w)
  BY <1>1, <1>2, SameRefs DEF Going
<1>16. Moves(s) /\ pc[s] \notin {"fork", "clone"} /\ pc'[s] \notin {"fork", "clone"}
  BY <1>1, <1>2 DEF Moves, Coupled
<1>17. /\ ranges' \in [Space -> Seq([start : Page, size : 1 .. NPages])]
       /\ lock' \in [Space -> {"free", "own", "foreign"}]
  BY <1>1 DEF TypeOK
<1> QED BY <1>1, <1>2, <1>5, <1>8, <1>9, <1>14, <1>15, <1>16, <1>17, CalmStep

(* A step that only goes from one point of the code to another.            *)
LEMMA GotoStep ==
    ASSUME Inv, NEW s \in Space, NEW l \in PCs, Goto(s, l),
           UNCHANGED <<mem, tables, lists, req, peer, quick, lost, panic>>,
           todo' \in [Space -> SUBSET Page], \A u \in Space : u # s => todo'[u] = todo[u],
           \A w \in Page : RefOf(s, w)' = RefOf(s, w), Local(s)', Moves(s),
           pc[s] \notin {"fork", "clone"}, l \notin {"fork", "clone"}
    PROVE  Inv'
<1>1. TypeOK /\ ranges' = ranges /\ lock' = lock /\ user' = user /\ req' = req
  BY DEF Inv, lists
<1>2. /\ pc' \in [Space -> PCs] /\ pc'[s] = l
      /\ \A u \in Space : u # s => pc'[u] = pc[u]
  BY <1>1, GotoFacts
<1>3. /\ ranges' \in [Space -> Seq([start : Page, size : 1 .. NPages])]
      /\ lock' \in [Space -> {"free", "own", "foreign"}] /\ user' \in [Space -> SUBSET Page]
      /\ req' \in [Space -> Request]
  BY <1>1 DEF TypeOK
<1> QED BY <1>1, <1>2, <1>3, CalmStep

(* The end of the loop of munmap() keeps the invariant.                    *)
LEMMA UnmappedStep ==
    ASSUME Inv, NEW s \in Space, Unmapped(s)
    PROVE  Inv'
<1>1. /\ TypeOK /\ Local(s) /\ pc[s] = "unmap" /\ peer[s] = NoSpace /\ todo[s] = {}
      /\ UNCHANGED <<mem, tables, lists, req, peer, quick, lost, panic>>
      /\ ranges' = ranges /\ todo' = todo /\ user' = user /\ req' = req
      /\ Goto(s, "munmap_free") /\ pte' = pte /\ shared' = shared /\ pde' = pde
  BY Parts, Alone DEF Unmapped, At, tables, lists
<1>2. /\ pc' \in [Space -> PCs] /\ pc'[s] = "munmap_free"
      /\ \A u \in Space : u # s => pc'[u] = pc[u]
  BY <1>1, GotoFacts DEF PCs
<1>3. Mapped(s)' = Mapped(s)
  BY <1>1, MappedKept
<1>4. ReqPages(s)' = ReqPages(s)
  BY <1>1 DEF ReqPages
<1>5. HasTables(s)' /\ FreeList(s)' /\ Held(s)'
  BY <1>1, <1>3, <1>4 DEF HasTables, FreeList, Held, Local, HasFreeList
<1>6. Local(s)'
  BY <1>1, <1>2, <1>3, <1>4, <1>5 DEF Local, HasFreeList
<1>7. \A w \in Page : RefOf(s, w)' = RefOf(s, w)
  BY <1>1, <1>2, SameRefs DEF Going
<1>8. Moves(s) /\ "munmap_free" \in PCs
  BY <1>1, <1>2 DEF Moves, Coupled, PCs
<1>9. todo' \in [Space -> SUBSET Page] /\ \A u \in Space : u # s => todo'[u] = todo[u]
  BY <1>1 DEF TypeOK
<1> QED BY <1>1, <1>6, <1>7, <1>8, <1>9, GotoStep

(* The end of loading the segments keeps the invariant.                    *)
LEMMA ExecLoadedStep ==
    ASSUME Inv, NEW s \in Space, ExecLoaded(s)
    PROVE  Inv'
<1>1. /\ TypeOK /\ Local(s) /\ pc[s] = "exec_load" /\ todo[s] = {}
      /\ UNCHANGED <<mem, tables, lists, req, peer, quick, lost, panic>>
      /\ ranges' = ranges /\ user' = user /\ req' = req
      /\ todo' = [todo EXCEPT ![s] = {ImagePages}]
      /\ Goto(s, "exec_init") /\ pte' = pte /\ shared' = shared /\ pde' = pde
  BY Parts DEF ExecLoaded, At, tables, lists
<1>2. /\ pc' \in [Space -> PCs] /\ pc'[s] = "exec_init"
      /\ \A u \in Space : u # s => pc'[u] = pc[u]
  BY <1>1, GotoFacts DEF PCs
<1>3. Mapped(s)' = Mapped(s)
  BY <1>1, MappedKept
<1>4. /\ ImagePages \in Page /\ ImagePages \notin Pages(0, ImagePages)
      /\ Pages(0, ImagePages) \subseteq Pages(0, ImagePages + 1)
  BY PagesAssumption DEF Page, Pages
<1>5. /\ todo' \in [Space -> SUBSET Page] /\ todo'[s] = {ImagePages}
      /\ \A u \in Space : u # s => todo'[u] = todo[u]
  BY <1>1, <1>4 DEF TypeOK
<1>6. HasTables(s)'
  BY <1>1, <1>3 DEF HasTables, Local
<1>7. Fresh(s)' /\ Mapped(s) \subseteq Pages(0, ImagePages)
  BY <1>1, <1>3, <1>4, <1>5 DEF Fresh, Local
<1>8. Local(s)'
  BY <1>1, <1>2, <1>3, <1>4, <1>5, <1>6, <1>7 DEF Local, HasFreeList
<1>9. \A w \in Page : RefOf(s, w)' = RefOf(s, w)
  BY <1>1, <1>2, SameRefs DEF Going
<1>10. Moves(s) /\ "exec_init" \in PCs
  BY <1>1, <1>2 DEF Moves, Building, PCs
<1> QED BY <1>1, <1>5, <1>8, <1>9, <1>10, GotoStep

(* The two names of the type of ranges.                                    *)
LEMMA RangesType == RangeIn(NPages) = [start : Page, size : 1 .. NPages]
  BY DEF RangeIn, Page

(* range_allocator_init() keeps the invariant.                             *)
LEMMA RangeInit ==
    ASSUME Inv, NEW s \in Space, range_allocator_init(s)
    PROVE  Inv'
<1> DEFINE q == <<FreeRange(ImagePages, NPages - ImagePages)>>
<1>1. /\ TypeOK /\ Local(s) /\ pc[s] = "exec_init" /\ todo[s] = {}
      /\ UNCHANGED <<mem, tables, peer, quick, lost, panic>>
      /\ ranges' = [ranges EXCEPT ![s] = q] /\ user' = user /\ req' = req
      /\ todo' = todo /\ lock' = lock
      /\ Goto(s, "exec_stack") /\ pte' = pte /\ shared' = shared /\ pde' = pde
  BY Parts DEF range_allocator_init, At, tables
<1>2. /\ pc' \in [Space -> PCs] /\ pc'[s] = "exec_stack"
      /\ \A u \in Space : u # s => pc'[u] = pc[u]
  BY <1>1, GotoFacts DEF PCs
<1>3. /\ FreeListOf(q, NPages) /\ FreePages(q) = ImagePages .. NPages - 1
      /\ Headers(q) = {ImagePages}
  BY PagesAssumption, FirstRange
<1> HIDE DEF q
<1>4. q \in Seq([start : Page, size : 1 .. NPages])
  BY <1>3, RangesType DEF FreeListOf
<1>5. /\ ranges' \in [Space -> Seq([start : Page, size : 1 .. NPages])] /\ ranges'[s] = q
      /\ \A u \in Space : u # s => ranges'[u] = ranges[u]
  BY <1>1, <1>4 DEF TypeOK
<1>6. Mapped(s)' = Mapped(s)
  BY <1>1, MappedKept
<1>7. HasTables(s)'
  BY <1>1, <1>6 DEF HasTables, Local
<1>8. /\ shared[s] = {} /\ user[s] = {} /\ Mapped(s) \subseteq Pages(0, ImagePages + 1)
      /\ ImagePages \in Mapped(s)
  BY <1>1 DEF Local, Fresh
<1>9. (ImagePages .. NPages - 1) \cap Pages(0, ImagePages + 1) = {ImagePages}
  BY PagesAssumption DEF Pages
<1>10. FreePages(q) \cap Mapped(s) = Headers(q)
  BY <1>3, <1>8, <1>9
<1>11. FreeList(s)'
  BY <1>1, <1>3, <1>5, <1>6, <1>8, <1>10 DEF FreeList
<1>12. Local(s)'
  BY <1>1, <1>2, <1>6, <1>7, <1>8, <1>11 DEF Local, HasFreeList
<1>13. \A w \in Page : RefOf(s, w)' = RefOf(s, w)
  BY <1>1, <1>2, SameRefs DEF Going
<1>14. Moves(s) /\ pc[s] \notin {"fork", "clone"} /\ pc'[s] \notin {"fork", "clone"}
  BY <1>1, <1>2 DEF Moves, Building
<1>15. /\ lock' \in [Space -> {"free", "own", "foreign"}] /\ user' \in [Space -> SUBSET Page]
       /\ req' \in [Space -> Request] /\ todo' \in [Space -> SUBSET Page]
  BY <1>1 DEF TypeOK
<1> QED BY <1>1, <1>2, <1>5, <1>12, <1>13, <1>14, <1>15, CalmStep

(* A space that begins to be destroyed keeps the invariant.                *)
LEMMA GoneStep ==
    ASSUME Inv, NEW s \in Space, Destroy(s), pc[s] \in Building \cup {"user"},
           UNCHANGED <<mem, tables, lists, req, peer, quick, lost, panic>>
    PROVE  Inv'
<1>1. TypeOK /\ Local(s) /\ pte' = pte /\ shared' = shared /\ pde' = pde /\ pc[s] \notin Going
  BY Parts DEF tables, Building, Going
<1>2. Grown(s)
  BY <1>1, GrownSame
<1>3. /\ Local(s)' /\ \A w \in Page : RefOf(s, w)' = RefOf(s, w)
      /\ todo' \in [Space -> SUBSET Page] /\ pc'[s] = "destroy"
      /\ \A u \in Space : u # s => pc'[u] = pc[u] /\ todo'[u] = todo[u]
  BY <1>1, <1>2, DestroyStep
<1>4. Moves(s) /\ pc[s] \notin {"fork", "clone"}
  BY <1>3, Alone DEF Moves, Building, Going, Coupled
<1>5. Goto(s, "destroy") /\ "destroy" \in PCs
  BY DEF Destroy, PCs
<1> QED BY <1>3, <1>4, <1>5, GotoStep

(* exit() keeps the invariant.                                             *)
LEMMA SysExit ==
    ASSUME Inv, NEW s \in Space, sys_exit(s)
    PROVE  Inv'
  BY GoneStep DEF sys_exit, At

(* The start of the first program keeps the invariant.                     *)
LEMMA ExecReturnsFirst ==
    ASSUME Inv, NEW s \in Space, pc[s] = "exec_map_stack", peer[s] = NoSpace, Goto(s, "user"),
           todo' = todo, UNCHANGED <<mem, tables, lists, req, peer, quick, lost, panic>>
    PROVE  Inv'
<1>1. /\ TypeOK /\ Local(s) /\ pte' = pte /\ shared' = shared /\ pde' = pde
      /\ ranges' = ranges /\ user' = user /\ HasFreeList(s)
  BY Parts DEF tables, lists, HasFreeList
<1>2. pc'[s] = "user"
  BY <1>1, GotoFacts DEF PCs
<1>3. Grown(s)
  BY <1>1, GrownSame
<1>4. Local(s)' /\ \A w \in Page : RefOf(s, w)' = RefOf(s, w)
  BY <1>1, <1>2, <1>3, UserStep
<1>5. todo' \in [Space -> SUBSET Page] /\ \A u \in Space : u # s => todo'[u] = todo[u]
  BY <1>1 DEF TypeOK
<1>6. Moves(s) /\ "user" \in PCs
  BY <1>2 DEF Moves, Coupled, PCs
<1> QED BY <1>4, <1>5, <1>6, GotoStep

(* The end of the loop over the pages keeps the invariant.                 *)
LEMMA DestroyTablesStep ==
    ASSUME Inv, NEW s \in Space, DestroyTables(s)
    PROVE  Inv'
<1>1. /\ TypeOK /\ Local(s) /\ pc[s] = "destroy" /\ todo[s] = {} /\ Goto(s, "destroy_tables")
      /\ UNCHANGED <<mem, tables, lists, req, peer, quick, lost, panic>>
      /\ pte' = pte /\ shared' = shared /\ todo' = todo
  BY Parts DEF DestroyTables, At, tables
<1>2. pc'[s] = "destroy_tables"
  BY <1>1, GotoFacts DEF PCs
<1>3. Mapped(s)' = Mapped(s)
  BY <1>1, MappedKept
<1>4. Local(s)'
  BY <1>1, <1>2, <1>3 DEF Local, HasFreeList
<1>5. \A w \in Page : RefOf(s, w)' = RefOf(s, w)
  BY <1>1, <1>2, RefFacts, RefFactsPrimed
<1>6. todo' \in [Space -> SUBSET Page] /\ \A u \in Space : u # s => todo'[u] = todo[u]
  BY <1>1 DEF TypeOK
<1>7. Moves(s) /\ "destroy_tables" \in PCs
  BY <1>1, <1>2 DEF Moves, Going, PCs
<1> QED BY <1>1, <1>4, <1>5, <1>6, <1>7, GotoStep

(* Giving back a page of a space that goes keeps the invariant.            *)
LEMMA DestroyPageStep ==
    ASSUME Inv, NEW s \in Space, DestroyPage(s)
    PROVE  Inv'
<1>1. PICK v \in Page :
        /\ At(s, "destroy") /\ Upcoming(s, v)
        /\ \/ /\ UnrefAsserts(pte[s][v])
              /\ mem' = page_allocator_unref_page(mem, pte[s][v])
              /\ Done(s, v)
              /\ UNCHANGED <<tables, lists, pc, req, peer, quick, lost, panic>>
           \/ Panic("bitmap")
  BY Zenon DEF DestroyPage
<1>2. CASE Panic("bitmap")
  BY <1>2, NothingMoves DEF Panic
<1>3. CASE /\ UnrefAsserts(pte[s][v])
           /\ mem' = page_allocator_unref_page(mem, pte[s][v])
           /\ Done(s, v)
           /\ UNCHANGED <<tables, lists, pc, req, peer, quick, lost, panic>>
  <2> DEFINE f == pte[s][v]
             e == <<s, v>>
  <2>1. /\ TypeOK /\ Frames /\ Local(s) /\ v \in todo[s] /\ pc[s] = "destroy" /\ pc' = pc
        /\ ranges' = ranges /\ user' = user /\ lock' = lock /\ req' = req /\ peer' = peer
        /\ lost' = lost /\ UNCHANGED quick /\ pde' = pde /\ pte' = pte /\ shared' = shared
        /\ UNCHANGED <<lists, req, peer, quick, lost, panic>>
    BY <1>1, <1>3, Parts DEF Upcoming, lists, tables, At
  <2>2. /\ mem \in Memory /\ pde \in [Space -> [Table -> RAM \cup {NoFrame}]]
        /\ pte \in [Space -> [Page -> Frame \cup {NoFrame}]] /\ shared \in [Space -> SUBSET Page]
        /\ pc \in [Space -> PCs]
    BY <2>1 DEF TypeOK
  <2>3. v \in Mapped(s)
    BY <2>1 DEF Local
  <2>4. f \in Frame
    BY <2>2, <2>3 DEF Mapped
  <2>7. /\ todo' \in [Space -> SUBSET Page] /\ todo'[s] = todo[s] \ {v}
        /\ \A u \in Space : u # s => todo'[u] = todo[u]
    BY <1>3, <2>1, DoneFacts
  <2>8. /\ PageSlots' = Put(PageSlots, e, NoFrame) /\ e \in PageSlot
        /\ PageSlots[e] = f
    <3>1. ASSUME NEW u \in Space, NEW w \in Page
          PROVE  RefOf(u, w)' = IF u = s /\ w = v THEN NoFrame ELSE RefOf(u, w)
      <4>1. CASE u = s
        <5>1. RefOf(s, w) = IF w \in todo[s] THEN pte[s][w] ELSE NoFrame
          BY <2>1, RefFacts
        <5>2. RefOf(s, w)' = IF w \in todo'[s] THEN pte'[s][w] ELSE NoFrame
          BY <2>1, RefFactsPrimed
        <5> QED BY <2>1, <2>7, <4>1, <5>1, <5>2
      <4>2. CASE u # s
        BY <2>1, <2>7, <4>2, RefsKept
      <4> QED BY <4>1, <4>2
    <3>2. RefOf(s, v) = pte[s][v]
      BY <2>1, RefFacts
    <3>3. <<s, v>> \in PageSlot /\ PageSlots[<<s, v>>] = pte[s][v]
      BY <3>2 DEF PageSlot, PageSlots
    <3> DEFINE n == NoFrame
    <3>4. \A u \in Space, w \in Page :
             RefOf(u, w)' = IF u = s /\ w = v THEN n ELSE RefOf(u, w)
      BY <3>1
    <3> HIDE DEF n
    <3>5. PageSlots' = Put(PageSlots, <<s, v>>, n)
      BY <3>4, PageSlotPut
    <3> QED BY <3>3, <3>5 DEF n
  <2>10. f \in DeviceFrame => mem.ref_counts[f] # 1
    BY <1>3 DEF UnrefAsserts
  <2>11. TableSlots' = TableSlots /\ SharedSlots' = SharedSlots
    BY <2>1 DEF TableSlots, SharedSlots
  <2>12. mem' = page_allocator_unref_page(mem, f)
    BY <1>3
  <2>9. SharesBut(PageSlots, SharedSlots, SharedSlots', e)
    BY <2>11 DEF SharesBut
  <2> HIDE DEF e, f
  <2>13. Accounted(mem', PageSlots', TableSlots, SharedSlots', lost)
    BY <2>1, <2>4, <2>8, <2>9, <2>10, <2>12, PageDropped DEF Frames
  <2>14. Frames'
    BY <2>1, <2>11, <2>13 DEF Frames
  <2>15. TypeOK'
    BY <2>1, <2>2, <2>7, <2>13, TypeAfter DEF Accounted
  <2>16. Mapped(s)' = Mapped(s)
    BY <2>1, MappedKept
  <2>17. Local(s)'
    <3>1. HasTables(s)'
      BY <2>1, <2>16 DEF HasTables, Local
    <3> QED BY <2>1, <2>7, <2>16, <3>1 DEF Local, HasFreeList
  <2>18. \A u \in Space : u # s => Kept(u)
    BY <2>1, <2>7 DEF Kept
  <2>19. Moves(s)
    BY <2>1 DEF Moves
  <2> QED BY <2>1, <2>14, <2>15, <2>17, <2>18, <2>19, SoloStep
<1> QED BY <1>1, <1>2, <1>3

(* Giving back a page table of a space that goes keeps the invariant.      *)
LEMMA DestroyTableStep ==
    ASSUME Inv, NEW s \in Space, DestroyTable(s)
    PROVE  Inv'
<1>1. /\ TypeOK /\ Frames /\ Local(s) /\ pc[s] = "destroy_tables" /\ pc' = pc /\ todo' = todo
      /\ ranges' = ranges /\ user' = user /\ lock' = lock /\ req' = req /\ peer' = peer
      /\ lost' = lost /\ UNCHANGED quick /\ pte' = pte /\ shared' = shared
      /\ UNCHANGED <<lists, req, peer, quick, lost, panic>>
  BY Parts DEF DestroyTable, At, lists, calls
<1>2. PICK k \in Table : /\ pde[s][k] # NoFrame
                         /\ mem' = page_allocator_unref_page(mem, pde[s][k])
                         /\ pde' = [pde EXCEPT ![s][k] = NoFrame]
  BY DEF DestroyTable
<1>3. /\ pde \in [Space -> [Table -> RAM \cup {NoFrame}]]
      /\ pte \in [Space -> [Page -> Frame \cup {NoFrame}]] /\ shared \in [Space -> SUBSET Page]
      /\ pc \in [Space -> PCs] /\ todo \in [Space -> SUBSET Page]
  BY <1>1 DEF TypeOK
<1> DEFINE f == pde[s][k]
           n == NoFrame
           e == <<s, k>>
<1>4. n \in RAM \cup {NoFrame} /\ pde' = [pde EXCEPT ![s][k] = n]
  BY <1>2
<1> HIDE DEF n
<1>5. /\ TableSlots' = Put(TableSlots, e, n) /\ e \in TableSlot
      /\ TableSlots[e] = f
      /\ pde' \in [Space -> [Table -> RAM \cup {NoFrame}]]
      /\ \A u \in Space : u # s => pde'[u] = pde[u]
  BY <1>3, <1>4, TableSlotPut
<1>6. TableSlots' = Put(TableSlots, e, NoFrame) /\ f # NoFrame
      /\ mem' = page_allocator_unref_page(mem, f)
  BY <1>2, <1>5 DEF n
<1>7. PageSlots' = PageSlots
  BY <1>1, RefsKept, PageSlotsSame
<1>8. SharedSlots' = SharedSlots
  BY <1>1 DEF SharedSlots
<1> HIDE DEF e, f
<1>9. Accounted(mem', PageSlots, TableSlots', SharedSlots, lost)
  BY <1>1, <1>5, <1>6, TableDropped DEF Frames
<1>10. Frames'
  BY <1>1, <1>7, <1>8, <1>9 DEF Frames
<1>11. TypeOK'
  BY <1>1, <1>3, <1>5, <1>9, TypeAfter DEF Accounted
<1>12. Mapped(s)' = Mapped(s)
  BY <1>1, MappedKept
<1>13. Local(s)'
  BY <1>1, <1>12 DEF Local, HasFreeList
<1>14. \A u \in Space : u # s => Kept(u)
  BY <1>1, <1>5 DEF Kept
<1>15. Moves(s)
  BY <1>1 DEF Moves
<1> QED BY <1>1, <1>10, <1>11, <1>13, <1>14, <1>15, SoloStep

(* What the first n pages of a free range are before they are taken, and   *)
(* the free list afterwards.                                               *)
LEMMA TakenRange ==
    ASSUME TypeOK, NEW s \in Space, Local(s), FreeList(s), NEW n \in Nat \ {0},
           NEW i, i = FirstFit(ranges[s], n), i # 0, NEW a, a = ranges[s][i].start,
           NEW q, q = Taken(ranges[s], i, n), NEW b, b = a + n
    PROVE  /\ FreeListOf(q, NPages) /\ a \in Page /\ Pages(a, n) \subseteq Page
           /\ a \in Pages(a, n) /\ a \in Mapped(s) /\ a \notin shared[s] /\ a \notin user[s]
           /\ Pages(a, n) \cap (Mapped(s) \ {a}) = {}
           /\ Pages(a, n) \cap FreePages(q) = {} /\ FreePages(q) \cap user[s] = {}
           /\ Headers(q) \subseteq FreePages(q)
           /\ IsExact(ranges[s], i, n) =>
                 /\ FreePages(q) \cap (Mapped(s) \ {a}) = Headers(q)
                 /\ Headers(q) \cap shared[s] = {}
           /\ ~IsExact(ranges[s], i, n) =>
                 /\ b \in Page /\ b # a /\ b \notin Mapped(s) /\ b \notin Pages(a, n)
                 /\ b \notin shared[s] /\ b \notin user[s]
                 /\ FreePages(q) \cap ((Mapped(s) \ {a}) \cup {b}) = Headers(q)
                 /\ Headers(q) \cap shared[s] = {}
<1> DEFINE r == ranges[s]
           M == Mapped(s)
           A == Pages(a, n)
<1>1. /\ FreeListOf(r, NPages) /\ FreePages(r) \cap M = Headers(r)
      /\ FreePages(r) \cap user[s] = {} /\ Headers(r) \cap shared[s] = {}
      /\ shared[s] \subseteq M
  BY DEF FreeList, Local
<1>2. NPages \in Nat
  BY PagesAssumption
<1>3. i \in DOMAIN r /\ r[i].size >= n
  BY <1>1, <1>2, FitsFacts
<1>4. A = a .. a + n - 1
  BY DEF Pages
<1>5. /\ FreeListOf(q, NPages)
      /\ a \in Headers(r) /\ A \subseteq FreePages(r)
      /\ a \in 0 .. NPages - 1 /\ a + n <= NPages
      /\ FreePages(q) = FreePages(r) \ A
      /\ IsExact(r, i, n) => Headers(q) = Headers(r) \ {a}
      /\ ~IsExact(r, i, n) => /\ Headers(q) = (Headers(r) \ {a}) \cup {b}
                              /\ b \in FreePages(r) \ Headers(r)
  <2> HIDE DEF r, A
  <2> QED BY <1>1, <1>2, <1>3, <1>4, TakenFacts DEF r
<1>6. Headers(q) \subseteq FreePages(q) /\ Headers(r) \subseteq FreePages(r)
  BY <1>1, <1>2, <1>5, HeadersAreFree
<1>7. a \in Page /\ A \subseteq Page /\ a \in A /\ b \notin A /\ b # a
  BY <1>2, <1>4, <1>5 DEF Page
<1>8. a \in M /\ a \notin shared[s] /\ a \notin user[s]
  BY <1>1, <1>5, <1>6
<1>9. Headers(r) \ {a} \subseteq Headers(q)
  BY <1>5
<1>10. A \cap Headers(q) = {}
  BY <1>5, <1>6
<1> HIDE DEF r, A, M
<1>11. A \cap (M \ {a}) = {}
  <2>1. A \cap M \subseteq Headers(r)
    BY <1>1, <1>5
  <2> QED BY <2>1, <1>9, <1>10
<1>12. FreePages(q) \cap user[s] = {} /\ A \cap FreePages(q) = {}
  BY <1>1, <1>5
<1>13. ASSUME IsExact(r, i, n)
       PROVE  FreePages(q) \cap (M \ {a}) = Headers(q) /\ Headers(q) \cap shared[s] = {}
  BY <1>1, <1>5, <1>6, <1>13
<1>14. ASSUME ~IsExact(r, i, n)
       PROVE  /\ b \in Page /\ b \notin M /\ b \notin shared[s] /\ b \notin user[s]
              /\ FreePages(q) \cap ((M \ {a}) \cup {b}) = Headers(q)
              /\ Headers(q) \cap shared[s] = {}
  <2>1. b \in FreePages(r) /\ b \notin Headers(r) /\ Headers(q) = (Headers(r) \ {a}) \cup {b}
    BY <1>5, <1>14
  <2>2. b \in Page
    <3>1. b \in Headers(q) /\ \A j \in DOMAIN q : q[j].start \in Page
      BY <1>2, <1>5, <2>1, RangeFacts DEF RangeIn, Page
    <3> QED BY <3>1 DEF Headers
  <2>3. b \notin M /\ b \notin shared[s] /\ b \notin user[s]
    BY <1>1, <2>1
  <2> QED BY <1>1, <1>5, <1>6, <2>1, <2>2, <2>3
<1> QED BY <1>5, <1>6, <1>7, <1>8, <1>11, <1>12, <1>13, <1>14 DEF r, M, A

(* Only a shared page can be mapped to the frame buffer.                   *)
LEMMA PrivateIsRAM ==
    ASSUME NEW m, NEW P, NEW T, NEW S, NEW l, Accounted(m, P, T, S, l),
           NEW e \in PageSlot, e \notin S
    PROVE  P[e] \notin DeviceFrame
  BY DEF Accounted, Exclusive

(* The header of a free range is not shared.                               *)
LEMMA NotShared ==
    ASSUME NEW s \in Space, NEW v \in Page, v \notin shared[s]
    PROVE  <<s, v>> \notin SharedSlots /\ <<s, v>> \in PageSlot
  BY DEF SharedSlots, PageSlot

(* The header of a free range is unmapped.                                 *)
LEMMA HeaderDropped ==
    ASSUME TypeOK, Frames, NEW s \in Space, NEW v \in Page, v \in Mapped(s), v \notin shared[s],
           mem' = page_allocator_unref_page(mem, pte[s][v]),
           pte' = [pte EXCEPT ![s][v] = NoFrame], pde' = pde, shared' = shared, lost' = lost,
           pc[s] \notin Going, pc'[s] \notin Going,
           \A u \in Space : u # s => pc'[u] = pc[u] /\ todo'[u] = todo[u]
    PROVE  /\ Frames' /\ mem' \in Memory
           /\ pte' \in [Space -> [Page -> Frame \cup {NoFrame}]]
           /\ \A u \in Space : u # s => pte'[u] = pte[u]
           /\ Mapped(s)' = Mapped(s) \ {v}
<1> DEFINE f == pte[s][v]
           e == <<s, v>>
           n == NoFrame
<1>1. n \in Frame \cup {NoFrame} /\ pte' = [pte EXCEPT ![s][v] = n]
  OBVIOUS
<1> HIDE DEF n
<1>2. f \in Frame
  BY DEF TypeOK, Mapped
<1>3. /\ PageSlots' = Put(PageSlots, e, n) /\ e \in PageSlot
      /\ PageSlots[e] = f
  BY <1>1, SlotsAfter
<1>4. /\ pte' \in [Space -> [Page -> Frame \cup {NoFrame}]]
      /\ \A u \in Space : u # s => pte'[u] = pte[u]
      /\ Mapped(s)' = IF n = NoFrame THEN Mapped(s) \ {v} ELSE Mapped(s) \cup {v}
  BY <1>1, PteAfter
<1>5. TableSlots' = TableSlots /\ SharedSlots' = SharedSlots
  BY DEF TableSlots, SharedSlots
<1>6. SharesBut(PageSlots, SharedSlots, SharedSlots', e)
  BY <1>5 DEF SharesBut
<1>7. e \notin SharedSlots
  BY NotShared
<1>8. mem' = page_allocator_unref_page(mem, f) /\ PageSlots' = Put(PageSlots, e, NoFrame)
  BY <1>3 DEF n
<1> HIDE DEF e, f
<1>9. f \notin DeviceFrame
  BY <1>3, <1>7, PrivateIsRAM DEF Frames
<1>10. Accounted(mem', PageSlots', TableSlots, SharedSlots', lost)
  BY <1>2, <1>3, <1>6, <1>8, <1>9, PageDropped DEF Frames
<1>11. Frames' /\ mem' \in Memory
  BY <1>5, <1>10 DEF Frames, Accounted
<1> QED BY <1>4, <1>11 DEF n

(* It moves to the page w, the page table of which may be new.             *)
LEMMA HeaderMoved ==
    ASSUME TypeOK, NEW m, Accounted(m, PageSlots, TableSlots', SharedSlots, lost),
           NEW s \in Space, NEW v \in Page, v \in Mapped(s), v \notin shared[s],
           NEW w \in Page, w # v, w \notin Mapped(s), w \notin shared[s],
           mem' = page_allocator_unref_page(page_allocator_ref_page(m, pte[s][v]), pte[s][v]),
           pte' = HeaderMoves(s, v, w), shared' = shared, lost' = lost,
           pc[s] \notin Going, pc'[s] \notin Going,
           \A u \in Space : u # s => pc'[u] = pc[u] /\ todo'[u] = todo[u]
    PROVE  /\ Frames' /\ mem' \in Memory
           /\ pte' \in [Space -> [Page -> Frame \cup {NoFrame}]]
           /\ \A u \in Space : u # s => pte'[u] = pte[u]
           /\ Mapped(s)' = (Mapped(s) \ {v}) \cup {w}
<1> DEFINE f == pte[s][v]
           e == <<s, v>>
           d == <<s, w>>
           Q == Put(PageSlots, d, f)
<1>1. pte \in [Space -> [Page -> Frame \cup {NoFrame}]]
  BY DEF TypeOK
<1>2. f \in Frame /\ f # NoFrame /\ pte[s][w] = NoFrame
  BY <1>1, FrameFacts DEF Mapped
<1>3. pte' = [pte EXCEPT ![s][w] = f, ![s][v] = NoFrame]
  BY DEF HeaderMoves
<1> HIDE DEF f
<1>4. /\ pte' \in [Space -> [Page -> Frame \cup {NoFrame}]]
      /\ \A u \in Space : u # s => pte'[u] = pte[u]
      /\ \A x \in Page : pte'[s][x] = IF x = v THEN NoFrame ELSE IF x = w THEN f ELSE pte[s][x]
  BY <1>1, <1>2, <1>3
<1>5. Mapped(s)' = (Mapped(s) \ {v}) \cup {w}
  <2>1. Mapped(s)' = {x \in Page : pte'[s][x] # NoFrame}
    BY DEF Mapped
  <2> QED BY <1>2, <1>4, <2>1 DEF Mapped
<1>6. ASSUME NEW u \in Space, NEW x \in Page
      PROVE  RefOf(u, x)' = IF u = s /\ x = v THEN NoFrame
                            ELSE IF u = s /\ x = w THEN f ELSE RefOf(u, x)
  <2>1. CASE u = s
    <3>1. RefOf(s, x) = pte[s][x] /\ RefOf(s, x)' = pte'[s][x]
      BY RefFacts, RefFactsPrimed
    <3> QED BY <1>4, <2>1, <3>1
  <2>2. CASE u # s
    BY <1>4, <2>2, RefsKept
  <2> QED BY <2>1, <2>2
<1>7. e \in PageSlot /\ d \in PageSlot /\ e # d /\ e \notin SharedSlots /\ d \notin SharedSlots
  BY NotShared
<1>8. PageSlots[e] = f /\ PageSlots[d] = NoFrame
  <2>1. RefOf(s, v) = f /\ RefOf(s, w) = NoFrame
    BY <1>2, RefFacts DEF f
  <2> QED BY <1>7, <2>1 DEF PageSlots
<1>9. PageSlots' = Put(Q, e, NoFrame)
  <2>1. PageSlots' = [y \in PageSlot |-> RefOf(y[1], y[2])']
    BY DEF PageSlots
  <2>2. Q = [y \in PageSlot |-> IF y = d THEN f ELSE RefOf(y[1], y[2])]
    BY DEF PageSlots, Put
  <2>3. Put(Q, e, NoFrame) = [y \in PageSlot |-> IF y = e THEN NoFrame ELSE IF y = d THEN f ELSE RefOf(y[1], y[2])]
    BY <2>2 DEF Put
  <2>4. ASSUME NEW y \in PageSlot
        PROVE  RefOf(y[1], y[2])' = IF y = e THEN NoFrame ELSE IF y = d THEN f ELSE RefOf(y[1], y[2])
    <3>1. y[1] \in Space /\ y[2] \in Page /\ (y = e <=> y[1] = s /\ y[2] = v)
          /\ (y = d <=> y[1] = s /\ y[2] = w)
      BY DEF PageSlot
    <3> QED BY <1>6, <3>1
  <2> QED BY <2>1, <2>3, <2>4
<1>10. SharedSlots' = SharedSlots
  BY DEF SharedSlots
<1>11. mem' = page_allocator_unref_page(page_allocator_ref_page(m, f), f)
  BY DEF f
<1> HIDE DEF e, d, Q
<1>12. Accounted(mem', PageSlots', TableSlots', SharedSlots, lost)
  BY <1>2, <1>7, <1>8, <1>9, <1>11, PageMoved DEF Q
<1>13. Frames' /\ mem' \in Memory
  BY <1>10, <1>12 DEF Frames, Accounted
<1> QED BY <1>4, <1>5, <1>13

(* How mmap() and exec() go on with a range.                               *)
Wanted(s) == IF pc[s] = "mmap_alloc" THEN req[s].n ELSE StackPages + 2

(* The caller of range_allocator_alloc() that has got a range goes on.     *)
LEMMA GotRangeStep ==
    ASSUME TypeOK, NEW s \in Space, Local(s), pc[s] \in {"mmap_alloc", "exec_stack"},
           NEW a \in Page, NEW n \in Nat \ {0}, n = Wanted(s), GotRange(s, a),
           Pages(a, n) \subseteq Page
    PROVE  /\ pc' \in [Space -> PCs] /\ todo' \in [Space -> SUBSET Page]
           /\ req' \in [Space -> Request]
           /\ pc'[s] = IF pc[s] = "mmap_alloc" THEN "mmap_map" ELSE "exec_map_stack"
           /\ \A u \in Space : u # s => pc'[u] = pc[u] /\ todo'[u] = todo[u] /\ req'[u] = req[u]
           /\ todo'[s] \subseteq Pages(a, n)
           /\ pc[s] = "mmap_alloc" => /\ todo'[s] = Pages(a, n) /\ ReqPages(s)' = Pages(a, n)
                                      /\ req'[s].n = n /\ req'[s].kind = req[s].kind
<1>1. CASE pc[s] = "mmap_alloc"
  <2>1. /\ req' = [req EXCEPT ![s].addr = a] /\ todo' = [todo EXCEPT ![s] = Pages(a, req[s].n)]
        /\ Goto(s, "mmap_map") /\ n = req[s].n
    BY <1>1 DEF GotRange, Wanted
  <2>2. /\ pc' \in [Space -> PCs] /\ pc'[s] = "mmap_map"
        /\ \A u \in Space : u # s => pc'[u] = pc[u]
    BY <2>1, GotoFacts DEF PCs
  <2>3. /\ todo' \in [Space -> SUBSET Page] /\ todo'[s] = Pages(a, n)
        /\ \A u \in Space : u # s => todo'[u] = todo[u]
    BY <2>1 DEF TypeOK
  <2>4. /\ req' \in [Space -> Request] /\ req'[s].addr = a /\ req'[s].n = n
        /\ req'[s].kind = req[s].kind
        /\ \A u \in Space : u # s => req'[u] = req[u]
    BY <2>1 DEF TypeOK, Request
  <2>5. ReqPages(s)' = Pages(a, n)
    BY <2>4 DEF ReqPages
  <2> QED BY <1>1, <2>2, <2>3, <2>4, <2>5
<1>2. CASE pc[s] = "exec_stack"
  <2>1. /\ req' = req /\ todo' = [todo EXCEPT ![s] = Pages(a + 1, StackPages)]
        /\ Goto(s, "exec_map_stack") /\ n = StackPages + 2
    BY <1>2 DEF GotRange, Wanted
  <2>2. /\ pc' \in [Space -> PCs] /\ pc'[s] = "exec_map_stack"
        /\ \A u \in Space : u # s => pc'[u] = pc[u]
    BY <2>1, GotoFacts DEF PCs
  <2>3. Pages(a + 1, StackPages) \subseteq Pages(a, n)
    BY <2>1, PagesAssumption DEF Pages, Page
  <2>4. /\ todo' \in [Space -> SUBSET Page] /\ todo'[s] = Pages(a + 1, StackPages)
        /\ \A u \in Space : u # s => todo'[u] = todo[u]
    BY <2>1, <2>3 DEF TypeOK
  <2> QED BY <1>2, <2>1, <2>2, <2>3, <2>4 DEF TypeOK
<1> QED BY <1>1, <1>2

(* The caller that has got no range gives up.                              *)
LEMMA NoRangeStep ==
    ASSUME Inv, NEW s \in Space, pc[s] \in {"mmap_alloc", "exec_stack"}, NoRange(s),
           UNCHANGED <<mem, tables, ranges, user, peer, quick, lost, panic>>,
           lock' \in [Space -> {"free", "own", "foreign"}]
    PROVE  Inv'
<1>1. /\ TypeOK /\ Local(s) /\ pte' = pte /\ shared' = shared /\ pde' = pde /\ req' = req
      /\ ranges' = ranges /\ user' = user
  BY Parts DEF tables, NoRange
<1>2. Grown(s)
  BY <1>1, GrownSame
<1>3. /\ ranges' \in [Space -> Seq([start : Page, size : 1 .. NPages])]
      /\ user' \in [Space -> SUBSET Page] /\ req' \in [Space -> Request]
  BY <1>1 DEF TypeOK
<1>4. CASE pc[s] = "mmap_alloc"
  <2>1. Goto(s, "user") /\ todo' = todo /\ HasFreeList(s)
    BY <1>4 DEF NoRange, HasFreeList
  <2>2. /\ pc' \in [Space -> PCs] /\ pc'[s] = "user"
        /\ \A u \in Space : u # s => pc'[u] = pc[u]
    BY <1>1, <2>1, GotoFacts DEF PCs
  <2>3. Local(s)' /\ \A w \in Page : RefOf(s, w)' = RefOf(s, w)
    BY <1>1, <1>2, <2>1, <2>2, UserStep
  <2>4. Moves(s) /\ pc'[s] \notin {"fork", "clone"}
    BY <1>4, <2>2, Alone DEF Moves, Coupled
  <2>5. todo' \in [Space -> SUBSET Page]
    BY <1>1, <2>1 DEF TypeOK
  <2> QED BY <1>1, <1>3, <1>4, <2>1, <2>2, <2>3, <2>4, <2>5, CalmStep
<1>5. CASE pc[s] = "exec_stack"
  <2>1. Destroy(s) /\ pc[s] \notin Going
    BY <1>5 DEF NoRange, Going
  <2>2. /\ Local(s)' /\ \A w \in Page : RefOf(s, w)' = RefOf(s, w)
        /\ pc' \in [Space -> PCs] /\ todo' \in [Space -> SUBSET Page]
        /\ pc'[s] = "destroy"
        /\ \A u \in Space : u # s => pc'[u] = pc[u] /\ todo'[u] = todo[u]
    BY <1>1, <1>2, <2>1, DestroyStep
  <2>3. Moves(s) /\ pc'[s] \notin {"fork", "clone"}
    BY <1>5, <2>2 DEF Moves, Building, Going
  <2> QED BY <1>1, <1>3, <1>5, <2>2, <2>3, CalmStep
<1> QED BY <1>4, <1>5

(* A space that has got a range is sound.                                  *)
LEMMA GotLocal ==
    ASSUME NEW s \in Space, pc[s] \in {"mmap_alloc", "exec_stack"}, Local(s),
           HasTables(s)', FreeList(s)', shared'[s] \subseteq Mapped(s)',
           NEW A, A \subseteq Page, A \cap Mapped(s)' = {}, A \cap FreePages(ranges'[s]) = {},
           pc'[s] = IF pc[s] = "mmap_alloc" THEN "mmap_map" ELSE "exec_map_stack",
           todo'[s] \subseteq A,
           pc[s] = "mmap_alloc" => /\ todo'[s] = A /\ ReqPages(s)' = A
                                   /\ req'[s].n = req[s].n /\ req'[s].kind = req[s].kind
    PROVE  Local(s)'
<1>1. CASE pc[s] = "mmap_alloc"
  <2>1. Asked(s)' /\ req[s].n > 0
    BY <1>1 DEF Asked, Local
  <2>2. Held(s)'
    BY <1>1, <2>1 DEF Held
  <2>3. \A w \in ReqPages(s)' : w \in todo'[s] <=> w \notin Mapped(s)'
    BY <1>1
  <2> QED BY <1>1, <2>1, <2>2, <2>3 DEF Local, HasFreeList
<1>2. CASE pc[s] = "exec_stack"
  BY <1>2 DEF Local, HasFreeList
<1> QED BY <1>1, <1>2

(* How many pages the caller wants.                                        *)
LEMMA WantedFacts ==
    ASSUME TypeOK, NEW s \in Space, Local(s), pc[s] \in {"mmap_alloc", "exec_stack"}
    PROVE  Wanted(s) \in Nat \ {0} /\ FreeList(s)
<1>1. req[s].n \in Nat
  BY DEF TypeOK, Request
<1>2. StackPages + 2 \in Nat \ {0}
  BY PagesAssumption
<1> QED BY <1>1, <1>2 DEF Wanted, Local, HasFreeList, Asked

(* range_allocator_alloc() keeps the invariant.                            *)
LEMMA AllocStep ==
    ASSUME Inv, NEW s \in Space, pc[s] \in {"mmap_alloc", "exec_stack"},
           NEW n, n = Wanted(s), range_allocator_alloc(s, n)
    PROVE  Inv'
<1> DEFINE i == FirstFit(ranges[s], n)
           a == ranges[s][i].start
           b == a + n
           q == Taken(ranges[s], i, n)
           A == Pages(a, n)
<1>1. TypeOK /\ Frames /\ Local(s) /\ FreeList(s) /\ n \in Nat \ {0} /\ pc[s] \notin Going
      /\ pc[s] \notin {"fork", "clone"}
  BY Parts, WantedFacts DEF Going
<1>2. CASE Panic("ranges")
  BY <1>2, NothingMoves DEF Panic
<1>3. CASE /\ lock' = [lock EXCEPT ![s] = "own"] /\ NoRange(s)
           /\ UNCHANGED <<mem, tables, ranges, user, peer, quick, lost, panic>>
  <2>1. lock' \in [Space -> {"free", "own", "foreign"}]
    BY <1>1, <1>3 DEF TypeOK
  <2> QED BY <1>3, <2>1, NoRangeStep
<1>4. CASE NoRange(s) /\ UNCHANGED <<mem, tables, lists, peer, quick, lost, panic>>
  <2>1. lock' \in [Space -> {"free", "own", "foreign"}] /\ ranges' = ranges /\ user' = user
    BY <1>1, <1>4 DEF TypeOK, lists
  <2> QED BY <1>4, <2>1, NoRangeStep
<1>5. ASSUME i # 0, ranges' = [ranges EXCEPT ![s] = q], GotRange(s, a), shared' = shared,
             lock' = lock, user' = user, peer' = peer, lost' = lost, panic' = panic, UNCHANGED quick,
             Grown(s),
             \/ /\ IsExact(ranges[s], i, n)
                /\ mem' = page_allocator_unref_page(mem, pte[s][a])
                /\ pte' = [pte EXCEPT ![s][a] = NoFrame] /\ pde' = pde
             \/ /\ ~IsExact(ranges[s], i, n) /\ pde'[s][TableOf(b)] # NoFrame
                /\ Accounted(WithTable(s, b), PageSlots, TableSlots', SharedSlots, lost)
                /\ mem' = page_allocator_unref_page(
                              page_allocator_ref_page(WithTable(s, b), pte[s][a]), pte[s][a])
                /\ pte' = HeaderMoves(s, a, b)
      PROVE  Inv'
  <2> DEFINE m == WithTable(s, b)
             isExact == IsExact(ranges[s], i, n)
  <2> HIDE DEF i, a, b, q, isExact, m
  <2>1. /\ FreeListOf(q, NPages) /\ a \in Page /\ A \subseteq Page
        /\ a \in A /\ a \in Mapped(s) /\ a \notin shared[s] /\ a \notin user[s]
        /\ A \cap (Mapped(s) \ {a}) = {}
        /\ A \cap FreePages(q) = {} /\ FreePages(q) \cap user[s] = {}
        /\ isExact => /\ FreePages(q) \cap (Mapped(s) \ {a}) = Headers(q)
                      /\ Headers(q) \cap shared[s] = {}
        /\ ~isExact =>
                 /\ b \in Page /\ b # a /\ b \notin Mapped(s) /\ b \notin A
                 /\ b \notin shared[s] /\ b \notin user[s]
                 /\ FreePages(q) \cap ((Mapped(s) \ {a}) \cup {b}) = Headers(q)
                 /\ Headers(q) \cap shared[s] = {}
    BY <1>1, <1>5, TakenRange DEF i, a, b, q, isExact
  <2>2. /\ pc' \in [Space -> PCs] /\ todo' \in [Space -> SUBSET Page]
        /\ req' \in [Space -> Request]
        /\ pc'[s] = IF pc[s] = "mmap_alloc" THEN "mmap_map" ELSE "exec_map_stack"
        /\ \A u \in Space : u # s => pc'[u] = pc[u] /\ todo'[u] = todo[u] /\ req'[u] = req[u]
        /\ todo'[s] \subseteq A
        /\ pc[s] = "mmap_alloc" => /\ todo'[s] = A /\ ReqPages(s)' = A
                                   /\ req'[s].n = n /\ req'[s].kind = req[s].kind
    BY <1>1, <1>5, <2>1, GotRangeStep
  <2>3. pc'[s] \notin Going
    BY <2>2 DEF Going
  <2>4. q \in Seq([start : Page, size : 1 .. NPages])
    BY <2>1, RangesType DEF FreeListOf
  <2>5. /\ ranges' \in [Space -> Seq([start : Page, size : 1 .. NPages])] /\ ranges'[s] = q
        /\ \A u \in Space : u # s => ranges'[u] = ranges[u]
    BY <1>1, <1>5, <2>4 DEF TypeOK
  <2>6. /\ Frames' /\ mem' \in Memory
        /\ pte' \in [Space -> [Page -> Frame \cup {NoFrame}]]
        /\ \A u \in Space : u # s => pte'[u] = pte[u]
        /\ FreePages(q) \cap Mapped(s)' = Headers(q) /\ Headers(q) \cap shared[s] = {}
        /\ Mapped(s) \ {a} \subseteq Mapped(s)' /\ A \cap Mapped(s)' = {}
        /\ HasTables(s)'
    <3>0. HasTables(s)
      BY <1>1 DEF Local
    <3>1. CASE isExact
      <4>1. /\ mem' = page_allocator_unref_page(mem, pte[s][a])
            /\ pte' = [pte EXCEPT ![s][a] = NoFrame] /\ pde' = pde
        BY <1>5, <3>1 DEF isExact
      <4>2. /\ Frames' /\ mem' \in Memory
            /\ pte' \in [Space -> [Page -> Frame \cup {NoFrame}]]
            /\ \A u \in Space : u # s => pte'[u] = pte[u]
            /\ Mapped(s)' = Mapped(s) \ {a}
        BY <1>1, <1>5, <2>1, <2>2, <2>3, <4>1, HeaderDropped
      <4>3. HasTables(s)'
        BY <3>0, <4>1, <4>2 DEF HasTables
      <4> QED BY <2>1, <3>1, <4>2, <4>3
    <3>2. CASE ~isExact
      <4>1. /\ mem' = page_allocator_unref_page(page_allocator_ref_page(m, pte[s][a]), pte[s][a])
            /\ Accounted(m, PageSlots, TableSlots', SharedSlots, lost)
            /\ pte' = HeaderMoves(s, a, b) /\ pde'[s][TableOf(b)] # NoFrame
        BY <1>5, <3>2 DEF isExact, m
      <4>2. /\ Frames' /\ mem' \in Memory
            /\ pte' \in [Space -> [Page -> Frame \cup {NoFrame}]]
            /\ \A u \in Space : u # s => pte'[u] = pte[u]
            /\ Mapped(s)' = (Mapped(s) \ {a}) \cup {b}
        BY <1>1, <1>5, <2>1, <2>2, <2>3, <3>2, <4>1, HeaderMoved
      <4>3. HasTables(s)'
        <5>1. Mapped(s) \subseteq Page
          BY DEF Mapped
        <5> QED BY <1>5, <3>0, <4>1, <4>2, <5>1, TableOfPage DEF HasTables, Grown
      <4> QED BY <2>1, <3>2, <4>2, <4>3
    <3> QED BY <3>1, <3>2
  <2>7. shared'[s] \subseteq Mapped(s)'
    BY <1>1, <1>5, <2>1, <2>6 DEF Local
  <2>8. FreeList(s)'
    <3>1. user[s] \subseteq Mapped(s)'
      BY <1>1, <2>1, <2>6 DEF FreeList
    <3> QED BY <1>5, <2>1, <2>5, <2>6, <3>1 DEF FreeList
  <2>9. Local(s)'
    <3>1. A \cap FreePages(ranges'[s]) = {}
      BY <2>1, <2>5
    <3>2. pc[s] = "mmap_alloc" => n = req[s].n
      BY DEF Wanted
    <3> HIDE DEF A
    <3> QED BY <1>1, <2>1, <2>2, <2>6, <2>7, <2>8, <3>1, <3>2, GotLocal
  <2>10. TypeOK'
    <3>1. quickmap_lock' = quickmap_lock /\ quickmapped' = quickmapped
      BY <1>5 DEF quick
    <3> QED BY <1>1, <1>5, <2>2, <2>5, <2>6, <3>1 DEF TypeOK, Grown
  <2>11. \A u \in Space : u # s => Kept(u)
    BY <1>5, <2>2, <2>5, <2>6 DEF Kept, Grown
  <2>12. Moves(s) /\ pc'[s] \notin {"fork", "clone"}
    BY <2>2, Alone DEF Moves, Building, Coupled
  <2> QED BY <1>1, <1>5, <2>6, <2>9, <2>10, <2>11, <2>12, SoloStep
<1>6. CASE /\ i # 0 /\ IsExact(ranges[s], i, n)
           /\ ranges' = [ranges EXCEPT ![s] = q]
           /\ mem' = page_allocator_unref_page(mem, pte[s][a])
           /\ pte' = [pte EXCEPT ![s][a] = NoFrame]
           /\ GotRange(s, a)
           /\ UNCHANGED <<pde, shared, lock, user, peer, quick, lost, panic>>
  <2>1. Grown(s)
    BY <1>1, <1>6, GrownSame
  <2> QED BY <1>5, <1>6, <2>1
<1>7. CASE /\ i # 0 /\ ~IsExact(ranges[s], i, n) /\ ~TableFails(s, b)
           /\ ranges' = [ranges EXCEPT ![s] = q]
           /\ mem' = page_allocator_unref_page(
                         page_allocator_ref_page(WithTable(s, b), pte[s][a]), pte[s][a])
           /\ AddTable(s, b)
           /\ pte' = HeaderMoves(s, a, b)
           /\ GotRange(s, a)
           /\ UNCHANGED <<shared, lock, user, peer, quick, lost, panic>>
  <2>1. b \in Page
    BY <1>1, <1>7, TakenRange
  <2> HIDE DEF b
  <2>2. /\ Accounted(WithTable(s, b), PageSlots, TableSlots', SharedSlots, lost)
        /\ Grown(s) /\ pde'[s][TableOf(b)] # NoFrame
    BY <1>1, <1>7, <2>1, TableAdded
  <2> QED BY <1>5, <1>7, <2>2
<1>8. ranges'[s] = ranges'[s]
  OBVIOUS
<1>9. ranges' = [ranges EXCEPT ![s] = q] <=> ranges' = [ranges EXCEPT ![s] = Taken(@, i, n)]
  OBVIOUS
<1> HIDE DEF q
<1> QED BY <1>2, <1>3, <1>4, <1>6, <1>7, <1>9 DEF range_allocator_alloc

(* mmap() asking for a range keeps the invariant.                          *)
LEMMA MmapAllocStep ==
    ASSUME Inv, NEW s \in Space, MmapAlloc(s)
    PROVE  Inv'
  BY AllocStep DEF MmapAlloc, At, Wanted

(* exec() asking for the range of the stack keeps the invariant.           *)
LEMMA ExecStackStep ==
    ASSUME Inv, NEW s \in Space, ExecStack(s)
    PROVE  Inv'
  BY AllocStep DEF ExecStack, At, Wanted

(* The free list after pages that are neither free nor mapped were given   *)
(* back.                                                                   *)
LEMMA ReturnedRange ==
    ASSUME TypeOK, NEW s \in Space, Local(s), FreeList(s), NEW n \in Nat \ {0}, NEW a \in Page,
           Pages(a, n) \subseteq Page, Pages(a, n) \cap FreePages(ranges[s]) = {},
           Pages(a, n) \cap Mapped(s) = {}, Pages(a, n) \cap user[s] = {},
           NEW q, q = Returned(ranges[s], a, n), NEW b, b = a + n,
           NEW prev, prev = TouchesPrev(ranges[s], a), NEW next, next = TouchesNext(ranges[s], a, n)
    PROVE  /\ FreeListOf(q, NPages) /\ FreePages(q) \cap user[s] = {}
           /\ a \notin Mapped(s) /\ a \notin shared[s]
           /\ next => /\ b \in Page /\ b # a /\ b \in Mapped(s) /\ b \notin shared[s]
                      /\ b \notin user[s]
                      /\ ranges[s][Before(ranges[s], a) + 1].start = b
           /\ Headers(q) \cap shared[s] = {}
           /\ prev /\ ~next => FreePages(q) \cap Mapped(s) = Headers(q)
           /\ prev /\ next => FreePages(q) \cap (Mapped(s) \ {b}) = Headers(q)
           /\ ~prev /\ next => FreePages(q) \cap ((Mapped(s) \ {b}) \cup {a}) = Headers(q)
           /\ ~prev /\ ~next => FreePages(q) \cap (Mapped(s) \cup {a}) = Headers(q)
<1> DEFINE r == ranges[s]
           M == Mapped(s)
           A == Pages(a, n)
           F == FreePages(r)
           H == Headers(r)
<1>1. /\ FreeListOf(r, NPages) /\ F \cap M = H /\ F \cap user[s] = {} /\ H \cap shared[s] = {}
      /\ shared[s] \subseteq M
  BY DEF FreeList, Local
<1>2. NPages \in Nat
  BY PagesAssumption
<1>3. A = a .. a + n - 1 /\ a \in Nat /\ a \in A /\ b # a
  BY DEF Pages, Page
<1>4. a + n <= NPages
  <2>1. a + n - 1 \in A
    BY <1>3
  <2>2. a + n - 1 \in 0 .. NPages - 1
    BY <2>1 DEF Page
  <2> QED BY <1>2, <1>3, <2>2
<1>5. /\ FreeListOf(q, NPages)
      /\ FreePages(q) = F \cup A
      /\ Headers(q) = (H \ (IF next THEN {b} ELSE {})) \cup (IF prev THEN {} ELSE {a})
      /\ next => b \in H /\ r[Before(r, a) + 1].start = b
  <2>1. /\ (a .. a + n - 1) \cap F = {} /\ q = Returned(r, a, n)
        /\ next = TouchesNext(r, a, n) /\ prev = TouchesPrev(r, a)
    BY <1>3
  <2> HIDE DEF r, A
  <2> QED BY <1>1, <1>2, <1>3, <1>4, <2>1, ReturnedFacts
<1>6. H \subseteq F
  BY <1>1, <1>2, HeadersAreFree
<1> HIDE DEF r, A, M, F, H
<1>7. /\ A \cap F = {} /\ A \cap M = {} /\ A \cap user[s] = {}
  BY DEF A, F, M, r
<1>8. M \subseteq Page
  BY DEF M, Mapped
<1>9. a \notin M /\ a \notin shared[s]
  BY <1>1, <1>3, <1>7
<1>10. ASSUME next
       PROVE  /\ b \in Page /\ b # a /\ b \in M /\ b \notin shared[s] /\ b \notin user[s]
              /\ r[Before(r, a) + 1].start = b
  BY <1>1, <1>3, <1>5, <1>6, <1>8, <1>10
<1>11. FreePages(q) \cap user[s] = {}
  BY <1>1, <1>5, <1>7
<1>12. Headers(q) \cap shared[s] = {}
  BY <1>1, <1>5, <1>9
<1>13. CASE prev /\ ~next
  BY <1>1, <1>5, <1>7, <1>9, <1>10, <1>11, <1>12, <1>13 DEF M, r
<1>14. CASE prev /\ next
  <2>1. FreePages(q) \cap (M \ {b}) = Headers(q)
    BY <1>1, <1>5, <1>7, <1>14
  <2> QED BY <1>5, <1>9, <1>10, <1>11, <1>12, <1>14, <2>1 DEF M, r
<1>15. CASE ~prev /\ next
  <2>1. FreePages(q) \cap ((M \ {b}) \cup {a}) = Headers(q)
    BY <1>1, <1>3, <1>5, <1>7, <1>15
  <2> QED BY <1>5, <1>9, <1>10, <1>11, <1>12, <1>15, <2>1 DEF M, r
<1>16. CASE ~prev /\ ~next
  <2>1. FreePages(q) \cap (M \cup {a}) = Headers(q)
    BY <1>1, <1>3, <1>5, <1>7, <1>16
  <2> QED BY <1>5, <1>9, <1>10, <1>11, <1>12, <1>16, <2>1 DEF M, r
<1> QED BY <1>13, <1>14, <1>15, <1>16

(* A free list that has got its pages back, in any of the ways there are.  *)
LEMMA GivenBack ==
    ASSUME Inv, NEW s \in Space, pc[s] = "munmap_free", Goto(s, "user"),
           req' = [req EXCEPT ![s] = NoRequest],
           UNCHANGED <<shared, lock, user, todo, peer, quick, lost, panic>>,
           NEW q, FreeListOf(q, NPages), ranges' = [ranges EXCEPT ![s] = q],
           Frames', mem' \in Memory, Grown(s),
           pte' \in [Space -> [Page -> Frame \cup {NoFrame}]],
           \A u \in Space : u # s => pte'[u] = pte[u],
           FreePages(q) \cap Mapped(s)' = Headers(q), FreePages(q) \cap user[s] = {},
           Headers(q) \cap shared[s] = {},
           shared[s] \subseteq Mapped(s)', user[s] \subseteq Mapped(s)', HasTables(s)'
    PROVE  Inv'
<1>1. TypeOK /\ Local(s) /\ shared' = shared /\ user' = user /\ lock' = lock /\ todo' = todo
      /\ peer' = peer /\ UNCHANGED quick /\ lost' = lost /\ panic' = panic
      /\ quickmap_lock' = quickmap_lock /\ quickmapped' = quickmapped /\ peer[s] = NoSpace
  BY Parts, Alone DEF quick
<1>2. /\ pc' \in [Space -> PCs] /\ pc'[s] = "user"
      /\ \A u \in Space : u # s => pc'[u] = pc[u]
  BY <1>1, GotoFacts DEF PCs
<1>3. /\ req' \in [Space -> Request]
      /\ \A u \in Space : u # s => req'[u] = req[u]
  BY <1>1, NoRequestFacts DEF TypeOK
<1>4. q \in Seq([start : Page, size : 1 .. NPages])
  BY RangesType DEF FreeListOf
<1>5. /\ ranges' \in [Space -> Seq([start : Page, size : 1 .. NPages])] /\ ranges'[s] = q
      /\ \A u \in Space : u # s => ranges'[u] = ranges[u]
  BY <1>1, <1>4 DEF TypeOK
<1>6. FreeList(s)'
  BY <1>1, <1>5 DEF FreeList
<1>7. Local(s)'
  BY <1>1, <1>2, <1>6 DEF Local, HasFreeList
<1>8. TypeOK'
  BY <1>1, <1>2, <1>3, <1>5 DEF TypeOK, Grown
<1>9. \A u \in Space : u # s => Kept(u)
  BY <1>1, <1>2, <1>3, <1>5 DEF Kept, Grown
<1>10. Moves(s)
  BY <1>1, <1>2 DEF Moves, Coupled
<1> QED BY <1>1, <1>2, <1>7, <1>8, <1>9, <1>10, SoloStep

(* A range that is lost for want of a frame keeps the invariant.           *)
LEMMA FreeFailsStep ==
    ASSUME Inv, NEW s \in Space, pc[s] = "munmap_free", Goto(s, "user"),
           req' = [req EXCEPT ![s] = NoRequest], Grown(s), mem' \in Memory, Frames',
           UNCHANGED <<pte, ranges, shared, lock, user, todo, peer, quick, lost, panic>>
    PROVE  Inv'
<1>1. TypeOK /\ Local(s) /\ pte' = pte /\ shared' = shared /\ user' = user /\ ranges' = ranges
      /\ lock' = lock /\ todo' = todo /\ peer' = peer /\ lost' = lost /\ UNCHANGED quick
      /\ panic' = panic /\ HasFreeList(s) /\ peer[s] = NoSpace
  BY Parts, Alone DEF HasFreeList
<1>2. /\ pc' \in [Space -> PCs] /\ pc'[s] = "user"
      /\ \A u \in Space : u # s => pc'[u] = pc[u]
  BY <1>1, GotoFacts DEF PCs
<1>3. /\ req' \in [Space -> Request]
      /\ \A u \in Space : u # s => req'[u] = req[u]
  BY <1>1, NoRequestFacts DEF TypeOK
<1>4. Local(s)'
  BY <1>1, <1>2, UserStep
<1>5. TypeOK'
  <2>1. quickmap_lock' = quickmap_lock /\ quickmapped' = quickmapped
    BY <1>1 DEF quick
  <2> QED BY <1>1, <1>2, <1>3, <2>1 DEF TypeOK, Grown
<1>6. \A u \in Space : u # s => Kept(u)
  BY <1>1, <1>2, <1>3 DEF Kept, Grown
<1>7. Moves(s)
  BY <1>1, <1>2 DEF Moves, Coupled
<1> QED BY <1>1, <1>2, <1>4, <1>5, <1>6, <1>7, SoloStep

(* Ranges that are merged move no header.                                  *)
LEMMA FreeSlotsSame ==
    ASSUME Inv, NEW s \in Space, pc[s] = "munmap_free", Goto(s, "user"), pte' = pte, todo' = todo,
           shared' = shared
    PROVE  PageSlots' = PageSlots /\ SharedSlots' = SharedSlots
<1>1. TypeOK
  BY Parts
<1>2. /\ pc'[s] = "user" /\ \A u \in Space : u # s => pc'[u] = pc[u]
  BY <1>1, GotoFacts DEF PCs
<1>3. \A w \in Page : RefOf(s, w)' = RefOf(s, w)
  BY <1>2, SameRefs DEF Going
<1>4. SharedSlots' = SharedSlots
  BY DEF SharedSlots
<1> QED BY <1>2, <1>3, <1>4, SameSlots

(* range_allocator_free() keeps the invariant.                             *)
LEMMA FreeStep ==
    ASSUME Inv, NEW s \in Space, range_allocator_free(s)
    PROVE  Inv'
<1> DEFINE a == req[s].addr
           n == req[s].n
           b == a + n
           r == ranges[s]
           q == Returned(r, a, n)
           next == r[Before(r, a) + 1].start
           prevTouches == TouchesPrev(r, a)
           nextTouches == TouchesNext(r, a, n)
           m == WithTable(s, a)
           Rest == UNCHANGED <<shared, lock, user, todo, peer, quick, lost, panic>>
           Back == Goto(s, "user") /\ req' = [req EXCEPT ![s] = NoRequest]
           Give == ranges' = [ranges EXCEPT ![s] = q]
<1>1. /\ TypeOK /\ Frames /\ Local(s) /\ FreeList(s) /\ pc[s] = "munmap_free"
      /\ pc[s] \notin Going
  BY Parts DEF range_allocator_free, At, Local, HasFreeList, Going
<1>2. /\ n \in Nat \ {0} /\ a \in Page /\ Pages(a, n) \subseteq Page
      /\ Pages(a, n) \cap FreePages(r) = {}
      /\ Pages(a, n) \cap Mapped(s) = {} /\ Pages(a, n) \cap user[s] = {}
  <2>1. n \in Nat /\ a \in Page
    BY <1>1 DEF TypeOK, Request
  <2> QED BY <1>1, <2>1 DEF Local, Held, ReqPages
<1>3. \/ Panic("ranges")
      \/ /\ Back /\ Rest
         /\ \/ prevTouches /\ ~nextTouches /\ Give /\ UNCHANGED <<mem, pde, pte>>
            \/ /\ prevTouches /\ nextTouches /\ Give
               /\ mem' = page_allocator_unref_page(mem, pte[s][next])
               /\ pte' = [pte EXCEPT ![s][next] = NoFrame]
               /\ pde' = pde
            \/ /\ ~prevTouches /\ nextTouches /\ ~TableFails(s, a) /\ Give
               /\ mem' = page_allocator_unref_page(
                             page_allocator_ref_page(m, pte[s][next]), pte[s][next])
               /\ AddTable(s, a)
               /\ pte' = HeaderMoves(s, next, a)
            \/ /\ ~prevTouches /\ ~nextTouches /\ ~TableFails(s, a) /\ ~Exhausted(m) /\ Give
               /\ mem' = page_allocator_alloc(m)
               /\ AddTable(s, a)
               /\ pte' = [pte EXCEPT ![s][a] = bitmap_find_first_set(m)]
            \/ /\ TableFails(s, a) /\ mem' = mem /\ pde' = pde
               /\ UNCHANGED <<ranges, pte>>
            \/ /\ ~TableFails(s, a) /\ mem' = m /\ AddTable(s, a)
               /\ UNCHANGED <<ranges, pte>>
  <2> HIDE DEF m, prevTouches, nextTouches, next
  <2>1. Give <=> ranges' = [ranges EXCEPT ![s] = Returned(@, a, n)]
    OBVIOUS
  <2> HIDE DEF Give, Rest, q
  <2> QED BY <2>1, Zenon DEF range_allocator_free, m, prevTouches, nextTouches, next, Rest
<1>4. /\ FreeListOf(q, NPages) /\ FreePages(q) \cap user[s] = {}
      /\ a \notin Mapped(s) /\ a \notin shared[s]
      /\ nextTouches => /\ b \in Page /\ b # a /\ b \in Mapped(s) /\ b \notin shared[s]
                        /\ b \notin user[s] /\ next = b
      /\ Headers(q) \cap shared[s] = {}
      /\ prevTouches /\ ~nextTouches => FreePages(q) \cap Mapped(s) = Headers(q)
      /\ prevTouches /\ nextTouches => FreePages(q) \cap (Mapped(s) \ {b}) = Headers(q)
      /\ ~prevTouches /\ nextTouches => FreePages(q) \cap ((Mapped(s) \ {b}) \cup {a}) = Headers(q)
      /\ ~prevTouches /\ ~nextTouches => FreePages(q) \cap (Mapped(s) \cup {a}) = Headers(q)
  <2> HIDE DEF a, n, q, b, prevTouches, nextTouches
  <2> QED BY <1>1, <1>2, ReturnedRange DEF q, b, prevTouches, nextTouches
<1>5. /\ HasTables(s) /\ shared[s] \subseteq Mapped(s) /\ user[s] \subseteq Mapped(s)
      /\ Mapped(s) \subseteq Page
  BY <1>1 DEF Local, FreeList, Mapped
<1>6. CASE Panic("ranges")
  BY <1>6, NothingMoves DEF Panic
<1>7. ASSUME Back, Rest
      PROVE  /\ pc'[s] \notin Going /\ \A u \in Space : u # s => pc'[u] = pc[u] /\ todo'[u] = todo[u]
             /\ shared' = shared /\ lost' = lost
             /\ pte' = pte => PageSlots' = PageSlots /\ SharedSlots' = SharedSlots
  <2>1. pc'[s] = "user" /\ \A u \in Space : u # s => pc'[u] = pc[u]
    BY <1>1, <1>7, GotoFacts DEF PCs
  <2> QED BY <1>1, <1>7, <2>1, FreeSlotsSame DEF Going
<1> HIDE DEF a, b, n, q, next, prevTouches, nextTouches, m
<1>8. CASE Back /\ Rest /\ prevTouches /\ ~nextTouches /\ Give /\ UNCHANGED <<mem, pde, pte>>
  <2>1. Mapped(s)' = Mapped(s) /\ PageSlots' = PageSlots /\ SharedSlots' = SharedSlots
        /\ pde' = pde /\ pte' = pte /\ mem' = mem
    BY <1>7, <1>8, MappedKept
  <2>2. TableSlots' = TableSlots /\ Grown(s) /\ mem' \in Memory
        /\ pte' \in [Space -> [Page -> Frame \cup {NoFrame}]]
    BY <1>1, <2>1, GrownSame DEF TypeOK
  <2>3. Frames'
    BY <1>1, <1>7, <1>8, <2>1, <2>2 DEF Frames
  <2>4. HasTables(s)'
    BY <1>5, <2>1 DEF HasTables
  <2> QED BY <1>1, <1>4, <1>5, <1>8, <2>1, <2>2, <2>3, <2>4, GivenBack
<1>9. CASE /\ Back /\ Rest /\ prevTouches /\ nextTouches /\ Give
           /\ mem' = page_allocator_unref_page(mem, pte[s][next])
           /\ pte' = [pte EXCEPT ![s][next] = NoFrame]
           /\ pde' = pde
  <2>1. /\ Frames' /\ mem' \in Memory
        /\ pte' \in [Space -> [Page -> Frame \cup {NoFrame}]]
        /\ \A u \in Space : u # s => pte'[u] = pte[u]
        /\ Mapped(s)' = Mapped(s) \ {b}
    BY <1>1, <1>4, <1>7, <1>9, HeaderDropped
  <2>2. HasTables(s)' /\ Grown(s)
    BY <1>1, <1>5, <1>9, <2>1, GrownSame DEF HasTables
  <2>3. shared[s] \subseteq Mapped(s)' /\ user[s] \subseteq Mapped(s)'
    BY <1>4, <1>5, <1>9, <2>1
  <2> QED BY <1>1, <1>4, <1>9, <2>1, <2>2, <2>3, GivenBack
<1>10. CASE /\ Back /\ Rest /\ ~prevTouches /\ nextTouches /\ ~TableFails(s, a) /\ Give
            /\ mem' = page_allocator_unref_page(
                          page_allocator_ref_page(m, pte[s][next]), pte[s][next])
            /\ AddTable(s, a)
            /\ pte' = HeaderMoves(s, next, a)
  <2>1. /\ Accounted(m, PageSlots, TableSlots', SharedSlots, lost)
        /\ Grown(s) /\ pde'[s][TableOf(a)] # NoFrame
    BY <1>1, <1>2, <1>10, TableAdded DEF m
  <2>2. /\ Frames' /\ mem' \in Memory
        /\ pte' \in [Space -> [Page -> Frame \cup {NoFrame}]]
        /\ \A u \in Space : u # s => pte'[u] = pte[u]
        /\ Mapped(s)' = (Mapped(s) \ {b}) \cup {a}
    BY <1>1, <1>2, <1>4, <1>7, <1>10, <2>1, HeaderMoved
  <2>3. HasTables(s)'
    BY <1>5, <2>1, <2>2, TableOfPage DEF HasTables, Grown
  <2>4. shared[s] \subseteq Mapped(s)' /\ user[s] \subseteq Mapped(s)'
    BY <1>4, <1>5, <1>10, <2>2
  <2> QED BY <1>1, <1>4, <1>10, <2>1, <2>2, <2>3, <2>4, GivenBack
<1>11. CASE /\ Back /\ Rest /\ ~prevTouches /\ ~nextTouches /\ ~TableFails(s, a)
            /\ ~Exhausted(m) /\ Give
            /\ mem' = page_allocator_alloc(m)
            /\ AddTable(s, a)
            /\ pte' = [pte EXCEPT ![s][a] = bitmap_find_first_set(m)]
  <2> DEFINE f == bitmap_find_first_set(m)
             e == <<s, a>>
  <2>1. /\ Accounted(m, PageSlots, TableSlots', SharedSlots, lost)
        /\ Grown(s) /\ pde'[s][TableOf(a)] # NoFrame
    BY <1>1, <1>2, <1>11, TableAdded DEF m
  <2>2. f \in RAM /\ f \in Frame /\ f # NoFrame /\ f \in Frame \cup {NoFrame}
    BY <1>11, <2>1, FirstIsFree, FrameFacts
  <2>3. pte' = [pte EXCEPT ![s][a] = f]
    BY <1>11
  <2> HIDE DEF f
  <2>4. pte[s][a] = NoFrame
    BY <1>2, <1>4 DEF Mapped
  <2>5. /\ PageSlots' = Put(PageSlots, e, f) /\ e \in PageSlot
        /\ PageSlots[e] = pte[s][a]
    BY <1>1, <1>2, <1>7, <1>11, <2>2, <2>3, SlotsAfter
  <2>6. SharesBut(PageSlots, SharedSlots, SharedSlots', e)
    BY <1>7, <1>11, SharedSame
  <2> HIDE DEF e
  <2>7. Accounted(page_allocator_alloc(m), PageSlots', TableSlots', SharedSlots', lost)
    BY <1>11, <2>1, <2>4, <2>5, <2>6, PageDrawn DEF f
  <2>8. Frames' /\ mem' \in Memory
    BY <1>7, <1>11, <2>7 DEF Frames, Accounted
  <2>9. /\ pte' \in [Space -> [Page -> Frame \cup {NoFrame}]]
        /\ \A u \in Space : u # s => pte'[u] = pte[u]
        /\ Mapped(s)' = Mapped(s) \cup {a}
    BY <1>1, <1>2, <2>2, <2>3, PteAfter
  <2>10. HasTables(s)'
    BY <1>5, <2>1, <2>9, TableOfPage DEF HasTables, Grown
  <2> QED BY <1>1, <1>4, <1>5, <1>11, <2>1, <2>8, <2>9, <2>10, GivenBack
<1>12. CASE /\ Back /\ Rest /\ TableFails(s, a) /\ mem' = mem /\ pde' = pde
            /\ UNCHANGED <<ranges, pte>>
  <2>1. TableSlots' = TableSlots /\ Grown(s) /\ mem' \in Memory
    BY <1>1, <1>12, GrownSame DEF TypeOK
  <2>2. Frames'
    BY <1>1, <1>7, <1>12, <2>1 DEF Frames
  <2> QED BY <1>1, <1>12, <2>1, <2>2, FreeFailsStep
<1>13. CASE /\ Back /\ Rest /\ ~TableFails(s, a) /\ mem' = m /\ AddTable(s, a)
            /\ UNCHANGED <<ranges, pte>>
  <2>1. /\ Accounted(m, PageSlots, TableSlots', SharedSlots, lost) /\ Grown(s)
    BY <1>1, <1>2, <1>13, TableAdded DEF m
  <2>2. Frames' /\ mem' \in Memory
    BY <1>7, <1>13, <2>1 DEF Frames, Accounted
  <2> QED BY <1>1, <1>13, <2>1, <2>2, FreeFailsStep
<1> HIDE DEF Rest, Back, Give
<1> QED BY <1>3, <1>6, <1>8, <1>9, <1>10, <1>11, <1>12, <1>13

-----------------------------------------------------------------------------
(* Steps that concern both spaces of a fork() or exec().                   *)

(* The two spaces of a fork() or exec() know each other.                   *)
LEMMA PeerFacts ==
    ASSUME Inv, NEW u \in Space, peer[u] # NoSpace
    PROVE  peer[u] \in Space /\ peer[u] # u /\ peer[peer[u]] = u
  BY Parts DEF Pair, Paired

(* Spaces that belong to one another, or to none.                          *)
Couple(s, t) == /\ s \in Space /\ t \in Space /\ s # t
                /\ \/ peer[s] = t /\ peer[t] = s
                   \/ peer[s] = NoSpace /\ peer[t] = NoSpace

(* Nobody else is concerned with either of them.                           *)
LEMMA OthersApart ==
    ASSUME Inv, NEW s, NEW t, Couple(s, t), NEW u \in Space, u \notin {s, t}
    PROVE  peer[u] \notin {s, t}
<1>1. s # NoSpace /\ t # NoSpace
  BY SpaceAssumption DEF Couple
<1>2. ASSUME peer[u] \in {s, t}
      PROVE  FALSE
  <2>1. peer[peer[u]] = u
    BY <1>1, <1>2, PeerFacts
  <2> QED BY <1>1, <1>2, <2>1, SpaceAssumption DEF Couple
<1> QED BY <1>2

OthersKept(s, t) == \A u \in Space : u \notin {s, t} => Kept(u) /\ peer'[u] = peer[u]

(* A step of two spaces, with the frames accounted for, keeps the          *)
(* invariant.                                                              *)
LEMMA PairStep ==
    ASSUME Inv, TypeOK', Frames', Quick', NEW s, NEW t, Couple(s, t), OthersKept(s, t),
           Sound(s)', Sound(t)'
    PROVE  Inv'
<1>1. ASSUME NEW u \in Space, u \notin {s, t}
      PROVE  Sound(u)'
  <2>1. /\ Local(u) /\ Pair(u) /\ Cloned(u) /\ Kept(u) /\ peer'[u] = peer[u]
        /\ peer[u] \notin {s, t}
    BY <1>1, Parts, OthersApart DEF OthersKept
  <2>2. Local(u)'
    BY <2>1, LocalKept
  <2>3. peer[u] # NoSpace => Kept(peer[u]) /\ peer'[peer[u]] = peer[peer[u]]
    BY <2>1, PeerFacts DEF OthersKept
  <2>4. Pair(u)'
    <3>1. CASE peer[u] = NoSpace
      BY <2>1, <3>1, SpaceAssumption DEF Pair, Paired, Kept
    <3>2. CASE peer[u] # NoSpace
      BY <2>1, <2>3, <3>2 DEF Pair, Paired, Kept
    <3> QED BY <3>1, <3>2
  <2>5. Cloned(u)'
    <3>1. pc[u] = "clone" => peer[u] # NoSpace
      BY <2>1, SpaceAssumption DEF Pair, Paired, Coupled
    <3> QED BY <2>1, <2>3, <3>1, ClonedKept
  <2> QED BY <2>2, <2>4, <2>5 DEF Sound
<1>2. \A u \in Space : Sound(u)'
  BY <1>1
<1> QED BY <1>2 DEF Inv

(* The quickmap page stays with the fork() that holds it.                  *)
LEMMA QuickKept ==
    ASSUME Inv, UNCHANGED quick, NEW s, NEW t, Couple(s, t), OthersKept(s, t),
           pc[s] # "clone", pc[t] # "clone"
    PROVE  Quick'
<1>1. quickmap_lock' = quickmap_lock /\ quickmapped' = quickmapped
  BY DEF quick
<1>2. CASE quickmap_lock = NoSpace
  BY <1>1, <1>2 DEF Inv, Quick
<1>3. CASE quickmap_lock # NoSpace
  <2> DEFINE q == quickmap_lock
             w == peer[q]
  <2>1. q \in Space /\ pc[q] = "fork" /\ pc[w] = "clone"
    BY <1>3 DEF Inv, Quick, TypeOK
  <2>2. w # NoSpace
    BY <2>1, Parts, SpaceAssumption DEF Pair, Paired, Coupled
  <2>3. w \in Space /\ w \notin {s, t}
    BY <2>1, <2>2, PeerFacts
  <2>4. q \notin {s, t}
    BY <2>2, <2>3 DEF Couple
  <2>5. Kept(q) /\ Kept(w) /\ peer'[q] = peer[q]
    BY <2>1, <2>3, <2>4 DEF OthersKept
  <2> QED BY <1>1, <1>3, <2>1, <2>5 DEF Inv, Quick, Kept
<1> QED BY <1>2, <1>3

(* A space at a point of a call where nothing in particular is going on.   *)
Quiet == {"user", "fork", "fork_done", "exec", "exec_done"}

(* A step of two spaces that moves no page keeps the invariant.            *)
LEMMA QuietStep ==
    ASSUME NEW s \in Space, Local(s), HasFreeList(s), pc'[s] \in Quiet,
           pde'[s] = pde[s], pte'[s] = pte[s], shared'[s] = shared[s],
           ranges'[s] = ranges[s], user'[s] = user[s]
    PROVE  Local(s)' /\ \A w \in Page : RefOf(s, w)' = RefOf(s, w)
<1>1. Mapped(s)' = Mapped(s)
  BY MappedKept
<1>2. HasTables(s)'
  BY <1>1 DEF Local, HasFreeList, HasTables
<1>3. FreeList(s)'
  BY <1>1 DEF Local, FreeList
<1>4. Local(s)'
  BY <1>1, <1>2, <1>3 DEF Local, Quiet
<1>5. \A w \in Page : RefOf(s, w)' = RefOf(s, w)
  BY RefFacts, RefFactsPrimed DEF HasFreeList, Going, Quiet
<1> QED BY <1>4, <1>5

(* Spaces that a step leaves alone keep their slots.                       *)
LEMMA PairSlots ==
    ASSUME NEW s, NEW t, Couple(s, t), OthersKept(s, t),
           \A w \in Page : RefOf(s, w)' = RefOf(s, w) /\ RefOf(t, w)' = RefOf(t, w)
    PROVE  PageSlots' = PageSlots
<1>1. ASSUME NEW u \in Space, NEW w \in Page
      PROVE  RefOf(u, w)' = RefOf(u, w)
  BY RefsKept DEF OthersKept, Kept
<1> QED BY <1>1, PageSlotsSame

(* A fork() that gets the lock of the quickmap page keeps the invariant.   *)
LEMMA CloneLockStep ==
    ASSUME Inv, NEW t \in Space, CloneLock(t)
    PROVE  Inv'
<1>1. /\ pc[t] = "clone" /\ quickmap_lock = NoSpace /\ quickmap_lock' = peer[t]
      /\ quickmapped' = quickmapped
      /\ UNCHANGED <<mem, tables, lists, calls, lost, panic>>
      /\ pc' = pc /\ peer' = peer /\ todo' = todo /\ pde' = pde /\ pte' = pte /\ shared' = shared
      /\ ranges' = ranges /\ user' = user /\ req' = req /\ mem' = mem /\ lost' = lost
      /\ lock' = lock /\ panic' = panic
  BY DEF CloneLock, At, tables, lists, calls
<1> DEFINE s == peer[t]
<1>2. s \in Space /\ peer[s] = t /\ s # t /\ pc[s] = "fork" /\ TypeOK /\ Frames /\ Quick
  BY <1>1, Parts DEF Pair, Paired, Coupled, Building, Going
<1>3. TypeOK'
  BY <1>1, <1>2 DEF TypeOK
<1>4. quickmapped = NoFrame
  BY <1>1, <1>2 DEF Quick
<1>5. Quick'
  BY <1>1, <1>2, <1>4 DEF Quick
<1>6. \A u \in Space : Kept(u)
  BY <1>1 DEF Kept
<1>7. PageSlots' = PageSlots /\ TableSlots' = TableSlots /\ SharedSlots' = SharedSlots
  BY <1>1, RefsKept, PageSlotsSame DEF TableSlots, SharedSlots
<1>8. Frames'
  BY <1>1, <1>2, <1>7 DEF Frames
<1>9. ASSUME NEW u \in Space
      PROVE  Sound(u)'
  <2>1. Local(u) /\ Pair(u) /\ Cloned(u)
    BY Parts
  <2>2. Local(u)'
    BY <1>6, <2>1, LocalKept
  <2>3. Pair(u)'
    BY <1>1, <2>1 DEF Pair, Paired
  <2>4. pc[u] = "clone" => Kept(peer[u])
    BY <2>1, <1>6 DEF Pair, Paired, Coupled
  <2>5. Cloned(u)'
    BY <1>1, <1>6, <2>1, <2>4, ClonedKept
  <2> QED BY <2>2, <2>3, <2>5 DEF Sound
<1> QED BY <1>3, <1>5, <1>8, <1>9 DEF Inv

(* The types when only the calls have gone on.                             *)
LEMMA CallTypes ==
    ASSUME TypeOK, UNCHANGED <<mem, tables, lists, req, quick, lost, panic>>,
           pc' \in [Space -> PCs], peer' \in [Space -> Space \cup {NoSpace}],
           todo' \in [Space -> SUBSET Page]
    PROVE  TypeOK'
  BY DEF TypeOK, tables, lists, quick

(* A call that touches no table keeps the frames accounted for.            *)
LEMMA CallFrames ==
    ASSUME Frames, UNCHANGED <<mem, tables, lost>>, PageSlots' = PageSlots
    PROVE  Frames'
<1>1. mem' = mem /\ lost' = lost /\ TableSlots' = TableSlots /\ SharedSlots' = SharedSlots
  BY DEF tables, TableSlots, SharedSlots
<1> QED BY <1>1 DEF Frames

(* fork() and exec() take a space that is not in use.                      *)
LEMMA UnusedStep ==
    ASSUME Inv, NEW s \in Space, NEW t \in Space, pc[s] = "user", pc[t] = "unused",
           UNCHANGED <<mem, tables, lists, req, quick, lost, panic>>,
           NEW l, NEW k, pc' = [pc EXCEPT ![s] = l, ![t] = k],
           peer' = [peer EXCEPT ![s] = t, ![t] = s],
           NEW A, A \subseteq Page, todo' = [todo EXCEPT ![t] = A],
           \/ l = "fork" /\ k = "clone" /\ A = {}
           \/ l = "exec" /\ k = "exec_load" /\ A \subseteq Pages(0, ImagePages)
    PROVE  Inv'
<1>1. /\ TypeOK /\ Frames /\ Local(s) /\ Local(t) /\ Quick
      /\ peer[s] = NoSpace /\ peer[t] = NoSpace /\ s # t
      /\ pde' = pde /\ pte' = pte /\ shared' = shared /\ ranges' = ranges /\ user' = user
      /\ req' = req /\ HasFreeList(s)
  BY Parts, Alone DEF tables, lists, HasFreeList
<1>2. Couple(s, t)
  BY <1>1 DEF Couple
<1>3. /\ pc' \in [Space -> PCs] /\ pc'[s] = l /\ pc'[t] = k
      /\ peer' \in [Space -> Space \cup {NoSpace}] /\ peer'[s] = t /\ peer'[t] = s
      /\ todo' \in [Space -> SUBSET Page] /\ todo'[t] = A
      /\ \A u \in Space : u \notin {s, t} => pc'[u] = pc[u] /\ peer'[u] = peer[u]
      /\ \A u \in Space : u # t => todo'[u] = todo[u]
  BY <1>1 DEF TypeOK, PCs
<1>4. TypeOK'
  BY <1>1, <1>3, CallTypes
<1>5. OthersKept(s, t)
  BY <1>1, <1>3 DEF OthersKept, Kept
<1>6. Local(s)' /\ \A w \in Page : RefOf(s, w)' = RefOf(s, w)
  BY <1>1, <1>3, QuietStep DEF Quiet
<1>7. \A w \in Page : RefOf(t, w)' = RefOf(t, w)
  BY <1>1, <1>3, SameRefs DEF Going
<1>8. Frames'
  BY <1>1, <1>2, <1>5, <1>6, <1>7, PairSlots, CallFrames
<1>9. Quick'
  BY <1>2, <1>5, QuickKept
<1>10. Mapped(t) = {} /\ Mapped(t)' = {} /\ shared[t] = {} /\ user[t] = {} /\ pde[t] = NoTables
  <2>1. pte[t] = NoPages
    BY <1>1 DEF Local
  <2>2. Mapped(t) = {}
    BY <2>1 DEF NoPages, Mapped
  <2>3. Mapped(t)' = Mapped(t)
    BY <1>1, MappedKept
  <2> QED BY <1>1, <2>2, <2>3 DEF Local
<1>11. Local(t)'
  <2>1. HasTables(t)'
    BY <1>10 DEF HasTables
  <2>2. Fresh(t)'
    BY <1>1, <1>10 DEF Fresh
  <2> QED BY <1>1, <1>3, <1>10, <2>1, <2>2 DEF Local, HasFreeList
<1>12. Pair(s)' /\ Pair(t)'
  BY <1>1, <1>3 DEF Pair, Paired, Building
<1>13. Cloned(s)'
  BY <1>3 DEF Cloned
<1>14. Cloned(t)'
  <2>1. \A v \in Page : pde[t][TableOf(v)] = NoFrame
    BY <1>10, TableOfPage DEF NoTables
  <2>2. pde'[t] = pde[t] /\ shared'[t] = {}
    BY <1>1, <1>10
  <2>3. \A u : Mapped(u)' \subseteq Page
    BY DEF Mapped
  <2> QED BY <1>3, <1>10, <2>1, <2>2, <2>3 DEF Cloned
<1> QED BY <1>2, <1>4, <1>5, <1>6, <1>8, <1>9, <1>11, <1>12, <1>13, <1>14, PairStep DEF Sound

(* The beginning of fork() keeps the invariant.                            *)
LEMMA SysFork ==
    ASSUME Inv, NEW s \in Space, NEW t \in Space, sys_fork(s, t)
    PROVE  Inv'
<1> DEFINE A == {}
           l == "fork"
           k == "clone"
<1>1. /\ pc[s] = "user" /\ pc[t] = "unused"
      /\ UNCHANGED <<mem, tables, lists, req, quick, lost, panic>>
      /\ pc' = [pc EXCEPT ![s] = l, ![t] = k]
      /\ peer' = [peer EXCEPT ![s] = t, ![t] = s]
      /\ todo' = todo
  BY DEF sys_fork, At
<1>2. todo[t] = {} /\ todo \in [Space -> SUBSET Page]
  BY <1>1, Parts DEF TypeOK, Local
<1>3. todo' = [todo EXCEPT ![t] = A] /\ A \subseteq Page
  BY <1>1, <1>2
<1> QED BY <1>1, <1>3, UnusedStep

(* The beginning of exec() keeps the invariant.                            *)
LEMMA SysExecve ==
    ASSUME Inv, NEW s \in Space, NEW t \in Space, sys_execve(s, t)
    PROVE  Inv'
<1> DEFINE A == Pages(0, ImagePages)
           l == "exec"
           k == "exec_load"
<1>1. /\ pc[s] = "user" /\ pc[t] = "unused"
      /\ UNCHANGED <<mem, tables, lists, req, quick, lost, panic>>
      /\ pc' = [pc EXCEPT ![s] = l, ![t] = k]
      /\ peer' = [peer EXCEPT ![s] = t, ![t] = s]
      /\ todo' = [todo EXCEPT ![t] = A]
  BY DEF sys_execve, At
<1>2. A \subseteq Page
  BY PagesAssumption DEF Pages, Page
<1> QED BY <1>1, <1>2, UnusedStep

(* fork() returns in both processes.                                       *)
LEMMA ForkSucceeds ==
    ASSUME Inv, NEW t \in Space, pc[t] = "fork_done", NEW s, s = peer[t],
           pc' = [pc EXCEPT ![t] = "user", ![s] = "user"],
           peer' = [peer EXCEPT ![t] = NoSpace, ![s] = NoSpace],
           UNCHANGED <<mem, tables, lists, todo, req, quick, lost, panic>>
    PROVE  Inv'
<1>1. /\ TypeOK /\ Frames /\ Local(t) /\ s \in Space /\ peer[s] = t /\ s # t /\ pc[s] = "fork"
      /\ Local(s)
  BY Parts DEF Pair, Paired, Coupled, Building, Going
<1>2. /\ pde' = pde /\ pte' = pte /\ shared' = shared /\ ranges' = ranges /\ user' = user
      /\ req' = req /\ todo' = todo /\ HasFreeList(s) /\ HasFreeList(t)
  BY <1>1 DEF tables, lists, HasFreeList
<1>3. Couple(s, t)
  BY <1>1 DEF Couple
<1>4. /\ pc' \in [Space -> PCs] /\ pc'[s] = "user" /\ pc'[t] = "user"
      /\ peer' \in [Space -> Space \cup {NoSpace}] /\ peer'[s] = NoSpace /\ peer'[t] = NoSpace
      /\ todo' \in [Space -> SUBSET Page]
      /\ \A u \in Space : u \notin {s, t} => pc'[u] = pc[u] /\ peer'[u] = peer[u]
  BY <1>1, <1>2 DEF TypeOK, PCs
<1>5. TypeOK'
  BY <1>1, <1>4, CallTypes
<1>6. OthersKept(s, t)
  BY <1>2, <1>4 DEF OthersKept, Kept
<1>7. /\ Local(s)' /\ \A w \in Page : RefOf(s, w)' = RefOf(s, w)
      /\ Local(t)' /\ \A w \in Page : RefOf(t, w)' = RefOf(t, w)
  BY <1>1, <1>2, <1>4, QuietStep DEF Quiet
<1>8. Frames'
  BY <1>1, <1>3, <1>6, <1>7, PairSlots, CallFrames
<1>9. Quick'
  BY <1>1, <1>3, <1>6, QuickKept
<1>10. Pair(s)' /\ Pair(t)' /\ Cloned(s)' /\ Cloned(t)'
  BY <1>4 DEF Pair, Coupled, Cloned
<1> QED BY <1>3, <1>5, <1>6, <1>7, <1>8, <1>9, <1>10, PairStep DEF Sound

(* The old space goes, now that the new one is ready.                      *)
LEMMA ExecSucceeds ==
    ASSUME Inv, NEW t \in Space, pc[t] = "exec_map_stack", NEW s, s = peer[t], s # NoSpace,
           pc' = [pc EXCEPT ![t] = "exec_done", ![s] = "destroy"],
           todo' = [todo EXCEPT ![s] = Mapped(s)],
           UNCHANGED <<mem, tables, lists, req, peer, quick, lost, panic>>
    PROVE  Inv'
<1>1. /\ TypeOK /\ Frames /\ Local(t) /\ s \in Space /\ peer[s] = t /\ s # t /\ pc[s] = "exec"
      /\ Local(s)
  BY Parts DEF Pair, Paired, Coupled, Building, Going
<1>2. /\ pde' = pde /\ pte' = pte /\ shared' = shared /\ ranges' = ranges /\ user' = user
      /\ req' = req /\ HasFreeList(t) /\ Mapped(s) \subseteq Page
  BY <1>1 DEF tables, lists, HasFreeList, Mapped
<1>3. Couple(s, t)
  BY <1>1 DEF Couple
<1>4. /\ pc' \in [Space -> PCs] /\ pc'[s] = "destroy" /\ pc'[t] = "exec_done"
      /\ peer' \in [Space -> Space \cup {NoSpace}] /\ peer'[s] = t /\ peer'[t] = s
      /\ todo' \in [Space -> SUBSET Page] /\ todo'[s] = Mapped(s)
      /\ \A u \in Space : u \notin {s, t} => pc'[u] = pc[u] /\ peer'[u] = peer[u]
      /\ \A u \in Space : u # s => todo'[u] = todo[u]
  BY <1>1, <1>2 DEF TypeOK, PCs
<1>5. TypeOK'
  BY <1>1, <1>4, CallTypes
<1>6. OthersKept(s, t)
  BY <1>2, <1>4 DEF OthersKept, Kept
<1>7. /\ Local(t)' /\ \A w \in Page : RefOf(t, w)' = RefOf(t, w)
  BY <1>1, <1>2, <1>4, QuietStep DEF Quiet
<1>8. Mapped(s)' = Mapped(s)
  BY <1>2, MappedKept
<1>9. \A w \in Page : RefOf(s, w)' = RefOf(s, w)
  BY <1>1, <1>2, <1>4, RefFacts, RefFactsPrimed DEF Mapped, Going
<1>10. Local(s)'
  <2>1. HasTables(s)'
    BY <1>1, <1>2, <1>8 DEF HasTables, Local
  <2> QED BY <1>1, <1>2, <1>4, <1>8, <2>1 DEF Local, HasFreeList
<1>11. Frames'
  BY <1>1, <1>3, <1>6, <1>7, <1>9, PairSlots, CallFrames
<1>12. Quick'
  BY <1>1, <1>3, <1>6, QuickKept
<1>13. Pair(s)' /\ Pair(t)'
  BY <1>1, <1>4 DEF Pair, Paired, Going
<1>14. Cloned(s)' /\ Cloned(t)'
  BY <1>4 DEF Cloned
<1> QED BY <1>3, <1>5, <1>6, <1>7, <1>10, <1>11, <1>12, <1>13, <1>14, PairStep DEF Sound

(* The end of exec() keeps the invariant, whichever space goes.            *)
LEMMA ExecReturnsStep ==
    ASSUME Inv, NEW t \in Space, ExecReturns(t)
    PROVE  Inv'
<1>1. /\ pc[t] = "exec_map_stack"
      /\ UNCHANGED <<mem, tables, lists, req, peer, quick, lost, panic>>
      /\ \/ peer[t] = NoSpace /\ Goto(t, "user") /\ todo' = todo
         \/ /\ peer[t] # NoSpace
            /\ pc' = [pc EXCEPT ![t] = "exec_done", ![peer[t]] = "destroy"]
            /\ todo' = [todo EXCEPT ![peer[t]] = Mapped(peer[t])]
         \/ Destroy(t)
  BY DEF ExecReturns, At
<1>2. pc[t] \in Building \cup {"user"}
  BY <1>1 DEF Building
<1> QED BY <1>1, <1>2, ExecReturnsFirst, ExecSucceeds, GoneStep

(* Where a fork() is that copies pages.                                    *)
LEMMA CloningFacts ==
    ASSUME Inv, NEW t \in Space, Cloning(t), NEW s, s = peer[t]
    PROVE  /\ TypeOK /\ Frames /\ Quick /\ Local(s) /\ Local(t) /\ Cloned(t) /\ Couple(s, t)
           /\ s \in Space /\ pc[t] = "clone" /\ pc[s] = "fork" /\ quickmap_lock = s
           /\ HasFreeList(s) /\ FreeList(s)
<1>1. pc[t] = "clone" /\ quickmap_lock = s
  BY DEF Cloning, At
<1>2. s \in Space /\ peer[s] = t /\ s # t /\ pc[s] = "fork"
  BY <1>1, Parts DEF Pair, Paired, Coupled, Building, Going
<1>3. TypeOK /\ Frames /\ Quick /\ Local(s) /\ Local(t) /\ Cloned(t)
  BY <1>2, Parts
<1>4. HasFreeList(s)
  BY <1>2 DEF HasFreeList
<1>5. FreeList(s)
  BY <1>3, <1>4 DEF Local
<1> QED BY <1>1, <1>2, <1>3, <1>4, <1>5 DEF Couple

(* A step of the loop that copies the tables and the pages.                *)
LEMMA CloneStep ==
    ASSUME Inv, NEW t \in Space, Cloning(t), NEW s, s = peer[t],
           UNCHANGED <<lists, pc, req, peer, quickmap_lock, lost, panic>>,
           mem' \in Memory, pde' \in [Space -> [Table -> RAM \cup {NoFrame}]],
           pte' \in [Space -> [Page -> Frame \cup {NoFrame}]],
           shared' \in [Space -> SUBSET Page], todo' \in [Space -> SUBSET Page],
           quickmapped' \in RAM \cup {NoFrame},
           \A u \in Space : u # t => /\ pde'[u] = pde[u] /\ pte'[u] = pte[u]
                                     /\ shared'[u] = shared[u] /\ todo'[u] = todo[u],
           quickmapped' # NoFrame => todo'[t] # {},
           Frames', shared'[t] \subseteq Mapped(t)', HasTables(t)', Cloned(t)'
    PROVE  Inv'
<1>1. /\ TypeOK /\ Quick /\ Local(s) /\ Local(t) /\ Couple(s, t)
      /\ s \in Space /\ pc[t] = "clone" /\ pc[s] = "fork" /\ quickmap_lock = s
  BY CloningFacts
<1>2. /\ pc' = pc /\ peer' = peer /\ quickmap_lock' = quickmap_lock /\ ranges' = ranges
      /\ user' = user /\ req' = req /\ lock' = lock /\ lost' = lost /\ panic' = panic
  BY DEF lists
<1>3. TypeOK'
  BY <1>1, <1>2 DEF TypeOK
<1>4. \A u \in Space : u # t => Kept(u)
  BY <1>2 DEF Kept
<1>5. OthersKept(s, t)
  BY <1>2, <1>4 DEF OthersKept
<1>6. Local(t)'
  BY <1>1, <1>2 DEF Local, HasFreeList
<1>7. Local(s)'
  BY <1>1, <1>4, LocalKept DEF Couple
<1>8. Pair(s)' /\ Pair(t)'
  BY <1>1, <1>2, Parts DEF Pair, Paired
<1>9. Cloned(s)'
  BY <1>1, <1>2 DEF Cloned
<1>10. Quick'
  <2>1. peer[s] = t /\ s # NoSpace
    BY <1>1, SpaceAssumption DEF Couple
  <2> QED BY <1>1, <1>2, <2>1 DEF Quick
<1> QED BY <1>1, <1>3, <1>5, <1>6, <1>7, <1>8, <1>9, <1>10, PairStep DEF Sound

(* A page table is added to the copy.                                      *)
LEMMA CloneTable ==
    ASSUME Inv, NEW t \in Space, Cloning(t), todo[t] = {}, NEW s, s = peer[t],
           NEW k \in NotCloned(t), ~Exhausted(mem), NEW f, f = bitmap_find_first_set(mem),
           mem' = page_allocator_alloc(mem), pde' = [pde EXCEPT ![t][k] = f],
           NEW A, A = {v \in Mapped(s) : TableOf(v) = k}, todo' = [todo EXCEPT ![t] = A],
           quickmapped' = IF todo'[t] = {} THEN NoFrame ELSE f,
           UNCHANGED <<pte, shared, lists, pc, req, peer, quickmap_lock, lost, panic>>
    PROVE  Inv'
<1>1. /\ TypeOK /\ Frames /\ Local(s) /\ Local(t) /\ Cloned(t) /\ Couple(s, t)
      /\ s \in Space /\ pc[t] = "clone" /\ pc[s] = "fork"
  BY CloningFacts
<1>2. /\ pte' = pte /\ shared' = shared /\ pc' = pc /\ lost' = lost /\ peer' = peer
      /\ k \in Table /\ pde[t][k] = NoFrame /\ A \subseteq Page
  BY DEF NotCloned, Mapped
<1>3. /\ pde \in [Space -> [Table -> RAM \cup {NoFrame}]] /\ todo \in [Space -> SUBSET Page]
      /\ pte \in [Space -> [Page -> Frame \cup {NoFrame}]] /\ shared \in [Space -> SUBSET Page]
  BY <1>1 DEF TypeOK
<1>4. f \in RAM /\ f \in RAM \cup {NoFrame} /\ f # NoFrame
  BY <1>1, FirstIsFree, FrameFacts DEF Frames
<1> DEFINE e == <<t, k>>
<1>5. /\ TableSlots' = Put(TableSlots, e, f) /\ e \in TableSlot
      /\ TableSlots[e] = pde[t][k]
      /\ pde' \in [Space -> [Table -> RAM \cup {NoFrame}]]
      /\ \A u \in Space : u # t => pde'[u] = pde[u]
      /\ \A l \in Table : pde'[t][l] = IF l = k THEN f ELSE pde[t][l]
  <2>1. /\ k \in Table /\ f \in RAM \cup {NoFrame} /\ pde' = [pde EXCEPT ![t][k] = f]
        /\ pde \in [Space -> [Table -> RAM \cup {NoFrame}]]
    BY <1>2, <1>3, <1>4
  <2> QED BY ONLY <2>1, TableSlotPut
<1> HIDE DEF e
<1>6. Accounted(mem', PageSlots, TableSlots', SharedSlots, lost)
  BY <1>1, <1>2, <1>5, TableDrawn DEF Frames
<1>7. /\ todo' \in [Space -> SUBSET Page] /\ todo'[t] = A
      /\ \A u \in Space : u # t => todo'[u] = todo[u]
  BY <1>2, <1>3
<1>8. PageSlots' = PageSlots
  <2>1. ASSUME NEW u \in Space, NEW w \in Page
        PROVE  RefOf(u, w)' = RefOf(u, w)
    <3>1. CASE u = t
      <4>1. pte'[t] = pte[t] /\ pc[t] \notin Going /\ pc'[t] \notin Going
        BY <1>1, <1>2 DEF Going
      <4>2. RefOf(t, w)' = RefOf(t, w)
        BY <4>1, SameRefs
      <4> QED BY <3>1, <4>2
    <3>2. CASE u # t
      BY <1>2, <1>7, <3>2, RefsKept
    <3> QED BY <3>1, <3>2
  <2> QED BY <2>1, PageSlotsSame
<1>9. SharedSlots' = SharedSlots
  BY <1>2 DEF SharedSlots
<1>10. Frames' /\ mem' \in Memory
  BY <1>2, <1>6, <1>8, <1>9 DEF Frames, Accounted
<1>11. Mapped(t)' = Mapped(t) /\ Mapped(s)' = Mapped(s) /\ Mapped(t) \subseteq Page
       /\ Mapped(s) \subseteq Page
  BY <1>2, MappedKept DEF Mapped
<1>12. HasTables(t)'
  <2>1. HasTables(t)
    BY <1>1 DEF Local
  <2> QED BY <1>4, <1>5, <1>11, <2>1, TableOfPage DEF HasTables
<1>13. shared'[t] \subseteq Mapped(t)'
  BY <1>1, <1>2, <1>11 DEF Local
<1>14. Cloned(t)'
  <2>1. /\ Mapped(t) = {v \in Mapped(s) : pde[t][TableOf(v)] # NoFrame}
        /\ shared[t] \subseteq shared[s] /\ shared[s] \cap Mapped(t) \subseteq shared[t]
    BY <1>1 DEF Cloned
  <2>2. A \cap Mapped(t) = {}
    BY <1>2, <2>1
  <2>3. A \cup Mapped(t) = {v \in Mapped(s) : pde'[t][TableOf(v)] # NoFrame}
    <3>1. \A v \in Mapped(s) : pde'[t][TableOf(v)] # NoFrame
                                 <=> TableOf(v) = k \/ pde[t][TableOf(v)] # NoFrame
      BY <1>4, <1>5, <1>11, TableOfPage
    <3> QED BY <2>1, <3>1
  <2>4. peer'[t] = s /\ shared'[t] = shared[t] /\ shared'[s] = shared[s]
    BY <1>2
  <2>5. Mapped(peer[t])' = Mapped(s)
    <3>1. Mapped(peer[t])' = {v \in Page : pte'[peer'[t]][v] # NoFrame}
      BY DEF Mapped
    <3> QED BY <1>2, <3>1 DEF Mapped
  <2> QED BY <1>7, <1>11, <2>1, <2>2, <2>3, <2>4, <2>5 DEF Cloned
<1>15. /\ quickmapped' \in RAM \cup {NoFrame} /\ quickmapped' # NoFrame => todo'[t] # {}
  BY <1>4
<1>16. \A u \in Space : u # t => /\ pde'[u] = pde[u] /\ pte'[u] = pte[u]
                                 /\ shared'[u] = shared[u] /\ todo'[u] = todo[u]
  BY <1>2, <1>5, <1>7
<1>17. /\ pte' \in [Space -> [Page -> Frame \cup {NoFrame}]] /\ shared' \in [Space -> SUBSET Page]
  BY <1>2, <1>3
<1> QED BY <1>5, <1>7, <1>10, <1>12, <1>13, <1>14, <1>15, <1>16, <1>17, CloneStep

(* The copy is complete.                                                   *)
LEMMA CloneDoneStep ==
    ASSUME Inv, NEW t \in Space, CloneDone(t)
    PROVE  Inv'
<1>0. PICK s : s = peer[t]
  OBVIOUS
<1>1. /\ Cloning(t) /\ todo[t] = {} /\ NotCloned(t) = {}
      /\ quickmap_lock' = NoSpace /\ quickmapped' = NoFrame
      /\ ranges' = [ranges EXCEPT ![t] = ranges[s]]
      /\ lock' = [lock EXCEPT ![t] = IF lock[s] = "free" THEN "free" ELSE "foreign"]
      /\ user' = [user EXCEPT ![t] = user[s]]
      /\ Goto(t, "fork_done")
      /\ mem' = mem /\ pde' = pde /\ pte' = pte /\ shared' = shared
      /\ todo' = todo /\ req' = req /\ peer' = peer /\ lost' = lost /\ panic' = panic
  BY <1>0 DEF CloneDone, Unlocks, tables
<1>2. /\ TypeOK /\ Frames /\ Local(s) /\ Local(t) /\ Cloned(t) /\ Couple(s, t)
      /\ s \in Space /\ pc[t] = "clone" /\ pc[s] = "fork" /\ FreeList(s)
  BY <1>0, <1>1, CloningFacts
<1>3. /\ pc' \in [Space -> PCs] /\ pc'[t] = "fork_done"
      /\ \A u \in Space : u # t => pc'[u] = pc[u]
  BY <1>1, <1>2, GotoFacts DEF PCs
<1>4. /\ ranges' \in [Space -> Seq([start : Page, size : 1 .. NPages])] /\ ranges'[t] = ranges[s]
      /\ user' \in [Space -> SUBSET Page] /\ user'[t] = user[s]
      /\ lock' \in [Space -> {"free", "own", "foreign"}]
      /\ \A u \in Space : u # t => ranges'[u] = ranges[u] /\ user'[u] = user[u]
  BY <1>1, <1>2 DEF TypeOK
<1>5. TypeOK'
  BY <1>1, <1>2, <1>3, <1>4 DEF TypeOK
<1>6. \A u \in Space : u # t => Kept(u)
  BY <1>1, <1>3, <1>4 DEF Kept
<1>7. OthersKept(s, t)
  BY <1>1, <1>6 DEF OthersKept
<1>8. /\ \A w \in Page : RefOf(t, w)' = RefOf(t, w)
      /\ \A w \in Page : RefOf(s, w)' = RefOf(s, w)
  BY <1>1, <1>2, <1>3, SameRefs DEF Going, Couple
<1>9. Frames'
  <2>1. PageSlots' = PageSlots
    BY <1>2, <1>7, <1>8, PairSlots
  <2> QED BY <1>1, <1>2, <2>1, CallFrames DEF tables
<1>10. Mapped(t) = Mapped(s) /\ shared[t] = shared[s]
  <2>1. /\ Mapped(t) = {v \in Mapped(s) : pde[t][TableOf(v)] # NoFrame}
        /\ shared[t] \subseteq shared[s] /\ shared[s] \cap Mapped(t) \subseteq shared[t]
    BY <1>0, <1>1, <1>2 DEF Cloned
  <2>2. HasTables(s) /\ shared[s] \subseteq Mapped(s) /\ Mapped(s) \subseteq Page
    BY <1>2 DEF Local, Mapped
  <2>3. \A v \in Mapped(s) : pde[t][TableOf(v)] # NoFrame
    BY <1>0, <1>1, <2>2, TableOfPage DEF HasTables, NotCloned
  <2> QED BY <2>1, <2>2, <2>3
<1>11. Mapped(t)' = Mapped(t)
  BY <1>1, MappedKept
<1>12. Local(t)'
  <2>1. HasTables(t)' /\ shared'[t] \subseteq Mapped(t)'
    BY <1>1, <1>2, <1>11 DEF Local, HasTables
  <2>2. FreeList(t)'
    BY <1>1, <1>2, <1>4, <1>10, <1>11 DEF FreeList
  <2> QED BY <1>3, <2>1, <2>2 DEF Local
<1>13. Local(s)'
  BY <1>2, <1>6, LocalKept DEF Couple
<1>14. Pair(s)' /\ Pair(t)'
  <2>1. peer'[s] = t /\ peer'[t] = s /\ s # t /\ pc'[s] = "fork"
    BY <1>0, <1>1, <1>2, <1>3, SpaceAssumption DEF Couple
  <2> QED BY <1>2, <1>3, <2>1 DEF Pair, Paired
<1>15. Cloned(s)' /\ Cloned(t)'
  BY <1>2, <1>3 DEF Cloned, Couple
<1>16. Quick'
  BY <1>1 DEF Quick
<1> QED BY <1>2, <1>5, <1>7, <1>9, <1>12, <1>13, <1>14, <1>15, <1>16, PairStep DEF Sound

(* A page is added to the copy.                                            *)
LEMMA ClonePut ==
    ASSUME Inv, NEW t \in Space, Cloning(t), NEW s, s = peer[t],
           NEW v \in Page, v \in todo[t], NEW f \in Frame, pte' = [pte EXCEPT ![t][v] = f],
           \/ /\ v \in shared[s] /\ f = pte[s][v] /\ mem' = page_allocator_ref_page(mem, f)
              /\ shared' = [shared EXCEPT ![t] = @ \cup {v}]
           \/ /\ v \notin shared[s] /\ ~Exhausted(mem) /\ f = bitmap_find_first_set(mem)
              /\ mem' = page_allocator_alloc(mem) /\ shared' = shared,
           Done(t, v), quickmapped' = IF todo[t] = {v} THEN NoFrame ELSE quickmapped,
           UNCHANGED <<pde, lists, pc, req, peer, quickmap_lock, lost, panic>>
    PROVE  Inv'
<1>1. /\ TypeOK /\ Frames /\ Local(s) /\ Local(t) /\ Cloned(t) /\ Couple(s, t)
      /\ s \in Space /\ pc[t] = "clone" /\ pc[s] = "fork" /\ s # t
  BY CloningFacts DEF Couple
<1>2. /\ pde' = pde /\ pc' = pc /\ lost' = lost /\ peer' = peer
      /\ f \in Frame \cup {NoFrame} /\ f # NoFrame
  BY FrameFacts
<1>3. /\ pde \in [Space -> [Table -> RAM \cup {NoFrame}]] /\ todo \in [Space -> SUBSET Page]
      /\ pte \in [Space -> [Page -> Frame \cup {NoFrame}]] /\ shared \in [Space -> SUBSET Page]
      /\ quickmapped \in RAM \cup {NoFrame}
  BY <1>1 DEF TypeOK
<1>4. /\ todo[t] \cap Mapped(t) = {}
      /\ todo[t] \cup Mapped(t) = {x \in Mapped(s) : pde[t][TableOf(x)] # NoFrame}
      /\ shared[t] \subseteq shared[s] /\ shared[s] \cap Mapped(t) \subseteq shared[t]
  BY <1>1 DEF Cloned
<1>5. v \in Mapped(s) /\ v \notin Mapped(t) /\ pde[t][TableOf(v)] # NoFrame
  BY <1>4
<1>6. pte[t][v] = NoFrame
  BY <1>5 DEF Mapped
<1>7. /\ todo' \in [Space -> SUBSET Page] /\ todo'[t] = todo[t] \ {v}
      /\ \A u \in Space : u # t => todo'[u] = todo[u]
  BY <1>1, DoneFacts
<1>8. /\ pte' \in [Space -> [Page -> Frame \cup {NoFrame}]]
      /\ \A u \in Space : u # t => pte'[u] = pte[u]
      /\ Mapped(t)' = Mapped(t) \cup {v}
  <2>1. TypeOK /\ f \in Frame \cup {NoFrame} /\ pte' = [pte EXCEPT ![t][v] = f] /\ f # NoFrame
    BY <1>1, <1>2
  <2> QED BY ONLY <2>1, PteAfter
<1> DEFINE e == <<t, v>>
           d == <<s, v>>
<1>9. /\ PageSlots' = Put(PageSlots, e, f) /\ e \in PageSlot
      /\ PageSlots[e] = pte[t][v]
  BY <1>1, <1>2, <1>7, SlotsAfter DEF Going
<1>10. /\ SharesBut(PageSlots, SharedSlots, SharedSlots', e)
       /\ shared' \in [Space -> SUBSET Page]
       /\ shared' = [shared EXCEPT ![t] = @ \cup {v}] => e \in SharedSlots'
       /\ \A u \in Space : u # t => shared'[u] = shared[u]
  <2>1. \/ shared' = shared
        \/ shared' = [shared EXCEPT ![t] = @ \cup {v}]
        \/ shared' = [shared EXCEPT ![t] = @ \ {v}]
    OBVIOUS
  <2>2. shared \in [Space -> SUBSET Page]
    BY <1>3
  <2> QED BY ONLY <2>1, <2>2, SharedPut
<1>11. d \in PageSlot /\ PageSlots[d] = pte[s][v] /\ (v \in shared[s] => d \in SharedSlots)
  <2>1. RefOf(s, v) = pte[s][v]
    BY <1>1, RefFacts DEF Going
  <2> QED BY <1>1, <2>1 DEF PageSlot, PageSlots, SharedSlots
<1>12. TableSlots' = TableSlots
  BY <1>2 DEF TableSlots
<1> HIDE DEF e, d
<1>13. Accounted(mem', PageSlots', TableSlots, SharedSlots', lost)
  <2>1. CASE /\ v \in shared[s] /\ f = pte[s][v] /\ mem' = page_allocator_ref_page(mem, f)
             /\ shared' = [shared EXCEPT ![t] = @ \cup {v}]
    <3>1. e \in SharedSlots' /\ PageSlots[d] = f /\ d \in SharedSlots /\ d \in PageSlot
      BY <1>10, <1>11, <2>1
    <3> QED BY <1>1, <1>6, <1>9, <1>10, <2>1, <3>1, PageLinked DEF Frames
  <2>2. CASE /\ ~Exhausted(mem) /\ f = bitmap_find_first_set(mem)
             /\ mem' = page_allocator_alloc(mem)
    BY <1>1, <1>6, <1>9, <1>10, <2>2, PageDrawn DEF Frames
  <2> QED BY <2>1, <2>2
<1>14. Frames' /\ mem' \in Memory
  BY <1>2, <1>12, <1>13 DEF Frames, Accounted
<1>15. HasTables(t)'
  BY <1>1, <1>2, <1>5, <1>8 DEF HasTables, Local
<1>16. /\ shared'[t] = IF v \in shared[s] THEN shared[t] \cup {v} ELSE shared[t]
       /\ shared'[s] = shared[s]
  BY <1>1, <1>3
<1>17. shared'[t] \subseteq Mapped(t)'
  BY <1>1, <1>8, <1>16 DEF Local
<1>18. Cloned(t)'
  <2>1. pte'[s] = pte[s]
    BY <1>1, <1>8
  <2>2. Mapped(peer[t])' = Mapped(s)
    <3>1. Mapped(peer[t])' = {x \in Page : pte'[peer'[t]][x] # NoFrame}
      BY DEF Mapped
    <3> QED BY <1>2, <2>1, <3>1 DEF Mapped
  <2>3. peer'[t] = s
    BY <1>2
  <2> QED BY <1>2, <1>4, <1>5, <1>7, <1>8, <1>16, <2>2, <2>3 DEF Cloned
<1>19. quickmapped' \in RAM \cup {NoFrame} /\ (quickmapped' # NoFrame => todo'[t] # {})
  BY <1>3, <1>7
<1>20. \A u \in Space : u # t => /\ pde'[u] = pde[u] /\ pte'[u] = pte[u]
                                 /\ shared'[u] = shared[u] /\ todo'[u] = todo[u]
  BY <1>2, <1>7, <1>8, <1>10
<1>21. pde' \in [Space -> [Table -> RAM \cup {NoFrame}]]
  BY <1>2, <1>3
<1> QED BY <1>7, <1>8, <1>10, <1>14, <1>15, <1>17, <1>18, <1>19, <1>20, <1>21, CloneStep

(* fork() gives up the space that it was making.                           *)
LEMMA ForgetStep ==
    ASSUME Inv, NEW t \in Space, pc[t] \in {"clone", "fork_done"}, Forget(t),
           \/ Unlocks
           \/ pc[t] = "fork_done" /\ UNCHANGED quick
    PROVE  Inv'
<1>0. PICK s : s = peer[t]
  OBVIOUS
<1>1. /\ TypeOK /\ Frames /\ Quick /\ Local(s) /\ Local(t) /\ s \in Space /\ peer[s] = t /\ s # t
      /\ pc[s] = "fork" /\ Couple(s, t)
  BY <1>0, Parts DEF Pair, Paired, Coupled, Building, Going, Couple
<1>2. /\ lost' = [f \in Frame |-> IF lost[f] + RefsIn(t, f) > MaxRef THEN MaxRef
                                  ELSE lost[f] + RefsIn(t, f)]
      /\ pde' = [pde EXCEPT ![t] = NoTables] /\ pte' = [pte EXCEPT ![t] = NoPages]
      /\ shared' = [shared EXCEPT ![t] = {}] /\ ranges' = [ranges EXCEPT ![t] = <<>>]
      /\ lock' = [lock EXCEPT ![t] = "free"] /\ user' = [user EXCEPT ![t] = {}]
      /\ pc' = [pc EXCEPT ![t] = "unused", ![s] = "user"]
      /\ todo' = [todo EXCEPT ![t] = {}]
      /\ peer' = [peer EXCEPT ![t] = NoSpace, ![s] = NoSpace]
      /\ mem' = mem /\ req' = req /\ panic' = panic
  BY <1>0 DEF Forget
<1>3. NoTables \in [Table -> RAM \cup {NoFrame}] /\ NoPages \in [Page -> Frame \cup {NoFrame}]
  BY DEF NoTables, NoPages
<1>4. <<>> \in Seq([start : Page, size : 1 .. NPages])
  OBVIOUS
<1>5. /\ pde' \in [Space -> [Table -> RAM \cup {NoFrame}]] /\ pde'[t] = NoTables
      /\ pte' \in [Space -> [Page -> Frame \cup {NoFrame}]] /\ pte'[t] = NoPages
      /\ shared' \in [Space -> SUBSET Page] /\ shared'[t] = {}
      /\ user' \in [Space -> SUBSET Page] /\ user'[t] = {}
      /\ todo' \in [Space -> SUBSET Page] /\ todo'[t] = {}
      /\ \A u \in Space : u # t => /\ pde'[u] = pde[u] /\ pte'[u] = pte[u]
                                   /\ shared'[u] = shared[u] /\ user'[u] = user[u]
                                   /\ todo'[u] = todo[u]
  BY <1>1, <1>2, <1>3 DEF TypeOK
<1>6. /\ ranges' \in [Space -> Seq([start : Page, size : 1 .. NPages])]
      /\ lock' \in [Space -> {"free", "own", "foreign"}]
      /\ \A u \in Space : u # t => ranges'[u] = ranges[u]
  BY <1>1, <1>2, <1>4 DEF TypeOK
<1>7. /\ pc' \in [Space -> PCs] /\ pc'[t] = "unused" /\ pc'[s] = "user"
      /\ peer' \in [Space -> Space \cup {NoSpace}] /\ peer'[t] = NoSpace /\ peer'[s] = NoSpace
      /\ \A u \in Space : u \notin {s, t} => pc'[u] = pc[u] /\ peer'[u] = peer[u]
  BY <1>1, <1>2 DEF TypeOK, PCs
<1>8. OthersKept(s, t)
  BY <1>2, <1>5, <1>6, <1>7 DEF OthersKept, Kept
<1>9. Local(s)' /\ \A w \in Page : RefOf(s, w)' = RefOf(s, w)
  <2>1. HasFreeList(s)
    BY <1>1 DEF HasFreeList
  <2> QED BY <1>1, <1>5, <1>6, <1>7, <2>1, QuietStep DEF Quiet
<1>10. Mapped(t)' = {}
  BY <1>5 DEF Mapped, NoPages
<1>11. Local(t)'
  <2>1. HasTables(t)'
    BY <1>10 DEF HasTables
  <2> QED BY <1>5, <1>7, <1>10, <2>1 DEF Local, HasFreeList
<1>12. ASSUME NEW w \in Page
       PROVE  RefOf(t, w)' = NoFrame /\ RefOf(t, w) = pte[t][w]
  <2>1. RefOf(t, w)' = pte'[t][w]
    BY <1>7, RefFactsPrimed DEF Going
  <2>2. RefOf(t, w) = pte[t][w]
    BY RefFacts DEF Going
  <2> QED BY <1>5, <2>1, <2>2 DEF NoPages
<1>13. PageSlots' = [e \in PageSlot |-> IF e \in {t} \X Page THEN NoFrame ELSE PageSlots[e]]
  <2>1. PageSlots' = [e \in PageSlot |-> RefOf(e[1], e[2])']
    BY DEF PageSlots
  <2>2. ASSUME NEW e \in PageSlot
        PROVE  RefOf(e[1], e[2])' = IF e \in {t} \X Page THEN NoFrame ELSE PageSlots[e]
    <3> DEFINE a == e[1]
               b == e[2]
    <3>1. a \in Space /\ b \in Page /\ (e \in {t} \X Page <=> a = t) /\ PageSlots[e] = RefOf(a, b)
      BY DEF PageSlot, PageSlots
    <3>2. RefOf(a, b)' = IF a = t THEN NoFrame ELSE RefOf(a, b)
      <4> HIDE DEF a, b
      <4>1. CASE a = t
        <5> SUFFICES ASSUME NEW x, x = a, NEW y, y = b
                     PROVE  RefOf(x, y)' = NoFrame
          BY <4>1 DEF a, b
        <5> QED BY <1>12, <3>1, <4>1
      <4>2. CASE a # t
        <5> SUFFICES ASSUME NEW x, x = a, NEW y, y = b
                     PROVE  RefOf(x, y)' = RefOf(x, y)
          BY <4>2 DEF a, b
        <5>1. CASE x = s
          BY <1>9, <3>1, <5>1
        <5>2. CASE x # s
          BY <1>8, <3>1, <4>2, <5>2, RefsKept DEF OthersKept, Kept
        <5> QED BY <5>1, <5>2
      <4> QED BY <4>1, <4>2
    <3> QED BY <3>1, <3>2
  <2> QED BY <2>1, <2>2
<1>14. TableSlots' = [e \in TableSlot |-> IF e \in {t} \X Table THEN NoFrame ELSE TableSlots[e]]
  <2>1. TableSlots' = [e \in TableSlot |-> pde'[e[1]][e[2]]]
    BY DEF TableSlots
  <2>2. ASSUME NEW e \in TableSlot
        PROVE  pde'[e[1]][e[2]] = IF e \in {t} \X Table THEN NoFrame ELSE TableSlots[e]
    <3> DEFINE a == e[1]
               b == e[2]
    <3>1. /\ a \in Space /\ b \in Table /\ (e \in {t} \X Table <=> a = t)
          /\ TableSlots[e] = pde[a][b]
      BY DEF TableSlot, TableSlots
    <3> HIDE DEF a, b
    <3>2. pde'[a][b] = IF a = t THEN NoFrame ELSE pde[a][b]
      BY <1>5, <3>1 DEF NoTables
    <3> QED BY <3>1, <3>2 DEF a, b
  <2> QED BY <2>1, <2>2
<1> DEFINE n == [f \in Frame |-> RefsIn(t, f)]
<1>15. \A f \in Frame : n[f] = Cardinality(From(PageSlots, {t} \X Page, f))
                                  + Cardinality(From(TableSlots, {t} \X Table, f))
  <2>1. ASSUME NEW f \in Frame
        PROVE  n[f] = Cardinality(From(PageSlots, {t} \X Page, f))
                        + Cardinality(From(TableSlots, {t} \X Table, f))
    <3>1. From(PageSlots, {t} \X Page, f) = {e \in {t} \X Page : pte[t][e[2]] = f}
      <4>1. \A e \in {t} \X Page : PageSlots[e] = pte[t][e[2]]
        BY <1>12 DEF PageSlots, PageSlot
      <4> QED BY <4>1 DEF From
    <3>2. From(TableSlots, {t} \X Table, f) = {e \in {t} \X Table : pde[t][e[2]] = f}
      <4>1. \A e \in {t} \X Table : TableSlots[e] = pde[t][e[2]]
        BY DEF TableSlots, TableSlot
      <4> QED BY <4>1 DEF From
    <3> QED BY <3>1, <3>2 DEF RefsIn
  <2> QED BY <2>1
<1>16. lost' = [f \in Frame |-> IF lost[f] + n[f] > MaxRef THEN MaxRef ELSE lost[f] + n[f]]
  BY <1>2
<1>17. \A d \in PageSlot : d \notin {t} \X Page /\ d \in SharedSlots => d \in SharedSlots'
  <2>1. SharedSlots' = {e \in PageSlot : e[2] \in shared'[e[1]]}
    BY DEF SharedSlots
  <2>2. \A d \in PageSlot : d[1] \in Space /\ d[2] \in Page /\ (d \notin {t} \X Page => d[1] # t)
    BY DEF PageSlot
  <2> QED BY <1>5, <2>1, <2>2 DEF SharedSlots
<1> HIDE DEF n
<1>18. Accounted(mem, PageSlots', TableSlots', SharedSlots', lost')
  BY <1>1, <1>13, <1>14, <1>15, <1>16, <1>17, Forgotten DEF Frames
<1>19. Frames' /\ lost' \in [Frame -> 0 .. MaxRef]
  BY <1>2, <1>18 DEF Frames, Accounted, Maps
<1>20. quickmap_lock' \in Space \cup {NoSpace} /\ quickmapped' \in RAM \cup {NoFrame}
  BY <1>1 DEF Unlocks, quick, TypeOK
<1>21. TypeOK'
  BY <1>1, <1>2, <1>5, <1>6, <1>7, <1>19, <1>20 DEF TypeOK
<1>22. Quick'
  <2>1. CASE Unlocks
    BY <2>1 DEF Unlocks, Quick
  <2>2. CASE pc[t] = "fork_done" /\ UNCHANGED quick
    BY <1>1, <1>8, <2>2, QuickKept
  <2> QED BY <2>1, <2>2
<1>23. Pair(s)' /\ Pair(t)' /\ Cloned(s)' /\ Cloned(t)'
  BY <1>7 DEF Pair, Coupled, Cloned
<1> QED BY <1>1, <1>8, <1>9, <1>11, <1>19, <1>21, <1>22, <1>23, PairStep DEF Sound

(* clone_page_table() keeps the invariant, with a frame or without.        *)
LEMMA ClonePageTableStep ==
    ASSUME Inv, NEW t \in Space, clone_page_table(t)
    PROVE  Inv'
<1>0. PICK s : s = peer[t]
  OBVIOUS
<1>1. PICK k \in NotCloned(t) :
        \/ CloneFails(t)
        \/ /\ ~Exhausted(mem)
           /\ mem' = page_allocator_alloc(mem)
           /\ pde' = [pde EXCEPT ![t][k] = bitmap_find_first_set(mem)]
           /\ todo' = [todo EXCEPT ![t] = {v \in Mapped(peer[t]) : TableOf(v) = k}]
           /\ quickmapped' = IF todo'[t] = {} THEN NoFrame ELSE bitmap_find_first_set(mem)
           /\ UNCHANGED <<pte, shared, lists, pc, req, peer, quickmap_lock, lost, panic>>
  BY Zenon DEF clone_page_table
<1>2. Cloning(t) /\ todo[t] = {} /\ pc[t] = "clone"
  BY DEF clone_page_table, Cloning, At
<1>3. CASE CloneFails(t)
  BY <1>2, <1>3, ForgetStep DEF CloneFails
<1>4. CASE ~CloneFails(t)
  <2> DEFINE f == bitmap_find_first_set(mem)
             A == {v \in Mapped(s) : TableOf(v) = k}
  <2>1. /\ ~Exhausted(mem) /\ mem' = page_allocator_alloc(mem) /\ pde' = [pde EXCEPT ![t][k] = f]
        /\ todo' = [todo EXCEPT ![t] = A]
        /\ quickmapped' = IF todo'[t] = {} THEN NoFrame ELSE f
        /\ UNCHANGED <<pte, shared, lists, pc, req, peer, quickmap_lock, lost, panic>>
    BY <1>0, <1>1, <1>4
  <2>2. f = bitmap_find_first_set(mem) /\ A = {v \in Mapped(s) : TableOf(v) = k}
    OBVIOUS
  <2> HIDE DEF f, A
  <2> QED BY <1>0, <1>2, <2>1, <2>2, CloneTable
<1> QED BY <1>3, <1>4

(* Copying or linking a page keeps the invariant, with a frame or without. *)
LEMMA ClonePageStep ==
    ASSUME Inv, NEW t \in Space, ClonePage(t)
    PROVE  Inv'
<1>0. PICK s : s = peer[t]
  OBVIOUS
<1>1. PICK v \in Page :
        /\ Cloning(t) /\ Upcoming(t, v)
        /\ \/ ~Linked(s, v) /\ CloneFails(t)
           \/ /\ Linked(s, v) \/ ~Exhausted(mem)
              /\ mem' = IF Linked(s, v) THEN page_allocator_ref_page(mem, pte[s][v])
                        ELSE page_allocator_alloc(mem)
              /\ pte' = [pte EXCEPT ![t][v] = IF Linked(s, v) THEN pte[s][v]
                                              ELSE bitmap_find_first_set(mem)]
              /\ shared' = IF v \in shared[s]
                           THEN [shared EXCEPT ![t] = @ \cup {v}] ELSE shared
              /\ Done(t, v)
              /\ quickmapped' = IF todo[t] = {v} THEN NoFrame ELSE quickmapped
              /\ UNCHANGED <<pde, lists, pc, req, peer, quickmap_lock, lost, panic>>
  BY <1>0, Zenon DEF ClonePage
<1>2. /\ TypeOK /\ Frames /\ Local(s) /\ pc[t] = "clone" /\ s \in Space /\ v \in todo[t]
      /\ Cloned(t)
  BY <1>0, <1>1, CloningFacts DEF Upcoming
<1>3. CASE CloneFails(t)
  BY <1>2, <1>3, ForgetStep DEF CloneFails
<1>4. CASE ~CloneFails(t)
  <2> DEFINE f == IF v \in shared[s] THEN pte[s][v] ELSE bitmap_find_first_set(mem)
  <2>1. /\ v \in shared[s] \/ ~Exhausted(mem)
        /\ mem' = IF v \in shared[s] THEN page_allocator_ref_page(mem, f)
                  ELSE page_allocator_alloc(mem)
        /\ pte' = [pte EXCEPT ![t][v] = f]
        /\ shared' = IF v \in shared[s] THEN [shared EXCEPT ![t] = @ \cup {v}] ELSE shared
        /\ Done(t, v)
        /\ quickmapped' = IF todo[t] = {v} THEN NoFrame ELSE quickmapped
        /\ UNCHANGED <<pde, lists, pc, req, peer, quickmap_lock, lost, panic>>
    BY <1>1, <1>4 DEF Linked
  <2>2. f \in Frame
    <3>1. CASE v \in shared[s]
      <4>1. v \in Mapped(s)
        BY <1>0, <1>2 DEF Cloned
      <4> QED BY <1>2, <3>1, <4>1 DEF Mapped, TypeOK
    <3>2. CASE v \notin shared[s]
      <4>1. f = bitmap_find_first_set(mem) /\ ~Exhausted(mem)
        BY <2>1, <3>2
      <4> HIDE DEF f
      <4> QED BY <1>2, <4>1, FirstIsFree, FrameFacts DEF Frames
    <3> QED BY <3>1, <3>2
  <2>3. f = IF v \in shared[s] THEN pte[s][v] ELSE bitmap_find_first_set(mem)
    OBVIOUS
  <2> HIDE DEF f
  <2>4. \/ /\ v \in shared[s] /\ f = pte[s][v] /\ mem' = page_allocator_ref_page(mem, f)
           /\ shared' = [shared EXCEPT ![t] = @ \cup {v}]
        \/ /\ v \notin shared[s] /\ ~Exhausted(mem) /\ f = bitmap_find_first_set(mem)
           /\ mem' = page_allocator_alloc(mem) /\ shared' = shared
    BY <2>1, <2>3
  <2> QED BY <1>0, <1>1, <1>2, <2>1, <2>2, <2>4, ClonePut
<1> QED BY <1>3, <1>4

(* The return of fork() keeps the invariant, in success and in failure.    *)
LEMMA ForkReturnsStep ==
    ASSUME Inv, NEW t \in Space, ForkReturns(t)
    PROVE  Inv'
<1>1. pc[t] = "fork_done" /\ UNCHANGED quick
  BY DEF ForkReturns, At
<1>2. CASE Forget(t)
  BY <1>1, <1>2, ForgetStep
<1>3. CASE ~Forget(t)
  BY <1>1, <1>3, ForkSucceeds DEF ForkReturns
<1> QED BY <1>2, <1>3

(* The page directory is freed.                                            *)
LEMMA DestroyedStep ==
    ASSUME Inv, NEW s \in Space, Destroyed(s)
    PROVE  Inv'
<1>0. PICK t : t = peer[s]
  OBVIOUS
<1>1. /\ TypeOK /\ Frames /\ Quick /\ Local(s) /\ Pair(s) /\ pc[s] = "destroy_tables"
      /\ pde[s] = NoTables /\ todo[s] = {}
  BY Parts DEF Destroyed, At, Local
<1>2. /\ pte' = [pte EXCEPT ![s] = NoPages]
      /\ shared' = [shared EXCEPT ![s] = {}] /\ ranges' = [ranges EXCEPT ![s] = <<>>]
      /\ lock' = [lock EXCEPT ![s] = "free"] /\ user' = [user EXCEPT ![s] = {}]
      /\ req' = [req EXCEPT ![s] = NoRequest]
      /\ pc' = [u \in Space |-> IF u = s THEN "unused" ELSE IF u = t THEN "user" ELSE pc[u]]
      /\ peer' = [u \in Space |-> IF u = s \/ u = t THEN NoSpace ELSE peer[u]]
      /\ mem' = mem /\ pde' = pde /\ todo' = todo /\ lost' = lost /\ panic' = panic
      /\ quickmap_lock' = quickmap_lock /\ quickmapped' = quickmapped /\ UNCHANGED quick
  BY <1>0 DEF Destroyed, Resumed, quick
<1>3. NoPages \in [Page -> Frame \cup {NoFrame}] /\ <<>> \in Seq([start : Page, size : 1 .. NPages])
  BY DEF NoPages
<1>4. /\ pte' \in [Space -> [Page -> Frame \cup {NoFrame}]] /\ pte'[s] = NoPages
      /\ shared' \in [Space -> SUBSET Page] /\ shared'[s] = {}
      /\ user' \in [Space -> SUBSET Page] /\ user'[s] = {}
      /\ lock' \in [Space -> {"free", "own", "foreign"}]
      /\ \A u \in Space : u # s => /\ pde'[u] = pde[u] /\ pte'[u] = pte[u]
                                   /\ shared'[u] = shared[u] /\ user'[u] = user[u]
                                   /\ todo'[u] = todo[u]
  BY <1>1, <1>2, <1>3 DEF TypeOK
<1>5. /\ ranges' \in [Space -> Seq([start : Page, size : 1 .. NPages])]
      /\ req' \in [Space -> Request]
      /\ \A u \in Space : u # s => ranges'[u] = ranges[u] /\ req'[u] = req[u]
  BY <1>1, <1>2, <1>3, NoRequestFacts DEF TypeOK
<1>6. /\ pc' \in [Space -> PCs] /\ pc'[s] = "unused"
      /\ peer' \in [Space -> Space \cup {NoSpace}] /\ peer'[s] = NoSpace
      /\ \A u \in Space : u \notin {s, t} => pc'[u] = pc[u] /\ peer'[u] = peer[u]
      /\ t \in Space => pc'[t] = IF t = s THEN "unused" ELSE "user"
      /\ t \in Space => peer'[t] = NoSpace
  BY <1>1, <1>2 DEF TypeOK, PCs
<1>7. TypeOK'
  BY <1>1, <1>2, <1>4, <1>5, <1>6 DEF TypeOK
<1>8. \A w \in Page : RefOf(s, w)' = RefOf(s, w)
  <2>1. ASSUME NEW w \in Page
        PROVE  RefOf(s, w)' = RefOf(s, w)
    <3>1. RefOf(s, w)' = pte'[s][w]
      BY <1>6, RefFactsPrimed DEF Going
    <3>2. RefOf(s, w) = NoFrame
      BY <1>1, RefFacts
    <3> QED BY <1>4, <3>1, <3>2 DEF NoPages
  <2> QED BY <2>1
<1>9. \A d \in PageSlot : PageSlots[d] # NoFrame /\ d \in SharedSlots => d \in SharedSlots'
  <2>1. SharedSlots' = {e \in PageSlot : e[2] \in shared'[e[1]]}
    BY DEF SharedSlots
  <2>2. ASSUME NEW d \in PageSlot, PageSlots[d] # NoFrame
        PROVE  d[1] \in Space /\ d[1] # s
    <3>1. d[1] \in Space /\ d[2] \in Page /\ PageSlots[d] = RefOf(d[1], d[2])
      BY DEF PageSlot, PageSlots
    <3>2. \A w \in Page : RefOf(s, w) = NoFrame
      BY <1>1, RefFacts
    <3> QED BY <2>2, <3>1, <3>2
  <2> QED BY <1>4, <2>1, <2>2 DEF SharedSlots
<1>10. TableSlots' = TableSlots
  BY <1>2 DEF TableSlots
<1>11. ASSUME PageSlots' = PageSlots
       PROVE  Frames'
  BY <1>1, <1>2, <1>9, <1>10, <1>11, StillAccounted DEF Frames
<1>12. Mapped(s)' = {}
  BY <1>4 DEF Mapped, NoPages
<1>13. Local(s)'
  <2>1. HasTables(s)'
    BY <1>12 DEF HasTables
  <2>2. pde'[s] = NoTables /\ todo'[s] = {}
    BY <1>1, <1>2
  <2> QED BY <1>4, <1>6, <1>12, <2>1, <2>2 DEF Local, HasFreeList
<1>14. CASE t = NoSpace
  <2>1. \A u \in Space : u # s => Kept(u)
    BY <1>4, <1>5, <1>6, <1>14, SpaceAssumption DEF Kept
  <2>2. peer' = peer
    <3>1. \A u \in Space : (IF u = s \/ u = t THEN NoSpace ELSE peer[u]) = peer[u]
      BY <1>0, <1>14, SpaceAssumption
    <3>2. peer = [u \in Space |-> peer[u]]
      BY <1>1 DEF TypeOK
    <3>3. peer' = [u \in Space |-> IF u = s \/ u = t THEN NoSpace ELSE peer[u]]
      BY <1>2
    <3> QED BY ONLY <3>1, <3>2, <3>3
  <2>3. Moves(s)
    BY <1>0, <1>6, <1>14 DEF Moves, Coupled
  <2>4. PageSlots' = PageSlots
    <3>1. \A u \in Space : u # s => pte'[u] = pte[u] /\ pc'[u] = pc[u] /\ todo'[u] = todo[u]
      BY <2>1 DEF Kept
    <3> QED BY ONLY <1>8, <3>1, SameSlots
  <2> QED BY <1>1, <1>2, <1>6, <1>7, <1>11, <1>13, <2>1, <2>2, <2>3, <2>4, SoloStep
<1>15. CASE t # NoSpace
  <2>1. /\ t \in Space /\ peer[t] = s /\ s # t /\ pc[t] \in {"exec", "exec_done"}
        /\ Local(t)
    BY <1>0, <1>1, <1>15, Parts DEF Pair, Paired, Building, Going
  <2>2. Couple(s, t) /\ HasFreeList(t)
    BY <1>0, <2>1 DEF Couple, HasFreeList
  <2>3. OthersKept(s, t)
    BY <1>4, <1>5, <1>6 DEF OthersKept, Kept
  <2>4. Local(t)' /\ \A w \in Page : RefOf(t, w)' = RefOf(t, w)
    BY <1>4, <1>5, <1>6, <2>1, <2>2, QuietStep DEF Quiet
  <2>5. Frames'
    BY <1>8, <1>11, <2>2, <2>3, <2>4, PairSlots
  <2>6. Quick'
    BY <1>1, <1>2, <2>1, <2>2, <2>3, QuickKept
  <2>7. Pair(s)' /\ Pair(t)' /\ Cloned(s)' /\ Cloned(t)'
    BY <1>6, <2>1 DEF Pair, Coupled, Cloned
  <2> QED BY <1>7, <1>13, <2>2, <2>3, <2>4, <2>5, <2>6, <2>7, PairStep DEF Sound
<1> QED BY <1>14, <1>15

-----------------------------------------------------------------------------
(* The invariant holds.                                                    *)

(* At boot nothing but the console refers to a frame.                      *)
LEMMA FirstTally ==
    ASSUME Init
    PROVE  /\ Maps(PageSlots, TableSlots, lost)
           /\ \A f \in Frame : Tally(PageSlots, TableSlots, lost)[f]
                                  = page_allocator_init.ref_counts[f]
           /\ \A e \in PageSlot : PageSlots[e] = NoFrame
           /\ \A e \in TableSlot : TableSlots[e] = NoFrame
<1>1. \A u \in Space, v \in Page : pte[u][v] = NoFrame
  BY DEF Init, NoPages
<1>2. \A u \in Space, k \in Table : pde[u][k] = NoFrame
  BY DEF Init, NoTables
<1>3. \A e \in PageSlot : PageSlots[e] = NoFrame
  BY <1>1 DEF PageSlots, PageSlot, RefOf
<1>4. \A e \in TableSlot : TableSlots[e] = NoFrame
  BY <1>2 DEF TableSlots, TableSlot
<1>5. lost \in [Frame -> 0 .. MaxRef] /\ \A f \in Frame : lost[f] = 0
  BY FrameFacts DEF Init
<1>6. DOMAIN PageSlots = PageSlot /\ DOMAIN TableSlots = TableSlot
  BY DEF PageSlots, TableSlots
<1>7. PageSlots = [e \in PageSlot |-> NoFrame] /\ TableSlots = [e \in TableSlot |-> NoFrame]
  BY <1>3, <1>4 DEF PageSlots, TableSlots
<1>8. Maps(PageSlots, TableSlots, lost)
  BY <1>5, <1>7 DEF Maps
<1>9. ASSUME NEW f \in Frame
      PROVE  Tally(PageSlots, TableSlots, lost)[f] = page_allocator_init.ref_counts[f]
  <2> DEFINE c == ConsoleRefs(f)
             p == Cardinality(Slots(PageSlots, f))
             q == Cardinality(Slots(TableSlots, f))
             x == Tally(PageSlots, TableSlots, lost)[f]
  <2>1. Slots(PageSlots, f) = {} /\ Slots(TableSlots, f) = {}
    BY <1>3, <1>4, <1>6, FrameFacts DEF Slots
  <2>2. p = 0 /\ q = 0
    BY <2>1, FS_EmptySet
  <2>3. x = p + q + lost[f] + c /\ c \in Nat
    BY <1>8, TallyFacts
  <2> HIDE DEF c, p, q, x
  <2>4. x = c
    BY <1>5, <2>2, <2>3
  <2> QED BY <2>4 DEF x, c, ConsoleRefs
<1> QED BY <1>3, <1>4, <1>8, <1>9

(* At boot the frames are accounted for.                                   *)
LEMMA InitFrames == Init => Frames
<1> SUFFICES ASSUME Init PROVE Frames
  OBVIOUS
<1>1. /\ Maps(PageSlots, TableSlots, lost)
      /\ \A f \in Frame : Tally(PageSlots, TableSlots, lost)[f]
                             = page_allocator_init.ref_counts[f]
      /\ \A e \in PageSlot : PageSlots[e] = NoFrame
      /\ \A e \in TableSlot : TableSlots[e] = NoFrame
  BY FirstTally
<1>2. mem = page_allocator_init
  BY DEF Init
<1>3. \A f \in Frame : page_allocator_init.ref_counts[f] =
          IF f \in NFrames .. NFrames + NConsole - 1 THEN 1 ELSE 0
  BY DEF page_allocator_init
<1>4. mem \in Memory
  <2>1. [f \in Frame |-> IF f \in NFrames .. NFrames + NConsole - 1 THEN 1 ELSE 0]
            \in [Frame -> 0 .. MaxRef]
    BY FrameFacts
  <2> QED BY <2>1, <1>2, FrameFacts DEF page_allocator_init, Memory
<1>5. \A f \in RAM : f \notin NFrames .. NFrames + NConsole - 1
  BY FramesAssumption DEF RAM
<1>6. mem.bitmap = RAM
  BY <1>2 DEF page_allocator_init
<1>7. Tallied(mem, Tally(PageSlots, TableSlots, lost))
  BY <1>1, <1>2, <1>3, <1>5, <1>6, FrameFacts DEF Tallied
<1>8. Exclusive(PageSlots, TableSlots, SharedSlots)
  <2>1. NoFrame \notin DeviceFrame
    BY FrameFacts
  <2> QED BY <1>1, <2>1 DEF Exclusive
<1> QED BY <1>1, <1>4, <1>7, <1>8 DEF Frames, Accounted

(* The invariant holds at boot,                                            *)
LEMMA InitInv == Init => Inv
<1> SUFFICES ASSUME Init PROVE Inv
  OBVIOUS
<1>1. PICK s \in Space :
          /\ pc = [t \in Space |-> IF t = s THEN "exec_load" ELSE "unused"]
          /\ todo = [t \in Space |-> IF t = s THEN Pages(0, ImagePages) ELSE {}]
  BY Zenon DEF Init
<1>2. Frames
  BY InitFrames
<1>3. Pages(0, ImagePages) \subseteq Page
  BY PagesAssumption DEF Pages, Page
<1>4. 0 \in Page
  BY PagesAssumption DEF Page
<1>5. NoTables \in [Table -> RAM \cup {NoFrame}] /\ NoPages \in [Page -> Frame \cup {NoFrame}]
  BY DEF NoTables, NoPages
<1>6. NoRequest \in Request
  BY NoRequestFacts
<1>7. TypeOK
  <2>1. /\ mem \in Memory /\ lost \in [Frame -> 0 .. MaxRef]
    BY <1>2 DEF Frames, Accounted, Maps
  <2>2. pc \in [Space -> PCs] /\ todo \in [Space -> SUBSET Page]
    BY <1>1, <1>3 DEF PCs
  <2>3. /\ pde \in [Space -> [Table -> RAM \cup {NoFrame}]]
        /\ pte \in [Space -> [Page -> Frame \cup {NoFrame}]]
    BY <1>5 DEF Init
  <2>4. ranges \in [Space -> Seq([start : Page, size : 1 .. NPages])]
    <3>1. << >> \in Seq([start : Page, size : 1 .. NPages])
      OBVIOUS
    <3> QED BY <3>1, Zenon DEF Init
  <2>5. req \in [Space -> Request]
    BY <1>6 DEF Init
  <2>6. /\ shared \in [Space -> SUBSET Page] /\ user \in [Space -> SUBSET Page]
        /\ lock \in [Space -> {"free", "own", "foreign"}]
        /\ peer \in [Space -> Space \cup {NoSpace}]
        /\ quickmap_lock \in Space \cup {NoSpace} /\ quickmapped \in RAM \cup {NoFrame}
        /\ panic \in {"no", "ranges", "bitmap"}
    BY DEF Init
  <2> QED BY <2>1, <2>2, <2>3, <2>4, <2>5, <2>6 DEF TypeOK
<1>8. Quick
  BY DEF Init, Quick
<1>9. ASSUME NEW u \in Space
      PROVE  Sound(u)
  <2>1. /\ pde[u] = NoTables /\ pte[u] = NoPages /\ shared[u] = {} /\ user[u] = {}
        /\ peer[u] = NoSpace
    BY DEF Init
  <2>2. Mapped(u) = {}
    BY <2>1 DEF Mapped, NoPages
  <2>3. \/ pc[u] = "exec_load" /\ todo[u] = Pages(0, ImagePages)
        \/ pc[u] = "unused" /\ todo[u] = {}
    BY <1>1
  <2>4. HasTables(u) /\ ~HasFreeList(u)
    BY <2>2, <2>3 DEF HasTables, HasFreeList
  <2>5. Local(u)
    BY <2>1, <2>2, <2>3, <2>4 DEF Local, Fresh
  <2> QED BY <2>1, <2>3, <2>5 DEF Sound, Pair, Coupled, Cloned
<1> QED BY <1>2, <1>7, <1>8, <1>9 DEF Inv

(* through steps that change nothing,                                      *)
LEMMA NoStepInv ==
    ASSUME Inv, UNCHANGED vars
    PROVE  Inv'
<1>1. UNCHANGED <<mem, tables, lists, calls, quick, lost>> /\ panic' = panic
  BY DEF vars
<1>2. panic \in {"no", "ranges", "bitmap"}
  BY DEF Inv, TypeOK
<1> QED BY <1>1, <1>2, NothingMoves

(* through every step,                                                     *)
LEMMA NextInv == Inv /\ [Next]_vars => Inv'
<1> SUFFICES ASSUME Inv, [Next]_vars
             PROVE  Inv'
  OBVIOUS
<1>1. CASE UNCHANGED vars
  BY <1>1, NoStepInv
<1>2. CASE Halted
  BY <1>2, NoStepInv DEF Halted
<1>3. ASSUME NEW s \in Space, KernelStep(s)
      PROVE  Inv'
  <2>1. CASE map_page_to_free_page(s)
    BY <2>1, MapFreePage
  <2>2. CASE map_page_to_physical_addr(s)
    BY <2>2, MapPhysical
  <2>3. CASE unmap_page(s)
    BY <2>3, UnmapPage
  <2>4. CASE MmapAlloc(s)
    BY <2>4, MmapAllocStep
  <2>5. CASE MmapRefused(s)
    BY <2>5, MmapRefusedStep
  <2>6. CASE MmapReturns(s)
    BY <2>6, MmapReturnsStep
  <2>7. CASE Unmapped(s)
    BY <2>7, UnmappedStep
  <2>8. CASE range_allocator_free(s)
    BY <2>8, FreeStep
  <2>9. CASE clone_page_table(s)
    BY <2>9, ClonePageTableStep
  <2>10. CASE ClonePage(s)
    BY <2>10, ClonePageStep
  <2>11. CASE CloneDone(s)
    BY <2>11, CloneDoneStep
  <2>12. CASE ForkReturns(s)
    BY <2>12, ForkReturnsStep
  <2>13. CASE ExecLoaded(s)
    BY <2>13, ExecLoadedStep
  <2>14. CASE range_allocator_init(s)
    BY <2>14, RangeInit
  <2>15. CASE ExecStack(s)
    BY <2>15, ExecStackStep
  <2>16. CASE ExecReturns(s)
    BY <2>16, ExecReturnsStep
  <2>17. CASE DestroyPage(s)
    BY <2>17, DestroyPageStep
  <2>18. CASE DestroyTables(s)
    BY <2>18, DestroyTablesStep
  <2>19. CASE DestroyTable(s)
    BY <2>19, DestroyTableStep
  <2>20. CASE Destroyed(s)
    BY <2>20, DestroyedStep
  <2> QED
    BY ONLY <1>3, <2>1, <2>2, <2>3, <2>4, <2>5, <2>6, <2>7, <2>8, <2>9, <2>10, <2>11,
       <2>12, <2>13, <2>14, <2>15, <2>16, <2>17, <2>18, <2>19, <2>20 DEF KernelStep
<1>4. ASSUME NEW s \in Space, Syscall(s)
      PROVE  Inv'
  <2>1. CASE \E n \in Sizes, kind \in Kinds : sys_mmap(s, n, kind)
    BY <2>1, SysMmap
  <2>2. CASE \E a \in Page, n \in Sizes : sys_munmap(s, a, n)
    BY <2>2, SysMunmap
  <2>3. CASE \E t \in Space : sys_fork(s, t)
    BY <2>3, SysFork
  <2>4. CASE \E t \in Space : sys_execve(s, t)
    BY <2>4, SysExecve
  <2>5. CASE sys_exit(s)
    BY <2>5, SysExit
  <2> QED BY ONLY <1>4, <2>1, <2>2, <2>3, <2>4, <2>5 DEF Syscall
<1>5. ASSUME NEW s \in Space, CloneLock(s)
      PROVE  Inv'
  BY <1>5, CloneLockStep
<1>6. ASSUME NEW s \in Space, Spins(s) \/ Computes(s)
      PROVE  Inv'
  BY <1>6, NoStepInv DEF Spins, Computes
<1> QED BY ONLY [Next]_vars, <1>1, <1>2, <1>3, <1>4, <1>5, <1>6 DEF Next

(* and so for ever.                                                        *)
LEMMA InvHolds == Spec => []Inv
<1>1. Init => Inv
  BY InitInv
<1>2. Inv /\ [Next]_vars => Inv'
  BY NextInv
<1> QED BY <1>1, <1>2, PTL DEF Spec

-----------------------------------------------------------------------------
(* The frames that are not NoFrame in slots are the entries of the page    *)
(* tables and page directories.                                            *)
LEMMA EntriesAreSlots ==
    ASSUME Inv, NEW f \in Frame
    PROVE  /\ PageEntries(f) = Slots(PageSlots, f)
           /\ TableEntries(f) = Slots(TableSlots, f)
           /\ References(f) = Tally(PageSlots, TableSlots, lost)[f]
<1>1. f # NoFrame
  BY FrameFacts
<1>2. DOMAIN PageSlots = PageSlot /\ DOMAIN TableSlots = TableSlot
  BY DEF PageSlots, TableSlots
<1>3. \A e \in PageSlot : PageSlots[e] = RefOf(e[1], e[2])
  BY DEF PageSlots
<1>4. PageEntries(f) = {e \in PageSlot : e[2] \in PageRefs(e[1]) /\ pte[e[1]][e[2]] = f}
  BY DEF PageEntries, PageSlot
<1>5. Slots(PageSlots, f) = {e \in PageSlot : RefOf(e[1], e[2]) = f}
  BY <1>2, <1>3 DEF Slots
<1>6. \A e \in PageSlot : (e[2] \in PageRefs(e[1]) /\ pte[e[1]][e[2]] = f)
                             <=> RefOf(e[1], e[2]) = f
  BY <1>1 DEF RefOf
<1>7. PageEntries(f) = Slots(PageSlots, f)
  BY <1>4, <1>5, <1>6
<1>8. TableEntries(f) = Slots(TableSlots, f)
  BY <1>2 DEF TableEntries, TableSlot, TableSlots, Slots
<1>9. Tally(PageSlots, TableSlots, lost)[f] =
          Cardinality(Slots(PageSlots, f)) + Cardinality(Slots(TableSlots, f))
             + lost[f] + ConsoleRefs(f)
  BY DEF Tally
<1> QED BY <1>7, <1>8, <1>9 DEF References

(* The invariant makes the counts exact,                                   *)
LEMMA CountsAreExact == Inv => RefCountsMatch
<1> SUFFICES ASSUME Inv, NEW f \in Frame
             PROVE  /\ mem.ref_counts[f] < MaxRef => mem.ref_counts[f] = References(f)
                    /\ f \in mem.bitmap <=> f \in RAM /\ mem.ref_counts[f] = 0
  BY DEF RefCountsMatch
<1> DEFINE c == mem.ref_counts[f]
           n == Tally(PageSlots, TableSlots, lost)[f]
<1>1. (c = MaxRef \/ c = n) /\ (f \in mem.bitmap <=> f \in RAM /\ c = 0)
  BY DEF Inv, Frames, Accounted, Tallied
<1>2. n = References(f)
  BY EntriesAreSlots
<1>3. MaxRef \in Nat
  BY FrameFacts
<1> HIDE DEF c, n
<1>4. c < MaxRef => c = References(f)
  BY <1>1, <1>2, <1>3
<1> QED BY <1>1, <1>4 DEF c

(* the private frames exclusive,                                           *)
LEMMA FramesArePrivate == Inv => PrivateFramesAreExclusive
<1> SUFFICES ASSUME Inv, NEW s \in Space, NEW t \in Space, NEW v \in PageRefs(s)
             PROVE  /\ \A w \in PageRefs(t) :
                          (pte[s][v] = pte[t][w] /\ <<s, v>> # <<t, w>>) =>
                             v \in shared[s] /\ w \in shared[t]
                    /\ \A k \in Table : pde[t][k] # pte[s][v]
  BY DEF PrivateFramesAreExclusive
<1>1. \A u \in Space : PageRefs(u) \subseteq Mapped(u)
  BY Parts DEF Local, PageRefs
<1>2. ASSUME NEW u \in Space, NEW w \in PageRefs(u)
      PROVE  <<u, w>> \in PageSlot /\ PageSlots[<<u, w>>] = pte[u][w] /\ pte[u][w] # NoFrame
             /\ w \in Page
  <2>1. w \in Page /\ pte[u][w] # NoFrame
    BY <1>1 DEF Mapped
  <2>2. <<u, w>> \in PageSlot
    BY <2>1 DEF PageSlot
  <2>3. PageSlots[<<u, w>>] = RefOf(u, w)
    BY <2>2 DEF PageSlots
  <2> QED BY <2>1, <2>2, <2>3 DEF RefOf
<1>3. \A u \in Space : \A w \in Page : <<u, w>> \in SharedSlots => w \in shared[u]
  BY DEF SharedSlots
<1>4. \A u \in Space : \A k \in Table :
          <<u, k>> \in TableSlot /\ TableSlots[<<u, k>>] = pde[u][k]
  BY DEF TableSlots, TableSlot
<1>5. Exclusive(PageSlots, TableSlots, SharedSlots)
  BY DEF Inv, Frames, Accounted
<1>6. \A k \in Table : pde[t][k] # pte[s][v]
  <2>1. \A e \in PageSlot, g \in TableSlot : PageSlots[e] # NoFrame => PageSlots[e] # TableSlots[g]
    BY <1>5 DEF Exclusive
  <2>2. <<s, v>> \in PageSlot /\ PageSlots[<<s, v>>] = pte[s][v] /\ pte[s][v] # NoFrame
    BY <1>2
  <2>3. \A k \in Table : <<t, k>> \in TableSlot /\ TableSlots[<<t, k>>] = pde[t][k]
    BY <1>4
  <2> QED BY ONLY <2>1, <2>2, <2>3
<1>7. ASSUME NEW w \in PageRefs(t), pte[s][v] = pte[t][w], <<s, v>> # <<t, w>>
      PROVE  v \in shared[s] /\ w \in shared[t]
  <2> DEFINE e == <<s, v>>
             g == <<t, w>>
  <2>1. /\ e \in PageSlot /\ g \in PageSlot /\ e # g
        /\ PageSlots[e] # NoFrame /\ PageSlots[e] = PageSlots[g]
    BY <1>2, <1>7
  <2>2. e \in SharedSlots /\ g \in SharedSlots
    <3> HIDE DEF e, g
    <3> QED BY <2>1, <1>5 DEF Exclusive
  <2> QED BY <2>2, <1>2, <1>3
<1> QED BY <1>6, <1>7

(* the free lists sound                                                    *)
LEMMA FreeListsAreSound == Inv => FreeListSound
<1> SUFFICES ASSUME Inv, NEW s \in Space, HasFreeList(s)
             PROVE  /\ \A i, j \in DOMAIN ranges[s] :
                          i < j => End(ranges[s][i]) < ranges[s][j].start
                    /\ FreePages(ranges[s]) \cap user[s] = {}
                    /\ FreePages(ranges[s]) \cap Mapped(s) = Headers(ranges[s])
  BY DEF FreeListSound
<1>1. FreeList(s)
  BY Parts DEF Local
<1> QED BY <1>1 DEF FreeList, FreeListOf, InOrder

(* A mapped page that is yet to be unmapped keeps its frame counted.       *)
LEMMA MappedIsCounted ==
    ASSUME Inv, NEW s \in Space, NEW v \in PageRefs(s)
    PROVE  pte[s][v] # NoFrame /\ mem.ref_counts[pte[s][v]] > 0
<1> DEFINE f == pte[s][v]
           c == mem.ref_counts[f]
           n == Tally(PageSlots, TableSlots, lost)[f]
           e == <<s, v>>
<1>1. v \in Page /\ f # NoFrame
  <2>1. PageRefs(s) \subseteq Mapped(s)
    BY Parts DEF Local, PageRefs
  <2> QED BY <2>1 DEF Mapped
<1>2. f \in Frame
  BY <1>1 DEF Inv, TypeOK
<1>3. e \in PageSlot /\ PageSlots[e] = f
  BY <1>1 DEF PageSlots, PageSlot, RefOf
<1>4. Maps(PageSlots, TableSlots, lost) /\ (c = MaxRef \/ c = n) /\ MaxRef > 2
  <2>1. Maps(PageSlots, TableSlots, lost) /\ Tallied(mem, Tally(PageSlots, TableSlots, lost))
    BY DEF Inv, Frames, Accounted
  <2>2. \A g \in Frame : \/ mem.ref_counts[g] = MaxRef
                        \/ mem.ref_counts[g] = Tally(PageSlots, TableSlots, lost)[g]
    BY <2>1 DEF Tallied
  <2> QED BY <1>2, <2>1, <2>2, FrameFacts
<1> HIDE DEF f, e
<1>5. Tally(PageSlots, TableSlots, lost)[f] > 0
  BY <1>2, <1>3, <1>4, Referred
<1>6. c > 0
  <2> HIDE DEF c, n
  <2>1. n > 0
    BY <1>5 DEF n
  <2> QED BY <1>4, <2>1, MaxRefAssumption
<1> QED BY <1>1, <1>6 DEF f, c

(* and the assertions of paging.c true.                                    *)
LEMMA AssertsHold == Inv => PagingAsserts
<1> SUFFICES ASSUME Inv, NEW s \in Space
             PROVE  /\ pc[s] \in Mapping => \A v \in todo[s] : pte[s][v] = NoFrame
                    /\ pc[s] \in {"unmap", "destroy"} =>
                          \A v \in todo[s] : /\ pte[s][v] # NoFrame
                                             /\ mem.ref_counts[pte[s][v]] > 0
                    /\ pc[s] = "munmap_free" =>
                          Pages(req[s].addr, req[s].n) \cap FreePages(ranges[s]) = {}
                    /\ Cloning(s) /\ todo[s] = {} => quickmapped = NoFrame
  BY DEF PagingAsserts
<1>1. TypeOK /\ Quick /\ Local(s) /\ Pair(s)
  BY Parts
<1>2. todo[s] \subseteq Page
  BY <1>1 DEF TypeOK
<1>3. pc[s] \in Mapping => \A v \in todo[s] : pte[s][v] = NoFrame
  BY <1>1, <1>2, MapsNew
<1>4. ASSUME pc[s] \in {"unmap", "destroy"}, NEW v \in todo[s]
      PROVE  pte[s][v] # NoFrame /\ mem.ref_counts[pte[s][v]] > 0
  <2>1. v \in Mapped(s)
    <3>1. pc[s] = "unmap" => v \in ReqPages(s) /\ (v \in todo[s] <=> v \in Mapped(s))
      BY <1>1, <1>4 DEF Local, Held
    <3>2. pc[s] = "destroy" => todo[s] \subseteq Mapped(s)
      BY <1>1 DEF Local
    <3> QED BY <1>4, <3>1, <3>2
  <2>2. v \in PageRefs(s)
    BY <1>4, <2>1 DEF PageRefs
  <2> QED BY <2>2, MappedIsCounted
<1>5. pc[s] = "munmap_free" => Pages(req[s].addr, req[s].n) \cap FreePages(ranges[s]) = {}
  BY <1>1 DEF Local, Held, ReqPages
<1>6. ASSUME Cloning(s), todo[s] = {}
      PROVE  quickmapped = NoFrame
  <2>1. peer[s] # NoSpace
    BY <1>1, <1>6, SpaceAssumption DEF Cloning, At, Pair, Paired, Coupled
  <2>2. peer[peer[s]] = s /\ quickmap_lock = peer[s]
    BY <1>6, <2>1, PeerFacts DEF Cloning
  <2>3. todo[peer[quickmap_lock]] = {}
    BY <1>6, <2>2
  <2> QED BY <1>1, <2>3 DEF Quick
<1> QED BY <1>3, <1>4, <1>5, <1>6

(* The variables keep their types, in every interleaving of the processes. *)
THEOREM TypeCorrect == Spec => []TypeOK
  BY InvHolds, PTL DEF Inv

(* Until it saturates, the count of a frame is the number of entries that  *)
(* refer to it, and the frame is available exactly when there is none:     *)
(* page_allocator.c never hands out a frame that a process still uses.     *)
THEOREM CountsNeverDrift == Spec => []RefCountsMatch
<1>1. Inv => RefCountsMatch
  BY CountsAreExact
<1> QED BY <1>1, InvHolds, PTL

(* No two processes get at the same private page, and none at a page       *)
(* table: what fork() copies and exec() replaces stays apart.              *)
THEOREM ProcessesStayApart == Spec => []PrivateFramesAreExclusive
<1>1. Inv => PrivateFramesAreExclusive
  BY FramesArePrivate
<1> QED BY <1>1, InvHolds, PTL

(* The free lists of range_allocator.c stay in order and merged, and no    *)
(* assertion of paging.c about the pages fails.                            *)
THEOREM FreeListsStaySound == Spec => []RangesStaySound
<1>1. Inv => RangesStaySound
  BY FreeListsAreSound, AssertsHold DEF RangesStaySound, Inv
<1> QED BY <1>1, InvHolds, PTL

(* A fork() or an exec() that fails at any page gives back what it took.   *)
THEOREM FailedCallsGiveBack == Spec => []FailuresGiveBack
<1>1. Inv => FailuresGiveBack
  BY CountsAreExact, AssertsHold DEF FailuresGiveBack
<1> QED BY <1>1, InvHolds, PTL
=============================================================================
