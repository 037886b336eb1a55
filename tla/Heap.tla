-------------------------------- MODULE Heap --------------------------------
(***************************************************************************)
(* The kernel heap (kernel/memory/kmalloc.c) over the range allocator of   *)
(* the kernel's addresses; malloc() of the C library does the same over    *)
(* mmap().  Every block has pages of its own and a header that says how    *)
(* many.  Kernel threads are preempted between taking a range and mapping  *)
(* it, and between unmapping a block and giving its range back.  A size is *)
(* a number of pages, the header included.                                 *)
(***************************************************************************)
EXTENDS RangeAllocator, FiniteSets

CONSTANTS HeapUser,
          HeapPages,     \* pages of the kernel's address range
          HeapFrames,    \* physical pages there are for it
          MaxBlock       \* bound: pages of a block

ASSUME HeapAssumption == /\ HeapPages \in Nat \ {0} /\ HeapFrames \in Nat \ {0}
                        /\ MaxBlock \in Nat

VARIABLES heapRanges,    \* ranges of kernel_vaddr_allocator
          heapLocked,    \* the threads (one at most) that have left its lock
                         \* taken: a call that found no range that fits
          heapMapped,    \* the mapped pages
          heapFree,      \* free physical pages
          blocks,        \* live blocks: [addr, pages, size (of the header)]
          heapUser,      \* heapUser[t]: [pc, addr, n, old], the call of t
          heapLost,      \* history: pages that belong to nobody any more
          heapPanic      \* an assertion failed

heapVars == <<heapRanges, heapLocked, heapMapped, heapFree, blocks, heapUser,
              heapLost, heapPanic>>

Block(addr, pages, size) == [addr |-> addr, pages |-> pages, size |-> size]
NoBlock == Block(0, 0, 0)
Extent(addr, n) == addr .. addr + n - 1
HeapIdle == [pc |-> "idle", addr |-> 0, n |-> 0, old |-> NoBlock]
HeapAt(t, pc) == ~heapPanic /\ heapUser[t].pc = pc

(* Nobody frees a block that somebody reallocates, nor one nobody knows.   *)
Usable(b) == \A t \in HeapUser :
    /\ heapUser[t].old # b
    /\ heapUser[t].pc = "copy" => heapUser[t].addr # b.addr

HeapInit ==
    /\ heapRanges = <<FreeRange(0, HeapPages)>> /\ heapLocked = {}
    /\ heapMapped = {0} /\ heapFree = HeapFrames - 1
    /\ blocks = {} /\ heapLost = {} /\ heapPanic = FALSE
    /\ heapUser = [t \in HeapUser |-> HeapIdle]

-----------------------------------------------------------------------------
(* The lock is recursive: who left it taken goes on, the others wait.      *)
HeapUnlocked(t) == heapLocked \subseteq {t}

(* kmalloc(), or krealloc() of a smaller block, gets to the allocator,     *)
(* which asserts before it takes the lock that there is a range.           *)
KCall(t) ==
    /\ HeapAt(t, "idle")
    /\ \E n \in 1 .. MaxBlock, old \in {b \in blocks : Usable(b)} \cup {NoBlock} :
         /\ old.pages <= n
         /\ heapUser' = [heapUser EXCEPT ![t] =
              [pc |-> "alloc", addr |-> 0, n |-> n, old |-> old]]
    /\ heapPanic' = (heapRanges = << >>)
    /\ UNCHANGED <<heapRanges, heapLocked, heapMapped, heapFree, blocks, heapLost>>

(* kaligned_alloc() takes a range; when none fits the allocator returns    *)
(* with its lock held.                                                     *)
KAlloc(t) ==
    /\ HeapAt(t, "alloc") /\ HeapUnlocked(t)
    /\ LET n == heapUser[t].n
           i == FirstFit(heapRanges, n)
           it == heapRanges[i].start
       IN IF i = 0
          THEN /\ heapLocked' = {t}
               /\ heapUser' = [heapUser EXCEPT ![t] = HeapIdle]
               /\ UNCHANGED <<heapRanges, heapMapped, heapFree>>
          ELSE /\ heapRanges' = Taken(heapRanges, i, n)
               /\ heapMapped' = (heapMapped \ {it}) \cup
                    (IF IsExact(heapRanges, i, n) THEN {} ELSE {it + n})
               /\ heapFree' = IF IsExact(heapRanges, i, n) THEN heapFree + 1
                              ELSE heapFree
               /\ heapUser' = [heapUser EXCEPT ![t].pc = "map", ![t].addr = it]
               /\ UNCHANGED heapLocked
    /\ UNCHANGED <<blocks, heapLost, heapPanic>>

(* It maps the range and writes the header; if the physical pages run out  *)
(* the range is lost, with the pages that are mapped by then.              *)
KMap(t) ==
    /\ HeapAt(t, "map")
    /\ LET u == heapUser[t]
           done == IF u.n <= heapFree THEN u.n ELSE heapFree
       IN /\ heapMapped' = heapMapped \cup Extent(u.addr, done)
          /\ heapFree' = heapFree - done
          /\ IF done = u.n
             THEN /\ blocks' = blocks \cup {Block(u.addr, u.n, u.n)}
                  /\ heapUser' = [heapUser EXCEPT ![t] =
                       IF u.old = NoBlock THEN HeapIdle ELSE [u EXCEPT !.pc = "copy"]]
                  /\ UNCHANGED heapLost
             ELSE /\ heapLost' = heapLost \cup Extent(u.addr, u.n)
                  /\ heapUser' = [heapUser EXCEPT ![t] = HeapIdle]
                  /\ UNCHANGED blocks
    /\ UNCHANGED <<heapRanges, heapLocked, heapPanic>>

(* kfree(): what the header says is unmapped.                              *)
KFreeExtentPastEnd(b) == Extent(b.addr, b.size + 1)           \* fault
KFreeExtent(b) == Extent(b.addr, b.size)

Unmapped(t, b, bs) ==
    /\ heapMapped' = heapMapped \ KFreeExtent(b)
    /\ heapFree' = heapFree + Cardinality(KFreeExtent(b))
    /\ blocks' = bs \ {b}
    /\ heapLost' = heapLost \cup (Extent(b.addr, b.pages) \ Extent(b.addr, b.size))
    /\ heapUser' = [heapUser EXCEPT ![t] =
         [pc |-> "unmapped", addr |-> b.addr, n |-> b.size, old |-> NoBlock]]
    /\ UNCHANGED <<heapRanges, heapLocked, heapPanic>>

KFree(t) ==
    /\ HeapAt(t, "idle")
    /\ \E b \in blocks : Usable(b) /\ Unmapped(t, b, blocks)

(* krealloc() copies the old block, the header of which comes with it, and *)
(* frees the old one.                                                      *)
KRealloc(t) ==
    /\ HeapAt(t, "copy")
    /\ LET u == heapUser[t]
           new == Block(u.addr, u.n, u.n)
       IN Unmapped(t, u.old, (blocks \ {new}) \cup {[new EXCEPT !.size = u.old.size]})

(* range_allocator_free() asserts that there is a range,                   *)
KFreeAsserts(t) ==
    /\ HeapAt(t, "unmapped")
    /\ heapPanic' = (heapRanges = << >>)
    /\ heapUser' = [heapUser EXCEPT ![t].pc = "return"]
    /\ UNCHANGED <<heapRanges, heapLocked, heapMapped, heapFree, blocks, heapLost>>

(* takes the lock, and links the range; one that touches no other needs a  *)
(* page for its struct range, and kfree() asserts that there is one.       *)
KFreeRange(t) ==
    /\ HeapAt(t, "return") /\ HeapUnlocked(t)
    /\ LET a == heapUser[t].addr
           n == heapUser[t].n
           prev == TouchesPrev(heapRanges, a)
           next == TouchesNext(heapRanges, a, n)
       IN IF ~prev /\ ~next /\ heapFree = 0
          THEN /\ heapPanic' = TRUE
               /\ UNCHANGED <<heapRanges, heapMapped, heapFree, heapUser>>
          ELSE /\ heapRanges' = Returned(heapRanges, a, n)
               /\ heapMapped' = (heapMapped \ (IF next THEN {a + n} ELSE {}))
                                \cup (IF prev THEN {} ELSE {a})
               /\ heapFree' = heapFree + (IF next THEN 1 ELSE 0)
                                       - (IF prev THEN 0 ELSE 1)
               /\ heapUser' = [heapUser EXCEPT ![t] = HeapIdle]
               /\ UNCHANGED heapPanic
    /\ UNCHANGED <<heapLocked, blocks, heapLost>>

HeapNext == \E t \in HeapUser : \/ KCall(t) \/ KAlloc(t) \/ KMap(t) \/ KFree(t)
                                \/ KRealloc(t) \/ KFreeAsserts(t) \/ KFreeRange(t)

HeapSpec == HeapInit /\ [][HeapNext]_heapVars

-----------------------------------------------------------------------------
(* The parts of the kernel's addresses: the free ranges, the blocks, what  *)
(* a thread has taken and not yet mapped or unmapped and not yet returned, *)
(* and the pages that were lost.                                           *)
HeapParts ==
    {PagesOf(heapRanges[i]) : i \in DOMAIN heapRanges}
    \cup {Extent(b.addr, b.pages) : b \in blocks}
    \cup {Extent(heapUser[t].addr, heapUser[t].n) :
            t \in {u \in HeapUser : heapUser[u].pc \in {"map", "unmapped", "return"}}}
    \cup (IF heapLost = {} THEN {} ELSE {heapLost})

(* However the steps of two threads are mixed, no page belongs to two of   *)
(* these parts, every page of a block is mapped, and so is the first page  *)
(* of a free range, where its struct range is; no other page is, unless    *)
(* it was lost: by krealloc(), whose copy of the header makes kfree() give *)
(* back less than the block has, or by kaligned_alloc() without physical   *)
(* pages (kmalloc.c:66, 108, 120).                                         *)
HeapIsPartitioned ==
    /\ \A P, Q \in HeapParts : P = Q \/ P \cap Q = {}
    /\ UNION HeapParts = 0 .. HeapPages - 1
    /\ LET used == Headers(heapRanges) \cup
                   UNION {Extent(b.addr, b.pages) : b \in blocks}
       IN used \subseteq heapMapped /\ heapMapped \subseteq used \cup heapLost
    /\ heapFree = HeapFrames - Cardinality(heapMapped)
=============================================================================
