--------------------------- MODULE RangeAllocator --------------------------
(* The free list of kernel/memory/range_allocator.c as a value: ranges of  *)
(* pages in the order of their addresses.  The struct range of a free      *)
(* range is in its first page, which is the one page of it that is mapped; *)
(* the callers of these operators move that mapping along.                 *)
EXTENDS Integers, Sequences

Seqs == INSTANCE SequencesExt

FreeRange(a, n) == [start |-> a, size |-> n]
End(r) == r.start + r.size
PagesOf(r) == r.start .. End(r) - 1

Headers(ranges) == {ranges[i].start : i \in DOMAIN ranges}
FreePages(ranges) == UNION {PagesOf(ranges[i]) : i \in DOMAIN ranges}

(* The index of the first range that is large enough, 0 if none is.        *)
FirstFit(ranges, n) ==
    LET fits == {i \in DOMAIN ranges : ranges[i].size >= n}
    IN  IF fits = {} THEN 0 ELSE CHOOSE i \in fits : \A j \in fits : i <= j

IsExact(ranges, i, n) == ranges[i].size = n

(* The list after the first n pages of the i-th range were taken.          *)
TakenWhole(ranges, i, n) ==                                          \* fault
    [ranges EXCEPT ![i] = FreeRange(@.start + n, @.size - n)]
Taken(ranges, i, n) ==
    IF IsExact(ranges, i, n) THEN Seqs!RemoveAt(ranges, i)
    ELSE [ranges EXCEPT ![i] = FreeRange(@.start + n, @.size - n)]

(* prev and it of range_allocator_free(): the ranges before and after      *)
(* address a are those with the indices Before(ranges, a) and the next.    *)
Before(ranges, a) ==
    LET below == {i \in DOMAIN ranges : \A j \in 1 .. i : End(ranges[j]) <= a}
    IN  IF below = {} THEN 0 ELSE CHOOSE i \in below : \A j \in below : j <= i

TouchesPrev(ranges, a) ==
    Before(ranges, a) > 0 /\ End(ranges[Before(ranges, a)]) = a
TouchesNext(ranges, a, n) ==
    Before(ranges, a) < Len(ranges) /\ ranges[Before(ranges, a) + 1].start = a + n

(* The list after the n pages from a on were given back.                   *)
ReturnedUnmerged(ranges, a, n) ==                                    \* fault
    Seqs!InsertAt(ranges, Before(ranges, a) + 1, FreeRange(a, n))
Returned(ranges, a, n) ==
    LET i == Before(ranges, a)
    IN  CASE TouchesPrev(ranges, a) /\ TouchesNext(ranges, a, n) ->
                 Seqs!RemoveAt([ranges EXCEPT ![i] =
                     FreeRange(@.start, @.size + n + ranges[i + 1].size)], i + 1)
          [] TouchesPrev(ranges, a) /\ ~TouchesNext(ranges, a, n) ->
                 [ranges EXCEPT ![i] = FreeRange(@.start, @.size + n)]
          [] ~TouchesPrev(ranges, a) /\ TouchesNext(ranges, a, n) ->
                 [ranges EXCEPT ![i + 1] = FreeRange(a, @.size + n)]
          [] OTHER -> Seqs!InsertAt(ranges, i + 1, FreeRange(a, n))
=============================================================================
