------------------------------- MODULE UserHeap -----------------------------
(***************************************************************************)
(* malloc(), aligned_alloc(), realloc() and free() of the C library        *)
(* (userland/lib/stdlib.c).  Every block is a mapping of its own, with a   *)
(* header at its beginning that says how much mmap() was asked for.  A     *)
(* word is the size of a header; `arena' is what the process has in its    *)
(* memory, word by word, and mmap() takes any free pages (external: it is  *)
(* the system call).  The program fills what it is given, the words that   *)
(* realloc() adds to a block included.                                     *)
(***************************************************************************)
EXTENDS Integers, FiniteSets

CONSTANTS PageWords,     \* words of a page
          ArenaPages,    \* pages there are for blocks
          MaxAlign,      \* alignof(max_align_t), in words
          BlockSizes,    \* sizes that are asked for, in words
          MaxMallocs     \* bound: blocks made in a behaviour

ASSUME UserHeapAssumption == {PageWords, ArenaPages, MaxAlign} \subseteq Nat \ {0}

VARIABLES arena,         \* arena[w]: what is in word w
          ublocks,       \* blocks the program has: [ptr, base, pages, id, size,
                         \* first, holds]; first is the size that malloc() was
                         \* asked for before any realloc(), and holds the words
                         \* of it that are as the program left them
          mallocs,       \* how many were made
          overran,       \* history: realloc() has copied past a new block
          leaked,        \* history: pages that free() left mapped
          killed         \* the process died: of an assertion or of a page fault

userHeapVars == <<arena, ublocks, mallocs, overran, leaked, killed>>

NotMapped == <<"unmapped", 0>>
ZeroWord == <<"zero", 0>>
ArenaWords == 0 .. ArenaPages * PageWords - 1
WordsFrom(base, pages) == base * PageWords .. (base + pages) * PageWords - 1
PagesFor(words) == (words + PageWords - 1) \div PageWords
RoundUp(n, to) == ((n + to - 1) \div to) * to

UserHeapInit ==
    /\ arena = [w \in ArenaWords |-> NotMapped]
    /\ ublocks = {} /\ mallocs = 0 /\ overran = FALSE /\ leaked = {}
    /\ killed = "no"

(* mmap(): places for so many pages.                                       *)
FreePlaces(pages) == {base \in 0 .. ArenaPages - pages :
    \A w \in WordsFrom(base, pages) : arena[w] = NotMapped}

(* aligned_alloc(): the offset of the data, and the block at base.         *)
DataOffset(align) == RoundUp(1, align)
NewBlock(base, align, size) ==
    [ptr |-> base * PageWords + DataOffset(align), base |-> base,
     pages |-> PagesFor(DataOffset(align) + size), id |-> mallocs + 1,
     size |-> size, first |-> size, holds |-> 0 .. size - 1]

(* The memory with block b in it, zeroed, and with the words ks of the     *)
(* block as the program fills them.                                        *)
WithBlock(mem, b, real) ==
    [w \in ArenaWords |->
        IF w = b.base * PageWords THEN <<"header", real>>
        ELSE IF w \in WordsFrom(b.base, b.pages) THEN ZeroWord ELSE mem[w]]
DataWord(b, k) == <<"data", b.id, k>>
Filled(mem, b, ks) ==
    [w \in ArenaWords |-> IF w - b.ptr \in ks THEN DataWord(b, w - b.ptr) ELSE mem[w]]

(* The process lives, and no copy went past its block: what happens to a   *)
(* memory that one has damaged is not followed.                            *)
MemoryInUse == killed = "no" /\ ~overran

AlignedAlloc ==
    /\ MemoryInUse /\ mallocs < MaxMallocs
    /\ \E align \in {MaxAlign, PageWords}, size \in BlockSizes :
         LET real == DataOffset(align) + size
         IN \E base \in FreePlaces(PagesFor(real)) :
              LET b == NewBlock(base, align, size)
              IN /\ arena' = Filled(WithBlock(arena, b, real), b, 0 .. size - 1)
                 /\ ublocks' = ublocks \cup {b}
    /\ mallocs' = mallocs + 1
    /\ UNCHANGED <<overran, leaked, killed>>

(* header_from_ptr(): the header is at the beginning of the page, or of    *)
(* the page before if there is no room for it there.                       *)
HeaderFromPtrInPage(ptr) == (ptr \div PageWords) * PageWords  \* fault
HeaderFromPtr(ptr) ==
    LET addr == (ptr \div PageWords) * PageWords
    IN IF ptr - addr < 1 THEN addr - PageWords ELSE addr
HasHeader(mem, ptr) == mem[HeaderFromPtr(ptr)][1] = "header"
HeaderSize(mem, ptr) == mem[HeaderFromPtr(ptr)][2]

(* free() unmaps as much as the header says.                               *)
FreedWords(mem, b) == WordsFrom(HeaderFromPtr(b.ptr) \div PageWords,
                                PagesFor(HeaderSize(mem, b.ptr)))
WithoutBlock(mem, b) == [w \in ArenaWords |-> IF w \in FreedWords(mem, b) THEN NotMapped
                                       ELSE mem[w]]
LeftBehind(mem, b) == {w \div PageWords : w \in WordsFrom(b.base, b.pages) \ FreedWords(mem, b)}

UserFree ==
    /\ MemoryInUse
    /\ \E b \in ublocks :
         IF HasHeader(arena, b.ptr)
         THEN /\ arena' = WithoutBlock(arena, b) /\ ublocks' = ublocks \ {b}
              /\ leaked' = leaked \cup LeftBehind(arena, b)
              /\ UNCHANGED killed
         ELSE killed' = "assert" /\ UNCHANGED <<arena, ublocks, leaked>>
    /\ UNCHANGED <<mallocs, overran>>

(* realloc(): a new block, into which the old one is copied, header and    *)
(* all, and as much of it as the old header says; the old one is freed.    *)
(* The header of the new block then says what that of the old one did, so  *)
(* what a block keeps when it is moved is what lies below `first', however *)
(* large it has become since; and nothing if its data began further back   *)
(* than that of the new block (aligned_alloc()).  The program fills the    *)
(* words that are new to it.                                               *)
Copied(mem, to, from, n) == [w \in ArenaWords |->
    IF w \in to .. to + n - 1 THEN mem[from + w - to] ELSE mem[w]]
Moved(b, new) ==
    LET kept == IF b.ptr - b.base * PageWords = new.ptr - new.base * PageWords
                THEN {k \in b.holds : k < b.first /\ k < new.size} ELSE {}
    IN [new EXCEPT !.id = b.id, !.first = b.first,
                   !.holds = kept \cup b.size .. new.size - 1]

Realloc ==
    /\ MemoryInUse /\ mallocs < MaxMallocs
    /\ \E b \in ublocks, size \in BlockSizes :
         LET real == DataOffset(MaxAlign) + size
             n == HeaderSize(arena, b.ptr)
         IN \E base \in FreePlaces(PagesFor(real)) :
              LET new == Moved(b, NewBlock(base, MaxAlign, size))
                  got == WithBlock(arena, new, real)
                  to == HeaderFromPtr(new.ptr)
                  mem == Copied(got, to, HeaderFromPtr(b.ptr), n)
              IN IF ~HasHeader(arena, b.ptr)
                 THEN /\ killed' = "assert"
                      /\ UNCHANGED <<arena, ublocks, overran, leaked>>
                 ELSE IF \E w \in to .. to + n - 1 : w \notin ArenaWords \/ got[w] = NotMapped
                 THEN /\ killed' = "page fault" /\ overran' = TRUE
                      /\ UNCHANGED <<arena, ublocks, leaked>>
                 ELSE /\ overran' = (n > new.pages * PageWords)
                      /\ IF HasHeader(mem, b.ptr)
                         THEN /\ arena' = Filled(WithoutBlock(mem, b), new,
                                                 b.size .. size - 1)
                              /\ ublocks' = (ublocks \ {b}) \cup {new}
                              /\ leaked' = leaked \cup LeftBehind(mem, b)
                              /\ UNCHANGED killed
                         ELSE /\ killed' = "assert" /\ arena' = mem
                              /\ UNCHANGED <<ublocks, leaked>>
    /\ mallocs' = mallocs + 1

UserHeapNext == AlignedAlloc \/ UserFree \/ Realloc

-----------------------------------------------------------------------------
(* As long as no realloc() asked for fewer pages than the old block has,   *)
(* no assertion of the allocator fails, blocks share no page with each     *)
(* other nor with what was leaked, nothing else is mapped, and the words   *)
(* that a block must hold are what the program wrote to it, at their       *)
(* places, through every chain of moves (stdlib.c:108, 131, 140).  Two     *)
(* losses are not held against it: what a smaller realloc() copies over a  *)
(* neighbour or into a page fault (`overran'), and the words above `first' *)
(* that a second realloc() leaves behind.                                  *)
UserBlocksAreSound ==
    ~overran =>
      /\ killed = "no"
      /\ \A b \in ublocks :
           /\ HasHeader(arena, b.ptr)
           /\ FreedWords(arena, b) \subseteq WordsFrom(b.base, b.pages)
           /\ \A k \in b.holds : arena[b.ptr + k] = DataWord(b, k)
      /\ \A b, c \in ublocks : b # c =>
           WordsFrom(b.base, b.pages) \cap WordsFrom(c.base, c.pages) = {}
      /\ {w \in ArenaWords : arena[w] # NotMapped} =
           UNION {WordsFrom(b.base, b.pages) : b \in ublocks}
             \cup UNION {WordsFrom(p, 1) : p \in leaked}
=============================================================================
