---------------------------- MODULE AddressSpace ---------------------------
(***************************************************************************)
(* The user address spaces: kernel/memory/paging.c over the frames of      *)
(* PageAllocator, syscall/mmap.c over the free lists of RangeAllocator,    *)
(* the copy of the address space by fork() and its replacement by exec().  *)
(*                                                                         *)
(* A space is a page directory with the vaddr_allocator that goes with it. *)
(* Only the process that owns a space changes it, so a process is named by *)
(* its space; pc is where it is in its system call.  fork() and exec()     *)
(* build a second space, their peer.  Frames are drawn and given back one  *)
(* page at a time and other processes run in between, so that any draw may *)
(* be the one that fails.  The kernel heap, from which page directories    *)
(* come, is not part of the model: kaligned_alloc() may always fail.       *)
(***************************************************************************)
EXTENDS PageAllocator, RangeAllocator, FiniteSets

CONSTANTS
    Space,        \* bound: the page directories that exist at the same time
    NoSpace,
    NPages,       \* the pages below KERNEL_VADDR
    TableSize,    \* the pages that one page table maps
    ImagePages,   \* the pages of an executable's segments, from page 0 on
    StackPages,   \* STACK_SIZE
    Sizes,        \* the lengths of mmap(), in pages
    Kinds,        \* what is mapped
    Calls         \* the system calls that programs make

ASSUME SpaceAssumption == IsFiniteSet(Space) /\ NoSpace \notin Space
ASSUME PagesAssumption ==
    /\ NPages \in Nat \ {0} /\ TableSize \in Nat \ {0}
    /\ ImagePages \in Nat \ {0} /\ StackPages \in Nat \ {0}
    /\ ImagePages < NPages
ASSUME SizesAssumption == Sizes \subseteq Nat \ {0}
ASSUME KindsAssumption == Kinds \subseteq {"private", "shared", "framebuffer"}
ASSUME CallsAssumption == Calls \subseteq {"mmap", "munmap", "fork", "exec", "exit"}

Page == 0 .. NPages - 1
TableOf(v) == v \div TableSize
Table == {TableOf(v) : v \in Page}

VARIABLES
    mem,           \* the page allocator
    pde,           \* per space, the frames of its page tables
    pte,           \* per space, the frames that its pages are mapped to
    shared,        \* per space, the pages with the flag PAGE_SHARED
    ranges,        \* per space, its free list
    lock,          \* the mutex of the free list: "free", "own" or "foreign"
    user,          \* per space, the pages that mmap() has given to the program
    pc,            \* per space, where its owner is in a system call,
    todo,          \* the pages that the call has still to go through,
    req, peer,     \* what it was asked for, and the other space of it
    quickmap_lock, quickmapped,
    lost,          \* history: references that error paths have forgotten
    panic

tables == <<pde, pte, shared>>
lists == <<ranges, lock, user>>
calls == <<pc, todo, req, peer>>
quick == <<quickmap_lock, quickmapped>>
vars == <<mem, tables, lists, calls, quick, lost, panic>>

Request == [addr : Page, n : Nat, kind : {"private", "shared", "framebuffer"}]
NoRequest == [addr |-> 0, n |-> 0, kind |-> "private"]

PCs == {"unused", "user", "mmap_alloc", "mmap_map", "unmap", "munmap_free",
        "fork", "clone", "fork_done", "exec", "exec_load", "exec_init",
        "exec_stack", "exec_map_stack", "exec_done", "destroy", "destroy_tables"}

TypeOK ==
    /\ mem \in Memory
    /\ pde \in [Space -> [Table -> RAM \cup {NoFrame}]]
    /\ pte \in [Space -> [Page -> Frame \cup {NoFrame}]]
    /\ shared \in [Space -> SUBSET Page]
    /\ ranges \in [Space -> Seq([start : Page, size : 1 .. NPages])]
    /\ lock \in [Space -> {"free", "own", "foreign"}]
    /\ user \in [Space -> SUBSET Page]
    /\ pc \in [Space -> PCs]
    /\ todo \in [Space -> SUBSET Page]
    /\ req \in [Space -> Request]
    /\ peer \in [Space -> Space \cup {NoSpace}]
    /\ quickmap_lock \in Space \cup {NoSpace}
    /\ quickmapped \in RAM \cup {NoFrame}
    /\ lost \in [Frame -> 0 .. MaxRef]
    /\ panic \in {"no", "ranges", "bitmap"}

NoTables == [t \in Table |-> NoFrame]
NoPages == [v \in Page |-> NoFrame]
Pages(a, n) == a .. a + n - 1

(* kernel_init executes the first program.                                 *)
Init ==
    /\ mem = page_allocator_init
    /\ pde = [s \in Space |-> NoTables]
    /\ pte = [s \in Space |-> NoPages]
    /\ shared = [s \in Space |-> {}]
    /\ ranges = [s \in Space |-> <<>>]
    /\ lock = [s \in Space |-> "free"]
    /\ user = [s \in Space |-> {}]
    /\ \E s \in Space :
          /\ pc = [t \in Space |-> IF t = s THEN "exec_load" ELSE "unused"]
          /\ todo = [t \in Space |-> IF t = s THEN Pages(0, ImagePages) ELSE {}]
    /\ req = [s \in Space |-> NoRequest]
    /\ peer = [s \in Space |-> NoSpace]
    /\ quickmap_lock = NoSpace
    /\ quickmapped = NoFrame
    /\ lost = [f \in Frame |-> 0]
    /\ panic = "no"

At(s, l) == panic = "no" /\ pc[s] = l
Goto(s, l) == pc' = [pc EXCEPT ![s] = l]

(* Every loop over pages goes upwards: v is the next one.                  *)
Upcoming(s, v) == v \in todo[s] /\ \A w \in todo[s] : v <= w
Done(s, v) == todo' = [todo EXCEPT ![s] = @ \ {v}]

(* An assertion fails.                                                     *)
Panic(what) == panic' = what /\ UNCHANGED <<mem, tables, lists, calls, quick, lost>>

-----------------------------------------------------------------------------
(* Page tables.                                                            *)

(* get_or_create_page_table() of page v: it may need a frame, and the      *)
(* table that it has added stays when the caller fails later.              *)
NeedsTable(s, v) == pde[s][TableOf(v)] = NoFrame
TableFails(s, v) == NeedsTable(s, v) /\ Exhausted(mem)
WithTable(s, v) == IF NeedsTable(s, v) THEN page_allocator_alloc(mem) ELSE mem
AddTable(s, v) ==
    pde' = IF NeedsTable(s, v)
           THEN [pde EXCEPT ![s][TableOf(v)] = bitmap_find_first_set(mem)]
           ELSE pde

Mapped(s) == {v \in Page : pte[s][v] # NoFrame}

(* unref of a device frame's last reference: bitmap_set() asserts that the *)
(* bitmap has a bit for the frame.                                         *)
UnrefAsserts(f) == f \in DeviceFrame => mem.ref_counts[f] # 1

(* paging_destroy_current_page_directory() begins with the mapped pages.   *)
Destroy(s) ==
    /\ Goto(s, "destroy")
    /\ todo' = [todo EXCEPT ![s] = Mapped(s)]

(* What a call that cannot get a page does: mmap() leaves what it has      *)
(* mapped where it is and keeps the range; exec() drops the new space.     *)
MapFails(s) ==
    IF pc[s] = "mmap_map"
    THEN Goto(s, "user") /\ todo' = [todo EXCEPT ![s] = {}]
    ELSE Destroy(s)

Mapping == {"mmap_map", "exec_load", "exec_init", "exec_map_stack"}

(* map_page_to_free_page() of the next page of a mmap() or an exec().      *)
map_page_to_free_page(s) == \E v \in Page :
    LET m == WithTable(s, v)
    IN  /\ panic = "no" /\ pc[s] \in Mapping /\ Upcoming(s, v)
        /\ ~(pc[s] = "mmap_map" /\ req[s].kind = "framebuffer")
        /\ \/ /\ TableFails(s, v)
              /\ MapFails(s)
              /\ UNCHANGED <<mem, pde, pte, shared>>
           \/ /\ ~TableFails(s, v) /\ Exhausted(m)
              /\ mem' = m
              /\ AddTable(s, v)
              /\ MapFails(s)
              /\ UNCHANGED <<pte, shared>>
           \/ /\ ~TableFails(s, v) /\ ~Exhausted(m)
              /\ mem' = page_allocator_alloc(m)
              /\ AddTable(s, v)
              /\ pte' = [pte EXCEPT ![s][v] = bitmap_find_first_set(m)]
              /\ shared' = IF pc[s] = "mmap_map" /\ req[s].kind = "shared"
                           THEN [shared EXCEPT ![s] = @ \cup {v}] ELSE shared
              /\ Done(s, v)
              /\ UNCHANGED pc
        /\ UNCHANGED <<lists, req, peer, quick, lost, panic>>

(* map_page_to_physical_addr() of the next page of the frame buffer.       *)
map_page_to_physical_addr(s) == \E v \in Page :
    LET f == NFrames + v - req[s].addr
    IN  /\ At(s, "mmap_map") /\ Upcoming(s, v) /\ req[s].kind = "framebuffer"
        /\ \/ /\ TableFails(s, v)
              /\ MapFails(s)
              /\ UNCHANGED <<mem, pde, pte, shared>>
           \/ /\ ~TableFails(s, v)
              /\ mem' = page_allocator_ref_page(WithTable(s, v), f)
              /\ AddTable(s, v)
              /\ pte' = [pte EXCEPT ![s][v] = f]
              /\ shared' = [shared EXCEPT ![s] = @ \cup {v}]
              /\ Done(s, v)
              /\ UNCHANGED pc
        /\ UNCHANGED <<lists, req, peer, quick, lost, panic>>

(* unmap_page() of the next page of a munmap().                            *)
unmap_page(s) == \E v \in Page :
    /\ At(s, "unmap") /\ Upcoming(s, v)
    /\ \/ /\ UnrefAsserts(pte[s][v])
          /\ mem' = page_allocator_unref_page(mem, pte[s][v])
          /\ pte' = [pte EXCEPT ![s][v] = NoFrame]
          /\ shared' = [shared EXCEPT ![s] = @ \ {v}]
          /\ Done(s, v)
          /\ UNCHANGED <<pde, lists, pc, req, peer, quick, lost, panic>>
       \/ ~UnrefAsserts(pte[s][v]) /\ Panic("bitmap")

-----------------------------------------------------------------------------
(* mmap() and munmap().                                                    *)

sys_mmap(s, n, kind) ==
    /\ At(s, "user")
    /\ kind = "framebuffer" => n <= NDevice
    /\ req' = [req EXCEPT ![s] = [addr |-> 0, n |-> n, kind |-> kind]]
    /\ Goto(s, "mmap_alloc")
    /\ UNCHANGED <<mem, tables, lists, todo, peer, quick, lost, panic>>

(* The header of a range moves from page v to page w: paging_copy_mapping() *)
(* and paging_unmap().  (Fault: the old page stays mapped.)                *)
HeaderStays(s, v, w) == [pte EXCEPT ![s][w] = pte[s][v]]
HeaderMoves(s, v, w) == [pte EXCEPT ![s][w] = pte[s][v], ![s][v] = NoFrame]

(* Where the two callers of range_allocator_alloc() go on with address a,  *)
(* and without one.  exec() leaves an unmapped page on either side of the  *)
(* stack.                                                                  *)
GotRange(s, a) ==
    \/ /\ pc[s] = "mmap_alloc"
       /\ req' = [req EXCEPT ![s].addr = a]
       /\ todo' = [todo EXCEPT ![s] = Pages(a, req[s].n)]
       /\ Goto(s, "mmap_map")
    \/ /\ pc[s] = "exec_stack"
       /\ todo' = [todo EXCEPT ![s] = Pages(a + 1, StackPages)]
       /\ Goto(s, "exec_map_stack")
       /\ UNCHANGED req
NoRange(s) ==
    \/ pc[s] = "mmap_alloc" /\ Goto(s, "user") /\ UNCHANGED <<todo, req>>
    \/ pc[s] = "exec_stack" /\ Destroy(s) /\ UNCHANGED req

(* range_allocator_alloc() for n pages.  Without a range that is large     *)
(* enough it returns with the lock held.                                   *)
range_allocator_alloc(s, n) ==
    LET i == FirstFit(ranges[s], n)
        a == ranges[s][i].start
    IN  \/ ranges[s] = <<>> /\ Panic("ranges")
        \/ /\ ranges[s] # <<>> /\ i = 0
           /\ lock' = [lock EXCEPT ![s] = "own"]
           /\ NoRange(s)
           /\ UNCHANGED <<mem, tables, ranges, user, peer, quick, lost, panic>>
        \/ /\ i # 0 /\ IsExact(ranges[s], i, n)
           /\ ranges' = [ranges EXCEPT ![s] = Taken(@, i, n)]
           /\ mem' = page_allocator_unref_page(mem, pte[s][a])
           /\ pte' = [pte EXCEPT ![s][a] = NoFrame]
           /\ GotRange(s, a)
           /\ UNCHANGED <<pde, shared, lock, user, peer, quick, lost, panic>>
        \/ /\ i # 0 /\ ~IsExact(ranges[s], i, n) /\ TableFails(s, a + n)
           /\ NoRange(s)
           /\ UNCHANGED <<mem, tables, lists, peer, quick, lost, panic>>
        \/ /\ i # 0 /\ ~IsExact(ranges[s], i, n) /\ ~TableFails(s, a + n)
           /\ ranges' = [ranges EXCEPT ![s] = Taken(@, i, n)]
           /\ mem' = page_allocator_unref_page(
                         page_allocator_ref_page(WithTable(s, a + n), pte[s][a]),
                         pte[s][a])
           /\ AddTable(s, a + n)
           /\ pte' = HeaderMoves(s, a, a + n)
           /\ GotRange(s, a)
           /\ UNCHANGED <<shared, lock, user, peer, quick, lost, panic>>

MmapAlloc(s) ==
    /\ At(s, "mmap_alloc") /\ lock[s] # "foreign"
    /\ range_allocator_alloc(s, req[s].n)

MmapReturns(s) ==
    /\ At(s, "mmap_map") /\ todo[s] = {}
    /\ user' = [user EXCEPT ![s] = @ \cup Pages(req[s].addr, req[s].n)]
    /\ req' = [req EXCEPT ![s] = NoRequest]
    /\ Goto(s, "user")
    /\ UNCHANGED <<mem, tables, ranges, lock, todo, peer, quick, lost, panic>>

(* Only after it has got the range does sys_mmap() look at the offset and  *)
(* at the file: if it refuses them the range stays taken.                  *)
MmapRefused(s) ==
    /\ At(s, "mmap_map") /\ todo[s] = Pages(req[s].addr, req[s].n)
    /\ todo' = [todo EXCEPT ![s] = {}]
    /\ req' = [req EXCEPT ![s] = NoRequest]
    /\ Goto(s, "user")
    /\ UNCHANGED <<mem, tables, lists, peer, quick, lost, panic>>

(* Any pages that lie side by side and that the program has got.           *)
sys_munmap(s, a, n) ==
    /\ At(s, "user")
    /\ Pages(a, n) \subseteq user[s]
    /\ user' = [user EXCEPT ![s] = @ \ Pages(a, n)]
    /\ todo' = [todo EXCEPT ![s] = Pages(a, n)]
    /\ req' = [req EXCEPT ![s] = [addr |-> a, n |-> n, kind |-> "private"]]
    /\ Goto(s, "unmap")
    /\ UNCHANGED <<mem, tables, ranges, lock, peer, quick, lost, panic>>

Unmapped(s) ==
    /\ At(s, "unmap") /\ todo[s] = {}
    /\ Goto(s, "munmap_free")
    /\ UNCHANGED <<mem, tables, lists, todo, req, peer, quick, lost, panic>>

(* range_allocator_free(): the pages join the free ranges they touch.  If  *)
(* they touch none they need a frame for a header of their own, and if     *)
(* there is none the range is lost.                                        *)
range_allocator_free(s) ==
    LET a == req[s].addr
        n == req[s].n
        next == ranges[s][Before(ranges[s], a) + 1].start
        prevTouches == TouchesPrev(ranges[s], a)
        nextTouches == TouchesNext(ranges[s], a, n)
        m == WithTable(s, a)
        Give == ranges' = [ranges EXCEPT ![s] = Returned(@, a, n)]
    IN  /\ At(s, "munmap_free") /\ lock[s] # "foreign"
        /\ \/ ranges[s] = <<>> /\ Panic("ranges")
           \/ /\ ranges[s] # <<>>
              /\ Goto(s, "user")
              /\ req' = [req EXCEPT ![s] = NoRequest]
              /\ \/ /\ prevTouches /\ ~nextTouches
                    /\ Give
                    /\ UNCHANGED <<mem, pde, pte>>
                 \/ /\ prevTouches /\ nextTouches
                    /\ Give
                    /\ mem' = page_allocator_unref_page(mem, pte[s][next])
                    /\ pte' = [pte EXCEPT ![s][next] = NoFrame]
                    /\ UNCHANGED pde
                 \/ /\ ~prevTouches /\ nextTouches /\ ~TableFails(s, a)
                    /\ Give
                    /\ mem' = page_allocator_unref_page(
                                  page_allocator_ref_page(m, pte[s][next]),
                                  pte[s][next])
                    /\ AddTable(s, a)
                    /\ pte' = HeaderMoves(s, next, a)
                 \/ /\ ~prevTouches /\ ~nextTouches /\ ~TableFails(s, a)
                    /\ ~Exhausted(m)
                    /\ Give
                    /\ mem' = page_allocator_alloc(m)
                    /\ AddTable(s, a)
                    /\ pte' = [pte EXCEPT ![s][a] = bitmap_find_first_set(m)]
                 \/ /\ ~prevTouches
                    /\ TableFails(s, a) \/ (~nextTouches /\ Exhausted(m))
                    /\ mem' = IF TableFails(s, a) THEN mem ELSE m
                    /\ IF TableFails(s, a) THEN UNCHANGED pde ELSE AddTable(s, a)
                    /\ UNCHANGED <<ranges, pte>>
              /\ UNCHANGED <<shared, lock, user, todo, peer, quick, lost, panic>>

-----------------------------------------------------------------------------
(* fork().                                                                 *)

sys_fork(s, t) ==
    /\ At(s, "user") /\ pc[t] = "unused"
    /\ pc' = [pc EXCEPT ![s] = "fork", ![t] = "clone"]
    /\ peer' = [peer EXCEPT ![s] = t, ![t] = s]
    /\ UNCHANGED <<mem, tables, lists, todo, req, quick, lost, panic>>

(* Fault: fork() does not take the lock that goes with the quickmap page.  *)
CloneUnlocked(t) ==
    /\ At(t, "clone") /\ quickmap_lock # peer[t]
    /\ quickmap_lock' = peer[t]
    /\ UNCHANGED <<mem, tables, lists, calls, quickmapped, lost, panic>>
CloneLock(t) ==
    /\ At(t, "clone") /\ quickmap_lock = NoSpace
    /\ quickmap_lock' = peer[t]
    /\ UNCHANGED <<mem, tables, lists, calls, quickmapped, lost, panic>>

Cloning(t) == At(t, "clone") /\ quickmap_lock = peer[t]
NotCloned(t) == {k \in Table : pde[peer[t]][k] # NoFrame /\ pde[t][k] = NoFrame}

(* The references of the new space t are forgotten with it: nobody will    *)
(* ever give them back.  (They are counted up to MaxRef.)                  *)
RefsIn(t, f) == Cardinality({e \in {t} \X Page : pte[t][e[2]] = f})
                    + Cardinality({e \in {t} \X Table : pde[t][e[2]] = f})
Forget(t) ==
    /\ lost' = [f \in Frame |-> IF lost[f] + RefsIn(t, f) > MaxRef THEN MaxRef
                                ELSE lost[f] + RefsIn(t, f)]
    /\ pde' = [pde EXCEPT ![t] = NoTables]
    /\ pte' = [pte EXCEPT ![t] = NoPages]
    /\ shared' = [shared EXCEPT ![t] = {}]
    /\ ranges' = [ranges EXCEPT ![t] = <<>>]
    /\ lock' = [lock EXCEPT ![t] = "free"]
    /\ user' = [user EXCEPT ![t] = {}]
    /\ pc' = [pc EXCEPT ![t] = "unused", ![peer[t]] = "user"]
    /\ todo' = [todo EXCEPT ![t] = {}]
    /\ peer' = [peer EXCEPT ![t] = NoSpace, ![peer[t]] = NoSpace]
    /\ UNCHANGED <<mem, req, panic>>

(* Where fork() gives up, it first unlocks.  (Fault: it does not.)         *)
StaysLocked == quickmap_lock' = quickmap_lock /\ quickmapped' = NoFrame
Unlocks == quickmap_lock' = NoSpace /\ quickmapped' = NoFrame

CloneFails(t) == Exhausted(mem) /\ Forget(t) /\ Unlocks

(* clone_page_table() draws a frame for the next table and maps it at the  *)
(* quickmap page, for as long as it takes to copy the pages of the table.  *)
clone_page_table(t) ==
    /\ Cloning(t) /\ todo[t] = {}
    /\ \E k \in NotCloned(t) :
          /\ \A l \in NotCloned(t) : k <= l
          /\ \/ CloneFails(t)
             \/ /\ ~Exhausted(mem)
                /\ mem' = page_allocator_alloc(mem)
                /\ pde' = [pde EXCEPT ![t][k] = bitmap_find_first_set(mem)]
                /\ todo' = [todo EXCEPT
                       ![t] = {v \in Mapped(peer[t]) : TableOf(v) = k}]
                /\ quickmapped' = IF todo'[t] = {} THEN NoFrame
                                  ELSE bitmap_find_first_set(mem)
                /\ UNCHANGED <<pte, shared, lists, pc, req, peer, quickmap_lock,
                               lost, panic>>

(* One page of the loop: a shared page is referenced, any other is copied. *)
(* (Fault: they all are referenced.)                                       *)
LinkedByAll(s, v) == TRUE
Linked(s, v) == v \in shared[s]

ClonePage(t) == \E v \in Page :
    LET s == peer[t]
    IN  /\ Cloning(t) /\ Upcoming(t, v)
        /\ \/ ~Linked(s, v) /\ CloneFails(t)
           \/ /\ Linked(s, v) \/ ~Exhausted(mem)
              /\ mem' = IF Linked(s, v) THEN page_allocator_ref_page(mem, pte[s][v])
                        ELSE page_allocator_alloc(mem)
              /\ pte' = [pte EXCEPT ![t][v] = IF Linked(s, v) THEN pte[s][v]
                                              ELSE bitmap_find_first_set(mem)]
              /\ shared' = IF v \in shared[s]
                           THEN [shared EXCEPT ![t] = @ \cup {v}] ELSE shared
              /\ Done(t, v)
              /\ quickmapped' = IF todo[t] = {v} THEN NoFrame ELSE quickmapped
              /\ UNCHANGED <<pde, lists, pc, req, peer, quickmap_lock, lost, panic>>

(* The end of paging_clone_current_page_directory(); sys_fork() then       *)
(* copies the free list, with the state of its mutex.                      *)
CloneDone(t) ==
    LET s == peer[t]
    IN  /\ Cloning(t) /\ todo[t] = {} /\ NotCloned(t) = {}
        /\ Unlocks
        /\ ranges' = [ranges EXCEPT ![t] = ranges[s]]
        /\ lock' = [lock EXCEPT ![t] = IF lock[s] = "free" THEN "free" ELSE "foreign"]
        /\ user' = [user EXCEPT ![t] = user[s]]
        /\ Goto(t, "fork_done")
        /\ UNCHANGED <<mem, tables, todo, req, peer, lost, panic>>

(* The rest of sys_fork() succeeds, or it cannot allocate something.       *)
ForkReturns(t) ==
    /\ At(t, "fork_done")
    /\ \/ /\ pc' = [pc EXCEPT ![t] = "user", ![peer[t]] = "user"]
          /\ peer' = [peer EXCEPT ![t] = NoSpace, ![peer[t]] = NoSpace]
          /\ UNCHANGED <<mem, tables, lists, todo, req, lost, panic>>
       \/ Forget(t)
    /\ UNCHANGED quick

-----------------------------------------------------------------------------
(* exec() and exit().                                                      *)

sys_execve(s, t) ==
    /\ At(s, "user") /\ pc[t] = "unused"
    /\ pc' = [pc EXCEPT ![s] = "exec", ![t] = "exec_load"]
    /\ peer' = [peer EXCEPT ![s] = t, ![t] = s]
    /\ todo' = [todo EXCEPT ![t] = Pages(0, ImagePages)]
    /\ UNCHANGED <<mem, tables, lists, req, quick, lost, panic>>

(* The segments are loaded; range_allocator_init() maps its first header.  *)
ExecLoaded(t) ==
    /\ At(t, "exec_load") /\ todo[t] = {}
    /\ todo' = [todo EXCEPT ![t] = {ImagePages}]
    /\ Goto(t, "exec_init")
    /\ UNCHANGED <<mem, tables, lists, req, peer, quick, lost, panic>>

range_allocator_init(t) ==
    /\ At(t, "exec_init") /\ todo[t] = {}
    /\ ranges' = [ranges EXCEPT ![t] = <<FreeRange(ImagePages, NPages - ImagePages)>>]
    /\ Goto(t, "exec_stack")
    /\ UNCHANGED <<mem, tables, lock, user, todo, req, peer, quick, lost, panic>>

ExecStack(t) == At(t, "exec_stack") /\ range_allocator_alloc(t, StackPages + 2)

(* The arguments fit on the stack and the old space goes, or they do not   *)
(* fit and the new one goes.                                               *)
ExecReturns(t) ==
    /\ At(t, "exec_map_stack") /\ todo[t] = {}
    /\ \/ /\ peer[t] = NoSpace
          /\ Goto(t, "user")
          /\ UNCHANGED todo
       \/ /\ peer[t] # NoSpace
          /\ pc' = [pc EXCEPT ![t] = "exec_done", ![peer[t]] = "destroy"]
          /\ todo' = [todo EXCEPT ![peer[t]] = Mapped(peer[t])]
       \/ peer[t] # NoSpace /\ Destroy(t)
    /\ UNCHANGED <<mem, tables, lists, req, peer, quick, lost, panic>>

sys_exit(s) ==
    /\ At(s, "user")
    /\ Destroy(s)
    /\ UNCHANGED <<mem, tables, lists, req, peer, quick, lost, panic>>

(* paging_destroy_current_page_directory(): first the pages, one by one.   *)
(* The entries stay in the tables, which nobody looks at any more.         *)
DestroyPage(s) == \E v \in Page :
    /\ At(s, "destroy") /\ Upcoming(s, v)
    /\ \/ /\ UnrefAsserts(pte[s][v])
          /\ mem' = page_allocator_unref_page(mem, pte[s][v])
          /\ Done(s, v)
          /\ UNCHANGED <<tables, lists, pc, req, peer, quick, lost, panic>>
       \/ ~UnrefAsserts(pte[s][v]) /\ Panic("bitmap")

(* Then, on the kernel's page directory, the tables, in order.             *)
TablesForgotten(s) ==                                                \* fault
    /\ At(s, "destroy") /\ todo[s] = {}
    /\ Goto(s, "destroy_tables")
    /\ pde' = [pde EXCEPT ![s] = NoTables]
    /\ UNCHANGED <<mem, pte, shared, lists, todo, req, peer, quick, lost, panic>>
DestroyTables(s) ==
    /\ At(s, "destroy") /\ todo[s] = {}
    /\ Goto(s, "destroy_tables")
    /\ UNCHANGED <<mem, tables, lists, todo, req, peer, quick, lost, panic>>

DestroyTable(s) ==
    /\ At(s, "destroy_tables")
    /\ \E k \in Table :
          /\ pde[s][k] # NoFrame /\ \A l \in Table : pde[s][l] # NoFrame => k <= l
          /\ mem' = page_allocator_unref_page(mem, pde[s][k])
          /\ pde' = [pde EXCEPT ![s][k] = NoFrame]
    /\ UNCHANGED <<pte, shared, lists, calls, quick, lost, panic>>

(* The directory is freed.  An exec() goes on with the other space.        *)
Resumed(s) == [t \in Space |-> IF t = s THEN "unused"
                              ELSE IF t = peer[s] THEN "user" ELSE pc[t]]

Destroyed(s) ==
    /\ At(s, "destroy_tables") /\ pde[s] = NoTables
    /\ pte' = [pte EXCEPT ![s] = NoPages]
    /\ shared' = [shared EXCEPT ![s] = {}]
    /\ ranges' = [ranges EXCEPT ![s] = <<>>]
    /\ lock' = [lock EXCEPT ![s] = "free"]
    /\ user' = [user EXCEPT ![s] = {}]
    /\ req' = [req EXCEPT ![s] = NoRequest]
    /\ pc' = Resumed(s)
    /\ peer' = [t \in Space |-> IF t = s \/ t = peer[s] THEN NoSpace ELSE peer[t]]
    /\ UNCHANGED <<mem, pde, todo, quick, lost, panic>>

-----------------------------------------------------------------------------
(* After a panic, or when no process is left.                              *)
Halted ==
    /\ panic # "no" \/ \A s \in Space : pc[s] = "unused"
    /\ UNCHANGED vars

(* mutex_lock() of a lock that another process holds: that of the quickmap *)
(* page, or that of the free list, which a child has got as a copy of its  *)
(* parent's.                                                               *)
Spins(s) ==
    /\ \/ At(s, "clone") /\ quickmap_lock \notin {NoSpace, peer[s]}
       \/ At(s, "mmap_alloc") /\ lock[s] = "foreign"
       \/ At(s, "munmap_free") /\ lock[s] = "foreign"
    /\ UNCHANGED vars

(* A program that makes no system call.                                    *)
Computes(s) == At(s, "user") /\ UNCHANGED vars

KernelStep(s) ==
    \/ map_page_to_free_page(s) \/ map_page_to_physical_addr(s) \/ unmap_page(s)
    \/ MmapAlloc(s) \/ MmapRefused(s) \/ MmapReturns(s)
    \/ Unmapped(s) \/ range_allocator_free(s)
    \/ clone_page_table(s) \/ ClonePage(s) \/ CloneDone(s) \/ ForkReturns(s)
    \/ ExecLoaded(s) \/ range_allocator_init(s) \/ ExecStack(s) \/ ExecReturns(s)
    \/ DestroyPage(s) \/ DestroyTables(s) \/ DestroyTable(s) \/ Destroyed(s)

Syscall(s) ==
    \/ "mmap" \in Calls /\ \E n \in Sizes, kind \in Kinds : sys_mmap(s, n, kind)
    \/ "munmap" \in Calls /\ \E a \in Page, n \in Sizes : sys_munmap(s, a, n)
    \/ "fork" \in Calls /\ \E t \in Space : sys_fork(s, t)
    \/ "exec" \in Calls /\ \E t \in Space : sys_execve(s, t)
    \/ "exit" \in Calls /\ sys_exit(s)

Next ==
    \/ \E s \in Space : \/ KernelStep(s) \/ CloneLock(s) \/ Spins(s)
                       \/ Syscall(s) \/ Computes(s)
    \/ Halted

Spec == Init /\ [][Next]_vars

(* A process gets the CPU again and again, and the lock of the quickmap    *)
(* page, which every fork() gives back, is not for ever taken when it      *)
(* tries.                                                                  *)
FairSpec ==
    Spec /\ \A s \in Space : WF_vars(KernelStep(s)) /\ SF_vars(CloneLock(s))

-----------------------------------------------------------------------------
(* The pages of space s the references of which are still to be given      *)
(* back, and all the entries of page tables and of page directories that   *)
(* refer to frame f.                                                       *)
PageRefs(s) == CASE pc[s] = "destroy" -> todo[s]
                 [] pc[s] = "destroy_tables" -> {}
                 [] OTHER -> Mapped(s)
PageEntries(f) ==
    {e \in Space \X Page : e[2] \in PageRefs(e[1]) /\ pte[e[1]][e[2]] = f}
TableEntries(f) == {e \in Space \X Table : pde[e[1]][e[2]] = f}
ConsoleRefs(f) == page_allocator_init.ref_counts[f]

References(f) == Cardinality(PageEntries(f)) + Cardinality(TableEntries(f))
                     + lost[f] + ConsoleRefs(f)

(* Reference counts are exact until they saturate: the count of a frame is *)
(* the number of page table and page directory entries that refer to it,   *)
(* plus the references that failed forks have leaked.  So a frame is       *)
(* available exactly when nothing refers to it.                            *)
RefCountsMatch ==
    panic = "no" => \A f \in Frame :
        /\ mem.ref_counts[f] < MaxRef =>
              mem.ref_counts[f] = References(f)
        /\ f \in mem.bitmap <=> f \in RAM /\ mem.ref_counts[f] = 0

(* Processes are isolated: a frame that two pages are mapped to is mapped  *)
(* as shared by both, and no page is mapped to a page table.               *)
PrivateFramesAreExclusive ==
    \A s, t \in Space : \A v \in PageRefs(s) :
        /\ \A w \in PageRefs(t) : (pte[s][v] = pte[t][w] /\ <<s, v>> # <<t, w>>) =>
                                     v \in shared[s] /\ w \in shared[t]
        /\ \A k \in Table : pde[t][k] # pte[s][v]

HasFreeList(s) == pc[s] \notin {"unused", "clone", "exec_load", "exec_init",
                                "destroy", "destroy_tables"}

(* The free list is in order, neighbours have been merged, none of it      *)
(* belongs to the program, and of a free range the first page is mapped    *)
(* and no other.                                                           *)
FreeListSound ==
    panic = "no" => \A s \in Space : HasFreeList(s) =>
        LET list == ranges[s] IN
        /\ \A i, j \in DOMAIN list : i < j => End(list[i]) < list[j].start
        /\ FreePages(list) \cap user[s] = {}
        /\ FreePages(list) \cap Mapped(s) = Headers(list)

(* What paging.c and range_allocator_free() assert: a page that is to be   *)
(* mapped is not yet, one that is to be unmapped is, pages that are given  *)
(* back are not free, and the quickmap page is unused when it is needed.   *)
PagingAsserts ==
    panic = "no" => \A s \in Space :
        /\ pc[s] \in Mapping =>
              \A v \in todo[s] : pte[s][v] = NoFrame
        /\ pc[s] \in {"unmap", "destroy"} =>
              \A v \in todo[s] : /\ pte[s][v] # NoFrame
                                 /\ mem.ref_counts[pte[s][v]] > 0
        /\ pc[s] = "munmap_free" =>
              Pages(req[s].addr, req[s].n) \cap FreePages(ranges[s]) = {}
        /\ Cloning(s) /\ todo[s] = {} => quickmapped = NoFrame

(* Whatever mmap(), munmap(), fork() and exit() split and merge, the free  *)
(* ranges are disjoint, sorted, apart from each other and from what is in  *)
(* use, their headers are where the list says, and no assertion of         *)
(* paging.c fails (range_allocator.c:132, :167, paging.c:154).              *)
RangesStaySound == TypeOK /\ FreeListSound /\ PagingAsserts

(* A fork() that competes for the quickmap page, or an exec() that fails   *)
(* at any page, gives back exactly what it had taken: every frame is       *)
(* referenced as often as it is counted, and nothing is mapped twice or    *)
(* unmapped without having been mapped (paging.c:305, exec.c:374).         *)
FailuresGiveBack == RefCountsMatch /\ PagingAsserts

(* Every system call returns, on its error paths too, or is waiting for    *)
(* the lock of an ancestor's failed mmap().                                *)
CallsReturn ==
    \A s \in Space :
        pc[s] \notin {"user", "unused"}
            ~> (pc[s] \in {"user", "unused"} \/ panic # "no"
                  \/ (lock[s] = "foreign" /\ pc[s] \in {"mmap_alloc", "munmap_free"}))

(* Both functions of the range allocator state ASSERT(allocator->ranges).  *)
AssertRanges == panic # "ranges"
=============================================================================
