------------------------------- MODULE FileOps ------------------------------
(***************************************************************************)
(* What a call on an open file reaches (kernel/fs/fs.c:184): the operation *)
(* of the inode, if it has one and the flags of the description allow it.  *)
(* The flags are those of open() until F_SETFL replaces them; a mapping    *)
(* keeps the rights it was made with.  Behind the calls are a regular file *)
(* of tmpfs, a file of procfs, whose text is made when it is opened, and   *)
(* /dev/random (random.c).                                                 *)
(*                                                                         *)
(* A refused call changes nothing and is not an action.  The numbers of    *)
(* /dev/random are kept modulo 2^RandBits: the low bits of the state and   *)
(* of its successor depend on the low bits only.                           *)
(***************************************************************************)
EXTENDS Integers, Sequences, FiniteSets

CONSTANTS OpsUser,       \* processes, each with one description
          OpsGroups,     \* inodes, in groups that have nothing to do with each other
          NotOpen,       \* instead of a description
          RandBits,      \* bits of rand_state that are kept
          ItemBytes,     \* bytes of a text in procfs
          MaxVersion,    \* bound: changes of what procfs shows
          MaxNumbers     \* bound: numbers read from /dev/random

ASSUME FileOpsAssumption == RandBits \in Nat \ {0} /\ MaxVersion \in Nat

VARIABLES group,         \* the group of inodes a behaviour is about
          opened,        \* opened[u]: [inode, flags, offset, snap]
          mappings,      \* shared mappings of "reg": [user, write]
          version,       \* of what procfs shows
          texts,         \* texts[u]: what u has read from procfs since it opened it
          rand_state,
          drawing,       \* drawing[u]: the state that urand() has loaded, or -1
          numbers,       \* history: the numbers handed out
          torn,          \* history: two calls of urand() overlapped
          granted,       \* history: <<user, right>> a description of "reg" had
          trespassed     \* history: "reg" was used without such a right

fileOpsVars == <<group, opened, mappings, version, texts, rand_state, drawing, numbers,
                 torn, granted, trespassed>>

(* The file_ops of each inode.                                             *)
Fops ==
    [dir |-> {"getdents", "stat"},
     reg |-> {"read", "write", "mmap", "truncate", "stat"},
     proc |-> {"open", "close", "read"},
     random |-> {"read", "write"}]
Right == {"r", "w"}
RandRange == 2 ^ RandBits

FileOpsInit ==
    /\ group \in OpsGroups
    /\ opened = [u \in OpsUser |-> NotOpen] /\ mappings = {}
    /\ version = 0 /\ texts = [u \in OpsUser |-> << >>]
    /\ rand_state = 1 /\ drawing = [u \in OpsUser |-> -1]
    /\ numbers = << >> /\ torn = FALSE
    /\ granted = {} /\ trespassed = FALSE

FileIsOpen(u) == opened[u] # NotOpen /\ drawing[u] = -1
OpsInodeOf(u) == opened[u].inode
Grant(u, i, fl) == granted' = IF i = "reg" THEN granted \cup ({u} \X fl) ELSE granted
Touch(u, r) == trespassed' = (trespassed \/ <<u, r>> \notin granted)

-----------------------------------------------------------------------------
(* inode_open(), and procfs_item_open(), which makes the text.             *)
FileOpen(u) ==
    /\ opened[u] = NotOpen
    /\ \E i \in group, fl \in SUBSET Right :
         /\ ~(i = "dir" /\ "w" \in fl)
         /\ opened' = [opened EXCEPT ![u] =
              [inode |-> i, flags |-> fl, offset |-> 0, snap |-> version]]
         /\ Grant(u, i, fl)
    /\ texts' = [texts EXCEPT ![u] = << >>]
    /\ UNCHANGED <<mappings, version, rand_state, drawing, numbers, torn, trespassed>>

FileClose(u) ==
    /\ FileIsOpen(u)
    /\ opened' = [opened EXCEPT ![u] = NotOpen]
    /\ UNCHANGED <<mappings, version, texts, rand_state, drawing, numbers, torn,
                   granted, trespassed>>

(* sys_fcntl(F_SETFL) takes any flags.                                     *)
FileSetFl(u) ==
    /\ FileIsOpen(u)
    /\ \E fl \in SUBSET Right :
         /\ opened' = [opened EXCEPT ![u].flags = fl]
         /\ Grant(u, OpsInodeOf(u), fl)
    /\ UNCHANGED <<mappings, version, texts, rand_state, drawing, numbers, torn,
                   trespassed>>

(* The checks of file_description_read(), _write() and _truncate().        *)
Allowed(u, op, right) ==
    /\ FileIsOpen(u) /\ OpsInodeOf(u) # "dir"
    /\ op \in Fops[OpsInodeOf(u)] /\ right \in opened[u].flags

(* A read of the regular file.                                             *)
FileRead(u) ==
    /\ Allowed(u, "read", "r") /\ OpsInodeOf(u) = "reg"
    /\ Touch(u, "r")
    /\ UNCHANGED <<opened, mappings, version, texts, rand_state, drawing, numbers,
                   torn, granted>>

(* procfs_item_read(): n bytes of the text from the offset on.             *)
ItemByte(v, k) == <<v, k>>
ItemRead(u) ==
    /\ Allowed(u, "read", "r") /\ OpsInodeOf(u) = "proc"
    /\ \E n \in 1 .. ItemBytes :
         LET at == opened[u].offset
             end == IF at + n <= ItemBytes THEN at + n ELSE ItemBytes
         IN /\ texts' = [texts EXCEPT ![u] =
                 @ \o [k \in 1 .. end - at |-> ItemByte(opened[u].snap, at + k)]]
            /\ opened' = [opened EXCEPT ![u].offset = end]
    /\ UNCHANGED <<mappings, version, rand_state, drawing, numbers, torn, granted,
                   trespassed>>

ItemChanges ==
    /\ "proc" \in group /\ version < MaxVersion
    /\ version' = version + 1
    /\ UNCHANGED <<opened, mappings, texts, rand_state, drawing, numbers, torn,
                   granted, trespassed>>

(* sys_write() and sys_ftruncate(); what is written to /dev/random is not  *)
(* kept.                                                                   *)
FileWrite(u) ==
    /\ Allowed(u, "write", "w") \/ Allowed(u, "truncate", "w")
    /\ IF OpsInodeOf(u) = "reg" THEN Touch(u, "w") ELSE UNCHANGED trespassed
    /\ UNCHANGED <<opened, mappings, version, texts, rand_state, drawing, numbers,
                   torn, granted>>

(* read_random() calls urand() for every number: it loads the state and    *)
(* stores its successor, with nothing to keep others away.                 *)
Urand(s) == ((1103515245 % RandRange) * s + 12345) % RandRange
DrawBegin(u) ==
    /\ Allowed(u, "read", "r") /\ OpsInodeOf(u) = "random"
    /\ Len(numbers) < MaxNumbers
    /\ drawing' = [drawing EXCEPT ![u] = rand_state]
    /\ UNCHANGED <<opened, mappings, version, texts, rand_state, numbers, torn,
                   granted, trespassed>>
DrawEnd(u) ==
    /\ drawing[u] # -1
    /\ rand_state' = Urand(drawing[u])
    /\ numbers' = Append(numbers, rand_state')
    /\ drawing' = [drawing EXCEPT ![u] = -1]
    /\ torn' = (torn \/ drawing[u] # rand_state)
    /\ UNCHANGED <<opened, mappings, version, texts, granted, trespassed>>

(* file_description_mmap() and growable_buf_mmap(): shared mappings only,  *)
(* and one that can be written needs both rights.                          *)
MmapRightsOfReaders(u, write) == TRUE                         \* fault
MmapRights(u, write) == write => Right \subseteq opened[u].flags
FileMmap(u) ==
    /\ FileIsOpen(u) /\ "mmap" \in Fops[OpsInodeOf(u)] /\ "r" \in opened[u].flags
    /\ \E write \in BOOLEAN :
         /\ MmapRights(u, write)
         /\ mappings' = mappings \cup {[user |-> u, write |-> write]}
    /\ UNCHANGED <<opened, version, texts, rand_state, drawing, numbers, torn,
                   granted, trespassed>>

(* The processor lets a program load from its mappings, and store to those *)
(* with PAGE_WRITE; with WP set the kernel is bound by that as well.       *)
MappedAccess(u) ==
    /\ \E m \in mappings : /\ m.user = u
                           /\ \/ Touch(u, "r")
                              \/ m.write /\ Touch(u, "w")
    /\ UNCHANGED <<opened, mappings, version, texts, rand_state, drawing, numbers,
                   torn, granted>>

FileMunmap(u) ==
    /\ \E m \in mappings : m.user = u /\ mappings' = mappings \ {m}
    /\ UNCHANGED <<opened, version, texts, rand_state, drawing, numbers, torn,
                   granted, trespassed>>

FileOpsNext ==
    /\ \/ ItemChanges
       \/ \E u \in OpsUser : \/ FileOpen(u) \/ FileClose(u) \/ FileSetFl(u)
                             \/ FileRead(u) \/ ItemRead(u) \/ FileWrite(u)
                             \/ DrawBegin(u) \/ DrawEnd(u) \/ FileMmap(u)
                             \/ MappedAccess(u) \/ FileMunmap(u)
    /\ UNCHANGED group

-----------------------------------------------------------------------------
(* Whatever flags come and go and whatever stays mapped, a process writes  *)
(* to a file only if a description of its own once had the right to, and   *)
(* reads only if one had that right (fs.c:217, 229, 240).                  *)
AccessIsGranted == ~trespassed

(* However many reads it takes and whatever changes meanwhile, what is     *)
(* read from a file of procfs is the beginning of one text, that of the    *)
(* moment it was opened (procfs.c:48, 73).                                 *)
ItemsAreSnapshots ==
    \A u \in OpsUser : \A k \in DOMAIN texts[u] :
        texts[u][k] = ItemByte(texts[u][1][1], k)

(* Readers of /dev/random that do not overlap are never given the same     *)
(* number before all others; those that do may be, as urand() is not       *)
(* locked (random.c:60).                                                   *)
NumbersAreFresh ==
    ~torn => \A i, j \in DOMAIN numbers :
               i < j /\ j - i < RandRange => numbers[i] # numbers[j]
=============================================================================
