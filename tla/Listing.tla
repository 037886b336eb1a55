------------------------------- MODULE Listing ------------------------------
(***************************************************************************)
(* Listing directories: getdents() of the kernel (fs/fs.c, fs/dentry.c),   *)
(* of procfs (fs/procfs), readdir() of the C library (lib/dirent.c) and    *)
(* the programs ls and ps, while files and processes come and go.  The     *)
(* offset of a directory is the number of entries passed; behind the fixed *)
(* items of /proc it is the last process ID passed.  One getdents() is     *)
(* atomic: the list is locked, or interrupts are off.                      *)
(***************************************************************************)
EXTENDS Integers, Sequences, FiniteSets, SequencesExt

CONSTANTS DirName,       \* names of files
          LongName,      \* the names that need more than an entry's room
          RootItem,      \* root_items[] of procfs
          BufCapacity,   \* buf_capacity of opendir(), in entries
          MaxListPid,    \* bound: process IDs given out
          MaxCreated     \* bound: files created

ASSUME ListingAssumption == /\ IsFiniteSet(RootItem) /\ BufCapacity \in Nat \ {0}
                            /\ LongName \subseteq DirName /\ MaxListPid \in Nat

VARIABLES allProcesses,  \* the process IDs in list order
          nextPid,
          unregistered,  \* generated, but not yet in the list
          children,      \* the dentries of a tmpfs directory
          created,
          lister         \* the program that lists

listingVars == <<allProcesses, nextPid, unregistered, children, created, lister>>
worldVars == <<allProcesses, nextPid, unregistered, children, created>>

ListPid == 1 .. MaxListPid
NumItems == Cardinality(RootItem)
RootItems == SetToSeq(RootItem)
NotListing(prog) == [prog |-> prog, pc |-> "idle", offset |-> 0,
                     capacity |-> 0, buf |-> << >>, listed |-> << >>,
                     stay |-> {}, gone |-> FALSE]

-----------------------------------------------------------------------------
(* getdents_callback(): entries are copied while they fit.                 *)
Size(e) == IF e \in LongName THEN 3 ELSE 1
TotalSize(es) == FoldLeft(LAMBDA n, e : n + Size(e), 0, es)
Fitting(es, count) ==
    LET n == CHOOSE k \in 0 .. Len(es) :
               /\ TotalSize(SubSeq(es, 1, k)) <= count
               /\ k < Len(es) => TotalSize(SubSeq(es, 1, k + 1)) > count
    IN  SubSeq(es, 1, n)
From(es, offset) == SubSeq(es, offset + 1, Len(es))

(* dentry_getdents(): what is copied, and the new offset.                  *)
DentryGetdents(es, offset, count) ==
    LET out == Fitting(From(es, offset), count)
    IN  [out |-> out, offset |-> offset + Len(out)]

(* procfs_root_getdents(): the items, then the processes whose ID is       *)
(* greater than the one passed last.                                       *)
ProcfsRootGetdents(offset, count) ==
    LET items == IF offset < NumItems THEN DentryGetdents(RootItems, offset, count)
                 ELSE [out |-> << >>, offset |-> offset]
        passed == items.offset - NumItems
        first == {i \in DOMAIN allProcesses : allProcesses[i] > passed}
        rest == IF first = {} THEN << >>
                ELSE From(allProcesses, (CHOOSE i \in first :
                            \A j \in first : i <= j) - 1)
        pids == Fitting(rest, count - TotalSize(items.out))
    IN IF items.offset < NumItems THEN items
       ELSE [out |-> items.out \o pids,
             offset |-> IF pids = << >> THEN items.offset
                        ELSE Last(pids) + NumItems]

(* tmpfs_getdents(): with the locks of the directory and of the offset.    *)
TmpfsGetdents(offset, count) == DentryGetdents(children, offset, count)

Getdents(l) == IF l.prog = "ps" THEN ProcfsRootGetdents(l.offset, l.capacity)
               ELSE TmpfsGetdents(l.offset, l.capacity)

(* -EINVAL of file_description_getdents(): there is an entry, but no room. *)
TooSmall(l) == Getdents([l EXCEPT !.capacity = 3]).out # << >>

-----------------------------------------------------------------------------
Opendir ==
    /\ lister.pc = "idle"
    /\ lister' = [lister EXCEPT
         !.pc = "readdir", !.capacity = BufCapacity, !.gone = FALSE,
         !.stay = IF lister.prog = "ps" THEN ToSet(allProcesses) ELSE ToSet(children)]
    /\ UNCHANGED worldVars

(* readdir(): an empty buffer is filled, a small one doubled first.        *)
ReaddirFills ==
    /\ lister.pc = "readdir" /\ lister.buf = << >>
    /\ LET got == Getdents(lister)
       IN lister' = IF got.out # << >>
                    THEN [lister EXCEPT !.buf = got.out, !.offset = got.offset]
                    ELSE IF TooSmall(lister)
                    THEN [lister EXCEPT !.capacity = 2 * @]
                    ELSE [lister EXCEPT !.pc = "done"]
    /\ UNCHANGED worldVars

(* ps passes over what is not a number and looks the process up twice: for *)
(* the inode of its directory, and when "comm" is opened; ls looks the     *)
(* file up once, in get_format().  Who finds nothing fails.                *)
PsSkips(e) == lister.prog = "ps" /\ e \notin ListPid

ReaddirReturns ==
    /\ lister.pc = "readdir" /\ lister.buf # << >>
    /\ lister' = IF PsSkips(Head(lister.buf)) THEN [lister EXCEPT !.buf = Tail(@)]
                 ELSE [lister EXCEPT !.pc = "lookup"]
    /\ UNCHANGED worldVars

FindProcess(p) == Contains(allProcesses, p)
Exists(e) == IF lister.prog = "ps" THEN FindProcess(e) ELSE Contains(children, e)
Printed(l) == [l EXCEPT !.pc = "readdir", !.buf = Tail(@),
                        !.listed = Append(@, Head(l.buf))]

LookupChild ==
    /\ lister.pc = "lookup"
    /\ lister' = IF ~Exists(Head(lister.buf)) THEN [lister EXCEPT !.pc = "failed"]
                 ELSE IF lister.prog = "ps" THEN [lister EXCEPT !.pc = "populate"]
                 ELSE Printed(lister)
    /\ UNCHANGED worldVars

(* populate_comm(), on behalf of procfs_item_open().                       *)
PopulateComm(p) == IF FindProcess(p) THEN Printed(lister)
                   ELSE [lister EXCEPT !.pc = "failed"]

ProcfsItemOpen ==
    /\ lister.pc = "populate"
    /\ lister' = PopulateComm(Head(lister.buf))
    /\ UNCHANGED worldVars

Closedir ==
    /\ lister.pc \in {"done", "failed"}
    /\ lister' = NotListing(lister.prog)
    /\ UNCHANGED worldVars

-----------------------------------------------------------------------------
(* fork() generates an ID and registers the process in order of IDs later: *)
(* an ID may appear after a greater one.                                   *)
GeneratePid ==
    /\ lister.prog = "ps" /\ nextPid \in ListPid
    /\ nextPid' = nextPid + 1
    /\ unregistered' = unregistered \cup {nextPid}
    /\ UNCHANGED <<allProcesses, children, created, lister>>

RegisteredLast(p) == Append(allProcesses, p)                  \* fault
Registered(p) == SelectSeq(allProcesses, LAMBDA q : q < p) \o <<p>>
                 \o SelectSeq(allProcesses, LAMBDA q : q > p)

SchedulerRegister(p) ==
    /\ p \in unregistered
    /\ unregistered' = unregistered \ {p}
    /\ allProcesses' = Registered(p)
    /\ UNCHANGED <<nextPid, children, created, lister>>

Left(e) == [lister EXCEPT !.stay = @ \ {e}, !.gone = TRUE]

(* waitpid() takes a dead process off the list; the first one stays.       *)
ProcessReaped(p) ==
    /\ p # 1 /\ Contains(allProcesses, p)
    /\ allProcesses' = Remove(allProcesses, p)
    /\ lister' = Left(p)
    /\ UNCHANGED <<nextPid, unregistered, children, created>>

FileCreated(n) ==
    /\ lister.prog = "ls" /\ created < MaxCreated /\ ~Contains(children, n)
    /\ children' = Append(children, n)
    /\ created' = created + 1
    /\ UNCHANGED <<allProcesses, nextPid, unregistered, lister>>

FileUnlinked(n) ==
    /\ Contains(children, n)
    /\ children' = Remove(children, n)
    /\ lister' = Left(n)
    /\ UNCHANGED <<allProcesses, nextPid, unregistered, created>>

(* Only the processes or only the files change, as the lister lists them.  *)
ListingInit == /\ allProcesses = <<1>> /\ nextPid = 2 /\ unregistered = {}
               /\ children = << >> /\ created = 0
               /\ lister \in {NotListing("ls"), NotListing("ps")}

ListingNext ==
    \/ Opendir \/ ReaddirFills \/ ReaddirReturns
    \/ LookupChild \/ ProcfsItemOpen \/ Closedir \/ GeneratePid
    \/ \E p \in ListPid : SchedulerRegister(p) \/ ProcessReaped(p)
    \/ \E n \in DirName : FileCreated(n) \/ FileUnlinked(n)

-----------------------------------------------------------------------------
Times(e) == Cardinality({i \in DOMAIN lister.listed : lister.listed[i] = e})

(* ps shows every process that lives from beginning to end exactly once,   *)
(* whatever ends and is forked meanwhile and wherever the buffer ends: the *)
(* offset is an ID and the list is in order of IDs (root.c:106,            *)
(* scheduler.c:57).  ls shows a file that stays at most once, and surely   *)
(* if nothing is unlinked; an unlink before the offset moves the list and  *)
(* a file is passed over (dentry.c:65).  Neither fails unless something it *)
(* was told of is gone (ps.c:74, ls.c:125).                                *)
ListingIsComplete ==
    /\ lister.pc = "done" => \A e \in lister.stay :
         /\ Times(e) <= 1
         /\ lister.prog = "ps" \/ ~lister.gone => Times(e) = 1
    /\ lister.pc = "failed" => lister.gone
=============================================================================
