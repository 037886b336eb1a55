------------------------------- MODULE Inodes -------------------------------
(***************************************************************************)
(* Inodes, directory entries and the calls on path names (kernel/fs/fs.c,  *)
(* vfs.c, dentry.c, tmpfs.c, initrd.c, syscall/fs.c, sys_chdir()).         *)
(*                                                                         *)
(* Every inode has two atomic counters.  num_links counts its directory    *)
(* entries, ref_count counts the pointers to it: one per directory entry,  *)
(* mount point, registered device, open file, working directory, and one   *)
(* per local variable of a call that is under way.  Whoever takes the last *)
(* reference destroys it.  A call can be preempted between any two steps;  *)
(* one step here is the section under a directory's children_lock with the *)
(* counter changes around it.  References that a step gives up are queued  *)
(* in `drop' and given up one by one, before the next step of the process. *)
(*                                                                         *)
(* `debt' is a history variable: how many references to an inode the code  *)
(* has lost track of.  `stopped' is why the kernel panicked, if it did.    *)
(***************************************************************************)
EXTENDS Paths, FiniteSets, FiniteSetsExt

CONSTANTS InodeProcess,   \* processes that make the calls
          MaxInode,       \* inodes that fit the kernel heap
          PathNames,      \* the path names the processes use
          MaxCalls,       \* bound: calls made in a behaviour
          MaxAllocFails   \* bound: small allocations that fail

ASSUME InodesAssumption == /\ MaxInode \in Nat /\ MaxInode >= 7
                           /\ IsFiniteSet(InodeProcess)
                           /\ MaxCalls \in Nat /\ MaxAllocFails \in Nat

VARIABLES kind,      \* kind[i]: "free", "dir", "reg", "chr", "nodev"
          fsroot,    \* inode->fs_root_inode
          ref,       \* inode->ref_count
          links,     \* inode->num_links
          kids,      \* kids[i]: the dentry list of a directory
          inodePc, call,  \* where each process is, and in which call
          fr,        \* the local variables of the call
          file,      \* the inode of the process's open file, or None
          cwd,       \* [path, ino]: current->cwd_path, cwd_inode
          drop,      \* inode_unref() calls the process has yet to make
          debt,      \* history: references that were forgotten
          calls, fails,
          stopped

inodeVars == <<kind, fsroot, ref, links, kids, inodePc, call, fr, file, cwd, drop,
               debt, calls, fails, stopped>>

Inode == 1..MaxInode
None == 0

(* What boot leaves: the root, with the directories /d and /m and the file *)
(* /d/a of the initial archive, a file system mounted on /m, a registered  *)
(* device.  The archive's directories keep the reference that vfs_create() *)
(* returned to initrd_populate_root_fs().                                  *)
Root == 1
DirD == 2
Host == 3
Guest == 4
Device == 5
FileA == 6

(* tmpfs_create_root() made two of them: each is its own fs_root_inode.    *)
TmpfsRoots == {Root, Guest}

Entry(n, i) == [name |-> n, ino |-> i]

MountPoints == {<<Host, Guest>>}

(* initrd_populate_root_fs() on a three-entry archive, then start().       *)
InitrdKids ==
    [i \in Inode |-> CASE i = Root -> <<Entry("d", DirD), Entry("m", Host)>>
                       [] i = DirD -> <<Entry("a", FileA)>>
                       [] OTHER -> <<>>]

InitrdDebt == [i \in Inode |-> IF i \in {DirD, Host} THEN 1 ELSE 0]

NoFrame == [todo |-> <<>>, cur |-> None, rc |-> "", par |-> None, base |-> "",
            old |-> None, oldpar |-> None, oldbase |-> ""]

NoCall == [op |-> "none"]

(* vfs_mount() walked to the host and keeps that reference, mount_at()     *)
(* keeps the one to the guest.                                             *)
MountRefs(i) == Cardinality({m \in MountPoints : m[1] = i})
                + Cardinality({m \in MountPoints : m[2] = i})

(* What holds a reference for ever: the variable root, the mount points,   *)
(* the device list.                                                        *)
StaticRefs(i) == (IF i = Root THEN 1 ELSE 0) + MountRefs(i)
                 + (IF i = Device THEN 1 ELSE 0)

InodesInit ==
    /\ kind = [i \in Inode |-> CASE i \in {Root, DirD, Host, Guest} -> "dir"
                                 [] i = Device -> "chr"
                                 [] i = FileA -> "reg"
                                 [] OTHER -> "free"]
    /\ fsroot = [i \in Inode |-> IF i \in TmpfsRoots THEN i ELSE Root]
    /\ ref = [i \in Inode |->
                CASE i = Root -> 1 + Cardinality(InodeProcess)
                  [] i = DirD -> 2
                  [] i = Host -> 3
                  [] i \in {Guest, Device, FileA} -> 1
                  [] OTHER -> 0]
    /\ links = [i \in Inode |-> IF i \in {DirD, Host, FileA} THEN 1 ELSE 0]
    /\ kids = InitrdKids
    /\ inodePc = [p \in InodeProcess |-> "idle"]
    /\ call = [p \in InodeProcess |-> NoCall]
    /\ fr = [p \in InodeProcess |-> NoFrame]
    /\ file = [p \in InodeProcess |-> None]
    /\ cwd = [p \in InodeProcess |-> [path |-> <<>>, ino |-> Root]]
    /\ drop = [p \in InodeProcess |-> <<>>]
    /\ debt = InitrdDebt
    /\ calls = 0 /\ fails = 0
    /\ stopped = "no"

-----------------------------------------------------------------------------
(* Counters.                                                               *)

(* inode_ref() of each inode of a sequence, which may name None.           *)
Positions(s, i) == {k \in DOMAIN s : s[k] = i}

Ref(f, s) == [i \in Inode |-> f[i] + Cardinality(Positions(s, i))]

(* The inodes a step hands to inode_unref(), four at most; a null pointer  *)
(* is ignored.                                                             *)
NonNull(s) ==
    LET at(k) == IF k <= Len(s) /\ s[k] # None THEN <<s[k]>> ELSE <<>>
    IN  at(1) \o at(2) \o at(3) \o at(4)

GiveUp(p, s) == drop' = [drop EXCEPT ![p] = @ \o NonNull(s)]

Forget(s) == debt' = Ref(debt, s)

(* A small kmalloc() or kstrdup() fails.                                   *)
AllocFails == fails < MaxAllocFails /\ fails' = fails + 1

(* The kernel runs, and the process has no inode_unref() left to make.     *)
At(p, where) == stopped = "no" /\ drop[p] = <<>> /\ inodePc[p] = where

(* A panic: nothing else happens.                                          *)
Panic(why) ==
    /\ stopped' = why
    /\ UNCHANGED <<kind, fsroot, ref, links, kids, inodePc, call, fr, file, cwd,
                   drop, debt, calls, fails>>

(* The system call returns.                                                *)
Return(p) ==
    /\ inodePc' = [inodePc EXCEPT ![p] = "idle"]
    /\ call' = [call EXCEPT ![p] = NoCall]
    /\ fr' = [fr EXCEPT ![p] = NoFrame]

InodeGoto(p, where) == inodePc' = [inodePc EXCEPT ![p] = where] /\ UNCHANGED call

(* inode_unref() and inode_destroy(): the last reference to an inode       *)
(* without links destroys it, and dentry_clear() unlinks and unrefs        *)
(* everything a directory still holds.                                     *)
Children(i) == [k \in DOMAIN kids[i] |-> kids[i][k].ino]

InodeUnrefIsLastIgnoresRefs(i) == links[i] = 0

InodeUnrefIsLast(i) == ref[i] = 1 /\ links[i] = 0

InodeUnref(p) ==
    /\ stopped = "no" /\ drop[p] # <<>>
    /\ LET i == Head(drop[p])
       IN  \/ ref[i] = 0 /\ Panic("unref_zero")
           \/ /\ ref[i] > 0 /\ InodeUnrefIsLast(i)
              /\ IF \E k \in DOMAIN kids[i] : links[Children(i)[k]] = 0
                 THEN Panic("links_zero")
                 ELSE /\ ref' = [ref EXCEPT ![i] = 0]
                      /\ kind' = [kind EXCEPT ![i] = "free"]
                      /\ kids' = [kids EXCEPT ![i] = <<>>]
                      /\ links' = [j \in Inode |-> links[j] -
                            Cardinality(Positions(Children(i), j))]
                      /\ drop' = [drop EXCEPT ![p] = Tail(@) \o Children(i)]
                      /\ UNCHANGED <<fsroot, inodePc, call, fr, file, cwd, debt,
                                     calls, fails, stopped>>
           \/ /\ ref[i] > 0 /\ ~InodeUnrefIsLast(i)
              /\ ref' = [ref EXCEPT ![i] = @ - 1]
              /\ drop' = [drop EXCEPT ![p] = Tail(@)]
              /\ UNCHANGED <<kind, fsroot, links, kids, inodePc, call, fr, file, cwd,
                             debt, calls, fails, stopped>>

-----------------------------------------------------------------------------
(* Directory entries.                                                      *)

(* dentry_find(), dentry_append(), dentry_remove() on one list.            *)
Names(d) == {kids[d][k].name : k \in DOMAIN kids[d]}

DentryExistsHeadOnly(d, n) == kids[d] # <<>> /\ kids[d][1].name = n

DentryExists(d, n) == n \in Names(d)

DentryIndex(d, n) == CHOOSE k \in DOMAIN kids[d] : kids[d][k].name = n

DentryFind(d, n) == kids[d][DentryIndex(d, n)].ino

(* inode_lookup_child(): the child's entry, or an error.                   *)
InodeLookupChild(d, n) == IF kind[d] # "dir" THEN "ENOTDIR"
                          ELSE IF DentryExists(d, n) THEN "ok" ELSE "ENOENT"

DentryAppend(d, n, i) == [kids EXCEPT ![d] = Append(@, Entry(n, i))]

DentryRemoveKeepsHead(d, n) ==
    IF DentryIndex(d, n) = 1 THEN kids
    ELSE [kids EXCEPT ![d] = RemoveAt(@, DentryIndex(d, n))]

DentryRemove(d, n) == [kids EXCEPT ![d] = RemoveAt(@, DentryIndex(d, n))]

(* tmpfs_unlink_child(): dentry_remove() under the lock, which asserts that *)
(* the child has a link; then the caller gives up `also' and goes on.      *)
UnlinkChild(p, n, also, then) ==
    LET d == fr[p].par
        c == DentryFind(d, n)
    IN  IF links[c] = 0 THEN Panic("links_zero")
        ELSE /\ kids' = DentryRemove(d, n)
             /\ links' = [links EXCEPT ![c] = @ - 1]
             /\ GiveUp(p, also \o <<c>>) /\ then
             /\ UNCHANGED <<kind, fsroot, ref, file, cwd, debt, calls, fails,
                            stopped>>

(* find_mounted_guest(): the root of the file system mounted there.        *)
FindMountedGuest(i) ==
    IF \E m \in MountPoints : m[1] = i
    THEN (CHOOSE m \in MountPoints : m[1] = i)[2] ELSE i

-----------------------------------------------------------------------------
(* vfs_resolve_path().                                                     *)

(* The calls that ask for the parent directory and the last component.     *)
WantsParent(p) ==
    \/ call[p].op \in {"mkdir", "mknod", "unlink", "rename", "rmdir"}
    \/ call[p].op = "open" /\ call[p].creat
    \/ call[p].op = "link" /\ fr[p].old # None

(* The root when there is no component, else the walk starts there.  The   *)
(* component list may not fit.                                             *)
ResolvePath(p, path, frame) ==
    LET list == CreatePathComponentList(cwd[p].path, path)
    IN  \/ /\ ref' = Ref(ref, <<Root>>)
           /\ inodePc' = [inodePc EXCEPT ![p] = IF list = <<>> THEN "found" ELSE "walk"]
           /\ fr' = [fr EXCEPT ![p] = [frame EXCEPT
                       !.todo = list, !.cur = Root, !.rc = "ok"]]
           /\ UNCHANGED fails
        \/ /\ AllocFails
           /\ inodePc' = [inodePc EXCEPT ![p] = "found"]
           /\ fr' = [fr EXCEPT ![p] = [frame EXCEPT !.rc = "ENOMEM"]]
           /\ UNCHANGED ref

(* One component: inode_lookup_child() on the inode reached so far, which  *)
(* gives up the reference to it.  On the last component the parent and the *)
(* name are kept for the caller, also when the look-up then fails.         *)
ResolveEnd(p, i, rc) ==
    fr' = [fr EXCEPT ![p].todo = <<>>, ![p].cur = i, ![p].rc = rc,
              ![p].par = IF WantsParent(p) THEN fr[p].cur ELSE None,
              ![p].base = Head(fr[p].todo)]

ResolveComponent(p) ==
    LET f == fr[p]
        n == Head(f.todo)
        last == Len(f.todo) = 1
        kept == IF last /\ WantsParent(p) THEN <<f.cur>> ELSE <<>>
        rc == InodeLookupChild(f.cur, n)
    IN  /\ At(p, "walk")
        /\ \/ /\ last /\ WantsParent(p) /\ AllocFails
              /\ GiveUp(p, <<f.cur>>)
              /\ fr' = [fr EXCEPT ![p].todo = <<>>, ![p].cur = None,
                                  ![p].rc = "ENOMEM"]
              /\ InodeGoto(p, "found") /\ UNCHANGED ref
           \/ /\ rc = "ok"
              /\ LET child == FindMountedGuest(DentryFind(f.cur, n))
                 IN  /\ ref' = Ref(ref, <<child>> \o kept)
                     /\ IF last
                        THEN ResolveEnd(p, child, "ok") /\ InodeGoto(p, "found")
                        ELSE /\ fr' = [fr EXCEPT ![p].todo = Tail(@),
                                                 ![p].cur = child]
                             /\ InodeGoto(p, "walk")
              /\ GiveUp(p, <<f.cur>>) /\ UNCHANGED fails
           \/ /\ rc # "ok"
              /\ IF last THEN ResolveEnd(p, None, rc)
                 ELSE fr' = [fr EXCEPT ![p].todo = <<>>, ![p].cur = None,
                                       ![p].rc = rc]
              /\ ref' = Ref(ref, kept)
              /\ GiveUp(p, <<f.cur>>) /\ InodeGoto(p, "found") /\ UNCHANGED fails
        /\ UNCHANGED <<kind, fsroot, links, kids, file, cwd, debt, calls,
                       stopped>>

-----------------------------------------------------------------------------
(* A call begins.                                                          *)
Requests ==
    [op : {"stat", "chdir", "mkdir", "unlink", "rmdir"}, path : PathNames]
    \cup [op : {"open"}, path : PathNames, creat : BOOLEAN, excl : BOOLEAN,
          wronly : BOOLEAN, made : {FALSE}]
    \cup [op : {"mknod"}, path : PathNames, mode : {"reg", "chr", "nodev"}]
    \cup [op : {"link", "rename"}, path : PathNames, new : PathNames]

InodeCall(p) ==
    /\ At(p, "idle") /\ calls < MaxCalls
    /\ calls' = calls + 1
    /\ \E c \in Requests :
          /\ c.op = "open" => file[p] = None
          /\ call' = [call EXCEPT ![p] = c]
          /\ ResolvePath(p, c.path, NoFrame)
    /\ UNCHANGED <<kind, fsroot, links, kids, file, cwd, drop, debt, stopped>>

(* sys_close() of the only open file, as file_description_close() ends it. *)
Close(p) ==
    /\ At(p, "idle") /\ file[p] # None
    /\ file' = [file EXCEPT ![p] = None]
    /\ GiveUp(p, <<file[p]>>)
    /\ UNCHANGED <<kind, fsroot, ref, links, kids, inodePc, call, fr, cwd, debt,
                   calls, fails, stopped>>

(* The path of the call leads nowhere: everything is given up.             *)
ResolveFailed(p) ==
    LET f == fr[p]
    IN  /\ At(p, "found") /\ f.cur = None
        /\ \/ call[p].op \in {"stat", "chdir", "unlink", "rmdir"}
           \/ call[p].op \in {"open", "mkdir", "mknod"}
              /\ (f.rc # "ENOENT" \/ f.par = None)
           \/ call[p].op = "link" /\ f.old = None
           \/ call[p].op = "link" /\ f.old # None
              /\ (f.rc # "ENOENT" \/ f.par = None)
           \/ call[p].op = "rename" /\ f.old = None
           \/ call[p].op = "rename" /\ f.old # None
              /\ (f.rc # "ENOENT" \/ f.par = None)
        /\ GiveUp(p, <<f.old, f.oldpar, f.par>>)
        /\ Return(p)
        /\ UNCHANGED <<kind, fsroot, ref, links, kids, file, cwd, debt, calls,
                       fails, stopped>>

-----------------------------------------------------------------------------
(* open(), stat(), chdir().                                                *)

(* vfs_open() and vfs_stat() replace a device node by the device.          *)
IsDevice(i) == kind[i] \in {"chr", "nodev"}

FindDevice(i) == IF kind[i] = "chr" THEN Device ELSE None

(* inode_open(): a directory cannot be opened for writing, the file        *)
(* description may not fit, else the open file keeps the reference.        *)
InodeOpen(p, i, spent) ==
    IF kind[i] = "dir" /\ call[p].wronly
    THEN GiveUp(p, <<i>> \o spent) /\ UNCHANGED <<file, fails>>
    ELSE \/ /\ AllocFails /\ GiveUp(p, <<i>> \o spent) /\ UNCHANGED file
         \/ /\ file' = [file EXCEPT ![p] = i]
            /\ GiveUp(p, spent) /\ UNCHANGED fails

VfsOpenEnd(p) ==
    LET f == fr[p]
        d == FindDevice(f.cur)
    IN  /\ At(p, "found") /\ f.cur # None
        /\ call[p].op = "open" /\ (call[p].creat => call[p].made)
        /\ IF ~IsDevice(f.cur)
           THEN InodeOpen(p, f.cur, <<>>) /\ UNCHANGED ref
           ELSE IF d = None
           THEN GiveUp(p, <<f.cur>>) /\ UNCHANGED <<ref, file, fails>>
           ELSE ref' = Ref(ref, <<d>>) /\ InodeOpen(p, d, <<f.cur>>)
        /\ Return(p)
        /\ UNCHANGED <<kind, fsroot, links, kids, cwd, debt, calls, stopped>>

(* vfs_stat(): the node, or the device it names, is looked at and given up *)
(* by inode_stat().                                                        *)
VfsStat(p) ==
    LET i == fr[p].cur
        d == FindDevice(i)
    IN  /\ At(p, "found") /\ call[p].op = "stat" /\ i # None
        /\ IF IsDevice(i) /\ d # None
           THEN ref' = Ref(ref, <<d>>) /\ GiveUp(p, <<i, d>>)
           ELSE UNCHANGED ref /\ GiveUp(p, <<i>>)
        /\ Return(p)
        /\ UNCHANGED <<kind, fsroot, links, kids, file, cwd, debt, calls, fails,
                       stopped>>

(* sys_chdir(): the canonical path was computed before the look-up.        *)
SysChdir(p) ==
    LET i == fr[p].cur
    IN  /\ At(p, "found") /\ call[p].op = "chdir" /\ i # None
        /\ IF kind[i] # "dir"
           THEN GiveUp(p, <<i>>) /\ UNCHANGED cwd
           ELSE /\ cwd' = [cwd EXCEPT ![p] = [ino |-> i, path |->
                     VfsCanonicalizePath(cwd[p].path, call[p].path).names]]
                /\ GiveUp(p, <<cwd[p].ino>>)
        /\ Return(p)
        /\ UNCHANGED <<kind, fsroot, ref, links, kids, file, debt, calls, fails,
                       stopped>>

-----------------------------------------------------------------------------
(* create_inode(), for open(O_CREAT), mkdir() and mknod().                 *)
Exclusive(c) == c.op = "open" => c.excl

(* A node made by mknod() names no device until its device_id is set.      *)
NewKind(c) == CASE c.op = "open" -> "reg" [] c.op = "mkdir" -> "dir"
                [] OTHER -> IF c.mode = "chr" THEN "nodev" ELSE c.mode

(* The name exists, or it does not and its parent is known.                *)
CreateResolved(p) ==
    LET f == fr[p]
    IN  /\ At(p, "found")
        /\ call[p].op \in {"mkdir", "mknod", "open"}
        /\ call[p].op = "open" => call[p].creat /\ ~call[p].made
        /\ \/ /\ f.cur # None /\ Exclusive(call[p])
              /\ GiveUp(p, <<f.par, f.cur>>) /\ Return(p)
           \/ /\ f.cur # None /\ ~Exclusive(call[p])
              /\ GiveUp(p, <<f.par>>)
              /\ fr' = [fr EXCEPT ![p].par = None]
              /\ call' = [call EXCEPT ![p].made = TRUE]
              /\ UNCHANGED inodePc
           \/ /\ f.cur = None /\ f.rc = "ENOENT" /\ f.par # None
              /\ InodeGoto(p, "create") /\ UNCHANGED <<fr, drop>>
        /\ UNCHANGED <<kind, fsroot, ref, links, kids, file, cwd, debt, calls,
                       fails, stopped>>

(* The new inode, or another's, is what create_inode() returns.            *)
CreateEnd(p, i) ==
    CASE call[p].op = "open" ->
           /\ fr' = [fr EXCEPT ![p].cur = i, ![p].par = None]
           /\ inodePc' = [inodePc EXCEPT ![p] = "found"]
           /\ call' = [call EXCEPT ![p].made = TRUE]
      [] call[p].op = "mknod" ->
           /\ fr' = [fr EXCEPT ![p].cur = i, ![p].par = None]
           /\ InodeGoto(p, "setdev")
      [] OTHER -> Return(p)

(* inode_create_child() and tmpfs_create_child(), which takes a reference  *)
(* to the parent and returns the child with the entry's and the caller's.  *)
(* When the inode does not fit, the parent's reference is lost.            *)
CreateChild(p) ==
    LET f == fr[p]
        d == f.par
        new == CHOOSE i \in Inode : kind[i] = "free"
    IN  /\ At(p, "create")
        /\ \/ /\ AllocFails \/ ({i \in Inode : kind[i] = "free"} = {}
                                /\ UNCHANGED fails)
              /\ ref' = Ref(ref, <<d>>) /\ Forget(<<d>>)
              /\ GiveUp(p, <<d>>) /\ Return(p)
              /\ UNCHANGED <<kind, fsroot, links, kids>>
           \/ /\ AllocFails /\ ~DentryExists(d, f.base)
              /\ {i \in Inode : kind[i] = "free"} # {}
              /\ GiveUp(p, <<d>>) /\ Return(p)
              /\ UNCHANGED <<kind, fsroot, ref, links, kids, debt>>
           \/ /\ DentryExists(d, f.base)
              /\ {i \in Inode : kind[i] = "free"} # {}
              /\ IF Exclusive(call[p])
                 THEN GiveUp(p, <<d>>) /\ Return(p)
                 ELSE InodeGoto(p, "again") /\ UNCHANGED <<fr, drop>>
              /\ UNCHANGED <<kind, fsroot, ref, links, kids, debt, fails>>
           \/ /\ ~DentryExists(d, f.base)
              /\ {i \in Inode : kind[i] = "free"} # {}
              /\ kids' = DentryAppend(d, f.base, new)
              /\ kind' = [kind EXCEPT ![new] = NewKind(call[p])]
              /\ fsroot' = [fsroot EXCEPT ![new] = fsroot[d]]
              /\ ref' = [ref EXCEPT ![new] = 2]
              /\ links' = [links EXCEPT ![new] = 1]
              /\ CreateEnd(p, new)
              /\ GiveUp(p, IF call[p].op = "mkdir" THEN <<d, new>> ELSE <<d>>)
              /\ UNCHANGED <<debt, fails>>
        /\ UNCHANGED <<file, cwd, calls, stopped>>

(* "retry if another process is modifying the inode at the same time": the *)
(* name that exists is looked up, and created again if it is gone by now.  *)
CreateLookup(p) ==
    LET f == fr[p]
    IN  /\ At(p, "again")
        /\ \/ /\ f.base \notin Names(f.par)
              /\ InodeGoto(p, "create") /\ UNCHANGED <<ref, drop, fr>>
           \/ /\ f.base \in Names(f.par)
              /\ ref' = Ref(ref, <<DentryFind(f.par, f.base)>>)
              /\ CreateEnd(p, DentryFind(f.par, f.base))
              /\ GiveUp(p, <<f.par>>)
        /\ UNCHANGED <<kind, fsroot, links, kids, file, cwd, debt, calls, fails,
                       stopped>>

(* sys_mknod() sets the device_id after the node is in its directory.      *)
SysMknodEnd(p) ==
    LET i == fr[p].cur
    IN  /\ At(p, "setdev")
        /\ kind' = [kind EXCEPT ![i] = call[p].mode]
        /\ GiveUp(p, <<i>>) /\ Return(p)
        /\ UNCHANGED <<fsroot, ref, links, kids, file, cwd, debt, calls, fails,
                       stopped>>

-----------------------------------------------------------------------------
(* link(), unlink(), rmdir(), rename().                                    *)

(* sys_link() after the first path: a directory cannot be linked.          *)
LinkOld(p) ==
    LET f == fr[p]
    IN  /\ At(p, "found") /\ call[p].op = "link"
        /\ f.old = None /\ f.cur # None
        /\ IF kind[f.cur] = "dir"
           THEN GiveUp(p, <<f.cur>>) /\ Return(p) /\ UNCHANGED <<ref, fails>>
           ELSE /\ ResolvePath(p, call[p].new, [NoFrame EXCEPT !.old = f.cur])
                /\ UNCHANGED <<drop, call>>
        /\ UNCHANGED <<kind, fsroot, links, kids, file, cwd, debt, calls,
                       stopped>>

LinkNew(p) ==
    LET f == fr[p]
    IN  /\ At(p, "found") /\ call[p].op = "link" /\ f.old # None
        /\ \/ /\ f.cur # None
              /\ GiveUp(p, <<f.old, f.par, f.cur>>) /\ Return(p)
           \/ /\ f.cur = None /\ f.rc = "ENOENT" /\ f.par # None
              /\ InodeGoto(p, "link") /\ UNCHANGED <<fr, drop>>
        /\ UNCHANGED <<kind, fsroot, ref, links, kids, file, cwd, debt, calls,
                       fails, stopped>>

(* inode_link_child() on the parent and the old inode, whose reference     *)
(* becomes the entry's.  ENOTDIR and EXDEV give both up; when the name     *)
(* exists by now, or the entry does not fit, the old inode's reference is  *)
(* lost.  rename() then goes on, or gives up what it still names.          *)
LinkFailed(p, extra) ==
    LET f == fr[p]
    IN  IF call[p].op = "rename" /\ f.rc = "stale"
        THEN Panic("stale_target")
        ELSE /\ GiveUp(p, extra \o <<f.par, f.oldpar, f.cur>>)
             /\ Return(p)
             /\ UNCHANGED <<kind, fsroot, ref, links, kids, file, cwd, calls,
                            stopped>>

LinkChild(p) ==
    LET f == fr[p]
        d == f.par
    IN  /\ At(p, "link")
        /\ \/ /\ fsroot[d] # fsroot[f.old]
              /\ LinkFailed(p, <<f.old>>) /\ UNCHANGED <<debt, fails>>
           \/ /\ fsroot[d] = fsroot[f.old]
              /\ DentryExists(d, f.base)
              /\ LinkFailed(p, <<>>)
              /\ IF stopped' = "no" THEN Forget(<<f.old>>) ELSE UNCHANGED debt
              /\ UNCHANGED fails
           \/ /\ fsroot[d] = fsroot[f.old]
              /\ ~DentryExists(d, f.base) /\ fails < MaxAllocFails
              /\ LinkFailed(p, <<>>)
              /\ IF stopped' = "no"
                 THEN Forget(<<f.old>>) /\ fails' = fails + 1
                 ELSE UNCHANGED <<debt, fails>>
           \/ /\ fsroot[d] = fsroot[f.old]
              /\ ~DentryExists(d, f.base)
              /\ kids' = DentryAppend(d, f.base, f.old)
              /\ links' = [links EXCEPT ![f.old] = @ + 1]
              /\ GiveUp(p, <<d>>)
              /\ IF call[p].op = "link"
                 THEN Return(p) /\ UNCHANGED debt
                 ELSE /\ Forget(<<f.cur>>)
                      /\ fr' = [fr EXCEPT ![p] = [NoFrame EXCEPT
                                  !.par = f.oldpar, !.base = f.oldbase]]
                      /\ InodeGoto(p, "unlink")
              /\ UNCHANGED <<kind, fsroot, ref, file, cwd, calls, fails,
                             stopped>>

(* inode_unlink_child() as the last step of unlink(), rmdir(), rename():   *)
(* whatever the name means by now is removed.                              *)
UnlinkLast(p) ==
    LET f == fr[p]
        d == f.par
    IN  /\ At(p, "unlink")
        /\ \/ /\ f.base \in Names(d)
              /\ UnlinkChild(p, f.base, <<d>>, Return(p))
           \/ /\ f.base \notin Names(d)
              /\ GiveUp(p, <<d>>) /\ Return(p)
              /\ UNCHANGED <<kind, fsroot, ref, links, kids, file, cwd, debt,
                             calls, fails, stopped>>

(* sys_unlink() and sys_rmdir() when the path was found.                   *)
SysUnlink(p) ==
    LET f == fr[p]
    IN  /\ At(p, "found") /\ call[p].op = "unlink" /\ f.cur # None
        /\ IF f.par = None \/ kind[f.cur] = "dir"
           THEN GiveUp(p, <<f.par, f.cur>>) /\ Return(p)
           ELSE /\ GiveUp(p, <<f.cur>>)
                /\ fr' = [fr EXCEPT ![p].cur = None] /\ InodeGoto(p, "unlink")
        /\ UNCHANGED <<kind, fsroot, ref, links, kids, file, cwd, debt, calls,
                       fails, stopped>>

SysRmdir(p) ==
    LET f == fr[p]
    IN  /\ At(p, "found") /\ call[p].op = "rmdir" /\ f.cur # None
        /\ IF f.par = None \/ kind[f.cur] # "dir"
           THEN GiveUp(p, <<f.par, f.cur>>) /\ Return(p)
           ELSE InodeGoto(p, "empty") /\ UNCHANGED <<drop, fr>>
        /\ UNCHANGED <<kind, fsroot, ref, links, kids, file, cwd, debt, calls,
                       fails, stopped>>

(* make_sure_directory_is_empty(): opens the directory with the reference  *)
(* of the caller, lists it, closes it.  An allocation may fail instead.    *)
(* rmdir() goes on to unlink the name, rename() to replace it.             *)
MakeSureDirectoryIsEmpty(p) ==
    LET f == fr[p]
    IN  /\ At(p, "empty")
        /\ \/ /\ \/ kids[f.cur] # <<>> /\ UNCHANGED fails
                 \/ AllocFails
              /\ GiveUp(p, <<f.cur, f.par, f.old, f.oldpar>>) /\ Return(p)
           \/ /\ kids[f.cur] = <<>> /\ UNCHANGED fails
              /\ GiveUp(p, <<f.cur>>)
              /\ IF call[p].op = "rmdir"
                 THEN fr' = [fr EXCEPT ![p].cur = None] /\ InodeGoto(p, "unlink")
                 ELSE /\ fr' = [fr EXCEPT ![p].cur = None, ![p].rc = "stale"]
                      /\ InodeGoto(p, "replace")
        /\ UNCHANGED <<kind, fsroot, ref, links, kids, file, cwd, debt, calls,
                       stopped>>

(* sys_rename() after the first path, and after the second.                *)
RenameOld(p) ==
    LET f == fr[p]
    IN  /\ At(p, "found") /\ call[p].op = "rename"
        /\ f.old = None /\ f.cur # None
        /\ IF f.par = None
           THEN GiveUp(p, <<f.cur>>) /\ Return(p) /\ UNCHANGED <<ref, fails>>
           ELSE /\ ResolvePath(p, call[p].new,
                     [NoFrame EXCEPT !.old = f.cur, !.oldpar = f.par,
                                     !.oldbase = f.base])
                /\ UNCHANGED <<drop, call>>
        /\ UNCHANGED <<kind, fsroot, links, kids, file, cwd, debt, calls,
                       stopped>>

RenameNew(p) ==
    LET f == fr[p]
    IN  /\ At(p, "found") /\ call[p].op = "rename" /\ f.old # None
        /\ \/ f.cur = f.old /\ Panic("rename_same")
           \/ /\ f.cur # f.old
              /\ \/ /\ f.cur # None /\ kind[f.cur] = "dir"
                    /\ kind[f.old] # "dir"
                    /\ GiveUp(p, <<f.oldpar, f.old, f.par, f.cur>>) /\ Return(p)
                 \/ /\ f.cur # None /\ kind[f.cur] = "dir"
                    /\ kind[f.old] = "dir"
                    /\ InodeGoto(p, "empty") /\ UNCHANGED <<drop, fr>>
                 \/ /\ f.cur # None /\ kind[f.cur] # "dir"
                    /\ InodeGoto(p, "replace") /\ UNCHANGED <<drop, fr>>
                 \/ /\ f.cur = None /\ f.rc = "ENOENT" /\ f.par # None
                    /\ InodeGoto(p, "link") /\ UNCHANGED <<drop, fr>>
              /\ UNCHANGED <<kind, fsroot, ref, links, kids, file, cwd, debt,
                             calls, fails, stopped>>

(* The target's name is removed before the new entry is made.  The root    *)
(* has no parent, and inode_ref() asserts that there is one.  If the name  *)
(* is gone by now the call fails, and unrefs a directory that the          *)
(* emptiness check has already given up.                                   *)
RenameReplace(p) ==
    LET f == fr[p]
        d == f.par
    IN  /\ At(p, "replace")
        /\ \/ d = None /\ Panic("null_parent")
           \/ /\ d # None /\ f.base \in Names(d)
              /\ UnlinkChild(p, f.base, <<>>, InodeGoto(p, "link") /\ UNCHANGED fr)
           \/ /\ d # None /\ f.base \notin Names(d)
              /\ IF f.rc = "stale" THEN Panic("stale_target")
                 ELSE /\ GiveUp(p, <<f.oldpar, f.old, d, f.cur>>) /\ Return(p)
                      /\ UNCHANGED <<kind, fsroot, ref, links, kids, file, cwd,
                                     debt, calls, fails, stopped>>

-----------------------------------------------------------------------------
InodesStep(p) ==
    \/ InodeCall(p) \/ Close(p) \/ InodeUnref(p)
    \/ ResolveComponent(p) \/ ResolveFailed(p)
    \/ VfsOpenEnd(p) \/ VfsStat(p) \/ SysChdir(p)
    \/ CreateResolved(p) \/ CreateChild(p) \/ CreateLookup(p)
    \/ SysMknodEnd(p)
    \/ LinkOld(p) \/ LinkNew(p) \/ LinkChild(p)
    \/ SysUnlink(p) \/ SysRmdir(p) \/ UnlinkLast(p)
    \/ MakeSureDirectoryIsEmpty(p)
    \/ RenameOld(p) \/ RenameNew(p) \/ RenameReplace(p)

InodesNext == \E p \in InodeProcess : InodesStep(p)

InodesSpec == InodesInit /\ [][InodesNext]_inodeVars

-----------------------------------------------------------------------------
(* The references a process holds: its call's variables, its open file,    *)
(* its working directory, and those it is about to give up.                *)
Held == [p \in InodeProcess |->
            <<fr[p].cur, fr[p].par, fr[p].old, fr[p].oldpar, file[p],
              cwd[p].ino>> \o drop[p]]

Entries == [d \in Inode |-> Children(d)]

(* Where in a family of lists an inode is named.                           *)
PointersTo(lists, i) ==
    UNION {{<<x, k>> : k \in Positions(lists[x], i)} : x \in DOMAIN lists}

InodesTypeOK ==
    /\ kind \in [Inode -> {"free", "dir", "reg", "chr", "nodev"}]
    /\ ref \in [Inode -> Nat] /\ links \in [Inode -> Nat]
    /\ debt \in [Inode -> Nat]
    /\ \A d \in Inode : \A k \in DOMAIN kids[d] : kids[d][k].ino \in Inode
    /\ file \in [InodeProcess -> Inode \cup {None}]

(* Whatever the order in which the calls of several processes change the   *)
(* tree, an inode's ref_count is the number of pointers to it plus those   *)
(* the code has lost, its num_links is the number of its names, and no     *)
(* pointer is left to a destroyed inode (fs.c:92, :98).                    *)
CountsAreExact ==
    LET entries == Entries
        held == Held
    IN  \A i \in Inode :
          LET names == Cardinality(PointersTo(entries, i))
          IN  /\ links[i] = names
              /\ ref[i] = StaticRefs(i) + names
                             + Cardinality(PointersTo(held, i)) + debt[i]
              /\ kind[i] = "free" => ref[i] = 0

(* A directory never lists a name twice, although the check and the append *)
(* of link() and of open(O_CREAT) are far apart (dentry_append() checks    *)
(* again), and only a directory has entries.                               *)
NamesAreUnique ==
    \A d \in Inode :
       /\ \A j, k \in DOMAIN kids[d] : kids[d][j].name = kids[d][k].name => j = k
       /\ kids[d] # <<>> => kind[d] = "dir"

(* The counters are never decremented at zero (fs.c:92, dentry.c:122,      *)
(* :138): of the panics, only those of rename() happen.                    *)
InodeAsserts == stopped \in {"no", "rename_same", "null_parent", "stale_target"}

(* Whatever the calls of several processes do to the tree, the counters of *)
(* an inode are exact, a directory has a name once, and no counter is      *)
(* decremented at zero (fs.c:92, dentry.c:80, :122).                       *)
TreeIsSound == InodesTypeOK /\ CountsAreExact /\ NamesAreUnique /\ InodeAsserts

(* syscall/fs.c:290, ASSERT(rc < 0) where rename() gives up.               *)
AssertRenameFails == stopped # "rename_same"
=============================================================================
