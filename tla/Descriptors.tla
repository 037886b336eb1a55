----------------------------- MODULE Descriptors ----------------------------
(***************************************************************************)
(* Descriptor tables and open file descriptions (kernel/fs/fs.c,           *)
(* process.c, syscall/fs.c): open, close, fcntl, dup2, pipe, and what      *)
(* fork() and exit() do to the table.  A description is shared by every    *)
(* table entry that points to it and lives as long as its ref_count says.  *)
(*                                                                         *)
(* Only its own process changes a table, so the calls are atomic here but  *)
(* for exit(), which closes one entry after another.  `lost' is a history  *)
(* variable: descriptions that no table will ever name again, open for     *)
(* ever.                                                                   *)
(***************************************************************************)
EXTENDS Integers, FiniteSets, FiniteSetsExt

CONSTANTS FdProcess,    \* processes
          NoDesc,       \* an empty table entry
          OPEN_MAX,     \* entries of a table
          MaxDesc       \* bound: descriptions made in a behaviour

ASSUME DescriptorsAssumption ==
    /\ IsFiniteSet(FdProcess)
    /\ OPEN_MAX \in Nat \ {0} /\ MaxDesc \in Nat
    /\ NoDesc \notin 1..MaxDesc

VARIABLES fdTable,      \* fdTable[p][fd]
          fdAlive,      \* "none", "running" or "exiting", per process
          desc,         \* [refs, type, flags, pipe] of each description
          made,         \* descriptions made so far
          lost,         \* history: opened, but never entered in a table
          setfl,        \* history: F_SETFL has changed an access mode
          pipeReaders, pipeWriters,   \* per pipe, named by its reader's number
          fdStopped     \* why the kernel panicked, if it did

descVars == <<fdTable, fdAlive, desc, made, lost, setfl, pipeReaders,
              pipeWriters, fdStopped>>

Desc == 1..MaxDesc
Fd == 0..(OPEN_MAX - 1)

NewTable == [fd \in Fd |-> NoDesc]

NoFile == [refs |-> 0, type |-> "none", flags |-> {}, pipe |-> NoDesc]

(* file_descriptor_table_init() for the first process.                     *)
DescriptorsInit ==
    /\ fdTable = [p \in FdProcess |-> NewTable]
    /\ fdAlive \in [FdProcess -> {"none", "running"}]
    /\ Cardinality({p \in FdProcess : fdAlive[p] = "running"}) = 1
    /\ desc = [d \in Desc |-> NoFile]
    /\ made = 0 /\ lost = {} /\ setfl = FALSE
    /\ pipeReaders = [d \in Desc |-> 0] /\ pipeWriters = [d \in Desc |-> 0]
    /\ fdStopped = "no"

FdRuns(p) == fdStopped = "no" /\ fdAlive[p] = "running"

-----------------------------------------------------------------------------
(* The table.                                                              *)

FreeFds(p) == {fd \in Fd : fdTable[p][fd] = NoDesc}

(* process_alloc_file_descriptor(): the entry it takes for d, and the      *)
(* table then.  -1 asks for the lowest free entry.                         *)
NoFd == -1
AllocFd(p, fd) == IF fd \in FreeFds(p) THEN fd
                  ELSE IF fd < 0 /\ FreeFds(p) # {} THEN Min(FreeFds(p)) ELSE NoFd
Entered(p, fd, d) == IF AllocFd(p, fd) = NoFd THEN fdTable
                     ELSE [fdTable EXCEPT ![p][AllocFd(p, fd)] = d]

(* file_description_close(): the description, after one reference is gone, *)
(* and what fifo_close() leaves of a pipe's counter when it was the last.  *)
(* It looks at the flags as they are now.                                  *)
DescUnref(x) == IF x.refs = 1 THEN NoFile ELSE [x EXCEPT !.refs = @ - 1]

FifoCloseEveryTime(counter, d, mode) ==
    IF desc[d].type = "pipe" /\ mode \in desc[d].flags
    THEN [counter EXCEPT ![desc[d].pipe] = @ - 1] ELSE counter

FifoClose(counter, d, mode) ==
    IF desc[d].refs = 1 /\ desc[d].type = "pipe" /\ mode \in desc[d].flags
    THEN [counter EXCEPT ![desc[d].pipe] = @ - 1] ELSE counter

DescClose(d) ==
    /\ desc' = [desc EXCEPT ![d] = DescUnref(@)]
    /\ pipeReaders' = FifoClose(pipeReaders, d, "r")
    /\ pipeWriters' = FifoClose(pipeWriters, d, "w")

(* The assertion in fifo_close(): a pipe end is not read-write.            *)
CloseAsserts(d) == /\ desc[d].refs = 1 /\ desc[d].type = "pipe"
                   /\ {"r", "w"} \subseteq desc[d].flags

FdPanic(why) ==
    /\ fdStopped' = why
    /\ UNCHANGED <<fdTable, fdAlive, desc, made, lost, setfl, pipeReaders,
                   pipeWriters>>

-----------------------------------------------------------------------------
(* The calls.                                                              *)

(* sys_open(): the description is made first.  When the table is full the  *)
(* call fails and nothing closes it.                                       *)
SysOpen(p) ==
    /\ FdRuns(p) /\ made < MaxDesc
    /\ made' = made + 1
    /\ \E fl \in {{"r"}, {"r", "w"}} :
          desc' = [desc EXCEPT ![made + 1] =
                     [refs |-> 1, type |-> "file", flags |-> fl,
                      pipe |-> NoDesc]]
    /\ fdTable' = Entered(p, -1, made + 1)
    /\ lost' = IF AllocFd(p, -1) = NoFd THEN lost \cup {made + 1} ELSE lost
    /\ UNCHANGED <<fdAlive, setfl, pipeReaders, pipeWriters, fdStopped>>

(* sys_close(): the description, then the entry.                           *)
SysClose(p) ==
    /\ FdRuns(p)
    /\ \E fd \in Fd \ FreeFds(p) :
          IF CloseAsserts(fdTable[p][fd]) THEN FdPanic("pipe_flags")
          ELSE /\ DescClose(fdTable[p][fd])
               /\ fdTable' = [fdTable EXCEPT ![p][fd] = NoDesc]
               /\ UNCHANGED <<fdAlive, made, lost, setfl, fdStopped>>

(* sys_fcntl(): F_DUPFD counts the new entry only when there is one;       *)
(* F_SETFL replaces all the flags, the access mode too.                    *)
FcntlDupFdCountsFirst(p) ==
    /\ FdRuns(p)
    /\ \E fd \in Fd \ FreeFds(p) :
          LET d == fdTable[p][fd]
          IN  /\ fdTable' = Entered(p, -1, d)
              /\ desc' = [desc EXCEPT ![d].refs = @ + 1]
    /\ UNCHANGED <<fdAlive, made, lost, setfl, pipeReaders, pipeWriters,
                   fdStopped>>

FcntlDupFd(p) ==
    /\ FdRuns(p)
    /\ \E fd \in Fd \ FreeFds(p) :
          LET d == fdTable[p][fd]
          IN  /\ fdTable' = Entered(p, -1, d)
              /\ desc' = IF AllocFd(p, -1) = NoFd THEN desc
                         ELSE [desc EXCEPT ![d].refs = @ + 1]
    /\ UNCHANGED <<fdAlive, made, lost, setfl, pipeReaders, pipeWriters,
                   fdStopped>>

FcntlSetFl(p) ==
    /\ FdRuns(p)
    /\ \E fd \in Fd \ FreeFds(p), fl \in {{}, {"r"}, {"r", "w"}} :
          /\ fl # desc[fdTable[p][fd]].flags
          /\ desc' = [desc EXCEPT ![fdTable[p][fd]].flags = fl]
    /\ setfl' = TRUE
    /\ UNCHANGED <<fdTable, fdAlive, made, lost, pipeReaders, pipeWriters,
                   fdStopped>>

(* sys_dup2(): an open newfd is closed first, then the entry is made.  For *)
(* newfd = oldfd the description itself is closed: if that was its last    *)
(* reference, freed memory is entered in the table.  A negative newfd asks *)
(* process_alloc_file_descriptor() for any entry.                          *)
SysDup2(p) ==
    /\ FdRuns(p)
    /\ \E old \in Fd \ FreeFds(p), new \in -1..OPEN_MAX :
         LET d == fdTable[p][old]
             victim == IF new \in Fd THEN fdTable[p][new] ELSE NoDesc
         IN  \/ /\ victim = NoDesc
                /\ fdTable' = Entered(p, new, d)
                /\ desc' = IF AllocFd(p, new) = NoFd THEN desc
                           ELSE [desc EXCEPT ![d].refs = @ + 1]
                /\ UNCHANGED <<fdAlive, made, lost, setfl, pipeReaders,
                               pipeWriters, fdStopped>>
             \/ /\ victim # NoDesc /\ CloseAsserts(victim)
                /\ FdPanic("pipe_flags")
             \/ /\ victim = d /\ desc[d].refs = 1 /\ ~CloseAsserts(d)
                /\ FdPanic("dup2_self")
             \/ /\ victim # NoDesc /\ ~CloseAsserts(victim)
                /\ victim = d => desc[d].refs > 1
                /\ fdTable' = [fdTable EXCEPT ![p][new] = d]
                /\ LET closed == [desc EXCEPT ![victim] = DescUnref(@)]
                   IN  desc' = [closed EXCEPT ![d].refs = @ + 1]
                /\ pipeReaders' = FifoClose(pipeReaders, victim, "r")
                /\ pipeWriters' = FifoClose(pipeWriters, victim, "w")
                /\ UNCHANGED <<fdAlive, made, lost, setfl, fdStopped>>

(* sys_pipe(): two descriptions of one fifo, two entries, or none of them: *)
(* every failure closes what was opened.                                   *)
SysPipe(p) ==
    /\ FdRuns(p) /\ made + 2 <= MaxDesc
    /\ IF Cardinality(FreeFds(p)) < 2
       THEN UNCHANGED <<fdTable, desc, made, pipeReaders, pipeWriters>>
       ELSE LET r == made + 1
                w == made + 2
                rfd == Min(FreeFds(p))
                wfd == Min(FreeFds(p) \ {rfd})
                End(fl) == [refs |-> 1, type |-> "pipe", flags |-> fl,
                            pipe |-> r]
            IN  /\ made' = made + 2
                /\ desc' = [desc EXCEPT ![r] = End({"r"}), ![w] = End({"w"})]
                /\ fdTable' = [fdTable EXCEPT ![p][rfd] = r, ![p][wfd] = w]
                /\ pipeReaders' = [pipeReaders EXCEPT ![r] = 1]
                /\ pipeWriters' = [pipeWriters EXCEPT ![r] = 1]
    /\ UNCHANGED <<fdAlive, lost, setfl, fdStopped>>

(* file_descriptor_table_clone_from() in fork(): every entry is a further  *)
(* reference.                                                              *)
CloneTable(p, child) ==
    /\ FdRuns(p) /\ fdAlive[child] = "none"
    /\ fdAlive' = [fdAlive EXCEPT ![child] = "running"]
    /\ fdTable' = [fdTable EXCEPT ![child] = fdTable[p]]
    /\ desc' = [d \in Desc |-> [desc[d] EXCEPT !.refs =
                   @ + Cardinality({fd \in Fd : fdTable[p][fd] = d})]]
    /\ UNCHANGED <<made, lost, setfl, pipeReaders, pipeWriters, fdStopped>>

(* file_descriptor_table_destroy() in process_exit(): entry after entry,   *)
(* while the other processes run.                                          *)
BeginExit(p) ==
    /\ FdRuns(p)
    /\ fdAlive' = [fdAlive EXCEPT ![p] = "exiting"]
    /\ UNCHANGED <<fdTable, desc, made, lost, setfl, pipeReaders, pipeWriters,
                   fdStopped>>

DestroyTable(p) ==
    /\ fdStopped = "no" /\ fdAlive[p] = "exiting"
    /\ IF FreeFds(p) = Fd
       THEN /\ fdAlive' = [fdAlive EXCEPT ![p] = "none"]
            /\ UNCHANGED <<fdTable, desc, made, lost, setfl, pipeReaders,
                           pipeWriters, fdStopped>>
       ELSE LET fd == Min(Fd \ FreeFds(p))
            IN  IF CloseAsserts(fdTable[p][fd]) THEN FdPanic("pipe_flags")
                ELSE /\ DescClose(fdTable[p][fd])
                     /\ fdTable' = [fdTable EXCEPT ![p][fd] = NoDesc]
                     /\ UNCHANGED <<fdAlive, made, lost, setfl, fdStopped>>

DescriptorsNext ==
    \/ \E p \in FdProcess : \/ SysOpen(p) \/ SysClose(p) \/ FcntlDupFd(p)
                            \/ FcntlSetFl(p) \/ SysDup2(p) \/ SysPipe(p)
                            \/ BeginExit(p) \/ DestroyTable(p)
    \/ \E p, q \in FdProcess : CloneTable(p, q)

DescriptorsSpec == DescriptorsInit /\ [][DescriptorsNext]_descVars

-----------------------------------------------------------------------------
Description == [refs : Nat, type : {"none", "file", "pipe"},
                flags : SUBSET {"r", "w"}, pipe : Desc \cup {NoDesc}]

DescriptorsTypeOK ==
    /\ fdTable \in [FdProcess -> [Fd -> Desc \cup {NoDesc}]]
    /\ fdAlive \in [FdProcess -> {"none", "running", "exiting"}]
    /\ desc \in [Desc -> Description]
    /\ made \in 0..MaxDesc /\ lost \subseteq 1..made /\ setfl \in BOOLEAN
    /\ pipeReaders \in [Desc -> Int] /\ pipeWriters \in [Desc -> Int]
    /\ fdStopped \in {"no", "pipe_flags", "dup2_self"}

(* A description is alive exactly as long as a table of any process names  *)
(* it, through every mixture of fork, dup, dup2, close and exit: its       *)
(* ref_count is the number of entries (one for a description that open()   *)
(* lost because the table was full).                                       *)
Naming(table, d) == {e \in FdProcess \X Fd : table[e[1]][e[2]] = d}

RefsAreEntries ==
    \A d \in Desc : desc[d].refs = Cardinality(Naming(fdTable, d))
                                     + (IF d \in lost THEN 1 ELSE 0)

(* A pipe's num_readers and num_writers are the numbers of its open ends,  *)
(* so that the other end sees end-of-file exactly when it should; F_SETFL  *)
(* breaks that, because fifo_close() believes the flags.                   *)
Ends(descs, f, mode) == {d \in Desc : descs[d].pipe = f /\ mode \in descs[d].flags}

PipeEndsAreCounted ==
    ~setfl => \A f \in Desc :
        /\ pipeReaders[f] = Cardinality(Ends(desc, f, "r"))
        /\ pipeWriters[f] = Cardinality(Ends(desc, f, "w"))

(* Through fork, dup, dup2, close and exit a description lives as long as  *)
(* the entries that name it, and a pipe knows its open ends                *)
(* (syscall/fs.c:364, fs.c:92, fifo.c:51).                                 *)
DescriptorsAreCounted == RefsAreEntries /\ PipeEndsAreCounted
=============================================================================
