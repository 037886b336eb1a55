-------------------------------- MODULE Fifo --------------------------------
(***************************************************************************)
(* FIFOs and pipes: kernel/fs/fifo.c with file_description_block(), over   *)
(* the ring buffer, its mutex and the blocking of the scheduler.           *)
(*                                                                         *)
(* A process has at most one description of the fifo, for reading or for   *)
(* writing.  The mutex is the lock that Mutex is shown to implement.  A    *)
(* blocked process goes on after its condition was found true, which may   *)
(* be false again by then.  The n-th byte that is written is n modulo      *)
(* Modulus.                                                                *)
(***************************************************************************)
EXTENDS RingBuf, FiniteSets

CONSTANTS
    Process, NULL,
    Counts          \* the sizes of the reads and the writes

ASSUME CountsAssumption == Counts \subseteq Nat
ASSUME DistinctBytesAssumption == Modulus > BUF_CAPACITY
ASSUME ProcessAssumption == IsFiniteSet(Process) /\ NULL \notin Process

VARIABLES
    buf,            \* the ring buffer
    holder,         \* who holds buf->lock
    num_readers, num_writers,
    access,         \* the access mode of the description a process has
    pc, count,      \* its call: the next statement, the bytes left to do
    sent,           \* the next byte to be written
    received        \* the byte that was read last

vars == <<buf, holder, num_readers, num_writers, access, pc, count, sent,
          received>>

ReadPCs == {"read_block", "read_sleep", "read_lock", "read_copy", "read_empty"}
WritePCs == {"write_block", "write_sleep", "write_lock", "write_copy"}

TypeOK ==
    /\ buf \in ring_buf
    /\ holder \in Process \cup {NULL}
    /\ num_readers \in Nat /\ num_writers \in Nat
    /\ access \in [Process -> {"closed", "O_RDONLY", "O_WRONLY"}]
    /\ pc \in [Process -> {"idle", "unlock"} \cup ReadPCs \cup WritePCs]
    /\ count \in [Process -> Nat]
    /\ sent \in Byte
    /\ received \in Byte

(* fifo_create().                                                          *)
Init ==
    /\ ring_buf_init(buf) /\ buf.inner_buf = [i \in Index |-> 0]
    /\ holder = NULL
    /\ num_readers = 0 /\ num_writers = 0
    /\ access = [p \in Process |-> "closed"]
    /\ pc = [p \in Process |-> "idle"]
    /\ count = [p \in Process |-> 0]
    /\ sent = 0
    /\ received = Modulus - 1

Goto(p, l) == pc' = [pc EXCEPT ![p] = l]

-----------------------------------------------------------------------------
fifo_open(p, flags) ==
    /\ access[p] = "closed"
    /\ access' = [access EXCEPT ![p] = flags]
    /\ num_readers' = IF flags = "O_RDONLY" THEN num_readers + 1 ELSE num_readers
    /\ num_writers' = IF flags = "O_WRONLY" THEN num_writers + 1 ELSE num_writers
    /\ UNCHANGED <<buf, holder, pc, count, sent, received>>

fifo_close(p) ==
    /\ pc[p] = "idle" /\ access[p] # "closed"
    /\ num_readers' = IF access[p] = "O_RDONLY" THEN num_readers - 1 ELSE num_readers
    /\ num_writers' = IF access[p] = "O_WRONLY" THEN num_writers - 1 ELSE num_writers
    /\ access' = [access EXCEPT ![p] = "closed"]
    /\ UNCHANGED <<buf, holder, pc, count, sent, received>>

-----------------------------------------------------------------------------
(* Reading.                                                                *)

fifo_read(p, n) ==
    /\ pc[p] = "idle" /\ access[p] = "O_RDONLY"
    /\ Goto(p, "read_block")
    /\ count' = [count EXCEPT ![p] = n]
    /\ UNCHANGED <<buf, holder, num_readers, num_writers, access, sent, received>>

WakesForDataOnly == ~ring_buf_is_empty(buf)                         \* fault
WakesForEofOnly == num_writers = 0                                  \* fault
read_should_unblock == num_writers = 0 \/ ~ring_buf_is_empty(buf)
write_should_unblock == num_readers = 0 \/ ~ring_buf_is_full(buf)

(* file_description_block(): the process goes on if the condition holds.   *)
(* If not, it goes to sleep, or returns EAGAIN because of O_NONBLOCK.      *)
file_description_block(p) ==
    /\ \/ pc[p] = "read_block" /\ read_should_unblock /\ Goto(p, "read_lock")
       \/ pc[p] = "write_block" /\ write_should_unblock /\ Goto(p, "write_lock")
       \/ pc[p] = "read_block" /\ ~read_should_unblock /\ Goto(p, "read_sleep")
       \/ pc[p] = "write_block" /\ ~write_should_unblock /\ Goto(p, "write_sleep")
       \/ pc[p] = "read_block" /\ ~read_should_unblock /\ Goto(p, "idle")
       \/ pc[p] = "write_block" /\ ~write_should_unblock /\ Goto(p, "idle")
    /\ UNCHANGED <<buf, holder, num_readers, num_writers, access, count, sent,
                   received>>

(* unblock_processes() finds the condition true.                           *)
Unblocked(p) ==
    /\ \/ pc[p] = "read_sleep" /\ read_should_unblock /\ Goto(p, "read_lock")
       \/ pc[p] = "write_sleep" /\ write_should_unblock /\ Goto(p, "write_lock")
    /\ UNCHANGED <<buf, holder, num_readers, num_writers, access, count, sent,
                   received>>

(* A signal wakes the process: the call returns EINTR.                     *)
Interrupted(p) ==
    /\ pc[p] \in {"read_sleep", "write_sleep"}
    /\ Goto(p, "idle")
    /\ UNCHANGED <<buf, holder, num_readers, num_writers, access, count, sent,
                   received>>

(* Fault: the buffer is not tested again once the lock is held.            *)
ReadTestSkipped == FALSE
ReadFindsNothing == ring_buf_is_empty(buf)

(* mutex_lock() and the test of what it protects.                          *)
ReadLock(p) ==
    /\ pc[p] = "read_lock"
    /\ holder = NULL
    /\ holder' = p
    /\ Goto(p, IF ReadFindsNothing THEN "read_empty" ELSE "read_copy")
    /\ UNCHANGED <<buf, num_readers, num_writers, access, count, sent, received>>

(* ring_buf_read(), one byte at a time.                                    *)
ReadCopy(p) ==
    /\ pc[p] = "read_copy"
    /\ IF count[p] = 0
       THEN Goto(p, "unlock") /\ UNCHANGED <<buf, count, received>>
       ELSE /\ received' = FirstByte(buf)
            /\ buf' = ReadByte(buf)
            /\ count' = [count EXCEPT ![p] = @ - 1]
            /\ Goto(p, IF ring_buf_is_empty(buf') THEN "unlock" ELSE "read_copy")
    /\ UNCHANGED <<holder, num_readers, num_writers, access, sent>>

AtEofIfEmpty == TRUE                                                \* fault

(* Nothing to read: the end of the file if there is no writer, and another *)
(* round if there is.                                                      *)
AtEof == num_writers = 0

ReadEmpty(p) ==
    /\ pc[p] = "read_empty"
    /\ holder' = NULL
    /\ Goto(p, IF AtEof THEN "idle" ELSE "read_block")
    /\ UNCHANGED <<buf, num_readers, num_writers, access, count, sent, received>>

-----------------------------------------------------------------------------
(* Writing.                                                                *)

fifo_write(p, n) ==
    /\ pc[p] = "idle" /\ access[p] = "O_WRONLY"
    /\ Goto(p, "write_block")
    /\ count' = [count EXCEPT ![p] = n]
    /\ UNCHANGED <<buf, holder, num_readers, num_writers, access, sent, received>>

(* Without readers the lock is released at once, the process gets SIGPIPE  *)
(* and the call returns EPIPE; a full buffer means another round.          *)
WriteLock(p) ==
    /\ pc[p] = "write_lock"
    /\ holder = NULL
    /\ \/ num_readers = 0 /\ Goto(p, "idle") /\ UNCHANGED holder
       \/ /\ num_readers # 0 /\ ring_buf_is_full(buf)
          /\ Goto(p, "write_block")
          /\ UNCHANGED holder
       \/ /\ num_readers # 0 /\ ~ring_buf_is_full(buf)
          /\ Goto(p, "write_copy")
          /\ holder' = p
    /\ UNCHANGED <<buf, num_readers, num_writers, access, count, sent, received>>

(* ring_buf_write(), one byte at a time; it may stop before the end.       *)
WriteCopy(p) ==
    /\ pc[p] = "write_copy"
    /\ IF count[p] = 0
       THEN Goto(p, "unlock") /\ UNCHANGED <<buf, count, sent>>
       ELSE /\ buf' = WriteByte(buf, sent)
            /\ sent' = (sent + 1) % Modulus
            /\ count' = [count EXCEPT ![p] = @ - 1]
            /\ Goto(p, IF ring_buf_is_full(buf') THEN "unlock" ELSE "write_copy")
    /\ UNCHANGED <<holder, num_readers, num_writers, access, received>>

(* mutex_unlock() and the return of a call that transferred bytes.         *)
Unlock(p) ==
    /\ pc[p] = "unlock"
    /\ holder' = NULL
    /\ count' = [count EXCEPT ![p] = 0]
    /\ Goto(p, "idle")
    /\ UNCHANGED <<buf, num_readers, num_writers, access, sent, received>>

-----------------------------------------------------------------------------
Step(p) ==
    \/ file_description_block(p) \/ Unblocked(p)
    \/ ReadLock(p) \/ ReadCopy(p) \/ ReadEmpty(p)
    \/ WriteLock(p) \/ WriteCopy(p)
    \/ Unlock(p)

Call(p) ==
    \/ \E flags \in {"O_RDONLY", "O_WRONLY"} : fifo_open(p, flags)
    \/ fifo_close(p)
    \/ \E n \in Counts : fifo_read(p, n) \/ fifo_write(p, n)

Next == \E p \in Process : Step(p) \/ Interrupted(p) \/ Call(p)

Spec == Init /\ [][Next]_vars

(* A process inside a call keeps executing.  The mutex itself may starve a *)
(* process only if the timer preempts some other holder inside its         *)
(* critical section each time that the process tries; this is excluded.    *)
Fairness ==
    \A p \in Process : /\ WF_vars(Step(p))
                       /\ SF_vars(ReadLock(p))
                       /\ SF_vars(WriteLock(p))

FairSpec == Spec /\ Fairness

-----------------------------------------------------------------------------
(* The bytes that readers get are the bytes that writers wrote, in that    *)
(* order, none lost and none twice, whoever reads and writes and however   *)
(* the calls are cut short.                                                *)
Stream == INSTANCE ByteStream
              WITH Capacity <- BUF_CAPACITY - 1, queue <- Contents(buf)
ImplementsByteStream == Stream!Spec

(* ring_buf_read() is never called on an empty buffer, where it would hand *)
(* out BUF_CAPACITY stale bytes, nor ring_buf_write() on a full one, where *)
(* it would make the buffer empty.                                         *)
NoOverrun ==
    \A p \in Process :
        /\ pc[p] = "read_copy" => holder = p /\ ~ring_buf_is_empty(buf)
        /\ pc[p] = "write_copy" => holder = p /\ ~ring_buf_is_full(buf)

(* A read that returns 0 bytes for the end of the file leaves nothing      *)
(* behind: the buffer is empty and nobody is inside a write().             *)
EofLeavesNothing ==
    [][\A p \in Process :
          pc[p] = "read_empty" /\ pc'[p] = "idle" =>
              /\ ring_buf_is_empty(buf)
              /\ \A q \in Process : pc[q] \notin WritePCs]_vars

(* A pipe is one stream of bytes, and a read that returns 0 for the end of *)
(* the file leaves nothing behind (fifo.c:78, :116).                       *)
PipeIsAStream == ImplementsByteStream /\ EofLeavesNothing

Reading(p) == pc[p] \in ReadPCs
Writing(p) == pc[p] \in WritePCs

(* A reader does not sleep on after the last writer has closed, nor a      *)
(* writer after the last reader has.                                       *)
EndOfPipeWakes ==
    \A p \in Process :
        /\ (Reading(p) /\ num_writers = 0) ~> (~Reading(p) \/ num_writers > 0)
        /\ (Writing(p) /\ num_readers = 0) ~> (~Writing(p) \/ num_readers > 0)

(* A reader does not sleep on while there is data, nor a writer while      *)
(* there is room.                                                          *)
DataWakes ==
    \A p \in Process :
        /\ Reading(p) ~> (~Reading(p) \/ ring_buf_is_empty(buf))
        /\ Writing(p) ~> (~Writing(p) \/ ring_buf_is_full(buf))
=============================================================================
