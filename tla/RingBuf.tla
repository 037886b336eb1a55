------------------------------ MODULE RingBuf ------------------------------
(* The ring buffer of kernel/ring_buf.c as a value, byte by byte: the      *)
(* loops of ring_buf_read() and ring_buf_write() are loops of the callers' *)
(* steps.  One slot always stays unused, so that full differs from empty.  *)
EXTENDS Naturals, Sequences

CONSTANTS
    BUF_CAPACITY,
    Modulus        \* how many different bytes there are

ASSUME CapacityAssumption == BUF_CAPACITY \in Nat /\ BUF_CAPACITY >= 2
ASSUME ModulusAssumption == Modulus \in Nat /\ Modulus >= 1

Byte == 0 .. Modulus - 1

Index == 0 .. BUF_CAPACITY - 1
ring_buf == [inner_buf : [Index -> Byte], read_idx : Index, write_idx : Index]

SuccUnwrapped(i) == i + 1                                     \* fault
Succ(i) == (i + 1) % BUF_CAPACITY

(* ring_buf_init(): kmalloc() leaves whatever bytes in the buffer.         *)
ring_buf_init(b) == b \in ring_buf /\ b.read_idx = 0 /\ b.write_idx = 0

ring_buf_is_empty(b) == b.write_idx = b.read_idx

ring_buf_is_full(b) == Succ(b.write_idx) = b.read_idx

(* One iteration of ring_buf_read() and of ring_buf_write().               *)
FirstByte(b) == b.inner_buf[b.read_idx]
ReadByte(b) == [b EXCEPT !.read_idx = Succ(@)]

WriteByteAfter(b, x) ==                                       \* fault
    [b EXCEPT !.inner_buf[Succ(b.write_idx)] = x, !.write_idx = Succ(@)]
WriteByte(b, x) ==
    [b EXCEPT !.inner_buf[b.write_idx] = x, !.write_idx = Succ(@)]

(* The bytes that are in the buffer, oldest first.                         *)
Used(b) == (b.write_idx + BUF_CAPACITY - b.read_idx) % BUF_CAPACITY
Contents(b) ==
    [i \in 1 .. Used(b) |-> b.inner_buf[(b.read_idx + i - 1) % BUF_CAPACITY]]
=============================================================================
