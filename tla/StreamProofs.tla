---------------------------- MODULE StreamProofs ----------------------------
(***************************************************************************)
(* Proofs about streams of bytes.  The ring buffer is a queue and a pipe   *)
(* is one stream, for every capacity and every number of readers and       *)
(* writers; the queue of a socket's pending clients and the bytes of a     *)
(* connection, for every number of clients and servers, every backlog, and *)
(* a counter of any width.                                                 *)
(***************************************************************************)
EXTENDS Fifo, Sockets, SequenceTheorems, FiniteSetTheorems, TLAPS

-----------------------------------------------------------------------------
(* The ring buffer and the pipe.                                           *)

(* The indices go round: a sum of two of them is reduced by one            *)
(* subtraction at most.                                                    *)
LEMMA ModCases ==
    ASSUME NEW x \in 0 .. 2 * BUF_CAPACITY - 1
    PROVE  x % BUF_CAPACITY = IF x < BUF_CAPACITY THEN x ELSE x - BUF_CAPACITY
<1> DEFINE C == BUF_CAPACITY
           d == x \div C
           m == x % C
<1>1. C \in Nat /\ C >= 2
      BY CapacityAssumption
<1>2. d \in Int /\ m \in 0 .. C - 1 /\ x = C * d + m
      BY <1>1
<1> HIDE DEF C, d, m
<1>3. x \in 0 .. 2 * C - 1
      BY DEF C
<1>4. d >= 0
      <2> SUFFICES ASSUME d <= -1 PROVE FALSE
            BY <1>2
      <2>1. PICK k \in Nat : d = -1 - k
            BY <1>2, -1 - d \in Nat
      <2>2. C * d = -C - C * k /\ C * k \in Nat
            BY <1>1, <2>1
      <2>3. QED
            BY <1>1, <1>2, <1>3, <2>2
<1>5. d <= 1
      <2> SUFFICES ASSUME d >= 2 PROVE FALSE
            BY <1>2
      <2>1. PICK k \in Nat : d = 2 + k
            BY <1>2, d - 2 \in Nat
      <2>2. C * d = 2 * C + C * k /\ C * k \in Nat
            BY <1>1, <2>1
      <2>3. QED
            BY <1>1, <1>2, <1>3, <2>2
<1>6. d = 0 \/ d = 1
      BY <1>2, <1>4, <1>5
<1>7. m = IF x < C THEN x ELSE x - C
      BY <1>1, <1>2, <1>3, <1>6
<1>8. QED
      BY <1>7 DEF m, C

LEMMA SuccFacts ==
    ASSUME NEW i \in Index
    PROVE  /\ Succ(i) \in Index
           /\ Succ(i) = IF i + 1 = BUF_CAPACITY THEN 0 ELSE i + 1
<1>1. i + 1 \in 0 .. 2 * BUF_CAPACITY - 1
      BY CapacityAssumption DEF Index
<1>2. QED
      BY <1>1, ModCases, CapacityAssumption DEF Succ, Index

(* How many bytes there are, and where they are.                           *)
LEMMA ContentsFacts ==
    ASSUME NEW b \in ring_buf
    PROVE  LET r == b.read_idx
               w == b.write_idx
           IN  /\ Used(b) = IF w >= r THEN w - r ELSE w + BUF_CAPACITY - r
               /\ Used(b) \in 0 .. BUF_CAPACITY - 1
               /\ Contents(b) \in Seq(Byte) /\ Len(Contents(b)) = Used(b)
               /\ \A i \in 1 .. Used(b) :
                    Contents(b)[i] = b.inner_buf[IF r + i - 1 < BUF_CAPACITY THEN r + i - 1
                                                 ELSE r + i - 1 - BUF_CAPACITY]
<1> DEFINE r == b.read_idx
           w == b.write_idx
           C == BUF_CAPACITY
<1>1. C \in Nat /\ C >= 2 /\ r \in 0 .. C - 1 /\ w \in 0 .. C - 1 /\ b.inner_buf \in [0 .. C - 1 -> Byte]
      BY CapacityAssumption DEF ring_buf, Index
<1>2. Used(b) = (w + C - r) % C
      BY DEF Used
<1>3. w + C - r \in 0 .. 2 * C - 1
      BY <1>1
<1>4. Used(b) = IF w >= r THEN w - r ELSE w + C - r
      <2> DEFINE x == w + C - r
      <2>1. x \in 0 .. 2 * BUF_CAPACITY - 1 /\ Used(b) = x % BUF_CAPACITY
            BY <1>2, <1>3
      <2> HIDE DEF x
      <2>2. Used(b) = IF x < C THEN x ELSE x - C
            BY <2>1, ModCases
      <2> HIDE DEF r, w, C
      <2>3. QED
            BY <1>1, <2>2 DEF x
<1>5. Used(b) \in 0 .. C - 1
      <2> HIDE DEF r, w, C
      <2>1. QED
            BY <1>1, <1>4
<1>6. ASSUME NEW i \in 1 .. Used(b)
      PROVE  /\ (r + i - 1) % C = IF r + i - 1 < C THEN r + i - 1 ELSE r + i - 1 - C
             /\ (r + i - 1) % C \in 0 .. C - 1
      <2>1. r + i - 1 \in 0 .. 2 * C - 1
            <3> HIDE DEF r, w, C
            <3>1. QED
                  BY <1>1, <1>5
      <2> DEFINE x == r + i - 1
      <2>2. x \in 0 .. 2 * BUF_CAPACITY - 1
            BY <2>1
      <2> HIDE DEF x
      <2>3. x % BUF_CAPACITY = IF x < BUF_CAPACITY THEN x ELSE x - BUF_CAPACITY
            BY <2>2, ModCases
      <2>4. x % C \in 0 .. C - 1
            BY <2>2, <2>3, <1>1
      <2>5. QED
            BY <1>1, <1>5, <2>3, <2>4 DEF x
<1>7. Contents(b) = [i \in 1 .. Used(b) |-> b.inner_buf[(r + i - 1) % C]]
      BY DEF Contents
<1>8. \A i \in 1 .. Used(b) : b.inner_buf[(r + i - 1) % C] \in Byte
      BY <1>1, <1>6
<1>9. Contents(b) \in Seq(Byte) /\ Len(Contents(b)) = Used(b)
      BY <1>5, <1>7, <1>8
<1>10. QED
      BY <1>4, <1>5, <1>6, <1>7, <1>9
(* ring_buf_read() takes the oldest byte.                                  *)
LEMMA ReadByteFacts ==
    ASSUME NEW b \in ring_buf, ~ring_buf_is_empty(b)
    PROVE  /\ ReadByte(b) \in ring_buf
           /\ Contents(b) # << >>
           /\ FirstByte(b) = Head(Contents(b)) /\ FirstByte(b) \in Byte
           /\ Contents(ReadByte(b)) = Tail(Contents(b))
<1> DEFINE r == b.read_idx
           w == b.write_idx
           C == BUF_CAPACITY
           a == ReadByte(b)
<1>1. C \in Nat /\ C >= 2 /\ r \in 0 .. C - 1 /\ w \in 0 .. C - 1 /\ b.inner_buf \in [0 .. C - 1 -> Byte]
      BY CapacityAssumption DEF ring_buf, Index
<1>2. r # w
      BY DEF ring_buf_is_empty
<1>3. Succ(r) \in Index /\ Succ(r) = IF r + 1 = C THEN 0 ELSE r + 1
      BY <1>1, SuccFacts DEF Index
<1>4. a \in ring_buf /\ a.read_idx = Succ(r) /\ a.write_idx = w /\ a.inner_buf = b.inner_buf
      BY <1>3 DEF ReadByte, ring_buf
<1>5. /\ Used(b) = IF w >= r THEN w - r ELSE w + C - r
      /\ Used(b) \in 0 .. C - 1
      /\ Contents(b) \in Seq(Byte) /\ Len(Contents(b)) = Used(b)
      /\ \A i \in 1 .. Used(b) :
           Contents(b)[i] = b.inner_buf[IF r + i - 1 < C THEN r + i - 1 ELSE r + i - 1 - C]
      BY ContentsFacts
<1> DEFINE n == Succ(r)
<1>6. /\ Used(a) = IF w >= n THEN w - n ELSE w + C - n
      /\ Used(a) \in 0 .. C - 1
      /\ Contents(a) \in Seq(Byte) /\ Len(Contents(a)) = Used(a)
      /\ \A i \in 1 .. Used(a) :
           Contents(a)[i] = b.inner_buf[IF n + i - 1 < C THEN n + i - 1 ELSE n + i - 1 - C]
      BY <1>4, ContentsFacts
<1> HIDE DEF r, w, C, a, n
<1>7. n \in 0 .. C - 1 /\ n = IF r + 1 = C THEN 0 ELSE r + 1
      BY <1>3 DEF n, Index, C
<1>8. Used(b) >= 1 /\ Used(a) = Used(b) - 1
      BY <1>1, <1>2, <1>5, <1>6, <1>7
<1> DEFINE s == Contents(b)
           t == Contents(a)
<1>9. s # << >> /\ Head(s) = s[1] /\ Tail(s) \in Seq(Byte) /\ Len(Tail(s)) = Used(b) - 1
      /\ \A i \in 1 .. Used(b) - 1 : Tail(s)[i] = s[i + 1]
      BY <1>5, <1>8
<1>10. s[1] = b.inner_buf[r]
      BY <1>1, <1>5, <1>8
<1>11. \A i \in 1 .. Used(b) - 1 : t[i] = s[i + 1]
      <2> SUFFICES ASSUME NEW i \in 1 .. Used(b) - 1 PROVE t[i] = s[i + 1]
            OBVIOUS
      <2>1. t[i] = b.inner_buf[IF n + i - 1 < C THEN n + i - 1 ELSE n + i - 1 - C]
            BY <1>6, <1>8
      <2>2. i + 1 \in 1 .. Used(b)
            BY <1>5
      <2>3. s[i + 1] = b.inner_buf[IF r + (i + 1) - 1 < C THEN r + (i + 1) - 1
                                   ELSE r + (i + 1) - 1 - C]
            BY <1>5, <2>2
      <2>4. (IF n + i - 1 < C THEN n + i - 1 ELSE n + i - 1 - C)
              = IF r + (i + 1) - 1 < C THEN r + (i + 1) - 1 ELSE r + (i + 1) - 1 - C
            BY <1>1, <1>5, <1>7
      <2>5. QED
            BY <2>1, <2>3, <2>4
<1>12. t = Tail(s)
      <2> HIDE DEF s, t
      <2>1. t \in Seq(Byte) /\ Len(t) = Used(b) - 1
            BY <1>6, <1>8 DEF t
      <2>2. QED
            BY <1>9, <1>11, <2>1, SeqEqual
<1>13. FirstByte(b) = b.inner_buf[r]
      BY DEF FirstByte, r
<1>14. QED
      BY <1>1, <1>4, <1>9, <1>10, <1>12, <1>13 DEF a

(* ring_buf_write() appends one, and loses none while there is room.       *)
LEMMA WriteByteFacts ==
    ASSUME NEW b \in ring_buf, ~ring_buf_is_full(b), NEW x \in Byte
    PROVE  /\ WriteByte(b, x) \in ring_buf
           /\ Len(Contents(b)) < BUF_CAPACITY - 1
           /\ Contents(WriteByte(b, x)) = Append(Contents(b), x)
<1> DEFINE r == b.read_idx
           w == b.write_idx
           C == BUF_CAPACITY
           a == WriteByte(b, x)
           n == Succ(w)
<1>1. C \in Nat /\ C >= 2 /\ r \in 0 .. C - 1 /\ w \in 0 .. C - 1 /\ b.inner_buf \in [0 .. C - 1 -> Byte]
      BY CapacityAssumption DEF ring_buf, Index
<1>2. n # r
      BY DEF ring_buf_is_full
<1>3. n \in Index /\ n = IF w + 1 = C THEN 0 ELSE w + 1
      BY <1>1, SuccFacts DEF Index
<1>4. /\ a \in ring_buf /\ a.read_idx = r /\ a.write_idx = n
      /\ a.inner_buf = [b.inner_buf EXCEPT ![w] = x]
      BY <1>1, <1>3 DEF WriteByte, ring_buf, Index
<1>5. /\ Used(b) = IF w >= r THEN w - r ELSE w + C - r
      /\ Used(b) \in 0 .. C - 1
      /\ Contents(b) \in Seq(Byte) /\ Len(Contents(b)) = Used(b)
      /\ \A i \in 1 .. Used(b) :
           Contents(b)[i] = b.inner_buf[IF r + i - 1 < C THEN r + i - 1 ELSE r + i - 1 - C]
      BY ContentsFacts
<1>6. /\ Used(a) = IF n >= r THEN n - r ELSE n + C - r
      /\ Used(a) \in 0 .. C - 1
      /\ Contents(a) \in Seq(Byte) /\ Len(Contents(a)) = Used(a)
      /\ \A i \in 1 .. Used(a) :
           Contents(a)[i] = a.inner_buf[IF r + i - 1 < C THEN r + i - 1 ELSE r + i - 1 - C]
      BY <1>4, ContentsFacts
<1>7. n \in 0 .. C - 1
      BY <1>3 DEF Index
<1> HIDE DEF r, w, C, a, n
<1>8. Used(a) = Used(b) + 1 /\ Used(b) < C - 1
      BY <1>1, <1>2, <1>3, <1>5, <1>6, <1>7
<1> DEFINE s == Contents(b)
           t == Contents(a)
<1>9. /\ Append(s, x) \in Seq(Byte) /\ Len(Append(s, x)) = Used(b) + 1
      /\ \A i \in 1 .. Used(b) : Append(s, x)[i] = s[i]
      /\ Append(s, x)[Used(b) + 1] = x
      BY <1>5
<1>10. \A i \in 1 .. Used(b) + 1 : t[i] = Append(s, x)[i]
      <2> SUFFICES ASSUME NEW i \in 1 .. Used(b) + 1 PROVE t[i] = Append(s, x)[i]
            OBVIOUS
      <2> DEFINE k == IF r + i - 1 < C THEN r + i - 1 ELSE r + i - 1 - C
      <2>1. t[i] = a.inner_buf[k] /\ (i \in 1 .. Used(b) => s[i] = b.inner_buf[k])
            BY <1>5, <1>6, <1>8
      <2>2. k \in 0 .. C - 1 /\ (i \in 1 .. Used(b) => k # w) /\ (i = Used(b) + 1 => k = w)
            <3> DEFINE u == Used(b)
            <3>1. /\ u = IF w >= r THEN w - r ELSE w + C - r
                  /\ u \in 0 .. C - 1 /\ u < C - 1 /\ i \in 1 .. u + 1
                  BY <1>5, <1>8
            <3> HIDE DEF u
            <3>2. k \in 0 .. C - 1
                  BY <1>1, <3>1
            <3>3. i \in 1 .. u => k # w
                  BY <1>1, <3>1
            <3>4. i = u + 1 => k = w
                  BY <1>1, <3>1
            <3>5. QED
                  BY <3>2, <3>3, <3>4 DEF u
      <2> HIDE DEF k
      <2>3. CASE i \in 1 .. Used(b)
            BY <1>1, <1>4, <1>9, <2>1, <2>2, <2>3
      <2>4. CASE i = Used(b) + 1
            BY <1>1, <1>4, <1>9, <2>1, <2>2, <2>4
      <2>5. QED
            BY <1>5, <2>3, <2>4
<1>11. t = Append(s, x)
      <2> HIDE DEF s, t
      <2>1. t \in Seq(Byte) /\ Len(t) = Used(b) + 1
            BY <1>6, <1>8 DEF t
      <2>2. QED
            BY <1>9, <1>10, <2>1, SeqEqual
<1>12. QED
      BY <1>4, <1>5, <1>8, <1>11 DEF a, C

-----------------------------------------------------------------------------
Writers == {p \in Process : access[p] = "O_WRONLY"}
Readers == {p \in Process : access[p] = "O_RDONLY"}
LockedPCs == {"read_copy", "read_empty", "write_copy", "unlock"}

(* Who is between mutex_lock() and mutex_unlock() holds the lock, and what *)
(* the buffer was found to be under the lock it still is.                  *)
LockProtects ==
    \A p \in Process :
        /\ pc[p] \in LockedPCs <=> holder = p
        /\ pc[p] = "read_copy" => ~ring_buf_is_empty(buf)
        /\ pc[p] = "read_empty" => ring_buf_is_empty(buf)
        /\ pc[p] = "write_copy" => ~ring_buf_is_full(buf)

(* A call is made on a description with the access mode it needs, and the  *)
(* counts are those of the open descriptions.                              *)
EndsAreCounted ==
    /\ \A p \in Process : /\ pc[p] \in ReadPCs => access[p] = "O_RDONLY"
                          /\ pc[p] \in WritePCs => access[p] = "O_WRONLY"
                          /\ pc[p] = "unlock" => access[p] # "closed"
    /\ num_writers = Cardinality(Writers)
    /\ num_readers = Cardinality(Readers)

FifoInv == TypeOK /\ LockProtects /\ EndsAreCounted

LEMMA EndsAreFinite ==
    /\ IsFiniteSet(Writers) /\ Cardinality(Writers) \in Nat
    /\ IsFiniteSet(Readers) /\ Cardinality(Readers) \in Nat
<1>1. Writers \in SUBSET Process /\ Readers \in SUBSET Process
      BY DEF Writers, Readers
<1>2. IsFiniteSet(Writers) /\ IsFiniteSet(Readers)
      BY <1>1, FS_Subset, ProcessAssumption
<1>3. QED
      BY <1>2, FS_CardinalityType

LEMMA OpenKeeps ==
    ASSUME FifoInv, NEW p \in Process, NEW flags \in {"O_RDONLY", "O_WRONLY"}, fifo_open(p, flags)
    PROVE  FifoInv'
<1>1. /\ access' = [access EXCEPT ![p] = flags] /\ access[p] = "closed"
      /\ UNCHANGED <<buf, holder, pc, count, sent, received>>
      BY DEF fifo_open
<1>2. /\ flags = "O_WRONLY" => Writers' = Writers \cup {p} /\ Readers' = Readers
      /\ flags = "O_RDONLY" => Readers' = Readers \cup {p} /\ Writers' = Writers
      /\ p \notin Writers /\ p \notin Readers
      BY <1>1 DEF Writers, Readers, FifoInv, TypeOK
<1>3. num_writers' = Cardinality(Writers') /\ num_readers' = Cardinality(Readers')
      <2>1. CASE flags = "O_WRONLY"
            BY <1>2, <2>1, EndsAreFinite, FS_AddElement DEF fifo_open, FifoInv, EndsAreCounted
      <2>2. CASE flags = "O_RDONLY"
            BY <1>2, <2>2, EndsAreFinite, FS_AddElement DEF fifo_open, FifoInv, EndsAreCounted
      <2>3. QED
            BY <2>1, <2>2
<1>4. num_writers' \in Nat /\ num_readers' \in Nat
      BY DEF fifo_open, FifoInv, TypeOK
<1>5. TypeOK'
      BY <1>1, <1>4 DEF FifoInv, TypeOK
<1>6. LockProtects'
      BY <1>1 DEF FifoInv, LockProtects
<1>7. EndsAreCounted'
      BY <1>1, <1>3 DEF FifoInv, EndsAreCounted, TypeOK, Writers, Readers, ReadPCs, WritePCs
<1>8. QED
      BY <1>5, <1>6, <1>7 DEF FifoInv

LEMMA CloseKeeps ==
    ASSUME FifoInv, NEW p \in Process, fifo_close(p)
    PROVE  FifoInv'
<1>1. /\ access' = [access EXCEPT ![p] = "closed"] /\ access[p] # "closed" /\ pc[p] = "idle"
      /\ UNCHANGED <<buf, holder, pc, count, sent, received>>
      BY DEF fifo_close
<1>2. /\ Writers' = Writers \ {p} /\ Readers' = Readers \ {p}
      /\ p \in Writers <=> access[p] = "O_WRONLY"
      /\ p \in Readers <=> access[p] = "O_RDONLY"
      BY <1>1 DEF Writers, Readers, FifoInv, TypeOK
<1>3. /\ Cardinality(Writers') = IF p \in Writers THEN Cardinality(Writers) - 1 ELSE Cardinality(Writers)
      /\ Cardinality(Readers') = IF p \in Readers THEN Cardinality(Readers) - 1 ELSE Cardinality(Readers)
      BY <1>2, EndsAreFinite, FS_RemoveElement
<1>4. num_writers' = Cardinality(Writers') /\ num_readers' = Cardinality(Readers')
      BY <1>2, <1>3 DEF fifo_close, FifoInv, EndsAreCounted
<1>5. Cardinality(Writers') \in Nat /\ Cardinality(Readers') \in Nat
      <2>1. IsFiniteSet(Writers') /\ IsFiniteSet(Readers')
            BY <1>2, EndsAreFinite, FS_RemoveElement
      <2>2. QED
            BY <2>1, FS_CardinalityType
<1>6. TypeOK'
      BY <1>1, <1>4, <1>5 DEF FifoInv, TypeOK
<1>7. LockProtects'
      BY <1>1 DEF FifoInv, LockProtects
<1>8. EndsAreCounted'
      BY <1>1, <1>4 DEF FifoInv, EndsAreCounted, TypeOK, Writers, Readers, ReadPCs, WritePCs
<1>9. QED
      BY <1>6, <1>7, <1>8 DEF FifoInv

(* The steps that change neither the descriptions nor the buffer.          *)
LEMMA QuietKeeps ==
    ASSUME FifoInv, NEW p \in Process, NEW l, Goto(p, l),
           l \in {"idle", "unlock"} \cup ReadPCs \cup WritePCs,
           UNCHANGED <<buf, num_readers, num_writers, access, sent, received>>,
           count' \in [Process -> Nat], holder' \in Process \cup {NULL},
           l \in ReadPCs => access[p] = "O_RDONLY",
           l \in WritePCs => access[p] = "O_WRONLY",
           l = "unlock" => access[p] # "closed",
           l \in LockedPCs <=> holder' = p,
           holder = p \/ holder = NULL \/ holder' = holder,
           holder' \in {p, NULL, holder},
           l = "read_copy" => ~ring_buf_is_empty(buf),
           l = "read_empty" => ring_buf_is_empty(buf),
           l = "write_copy" => ~ring_buf_is_full(buf)
    PROVE  FifoInv'
<1>1. pc' = [pc EXCEPT ![p] = l] /\ pc \in [Process -> {"idle", "unlock"} \cup ReadPCs \cup WritePCs]
      BY DEF Goto, FifoInv, TypeOK
<1>2. pc'[p] = l /\ \A q \in Process \ {p} : pc'[q] = pc[q]
      BY <1>1
<1>3. TypeOK'
      BY <1>1 DEF FifoInv, TypeOK
<1>4. LockProtects'
      <2> SUFFICES ASSUME NEW q \in Process
                   PROVE  /\ pc'[q] \in LockedPCs <=> holder' = q
                          /\ pc'[q] = "read_copy" => ~ring_buf_is_empty(buf)
                          /\ pc'[q] = "read_empty" => ring_buf_is_empty(buf)
                          /\ pc'[q] = "write_copy" => ~ring_buf_is_full(buf)
            BY DEF LockProtects
      <2>1. CASE q = p
            BY <1>2, <2>1
      <2>2. CASE q # p
            <3>1. holder' = q <=> holder = q
                  BY <2>2, ProcessAssumption
            <3>2. QED
                  BY <1>2, <2>2, <3>1 DEF FifoInv, LockProtects
      <2>3. QED
            BY <2>1, <2>2
<1>5. EndsAreCounted'
      BY <1>2 DEF FifoInv, EndsAreCounted, Writers, Readers
<1>6. QED
      BY <1>3, <1>4, <1>5 DEF FifoInv

(* Only the holder of the lock changes the buffer, and it goes on only     *)
(* while there is something to copy or room for it.                        *)
LEMMA BufferKeeps ==
    ASSUME FifoInv, NEW p \in Process, NEW l, Goto(p, l), holder = p,
           l \in {"unlock", "read_copy", "write_copy"},
           UNCHANGED <<holder, num_readers, num_writers, access>>,
           buf' \in ring_buf, sent' \in Byte, received' \in Byte, count' \in [Process -> Nat],
           access[p] # "closed",
           l = "read_copy" => access[p] = "O_RDONLY" /\ ~ring_buf_is_empty(buf'),
           l = "write_copy" => access[p] = "O_WRONLY" /\ ~ring_buf_is_full(buf')
    PROVE  FifoInv'
<1>1. pc' = [pc EXCEPT ![p] = l] /\ pc \in [Process -> {"idle", "unlock"} \cup ReadPCs \cup WritePCs]
      BY DEF Goto, FifoInv, TypeOK
<1>2. pc'[p] = l /\ \A q \in Process \ {p} : pc'[q] = pc[q]
      BY <1>1
<1>3. TypeOK'
      BY <1>1 DEF FifoInv, TypeOK, ReadPCs, WritePCs
<1>4. \A q \in Process \ {p} : pc[q] \notin LockedPCs
      BY DEF FifoInv, LockProtects
<1>5. LockProtects'
      BY <1>2, <1>4 DEF LockProtects, LockedPCs
<1>6. EndsAreCounted'
      BY <1>2 DEF FifoInv, EndsAreCounted, Writers, Readers, ReadPCs, WritePCs
<1>7. QED
      BY <1>3, <1>5, <1>6 DEF FifoInv

LEMMA ReadCopyKeeps ==
    ASSUME FifoInv, NEW p \in Process, ReadCopy(p)
    PROVE  FifoInv'
<1>1. /\ pc[p] = "read_copy" /\ holder = p /\ ~ring_buf_is_empty(buf) /\ access[p] = "O_RDONLY"
      /\ buf \in ring_buf /\ count \in [Process -> Nat] /\ sent \in Byte /\ received \in Byte
      BY DEF ReadCopy, FifoInv, LockProtects, LockedPCs, EndsAreCounted, ReadPCs, TypeOK
<1>2. UNCHANGED <<holder, num_readers, num_writers, access, sent>>
      BY DEF ReadCopy
<1>3. CASE count[p] = 0
      BY <1>1, <1>2, <1>3, BufferKeeps DEF ReadCopy
<1>4. CASE count[p] # 0
      <2>1. /\ received' = FirstByte(buf) /\ buf' = ReadByte(buf)
            /\ count' = [count EXCEPT ![p] = count[p] - 1]
            /\ Goto(p, IF ring_buf_is_empty(buf') THEN "unlock" ELSE "read_copy")
            BY <1>4 DEF ReadCopy
      <2>2. buf' \in ring_buf /\ received' \in Byte
            BY <1>1, <2>1, ReadByteFacts
      <2>3. count' \in [Process -> Nat]
            BY <1>1, <1>4, <2>1
      <2>4. PICK l \in {"unlock", "read_copy"} : /\ Goto(p, l)
                                                 /\ l = "read_copy" => ~ring_buf_is_empty(buf')
            BY <2>1
      <2>5. QED
            BY <1>1, <1>2, <2>2, <2>3, <2>4, BufferKeeps
<1>5. QED
      BY <1>3, <1>4

LEMMA WriteCopyKeeps ==
    ASSUME FifoInv, NEW p \in Process, WriteCopy(p)
    PROVE  FifoInv'
<1>1. /\ pc[p] = "write_copy" /\ holder = p /\ ~ring_buf_is_full(buf) /\ access[p] = "O_WRONLY"
      /\ buf \in ring_buf /\ count \in [Process -> Nat] /\ sent \in Byte /\ received \in Byte
      BY DEF WriteCopy, FifoInv, LockProtects, LockedPCs, EndsAreCounted, WritePCs, TypeOK
<1>2. UNCHANGED <<holder, num_readers, num_writers, access, received>>
      BY DEF WriteCopy
<1>3. CASE count[p] = 0
      BY <1>1, <1>2, <1>3, BufferKeeps DEF WriteCopy
<1>4. CASE count[p] # 0
      <2>1. /\ buf' = WriteByte(buf, sent) /\ sent' = (sent + 1) % Modulus
            /\ count' = [count EXCEPT ![p] = count[p] - 1]
            /\ Goto(p, IF ring_buf_is_full(buf') THEN "unlock" ELSE "write_copy")
            BY <1>4 DEF WriteCopy
      <2>2. buf' \in ring_buf
            BY <1>1, <2>1, WriteByteFacts
      <2>3. sent' \in Byte
            BY <1>1, <2>1, ModulusAssumption DEF Byte
      <2>4. count' \in [Process -> Nat]
            BY <1>1, <1>4, <2>1
      <2>5. PICK l \in {"unlock", "write_copy"} : /\ Goto(p, l)
                                                  /\ l = "write_copy" => ~ring_buf_is_full(buf')
            BY <2>1
      <2>6. QED
            BY <1>1, <1>2, <2>2, <2>3, <2>4, <2>5, BufferKeeps
<1>5. QED
      BY <1>3, <1>4

LEMMA FifoInvariant == Spec => []FifoInv
<1>1. Init => FifoInv
      <2> SUFFICES ASSUME Init PROVE FifoInv
            OBVIOUS
      <2>1. TypeOK
            BY ModulusAssumption DEF Init, TypeOK, ring_buf_init, Byte
      <2>2. LockProtects
            BY ProcessAssumption DEF Init, LockProtects, LockedPCs
      <2>3. Writers = {} /\ Readers = {}
            BY DEF Init, Writers, Readers
      <2>4. EndsAreCounted
            BY <2>3, FS_EmptySet DEF Init, EndsAreCounted, ReadPCs, WritePCs
      <2>5. QED
            BY <2>1, <2>2, <2>4 DEF FifoInv
<1>2. FifoInv /\ [Next]_vars => FifoInv'
      <2> SUFFICES ASSUME FifoInv, [Next]_vars PROVE FifoInv'
            OBVIOUS
      <2>1. CASE UNCHANGED vars
            BY <2>1 DEF vars, FifoInv, TypeOK, LockProtects, EndsAreCounted, Writers, Readers
      <2>2. \A p \in Process : /\ pc[p] \in LockedPCs <=> holder = p
                               /\ pc[p] \in ReadPCs => access[p] = "O_RDONLY"
                               /\ pc[p] \in WritePCs => access[p] = "O_WRONLY"
                               /\ pc[p] = "unlock" => access[p] # "closed"
            BY DEF FifoInv, LockProtects, EndsAreCounted
      <2>3. holder \in Process \cup {NULL} /\ count \in [Process -> Nat]
            BY DEF FifoInv, TypeOK
      <2>4. ASSUME NEW p \in Process, file_description_block(p) \/ Unblocked(p) \/ Interrupted(p)
            PROVE  FifoInv'
            <3>1. /\ UNCHANGED <<buf, holder, num_readers, num_writers, access, count, sent, received>>
                  /\ pc[p] \notin LockedPCs
                  BY <2>4 DEF file_description_block, Unblocked, Interrupted, LockedPCs
            <3>2. PICK l \in {"read_lock", "write_lock", "read_sleep", "write_sleep", "idle"} :
                      /\ Goto(p, l)
                      /\ l \in ReadPCs => access[p] = "O_RDONLY"
                      /\ l \in WritePCs => access[p] = "O_WRONLY"
                  BY <2>2, <2>4
                  DEF file_description_block, Unblocked, Interrupted, ReadPCs, WritePCs
            <3>3. QED
                  BY <2>2, <2>3, <3>1, <3>2, QuietKeeps DEF ReadPCs, WritePCs, LockedPCs
      <2>5. ASSUME NEW p \in Process, ReadLock(p) PROVE FifoInv'
            <3>1. PICK l \in {"read_empty", "read_copy"} :
                      /\ Goto(p, l)
                      /\ l = "read_empty" => ring_buf_is_empty(buf)
                      /\ l = "read_copy" => ~ring_buf_is_empty(buf)
                  BY <2>5 DEF ReadLock, ReadFindsNothing
            <3>2. access[p] = "O_RDONLY"
                  BY <2>2, <2>5 DEF ReadLock, ReadPCs
            <3>3. QED
                  BY <2>3, <2>5, <3>1, <3>2, QuietKeeps DEF ReadLock, ReadPCs, WritePCs, LockedPCs
      <2>6. ASSUME NEW p \in Process, WriteLock(p) PROVE FifoInv'
            <3>1. PICK l \in {"idle", "write_block", "write_copy"} :
                      /\ Goto(p, l)
                      /\ l = "write_copy" => ~ring_buf_is_full(buf) /\ holder' = p
                      /\ l # "write_copy" => holder' = NULL
                  BY <2>6 DEF WriteLock
            <3>2. access[p] = "O_WRONLY" /\ p # NULL
                  BY <2>2, <2>6, ProcessAssumption DEF WriteLock, WritePCs
            <3>3. QED
                  BY <2>3, <2>6, <3>1, <3>2, QuietKeeps DEF WriteLock, ReadPCs, WritePCs, LockedPCs
      <2>7. ASSUME NEW p \in Process, ReadEmpty(p) \/ Unlock(p) PROVE FifoInv'
            <3>1. /\ holder = p /\ holder' = NULL /\ p # NULL
                  /\ UNCHANGED <<buf, num_readers, num_writers, access, sent, received>>
                  BY <2>2, <2>7, ProcessAssumption DEF ReadEmpty, Unlock, LockedPCs
            <3>2. count' \in [Process -> Nat]
                  BY <2>3, <2>7 DEF ReadEmpty, Unlock
            <3>3. PICK l \in {"idle", "read_block"} :
                      Goto(p, l) /\ (l = "read_block" => access[p] = "O_RDONLY")
                  BY <2>2, <2>7 DEF ReadEmpty, Unlock, ReadPCs
            <3>4. QED
                  BY <3>1, <3>2, <3>3, QuietKeeps DEF ReadPCs, WritePCs, LockedPCs
      <2>8. ASSUME NEW p \in Process, NEW n \in Counts, fifo_read(p, n) \/ fifo_write(p, n)
            PROVE  FifoInv'
            <3>1. /\ holder # p /\ holder' = holder
                  /\ UNCHANGED <<buf, num_readers, num_writers, access, sent, received>>
                  BY <2>2, <2>8 DEF fifo_read, fifo_write, LockedPCs
            <3>2. count' \in [Process -> Nat]
                  BY <2>3, <2>8, CountsAssumption DEF fifo_read, fifo_write
            <3>3. PICK l \in {"read_block", "write_block"} :
                      /\ Goto(p, l)
                      /\ l = "read_block" => access[p] = "O_RDONLY"
                      /\ l = "write_block" => access[p] = "O_WRONLY"
                  BY <2>8 DEF fifo_read, fifo_write
            <3>4. QED
                  BY <2>3, <3>1, <3>2, <3>3, QuietKeeps DEF ReadPCs, WritePCs, LockedPCs
      <2>9. QED
            BY <2>1, <2>4, <2>5, <2>6, <2>7, <2>8, OpenKeeps, CloseKeeps, ReadCopyKeeps,
               WriteCopyKeeps DEF Next, Step, Call
<1>3. QED
      BY <1>1, <1>2, PTL DEF Spec

-----------------------------------------------------------------------------
(* ring_buf_read() is never called on an empty buffer nor ring_buf_write() *)
(* on a full one, and nobody copies without the lock (fifo.c:84, :125,     *)
(* ring_buf.c:58, :75).                                                    *)
THEOREM PipeNeverOverruns == Spec => [](TypeOK /\ NoOverrun)
<1>1. FifoInv => TypeOK /\ NoOverrun
      BY DEF FifoInv, LockProtects, LockedPCs, NoOverrun
<1>2. QED
      BY <1>1, FifoInvariant, PTL

(* Every step on the ring buffer is a Put or a Get of the abstract stream, *)
(* and every other step leaves it alone.                                   *)
LEMMA StreamStep ==
    ASSUME FifoInv, [Next]_vars
    PROVE  [Stream!Put \/ Stream!Get]_<<Contents(buf), sent, received>>
<1>1. CASE UNCHANGED <<buf, sent, received>>
      BY <1>1
<1>2. ASSUME NEW p \in Process, ReadCopy(p), count[p] # 0 PROVE Stream!Get
      <2>1. buf \in ring_buf /\ ~ring_buf_is_empty(buf)
            BY <1>2 DEF FifoInv, TypeOK, LockProtects, ReadCopy
      <2>2. received' = FirstByte(buf) /\ buf' = ReadByte(buf) /\ sent' = sent
            BY <1>2 DEF ReadCopy
      <2>3. /\ Contents(buf) # << >> /\ received' = Head(Contents(buf))
            /\ Contents(buf') = Tail(Contents(buf))
            BY <2>1, <2>2, ReadByteFacts
      <2>4. QED
            BY <2>2, <2>3 DEF Stream!Get, Contents, Used
<1>3. ASSUME NEW p \in Process, WriteCopy(p), count[p] # 0 PROVE Stream!Put
      <2>1. buf \in ring_buf /\ ~ring_buf_is_full(buf) /\ sent \in Byte
            BY <1>3 DEF FifoInv, TypeOK, LockProtects, WriteCopy
      <2>2. buf' = WriteByte(buf, sent) /\ sent' = (sent + 1) % Modulus /\ received' = received
            BY <1>3 DEF WriteCopy
      <2>3. /\ Len(Contents(buf)) < BUF_CAPACITY - 1
            /\ Contents(buf') = Append(Contents(buf), sent)
            BY <2>1, <2>2, WriteByteFacts
      <2>4. QED
            BY <2>2, <2>3 DEF Stream!Put, Contents, Used
<1>4. CASE \/ UNCHANGED <<buf, sent, received>>
           \/ \E p \in Process : (ReadCopy(p) \/ WriteCopy(p)) /\ count[p] # 0
      BY <1>1, <1>2, <1>3, <1>4
<1>5. QED
      BY <1>4 DEF Next, vars, Step, Call, fifo_open, fifo_close, fifo_read, fifo_write,
         file_description_block, Unblocked, Interrupted, ReadLock, ReadCopy, ReadEmpty,
         WriteLock, WriteCopy, Unlock

(* The end of the file is reported only when the last writer is gone and   *)
(* nothing is left.                                                        *)
LEMMA EofStep ==
    ASSUME FifoInv, [Next]_vars, NEW p \in Process, pc[p] = "read_empty", pc'[p] = "idle"
    PROVE  ring_buf_is_empty(buf) /\ \A q \in Process : pc[q] \notin WritePCs
<1>1. ring_buf_is_empty(buf) /\ holder = p
      BY DEF FifoInv, LockProtects, LockedPCs
<1>2. \A q \in Process \ {p} : pc'[q] # pc[q] => pc'[p] = pc[p]
      BY DEF Next, vars, Step, Call, fifo_open, fifo_close, fifo_read, fifo_write,
         file_description_block, Unblocked, Interrupted, ReadLock, ReadCopy, ReadEmpty,
         WriteLock, WriteCopy, Unlock, Goto, FifoInv, TypeOK
<1>3. num_writers = 0
      BY DEF Next, vars, Step, Call, fifo_open, fifo_close, fifo_read, fifo_write,
         file_description_block, Unblocked, Interrupted, ReadLock, ReadCopy, ReadEmpty,
         WriteLock, WriteCopy, Unlock, Goto, AtEof, FifoInv, TypeOK
<1>4. Writers = {}
      BY <1>3, EndsAreFinite, FS_EmptySet DEF FifoInv, EndsAreCounted
<1>5. QED
      BY <1>1, <1>4 DEF Writers, FifoInv, EndsAreCounted

(* A pipe is one stream of bytes, whoever reads and writes and however the *)
(* calls are cut short, and a read that returns 0 for the end of the file  *)
(* leaves nothing behind (fifo.c:78, :116).                                *)
THEOREM PipeImplementsStream == Spec => PipeIsAStream
<1>1. Init => Stream!Init
      <2> SUFFICES ASSUME Init PROVE Stream!Init
            OBVIOUS
      <2>1. buf \in ring_buf /\ buf.read_idx = 0 /\ buf.write_idx = 0
            BY DEF Init, ring_buf_init
      <2>2. Used(buf) = 0 /\ Contents(buf) \in Seq(Byte) /\ Len(Contents(buf)) = Used(buf)
            BY <2>1, ContentsFacts, CapacityAssumption
      <2>3. Contents(buf) = << >>
            BY <2>2
      <2>4. QED
            BY <2>3 DEF Init, Stream!Init
<1>2. FifoInv /\ [Next]_vars => [Stream!Put \/ Stream!Get]_<<Contents(buf), sent, received>>
      BY StreamStep
<1>3. FifoInv /\ [Next]_vars =>
        [\A p \in Process :
           pc[p] = "read_empty" /\ pc'[p] = "idle" =>
              /\ ring_buf_is_empty(buf)
              /\ \A q \in Process : pc[q] \notin WritePCs]_vars
      BY EofStep
<1>4. QED
      BY <1>1, <1>2, <1>3, FifoInvariant, PTL
      DEF Spec, PipeIsAStream, ImplementsByteStream, Stream!Spec, EofLeavesNothing


-----------------------------------------------------------------------------
(* The sockets.                                                            *)

InSeq(x, s) == \E k \in 1 .. Len(s) : s[k] = x
Once(s) == \A i, j \in 1 .. Len(s) : s[i] = s[j] => i = j

Uncounted == {s \in Server : sState[s] = "uncount"}
Uncounting == {c \in Client : cState[c] = "count"}
Holds(s) == sState[s] \in {"uncount", "accept"}

QueueTypeOK ==
    /\ numPending \in 0 .. SockWord - 1
    /\ pending \in Seq(Client)
    /\ peer \in [Server -> Client \cup {Nobody}]
    /\ cState \in [Client -> {"idle", "refused", "enqueue", "count", "wait", "talk", "dead"}]
    /\ sState \in [Server -> {"idle", "deque", "uncount", "accept", "talk"}]
    /\ connected \in [Client -> BOOLEAN]

(* A client is in the queue once or in the hands of one server, from its   *)
(* enqueue_pending() until it is connected.                                *)
QueueIsExact ==
    /\ Once(pending)
    /\ \A s \in Server : Holds(s) => peer[s] \in Client /\ ~InSeq(peer[s], pending)
    /\ \A s, t \in Server : Holds(s) /\ Holds(t) /\ peer[s] = peer[t] => s = t
    /\ \A c \in Client : InSeq(c, pending) \/ (\E s \in Server : Holds(s) /\ peer[s] = c)
         <=> cState[c] \notin {"idle", "refused", "enqueue"} /\ connected[c] = FALSE
    /\ \A c \in Client : connected[c] = TRUE => cState[c] \notin {"idle", "refused", "enqueue"}

QueueInv == QueueTypeOK /\ QueueIsExact /\ PendingIsCounted

-----------------------------------------------------------------------------
LEMMA AppendFacts ==
    ASSUME NEW C, NEW q \in Seq(C), NEW c \in C, ~InSeq(c, q), Once(q)
    PROVE  /\ Append(q, c) \in Seq(C) /\ Len(Append(q, c)) = Len(q) + 1 /\ Len(q) \in Nat
           /\ Once(Append(q, c))
           /\ \A x : InSeq(x, Append(q, c)) <=> InSeq(x, q) \/ x = c
<1>1. Append(q, c) \in Seq(C) /\ Len(Append(q, c)) = Len(q) + 1 /\ Len(q) \in Nat
      OBVIOUS
<1>2. /\ \A k \in 1 .. Len(q) : Append(q, c)[k] = q[k]
      /\ Append(q, c)[Len(q) + 1] = c
      OBVIOUS
<1>3. Once(Append(q, c))
      BY <1>1, <1>2 DEF Once, InSeq
<1>4. ASSUME NEW x PROVE InSeq(x, Append(q, c)) <=> InSeq(x, q) \/ x = c
      BY <1>1, <1>2 DEF InSeq
<1>5. QED
      BY <1>1, <1>3, <1>4

LEMMA TailFacts ==
    ASSUME NEW C, NEW q \in Seq(C), q # << >>, Once(q)
    PROVE  /\ Tail(q) \in Seq(C) /\ Len(Tail(q)) = Len(q) - 1 /\ Len(q) \in Nat \ {0}
           /\ Head(q) \in C /\ InSeq(Head(q), q)
           /\ Once(Tail(q))
           /\ \A x : InSeq(x, Tail(q)) <=> InSeq(x, q) /\ x # Head(q)
<1>1. /\ Tail(q) \in Seq(C) /\ Len(Tail(q)) = Len(q) - 1 /\ Len(q) \in Nat \ {0}
      /\ Head(q) = q[1] /\ Head(q) \in C
      OBVIOUS
<1>2. \A k \in 1 .. Len(q) - 1 : Tail(q)[k] = q[k + 1]
      OBVIOUS
<1>3. Once(Tail(q))
      BY <1>1, <1>2 DEF Once
<1>4. InSeq(Head(q), q)
      BY <1>1 DEF InSeq
<1>5. ASSUME NEW x, InSeq(x, Tail(q)) PROVE InSeq(x, q) /\ x # Head(q)
      <2>1. PICK k \in 1 .. Len(q) - 1 : q[k + 1] = x
            BY <1>1, <1>2, <1>5 DEF InSeq
      <2>2. k + 1 \in 1 .. Len(q) /\ k + 1 # 1 /\ 1 \in 1 .. Len(q)
            BY <1>1
      <2>3. QED
            BY <1>1, <2>1, <2>2 DEF InSeq, Once
<1>6. ASSUME NEW x, InSeq(x, q), x # Head(q) PROVE InSeq(x, Tail(q))
      <2>1. PICK k \in 1 .. Len(q) : q[k] = x
            BY <1>6 DEF InSeq
      <2>2. k # 1 /\ k - 1 \in 1 .. Len(q) - 1
            BY <1>1, <1>6, <2>1
      <2>3. Tail(q)[k - 1] = x
            BY <1>2, <2>1, <2>2
      <2>4. QED
            BY <1>1, <2>2, <2>3 DEF InSeq
<1>7. QED
      BY <1>1, <1>3, <1>4, <1>5, <1>6

(* Counting modulo the word: the remainder of a sum can be taken early.    *)
LEMMA ModUnique ==
    ASSUME NEW w \in Nat \ {0}, NEW a \in Int, NEW q \in Int, NEW r \in 0 .. w - 1,
           a = w * q + r
    PROVE  a % w = r
<1> DEFINE p == a \div w
           m == a % w
<1>1. p \in Int /\ m \in 0 .. w - 1 /\ a = w * p + m
      OBVIOUS
<1> HIDE DEF p, m
<1>2. \A i, j \in Int : i > j => w * i >= w * j + w
      <2> SUFFICES ASSUME NEW i \in Int, NEW j \in Int, i > j PROVE w * i >= w * j + w
            OBVIOUS
      <2>1. PICK d \in Nat : i = j + 1 + d
            BY i - j - 1 \in Nat
      <2>2. w * i = w * j + w + w * d /\ w * d \in Nat
            BY <2>1
      <2>3. QED
            BY <2>2
<1>3. p = q
      BY <1>1, <1>2
<1>4. QED
      BY <1>1, <1>3 DEF m

LEMMA ModStep ==
    ASSUME NEW w \in Nat \ {0}, NEW a \in Int, NEW d \in Int
    PROVE  ((a % w) + d) % w = (a + d) % w
<1> DEFINE p == a \div w
           m == a % w
           u == (m + d) \div w
           v == (m + d) % w
<1>1. p \in Int /\ m \in 0 .. w - 1 /\ a = w * p + m
      OBVIOUS
<1>2. u \in Int /\ v \in 0 .. w - 1 /\ m + d = w * u + v
      BY <1>1
<1> HIDE DEF p, m, u, v
<1>3. a + d = w * (p + u) + v
      <2>1. w * (p + u) = w * p + w * u /\ w * p \in Int /\ w * u \in Int
            BY <1>1, <1>2
      <2>2. QED
            BY <1>1, <1>2, <2>1
<1>4. (a + d) % w = v
      <2> DEFINE b == a + d
                 e == p + u
      <2>1. b \in Int /\ e \in Int /\ b = w * e + v
            BY <1>1, <1>2, <1>3
      <2> HIDE DEF b, e
      <2>2. b % w = v
            BY <1>2, <2>1, ModUnique
      <2>3. QED
            BY <2>2 DEF b
<1>5. QED
      BY <1>4 DEF v, m
LEMMA ModCount ==
    ASSUME NEW a \in Int
    PROVE  /\ ((a % SockWord) + 1) % SockWord = (a + 1) % SockWord
           /\ ((a % SockWord) - 1) % SockWord = (a - 1) % SockWord
<1>1. SockWord \in Nat \ {0} /\ a % SockWord \in Int
      BY SocketsAssumption
<1>2. \A d \in Int : ((a % SockWord) + d) % SockWord = (a + d) % SockWord
      BY <1>1, ModStep
<1>3. (a % SockWord) + (-1) = (a % SockWord) - 1 /\ a + (-1) = a - 1
      BY <1>1
<1>4. ((a % SockWord) + (-1)) % SockWord = (a + (-1)) % SockWord
      BY <1>2
<1>5. QED
      BY <1>2, <1>3, <1>4

-----------------------------------------------------------------------------
(* What is still to be added to num_pending and to be taken from it.       *)
LEMMA CountsAreNumbers ==
    /\ IsFiniteSet(Uncounted) /\ Cardinality(Uncounted) \in Nat
    /\ IsFiniteSet(Uncounting) /\ Cardinality(Uncounting) \in Nat
<1>1. Uncounted \in SUBSET Server /\ Uncounting \in SUBSET Client
      BY DEF Uncounted, Uncounting
<1>2. IsFiniteSet(Uncounted) /\ IsFiniteSet(Uncounting)
      BY <1>1, FS_Subset, SocketsAssumption
<1>3. QED
      BY <1>2, FS_CardinalityType

LEMMA CountedAs ==
    PendingIsCounted <=>
      numPending = (Len(pending) + Cardinality(Uncounted) - Cardinality(Uncounting)) % SockWord
BY DEF PendingIsCounted, Uncounted, Uncounting

Fresh == {"idle", "refused", "enqueue"}

(* A client that moves within the part before the queue, or within the     *)
(* part after num_pending, changes nothing for the queue.                  *)
LEMMA QuietClient ==
    ASSUME QueueInv, NEW c \in Client, NEW from, NEW to, ClientMoves(c, from, to),
           to \in {"idle", "refused", "enqueue", "wait", "talk", "dead"},
           from # "count", from \in Fresh <=> to \in Fresh,
           UNCHANGED <<pending, numPending, connected>>
    PROVE  QueueInv'
<1>1. /\ cState' = [cState EXCEPT ![c] = to] /\ cState[c] = from
      /\ sState' = sState /\ peer' = peer
      BY DEF ClientMoves
<1>2. QueueTypeOK'
      BY <1>1 DEF QueueInv, QueueTypeOK
<1>3. \A d \in Client : /\ cState'[d] = "count" <=> cState[d] = "count"
                        /\ cState'[d] \in Fresh <=> cState[d] \in Fresh
      BY <1>1 DEF QueueInv, QueueTypeOK, Fresh
<1>4. Uncounting' = Uncounting /\ Uncounted' = Uncounted
      BY <1>1, <1>3 DEF Uncounting, Uncounted
<1>5. PendingIsCounted'
      <2>1. numPending = (Len(pending) + Cardinality(Uncounted) - Cardinality(Uncounting)) % SockWord
            BY CountedAs DEF QueueInv
      <2>2. QED
            BY <1>4, <2>1 DEF PendingIsCounted, Uncounted, Uncounting
<1>6. QueueIsExact'
      BY <1>1, <1>3 DEF QueueInv, QueueIsExact, Holds, Fresh
<1>7. QED
      BY <1>2, <1>5, <1>6 DEF QueueInv

(* So does a server that moves while it has nobody in its hands.           *)
LEMMA QuietServer ==
    ASSUME QueueInv, NEW s \in Server, NEW from, NEW to, ServerMoves(s, from, to),
           from \in {"idle", "deque", "talk"}, to \in {"idle", "deque", "talk"},
           \/ peer' = peer
           \/ peer' = [peer EXCEPT ![s] = Nobody],
           UNCHANGED <<pending, numPending, connected>>
    PROVE  QueueInv'
<1>1. /\ sState' = [sState EXCEPT ![s] = to] /\ sState[s] = from /\ cState' = cState
      BY DEF ServerMoves
<1>2. QueueTypeOK'
      BY <1>1 DEF QueueInv, QueueTypeOK
<1>3. \A t \in Server : /\ sState'[t] = "uncount" <=> sState[t] = "uncount"
                        /\ Holds(t)' <=> Holds(t)
                        /\ Holds(t) => peer'[t] = peer[t]
      BY <1>1 DEF QueueInv, QueueTypeOK, Holds
<1>4. Uncounting' = Uncounting /\ Uncounted' = Uncounted
      BY <1>1, <1>3 DEF Uncounting, Uncounted
<1>5. PendingIsCounted'
      <2>1. numPending = (Len(pending) + Cardinality(Uncounted) - Cardinality(Uncounting)) % SockWord
            BY CountedAs DEF QueueInv
      <2>2. QED
            BY <1>4, <2>1 DEF PendingIsCounted, Uncounted, Uncounting
<1>6. QueueIsExact'
      <2>1. \A t \in Server : Holds(t)' => peer'[t] \in Client /\ ~InSeq(peer'[t], pending')
            BY <1>3 DEF QueueInv, QueueIsExact
      <2>2. \A t, u \in Server : Holds(t)' /\ Holds(u)' /\ peer'[t] = peer'[u] => t = u
            BY <1>3 DEF QueueInv, QueueIsExact
      <2>3. \A c \in Client : (\E t \in Server : Holds(t)' /\ peer'[t] = c)
                              <=> (\E t \in Server : Holds(t) /\ peer[t] = c)
            BY <1>3
      <2>4. QED
            BY <1>1, <2>1, <2>2, <2>3 DEF QueueInv, QueueIsExact
<1>7. QED
      BY <1>2, <1>5, <1>6 DEF QueueInv

(* enqueue_pending(): the client comes into the queue before it is counted.*)
LEMMA EnqueuePendingKeeps ==
    ASSUME QueueInv, NEW c \in Client, EnqueuePending(c)
    PROVE  QueueInv'
<1>1. /\ cState' = [cState EXCEPT ![c] = "count"] /\ cState[c] = "enqueue"
      /\ sState' = sState /\ peer' = peer /\ connected' = connected /\ numPending' = numPending
      /\ pending' = Append(pending, c)
      BY DEF EnqueuePending, ClientMoves
<1>2. pending \in Seq(Client) /\ Once(pending) /\ ~InSeq(c, pending)
      BY <1>1 DEF QueueInv, QueueTypeOK, QueueIsExact
<1>3. /\ pending' \in Seq(Client) /\ Len(pending') = Len(pending) + 1 /\ Len(pending) \in Nat
      /\ Once(pending') /\ \A x : InSeq(x, pending') <=> InSeq(x, pending) \/ x = c
      BY <1>1, <1>2, AppendFacts
<1>4. QueueTypeOK'
      BY <1>1, <1>3 DEF QueueInv, QueueTypeOK
<1>5. /\ \A d \in Client \ {c} : cState'[d] = cState[d]
      /\ cState'[c] = "count"
      BY <1>1 DEF QueueInv, QueueTypeOK
<1>6. Cardinality(Uncounting') = Cardinality(Uncounting) + 1
      <2>1. Uncounting' = Uncounting \cup {c} /\ c \notin Uncounting
            BY <1>1, <1>5 DEF Uncounting
      <2>2. QED
            BY <2>1, CountsAreNumbers, FS_AddElement
<1>7. PendingIsCounted'
      <2>1. numPending = (Len(pending) + Cardinality(Uncounted) - Cardinality(Uncounting)) % SockWord
            BY CountedAs DEF QueueInv
      <2>2. Uncounted' = Uncounted
            BY <1>1 DEF Uncounted
      <2>3. Len(pending') + Cardinality(Uncounted') - Cardinality(Uncounting')
              = Len(pending) + Cardinality(Uncounted) - Cardinality(Uncounting)
            BY <1>3, <1>6, <2>2, CountsAreNumbers
      <2>4. numPending' = (Len(pending') + Cardinality(Uncounted') - Cardinality(Uncounting')) % SockWord
            BY <1>1, <2>1, <2>3
      <2>5. QED
            BY <2>4 DEF PendingIsCounted, Uncounted, Uncounting
<1>8. ~\E s \in Server : Holds(s) /\ peer[s] = c
      BY <1>1 DEF QueueInv, QueueIsExact
<1>9. connected[c] = FALSE
      BY <1>1 DEF QueueInv, QueueIsExact, QueueTypeOK
<1>10. QueueIsExact'
      <2>1. \A s \in Server : Holds(s)' <=> Holds(s)
            BY <1>1 DEF Holds
      <2>2. \A s \in Server : Holds(s)' => peer'[s] \in Client /\ ~InSeq(peer'[s], pending')
            BY <1>1, <1>3, <1>8, <2>1 DEF QueueInv, QueueIsExact
      <2>3. ASSUME NEW d \in Client
            PROVE  InSeq(d, pending') \/ (\E s \in Server : Holds(s)' /\ peer'[s] = d)
                   <=> cState'[d] \notin Fresh /\ connected'[d] = FALSE
            <3>1. CASE d = c
                  BY <1>1, <1>3, <1>5, <1>9, <3>1 DEF Fresh
            <3>2. CASE d # c
                  BY <1>1, <1>3, <1>5, <2>1, <3>2 DEF QueueInv, QueueIsExact, Fresh
            <3>3. QED
                  BY <3>1, <3>2
      <2>4. \A d \in Client : connected'[d] = TRUE => cState'[d] \notin Fresh
            BY <1>1, <1>5 DEF QueueInv, QueueIsExact, Fresh
      <2>5. QED
            BY <1>1, <1>3, <2>1, <2>2, <2>3, <2>4 DEF QueueInv, QueueIsExact, Fresh
<1>11. QED
      BY <1>4, <1>7, <1>10 DEF QueueInv

LEMMA EnqueueCountKeeps ==
    ASSUME QueueInv, NEW c \in Client, EnqueueCount(c)
    PROVE  QueueInv'
<1>1. /\ cState' = [cState EXCEPT ![c] = "wait"] /\ cState[c] = "count"
      /\ sState' = sState /\ peer' = peer /\ connected' = connected /\ pending' = pending
      /\ numPending' = (numPending + 1) % SockWord
      BY DEF EnqueueCount, ClientMoves
<1>2. numPending' \in 0 .. SockWord - 1
      BY <1>1, SocketsAssumption DEF QueueInv, QueueTypeOK
<1>3. QueueTypeOK'
      BY <1>1, <1>2 DEF QueueInv, QueueTypeOK
<1>4. Cardinality(Uncounting') = Cardinality(Uncounting) - 1
      <2>1. Uncounting' = Uncounting \ {c} /\ c \in Uncounting
            BY <1>1 DEF Uncounting, QueueInv, QueueTypeOK
      <2>2. QED
            BY <2>1, CountsAreNumbers, FS_RemoveElement
<1>5. PendingIsCounted'
      <2> DEFINE a == Len(pending) + Cardinality(Uncounted) - Cardinality(Uncounting)
      <2>1. numPending = a % SockWord
            BY CountedAs DEF QueueInv
      <2>2. Uncounted' = Uncounted
            BY <1>1 DEF Uncounted
      <2>3. Len(pending) \in Nat
            BY DEF QueueInv, QueueTypeOK
      <2>4. /\ a \in Int
            /\ Len(pending') + Cardinality(Uncounted') - Cardinality(Uncounting') = a + 1
            BY <1>1, <1>4, <2>2, <2>3, CountsAreNumbers
      <2> HIDE DEF a
      <2>5. ((a % SockWord) + 1) % SockWord = (a + 1) % SockWord
            BY <2>4, ModCount
      <2>6. numPending' = (Len(pending') + Cardinality(Uncounted') - Cardinality(Uncounting')) % SockWord
            BY <1>1, <2>1, <2>4, <2>5
      <2>7. QED
            BY <2>6 DEF PendingIsCounted, Uncounted, Uncounting
<1>6. QueueIsExact'
      <2>1. \A d \in Client : cState'[d] \in Fresh <=> cState[d] \in Fresh
            BY <1>1 DEF QueueInv, QueueTypeOK, Fresh
      <2>2. QED
            BY <1>1, <2>1 DEF QueueInv, QueueIsExact, Holds, Fresh
<1>7. QED
      BY <1>3, <1>5, <1>6 DEF QueueInv

(* deque_pending(): the server has the first client before it is taken     *)
(* from the count; with nobody in the queue the kernel stops.              *)
LEMMA DequePendingKeeps ==
    ASSUME QueueInv, NEW s \in Server, DequePending(s), sockStopped' = sockStopped
    PROVE  QueueInv'
<1>1. /\ pending # << >>
      /\ sState' = [sState EXCEPT ![s] = "uncount"] /\ sState[s] = "deque"
      /\ cState' = cState /\ connected' = connected /\ numPending' = numPending
      /\ peer' = [peer EXCEPT ![s] = Head(pending)]
      /\ pending' = Tail(pending)
      BY DEF DequePending, ServerMoves
<1>2. pending \in Seq(Client) /\ Once(pending)
      BY DEF QueueInv, QueueTypeOK, QueueIsExact
<1>3. /\ pending' \in Seq(Client) /\ Len(pending') = Len(pending) - 1 /\ Len(pending) \in Nat
      /\ Head(pending) \in Client /\ InSeq(Head(pending), pending) /\ Once(pending')
      /\ \A x : InSeq(x, pending') <=> InSeq(x, pending) /\ x # Head(pending)
      BY <1>1, <1>2, TailFacts
<1>4. QueueTypeOK'
      BY <1>1, <1>3 DEF QueueInv, QueueTypeOK
<1>5. /\ \A t \in Server \ {s} : sState'[t] = sState[t] /\ peer'[t] = peer[t]
      /\ sState'[s] = "uncount" /\ peer'[s] = Head(pending)
      BY <1>1 DEF QueueInv, QueueTypeOK
<1>6. Cardinality(Uncounted') = Cardinality(Uncounted) + 1
      <2>1. Uncounted' = Uncounted \cup {s} /\ s \notin Uncounted
            BY <1>1, <1>5 DEF Uncounted
      <2>2. QED
            BY <2>1, CountsAreNumbers, FS_AddElement
<1>7. PendingIsCounted'
      <2>1. numPending = (Len(pending) + Cardinality(Uncounted) - Cardinality(Uncounting)) % SockWord
            BY CountedAs DEF QueueInv
      <2>2. Uncounting' = Uncounting
            BY <1>1 DEF Uncounting
      <2>3. Len(pending') + Cardinality(Uncounted') - Cardinality(Uncounting')
              = Len(pending) + Cardinality(Uncounted) - Cardinality(Uncounting)
            BY <1>3, <1>6, <2>2, CountsAreNumbers
      <2>4. numPending' = (Len(pending') + Cardinality(Uncounted') - Cardinality(Uncounting')) % SockWord
            BY <1>1, <2>1, <2>3
      <2>5. QED
            BY <2>4 DEF PendingIsCounted, Uncounted, Uncounting
<1>8. /\ Holds(s)' /\ ~Holds(s)
      /\ \A t \in Server \ {s} : Holds(t)' <=> Holds(t)
      BY <1>1, <1>5 DEF Holds
<1>9. \A t \in Server : Holds(t) => peer[t] # Head(pending)
      BY <1>3 DEF QueueInv, QueueIsExact
<1>10. QueueIsExact'
      <2>1. \A t \in Server : Holds(t)' => peer'[t] \in Client /\ ~InSeq(peer'[t], pending')
            BY <1>3, <1>5, <1>8 DEF QueueInv, QueueIsExact
      <2>2. \A t, u \in Server : Holds(t)' /\ Holds(u)' /\ peer'[t] = peer'[u] => t = u
            BY <1>5, <1>8, <1>9 DEF QueueInv, QueueIsExact
      <2>3. ASSUME NEW d \in Client
            PROVE  InSeq(d, pending') \/ (\E t \in Server : Holds(t)' /\ peer'[t] = d)
                   <=> InSeq(d, pending) \/ (\E t \in Server : Holds(t) /\ peer[t] = d)
            <3>1. CASE d = Head(pending)
                  BY <1>3, <1>5, <1>8, <3>1
            <3>2. CASE d # Head(pending)
                  BY <1>3, <1>5, <1>8, <3>2
            <3>3. QED
                  BY <3>1, <3>2
      <2>4. QED
            BY <1>1, <1>3, <2>1, <2>2, <2>3 DEF QueueInv, QueueIsExact
<1>11. QED
      BY <1>4, <1>7, <1>10 DEF QueueInv

LEMMA DequeCountKeeps ==
    ASSUME QueueInv, NEW s \in Server, DequeCount(s)
    PROVE  QueueInv'
<1>1. /\ sState' = [sState EXCEPT ![s] = "accept"] /\ sState[s] = "uncount"
      /\ cState' = cState /\ connected' = connected /\ pending' = pending /\ peer' = peer
      /\ numPending' = (numPending - 1) % SockWord
      BY DEF DequeCount, ServerMoves
<1>2. numPending' \in 0 .. SockWord - 1
      BY <1>1, SocketsAssumption DEF QueueInv, QueueTypeOK
<1>3. QueueTypeOK'
      BY <1>1, <1>2 DEF QueueInv, QueueTypeOK
<1>4. Cardinality(Uncounted') = Cardinality(Uncounted) - 1
      <2>1. Uncounted' = Uncounted \ {s} /\ s \in Uncounted
            BY <1>1 DEF Uncounted, QueueInv, QueueTypeOK
      <2>2. QED
            BY <2>1, CountsAreNumbers, FS_RemoveElement
<1>5. PendingIsCounted'
      <2> DEFINE a == Len(pending) + Cardinality(Uncounted) - Cardinality(Uncounting)
      <2>1. numPending = a % SockWord
            BY CountedAs DEF QueueInv
      <2>2. Uncounting' = Uncounting
            BY <1>1 DEF Uncounting
      <2>3. Len(pending) \in Nat
            BY DEF QueueInv, QueueTypeOK
      <2>4. /\ a \in Int
            /\ Len(pending') + Cardinality(Uncounted') - Cardinality(Uncounting') = a - 1
            BY <1>1, <1>4, <2>2, <2>3, CountsAreNumbers
      <2> HIDE DEF a
      <2>5. ((a % SockWord) - 1) % SockWord = (a - 1) % SockWord
            BY <2>4, ModCount
      <2>6. numPending' = (Len(pending') + Cardinality(Uncounted') - Cardinality(Uncounting')) % SockWord
            BY <1>1, <2>1, <2>4, <2>5
      <2>7. QED
            BY <2>6 DEF PendingIsCounted, Uncounted, Uncounting
<1>6. QueueIsExact'
      <2>1. \A t \in Server : Holds(t)' <=> Holds(t)
            BY <1>1 DEF QueueInv, QueueTypeOK, Holds
      <2>2. QED
            BY <1>1, <2>1 DEF QueueInv, QueueIsExact
<1>7. QED
      BY <1>3, <1>5, <1>6 DEF QueueInv

(* The client a server holds is not connected, as unix_socket_accept()     *)
(* asserts.                                                                *)
LEMMA AcceptedOnce ==
    ASSUME QueueInv, NEW s \in Server, Holds(s)
    PROVE  peer[s] \in Client /\ connected[peer[s]] = FALSE /\ ~InSeq(peer[s], pending)
BY DEF QueueInv, QueueIsExact

LEMMA AcceptConnectsKeeps ==
    ASSUME QueueInv, NEW s \in Server, AcceptConnects(s)
    PROVE  QueueInv'
<1>1. /\ sState' = [sState EXCEPT ![s] = "talk"] /\ sState[s] = "accept"
      /\ cState' = cState /\ connected' = [connected EXCEPT ![peer[s]] = TRUE]
      /\ pending' = pending /\ peer' = peer /\ numPending' = numPending
      BY DEF AcceptConnects, ServerMoves
<1>2. Holds(s) /\ peer[s] \in Client /\ connected[peer[s]] = FALSE /\ ~InSeq(peer[s], pending)
      BY <1>1, AcceptedOnce DEF Holds
<1>3. QueueTypeOK'
      BY <1>1, <1>2 DEF QueueInv, QueueTypeOK
<1>4. /\ \A t \in Server \ {s} : Holds(t)' <=> Holds(t)
      /\ ~Holds(s)'
      /\ \A d \in Client \ {peer[s]} : connected'[d] = connected[d]
      /\ connected'[peer[s]] = TRUE
      BY <1>1, <1>2 DEF Holds, QueueInv, QueueTypeOK
<1>5. Uncounted' = Uncounted /\ Uncounting' = Uncounting
      BY <1>1 DEF Uncounted, Uncounting, QueueInv, QueueTypeOK
<1>6. PendingIsCounted'
      <2>1. numPending = (Len(pending) + Cardinality(Uncounted) - Cardinality(Uncounting)) % SockWord
            BY CountedAs DEF QueueInv
      <2>2. QED
            BY <1>1, <1>5, <2>1 DEF PendingIsCounted, Uncounted, Uncounting
<1>7. cState[peer[s]] \notin Fresh
      BY <1>2 DEF QueueInv, QueueIsExact, Fresh
<1>8. QueueIsExact'
      <2>1. \A t \in Server : Holds(t)' => t # s /\ Holds(t)
            BY <1>4
      <2>2. \A t \in Server : Holds(t)' => peer'[t] # peer[s]
            BY <1>1, <1>2, <2>1 DEF QueueInv, QueueIsExact
      <2>3. ASSUME NEW d \in Client
            PROVE  InSeq(d, pending') \/ (\E t \in Server : Holds(t)' /\ peer'[t] = d)
                   <=> cState'[d] \notin Fresh /\ connected'[d] = FALSE
            <3>1. CASE d = peer[s]
                  BY <1>1, <1>2, <1>4, <2>2, <3>1
            <3>2. CASE d # peer[s]
                  <4>1. InSeq(d, pending) \/ (\E t \in Server : Holds(t) /\ peer[t] = d)
                        <=> cState[d] \notin Fresh /\ connected[d] = FALSE
                        BY DEF QueueInv, QueueIsExact, Fresh
                  <4>2. (\E t \in Server : Holds(t)' /\ peer'[t] = d)
                        <=> (\E t \in Server : Holds(t) /\ peer[t] = d)
                        BY <1>1, <1>4, <3>2
                  <4>3. QED
                        BY <1>1, <1>4, <3>2, <4>1, <4>2
            <3>3. QED
                  BY <3>1, <3>2
      <2>4. \A d \in Client : connected'[d] = TRUE => cState'[d] \notin Fresh
            BY <1>1, <1>4, <1>7 DEF QueueInv, QueueIsExact, Fresh
      <2>5. QED
            BY <1>1, <2>1, <2>3, <2>4 DEF QueueInv, QueueIsExact, Fresh
<1>9. QED
      BY <1>3, <1>6, <1>8 DEF QueueInv

LEMMA QueueUnchanged ==
    ASSUME QueueInv, UNCHANGED <<pending, numPending, cState, sState, peer, connected>>
    PROVE  QueueInv'
BY DEF QueueInv, QueueTypeOK, QueueIsExact, PendingIsCounted, Holds

LEMMA QueueInvariant == SocketsSpec => []QueueInv
<1>1. SocketsInit => QueueInv
      <2> SUFFICES ASSUME SocketsInit PROVE QueueInv
            OBVIOUS
      <2>1. QueueTypeOK
            BY SocketsAssumption DEF SocketsInit, QueueTypeOK
      <2>2. QueueIsExact
            BY DEF SocketsInit, QueueIsExact, Once, InSeq, Holds
      <2>3. Uncounted = {} /\ Uncounting = {} /\ Len(pending) = 0
            BY DEF SocketsInit, Uncounted, Uncounting
      <2>4. Cardinality(Uncounted) = 0 /\ Cardinality(Uncounting) = 0
            BY <2>3, FS_EmptySet
      <2>5. 0 % SockWord = 0
            BY SocketsAssumption
      <2>6. numPending = (Len(pending) + Cardinality(Uncounted) - Cardinality(Uncounting)) % SockWord
            BY <2>3, <2>4, <2>5 DEF SocketsInit
      <2>7. QED
            BY <2>1, <2>2, <2>6, CountedAs DEF QueueInv
<1>2. QueueInv /\ [SocketsNext]_sockVars => QueueInv'
      <2> SUFFICES ASSUME QueueInv, [SocketsNext]_sockVars PROVE QueueInv'
            OBVIOUS
      <2>1. CASE SysBind \/ SysListen \/ (\E c \in Client : Transfer(c)) \/ UNCHANGED sockVars
            BY <2>1, QueueUnchanged DEF SysBind, SysListen, Transfer, sockVars
      <2>2. ASSUME NEW c \in Client, ConnectCheck(c) PROVE QueueInv'
            BY <2>2, QuietClient DEF ConnectCheck, Fresh
      <2>3. ASSUME NEW c \in Client, ConnectReturns(c) PROVE QueueInv'
            BY <2>3, QuietClient DEF ConnectReturns, Fresh
      <2>4. ASSUME NEW c \in Client, ConnectInterrupted(c) PROVE QueueInv'
            BY <2>4, QuietClient DEF ConnectInterrupted, Fresh
      <2>5. ASSUME NEW c \in Client, ConnectAgain(c) PROVE QueueInv'
            BY <2>5, QuietClient DEF ConnectAgain, Fresh
      <2>6. ASSUME NEW s \in Server, AcceptUnblocks(s) PROVE QueueInv'
            BY <2>6, QuietServer DEF AcceptUnblocks
      <2>7. ASSUME NEW s \in Server, ServerDone(s) PROVE QueueInv'
            BY <2>7, QuietServer DEF ServerDone
      <2>8. ASSUME NEW s \in Server, DequePending(s) PROVE QueueInv'
            BY <2>8, DequePendingKeeps, QueueUnchanged DEF DequePending
      <2>9. QED
            BY <2>1, <2>2, <2>3, <2>4, <2>5, <2>6, <2>7, <2>8, EnqueuePendingKeeps,
               EnqueueCountKeeps, DequeCountKeeps, AcceptConnectsKeeps DEF SocketsNext
<1>3. QED
      BY <1>1, <1>2, PTL DEF SocketsSpec

(* The cardinalities of NoClientIsLost are those of sets with at most one  *)
(* element.                                                                *)
LEMMA ClientIsSomewhere ==
    ASSUME QueueInv
    PROVE  NoClientIsLost
<1> SUFFICES ASSUME NEW c \in Client
             PROVE  LET inQueue == Cardinality({k \in DOMAIN pending : pending[k] = c})
                        taken == Cardinality({s \in Server : peer[s] = c
                                                /\ sState[s] \in {"uncount", "accept"}})
                    IN  /\ inQueue + taken <= 1
                        /\ cState[c] \in {"count", "wait"} /\ ~connected[c] =>
                             inQueue + taken = 1
      BY DEF NoClientIsLost
<1> DEFINE Q == {k \in DOMAIN pending : pending[k] = c}
           T == {s \in Server : peer[s] = c /\ sState[s] \in {"uncount", "accept"}}
<1>1. DOMAIN pending = 1 .. Len(pending)
      BY DEF QueueInv, QueueTypeOK
<1>2. InSeq(c, pending) => \E k : Q = {k}
      BY <1>1 DEF InSeq, Once, QueueInv, QueueIsExact
<1>3. ~InSeq(c, pending) => Q = {}
      BY <1>1 DEF InSeq
<1>4. (\E s \in Server : Holds(s) /\ peer[s] = c) => (\E s : T = {s}) /\ ~InSeq(c, pending)
      <2> SUFFICES ASSUME NEW s \in Server, Holds(s), peer[s] = c
                   PROVE  T = {s} /\ ~InSeq(c, pending)
            OBVIOUS
      <2>1. \A t \in Server : Holds(t) /\ peer[t] = c => t = s
            BY DEF QueueInv, QueueIsExact
      <2>2. T = {s}
            BY <2>1 DEF Holds
      <2>3. QED
            BY <2>2 DEF QueueInv, QueueIsExact
<1>5. ~(\E s \in Server : Holds(s) /\ peer[s] = c) => T = {}
      BY DEF Holds
<1> HIDE DEF Q, T
<1>6. Cardinality({}) = 0 /\ \A x : Cardinality({x}) = 1
      BY FS_EmptySet, FS_Singleton
<1>7. /\ InSeq(c, pending) => Cardinality(Q) = 1
      /\ ~InSeq(c, pending) => Cardinality(Q) = 0
      /\ (\E s \in Server : Holds(s) /\ peer[s] = c) => Cardinality(T) = 1 /\ ~InSeq(c, pending)
      /\ ~(\E s \in Server : Holds(s) /\ peer[s] = c) => Cardinality(T) = 0
      BY <1>2, <1>3, <1>4, <1>5, <1>6
<1>8. cState[c] \in {"count", "wait"} /\ ~connected[c] =>
          InSeq(c, pending) \/ (\E s \in Server : Holds(s) /\ peer[s] = c)
      BY DEF QueueInv, QueueIsExact, QueueTypeOK
<1>9. /\ Cardinality(Q) + Cardinality(T) <= 1
      /\ cState[c] \in {"count", "wait"} /\ ~connected[c] => Cardinality(Q) + Cardinality(T) = 1
      BY <1>7, <1>8
<1>10. QED
      BY <1>9 DEF Q, T

-----------------------------------------------------------------------------
(* The bytes.                                                              *)

Bytes(m, n) == [k \in 1 .. m - n |-> n + k]
Progress == [up : Nat, down : Nat]

StreamInv ==
    /\ sentTo \in [Client -> Progress] /\ got \in [Client -> Progress]
    /\ toServer \in [Client -> Seq(Nat)] /\ toClient \in [Client -> Seq(Nat)]
    /\ \A c \in Client :
         /\ got[c].up <= sentTo[c].up /\ got[c].down <= sentTo[c].down
         /\ toServer[c] = Bytes(sentTo[c].up, got[c].up)
         /\ toClient[c] = Bytes(sentTo[c].down, got[c].down)

(* What ring_buf_write() appends and ring_buf_read() takes away.           *)
LEMMA StreamFacts ==
    ASSUME NEW m \in Nat, NEW n \in Nat, n <= m
    PROVE  /\ Bytes(m, n) \in Seq(Nat)
           /\ Append(Bytes(m, n), m + 1) = Bytes(m + 1, n)
           /\ Bytes(m, n) # << >> => /\ Head(Bytes(m, n)) = n + 1 /\ n + 1 <= m
                                      /\ Tail(Bytes(m, n)) = Bytes(m, n + 1)
<1>1. Bytes(m, n) \in Seq(Nat) /\ Len(Bytes(m, n)) = m - n
      /\ \A k \in 1 .. m - n : Bytes(m, n)[k] = n + k
      BY DEF Bytes
<1>2. Append(Bytes(m, n), m + 1) = Bytes(m + 1, n)
      <2>1. m + 1 - n = (m - n) + 1 /\ n + (m - n + 1) = m + 1 /\ m - n \in Nat
            OBVIOUS
      <2>2. Append(Bytes(m, n), m + 1)
              = [k \in 1 .. (m - n) + 1 |-> IF k = m - n + 1 THEN m + 1 ELSE Bytes(m, n)[k]]
            BY <1>1, <2>1
      <2>3. \A k \in 1 .. (m - n) + 1 :
              (IF k = m - n + 1 THEN m + 1 ELSE Bytes(m, n)[k]) = n + k
            BY <1>1, <2>1
      <2>4. QED
            BY <2>1, <2>2, <2>3 DEF Bytes
<1>3. ASSUME Bytes(m, n) # << >>
      PROVE  /\ Head(Bytes(m, n)) = n + 1 /\ n + 1 <= m
             /\ Tail(Bytes(m, n)) = Bytes(m, n + 1)
      <2>1. m - n >= 1
            BY <1>1, <1>3
      <2>2. Head(Bytes(m, n)) = n + 1
            BY <1>1, <1>3, <2>1
      <2> DEFINE q == Tail(Bytes(m, n))
                 r == Bytes(m, n + 1)
      <2>3. /\ q \in Seq(Nat) /\ Len(q) = m - n - 1
            /\ \A k \in 1 .. m - n - 1 : q[k] = Bytes(m, n)[k + 1]
            BY <1>1, <1>3, <2>1
      <2>4. \A k \in 1 .. m - n - 1 : q[k] = n + 1 + k
            BY <1>1, <2>3
      <2>5. /\ r \in Seq(Nat) /\ Len(r) = m - n - 1
            /\ \A k \in 1 .. m - n - 1 : r[k] = n + 1 + k
            BY <2>1 DEF Bytes
      <2> HIDE DEF q, r
      <2>6. q = r
            BY <2>3, <2>4, <2>5, SeqEqual
      <2>7. QED
            BY <2>1, <2>2, <2>6 DEF q, r
<1>4. QED
      BY <1>1, <1>2, <1>3

LEMMA StreamWritten ==
    ASSUME NEW m, NEW n, m \in Nat, n \in Nat, n <= m, NEW q, q = Bytes(m, n)
    PROVE  Append(q, m + 1) = Bytes(m + 1, n) /\ Append(q, m + 1) \in Seq(Nat)
<1>1. Append(q, m + 1) = Bytes(m + 1, n) /\ q \in Seq(Nat)
      BY StreamFacts
<1>2. QED
      BY <1>1

LEMMA StreamRead ==
    ASSUME NEW m, NEW n, m \in Nat, n \in Nat, n <= m, NEW q, q = Bytes(m, n), q # << >>
    PROVE  /\ Head(q) = n + 1 /\ n + 1 <= m
           /\ Tail(q) = Bytes(m, n + 1) /\ Tail(q) \in Seq(Nat)
<1>1. Head(q) = n + 1 /\ n + 1 <= m /\ Tail(q) = Bytes(m, n + 1) /\ q \in Seq(Nat)
      BY StreamFacts
<1>2. QED
      BY <1>1

LEMMA TransferKeeps ==
    ASSUME StreamInv, NEW c \in Client, Transfer(c)
    PROVE  StreamInv'
<1>1. /\ sentTo[c] \in Progress /\ got[c] \in Progress
      /\ sentTo[c].up \in Nat /\ sentTo[c].down \in Nat
      /\ got[c].up \in Nat /\ got[c].down \in Nat
      /\ got[c].up <= sentTo[c].up /\ got[c].down <= sentTo[c].down
      /\ toServer[c] = Bytes(sentTo[c].up, got[c].up)
      /\ toClient[c] = Bytes(sentTo[c].down, got[c].down)
      BY DEF StreamInv, Progress
<1>2. CASE WriteUp(c)
      <2> DEFINE b == Append(toServer[c], sentTo[c].up + 1)
                 m == [sentTo[c] EXCEPT !.up = sentTo[c].up + 1]
      <2>1. /\ toServer' = [toServer EXCEPT ![c] = b] /\ sentTo' = [sentTo EXCEPT ![c] = m]
            /\ toClient' = toClient /\ got' = got
            BY <1>2 DEF WriteUp
      <2>2. b = Bytes(sentTo[c].up + 1, got[c].up) /\ b \in Seq(Nat)
            BY <1>1, StreamWritten
      <2>3. m \in Progress /\ m.up = sentTo[c].up + 1 /\ m.down = sentTo[c].down
            BY <1>1 DEF Progress
      <2> HIDE DEF b, m
      <2>4. QED
            BY <1>1, <2>1, <2>2, <2>3 DEF StreamInv
<1>3. CASE WriteDown(c)
      <2> DEFINE b == Append(toClient[c], sentTo[c].down + 1)
                 m == [sentTo[c] EXCEPT !.down = sentTo[c].down + 1]
      <2>1. /\ toClient' = [toClient EXCEPT ![c] = b] /\ sentTo' = [sentTo EXCEPT ![c] = m]
            /\ toServer' = toServer /\ got' = got
            BY <1>3 DEF WriteDown
      <2>2. b = Bytes(sentTo[c].down + 1, got[c].down) /\ b \in Seq(Nat)
            BY <1>1, StreamWritten
      <2>3. m \in Progress /\ m.down = sentTo[c].down + 1 /\ m.up = sentTo[c].up
            BY <1>1 DEF Progress
      <2> HIDE DEF b, m
      <2>4. QED
            BY <1>1, <2>1, <2>2, <2>3 DEF StreamInv
<1>4. CASE ReadUp(c)
      <2> DEFINE b == Tail(toServer[c])
                 g == [got[c] EXCEPT !.up = Head(toServer[c])]
      <2>1. /\ toServer' = [toServer EXCEPT ![c] = b] /\ got' = [got EXCEPT ![c] = g]
            /\ toClient' = toClient /\ sentTo' = sentTo /\ toServer[c] # << >>
            BY <1>4 DEF ReadUp
      <2>2. /\ Head(toServer[c]) = got[c].up + 1 /\ got[c].up + 1 <= sentTo[c].up
            /\ b = Bytes(sentTo[c].up, got[c].up + 1)
            BY <1>1, <2>1, StreamRead
      <2>3. b \in Seq(Nat)
            BY <1>1, <2>1, StreamRead
      <2>4. g \in Progress /\ g.up = got[c].up + 1 /\ g.down = got[c].down
            BY <1>1, <2>2 DEF Progress
      <2> HIDE DEF b, g
      <2>5. QED
            BY <1>1, <2>1, <2>2, <2>3, <2>4 DEF StreamInv
<1>5. CASE ReadDown(c)
      <2> DEFINE b == Tail(toClient[c])
                 g == [got[c] EXCEPT !.down = Head(toClient[c])]
      <2>1. /\ toClient' = [toClient EXCEPT ![c] = b] /\ got' = [got EXCEPT ![c] = g]
            /\ toServer' = toServer /\ sentTo' = sentTo /\ toClient[c] # << >>
            BY <1>5 DEF ReadDown
      <2>2. /\ Head(toClient[c]) = got[c].down + 1 /\ got[c].down + 1 <= sentTo[c].down
            /\ b = Bytes(sentTo[c].down, got[c].down + 1)
            BY <1>1, <2>1, StreamRead
      <2>3. b \in Seq(Nat)
            BY <1>1, <2>1, StreamRead
      <2>4. g \in Progress /\ g.down = got[c].down + 1 /\ g.up = got[c].up
            BY <1>1, <2>2 DEF Progress
      <2> HIDE DEF b, g
      <2>5. QED
            BY <1>1, <2>1, <2>2, <2>3, <2>4 DEF StreamInv
<1>6. QED
      BY <1>2, <1>3, <1>4, <1>5 DEF Transfer

LEMMA StreamInvariant == SocketsSpec => []StreamInv
<1>1. SocketsInit => StreamInv
      <2> SUFFICES ASSUME SocketsInit PROVE StreamInv
            OBVIOUS
      <2>1. Zero \in Progress /\ Zero.up = 0 /\ Zero.down = 0
            BY DEF Zero, Progress
      <2>2. Bytes(0, 0) = << >>
            BY DEF Bytes
      <2>3. QED
            BY <2>1, <2>2 DEF SocketsInit, StreamInv
<1>2. StreamInv /\ [SocketsNext]_sockVars => StreamInv'
      <2> SUFFICES ASSUME StreamInv, [SocketsNext]_sockVars PROVE StreamInv'
            OBVIOUS
      <2>1. (\E c \in Client : Transfer(c)) \/ UNCHANGED bufferVars
            BY DEF SocketsNext, sockVars, bufferVars, SysBind, SysListen, ConnectCheck,
               EnqueuePending, EnqueueCount, ConnectReturns, ConnectInterrupted,
               ConnectAgain, AcceptUnblocks, DequePending, DequeCount, AcceptConnects,
               ServerDone, ClientMoves, ServerMoves
      <2>2. CASE UNCHANGED bufferVars
            BY <2>2 DEF bufferVars, StreamInv
      <2>3. QED
            BY <2>1, <2>2, TransferKeeps
<1>3. QED
      BY <1>1, <1>2, PTL DEF SocketsSpec

-----------------------------------------------------------------------------
(* Racing connects and accepts neither lose nor duplicate a client, their  *)
(* count is right once the steps are done, however often it has wrapped,   *)
(* and each end gets the other's bytes in their order                      *)
(* (unix_socket.c:60, :160, :193).                                         *)
THEOREM EveryClientIsServedOnce == SocketsSpec => []ClientsAreServedOnce
<1>1. QueueInv /\ StreamInv => ClientsAreServedOnce
      BY ClientIsSomewhere
      DEF QueueInv, QueueTypeOK, StreamInv, Bytes, ClientsAreServedOnce, SocketsTypeOK,
          StreamsDeliver
<1>2. QED
      BY <1>1, QueueInvariant, StreamInvariant, PTL

(* ASSERT(!connector->connected) never fails: the connector that a server  *)
(* has in its hands is not connected whenever it comes to the assertion,   *)
(* so accept() never stops the kernel there; what can stop it is the other *)
(* assertion, in deque_pending(), when two servers race for the last       *)
(* pending client (unix_socket.c:166, :180).                               *)
THEOREM AcceptsOnce ==
    SocketsSpec =>
      /\ [](\A s \in Server : sState[s] = "accept" => connected[peer[s]] = FALSE)
      /\ [][/\ \A s \in Server : AcceptConnects(s) => sockStopped' = FALSE
            /\ sockStopped = FALSE /\ sockStopped' =>
                 pending = << >> /\ \E s \in Server : DequePending(s)]_sockVars
<1> DEFINE Unconnected == \A s \in Server : sState[s] = "accept" => connected[peer[s]] = FALSE
           AtAccept == \A s \in Server : AcceptConnects(s) => sockStopped' = FALSE
           AtDeque == sockStopped = FALSE /\ sockStopped' =>
                        pending = << >> /\ \E s \in Server : DequePending(s)
<1>1. QueueInv => Unconnected
      BY AcceptedOnce DEF Holds
<1>2. ASSUME Unconnected, NEW s \in Server, AcceptConnects(s) PROVE sockStopped' = FALSE
      BY <1>2 DEF AcceptConnects, ServerMoves
<1>3. ASSUME Unconnected, SocketsNext, sockStopped = FALSE, sockStopped'
      PROVE  pending = << >> /\ \E s \in Server : DequePending(s)
      <2>1. ASSUME NEW s \in Server, DequePending(s) PROVE pending = << >>
            BY <1>3, <2>1 DEF DequePending
      <2>2. \E s \in Server : DequePending(s) \/ AcceptConnects(s)
            BY <1>3 DEF SocketsNext, SysBind, SysListen, ConnectCheck, EnqueuePending,
               EnqueueCount, ConnectReturns, ConnectInterrupted, ConnectAgain, Transfer,
               AcceptUnblocks, DequeCount, ServerDone
      <2>3. \E s \in Server : DequePending(s)
            BY <1>2, <1>3, <2>2
      <2>4. QED
            BY <2>1, <2>3
<1>4. QueueInv /\ [SocketsNext]_sockVars => [AtAccept /\ AtDeque]_sockVars
      BY <1>1, <1>2, <1>3 DEF sockVars
<1>5. QED
      BY <1>1, <1>4, QueueInvariant, PTL DEF SocketsSpec

=============================================================================
