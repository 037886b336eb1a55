----------------------------- MODULE MemoryFile -----------------------------
(***************************************************************************)
(* The contents of a memory file (kernel/growable_buf.c, the data calls of *)
(* fs/tmpfs.c, lseek and the checks in fs/fs.c).  The buffer is a run of   *)
(* page frames; a process can map the same frames with mmap().  Several    *)
(* processes share one open file description, so they share its offset,    *)
(* which offset_lock protects; a read or a write changes the bytes in one  *)
(* step, under both locks, and the offset in a later one.                  *)
(***************************************************************************)
EXTENDS Integers, Sequences, FiniteSets, SequencesExt

CONSTANTS FileUser,     \* processes that share the open file
          NoUser,
          PageBytes,    \* bytes in a page
          MaxFrames,    \* page frames there are
          IoCounts,       \* sizes of reads and writes
          Lengths,      \* lengths for ftruncate(), offsets for lseek()
          MaxOffset     \* bound: no seek forward from here

ASSUME MemoryFileAssumption == PageBytes \in Nat \ {0} /\ MaxFrames \in Nat

VARIABLES bufOwner,     \* "tmpfs" or "procfs": which calls use the buffer
          bufPages,     \* frames of the buffer: addr and capacity
          bufSize,      \* buf->size
          frameByte,    \* frameByte[f][k]
          frames,       \* frames in use
          userPages,    \* frames the mapping of a process shows
          fileOffset,   \* desc->offset
          offHolder, offLevel,    \* desc->offset_lock
          moving,       \* moving[p]: bytes by which p will advance the offset
          behindEnd,    \* history: a mapping was used behind the file's end
          appended,     \* history: all bytes written, while nobody has moved
          seeked        \* the offset or changed the length otherwise

fileVars == <<bufOwner, bufPages, bufSize, frameByte, frames, userPages,
              fileOffset, offHolder, offLevel, moving, behindEnd, appended,
              seeked>>

Frame == 1..MaxFrames
Capacity == Len(bufPages) * PageBytes

FileByte == 0..Cardinality(FileUser)

(* The byte a user writes tells the users apart.                           *)
Mark == CHOOSE f \in [FileUser -> 1..Cardinality(FileUser)] :
            \A p, q \in FileUser : f[p] = f[q] => p = q

MemoryFileInit ==
    /\ bufOwner \in {"tmpfs", "procfs"}
    /\ bufPages = <<>> /\ bufSize = 0 /\ frames = 0 /\ userPages = <<>>
    /\ frameByte = [f \in Frame |-> [k \in 0..(PageBytes - 1) |-> 0]]
    /\ fileOffset = 0 /\ offHolder = NoUser /\ offLevel = 0
    /\ moving = [p \in FileUser |-> -1]
    /\ behindEnd = FALSE /\ appended = <<>> /\ seeked = FALSE

(* The byte at an offset of the buffer, and the frames after a store of b  *)
(* to the offsets of a set.                                                *)
ByteAt(i) == frameByte[bufPages[(i \div PageBytes) + 1]][i % PageBytes]

StoredBytes(pages, offsets, b) ==
    [f \in Frame |-> [k \in 0..(PageBytes - 1) |->
        IF \E i \in offsets : /\ pages[(i \div PageBytes) + 1] = f
                              /\ i % PageBytes = k
        THEN b[CHOOSE i \in offsets : /\ pages[(i \div PageBytes) + 1] = f
                                      /\ i % PageBytes = k]
        ELSE frameByte[f][k]]]

-----------------------------------------------------------------------------
(* grow_buf(): twice the capacity or what is asked for, in whole pages.    *)
(* The old frames are mapped at the new place, so that mappings of the     *)
(* file stay mappings of it, and everything behind the size is cleared.    *)
NewCapacity(asked) ==
    LET want == IF Capacity * 2 > asked THEN Capacity * 2 ELSE asked
        up == ((want + PageBytes - 1) \div PageBytes) * PageBytes
    IN  IF up = 0 THEN PageBytes ELSE up

GrowFits(asked) == frames + (NewCapacity(asked) - Capacity) \div PageBytes
                       <= MaxFrames

GrownPagesMoved(asked) ==
    [k \in 1..(NewCapacity(asked) \div PageBytes) |-> frames + k]

GrownPages(asked) ==
    bufPages \o [k \in 1..((NewCapacity(asked) - Capacity) \div PageBytes)
                    |-> frames + k]

(* The buffer's frames and bytes when it holds at least `end' bytes, with  *)
(* b stored at the given offsets.                                          *)
StoreBytes(end, offsets, b) ==
    IF end <= Capacity
    THEN /\ frameByte' = StoredBytes(bufPages, offsets, b)
         /\ UNCHANGED <<bufPages, frames>>
    ELSE LET pages == GrownPages(end)
             cleared == bufSize..(Len(pages) * PageBytes - 1)
         IN  /\ GrowFits(end)
             /\ bufPages' = pages
             /\ frames' = frames + Len(pages) - Len(bufPages)
             /\ frameByte' = StoredBytes(pages, offsets \cup cleared,
                    [i \in offsets \cup cleared |->
                        IF i \in offsets THEN b[i] ELSE 0])

(* growable_buf_pwrite(), growable_buf_append().                           *)
Pwrite(at, n, byte) ==
    /\ StoreBytes(at + n, at..(at + n - 1), [i \in at..(at + n - 1) |-> byte])
    /\ bufSize' = IF bufSize < at + n THEN at + n ELSE bufSize

(* growable_buf_pread(): how many bytes there are to read.                 *)
Pread(at, n) == IF at >= bufSize THEN 0
                ELSE IF at + n >= bufSize THEN bufSize - at ELSE n

(* growable_buf_truncate(): what is cut off is cleared, and so is what is  *)
(* added.                                                                  *)
TruncateKeepsTail(len) ==
    /\ StoreBytes(len, {}, [i \in {} |-> 0])
    /\ bufSize' = len

TruncateBuf(len) ==
    LET cut == IF len <= bufSize THEN len..(bufSize - 1)
               ELSE bufSize..(len - 1)
    IN  /\ StoreBytes(len, IF len <= Capacity THEN cut ELSE {},
                      [i \in cut |-> 0])
        /\ bufSize' = len

-----------------------------------------------------------------------------
(* offset_lock: mutex_lock() succeeds for the holder and when there is     *)
(* none; mutex_unlock_if_locked() of lseek() leaves the holder set.        *)
CanLockAlways(p) == TRUE

CanLock(p) == offHolder = NoUser \/ offHolder = p

(* tmpfs_read() and tmpfs_write() up to the release of the buffer's lock.  *)
TmpfsRead(p) ==
    /\ bufOwner = "tmpfs" /\ moving[p] = -1 /\ CanLock(p)
    /\ \E n \in IoCounts : moving' = [moving EXCEPT ![p] = Pread(fileOffset, n)]
    /\ offHolder' = p /\ offLevel' = offLevel + 1
    /\ seeked' = TRUE
    /\ UNCHANGED <<bufOwner, bufPages, bufSize, frameByte, frames, userPages,
                   fileOffset, behindEnd, appended>>

TmpfsWrite(p) ==
    /\ bufOwner = "tmpfs" /\ moving[p] = -1 /\ CanLock(p)
    /\ \E n \in IoCounts :
         /\ Pwrite(fileOffset, n, Mark[p])
         /\ moving' = [moving EXCEPT ![p] = n]
         /\ appended' = IF seeked THEN <<>>
                        ELSE appended \o [k \in 1..n |-> Mark[p]]
    /\ offHolder' = p /\ offLevel' = offLevel + 1
    /\ UNCHANGED <<bufOwner, userPages, fileOffset, behindEnd, seeked>>

(* The offset advances and offset_lock is released.                        *)
AdvanceOffset(p) ==
    /\ moving[p] # -1
    /\ fileOffset' = fileOffset + moving[p]
    /\ moving' = [moving EXCEPT ![p] = -1]
    /\ offLevel' = offLevel - 1
    /\ offHolder' = IF offLevel = 1 THEN NoUser ELSE offHolder
    /\ UNCHANGED <<bufOwner, bufPages, bufSize, frameByte, frames, userPages,
                   behindEnd, appended, seeked>>

(* file_description_lseek(): SEEK_SET and SEEK_END (from a size read       *)
(* earlier) store the offset without the lock, also while somebody else    *)
(* holds it; SEEK_CUR takes it, and releases it only by half.              *)
LseekSet(p) ==
    /\ bufOwner = "tmpfs" /\ moving[p] = -1
    /\ \E to \in Lengths \cup {bufSize} : fileOffset' = to
    /\ seeked' = TRUE /\ appended' = <<>>
    /\ UNCHANGED <<bufOwner, bufPages, bufSize, frameByte, frames, userPages,
                   offHolder, offLevel, moving, behindEnd>>

LseekCur(p) ==
    /\ bufOwner = "tmpfs" /\ moving[p] = -1 /\ CanLock(p)
    /\ \E by \in {-1, 1} :
         fileOffset' = IF fileOffset + by < 0 THEN fileOffset
                       ELSE fileOffset + by
    /\ fileOffset < MaxOffset
    /\ offHolder' = p /\ offLevel' = 0
    /\ seeked' = TRUE /\ appended' = <<>>
    /\ UNCHANGED <<bufOwner, bufPages, bufSize, frameByte, frames, userPages,
                   moving, behindEnd>>

(* tmpfs_truncate().                                                       *)
TmpfsTruncate ==
    /\ bufOwner = "tmpfs"
    /\ \E len \in Lengths : TruncateBuf(len)
    /\ seeked' = TRUE /\ appended' = <<>>
    /\ UNCHANGED <<bufOwner, userPages, fileOffset, offHolder, offLevel, moving,
                   behindEnd>>

(* tmpfs_mmap(), growable_buf_mmap(): a shared mapping of the whole pages  *)
(* that hold the first bytes.                                              *)
TmpfsMmap ==
    /\ bufOwner = "tmpfs" /\ userPages = <<>>
    /\ \E len \in 1..bufSize :
         userPages' = SubSeq(bufPages, 1, (len + PageBytes - 1) \div PageBytes)
    /\ UNCHANGED <<bufOwner, bufPages, bufSize, frameByte, frames, fileOffset,
                   offHolder, offLevel, moving, behindEnd, appended, seeked>>

(* A process stores a byte through its mapping.                            *)
UserStore ==
    /\ userPages # <<>>
    /\ \E i \in 0..(Len(userPages) * PageBytes - 1) :
         /\ frameByte' = StoredBytes(userPages, {i}, [j \in {i} |-> 1])
         /\ behindEnd' = (behindEnd \/ i >= bufSize)
    /\ seeked' = TRUE /\ appended' = <<>>
    /\ UNCHANGED <<bufOwner, bufPages, bufSize, frames, userPages, fileOffset,
                   offHolder, offLevel, moving>>

(* growable_buf_vsprintf(), with which procfs fills its buffers: the text  *)
(* and its final zero must fit, else the buffer grows and it is printed    *)
(* again.                                                                  *)
BufPrintf ==
    /\ bufOwner = "procfs"
    /\ \E n \in IoCounts :
         IF n < Capacity - bufSize
         THEN /\ frameByte' = StoredBytes(bufPages, bufSize..(bufSize + n - 1),
                                [i \in bufSize..(bufSize + n - 1) |-> 1])
              /\ bufSize' = bufSize + n
              /\ appended' = appended \o [k \in 1..n |-> 1]
              /\ UNCHANGED <<bufPages, frames>>
         ELSE /\ StoreBytes(NewCapacity(0), {}, [i \in {} |-> 0])
              /\ UNCHANGED <<bufSize, appended>>
    /\ UNCHANGED <<bufOwner, userPages, fileOffset, offHolder, offLevel, moving,
                   behindEnd, seeked>>

MemoryFileNext ==
    \/ \E p \in FileUser : \/ TmpfsRead(p) \/ TmpfsWrite(p) \/ AdvanceOffset(p)
                           \/ LseekSet(p) \/ LseekCur(p)
    \/ TmpfsTruncate \/ TmpfsMmap \/ UserStore \/ BufPrintf

-----------------------------------------------------------------------------
MemoryFileTypeOK ==
    /\ \A k \in DOMAIN bufPages : bufPages[k] \in 1..frames
    /\ bufSize \in 0..Capacity /\ fileOffset \in Nat /\ offLevel \in 0..2
    /\ offHolder \in FileUser \cup {NoUser}

FileContents == [i \in 1..bufSize |-> ByteAt(i - 1)]

(* The buffer implements a sparse file through every growth, truncation    *)
(* and seek: the bytes behind the size are zero although they may have     *)
(* been part of the file before, unless a mapping was used to write there. *)
Sparse == INSTANCE SparseFile WITH Byte <- FileByte, bytes <- FileContents,
            scribbled <- behindEnd, MaxLen <- MaxFrames * PageBytes

ImplementsSparseFile == Sparse!SparseSpec

(* A mapping keeps showing the file while writes and truncations make the  *)
(* buffer move to a larger place.                                          *)
MappingStaysCoherent == IsPrefix(userPages, bufPages)

(* Processes that share an open file and only write to it never overwrite  *)
(* each other: the file is all that was written, in some order.            *)
SharedWritesAppend == ~seeked => FileContents = appended
=============================================================================
