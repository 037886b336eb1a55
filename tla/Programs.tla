------------------------------ MODULE Programs ------------------------------
(***************************************************************************)
(* Programs that read to the end of a file (userland/cat.c, cp.c, wc.c),   *)
(* fread() of the C library (lib/stdio.c), and play.c: how it loads a tune *)
(* and how it decodes it.                                                  *)
(* read() may return less than was asked for, write() to a pipe may take   *)
(* less than it was given, and both may fail.                              *)
(***************************************************************************)
EXTENDS Integers, Sequences, FiniteSets, SequencesExt

CONSTANTS BufBytes,      \* BUF_SIZE
          MaxInputBytes, \* bound: length of an input
          FreadItem,     \* size of an item fread() is asked for
          SliceLen,      \* QOA_SLICE_LEN
          MaxFrames      \* bound: frames of a tune

ASSUME ProgramsAssumption == {BufBytes, FreadItem, SliceLen} \subseteq Nat \ {0}

VARIABLES job,   \* the program that runs
          tune,  \* the tune that is decoded
          load   \* the file that is loaded: [pc, file, size, at, total, bytes, changed]

programsVars == <<job, tune, load>>

NumChannels == 2
Inputs == BoundedSeq({"a", "sp", "nl"}, MaxInputBytes)
Started(prog, input, pipe) ==
    [prog |-> prog, input |-> input, pipe |-> pipe, at |-> 0, pc |-> "read",
     buf |-> << >>, out |-> << >>, put |-> 0, short |-> FALSE, in_word |-> FALSE,
     lines |-> 0, words |-> 0, bytes |-> 0, items |-> 0]

(* cp opens its destination without O_TRUNC: what is in it stays until it  *)
(* is written over.                                                        *)
OldContents == [1 .. MaxInputBytes - 1 -> {"old"}] \cup {<< >>}
Copying(input, old) == [Started("cp", input, FALSE) EXCEPT !.out = old]

-----------------------------------------------------------------------------
(* The loop over the buffer in process_file() of wc.                       *)
CountByte(j, c) ==
    [j EXCEPT !.bytes = @ + 1, !.lines = IF c = "nl" THEN @ + 1 ELSE @,
              !.words = IF c = "a" /\ ~j.in_word THEN @ + 1 ELSE @,
              !.in_word = c = "a"]
CountBufferAnew(j, buf) ==                                    \* fault
    FoldLeft(CountByte, [j EXCEPT !.in_word = FALSE], buf)
CountBuffer(j, buf) == FoldLeft(CountByte, j, buf)

(* What one fread() asks read() for: the rest of two items.                *)
FreadBytes == 2 * FreadItem
Wanted(j) == IF j.prog = "fread" THEN FreadBytes - Len(j.out) ELSE BufBytes

ProgramReads ==
    /\ job.pc = "read"
    /\ LET rest == SubSeq(job.input, job.at + 1, Len(job.input))
       IN  \/ /\ rest = << >>
              /\ job' = [job EXCEPT !.pc = "done", !.items = Len(job.out) \div FreadItem]
           \/ /\ rest # << >>
              /\ \E n \in 1 .. Wanted(job) :
                   /\ n <= Len(rest)
                   /\ LET buf == SubSeq(rest, 1, n)
                          j == [job EXCEPT !.at = @ + n]
                      IN job' = CASE j.prog = "wc" -> CountBuffer(j, buf)
                                  [] j.prog = "fread" ->
                                       LET out == j.out \o buf
                                       IN [j EXCEPT !.out = out,
                                             !.items = Len(out) \div FreadItem,
                                             !.pc = IF Len(out) < FreadBytes
                                                    THEN "read" ELSE "done"]
                                  [] OTHER -> [j EXCEPT !.buf = buf, !.pc = "write"]
    /\ UNCHANGED <<tune, load>>

(* What a file or a pipe holds once bytes are written at an offset.        *)
WrittenAt(out, at, bytes) ==
    SubSeq(out, 1, at) \o bytes \o SubSeq(out, at + Len(bytes) + 1, Len(out))

(* The copy loops do not look at how much write() took.                    *)
ProgramWrites ==
    /\ job.pc = "write"
    /\ \E n \in 1 .. Len(job.buf) :
         /\ ~job.pipe => n = Len(job.buf)
         /\ job' = [job EXCEPT !.pc = "read", !.put = @ + n,
                               !.out = WrittenAt(@, job.put, SubSeq(job.buf, 1, n)),
                               !.buf = << >>, !.short = @ \/ n < Len(job.buf)]
    /\ UNCHANGED <<tune, load>>

(* An error ends the program; fread() returns what it has.                 *)
ProgramFails ==
    /\ job.pc \in {"read", "write"}
    /\ job' = [job EXCEPT !.pc = "failed", !.items = Len(job.out) \div FreadItem]
    /\ UNCHANGED <<tune, load>>

-----------------------------------------------------------------------------
(* main() of play.c asks stat() for the size, gets that much memory and    *)
(* reads until it has so many bytes, always to the beginning of it.        *)
SmallestTune == 2                      \* QOA_MIN_FILESIZE
Loading(file) ==
    [pc |-> "stat", file |-> file, size |-> 0, at |-> 0, total |-> 0,
     bytes |-> << >>, changed |-> FALSE]
NoLoad == [Loading(<< >>) EXCEPT !.pc = "none"]
PlayStat ==
    /\ load.pc = "stat"
    /\ LET n == Len(load.file)
       IN load' = IF n < SmallestTune THEN [load EXCEPT !.pc = "failed"]
                  ELSE [load EXCEPT !.pc = "read", !.size = n,
                                    !.bytes = [k \in 1 .. n |-> 0]]
    /\ UNCHANGED <<job, tune>>

LoadReads ==
    LET there == Len(load.file) - load.at
        n == IF there < 0 THEN 0 ELSE IF there > load.size THEN load.size ELSE there
    IN [load EXCEPT !.at = @ + n, !.total = @ + n,
          !.bytes = [k \in DOMAIN @ |-> IF k <= n THEN load.file[load.at + k] ELSE @[k]],
          !.pc = IF load.total + n < load.size THEN "read" ELSE "loaded"]
PlayRead ==
    /\ load.pc = "read"
    /\ load' \in {LoadReads, [load EXCEPT !.pc = "failed"]}
    /\ UNCHANGED <<job, tune>>

(* Another process truncates the file, or writes behind its end, once.     *)
OtherChangesFile ==
    /\ load.pc \in {"stat", "read"} /\ ~load.changed
    /\ \E n \in 0 .. Len(load.file) + 1 :
         load' = [load EXCEPT !.changed = load.pc = "read",
                    !.file = IF n <= Len(@) THEN SubSeq(@, 1, n) ELSE Append(@, n)]
    /\ load.pc = "stat" => Len(load'.file) <= MaxInputBytes
    /\ UNCHANGED <<job, tune>>

-----------------------------------------------------------------------------
(* The decoder of play.c.  A tune says how many samples it has per channel *)
(* and holds frames, each of which says how many samples it has; a frame   *)
(* is a sequence of slices for each channel.                               *)
ClampUp(v, max) == IF v > max THEN max ELSE v

(* The indices of `samples' that the slice from i on of channel c fills.   *)
SliceSamplesWhole(n, i, c) ==                                 \* fault
    {NumChannels * k + c : k \in i .. i + SliceLen - 1}
SliceSamples(n, i, c) ==
    {NumChannels * k + c : k \in i .. ClampUp(i + SliceLen, n) - 1}

DecodeFrame ==
    /\ tune.sample_idx < NumChannels * tune.num_samples
    /\ LET n == Head(tune.frames)
           slices == {i \in 0 .. n - 1 : i % SliceLen = 0}
           times(s) == Cardinality({x \in slices \X (0 .. NumChannels - 1) :
                          s - tune.sample_idx \in SliceSamples(n, x[1], x[2])})
       IN tune' = [tune EXCEPT
             !.frames = Tail(@),
             !.sample_idx = @ + n * NumChannels,
             !.filled = [s \in DOMAIN @ |-> @[s] + times(s)]]
    /\ UNCHANGED <<job, load>>

-----------------------------------------------------------------------------
(* A well-formed tune: full frames and one that may be shorter.            *)
FullFrame == 2 * SliceLen
Tune(full, last) ==
    LET n == full * FullFrame + last
    IN [num_samples |-> n, sample_idx |-> 0,
        frames |-> [k \in 1 .. full |-> FullFrame] \o <<last>>,
        filled |-> [s \in 0 .. NumChannels * (n + SliceLen) |-> 0]]

(* A program copies or counts, or a tune is decoded, or it is loaded.      *)
NoJob == [Started("cat", << >>, FALSE) EXCEPT !.pc = "none"]
NoTune == Tune(0, 1)
ProgramsInit ==
    \/ /\ job \in {Started(prog, input, pipe) : prog \in {"cat", "wc", "fread"},
                   input \in Inputs, pipe \in BOOLEAN}
                \cup {Copying(input, old) : input \in Inputs, old \in OldContents}
       /\ tune = NoTune /\ load = NoLoad
    \/ /\ tune \in {Tune(full, last) : full \in 0 .. MaxFrames, last \in 1 .. FullFrame}
       /\ job = NoJob /\ load = NoLoad
    \/ /\ load \in {Loading([k \in 1 .. n |-> k]) : n \in 0 .. MaxInputBytes}
       /\ job = NoJob /\ tune = NoTune

ProgramsNext == \/ ProgramReads \/ ProgramWrites \/ ProgramFails
                \/ DecodeFrame \/ PlayStat \/ PlayRead \/ OtherChangesFile

-----------------------------------------------------------------------------
CountOf(in, P(_)) == Cardinality({i \in DOMAIN in : P(i)})

(* However the reads cut the input into pieces, wc counts what is there,   *)
(* fread() returns the first items of it, and what cat or cp wrote is the  *)
(* input; only behind a pipe that took less than it was given are bytes    *)
(* missing, and only what cp found in a longer destination is still behind *)
(* them (cat.c:62, cp.c:59, 76, wc.c:73, stdio.c:207).                     *)
PiecesMakeNoDifference ==
    job.pc = "done" =>
      LET in == job.input
      IN CASE job.prog = "wc" ->
              /\ job.bytes = Len(in)
              /\ job.lines = CountOf(in, LAMBDA i : in[i] = "nl")
              /\ job.words = CountOf(in, LAMBDA i : in[i] = "a" /\
                                       (i = 1 \/ in[i - 1] # "a"))
           [] job.prog = "fread" ->
              /\ job.out = SubSeq(in, 1, ClampUp(Len(in), FreadBytes))
              /\ job.items = Len(job.out) \div FreadItem
           [] OTHER -> IF job.short THEN Len(job.out) < Len(in)
                       ELSE /\ SubSeq(job.out, 1, Len(in)) = in
                            /\ \A k \in Len(in) + 1 .. Len(job.out) :
                                 job.prog = "cp" /\ job.out[k] = "old"

(* play has the whole file once it stops reading, and goes on for ever     *)
(* only on a file that others made shorter since stat() (play.c:168).      *)
PlayLoadsTheFile ==
    ~load.changed => /\ load.pc = "loaded" => load.bytes = load.file
                     /\ load.pc = "read" => load.at < Len(load.file)

(* A well-formed tune is decoded whole: every sample is written once, and  *)
(* none behind the buffer (play.c:239, 251).                               *)
EverySampleIsDecoded ==
    tune.sample_idx = NumChannels * tune.num_samples =>
      /\ \A s \in DOMAIN tune.filled :
           tune.filled[s] = IF s < NumChannels * tune.num_samples THEN 1 ELSE 0
      /\ tune.frames = << >>
=============================================================================
