----------------------------- MODULE ImageView -----------------------------
(***************************************************************************)
(* imgview: the decoder of QOI images, which reads the file chunk by chunk *)
(* while it walks the pixels of the image and stores the visible ones in   *)
(* the frame buffer.  Source: userland/imgview.c.                          *)
(*                                                                         *)
(* The file is what any writer of the format may have produced: Encoded    *)
(* lists, from the format, the chunks that stand for the next pixels of    *)
(* the image, and the file picks one of them.  Channels are bytes.         *)
(***************************************************************************)
EXTENDS Naturals, Integers, Sequences, FiniteSets

CONSTANTS
    ImageWidth, ImageHeight,    \* header.width, header.height
    ViewWidth, ViewHeight,      \* fb_info.width, fb_info.height
    ImageColors                 \* the colours <<r, g, b, a>> of the pixels

ASSUME ImageViewAssumption ==
    /\ ImageWidth \in Nat \ {0} /\ ImageHeight \in Nat \ {0}
    /\ ViewWidth \in Nat \ {0} /\ ViewHeight \in Nat \ {0}

VARIABLES
    image,      \* the pixels the file encodes, row after row
    coder,      \* the writer: pixels encoded, the last one, its table
    view,       \* the locals of main()
    pixelsOut   \* the frame buffer: stores to *pixel, by <<row, column>>
imageVars == <<image, coder, view, pixelsOut>>

Byte256(v) == v % 256
BlackPixel == <<0, 0, 0, 255>>
ZeroPixel == <<0, 0, 0, 0>>

Hash(c) == (c[1] * 3 + c[2] * 5 + c[3] * 7 + c[4] * 11) % 64
\* index[]: a pixel never stored reads as zero (memset).
Indexed(table, h) == IF h \in DOMAIN table THEN table[h] ELSE ZeroPixel
Remember(table, c) == [h \in DOMAIN table \cup {Hash(c)} |->
                        IF h = Hash(c) THEN c ELSE table[h]]

-----------------------------------------------------------------------------
(* The file.                                                               *)

\* The difference of two bytes as a signed number.
Delta(a, b) == Byte256(a - b + 128) - 128

\* The chunks of the format that a writer whose last pixel is prev and whose
\* table is table may use when the next pixels are next (a run may end at
\* any pixel before the colour changes).
Encoded(prev, table, next) ==
    LET c == Head(next)
        dr == Delta(c[1], prev[1])
        dg == Delta(c[2], prev[2])
        db == Delta(c[3], prev[3])
        near == /\ dr \in -2 .. 1 /\ dg \in -2 .. 1 /\ db \in -2 .. 1
        luma == /\ dg \in -32 .. 31 /\ dr - dg \in -8 .. 7 /\ db - dg \in -8 .. 7
    IN {[op |-> "rgba", arg |-> c]}
       \cup (IF c[4] = prev[4] THEN {[op |-> "rgb", arg |-> c]} ELSE {})
       \cup (IF Indexed(table, Hash(c)) = c THEN {[op |-> "index", arg |-> <<Hash(c)>>]} ELSE {})
       \cup (IF c[4] = prev[4] /\ near
             THEN {[op |-> "diff", arg |-> <<dr + 2, dg + 2, db + 2>>]} ELSE {})
       \cup (IF c[4] = prev[4] /\ luma
             THEN {[op |-> "luma", arg |-> <<dg + 32, dr - dg + 8, db - dg + 8>>]} ELSE {})
       \cup {[op |-> "run", arg |-> <<n>>] :
                n \in {k \in 0 .. Len(next) - 1 : \A i \in 1 .. k + 1 : next[i] = prev}}

\* How many pixels a chunk stands for.
PixelsOf(chunk) == IF chunk.op = "run" THEN chunk.arg[1] + 1 ELSE 1

-----------------------------------------------------------------------------
(* The decoder.                                                            *)

\* The switch over the chunk's first byte: the pixel after it.
DecodeChunk(px, table, chunk) ==
    LET a == chunk.arg
    IN CASE chunk.op = "rgb" -> <<a[1], a[2], a[3], px[4]>>
         [] chunk.op = "rgba" -> a
         [] chunk.op = "index" -> Indexed(table, a[1])
         [] chunk.op = "diff" -> <<Byte256(px[1] + a[1] - 2), Byte256(px[2] + a[2] - 2),
                                   Byte256(px[3] + a[3] - 2), px[4]>>
         [] chunk.op = "luma" -> LET vg == a[1] - 32
                                 IN <<Byte256(px[1] + vg - 8 + a[2]), Byte256(px[2] + vg),
                                      Byte256(px[3] + vg - 8 + a[3]), px[4]>>
         [] chunk.op = "run" -> px

VisibleColumns == IF ImageWidth < ViewWidth THEN ImageWidth ELSE ViewWidth
VisibleRows == IF ImageHeight < ViewHeight THEN ImageHeight ELSE ViewHeight

\* The end of the loop's body: the pixel is stored if its column is visible
\* (alpha is dropped), and a new row starts one pitch further.
StorePixel(px) ==
    pixelsOut' = IF view.x < VisibleColumns
             THEN [p \in DOMAIN pixelsOut \cup {<<view.y, view.x>>} |->
                      IF p = <<view.y, view.x>> THEN SubSeq(px, 1, 3) ELSE pixelsOut[p]]
             ELSE pixelsOut
Advance(v) == IF v.x + 1 = ImageWidth THEN [v EXCEPT !.x = 0, !.y = @ + 1]
              ELSE [v EXCEPT !.x = @ + 1]

\* A pixel of a run that is not over: nothing is read.
RunPixel ==
    /\ view.y < VisibleRows /\ view.run > 0
    /\ StorePixel(view.px)
    /\ view' = Advance([view EXCEPT !.run = @ - 1])
    /\ UNCHANGED <<image, coder>>

\* A pixel that starts a chunk: read it, decode it, remember the pixel.
RunAfterExtra(chunk) == IF chunk.op = "run" THEN chunk.arg[1] + 1 ELSE 0   \* fault
RunAfter(chunk) == IF chunk.op = "run" THEN chunk.arg[1] ELSE 0
ChunkPixel ==
    /\ view.y < VisibleRows /\ view.run = 0
    /\ LET next == SubSeq(image, coder.done + 1, Len(image))
       IN \E chunk \in Encoded(coder.prev, coder.table, next) :
            LET px == DecodeChunk(view.px, view.index, chunk)
            IN /\ StorePixel(px)
               /\ view' = Advance([view EXCEPT !.px = px, !.run = RunAfter(chunk),
                                               !.index = Remember(@, px)])
               /\ coder' = [done |-> coder.done + PixelsOf(chunk), prev |-> Head(next),
                            table |-> IF chunk.op = "run" THEN coder.table
                                      ELSE Remember(coder.table, Head(next))]
    /\ UNCHANGED image

ImageInit ==
    /\ image \in [1 .. ImageWidth * ImageHeight -> ImageColors]
    /\ coder = [done |-> 0, prev |-> BlackPixel, table |-> << >>]
    /\ view = [x |-> 0, y |-> 0, run |-> 0, px |-> BlackPixel, index |-> << >>]
    /\ pixelsOut = << >>
ImageNext == RunPixel \/ ChunkPixel

(***************************************************************************)
(* Whatever chunks the writer chose, every pixel on the screen is the      *)
(* image's pixel at that place, also when runs cross the ends of rows,     *)
(* when columns right of the screen are decoded without being shown, and   *)
(* when channels wrap around; and at the end the visible part is complete. *)
(***************************************************************************)
ImageIsShown ==
    /\ \A p \in DOMAIN pixelsOut :
          pixelsOut[p] = SubSeq(image[p[1] * ImageWidth + p[2] + 1], 1, 3)
    /\ view.y = VisibleRows =>
          DOMAIN pixelsOut = (0 .. VisibleRows - 1) \X (0 .. VisibleColumns - 1)
=============================================================================
