---------------------------- MODULE Framebuffer ----------------------------
(***************************************************************************)
(* The frame buffer, /dev/fb0, and two programs that map it at the same    *)
(* time: mouse-cursor, which saves what is under the pointer, draws the    *)
(* pointer and later puts back what it saved, and window, which paints a   *)
(* window and copies its virtual frame buffer onto the screen.  Neither    *)
(* locks the screen.  Sources: kernel/graphics/fb.c, bochs.c, multiboot.c, *)
(* userland/mouse-cursor.c, userland/window.c.                             *)
(*                                                                         *)
(* The screen is a function of pixel addresses, one row every pitch        *)
(* pixels.  A step handles one row: the programs may be preempted between  *)
(* two pixels too, but what happens to one pixel does not depend on        *)
(* another one.  Distances between the parts of a window are data: the     *)
(* window is the sequence WindowOps of painting operations.                *)
(***************************************************************************)
EXTENDS Naturals, Integers, Sequences, FiniteSets

CONSTANTS
    Hardware,       \* the frame buffers a machine may have
    FbWidth, FbHeight, MultibootPitch,
    CursorWidth, CursorHeight,
    CursorMask,     \* the pairs <<x, y>> with an 'x' in mask[]
    CursorColor,
    CursorMotion,   \* the pairs <<dx, dy>> of a mouse_event
    MaxMotions,     \* bound: mouse events
    WindowOps,      \* what paint_window() and main() paint, in order
    Blank           \* the colour of a screen nobody has painted, and of
                    \* memory malloc() has just mapped

ASSUME FramebufferAssumption ==
    /\ FbWidth \in Nat \ {0} /\ FbHeight \in Nat \ {0}
    /\ MultibootPitch \in Nat /\ MultibootPitch >= FbWidth
    /\ MaxMotions \in Nat

VARIABLES
    fb_info,    \* the device's geometry, or NoFb
    screen,     \* the memory at fb_paddr
    drawn,      \* history: the memory as it would be without the pointer
    stale,      \* history: pixels painted while the pointer held a copy
    cursor,     \* mouse-cursor
    window      \* window
fbVars == <<fb_info, screen, drawn, stale, cursor, window>>

NoFb == [width |-> 0, height |-> 0, pitch |-> 0]

\* configure(): the pitch is computed from the width.
BochsConfigure(w, h) == [width |-> w, height |-> h, pitch |-> w]
\* multiboot_fb_init(): the boot loader's numbers, pitch included.
MultibootFbInit == [width |-> FbWidth, height |-> FbHeight,
                    pitch |-> MultibootPitch]
\* fb_init() prefers the Bochs device; without one there is no /dev/fb0.
FbInit(hw) == IF "bochs" \in hw THEN BochsConfigure(FbWidth, FbHeight)
              ELSE IF "multiboot" \in hw THEN MultibootFbInit ELSE NoFb

\* What open() + FBIOGET_INFO + mmap() of /dev/fb0 give: pitch * height pixels.
Pixels == 0 .. FbHeight * MultibootPitch - 1
Genbufferpos(x, y) == x + y * fb_info.pitch

SmallerOf(a, b) == IF a < b THEN a ELSE b
LargerOf(a, b) == IF a > b THEN a ELSE b

-----------------------------------------------------------------------------
(* mouse-cursor                                                            *)

CursorAt(pc) == cursor.pc = pc

\* The address of column i of row j of the rectangle the cursor covers.
CursorPixel(c, i, j) == Genbufferpos(c.x + i, c.y + j)
RowOf(c, j) == {CursorPixel(c, i, j) : i \in 0 .. c.w - 1}

\* main(): without a frame buffer the program ends, with success.
CursorStarts ==
    /\ CursorAt("start")
    /\ cursor' = [cursor EXCEPT !.pc = IF fb_info = NoFb THEN "exit" ELSE "move",
                                !.to = <<fb_info.width \div 2, fb_info.height \div 2>>]
    /\ UNCHANGED <<fb_info, screen, drawn, stale, window>>

\* The first part of move_cursor_to(): the pointer's corner stays on the
\* screen, and what sticks out to the right and below is not visible.
Clamped(v, size) == LargerOf(0, SmallerOf(size - 1, v))
Visible(v, size, wanted) == SmallerOf(wanted, size - v)
MoveCursorTo ==
    /\ CursorAt("move")
    /\ LET x == Clamped(cursor.to[1], fb_info.width)
           y == Clamped(cursor.to[2], fb_info.height)
       IN cursor' = [cursor EXCEPT !.x = x, !.y = y,
                        !.w = Visible(x, fb_info.width, CursorWidth),
                        !.h = Visible(y, fb_info.height, CursorHeight),
                        !.row = 0, !.pc = "save"]
    /\ UNCHANGED <<fb_info, screen, drawn, stale, window>>

\* One row of the loop that copies the screen to fb_buf; rows follow each
\* other at distance visible_width.
SaveRow ==
    /\ CursorAt("save")
    /\ LET done == cursor.row + 1 = cursor.h
           dest == cursor.row * cursor.w
       IN cursor' = [cursor EXCEPT
                        !.buf = [k \in DOMAIN @ |->
                            IF k - dest \in 0 .. cursor.w - 1
                            THEN screen[CursorPixel(cursor, k - dest, cursor.row)] ELSE @[k]],
                        !.row = IF done THEN 0 ELSE @ + 1,
                        !.pc = IF done THEN "draw" ELSE "save"]
    /\ UNCHANGED <<fb_info, screen, drawn, stale, window>>

\* One row of the loop that draws the pointer through its mask.
DrawRow ==
    /\ CursorAt("draw")
    /\ LET done == cursor.row + 1 = cursor.h
           inked == {CursorPixel(cursor, i, cursor.row) :
                        i \in {k \in 0 .. cursor.w - 1 : <<k, cursor.row>> \in CursorMask}}
       IN /\ screen' = [a \in Pixels |-> IF a \in inked THEN CursorColor ELSE screen[a]]
          /\ cursor' = [cursor EXCEPT !.row = IF done THEN 0 ELSE @ + 1,
                                      !.pc = IF done THEN "read" ELSE "draw"]
    /\ UNCHANGED <<fb_info, drawn, stale, window>>

\* read() of /dev/psaux returns an event; restore_fb() follows.
ReadMouse(d) ==
    /\ CursorAt("read") /\ cursor.motions < MaxMotions
    /\ cursor' = [cursor EXCEPT !.pc = "restore", !.row = 0, !.motions = @ + 1,
                     !.to = <<cursor.x + d[1], cursor.y + d[2]>>]
    /\ UNCHANGED <<fb_info, screen, drawn, stale, window>>

\* One row of restore_fb().
RestoreStrideFull(c) == CursorWidth                               \* fault
RestoreStride(c) == c.w
RestoreRow ==
    /\ CursorAt("restore")
    /\ LET done == cursor.row + 1 = cursor.h
           src(i) == cursor.row * RestoreStride(cursor) + i
           col(a) == CHOOSE i \in 0 .. cursor.w - 1 : CursorPixel(cursor, i, cursor.row) = a
       IN /\ screen' = [a \in Pixels |->
                IF a \in RowOf(cursor, cursor.row)
                THEN cursor.buf[src(col(a))] ELSE screen[a]]
          /\ cursor' = [cursor EXCEPT !.row = IF done THEN 0 ELSE @ + 1,
                                      !.pc = IF done THEN "move" ELSE "restore"]
    /\ UNCHANGED <<fb_info, drawn, stale, window>>

-----------------------------------------------------------------------------
(* window                                                                  *)

\* The pixels mouse-cursor holds a copy of: saved and not yet put back.
Held == UNION {RowOf(cursor, j) :
    j \in CASE CursorAt("save") -> 0 .. cursor.row - 1
            [] cursor.pc \in {"draw", "read"} -> 0 .. cursor.h - 1
            [] CursorAt("restore") -> cursor.row .. cursor.h - 1
            [] OTHER -> {}}

\* Stores of the colours of the function new.
Paint(new) ==
    /\ screen' = [a \in Pixels |-> IF a \in DOMAIN new THEN new[a] ELSE screen[a]]
    /\ drawn' = [a \in Pixels |-> IF a \in DOMAIN new THEN new[a] ELSE drawn[a]]
    /\ stale' = (stale \ DOMAIN new) \cup (DOMAIN new \cap Held)

WindowAt(op) == /\ window.pc <= Len(WindowOps) /\ WindowOps[window.pc].op = op
                /\ fb_info # NoFb
Op == WindowOps[window.pc]
\* One row of the operation is done; the last one ends it.
NextRow(rows) == IF window.row + 1 >= rows
                 THEN [window EXCEPT !.row = 0, !.pc = @ + 1]
                 ELSE [window EXCEPT !.row = @ + 1]

\* paint_rect(): both bounds are inclusive.
PaintRect ==
    /\ WindowAt("rect")
    /\ Paint([a \in {Genbufferpos(x, Op.y + window.row) : x \in Op.x .. Op.x + Op.w}
                |-> Op.color])
    /\ window' = NextRow(Op.h + 1)
    /\ UNCHANGED <<fb_info, cursor>>

\* draw_text(): the pixels of the font's bitmap.
DrawText ==
    /\ WindowAt("text")
    /\ Paint([a \in {Genbufferpos(Op.x + i, Op.y + window.row) : i \in Op.ink} |-> Op.color])
    /\ window' = NextRow(Op.h)
    /\ UNCHANGED <<fb_info, cursor>>

\* draw_tga(): its rows are fb_width apart, not pitch apart.
DrawTga ==
    /\ WindowAt("tga")
    /\ Paint([a \in {Op.x + i + (Op.y + window.row) * fb_info.width : i \in 0 .. Op.w - 1}
                |-> Op.color])
    /\ window' = NextRow(Op.h)
    /\ UNCHANGED <<fb_info, cursor>>

\* init_vfb() of the index get_free_vfb_index() returned (the program has
\* one window): fresh memory.  draw_to_vfb() and translate_vfb() change it.
Vfb(op) == [x |-> op.x, y |-> op.y,
            data |-> [p \in (0 .. op.w - 1) \X (0 .. op.h - 1) |-> Blank]]
InitVfb ==
    /\ WindowAt("init_vfb")
    /\ window' = [window EXCEPT !.vfb = Vfb(Op), !.pc = @ + 1]
    /\ UNCHANGED <<fb_info, screen, drawn, stale, cursor>>
DrawToVfb ==
    /\ WindowAt("plot")
    /\ window' = [window EXCEPT !.vfb.data[<<Op.x, Op.y>>] = Op.color, !.pc = @ + 1]
    /\ UNCHANGED <<fb_info, screen, drawn, stale, cursor>>

\* One row of copy_to_physfb().
CopyToPhysfb ==
    /\ WindowAt("copy")
    /\ LET vfb == window.vfb
           cols == {p[1] : p \in DOMAIN vfb.data}
           addr(x) == Genbufferpos(vfb.x + x, vfb.y + window.row)
           col(a) == CHOOSE x \in cols : addr(x) = a
       IN /\ Paint([a \in {addr(x) : x \in cols} |-> vfb.data[<<col(a), window.row>>]])
          /\ window' = NextRow(Cardinality({p[2] : p \in DOMAIN vfb.data}))
    /\ UNCHANGED <<fb_info, cursor>>

-----------------------------------------------------------------------------
FbStart ==
    /\ screen = [a \in Pixels |-> Blank] /\ drawn = screen /\ stale = {}
    /\ cursor = [pc |-> "start", x |-> 0, y |-> 0, w |-> 0, h |-> 0, row |-> 0,
                 buf |-> [k \in 0 .. CursorWidth * CursorHeight - 1 |-> Blank], to |-> <<0, 0>>, motions |-> 0]
    /\ window = [pc |-> 1, row |-> 0, vfb |-> [x |-> 0, y |-> 0, data |-> << >>]]
FramebufferInit == /\ \E hw \in SUBSET Hardware : fb_info = FbInit(hw)
                   /\ FbStart
FramebufferNext ==
    \/ CursorStarts \/ MoveCursorTo \/ SaveRow \/ DrawRow \/ RestoreRow
    \/ \E d \in CursorMotion : ReadMouse(d)
    \/ PaintRect \/ DrawText \/ DrawTga \/ InitVfb \/ DrawToVfb \/ CopyToPhysfb

(***************************************************************************)
(* The pointer leaves no trace: whatever the two programs interleave, and  *)
(* wherever the pointer is clamped at the border, every pixel shows what   *)
(* was painted last, or the pointer on the pixels of its mask, and every   *)
(* saved pixel is what was painted last.  The only exceptions are pixels   *)
(* painted while mouse-cursor held a copy of them, which it overwrites     *)
(* with the older copy (mouse-cursor.c:112, nothing locks the screen).     *)
(***************************************************************************)
Inked(j) == {CursorPixel(cursor, i, j) :
                i \in {k \in 0 .. cursor.w - 1 : <<k, j>> \in CursorMask}}
PointerOn == UNION {Inked(j) :
    j \in CASE CursorAt("draw") -> 0 .. cursor.row - 1
            [] CursorAt("read") -> 0 .. cursor.h - 1
            [] CursorAt("restore") -> cursor.row .. cursor.h - 1
            [] OTHER -> {}}
CursorLeavesNoTrace ==
    /\ \A a \in Pixels \ stale :
          screen[a] = IF a \in PointerOn THEN CursorColor ELSE drawn[a]
    /\ cursor.pc \in {"draw", "read"} =>
          \A j \in 0 .. cursor.h - 1, i \in 0 .. cursor.w - 1 :
             LET a == CursorPixel(cursor, i, j)
             IN /\ a \in Pixels
                /\ a \notin stale => cursor.buf[j * cursor.w + i] = drawn[a]
=============================================================================
