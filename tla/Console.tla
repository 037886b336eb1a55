------------------------------- MODULE Console ------------------------------
(***************************************************************************)
(* The output half of the framebuffer console (kernel/console/             *)
(* fb_console.c): a write feeds its bytes, one at a time and under a       *)
(* mutex, to a parser of escape sequences that edits an array of cells,    *)
(* and at the end redraws the lines that were marked dirty.  What is on    *)
(* the screen is kept apart (`shown') from what the cells hold.  The whole *)
(* state of the parser is one record, because a byte may move the cursor   *)
(* several times.                                                          *)
(*                                                                         *)
(* Bytes are names: "x" any other printable byte, "hi" a byte above 127.   *)
(* "lf" moves the cursor below the last line without scrolling, so the     *)
(* cursor may be off the screen; the marks and the erasures that then land *)
(* behind line_is_dirty and cells change memory that is not modelled.      *)
(***************************************************************************)
EXTENDS Integers, Sequences, FiniteSets, SequencesExt

CONSTANTS console_width, console_height, TAB_STOP,
          ConsoleByte,     \* the bytes that are written
          MaxParams,       \* bound: bytes between ESC [ and the final one, < 1024
          MaxBelow,        \* bound: lines the cursor goes below the screen
          MaxWritten       \* bound: bytes of all the writes

ASSUME ConsoleAssumption ==
    /\ console_width \in Nat \ {0} /\ console_height \in Nat \ {0}
    /\ TAB_STOP \in Nat \ {0}
    /\ {MaxParams, MaxBelow, MaxWritten} \subseteq Nat

VARIABLES con,        \* the parser, the cursor and the cells
          shown,      \* what the last flush left on the screen
          conWriter,  \* "idle" or "writing": somebody holds the lock
          written     \* bytes so far

conVars == <<con, shown, conWriter, written>>

Column == 0 .. console_width - 1
Line == 0 .. console_height - 1
DEFAULT_FG_COLOR == 7
DEFAULT_BG_COLOR == 0
Cell == [ch : {" ", "x"}, fg : 0 .. 15, bg : 0 .. 15]

-----------------------------------------------------------------------------
(* The cells.                                                              *)

SetCursorNewLineOnly(c, x, y) ==                              \* fault
    [c EXCEPT !.stomp = FALSE, !.dirty = @ \cup ({y} \cap Line),
              !.x = x, !.y = y]
SetCursor(c, x, y) ==
    [c EXCEPT !.stomp = FALSE, !.dirty = @ \cup ({c.y, y} \cap Line),
              !.x = x, !.y = y]

(* clear_line_at(): the columns X of line y.                               *)
ClearLine(c, X, y) ==
    [c EXCEPT !.cells = [p \in DOMAIN @ |->
                           IF p[1] = y /\ p[2] \in X
                           THEN [ch |-> " ", fg |-> c.fg, bg |-> c.bg]
                           ELSE @[p]],
              !.dirty = @ \cup ({y} \cap Line)]

ClearLines(c, Y) ==
    [c EXCEPT !.cells = [p \in DOMAIN @ |->
                           IF p[1] \in Y
                           THEN [ch |-> " ", fg |-> c.fg, bg |-> c.bg]
                           ELSE @[p]],
              !.dirty = @ \cup (Y \cap Line)]

ClearScreen(c) == [ClearLines(c, Line) EXCEPT !.whole = TRUE]

WriteCharAt(c, b) ==
    [c EXCEPT !.cells[c.y, c.x] = [ch |-> b, fg |-> c.fg, bg |-> c.bg],
              !.dirty = @ \cup {c.y}]

ScrollUp(c) ==
    LET moved == [c EXCEPT !.cells = [p \in DOMAIN @ |->
                      IF p[1] + 1 \in Line THEN @[p[1] + 1, p[2]] ELSE @[p]]]
    IN [ClearLine(moved, Column, console_height - 1) EXCEPT !.dirty = Line]

(* flush_cell_at(): the cursor is drawn as its cell with the two colours   *)
(* exchanged.                                                              *)
Drawn(c, p) ==
    IF c.visible /\ p = <<c.y, c.x>>
    THEN [c.cells[p] EXCEPT !.fg = c.cells[p].bg, !.bg = c.cells[p].fg]
    ELSE c.cells[p]

-----------------------------------------------------------------------------
(* Plain bytes.                                                            *)

RightEdge(c) ==
    IF c.x >= console_width
    THEN [SetCursor(c, console_width - 1, c.y) EXCEPT !.stomp = TRUE]
    ELSE c

PutChar(c, b) ==
    LET wrapped == IF c.stomp THEN SetCursor(c, 0, c.y + 1) ELSE c
        scrolled == IF wrapped.y >= console_height
                    THEN SetCursor(ScrollUp(wrapped), wrapped.x,
                                   console_height - 1)
                    ELSE wrapped
    IN SetCursor(WriteCharAt(scrolled, b), scrolled.x + 1, scrolled.y)

HandleGround(c, b) ==
    CASE b = "esc" -> [c EXCEPT !.state = "esc"]
      [] b = "hi"  -> c
      [] b = "cr"  -> RightEdge(SetCursor(c, 0, c.y))
      [] b = "lf"  -> RightEdge(SetCursor(c, 0, c.y + 1))
      [] b = "bs"  -> RightEdge(IF c.x > 0 THEN SetCursor(c, c.x - 1, c.y)
                                           ELSE c)
      [] b = "tab"  -> RightEdge(SetCursor(c, (c.x \div TAB_STOP + 1) * TAB_STOP,
                                          c.y))
      [] OTHER     -> RightEdge(PutChar(c, "x"))

HandleEsc(c, b) ==
    IF b = "[" THEN [c EXCEPT !.state = "csi", !.params = << >>]
               ELSE HandleGround([c EXCEPT !.state = "ground"], b)

-----------------------------------------------------------------------------
(* Control sequences.  param_buf is the sequence of the bytes after ESC [; *)
(* MaxParams keeps it within the 1024 bytes it has, which the code leaves  *)
(* to whoever writes (fb_console.c:423).                                   *)

Digit == [d \in {"0", "1", "2", "3", "4", "5", "7"} |->
            CASE d = "0" -> 0 [] d = "1" -> 1 [] d = "2" -> 2 [] d = "3" -> 3
              [] d = "4" -> 4 [] d = "5" -> 5 [] d = "7" -> 7]

(* atoi() of the string that starts at i: after white space, the digits up *)
(* to the first other byte.                                                *)
Atoi(s, i) ==
    LET from == Min({j \in i .. Len(s) : s[j] \notin {"cr", "lf", "tab"}}
                    \cup {Len(s) + 1})
        end == Min({j \in from .. Len(s) : s[j] \notin DOMAIN Digit}
                   \cup {Len(s) + 1})
    IN FoldLeft(LAMBDA n, d : 10 * n + Digit[d], 0, SubSeq(s, from, end - 1))

(* strtok_r(): the fields between semicolons, the empty ones left out.     *)
Fields(s) ==
    LET starts == {i \in DOMAIN s : /\ s[i] # ";"
                                    /\ i > 1 => s[i - 1] = ";"}
    IN [k \in 1 .. Cardinality(starts) |->
          Atoi(s, SetToSortSeq(starts, <)[k])]

Distance(c) == IF Atoi(c.params, 1) = 0 THEN 1 ELSE Atoi(c.params, 1)

(* A one-based coordinate, clamped to the screen.                          *)
Clamp(n, size) == LET z == IF n > 0 THEN n - 1 ELSE n
                  IN IF z >= size THEN size - 1 ELSE z

HandleCuu(c) == SetCursor(c, c.x, IF Distance(c) > c.y THEN 0
                                  ELSE c.y - Distance(c))
HandleCud(c) ==
    SetCursor(c, c.x, IF Distance(c) + c.y >= console_height
                      THEN console_height - 1 ELSE c.y + Distance(c))
HandleCufUnclamped(c) == SetCursor(c, c.x + Distance(c), c.y) \* fault
HandleCuf(c) ==
    SetCursor(c, IF Distance(c) + c.x >= console_width
                 THEN console_width - 1 ELSE c.x + Distance(c), c.y)
HandleCub(c) == SetCursor(c, IF Distance(c) > c.x THEN 0
                             ELSE c.x - Distance(c), c.y)
HandleCha(c) == SetCursor(c, Clamp(Atoi(c.params, 1), console_width), c.y)
HandleCup(c) ==
    LET f == Fields(c.params)
    IN SetCursor(c, Clamp(IF Len(f) >= 2 THEN f[2] ELSE 0, console_width),
                    Clamp(IF Len(f) >= 1 THEN f[1] ELSE 0, console_height))

HandleEd(c) ==
    CASE Atoi(c.params, 1) = 0 ->
           ClearLines(ClearLine(c, c.x .. console_width - 1, c.y),
                      c.y + 1 .. console_height - 1)
      [] Atoi(c.params, 1) = 1 ->
           ClearLine(ClearLines(c, 0 .. c.y - 1), 0 .. c.x, c.y)
      [] Atoi(c.params, 1) = 2 -> ClearScreen(c)
      [] OTHER -> c

HandleEl(c) ==
    CASE Atoi(c.params, 1) = 0 -> ClearLine(c, c.x .. console_width - 1, c.y)
      [] Atoi(c.params, 1) = 1 -> ClearLine(c, 0 .. c.x, c.y)
      [] Atoi(c.params, 1) = 2 -> ClearLine(c, Column, c.y)
      [] OTHER -> c

(* One parameter of a rendition; `bold' lasts until the end of the         *)
(* sequence only.                                                          *)
Rendition(r, n) ==
    LET bright == IF r.bold THEN 8 ELSE 0
    IN CASE n = 0 -> [fg |-> DEFAULT_FG_COLOR, bg |-> DEFAULT_BG_COLOR,
                      bold |-> FALSE]
         [] n = 1 -> [r EXCEPT !.bold = TRUE]
         [] n = 7 -> [r EXCEPT !.fg = r.bg, !.bg = r.fg]
         [] n = 22 -> [r EXCEPT !.fg = DEFAULT_FG_COLOR, !.bold = FALSE]
         [] n \in 30 .. 37 -> [r EXCEPT !.fg = n - 30 + bright]
         [] n = 38 -> [r EXCEPT !.fg = DEFAULT_FG_COLOR]
         [] n \in 40 .. 47 -> [r EXCEPT !.bg = n - 40 + bright]
         [] n = 48 -> [r EXCEPT !.bg = DEFAULT_BG_COLOR]
         [] n \in 90 .. 97 -> [r EXCEPT !.fg = n - 90 + 8]
         [] n \in 100 .. 107 -> [r EXCEPT !.bg = n - 100 + 8]
         [] OTHER -> r

HandleSgr(c) ==
    LET start == [fg |-> c.fg, bg |-> c.bg, bold |-> FALSE]
        nums == IF c.params = << >> THEN <<0>> ELSE Fields(c.params)
        r == FoldLeft(Rendition, start, nums)
    IN [c EXCEPT !.fg = r.fg, !.bg = r.bg]

HandleDectcem(c, b) ==
    IF c.params = <<"?", "2", "5">>
    THEN [c EXCEPT !.visible = (b = "h"), !.dirty = @ \cup ({c.y} \cap Line)]
    ELSE c

HandleCsi(c, b) ==
    IF b \in DOMAIN Digit \cup {";", "?", "hi", "esc", "cr", "lf", "bs", "tab"}
    THEN [c EXCEPT !.params = Append(@, b)]
    ELSE [(CASE b = "A" -> HandleCuu(c)
             [] b = "B" -> HandleCud(c)
             [] b = "C" -> HandleCuf(c)
             [] b = "D" -> HandleCub(c)
             [] b = "G" -> HandleCha(c)
             [] b = "H" -> HandleCup(c)
             [] b = "J" -> HandleEd(c)
             [] b = "K" -> HandleEl(c)
             [] b = "m" -> HandleSgr(c)
             [] b \in {"h", "l"} -> HandleDectcem(c, b)
             [] OTHER -> c) EXCEPT !.state = "ground"]

OnChar(c, b) ==
    CASE c.state = "ground" -> HandleGround(c, b)
      [] c.state = "esc" -> HandleEsc(c, b)
      [] c.state = "csi" -> HandleCsi(c, b)

-----------------------------------------------------------------------------
(* fb_console_init(): the screen is cleared and flushed.                   *)
ConsoleInit ==
    /\ con = [cells |-> [p \in Line \X Column |->
                [ch |-> " ", fg |-> DEFAULT_FG_COLOR, bg |-> DEFAULT_BG_COLOR]],
              dirty |-> {}, whole |-> FALSE, x |-> 0, y |-> 0,
              stomp |-> FALSE, visible |-> TRUE, fg |-> DEFAULT_FG_COLOR,
              bg |-> DEFAULT_BG_COLOR, state |-> "ground", params |-> << >>]
    /\ shown = [p \in Line \X Column |-> Drawn(con, p)]
    /\ conWriter = "idle"
    /\ written = 0

(* fb_console_device_write(), with its loop of on_char() and its flush().  *)
ConsoleLock ==
    /\ conWriter = "idle"
    /\ conWriter' = "writing"
    /\ UNCHANGED <<con, shown, written>>

ConsoleChar(b) ==
    /\ conWriter = "writing"
    /\ written < MaxWritten
    /\ con' = OnChar(con, b)
    /\ con'.y < console_height + MaxBelow
    /\ Len(con'.params) <= MaxParams
    /\ written' = written + 1
    /\ UNCHANGED <<shown, conWriter>>

Flush ==
    /\ conWriter = "writing"
    /\ shown' = [p \in DOMAIN shown |->
                   IF p[1] \in con.dirty THEN Drawn(con, p) ELSE shown[p]]
    /\ con' = [con EXCEPT !.dirty = {}, !.whole = FALSE]
    /\ conWriter' = "idle"
    /\ UNCHANGED written

ConsoleNext == ConsoleLock \/ Flush \/ \E b \in ConsoleByte : ConsoleChar(b)

-----------------------------------------------------------------------------
(* Between two writes the screen shows every cell as it is, and the cursor *)
(* where it is: no path of the parser changes a cell or moves the cursor   *)
(* without marking the lines concerned (fb_console.c:104, 172).            *)
FlushedScreenIsCurrent ==
    conWriter = "idle" => shown = [p \in DOMAIN shown |-> Drawn(con, p)]

(* The next printable byte goes into a cell and is drawn with a colour of  *)
(* the palette, whatever was written before: the column is on the screen,  *)
(* a wrap is pending only at the right edge, and the colours are two of    *)
(* the sixteen (fb_console.c:129, 147, 219, 365).                          *)
NextByteIsDrawable ==
    /\ con.x \in Column
    /\ con.stomp => con.x = console_width - 1
    /\ \A p \in DOMAIN con.cells : con.cells[p] \in Cell
=============================================================================
