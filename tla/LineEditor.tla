----------------------------- MODULE LineEditor -----------------------------
(***************************************************************************)
(* The line editor of the shell (userland/sh.c:53): a byte read from the   *)
(* terminal edits input_buf, and when that leaves the line dirty it is     *)
(* drawn again, scrolled horizontally when it does not fit.  The terminal  *)
(* is the row the prompt is on.  input_buf is kept as the array of bytes   *)
(* it is, because the line is handed on as a string that ends at the first *)
(* zero.  isprint() holds of every byte but the control bytes named here.  *)
(***************************************************************************)
EXTENDS Integers, Sequences

CONSTANTS EditorByte,
          BUF_SIZE,       \* of input_buf and of param_buf
          EditorParams,   \* bound: parameter bytes in an escape sequence
          terminal_width,
          prompt_len      \* of the current directory, with " $ "

(* The arithmetic on size_t assumes that the prompt fits on the row.       *)
ASSUME LineEditorAssumption ==
    /\ BUF_SIZE \in Nat \ {0} /\ EditorParams \in Nat
    /\ terminal_width \in Nat /\ prompt_len \in 1 .. terminal_width - 1

VARIABLES ed,     \* struct line_editor
          row,    \* the columns of the terminal row
          tcol    \* the terminal's cursor

editorVars == <<ed, row, tcol>>

Nul == "nul"
Offset == 0 .. BUF_SIZE - 1
Control == {"esc", "lf", "bs", "^U", "^D", "^L"}
ExitWord == <<"e", "x", "i", "t">>

BlankEditor == [input_buf |-> [i \in Offset |-> Nul], input_len |-> 0,
                cursor |-> 0, state |-> "ground", dirty |-> TRUE,
                param |-> << >>]

-----------------------------------------------------------------------------
(* The bytes of the line.                                                  *)

Insert(e, c) ==
    [e EXCEPT !.input_buf = [i \in Offset |->
                  IF i = e.cursor THEN c
                  ELSE IF i \in e.cursor + 1 .. e.input_len
                       THEN e.input_buf[i - 1] ELSE e.input_buf[i]],
              !.cursor = @ + 1, !.input_len = @ + 1, !.dirty = TRUE]

(* The byte at offset k goes; the last one is overwritten with zero.       *)
RemoveLeavesTail(e, k) ==                                     \* fault
    [e EXCEPT !.input_buf = [i \in Offset |->
                  IF i \in k .. e.input_len - 2
                  THEN e.input_buf[i + 1] ELSE e.input_buf[i]],
              !.input_len = @ - 1, !.dirty = TRUE]
RemoveByte(e, k) ==
    [e EXCEPT !.input_buf = [i \in Offset |->
                  IF i \in k .. e.input_len - 2 THEN e.input_buf[i + 1]
                  ELSE IF i = e.input_len - 1 THEN Nul ELSE e.input_buf[i]],
              !.input_len = @ - 1, !.dirty = TRUE]

EditGround(e, c) ==
    CASE c \notin Control -> Insert(e, c)
      [] c = "esc" -> [e EXCEPT !.state = "esc"]
      [] c = "lf" -> [e EXCEPT !.state = "accepted"]
      [] c = "bs" -> IF e.cursor = 0 THEN e
                     ELSE [RemoveByte(e, e.cursor - 1) EXCEPT !.cursor = @ - 1]
      [] c = "^U" -> [e EXCEPT !.input_buf = BlankEditor.input_buf,
                               !.input_len = 0, !.cursor = 0, !.dirty = TRUE]
      [] c = "^D" -> IF e.input_len = 0
                     THEN [e EXCEPT !.input_buf = [i \in Offset |->
                               IF i < Len(ExitWord) THEN ExitWord[i + 1] ELSE @[i]],
                             !.state = "accepted", !.dirty = TRUE]
                     ELSE e
      [] c = "^L" -> [e EXCEPT !.dirty = TRUE]

EditEsc(e, c) ==
    IF c = "[" THEN [e EXCEPT !.state = "csi", !.param = << >>]
               ELSE EditGround([e EXCEPT !.state = "ground"], c)

MoveTo(e, k) == [e EXCEPT !.cursor = k, !.dirty = TRUE]

(* handle_csi_vt(): the number before "~", of which the digits "1" (home), *)
(* "4" (end) and "3" (delete) are used.                                    *)
EditVt(e) ==
    CASE e.param = <<"1">> -> MoveTo(e, 0)
      [] e.param = <<"4">> -> MoveTo(e, e.input_len)
      [] e.param = <<"3">> -> IF e.cursor < e.input_len
                              THEN RemoveByte(e, e.cursor) ELSE e
      [] OTHER -> e

EditCsi(e, c) ==
    IF c \in Control \cup {"1", "3", "4"}
    THEN [e EXCEPT !.param = Append(@, c)]
    ELSE [(CASE c = "C" -> IF e.cursor < e.input_len
                           THEN MoveTo(e, e.cursor + 1) ELSE e
             [] c = "D" -> IF e.cursor > 0 THEN MoveTo(e, e.cursor - 1) ELSE e
             [] c = "H" -> MoveTo(e, 0)
             [] c = "F" -> MoveTo(e, e.input_len)
             [] c = "~" -> EditVt(e)
             [] OTHER -> e) EXCEPT !.state = "ground"]

Edit(e, c) == CASE e.state = "ground" -> EditGround(e, c)
                [] e.state = "esc" -> EditEsc(e, c)
                [] e.state = "csi" -> EditCsi(e, c)

-----------------------------------------------------------------------------
(* The loop of read_input() draws a dirty line: the prompt, `len' bytes    *)
(* from `first' on, and blanks behind them if they were asked for.         *)

Smaller(a, b) == IF a < b THEN a ELSE b

DrawnWindow(e) ==
    LET x == prompt_len + e.cursor
        atEnd == e.cursor = e.input_len /\ x > terminal_width
    IN IF x < terminal_width
       THEN [first |-> 0, cursor |-> x,
             len |-> Smaller(e.input_len, terminal_width - prompt_len),
             clear |-> prompt_len + e.input_len < terminal_width]
       ELSE [first |-> x - terminal_width + 1, cursor |-> terminal_width,
             len |-> Smaller(e.input_len, terminal_width - prompt_len + 1) - 1
                       - (IF atEnd THEN 1 ELSE 0),
             clear |-> atEnd \/ prompt_len + e.input_len < terminal_width]

DrawnRowUncleared(e, old) ==                                  \* fault
    LET w == DrawnWindow(e)
    IN [x \in 0 .. terminal_width - 1 |->
          IF x < prompt_len THEN "prompt"
          ELSE IF x - prompt_len < w.len
               THEN e.input_buf[w.first + x - prompt_len] ELSE old[x]]
DrawnRow(e, old) ==
    LET w == DrawnWindow(e)
    IN [x \in 0 .. terminal_width - 1 |->
          IF x < prompt_len THEN "prompt"
          ELSE IF x - prompt_len < w.len
               THEN e.input_buf[w.first + x - prompt_len]
               ELSE IF w.clear THEN " " ELSE old[x]]

(* "\x1b[%uG" takes a column counted from one and clamps it.               *)
Redraw(e) ==
    IF e.dirty
    THEN /\ ed' = [e EXCEPT !.dirty = FALSE]
         /\ row' = DrawnRow(e, row)
         /\ tcol' = Smaller(DrawnWindow(e).cursor, terminal_width - 1)
    ELSE /\ ed' = e
         /\ UNCHANGED <<row, tcol>>

-----------------------------------------------------------------------------
LineEditorInit ==
    /\ ed = [BlankEditor EXCEPT !.dirty = FALSE]
    /\ row = [x \in 0 .. terminal_width - 1 |->
                IF x < prompt_len THEN "prompt" ELSE " "]
    /\ tcol = prompt_len

(* Neither index is checked (sh.c:68, 153): a line or a parameter that     *)
(* leaves no room for the zero behind it runs into the rest of the struct. *)
(* What the editor does then is not followed.                              *)
FitsBuffers(e) == e.input_len < BUF_SIZE /\ Len(e.param) < BUF_SIZE

(* One byte, and the redraw before the next one is read.                   *)
EditorRead(c) ==
    /\ ed.state \notin {"accepted", "overrun"}
    /\ LET e == Edit(ed, c)
       IN /\ Len(e.param) <= EditorParams
          /\ CASE ~FitsBuffers(e) ->
                     ed' = [ed EXCEPT !.state = "overrun"] /\ UNCHANGED <<row, tcol>>
               [] FitsBuffers(e) /\ e.state = "accepted" ->
                     ed' = e /\ UNCHANGED <<row, tcol>>
               [] FitsBuffers(e) /\ e.state # "accepted" -> Redraw(e)

(* The shell runs the line and calls read_input() again, on a new row.     *)
EditorAgain ==
    /\ ed.state = "accepted"
    /\ ed' = [BlankEditor EXCEPT !.dirty = FALSE]
    /\ row' = DrawnRow(BlankEditor, [x \in DOMAIN row |-> " "])
    /\ tcol' = prompt_len

LineEditorNext == EditorAgain \/ \E c \in EditorByte : EditorRead(c)

-----------------------------------------------------------------------------
(* The string that is handed to the parser ends where the line does: no    *)
(* sequence of insertions, deletions and kills leaves a zero inside or     *)
(* bytes behind it (sh.c:66, 84, 142; "exit" replaces an empty line), as   *)
(* long as the line fits its buffer.                                       *)
LineIsTerminated ==
    /\ ed.cursor \in 0 .. ed.input_len
    /\ ed.state = "accepted" /\ ed.input_len = 0 /\ ed.input_buf[0] # Nul
         => \A i \in Offset : (ed.input_buf[i] # Nul) <=> i < Len(ExitWord)
    /\ ed.state # "accepted" \/ ed.input_len > 0
         => \A i \in Offset : (ed.input_buf[i] # Nul) <=> i < ed.input_len

(* The terminal's cursor is on the byte that the next key acts before, and *)
(* the columns to its left show the bytes before it, scrolled or not.      *)
(* Nothing drawn earlier shows through, but for one column: at the end of  *)
(* a line that just fills the row the last column is neither drawn nor     *)
(* cleared (sh.c:225, 231).                                                *)
CursorIsOnItsByte ==
    ed.state # "accepted" =>
      /\ ed.cursor < ed.input_len => row[tcol] = ed.input_buf[ed.cursor]
      /\ ed.cursor = ed.input_len =>
           prompt_len + ed.input_len = terminal_width \/ row[tcol] = " "
      /\ \A x \in prompt_len .. tcol - 1 :
           row[x] = ed.input_buf[ed.cursor - (tcol - x)]
=============================================================================
