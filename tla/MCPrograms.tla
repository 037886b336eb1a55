----------------------------- MODULE MCPrograms -----------------------------
(***************************************************************************)
(* Small instances of the programs and the library, of the devices they    *)
(* read from and draw on, and of the kernel's heap, with the library's.  A *)
(* behaviour is one of exactly one component, named by `part'; the         *)
(* variables of the others stay as they are at the beginning.  The         *)
(* components share no variable.                                           *)
(***************************************************************************)
EXTENDS Input, Console, ExecArgs, LineEditor, ShellParser, CLib, Calendar, Programs,
        ImageView, Framebuffer, UserHeap, Heap

VARIABLE part

In(p) == part = p

-----------------------------------------------------------------------------
(* Values for the constants, and what the parts that do not run begin with. *)
ProgramSearches == {<<"missing", "program", "denied">>,
                    <<"missing", "denied", "program">>, <<"missing">>}
MouseMotion == {[dx |-> -1, dy |-> 255, over |-> FALSE, buttons |-> 5],
                [dx |-> -256, dy |-> -256, over |-> FALSE, buttons |-> 0],
                [dx |-> 7, dy |-> -3, over |-> TRUE, buttons |-> 1]}

(* Nothing orders the readers of a device, nor the threads of the heap,    *)
(* which have their names and are reduced with them.                       *)
ReaderSymmetry == Permutations(InputReader)

Colors == {<<0, 0, 0, 255>>, <<1, 254, 0, 255>>, <<235, 240, 230, 255>>, <<0, 0, 0, 0>>}
Arrow == {<<0, 0>>, <<1, 0>>, <<0, 1>>}
Motions == {<<1, 0>>, <<-2, 1>>, <<0, -2>>}
Painted ==
    << [op |-> "rect", x |-> 0, y |-> 0, w |-> 1, h |-> 1, color |-> "grey"],
       [op |-> "text", x |-> 0, y |-> 0, ink |-> {1}, h |-> 1, color |-> "white"],
       [op |-> "tga", x |-> 1, y |-> 0, w |-> 1, h |-> 2, color |-> "red"],
       [op |-> "init_vfb", x |-> 1, y |-> 1, w |-> 1, h |-> 2],
       [op |-> "copy"],
       [op |-> "plot", x |-> 0, y |-> 1, color |-> "white"],
       [op |-> "copy"] >>
FirstYear == CHOOSE y \in StartYears : \A z \in StartYears : y <= z
BlackImage == [i \in 1 .. ImageWidth * ImageHeight |-> BlackPixel]
NoLine == [line |-> <<"nul">>, at |-> 1, result |-> "unparsed", node |-> Null, mem |-> 0,
           input |-> << >>]
NoArgs == [argv |-> << >>, envp |-> << >>, stack |-> CHOOSE n \in StackSizes : TRUE,
           path |-> CHOOSE s \in SearchPaths : TRUE]

-----------------------------------------------------------------------------
ProgramInit ==
    /\ part \in {"input", "console", "exec", "editor", "parser", "library",
                 "calendar", "programs", "image", "screen", "malloc", "heap"}
    /\ ConsoleInit /\ LineEditorInit /\ CLibInit /\ UserHeapInit /\ HeapInit
    /\ InputInit /\ (~In("input") => feed = "mouse")
    /\ CalendarInit /\ (~In("calendar") => day.y = FirstYear)
    /\ FramebufferInit /\ (~In("screen") => fb_info = NoFb)
    /\ IF In("exec") THEN TRUE ELSE args = NoArgs
    /\ ExecInit
    /\ IF In("programs") THEN ProgramsInit
       ELSE job = NoJob /\ tune = NoTune /\ load = NoLoad
    /\ IF In("image") THEN TRUE ELSE image = BlackImage
    /\ ImageInit
    /\ IF In("parser") THEN ShellParserInit ELSE parsed = NoLine

programVars == <<part, inputVars, conVars, execVars, editorVars, parserVars,
                 libVars, calendarVars, programsVars, imageVars, fbVars,
                 userHeapVars, heapVars>>

(* What has come to its end, or used up its bounds.                        *)
Finished == UNCHANGED programVars

ProgramNext ==
    /\ UNCHANGED part
    /\ \/ In("input") /\ InputNext
             /\ UNCHANGED <<conVars, execVars, editorVars, parserVars,
                           libVars, calendarVars, programsVars,
                           imageVars, fbVars, userHeapVars, heapVars>>
       \/ In("console") /\ ConsoleNext
             /\ UNCHANGED <<inputVars, execVars, editorVars, parserVars,
                           libVars, calendarVars, programsVars,
                           imageVars, fbVars, userHeapVars, heapVars>>
       \/ In("exec") /\ ExecNext
             /\ UNCHANGED <<inputVars, conVars, editorVars, parserVars,
                           libVars, calendarVars, programsVars,
                           imageVars, fbVars, userHeapVars, heapVars>>
       \/ In("editor") /\ LineEditorNext
             /\ UNCHANGED <<inputVars, conVars, execVars, parserVars,
                           libVars, calendarVars, programsVars,
                           imageVars, fbVars, userHeapVars, heapVars>>
       \/ In("parser") /\ ShellParserNext
             /\ UNCHANGED <<inputVars, conVars, execVars, editorVars,
                           libVars, calendarVars, programsVars,
                           imageVars, fbVars, userHeapVars, heapVars>>
       \/ In("library") /\ CLibNext
             /\ UNCHANGED <<inputVars, conVars, execVars, editorVars,
                           parserVars, calendarVars, programsVars,
                           imageVars, fbVars, userHeapVars, heapVars>>
       \/ In("calendar") /\ NextDay
             /\ UNCHANGED <<inputVars, conVars, execVars, editorVars,
                           parserVars, libVars, programsVars, imageVars,
                           fbVars, userHeapVars, heapVars>>
       \/ In("programs") /\ ProgramsNext
             /\ UNCHANGED <<inputVars, conVars, execVars, editorVars,
                           parserVars, libVars, calendarVars, imageVars,
                           fbVars, userHeapVars, heapVars>>
       \/ In("image") /\ ImageNext
             /\ UNCHANGED <<inputVars, conVars, execVars, editorVars,
                           parserVars, libVars, calendarVars,
                           programsVars, fbVars, userHeapVars, heapVars>>
       \/ In("screen") /\ FramebufferNext
             /\ UNCHANGED <<inputVars, conVars, execVars, editorVars,
                           parserVars, libVars, calendarVars,
                           programsVars, imageVars, userHeapVars, heapVars>>
       \/ In("malloc") /\ UserHeapNext
             /\ UNCHANGED <<inputVars, conVars, execVars, editorVars,
                           parserVars, libVars, calendarVars,
                           programsVars, imageVars, fbVars, heapVars>>
       \/ In("heap") /\ HeapNext
             /\ UNCHANGED <<inputVars, conVars, execVars, editorVars,
                           parserVars, libVars, calendarVars,
                           programsVars, imageVars, fbVars, userHeapVars>>
       \/ Finished

ProgramSpec == ProgramInit /\ [][ProgramNext]_programVars

-----------------------------------------------------------------------------
(* What the devices send arrives: the rings lose nothing but whole laps,   *)
(* modifiers follow the keys and events the mouse (ring_buf.c:91,          *)
(* keyboard.c:286, mouse.c:71).                                            *)
InputArrives == In("input") => /\ RingsLoseWholeLaps /\ ModifiersMatchKeys
                               /\ MotionArrives

(* The line that was edited is the line that is run: it ends where it      *)
(* seems to, the cursor is where it acts, exactly the command lines are    *)
(* accepted and their words become the arguments (sh.c:66, 225, 485).      *)
LinesAreUnderstood ==
    /\ In("editor") => LineIsTerminated /\ CursorIsOnItsByte
    /\ In("parser") => ParserAcceptsCommandLines /\ WordsAreStrings

(* The functions of the library compute what they are for: copies, sorted  *)
(* arrays, words, printed strings and dates, and blocks of memory that     *)
(* nobody else has (string.c:51, common/stdlib.c:30, cmdline.c:57,         *)
(* stdio.c:101, time.c:74, lib/stdlib.c:108).                              *)
LibraryIsRight ==
    /\ In("library") => /\ MemmoveIsSimultaneous /\ QsortSorts
                        /\ CmdlineIsItsWords /\ PrintfStaysInside
    /\ In("malloc") => UserBlocksAreSound
    /\ In("calendar") => DatesRoundTrip

(* What is read is what is shown or played: bytes in whatever pieces,      *)
(* samples, pixels, and the screen below the pointer (cat.c:62, wc.c:73,   *)
(* play.c:239, imgview.c, mouse-cursor.c:112).  The screen of a terminal   *)
(* shows the cells after each write, and every cell can be drawn, whatever *)
(* escape sequences were written (fb_console.c:104, 365).                  *)
ContentsArriveWhole ==
    /\ In("console") => FlushedScreenIsCurrent /\ NextByteIsDrawable
    /\ In("programs") => /\ PiecesMakeNoDifference
                         /\ PlayLoadsTheFile /\ EverySampleIsDecoded
    /\ In("image") => ImageIsShown
    /\ In("screen") => CursorLeavesNoTrace
=============================================================================
