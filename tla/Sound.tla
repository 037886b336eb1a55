-------------------------------- MODULE Sound -------------------------------
(***************************************************************************)
(* The sound card (kernel/ac97.c) and a program that plays (play.c).  A    *)
(* write copies one page at a time into a ring of output pages, describes  *)
(* it in the next entry of the buffer descriptor list and moves the last   *)
(* valid index; the card plays the entries from its current index to the   *)
(* last valid one, raises an interrupt after each and stops after the last *)
(* until the index moves again.  The card is external: `dma' is what the   *)
(* driver sees of it.  Buffers are numbered in the order of their copies.  *)
(***************************************************************************)
EXTENDS Integers, FiniteSets

CONSTANTS Player,
          ListEntries,   \* BUFFER_DESCRIPTOR_LIST_MAX_NUM_ENTRIES
          OutputPages,   \* OUTPUT_BUF_NUM_PAGES
          TunePages,     \* bound: pages of a decoded file
          WritePages     \* max_bytes_per_write, in pages

ASSUME SoundAssumption ==
    /\ OutputPages \in Nat \ {0} /\ ListEntries \in Nat
    /\ OutputPages < ListEntries /\ TunePages \in Nat /\ WritePages \in Nat \ {0}

VARIABLES dma,        \* [civ, lvi, on, halted, ioc]
          dma_is_running, list_is_full,
          page_idx, list_idx,
          pages,      \* pages[k]: the buffer whose samples page k holds
          list,       \* list[e]: the page of entry e, and history: its buffer
          player,     \* player[w]: [pc, left, count, dest, buf]
          copied,     \* history: buffers copied so far
          queued, played,   \* history: entries published and, until writers overlap, played
          overlapped  \* history: two writers were past the check at once

soundVars == <<dma, dma_is_running, list_is_full, page_idx, list_idx, pages,
               list, player, copied, queued, played, overlapped>>
driverVars == <<page_idx, list_idx, pages, list, copied, queued>>

SoundInit ==
    /\ dma = [civ |-> 0, lvi |-> 0, on |-> FALSE, halted |-> FALSE, ioc |-> FALSE]
    /\ dma_is_running = FALSE /\ list_is_full = FALSE
    /\ page_idx = 0 /\ list_idx = 0
    /\ pages = [k \in 0 .. OutputPages - 1 |-> 0]
    /\ list = [e \in 0 .. ListEntries |-> [page |-> 0, buf |-> 0]]
    /\ player \in [Player -> {[pc |-> "open", left |-> n, count |-> 0,
                               dest |-> 0, buf |-> 0] : n \in 1 .. TunePages}]
    /\ copied = 0 /\ queued = 0 /\ played = 0 /\ overlapped = FALSE

PlayerAt(w, pc) == player[w].pc = pc
PlayerGoes(w, pc) == player' = [player EXCEPT ![w].pc = pc]

-----------------------------------------------------------------------------
(* The card.  It finishes the buffer at the current index; the interrupt   *)
(* handler acknowledges it.  The handler overwrites the status it has read *)
(* before it looks for "halted" in it: dma_is_running stays set.           *)
DmaCompletes ==
    /\ dma.on /\ ~dma.halted
    /\ dma' = [dma EXCEPT !.ioc = TRUE,
                          !.halted = dma.civ = dma.lvi,
                          !.civ = IF @ = dma.lvi THEN @ ELSE (@ + 1) % ListEntries]
    /\ played' = IF overlapped THEN played ELSE played + 1
    /\ UNCHANGED <<dma_is_running, list_is_full, player, overlapped, driverVars>>

(* The card goes on behind the entry it stopped at.                        *)
LastValidIndexWritten(d, idx) ==
    [d EXCEPT !.lvi = idx, !.halted = FALSE,
              !.civ = IF d.on /\ d.halted THEN (@ + 1) % ListEntries ELSE @]

IrqHandlerLeavesFull == list_is_full                          \* fault
IrqHandlerClearsFull == FALSE

SoundIrqHandler ==
    /\ dma.ioc
    /\ dma' = [dma EXCEPT !.ioc = FALSE]
    /\ list_is_full' = IrqHandlerClearsFull
    /\ UNCHANGED <<dma_is_running, player, overlapped, played, driverVars>>

-----------------------------------------------------------------------------
(* start_dma(): for a card that runs it changes nothing.                   *)
StartDma(d) == [d EXCEPT !.on = TRUE]

(* main() of play.c opens the device and sets its sample rate, which all   *)
(* players share and which restarts a card that runs.  It gives up if the  *)
(* card does not take the rate.                                            *)
SetSampleRate(w) ==
    /\ PlayerAt(w, "open")
    /\ dma' = IF dma_is_running THEN StartDma(dma) ELSE dma
    /\ \/ PlayerGoes(w, "idle")
       \/ player' = [player EXCEPT ![w].pc = "idle", ![w].left = 0]
    /\ UNCHANGED <<dma_is_running, list_is_full, overlapped, played, driverVars>>

(* It writes what is left in chunks.                                       *)
PlayerWrites(w) ==
    /\ PlayerAt(w, "idle") /\ player[w].left > 0
    /\ player' = [player EXCEPT
         ![w].pc = "check",
         ![w].count = IF player[w].left > WritePages THEN WritePages
                      ELSE player[w].left]
    /\ UNCHANGED <<dma, dma_is_running, list_is_full, overlapped, played, driverVars>>

(* write_single_buffer(): with interrupts off, how far the card is behind. *)
HeadDistanceIgnoresCurrent ==                                 \* fault
    (dma.lvi - dma.civ) % ListEntries
HeadDistance == ((dma.lvi - dma.civ) % ListEntries)
                + (IF dma_is_running THEN 1 ELSE 0)

PastTheCheck == {w \in Player : player[w].pc \in {"copy", "publish"}}

WriteCheck(w) ==
    /\ PlayerAt(w, "check")
    /\ IF HeadDistance = OutputPages
       THEN /\ list_is_full' = TRUE /\ PlayerGoes(w, "blocked")
            /\ UNCHANGED <<list_idx, overlapped>>
       ELSE /\ PlayerGoes(w, "copy")
            /\ list_idx' = IF HeadDistance > OutputPages THEN dma.civ + 1
                           ELSE list_idx
            /\ overlapped' = (overlapped \/ PastTheCheck # {})
            /\ UNCHANGED list_is_full
    /\ UNCHANGED <<dma, dma_is_running, page_idx, pages, list, copied, queued,
                   played>>

(* file_description_block() returns: the loop looks again while the card   *)
(* runs, or a signal ends the write, whatever it has written already, and  *)
(* the program gives up.                                                   *)
WriteUnblocks(w) ==
    /\ PlayerAt(w, "blocked") /\ ~list_is_full
    /\ PlayerGoes(w, IF dma_is_running THEN "check" ELSE "copy")
    /\ UNCHANGED <<dma, dma_is_running, list_is_full, overlapped, played, driverVars>>

WriteInterrupted(w) ==
    /\ PlayerAt(w, "blocked")
    /\ player' = [player EXCEPT ![w].pc = "idle", ![w].left = 0, ![w].count = 0]
    /\ UNCHANGED <<dma, dma_is_running, list_is_full, overlapped, played, driverVars>>

CopyIntoPages(w) ==
    /\ PlayerAt(w, "copy")
    /\ copied' = copied + 1
    /\ pages' = [pages EXCEPT ![page_idx] = copied']
    /\ player' = [player EXCEPT ![w].pc = "publish", ![w].dest = page_idx,
                                ![w].buf = copied']
    /\ UNCHANGED <<dma, dma_is_running, list_is_full, page_idx, list_idx, list,
                   queued, played, overlapped>>

(* ac97_device_write() goes on with the next page of the chunk.            *)
WritePublish(w) ==
    /\ PlayerAt(w, "publish")
    /\ list' = [list EXCEPT ![list_idx] = [page |-> player[w].dest,
                                           buf |-> player[w].buf]]
    /\ LET d == LastValidIndexWritten(dma, list_idx)
       IN  dma' = IF dma_is_running THEN d ELSE StartDma(d)
    /\ dma_is_running' = TRUE
    /\ page_idx' = (page_idx + 1) % OutputPages
    /\ list_idx' = (list_idx + 1) % ListEntries
    /\ queued' = queued + 1
    /\ player' = [player EXCEPT ![w].pc = IF player[w].count > 1 THEN "check"
                                          ELSE "idle",
                                ![w].count = @ - 1, ![w].left = @ - 1]
    /\ UNCHANGED <<list_is_full, pages, copied, played, overlapped>>

WriteStep(w) == \/ SetSampleRate(w) \/ PlayerWrites(w) \/ WriteCheck(w) \/ WriteUnblocks(w)
                \/ CopyIntoPages(w) \/ WritePublish(w)

SoundNext == \/ DmaCompletes \/ SoundIrqHandler
             \/ \E w \in Player : WriteStep(w) \/ WriteInterrupted(w)

SoundSpec == SoundInit /\ [][SoundNext]_soundVars

(* The card plays on, interrupts are delivered and processes scheduled.    *)
SoundFairness == /\ WF_soundVars(DmaCompletes) /\ WF_soundVars(SoundIrqHandler)
                 /\ \A w \in Player : WF_soundVars(WriteStep(w))

-----------------------------------------------------------------------------
InFlight == IF dma.on /\ ~dma.halted THEN ((dma.lvi - dma.civ) % ListEntries) + 1
            ELSE 0

(* Everything written is played once, in order and unharmed: the entries   *)
(* the card has still to play are exactly the queued ones, each page among *)
(* them still holds its samples, and a copy never goes to a page that is   *)
(* being played (ac97.c:195, 201, 218), although the card moves on between *)
(* the check and the copy and dma_is_running is never reset.  It does not  *)
(* hold once two writers have passed the check together: no lock is taken. *)
TuneIsPlayed ==
    ~overlapped =>
      /\ InFlight = queued - played
      /\ \A k \in 0 .. InFlight - 1 :
           LET e == list[(dma.civ + k) % ListEntries]
           IN  /\ e.buf = played + 1 + k
               /\ pages[e.page] = e.buf
               /\ \A w \in PastTheCheck : PlayerAt(w, "copy") => e.page # page_idx

(* A writer that waits for the card is woken: it sleeps only while a       *)
(* buffer is being played, whose interrupt it cannot miss (ac97.c:190).    *)
WriterIsWoken == \A w \in Player : PlayerAt(w, "blocked") ~> ~PlayerAt(w, "blocked")
=============================================================================
