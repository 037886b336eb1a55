-------------------------------- MODULE Input -------------------------------
(***************************************************************************)
(* The input side of the terminals: the PS/2 keyboard and mouse handlers   *)
(* (kernel/hid), the serial line handler (kernel/serial.c), the rings they *)
(* fill from their interrupts, and the readers that block on them          *)
(* (fb_console.c, serial_console.c, keyboard.c, mouse.c).  A handler never *)
(* looks at read_idx: a reader that falls a whole ring behind finds it     *)
(* empty.  Handlers run with interrupts disabled, so each is one step.     *)
(*                                                                         *)
(* Scan codes and bytes are names; of the scan code tables the entries     *)
(* that the handlers tell apart are kept.                                  *)
(***************************************************************************)
EXTENDS Integers, Sequences

CONSTANTS InputReader, Nowhere,
          RingSize,       \* BUF_CAPACITY and QUEUE_SIZE
          Motion,         \* [dx, dy, over, buttons] the mouse reports
          PressedKey,     \* the keys that are used
          LineByte,       \* bytes that arrive on the serial line
          MaxInput        \* bound: interrupts

(* The three bytes of an arrow key fit into a ring.                        *)
ASSUME InputAssumption == RingSize \in Nat /\ RingSize >= 4 /\ MaxInput \in Nat

VARIABLES feed,       \* which of the three devices is used in this behaviour
          ring,       \* ring[d] = [mem, read_idx, write_idx]
          all, seen,  \* history: all that went into ring[d], how much was read
          wire,       \* bytes the PS/2 controller has not delivered yet
          held,       \* history: the keys that are down
          e0, kstate, \* keyboard.c: received_e0, state
          mbuf,       \* mouse.c: the packet so far; its length is `state'
          moved,      \* history: the motions that were reported
          signals,    \* SIGINTs sent to the foreground group
          inputs,     \* interrupts so far
          reader      \* reader[r] = [at, dev, count]

inputVars == <<feed, ring, all, seen, wire, held, e0, kstate, mbuf, moved,
               signals, inputs, reader>>

Ring == {"console", "keyboard", "mouse", "com1", "com3"}
RingOf == [keyboard |-> {"console", "keyboard"}, mouse |-> {"mouse"},
           serial |-> {"com1", "com3"}]
NextIdx(i) == (i + 1) % RingSize
Level(d) == (ring[d].write_idx + RingSize - ring[d].read_idx) % RingSize

-----------------------------------------------------------------------------
(* The rings.                                                              *)

(* ring_buf_write_evicting_oldest() and the queues of the handlers: the    *)
(* items xs go in, whatever is there.                                      *)
PutOne(b, x) == [b EXCEPT !.mem[b.write_idx] = x, !.write_idx = NextIdx(@)]

PutAll(b, xs) ==
    LET f[i \in 0 .. Len(xs)] == IF i = 0 THEN b ELSE PutOne(f[i - 1], xs[i])
    IN f[Len(xs)]

PutIn(d, xs) ==
    /\ ring' = [ring EXCEPT ![d] = PutAll(@, xs)]
    /\ all' = [all EXCEPT ![d] = @ \o xs]

(* ring_buf_read() and the loops of the device reads.                      *)
TakeKeepsIndex(d, n) == UNCHANGED ring                        \* fault
TakeFrom(d, n) ==
    ring' = [ring EXCEPT ![d].read_idx = (@ + n) % RingSize]

-----------------------------------------------------------------------------
(* The keyboard.  A key sends a scan code when it goes down and one when   *)
(* it comes up, some of them after a byte 0xe0.                            *)

ScanCode(k) == CASE k \in {"alt", "altgr"} -> "0x38"
                 [] k \in {"ctrl", "rctrl"} -> "0x1d"
                 [] k = "lsuper" -> "0x5b" [] k = "rsuper" -> "0x5c"
                 [] k = "lshift" -> "0x2a" [] k = "rshift" -> "0x36"
                 [] k = "up" -> "0x48" [] k = "c" -> "0x2e"
                 [] k = "1" -> "0x02"

HasE0(k) == k \in {"altgr", "rctrl", "lsuper", "rsuper", "up"}

(* irq_handler(): which bits of `state' the byte changes.                  *)
StateBit(ch, wasE0) ==
    CASE ch = "0x38" -> {IF wasE0 THEN "ALTGR" ELSE "ALT"}
      [] ch = "0x1d" -> {"CTRL"}
      [] ch = "0x5b" -> {"LEFT_SUPER"} [] ch = "0x5c" -> {"RIGHT_SUPER"}
      [] ch = "0x2a" -> {"LEFT_SHIFT"} [] ch = "0x36" -> {"RIGHT_SHIFT"}
      [] OTHER -> {}

Modifiers(s) ==
    {m \in {"ALT", "CTRL", "ALTGR", "SHIFT", "SUPER"} :
       \/ m \in s
       \/ m = "SHIFT" /\ s \cap {"LEFT_SHIFT", "RIGHT_SHIFT"} # {}
       \/ m = "SUPER" /\ s \cap {"LEFT_SUPER", "RIGHT_SUPER"} # {}}

(* The four tables, of which a letter, a digit, an arrow of the keypad and *)
(* the modifiers are kept.  They are indexed without the prefix.           *)
ToKey(ch, shifted) ==
    CASE ch = "0x2e" -> IF shifted THEN "C" ELSE "c"
      [] ch = "0x02" -> IF shifted THEN "!" ELSE "1"
      [] ch = "0x48" -> "8"
      [] OTHER -> "none"

ToKeycode(ch) == CASE ch = "0x48" -> "UP" [] ch = "0x2e" -> "C"
                   [] ch = "0x02" -> "1" [] OTHER -> "MODIFIER"

ToShiftedKeycode(ch) == IF ch = "0x02" THEN "EXCLAIM" ELSE ToKeycode(ch)

(* tty_maybe_send_signal(): the SIGINTs that bytes send to the foreground  *)
(* process group, whether or not the ring can hold them.                   *)
TtyMaybeSendSignal(xs) ==
    signals' = signals + Len(SelectSeq(xs, LAMBDA b : b = "^C"))

(* fb_console_on_key(): the bytes a key event puts into the console's ring.*)
BytesOfKey(ev) ==
    CASE ~ev.pressed -> << >>
      [] ev.keycode = "UP" -> <<"esc", "[", "A">>
      [] ev.key = "none" -> << >>
      [] OTHER -> IF "CTRL" \in ev.modifiers /\ ev.key = "c"
                  THEN <<"^C">> ELSE <<ev.key>>

KeyboardSends(k) ==
    /\ feed = "keyboard" /\ wire = << >> /\ inputs < MaxInput
    /\ wire' = (IF HasE0(k) THEN <<[ch |-> "0xe0", pressed |-> TRUE]>>
                ELSE << >>)
               \o <<[ch |-> ScanCode(k), pressed |-> k \notin held]>>
    /\ held' = IF k \in held THEN held \ {k} ELSE held \cup {k}
    /\ inputs' = inputs + 1
    /\ UNCHANGED <<feed, ring, all, seen, e0, kstate, mbuf, moved, signals, reader>>

(* The prefix counts for one byte: received_e0 = false.                    *)
E0AfterEventKept == e0                                        \* fault
E0AfterEvent == FALSE

KeyEvent ==
    LET data == Head(wire)
        bit == StateBit(data.ch, e0)
        s == IF data.pressed THEN kstate \cup bit ELSE kstate \ bit
        shifted == "SHIFT" \in Modifiers(s)
        ev == [scancode |-> data.ch, e0 |-> e0,
               key |-> ToKey(data.ch, shifted), keycode |->
                 IF shifted THEN ToShiftedKeycode(data.ch) ELSE ToKeycode(data.ch),
               modifiers |-> Modifiers(s), pressed |-> data.pressed]
    IN /\ data.ch # "0xe0"
       /\ kstate' = s
       /\ ring' = [ring EXCEPT !["keyboard"] = PutOne(@, ev),
                               !["console"] = PutAll(@, BytesOfKey(ev))]
       /\ all' = [all EXCEPT !["keyboard"] = Append(@, ev),
                             !["console"] = @ \o BytesOfKey(ev)]
       /\ TtyMaybeSendSignal(BytesOfKey(ev))
       /\ e0' = E0AfterEvent

KeyboardIrq ==
    /\ feed = "keyboard" /\ wire # << >>
    /\ \/ /\ Head(wire).ch = "0xe0"
          /\ e0' = TRUE
          /\ UNCHANGED <<kstate, ring, all, signals>>
       \/ KeyEvent
    /\ wire' = Tail(wire)
    /\ UNCHANGED <<feed, seen, held, mbuf, moved, inputs, reader>>

-----------------------------------------------------------------------------
(* The mouse.  A packet is three bytes: the buttons with a marker bit, two *)
(* sign bits and two overflow bits, and the low bytes of the motions.      *)

Bit(n, i) == (n \div 2^i) % 2 = 1

MouseSends(m) ==
    /\ feed = "mouse" /\ wire = << >> /\ inputs < MaxInput
    /\ wire' = <<[n |-> m.buttons + 8 + (IF m.dx < 0 THEN 16 ELSE 0)
                        + (IF m.dy < 0 THEN 32 ELSE 0)
                        + (IF m.over THEN 64 ELSE 0)],
                 [n |-> m.dx % 256], [n |-> m.dy % 256]>>
    /\ moved' = Append(moved, m)
    /\ inputs' = inputs + 1
    /\ UNCHANGED <<feed, ring, all, seen, held, e0, kstate, mbuf, signals, reader>>

(* irq_handler() of mouse.c, with its case 2.                              *)
Signed(byte, sign) == IF byte # 0 /\ sign THEN byte - 256 ELSE byte
MouseEventKeepsSign(b) ==                                     \* fault
    [dx |-> IF Bit(b[1], 6) \/ Bit(b[1], 7) THEN 0 ELSE b[2],
     dy |-> IF Bit(b[1], 6) \/ Bit(b[1], 7) THEN 0 ELSE -b[3],
     buttons |-> b[1] % 8]
MouseEvent(b) ==
    LET over == Bit(b[1], 6) \/ Bit(b[1], 7)
    IN [dx |-> IF over THEN 0 ELSE Signed(b[2], Bit(b[1], 4)),
        dy |-> IF over THEN 0 ELSE -Signed(b[3], Bit(b[1], 5)),
        buttons |-> b[1] % 8]

MouseIrq ==
    /\ feed = "mouse" /\ wire # << >>
    /\ IF Len(mbuf) < 2
       THEN /\ mbuf' = Append(mbuf, Head(wire).n)
            /\ UNCHANGED <<ring, all>>
       ELSE /\ PutIn("mouse", <<MouseEvent(Append(mbuf, Head(wire).n))>>)
            /\ mbuf' = << >>
    /\ wire' = Tail(wire)
    /\ UNCHANGED <<feed, seen, held, e0, kstate, moved, signals, inputs, reader>>

-----------------------------------------------------------------------------
(* The serial line: handle_1_and_3() empties one port and then the other.  *)
(* A byte is at once in the ring of its port.                              *)
SerialIrq(d, b) ==
    /\ feed = "serial" /\ inputs < MaxInput
    /\ PutIn(d, <<b>>) /\ TtyMaybeSendSignal(<<b>>)
    /\ inputs' = inputs + 1
    /\ UNCHANGED <<feed, seen, wire, held, e0, kstate, mbuf, moved, reader>>

-----------------------------------------------------------------------------
(* The readers.  scheduler_block() returns when the ring is not empty, but *)
(* another reader may come first, so that the test is made again.          *)

IdleReader == [at |-> "idle", dev |-> Nowhere, count |-> 0]

ReadCall(r) ==
    /\ reader[r] = IdleReader
    /\ \E d \in RingOf[feed], n \in {2, RingSize} :
         reader' = [reader EXCEPT ![r] =
                      [at |-> "blocked", dev |-> d, count |-> n]]
    /\ UNCHANGED <<feed, ring, all, seen, wire, held, e0, kstate, mbuf, moved,
                   signals, inputs>>

(* The condition holds and the scheduler makes the reader runnable, or a   *)
(* signal interrupts the call, or the description is non-blocking.         *)
ReadUnblock(r) ==
    /\ reader[r].at = "blocked"
    /\ \/ /\ Level(reader[r].dev) > 0
          /\ reader' = [reader EXCEPT ![r].at = "woken"]
       \/ reader' = [reader EXCEPT ![r] = IdleReader]
    /\ UNCHANGED <<feed, ring, all, seen, wire, held, e0, kstate, mbuf, moved,
                   signals, inputs>>

ReadTake(r) ==
    LET d == reader[r].dev
        n == IF Level(d) < reader[r].count THEN Level(d) ELSE reader[r].count
    IN /\ reader[r].at = "woken"
       /\ IF Level(d) = 0
          THEN /\ reader' = [reader EXCEPT ![r].at = "blocked"]
               /\ UNCHANGED <<ring, seen>>
          ELSE /\ TakeFrom(d, n)
               /\ seen' = [seen EXCEPT ![d] = @ + n]
               /\ reader' = [reader EXCEPT ![r] = IdleReader]
       /\ UNCHANGED <<feed, all, wire, held, e0, kstate, mbuf, moved, signals,
                      inputs>>

-----------------------------------------------------------------------------
InputInit ==
    /\ feed \in DOMAIN RingOf
    /\ ring = [d \in Ring |-> [mem |-> [i \in 0 .. RingSize - 1 |-> Nowhere],
                               read_idx |-> 0, write_idx |-> 0]]
    /\ all = [d \in Ring |-> << >>] /\ seen = [d \in Ring |-> 0]
    /\ wire = << >> /\ held = {} /\ e0 = FALSE /\ kstate = {}
    /\ mbuf = << >> /\ moved = << >> /\ inputs = 0 /\ signals = 0
    /\ reader = [r \in InputReader |-> IdleReader]

InputNext ==
    \/ \E k \in PressedKey : KeyboardSends(k)
    \/ KeyboardIrq
    \/ \E m \in Motion : MouseSends(m)
    \/ MouseIrq
    \/ \E d \in {"com1", "com3"}, b \in LineByte : SerialIrq(d, b)
    \/ \E r \in InputReader : ReadCall(r) \/ ReadUnblock(r) \/ ReadTake(r)

-----------------------------------------------------------------------------
(* A ring holds, in order, the last items that went in, and what was lost  *)
(* before them is a whole number of laps: nothing is lost from a ring      *)
(* whose reader is never a lap behind, and no reader sees an item twice or *)
(* two items exchanged (ring_buf.c:91, keyboard.c:337, mouse.c:93).        *)
RingsLoseWholeLaps ==
    \A d \in Ring :
      /\ (Len(all[d]) - seen[d] - Level(d)) % RingSize = 0
      /\ Len(all[d]) >= seen[d] + Level(d)
      /\ \A i \in 1 .. Level(d) :
           ring[d].mem[(ring[d].read_idx + i - 1) % RingSize]
             = all[d][Len(all[d]) - Level(d) + i]

(* Once every byte has been handled, the modifiers the handler believes to *)
(* be down are the keys that are: the prefix 0xe0 is never attributed to   *)
(* another key.  Both control keys share one bit, so releasing one of them *)
(* clears it (keyboard.c:286).                                             *)
ModifiersMatchKeys ==
    wire = << >> =>
      /\ ("ALT" \in kstate) = ("alt" \in held)
      /\ ("ALTGR" \in kstate) = ("altgr" \in held)
      /\ ("SHIFT" \in Modifiers(kstate)) <=> held \cap {"lshift", "rshift"} # {}
      /\ ("SUPER" \in Modifiers(kstate)) <=> held \cap {"lsuper", "rsuper"} # {}
      /\ "CTRL" \in kstate => held \cap {"ctrl", "rctrl"} # {}

(* The handler and the mouse agree on where a packet starts (the handler's *)
(* ASSERT), and an event carries the motion the mouse reported: with the   *)
(* screen's direction of y, nothing after an overflow, and no motion for   *)
(* the one value -256 whose low byte is zero (mouse.c:71).                 *)
MotionArrives ==
    /\ wire = << >> => mbuf = << >> /\ Len(all["mouse"]) = Len(moved)
    /\ mbuf # << >> => Bit(mbuf[1], 3)
    /\ \A i \in 1 .. Len(all["mouse"]) :
         LET Reported(v) == IF moved[i].over \/ v = -256 THEN 0 ELSE v
         IN all["mouse"][i] = [dx |-> Reported(moved[i].dx),
                               dy |-> -Reported(moved[i].dy),
                               buttons |-> moved[i].buttons]
=============================================================================
