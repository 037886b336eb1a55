--------------------------- MODULE PageAllocator ---------------------------
(* The physical pages ("frames") of kernel/memory/page_allocator.c as a    *)
(* value: which are available, and how often each is referenced.  Every    *)
(* operation runs under the allocator's mutex.                             *)
EXTENDS Integers

CONSTANTS
    NFrames,   \* the frames that the bitmap covers and boot found available
    NDevice,   \* frames above the bitmap: the memory of the frame buffer
    NConsole,  \* how many of these the console has mapped for good
    MaxRef     \* UINT8_MAX: a count that got here stays here

ASSUME FramesAssumption == NFrames \in Nat \ {0}
ASSUME DeviceAssumption == NDevice \in Nat /\ NConsole \in 0 .. NDevice
ASSUME MaxRefAssumption == MaxRef \in Nat /\ MaxRef > 2

RAM == 0 .. NFrames - 1
DeviceFrame == NFrames .. NFrames + NDevice - 1
Frame == RAM \cup DeviceFrame
NoFrame == -1

Memory == [bitmap : SUBSET Frame, ref_counts : [Frame -> 0 .. MaxRef]]

(* bitmap_init() covers the available memory only, so the counts of device *)
(* frames start from 0; the console's mapping adds 1.                      *)
page_allocator_init ==
    [bitmap |-> RAM,
     ref_counts |-> [f \in Frame |-> IF f \in NFrames .. NFrames + NConsole - 1
                                     THEN 1 ELSE 0]]

Exhausted(m) == m.bitmap = {}
bitmap_find_first_set(m) == CHOOSE f \in m.bitmap : \A g \in m.bitmap : f <= g

(* The memory after bitmap_find_first_set(m) was given out.                *)
page_allocator_alloc(m) ==
    [bitmap |-> m.bitmap \ {bitmap_find_first_set(m)},
     ref_counts |-> [m.ref_counts EXCEPT ![bitmap_find_first_set(m)] = 1]]

page_allocator_ref_page(m, f) ==
    IF m.ref_counts[f] < MaxRef THEN [m EXCEPT !.ref_counts[f] = @ + 1] ELSE m

UnrefSaturated(m, f) ==                                              \* fault
    [bitmap |-> IF m.ref_counts[f] = 1 THEN m.bitmap \cup {f} ELSE m.bitmap,
     ref_counts |-> [m.ref_counts EXCEPT ![f] = @ - 1]]
page_allocator_unref_page(m, f) ==
    IF m.ref_counts[f] = MaxRef THEN m
    ELSE [bitmap |-> IF m.ref_counts[f] = 1 THEN m.bitmap \cup {f} ELSE m.bitmap,
          ref_counts |-> [m.ref_counts EXCEPT ![f] = @ - 1]]
=============================================================================
