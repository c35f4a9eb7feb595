------------------------------- MODULE RingBuf -------------------------------
(***************************************************************************)
(* ringbuf.c as framebuf.c uses it: a ring of Size pointers to frames,     *)
(* with frame_destroy() as the callback that frees what a slot holds. The  *)
(* k-th frame that framebuf_append() is given is the number k; a slot of   *)
(* calloc()ed memory is NULL, which frame_destroy() passes over.           *)
(***************************************************************************)
EXTENDS Integers, Sequences

CONSTANTS
  Size,             \* the size given to ringbuf_create()
  MaxFrames         \* bound on the number of frames appended

RingBufAssumption ==
  /\ Size \in Nat \ {0}
  /\ MaxFrames \in Nat

ASSUME RingBufAssumption

NULL == 0

Slots == 0 .. Size - 1

VARIABLES
  data,             \* rb->data
  next,             \* rb->next, as the number of a slot
  used,             \* rb->used
  phase,            \* open, destroying (in the loop of ringbuf_destroy), gone
  p,                \* the slot that loop has reached
  appended,         \* history: how many frames were appended
  freed             \* history: the frames freed, in order

vars == <<data, next, used, phase, p, appended, freed>>

\* ringbuf_create()
Init ==
  /\ data = [i \in Slots |-> NULL]
  /\ next = 0
  /\ used = 0
  /\ phase = "open"
  /\ p = 0
  /\ appended = 0
  /\ freed = <<>>

\* A slip: the frame in the slot is overwritten without being freed.
OnDestroy_Never(slot) == UNCHANGED freed

\* on_frame_destroy() on a slot.
OnDestroy(slot) ==
  freed' = IF data[slot] = NULL THEN freed ELSE Append(freed, data[slot])

Successor(slot) == IF slot + 1 = Size THEN 0 ELSE slot + 1

\* A slip: the counter runs past the size of the ring.
UsedAfterAppend_Unbounded == used + 1

UsedAfterAppend == IF used < Size THEN used + 1 ELSE used

\* A slip: the slot is freed once the new frame is in it.
RingbufAppend_StoreFirst ==
  /\ phase = "open"
  /\ appended < MaxFrames
  /\ data' = [data EXCEPT ![next] = appended + 1]
  /\ freed' = Append(freed, appended + 1)
  /\ next' = Successor(next)
  /\ used' = UsedAfterAppend
  /\ appended' = appended + 1
  /\ UNCHANGED <<phase, p>>

\* ringbuf_append()
RingbufAppend ==
  /\ phase = "open"
  /\ appended < MaxFrames
  /\ OnDestroy(next)
  /\ data' = [data EXCEPT ![next] = appended + 1]
  /\ next' = Successor(next)
  /\ used' = UsedAfterAppend
  /\ appended' = appended + 1
  /\ UNCHANGED <<phase, p>>

\* ringbuf_destroy() is called.
RingbufDestroy ==
  /\ phase = "open"
  /\ phase' = "destroying"
  /\ UNCHANGED <<data, next, used, p, appended, freed>>

\* A slip: the loop frees the slots that were filled since the last wraparound.
LoopEnd_Next == next

\* Where the loop of ringbuf_destroy() ends.
LoopEnd == Size

\* One turn of its loop.
DestroySlot ==
  /\ phase = "destroying"
  /\ p < LoopEnd
  /\ OnDestroy(p)
  /\ data' = [data EXCEPT ![p] = NULL]
  /\ p' = p + 1
  /\ UNCHANGED <<next, used, phase, appended>>

\* The end of the loop: the memory of the ring is freed.
FreeRing ==
  /\ phase = "destroying"
  /\ p = LoopEnd
  /\ phase' = "gone"
  /\ UNCHANGED <<data, next, used, p, appended, freed>>

Next ==
  \/ RingbufAppend
  \/ RingbufDestroy
  \/ DestroySlot
  \/ FreeRing

Spec == Init /\ [][Next]_vars

-----------------------------------------------------------------------------
(* Readers.                                                                *)

\* A slip: a ring that is just full still takes its first slot for the oldest.
OldestSlot_Full == IF used <= Size THEN 0 ELSE next

OldestSlot == IF used < Size THEN 0 ELSE next

RingbufOldest == data[OldestSlot]
RingbufNewest == data[IF next = 0 THEN Size - 1 ELSE next - 1]

-----------------------------------------------------------------------------
(* Properties.                                                             *)

\* The types of the variables.
TypeOK ==
  /\ data \in [Slots -> Nat]
  /\ next \in Slots
  /\ used \in 0 .. Size
  /\ phase \in {"open", "destroying", "gone"}
  /\ p \in 0 .. Size
  /\ appended \in Nat
  /\ freed \in Seq(Nat)

\* framebuf_status_string() reports the age of the frames in the buffer: its
\* oldest and newest frames are the first and the last of the latest used ones,
\* before, at and after every wraparound of the ring.
OldestAndNewest ==
  phase = "open" =>
    /\ RingbufOldest = IF appended = 0 THEN NULL ELSE appended - used + 1
    /\ RingbufNewest = appended

\* No frame is ever freed twice, and none is freed that a slot still holds.
FreedOnce ==
  /\ \A i, j \in DOMAIN freed : freed[i] = freed[j] => i = j
  /\ \A i \in DOMAIN freed, slot \in Slots : data[slot] # NULL => freed[i] # data[slot]

\* Once the buffer is gone every frame it was given has been freed.
NothingLeaked ==
  phase = "gone" => \A f \in 1 .. appended : \E i \in DOMAIN freed : freed[i] = f

\* What the frame buffer promises.
Window ==
  INSTANCE FrameWindow WITH open <- phase = "open",
                            held <- {data[i] : i \in Slots} \ {NULL}
KeepsWindow == Window!Spec
==============================================================================
