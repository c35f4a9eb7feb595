------------------------------- MODULE Frames -------------------------------
(***************************************************************************)
(* What happens to a frame of the viewer (frame.c, framebuf.c and the      *)
(* frame callback of mjv_thread.c): the worker of a camera makes a frame   *)
(* of the bytes the grabber found, decodes it, shows its pixels on the     *)
(* canvas, which the main thread may be painting, keeps it in the frame    *)
(* buffer and shows the state of the buffer in a label. When the window is *)
(* closed the main thread waits for the worker and frees everything.       *)
(*                                                                         *)
(* The ring is that of RingBuf; its k-th frame is the k-th that could be   *)
(* decoded. The other locks and threads of the viewer are in Viewer.       *)
(***************************************************************************)
EXTENDS RingBuf, FiniteSets

CONSTANTS
  MaxFailures,        \* bound on the frames that cannot be decoded
  Stamp               \* the second in which each frame of the buffer was made

FramesAssumption ==
  /\ MaxFailures \in Nat
  /\ Stamp \in [1 .. MaxFrames -> Int]

ASSUME FramesAssumption

VARIABLES
  worker,             \* where the worker is
  gui,                \* where the main thread is
  mutex,              \* who holds t->mutex
  pixels,             \* the blocks of pixels on the heap, numbered as allocated
  blocks,             \* how many were allocated so far
  decoded,            \* the block callback_got_frame() has in its hand
  pixbuf,             \* the block t->pixbuf shows
  painted,            \* the block the main thread is painting
  failures,           \* how many frames could not be decoded
  label               \* the numbers in the label: used, and the age of the buffer

pixelVars  == <<pixels, blocks, decoded, pixbuf, painted, failures>>
framesVars == <<vars, worker, gui, mutex, pixelVars, label>>

WorkerPcs == {"grab", "decode", "lock", "replace", "unlock", "append", "label", "end"}
GuiPcs    == {"loop", "paint", "join", "destroy", "unref", "end"}

FramesInit ==
  /\ Init
  /\ worker = "grab"
  /\ gui = "loop"
  /\ mutex = "nobody"
  /\ pixels = {}
  /\ blocks = 0
  /\ decoded = NULL
  /\ pixbuf = NULL
  /\ painted = NULL
  /\ failures = 0
  /\ label = [used |-> 0, age |-> <<>>]

WorkerGoes(from, to) == worker = from /\ worker' = to
GuiGoes(from, to)    == gui = from /\ gui' = to

-----------------------------------------------------------------------------
(* The worker.                                                             *)

\* got_new_frame() and frame_create(). Without memory there is no frame and the
\* worker stays where it is.
FrameCreate ==
  /\ appended < MaxFrames
  /\ WorkerGoes("grab", "decode")
  /\ UNCHANGED <<vars, gui, mutex, pixelVars, label>>

\* frame_to_pixbuf() allocates the pixels once the header is read.
Decode ==
  /\ WorkerGoes("decode", "lock")
  /\ blocks' = blocks + 1
  /\ pixels' = pixels \cup {blocks'}
  /\ decoded' = blocks'
  /\ UNCHANGED <<vars, gui, mutex, pixbuf, painted, failures, label>>

\* libjpeg reports an error before the pixels are allocated or after it, when
\* they are lost; or they cannot be allocated. The frame is destroyed.
DecodeFails ==
  /\ failures < MaxFailures
  /\ WorkerGoes("decode", "grab")
  /\ failures' = failures + 1
  /\ \/ UNCHANGED <<blocks, pixels>>
     \/ blocks' = blocks + 1 /\ pixels' = pixels \cup {blocks'}
  /\ UNCHANGED <<vars, gui, mutex, decoded, pixbuf, painted, label>>

\* A slip: the pixbuf is replaced without the mutex.
LockMutex_Never ==
  /\ WorkerGoes("lock", "replace")
  /\ UNCHANGED <<vars, gui, mutex, pixelVars, label>>

LockMutex ==
  /\ WorkerGoes("lock", "replace")
  /\ mutex = "nobody"
  /\ mutex' = "worker"
  /\ UNCHANGED <<vars, gui, pixelVars, label>>

\* A slip: the old pixbuf is overwritten.
ReplacePixbuf_Overwrite ==
  /\ WorkerGoes("replace", "unlock")
  /\ pixbuf' = decoded
  /\ decoded' = NULL
  /\ UNCHANGED <<vars, gui, mutex, pixels, blocks, painted, failures, label>>

\* The last reference to the old pixbuf goes, and destroy_pixels() frees its
\* pixels; the new one takes over those just decoded.
ReplacePixbuf ==
  /\ WorkerGoes("replace", "unlock")
  /\ pixels' = pixels \ {pixbuf}
  /\ pixbuf' = decoded
  /\ decoded' = NULL
  /\ UNCHANGED <<vars, gui, mutex, blocks, painted, failures, label>>

UnlockMutex ==
  /\ WorkerGoes("unlock", "append")
  /\ mutex' = IF mutex = "worker" THEN "nobody" ELSE mutex
  /\ UNCHANGED <<vars, gui, pixelVars, label>>

\* framebuf_append()
AppendFrame ==
  /\ WorkerGoes("append", "label")
  /\ RingbufAppend
  /\ UNCHANGED <<gui, mutex, pixelVars, label>>

\* A slip: the hours are not reduced when they make a day.
Age_Hours(span) ==
  LET days    == span \div 86400
      hours   == span \div 3600
      minutes == (span % 3600) \div 60
      seconds == span % 60
  IN  IF span < 60
        THEN <<span>>
        ELSE CASE days > 0              -> <<days, hours, minutes, seconds>>
               [] days = 0 /\ hours > 0 -> <<hours, minutes, seconds>>
               [] OTHER                 -> <<minutes, seconds>>

\* The time between two frames as framebuf_status_string() writes it: days,
\* hours, minutes and seconds, from the first that is not 0 on. What is less
\* than a minute, or negative, stays in seconds.
Age(span) ==
  LET days    == span \div 86400
      hours   == (span % 86400) \div 3600
      minutes == (span % 3600) \div 60
      seconds == span % 60
  IN  IF span < 60
        THEN <<span>>
        ELSE CASE days > 0              -> <<days, hours, minutes, seconds>>
               [] days = 0 /\ hours > 0 -> <<hours, minutes, seconds>>
               [] OTHER                 -> <<minutes, seconds>>

\* update_framebuf_label()
UpdateLabel ==
  /\ WorkerGoes("label", "grab")
  /\ label' = [used |-> used, age |-> Age(Stamp[RingbufNewest] - Stamp[RingbufOldest])]
  /\ UNCHANGED <<vars, gui, mutex, pixelVars>>

\* mjv_grabber_run() returns, and so does thread_main().
GrabberReturns ==
  /\ WorkerGoes("grab", "end")
  /\ UNCHANGED <<vars, gui, mutex, pixelVars, label>>

Worker ==
  \/ FrameCreate \/ Decode \/ DecodeFails \/ LockMutex \/ ReplacePixbuf \/ UnlockMutex
  \/ AppendFrame \/ UpdateLabel \/ GrabberReturns

-----------------------------------------------------------------------------
(* The main thread.                                                        *)

\* canvas_repaint() takes the mutex and paints the pixbuf it finds.
Repaint ==
  /\ GuiGoes("loop", "paint")
  /\ mutex = "nobody"
  /\ mutex' = "gui"
  /\ painted' = pixbuf
  /\ UNCHANGED <<vars, worker, pixels, blocks, decoded, pixbuf, failures, label>>

Repainted ==
  /\ GuiGoes("paint", "loop")
  /\ mutex' = "nobody"
  /\ painted' = NULL
  /\ UNCHANGED <<vars, worker, pixels, blocks, decoded, pixbuf, failures, label>>

\* The window is closed; mjv_thread_cancel() tells the worker to quit.
Cancel ==
  /\ GuiGoes("loop", "join")
  /\ UNCHANGED <<vars, worker, mutex, pixelVars, label>>

\* A slip: the camera is destroyed without waiting for its worker.
Join_NoWait ==
  /\ GuiGoes("join", "destroy")
  /\ RingbufDestroy
  /\ UNCHANGED <<worker, mutex, pixelVars, label>>

\* mjv_thread_destroy() after the worker was joined: framebuf_destroy() comes
\* before the pixbuf.
Join ==
  /\ worker = "end"
  /\ GuiGoes("join", "destroy")
  /\ RingbufDestroy
  /\ UNCHANGED <<worker, mutex, pixelVars, label>>

FramebufDestroy ==
  /\ gui = "destroy"
  /\ \/ DestroySlot /\ UNCHANGED gui
     \/ FreeRing /\ gui' = "unref"
  /\ UNCHANGED <<worker, mutex, pixelVars, label>>

UnrefPixbuf ==
  /\ GuiGoes("unref", "end")
  /\ pixels' = pixels \ {pixbuf}
  /\ UNCHANGED <<vars, worker, mutex, blocks, decoded, pixbuf, painted, failures, label>>

Gui == Repaint \/ Repainted \/ Cancel \/ Join \/ FramebufDestroy \/ UnrefPixbuf

FramesNext == Worker \/ Gui

FramesSpec == FramesInit /\ [][FramesNext]_framesVars

-----------------------------------------------------------------------------
(* Properties.                                                             *)

\* The types of the variables that are not the ring's; and the frames that were
\* not decoded are the only ones whose pixels may still be on the heap in the
\* end.
FramesTypeOK ==
  /\ worker \in WorkerPcs
  /\ gui \in GuiPcs
  /\ mutex \in {"nobody", "worker", "gui"}
  /\ pixels \subseteq 1 .. blocks
  /\ {decoded, pixbuf, painted} \subseteq {NULL} \cup 1 .. blocks
  /\ failures \in 0 .. MaxFailures
  /\ gui = "end" => Cardinality(pixels) <= failures

\* The main thread never paints pixels that were freed ("This mutex ensures that
\* no running thread can update the mjv_thread data object from the frame
\* callback while we are here").
PaintsLivePixels == gui = "paint" => painted \in pixels \cup {NULL}

\* The seconds that an age in the label stands for.
Seconds(age) ==
  LET n == Len(age)
      Part(i, unit) == IF i <= n THEN age[n + 1 - i] * unit ELSE 0
  IN  Part(1, 1) + Part(2, 60) + Part(3, 3600) + Part(4, 86400)

\* The label tells how many of the latest frames are in the buffer and how far
\* the first of them is from the last, to the second, whatever the ring has been
\* through; no part of the time is as large as the next unit.
StatusAddsUp ==
  worker \in {"grab", "decode"} /\ appended > 0 =>
    /\ label.used = IF appended < Size THEN appended ELSE Size
    /\ Seconds(label.age) = Stamp[appended] - Stamp[appended - label.used + 1]
    /\ \A i \in 2 .. Len(label.age) :
         label.age[i] < IF Len(label.age) - i = 2 THEN 24 ELSE 60

\* The worker never finds the ring in the middle of its destruction: neither
\* append nor label reads a slot that was freed.
BufferOutlivesWorker == worker \in {"append", "label"} => phase = "open"
=============================================================================
