----------------------------- MODULE FrameSlices -----------------------------
(***************************************************************************)
(* What the grabber promises to the programs that use it, whatever the     *)
(* stream carries and however read() cuts it up: every frame handed to the *)
(* callback is a verbatim slice of the bytes received so far, begins with  *)
(* the JPEG start-of-image marker, is no longer than the read buffer, and  *)
(* starts at or after the end of the frame delivered before it.            *)
(***************************************************************************)
EXTENDS Integers, Sequences

CONSTANT BufSize       \* size of the read buffer in bytes

VARIABLES
  stream,              \* everything the camera will ever send
  avail,               \* how many bytes of it have been received
  taken,               \* offset one past the last delivered frame
  frames               \* the frames delivered

vars == <<stream, avail, taken, frames>>

Init ==
  /\ avail = 0
  /\ taken = 0
  /\ frames = <<>>

\* The source yields some more bytes.
Receive ==
  /\ avail' \in avail + 1 .. Len(stream)
  /\ UNCHANGED <<stream, taken, frames>>

\* The n bytes from offset a (counted from 0) become the next frame.
Deliver(a, n) ==
  /\ a + n <= avail
  /\ a + 1 < avail
  /\ stream[a + 1] = "FF"
  /\ stream[a + 2] = "D8"
  /\ frames' = Append(frames, [i \in 1 .. n |-> stream[a + i]])
  /\ taken' = a + n
  /\ UNCHANGED <<stream, avail>>

Next ==
  \/ Receive
  \/ \E a \in taken .. avail, n \in 1 .. BufSize : Deliver(a, n)

Spec == Init /\ [][Next]_vars
==============================================================================
