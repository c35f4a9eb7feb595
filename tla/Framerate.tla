----------------------------- MODULE Framerate -----------------------------
(***************************************************************************)
(* framerate.c: an estimate of the frames per second from the timestamps   *)
(* of the latest frames, kept in a ring (see RingBuf) of which only the    *)
(* oldest and the newest element are read, and from the wall time, which   *)
(* is always there and taken not to step back. Times are counted in ticks; *)
(* an estimate is a fraction, and its rounding to a float is left out.     *)
(***************************************************************************)
EXTENDS Integers, Sequences

CONSTANTS
  Size,             \* the size given to framerate_create()
  MaxTime           \* bound on the wall time

FramerateAssumption ==
  /\ Size \in Nat \ {0}
  /\ MaxTime \in Nat

ASSUME FramerateAssumption

VARIABLES
  now,              \* the wall time
  stamps            \* what the ring holds, the oldest first

vars == <<now, stamps>>

Init ==
  /\ now = 0
  /\ stamps = <<>>

\* A slip: the ring grows past its size.
Latest_All(s) == s

Latest(s) == IF Len(s) > Size THEN Tail(s) ELSE s

\* framerate_insert_datapoint(): frames are inserted in the order of their
\* timestamps, some time after these were taken.
InsertDatapoint ==
  /\ \E ts \in 0 .. now :
       /\ stamps # <<>> => stamps[Len(stamps)] <= ts
       /\ stamps' = Latest(Append(stamps, ts))
  /\ UNCHANGED now

Tick ==
  /\ now < MaxTime
  /\ now' = now + 1
  /\ UNCHANGED stamps

Next == InsertDatapoint \/ Tick

Spec == Init /\ [][Next]_vars

-----------------------------------------------------------------------------
(* framerate_estimate()                                                    *)

Used   == Len(stamps)
Oldest == stamps[1]
Newest == stamps[Used]

DiffAmongFrames == Newest - Oldest
DiffWithNow     == now - Newest

Fraction(num, den) == [num |-> num, den |-> den]

\* What the code says with -1: too few data points, or an apparent stall.
Stalled == Fraction(0, 1)

\* A slip: the frames are set against the time since the newest of them.
Lagging_Newest == Fraction(Used, DiffWithNow)

\* The rate against the wall time, when the newest frame is some time ago.
Lagging == Fraction(Used, now - Oldest)

\* A slip: as many intervals as there are frames.
Steady_Used == Fraction(Used, DiffAmongFrames)

\* The rate of the frames among themselves: one interval less than frames.
Steady == Fraction(Used - 1, DiffAmongFrames)

Estimate ==
  CASE Used <= 1 -> Stalled
    [] Used > 1 /\ DiffWithNow < DiffAmongFrames -> Steady
    [] Used > 1 /\ DiffWithNow > 5 * DiffAmongFrames -> Stalled
    [] OTHER -> Lagging

-----------------------------------------------------------------------------
(* Properties. A fraction with denominator 0 is infinite.                  *)

AtMost(a, b) == a.num * b.den <= b.num * a.den

\* The ring holds the latest timestamps, none of them in the future.
TypeOK ==
  /\ now \in 0 .. MaxTime
  /\ Used \in 0 .. Size
  /\ \A k \in 1 .. Used : stamps[k] \in 0 .. now
  /\ \A k \in 2 .. Used : stamps[k - 1] <= stamps[k]

\* The estimate never exceeds the rate at which the frames it is made from came
\* in, and is positive unless it reports a stall.
NeverOverstates ==
  /\ Used > 1 => AtMost(Estimate, Fraction(Used - 1, Newest - Oldest))
  /\ Estimate # Stalled => Estimate.num > 0 /\ Estimate.den >= 0

\* While no frame comes in the estimate does not rise, though it is computed in
\* three ways on the way to the stall, and a stall lasts until the next frame.
WaitingLowersEstimate ==
  [][stamps' = stamps => AtMost(Estimate', Estimate)]_vars

\* A gap of five times the normal interval is reported as a stall ("If this is
\* less than 5 times the normal interval, we recalculate the FPS against the
\* current wall time, else return invalid").
GapReportedAsStall ==
  Used > 1 /\ DiffWithNow * (Used - 1) > 5 * DiffAmongFrames => Estimate = Stalled
==============================================================================
