------------------------------ MODULE MCFrames ------------------------------
(***************************************************************************)
(* Frames for model checking, with a camera whose frames arrive such that  *)
(* the buffer spans times just below, at and above a minute, an hour and a *)
(* day, and a clock that is set back once.                                 *)
(***************************************************************************)
EXTENDS Frames

MCStamp ==
  [k \in 1 .. MaxFrames |->
     IF k > 14 THEN 352918 + k
     ELSE <<0, 59, 60, 61, 3658, 3660, 3662, 90057, 90060, 90063, 262857, 90060, 90058,
            352918>>[k]]
=============================================================================
