----------------------------- MODULE FrameWindow -----------------------------
(***************************************************************************)
(* What a frame buffer promises to the thread that fills it: it owns every *)
(* frame handed to it until it frees that frame, it keeps the latest Size  *)
(* frames while it is open, makes room by freeing the oldest one, and      *)
(* frees the rest in some order when it is closed. Frames are numbered in  *)
(* the order in which they were handed over.                               *)
(***************************************************************************)
EXTENDS Integers, Sequences

CONSTANT Size

VARIABLES
  open,             \* the buffer may still be used
  appended,         \* how many frames were handed over
  held,             \* the frames the buffer owns
  freed             \* the frames it has freed, in order

vars == <<open, appended, held, freed>>

Init ==
  /\ open = TRUE
  /\ appended = 0
  /\ held = {}
  /\ freed = <<>>

Keep ==
  /\ open
  /\ appended < Size
  /\ appended' = appended + 1
  /\ held' = held \cup {appended + 1}
  /\ UNCHANGED <<open, freed>>

Replace ==
  /\ open
  /\ appended >= Size
  /\ appended' = appended + 1
  /\ UNCHANGED open
  /\ \E oldest \in held :
       /\ \A f \in held : oldest <= f
       /\ held' = (held \ {oldest}) \cup {appended + 1}
       /\ freed' = Append(freed, oldest)

Close ==
  /\ open
  /\ open' = FALSE
  /\ UNCHANGED <<appended, held, freed>>

Free ==
  /\ ~open
  /\ UNCHANGED <<open, appended>>
  /\ \E f \in held :
       /\ held' = held \ {f}
       /\ freed' = Append(freed, f)

Next == Keep \/ Replace \/ Close \/ Free

Spec == Init /\ [][Next]_vars
==============================================================================
