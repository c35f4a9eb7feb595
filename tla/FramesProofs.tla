---------------------------- MODULE FramesProofs ----------------------------
(***************************************************************************)
(* Proofs about Frames, for every size of the ring, every number of frames *)
(* and of failures, and every timestamp: the ring of the viewer is that of *)
(* RingBuf, so that all its theorems hold here; the pixels on the canvas   *)
(* are alive while they are painted and lost only when decoding fails; and *)
(* the label is right.                                                     *)
(***************************************************************************)
EXTENDS Frames, FiniteSetTheorems, SequenceTheorems, TLAPS

-----------------------------------------------------------------------------
(* The ring by itself.                                                     *)

\* The frame a slot was last given: the slots before next were filled since
\* the last wraparound, the others one turn earlier.
LastGiven(i) ==
  LET f == appended - next + i + 1 - (IF i < next THEN 0 ELSE Size)
  IN  IF f >= 1 THEN f ELSE NULL

\* What a slot holds: ringbuf_destroy() has emptied those before p.
SlotContents ==
  \A i \in Slots : data[i] = IF i < p THEN NULL ELSE LastGiven(i)

Counters ==
  /\ used = IF appended < Size THEN appended ELSE Size
  /\ next <= appended
  /\ appended < Size => next = appended
  /\ phase = "open" => p = 0
  /\ phase = "gone" => p = Size

\* Every frame handed over is in a slot or has been freed.
Accounted ==
  /\ \A i \in DOMAIN freed : freed[i] \in 1 .. appended
  /\ \A f \in 1 .. appended : (\E i \in DOMAIN freed : freed[i] = f)
                              \/ (\E slot \in Slots : data[slot] = f)

IInv == TypeOK /\ Counters /\ SlotContents /\ FreedOnce /\ Accounted

USE RingBufAssumption DEF RingBufAssumption, Slots, NULL

\* No two slots hold the same frame, and none holds one that is yet to come.
LEMMA SlotsDistinct ==
  ASSUME TypeOK, Counters, SlotContents
  PROVE  /\ \A i \in Slots : data[i] \in 0 .. appended
         /\ \A i, j \in Slots : data[i] = data[j] /\ data[i] # NULL => i = j
<1>1. ASSUME NEW i \in Slots PROVE data[i] \in 0 .. appended
  <2>1. data[i] = NULL \/ data[i] = LastGiven(i)
    BY DEF SlotContents
  <2>2. /\ appended \in Nat /\ next \in Slots /\ next <= appended /\ i \in Slots
        /\ Size \in Nat
    BY DEF TypeOK, Counters
  <2>3. LastGiven(i) \in 0 .. appended
    BY <2>2 DEF LastGiven
  <2> QED
    BY <2>1, <2>2, <2>3
<1>2. ASSUME NEW i \in Slots, NEW j \in Slots, data[i] = data[j], data[i] # NULL PROVE i = j
  <2>1. data[i] = LastGiven(i) /\ data[j] = LastGiven(j)
    BY <1>2 DEF SlotContents
  <2>2. /\ appended - next + i + 1 - (IF i < next THEN 0 ELSE Size)
           = appended - next + j + 1 - (IF j < next THEN 0 ELSE Size)
    BY <1>2, <2>1 DEF LastGiven
  <2> QED
    BY <2>2 DEF TypeOK
<1> QED
  BY <1>1, <1>2

\* Freeing what one slot holds and emptying or refilling it.
LEMMA OnDestroyFacts ==
  ASSUME IInv, NEW slot \in Slots, OnDestroy(slot)
  PROVE  /\ freed' \in Seq(Nat)
         /\ \A i \in DOMAIN freed' : freed'[i] \in 1 .. appended
         /\ \A i, j \in DOMAIN freed' : freed'[i] = freed'[j] => i = j
         /\ \A i \in DOMAIN freed', s \in Slots \ {slot} : data[s] # NULL => freed'[i] # data[s]
         /\ \A i \in DOMAIN freed : \E j \in DOMAIN freed' : freed'[j] = freed[i]
         /\ data[slot] # NULL => \E j \in DOMAIN freed' : freed'[j] = data[slot]
<1>1. /\ freed \in Seq(Nat) /\ data[slot] \in 0 .. appended
      /\ \A i, j \in Slots : data[i] = data[j] /\ data[i] # NULL => i = j
  BY SlotsDistinct DEF IInv, TypeOK
<1>2. CASE data[slot] = NULL
  BY <1>1, <1>2 DEF OnDestroy, IInv, FreedOnce, Accounted
<1>3. CASE data[slot] # NULL
  <2>1. freed' = Append(freed, data[slot])
    BY <1>3 DEF OnDestroy
  <2>2. /\ freed' \in Seq(Nat) /\ DOMAIN freed' = 1 .. Len(freed) + 1 /\ DOMAIN freed = 1 .. Len(freed)
        /\ Len(freed) \in Nat
        /\ \A i \in 1 .. Len(freed) : freed'[i] = freed[i]
        /\ freed'[Len(freed) + 1] = data[slot]
    BY <1>1, <2>1
  <2>3. \A i \in DOMAIN freed : freed[i] # data[slot]
    BY <1>3 DEF IInv, FreedOnce
  <2>4. \A i \in DOMAIN freed' : freed'[i] \in 1 .. appended
    <3>1. data[slot] \in 1 .. appended
      <4>1. appended \in Nat
        BY DEF IInv, TypeOK
      <4> QED
        BY <1>1, <1>3, <4>1
    <3> \A i \in 1 .. Len(freed) : freed[i] \in 1 .. appended
      BY <2>2 DEF IInv, Accounted
    <3>2. \A i \in DOMAIN freed' : i \in 1 .. Len(freed) \/ i = Len(freed) + 1
      BY <2>2
    <3> QED
      BY <2>2, <3>1, <3>2
  <2>5. \A i, j \in DOMAIN freed' : freed'[i] = freed'[j] => i = j
    BY <2>2, <2>3 DEF IInv, FreedOnce
  <2>6. \A i \in DOMAIN freed', s \in Slots \ {slot} : data[s] # NULL => freed'[i] # data[s]
    BY <1>1, <2>2 DEF IInv, FreedOnce
  <2>7. \A i \in DOMAIN freed : \E j \in DOMAIN freed' : freed'[j] = freed[i]
    BY <2>2
  <2>8. \E j \in DOMAIN freed' : freed'[j] = data[slot]
    BY <2>2
  <2> QED
    BY <2>2, <2>4, <2>5, <2>6, <2>7, <2>8
<1> QED
  BY <1>2, <1>3

LEMMA InitIInv == Init => IInv
  BY DEF Init, IInv, TypeOK, Counters, SlotContents, LastGiven, FreedOnce, Accounted

LEMMA RingbufAppendIInv == IInv /\ RingbufAppend => IInv'
<1> SUFFICES ASSUME IInv, RingbufAppend PROVE IInv'
  OBVIOUS
<1>1. /\ next \in Slots /\ appended \in Nat /\ p = 0 /\ OnDestroy(next) /\ UNCHANGED <<phase, p>>
      /\ data' = [data EXCEPT ![next] = appended + 1] /\ appended' = appended + 1
      /\ data \in [Slots -> Nat] /\ Size \in Nat \ {0}
  BY DEF RingbufAppend, IInv, TypeOK, Counters
<1>2. data'[next] = appended + 1 /\ \A i \in Slots \ {next} : data'[i] = data[i]
  BY <1>1
<1>3. TypeOK'
  BY <1>1, OnDestroyFacts DEF RingbufAppend, IInv, TypeOK, Successor, UsedAfterAppend
<1>4. Counters'
  BY <1>1 DEF RingbufAppend, IInv, TypeOK, Counters, Successor, UsedAfterAppend
<1>5. SlotContents'
  <2> SUFFICES ASSUME NEW i \in Slots PROVE data'[i] = LastGiven(i)'
    BY <1>1 DEF SlotContents
  <2>1. CASE i = next
    BY <1>1, <1>2, <2>1 DEF RingbufAppend, LastGiven, Successor, IInv, TypeOK
  <2>2. CASE i # next
    <3>1. data'[i] = LastGiven(i)
      BY <1>1, <1>2, <2>2 DEF IInv, SlotContents
    <3>2. LastGiven(i)' = LastGiven(i)
      BY <1>1, <2>2 DEF RingbufAppend, LastGiven, Successor, IInv, TypeOK
    <3> QED
      BY <3>1, <3>2
  <2> QED
    BY <2>1, <2>2
<1>6. FreedOnce'
  BY <1>1, <1>2, OnDestroyFacts DEF FreedOnce
<1>7. Accounted'
  <2>1. \A i \in DOMAIN freed' : freed'[i] \in 1 .. appended'
    BY <1>1, OnDestroyFacts
  <2>2. ASSUME NEW f \in 1 .. appended
        PROVE  \/ \E i \in DOMAIN freed' : freed'[i] = f
               \/ \E slot \in Slots : data'[slot] = f
    <3>1. CASE \E i \in DOMAIN freed : freed[i] = f
      BY <1>1, <3>1, OnDestroyFacts
    <3>2. CASE data[next] = f
      <4>1. data[next] # NULL
        BY <3>2
      <4> QED
        BY <1>1, <3>2, <4>1, OnDestroyFacts, Zenon
    <3>3. CASE \E slot \in Slots \ {next} : data[slot] = f
      BY <1>2, <3>3
    <3> QED
      BY <3>1, <3>2, <3>3 DEF IInv, Accounted
  <2>3. \E slot \in Slots : data'[slot] = appended + 1
    BY <1>1, <1>2
  <2>4. 1 .. appended' = (1 .. appended) \cup {appended + 1}
    BY <1>1
  <2> QED
    BY <2>1, <2>2, <2>3, <2>4 DEF Accounted
<1> QED
  BY <1>3, <1>4, <1>5, <1>6, <1>7 DEF IInv

LEMMA DestroySlotIInv == IInv /\ DestroySlot => IInv'
<1> SUFFICES ASSUME IInv, DestroySlot PROVE IInv'
  OBVIOUS
<1>1. /\ p \in Slots /\ phase = "destroying" /\ p' = p + 1 /\ OnDestroy(p)
      /\ UNCHANGED <<next, used, phase, appended>> /\ data' = [data EXCEPT ![p] = NULL]
      /\ data \in [Slots -> Nat]
  BY DEF DestroySlot, LoopEnd, IInv, TypeOK
<1>2. data'[p] = NULL /\ \A i \in Slots \ {p} : data'[i] = data[i]
  BY <1>1
<1>3. TypeOK' /\ Counters'
  BY <1>1, OnDestroyFacts DEF IInv, TypeOK, Counters
<1>4. SlotContents'
  BY <1>1, <1>2 DEF IInv, SlotContents, LastGiven
<1>5. FreedOnce'
  BY <1>1, <1>2, OnDestroyFacts DEF FreedOnce
<1>6. Accounted'
  <2>1. \A i \in DOMAIN freed' : freed'[i] \in 1 .. appended'
    BY <1>1, OnDestroyFacts
  <2>2. ASSUME NEW f \in 1 .. appended
        PROVE  \/ \E i \in DOMAIN freed' : freed'[i] = f
               \/ \E slot \in Slots : data'[slot] = f
    <3>1. CASE \E i \in DOMAIN freed : freed[i] = f
      BY <1>1, <3>1, OnDestroyFacts
    <3>2. CASE data[p] = f
      BY <1>1, <3>2, OnDestroyFacts DEF IInv, TypeOK
    <3>3. CASE \E slot \in Slots \ {p} : data[slot] = f
      BY <1>2, <3>3
    <3> QED
      BY <3>1, <3>2, <3>3 DEF IInv, Accounted
  <2> QED
    BY <1>1, <2>1, <2>2 DEF Accounted
<1> QED
  BY <1>3, <1>4, <1>5, <1>6 DEF IInv

LEMMA NextIInv == IInv /\ [Next]_vars => IInv'
<1> SUFFICES ASSUME IInv, [Next]_vars PROVE IInv'
  OBVIOUS
<1>1. CASE RingbufAppend
  BY <1>1, RingbufAppendIInv
<1>2. CASE DestroySlot
  BY <1>2, DestroySlotIInv
<1>3. CASE RingbufDestroy \/ FreeRing
  BY <1>3 DEF RingbufDestroy, FreeRing, LoopEnd, IInv, TypeOK, Counters, SlotContents, LastGiven,
              FreedOnce, Accounted
<1>4. CASE UNCHANGED vars
  BY <1>4 DEF vars, IInv, TypeOK, Counters, SlotContents, LastGiven, FreedOnce, Accounted
<1> QED
  BY <1>1, <1>2, <1>3, <1>4 DEF Next

\* The invariant holds in every reachable state of the ring of ringbuf.c,
\* however many frames framebuf_append() is given.
THEOREM Invariance == Spec => []IInv
  BY InitIInv, NextIInv, PTL DEF Spec

\* The slot pointer and the usage counter stay within the ring.
THEOREM TypeCorrect == Spec => []TypeOK
  BY Invariance, PTL DEF IInv

\* A frame handed to the buffer is never freed twice, nor while it is held.
THEOREM NoDoubleFree == Spec => []FreedOnce
  BY Invariance, PTL DEF IInv

\* When the buffer is gone, every frame it was given has been freed.
THEOREM NoLeak == Spec => []NothingLeaked
<1>1. IInv => NothingLeaked
  <2> SUFFICES ASSUME IInv, phase = "gone", NEW f \in 1 .. appended
               PROVE  \E i \in DOMAIN freed : freed[i] = f
    BY DEF NothingLeaked
  <2>1. \A i \in Slots : data[i] = NULL
    BY DEF IInv, Counters, SlotContents
  <2> QED
    BY <2>1 DEF IInv, Accounted
<1> QED
  BY <1>1, Invariance, PTL

LEMMA ReadersFromIInv == IInv => OldestAndNewest
<1> SUFFICES ASSUME IInv, phase = "open"
             PROVE  /\ RingbufOldest = IF appended = 0 THEN NULL ELSE appended - used + 1
                    /\ RingbufNewest = appended
  BY DEF OldestAndNewest
<1>1. \A i \in Slots : data[i] = LastGiven(i)
  BY DEF IInv, Counters, SlotContents
<1> QED
  BY <1>1 DEF IInv, TypeOK, Counters, LastGiven, RingbufOldest, OldestSlot, RingbufNewest

\* The oldest and the newest frame are those of the latest used ones.
THEOREM ReadersCorrect == Spec => []OldestAndNewest
  BY ReadersFromIInv, Invariance, PTL

-----------------------------------------------------------------------------
(* The ring implements FrameWindow.                                        *)

Held == {data[i] : i \in Slots} \ {NULL}

\* While the ring is open, what it holds are the latest used frames.
LEMMA HeldWhenOpen ==
  ASSUME IInv, phase = "open"
  PROVE  Held = appended - used + 1 .. appended
<1>1. /\ appended \in Nat /\ next \in Slots /\ next <= appended /\ Size \in Nat \ {0}
      /\ used = IF appended < Size THEN appended ELSE Size
      /\ appended < Size => next = appended
      /\ \A i \in Slots : data[i] = LastGiven(i)
  BY DEF IInv, TypeOK, Counters, SlotContents
<1>2. ASSUME NEW i \in Slots, data[i] # NULL PROVE data[i] \in appended - used + 1 .. appended
  BY <1>1, <1>2 DEF LastGiven
<1>3. ASSUME NEW f \in appended - used + 1 .. appended
      PROVE  f # NULL /\ \E i \in Slots : data[i] = f
  <2> DEFINE j == f - appended + next - 1
  <2>1. CASE j >= 0
    <3>1. j \in Slots /\ j < next
      BY <1>1, <2>1
    <3>2. appended - next + j + 1 - 0 = f /\ f >= 1
      BY <1>1
    <3>3. LastGiven(j) = f
      BY <3>1, <3>2 DEF LastGiven
    <3> QED
      BY <1>1, <3>1, <3>2, <3>3
  <2>2. CASE j < 0
    <3>1. j + Size \in Slots /\ ~(j + Size < next)
      BY <1>1, <2>2
    <3>2. appended - next + (j + Size) + 1 - Size = f /\ f >= 1
      BY <1>1
    <3>3. LastGiven(j + Size) = f
      BY <3>1, <3>2 DEF LastGiven
    <3> QED
      BY <1>1, <3>1, <3>2, <3>3
  <2> QED
    BY <1>1, <2>1, <2>2
<1> QED
  BY <1>2, <1>3 DEF Held

LEMMA StepImplementsWindow == IInv /\ IInv' /\ [Next]_vars => [Window!Next]_(Window!vars)
<1> SUFFICES ASSUME IInv, IInv', [Next]_vars PROVE [Window!Next]_(Window!vars)
  OBVIOUS
<1>1. CASE RingbufAppend
  <2>1. /\ phase = "open" /\ phase' = "open" /\ next \in Slots /\ appended \in Nat
        /\ appended' = appended + 1 /\ data' = [data EXCEPT ![next] = appended + 1]
        /\ data \in [Slots -> Nat] /\ OnDestroy(next)
    BY <1>1 DEF RingbufAppend, IInv, TypeOK
  <2>2. /\ Held = appended - used + 1 .. appended
        /\ data[next] = LastGiven(next) /\ used = IF appended < Size THEN appended ELSE Size
        /\ appended < Size => next = appended
    BY <2>1, HeldWhenOpen DEF IInv, Counters, SlotContents
  <2>3. /\ \A i, j \in Slots : data[i] = data[j] /\ data[i] # NULL => i = j
    BY SlotsDistinct DEF IInv
  <2>4. Held' = (Held \ {data[next]}) \cup {appended + 1}
    <3>1. \A i \in Slots : data'[i] = IF i = next THEN appended + 1 ELSE data[i]
      BY <2>1
    <3>2. \A i \in Slots \ {next} : data[i] # NULL => data[i] # data[next]
      BY <2>1, <2>3
    <3> QED
      BY <2>1, <3>1, <3>2 DEF Held
  <2>5. CASE appended < Size
    <3>1. data[next] = NULL /\ UNCHANGED freed
      BY <2>1, <2>2, <2>5 DEF LastGiven, OnDestroy
    <3>2. Held' = Held \cup {appended + 1}
      BY <2>2, <2>4, <2>5, <3>1 DEF Held
    <3>3. Window!Keep
      BY <2>1, <2>5, <3>1, <3>2 DEF Window!Keep, Held
    <3> QED
      BY <3>3 DEF Window!Next
  <2>6. CASE ~(appended < Size)
    <3>1. data[next] = appended - Size + 1 /\ data[next] # NULL
      BY <2>1, <2>2, <2>6 DEF LastGiven
    <3>2. data[next] \in Held /\ \A f \in Held : data[next] <= f
      BY <2>1, <2>2, <2>6, <3>1
    <3>3. freed' = Append(freed, data[next])
      BY <2>1, <3>1 DEF OnDestroy
    <3>4. appended >= Size
      BY <2>1, <2>6
    <3>5. \E oldest \in Held : /\ \A f \in Held : oldest <= f
                               /\ Held' = (Held \ {oldest}) \cup {appended + 1}
                               /\ freed' = Append(freed, oldest)
      BY <2>4, <3>2, <3>3
    <3>6. Window!Replace
      BY <2>1, <3>4, <3>5 DEF Window!Replace, Held
    <3> QED
      BY <3>6 DEF Window!Next
  <2> QED
    BY <2>5, <2>6
<1>2. CASE DestroySlot
  <2>1. /\ phase = "destroying" /\ phase' = "destroying" /\ p \in Slots /\ OnDestroy(p)
        /\ UNCHANGED appended /\ data' = [data EXCEPT ![p] = NULL] /\ data \in [Slots -> Nat]
    BY <1>2 DEF DestroySlot, LoopEnd, IInv, TypeOK
  <2>2. /\ \A i, j \in Slots : data[i] = data[j] /\ data[i] # NULL => i = j
    BY SlotsDistinct DEF IInv
  <2>3. Held' = Held \ {data[p]}
    <3>1. \A i \in Slots : data'[i] = IF i = p THEN NULL ELSE data[i]
      BY <2>1
    <3>2. \A i \in Slots \ {p} : data[i] # NULL => data[i] # data[p]
      BY <2>1, <2>2
    <3> QED
      BY <2>1, <3>1, <3>2 DEF Held
  <2>4. CASE data[p] = NULL
    BY <2>1, <2>3, <2>4 DEF OnDestroy, Held, Window!vars
  <2>5. CASE data[p] # NULL
    <3>1. data[p] \in Held /\ freed' = Append(freed, data[p])
      BY <2>1, <2>5 DEF OnDestroy, Held
    <3>2. Window!Free
      BY <2>1, <2>3, <3>1 DEF Window!Free, Held
    <3> QED
      BY <3>2 DEF Window!Next
  <2> QED
    BY <2>4, <2>5
<1>3. CASE RingbufDestroy
  BY <1>3 DEF RingbufDestroy, Window!Close, Window!Next
<1>4. CASE FreeRing
  BY <1>4 DEF FreeRing, Window!vars
<1>5. CASE UNCHANGED vars
  BY <1>5 DEF vars, Window!vars
<1> QED
  BY <1>1, <1>2, <1>3, <1>4, <1>5 DEF Next

\* The ring keeps exactly the latest frames, frees the oldest one to make room
\* for another, and frees the rest once each when it is destroyed.
THEOREM RingBufImplementsWindow == Spec => KeepsWindow
<1>1. Init => Window!Init
  BY DEF Init, Window!Init
<1> QED
  BY <1>1, Invariance, StepImplementsWindow, PTL DEF Spec, KeepsWindow, Window!Spec

-----------------------------------------------------------------------------
(* The ring of the viewer.                                                 *)

USE RingBufAssumption, FramesAssumption DEF RingBufAssumption, FramesAssumption, NULL

LEMMA StepOfRing == [FramesNext]_framesVars => [Next]_vars
<1> SUFFICES ASSUME [FramesNext]_framesVars PROVE [Next]_vars
  OBVIOUS
<1>1. CASE AppendFrame
  BY <1>1 DEF AppendFrame, Next
<1>2. CASE Join
  BY <1>2 DEF Join, Next
<1>3. CASE FramebufDestroy
  BY <1>3 DEF FramebufDestroy, Next
<1>4. CASE UNCHANGED framesVars
  BY <1>4 DEF framesVars
<1>5. CASE \/ FrameCreate \/ Decode \/ DecodeFails \/ LockMutex \/ ReplacePixbuf \/ UnlockMutex
           \/ UpdateLabel \/ GrabberReturns \/ Repaint \/ Repainted \/ Cancel \/ UnrefPixbuf
  BY <1>5 DEF FrameCreate, Decode, DecodeFails, LockMutex, ReplacePixbuf, UnlockMutex, UpdateLabel,
              GrabberReturns, Repaint, Repainted, Cancel, UnrefPixbuf
<1> QED
  BY <1>1, <1>2, <1>3, <1>4, <1>5 DEF FramesNext, Worker, Gui

\* Whatever the worker and the main thread do, the frame buffer between them
\* goes through states and steps of RingBuf only.
THEOREM FramesImplementRing == FramesSpec => Spec
<1>1. FramesInit => Init
  BY DEF FramesInit
<1> QED
  BY <1>1, StepOfRing, PTL DEF FramesSpec, Spec

\* And so it keeps the latest frames and frees each once.
THEOREM FramesKeepWindow == FramesSpec => KeepsWindow
  BY FramesImplementRing, RingBufImplementsWindow, PTL

LEMMA RingInvariance == FramesSpec => []IInv
  BY FramesImplementRing, Invariance, PTL

-----------------------------------------------------------------------------
(* The pixels.                                                             *)

\* The mutex is held exactly where the code between lock and unlock runs; the
\* main thread paints the pixbuf it found there; it frees nothing before the
\* worker has ended.
Locks ==
  /\ worker \in WorkerPcs
  /\ gui \in GuiPcs
  /\ mutex \in {"nobody", "worker", "gui"}
  /\ mutex = "worker" <=> worker \in {"replace", "unlock"}
  /\ mutex = "gui" <=> gui = "paint"
  /\ gui \in {"destroy", "unref", "end"} => worker = "end"
  /\ gui = "paint" => painted = pixbuf

\* The blocks that nothing points to.
Lost == pixels \ {decoded, pixbuf}

\* Every block has one owner, the callback or the pixbuf, or is lost; and no
\* more are lost than frames have failed.
Pixels ==
  /\ blocks \in Nat
  /\ pixels \subseteq 1 .. blocks
  /\ pixbuf \in {NULL} \cup 1 .. blocks
  /\ painted \in {NULL} \cup 1 .. blocks
  /\ failures \in 0 .. MaxFailures
  /\ gui # "end" => pixbuf \in pixels \cup {NULL}
  /\ gui = "end" => pixbuf \notin pixels
  /\ worker \in {"lock", "replace"} => decoded \in pixels /\ decoded # pixbuf
  /\ worker \notin {"lock", "replace"} => decoded = NULL
  /\ IsFiniteSet(Lost) /\ Cardinality(Lost) <= failures

LEMMA InitPixels == FramesInit => Locks /\ Pixels
<1> SUFFICES ASSUME FramesInit PROVE Locks /\ Pixels
  OBVIOUS
<1>1. Lost = {} /\ IsFiniteSet({}) /\ Cardinality({}) = 0
  BY FS_EmptySet DEF FramesInit, Lost
<1> QED
  BY <1>1 DEF FramesInit, Locks, Pixels, WorkerPcs, GuiPcs

LEMMA LocksStep == Locks /\ [FramesNext]_framesVars => Locks'
<1> SUFFICES ASSUME Locks, [FramesNext]_framesVars PROVE Locks'
  OBVIOUS
<1> USE DEF Locks, WorkerPcs, GuiPcs, WorkerGoes, GuiGoes
<1>1. CASE Worker
  BY <1>1 DEF Worker, FrameCreate, Decode, DecodeFails, LockMutex, ReplacePixbuf, UnlockMutex,
              AppendFrame, UpdateLabel, GrabberReturns, pixelVars
<1>2. CASE Gui
  BY <1>2 DEF Gui, Repaint, Repainted, Cancel, Join, FramebufDestroy, UnrefPixbuf, pixelVars
<1>3. CASE UNCHANGED framesVars
  BY <1>3 DEF framesVars, pixelVars
<1> QED
  BY <1>1, <1>2, <1>3 DEF FramesNext

LEMMA PixelsStep == Locks /\ Pixels /\ [FramesNext]_framesVars => Pixels'
<1> SUFFICES ASSUME Locks, Pixels, [FramesNext]_framesVars PROVE Pixels'
  OBVIOUS
<1> USE DEF WorkerGoes, GuiGoes
<1>1. CASE Decode
  <2>1. /\ blocks' = blocks + 1 /\ pixels' = pixels \cup {blocks + 1} /\ decoded' = blocks + 1
        /\ UNCHANGED <<gui, pixbuf, painted, failures>> /\ decoded = NULL /\ worker' = "lock"
        /\ worker # "end"
    BY <1>1 DEF Decode, Pixels
  <2>2. blocks + 1 \notin pixels /\ blocks + 1 # pixbuf /\ NULL \notin pixels
    BY DEF Pixels
  <2>3. Lost' = Lost
    BY <2>1, <2>2 DEF Lost
  <2>4. gui # "end"
    BY <2>1 DEF Locks
  <2> QED
    BY <2>1, <2>2, <2>3, <2>4 DEF Pixels
<1>2. CASE DecodeFails
  <2>1. /\ failures' = failures + 1 /\ failures < MaxFailures
        /\ UNCHANGED <<gui, decoded, pixbuf, painted>> /\ decoded = NULL
        /\ worker' = "grab" /\ worker # "end"
    BY <1>2 DEF DecodeFails, Pixels
  <2>2. gui # "end" /\ failures + 1 \in 0 .. MaxFailures
    BY <2>1 DEF Locks, Pixels
  <2>3. CASE UNCHANGED <<blocks, pixels>>
    <3>1. Lost' = Lost
      BY <2>1, <2>3 DEF Lost
    <3> HIDE DEF Lost
    <3>2. Cardinality(Lost) \in Nat /\ failures \in Nat
      BY FS_CardinalityType DEF Pixels
    <3> QED
      BY <2>1, <2>2, <2>3, <3>1, <3>2 DEF Pixels
  <2>4. CASE blocks' = blocks + 1 /\ pixels' = pixels \cup {blocks'}
    <3>1. blocks + 1 \notin pixels /\ blocks + 1 # pixbuf /\ blocks + 1 # decoded
      BY <2>1 DEF Pixels
    <3>2. Lost' = Lost \cup {blocks + 1} /\ blocks + 1 \notin Lost
      BY <2>1, <2>4, <3>1 DEF Lost
    <3>3. IsFiniteSet(Lost') /\ Cardinality(Lost') = Cardinality(Lost) + 1
      BY <3>2, FS_AddElement DEF Pixels
    <3>4. Cardinality(Lost) \in Nat /\ failures \in Nat
      BY FS_CardinalityType DEF Pixels
    <3>5. Cardinality(Lost') <= failures'
      BY <2>1, <3>3, <3>4 DEF Pixels
    <3>6. blocks' \in Nat /\ pixels' \subseteq 1 .. blocks' /\ (1 .. blocks) \subseteq 1 .. blocks'
      BY <2>4 DEF Pixels
    <3> QED
      BY <2>1, <2>2, <2>4, <3>3, <3>5, <3>6 DEF Pixels
  <2> QED
    BY <1>2, <2>3, <2>4 DEF DecodeFails
<1>3. CASE ReplacePixbuf
  <2>1. /\ pixels' = pixels \ {pixbuf} /\ pixbuf' = decoded /\ decoded' = NULL
        /\ UNCHANGED <<gui, blocks, painted, failures>> /\ worker' = "unlock" /\ worker = "replace"
        /\ decoded \in pixels /\ decoded # pixbuf
    BY <1>3 DEF ReplacePixbuf, Pixels
  <2>2. NULL \notin pixels
    BY DEF Pixels
  <2>3. Lost' = Lost
    BY <2>1, <2>2 DEF Lost
  <2>4. gui # "end"
    BY <2>1 DEF Locks
  <2> QED
    BY <2>1, <2>3, <2>4 DEF Pixels
<1>4. CASE UnrefPixbuf
  <2>1. /\ pixels' = pixels \ {pixbuf} /\ gui' = "end" /\ gui = "unref"
        /\ UNCHANGED <<worker, blocks, decoded, pixbuf, painted, failures>>
    BY <1>4 DEF UnrefPixbuf
  <2>2. Lost' = Lost
    BY <2>1 DEF Lost
  <2>3. worker = "end"
    BY <2>1 DEF Locks
  <2> QED
    BY <2>1, <2>2, <2>3 DEF Pixels
<1>5. CASE Repaint \/ Repainted
  <2>1. /\ painted' \in {pixbuf, NULL} /\ gui # "end" /\ gui' # "end"
        /\ UNCHANGED <<worker, pixels, blocks, decoded, pixbuf, failures>>
    BY <1>5 DEF Repaint, Repainted
  <2>2. Lost' = Lost
    BY <2>1 DEF Lost
  <2> QED
    BY <2>1, <2>2 DEF Pixels
<1>6. CASE Cancel \/ Join \/ FramebufDestroy
  <2>1. UNCHANGED <<worker, pixelVars>> /\ gui # "end" /\ gui' # "end"
    BY <1>6 DEF Cancel, Join, FramebufDestroy
  <2>2. Lost' = Lost
    BY <2>1 DEF Lost, pixelVars
  <2> QED
    BY <2>1, <2>2 DEF Pixels, pixelVars
<1>7. CASE \/ FrameCreate \/ LockMutex \/ UnlockMutex \/ AppendFrame \/ UpdateLabel
           \/ GrabberReturns
  <2>1. /\ UNCHANGED <<gui, pixelVars>>
        /\ worker \in {"lock", "replace"} <=> worker' \in {"lock", "replace"}
    BY <1>7 DEF FrameCreate, LockMutex, UnlockMutex, AppendFrame, UpdateLabel, GrabberReturns
  <2>2. Lost' = Lost
    BY <2>1 DEF Lost, pixelVars
  <2> QED
    BY <2>1, <2>2 DEF Pixels, pixelVars
<1>8. CASE UNCHANGED framesVars
  BY <1>8 DEF Pixels, Lost, framesVars, pixelVars
<1> QED
  BY <1>1, <1>2, <1>3, <1>4, <1>5, <1>6, <1>7, <1>8 DEF FramesNext, Worker, Gui

LEMMA PixelsInvariance == FramesSpec => [](Locks /\ Pixels)
  BY InitPixels, LocksStep, PixelsStep, PTL DEF FramesSpec

\* The main thread never paints pixels the worker has freed: the mutex covers
\* the whole of the painting and the whole of the replacement.
THEOREM PaintCorrect == FramesSpec => []PaintsLivePixels
<1>1. Locks /\ Pixels => PaintsLivePixels
  BY DEF Locks, Pixels, PaintsLivePixels
<1> QED
  BY <1>1, PixelsInvariance, PTL

\* When a camera is destroyed, no pixels but those of frames that could not be
\* decoded are left on the heap.
THEOREM FramesTypeCorrect == FramesSpec => []FramesTypeOK
<1>1. Locks /\ Pixels => FramesTypeOK
  <2> SUFFICES ASSUME Locks, Pixels PROVE FramesTypeOK
    OBVIOUS
  <2>1. decoded \in {NULL} \cup 1 .. blocks
    BY DEF Pixels
  <2>2. gui = "end" => Cardinality(pixels) <= failures
    <3> SUFFICES ASSUME gui = "end" PROVE Cardinality(pixels) <= failures
      OBVIOUS
    <3>1. pixbuf \notin pixels /\ decoded = NULL /\ NULL \notin pixels
      BY DEF Locks, Pixels
    <3>2. pixels = Lost
      BY <3>1 DEF Lost
    <3> QED
      BY <3>2 DEF Pixels
  <2> QED
    BY <2>1, <2>2 DEF FramesTypeOK, Locks, Pixels
<1> QED
  BY <1>1, PixelsInvariance, PTL

-----------------------------------------------------------------------------
(* The label.                                                              *)

\* The parts of a time that framebuf_status_string() writes add up to it, and
\* none but the first is as large as the next unit.
LEMMA AgeAddsUp ==
  ASSUME NEW span \in Int
  PROVE  /\ Seconds(Age(span)) = span
         /\ \A i \in 2 .. Len(Age(span)) :
              Age(span)[i] < IF Len(Age(span)) - i = 2 THEN 24 ELSE 60
<1> DEFINE d == span \div 86400
           h == (span % 86400) \div 3600
           m == (span % 3600) \div 60
           s == span % 60
<1>1. d \in Int /\ h \in Int /\ m \in Int /\ s \in Int
  OBVIOUS
<1>2. h < 24 /\ m < 60 /\ s < 60
  OBVIOUS
<1>3. span = 86400 * d + 3600 * h + 60 * m + s
  OBVIOUS
<1>4. span >= 60 => d >= 0 /\ h >= 0 /\ m >= 0
  OBVIOUS
<1>5. CASE span < 60
  <2>1. Age(span) = <<span>>
    BY <1>5 DEF Age
  <2>2. Seconds(<<span>>) = span
    BY DEF Seconds
  <2>3. Len(<<span>>) = 1
    OBVIOUS
  <2> QED
    BY <2>1, <2>2, <2>3
<1>6. CASE span >= 60 /\ d > 0
  <2>1. Age(span) = <<d, h, m, s>>
    BY <1>6 DEF Age
  <2> HIDE DEF d, h, m, s
  <2>2. Seconds(<<d, h, m, s>>) = 86400 * d + 3600 * h + 60 * m + s
    BY <1>1 DEF Seconds
  <2>3. \A i \in 2 .. Len(<<d, h, m, s>>) :
          <<d, h, m, s>>[i] < IF Len(<<d, h, m, s>>) - i = 2 THEN 24 ELSE 60
    BY <1>1, <1>2
  <2>4. 86400 * d + 3600 * h + 60 * m + s = span
    BY <1>3
  <2> QED
    BY <2>1, <2>2, <2>3, <2>4
<1>7. CASE span >= 60 /\ d = 0 /\ h > 0
  <2>1. Age(span) = <<h, m, s>>
    BY <1>7 DEF Age
  <2> HIDE DEF d, h, m, s
  <2>2. Seconds(<<h, m, s>>) = 3600 * h + 60 * m + s
    BY <1>1 DEF Seconds
  <2>3. \A i \in 2 .. Len(<<h, m, s>>) :
          <<h, m, s>>[i] < IF Len(<<h, m, s>>) - i = 2 THEN 24 ELSE 60
    BY <1>1, <1>2
  <2>4. 3600 * h + 60 * m + s = span
    BY <1>1, <1>3, <1>7
  <2> QED
    BY <2>1, <2>2, <2>3, <2>4
<1>8. CASE span >= 60 /\ d = 0 /\ h = 0
  <2>1. Age(span) = <<m, s>>
    BY <1>8 DEF Age
  <2> HIDE DEF d, h, m, s
  <2>2. Seconds(<<m, s>>) = 60 * m + s
    BY <1>1 DEF Seconds
  <2>3. \A i \in 2 .. Len(<<m, s>>) :
          <<m, s>>[i] < IF Len(<<m, s>>) - i = 2 THEN 24 ELSE 60
    BY <1>1, <1>2
  <2>4. 60 * m + s = span
    BY <1>1, <1>3, <1>8
  <2> QED
    BY <2>1, <2>2, <2>3, <2>4
<1> HIDE DEF d, h, m, s
<1> QED
  BY <1>1, <1>4, <1>5, <1>6, <1>7, <1>8

\* The ring is whole while the worker runs, and the label tells its state except
\* between an append and the update that follows it.
Label ==
  /\ worker # "end" => gui \in {"loop", "paint", "join"}
  /\ gui \in {"loop", "paint", "join"} => phase = "open"
  /\ appended <= MaxFrames
  /\ worker = "label" => appended > 0
  /\ worker # "label" /\ appended > 0 =>
       label = [used |-> used, age |-> Age(Stamp[appended] - Stamp[appended - used + 1])]

LEMMA LabelStep == IInv /\ Locks /\ Label /\ [FramesNext]_framesVars => Label'
<1> SUFFICES ASSUME IInv, Locks, Label, [FramesNext]_framesVars PROVE Label'
  OBVIOUS
<1> USE DEF WorkerGoes, GuiGoes
<1>1. CASE AppendFrame
  BY <1>1 DEF AppendFrame, RingbufAppend, Label, IInv, TypeOK
<1>2. CASE UpdateLabel
  <2>1. /\ UNCHANGED <<vars, gui>> /\ worker = "label" /\ worker' = "grab"
        /\ label' = [used |-> used, age |-> Age(Stamp[RingbufNewest] - Stamp[RingbufOldest])]
    BY <1>2 DEF UpdateLabel
  <2>2. phase = "open" /\ appended > 0
    BY <2>1 DEF Label
  <2>3. RingbufNewest = appended /\ RingbufOldest = appended - used + 1
    <3>1. OldestAndNewest
      BY ReadersFromIInv
    <3> QED
      BY <2>2, <3>1 DEF OldestAndNewest
  <2> QED
    BY <2>1, <2>2, <2>3 DEF Label, vars
<1>3. CASE Join \/ FramebufDestroy
  BY <1>3 DEF Join, FramebufDestroy, RingbufDestroy, DestroySlot, FreeRing, Label
<1>4. CASE \/ FrameCreate \/ Decode \/ DecodeFails \/ LockMutex \/ ReplacePixbuf \/ UnlockMutex
           \/ GrabberReturns \/ Repaint \/ Repainted \/ Cancel \/ UnrefPixbuf
  BY <1>4 DEF FrameCreate, Decode, DecodeFails, LockMutex, ReplacePixbuf, UnlockMutex,
              GrabberReturns, Repaint, Repainted, Cancel, UnrefPixbuf, Label, Locks, vars
<1>5. CASE UNCHANGED framesVars
  BY <1>5 DEF framesVars, vars, Label
<1> QED
  BY <1>1, <1>2, <1>3, <1>4, <1>5 DEF FramesNext, Worker, Gui

LEMMA LabelInvariance == FramesSpec => [](IInv /\ Label)
<1>1. FramesInit => Label
  BY DEF FramesInit, Init, Label
<1> QED
  BY <1>1, LabelStep, PixelsInvariance, RingInvariance, PTL DEF FramesSpec

\* The worker reads and fills the ring only while it is whole: the join comes
\* before the destruction.
THEOREM BufferCorrect == FramesSpec => []BufferOutlivesWorker
<1>1. Label => BufferOutlivesWorker
  BY DEF Label, BufferOutlivesWorker
<1> QED
  BY <1>1, LabelInvariance, PTL

\* The label is right to the second, for every size of the ring, every number
\* of frames and every clock.
THEOREM StatusCorrect == FramesSpec => []StatusAddsUp
<1>1. IInv /\ Label => StatusAddsUp
  <2> SUFFICES ASSUME IInv, Label, worker \in {"grab", "decode"}, appended > 0
               PROVE  /\ label.used = IF appended < Size THEN appended ELSE Size
                      /\ Seconds(label.age) = Stamp[appended] - Stamp[appended - label.used + 1]
                      /\ \A i \in 2 .. Len(label.age) :
                           label.age[i] < IF Len(label.age) - i = 2 THEN 24 ELSE 60
    BY DEF StatusAddsUp
  <2> DEFINE span == Stamp[appended] - Stamp[appended - used + 1]
  <2>1. label.used = used /\ label.age = Age(span)
    BY DEF Label
  <2>2. /\ used = IF appended < Size THEN appended ELSE Size
        /\ appended \in 1 .. MaxFrames /\ appended - used + 1 \in 1 .. MaxFrames
    BY DEF IInv, TypeOK, Counters, Label
  <2>3. span \in Int
    BY <2>2
  <2> HIDE DEF span
  <2>4. /\ Seconds(Age(span)) = span
        /\ \A i \in 2 .. Len(Age(span)) :
             Age(span)[i] < IF Len(Age(span)) - i = 2 THEN 24 ELSE 60
    BY <2>3, AgeAddsUp
  <2> QED
    BY <2>1, <2>2, <2>4 DEF span
<1> QED
  BY <1>1, LabelInvariance, PTL

=============================================================================
