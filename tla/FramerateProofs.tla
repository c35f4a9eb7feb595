--------------------------- MODULE FramerateProofs ---------------------------
(***************************************************************************)
(* Proofs about the framerate estimator, for any size of its ring and any  *)
(* times. The estimate depends on three numbers: how many timestamps there *)
(* are, the time between the oldest and the newest, and the time since.    *)
(***************************************************************************)
EXTENDS Framerate, SequenceTheorems, TLAPS

\* Any two timestamps are in order, and so are the oldest and the newest.
Sorted == \A j, k \in 1 .. Used : j <= k => stamps[j] <= stamps[k]

IInv == stamps \in Seq(Nat) /\ TypeOK /\ Sorted

-----------------------------------------------------------------------------
LEMMA InitIInv == Init => IInv
<1> SUFFICES ASSUME Init PROVE IInv
  OBVIOUS
<1>1. stamps \in Seq(Nat) /\ Len(stamps) = 0
  BY EmptySeq DEF Init
<1> QED
  BY <1>1, FramerateAssumption DEF FramerateAssumption, Init, IInv, TypeOK, Sorted, Used

\* What a step has to show of the timestamps it keeps.
LEMMA KeptIsRight ==
  ASSUME IInv, now' = now,
         stamps' \in Seq(Nat), Len(stamps') \in Nat, Len(stamps') <= Size,
         \A k \in 1 .. Len(stamps') : stamps'[k] \in 0 .. now,
         \A j, k \in 1 .. Len(stamps') : j <= k => stamps'[j] <= stamps'[k]
  PROVE  IInv'
<1>1. Size \in Nat /\ now \in Nat /\ now \in 0 .. MaxTime
  BY FramerateAssumption DEF FramerateAssumption, IInv, TypeOK
<1>2. Used' \in 0 .. Size
  BY <1>1 DEF Used
<1>3. \A k \in 2 .. Used' : stamps'[k - 1] <= stamps'[k]
  BY <1>1, <1>2 DEF Used
<1> QED
  BY <1>1, <1>2, <1>3 DEF IInv, TypeOK, Sorted, Used

\* The ring keeps the latest timestamps in their order.
LEMMA StepIInv == IInv /\ [Next]_vars => IInv'
<1> SUFFICES ASSUME IInv, [Next]_vars PROVE IInv'
  OBVIOUS
<1>1. now \in Nat /\ Len(stamps) \in Nat /\ Size \in Nat \ {0} /\ Len(stamps) <= Size
  BY FramerateAssumption, LenProperties DEF FramerateAssumption, IInv, TypeOK, Used
<1>2. CASE InsertDatapoint
  <2>1. PICK ts \in 0 .. now :
          /\ stamps # <<>> => stamps[Len(stamps)] <= ts
          /\ stamps' = Latest(Append(stamps, ts))
    BY <1>2 DEF InsertDatapoint
  <2> DEFINE longer == Append(stamps, ts)
  <2>2. /\ longer \in Seq(Nat) /\ longer # <<>>
        /\ Len(longer) = Len(stamps) + 1
        /\ \A k \in 1 .. Len(stamps) : longer[k] = stamps[k]
        /\ longer[Len(stamps) + 1] = ts
    BY <1>1, AppendProperties DEF IInv
  <2>3. \A k \in 1 .. Len(longer) : longer[k] \in 0 .. now
    BY <1>1, <2>2 DEF IInv, TypeOK, Used
  <2>4. \A j, k \in 1 .. Len(longer) : j <= k => longer[j] <= longer[k]
    <3>1. ASSUME NEW j \in 1 .. Len(longer), NEW k \in 1 .. Len(longer), j <= k
          PROVE  longer[j] <= longer[k]
      <4>1. CASE k <= Len(stamps)
        BY <1>1, <2>2, <3>1, <4>1 DEF IInv, Sorted, Used
      <4>2. CASE k = Len(stamps) + 1 /\ j <= Len(stamps)
        <5>1. stamps[j] <= stamps[Len(stamps)] /\ stamps[Len(stamps)] <= ts
          BY <1>1, <2>1, <4>2, EmptySeq DEF IInv, Sorted, Used
        <5>2. stamps[j] \in Nat /\ stamps[Len(stamps)] \in Nat /\ ts \in Nat
          BY <1>1, <2>2, <4>2, ElementOfSeq DEF IInv
        <5> QED
          BY <2>2, <4>2, <5>1, <5>2
      <4>3. CASE k = Len(stamps) + 1 /\ j = Len(stamps) + 1
        BY <1>1, <2>2, <4>3
      <4> QED
        BY <1>1, <2>2, <3>1, <4>1, <4>2, <4>3
    <3> QED
      BY <3>1
  <2> HIDE DEF longer
  <2>5. CASE Len(longer) > Size
    <3>1. stamps' = Tail(longer)
      BY <2>1, <2>5 DEF Latest, longer
    <3>2. /\ Tail(longer) \in Seq(Nat)
          /\ Len(Tail(longer)) = Len(longer) - 1
          /\ \A k \in 1 .. Len(Tail(longer)) : Tail(longer)[k] = longer[k + 1]
      BY <2>2, HeadTailProperties
    <3>3. Len(longer) - 1 = Len(stamps)
      BY <1>1, <2>2
    <3>4. /\ stamps' \in Seq(Nat) /\ Len(stamps') = Len(stamps) /\ now' = now
          /\ \A k \in 1 .. Len(stamps) : stamps'[k] = longer[k + 1]
      BY <1>2, <3>1, <3>2, <3>3 DEF InsertDatapoint
    <3>5. \A k \in 1 .. Len(stamps) : k + 1 \in 1 .. Len(longer)
      BY <1>1, <2>2
    <3>6. \A k \in 1 .. Len(stamps) : stamps'[k] \in 0 .. now
      BY <2>3, <3>4, <3>5
    <3>7. \A j, k \in 1 .. Len(stamps) : j <= k => stamps'[j] <= stamps'[k]
      <4>1. ASSUME NEW j \in 1 .. Len(stamps), NEW k \in 1 .. Len(stamps), j <= k
            PROVE  longer[j + 1] <= longer[k + 1]
        <5>1. j + 1 <= k + 1
          BY <1>1, <4>1
        <5> QED
          BY <2>4, <3>5, <5>1
      <4> QED
        BY <3>4, <4>1
    <3> QED
      BY <1>1, <3>4, <3>6, <3>7, KeptIsRight
  <2>6. CASE ~(Len(longer) > Size)
    <3>1. stamps' = longer
      BY <2>1, <2>6 DEF Latest, longer
    <3>2. Len(stamps') <= Size /\ Len(stamps') \in Nat /\ now' = now
      BY <1>1, <1>2, <2>2, <2>6, <3>1 DEF InsertDatapoint
    <3> QED
      BY <1>1, <2>2, <2>3, <2>4, <3>1, <3>2, KeptIsRight
  <2> QED
    BY <2>5, <2>6
<1>3. CASE Tick
  BY <1>1, <1>3, FramerateAssumption DEF FramerateAssumption, Tick, IInv, TypeOK, Sorted, Used
<1>4. CASE UNCHANGED vars
  BY <1>4 DEF vars, IInv, TypeOK, Sorted, Used
<1> QED
  BY <1>2, <1>3, <1>4 DEF Next

LEMMA Invariance == Spec => []IInv
BY InitIInv, StepIInv, PTL DEF Spec

-----------------------------------------------------------------------------
\* The numbers the estimate is made of.
LEMMA Spans ==
  ASSUME IInv, Used > 1
  PROVE  /\ Used \in Nat /\ DiffAmongFrames \in Nat /\ DiffWithNow \in Nat
         /\ Newest - Oldest = DiffAmongFrames
         /\ now - Oldest = DiffAmongFrames + DiffWithNow
<1>1. Used \in Nat
  BY LenProperties DEF IInv, Used
<1>2. Oldest \in 0 .. now /\ Newest \in 0 .. now /\ Oldest <= Newest
  BY <1>1 DEF IInv, TypeOK, Sorted, Oldest, Newest
<1>3. now \in Nat
  BY FramerateAssumption DEF FramerateAssumption, IInv, TypeOK
<1> QED
  BY <1>1, <1>2, <1>3 DEF DiffAmongFrames, DiffWithNow

\* Spread over at least twice the time, one frame more is no higher rate.
LEMMA LaggingIsLower ==
  ASSUME NEW u \in Nat, u > 1, NEW a \in Nat, NEW w \in Nat, w >= a
  PROVE  u * a <= (u - 1) * (a + w)
<1>1. PICK v \in Nat : u = v + 2
  <2>1. u - 2 \in Nat /\ u = (u - 2) + 2
    OBVIOUS
  <2> QED
    BY <2>1
<1>2. PICK x \in Nat : w = a + x
  <2>1. w - a \in Nat /\ w = a + (w - a)
    OBVIOUS
  <2> QED
    BY <2>1
<1>3. v * a \in Nat /\ v * x \in Nat
  OBVIOUS
<1>4. u * a = v * a + 2 * a
  BY <1>1
<1>5. (u - 1) * (a + w) = 2 * (v * a) + v * x + 2 * a + x
  BY <1>1, <1>2
<1> QED
  BY <1>3, <1>4, <1>5

\* The estimate is one of three fractions.
WhichEstimate ==
  /\ Used <= 1 => Estimate = Stalled
  /\ Used > 1 =>
       /\ DiffWithNow < DiffAmongFrames => Estimate = Steady
       /\ DiffWithNow > 5 * DiffAmongFrames => Estimate = Stalled
       /\ DiffAmongFrames <= DiffWithNow /\ DiffWithNow <= 5 * DiffAmongFrames =>
            Estimate = Lagging

LEMMA EstimateIs == IInv => WhichEstimate
<1> SUFFICES ASSUME IInv PROVE WhichEstimate
  OBVIOUS
<1> USE DEF WhichEstimate
<1>1. Used \in Nat
  BY LenProperties DEF IInv, Used
<1>2. Used <= 1 => Estimate = Stalled
  BY <1>1 DEF Estimate
<1>3. CASE Used > 1
  <2>1. DiffAmongFrames \in Nat /\ DiffWithNow \in Nat
    BY <1>3, Spans
  <2>2. DiffWithNow < DiffAmongFrames => Estimate = Steady
    BY <1>1, <1>3, <2>1 DEF Estimate
  <2>3. DiffWithNow > 5 * DiffAmongFrames => Estimate = Stalled
    BY <1>1, <1>3, <2>1 DEF Estimate
  <2>4. DiffAmongFrames <= DiffWithNow /\ DiffWithNow <= 5 * DiffAmongFrames => Estimate = Lagging
    BY <1>1, <1>3, <2>1 DEF Estimate
  <2> QED
    BY <1>1, <1>2, <1>3, <2>2, <2>3, <2>4
<1> QED
  BY <1>1, <1>2, <1>3

LEMMA EstimateIsNext == (IInv => WhichEstimate)'
BY EstimateIs, PTL

LEMMA NaturalEstimate ==
  ASSUME IInv
  PROVE  Estimate.num \in Nat /\ Estimate.den \in Nat
<1>1. Used \in Nat
  BY LenProperties DEF IInv, Used
<1>2. Used > 1 => DiffAmongFrames \in Nat /\ DiffWithNow \in Nat
                  /\ now - Oldest \in Nat /\ Used - 1 \in Nat
  BY <1>1, Spans
<1>3. Estimate \in {Stalled, Steady, Lagging} /\ (Used <= 1 => Estimate = Stalled)
  BY <1>1, <1>2, EstimateIs DEF WhichEstimate
<1> QED
  BY <1>1, <1>2, <1>3 DEF Stalled, Steady, Lagging, Fraction

\* With nothing but time going by, the estimate does not rise.
LEMMA TickLowers ==
  ASSUME IInv, IInv', Tick
  PROVE  AtMost(Estimate', Estimate)
<1> DEFINE u == Used
           a == DiffAmongFrames
           w == DiffWithNow
<1>0. WhichEstimate /\ WhichEstimate'
  BY EstimateIs, EstimateIsNext
<1>1. /\ Used' = u /\ DiffAmongFrames' = a /\ Oldest' = Oldest /\ Newest' = Newest
      /\ u \in Nat /\ now' = now + 1
  BY LenProperties DEF IInv, Tick, Used, DiffAmongFrames, Oldest, Newest
<1>2. CASE u <= 1
  <2>1. Estimate = Stalled /\ Estimate' = Stalled
    BY <1>0, <1>1, <1>2 DEF WhichEstimate
  <2> QED
    BY <2>1 DEF AtMost, Stalled, Fraction
<1>3. CASE u > 1
  <2>1. a \in Nat /\ w \in Nat /\ now - Oldest = a + w
    BY <1>3, Spans
  <2>2. DiffWithNow' = w + 1 /\ now' - Oldest' = a + (w + 1)
    <3>1. now \in Int /\ Newest \in Int /\ Oldest \in Int
      BY <1>1, <1>3, FramerateAssumption
      DEF FramerateAssumption, IInv, TypeOK, Newest, Oldest
    <3> QED
      BY <1>1, <2>1, <3>1 DEF DiffWithNow
  <2>3. /\ w < a => Estimate = Fraction(u - 1, a)
        /\ w > 5 * a => Estimate = Fraction(0, 1)
        /\ a <= w /\ w <= 5 * a => Estimate = Fraction(u, a + w)
    BY <1>0, <1>3, <2>1 DEF WhichEstimate, Steady, Stalled, Lagging
  <2>4. /\ w + 1 < a => Estimate' = Fraction(u - 1, a)
        /\ w + 1 > 5 * a => Estimate' = Fraction(0, 1)
        /\ a <= w + 1 /\ w + 1 <= 5 * a => Estimate' = Fraction(u, a + (w + 1))
    BY <1>0, <1>1, <1>3, <2>1, <2>2 DEF WhichEstimate, Steady, Stalled, Lagging
  <2>5. u \in Nat /\ u - 1 \in Nat
    BY <1>1, <1>3
  <2>6. u > 1
    BY <1>3
  <2> HIDE DEF u, a, w
  <2>7. CASE w + 1 > 5 * a
    <3>1. Estimate' = Fraction(0, 1)
      BY <2>4, <2>7
    <3>2. Estimate.num \in Nat /\ Estimate.den \in Nat
      BY <2>1, <2>3, <2>5 DEF Fraction
    <3> QED
      BY <3>1, <3>2 DEF AtMost, Fraction
  <2>8. CASE w + 1 < a
    <3>1. Estimate' = Fraction(u - 1, a) /\ Estimate = Fraction(u - 1, a)
      BY <2>1, <2>3, <2>4, <2>8
    <3> QED
      BY <2>1, <2>5, <3>1 DEF AtMost, Fraction
  <2>9. CASE a <= w + 1 /\ w + 1 <= 5 * a
    <3>1. Estimate' = Fraction(u, a + (w + 1))
      BY <2>4, <2>9
    <3>2. CASE w < a
      <4>1. Estimate = Fraction(u - 1, a)
        BY <2>3, <3>2
      <4>2. w + 1 \in Nat /\ w + 1 >= a
        BY <2>1, <2>9
      <4>3. u * a <= (u - 1) * (a + (w + 1))
        BY <2>1, <2>5, <2>6, <4>2, LaggingIsLower
      <4> QED
        BY <3>1, <4>1, <4>3 DEF AtMost, Fraction
    <3>3. CASE a <= w
      <4>1. Estimate = Fraction(u, a + w)
        BY <2>1, <2>3, <2>9, <3>3
      <4>2. u * (a + w) <= u * (a + (w + 1))
        <5>1. u * (a + (w + 1)) = u * (a + w) + u
          BY <2>1, <2>5
        <5>2. u * (a + w) \in Nat
          BY <2>1, <2>5
        <5> QED
          BY <2>5, <5>1, <5>2
      <4> QED
        BY <3>1, <4>1, <4>2 DEF AtMost, Fraction
    <3> QED
      BY <2>1, <3>2, <3>3
  <2> QED
    BY <2>1, <2>7, <2>8, <2>9
<1> QED
  BY <1>1, <1>2, <1>3

-----------------------------------------------------------------------------
\* The ring never holds more than its size, in order and not from the future.
THEOREM TypeCorrect == Spec => []TypeOK
<1>1. IInv => TypeOK
  BY DEF IInv
<1> QED
  BY <1>1, Invariance, PTL

\* The estimate never exceeds the rate of the frames it is made from, whatever
\* the size of the ring and the time since the newest frame.
THEOREM EstimateCorrect == Spec => []NeverOverstates
<1>1. IInv => NeverOverstates
  <2> SUFFICES ASSUME IInv PROVE NeverOverstates
    OBVIOUS
  <2> DEFINE u == Used
             a == DiffAmongFrames
             w == DiffWithNow
  <2>1. u \in Nat
    BY LenProperties DEF IInv, Used
  <2>2. CASE u <= 1
    <3>1. Estimate = Stalled
      BY <2>2, EstimateIs DEF WhichEstimate
    <3> QED
      BY <2>1, <2>2, <3>1 DEF NeverOverstates
  <2>3. CASE u > 1
    <3>1. a \in Nat /\ w \in Nat /\ now - Oldest = a + w /\ Newest - Oldest = a
      BY <2>3, Spans
    <3>2. /\ w < a => Estimate = Fraction(u - 1, a)
          /\ w > 5 * a => Estimate = Fraction(0, 1)
          /\ a <= w /\ w <= 5 * a => Estimate = Fraction(u, a + w)
      BY <2>3, <3>1, EstimateIs DEF WhichEstimate, Steady, Stalled, Lagging
    <3>3. u - 1 \in Nat /\ u - 1 > 0
      BY <2>1, <2>3
    <3>4. NeverOverstates <=>
            /\ AtMost(Estimate, Fraction(u - 1, a))
            /\ Estimate # Stalled => Estimate.num > 0 /\ Estimate.den >= 0
      BY <2>3, <3>1 DEF NeverOverstates
    <3>5. u > 1
      BY <2>3
    <3> HIDE DEF u, a, w
    <3>6. CASE w < a
      BY <3>1, <3>2, <3>3, <3>4, <3>6 DEF AtMost, Fraction
    <3>7. CASE w > 5 * a
      <4>1. Estimate = Fraction(0, 1)
        BY <3>2, <3>7
      <4>2. 0 * a <= (u - 1) * 1
        BY <3>1, <3>3
      <4> QED
        BY <3>4, <4>1, <4>2 DEF AtMost, Fraction, Stalled
    <3>8. CASE a <= w /\ w <= 5 * a
      <4>1. Estimate = Fraction(u, a + w)
        BY <3>2, <3>8
      <4>2. u * a <= (u - 1) * (a + w)
        BY <2>1, <3>1, <3>5, <3>8, LaggingIsLower
      <4>3. u > 0 /\ a + w >= 0
        BY <2>1, <3>1, <3>5
      <4> QED
        BY <3>4, <4>1, <4>2, <4>3 DEF AtMost, Fraction
    <3> QED
      BY <3>1, <3>6, <3>7, <3>8
  <2> QED
    BY <2>1, <2>2, <2>3
<1> QED
  BY <1>1, Invariance, PTL

\* While no frame comes in the estimate does not rise, on none of the borders
\* between its three ways of computing.
THEOREM WaitingCorrect == Spec => WaitingLowersEstimate
<1>1. IInv /\ IInv' /\ [Next]_vars => [stamps' = stamps => AtMost(Estimate', Estimate)]_vars
  <2> SUFFICES ASSUME IInv, IInv', Next, stamps' = stamps
               PROVE  AtMost(Estimate', Estimate)
    OBVIOUS
  <2>1. CASE Tick
    BY <2>1, TickLowers
  <2>2. CASE InsertDatapoint
    <3>1. now' = now
      BY <2>2 DEF InsertDatapoint
    <3>2. Estimate' = Estimate
      BY <3>1
      DEF Estimate, Used, DiffWithNow, DiffAmongFrames, Newest, Oldest, Lagging, Steady, Stalled,
          Fraction
    <3> QED
      BY <3>2, NaturalEstimate DEF AtMost
  <2> QED
    BY <2>1, <2>2 DEF Next
<1> QED
  BY <1>1, Invariance, PTL DEF Spec, WaitingLowersEstimate
==============================================================================
