----------------------------- MODULE ConfigProofs -----------------------------
(***************************************************************************)
(* Proofs about the list of sources of mjv_config.c, for any number of     *)
(* elements. The invariant says what the list looks like (Linked) and how  *)
(* far each of the loops over it has got (Built, Walked, Unlinked).        *)
(***************************************************************************)
EXTENDS Config, SequenceTheorems, TLAPS

\* The nodes hang together in the order of their allocation.
Linked ==
  /\ sources = IF allocated = 0 THEN NULL ELSE 1
  /\ \A n \in Nodes : next[n] = IF n < allocated THEN n + 1 ELSE NULL

\* The numbers up to some point, in order.
Count(q) == \A k \in 1 .. Len(q) : q[k] = k

\* While the list is built, iter is its last node.
Built ==
  /\ pc = "read" => allocated = 0
  /\ allocated < i
  /\ pc = "get_sources" => iter = allocated

\* A walk that has begun is at the node it returned last, or at the end.
Walked ==
  /\ Count(visited)
  /\ Len(visited) <= allocated
  /\ pc # "walk" => visited = <<>>
  /\ pc = "walk" /\ visited = <<>> => allocated = 0
  /\ pc = "walk" /\ visited # <<>> =>
       iter = Len(visited) \/ (iter = NULL /\ Len(visited) = allocated)

\* The node behind those that were destroyed.
Behind == IF Len(destroyed) < allocated THEN Len(destroyed) + 1 ELSE NULL

\* The loops that destroy are at the next node, or at the dangling list that
\* mjv_config_get_sources() leaves when it fails.
Unlinked ==
  /\ Count(destroyed)
  /\ Len(destroyed) <= allocated
  /\ freed = 1 .. Len(destroyed)
  /\ pc \in {"read", "get_sources", "ready", "walk"} => destroyed = <<>>
  /\ pc = "err" => iter = Behind
  /\ pc = "destroy" => s = Behind \/ (Len(destroyed) = allocated /\ s = sources)
  /\ pc = "gone" => Len(destroyed) = allocated

IInv == TypeOK /\ Linked /\ Built /\ Walked /\ Unlinked

-----------------------------------------------------------------------------
LEMMA InitIInv == Init => IInv
<1> SUFFICES ASSUME Init PROVE IInv
  OBVIOUS
<1> USE ConfigAssumption, EmptySeq DEF ConfigAssumption, Init, NULL, Nodes
<1>1. TypeOK
  <2>1. {sources, iter, s} \subseteq Nodes \cup {NULL}
    OBVIOUS
  <2>2. i \in 1 .. Elements + 1 /\ allocated \in 0 .. Elements
    OBVIOUS
  <2> QED
    BY <2>1, <2>2 DEF TypeOK
<1>2. Linked /\ Built
  BY DEF Linked, Built
<1>3. Walked /\ Unlinked
  BY DEF Walked, Unlinked, Count
<1> QED
  BY <1>1, <1>2, <1>3 DEF IInv

\* Appending the next number keeps a count.
LEMMA CountOn ==
  ASSUME NEW q \in Seq(Nodes), Count(q), NEW n \in Nodes, n = Len(q) + 1
  PROVE  /\ Append(q, n) \in Seq(Nodes) /\ Append(q, n) # <<>>
         /\ Len(Append(q, n)) = n
         /\ Count(Append(q, n))
<1>1. Len(q) \in Nat
  BY LenProperties
<1> QED
  BY <1>1, AppendProperties DEF Count

LEMMA StepIInv == IInv /\ [Next]_vars => IInv'
<1> SUFFICES ASSUME IInv, [Next]_vars PROVE IInv'
  OBVIOUS
<1>1. /\ Len(destroyed) \in Nat /\ Len(visited) \in Nat /\ Len(<<>>) = 0
      /\ (destroyed = <<>> => Len(destroyed) = 0) /\ (visited # <<>> => Len(visited) > 0)
  BY LenProperties, EmptySeq DEF IInv, TypeOK
<1>2. {sources, iter, s} \subseteq Nodes \cup {NULL}
  BY DEF IInv, TypeOK
<1> USE <1>1, <1>2, ConfigAssumption, EmptySeq
    DEF ConfigAssumption, IInv, TypeOK, Linked, Built, Walked, Unlinked, Behind, Goes, list,
        MoreElements, NULL, Nodes
<1>3. CASE ReadFails \/ GetSources \/ GetSourcesFails \/ DestroyConfig
  <2>1. {sources', iter', s'} \subseteq Nodes \cup {NULL}
    BY <1>3 DEF ReadFails, GetSources, GetSourcesFails, DestroyConfig, Destroy
  <2>2. Linked' /\ Built' /\ Walked'
    BY <1>3 DEF ReadFails, GetSources, GetSourcesFails, DestroyConfig, Destroy, Count
  <2>3. CASE ReadFails \/ GetSources
    BY <2>1, <2>2, <2>3 DEF ReadFails, GetSources, Destroy, Count
  <2>4. CASE GetSourcesFails
    BY <2>1, <2>2, <2>4 DEF GetSourcesFails, Destroy, Count
  <2>5. CASE DestroyConfig
    BY <2>1, <2>2, <2>5 DEF DestroyConfig, Destroy, Count
  <2> QED
    BY <1>3, <2>3, <2>4, <2>5
<1>4. CASE SkipElement \/ NoFile \/ GotSources \/ CreateFails
  BY <1>4 DEF SkipElement, NoFile, GotSources, CreateFails
<1>5. CASE AddSource
  BY <1>5 DEF AddSource
<1>6. CASE DestroyFound
  BY <1>6, CountOn DEF DestroyFound
<1>7. CASE SourceFirst
  <2>1. UNCHANGED <<i, allocated, next, sources, s, freed, destroyed>> /\ pc' = "walk"
    BY <1>7 DEF SourceFirst
  <2>2. TypeOK' /\ Walked'
    <3>1. CASE sources = NULL
      <4>1. visited' = <<>> /\ iter' = iter /\ allocated = 0
        BY <1>7, <3>1 DEF SourceFirst
      <4>2. {sources', iter', s'} \subseteq Nodes \cup {NULL}
        BY <2>1, <4>1
      <4> QED
        BY <2>1, <4>1, <4>2 DEF Count
    <3>2. CASE sources # NULL
      <4>1. /\ visited' = <<1>> /\ iter' = 1 /\ allocated > 0
            /\ <<1>> \in Seq(Nodes) /\ Len(<<1>>) = 1 /\ <<1>>[1] = 1
        BY <1>7, <3>2 DEF SourceFirst
      <4>2. {sources', iter', s'} \subseteq Nodes \cup {NULL}
        BY <2>1, <4>1
      <4> QED
        BY <2>1, <4>1, <4>2 DEF Count
    <3> QED
      BY <3>1, <3>2
  <2>3. Linked' /\ Built' /\ Unlinked'
    BY <1>7, <2>1 DEF SourceFirst, Count
  <2> QED
    BY <2>2, <2>3
<1>8. CASE SourceNext
  <2> DEFINE n == Len(visited) + 1
  <2>1. /\ UNCHANGED <<i, allocated, next, sources, s, freed, destroyed>>
        /\ pc = "walk" /\ pc' = "walk" /\ visited # <<>> /\ iter = Len(visited)
        /\ iter' = next[iter]
    BY <1>8 DEF SourceNext
  <2>2. CASE iter < allocated
    <3>1. iter' = n /\ visited' = Append(visited, n) /\ n \in Nodes
      BY <1>8, <2>1, <2>2 DEF SourceNext
    <3>2. /\ visited' \in Seq(Nodes) /\ visited' # <<>>
          /\ Len(visited') = n /\ Count(visited')
      BY <3>1, CountOn
    <3>3. {sources', iter', s'} \subseteq Nodes \cup {NULL}
      BY <2>1, <3>1
    <3>4. TypeOK' /\ Walked'
      BY <2>1, <2>2, <3>1, <3>2, <3>3
    <3> QED
      BY <2>1, <3>4 DEF Count
  <2>3. CASE ~(iter < allocated)
    <3>1. iter' = NULL /\ visited' = visited /\ Len(visited) = allocated
      BY <1>8, <2>1, <2>3 DEF SourceNext
    <3>2. {sources', iter', s'} \subseteq Nodes \cup {NULL}
      BY <2>1, <3>1
    <3> QED
      BY <2>1, <3>1, <3>2 DEF Count
  <2> QED
    BY <2>2, <2>3
<1>9. CASE EndWalk
  BY <1>9 DEF EndWalk, Count
<1>10. CASE DestroySource
  BY <1>10, CountOn DEF DestroySource
<1>11. CASE Destroyed
  BY <1>11 DEF Destroyed
<1>12. CASE UNCHANGED vars
  BY <1>12 DEF vars, Count
<1> QED
  BY <1>3, <1>4, <1>5, <1>6, <1>7, <1>8, <1>9, <1>10, <1>11, <1>12 DEF Next

LEMMA Invariance == Spec => []IInv
BY InitIInv, StepIInv, PTL DEF Spec

\* The variables keep their types, for any number of elements.
THEOREM TypeCorrect == Spec => []TypeOK
<1>1. IInv => TypeOK
  BY DEF IInv
<1> QED
  BY <1>1, Invariance, PTL

\* When the configuration is gone, so is every source that was created, whichever
\* element ended the reading of the file.
THEOREM DestroyCorrect == Spec => []NoSourceLeft
<1>1. IInv => NoSourceLeft
  <2> SUFFICES ASSUME IInv, pc = "gone" PROVE Range(destroyed) = 1 .. allocated
    BY DEF NoSourceLeft
  <2>1. DOMAIN destroyed = 1 .. allocated /\ \A k \in 1 .. allocated : destroyed[k] = k
    BY LenProperties DEF IInv, TypeOK, Unlinked, Count
  <2> QED
    BY <2>1 DEF Range
<1> QED
  BY <1>1, Invariance, PTL

\* A walk returns every source in the order of the file, however the walk before
\* it ended.
THEOREM WalkCorrect == Spec => []WalkReturnsAll
<1>1. IInv => WalkReturnsAll
  <2> SUFFICES ASSUME IInv, pc = "walk" PROVE WalkReturnsAll
    BY DEF WalkReturnsAll
  <2>1. visited \in [1 .. Len(visited) -> Nodes] /\ Len(visited) \in Nat
    BY LenProperties DEF IInv, TypeOK
  <2>2. visited = [n \in 1 .. Len(visited) |-> n]
    BY <2>1 DEF IInv, Walked, Count
  <2>3. visited = <<>> \/ iter = NULL => Len(visited) = allocated
    <3>1. CASE visited = <<>>
      BY <3>1, EmptySeq DEF IInv, Walked, TypeOK
    <3>2. CASE visited # <<>> /\ iter = NULL
      BY <3>2, EmptySeq DEF IInv, Walked, TypeOK, NULL
    <3> QED
      BY <3>1, <3>2
  <2> QED
    BY <2>2, <2>3 DEF WalkReturnsAll
<1> QED
  BY <1>1, Invariance, PTL
===============================================================================
