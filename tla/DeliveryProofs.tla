--------------------------- MODULE DeliveryProofs ---------------------------
(***************************************************************************)
(* The proof that the grabber delivers what the camera sent: for every     *)
(* size of the buffer, every set of well-formed scripts, and every way     *)
(* read() cuts up the stream. The first part says where the pieces of a    *)
(* rendered script lie, the second which place the parser is at (Track),   *)
(* and the rest that every step of it keeps to that.                       *)
(***************************************************************************)
EXTENDS MCGrabber, GrabberProofs, WellFoundedInduction

-----------------------------------------------------------------------------
(* Sequences of sequences joined.                                          *)

\* A set of naturals has a least element.
LEMMA LeastElement ==
  ASSUME NEW T, T \subseteq Nat, T # {}
  PROVE  \E m \in T : \A n \in T : m <= n
<1>1. PICK m \in T : \A n \in T : <<n, m>> \notin OpToRel(<, Nat)
  BY NatLessThanWellFounded, WFMin, Zenon
<1>2. \A n \in T : <<n, m>> \in OpToRel(<, Nat) <=> n < m
  BY Zenon DEF OpToRel
<1>3. \A n \in T : ~(n < m)
  BY <1>1, <1>2, Zenon
<1> QED
  BY <1>3

\* What holds of 0 and passes from each number to the next holds up to N.
LEMMA Upwards ==
  ASSUME NEW N \in Nat, NEW S, 0 \in S,
         \A k \in 0 .. N - 1 : k \in S => k + 1 \in S
  PROVE  \A k \in 0 .. N : k \in S
<1> DEFINE T == {k \in 0 .. N : k \notin S}
<1> SUFFICES ASSUME T # {} PROVE FALSE
  OBVIOUS
<1>1. T \subseteq Nat
  OBVIOUS
<1>2. PICK m \in T : \A n \in T : m <= n
  BY <1>1, LeastElement
<1>3. m \in 1 .. N /\ m - 1 \notin T /\ m - 1 + 1 = m
  BY <1>2
<1>4. m - 1 \in S
  BY <1>3
<1> QED
  BY <1>2, <1>3, <1>4

\* FlattenSeq puts the sequences behind one another, from the left.
LEMMA FlattenIs ==
  ASSUME NEW S, NEW seqs \in Seq(Seq(S))
  PROVE  \E f : /\ f[0] = <<>>
                /\ \A i \in 1 .. Len(seqs) : f[i] = f[i - 1] \o seqs[i]
                /\ \A i \in 0 .. Len(seqs) : f[i] \in Seq(S)
                /\ FlattenSeq(seqs) = f[Len(seqs)]
<1> DEFINE N == Len(seqs)
           Step(g, i) == IF i = 1 THEN seqs[i] ELSE g[i - 1] \o seqs[i]
           T == {k \in 0 .. N : \E g : \A i \in 1 .. k : g[i] = Step(g, i)}
<1>1. N \in Nat /\ \A i \in 1 .. N : seqs[i] \in Seq(S)
  BY ElementOfSeq
<1>2. CASE N = 0
  <2> DEFINE f == [i \in {0} |-> <<>>]
  <2>1. FlattenSeq(seqs) = seqs /\ seqs = <<>>
    BY <1>2 DEF FlattenSeq
  <2>2. f[0] = <<>> /\ <<>> \in Seq(S)
    BY EmptySeq
  <2> HIDE DEF f
  <2>3. \A i \in 0 .. N : i = 0
    BY <1>2
  <2>4. \A i \in 1 .. N : FALSE
    BY <1>2
  <2> QED
    BY <1>2, <2>1, <2>2, <2>3, <2>4, Zenon
<1>3. CASE N # 0
  <2> HIDE DEF N
  <2>1. 0 \in T
    BY <1>1
  <2>2. ASSUME NEW k \in 0 .. N - 1, k \in T
        PROVE  k + 1 \in T
    <3>1. PICK g : \A i \in 1 .. k : g[i] = Step(g, i)
      BY <2>2
    <3> DEFINE h == [i \in 1 .. k + 1 |-> IF i = k + 1 THEN Step(g, i) ELSE g[i]]
    <3>2. \A i \in 1 .. k : h[i] = g[i]
      OBVIOUS
    <3>3. h[k + 1] = Step(g, k + 1)
      OBVIOUS
    <3> HIDE DEF h
    <3>4. \A i \in 1 .. k + 1 : i # 1 => i - 1 \in 1 .. k
      OBVIOUS
    <3>5. \A i \in 1 .. k + 1 : Step(g, i) = Step(h, i)
      BY <3>2, <3>4
    <3>6. \A i \in 1 .. k + 1 : i \in 1 .. k \/ i = k + 1
      OBVIOUS
    <3> HIDE DEF Step
    <3>7. \A i \in 1 .. k + 1 : h[i] = Step(h, i)
      BY <3>1, <3>2, <3>3, <3>5, <3>6, Zenon
    <3>8. k + 1 \in 0 .. N
      BY <1>1
    <3> QED
      BY <3>7, <3>8
  <2> HIDE DEF T
  <2>3. N \in T
    <3>1. \A k \in 0 .. N : k \in T
      BY <1>1, <2>1, <2>2, Upwards
    <3> QED
      BY <1>1, <3>1
  <2>4. PICK g : \A i \in 1 .. N : g[i] = Step(g, i)
    BY <2>3 DEF T
  <2> DEFINE G == [i \in 1 .. N |-> g[i]]
  <2>5. G = [i \in 1 .. N |-> Step(G, i)]
    <3>1. \A i \in 1 .. N : i # 1 => i - 1 \in 1 .. N
      BY <1>1
    <3>2. \A i \in 1 .. N : Step(g, i) = Step(G, i)
      BY <3>1
    <3> HIDE DEF Step
    <3> QED
      BY <2>4, <3>2, Zenon
  <2> HIDE DEF G
  <2> DEFINE F == CHOOSE h : h = [i \in 1 .. N |-> Step(h, i)]
  <2>6. F = [i \in 1 .. N |-> Step(F, i)]
    BY <2>5, Zenon
  <2>7. FlattenSeq(seqs) = F[N]
    BY <1>3, Zenon DEF FlattenSeq, N
  <2> HIDE DEF F
  <2>8. \A i \in 1 .. N : F[i] = Step(F, i)
    BY <2>6
  <2> DEFINE f == [i \in 0 .. N |-> IF i = 0 THEN <<>> ELSE F[i]]
  <2>9. f[0] = <<>> /\ \A i \in 1 .. N : f[i] = F[i]
    BY <1>1
  <2> HIDE DEF f
  <2>10. ASSUME NEW i \in 1 .. N
         PROVE  f[i] = f[i - 1] \o seqs[i]
    <3>1. CASE i = 1
      <4>1. f[i] = seqs[i]
        BY <2>8, <2>9, <3>1
      <4>2. seqs[i] \in Seq(S) /\ f[i - 1] = <<>>
        BY <1>1, <2>9, <3>1
      <4> QED
        BY <4>1, <4>2, ConcatEmptySeq
    <3>2. CASE i # 1
      <4>1. i - 1 \in 1 .. N
        BY <1>1, <3>2
      <4> QED
        BY <2>8, <2>9, <3>2, <4>1
    <3> QED
      BY <3>1, <3>2
  <2> DEFINE U == {k \in 0 .. N : f[k] \in Seq(S)}
  <2>11. 0 \in U
    <3>1. 0 \in 0 .. N /\ f[0] \in Seq(S)
      BY <1>1, <2>9, EmptySeq
    <3> QED
      BY <3>1
  <2>12. ASSUME NEW k \in 0 .. N - 1, k \in U
         PROVE  k + 1 \in U
    <3>1. k + 1 \in 1 .. N /\ k + 1 - 1 = k
      BY <1>1
    <3>2. PICK i \in 1 .. N : i = k + 1 /\ i - 1 = k
      BY <3>1
    <3>3. f[k + 1] = f[k] \o seqs[k + 1]
      <4>1. f[i] = f[i - 1] \o seqs[i]
        BY <2>10
      <4> QED
        BY <3>2, <4>1, Zenon
    <3>4. seqs[k + 1] \in Seq(S)
      BY <1>1, <3>1
    <3>5. f[k] \in Seq(S)
      BY <2>12
    <3>6. f[k] \o seqs[k + 1] \in Seq(S)
      BY <3>4, <3>5, ConcatProperties, Zenon
    <3>7. k + 1 \in 0 .. N
      BY <3>1
    <3> QED
      BY <3>3, <3>6, <3>7
  <2> HIDE DEF U
  <2>13. \A k \in 0 .. N : f[k] \in Seq(S)
    <3>1. \A k \in 0 .. N : k \in U
      BY <1>1, <2>11, <2>12, Upwards
    <3> QED
      BY <3>1 DEF U
  <2>14. FlattenSeq(seqs) = f[N]
    BY <1>1, <1>3, <2>7, <2>9
  <2> QED
    BY <2>9, <2>10, <2>13, <2>14 DEF N
<1> QED
  BY <1>2, <1>3

\* The first k of the sequences that g lists, behind one another.
Flat(g, k) == FlattenSeq([i \in 1 .. k |-> g[i]])

\* One more of them goes to the end.
LEMMA FlatGrows ==
  ASSUME NEW S, NEW g, NEW k \in Nat, \A i \in 1 .. k + 1 : g[i] \in Seq(S)
  PROVE  Flat(g, k) \in Seq(S) /\ Flat(g, k + 1) = Flat(g, k) \o g[k + 1]
<1> DEFINE s == [i \in 1 .. k |-> g[i]]
           t == [i \in 1 .. k + 1 |-> g[i]]
<1>1. s \in Seq(Seq(S)) /\ Len(s) = k /\ \A i \in 1 .. k : s[i] = g[i]
  OBVIOUS
<1>2. t \in Seq(Seq(S)) /\ Len(t) = k + 1 /\ \A i \in 1 .. k + 1 : t[i] = g[i]
  OBVIOUS
<1>3. Flat(g, k) = FlattenSeq(s) /\ Flat(g, k + 1) = FlattenSeq(t)
  BY DEF Flat
<1> HIDE DEF s, t
<1>4. PICK e : /\ e[0] = <<>>
               /\ \A i \in 1 .. k : e[i] = e[i - 1] \o s[i]
               /\ \A i \in 0 .. k : e[i] \in Seq(S)
               /\ FlattenSeq(s) = e[k]
  <2>1. \E f : /\ f[0] = <<>>
               /\ \A i \in 1 .. Len(s) : f[i] = f[i - 1] \o s[i]
               /\ \A i \in 0 .. Len(s) : f[i] \in Seq(S)
               /\ FlattenSeq(s) = f[Len(s)]
    BY <1>1, FlattenIs
  <2> QED
    BY <1>1, <2>1, Zenon
<1>5. PICK f : /\ f[0] = <<>>
               /\ \A i \in 1 .. k + 1 : f[i] = f[i - 1] \o t[i]
               /\ \A i \in 0 .. k + 1 : f[i] \in Seq(S)
               /\ FlattenSeq(t) = f[k + 1]
  <2>1. \E f : /\ f[0] = <<>>
               /\ \A i \in 1 .. Len(t) : f[i] = f[i - 1] \o t[i]
               /\ \A i \in 0 .. Len(t) : f[i] \in Seq(S)
               /\ FlattenSeq(t) = f[Len(t)]
    BY <1>2, FlattenIs
  <2> QED
    BY <1>2, <2>1, Zenon
<1> DEFINE T == {i \in 0 .. k : e[i] = f[i]}
<1>6. 0 \in T
  BY <1>4, <1>5
<1>7. ASSUME NEW i \in 0 .. k - 1, i \in T
      PROVE  i + 1 \in T
  <2>1. PICK j \in 1 .. k : j = i + 1 /\ j - 1 = i /\ j \in 1 .. k + 1
    OBVIOUS
  <2>2. e[j] = e[i] \o g[j] /\ f[j] = f[i] \o g[j]
    BY <1>1, <1>2, <1>4, <1>5, <2>1
  <2>3. e[i] = f[i]
    BY <1>7
  <2>4. e[i + 1] = f[i + 1]
    BY <2>1, <2>2, <2>3, Zenon
  <2>5. i + 1 \in 0 .. k
    OBVIOUS
  <2> QED
    BY <2>4, <2>5
<1>8. e[k] = f[k]
  <2> HIDE DEF T
  <2>1. \A i \in 0 .. k : i \in T
    BY <1>6, <1>7, Upwards
  <2> QED
    BY <2>1 DEF T
<1>9. f[k + 1] = f[k] \o g[k + 1]
  <2>1. PICK j \in 1 .. k + 1 : j = k + 1 /\ j - 1 = k
    OBVIOUS
  <2>2. f[j] = f[j - 1] \o t[j] /\ t[j] = g[j]
    BY <1>2, <1>5
  <2> QED
    BY <2>1, <2>2, Zenon
<1>10. e[k] \in Seq(S)
  BY <1>4
<1> QED
  BY <1>3, <1>4, <1>5, <1>8, <1>9, <1>10

\* Nothing joined is the empty sequence.
LEMMA FlatOfNone ==
  ASSUME NEW g
  PROVE  Flat(g, 0) = <<>>
<1>1. [i \in 1 .. 0 |-> g[i]] = <<>>
  OBVIOUS
<1> QED
  BY <1>1 DEF Flat, FlattenSeq

\* Sequences over S joined are a sequence over S.
LEMMA FlatIsSeq ==
  ASSUME NEW S, NEW g, NEW k \in Nat, \A i \in 1 .. k : g[i] \in Seq(S)
  PROVE  Flat(g, k) \in Seq(S)
<1>1. CASE k = 0
  BY <1>1, FlatOfNone, EmptySeq
<1>2. CASE k # 0
  <2>1. PICK j \in Nat : k = j + 1
    <3>1. k - 1 \in Nat /\ k = k - 1 + 1
      BY <1>2
    <3> QED
      BY <3>1
  <2>2. Flat(g, j) \in Seq(S) /\ Flat(g, j + 1) = Flat(g, j) \o g[j + 1]
    BY <2>1, FlatGrows
  <2>3. g[j + 1] \in Seq(S)
    BY <2>1
  <2> QED
    BY <2>1, <2>2, <2>3, ConcatProperties
<1> QED
  BY <1>1, <1>2

-----------------------------------------------------------------------------
(* What lies where in a sequence.                                          *)

\* The sequence x lies in s behind its first o elements.
Lies(s, o, x) ==
  /\ o \in Nat /\ o + Len(x) <= Len(s)
  /\ \A m \in 1 .. Len(x) : s[o + m] = x[m]

\* A sequence lies in itself.
LEMMA LiesSelf ==
  ASSUME NEW S, NEW s \in Seq(S)
  PROVE  Lies(s, 0, s)
  BY DEF Lies

\* What is appended lies behind what was there.
LEMMA LiesLast ==
  ASSUME NEW S, NEW s \in Seq(S), NEW t \in Seq(S)
  PROVE  Lies(s \o t, Len(s), t)
  BY DEF Lies

\* What lies in a sequence lies in it once more is appended.
LEMMA LiesLonger ==
  ASSUME NEW S, NEW s \in Seq(S), NEW t \in Seq(S), NEW x \in Seq(S), NEW o, Lies(s, o, x)
  PROVE  Lies(s \o t, o, x)
  BY DEF Lies

\* What lies in a piece of s lies in s.
LEMMA LiesWithin ==
  ASSUME NEW S, NEW s \in Seq(S), NEW x \in Seq(S), NEW y \in Seq(S), NEW o, NEW r,
         Lies(s, o, x), Lies(x, r, y)
  PROVE  Lies(s, o + r, y)
<1>1. o \in Nat /\ r \in Nat /\ Len(s) \in Nat /\ Len(x) \in Nat /\ Len(y) \in Nat
      /\ o + Len(x) <= Len(s) /\ r + Len(y) <= Len(x)
  BY DEF Lies
<1>2. ASSUME NEW m \in 1 .. Len(y)
      PROVE  s[o + r + m] = y[m]
  <2>1. r + m \in 1 .. Len(x) /\ o + (r + m) = o + r + m
    BY <1>1
  <2>2. s[o + (r + m)] = x[r + m] /\ x[r + m] = y[m]
    BY <2>1 DEF Lies
  <2> QED
    BY <2>1, <2>2
<1> QED
  BY <1>1, <1>2 DEF Lies

\* The sequence listed as number i lies behind those listed before it.
LEMMA LiesInFlat ==
  ASSUME NEW S, NEW g, NEW n \in Nat, \A i \in 1 .. n : g[i] \in Seq(S), NEW i \in 1 .. n
  PROVE  Lies(Flat(g, n), Len(Flat(g, i - 1)), g[i])
<1> DEFINE T == {k \in 0 .. n - i : Lies(Flat(g, i + k), Len(Flat(g, i - 1)), g[i])}
<1>1. i - 1 \in Nat /\ i - 1 + 1 = i /\ n - i \in Nat /\ i + 0 = i
  OBVIOUS
<1>2. 0 \in T
  <2>1. Flat(g, i - 1) \in Seq(S) /\ Flat(g, i) = Flat(g, i - 1) \o g[i]
    <3>1. PICK j \in Nat : j = i - 1 /\ j + 1 = i
      BY <1>1
    <3>2. \A m \in 1 .. j + 1 : g[m] \in Seq(S)
      BY <3>1
    <3>3. Flat(g, j) \in Seq(S) /\ Flat(g, j + 1) = Flat(g, j) \o g[j + 1]
      BY <3>2, FlatGrows
    <3> QED
      BY <3>1, <3>3, Zenon
  <2>2. Lies(Flat(g, i), Len(Flat(g, i - 1)), g[i])
    BY <2>1, LiesLast
  <2> QED
    BY <1>1, <2>2
<1>3. ASSUME NEW k \in 0 .. n - i - 1, k \in T
      PROVE  k + 1 \in T
  <2>1. PICK j \in Nat : j = i + k /\ j + 1 = i + (k + 1) /\ j + 1 <= n
    OBVIOUS
  <2>2. Flat(g, j) \in Seq(S) /\ Flat(g, j + 1) = Flat(g, j) \o g[j + 1]
    <3>1. \A m \in 1 .. j + 1 : g[m] \in Seq(S)
      BY <2>1
    <3> QED
      BY <3>1, FlatGrows
  <2>3. g[j + 1] \in Seq(S) /\ g[i] \in Seq(S)
    BY <2>1
  <2>4. Lies(Flat(g, j), Len(Flat(g, i - 1)), g[i])
    BY <1>3, <2>1
  <2>5. Lies(Flat(g, j + 1), Len(Flat(g, i - 1)), g[i])
    BY <2>2, <2>3, <2>4, LiesLonger
  <2>6. k + 1 \in 0 .. n - i
    OBVIOUS
  <2> QED
    BY <2>1, <2>5, <2>6
<1>4. n - i \in T
  <2> HIDE DEF T
  <2>1. \A k \in 0 .. n - i : k \in T
    BY <1>1, <1>2, <1>3, Upwards
  <2> QED
    BY <1>1, <2>1
<1>5. i + (n - i) = n
  OBVIOUS
<1> QED
  BY <1>4, <1>5

-----------------------------------------------------------------------------
(* Where the pieces of a rendered script lie.                              *)

Eol(c)   == Len(c.eol)
Count(c) == Len(c.parts)
Bound(c) == BoundaryIn(TypeLine[c.type])

\* What precedes the boundary in its line, and whether the boundary's first
\* character is in there: it then is the last two characters.
Dashes(c)  == Len(c.mark) - Len(Bound(c))
Doubled(c) == \E i \in 1 .. Dashes(c) : c.mark[i] = Bound(c)[1]

\* The rendered parts, and the header lines of a part, as lists.
PartList(c)    == [i \in 1 .. Count(c) |-> RenderedPart(c, c.parts[i])]
LineList(c, p) == [j \in 1 .. Len(p.header) |-> <<p.header[j]>> \o c.eol]

\* The offset behind part i, and where the boundary, the header lines, what
\* precedes the image, and the image of part i begin.
Behind(c, i)    == Len(Preamble(c)) + Len(Flat(PartList(c), i))
MarkAt(c, i)    == Behind(c, i - 1) + Len(c.mark) - Len(Bound(c))
LineAt(c, i, j) == Behind(c, i - 1) + Len(c.mark) + Eol(c) + Len(Flat(LineList(c, c.parts[i]), j - 1))
BodyAt(c, i)    == LineAt(c, i, Len(c.parts[i].header) + 1) + Eol(c)
ImageAt(c, i)   == BodyAt(c, i) + Len(c.parts[i].junk)

\* The pieces of a part that lies in s behind its first o bytes.
LEMMA PartPieces ==
  ASSUME NEW S, NEW s \in Seq(S), NEW o, NEW c, NEW p, c.mark \in Seq(S), c.eol \in Seq(S),
         Lines(c, p.header) \in Seq(S), p.junk \in Seq(S), p.image \in Seq(S),
         Lies(s, o, RenderedPart(c, p))
  PROVE  LET a == o + Len(c.mark)
             b == o + Len(c.mark) + Len(c.eol)
             d == o + Len(c.mark) + Len(c.eol) + Len(Lines(c, p.header))
             e == o + Len(c.mark) + Len(c.eol) + Len(Lines(c, p.header)) + Len(c.eol)
             f == o + Len(c.mark) + Len(c.eol) + Len(Lines(c, p.header)) + Len(c.eol) + Len(p.junk)
         IN  /\ Lies(s, o, c.mark) /\ Lies(s, a, c.eol) /\ Lies(s, b, Lines(c, p.header))
             /\ Lies(s, d, c.eol) /\ Lies(s, e, p.junk) /\ Lies(s, f, p.image)
             /\ Lies(s, o + Len(Upto(c, p)), c.eol)
             /\ {b, d, e, f} \subseteq Nat /\ b <= d
             /\ o + Len(Upto(c, p)) = f + Len(p.image)
             /\ o + Len(RenderedPart(c, p)) = f + Len(p.image) + Len(c.eol)
<1> DEFINE mark  == c.mark
           eol   == c.eol
           lines == Lines(c, p.header)
           junk  == p.junk
           image == p.image
<1> HIDE DEF mark, eol, lines, junk, image
<1>b. /\ mark \in Seq(S) /\ eol \in Seq(S) /\ lines \in Seq(S) /\ junk \in Seq(S)
      /\ image \in Seq(S)
  BY DEF mark, eol, lines, junk, image
<1> DEFINE p1 == mark \o eol
           p2 == p1 \o lines
           p3 == p2 \o eol
           p4 == p3 \o junk
           p5 == p4 \o image
           p6 == p5 \o eol
<1>0. o \in Nat
  BY DEF Lies
<1>a. /\ Len(mark) \in Nat /\ Len(eol) \in Nat /\ Len(lines) \in Nat
      /\ Len(junk) \in Nat /\ Len(image) \in Nat
  BY <1>b
<1>1. p1 \in Seq(S) /\ Len(p1) = Len(mark) + Len(eol) /\ Lies(p1, 0, mark) /\ Lies(p1, Len(mark), eol)
  BY <1>b, LiesSelf, LiesLonger, LiesLast, ConcatProperties
<1> HIDE DEF p1
<1>2. p2 \in Seq(S) /\ Len(p2) = Len(p1) + Len(lines) /\ Lies(p2, 0, p1) /\ Lies(p2, Len(p1), lines)
  BY <1>b, <1>1, LiesSelf, LiesLonger, LiesLast, ConcatProperties
<1> HIDE DEF p2
<1>3. p3 \in Seq(S) /\ Len(p3) = Len(p2) + Len(eol) /\ Lies(p3, 0, p2) /\ Lies(p3, Len(p2), eol)
  BY <1>b, <1>2, LiesSelf, LiesLonger, LiesLast, ConcatProperties
<1> HIDE DEF p3
<1>4. p4 \in Seq(S) /\ Len(p4) = Len(p3) + Len(junk) /\ Lies(p4, 0, p3) /\ Lies(p4, Len(p3), junk)
  BY <1>b, <1>3, LiesSelf, LiesLonger, LiesLast, ConcatProperties
<1> HIDE DEF p4
<1>5. p5 \in Seq(S) /\ Len(p5) = Len(p4) + Len(image) /\ Lies(p5, 0, p4) /\ Lies(p5, Len(p4), image)
  BY <1>b, <1>4, LiesSelf, LiesLonger, LiesLast, ConcatProperties
<1> HIDE DEF p5
<1>6. p6 \in Seq(S) /\ Len(p6) = Len(p5) + Len(eol) /\ Lies(p6, 0, p5) /\ Lies(p6, Len(p5), eol)
  BY <1>b, <1>5, LiesSelf, LiesLonger, LiesLast, ConcatProperties
<1> HIDE DEF p6
<1>7. RenderedPart(c, p) = p6 /\ Upto(c, p) = p5 /\ Lies(s, o, p6)
  BY DEF p1, p2, p3, p4, p5, p6, mark, eol, lines, junk, image, RenderedPart, Upto
<1>8. /\ Lies(s, o + 0, p5) /\ Lies(s, o + Len(p5), eol)
      /\ Lies(s, o + 0 + 0, p4) /\ Lies(s, o + 0 + Len(p4), image)
  BY <1>b, <1>1, <1>2, <1>3, <1>4, <1>5, <1>6, <1>7, LiesWithin
<1>9. /\ Lies(s, o + 0 + 0 + 0, p3) /\ Lies(s, o + 0 + 0 + Len(p3), junk)
      /\ Lies(s, o + 0 + 0 + 0 + 0, p2) /\ Lies(s, o + 0 + 0 + 0 + Len(p2), eol)
  BY <1>b, <1>1, <1>2, <1>3, <1>4, <1>8, LiesWithin
<1>10. /\ Lies(s, o + 0 + 0 + 0 + 0 + 0, p1) /\ Lies(s, o + 0 + 0 + 0 + 0 + Len(p1), lines)
       /\ Lies(s, o + 0 + 0 + 0 + 0 + 0 + 0, mark)
       /\ Lies(s, o + 0 + 0 + 0 + 0 + 0 + Len(mark), eol)
  BY <1>b, <1>1, <1>2, <1>9, LiesWithin
<1>11. /\ o + 0 = o
       /\ o + Len(p6) = o + Len(mark) + Len(eol) + Len(lines) + Len(eol) + Len(junk) + Len(image) + Len(eol)
       /\ o + Len(p5) = o + Len(mark) + Len(eol) + Len(lines) + Len(eol) + Len(junk) + Len(image)
       /\ o + Len(p4) = o + Len(mark) + Len(eol) + Len(lines) + Len(eol) + Len(junk)
       /\ o + Len(p3) = o + Len(mark) + Len(eol) + Len(lines) + Len(eol)
       /\ o + Len(p2) = o + Len(mark) + Len(eol) + Len(lines)
       /\ o + Len(p1) = o + Len(mark) + Len(eol)
  BY <1>0, <1>a, <1>1, <1>2, <1>3, <1>4, <1>5, <1>6
<1>12. /\ o + Len(p1) \in Nat /\ o + Len(p2) \in Nat /\ o + Len(p3) \in Nat /\ o + Len(p4) \in Nat
       /\ o + Len(p1) <= o + Len(p2)
  <2>1. /\ Len(p1) \in Nat /\ Len(p2) \in Nat /\ Len(p3) \in Nat /\ Len(p4) \in Nat
        /\ Len(p2) = Len(p1) + Len(lines)
    BY <1>1, <1>2, <1>3, <1>4, LenProperties, Zenon
  <2> QED
    BY <1>0, <1>a, <2>1, SMTT(30)
<1>13. Lies(s, o, mark) /\ Lies(s, o + Len(mark), eol) /\ Lies(s, o + Len(p1), lines)
  BY <1>9, <1>10, <1>11, Zenon
<1>14. /\ Lies(s, o + Len(p2), eol) /\ Lies(s, o + Len(p3), junk)
       /\ Lies(s, o + Len(p4), image) /\ Lies(s, o + Len(p5), eol)
  BY <1>8, <1>9, <1>11, Zenon
<1>15. /\ o + Len(p5) = o + Len(p4) + Len(image)
       /\ o + Len(p6) = o + Len(p4) + Len(image) + Len(eol)
  BY <1>11, Zenon
<1>16. \A a, b, d, e, f :
         /\ o + Len(mark) = a /\ o + Len(mark) + Len(eol) = b
         /\ o + Len(mark) + Len(eol) + Len(lines) = d
         /\ o + Len(mark) + Len(eol) + Len(lines) + Len(eol) = e
         /\ o + Len(mark) + Len(eol) + Len(lines) + Len(eol) + Len(junk) = f
         =>  /\ Lies(s, o, mark) /\ Lies(s, a, eol) /\ Lies(s, b, lines)
             /\ Lies(s, d, eol) /\ Lies(s, e, junk) /\ Lies(s, f, image)
             /\ Lies(s, o + Len(Upto(c, p)), eol)
             /\ {b, d, e, f} \subseteq Nat /\ b <= d
             /\ o + Len(Upto(c, p)) = f + Len(image)
             /\ o + Len(RenderedPart(c, p)) = f + Len(image) + Len(eol)
  BY <1>7, <1>11, <1>12, <1>13, <1>14, <1>15, ZenonT(40)
<1> QED
  BY <1>16, ZenonT(40) DEF mark, eol, lines, junk, image

\* A sequence of one.
LEMMA Single ==
  ASSUME NEW S, NEW x \in S
  PROVE  <<x>> \in Seq(S) /\ Len(<<x>>) = 1 /\ <<x>>[1] = x
  OBVIOUS

\* Two sequences joined.
LEMMA Together ==
  ASSUME NEW S, NEW s \in Seq(S), NEW t \in Seq(S)
  PROVE  s \o t \in Seq(S) /\ Len(s \o t) = Len(s) + Len(t)
  OBVIOUS

\* What a line ends with.
LEMMA EolIs ==
  ASSUME NEW c, WellFormed(c)
  PROVE  /\ c.eol \in Seq(Byte) /\ Eol(c) \in {1, 2} /\ Eol(c) \in Nat /\ Len(c.eol) = Eol(c)
         /\ Eol(c) = 1 => c.eol[1] = LF
         /\ Eol(c) = 2 => c.eol[1] = CR /\ c.eol[2] = LF
<1>3. LF \in Byte /\ CR \in Byte
  BY GrabberAssumption DEF GrabberAssumption
<1>6. c.eol \in {<<LF>>, <<CR, LF>>}
  BY DEF WellFormed
<1>7. /\ c.eol \in Seq(Byte) /\ Eol(c) \in {1, 2} /\ (Eol(c) = 1 => c.eol[1] = LF)
      /\ (Eol(c) = 2 => c.eol[1] = CR /\ c.eol[2] = LF)
  <2>1. CASE c.eol = <<LF>>
    <3>1. c.eol \in Seq(Byte) /\ Len(c.eol) = 1 /\ c.eol[1] = LF
      BY <1>3, <2>1, Single
    <3> QED
      BY <3>1 DEF Eol
  <2>2. CASE c.eol = <<CR, LF>>
    <3>1. <<CR, LF>> \in Seq(Byte) /\ Len(<<CR, LF>>) = 2 /\ <<CR, LF>>[1] = CR /\ <<CR, LF>>[2] = LF
      BY <1>3
    <3> QED
      BY <2>2, <3>1 DEF Eol
  <2> QED
    BY <1>6, <2>1, <2>2
<1> QED
  BY <1>7 DEF Eol

\* The first two lines of a response have one symbol each.
LEMMA FirstLines ==
  ASSUME NEW c, WellFormed(c)
  PROVE  /\ <<"HTTP 200">> \in Seq(Byte) /\ <<c.type>> \in Seq(Byte)
         /\ Len(<<"HTTP 200">>) = 1 /\ Len(<<c.type>>) = 1
<1>1. "HTTP 200" \in Byte /\ c.type \in Byte
  BY DEF WellFormed
<1> QED
  BY <1>1, Single, Zenon

\* What a well-formed script is made of.
LEMMA ScriptParts ==
  ASSUME NEW c, WellFormed(c)
  PROVE  /\ c.mark \in Seq(Byte) /\ Bound(c) \in Seq(Byte) /\ Count(c) \in Nat /\ DOMAIN c.parts = 1 .. Count(c)
         /\ Len(Bound(c)) \in Nat /\ Len(Bound(c)) >= 1 /\ Len(c.mark) \in Nat
         /\ Len(Bound(c)) <= Len(c.mark)
<1>1. c.mark \in Seq(Byte) /\ Len(c.mark) - Len(Bound(c)) >= 0
  BY DEF WellFormed, Bound
<1>2. c.type \in DOMAIN TypeLine /\ HasBoundary(TypeLine[c.type])
  BY DEF WellFormed
<1>3. LF \in Byte /\ CR \in Byte /\ SEMICOLON \in Byte
  BY GrabberAssumption DEF GrabberAssumption
<1>4. /\ TypeLine[c.type].value \in Seq(Byte) /\ TypeLine[c.type].semicolon \in BOOLEAN
      /\ Len(TypeLine[c.type].value) > IF TypeLine[c.type].semicolon THEN 0 ELSE 1
  <2>1. TypeLine[c.type] \in [blank : BOOLEAN, value : Seq(Byte), semicolon : BOOLEAN]
    BY <1>2, GrabberAssumption DEF GrabberAssumption
  <2> QED
    BY <1>2, <2>1 DEF HasBoundary
<1>5. Bound(c) \in Seq(Byte) /\ Len(Bound(c)) \in Nat /\ Len(Bound(c)) >= 1
  <2>1. CASE TypeLine[c.type].semicolon
    <3>1. Bound(c) = Append(TypeLine[c.type].value, SEMICOLON)
      BY <2>1 DEF Bound, BoundaryIn
    <3> QED
      BY <1>3, <1>4, <3>1
  <2>2. CASE ~TypeLine[c.type].semicolon
    <3>1. Bound(c) = TypeLine[c.type].value
      BY <2>2 DEF Bound, BoundaryIn
    <3>2. Len(TypeLine[c.type].value) > 1
      BY <1>4, <2>2
    <3> QED
      BY <1>4, <3>1, <3>2
  <2> QED
    BY <2>1, <2>2
<1>8. Count(c) \in Nat /\ DOMAIN c.parts = 1 .. Count(c)
  <2>1. c.parts \in Seq([header : Seq(Byte), junk : Seq(Byte), image : Seq(Byte)])
    BY DEF WellFormed
  <2> QED
    BY <2>1, LenProperties, Zenon DEF Count
<1>9. Len(c.mark) \in Nat /\ Len(Bound(c)) <= Len(c.mark)
  BY <1>1, <1>5
<1> QED
  BY <1>1, <1>5, <1>8, <1>9, Zenon

\* What a part consists of.
LEMMA PartFields ==
  ASSUME NEW c, WellFormed(c), NEW i \in 1 .. Count(c)
  PROVE  /\ c.parts[i].header \in Seq(Byte) /\ c.parts[i].junk \in Seq(Byte)
         /\ c.parts[i].image \in Seq(Byte)
         /\ Len(c.parts[i].header) \in Nat /\ Len(c.parts[i].junk) \in Nat
         /\ Len(c.parts[i].image) \in Nat /\ Len(c.parts[i].image) >= 4
<1>1. /\ c.parts \in Seq([header : Seq(Byte), junk : Seq(Byte), image : Seq(Byte)])
      /\ i \in DOMAIN c.parts
  BY ScriptParts DEF WellFormed
<1>2. c.parts[i] \in [header : Seq(Byte), junk : Seq(Byte), image : Seq(Byte)]
  BY <1>1, ScriptParts, ElementOfSeq, Zenon DEF Count
<1>3. WellFormedPart(c.parts[i])
  BY <1>1 DEF WellFormed
<1> QED
  BY <1>2, <1>3, SMTT(30) DEF WellFormedPart

\* Its lists are lists of sequences of bytes.
LEMMA Listed ==
  ASSUME NEW c, WellFormed(c)
  PROVE  /\ Preamble(c) \in Seq(Byte) /\ Len(Preamble(c)) = 2 + Eol(c) + Eol(c) + Eol(c)
         /\ \A i \in 1 .. Count(c) :
              /\ PartList(c)[i] = RenderedPart(c, c.parts[i]) /\ PartList(c)[i] \in Seq(Byte)
              /\ Lines(c, c.parts[i].header) =
                   Flat(LineList(c, c.parts[i]), Len(c.parts[i].header))
              /\ Lines(c, c.parts[i].header) \in Seq(Byte)
              /\ \A j \in 1 .. Len(c.parts[i].header) :
                   /\ LineList(c, c.parts[i])[j] = <<c.parts[i].header[j]>> \o c.eol
                   /\ LineList(c, c.parts[i])[j] \in Seq(Byte)
                   /\ Len(LineList(c, c.parts[i])[j]) = 1 + Eol(c)
<1>1. c.eol \in Seq(Byte) /\ c.mark \in Seq(Byte) /\ Eol(c) = Len(c.eol) /\ Eol(c) \in Nat
  BY ScriptParts, EolIs
<1>2. Preamble(c) \in Seq(Byte) /\ Len(Preamble(c)) = 2 + Eol(c) + Eol(c) + Eol(c)
  <2> DEFINE p1 == <<"HTTP 200">> \o c.eol
             p2 == p1 \o <<c.type>>
             p3 == p2 \o c.eol
             p4 == p3 \o c.eol
  <2>1. p1 \in Seq(Byte) /\ Len(p1) = 1 + Len(c.eol)
    BY <1>1, FirstLines, Together, Zenon
  <2> HIDE DEF p1
  <2>2. p2 \in Seq(Byte) /\ Len(p2) = Len(p1) + Len(<<c.type>>)
    BY <1>1, <2>1, FirstLines, Together, ZenonT(40)
  <2> HIDE DEF p2
  <2>3. p3 \in Seq(Byte) /\ Len(p3) = Len(p2) + Len(c.eol)
    BY <1>1, <2>2, Together, Zenon
  <2> HIDE DEF p3
  <2>4. p4 \in Seq(Byte) /\ Len(p4) = Len(p3) + Len(c.eol)
    BY <1>1, <2>3, Together, Zenon
  <2> HIDE DEF p4
  <2>5. Preamble(c) = p4
    BY DEF Preamble, p1, p2, p3, p4
  <2>6. Len(<<c.type>>) = 1
    BY FirstLines
  <2> QED
    BY <1>1, <2>1, <2>2, <2>3, <2>4, <2>5, <2>6
<1>3. ASSUME NEW i \in 1 .. Count(c)
      PROVE  /\ PartList(c)[i] = RenderedPart(c, c.parts[i]) /\ PartList(c)[i] \in Seq(Byte)
             /\ Lines(c, c.parts[i].header) =
                  Flat(LineList(c, c.parts[i]), Len(c.parts[i].header))
             /\ Lines(c, c.parts[i].header) \in Seq(Byte)
             /\ \A j \in 1 .. Len(c.parts[i].header) :
                  /\ LineList(c, c.parts[i])[j] = <<c.parts[i].header[j]>> \o c.eol
                  /\ LineList(c, c.parts[i])[j] \in Seq(Byte)
                  /\ Len(LineList(c, c.parts[i])[j]) = 1 + Eol(c)
  <2> DEFINE p == c.parts[i]
             n == Len(p.header)
  <2>1. p.header \in Seq(Byte) /\ p.junk \in Seq(Byte) /\ p.image \in Seq(Byte) /\ n \in Nat
    BY PartFields
  <2>2. ASSUME NEW j \in 1 .. n
        PROVE  /\ LineList(c, p)[j] = <<p.header[j]>> \o c.eol
               /\ LineList(c, p)[j] \in Seq(Byte) /\ Len(LineList(c, p)[j]) = 1 + Eol(c)
    <3>1. p.header[j] \in Byte
      BY <2>1
    <3>2. LineList(c, p)[j] = <<p.header[j]>> \o c.eol
      BY DEF LineList
    <3>3. <<p.header[j]>> \in Seq(Byte) /\ Len(<<p.header[j]>>) = 1
      BY <3>1, Single
    <3> QED
      BY <1>1, <3>2, <3>3, Together
  <2>3. Lines(c, p.header) = Flat(LineList(c, p), n)
    <3>1. DOMAIN p.header = 1 .. n
      BY <2>1
    <3>2. [j \in DOMAIN p.header |-> <<p.header[j]>> \o c.eol] = [j \in 1 .. n |-> LineList(c, p)[j]]
      BY <2>2, <3>1
    <3> QED
      BY <3>2 DEF Lines, Flat
  <2>4. Lines(c, p.header) \in Seq(Byte)
    BY <2>1, <2>2, <2>3, FlatIsSeq
  <2>5. PartList(c)[i] = RenderedPart(c, p)
    BY DEF PartList
  <2>6. RenderedPart(c, p) \in Seq(Byte)
    BY <1>1, <2>1, <2>4, ConcatProperties, Zenon DEF RenderedPart, Upto
  <2> QED
    BY <2>2, <2>3, <2>4, <2>5, <2>6
<1> QED
  BY <1>2, <1>3

\* Where the parts of the stream lie.
LEMMA Rendering ==
  ASSUME NEW c, WellFormed(c)
  PROVE  /\ Rendered(c) = Preamble(c) \o Flat(PartList(c), Count(c)) /\ Rendered(c) \in Seq(Byte)
         /\ \A i \in 0 .. Count(c) : Behind(c, i) \in Nat
         /\ Behind(c, 0) = 2 + Eol(c) + Eol(c) + Eol(c)
         /\ Behind(c, Count(c)) = Len(Rendered(c))
         /\ Lies(Rendered(c), 0, Preamble(c))
         /\ \A i \in 1 .. Count(c) :
              /\ Behind(c, i) = Behind(c, i - 1) + Len(RenderedPart(c, c.parts[i]))
              /\ Behind(c, i - 1) =
                   Len(Preamble(c)) + Len(RenderedParts(c, i - 1))
              /\ Lies(Rendered(c), Behind(c, i - 1), RenderedPart(c, c.parts[i]))
<1> DEFINE N == Count(c)
           L == PartList(c)
<1>1. N \in Nat /\ Preamble(c) \in Seq(Byte) /\ Len(Preamble(c)) \in Nat
      /\ Len(Preamble(c)) = 2 + Eol(c) + Eol(c) + Eol(c)
  <2>1. N \in Nat
    BY ScriptParts
  <2>2. Preamble(c) \in Seq(Byte) /\ Len(Preamble(c)) = 2 + Eol(c) + Eol(c) + Eol(c)
    BY Listed
  <2> QED
    BY <2>1, <2>2, LenProperties, Zenon
<1>2. \A i \in 1 .. N : L[i] = RenderedPart(c, c.parts[i]) /\ L[i] \in Seq(Byte)
  BY Listed
<1> HIDE DEF N, L
<1>3. ASSUME NEW k \in 0 .. N
      PROVE  /\ RenderedParts(c, k) = Flat(L, k) /\ Flat(L, k) \in Seq(Byte)
             /\ Len(Flat(L, k)) \in Nat
  <2>1. \A i \in 1 .. k : i \in 1 .. N
    BY <1>1
  <2>2. [i \in 1 .. k |-> RenderedPart(c, c.parts[i])] = [i \in 1 .. k |-> L[i]]
    BY <1>2, <2>1
  <2>3. Flat(L, k) \in Seq(Byte)
    BY <1>1, <1>2, <2>1, FlatIsSeq
  <2> QED
    BY <2>2, <2>3 DEF RenderedParts, Flat
<1>4. Rendered(c) = Preamble(c) \o Flat(L, N)
  <2>1. N \in 0 .. N
    BY <1>1
  <2> QED
    BY <1>3, <2>1 DEF Rendered, N, Count
<1>5. Rendered(c) \in Seq(Byte) /\ Len(Rendered(c)) = Len(Preamble(c)) + Len(Flat(L, N))
  BY <1>1, <1>3, <1>4
<1>6. \A i \in 0 .. N : Behind(c, i) \in Nat /\ Behind(c, i) = Len(Preamble(c)) + Len(Flat(L, i))
  BY <1>1, <1>3 DEF Behind, L
<1>7. Len(Flat(L, 0)) = 0
  BY FlatOfNone, EmptySeq
<1>8. Lies(Rendered(c), 0, Preamble(c)) /\ Lies(Rendered(c), Len(Preamble(c)), Flat(L, N))
  <2>1. Flat(L, N) \in Seq(Byte)
    BY <1>1, <1>3
  <2> QED
    BY <1>1, <1>4, <2>1, LiesSelf, LiesLonger, LiesLast
<1>9. ASSUME NEW i \in 1 .. N
      PROVE  /\ Behind(c, i) = Behind(c, i - 1) + Len(RenderedPart(c, c.parts[i]))
             /\ Behind(c, i - 1) = Len(Preamble(c)) + Len(RenderedParts(c, i - 1))
             /\ Lies(Rendered(c), Behind(c, i - 1), RenderedPart(c, c.parts[i]))
  <2>1. PICK k \in 0 .. N : k = i - 1 /\ k + 1 = i /\ k \in Nat
    BY <1>1
  <2>2. Flat(L, k + 1) = Flat(L, k) \o L[k + 1]
    <3>1. \A m \in 1 .. k + 1 : L[m] \in Seq(Byte)
      BY <1>1, <1>2, <2>1
    <3> QED
      BY <2>1, <3>1, FlatGrows
  <2>3. L[k + 1] \in Seq(Byte) /\ Flat(L, k) \in Seq(Byte) /\ L[k + 1] = RenderedPart(c, c.parts[i])
    BY <1>2, <1>3, <2>1
  <2>4. Len(Flat(L, k + 1)) = Len(Flat(L, k)) + Len(L[k + 1])
    BY <2>2, <2>3
  <2>5. Behind(c, i) = Behind(c, k) + Len(L[k + 1])
    <3>1. i \in 0 .. N /\ Len(Flat(L, k)) \in Nat /\ Len(L[k + 1]) \in Nat
      BY <1>1, <1>3, <2>3
    <3> QED
      <4>1. Behind(c, i) = Len(Preamble(c)) + Len(Flat(L, k + 1))
        BY <1>6, <2>1, <3>1, Zenon
      <4>2. Behind(c, k) = Len(Preamble(c)) + Len(Flat(L, k))
        BY <1>6, Zenon
      <4> QED
        BY <1>1, <2>4, <3>1, <4>1, <4>2, SMTT(30)
  <2>6. Lies(Flat(L, N), Len(Flat(L, i - 1)), L[i])
    BY <1>1, <1>2, LiesInFlat
  <2>7. Lies(Rendered(c), Len(Preamble(c)) + Len(Flat(L, k)), L[k + 1])
    <3>1. Flat(L, N) \in Seq(Byte)
      BY <1>1, <1>3
    <3> QED
      BY <1>5, <1>8, <2>1, <2>3, <2>6, <3>1, LiesWithin
  <2> QED
    BY <1>3, <1>6, <2>1, <2>3, <2>5, <2>7
<1> QED
  BY <1>1, <1>4, <1>5, <1>6, <1>7, <1>8, <1>9 DEF N, L

\* Where the pieces of a part lie.
LEMMA PartLayout ==
  ASSUME NEW c, WellFormed(c), NEW i \in 1 .. Count(c)
  PROVE  /\ Behind(c, i - 1) \in Nat /\ LineAt(c, i, 1) \in Nat /\ BodyAt(c, i) \in Nat
         /\ LineAt(c, i, Len(c.parts[i].header) + 1) \in Nat
         /\ ImageAt(c, i) \in Nat /\ ImageEnd(c, i) \in Nat /\ Behind(c, i) \in Nat
         /\ LineAt(c, i, 1) = Behind(c, i - 1) + Len(c.mark) + Eol(c)
         /\ LineAt(c, i, 1) <= LineAt(c, i, Len(c.parts[i].header) + 1)
         /\ BodyAt(c, i) = LineAt(c, i, Len(c.parts[i].header) + 1) + Eol(c)
         /\ ImageAt(c, i) = BodyAt(c, i) + Len(c.parts[i].junk)
         /\ ImageEnd(c, i) = ImageAt(c, i) + Len(c.parts[i].image)
         /\ Behind(c, i) = ImageEnd(c, i) + Eol(c)
         /\ Lies(Rendered(c), Behind(c, i - 1), c.mark)
         /\ Lies(Rendered(c), Behind(c, i - 1) + Len(c.mark), c.eol)
         /\ Lies(Rendered(c), LineAt(c, i, 1), Lines(c, c.parts[i].header))
         /\ Lies(Rendered(c), LineAt(c, i, Len(c.parts[i].header) + 1), c.eol)
         /\ Lies(Rendered(c), BodyAt(c, i), c.parts[i].junk)
         /\ Lies(Rendered(c), ImageAt(c, i), c.parts[i].image)
         /\ Lies(Rendered(c), ImageEnd(c, i), c.eol)
<1> DEFINE p     == c.parts[i]
           n     == Len(p.header)
           lines == Lines(c, p.header)
           B     == Behind(c, i - 1)
           s     == Rendered(c)
<1>1. /\ c.mark \in Seq(Byte) /\ c.eol \in Seq(Byte) /\ Len(c.eol) = Eol(c) /\ Eol(c) \in Nat
      /\ Len(c.mark) \in Nat
  BY ScriptParts, EolIs
<1>2. /\ p.junk \in Seq(Byte) /\ p.image \in Seq(Byte) /\ Len(p.junk) \in Nat /\ Len(p.image) \in Nat
      /\ n \in Nat
  BY PartFields
<1>3. lines \in Seq(Byte) /\ lines = Flat(LineList(c, p), n) /\ Len(lines) \in Nat
  <2>1. lines \in Seq(Byte) /\ lines = Flat(LineList(c, p), n)
    BY Listed
  <2> QED
    BY <2>1, LenProperties
<1>4. /\ s \in Seq(Byte) /\ Lies(s, B, RenderedPart(c, p)) /\ B \in Nat /\ Behind(c, i) \in Nat
      /\ Behind(c, i) = B + Len(RenderedPart(c, p))
      /\ B = Len(Preamble(c)) + Len(RenderedParts(c, i - 1))
  <2>1. i - 1 \in 0 .. Count(c) /\ i \in 0 .. Count(c)
    BY ScriptParts
  <2> QED
    BY <2>1, Rendering
<1> HIDE DEF lines, p, n, s, B
<1>5. LET a == B + Len(c.mark)
          b == B + Len(c.mark) + Len(c.eol)
          d == B + Len(c.mark) + Len(c.eol) + Len(lines)
          e == B + Len(c.mark) + Len(c.eol) + Len(lines) + Len(c.eol)
          f == B + Len(c.mark) + Len(c.eol) + Len(lines) + Len(c.eol) + Len(p.junk)
      IN  /\ Lies(s, B, c.mark) /\ Lies(s, a, c.eol) /\ Lies(s, b, lines)
          /\ Lies(s, d, c.eol) /\ Lies(s, e, p.junk) /\ Lies(s, f, p.image)
          /\ Lies(s, B + Len(Upto(c, p)), c.eol)
          /\ {b, d, e, f} \subseteq Nat /\ b <= d
          /\ B + Len(Upto(c, p)) = f + Len(p.image)
          /\ B + Len(RenderedPart(c, p)) = f + Len(p.image) + Len(c.eol)
  <2>1. /\ s \in Seq(Byte) /\ c.mark \in Seq(Byte) /\ c.eol \in Seq(Byte)
        /\ Lines(c, p.header) \in Seq(Byte) /\ p.junk \in Seq(Byte) /\ p.image \in Seq(Byte)
        /\ Lies(s, B, RenderedPart(c, p))
    BY <1>1, <1>2, <1>3, <1>4 DEF lines
  <2> QED
    BY <2>1, PartPieces DEF lines
<1>6. LineAt(c, i, 1) = B + Len(c.mark) + Len(c.eol)
  <2>1. Len(Flat(LineList(c, p), 1 - 1)) = 0
    BY FlatOfNone, EmptySeq
  <2> QED
    BY <1>1, <1>4, <2>1 DEF LineAt, B, p
<1>7. LineAt(c, i, n + 1) = B + Len(c.mark) + Len(c.eol) + Len(lines)
  <2>1. (n + 1) - 1 = n
    BY <1>2
  <2>2. LineAt(c, i, n + 1) =
          B + Len(c.mark) + Eol(c) + Len(Flat(LineList(c, p), (n + 1) - 1))
    BY DEF LineAt, B, p
  <2> QED
    BY <1>1, <1>3, <2>1, <2>2, Zenon
<1>8. BodyAt(c, i) = B + Len(c.mark) + Len(c.eol) + Len(lines) + Len(c.eol)
  BY <1>1, <1>7, Zenon DEF BodyAt, p, n
<1>9. ImageAt(c, i) = B + Len(c.mark) + Len(c.eol) + Len(lines) + Len(c.eol) + Len(p.junk)
  BY <1>8, Zenon DEF ImageAt, p
<1>10. ImageEnd(c, i) = B + Len(Upto(c, p))
  BY <1>4 DEF ImageEnd, p
<1>11. /\ Lies(s, B, c.mark) /\ Lies(s, B + Len(c.mark), c.eol)
       /\ Lies(s, LineAt(c, i, 1), lines) /\ Lies(s, LineAt(c, i, n + 1), c.eol)
       /\ Lies(s, BodyAt(c, i), p.junk) /\ Lies(s, ImageAt(c, i), p.image)
       /\ Lies(s, ImageEnd(c, i), c.eol)
  BY <1>5, <1>6, <1>7, <1>8, <1>9, <1>10, Zenon
<1>12. /\ LineAt(c, i, 1) \in Nat /\ LineAt(c, i, n + 1) \in Nat /\ BodyAt(c, i) \in Nat
       /\ ImageAt(c, i) \in Nat
       /\ LineAt(c, i, 1) <= LineAt(c, i, n + 1)
       /\ LineAt(c, i, 1) = B + Len(c.mark) + Eol(c)
       /\ BodyAt(c, i) = LineAt(c, i, n + 1) + Eol(c)
       /\ ImageAt(c, i) = BodyAt(c, i) + Len(p.junk)
       /\ ImageEnd(c, i) = ImageAt(c, i) + Len(p.image)
       /\ Behind(c, i) = ImageEnd(c, i) + Eol(c)
  BY <1>1, <1>4, <1>5, <1>6, <1>7, <1>8, <1>9, <1>10, Zenon
<1>13. ImageEnd(c, i) \in Nat
  BY <1>2, <1>12
<1> QED
  BY <1>4, <1>11, <1>12, <1>13, Zenon DEF s, p, n, lines, B

\* Where the lines of its header lie.
LEMMA LineLayout ==
  ASSUME NEW c, WellFormed(c), NEW i \in 1 .. Count(c), NEW j \in 1 .. Len(c.parts[i].header)
  PROVE  /\ LineAt(c, i, j) \in Nat /\ LineAt(c, i, j + 1) = LineAt(c, i, j) + 1 + Eol(c)
         /\ Lies(Rendered(c), LineAt(c, i, j), <<c.parts[i].header[j]>> \o c.eol)
<1> DEFINE p == c.parts[i]
           n == Len(p.header)
           L == LineList(c, p)
           a == Behind(c, i - 1) + Len(c.mark) + Eol(c)
<1>1. /\ a \in Nat /\ LineAt(c, i, 1) = a /\ Rendered(c) \in Seq(Byte) /\ n \in Nat /\ Eol(c) \in Nat
      /\ Lies(Rendered(c), LineAt(c, i, 1), Lines(c, p.header))
  BY PartLayout, Rendering, PartFields, EolIs
<1>2. /\ Lines(c, p.header) = Flat(L, n)
      /\ \A m \in 1 .. n : L[m] = <<p.header[m]>> \o c.eol /\ L[m] \in Seq(Byte) /\ Len(L[m]) = 1 + Eol(c)
  BY Listed
<1> HIDE DEF n, L, a
<1>4. j \in 1 .. n
  BY DEF n
<1>5. Lies(Flat(L, n), Len(Flat(L, j - 1)), L[j])
  BY <1>1, <1>2, <1>4, LiesInFlat
<1>6. Flat(L, n) \in Seq(Byte) /\ L[j] \in Seq(Byte)
  BY <1>1, <1>2, <1>4, FlatIsSeq
<1>7. Lies(Rendered(c), a + Len(Flat(L, j - 1)), L[j])
  BY <1>1, <1>2, <1>5, <1>6, LiesWithin
<1>8. Len(Flat(L, j - 1)) \in Nat /\ Len(Flat(L, j)) = Len(Flat(L, j - 1)) + 1 + Eol(c)
  <2>1. PICK k \in Nat : k = j - 1 /\ k + 1 = j
    BY <1>1, <1>4
  <2>2. \A m \in 1 .. k + 1 : L[m] \in Seq(Byte)
    <3>1. \A m \in 1 .. k + 1 : m \in 1 .. n
      BY <1>1, <1>4, <2>1
    <3> QED
      BY <1>2, <3>1
  <2>3. Flat(L, k) \in Seq(Byte) /\ Flat(L, k + 1) = Flat(L, k) \o L[k + 1]
    BY <2>1, <2>2, FlatGrows
  <2>4. Len(L[k + 1]) = 1 + Eol(c) /\ L[k + 1] \in Seq(Byte)
    BY <1>2, <1>4, <2>1, <2>2
  <2>5. Len(Flat(L, k + 1)) = Len(Flat(L, k)) + Len(L[k + 1]) /\ Len(Flat(L, k)) \in Nat
    BY <2>3, <2>4, Together, LenProperties, Zenon
  <2> QED
    BY <1>1, <2>1, <2>4, <2>5
<1>9. LineAt(c, i, j) = a + Len(Flat(L, j - 1)) /\ LineAt(c, i, j + 1) = a + Len(Flat(L, j))
  <2>1. (j + 1) - 1 = j
    BY <1>1, <1>4
  <2>2. /\ LineAt(c, i, j) = a + Len(Flat(L, j - 1))
        /\ LineAt(c, i, j + 1) = a + Len(Flat(L, (j + 1) - 1))
    BY Zenon DEF LineAt, a, L, p
  <2> QED
    BY <2>1, <2>2, Zenon
<1>10. LineAt(c, i, j) \in Nat /\ LineAt(c, i, j + 1) = LineAt(c, i, j) + 1 + Eol(c)
  BY <1>1, <1>8, <1>9
<1>11. L[j] = <<p.header[j]>> \o c.eol
  BY <1>2, <1>4
<1> QED
  BY <1>7, <1>9, <1>10, <1>11, Zenon

-----------------------------------------------------------------------------
(* The parser on a well-formed stream.                                     *)

Fits(c, i)    == Len(c.parts[i].image) <= BufSize
Skipped(c, k) == k >= 1 /\ Announces(c.parts[k]) /\ ~Fits(c, k)

\* The images of the first k parts that fit the buffer.
Fitting(c)      == [i \in 1 .. Count(c) |-> IF Fits(c, i) THEN <<c.parts[i].image>> ELSE <<>>]
Delivered(c, k) == Flat(Fitting(c), k)

\* Where the search for the boundary behind part k begins, and where it ends.
SearchFrom(c, k) ==
  IF k = 0 THEN Behind(c, 0) ELSE IF Skipped(c, k) THEN ImageAt(c, k) + 2 ELSE ImageEnd(c, k)
SearchTo(c, k) == IF k = Count(c) THEN Len(Rendered(c)) ELSE MarkAt(c, k + 1)

\* A line that starts at x is being read, whose LF is at e.
OnLine(x, e) == Offset(LineStart) = x /\ x <= Offset(cur) /\ Offset(cur) <= e

InBanner(c) ==
  state = "HTTP_BANNER" /\ boundary = <<>> /\ OnLine(0, Eol(c))

InType(c) ==
  state = "HTTP_HEADER" /\ boundary = <<>> /\ OnLine(1 + Eol(c), 1 + Eol(c) + Eol(c))

InHeaderEnd(c) ==
  /\ state = "HTTP_HEADER" /\ boundary = Bound(c)
  /\ OnLine(2 + Eol(c) + Eol(c), 1 + Eol(c) + Eol(c) + Eol(c))

AtPrefix(c) ==
  /\ anchor # NULL
  /\ Offset(anchor) < Offset(cur)
  /\ Offset(cur) <= Offset(anchor) + Len(Bound(c)) + 1

Searching(c, k) ==
  /\ state = "FIND_BOUNDARY"
  /\ content_length = 0 \/ k = Count(c) \/ Eol(c) = 2
  /\ \/ /\ anchor = NULL /\ SearchFrom(c, k) <= Offset(cur) /\ Offset(cur) <= SearchTo(c, k)
        /\ Doubled(c) /\ k < Count(c) => Offset(cur) # SearchTo(c, k) - 1
     \/ /\ AtPrefix(c) /\ k < Count(c) /\ Offset(anchor) = MarkAt(c, k + 1)
        /\ Offset(cur) = Offset(anchor) + Len(Bound(c)) + 1 => Eol(c) = 2
     \/ /\ AtPrefix(c) /\ Skipped(c, k) /\ ImageAt(c, k) <= Offset(anchor)
        /\ Offset(cur) <= ImageEnd(c, k)
        /\ Offset(cur) = ImageEnd(c, k) => Offset(cur) = Offset(anchor) + Len(Bound(c)) + 1
     \/ /\ AtPrefix(c) /\ k < Count(c) /\ Doubled(c)
        /\ Offset(anchor) = MarkAt(c, k + 1) - 2

Announced(c, i, n) ==
  IF \E m \in 1 .. n : GivesLength(c.parts[i].header[m]) THEN Len(c.parts[i].image) ELSE 0

InSubheader(c, i) ==
  /\ state = "HTTP_SUBHEADER"
  /\ \E j \in 1 .. Len(c.parts[i].header) + 1 :
       /\ OnLine(LineAt(c, i, j),
                 LineAt(c, i, j) + Eol(c) - IF j <= Len(c.parts[i].header) THEN 0 ELSE 1)
       /\ content_length = Announced(c, i, j - 1)

BeforeImage(c, i) ==
  /\ state = "FIND_IMAGE"
  /\ content_length = Announced(c, i, Len(c.parts[i].header))
  /\ BodyAt(c, i) <= Offset(cur) /\ Offset(cur) <= ImageAt(c, i) + 1
  /\ anchor # NULL => Offset(anchor) = Offset(cur) - 1 /\ BodyAt(c, i) <= Offset(anchor)
  /\ Offset(cur) = ImageAt(c, i) + 1 => anchor # NULL

InImage(c, i) ==
  /\ anchor # NULL /\ Offset(anchor) = ImageAt(c, i)
  /\ ImageAt(c, i) + 2 <= Offset(cur) /\ Offset(cur) < ImageEnd(c, i)
  /\ \/ state = "IMAGE_BY_CONTENT_LENGTH" /\ Announces(c.parts[i]) /\ Fits(c, i)
        /\ content_length = Len(c.parts[i].image)
     \/ state = "IMAGE_BY_EOF_SEARCH" /\ ~Announces(c.parts[i]) /\ content_length = 0

InHeader(c) ==
  /\ content_length = 0 /\ frames = <<>>
  /\ InBanner(c) \/ InType(c) \/ InHeaderEnd(c)

InPart(c, k) ==
  /\ boundary = Bound(c) /\ frames = Delivered(c, k)
  /\ \/ Searching(c, k)
     \/ k < Count(c) /\ (InSubheader(c, k + 1) \/ BeforeImage(c, k + 1) \/ InImage(c, k + 1))

\* How far the grabber has come with what camera c sends.
Track(c) ==
  IF pc = "done" THEN frames = Sent(c, pos, BufSize)
  ELSE InHeader(c) \/ \E k \in 0 .. Count(c) : InPart(c, k)

-----------------------------------------------------------------------------
(* Which images have been sent.                                            *)

\* The parts follow one another.
LEMMA Ordered ==
  ASSUME NEW c, WellFormed(c), NEW i \in 0 .. Count(c), NEW k \in 0 .. Count(c), i <= k
  PROVE  Behind(c, i) <= Behind(c, k)
<1> DEFINE N == Count(c)
           T == {m \in 0 .. N : i <= m => Behind(c, i) <= Behind(c, m)}
<1>1. N \in Nat /\ \A m \in 0 .. N : Behind(c, m) \in Nat
  BY ScriptParts, Rendering
<1>2. 0 \in T
  BY <1>1
<1>3. ASSUME NEW m \in 0 .. N - 1, m \in T
      PROVE  m + 1 \in T
  <2>1. PICK n \in 1 .. N : n = m + 1 /\ n - 1 = m
    BY <1>1
  <2>2. /\ ImageEnd(c, n) \in Nat /\ ImageAt(c, n) \in Nat /\ BodyAt(c, n) \in Nat
        /\ Behind(c, n) \in Nat /\ Behind(c, n - 1) \in Nat
        /\ Behind(c, n - 1) <= Behind(c, n)
    <3>1. Behind(c, n) = Behind(c, n - 1) + Len(RenderedPart(c, c.parts[n]))
      BY Rendering
    <3>2. Len(RenderedPart(c, c.parts[n])) \in Nat
      BY Listed, LenProperties, Zenon
    <3>3. Behind(c, n - 1) \in Nat
      BY PartLayout
    <3> QED
      BY <3>1, <3>2, <3>3, PartLayout
  <2> QED
    BY <1>1, <1>3, <2>1, <2>2
<1> QED
  <2> HIDE DEF T
  <2>1. \A m \in 0 .. N : m \in T
    BY <1>1, <1>2, <1>3, Upwards
  <2> QED
    BY <2>1 DEF T

\* So do the lines of a header.
LEMMA LinesOrdered ==
  ASSUME NEW c, WellFormed(c), NEW i \in 1 .. Count(c), NEW j \in 1 .. Len(c.parts[i].header) + 1
  PROVE  /\ LineAt(c, i, j) \in Nat /\ LineAt(c, i, 1) <= LineAt(c, i, j)
         /\ LineAt(c, i, j) <= LineAt(c, i, Len(c.parts[i].header) + 1)
<1> DEFINE n == Len(c.parts[i].header)
           at(m) == LineAt(c, i, m)
           T == {m \in 0 .. n : at(1) <= at(m + 1)}
           U == {m \in 0 .. n : j <= m + 1 => at(j) <= at(m + 1)}
<1>1. n \in Nat /\ Eol(c) \in Nat /\ at(1) \in Nat /\ at(n + 1) \in Nat
  BY PartFields, EolIs, PartLayout
<1>2. \A m \in 1 .. n : at(m) \in Nat /\ at(m + 1) = at(m) + 1 + Eol(c)
  BY LineLayout
<1>3. \A m \in 1 .. n + 1 : at(m) \in Nat
  <2>1. \A m \in 1 .. n + 1 : m \in 1 .. n \/ m = n + 1
    BY <1>1
  <2> QED
    BY <1>1, <1>2, <2>1, Zenon
<1> HIDE DEF n, at
<1>4. \A m \in 0 .. n - 1 : at(m + 1) \in Nat /\ at(m + 2) \in Nat /\ at(m + 1) <= at(m + 2)
  <2> TAKE m \in 0 .. n - 1
  <2>1. m + 1 \in 1 .. n /\ (m + 1) + 1 = m + 2
    BY <1>1
  <2>2. at(m + 1) \in Nat /\ at(m + 2) = at(m + 1) + 1 + Eol(c)
    BY <1>2, <2>1
  <2> QED
    BY <1>1, <2>2
<1>5. \A m \in 0 .. n : m \in T
  <2>1. 0 \in T
    BY <1>1
  <2>2. ASSUME NEW m \in 0 .. n - 1, m \in T
        PROVE  m + 1 \in T
    <3>0. (m + 1) + 1 = m + 2 /\ m + 1 \in 0 .. n
      BY <1>1
    <3>1. (m + 1) + 1 = m + 2 /\ m + 1 \in 0 .. n /\ at(1) <= at(m + 1)
      BY <2>2, <3>0
    <3>2. at(1) <= at(m + 2)
      BY <1>1, <1>4, <3>1
    <3> QED
      BY <3>1, <3>2
  <2> HIDE DEF T
  <2> QED
    BY <1>1, <2>1, <2>2, Upwards
<1>6. j \in 1 .. n + 1
  BY DEF n
<1>7. \A m \in 0 .. n : m \in U
  <2>1. 0 \in U
    <3>1. j <= 0 + 1 => j = 1
      BY <1>1, <1>6
    <3>2. at(1) <= at(1) /\ 0 + 1 = 1 /\ 0 \in 0 .. n
      BY <1>1
    <3> QED
      BY <3>1, <3>2
  <2>2. ASSUME NEW m \in 0 .. n - 1, m \in U
        PROVE  m + 1 \in U
    <3>0. (m + 1) + 1 = m + 2 /\ m + 1 \in 0 .. n
      BY <1>1
    <3>1. (m + 1) + 1 = m + 2 /\ m + 1 \in 0 .. n /\ (j <= m + 1 => at(j) <= at(m + 1))
      BY <2>2, <3>0
    <3>2. j <= m + 2 => j <= m + 1 \/ j = m + 2
      BY <1>1, <1>6
    <3>3. at(j) \in Nat /\ at(m + 1) \in Nat /\ at(m + 2) \in Nat /\ at(m + 1) <= at(m + 2)
      BY <1>3, <1>4, <1>6
    <3>4. j <= m + 2 => at(j) <= at(m + 2)
      BY <3>1, <3>2, <3>3
    <3> QED
      BY <3>1, <3>4
  <2> HIDE DEF U
  <2> QED
    BY <1>1, <2>1, <2>2, Upwards
<1>8. at(j) \in Nat /\ at(1) <= at(j)
  <2>1. PICK m \in 0 .. n : j = m + 1
    <3>1. j - 1 \in 0 .. n /\ j = (j - 1) + 1
      BY <1>1, <1>6
    <3> QED
      BY <3>1
  <2> QED
    BY <1>3, <1>5, <1>6, <2>1
<1>9. at(j) <= at(n + 1)
  <2>1. n \in 0 .. n /\ j <= n + 1
    BY <1>1, <1>6
  <2> QED
    BY <1>7, <2>1
<1> QED
  BY <1>8, <1>9 DEF n, at

\* The list of the images that fit, and how it grows.
LEMMA DeliveredGrows ==
  ASSUME NEW c, WellFormed(c), NEW k \in 0 .. Count(c)
  PROVE  /\ Delivered(c, k) \in Seq(Seq(Byte)) /\ Delivered(c, 0) = <<>>
         /\ k < Count(c) => Delivered(c, k + 1) = Delivered(c, k) \o Fitting(c)[k + 1]
         /\ \A i \in 1 .. Count(c) : Fitting(c)[i] \in Seq(Seq(Byte))
<1>1. Count(c) \in Nat
  BY ScriptParts
<1>2. ASSUME NEW i \in 1 .. Count(c)
      PROVE  Fitting(c)[i] \in Seq(Seq(Byte))
  <2>1. c.parts[i].image \in Seq(Byte)
    BY PartFields
  <2>2. <<c.parts[i].image>> \in Seq(Seq(Byte)) /\ <<>> \in Seq(Seq(Byte))
    BY <2>1, Single, EmptySeq
  <2> QED
    BY <2>2 DEF Fitting
<1>3. \A i \in 1 .. k : i \in 1 .. Count(c)
  BY <1>1
<1>4. Delivered(c, k) \in Seq(Seq(Byte))
  BY <1>1, <1>2, <1>3, FlatIsSeq DEF Delivered
<1>5. Delivered(c, 0) = <<>>
  BY FlatOfNone DEF Delivered
<1>6. ASSUME k < Count(c)
      PROVE  Delivered(c, k + 1) = Delivered(c, k) \o Fitting(c)[k + 1]
  <2>1. \A i \in 1 .. k + 1 : i \in 1 .. Count(c)
    BY <1>1, <1>6
  <2>2. \A i \in 1 .. k + 1 : Fitting(c)[i] \in Seq(Seq(Byte))
    BY <1>2, <2>1
  <2> QED
    BY <2>2, FlatGrows DEF Delivered
<1> QED
  BY <1>2, <1>4, <1>5, <1>6

\* When n bytes have been sent, the last image among them being number k.
LEMMA SentIs ==
  ASSUME NEW c, WellFormed(c), NEW n, NEW k \in 0 .. Count(c),
         \A i \in 1 .. k : ImageEnd(c, i) <= n \/ ~Fits(c, i),
         \A i \in k + 1 .. Count(c) : ~(ImageEnd(c, i) <= n)
  PROVE  Sent(c, n, BufSize) = Delivered(c, k)
<1> DEFINE N == Count(c)
           F == Fitting(c)
           G == [i \in 1 .. N |->
                  IF ImageEnd(c, i) <= n /\ Len(c.parts[i].image) <= BufSize
                  THEN <<c.parts[i].image>> ELSE <<>>]
           S == Seq(Byte)
           T == {m \in 0 .. N : /\ m <= k => Flat(G, m) = Flat(F, m)
                                /\ k <= m => Flat(G, m) = Flat(F, k)}
<1>1. N \in Nat /\ \A i \in 1 .. N : F[i] \in Seq(S) /\ G[i] \in Seq(S)
  <2>1. N \in Nat
    BY ScriptParts
  <2>2. ASSUME NEW i \in 1 .. N
        PROVE  G[i] \in Seq(S)
    <3>1. c.parts[i].image \in S
      BY PartFields
    <3>2. <<c.parts[i].image>> \in Seq(S) /\ <<>> \in Seq(S)
      BY <3>1, Single, EmptySeq
    <3> QED
      BY <3>2
  <2> QED
    BY <2>1, <2>2, DeliveredGrows
<1>2. \A i \in 1 .. k : G[i] = F[i]
  <2> TAKE i \in 1 .. k
  <2>1. i \in 1 .. N
    BY <1>1
  <2> QED
    BY <2>1 DEF Fitting, Fits
<1>3. \A i \in k + 1 .. N : G[i] = <<>>
  <2> TAKE i \in k + 1 .. N
  <2>1. i \in 1 .. N
    BY <1>1
  <2> QED
    BY <2>1
<1>4. Sent(c, n, BufSize) = Flat(G, N)
  <2>1. DOMAIN c.parts = 1 .. N
    BY ScriptParts
  <2>2. G = [i \in 1 .. N |-> G[i]]
    OBVIOUS
  <2> QED
    BY <2>1, <2>2 DEF Sent, Flat
<1> HIDE DEF G, F, N, S
<1>5. 0 \in T
  <2>1. Flat(G, 0) = <<>> /\ Flat(F, 0) = <<>>
    BY FlatOfNone
  <2>2. k <= 0 => k = 0
    OBVIOUS
  <2> QED
    BY <1>1, <2>1, <2>2
<1>6. ASSUME NEW m \in 0 .. N - 1, m \in T
      PROVE  m + 1 \in T
  <2>1. m \in Nat /\ m + 1 \in 0 .. N /\ \A i \in 1 .. m + 1 : i \in 1 .. N
    BY <1>1
  <2>2. Flat(G, m) \in Seq(S) /\ Flat(G, m + 1) = Flat(G, m) \o G[m + 1]
    BY <1>1, <2>1, FlatGrows
  <2>3. Flat(F, m + 1) = Flat(F, m) \o F[m + 1]
    BY <1>1, <2>1, FlatGrows
  <2>4. ASSUME m + 1 <= k
        PROVE  Flat(G, m + 1) = Flat(F, m + 1)
    <3>1. Flat(G, m) = Flat(F, m)
      BY <1>6, <2>4
    <3>2. G[m + 1] = F[m + 1]
      BY <1>2, <2>1, <2>4
    <3> QED
      BY <2>2, <2>3, <3>1, <3>2
  <2>5. ASSUME k <= m
        PROVE  Flat(G, m + 1) = Flat(F, k)
    <3>1. Flat(G, m) = Flat(F, k)
      BY <1>6, <2>5
    <3>2. G[m + 1] = <<>>
      BY <1>3, <2>1, <2>5
    <3>3. Flat(G, m) \o <<>> = Flat(G, m)
      BY <2>2, ConcatEmptySeq
    <3> QED
      BY <2>2, <3>1, <3>2, <3>3, Zenon
  <2>6. k <= m + 1 => k <= m \/ k = m + 1
    BY <2>1
  <2>7. m + 1 <= k => Flat(G, m + 1) = Flat(F, m + 1)
    BY <2>4
  <2>8. k <= m + 1 => Flat(G, m + 1) = Flat(F, k)
    BY <2>4, <2>5, <2>6
  <2> QED
    BY <2>1, <2>7, <2>8
<1>7. N \in T
  <2> HIDE DEF T
  <2>1. \A m \in 0 .. N : m \in T
    BY <1>1, <1>5, <1>6, Upwards
  <2> QED
    BY <1>1, <2>1
<1>8. k <= N
  BY <1>1 DEF N
<1> QED
  BY <1>4, <1>7, <1>8 DEF Delivered, F

\* The order of the positions of part i, the part before which ends at b.
Placed(c, i, b) ==
  /\ b \in Nat /\ MarkAt(c, i) \in Nat /\ LineAt(c, i, 1) \in Nat
  /\ LineAt(c, i, Len(c.parts[i].header) + 1) \in Nat /\ BodyAt(c, i) \in Nat
  /\ ImageAt(c, i) \in Nat /\ ImageEnd(c, i) \in Nat /\ Behind(c, i) \in Nat
  /\ Eol(c) \in Nat /\ Eol(c) >= 1 /\ Len(Bound(c)) \in Nat /\ Len(Bound(c)) >= 1
  /\ b <= MarkAt(c, i)
  /\ LineAt(c, i, 1) = MarkAt(c, i) + Len(Bound(c)) + Eol(c)
  /\ LineAt(c, i, 1) <= LineAt(c, i, Len(c.parts[i].header) + 1)
  /\ BodyAt(c, i) = LineAt(c, i, Len(c.parts[i].header) + 1) + Eol(c)
  /\ BodyAt(c, i) <= ImageAt(c, i)
  /\ ImageAt(c, i) + 4 <= ImageEnd(c, i)
  /\ Behind(c, i) = ImageEnd(c, i) + Eol(c)

\* The places of a part, one behind the other.
LEMMA Positions ==
  ASSUME NEW c, WellFormed(c), NEW i \in 1 .. Count(c)
  PROVE  Placed(c, i, Behind(c, i - 1))
<1>1. /\ Len(Bound(c)) \in Nat /\ Len(Bound(c)) >= 1 /\ Len(c.mark) \in Nat
      /\ Len(Bound(c)) <= Len(c.mark) /\ Eol(c) \in {1, 2}
  BY ScriptParts, EolIs
<1>2. /\ Len(c.parts[i].junk) \in Nat /\ Len(c.parts[i].image) \in Nat
      /\ Len(c.parts[i].image) >= 4
  BY PartFields
<1>3. /\ Behind(c, i - 1) \in Nat /\ LineAt(c, i, 1) \in Nat /\ BodyAt(c, i) \in Nat
      /\ LineAt(c, i, Len(c.parts[i].header) + 1) \in Nat
      /\ ImageAt(c, i) \in Nat /\ ImageEnd(c, i) \in Nat /\ Behind(c, i) \in Nat
      /\ LineAt(c, i, 1) = Behind(c, i - 1) + Len(c.mark) + Eol(c)
      /\ LineAt(c, i, 1) <= LineAt(c, i, Len(c.parts[i].header) + 1)
      /\ BodyAt(c, i) = LineAt(c, i, Len(c.parts[i].header) + 1) + Eol(c)
      /\ ImageAt(c, i) = BodyAt(c, i) + Len(c.parts[i].junk)
      /\ ImageEnd(c, i) = ImageAt(c, i) + Len(c.parts[i].image)
      /\ Behind(c, i) = ImageEnd(c, i) + Eol(c)
  BY PartLayout, Zenon
<1>4. MarkAt(c, i) = Behind(c, i - 1) + (Len(c.mark) - Len(Bound(c)))
  BY DEF MarkAt
<1>5. Eol(c) \in Nat /\ Eol(c) >= 1
  BY <1>1
<1>6. /\ MarkAt(c, i) \in Nat /\ Behind(c, i - 1) <= MarkAt(c, i)
      /\ Behind(c, i - 1) + Len(c.mark) + Eol(c) = MarkAt(c, i) + Len(Bound(c)) + Eol(c)
  <2>1. /\ Len(c.mark) \in Nat /\ Len(Bound(c)) \in Nat /\ Len(Bound(c)) <= Len(c.mark)
        /\ Behind(c, i - 1) \in Nat
    BY <1>1, <1>3, Zenon
  <2> QED
    BY <1>4, <1>5, <2>1
<1>7. BodyAt(c, i) <= ImageAt(c, i) /\ ImageAt(c, i) + 4 <= ImageEnd(c, i)
  <2>1. \A y, j, g \in Nat : g >= 4 => y <= y + j /\ y + j + 4 <= y + j + g
    OBVIOUS
  <2> QED
    BY <1>2, <1>3, <2>1, Zenon
<1> QED
  BY <1>1, <1>3, <1>5, <1>6, <1>7, Zenon DEF Placed

\* The places of the part that follows part k.
LEMMA NextPositions ==
  ASSUME NEW c, WellFormed(c), NEW k \in 0 .. Count(c), k < Count(c)
  PROVE  Placed(c, k + 1, Behind(c, k))
<1>1. k + 1 \in 1 .. Count(c) /\ (k + 1) - 1 = k
  BY ScriptParts
<1>2. Placed(c, k + 1, Behind(c, (k + 1) - 1))
  BY <1>1, Positions, Zenon
<1> QED
  BY <1>1, <1>2, Zenon

\* The boundary's first character precedes it not at all or just twice.
LEMMA DashesAre ==
  ASSUME NEW c, WellFormed(c)
  PROVE  /\ Dashes(c) \in Nat
         /\ \A m \in 1 .. Dashes(c) :
              c.mark[m] = Bound(c)[1] => Doubled(c) /\ m \in {Dashes(c) - 1, Dashes(c)}
         /\ Doubled(c) => /\ Dashes(c) >= 2
                          /\ c.mark[Dashes(c) - 1] = Bound(c)[1]
                          /\ c.mark[Dashes(c)] = Bound(c)[1]
<1> DEFINE n == Dashes(c)
           D == {m \in 1 .. n : c.mark[m] = Bound(c)[1]}
<1>1. n \in Nat
  BY ScriptParts DEF Dashes
<1>2. D \in {{}, {n - 1, n}}
  BY Zenon DEF WellFormed, Bound, Dashes
<1>3. \A m \in 1 .. n : m \in D <=> c.mark[m] = Bound(c)[1]
  BY Zenon
<1>4. Doubled(c) <=> D # {}
  <2>1. Doubled(c) <=> \E m \in 1 .. n : c.mark[m] = Bound(c)[1]
    BY Zenon DEF Doubled
  <2> QED
    BY <2>1, Zenon
<1>5. \A m \in D : m \in 1 .. n
  BY Zenon
<1> HIDE DEF D, n
<1>6. \A m \in 1 .. n : c.mark[m] = Bound(c)[1] => Doubled(c) /\ m \in {n - 1, n}
  BY <1>2, <1>3, <1>4, Zenon
<1>7. Doubled(c) => n - 1 \in D /\ n \in D
  BY <1>2, <1>4, Zenon
<1>8. Doubled(c) => n >= 2 /\ n - 1 \in 1 .. n /\ n \in 1 .. n
  BY <1>1, <1>5, <1>7
<1> QED
  BY <1>1, <1>3, <1>6, <1>7, <1>8, Zenon DEF n

\* So do the bytes in front of the boundary behind part k.
LEMMA BeforeMark ==
  ASSUME NEW c, WellFormed(c), NEW k \in 0 .. Count(c), k < Count(c)
  PROVE  /\ MarkAt(c, k + 1) = Behind(c, k) + Dashes(c) /\ Behind(c, k) \in Nat
         /\ Doubled(c) => /\ Behind(c, k) + 2 <= MarkAt(c, k + 1)
                          /\ Rendered(c)[MarkAt(c, k + 1) - 1] = Bound(c)[1]
                          /\ Rendered(c)[MarkAt(c, k + 1)] = Bound(c)[1]
<1> DEFINE s == Rendered(c)
           n == Dashes(c)
           B == Behind(c, k)
           M == MarkAt(c, k + 1)
           u == Len(c.mark)
           w == Len(Bound(c))
<1>1. k + 1 \in 1 .. Count(c) /\ (k + 1) - 1 = k
  BY ScriptParts
<1>2. Lies(s, B, c.mark)
  BY <1>1, PartLayout, Zenon
<1>3. u \in Nat /\ w \in Nat /\ n \in Nat /\ n = u - w /\ B \in Nat
  BY ScriptParts, Rendering, DashesAre DEF Dashes
<1>4. M = B + u - w
  BY <1>1, Zenon DEF MarkAt
<1>5. \A m \in 1 .. u : s[B + m] = c.mark[m]
  BY <1>2 DEF Lies
<1>6. Doubled(c) => n >= 2 /\ c.mark[n - 1] = Bound(c)[1] /\ c.mark[n] = Bound(c)[1]
  BY DashesAre
<1> HIDE DEF s, n, B, M, u, w
<1>7. M = B + n
  BY <1>3, <1>4
<1>8. Doubled(c) => /\ n - 1 \in 1 .. u /\ n \in 1 .. u
                    /\ B + (n - 1) = M - 1 /\ B + 2 <= M
  BY <1>3, <1>6, <1>7
<1>9. Doubled(c) => s[M - 1] = Bound(c)[1] /\ s[M] = Bound(c)[1]
  BY <1>5, <1>6, <1>7, <1>8
<1> QED
  BY <1>3, <1>7, <1>8, <1>9 DEF s, n, B, M

\* Where the grabber can be behind part k.
LEMMA InPartBounds ==
  ASSUME IInv, NEW c, WellFormed(c), NEW k \in 0 .. Count(c), InPart(c, k)
  PROVE  /\ k < Count(c) => Offset(cur) < ImageEnd(c, k + 1)
         /\ k >= 1 => /\ Behind(c, k - 1) <= Offset(cur)
                      /\ ImageEnd(c, k) <= Offset(cur) \/ ~Fits(c, k)
<1> DEFINE N    == Count(c)
           at   == Offset(cur)
           from == Offset(anchor)
           e    == Eol(c)
           n    == Len(Bound(c))
           b0   == Behind(c, k - 1)
           g0   == ImageAt(c, k)
           d0   == ImageEnd(c, k)
           b1   == Behind(c, k)
           m    == MarkAt(c, k + 1)
           l    == LineAt(c, k + 1, 1)
           h    == LineAt(c, k + 1, Len(c.parts[k + 1].header) + 1)
           y    == BodyAt(c, k + 1)
           g    == ImageAt(c, k + 1)
           d    == ImageEnd(c, k + 1)
<1>1. at \in Int /\ from \in Int /\ N \in Nat /\ k \in 0 .. N
  BY ScriptParts, Received DEF Offset, NULL
<1>2. k < N =>
        /\ b1 \in Nat /\ m \in Nat /\ l \in Nat /\ h \in Nat /\ y \in Nat /\ g \in Nat /\ d \in Nat
        /\ e \in Nat /\ e >= 1 /\ n \in Nat /\ b1 <= m /\ l = m + n + e /\ l <= h /\ y = h + e
        /\ y <= g /\ g + 4 <= d
  BY NextPositions, Zenon DEF Placed
<1>3. k >= 1 =>
        /\ k \in 1 .. N /\ b0 \in Nat /\ g0 \in Nat /\ d0 \in Nat /\ b1 \in Nat /\ e \in Nat /\ e >= 1
        /\ b0 <= g0 /\ g0 + 4 <= d0 /\ b1 = d0 + e
  <2> SUFFICES ASSUME k >= 1
               PROVE  /\ k \in 1 .. N /\ b0 \in Nat /\ g0 \in Nat /\ d0 \in Nat /\ b1 \in Nat
                      /\ e \in Nat /\ e >= 1 /\ b0 <= g0 /\ g0 + 4 <= d0 /\ b1 = d0 + e
    OBVIOUS
  <2>1. k \in 1 .. N
    BY <1>1
  <2>2. Placed(c, k, b0)
    BY <2>1, Positions
  <2> QED
    BY <2>1, <2>2, SMTT(30) DEF Placed
<1>4. CASE Searching(c, k)
  <2>1. CASE SearchFrom(c, k) <= at /\ at <= SearchTo(c, k)
    <3>1. k < N => at <= m
      BY <2>1, <1>1 DEF SearchTo
    <3>2. k >= 1 => IF Skipped(c, k) THEN g0 + 2 <= at ELSE d0 <= at
      BY <2>1, <1>1 DEF SearchFrom
    <3>3. Skipped(c, k) => ~Fits(c, k)
      BY DEF Skipped
    <3> HIDE DEF N, at, from, e, n, b0, g0, d0, b1, m, l, h, y, g, d
    <3>4. k < N => at < d
      BY <1>1, <1>2, <3>1
    <3>5. k >= 1 => b0 <= at /\ (d0 <= at \/ ~Fits(c, k))
      BY <1>1, <1>3, <3>2, <3>3
    <3> QED
      BY <3>4, <3>5 DEF N, at, d, b0, d0
  <2>2. CASE k < N /\ from = m /\ from < at /\ at <= from + n + 1
    <3> HIDE DEF N, at, from, e, n, b0, g0, d0, b1, m, l, h, y, g, d
    <3>1. at < d
      BY <1>1, <1>2, <2>2
    <3>2. k >= 1 => b0 <= at /\ d0 <= at
      BY <1>1, <1>2, <1>3, <2>2
    <3> QED
      BY <3>1, <3>2 DEF N, at, d, b0, d0
  <2>3. CASE Skipped(c, k) /\ g0 <= from /\ from < at /\ at <= d0
    <3>1. k >= 1 /\ ~Fits(c, k)
      BY <2>3 DEF Skipped
    <3> HIDE DEF N, at, from, e, n, b0, g0, d0, b1, m, l, h, y, g, d
    <3>2. b0 <= at
      BY <1>1, <1>3, <2>3, <3>1
    <3>3. k < N => at < d
      BY <1>1, <1>2, <1>3, <2>3, <3>1
    <3> QED
      BY <3>1, <3>2, <3>3 DEF N, at, d, b0, d0
  <2>4. CASE k < N /\ Doubled(c) /\ from = m - 2 /\ from < at /\ at <= from + n + 1
    <3>1. b1 + 2 <= m
      BY <2>4, BeforeMark
    <3> HIDE DEF N, at, from, e, n, b0, g0, d0, b1, m, l, h, y, g, d
    <3>2. at < d
      BY <1>1, <1>2, <2>4
    <3>3. k >= 1 => b0 <= at /\ d0 <= at
      BY <1>1, <1>2, <1>3, <2>4, <3>1
    <3> QED
      BY <3>2, <3>3 DEF N, at, d, b0, d0
  <2> QED
    BY <1>4, <2>1, <2>2, <2>3, <2>4 DEF Searching, AtPrefix
<1>5. CASE /\ k < N
           /\ InSubheader(c, k + 1) \/ BeforeImage(c, k + 1) \/ InImage(c, k + 1)
  <2>1. b1 <= at /\ at < d
    <3>1. CASE InSubheader(c, k + 1)
      <4> DEFINE t == Len(c.parts[k + 1].header)
      <4>1. PICK j \in 1 .. t + 1 :
              LineAt(c, k + 1, j) <= at /\ at <= LineAt(c, k + 1, j) + e - IF j <= t THEN 0 ELSE 1
        BY <3>1 DEF InSubheader, OnLine
      <4> DEFINE x == LineAt(c, k + 1, j)
      <4>2. x \in Nat /\ l <= x /\ x <= h
        <5>1. k + 1 \in 1 .. Count(c)
          BY <1>1, <1>5
        <5> QED
          BY <5>1, LinesOrdered, Zenon
      <4>3. x <= at /\ x \in Int /\ e \in Int /\ e >= 1
        BY <1>2, <1>5, <4>1, <4>2
      <4>4. at <= x + e
        <5>1. CASE j <= t
          <6>1. at <= x + (e - 0)
            BY <4>1, <5>1
          <6> HIDE DEF at, x, e
          <6> QED
            BY <1>1, <4>3, <6>1
        <5>2. CASE ~(j <= t)
          <6>1. at <= x + (e - 1)
            BY <4>1, <5>2
          <6> HIDE DEF at, x, e
          <6> QED
            BY <1>1, <4>3, <6>1
        <5> QED
          BY <5>1, <5>2
      <4> HIDE DEF N, at, from, e, n, b0, g0, d0, b1, m, l, h, y, g, d, x
      <4> QED
        BY <1>1, <1>2, <1>5, <4>2, <4>3, <4>4, SMTT(30)
    <3>2. CASE BeforeImage(c, k + 1)
      <4>1. y <= at /\ at <= g + 1
        BY <3>2 DEF BeforeImage
      <4> HIDE DEF N, at, from, e, n, b0, g0, d0, b1, m, l, h, y, g, d
      <4> QED
        BY <1>1, <1>2, <1>5, <4>1
    <3>3. CASE InImage(c, k + 1)
      <4>1. g + 2 <= at /\ at < d
        BY <3>3 DEF InImage
      <4> HIDE DEF N, at, from, e, n, b0, g0, d0, b1, m, l, h, y, g, d
      <4> QED
        BY <1>1, <1>2, <1>5, <4>1
    <3> QED
      BY <1>5, <3>1, <3>2, <3>3
  <2> HIDE DEF N, at, from, e, n, b0, g0, d0, b1, m, l, h, y, g, d
  <2>2. k >= 1 => b0 <= at /\ d0 <= at
    BY <1>1, <1>3, <2>1
  <2> QED
    BY <2>1, <2>2 DEF at, d, b0, d0
<1> QED
  BY <1>4, <1>5 DEF InPart

\* Between two reads the frames are the images sent.
LEMMA TrackDelivers ==
  ASSUME IInv, NEW c, WellFormed(c), Track(c), pc # "done", Offset(cur) = pos
  PROVE  frames = Sent(c, pos, BufSize)
<1>0. Count(c) \in Nat /\ pos \in Nat
  BY ScriptParts, Received
<1>1. ASSUME NEW k \in 0 .. Count(c), frames = Delivered(c, k),
             k < Count(c) => pos < ImageEnd(c, k + 1),
             k >= 1 => /\ Behind(c, k - 1) <= pos
                       /\ ImageEnd(c, k) <= pos \/ ~Fits(c, k)
      PROVE  frames = Sent(c, pos, BufSize)
  <2>1. ASSUME NEW i \in 1 .. k
        PROVE  ImageEnd(c, i) <= pos \/ ~Fits(c, i)
    <3>1. CASE i = k
      BY <1>1, <3>1
    <3>2. CASE i # k
      <4>1. i \in 0 .. Count(c) /\ k - 1 \in 0 .. Count(c) /\ i <= k - 1 /\ i \in 1 .. Count(c) /\ k >= 1
            /\ k \in 1 .. Count(c)
        BY <1>0, <3>2
      <4>2. Behind(c, i) <= Behind(c, k - 1)
        BY <4>1, Ordered
      <4>3. Placed(c, i, Behind(c, i - 1))
        BY <4>1, Positions
      <4>4. Behind(c, k - 1) \in Nat
        BY <4>1, Rendering
      <4>5. ImageEnd(c, i) \in Nat /\ Behind(c, i) \in Nat /\ ImageEnd(c, i) <= Behind(c, i)
        BY <4>3, SMT DEF Placed
      <4>6. Behind(c, k - 1) <= pos
        BY <1>1, <4>1
      <4> QED
        BY <1>0, <4>2, <4>4, <4>5, <4>6
    <3> QED
      BY <3>1, <3>2
  <2>2. ASSUME NEW i \in k + 1 .. Count(c)
        PROVE  ~(ImageEnd(c, i) <= pos)
    <3>0. k < Count(c) /\ k + 1 \in 1 .. Count(c) /\ i \in 1 .. Count(c)
      BY <1>0
    <3>1. CASE i = k + 1
      BY <1>0, <1>1, <3>0, <3>1, NextPositions DEF Placed
    <3>2. CASE i # k + 1
      <4>1. i - 1 \in 0 .. Count(c) /\ k + 1 \in 0 .. Count(c) /\ k + 1 <= i - 1
        BY <1>0, <3>2
      <4>2. Behind(c, k + 1) <= Behind(c, i - 1)
        BY <4>1, Ordered
      <4>3. /\ ImageEnd(c, k + 1) <= Behind(c, k + 1) /\ ImageEnd(c, k + 1) \in Nat
            /\ Behind(c, k + 1) \in Nat
        <5>1. Placed(c, k + 1, Behind(c, k))
          BY <3>0, NextPositions
        <5> QED
          BY <5>1 DEF Placed
      <4>4. pos < ImageEnd(c, k + 1)
        BY <1>1, <3>0
      <4>5. /\ Behind(c, i - 1) <= ImageEnd(c, i) /\ Behind(c, i - 1) \in Nat
            /\ ImageEnd(c, i) \in Nat
        <5>1. Placed(c, i, Behind(c, i - 1))
          BY <3>0, Positions
        <5> QED
          BY <5>1, SMTT(30) DEF Placed
      <4> QED
        BY <1>0, <4>2, <4>3, <4>4, <4>5
    <3> QED
      BY <3>1, <3>2
  <2> QED
    BY <1>1, <2>1, <2>2, SentIs
<1>2. CASE InHeader(c)
  <2>1. frames = Delivered(c, 0)
    BY <1>0, <1>2, DeliveredGrows DEF InHeader
  <2>2. 0 < Count(c) => pos < ImageEnd(c, 0 + 1)
    <3>1. 0 < Count(c) => Placed(c, 0 + 1, Behind(c, 0))
      BY <1>0, NextPositions
    <3>2. pos <= Behind(c, 0)
      <4>1. Behind(c, 0) = 2 + Eol(c) + Eol(c) + Eol(c)
        BY Rendering
      <4>2. Eol(c) \in Nat
        BY EolIs
      <4> QED
        BY <1>0, <1>2, <4>1, <4>2 DEF InHeader, InBanner, InType, InHeaderEnd, OnLine
    <3> QED
      BY <1>0, <3>1, <3>2, SMTT(30) DEF Placed
  <2>3. 0 \in 0 .. Count(c) /\ ~(0 >= 1)
    BY <1>0
  <2> QED
    BY <1>1, <2>1, <2>2, <2>3
<1>3. ASSUME NEW k \in 0 .. Count(c), InPart(c, k)
      PROVE  frames = Sent(c, pos, BufSize)
  <2>1. frames = Delivered(c, k)
    BY <1>3 DEF InPart
  <2> QED
    BY <1>1, <1>3, <2>1, InPartBounds
<1> QED
  BY <1>2, <1>3 DEF Track

-----------------------------------------------------------------------------
(* Header lines.                                                           *)

\* The byte at the cursor.
LEMMA AtCur ==
  ASSUME IInv, pc = "parse"
  PROVE  /\ Offset(cur) \in Nat /\ Offset(cur) + 1 \in 1 .. Len(stream) /\ Len(stream) \in Nat
         /\ buf[cur] = stream[Offset(cur) + 1]
<1>1. cur \in 0 .. head - 1
  BY Received
<1>2. buf[cur] = stream[Offset(cur) + 1]
  BY <1>1, ReceivedByte
<1> QED
  BY <1>2, Received DEF Offset

\* The line that is being read: where it starts and what precedes the cursor.
LEMMA OnLineBytes ==
  ASSUME IInv, pc = "parse", NEW x, NEW e, OnLine(x, e)
  PROVE  /\ x \in Nat /\ x <= Offset(cur) /\ cur - LineStart = Offset(cur) - x
         /\ LineStart \in Nat /\ cur \in Nat
         /\ buf[LineStart] = stream[x + 1]
         /\ x < Offset(cur) => cur > LineStart /\ buf[cur - 1] = stream[Offset(cur)]
         /\ x = Offset(cur) => ~(cur > LineStart)
<1>1. /\ LineStart \in Nat /\ LineStart \in 0 .. head - 1 /\ LineStart <= cur /\ cur \in 0 .. head - 1
      /\ pos \in Nat /\ head \in Nat /\ head <= pos /\ cur \in Nat
  BY Received DEF LineStart, NULL
<1>2. x = Offset(LineStart) /\ x \in Nat
  BY <1>1 DEF OnLine, Offset
<1>3. buf[LineStart] = stream[x + 1]
  BY <1>1, <1>2, ReceivedByte
<1>4. x <= Offset(cur) /\ cur - LineStart = Offset(cur) - x
  BY <1>1, <1>2 DEF Offset
<1>5. ASSUME x < Offset(cur)
      PROVE  cur > LineStart /\ buf[cur - 1] = stream[Offset(cur)]
  <2>1. cur - 1 \in 0 .. head - 1 /\ cur > LineStart /\ Offset(cur - 1) + 1 = Offset(cur)
    BY <1>1, <1>2, <1>5 DEF Offset
  <2> QED
    BY <2>1, ReceivedByte
<1>6. x = Offset(cur) => ~(cur > LineStart)
  BY <1>1, <1>2 DEF Offset
<1> QED
  BY <1>1, <1>2, <1>3, <1>4, <1>5, <1>6

\* A line of one symbol ends where its LF is.
LEMMA TextLine ==
  ASSUME IInv, pc = "parse", NEW c, WellFormed(c), NEW x, NEW sym \in Byte \ {LF, CR},
         Lies(stream, x, <<sym>> \o c.eol), OnLine(x, x + Eol(c))
  PROVE  /\ buf[cur] = LF <=> Offset(cur) = x + Eol(c)
         /\ buf[cur] = LF => LineLen = 1 /\ buf[LineStart] = sym
<1> DEFINE at == Offset(cur)
           e  == Eol(c)
<1>1. /\ x \in Nat /\ x <= at /\ cur - LineStart = at - x /\ LineStart \in Nat /\ cur \in Nat
      /\ buf[LineStart] = stream[x + 1]
      /\ x < at => cur > LineStart /\ buf[cur - 1] = stream[at]
  BY OnLineBytes
<1>2. at \in Nat /\ buf[cur] = stream[at + 1] /\ at <= x + e
  BY AtCur DEF OnLine
<1>3. e \in {1, 2} /\ c.eol \in Seq(Byte) /\ Len(c.eol) = e
      /\ (e = 1 => c.eol[1] = LF) /\ (e = 2 => c.eol[1] = CR /\ c.eol[2] = LF)
  BY EolIs
<1>4. stream[x + 1] = sym /\ \A m \in 1 .. e : stream[x + m + 1] = c.eol[m]
  <2> DEFINE l == <<sym>> \o c.eol
  <2>1. Len(l) = 1 + e /\ l[1] = sym /\ \A m \in 1 .. e : l[1 + m] = c.eol[m]
    BY <1>3
  <2> HIDE DEF l
  <2>2. \A m \in 1 .. Len(l) : stream[x + m] = l[m]
    BY DEF Lies, l
  <2>3. \A m \in 1 .. e : 1 + m \in 1 .. Len(l) /\ x + (1 + m) = x + m + 1
    BY <1>1, <1>3, <2>1
  <2> QED
    BY <1>1, <1>3, <2>1, <2>2, <2>3
<1> HIDE DEF at, e
<1>5. CASE e = 1
  <2>1. stream[x + 1] = sym /\ stream[x + 1 + 1] = LF
    BY <1>3, <1>4, <1>5
  <2>2. at = x \/ at = x + 1
    BY <1>1, <1>2, <1>5
  <2>3. CASE at = x
    BY <1>1, <1>2, <1>5, <2>1, <2>3 DEF at, e
  <2>4. CASE at = x + 1
    <3>1. buf[cur] = LF /\ x < at /\ cur - LineStart = 1
      BY <1>1, <1>2, <2>1, <2>4
    <3>2. LineLen = 1 /\ buf[LineStart] = sym
      BY <1>1, <2>1, <2>4, <3>1 DEF LineLen
    <3> QED
      BY <1>5, <2>4, <3>1, <3>2 DEF at, e
  <2> QED
    BY <2>2, <2>3, <2>4
<1>6. CASE e = 2
  <2>1. stream[x + 1] = sym /\ stream[x + 1 + 1] = CR /\ stream[x + 2 + 1] = LF
    BY <1>3, <1>4, <1>6
  <2>2. at = x \/ at = x + 1 \/ at = x + 2
    BY <1>1, <1>2, <1>6
  <2>3. CASE at = x
    BY <1>1, <1>2, <1>6, <2>1, <2>3 DEF at, e
  <2>4. CASE at = x + 1
    BY <1>1, <1>2, <1>6, <2>1, <2>4 DEF at, e, CR, LF
  <2>5. CASE at = x + 2
    <3>1. buf[cur] = LF /\ x < at /\ cur - LineStart = 2 /\ at = x + 1 + 1
      BY <1>1, <1>2, <2>1, <2>5
    <3>2. LineLen = 1 /\ buf[LineStart] = sym
      BY <1>1, <2>1, <3>1 DEF LineLen
    <3> QED
      BY <1>6, <2>5, <3>1, <3>2 DEF at, e
  <2> QED
    BY <2>2, <2>3, <2>4, <2>5
<1> QED
  BY <1>3, <1>5, <1>6

\* So does an empty one.
LEMMA EmptyLine ==
  ASSUME IInv, pc = "parse", NEW c, WellFormed(c), NEW x,
         Lies(stream, x, c.eol), OnLine(x, x + (Eol(c) - 1))
  PROVE  /\ buf[cur] = LF <=> Offset(cur) = x + (Eol(c) - 1)
         /\ buf[cur] = LF => LineLen = 0
<1> DEFINE at == Offset(cur)
           e  == Eol(c)
<1>1. /\ x \in Nat /\ x <= at /\ cur - LineStart = at - x /\ LineStart \in Nat /\ cur \in Nat
      /\ x < at => cur > LineStart /\ buf[cur - 1] = stream[at]
      /\ x = at => ~(cur > LineStart)
  BY OnLineBytes
<1>2. at \in Nat /\ buf[cur] = stream[at + 1] /\ at <= x + (e - 1)
  BY AtCur DEF OnLine
<1>3. e \in {1, 2} /\ Len(c.eol) = e
      /\ (e = 1 => c.eol[1] = LF) /\ (e = 2 => c.eol[1] = CR /\ c.eol[2] = LF)
  BY EolIs
<1>4. \A m \in 1 .. e : stream[x + m] = c.eol[m]
  BY <1>3 DEF Lies
<1> HIDE DEF at, e
<1>5. CASE e = 1
  <2>1. at = x /\ buf[cur] = LF
    BY <1>1, <1>2, <1>3, <1>4, <1>5
  <2>2. LineLen = 0
    BY <1>1, <2>1 DEF LineLen
  <2> QED
    BY <1>1, <1>5, <2>1, <2>2 DEF at, e
<1>6. CASE e = 2
  <2>1. stream[x + 1] = CR /\ stream[x + 2] = LF /\ (at = x \/ at = x + 1)
    BY <1>1, <1>2, <1>3, <1>4, <1>6
  <2>2. CASE at = x
    BY <1>1, <1>2, <1>6, <2>1, <2>2 DEF at, e, CR, LF
  <2>3. CASE at = x + 1
    <3>1. buf[cur] = LF /\ x < at /\ cur - LineStart = 1
      BY <1>1, <1>2, <2>1, <2>3
    <3>2. LineLen = 0
      BY <1>1, <2>1, <2>3, <3>1 DEF LineLen
    <3> QED
      BY <1>1, <1>6, <2>3, <3>1, <3>2 DEF at, e
  <2> QED
    BY <2>1, <2>2, <2>3
<1> QED
  BY <1>3, <1>5, <1>6

\* What read() has cut off a line does not change where it starts.
LEMMA LineGoesOn ==
  ASSUME IInv, FetchHeaderLine, NEW x \in Nat, NEW e \in Nat, OnLine(x, e), Offset(cur) < e
  PROVE  /\ (pos - head + LineStart)' = x /\ (pos - head + cur)' = Offset(cur) + 1
         /\ OnLine(x, e)' /\ pc' # "done"
         /\ UNCHANGED <<state, boundary, content_length, frames, stream>>
<1>1. /\ pc = "parse" /\ anchor' = LineStart /\ cur' = cur + 1 /\ pc' # "done"
      /\ UNCHANGED <<pos, head, state, boundary, content_length, frames, stream>>
  BY DEF FetchHeaderLine, IncrementCur, source, output
<1>2. /\ LineStart \in Nat /\ cur \in Nat /\ pos \in Nat /\ head \in Nat
  BY Received DEF LineStart, NULL
<1>3. LineStart' = LineStart
  <2>1. anchor' # NULL
    BY <1>1, <1>2 DEF NULL
  <2>2. LineStart' = anchor'
    BY <2>1 DEF LineStart
  <2> QED
    BY <1>1, <2>2
<1>4. (pos - head + LineStart)' = x /\ (pos - head + cur)' = Offset(cur) + 1
  BY <1>1, <1>2, <1>3 DEF OnLine, Offset
<1> QED
  BY <1>1, <1>2, <1>4 DEF OnLine, Offset

\* Behind a line that is complete the next one begins.
LEMMA LineFollows ==
  ASSUME IInv, NEW s, HeaderLine(s), IncrementCur(cur), NEW x, NEW e,
         x = Offset(cur) + 1, x <= e
  PROVE  OnLine(x, e)' /\ pc' # "done" /\ (pos - head + cur)' = x
<1>1. cur' = cur + 1 /\ anchor' = NULL /\ UNCHANGED <<pos, head>> /\ pc' # "done"
  BY DEF HeaderLine, IncrementCur, source
<1>2. LineStart' = cur'
  BY <1>1 DEF LineStart
<1>3. pos \in Nat /\ head \in Nat /\ cur \in Nat
  BY Received
<1>4. (pos - head + cur)' = x /\ (pos - head + LineStart)' = x /\ x \in Int
  BY <1>1, <1>2, <1>3 DEF Offset
<1> QED
  BY <1>1, <1>4 DEF OnLine, Offset

\* Where the lines of the response's header lie.
LEMMA PreambleLayout ==
  ASSUME NEW c, WellFormed(c)
  PROVE  /\ "HTTP 200" \in Byte \ {LF, CR} /\ c.type \in Byte \ {LF, CR}
         /\ Lies(Rendered(c), 0, <<"HTTP 200">> \o c.eol)
         /\ Lies(Rendered(c), 1 + Eol(c), <<c.type>> \o c.eol)
         /\ Lies(Rendered(c), 2 + Eol(c) + Eol(c), c.eol)
<1> DEFINE b == <<"HTTP 200">>
           t == <<c.type>>
           l == c.eol
           e == Eol(c)
<1>1. /\ b \in Seq(Byte) /\ t \in Seq(Byte) /\ l \in Seq(Byte) /\ Len(b) = 1 /\ Len(t) = 1
      /\ Len(l) = e /\ e \in Nat
  BY FirstLines, EolIs
<1>2. Preamble(c) = (((b \o l) \o t) \o l) \o l
  BY DEF Preamble
<1>3. /\ Preamble(c) \in Seq(Byte) /\ Rendered(c) \in Seq(Byte) /\ Lies(Rendered(c), 0, Preamble(c))
  BY Listed, Rendering
<1>4. "HTTP 200" \in Byte \ {LF, CR} /\ c.type \in Byte \ {LF, CR}
  BY DEF WellFormed, LF, CR
<1> HIDE DEF b, t, l, e
<1> DEFINE p == b \o l
           q == t \o l
<1>5. p \in Seq(Byte) /\ Len(p) = 1 + e /\ q \in Seq(Byte) /\ Len(q) = 1 + e
  <2>1. /\ p \in Seq(Byte) /\ Len(p) = Len(b) + Len(l)
        /\ q \in Seq(Byte) /\ Len(q) = Len(t) + Len(l)
    BY <1>1, Together, Zenon
  <2> HIDE DEF p, q
  <2> QED
    BY <1>1, <2>1
<1>6. (p \o t) \o l = p \o q
  BY <1>1, <1>5, ConcatAssociative
<1> HIDE DEF p, q
<1>7. /\ p \o q \in Seq(Byte) /\ Len(p \o q) = 1 + e + (1 + e)
      /\ Lies(p \o q, 0, p) /\ Lies(p \o q, Len(p), q)
  BY <1>1, <1>5, Together, LiesSelf, LiesLonger, LiesLast, SMTT(30)
<1> DEFINE r == p \o q
<1> HIDE DEF r
<1>8. r \in Seq(Byte) /\ Len(r) = 1 + e + (1 + e) /\ Lies(r, 0, p) /\ Lies(r, 1 + e, q)
  BY <1>5, <1>7 DEF r
<1>9. /\ Lies(r \o l, 0, p) /\ Lies(r \o l, 1 + e, q) /\ Lies(r \o l, 1 + e + (1 + e), l)
      /\ r \o l = Preamble(c)
  <2>1. Lies(r \o l, 0, p) /\ Lies(r \o l, 1 + e, q) /\ Lies(r \o l, Len(r), l)
    BY <1>1, <1>5, <1>8, LiesLonger, LiesLast
  <2>2. r \o l = Preamble(c)
    BY <1>2, <1>6, Zenon DEF r, p
  <2> QED
    BY <1>8, <2>1, <2>2
<1>10. /\ Lies(Rendered(c), 0 + 0, p) /\ Lies(Rendered(c), 0 + (1 + e), q)
       /\ Lies(Rendered(c), 0 + (1 + e + (1 + e)), l)
  BY <1>1, <1>3, <1>5, <1>9, LiesWithin
<1>11. 0 + 0 = 0 /\ 0 + (1 + e) = 1 + e /\ 0 + (1 + e + (1 + e)) = 2 + e + e
  BY <1>1
<1> QED
  BY <1>4, <1>10, <1>11, Zenon DEF b, t, l, e, p, q

\* What the header lines of a part say.
LEMMA HeaderSymbols ==
  ASSUME NEW c, WellFormed(c), NEW i \in 1 .. Count(c), NEW j \in 1 .. Len(c.parts[i].header)
  PROVE  /\ c.parts[i].header[j] \in Byte \ {LF, CR}
         /\ c.parts[i].header[j] \in DOMAIN LengthLine => ~LengthLine[c.parts[i].header[j]].blank
         /\ GivesLength(c.parts[i].header[j]) =>
              LengthLine[c.parts[i].header[j]].value = Len(c.parts[i].image)
<1>1. c.parts[i].header \in Seq(Byte) /\ i \in DOMAIN c.parts
  BY PartFields, ScriptParts
<1>2. WellFormedPart(c.parts[i])
  BY <1>1 DEF WellFormed
<1>3. j \in DOMAIN c.parts[i].header /\ c.parts[i].header[j] \in Byte
  BY <1>1
<1> QED
  BY <1>2, <1>3 DEF WellFormedPart

-----------------------------------------------------------------------------
(* Steps on header lines keep track.                                       *)

\* A byte of a line that goes on, in any of the headers.
LEMMA FetchHeaderLineTrack ==
  ASSUME IInv, NEW c, WellFormed(c), Rendered(c) = stream, Track(c), FetchHeaderLine
  PROVE  Track(c)'
<1> DEFINE at == Offset(cur)
           e  == Eol(c)
<1>1. /\ pc = "parse" /\ state \in HeaderStates /\ buf[cur] # LF /\ pc # "done" /\ e \in Nat /\ e >= 1
      /\ at \in Nat
  BY EolIs, AtCur DEF FetchHeaderLine
<1>2. /\ "HTTP 200" \in Byte \ {LF, CR} /\ c.type \in Byte \ {LF, CR}
      /\ Lies(stream, 0, <<"HTTP 200">> \o c.eol)
      /\ Lies(stream, 1 + e, <<c.type>> \o c.eol)
      /\ Lies(stream, 2 + e + e, c.eol)
  BY PreambleLayout
<1>3. ASSUME NEW x \in Nat, NEW E \in Nat, OnLine(x, E), at # E
      PROVE  OnLine(x, E)' /\ pc' # "done" /\ UNCHANGED <<state, boundary, content_length, frames>>
  <2>1. at < E
    BY <1>1, <1>3 DEF OnLine
  <2> QED
    BY <1>3, <2>1, LineGoesOn
<1>4. CASE InHeader(c)
  <2>1. CASE InBanner(c)
    <3>1. OnLine(0, e) /\ 0 + e = e
      BY <1>1, <2>1 DEF InBanner
    <3>2. at # e
      BY <1>1, <1>2, <3>1, TextLine
    <3>3. OnLine(0, e)' /\ pc' # "done" /\ UNCHANGED <<state, boundary, content_length, frames>>
      BY <1>1, <1>3, <3>1, <3>2
    <3> QED
      BY <1>4, <2>1, <3>3 DEF InHeader, InBanner, Track
  <2>2. CASE InType(c)
    <3>1. OnLine(1 + e, 1 + e + e) /\ 1 + e \in Nat /\ 1 + e + e \in Nat
      BY <1>1, <2>2 DEF InType
    <3>2. at # 1 + e + e
      BY <1>1, <1>2, <3>1, TextLine
    <3>3. OnLine(1 + e, 1 + e + e)' /\ pc' # "done" /\ UNCHANGED <<state, boundary, content_length, frames>>
      BY <1>3, <3>1, <3>2
    <3> QED
      BY <1>4, <2>2, <3>3 DEF InHeader, InType, Track
  <2>3. CASE InHeaderEnd(c)
    <3>0. 2 + e + e \in Nat /\ 1 + e + e + e \in Nat /\ 1 + e + e + e = 2 + e + e + (e - 1)
      BY <1>1
    <3>1. OnLine(2 + e + e, 1 + e + e + e)
      BY <2>3 DEF InHeaderEnd
    <3>2. at # 1 + e + e + e
      BY <1>1, <1>2, <3>0, <3>1, EmptyLine
    <3>3. OnLine(2 + e + e, 1 + e + e + e)' /\ pc' # "done" /\ UNCHANGED <<state, boundary, content_length, frames>>
      BY <1>3, <3>0, <3>1, <3>2
    <3> QED
      BY <1>4, <2>3, <3>3 DEF InHeader, InHeaderEnd, Track
  <2> QED
    BY <1>4, <2>1, <2>2, <2>3 DEF InHeader
<1>5. ASSUME NEW k \in 0 .. Count(c), InPart(c, k)
      PROVE  Track(c)'
  <2>1. k < Count(c) /\ InSubheader(c, k + 1)
    BY <1>1, <1>5 DEF InPart, Searching, BeforeImage, InImage, HeaderStates
  <2> DEFINE i == k + 1
             t == Len(c.parts[i].header)
  <2>2. i \in 1 .. Count(c)
    BY <2>1, ScriptParts
  <2>3. PICK j \in 1 .. t + 1 :
          /\ OnLine(LineAt(c, i, j), LineAt(c, i, j) + e - IF j <= t THEN 0 ELSE 1)
          /\ content_length = Announced(c, i, j - 1)
    BY <2>1 DEF InSubheader
  <2> DEFINE x == LineAt(c, i, j)
             E == x + e - IF j <= t THEN 0 ELSE 1
  <2>4. x \in Nat /\ t \in Nat
    BY <2>2, LinesOrdered, PartFields
  <2>5. at # E /\ E \in Nat
    <3>1. CASE j <= t
      <4>1. j \in 1 .. t
        BY <2>4, <3>1
      <4>2. Lies(stream, x, <<c.parts[i].header[j]>> \o c.eol)
            /\ c.parts[i].header[j] \in Byte \ {LF, CR}
        BY <2>2, <4>1, LineLayout, HeaderSymbols
      <4> HIDE DEF x
      <4>3. E = x + e /\ OnLine(x, x + e) /\ E \in Nat
        BY <1>1, <2>3, <2>4, <3>1 DEF x
      <4> QED
        BY <1>1, <4>2, <4>3, TextLine
    <3>2. CASE ~(j <= t)
      <4>1. j = t + 1
        BY <2>4, <3>2
      <4>2. Lies(stream, x, c.eol)
        BY <2>2, <4>1, PartLayout
      <4> HIDE DEF x
      <4>3. E = x + (e - 1) /\ OnLine(x, x + (e - 1)) /\ E \in Nat
        BY <1>1, <2>3, <2>4, <3>2 DEF x
      <4> QED
        BY <1>1, <4>2, <4>3, EmptyLine
    <3> QED
      BY <3>1, <3>2
  <2>6. OnLine(x, E)' /\ pc' # "done" /\ UNCHANGED <<state, boundary, content_length, frames>>
    BY <1>3, <2>3, <2>4, <2>5
  <2>7. InSubheader(c, i)'
    BY <2>1, <2>3, <2>6 DEF InSubheader
  <2> QED
    BY <1>5, <2>1, <2>6, <2>7 DEF InPart, Track
<1> QED
  BY <1>1, <1>4, <1>5 DEF Track

\* The status line ends.
LEMMA StateHttpBannerTrack ==
  ASSUME IInv, NEW c, WellFormed(c), Rendered(c) = stream, Track(c), StateHttpBanner
  PROVE  Track(c)'
<1> DEFINE at == Offset(cur)
           e  == Eol(c)
<1>0. HeaderLine("HTTP_BANNER") /\ UNCHANGED <<boundary, content_length>>
  BY DEF StateHttpBanner
<1>1. /\ HeaderLine("HTTP_BANNER") /\ pc = "parse" /\ state = "HTTP_BANNER" /\ buf[cur] = LF
      /\ UNCHANGED <<boundary, content_length, frames>> /\ e \in Nat /\ e >= 1 /\ at \in Nat
  BY <1>0, EolIs, AtCur DEF HeaderLine, In, output
<1>2. InHeader(c) /\ InBanner(c)
  BY <1>1 DEF Track, InHeader, InType, InHeaderEnd, InPart, Searching, InSubheader, BeforeImage, InImage
<1>3. (at = e /\ LineLen = 1) /\ buf[LineStart] = "HTTP 200"
  <2>1. OnLine(0, 0 + e) /\ 0 + e = e
    BY <1>1, <1>2 DEF InBanner
  <2>2. "HTTP 200" \in Byte \ {LF, CR} /\ Lies(stream, 0, <<"HTTP 200">> \o c.eol)
    BY PreambleLayout
  <2> QED
    BY <1>1, <2>1, <2>2, TextLine
<1>4. state' = "HTTP_HEADER" /\ IncrementCur(cur)
  <2>0. LineLen = 1 => LineLen > 0
    OBVIOUS
  <2>1. LineIs({"HTTP 200"}) /\ LineIs({"HTTP 200", "HTTP 404"})
    BY <1>3, <2>0, Zenon DEF LineIs
  <2>2. ~LineIs({"HTTP 404"})
    BY <1>3 DEF LineIs
  <2> QED
    BY <2>1, <2>2, Zenon DEF StateHttpBanner
<1>5. 1 + e = at + 1 /\ 1 + e <= 1 + e + e
  <2>1. at = e
    BY <1>3, Zenon
  <2> QED
    BY <1>1, <2>1
<1>6. OnLine(1 + e, 1 + e + e)' /\ pc' # "done"
  BY <1>1, <1>4, <1>5, LineFollows
<1> QED
  BY <1>1, <1>2, <1>4, <1>6 DEF Track, InHeader, InBanner, InType

\* The search behind a part ends at the next boundary, or at the end of the stream.
LEMMA SearchEnds ==
  ASSUME NEW c, WellFormed(c), NEW k \in 0 .. Count(c)
  PROVE  /\ Behind(c, k) \in Nat /\ SearchTo(c, k) \in Nat /\ Behind(c, k) <= SearchTo(c, k)
         /\ Doubled(c) /\ k < Count(c) => Behind(c, k) + 2 <= SearchTo(c, k)
<1>1. Count(c) \in Nat /\ Behind(c, k) \in Nat /\ Behind(c, Count(c)) = Len(Rendered(c))
  BY ScriptParts, Rendering
<1>2. CASE k = Count(c)
  BY <1>1, <1>2 DEF SearchTo
<1>3. CASE k # Count(c)
  <2>1. Placed(c, k + 1, Behind(c, k))
    BY <1>1, <1>3, NextPositions
  <2> QED
    BY <1>1, <1>3, <2>1, BeforeMark DEF Placed, SearchTo
<1> QED
  BY <1>2, <1>3

\* From the end of the response's header the search for the first boundary goes on.
LEMMA FirstSearch ==
  ASSUME IInv, NEW c, WellFormed(c), pc' # "done", state' = "FIND_BOUNDARY", anchor' = NULL,
         boundary' = Bound(c), frames' = <<>>, content_length' = 0,
         (pos - head + cur)' = 2 + Eol(c) + Eol(c) + Eol(c)
  PROVE  Track(c)'
<1>1. 0 \in 0 .. Count(c) /\ Count(c) \in Nat
  BY ScriptParts
<1>2. /\ Behind(c, 0) = 2 + Eol(c) + Eol(c) + Eol(c) /\ Behind(c, 0) \in Nat
      /\ Behind(c, Count(c)) = Len(Rendered(c))
  BY <1>1, Rendering
<1>3. SearchFrom(c, 0) = Behind(c, 0)
  BY DEF SearchFrom
<1>4. /\ Behind(c, 0) <= SearchTo(c, 0)
      /\ Doubled(c) /\ 0 < Count(c) => Behind(c, 0) # SearchTo(c, 0) - 1
  BY <1>1, SearchEnds
<1>5. Searching(c, 0)'
  BY <1>2, <1>3, <1>4 DEF Searching, Offset
<1>6. frames' = Delivered(c, 0)
  BY <1>1, DeliveredGrows
<1> QED
  BY <1>1, <1>5, <1>6 DEF Track, InPart

\* A line of the header ends: the type, or the empty line after which the search
\* for the first boundary begins.
LEMMA StateHttpHeaderTrack ==
  ASSUME IInv, ~MallocFails, NEW c, WellFormed(c), Rendered(c) = stream, Track(c), StateHttpHeader
  PROVE  Track(c)'
<1> DEFINE at == Offset(cur)
           e  == Eol(c)
<1>1. /\ HeaderLine("HTTP_HEADER") /\ pc = "parse" /\ state = "HTTP_HEADER" /\ buf[cur] = LF
      /\ UNCHANGED <<content_length, frames>> /\ e \in Nat /\ e >= 1 /\ at \in Nat
      /\ anchor' = NULL
  BY EolIs, AtCur DEF StateHttpHeader, HeaderLine, In, output
<1>2. InHeader(c) /\ (InType(c) \/ InHeaderEnd(c))
  BY <1>1 DEF Track, InHeader, InBanner, InPart, Searching, InSubheader, BeforeImage, InImage
<1>3. CASE InType(c)
  <2>1. at = 1 + e + e /\ LineLen = 1 /\ buf[LineStart] = c.type
    <3>1. OnLine(1 + e, 1 + e + e)
      BY <1>3 DEF InType
    <3>2. c.type \in Byte \ {LF, CR} /\ Lies(stream, 1 + e, <<c.type>> \o c.eol)
      BY PreambleLayout
    <3> QED
      BY <1>1, <3>1, <3>2, TextLine
  <2>2. /\ c.type \in DOMAIN TypeLine /\ ~TypeLine[c.type].blank /\ HasBoundary(TypeLine[c.type])
    BY DEF WellFormed
  <2>3. LineLen > 0 /\ LineIs(DOMAIN TypeLine) /\ LineLen # 0
    BY <2>1, <2>2 DEF LineIs
  <2>4. state' = "HTTP_HEADER" /\ IncrementCur(cur) /\ boundary' = Bound(c)
    BY <1>1, <2>1, <2>2, <2>3 DEF StateHttpHeader, Bound
  <2>5. 2 + e + e = at + 1 /\ 2 + e + e <= 1 + e + e + e
    BY <1>1, <2>1
  <2>6. OnLine(2 + e + e, 1 + e + e + e)' /\ pc' # "done"
    BY <1>1, <2>4, <2>5, LineFollows
  <2> QED
    BY <1>1, <1>2, <2>4, <2>6 DEF Track, InHeader, InHeaderEnd
<1>4. CASE InHeaderEnd(c)
  <2>1. at = 1 + e + e + e /\ LineLen = 0
    <3>1. 1 + e + e + e = 2 + e + e + (e - 1)
      BY <1>1
    <3>2. OnLine(2 + e + e, 2 + e + e + (e - 1))
      BY <1>4, <3>1 DEF InHeaderEnd
    <3>3. Lies(stream, 2 + e + e, c.eol)
      BY PreambleLayout
    <3> QED
      BY <1>1, <3>1, <3>2, <3>3, EmptyLine
  <2>2. boundary = Bound(c) /\ boundary # <<>>
    <3>1. boundary = Bound(c) /\ Len(Bound(c)) >= 1
      BY <1>4, ScriptParts DEF InHeaderEnd
    <3> QED
      BY <3>1
  <2>3. state' = "FIND_BOUNDARY" /\ IncrementCur(cur) /\ UNCHANGED boundary
    BY <2>1, <2>2 DEF StateHttpHeader, LineIs
  <2>4. 2 + e + e + e = at + 1 /\ 2 + e + e + e <= 2 + e + e + e
    BY <1>1, <2>1
  <2>5. (pos - head + cur)' = 2 + e + e + e /\ pc' # "done"
    BY <1>1, <2>3, <2>4, LineFollows
  <2> QED
    BY <1>1, <1>2, <2>2, <2>3, <2>5, FirstSearch DEF InHeader
<1> QED
  BY <1>2, <1>3, <1>4

\* A header line more.
LEMMA AnnouncedGrows ==
  ASSUME NEW c, WellFormed(c), NEW i \in 1 .. Count(c), NEW j \in 1 .. Len(c.parts[i].header)
  PROVE  Announced(c, i, j) = IF GivesLength(c.parts[i].header[j])
                              THEN Len(c.parts[i].image) ELSE Announced(c, i, j - 1)
<1>1. \A m : m \in 1 .. j <=> m \in 1 .. j - 1 \/ m = j
  BY PartFields
<1> QED
  BY <1>1 DEF Announced

\* A line of a part's header ends: a field, with or without a length, or the empty
\* line after which the search for the image begins.
LEMMA StateHttpSubheaderTrack ==
  ASSUME IInv, NEW c, WellFormed(c), Rendered(c) = stream, Track(c), StateHttpSubheader
  PROVE  Track(c)'
<1> DEFINE at == Offset(cur)
           e  == Eol(c)
<1>1. /\ HeaderLine("HTTP_SUBHEADER") /\ pc = "parse" /\ state = "HTTP_SUBHEADER" /\ buf[cur] = LF
      /\ UNCHANGED <<boundary, frames>> /\ e \in Nat /\ e >= 1 /\ at \in Nat /\ anchor' = NULL
  BY EolIs, AtCur DEF StateHttpSubheader, HeaderLine, In, output
<1>2. PICK k \in 0 .. Count(c) : InPart(c, k)
  BY <1>1 DEF Track, InHeader, InBanner, InType, InHeaderEnd
<1>3. k < Count(c) /\ InSubheader(c, k + 1)
  BY <1>1, <1>2 DEF InPart, Searching, BeforeImage, InImage
<1> DEFINE i == k + 1
           t == Len(c.parts[i].header)
<1>4. i \in 1 .. Count(c) /\ t \in Nat
  <2>1. i \in 1 .. Count(c)
    BY <1>3, ScriptParts
  <2> QED
    BY <2>1, PartFields
<1>5. PICK j \in 1 .. t + 1 :
        /\ OnLine(LineAt(c, i, j), LineAt(c, i, j) + e - IF j <= t THEN 0 ELSE 1)
        /\ content_length = Announced(c, i, j - 1)
  BY <1>3 DEF InSubheader
<1> DEFINE x == LineAt(c, i, j)
<1>6. x \in Nat
  BY <1>4, LinesOrdered
<1>7. CASE j <= t
  <2> DEFINE sym == c.parts[i].header[j]
             y   == LineAt(c, i, j + 1)
  <2>0. j \in 1 .. t /\ j + 1 \in 1 .. t + 1 /\ (j + 1) - 1 = j
    BY <1>4, <1>7
  <2>1. /\ Lies(stream, x, <<sym>> \o c.eol) /\ y = x + 1 + e /\ y \in Nat
        /\ sym \in Byte \ {LF, CR}
        /\ sym \in DOMAIN LengthLine => ~LengthLine[sym].blank
        /\ GivesLength(sym) => LengthLine[sym].value = Len(c.parts[i].image)
    BY <1>4, <2>0, LineLayout, HeaderSymbols, LinesOrdered
  <2>2. Announced(c, i, j) = IF GivesLength(sym) THEN Len(c.parts[i].image) ELSE Announced(c, i, j - 1)
    BY <1>4, <2>0, AnnouncedGrows
  <2>3. at = x + e /\ LineLen = 1 /\ buf[LineStart] = sym
    <3>1. OnLine(x, x + (e - 0)) /\ x + (e - 0) = x + e
      BY <1>1, <1>5, <1>6, <1>7
    <3> QED
      BY <1>1, <2>1, <3>1, TextLine
  <2>4. /\ state' = "HTTP_SUBHEADER" /\ IncrementCur(cur) /\ content_length' = Announced(c, i, j)
    <3>1. CASE sym \in DOMAIN LengthLine
      <4>1. LineLen > 0 /\ LineLen # 0 /\ LineIs(DOMAIN LengthLine)
        BY <2>3, <3>1 DEF LineIs
      <4>2. /\ state' = "HTTP_SUBHEADER" /\ IncrementCur(cur)
            /\ content_length' = IF LengthLine[sym].digits > 1 THEN LengthLine[sym].value ELSE content_length
        BY <1>1, <2>1, <2>3, <3>1, <4>1 DEF StateHttpSubheader
      <4> QED
        BY <1>5, <2>1, <2>2, <3>1, <4>2 DEF GivesLength
    <3>2. CASE sym \notin DOMAIN LengthLine
      BY <1>1, <1>5, <2>1, <2>2, <2>3, <3>2 DEF StateHttpSubheader, LineIs, GivesLength
    <3> QED
      BY <3>1, <3>2
  <2> DEFINE E == y + e - IF j + 1 <= t THEN 0 ELSE 1
  <2>5. y = at + 1 /\ y <= E
    <3> HIDE DEF x, y, at, e
    <3>1. y = at + 1 /\ e \in Nat /\ e >= 1 /\ y \in Nat
      BY <1>1, <1>6, <2>1, <2>3 DEF at
    <3>2. \A d \in {0, 1} : y <= y + (e - d)
      BY <3>1
    <3> QED
      BY <3>1, <3>2
  <2>6. OnLine(y, E)' /\ pc' # "done"
    BY <1>1, <2>4, <2>5, LineFollows
  <2>7. InSubheader(c, i)'
    BY <2>0, <2>4, <2>6 DEF InSubheader
  <2> QED
    BY <1>1, <1>2, <1>3, <2>6, <2>7 DEF InPart, Track
<1>8. CASE ~(j <= t)
  <2>1. j = t + 1 /\ j - 1 = t
    BY <1>4, <1>8
  <2>2. Lies(stream, x, c.eol) /\ BodyAt(c, i) = x + e /\ BodyAt(c, i) \in Nat
    BY <1>4, <2>1, PartLayout
  <2>3. at = x + (e - 1) /\ LineLen = 0
    <3>1. OnLine(x, x + (e - 1))
      BY <1>5, <1>8
    <3> QED
      BY <1>1, <2>2, <3>1, EmptyLine
  <2>4. state' = "FIND_IMAGE" /\ IncrementCur(cur) /\ UNCHANGED content_length
    BY <2>3 DEF StateHttpSubheader, LineIs
  <2>5. BodyAt(c, i) = at + 1 /\ BodyAt(c, i) <= BodyAt(c, i)
    <3> HIDE DEF x, at, e
    <3> QED
      BY <1>1, <1>6, <2>2, <2>3
  <2>6. (pos - head + cur)' = BodyAt(c, i) /\ pc' # "done"
    BY <1>1, <2>4, <2>5, LineFollows
  <2>7. /\ BodyAt(c, i) <= ImageAt(c, i) + 1 /\ BodyAt(c, i) # ImageAt(c, i) + 1
    <3>1. Placed(c, i, Behind(c, i - 1))
      BY <1>4, Positions
    <3> DEFINE y == BodyAt(c, i)
               g == ImageAt(c, i)
    <3>2. y \in Nat /\ g \in Nat /\ y <= g
      BY <3>1, Zenon DEF Placed
    <3> HIDE DEF y, g
    <3>3. y <= g + 1 /\ y # g + 1
      BY <3>2
    <3> QED
      BY <3>3 DEF y, g
  <2>8. BeforeImage(c, i)'
    BY <1>1, <1>5, <2>1, <2>4, <2>5, <2>6, <2>7 DEF BeforeImage, Offset
  <2> QED
    BY <1>1, <1>2, <1>3, <2>6, <2>8 DEF InPart, Track
<1> QED
  BY <1>7, <1>8

-----------------------------------------------------------------------------
(* Steps through the bytes of an image keep track.                         *)

\* A byte of a piece of the stream.
LEMMA LiesAt ==
  ASSUME NEW s, NEW x, NEW o, Lies(s, o, x), Len(x) \in Nat
  PROVE  \A p \in Int : o <= p /\ p < o + Len(x) =>
           p - o + 1 \in 1 .. Len(x) /\ s[p + 1] = x[p - o + 1]
<1> SUFFICES ASSUME NEW p \in Int, o <= p, p < o + Len(x)
             PROVE  p - o + 1 \in 1 .. Len(x) /\ s[p + 1] = x[p - o + 1]
  OBVIOUS
<1>1. o \in Nat
  BY DEF Lies
<1>2. p - o + 1 \in 1 .. Len(x) /\ o + (p - o + 1) = p + 1
  BY <1>1
<1> QED
  BY <1>2 DEF Lies

\* What the form of a part says of its bytes.
LEMMA PartForm ==
  ASSUME NEW c, WellFormed(c), NEW i \in 1 .. Count(c)
  PROVE  LET p == c.parts[i]
             n == Len(p.image)
         IN  /\ \A m \in 1 .. Len(p.junk) - 1 : ~(p.junk[m] = FF /\ p.junk[m + 1] = D8)
             /\ p.image[1] = FF /\ p.image[2] = D8 /\ p.image[n - 1] = FF /\ p.image[n] = D9
             /\ ~Announces(p) => \A m \in 3 .. n - 2 : ~(p.image[m] = FF /\ p.image[m + 1] = D9)
             /\ Announces(p) /\ ~Fits(c, i) => WellSkipped(c, i)
             /\ Announced(c, i, Len(p.header)) = IF Announces(p) THEN n ELSE 0
<1>1. i \in DOMAIN c.parts /\ c.parts[i].header \in Seq(Byte)
  BY ScriptParts, PartFields
<1>2. WellFormedPart(c.parts[i]) /\ Len(c.parts[i].image) \in Nat /\ BufSize \in Nat
  BY <1>1, PartFields, GrabberAssumption DEF WellFormed, GrabberAssumption
<1>3. Announces(c.parts[i]) /\ ~Fits(c, i) => WellSkipped(c, i)
  <2>1. Announces(c.parts[i]) /\ Len(c.parts[i].image) > BufSize => WellSkipped(c, i)
    BY <1>1, Zenon DEF WellFormed
  <2>2. ~Fits(c, i) => Len(c.parts[i].image) > BufSize
    BY <1>2 DEF Fits
  <2> QED
    BY <2>1, <2>2
<1>4. Announced(c, i, Len(c.parts[i].header)) = IF Announces(c.parts[i]) THEN Len(c.parts[i].image) ELSE 0
  BY <1>1 DEF Announced, Announces
<1> QED
  BY <1>2, <1>3, <1>4, Zenon DEF WellFormedPart

\* An image complete in the buffer is delivered as it was sent.
LEMMA FrameIs ==
  ASSUME IInv, ~MallocFails, NEW image \in Seq(Byte), Lies(stream, Offset(anchor), image),
         NEW len, len = Len(image), anchor # NULL, anchor + len <= head, GotNewFrame(len)
  PROVE  frames' = Append(frames, image)
<1>1. /\ anchor \in Nat /\ head \in Nat /\ pos \in Nat /\ head <= pos /\ len \in Nat
  BY Received
<1>2. ASSUME NEW i \in 1 .. len
      PROVE  buf[anchor + i - 1] = image[i]
  <2>1. anchor + i - 1 \in 0 .. head - 1 /\ Offset(anchor + i - 1) + 1 = Offset(anchor) + i
    BY <1>1 DEF Offset
  <2>2. buf[anchor + i - 1] = stream[Offset(anchor) + i]
    BY <2>1, ReceivedByte
  <2> QED
    BY <2>2 DEF Lies
<1>3. image = [i \in 1 .. len |-> image[i]]
  BY <1>1
<1>4. [i \in 1 .. len |-> buf[anchor + i - 1]] = image
  BY <1>2, <1>3
<1> QED
  BY <1>4, Zenon DEF GotNewFrame

\* One more part is behind the grabber.
LEMMA OneMore ==
  ASSUME NEW c, WellFormed(c), NEW k \in 0 .. Count(c), k < Count(c)
  PROVE  /\ Fits(c, k + 1) => Delivered(c, k + 1) = Append(Delivered(c, k), c.parts[k + 1].image)
         /\ ~Fits(c, k + 1) => Delivered(c, k + 1) = Delivered(c, k)
<1>1. /\ Delivered(c, k) \in Seq(Seq(Byte)) /\ k + 1 \in 1 .. Count(c)
      /\ Delivered(c, k + 1) = Delivered(c, k) \o Fitting(c)[k + 1]
  BY DeliveredGrows, ScriptParts
<1>2. Fitting(c)[k + 1] = IF Fits(c, k + 1) THEN <<c.parts[k + 1].image>> ELSE <<>>
  BY <1>1 DEF Fitting
<1>3. c.parts[k + 1].image \in Seq(Byte)
  BY <1>1, PartFields
<1> DEFINE d == Delivered(c, k)
           g == c.parts[k + 1].image
<1>4. d \o <<>> = d /\ d \o <<g>> = Append(d, g)
  <2> HIDE DEF d, g
  <2>1. d \in Seq(Seq(Byte)) /\ g \in Seq(Byte)
    BY <1>1, <1>3 DEF d, g
  <2> QED
    BY <2>1
<1> QED
  BY <1>1, <1>2, <1>4, Zenon

\* Behind the last byte of an image the search for the next boundary begins.
LEMMA ImageDone ==
  ASSUME IInv, NEW c, WellFormed(c), NEW k \in 0 .. Count(c), k < Count(c),
         boundary = Bound(c), frames = Delivered(c, k), Fits(c, k + 1),
         frames' = Append(frames, c.parts[k + 1].image), boundary' = boundary,
         pc' # "done", state' = "FIND_BOUNDARY", anchor' = NULL, content_length' = 0,
         (pos - head + cur)' = ImageEnd(c, k + 1)
  PROVE  Track(c)'
<1> DEFINE i == k + 1
<1>1. i \in 0 .. Count(c) /\ i \in 1 .. Count(c)
  BY ScriptParts
<1>2. frames' = Delivered(c, i)
  BY OneMore
<1>3. SearchFrom(c, i) = ImageEnd(c, i)
  BY <1>1 DEF SearchFrom, Skipped
<1>4. /\ ImageEnd(c, i) <= SearchTo(c, i) /\ ImageEnd(c, i) <= ImageEnd(c, i)
      /\ Doubled(c) /\ i < Count(c) => ImageEnd(c, i) # SearchTo(c, i) - 1
  <2> DEFINE d == ImageEnd(c, i)
             b == Behind(c, i)
             t == SearchTo(c, i)
             e == Eol(c)
  <2>1. b \in Nat /\ t \in Nat /\ b <= t /\ d \in Nat /\ e \in Nat /\ b = d + e
        /\ (Doubled(c) /\ i < Count(c) => b + 2 <= t)
    <3>1. Placed(c, i, Behind(c, i - 1))
      BY <1>1, Positions
    <3> QED
      BY <1>1, <3>1, SearchEnds, Zenon DEF Placed
  <2> HIDE DEF d, b, t, e
  <2>2. d <= t /\ d <= d /\ (Doubled(c) /\ i < Count(c) => d # t - 1)
    BY <2>1
  <2> QED
    BY <2>2 DEF d, t
<1>5. Searching(c, i)'
  BY <1>3, <1>4 DEF Searching, Offset
<1> QED
  BY <1>1, <1>2, <1>5 DEF Track, InPart

\* The start of the image is sought, and found where it is; an image too long
\* is given up.
LEMMA StateFindImageTrack ==
  ASSUME IInv, NEW c, WellFormed(c), Rendered(c) = stream, Track(c), StateFindImage
  PROVE  Track(c)'
<1> DEFINE at == Offset(cur)
<1>1. /\ pc = "parse" /\ state = "FIND_IMAGE" /\ cur' = cur + 1 /\ pc' # "done"
      /\ UNCHANGED <<stream, pos, head, boundary, content_length, frames>>
  BY DEF StateFindImage, In, source, output, IncrementCur
<1>2. PICK k \in 0 .. Count(c) : InPart(c, k)
  BY <1>1 DEF Track, InHeader, InBanner, InType, InHeaderEnd
<1>3. k < Count(c) /\ BeforeImage(c, k + 1) /\ boundary = Bound(c) /\ frames = Delivered(c, k)
  BY <1>1, <1>2 DEF InPart, Searching, InSubheader, InImage
<1> DEFINE i     == k + 1
           image == c.parts[i].image
           junk  == c.parts[i].junk
           y     == BodyAt(c, i)
           g     == ImageAt(c, i)
           d     == ImageEnd(c, i)
           n     == Len(Bound(c))
<1>4. i \in 1 .. Count(c) /\ i \in 0 .. Count(c)
  BY <1>3, ScriptParts
<1>5. /\ y \in Nat /\ g \in Nat /\ d \in Nat /\ y <= g /\ g + 4 <= d /\ n \in Nat /\ n >= 1
  <2>1. Placed(c, i, Behind(c, i - 1))
    BY <1>4, Positions
  <2> QED
    BY <2>1, Zenon DEF Placed
<1>6. /\ junk \in Seq(Byte) /\ image \in Seq(Byte) /\ Len(junk) \in Nat /\ Len(image) \in Nat /\ Len(image) >= 4
      /\ Lies(stream, y, junk) /\ Lies(stream, g, image) /\ g = y + Len(junk) /\ d = g + Len(image)
  BY <1>4, PartFields, PartLayout
<1>7. /\ \A m \in 1 .. Len(junk) - 1 : ~(junk[m] = FF /\ junk[m + 1] = D8)
      /\ image[1] = FF /\ image[2] = D8
      /\ Announced(c, i, Len(c.parts[i].header)) = IF Announces(c.parts[i]) THEN Len(image) ELSE 0
      /\ Announces(c.parts[i]) /\ ~Fits(c, i) => WellSkipped(c, i)
  BY <1>4, PartForm
<1>8. /\ content_length = IF Announces(c.parts[i]) THEN Len(image) ELSE 0
      /\ y <= at /\ at <= g + 1
      /\ anchor # NULL => Offset(anchor) = at - 1 /\ y <= Offset(anchor)
      /\ at = g + 1 => anchor # NULL
  BY <1>3, <1>7 DEF BeforeImage
<1>9. /\ at \in Nat /\ buf[cur] = stream[at + 1]
      /\ anchor # NULL => Offset(anchor) \in Nat /\ buf[anchor] = stream[Offset(anchor) + 1] /\ buf[anchor] = FF
                          /\ cur - anchor = 1
  <2>1. at \in Nat /\ buf[cur] = stream[at + 1]
    BY <1>1, AtCur
  <2>2. ASSUME anchor # NULL
        PROVE  /\ Offset(anchor) \in Nat /\ buf[anchor] = stream[Offset(anchor) + 1] /\ cur - anchor = 1
    BY <1>1, <1>8, <2>2, AnchoredBytes
  <2>3. anchor # NULL => buf[anchor] = FF
    BY <1>1 DEF IInv, ImageAtAnchor
  <2> QED
    BY <2>1, <2>2, <2>3
<1>10. /\ (pos - head + cur)' = at + 1
       /\ anchor' = anchor => (pos - head + anchor)' = Offset(anchor)
       /\ anchor' = cur => (pos - head + anchor)' = at /\ anchor' # NULL
  BY <1>1, Received DEF Offset, NULL
<1>11. stream[g + 1] = FF /\ stream[g + 2] = D8
  <2>1. 1 \in 1 .. Len(image) /\ 2 \in 1 .. Len(image)
    BY <1>6
  <2> QED
    BY <1>6, <1>7, <2>1 DEF Lies
<1> HIDE DEF at, image, junk, y, g, d, n
<1>12. CASE anchor # NULL /\ cur - anchor = 1 /\ buf[cur] = D8
  <2>1. at = g + 1 /\ Offset(anchor) = g
    <3>1. Offset(anchor) = at - 1 /\ y <= at - 1 /\ stream[at] = FF /\ stream[at + 1] = D8
      BY <1>8, <1>9, <1>12
    <3>2. at # g
      BY <1>11, <3>1 DEF FF, D8
    <3>3. ~(at < g)
      <4> SUFFICES ASSUME at < g PROVE FALSE
        OBVIOUS
      <4>1. /\ at - 1 - y + 1 \in 1 .. Len(junk) /\ stream[at - 1 + 1] = junk[at - 1 - y + 1]
            /\ at - y + 1 \in 1 .. Len(junk) /\ stream[at + 1] = junk[at - y + 1]
        <5>1. /\ at - 1 \in Int /\ y <= at - 1 /\ at - 1 < y + Len(junk)
              /\ at \in Int /\ y <= at /\ at < y + Len(junk)
          BY <1>5, <1>6, <1>9, <3>1
        <5>2. \A p \in Int : y <= p /\ p < y + Len(junk) =>
                p - y + 1 \in 1 .. Len(junk) /\ stream[p + 1] = junk[p - y + 1]
          BY <1>6, LiesAt
        <5> QED
          BY <5>1, <5>2, Zenon
      <4> DEFINE m == at - y
      <4>2. m \in 1 .. Len(junk) - 1 /\ stream[at] = junk[m] /\ stream[at + 1] = junk[m + 1]
        BY <1>5, <1>6, <1>9, <4>1
      <4> QED
        BY <1>7, <3>1, <4>2
    <3> QED
      BY <1>5, <1>8, <1>9, <3>1, <3>2, <3>3
  <2>2. state' = ImageState /\ UNCHANGED anchor
    BY <1>12 DEF StateFindImage
  <2>3. /\ (pos - head + cur)' = g + 2 /\ (pos - head + anchor)' = g /\ anchor' # NULL
    BY <1>5, <1>9, <1>10, <1>12, <2>1, <2>2
  <2>4. BufSize \in Nat
    BY GrabberAssumption DEF GrabberAssumption
  <2>5. CASE Announces(c.parts[i]) /\ ~Fits(c, i)
    <3>1. state' = "FIND_BOUNDARY"
      BY <1>6, <1>8, <2>2, <2>4, <2>5 DEF ImageState, Fits, image
    <3>2. WellSkipped(c, i) /\ Skipped(c, i)
      BY <1>4, <1>7, <2>5 DEF Skipped
    <3>3. i = Count(c) \/ Eol(c) = 2
      <4>1. Len(<<CR, LF>>) = 2
        OBVIOUS
      <4> QED
        BY <3>2, <4>1, Zenon DEF WellSkipped, Count, Eol
    <3>4. frames' = Delivered(c, i)
      BY <1>1, <1>3, <2>5, OneMore
    <3>5. g < g + 2 /\ g + 2 <= g + n + 1 /\ g <= g /\ g + 2 <= d /\ g + 2 # d
      BY <1>5
    <3>6. AtPrefix(c)'
      BY <2>3, <3>5 DEF AtPrefix, Offset, n
    <3>7. Searching(c, i)'
      BY <2>3, <3>1, <3>2, <3>3, <3>5, <3>6 DEF Searching, Offset, g, d
    <3> QED
      BY <1>1, <1>3, <1>4, <3>4, <3>7 DEF Track, InPart
  <2>6. CASE ~(Announces(c.parts[i]) /\ ~Fits(c, i))
    <3>1. \/ state' = "IMAGE_BY_CONTENT_LENGTH" /\ Announces(c.parts[i]) /\ Fits(c, i)
             /\ content_length' = Len(image)
          \/ state' = "IMAGE_BY_EOF_SEARCH" /\ ~Announces(c.parts[i]) /\ content_length' = 0
      BY <1>1, <1>6, <1>8, <2>2, <2>4, <2>6 DEF ImageState, Fits, image
    <3>2. g + 2 <= g + 2 /\ g + 2 < d
      BY <1>5
    <3>3. InImage(c, i)'
      BY <2>3, <3>1, <3>2 DEF InImage, Offset, g, d, image
    <3> QED
      BY <1>1, <1>2, <1>3, <3>3 DEF Track, InPart
  <2> QED
    BY <2>5, <2>6
<1>13. CASE ~(anchor # NULL /\ cur - anchor = 1 /\ buf[cur] = D8)
  <2>1. state' = "FIND_IMAGE" /\ anchor' = IF buf[cur] = FF THEN cur ELSE NULL
    BY <1>1, <1>13 DEF StateFindImage
  <2>2. at # g + 1
    <3>1. at = g + 1 => buf[cur] = D8
      BY <1>5, <1>9, <1>11
    <3> QED
      BY <1>8, <1>9, <1>13, <3>1
  <2>3. at = g => anchor' = cur
    BY <1>9, <1>11, <2>1
  <2>4. y <= at + 1 /\ at + 1 <= g + 1 /\ (at + 1 = g + 1 => anchor' # NULL)
    BY <1>5, <1>8, <1>9, <1>10, <2>2, <2>3
  <2>5. anchor' # NULL => (pos - head + anchor)' = at /\ at = at + 1 - 1 /\ y <= at
    BY <1>8, <1>9, <1>10, <2>1
  <2>6. content_length' = Announced(c, i, Len(c.parts[i].header))
    BY <1>1, <1>7, <1>8
  <2>7. BeforeImage(c, i)'
    <3>1. at + 1 - 1 = (at + 1) - 1
      BY <1>9
    <3> QED
      BY <1>10, <2>1, <2>4, <2>5, <2>6, <3>1 DEF BeforeImage, Offset, y, g
  <2> QED
    BY <1>1, <1>2, <1>3, <2>7 DEF Track, InPart
<1> QED
  BY <1>12, <1>13

\* An image of announced length is cut where it ends.
LEMMA StateImageByContentLengthTrack ==
  ASSUME IInv, ~MallocFails, NEW c, WellFormed(c), Rendered(c) = stream, Track(c),
         StateImageByContentLength
  PROVE  Track(c)'
<1> DEFINE at   == Offset(cur)
           from == Offset(anchor)
<1>1. /\ pc = "parse" /\ state = "IMAGE_BY_CONTENT_LENGTH"
      /\ UNCHANGED <<stream, pos, head, boundary>>
  BY DEF StateImageByContentLength, In, source
<1>2. PICK k \in 0 .. Count(c) : InPart(c, k)
  BY <1>1 DEF Track, InHeader, InBanner, InType, InHeaderEnd
<1>3. k < Count(c) /\ InImage(c, k + 1) /\ boundary = Bound(c) /\ frames = Delivered(c, k)
  BY <1>1, <1>2 DEF InPart, Searching, InSubheader, BeforeImage
<1> DEFINE i     == k + 1
           image == c.parts[i].image
           g     == ImageAt(c, i)
           d     == ImageEnd(c, i)
<1>4. i \in 1 .. Count(c) /\ i \in 0 .. Count(c)
  BY <1>3, ScriptParts
<1>5. /\ image \in Seq(Byte) /\ Len(image) \in Nat /\ Len(image) >= 4 /\ g \in Nat /\ d \in Nat
      /\ Lies(stream, g, image) /\ d = g + Len(image)
  BY <1>4, PartFields, PartLayout
<1>6. /\ anchor # NULL /\ from = g /\ g + 2 <= at /\ at < d
      /\ Announces(c.parts[i]) /\ Fits(c, i) /\ content_length = Len(image)
  BY <1>1, <1>3 DEF InImage
<1>7. /\ cur \in Nat /\ head \in Nat /\ pos \in Nat /\ cur < head /\ head <= pos /\ anchor \in Nat
  BY <1>1, <1>6, Received
<1>8. CASE BytesLeftInBuf >= BytesNeeded
  <2>1. anchor + content_length <= head
    BY <1>5, <1>6, <1>7, <1>8 DEF BytesLeftInBuf, BytesNeeded, BytesFound
  <2>0. ~(BytesLeftInBuf < BytesNeeded)
    <3> HIDE DEF image
    <3> QED
      BY <1>5, <1>6, <1>7, <1>8 DEF BytesLeftInBuf, BytesNeeded, BytesFound
  <2>2. /\ GotNewFrame(content_length) /\ anchor' = NULL /\ content_length' = 0
        /\ state' = "FIND_BOUNDARY" /\ cur' = anchor + content_length - 1 + 1 /\ pc' # "done"
    BY <2>0 DEF StateImageByContentLength, IncrementCur
  <2>3. frames' = Append(frames, image)
    BY <1>5, <1>6, <2>1, <2>2, FrameIs
  <2>4. (pos - head + cur)' = d
    <3> HIDE DEF image, g, d
    <3> QED
      BY <1>1, <1>5, <1>6, <1>7, <2>2 DEF Offset
  <2> QED
    BY <1>1, <1>3, <1>6, <2>2, <2>3, <2>4, ImageDone
<1>9. CASE ~(BytesLeftInBuf >= BytesNeeded)
  <2>1. /\ cur' = head /\ pc' = "adjust"
        /\ UNCHANGED <<frames, state, anchor, content_length>>
    BY <1>5, <1>6, <1>7, <1>9 DEF StateImageByContentLength, BytesLeftInBuf, BytesNeeded, BytesFound, output
  <2>2. head < anchor + content_length
    BY <1>5, <1>6, <1>7, <1>9 DEF BytesLeftInBuf, BytesNeeded, BytesFound
  <2>3. /\ (pos - head + cur)' = pos /\ (pos - head + anchor)' = g /\ g + 2 <= pos /\ pos < d
    <3> HIDE DEF image, g, d
    <3> QED
      BY <1>1, <1>5, <1>6, <1>7, <2>1, <2>2 DEF Offset
  <2>4. InImage(c, i)'
    BY <1>1, <1>6, <2>1, <2>3 DEF InImage, Offset
  <2> QED
    BY <1>1, <1>2, <1>3, <2>1, <2>4 DEF InPart, Track
<1> QED
  BY <1>8, <1>9

\* An image of unknown length is cut at its only end marker.
LEMMA StateImageByEofSearchTrack ==
  ASSUME IInv, ~MallocFails, NEW c, WellFormed(c), Rendered(c) = stream, Track(c),
         StateImageByEofSearch
  PROVE  Track(c)'
<1> DEFINE at   == Offset(cur)
           from == Offset(anchor)
<1>1. /\ pc = "parse" /\ state = "IMAGE_BY_EOF_SEARCH" /\ cur' = cur + 1 /\ pc' # "done"
      /\ UNCHANGED <<stream, pos, head, boundary, content_length>>
  BY DEF StateImageByEofSearch, In, source, IncrementCur
<1>2. PICK k \in 0 .. Count(c) : InPart(c, k)
  BY <1>1 DEF Track, InHeader, InBanner, InType, InHeaderEnd
<1>3. k < Count(c) /\ InImage(c, k + 1) /\ boundary = Bound(c) /\ frames = Delivered(c, k)
  BY <1>1, <1>2 DEF InPart, Searching, InSubheader, BeforeImage
<1> DEFINE i     == k + 1
           image == c.parts[i].image
           n     == Len(image)
           g     == ImageAt(c, i)
           d     == ImageEnd(c, i)
<1>4. i \in 1 .. Count(c) /\ i \in 0 .. Count(c)
  BY <1>3, ScriptParts
<1>5. /\ image \in Seq(Byte) /\ n \in Nat /\ n >= 4 /\ g \in Nat /\ d \in Nat
      /\ Lies(stream, g, image) /\ d = g + n
  BY <1>4, PartFields, PartLayout
<1>6. /\ anchor # NULL /\ from = g /\ g + 2 <= at /\ at < d
      /\ ~Announces(c.parts[i]) /\ content_length = 0
  BY <1>1, <1>3 DEF InImage
<1>7. /\ cur \in Nat /\ head \in Nat /\ pos \in Nat /\ cur < head /\ head <= pos /\ anchor \in Nat
      /\ BufSize \in Nat /\ head <= BufSize
  BY <1>1, <1>6, Received, GrabberAssumption DEF IInv, TypeOK, GrabberAssumption
<1>8. /\ image[1] = FF /\ image[2] = D8 /\ image[n - 1] = FF /\ image[n] = D9
      /\ \A m \in 3 .. n - 2 : ~(image[m] = FF /\ image[m + 1] = D9)
  BY <1>4, <1>6, PartForm
<1>9. at \in Nat /\ buf[cur - 1] = stream[at] /\ buf[cur] = stream[at + 1] /\ cur - anchor = at - g
  BY <1>1, <1>6, <1>7, AnchoredBytes DEF Offset
<1> DEFINE m == at - g
<1>10. m \in 2 .. n - 1 /\ buf[cur - 1] = image[m] /\ buf[cur] = image[m + 1] /\ (at + 1 = d <=> m = n - 1)
  <2>1. m \in 2 .. n - 1 /\ m \in 1 .. n /\ m + 1 \in 1 .. n /\ g + m = at /\ g + (m + 1) = at + 1
        /\ (at + 1 = d <=> m = n - 1)
    <3>1. /\ n \in Nat /\ n >= 4 /\ g \in Nat /\ d \in Nat /\ d = g + n /\ at \in Nat
          /\ g + 2 <= at /\ at < d
      BY <1>5, <1>6, <1>9, Zenon
    <3> HIDE DEF at, g, d, n
    <3> QED
      BY <3>1
  <2>2. stream[g + m] = image[m] /\ stream[g + (m + 1)] = image[m + 1]
    BY <1>5, <2>1 DEF Lies
  <2> QED
    BY <1>9, <2>1, <2>2
<1>11. (pos - head + cur)' = at + 1
  BY <1>1, <1>7 DEF Offset
<1>12. CASE buf[cur - 1] = FF /\ buf[cur] = D9
  <2>1. GotNewFrame(cur - anchor + 1) /\ anchor' = NULL /\ state' = "FIND_BOUNDARY"
    BY <1>12 DEF StateImageByEofSearch
  <2>2. m = n - 1
    <3>1. m # 2
      BY <1>8, <1>10, <1>12 DEF FF, D8
    <3>2. m \notin 3 .. n - 2
      BY <1>8, <1>10, <1>12
    <3> HIDE DEF m, n
    <3> QED
      BY <1>5, <1>10, <3>1, <3>2
  <2>3. at + 1 = d /\ cur - anchor + 1 = n /\ anchor + n <= head /\ n <= BufSize
    <3>1. cur - anchor = n - 1
      BY <1>9, <2>2
    <3> HIDE DEF n, at, d
    <3> QED
      BY <1>5, <1>7, <1>10, <2>2, <3>1
  <2>4. frames' = Append(frames, image) /\ Fits(c, i)
    BY <1>5, <1>6, <2>1, <2>3, FrameIs DEF Fits
  <2> QED
    BY <1>1, <1>3, <1>6, <1>11, <2>1, <2>3, <2>4, ImageDone
<1>13. CASE ~(buf[cur - 1] = FF /\ buf[cur] = D9)
  <2>1. UNCHANGED <<frames, state, anchor>>
    BY <1>13 DEF StateImageByEofSearch, output
  <2>2. at + 1 < d /\ g + 2 <= at + 1
    <3>1. m # n - 1
      <4>1. (n - 1) + 1 = n
        BY <1>5
      <4> QED
        BY <1>8, <1>10, <1>13, <4>1
    <3> HIDE DEF m, n, at, g, d
    <3> QED
      BY <1>5, <1>6, <1>9, <1>10, <3>1
  <2>3. (pos - head + anchor)' = g
    BY <1>1, <1>6, <2>1 DEF Offset
  <2>4. InImage(c, i)'
    BY <1>1, <1>6, <1>11, <2>1, <2>2, <2>3 DEF InImage, Offset
  <2> QED
    BY <1>1, <1>2, <1>3, <2>1, <2>4 DEF InPart, Track
<1> QED
  BY <1>12, <1>13

-----------------------------------------------------------------------------
(* Steps of the search for the boundary keep track.                        *)

\* Between two images, or before the first, no byte in front of the boundary
\* equals its first one, or only the two right in front of it.
LEMMA NoFalseStart ==
  ASSUME NEW c, WellFormed(c), NEW k \in 0 .. Count(c), NEW p \in Nat,
         IF k = 0 THEN Behind(c, 0) <= p ELSE ImageEnd(c, k) <= p,
         p < SearchTo(c, k)
  PROVE  Rendered(c)[p + 1] = Bound(c)[1] =>
           k < Count(c) /\ Doubled(c) /\ p \in {SearchTo(c, k) - 2, SearchTo(c, k) - 1}
<1> DEFINE s  == Rendered(c)
           b  == Bound(c)
           e  == Eol(c)
           B  == Behind(c, k)
           d  == ImageEnd(c, k)
           to == SearchTo(c, k)
<1>1. /\ Count(c) \in Nat /\ b \in Seq(Byte) /\ Len(b) \in Nat /\ Len(b) >= 1 /\ c.mark \in Seq(Byte)
      /\ Len(c.mark) \in Nat /\ Len(b) <= Len(c.mark)
      /\ e \in Nat /\ B \in Nat /\ to \in Nat /\ c.eol \in Seq(Byte) /\ Len(c.eol) = e
  BY ScriptParts, EolIs, SearchEnds
<1>2. /\ b[1] \notin {LF, CR}
      /\ \A m \in 1 .. Len(c.mark) - Len(b) :
           c.mark[m] = b[1] => Doubled(c) /\ m \in {Len(c.mark) - Len(b) - 1, Len(c.mark) - Len(b)}
  <2>1. 1 \in DOMAIN b
    BY <1>1
  <2> QED
    BY <2>1, DashesAre, Zenon DEF WellFormed, Bound, Dashes
<1>3. CASE p < B
  <2>1. k \in 1 .. Count(c)
    <3>1. k # 0
      BY <1>1, <1>3
    <3> QED
      BY <1>1, <3>1
  <2>2. d \in Nat /\ B = d + e /\ Lies(s, d, c.eol) /\ d <= p
    BY <2>1, PartLayout
  <2> HIDE DEF s, b, e, B, d, to
  <2>3. p < d + Len(c.eol) /\ p \in Int
    BY <1>1, <1>3, <2>2
  <2>4. p - d + 1 \in 1 .. Len(c.eol) /\ s[p + 1] = c.eol[p - d + 1]
    <3>1. \A q \in Int : d <= q /\ q < d + Len(c.eol) =>
            q - d + 1 \in 1 .. Len(c.eol) /\ s[q + 1] = c.eol[q - d + 1]
      <4> DEFINE l == c.eol
      <4>1. Len(l) \in Nat /\ Lies(s, d, l)
        BY <1>1, <2>2
      <4> HIDE DEF l
      <4>2. \A q \in Int : d <= q /\ q < d + Len(l) =>
              q - d + 1 \in 1 .. Len(l) /\ s[q + 1] = l[q - d + 1]
        BY <4>1, LiesAt
      <4> QED
        BY <4>2, Zenon DEF l
    <3> QED
      BY <2>2, <2>3, <3>1, Zenon
  <2>5. \A m \in 1 .. Len(c.eol) : c.eol[m] \in {LF, CR}
    BY EolIs
  <2>6. s[p + 1] # b[1]
    BY <1>2, <2>4, <2>5, Zenon
  <2> QED
    BY <2>6 DEF s, b
<1>4. CASE ~(p < B)
  <2>1. k < Count(c) /\ to = B + Len(c.mark) - Len(b)
    <3>1. k # Count(c)
      BY <1>1, <1>4, Rendering DEF SearchTo
    <3>2. k < Count(c) /\ k + 1 - 1 = k /\ (k + 1) - 1 = k
      BY <1>1, <3>1
    <3>3. MarkAt(c, k + 1) = B + Len(c.mark) - Len(b)
      BY <3>2, Zenon DEF MarkAt
    <3> QED
      BY <3>1, <3>2, <3>3, Zenon DEF SearchTo
  <2>2. Lies(s, B, c.mark)
    <3>1. k + 1 \in 1 .. Count(c) /\ (k + 1) - 1 = k
      BY <1>1, <2>1
    <3> QED
      BY <3>1, PartLayout, Zenon
  <2>0. p < to
    OBVIOUS
  <2> HIDE DEF s, b, e, B, d, to
  <2>3. /\ B <= p /\ p < B + Len(c.mark) /\ p \in Int /\ p - B + 1 \in 1 .. Len(c.mark) - Len(b)
    <3> DEFINE u == Len(c.mark)
               n == Len(b)
    <3>1. u \in Nat /\ n \in Nat /\ n >= 1 /\ n <= u /\ B \in Nat /\ to = B + u - n /\ p < to /\ ~(p < B)
      BY <1>1, <1>4, <2>1, <2>0, Zenon
    <3> HIDE DEF u, n
    <3>2. B <= p /\ p < B + u /\ p \in Int /\ p - B + 1 \in 1 .. u - n
      BY <3>1
    <3> QED
      BY <3>2 DEF u, n
  <2>4. s[p + 1] = c.mark[p - B + 1]
    <3>1. \A q \in Int : B <= q /\ q < B + Len(c.mark) =>
            q - B + 1 \in 1 .. Len(c.mark) /\ s[q + 1] = c.mark[q - B + 1]
      <4> DEFINE l == c.mark
      <4>1. Len(l) \in Nat /\ Lies(s, B, l)
        BY <1>1, <2>2
      <4> HIDE DEF l
      <4>2. \A q \in Int : B <= q /\ q < B + Len(l) =>
              q - B + 1 \in 1 .. Len(l) /\ s[q + 1] = l[q - B + 1]
        BY <4>1, LiesAt
      <4> QED
        BY <4>2, Zenon DEF l
    <3> QED
      BY <2>3, <3>1, Zenon
  <2>5. s[p + 1] = b[1] =>
          /\ Doubled(c)
          /\ p - B + 1 \in {Len(c.mark) - Len(b) - 1, Len(c.mark) - Len(b)}
    BY <1>2, <2>3, <2>4, Zenon
  <2>6. ASSUME p - B + 1 \in {Len(c.mark) - Len(b) - 1, Len(c.mark) - Len(b)}
        PROVE  p \in {to - 2, to - 1}
    <3> DEFINE u == Len(c.mark)
               n == Len(b)
    <3>1. u \in Nat /\ n \in Nat /\ B \in Nat /\ to = B + u - n /\ p \in Int
      BY <1>1, <2>1, <2>3, Zenon
    <3>2. p - B + 1 \in {u - n - 1, u - n}
      BY <2>6
    <3> HIDE DEF u, n
    <3> QED
      BY <3>1, <3>2
  <2> QED
    BY <2>1, <2>5, <2>6, Zenon DEF s, b, to
<1> QED
  BY <1>3, <1>4

\* The boundary and the line end behind it.
LEMMA MarkBytes ==
  ASSUME NEW c, WellFormed(c), NEW k \in 0 .. Count(c), k < Count(c)
  PROVE  /\ MarkAt(c, k + 1) \in Nat /\ SearchTo(c, k) = MarkAt(c, k + 1)
         /\ \A m \in 1 .. Len(Bound(c)) : Rendered(c)[MarkAt(c, k + 1) + m] = Bound(c)[m]
         /\ \A m \in 1 .. Eol(c) : Rendered(c)[MarkAt(c, k + 1) + Len(Bound(c)) + m] = c.eol[m]
         /\ LineAt(c, k + 1, 1) = MarkAt(c, k + 1) + Len(Bound(c)) + Eol(c)
<1> DEFINE s == Rendered(c)
           b == Bound(c)
           n == Len(b)
           e == Eol(c)
           B == Behind(c, k)
           M == MarkAt(c, k + 1)
           u == Len(c.mark)
<1>1. /\ Count(c) \in Nat /\ b \in Seq(Byte) /\ n \in Nat /\ n >= 1 /\ c.mark \in Seq(Byte)
      /\ u \in Nat /\ n <= u
      /\ e \in Nat /\ B \in Nat /\ c.eol \in Seq(Byte) /\ Len(c.eol) = e
  BY ScriptParts, EolIs, SearchEnds
<1>2. \A m \in 1 .. n : c.mark[u - n + m] = b[m]
  <2>1. DOMAIN b = 1 .. n
    BY <1>1
  <2> QED
    BY <2>1, Zenon DEF WellFormed, Bound
<1>3. k + 1 \in 1 .. Count(c) /\ (k + 1) - 1 = k /\ k # Count(c)
  BY <1>1
<1>4. Lies(s, B, c.mark) /\ Lies(s, B + u, c.eol)
  BY <1>3, PartLayout, Zenon
<1>5. M = B + u - n /\ SearchTo(c, k) = M
  BY <1>3, Zenon DEF MarkAt, SearchTo
<1>6. LineAt(c, k + 1, 1) = M + n + e
  BY NextPositions, Zenon DEF Placed
<1> HIDE DEF s, b, n, e, B, M, u
<1>7. M \in Nat /\ M + n = B + u
  BY <1>1, <1>5
<1>8. ASSUME NEW m \in 1 .. n
      PROVE  s[M + m] = b[m]
  <2>1. u - n + m \in 1 .. u /\ B + (u - n + m) = M + m
    BY <1>1, <1>5
  <2>2. s[B + (u - n + m)] = c.mark[u - n + m]
    BY <1>4, <2>1 DEF Lies, u
  <2> QED
    BY <1>2, <2>1, <2>2
<1>9. ASSUME NEW m \in 1 .. e
      PROVE  s[M + n + m] = c.eol[m]
  BY <1>1, <1>4, <1>7 DEF Lies
<1> QED
  BY <1>5, <1>6, <1>7, <1>8, <1>9 DEF s, b, n, e, M

\* The boundary holds no line end and no marker byte.
LEMMA BoundBytes ==
  ASSUME NEW c, WellFormed(c)
  PROVE  \A m \in 1 .. Len(Bound(c)) : Bound(c)[m] \notin {LF, CR, FF, D8, D9}
<1>1. DOMAIN Bound(c) = 1 .. Len(Bound(c))
  BY ScriptParts
<1> QED
  BY <1>1, Zenon DEF WellFormed, Bound

\* The search for a boundary begins at an offset.
LEMMA FromIs ==
  ASSUME NEW c, WellFormed(c), NEW k \in 0 .. Count(c)
  PROVE  SearchFrom(c, k) \in Nat
<1>1. CASE k = 0
  BY <1>1, SearchEnds DEF SearchFrom
<1>2. CASE k # 0
  <2>1. k \in 1 .. Count(c)
    BY <1>2, ScriptParts
  <2>2. ImageAt(c, k) \in Nat /\ ImageEnd(c, k) \in Nat
    BY <2>1, PartLayout
  <2> QED
    BY <1>2, <2>2 DEF SearchFrom
<1> QED
  BY <1>1, <1>2

\* And it begins no later than it ends.
LEMMA FromBeforeTo ==
  ASSUME NEW c, WellFormed(c), NEW k \in 0 .. Count(c)
  PROVE  SearchFrom(c, k) <= SearchTo(c, k)
<1>1. CASE k = 0
  BY <1>1, SearchEnds DEF SearchFrom
<1>2. CASE k # 0
  <2> DEFINE g == ImageAt(c, k)
             d == ImageEnd(c, k)
             B == Behind(c, k)
             to == SearchTo(c, k)
             w == Len(c.parts[k].image)
             e == Eol(c)
  <2>1. k \in 1 .. Count(c)
    BY <1>2, ScriptParts
  <2>2. /\ g \in Nat /\ d \in Nat /\ d = g + w /\ w \in Nat /\ w >= 4
        /\ B = d + e /\ e \in Nat /\ B \in Nat /\ to \in Nat /\ B <= to
    BY <2>1, PartLayout, PartFields, SearchEnds, EolIs, Zenon
  <2>3. SearchFrom(c, k) \in {g + 2, d}
    BY <1>2 DEF SearchFrom
  <2> HIDE DEF g, d, B, to, w, e
  <2>4. g + 2 <= to /\ d <= to
    BY <2>2
  <2> QED
    BY <2>3, <2>4 DEF to
<1> QED
  BY <1>1, <1>2

\* No byte compared so far is the first of the boundary.
LEMMA NoAnchorTrack ==
  ASSUME IInv, NEW c, WellFormed(c), Rendered(c) = stream, NEW k \in 0 .. Count(c), InPart(c, k),
         StateFindBoundary, anchor = NULL
  PROVE  Track(c)'
<1> DEFINE at   == Offset(cur)
           from == SearchFrom(c, k)
           to   == SearchTo(c, k)
           n    == Len(Bound(c))
           sk   == Skipped(c, k)
           g    == ImageAt(c, k)
           d    == ImageEnd(c, k)
<1>1. /\ pc = "parse" /\ state = "FIND_BOUNDARY" /\ cur' = cur + 1 /\ pc' # "done"
      /\ UNCHANGED <<stream, pos, head, boundary, content_length, frames, state>>
      /\ anchor' = IF buf[cur] = boundary[1] THEN cur ELSE NULL
  BY DEF StateFindBoundary, In, source, output, IncrementCur
<1>2. /\ boundary = Bound(c) /\ frames = Delivered(c, k)
      /\ content_length = 0 \/ k = Count(c) \/ Eol(c) = 2
      /\ from <= at /\ at <= to
      /\ Doubled(c) /\ k < Count(c) => at # to - 1
  BY <1>1 DEF InPart, Searching, AtPrefix, InSubheader, BeforeImage, InImage
<1>3. /\ at \in Nat /\ at + 1 <= Len(stream) /\ Len(stream) \in Nat /\ buf[cur] = stream[at + 1]
  BY <1>1, AtCur
<1>4. /\ (pos - head + cur)' = at + 1
      /\ anchor' = cur => (pos - head + anchor)' = at /\ anchor' # NULL
  BY <1>1, Received DEF Offset, NULL
<1>5. /\ Count(c) \in Nat /\ n \in Nat /\ n >= 1 /\ to \in Nat
      /\ k = Count(c) => to = Len(stream)
      /\ k < Count(c) => to = MarkAt(c, k + 1) /\ stream[to + 1] = Bound(c)[1]
      /\ k < Count(c) /\ Doubled(c) => to >= 2 /\ stream[to - 1] = Bound(c)[1]
  <2>1. Count(c) \in Nat /\ n \in Nat /\ n >= 1 /\ to \in Nat
    BY ScriptParts, SearchEnds
  <2>2. k = Count(c) => to = Len(stream)
    BY DEF SearchTo
  <2>3. k < Count(c) => to = MarkAt(c, k + 1) /\ stream[to + 1] = Bound(c)[1]
    <3>1. 1 \in 1 .. n
      BY <2>1
    <3> QED
      BY <3>1, MarkBytes
  <2>4. k < Count(c) /\ Doubled(c) => to >= 2 /\ stream[to - 1] = Bound(c)[1]
    BY <2>1, <2>3, BeforeMark
  <2> QED
    BY <2>1, <2>2, <2>3, <2>4
<1>6. CASE buf[cur] # boundary[1]
  <2>1. at # to
    <3>1. k # Count(c) => k < Count(c)
      BY <1>5
    <3> QED
      BY <1>2, <1>3, <1>5, <1>6, <3>1
  <2>2. from <= at + 1 /\ at + 1 <= to
    <3>1. from \in Int
      BY FromIs
    <3> HIDE DEF from, at, to
    <3> QED
      BY <1>2, <1>3, <1>5, <2>1, <3>1
  <2>3. Doubled(c) /\ k < Count(c) => at + 1 # to - 1
    BY <1>2, <1>3, <1>5, <1>6
  <2>4. Searching(c, k)'
    BY <1>1, <1>2, <1>4, <1>6, <2>2, <2>3 DEF Searching, Offset
  <2> QED
    BY <1>1, <1>2, <2>4 DEF InPart, Track
<1>7. CASE buf[cur] = boundary[1]
  <2>1. /\ (pos - head + cur)' = at + 1 /\ (pos - head + anchor)' = at /\ anchor' # NULL
        /\ AtPrefix(c)'
    <3>1. at < at + 1 /\ at + 1 <= at + n + 1 /\ at + 1 # at + n + 1
      BY <1>3, <1>5
    <3> QED
      BY <1>1, <1>4, <1>7, <3>1 DEF AtPrefix, Offset
  <2>2. at + 1 # at + n + 1
    BY <1>3, <1>5
  <2>3. CASE at = to
    <3>1. k < Count(c) /\ at = MarkAt(c, k + 1)
      BY <1>3, <1>5, <2>3
    <3>2. Searching(c, k)'
      BY <1>1, <1>2, <2>1, <2>2, <3>1 DEF Searching, Offset
    <3> QED
      BY <1>1, <1>2, <3>2 DEF InPart, Track
  <2>4. CASE at # to /\ k < Count(c) /\ Doubled(c) /\ at = to - 2
    <3>1. at = MarkAt(c, k + 1) - 2
      BY <1>5, <2>4
    <3>2. Searching(c, k)'
      BY <1>1, <1>2, <2>1, <2>4, <3>1 DEF Searching, Offset
    <3> QED
      BY <1>1, <1>2, <3>2 DEF InPart, Track
  <2>5. CASE at # to /\ ~(k < Count(c) /\ Doubled(c) /\ at = to - 2)
    <3>0. /\ at < to /\ stream[at + 1] = Bound(c)[1]
          /\ ~(k < Count(c) /\ Doubled(c) /\ at \in {to - 2, to - 1})
      BY <1>2, <1>3, <1>5, <1>7, <2>5
    <3>1. ~(IF k = 0 THEN Behind(c, 0) <= at ELSE d <= at)
      BY <1>3, <3>0, NoFalseStart
    <3>2. sk /\ k \in 1 .. Count(c) /\ g + 2 <= at
      <4>1. k # 0
        BY <1>2, <3>1 DEF SearchFrom
      <4> QED
        BY <1>2, <3>1, <4>1, <1>5 DEF SearchFrom
    <3>3. g \in Nat /\ d \in Nat /\ d = g + Len(c.parts[k].image) /\ Lies(stream, g, c.parts[k].image)
          /\ Len(c.parts[k].image) \in Nat /\ Len(c.parts[k].image) >= 4
      BY <3>2, PartLayout, PartFields
    <3>4. at + 1 # d
      <4> DEFINE image == c.parts[k].image
                 w == Len(image)
      <4>1. image[w] = D9 /\ stream[g + w] = image[w]
        <5>1. w \in 1 .. w
          BY <3>3
        <5> QED
          BY <3>2, <3>3, <5>1, PartForm DEF Lies
      <4>2. Bound(c)[1] # D9
        <5>1. 1 \in 1 .. n
          BY <1>5
        <5> QED
          BY <5>1, BoundBytes
      <4> QED
        BY <3>0, <3>3, <4>1, <4>2
    <3>5. g <= at /\ at + 1 <= d
      <4>1. ~(d <= at)
        BY <3>1, <3>2
      <4> HIDE DEF g, d, at
      <4> QED
        BY <1>3, <3>2, <3>3, <4>1, SMTT(30)
    <3>6. Searching(c, k)'
      BY <1>1, <1>2, <2>1, <2>2, <3>2, <3>4, <3>5 DEF Searching, Offset
    <3> QED
      BY <1>1, <1>2, <3>6 DEF InPart, Track
  <2> QED
    BY <2>3, <2>4, <2>5
<1> QED
  BY <1>6, <1>7

\* The boundary itself is being compared.
LEMMA MarkTrack ==
  ASSUME IInv, NEW c, WellFormed(c), Rendered(c) = stream, NEW k \in 0 .. Count(c), InPart(c, k),
         StateFindBoundary, AtPrefix(c), k < Count(c), Offset(anchor) = MarkAt(c, k + 1),
         Offset(cur) = Offset(anchor) + Len(Bound(c)) + 1 => Eol(c) = 2
  PROVE  Track(c)'
<1> DEFINE at == Offset(cur)
           b  == Bound(c)
           n  == Len(b)
           e  == Eol(c)
           M  == MarkAt(c, k + 1)
           i  == k + 1
<1>1. /\ pc = "parse" /\ state = "FIND_BOUNDARY" /\ anchor # NULL
      /\ UNCHANGED <<stream, pos, head, boundary, frames>>
  BY DEF StateFindBoundary, In, source, output, AtPrefix
<1>2. /\ boundary = b /\ frames = Delivered(c, k)
      /\ content_length = 0 \/ k = Count(c) \/ e = 2
  BY <1>1 DEF InPart, Searching, InSubheader, BeforeImage, InImage
<1>3. /\ M \in Nat /\ n \in Nat /\ n >= 1 /\ e \in {1, 2} /\ Count(c) \in Nat
      /\ \A m \in 1 .. n : stream[M + m] = b[m]
      /\ \A m \in 1 .. e : stream[M + n + m] = c.eol[m]
      /\ LineAt(c, i, 1) = M + n + e
      /\ e = 1 => c.eol[1] = LF
      /\ e = 2 => c.eol[1] = CR /\ c.eol[2] = LF
  BY ScriptParts, MarkBytes, EolIs
<1> DEFINE t == at - M
<1>4. /\ at \in Nat /\ buf[cur] = stream[at + 1] /\ buf[cur - 1] = stream[at]
      /\ cur - anchor = t /\ cur + 1 - anchor = t + 1 /\ cur - anchor + 1 = t + 1
      /\ t \in 1 .. n + 1 /\ M + t = at /\ (t = n + 1 => e = 2)
  <2>1. /\ at \in Nat /\ buf[cur] = stream[at + 1] /\ buf[cur - 1] = stream[at]
        /\ at = Offset(anchor) + (cur - anchor) /\ cur - anchor \in Nat
    BY <1>1, AnchoredBytes
  <2>2. cur \in Int /\ anchor \in Int
    BY <1>1, Received
  <2>3. Offset(anchor) = M /\ M < at /\ at <= M + n + 1 /\ (at = M + n + 1 => e = 2)
    BY DEF AtPrefix
  <2>4. cur + 1 - anchor = (cur - anchor) + 1
    BY <2>2
  <2>5. M \in Nat /\ n \in Nat /\ cur - anchor + 1 = (cur - anchor) + 1
    BY <1>3
  <2> HIDE DEF at, M, n, e
  <2>6. /\ cur - anchor = t /\ cur + 1 - anchor = t + 1 /\ cur - anchor + 1 = t + 1
        /\ t \in 1 .. n + 1 /\ M + t = at /\ (t = n + 1 => e = 2)
    BY <2>1, <2>3, <2>4, <2>5, SMTT(30)
  <2> QED
    BY <2>1, <2>6, Zenon
<1>5. /\ t < n => buf[cur] = b[t + 1]
      /\ t = n => buf[cur] = c.eol[1]
      /\ t = n + 1 => buf[cur - 1] = CR /\ buf[cur] = LF
  <2> HIDE DEF at, M, n, e, b, t
  <2>1. t < n => buf[cur] = b[t + 1]
    <3>1. t < n => t + 1 \in 1 .. n /\ M + (t + 1) = at + 1
      BY <1>3, <1>4
    <3> QED
      BY <1>3, <1>4, <3>1
  <2>2. t = n => buf[cur] = c.eol[1]
    <3>1. 1 \in 1 .. e /\ (t = n => M + n + 1 = at + 1)
      BY <1>3, <1>4
    <3> QED
      BY <1>3, <1>4, <3>1
  <2>3. t = n + 1 => buf[cur - 1] = CR /\ buf[cur] = LF
    <3>1. t = n + 1 => 1 \in 1 .. e /\ 2 \in 1 .. e /\ M + n + 1 = at /\ M + n + 2 = at + 1
      BY <1>3, <1>4
    <3> QED
      BY <1>3, <1>4, <3>1
  <2> QED
    BY <2>1, <2>2, <2>3
<1>6. ~FindBoundaryMismatch
  <2> HIDE DEF t, n
  <2> QED
    BY <1>1, <1>2, <1>3, <1>4, <1>5, SMTT(30) DEF FindBoundaryMismatch, n
<1>7. CASE FoundBoundaryLF \/ FoundBoundaryCRLF
  <2>1. /\ anchor' = NULL /\ state' = "HTTP_SUBHEADER" /\ cur' = cur + 1 /\ pc' # "done"
        /\ content_length' = IF FoundBoundaryCRLF THEN 0 ELSE content_length
    BY <1>1, <1>6, <1>7 DEF StateFindBoundary, IncrementCur
  <2>2. /\ at + 1 = LineAt(c, i, 1)
        /\ FoundBoundaryCRLF \/ e = 1
    <3>1. CASE FoundBoundaryLF
      <4>1. t = n /\ buf[cur] = LF
        <5> HIDE DEF t, n
        <5> QED
          BY <1>2, <1>3, <1>4, <3>1 DEF FoundBoundaryLF, n
      <4>2. e = 1
        BY <1>3, <1>5, <4>1 DEF LF, CR
      <4> HIDE DEF t, n, e, M, at
      <4> QED
        BY <1>3, <1>4, <4>1, <4>2
    <3>2. CASE FoundBoundaryCRLF
      <4>1. t = n + 1
        <5> HIDE DEF t, n
        <5> QED
          BY <1>2, <1>3, <1>4, <3>2 DEF FoundBoundaryCRLF, n
      <4>2. /\ M \in Nat /\ n \in Nat /\ at \in Nat /\ e = 2 /\ M + t = at
            /\ LineAt(c, i, 1) = M + n + e
        BY <1>3, <1>4, <4>1, Zenon
      <4> HIDE DEF t, n, e, M, at
      <4>3. at + 1 = LineAt(c, i, 1)
        BY <4>1, <4>2
      <4> QED
        BY <3>2, <4>3
    <3> QED
      BY <1>7, <3>1, <3>2
  <2>3. content_length' = 0
    <3>1. k # Count(c)
      BY <1>3
    <3> QED
      BY <1>2, <2>1, <2>2, <3>1
  <2>4. i \in 1 .. Count(c) /\ Len(c.parts[i].header) \in Nat
    <3>1. i \in 1 .. Count(c)
      BY <1>3
    <3> QED
      BY <3>1, PartFields
  <2> DEFINE h == Len(c.parts[i].header)
             x == LineAt(c, i, 1)
             E == x + e - IF 1 <= h THEN 0 ELSE 1
  <2>5. x \in Int /\ x <= E
    <3> HIDE DEF at, e
    <3>1. x \in Int /\ e \in Int /\ e >= 1
      BY <1>3, <1>4, <2>2, SMTT(30)
    <3> HIDE DEF x
    <3> QED
      BY <3>1
  <2>6. OnLine(x, E)'
    <3>1. LineStart' = cur'
      BY <2>1 DEF LineStart
    <3>2. (pos - head + cur)' = at + 1
      BY <1>1, <2>1, Received DEF Offset
    <3> QED
      BY <2>2, <2>5, <3>1, <3>2 DEF OnLine, Offset
  <2>7. Announced(c, i, 1 - 1) = 0
    BY DEF Announced
  <2>8. InSubheader(c, i)'
    <3>1. 1 \in 1 .. h + 1
      BY <2>4
    <3> QED
      BY <2>1, <2>3, <2>6, <2>7, <3>1 DEF InSubheader
  <2> QED
    BY <1>1, <1>2, <2>1, <2>8 DEF InPart, Track
<1>8. CASE ~(FoundBoundaryLF \/ FoundBoundaryCRLF)
  <2>1. cur' = cur + 1 /\ pc' # "done" /\ UNCHANGED <<state, anchor, content_length>>
    BY <1>1, <1>6, <1>8 DEF StateFindBoundary, IncrementCur
  <2>2. at + 1 <= M + n + 1 /\ (at + 1 = M + n + 1 => e = 2) /\ M < at + 1
    <3>1. t # n + 1
      <4>1. t = n + 1 => FoundBoundaryCRLF
        <5> HIDE DEF t, n
        <5> QED
          BY <1>2, <1>3, <1>4, <1>5 DEF FoundBoundaryCRLF, n
      <4> QED
        BY <1>8, <4>1
    <3>2. t = n => e = 2
      <4>1. t = n /\ e = 1 => FoundBoundaryLF
        <5> HIDE DEF t, n
        <5> QED
          BY <1>2, <1>3, <1>4, <1>5 DEF FoundBoundaryLF, n
      <4> QED
        BY <1>3, <1>8, <4>1
    <3> HIDE DEF t, n, e, M, at
    <3> QED
      BY <1>3, <1>4, <3>1, <3>2, SMTT(30)
  <2>3. (pos - head + cur)' = at + 1 /\ (pos - head + anchor)' = M
    BY <1>1, <2>1, Received DEF Offset
  <2>4. AtPrefix(c)'
    BY <1>1, <2>1, <2>2, <2>3 DEF AtPrefix, Offset
  <2>5. Searching(c, k)'
    BY <1>1, <1>2, <2>1, <2>2, <2>3, <2>4 DEF Searching, Offset
  <2> QED
    BY <1>1, <1>2, <2>1, <2>5 DEF InPart, Track
<1> QED
  BY <1>7, <1>8

\* Bytes of an image that is skipped are being compared.
LEMMA SkippedTrack ==
  ASSUME IInv, NEW c, WellFormed(c), Rendered(c) = stream, NEW k \in 0 .. Count(c), InPart(c, k),
         StateFindBoundary, AtPrefix(c), Skipped(c, k), ImageAt(c, k) <= Offset(anchor),
         Offset(cur) <= ImageEnd(c, k),
         Offset(cur) = ImageEnd(c, k) => Offset(cur) = Offset(anchor) + Len(Bound(c)) + 1
  PROVE  Track(c)'
<1> DEFINE at    == Offset(cur)
           from  == Offset(anchor)
           b     == Bound(c)
           n     == Len(b)
           e     == Eol(c)
           g     == ImageAt(c, k)
           d     == ImageEnd(c, k)
           image == c.parts[k].image
           w     == Len(image)
           to    == SearchTo(c, k)
           t     == cur - anchor
<1>1. /\ pc = "parse" /\ state = "FIND_BOUNDARY" /\ anchor # NULL
      /\ UNCHANGED <<stream, pos, head, boundary, frames>>
  BY DEF StateFindBoundary, In, source, output, AtPrefix
<1>2. /\ boundary = b /\ frames = Delivered(c, k)
      /\ content_length = 0 \/ k = Count(c) \/ e = 2
  BY <1>1 DEF InPart, Searching, InSubheader, BeforeImage, InImage
<1>3. k \in 1 .. Count(c) /\ Count(c) \in Nat
  <2>1. Count(c) \in Nat /\ k >= 1
    BY ScriptParts DEF Skipped
  <2> QED
    BY <2>1
<1>4. /\ n \in Nat /\ n >= 1 /\ e \in {1, 2} /\ Len(c.eol) = e
      /\ e = 1 => c.eol[1] = LF
      /\ e = 2 => c.eol[1] = CR /\ c.eol[2] = LF
  BY ScriptParts, EolIs
<1>5. /\ g \in Nat /\ d \in Nat /\ w \in Nat /\ w >= 4 /\ d = g + w
      /\ Lies(stream, g, image) /\ Lies(stream, d, c.eol)
  BY <1>3, PartLayout, PartFields
<1>6. to \in Nat /\ d + 1 <= to /\ (Doubled(c) /\ k < Count(c) => d + 3 <= to)
  <2> DEFINE B == Behind(c, k)
  <2>1. /\ B = d + e /\ B <= to /\ to \in Nat /\ B \in Nat
        /\ Doubled(c) /\ k < Count(c) => B + 2 <= to
    BY <1>3, PartLayout, SearchEnds
  <2>2. d \in Nat /\ e \in {1, 2}
    BY <1>4, <1>5, Zenon
  <2> HIDE DEF B, d, e, to
  <2> QED
    BY <2>1, <2>2
<1>7. /\ at \in Nat /\ from \in Nat /\ t \in Nat /\ buf[cur] = stream[at + 1] /\ buf[cur - 1] = stream[at]
      /\ at = from + t /\ t >= 1 /\ t <= n + 1 /\ g <= from /\ at <= d
      /\ (at = d => t = n + 1)
      /\ cur + 1 - anchor = t + 1 /\ cur - anchor + 1 = t + 1
  <2>1. /\ at \in Nat /\ from \in Nat /\ buf[cur] = stream[at + 1] /\ buf[cur - 1] = stream[at]
        /\ at = from + t /\ t \in Nat /\ t >= 1
    BY <1>1, AnchoredBytes
  <2>2. cur \in Int /\ anchor \in Int
    BY <1>1, Received
  <2>3. g <= from /\ at <= d /\ at <= from + n + 1 /\ (at = d => at = from + n + 1)
    BY DEF AtPrefix
  <2>4. cur + 1 - anchor = t + 1 /\ cur - anchor + 1 = t + 1
    BY <2>2
  <2> HIDE DEF at, from, n, d, t, g
  <2>5. t <= n + 1 /\ (at = d => t = n + 1)
    BY <1>4, <2>1, <2>3
  <2> QED
    BY <2>1, <2>3, <2>4, <2>5, Zenon
<1>8. WellSkipped(c, k)
  BY <1>3, PartForm DEF Skipped
<1>9. \A m \in 1 .. w : image[m] # LF
  <2>1. DOMAIN image = 1 .. w
    <3>1. image \in Seq(Byte)
      BY <1>3, PartFields
    <3> QED
      BY <3>1
  <2> QED
    BY <1>8, <2>1 DEF WellSkipped
<1>10. k = Count(c) \/ e = 2
  <2>1. Len(<<CR, LF>>) = 2
    OBVIOUS
  <2> QED
    BY <1>8, <2>1, Zenon DEF WellSkipped, Count, Eol
\* What the cursor is at.
<1>11. at < d => /\ buf[cur] # LF
                 /\ at + 1 = d => buf[cur] = D9
  <2> SUFFICES ASSUME at < d
               PROVE  buf[cur] # LF /\ (at + 1 = d => buf[cur] = D9)
    OBVIOUS
  <2> DEFINE m == at - g + 1
  <2>1. m \in 1 .. w /\ g + m = at + 1 /\ (at + 1 = d => m = w)
    <3>0. /\ at \in Nat /\ g \in Nat /\ w \in Nat /\ d = g + w /\ g <= from /\ from \in Nat /\ at = from + t
          /\ t \in Nat /\ at < d
      BY <1>5, <1>7, Zenon
    <3> HIDE DEF at, g, w, d, from, t
    <3> QED
      BY <3>0
  <2>2. stream[g + m] = image[m]
    BY <1>5, <2>1 DEF Lies
  <2>3. image[w] = D9
    BY <1>3, PartForm
  <2> HIDE DEF m
  <2> QED
    BY <1>7, <1>9, <2>1, <2>2, <2>3
<1>12. at = d => buf[cur] = c.eol[1] /\ buf[cur - 1] = D9
  <2> SUFFICES ASSUME at = d
               PROVE  buf[cur] = c.eol[1] /\ buf[cur - 1] = D9
    OBVIOUS
  <2>1. 1 \in 1 .. Len(c.eol) /\ w \in 1 .. w
    BY <1>4, <1>5
  <2>2. stream[d + 1] = c.eol[1] /\ stream[g + w] = image[w]
    BY <1>5, <2>1 DEF Lies
  <2>3. image[w] = D9
    BY <1>3, PartForm
  <2> QED
    BY <1>5, <1>7, <2>2, <2>3, Zenon
<1>13. ~FoundBoundaryLF /\ ~FoundBoundaryCRLF
  <2>1. at < d => buf[cur] # LF
    BY <1>11
  <2>2. at = d => t = n + 1 /\ (buf[cur] # LF \/ buf[cur - 1] # CR)
    BY <1>7, <1>12 DEF CR, D9
  <2>3. FoundBoundaryLF => t = n /\ buf[cur] = LF
    <3> HIDE DEF t, n
    <3> QED
      BY <1>2, <1>4, <1>7 DEF FoundBoundaryLF, n
  <2>4. FoundBoundaryCRLF => buf[cur - 1] = CR /\ buf[cur] = LF
    BY DEF FoundBoundaryCRLF
  <2>5. at < d \/ at = d
    <3>1. /\ n \in Nat /\ g \in Nat /\ d \in Nat /\ at \in Nat /\ from \in Nat /\ t \in Nat
          /\ at = from + t /\ t <= n + 1 /\ g <= from /\ at <= d /\ (at = d => t = n + 1) /\ t >= 1
      BY <1>4, <1>5, <1>7, Zenon
    <3> HIDE DEF at, d, from, g, n, t
    <3> QED
      BY <3>1
  <2>6. n # n + 1
    BY <1>4
  <2> QED
    BY <2>1, <2>2, <2>3, <2>4, <2>5, <2>6, Zenon
<1>14. CASE FindBoundaryMismatch
  <2>1. /\ anchor' = NULL /\ cur' = anchor + 1 + 1 /\ pc' # "done" /\ UNCHANGED <<state, content_length>>
    BY <1>1, <1>13, <1>14 DEF StateFindBoundary, RestartScan, IncrementCur
  <2>2. (pos - head + cur)' = from + 2
    BY <1>1, <2>1, Received DEF Offset
  <2>3. g + 2 <= from + 2 /\ from + 2 <= to /\ (Doubled(c) /\ k < Count(c) => from + 2 # to - 1)
    <3>1. /\ n \in Nat /\ g \in Nat /\ d \in Nat /\ at \in Nat /\ from \in Nat /\ t \in Nat
          /\ at = from + t /\ t <= n + 1 /\ g <= from /\ at <= d /\ (at = d => t = n + 1) /\ t >= 1
      BY <1>4, <1>5, <1>7, Zenon
    <3> HIDE DEF at, d, from, g, n, t, to
    <3> QED
      BY <1>6, <3>1
  <2>4. SearchFrom(c, k) = g + 2
    <3>1. k # 0
      BY <1>3
    <3> QED
      BY <3>1 DEF SearchFrom
  <2>5. Searching(c, k)'
    BY <1>1, <1>2, <2>1, <2>2, <2>3, <2>4 DEF Searching, Offset
  <2> QED
    BY <1>1, <1>2, <2>1, <2>5 DEF InPart, Track
<1>15. CASE ~FindBoundaryMismatch
  <2>1. cur' = cur + 1 /\ pc' # "done" /\ UNCHANGED <<state, anchor, content_length>>
    BY <1>1, <1>13, <1>15 DEF StateFindBoundary, IncrementCur
  <2>2. (pos - head + cur)' = at + 1 /\ (pos - head + anchor)' = from
    BY <1>1, <2>1, Received DEF Offset
  <2>3. t # n + 1
    <3> HIDE DEF t, n
    <3>1. t = n + 1 => cur + 1 - anchor = n + 2
      BY <1>4, <1>7
    <3>2. t = n + 1 => FindBoundaryMismatch
      BY <1>2, <1>13, <3>1 DEF FindBoundaryMismatch, FoundBoundaryCRLF, n
    <3> QED
      BY <1>15, <3>2
  <2>4. at < d /\ t <= n
    <3>1. /\ n \in Nat /\ g \in Nat /\ d \in Nat /\ at \in Nat /\ from \in Nat /\ t \in Nat
          /\ at = from + t /\ t <= n + 1 /\ g <= from /\ at <= d /\ (at = d => t = n + 1) /\ t >= 1
      BY <1>4, <1>5, <1>7, Zenon
    <3> HIDE DEF at, d, from, g, n, t
    <3> QED
      BY <2>3, <3>1
  <2>5. at + 1 = d => t = n
    <3> SUFFICES ASSUME at + 1 = d, t # n PROVE FALSE
      OBVIOUS
    <3>1. t + 1 \in 1 .. n
      <4> HIDE DEF t, n
      <4> QED
        BY <1>4, <1>7, <2>4
    <3>2. buf[cur] = b[t + 1]
      <4>1. cur + 1 - anchor <= n /\ cur - anchor + 1 = t + 1
        <5> HIDE DEF t, n
        <5> QED
          BY <1>7, <3>1
      <4> QED
        BY <1>2, <1>15, <4>1, Zenon DEF FindBoundaryMismatch
    <3>3. b[t + 1] # D9
      BY <3>1, BoundBytes
    <3> QED
      BY <1>11, <2>4, <3>2, <3>3
  <2>6. /\ from < at + 1 /\ at + 1 <= from + n + 1 /\ at + 1 <= d
        /\ at + 1 = d => at + 1 = from + n + 1
    <3> HIDE DEF at, d, t, n, from
    <3> QED
      BY <1>4, <1>5, <1>7, <2>4, <2>5
  <2>7. AtPrefix(c)'
    BY <1>1, <2>1, <2>2, <2>6 DEF AtPrefix, Offset
  <2>8. Searching(c, k)'
    BY <1>1, <1>2, <1>7, <2>1, <2>2, <2>6, <2>7 DEF Searching, Offset
  <2> QED
    BY <1>1, <1>2, <2>1, <2>8 DEF InPart, Track
<1> QED
  BY <1>14, <1>15

\* The boundary is compared with what begins two characters in front of it: the
\* comparison fails, and the scan goes on at the boundary itself.
LEMMA DoubledTrack ==
  ASSUME IInv, NEW c, WellFormed(c), Rendered(c) = stream, NEW k \in 0 .. Count(c), InPart(c, k),
         StateFindBoundary, AtPrefix(c), k < Count(c), Doubled(c),
         Offset(anchor) = MarkAt(c, k + 1) - 2
  PROVE  Track(c)'
<1> DEFINE at   == Offset(cur)
           from == Offset(anchor)
           b    == Bound(c)
           n    == Len(b)
           M    == MarkAt(c, k + 1)
           t    == cur - anchor
           to   == SearchTo(c, k)
<1>1. /\ pc = "parse" /\ state = "FIND_BOUNDARY" /\ anchor # NULL
      /\ UNCHANGED <<stream, pos, head, boundary, frames>>
  BY DEF StateFindBoundary, In, source, output, AtPrefix
<1>2. /\ boundary = b /\ frames = Delivered(c, k)
      /\ content_length = 0 \/ k = Count(c) \/ Eol(c) = 2
  BY <1>1 DEF InPart, Searching, InSubheader, BeforeImage, InImage
<1>3. /\ M \in Nat /\ n \in Nat /\ n >= 1 /\ M >= 2 /\ to = M
      /\ \A m \in 1 .. n : stream[M + m] = b[m]
      /\ stream[M] = b[1]
      /\ \A m \in 1 .. n : b[m] # LF
  <2>1. /\ M \in Nat /\ to = M
        /\ \A m \in 1 .. n : stream[M + m] = b[m]
    BY MarkBytes
  <2>2. n \in Nat /\ n >= 1
    BY ScriptParts
  <2>3. Behind(c, k) \in Nat /\ Behind(c, k) + 2 <= M /\ stream[M] = b[1]
    BY BeforeMark
  <2>4. \A m \in 1 .. n : b[m] # LF
    BY BoundBytes
  <2>5. M >= 2
    BY <2>1, <2>3
  <2> QED
    BY <2>1, <2>2, <2>3, <2>4, <2>5, Zenon
<1>4. /\ at \in Nat /\ from \in Nat /\ t \in Nat /\ buf[cur] = stream[at + 1]
      /\ at = from + t /\ t >= 1 /\ t <= n + 1 /\ from = M - 2
      /\ cur + 1 - anchor = t + 1 /\ cur - anchor + 1 = t + 1
  <2>1. /\ at \in Nat /\ from \in Nat /\ buf[cur] = stream[at + 1]
        /\ at = from + t /\ t \in Nat /\ t >= 1
    BY <1>1, AnchoredBytes
  <2>2. cur \in Int /\ anchor \in Int
    BY <1>1, Received
  <2>3. at <= from + n + 1
    BY DEF AtPrefix
  <2>4. cur + 1 - anchor = t + 1 /\ cur - anchor + 1 = t + 1
    BY <2>2
  <2>5. from = M - 2
    OBVIOUS
  <2> HIDE DEF at, from, n, t, M
  <2>6. t <= n + 1
    BY <1>3, <2>1, <2>3
  <2> QED
    BY <2>1, <2>4, <2>5, <2>6, Zenon
\* The line does not end within reach.
<1>5. t \in {n, n + 1} => buf[cur] # LF
  <2> HIDE DEF at, from, n, t, M, b
  <2>1. t = n + 1 => n \in 1 .. n /\ at + 1 = M + n
    BY <1>3, <1>4
  <2>2. t = n /\ n # 1 => n - 1 \in 1 .. n /\ at + 1 = M + (n - 1)
    BY <1>3, <1>4
  <2>3. t = n /\ n = 1 => 1 \in 1 .. n /\ at + 1 = M
    BY <1>3, <1>4
  <2> QED
    BY <1>3, <1>4, <2>1, <2>2, <2>3
<1>6. ~FoundBoundaryLF /\ ~FoundBoundaryCRLF
  <2>1. FoundBoundaryLF => t = n /\ buf[cur] = LF
    <3> HIDE DEF t, n
    <3> QED
      BY <1>2, <1>3, <1>4 DEF FoundBoundaryLF, n
  <2>2. FoundBoundaryCRLF => t = n + 1 /\ buf[cur] = LF
    <3>1. FoundBoundaryCRLF => t + 1 = n + 2 /\ buf[cur] = LF
      BY <1>2, <1>4, Zenon DEF FoundBoundaryCRLF
    <3>2. t \in Nat /\ n \in Nat
      BY <1>3, <1>4, Zenon
    <3> HIDE DEF t, n
    <3>3. t + 1 = n + 2 => t = n + 1
      BY <3>2
    <3> QED
      BY <3>1, <3>3, Zenon
  <2> QED
    BY <1>5, <2>1, <2>2, Zenon
<1>7. CASE FindBoundaryMismatch
  <2>1. /\ anchor' = NULL /\ cur' = anchor + 1 + 1 /\ pc' # "done" /\ UNCHANGED <<state, content_length>>
    BY <1>1, <1>6, <1>7 DEF StateFindBoundary, RestartScan, IncrementCur
  <2>2. (pos - head + cur)' = from + 2
    BY <1>1, <2>1, Received DEF Offset
  <2>3. SearchFrom(c, k) <= from + 2 /\ from + 2 <= to /\ from + 2 # to - 1
    <3>1. SearchFrom(c, k) <= to
      BY FromBeforeTo
    <3> HIDE DEF from, to, M
    <3> QED
      BY <1>3, <1>4, <3>1
  <2>4. Searching(c, k)'
    BY <1>1, <1>2, <2>1, <2>2, <2>3 DEF Searching, Offset
  <2> QED
    BY <1>1, <1>2, <2>1, <2>4 DEF InPart, Track
<1>8. CASE ~FindBoundaryMismatch
  <2>1. cur' = cur + 1 /\ pc' # "done" /\ UNCHANGED <<state, anchor, content_length>>
    BY <1>1, <1>6, <1>8 DEF StateFindBoundary, IncrementCur
  <2>2. (pos - head + cur)' = at + 1 /\ (pos - head + anchor)' = from
    BY <1>1, <2>1, Received DEF Offset
  <2>3. t # n + 1
    <3> HIDE DEF t, n
    <3>1. t = n + 1 => cur + 1 - anchor = n + 2
      BY <1>3, <1>4
    <3>2. t = n + 1 => FindBoundaryMismatch
      BY <1>2, <1>6, <3>1 DEF FindBoundaryMismatch, FoundBoundaryCRLF, n
    <3> QED
      BY <1>8, <3>2
  <2>4. from < at + 1 /\ at + 1 <= from + n + 1
    <3> HIDE DEF at, from, t, n, M
    <3> QED
      BY <1>3, <1>4, <2>3
  <2>5. AtPrefix(c)'
    BY <1>1, <2>1, <2>2, <2>4 DEF AtPrefix, Offset
  <2>6. Searching(c, k)'
    BY <1>1, <1>2, <1>4, <2>1, <2>2, <2>4, <2>5 DEF Searching, Offset
  <2> QED
    BY <1>1, <1>2, <2>1, <2>6 DEF InPart, Track
<1> QED
  BY <1>7, <1>8

\* The search for the boundary does not stop early and does not pass the next one.
LEMMA StateFindBoundaryTrack ==
  ASSUME IInv, NEW c, WellFormed(c), Rendered(c) = stream, Track(c), StateFindBoundary
  PROVE  Track(c)'
<1>1. pc = "parse" /\ state = "FIND_BOUNDARY"
  BY DEF StateFindBoundary, In
<1>2. PICK k \in 0 .. Count(c) : InPart(c, k)
  BY <1>1 DEF Track, InHeader, InBanner, InType, InHeaderEnd
<1>3. Searching(c, k)
  BY <1>1, <1>2 DEF InPart, InSubheader, BeforeImage, InImage
<1>4. CASE anchor = NULL
  BY <1>2, <1>4, NoAnchorTrack
<1>5. CASE /\ AtPrefix(c) /\ k < Count(c) /\ Offset(anchor) = MarkAt(c, k + 1)
           /\ Offset(cur) = Offset(anchor) + Len(Bound(c)) + 1 => Eol(c) = 2
  BY <1>2, <1>5, MarkTrack
<1>6. CASE /\ AtPrefix(c) /\ Skipped(c, k) /\ ImageAt(c, k) <= Offset(anchor)
           /\ Offset(cur) <= ImageEnd(c, k)
           /\ Offset(cur) = ImageEnd(c, k) => Offset(cur) = Offset(anchor) + Len(Bound(c)) + 1
  BY <1>2, <1>6, SkippedTrack
<1>7. CASE /\ AtPrefix(c) /\ k < Count(c) /\ Doubled(c)
           /\ Offset(anchor) = MarkAt(c, k + 1) - 2
  BY <1>2, <1>7, DoubledTrack
<1> QED
  BY <1>3, <1>4, <1>5, <1>6, <1>7 DEF Searching

-----------------------------------------------------------------------------
(* All steps keep track.                                                   *)

\* The grabber starts in front of the status line.
LEMMA InitTrack ==
  ASSUME Init, NEW c, WellFormed(c)
  PROVE  Track(c)
<1>1. Eol(c) \in Nat /\ Eol(c) >= 1
  BY EolIs
<1>2. OnLine(0, Eol(c))
  BY <1>1 DEF Init, OnLine, Offset, LineStart
<1> QED
  BY <1>2 DEF Init, Track, InHeader, InBanner

\* The buffer is shifted or filled, or nothing happens: no position changes.
LEMMA SamePlace ==
  ASSUME IInv, NEW c, Track(c), pc # "done", pc' # "done",
         UNCHANGED <<state, boundary, content_length, frames>>,
         (pos - head + cur)' = Offset(cur), (pos - head + LineStart)' = Offset(LineStart),
         anchor' = NULL <=> anchor = NULL, anchor # NULL => (pos - head + anchor)' = Offset(anchor)
  PROVE  Track(c)'
<1>1. \A x, e : OnLine(x, e)' <=> OnLine(x, e)
  BY DEF OnLine, Offset
<1>2. CASE InHeader(c)
  <2>1. InHeader(c)'
    BY <1>1, <1>2 DEF InHeader, InBanner, InType, InHeaderEnd
  <2> QED
    BY <2>1 DEF Track
<1>3. ASSUME NEW k \in 0 .. Count(c), InPart(c, k)
      PROVE  InPart(c, k)'
  <2>1. CASE Searching(c, k)
    <3>1. AtPrefix(c) => AtPrefix(c)'
      BY DEF AtPrefix, Offset
    <3>2. Searching(c, k)'
      BY <2>1, <3>1 DEF Searching, AtPrefix, Offset
    <3> QED
      BY <1>3, <3>2 DEF InPart
  <2>2. CASE InSubheader(c, k + 1)
    BY <1>1, <1>3, <2>2 DEF InPart, InSubheader, Searching, BeforeImage, InImage
  <2>3. CASE BeforeImage(c, k + 1)
    <3>1. BeforeImage(c, k + 1)'
      BY <2>3 DEF BeforeImage, Offset
    <3> QED
      BY <1>3, <2>3, <3>1 DEF InPart, InSubheader, Searching, BeforeImage, InImage
  <2>4. CASE InImage(c, k + 1)
    <3>1. InImage(c, k + 1)'
      BY <2>4 DEF InImage, Offset
    <3> QED
      BY <1>3, <2>4, <3>1 DEF InPart, InSubheader, Searching, BeforeImage, InImage
  <2> QED
    BY <1>3, <2>1, <2>2, <2>3, <2>4 DEF InPart
<1> QED
  BY <1>2, <1>3 DEF Track

\* Shifting the buffer and reading move no position of the parser in the stream,
\* and when the connection ends what was delivered is what was sent.
LEMMA BufferTrack ==
  ASSUME IInv, NEW c, WellFormed(c), Rendered(c) = stream, Track(c),
         \/ AdjustStreambuf
         \/ \E n \in 1 .. BufSize - head : n <= Len(stream) - pos /\ ReadBytes(n)
         \/ ReadNothing \/ ReadFails
         \/ UNCHANGED vars
  PROVE  Track(c)'
<1> USE Received
<1>1. CASE UNCHANGED vars
  <2>1. CASE pc = "done"
    BY <1>1, <2>1 DEF vars, Track
  <2>2. CASE pc # "done"
    BY <1>1, <2>2, SamePlace DEF vars, Offset, LineStart
  <2> QED
    BY <2>1, <2>2
<1>2. CASE ReadNothing \/ ReadFails
  <2>1. pc = "read" /\ pc' = "done" /\ UNCHANGED <<pos, frames>>
    BY <1>2 DEF ReadNothing, ReadFails, Return, source, output
  <2>2. cur = head
    BY <2>1 DEF IInv, OnlyReceivedBytesRead
  <2>3. Offset(cur) = pos
    BY <2>2 DEF Offset
  <2>4. frames = Sent(c, pos, BufSize)
    BY <2>1, <2>3, TrackDelivers
  <2> QED
    BY <2>1, <2>4 DEF Track
<1>3. ASSUME NEW n \in 1 .. BufSize - head, ReadBytes(n)
      PROVE  Track(c)'
  <2>1. /\ pc = "read" /\ pc' = "parse" /\ head' = head + n /\ pos' = pos + n
        /\ UNCHANGED <<stream, state, cur, anchor, boundary, content_length, frames>>
    BY <1>3 DEF ReadBytes, output
  <2>2. \A i \in Int : pos' - head' + i = pos - head + i
    BY <2>1
  <2>3. LineStart' = LineStart /\ LineStart \in Int /\ anchor \in Int /\ cur \in Int
    BY <2>1 DEF LineStart, NULL
  <2> QED
    BY <2>1, <2>2, <2>3, SamePlace DEF Offset
<1>4. CASE AdjustStreambuf
  <2>1. /\ pc = "adjust" /\ cur = head /\ pc' = "read"
        /\ UNCHANGED <<stream, pos, state, boundary, content_length, frames>>
    BY <1>4 DEF AdjustStreambuf, source, output, IInv, OnlyReceivedBytesRead
  <2>2. CASE UNCHANGED <<head, cur, anchor>>
    BY <2>1, <2>2, SamePlace DEF Offset, LineStart
  <2>3. CASE anchor = NULL /\ cur' = 0 /\ head' = 0 /\ UNCHANGED anchor
    BY <2>1, <2>3, SamePlace DEF Offset, LineStart
  <2>4. CASE /\ anchor # NULL /\ cur' = cur - anchor /\ head' = head - anchor /\ anchor' = 0
    <3>1. LineStart' = 0 /\ LineStart = anchor /\ (anchor' = NULL <=> anchor = NULL)
      BY <2>4 DEF LineStart, NULL
    <3>2. cur \in Int /\ anchor \in Int /\ pos \in Int /\ head \in Int
      BY Received, <2>1 DEF NULL, IInv, TypeOK
    <3>3. /\ (pos - head + cur)' = Offset(cur)
          /\ (pos - head + LineStart)' = Offset(LineStart)
          /\ (pos - head + anchor)' = Offset(anchor)
      BY <2>1, <2>4, <3>1, <3>2 DEF Offset
    <3>4. pc # "done" /\ pc' # "done"
      BY <2>1
    <3> HIDE DEF NULL, Offset, LineStart
    <3> QED
      BY <2>1, <3>1, <3>3, <3>4, SamePlace
  <2>5. anchor = NULL => ~(head - KeepFrom > 0)
    BY <2>1 DEF KeepFrom
  <2>6. anchor # NULL => KeepFrom = anchor /\ anchor - anchor = 0
    BY DEF KeepFrom
  <2> QED
    BY <1>4, <2>2, <2>3, <2>4, <2>5, <2>6 DEF AdjustStreambuf
<1> QED
  BY <1>1, <1>2, <1>3, <1>4

\* Every step keeps track.
LEMMA NextTrack ==
  ASSUME IInv, ~MallocFails, NEW c, WellFormed(c), Rendered(c) = stream, Track(c), [Next]_vars
  PROVE  Track(c)'
<1>1. CASE Parse
  BY <1>1, FetchHeaderLineTrack, StateHttpBannerTrack, StateHttpHeaderTrack,
     StateHttpSubheaderTrack, StateFindBoundaryTrack, StateFindImageTrack,
     StateImageByContentLengthTrack, StateImageByEofSearchTrack DEF Parse
<1>2. CASE ~Parse
  BY <1>2, BufferTrack DEF Next
<1> QED
  BY <1>1, <1>2

\* The camera's stream is fixed; only the part of it received grows.
LEMMA StreamKept ==
  ASSUME [Next]_vars
  PROVE  UNCHANGED stream
<1>1. CASE UNCHANGED vars
  BY <1>1 DEF vars
<1>2. CASE Parse
  BY <1>2 DEF Parse, source, HeaderLine, FetchHeaderLine, StateHttpBanner, StateHttpHeader,
     StateHttpSubheader, StateFindBoundary, StateFindImage, StateImageByContentLength,
     StateImageByEofSearch
<1>3. CASE AdjustStreambuf \/ ReadNothing \/ ReadFails
  BY <1>3 DEF AdjustStreambuf, ReadNothing, ReadFails, source
<1>4. ASSUME NEW n \in 1 .. BufSize - head, ReadBytes(n)
      PROVE  UNCHANGED stream
  BY <1>4 DEF ReadBytes
<1> QED
  BY <1>1, <1>2, <1>3, <1>4 DEF Next

\* One of the scripted cameras sends, and the grabber keeps track of it.
TrackScript == stream \in ScriptStreams /\ Track(ScriptOf[stream])

\* The script that is looked up for a stream renders it.
LEMMA ScriptOfStream ==
  ASSUME stream \in ScriptStreams
  PROVE  ScriptOf[stream] \in Scripts /\ Rendered(ScriptOf[stream]) = stream
<1>1. \E c \in Scripts : Rendered(c) = stream
  BY DEF ScriptStreams
<1> QED
  BY <1>1 DEF ScriptOf

\* Whatever well-formed parts a camera sends, however the reads cut them and
\* whatever the size of the buffer: when the grabber asks for more or returns, it
\* has delivered exactly the images received in full that fit the buffer.
THEOREM ImagesDelivered ==
  ASSUME Streams \subseteq ScriptStreams, \A c \in Scripts : WellFormed(c), ~MallocFails
  PROVE  Spec => []DeliversWhatWasSent
<1>1. Init => TrackScript
  <2> SUFFICES ASSUME Init PROVE TrackScript
    OBVIOUS
  <2>1. stream \in ScriptStreams
    BY DEF Init
  <2>2. PICK c \in Scripts : c = ScriptOf[stream]
    BY <2>1, ScriptOfStream
  <2> QED
    BY <2>1, <2>2, InitTrack DEF TrackScript
<1>2. IInv /\ TrackScript /\ [Next]_vars => TrackScript'
  <2> SUFFICES ASSUME IInv, TrackScript, [Next]_vars PROVE TrackScript'
    OBVIOUS
  <2>1. PICK c \in Scripts : c = ScriptOf[stream] /\ Rendered(c) = stream
    BY ScriptOfStream DEF TrackScript
  <2>2. Track(c)'
    BY <2>1, NextTrack DEF TrackScript
  <2>3. UNCHANGED stream
    BY StreamKept
  <2> QED
    BY <2>1, <2>2, <2>3 DEF TrackScript
<1>3. IInv /\ TrackScript => DeliversWhatWasSent
  <2> SUFFICES ASSUME IInv, TrackScript, pc \in {"read", "done"}
               PROVE  frames = SentBy[stream][pos]
    BY DEF DeliversWhatWasSent
  <2>1. PICK c \in Scripts : c = ScriptOf[stream] /\ Rendered(c) = stream
    BY ScriptOfStream DEF TrackScript
  <2>2. Track(c)
    BY <2>1 DEF TrackScript
  <2>3. frames = Sent(c, pos, BufSize)
    <3>1. CASE pc = "done"
      BY <2>2, <3>1 DEF Track
    <3>2. CASE pc = "read"
      <4>1. cur = head
        BY <3>2 DEF IInv, OnlyReceivedBytesRead
      <4>2. Offset(cur) = pos /\ pc # "done"
        BY <3>2, <4>1, Received DEF Offset
      <4> QED
        BY <2>1, <2>2, <4>2, TrackDelivers
    <3> QED
      BY <3>1, <3>2
  <2>4. pos \in 0 .. Len(stream) /\ stream \in ScriptStreams
    BY DEF IInv, TypeOK, TrackScript
  <2>5. SentBy[stream] = [n \in 0 .. Len(stream) |-> Sent(c, n, BufSize)]
    BY <2>1, <2>4, Zenon DEF SentBy
  <2> QED
    BY <2>3, <2>4, <2>5
<1> QED
  BY <1>1, <1>2, <1>3, Invariance, PTL DEF Spec
=============================================================================
