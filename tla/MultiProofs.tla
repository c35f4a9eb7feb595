---------------------------- MODULE MultiProofs ----------------------------
(***************************************************************************)
(* Proofs about Multi, for every number of sources and of frames: nothing  *)
(* a thread uses is freed before the last thread has ended, whichever of   *)
(* the structures and the threads could not be made; and no two frames are *)
(* written to the same file. The latter rests on what filename_forge()     *)
(* does for every pattern, name and number, which comes first. Facts about *)
(* recursive functions are proved from the least number for which they     *)
(* would fail.                                                             *)
(***************************************************************************)
EXTENDS MCMulti, FiniteSetTheorems, SequenceTheorems, WellFoundedInduction, TLAPS

-----------------------------------------------------------------------------
(* Induction up to a bound.                                                *)

\* A set of naturals has a least element.
LEMMA LeastElement ==
  ASSUME NEW T, T \subseteq Nat, T # {}
  PROVE  \E m \in T : \A n \in T : m <= n
<1>1. PICK m \in T : \A n \in T : <<n, m>> \notin OpToRel(<, Nat)
  BY NatLessThanWellFounded, WFMin, Zenon
<1>2. \A n \in T : <<n, m>> \in OpToRel(<, Nat) <=> n < m
  BY Zenon DEF OpToRel
<1>3. \A n \in T : ~(n < m)
  BY <1>1, <1>2, Zenon
<1> QED
  BY <1>3

\* What holds of 0 and passes from each number to the next holds up to N.
LEMMA Upwards ==
  ASSUME NEW N \in Nat, NEW S, 0 \in S,
         \A k \in 0 .. N - 1 : k \in S => k + 1 \in S
  PROVE  \A k \in 0 .. N : k \in S
<1> DEFINE T == {k \in 0 .. N : k \notin S}
<1> SUFFICES ASSUME T # {} PROVE FALSE
  OBVIOUS
<1>1. T \subseteq Nat
  OBVIOUS
<1>2. PICK m \in T : \A n \in T : m <= n
  BY <1>1, LeastElement
<1>3. m \in 1 .. N /\ m - 1 \notin T /\ m - 1 + 1 = m
  BY <1>2
<1>4. m - 1 \in S
  BY <1>3
<1> QED
  BY <1>2, <1>3, <1>4

\* The characters. The provers do not know that a literal is a string.
Char == STRING \cup {"0", "1", "2", "3", "4", "5", "6", "7", "8", "9",
                     "%", "f", "n", "x", "_", ".", "j", "p", "g", "a"}

\* A number larger than any an unsigned int holds.
Limit == 10 ^ 10

\* The powers of ten up to Limit.
LEMMA Powers ==
  /\ 10 ^ 0 = 1 /\ 10 ^ 1 = 10 /\ 10 ^ 2 = 100 /\ 10 ^ 3 = 1000 /\ 10 ^ 4 = 10000
  /\ 10 ^ 5 = 100000 /\ 10 ^ 6 = 1000000 /\ 10 ^ 7 = 10000000 /\ 10 ^ 8 = 100000000
  /\ 10 ^ 9 = 1000000000 /\ 10 ^ 10 = 10000000000
BY SMT

\* Each is ten times the one before.
LEMMA PowerStep ==
  ASSUME NEW k \in 0 .. 9
  PROVE  10 ^ k \in Nat \ {0} /\ 10 ^ (k + 1) = 10 * 10 ^ k
<1>1. \/ k = 0 \/ k = 1 \/ k = 2 \/ k = 3 \/ k = 4 \/ k = 5 \/ k = 6 \/ k = 7 \/ k = 8 \/ k = 9
  BY SMT
<1>2. CASE k = 0
  BY <1>2, Powers, SMT
<1>3. CASE k = 1
  BY <1>3, Powers, SMT
<1>4. CASE k = 2
  BY <1>4, Powers, SMT
<1>5. CASE k = 3
  BY <1>5, Powers, SMT
<1>6. CASE k = 4
  BY <1>6, Powers, SMT
<1>7. CASE k = 5
  BY <1>7, Powers, SMT
<1>8. CASE k = 6
  BY <1>8, Powers, SMT
<1>9. CASE k = 7
  BY <1>9, Powers, SMT
<1>10. CASE k = 8
  BY <1>10, Powers, SMT
<1>11. CASE k = 9
  BY <1>11, Powers, SMT
<1> QED
  BY <1>1, <1>2, <1>3, <1>4, <1>5, <1>6, <1>7, <1>8, <1>9, <1>10, <1>11

\* Copied is a recursive function: there is one, so that its equation holds.
CopyStep(srcname, fnum, pat, f, c) ==
  CASE c > Len(pat)            -> <<>>
    [] c \in Places(pat, "f")  -> fnum \o f[c + 2]
    [] c \in Places(pat, "n")  -> srcname \o f[c + 2]
    [] OTHER                   -> <<pat[c]>> \o f[c + 1]

LEMMA CopiedIf ==
  ASSUME NEW srcname, NEW fnum, NEW pat, 
         \E g : g = [c \in 1 .. Len(pat) + 1 |-> CopyStep(srcname, fnum, pat, g, c)]
  PROVE  Copied(srcname, fnum, pat) =
           [c \in 1 .. Len(pat) + 1 |->
              CopyStep(srcname, fnum, pat, Copied(srcname, fnum, pat), c)]
BY Zenon DEF Copied, CopyStep

LEMMA CopiedExists ==
  ASSUME NEW srcname, NEW fnum, NEW pat, Len(pat) \in Nat
  PROVE  \E g : g = [c \in 1 .. Len(pat) + 1 |-> CopyStep(srcname, fnum, pat, g, c)]
<1> DEFINE N == Len(pat)
           Step(g, c) == CopyStep(srcname, fnum, pat, g, c)
           From(k, g) == \A c \in N + 1 - k .. N + 1 : g[c] = Step(g, c)
           S == {k \in 0 .. N : \E g : From(k, g)}
<1>1. \A g : Step(g, N + 1) = <<>>
  <2>1. N + 1 > N /\ N + 1 \notin Places(pat, "f") /\ N + 1 \notin Places(pat, "n")
    BY DEF Places
  <2> QED
    BY <2>1 DEF CopyStep
<1>2. ASSUME NEW g, NEW h, NEW c \in 1 .. N,
             \A d \in c + 1 .. N + 1 : g[d] = h[d]
      PROVE  Step(g, c) = Step(h, c)
  <2>1. g[c + 1] = h[c + 1]
    BY <1>2
  <2>2. ASSUME c \in Places(pat, "f") \cup Places(pat, "n")
        PROVE  g[c + 2] = h[c + 2]
    BY <1>2, <2>2 DEF Places
  <2> QED
    BY <2>1, <2>2, Zenon DEF CopyStep
<1> HIDE DEF Step
<1>3. N \in Nat
  OBVIOUS
<1> HIDE DEF N
<1>4. 0 \in S
  <2> DEFINE g == [c \in 1 .. N + 1 |-> <<>>]
  <2>1. From(0, g)
    BY <1>1, <1>3
  <2> QED
    BY <1>3, <2>1
<1>5. ASSUME NEW k \in 0 .. N - 1, k \in S
      PROVE  k + 1 \in S
  <2>1. PICK g : From(k, g)
    BY <1>5
  <2> DEFINE b == N - k
             h == [c \in 1 .. N + 1 |-> IF c = b THEN Step(g, b) ELSE g[c]]
  <2>2. b \in 1 .. N /\ N + 1 - k = b + 1 /\ N + 1 - (k + 1) = b
    BY <1>3
  <2> HIDE DEF b
  <2>3. h[b] = Step(g, b) /\ \A d \in b + 1 .. N + 1 : h[d] = g[d]
    BY <1>3, <2>2
  <2> HIDE DEF h
  <2>4. Step(g, b) = Step(h, b)
    BY <1>2, <1>3, <2>1, <2>2, <2>3
  <2>5. ASSUME NEW c \in b + 1 .. N + 1
        PROVE  h[c] = Step(h, c)
    <3>1. g[c] = Step(g, c) /\ h[c] = g[c]
      BY <2>1, <2>2, <2>3, <2>5
    <3>2. CASE c = N + 1
      BY <1>1, <1>3, <3>1, <3>2
    <3>3. CASE c \in b + 1 .. N
      <4>1. c \in 1 .. N /\ \A d \in c + 1 .. N + 1 : g[d] = h[d]
        BY <1>3, <2>2, <2>3, <3>3
      <4>2. Step(g, c) = Step(h, c)
        BY <1>2, <4>1, Zenon
      <4> QED
        BY <3>1, <4>2
    <3> QED
      BY <1>3, <2>2, <3>2, <3>3
  <2>6. From(k + 1, h)
    BY <1>3, <2>2, <2>3, <2>4, <2>5
  <2>7. k + 1 \in 0 .. N
    BY <1>3
  <2> QED
    BY <2>6, <2>7
<1>6. N \in S
  <2> HIDE DEF S
  <2>1. \A k \in 0 .. N : k \in S
    BY <1>3, <1>4, <1>5, Upwards
  <2> QED
    BY <1>3, <2>1
<1>7. PICK g : From(N, g)
  BY <1>6
<1>8. N + 1 - N = 1
  BY <1>3
<1> DEFINE G == [c \in 1 .. N + 1 |-> g[c]]
<1>9. ASSUME NEW c \in 1 .. N + 1
      PROVE  g[c] = Step(G, c)
  <2>1. g[c] = Step(g, c)
    BY <1>3, <1>7, <1>8
  <2>2. \A d \in 1 .. N + 1 : g[d] = G[d]
    OBVIOUS
  <2> HIDE DEF G
  <2>3. CASE c = N + 1
    BY <1>1, <2>1, <2>3
  <2>4. CASE c \in 1 .. N
    <3>1. \A d \in c + 1 .. N + 1 : g[d] = G[d]
      BY <1>3, <2>2
    <3>2. Step(g, c) = Step(G, c)
      BY <1>2, <2>4, <3>1, Zenon
    <3> QED
      BY <2>1, <3>2
  <2> QED
    BY <1>3, <2>3, <2>4
<1>10. G = [c \in 1 .. N + 1 |-> Step(G, c)]
  BY <1>9, Zenon
<1> HIDE DEF G
<1> QED
  BY <1>10 DEF N, Step

\* The recursion that defines Copied.
LEMMA CopiedIs ==
  ASSUME NEW srcname, NEW fnum, NEW pat, Len(pat) \in Nat, NEW c \in 1 .. Len(pat) + 1
  PROVE  LET f == Copied(srcname, fnum, pat)
         IN  f[c] = CopyStep(srcname, fnum, pat, f, c)
<1> DEFINE f == Copied(srcname, fnum, pat)
<1>1. f = [d \in 1 .. Len(pat) + 1 |-> CopyStep(srcname, fnum, pat, f, d)]
  <2>1. \E g : g = [d \in 1 .. Len(pat) + 1 |-> CopyStep(srcname, fnum, pat, g, d)]
    BY CopiedExists
  <2> QED
    BY <2>1, CopiedIf
<1> HIDE DEF f
<1>2. f[c] = CopyStep(srcname, fnum, pat, f, c)
  BY <1>1
<1> QED
  BY <1>2 DEF f

-----------------------------------------------------------------------------
\* They are positive.
LEMMA PowerIsNat ==
  ASSUME NEW k \in 0 .. 10
  PROVE  10 ^ k \in Nat \ {0}
<1>1. CASE k = 10
  <2>1. 10 ^ 10 \in Nat \ {0}
    BY SMT
  <2> QED
    BY <1>1, <2>1, SMT
<1>2. CASE k \in 0 .. 9
  BY <1>2, PowerStep
<1> QED
  BY <1>1, <1>2, SMT

LEMMA PowersGrow ==
  ASSUME NEW k \in 0 .. 10, NEW i \in 0 .. k
  PROVE  10 ^ i <= 10 ^ k
<1> DEFINE S == {m \in 0 .. 10 : \A j \in 0 .. m : 10 ^ j <= 10 ^ m}
<1>1. 0 \in S
  <2>1. \A j \in 0 .. 0 : j = 0
    OBVIOUS
  <2>2. 10 ^ 0 <= 10 ^ 0
    BY SMT
  <2>3. \A j \in 0 .. 0 : 10 ^ j <= 10 ^ 0
    BY <2>1, <2>2, Zenon
  <2>4. 0 \in 0 .. 10
    OBVIOUS
  <2> QED
    BY <2>3, <2>4, Zenon
<1>2. ASSUME NEW m \in 0 .. 9, m \in S
      PROVE  m + 1 \in S
  <2> DEFINE p == 10 ^ m
             q == 10 ^ (m + 1)
  <2>1. p \in Nat \ {0} /\ q = 10 * p
    BY PowerStep
  <2> HIDE DEF p, q
  <2>2. q \in Nat \ {0} /\ p <= q
    BY <2>1
  <2>3. ASSUME NEW j \in 0 .. m + 1
        PROVE  10 ^ j <= q
    <3>1. CASE j = m + 1
      BY <2>2, <3>1 DEF q
    <3>2. CASE j \in 0 .. m
      <4> DEFINE x == 10 ^ j
      <4>1. x <= p
        BY <1>2, <3>2 DEF p
      <4>2. x \in Nat
        <5>1. j \in 0 .. 10
          BY <3>2
        <5> QED
          BY <5>1, PowerIsNat
      <4> HIDE DEF x
      <4>3. x <= q
        BY <2>1, <2>2, <4>1, <4>2
      <4> QED
        BY <4>3 DEF x
    <3> QED
      BY <3>1, <3>2
  <2>4. m + 1 \in 0 .. 10
    OBVIOUS
  <2> QED
    BY <2>3, <2>4 DEF q
<1> HIDE DEF S
<1>3. \A m \in 0 .. 10 : m \in S
  BY <1>1, <1>2, Upwards
<1> QED
  BY <1>3 DEF S

\* Division by the powers of ten, one after the other.
LEMMA DivideAgain ==
  ASSUME NEW n \in Nat, NEW k \in 0 .. 9
  PROVE  n \div 10 ^ (k + 1) = (n \div 10 ^ k) \div 10
<1>1. \/ k = 0 \/ k = 1 \/ k = 2 \/ k = 3 \/ k = 4 \/ k = 5 \/ k = 6 \/ k = 7 \/ k = 8 \/ k = 9
  BY SMT
<1>2. CASE k = 0
  <2>1. 10 ^ k = 1 /\ 10 ^ (k + 1) = 10
    BY <1>2, Powers, SMT
  <2> QED
    BY <2>1, SMT
<1>3. CASE k = 1
  <2>1. 10 ^ k = 10 /\ 10 ^ (k + 1) = 100
    BY <1>3, Powers, SMT
  <2> QED
    BY <2>1, SMT
<1>4. CASE k = 2
  <2>1. 10 ^ k = 100 /\ 10 ^ (k + 1) = 1000
    BY <1>4, Powers, SMT
  <2> QED
    BY <2>1, SMT
<1>5. CASE k = 3
  <2>1. 10 ^ k = 1000 /\ 10 ^ (k + 1) = 10000
    BY <1>5, Powers, SMT
  <2> QED
    BY <2>1, SMT
<1>6. CASE k = 4
  <2>1. 10 ^ k = 10000 /\ 10 ^ (k + 1) = 100000
    BY <1>6, Powers, SMT
  <2> QED
    BY <2>1, SMT
<1>7. CASE k = 5
  <2>1. 10 ^ k = 100000 /\ 10 ^ (k + 1) = 1000000
    BY <1>7, Powers, SMT
  <2> QED
    BY <2>1, SMT
<1>8. CASE k = 6
  <2>1. 10 ^ k = 1000000 /\ 10 ^ (k + 1) = 10000000
    BY <1>8, Powers, SMT
  <2> QED
    BY <2>1, SMT
<1>9. CASE k = 7
  <2>1. 10 ^ k = 10000000 /\ 10 ^ (k + 1) = 100000000
    BY <1>9, Powers, SMT
  <2> QED
    BY <2>1, SMT
<1>10. CASE k = 8
  <2>1. 10 ^ k = 100000000 /\ 10 ^ (k + 1) = 1000000000
    BY <1>10, Powers, SMT
  <2> QED
    BY <2>1, SMT
<1>11. CASE k = 9
  <2>1. 10 ^ k = 1000000000 /\ 10 ^ (k + 1) = 10000000000
    BY <1>11, Powers, SMT
  <2> QED
    BY <2>1, SMT
<1> QED
  BY <1>1, <1>2, <1>3, <1>4, <1>5, <1>6, <1>7, <1>8, <1>9, <1>10, <1>11

\* framenum_expanded_len() counts the digits of a number.
LEMMA LengthIs ==
  ASSUME NEW n \in Nat, n < Limit
  PROVE  /\ FramenumExpandedLen(n) \in 1 .. 10
         /\ n < 10 ^ FramenumExpandedLen(n)
         /\ FramenumExpandedLen(n) = 1 \/ 10 ^ (FramenumExpandedLen(n) - 1) <= n
<1> DEFINE T == {j \in 0 .. 9 : n < 10 ^ (j + 1)}
<1>1. PICK j \in T : \A i \in T : j <= i
  <2>1. 9 + 1 = 10
    OBVIOUS
  <2>2. 9 \in T
    BY <2>1, SMT DEF Limit
  <2>3. T \subseteq Nat /\ T # {}
    <3>1. T \subseteq Nat
      OBVIOUS
    <3> QED
      BY <2>2, <3>1, Zenon
  <2> QED
    BY <2>3, LeastElement
<1>2. n < 10 ^ (j + 1)
  BY <1>1
<1>8. j \in 0 .. 9
  BY <1>1
<1>3. j = 0 \/ 10 ^ j <= n
  <2> SUFFICES ASSUME j # 0 PROVE 10 ^ j <= n
    OBVIOUS
  <2>1. j - 1 \in 0 .. 9 /\ j - 1 \notin T /\ j - 1 + 1 = j
    BY <1>1
  <2>2. ~(n < 10 ^ j) /\ 10 ^ j \in Nat
    BY <2>1, PowerStep
  <2> QED
    BY <2>2
<1> HIDE DEF T
<1>4. ASSUME NEW k \in 1 .. 9
      PROVE  n >= 10 ^ k <=> k <= j
  <2> DEFINE p == 10 ^ k
             a == 10 ^ j
             b == 10 ^ (j + 1)
  <2>1. k \in 0 .. 10 /\ j \in 0 .. 10 /\ j + 1 \in 0 .. 10
    BY <1>8
  <2>2. p \in Nat /\ a \in Nat /\ b \in Nat
    BY <2>1, PowerIsNat
  <2>3. ASSUME k <= j
        PROVE  p <= a /\ a <= n
    <3>1. k \in 0 .. j /\ j # 0
      BY <1>8, <2>3
    <3>2. p <= a
      BY <2>1, <3>1, PowersGrow
    <3> QED
      BY <1>3, <3>1, <3>2
  <2>4. ASSUME ~(k <= j)
        PROVE  b <= p
    <3>1. j + 1 \in 0 .. k
      BY <1>8, <2>4
    <3> QED
      BY <2>1, <3>1, PowersGrow
  <2>5. n < b
    BY <1>2
  <2> HIDE DEF p, a, b
  <2>6. n >= p <=> k <= j
    BY <2>2, <2>3, <2>4, <2>5
  <2> QED
    BY <2>6 DEF p
<1> DEFINE D == {k \in 1 .. 9 : n >= 10 ^ k}
<1>5. D = 1 .. j
  <2>1. \A k : k \in 1 .. 9 /\ k <= j <=> k \in 1 .. j
    BY <1>8
  <2> QED
    BY <1>4, <2>1, Zenon
<1>6. FramenumExpandedLen(n) = j + 1
  <2>1. Cardinality(1 .. j) = j
    <3>1. j \in Nat
      BY <1>8
    <3> QED
      BY <3>1, FS_Interval
  <2>2. FramenumExpandedLen(n) = 1 + Cardinality(D)
    BY Zenon DEF FramenumExpandedLen
  <2> HIDE DEF D
  <2> QED
    BY <1>5, <1>8, <2>1, <2>2
<1>7. j + 1 - 1 = j /\ j + 1 \in 1 .. 10
  BY <1>8
<1>9. j + 1 = 1 \/ 10 ^ j <= n
  BY <1>3
<1> DEFINE len == FramenumExpandedLen(n)
<1> HIDE DEF D, len
<1>10. len \in 1 .. 10 /\ len - 1 = j
  <2>1. len = j + 1
    BY <1>6 DEF len
  <2> QED
    BY <1>8, <2>1
<1>11. n < 10 ^ len /\ (len = 1 \/ 10 ^ (len - 1) <= n)
  BY <1>2, <1>6, <1>9, <1>10, Zenon DEF len
<1> QED
  BY <1>10, <1>11, Zenon DEF len

\* The value of a digit.
LEMMA DigitsDiffer ==
  ASSUME NEW v \in 0 .. 9, NEW w \in 0 .. 9, Digits[v + 1] = Digits[w + 1]
  PROVE  v = w
BY DEF Digits

\* What itoa() writes for a number with this many digits, read from the left.
LEMMA DigitAt ==
  ASSUME NEW n \in Nat, NEW len \in 1 .. 10, NEW i \in 1 .. len
  PROVE  /\ Itoa(n, len)[i] = Digits[((n \div 10 ^ (len - i)) % 10) + 1]
         /\ (n \div 10 ^ (len - i)) % 10 \in 0 .. 9
         /\ n \div 10 ^ (len - i) = 10 * (n \div 10 ^ (len - (i - 1))) + ((n \div 10 ^ (len - i)) % 10)
<1> DEFINE k == len - i
           q == n \div 10 ^ k
<1>1. k \in 0 .. 9 /\ len - (i - 1) = k + 1
  OBVIOUS
<1>2. Itoa(n, len)[i] = Digits[(q % 10) + 1]
  BY DEF Itoa
<1>3. 10 ^ k \in Nat \ {0}
  BY <1>1, PowerStep
<1>4. q \in Nat
  BY <1>3
<1>5. n \div 10 ^ (k + 1) = q \div 10
  BY <1>1, DivideAgain
<1> HIDE DEF q
<1>6. q % 10 \in 0 .. 9 /\ q = 10 * (q \div 10) + (q % 10)
  BY <1>4
<1> QED
  BY <1>1, <1>2, <1>5, <1>6 DEF q

\* The digits that itoa() writes stand for the number.
LEMMA NumberIs ==
  ASSUME NEW n \in Nat, NEW len \in 1 .. 10, n < 10 ^ len
  PROVE  Number(Itoa(n, len)) = n
<1> DEFINE text == Itoa(n, len)
           Value(d) == CHOOSE v \in 0 .. 9 : Digits[v + 1] = d
           q(i) == n \div 10 ^ (len - i)
           Step(g, i) == IF i = 0 THEN 0 ELSE 10 * g[i - 1] + Value(text[i])
<1>1. Len(text) = len
  BY DEF Itoa
<1>2. ASSUME NEW i \in 1 .. len
      PROVE  Value(text[i]) = q(i) % 10
  <2>1. text[i] = Digits[(q(i) % 10) + 1] /\ q(i) % 10 \in 0 .. 9
    BY DigitAt
  <2> HIDE DEF q, text
  <2> QED
    BY <2>1, DigitsDiffer
<1>3. q(0) = 0
  <2>1. len - 0 = len /\ 10 ^ len \in Nat \ {0}
    BY PowerIsNat
  <2> QED
    BY <2>1
<1>4. \A i \in 1 .. len : q(i) = 10 * q(i - 1) + (q(i) % 10)
  BY DigitAt
<1> HIDE DEF text, Value, q
<1> DEFINE g == [i \in 0 .. len |-> q(i)]
<1>5. g = [i \in 0 .. len |-> Step(g, i)]
  <2>1. ASSUME NEW i \in 1 .. len
        PROVE  q(i) = Step(g, i)
    <3>1. g[i - 1] = q(i - 1)
      OBVIOUS
    <3> HIDE DEF g
    <3> QED
      BY <1>2, <1>4, <3>1
  <2>2. q(0) = Step(g, 0)
    BY <1>3
  <2>3. \A i \in 0 .. len : q(i) = Step(g, i)
    BY <2>1, <2>2
  <2> QED
    BY <2>3, Zenon
<1> HIDE DEF g
<1> DEFINE f == CHOOSE h : h = [i \in 0 .. len |-> Step(h, i)]
<1>6. f = [i \in 0 .. len |-> Step(f, i)]
  BY <1>5, Zenon
<1>7. Number(text) = f[len]
  BY <1>1 DEF Number, Value
<1> HIDE DEF f
<1>8. \A i \in 0 .. len : f[i] = Step(f, i)
  BY <1>6
<1> DEFINE S == {i \in 0 .. len : f[i] = q(i)}
<1>9. 0 \in S
  BY <1>3, <1>8
<1>10. ASSUME NEW i \in 0 .. len - 1, i \in S
       PROVE  i + 1 \in S
  <2>1. i + 1 \in 1 .. len /\ i + 1 - 1 = i
    OBVIOUS
  <2>2. f[i + 1] = 10 * f[i] + Value(text[i + 1])
    BY <1>8, <2>1
  <2>3. q(i + 1) = 10 * q(i) + Value(text[i + 1])
    BY <1>2, <1>4, <2>1
  <2> QED
    BY <1>10, <2>1, <2>2, <2>3
<1> HIDE DEF S
<1>11. len \in S
  BY <1>9, <1>10, Upwards
<1>12. q(len) = n
  <2>1. len - len = 0 /\ 10 ^ 0 = 1
    BY Powers
  <2> QED
    BY <2>1 DEF q
<1> QED
  BY <1>7, <1>11, <1>12 DEF S, text

\* No digit is wasted.
LEMMA FirstDigit ==
  ASSUME NEW n \in Nat, n < Limit, Itoa(n, FramenumExpandedLen(n))[1] = "0"
  PROVE  n = 0
<1> DEFINE len == FramenumExpandedLen(n)
           p == 10 ^ (len - 1)
<1>1. len \in 1 .. 10 /\ n < 10 ^ len /\ (len = 1 \/ p <= n)
  BY LengthIs
<1> HIDE DEF len
<1>2. len - 1 \in 0 .. 9 /\ len - 1 + 1 = len
  BY <1>1
<1>3. p \in Nat \ {0} /\ 10 ^ len = 10 * p
  BY <1>2, PowerStep
<1>4. Itoa(n, len)[1] = Digits[((n \div p) % 10) + 1] /\ (n \div p) % 10 \in 0 .. 9
  <2>1. Itoa(n, len)[1] = Digits[((n \div 10 ^ (len - 1)) % 10) + 1] /\ (n \div 10 ^ (len - 1)) % 10 \in 0 .. 9
    <3>1. 1 \in 1 .. len
      BY <1>1
    <3> QED
      BY <1>1, <3>1, DigitAt
  <2> QED
    BY <2>1
<1>5. Digits[0 + 1] = "0"
  BY DEF Digits
<1>6. (n \div p) % 10 = 0
  BY <1>4, <1>5, DigitsDiffer DEF len
<1>7. len = 1 => p = 1
  BY Powers
<1> HIDE DEF p
<1>8. n < 10 * p
  BY <1>1, <1>3
<1>9. n \div p = 0
  BY <1>3, <1>6, <1>8, SMT
<1>10. n < p
  BY <1>3, <1>9, SMT
<1> QED
  BY <1>1, <1>3, <1>7, <1>10

-----------------------------------------------------------------------------
(* What filename_forge() makes of any name and any pattern.                *)

\* The placeholders that stand at position c of the pattern or behind it.
Left(pat, x, c) == Cardinality({i \in Places(pat, x) : i >= c})

LEMMA PlacesLeft ==
  ASSUME NEW pat \in Seq(Char), NEW x, NEW c \in 1 .. Len(pat)
  PROVE  /\ Left(pat, x, c + 1) \in Nat
         /\ Left(pat, x, c) = Left(pat, x, c + 1) + IF c \in Places(pat, x) THEN 1 ELSE 0
<1> DEFINE After == {i \in Places(pat, x) : i >= c + 1}
           From  == {i \in Places(pat, x) : i >= c}
           N     == Len(pat)
<1>1. N \in Nat
  OBVIOUS
<1>2. Places(pat, x) \subseteq 1 .. N
  BY <1>1 DEF Places
<1> HIDE DEF N
<1>3. IsFiniteSet(1 .. N)
  BY <1>1, FS_Interval
<1>4. IsFiniteSet(After)
  <2>1. After \subseteq 1 .. N
    BY <1>2
  <2> QED
    BY <1>3, <2>1, FS_Subset
<1>5. Cardinality(After) \in Nat
  BY <1>4, FS_CardinalityType
<1>6. c \notin After
  BY <1>1 DEF N
<1>7. CASE c \in Places(pat, x)
  <2>1. From = After \cup {c}
    BY <1>1, <1>2, <1>7 DEF N
  <2> HIDE DEF From, After
  <2>2. Cardinality(After \cup {c}) = Cardinality(After) + 1
    BY <1>4, <1>6, FS_AddElement
  <2> QED
    BY <1>5, <1>7, <2>1, <2>2 DEF Left, From, After
<1>8. CASE c \notin Places(pat, x)
  <2>1. From = After
    BY <1>1, <1>2, <1>8 DEF N
  <2> HIDE DEF From, After
  <2>2. Cardinality(From) = Cardinality(After) + 0
    BY <1>5, <2>1
  <2> QED
    BY <1>5, <1>8, <2>2 DEF Left, From, After
<1> QED
  BY <1>7, <1>8

\* No placeholder begins where another ends.
LEMMA PlacesApart ==
  ASSUME NEW pat \in Seq(Char), NEW x \in {"f", "n"}, NEW y \in {"f", "n"}, NEW c \in Places(pat, x)
  PROVE  /\ c \in 1 .. Len(pat) - 1
         /\ c + 1 \notin Places(pat, y)
         /\ c - 1 \notin Places(pat, y)
         /\ x # y => c \notin Places(pat, y)
<1>1. c \in 1 .. Len(pat) - 1 /\ pat[c] = "%" /\ pat[c + 1] = x
  BY DEF Places
<1>2. pat[c + 1] # "%" /\ pat[c] # y
  BY <1>1
<1>3. c - 1 + 1 = c
  BY <1>1
<1> QED
  BY <1>1, <1>2, <1>3 DEF Places

\* What is copied at the end, at a placeholder, and elsewhere.
Steps(C, srcname, fnum, pat) ==
  /\ C[Len(pat) + 1] = <<>>
  /\ \A c \in Places(pat, "f") : C[c] = fnum \o C[c + 2]
  /\ \A c \in Places(pat, "n") : C[c] = srcname \o C[c + 2]
  /\ \A c \in 1 .. Len(pat) : c \notin Places(pat, "f") /\ c \notin Places(pat, "n") =>
       C[c] = <<pat[c]>> \o C[c + 1]

LEMMA CopiedSteps ==
  ASSUME NEW srcname, NEW fnum, NEW pat \in Seq(Char)
  PROVE  Steps(Copied(srcname, fnum, pat), srcname, fnum, pat)
<1> DEFINE C == Copied(srcname, fnum, pat)
           N == Len(pat)
<1>1. N \in Nat
  OBVIOUS
<1>2. \A c \in 1 .. N + 1 : C[c] = CopyStep(srcname, fnum, pat, C, c)
  BY <1>1, CopiedIs
<1>3. N + 1 \notin Places(pat, "f") /\ N + 1 \notin Places(pat, "n")
  BY <1>1 DEF Places
<1> HIDE DEF C
<1>4. C[N + 1] = <<>>
  <2>1. N + 1 \in 1 .. N + 1 /\ N + 1 > N
    BY <1>1
  <2>2. C[N + 1] = CopyStep(srcname, fnum, pat, C, N + 1)
    BY <1>2, <2>1
  <2> QED
    BY <1>3, <2>1, <2>2 DEF CopyStep
<1>5. ASSUME NEW c \in Places(pat, "f")
      PROVE  C[c] = fnum \o C[c + 2]
  <2>1. c \in 1 .. N - 1 /\ c \notin Places(pat, "n")
    BY PlacesApart
  <2>2. c \in 1 .. N + 1 /\ ~(c > N)
    BY <1>1, <2>1
  <2>3. C[c] = CopyStep(srcname, fnum, pat, C, c)
    BY <1>2, <2>2
  <2> QED
    BY <2>1, <2>2, <2>3 DEF CopyStep
<1>6. ASSUME NEW c \in Places(pat, "n")
      PROVE  C[c] = srcname \o C[c + 2]
  <2>1. c \in 1 .. N - 1 /\ c \notin Places(pat, "f")
    BY PlacesApart
  <2>2. c \in 1 .. N + 1 /\ ~(c > N)
    BY <1>1, <2>1
  <2>3. C[c] = CopyStep(srcname, fnum, pat, C, c)
    BY <1>2, <2>2
  <2> QED
    BY <2>1, <2>2, <2>3 DEF CopyStep
<1>7. ASSUME NEW c \in 1 .. N, c \notin Places(pat, "f") /\ c \notin Places(pat, "n")
      PROVE  C[c] = <<pat[c]>> \o C[c + 1]
  <2>1. c \in 1 .. N + 1 /\ ~(c > N)
    BY <1>1
  <2>2. C[c] = CopyStep(srcname, fnum, pat, C, c)
    BY <1>2, <2>1
  <2> QED
    BY <1>7, <2>1, <2>2 DEF CopyStep
<1> QED
  BY <1>4, <1>5, <1>6, <1>7 DEF C, Steps

\* One more factor adds one more term.
LEMMA Distribute ==
  ASSUME NEW a \in Int, NEW k \in Nat
  PROVE  a * k \in Int /\ a * (k + 1) = a * k + a
BY SMT

\* From every position on, what is copied has the length the buffer has room for.
LEMMA CopiedLength ==
  ASSUME NEW srcname \in Seq(Char), NEW fnum \in Seq(Char), NEW pat \in Seq(Char),
         NEW c \in 1 .. Len(pat) + 1
  PROVE  /\ Copied(srcname, fnum, pat)[c] \in Seq(Char)
         /\ Len(Copied(srcname, fnum, pat)[c]) =
              Len(pat) + 1 - c + (Len(fnum) - 2) * Left(pat, "f", c)
                               + (Len(srcname) - 2) * Left(pat, "n", c)
<1> DEFINE N == Len(pat)
           C == Copied(srcname, fnum, pat)
           F(d) == Left(pat, "f", d)
           G(d) == Left(pat, "n", d)
           lf == Len(fnum)
           ls == Len(srcname)
           A(d) == (lf - 2) * F(d)
           B(d) == (ls - 2) * G(d)
           Good(d) == C[d] \in Seq(Char) /\ Len(C[d]) = N + 1 - d + A(d) + B(d)
           S == {k \in 0 .. N : \A d \in N + 1 - k .. N + 1 : Good(d)}
<1>1. N \in Nat /\ lf \in Nat /\ ls \in Nat
  OBVIOUS
<1>2. F(N + 1) = 0 /\ G(N + 1) = 0
  <2>1. ASSUME NEW x \in {"f", "n"}
        PROVE  Left(pat, x, N + 1) = 0
    <3>1. {i \in Places(pat, x) : i >= N + 1} = {}
      BY DEF Places
    <3> QED
      BY <3>1, FS_EmptySet DEF Left
  <2> QED
    BY <2>1
<1>3. ASSUME NEW d \in 1 .. N
      PROVE  /\ F(d + 1) \in Nat /\ (d \in Places(pat, "f") => F(d) = F(d + 1) + 1)
             /\ G(d + 1) \in Nat /\ (d \in Places(pat, "n") => G(d) = G(d + 1) + 1)
             /\ d \notin Places(pat, "f") => F(d) = F(d + 1)
             /\ d \notin Places(pat, "n") => G(d) = G(d + 1)
  <2>1. /\ F(d + 1) \in Nat /\ F(d) = F(d + 1) + IF d \in Places(pat, "f") THEN 1 ELSE 0
        /\ G(d + 1) \in Nat /\ G(d) = G(d + 1) + IF d \in Places(pat, "n") THEN 1 ELSE 0
    BY PlacesLeft
  <2> HIDE DEF F, G
  <2> QED
    BY <2>1
<1>4. ASSUME NEW x \in {"f", "n"}, NEW d \in Places(pat, x)
      PROVE  /\ d + 2 \in d + 1 .. N + 1
             /\ F(d + 1) = F(d + 2) /\ G(d + 1) = G(d + 2)
             /\ d + 1 \in 1 .. N
  <2>1. d \in 1 .. N - 1 /\ d + 1 \notin Places(pat, "f") /\ d + 1 \notin Places(pat, "n")
    BY PlacesApart
  <2>2. d + 1 \in 1 .. N /\ d + 1 + 1 = d + 2 /\ d + 2 \in d + 1 .. N + 1
    BY <1>1, <2>1
  <2>3. F(d + 1) = F(d + 1 + 1) /\ G(d + 1) = G(d + 1 + 1)
    BY <1>3, <2>1, <2>2
  <2> QED
    BY <2>2, <2>3
<1>5. /\ C[N + 1] = <<>>
      /\ \A d \in Places(pat, "f") : C[d] = fnum \o C[d + 2]
      /\ \A d \in Places(pat, "n") : C[d] = srcname \o C[d + 2]
      /\ \A d \in 1 .. N : d \notin Places(pat, "f") /\ d \notin Places(pat, "n") =>
           C[d] = <<pat[d]>> \o C[d + 1]
  <2>1. Steps(C, srcname, fnum, pat)
    BY CopiedSteps
  <2> QED
    BY <2>1, Zenon DEF Steps, N
<1>6. \A d \in 1 .. N : <<pat[d]>> \in Seq(Char) /\ Len(<<pat[d]>>) = 1
  BY ElementOfSeq
<1>7. c \in 1 .. N + 1
  OBVIOUS
<1>8. \A d \in Places(pat, "f") : d \notin Places(pat, "n")
  BY PlacesApart
<1>9. Places(pat, "f") \subseteq 1 .. N /\ Places(pat, "n") \subseteq 1 .. N
  BY <1>1 DEF Places
<1> HIDE DEF N, C, F, G, lf, ls
<1>10. A(N + 1) = 0 /\ B(N + 1) = 0
  BY <1>1, <1>2
<1>11. ASSUME NEW d \in 1 .. N
       PROVE  /\ A(d + 1) \in Int /\ (d \in Places(pat, "f") => A(d) = A(d + 1) + (lf - 2))
              /\ B(d + 1) \in Int /\ (d \in Places(pat, "n") => B(d) = B(d + 1) + (ls - 2))
              /\ d \notin Places(pat, "f") => A(d) = A(d + 1)
              /\ d \notin Places(pat, "n") => B(d) = B(d + 1)
  <2>1. lf - 2 \in Int /\ ls - 2 \in Int /\ F(d + 1) \in Nat /\ G(d + 1) \in Nat
    <3>1. lf - 2 \in Int /\ ls - 2 \in Int
      BY <1>1
    <3> QED
      BY <1>3, <3>1
  <2>2. /\ A(d + 1) \in Int /\ (lf - 2) * (F(d + 1) + 1) = A(d + 1) + (lf - 2)
        /\ B(d + 1) \in Int /\ (ls - 2) * (G(d + 1) + 1) = B(d + 1) + (ls - 2)
    BY <2>1, Distribute
  <2> QED
    BY <1>3, <2>2
<1>12. ASSUME NEW x \in {"f", "n"}, NEW d \in Places(pat, x)
       PROVE  A(d + 1) = A(d + 2) /\ B(d + 1) = B(d + 2)
  BY <1>4
<1> HIDE DEF A, B
<1>13. Good(N + 1)
  <2>1. N + 1 - (N + 1) + 0 + 0 = 0
    BY <1>1
  <2> QED
    BY <1>5, <1>10, <2>1, EmptySeq
<1>14. ASSUME NEW d \in 1 .. N, \A e \in d + 1 .. N + 1 : Good(e)
       PROVE  Good(d)
  <2>1. ASSUME NEW s \in Seq(Char), NEW e \in d + 1 .. N + 1, C[d] = s \o C[e]
        PROVE  C[d] \in Seq(Char) /\ Len(C[d]) = Len(s) + N + 1 - e + A(e) + B(e)
    <3>1. C[e] \in Seq(Char) /\ Len(C[e]) = N + 1 - e + A(e) + B(e)
      BY <1>14
    <3>2. C[d] \in Seq(Char) /\ Len(C[d]) = Len(s) + Len(C[e])
      BY <2>1, <3>1, ConcatProperties
    <3>3. A(e) \in Int /\ B(e) \in Int
      <4>1. e - 1 \in 1 .. N /\ e - 1 + 1 = e
        BY <1>1
      <4> QED
        BY <1>11, <4>1
    <3>4. Len(s) \in Nat
      OBVIOUS
    <3> QED
      BY <1>1, <3>1, <3>2, <3>3, <3>4
  <2>2. A(d + 1) \in Int /\ B(d + 1) \in Int
    BY <1>11
  <2>3. CASE d \in Places(pat, "f")
    <3>1. C[d] = fnum \o C[d + 2] /\ d + 2 \in d + 1 .. N + 1
      BY <1>4, <1>5, <2>3
    <3>2. C[d] \in Seq(Char) /\ Len(C[d]) = lf + N + 1 - (d + 2) + A(d + 2) + B(d + 2)
      BY <2>1, <3>1 DEF lf
    <3>3. A(d) = A(d + 2) + (lf - 2) /\ B(d) = B(d + 2) /\ A(d + 2) \in Int /\ B(d + 2) \in Int
      BY <1>8, <1>11, <1>12, <2>2, <2>3
    <3> QED
      BY <1>1, <3>2, <3>3
  <2>4. CASE d \in Places(pat, "n")
    <3>1. C[d] = srcname \o C[d + 2] /\ d + 2 \in d + 1 .. N + 1
      BY <1>4, <1>5, <2>4
    <3>2. C[d] \in Seq(Char) /\ Len(C[d]) = ls + N + 1 - (d + 2) + A(d + 2) + B(d + 2)
      BY <2>1, <3>1 DEF ls
    <3>3. B(d) = B(d + 2) + (ls - 2) /\ A(d) = A(d + 2) /\ A(d + 2) \in Int /\ B(d + 2) \in Int
      BY <1>8, <1>11, <1>12, <2>2, <2>4
    <3> QED
      BY <1>1, <3>2, <3>3
  <2>5. CASE d \notin Places(pat, "f") /\ d \notin Places(pat, "n")
    <3>1. C[d] = <<pat[d]>> \o C[d + 1] /\ d + 1 \in d + 1 .. N + 1
      BY <1>1, <1>5, <2>5
    <3>2. C[d] \in Seq(Char) /\ Len(C[d]) = 1 + N + 1 - (d + 1) + A(d + 1) + B(d + 1)
      BY <1>6, <2>1, <3>1
    <3>3. A(d) = A(d + 1) /\ B(d) = B(d + 1)
      BY <1>11, <2>5
    <3> QED
      BY <1>1, <2>2, <3>2, <3>3
  <2> QED
    BY <2>3, <2>4, <2>5
<1> HIDE DEF Good
<1>15. 0 \in S
  <2>1. \A d \in N + 1 - 0 .. N + 1 : d = N + 1
    BY <1>1
  <2> QED
    BY <1>1, <1>13, <2>1
<1>16. ASSUME NEW k \in 0 .. N - 1, k \in S
       PROVE  k + 1 \in S
  <2> DEFINE d == N - k
  <2>1. d \in 1 .. N /\ N + 1 - k = d + 1 /\ N + 1 - (k + 1) = d /\ k + 1 \in 0 .. N
    BY <1>1
  <2> HIDE DEF d
  <2>2. \A e \in d + 1 .. N + 1 : Good(e)
    BY <1>16, <2>1
  <2>3. Good(d)
    BY <1>14, <2>1, <2>2
  <2>4. \A e \in d .. N + 1 : e = d \/ e \in d + 1 .. N + 1
    BY <1>1, <2>1
  <2>5. \A e \in d .. N + 1 : Good(e)
    BY <2>2, <2>3, <2>4, Zenon
  <2> QED
    BY <2>1, <2>5
<1> HIDE DEF S
<1>17. N \in S
  <2>1. \A k \in 0 .. N : k \in S
    BY <1>1, <1>15, <1>16, Upwards
  <2> QED
    BY <1>1, <2>1
<1>18. Good(c)
  <2>1. N + 1 - N = 1
    BY <1>1
  <2> QED
    BY <1>7, <1>17, <2>1 DEF S
<1> QED
  BY <1>18 DEF Good, A, B, F, G, C, N, lf, ls

\* FlattenSeq puts the sequences behind one another, from the left.
LEMMA FlattenIs ==
  ASSUME NEW S, NEW seqs \in Seq(Seq(S))
  PROVE  \E f : /\ f[0] = <<>>
                /\ \A i \in 1 .. Len(seqs) : f[i] = f[i - 1] \o seqs[i]
                /\ \A i \in 0 .. Len(seqs) : f[i] \in Seq(S)
                /\ FlattenSeq(seqs) = f[Len(seqs)]
<1> DEFINE N == Len(seqs)
           Step(g, i) == IF i = 1 THEN seqs[i] ELSE g[i - 1] \o seqs[i]
           T == {k \in 0 .. N : \E g : \A i \in 1 .. k : g[i] = Step(g, i)}
<1>1. N \in Nat /\ \A i \in 1 .. N : seqs[i] \in Seq(S)
  BY ElementOfSeq
<1>2. CASE N = 0
  <2> DEFINE f == [i \in {0} |-> <<>>]
  <2>1. FlattenSeq(seqs) = seqs /\ seqs = <<>>
    BY <1>2 DEF FlattenSeq
  <2>2. f[0] = <<>> /\ <<>> \in Seq(S)
    BY EmptySeq
  <2> HIDE DEF f
  <2>3. \A i \in 0 .. N : i = 0
    BY <1>2
  <2>4. \A i \in 1 .. N : FALSE
    BY <1>2
  <2> QED
    BY <1>2, <2>1, <2>2, <2>3, <2>4, Zenon
<1>3. CASE N # 0
  <2> HIDE DEF N
  <2>1. 0 \in T
    BY <1>1
  <2>2. ASSUME NEW k \in 0 .. N - 1, k \in T
        PROVE  k + 1 \in T
    <3>1. PICK g : \A i \in 1 .. k : g[i] = Step(g, i)
      BY <2>2
    <3> DEFINE h == [i \in 1 .. k + 1 |-> IF i = k + 1 THEN Step(g, i) ELSE g[i]]
    <3>2. \A i \in 1 .. k : h[i] = g[i]
      OBVIOUS
    <3>3. h[k + 1] = Step(g, k + 1)
      OBVIOUS
    <3> HIDE DEF h
    <3>4. \A i \in 1 .. k + 1 : i # 1 => i - 1 \in 1 .. k
      OBVIOUS
    <3>5. \A i \in 1 .. k + 1 : Step(g, i) = Step(h, i)
      BY <3>2, <3>4
    <3>6. \A i \in 1 .. k + 1 : i \in 1 .. k \/ i = k + 1
      OBVIOUS
    <3> HIDE DEF Step
    <3>7. \A i \in 1 .. k + 1 : h[i] = Step(h, i)
      BY <3>1, <3>2, <3>3, <3>5, <3>6, Zenon
    <3>8. k + 1 \in 0 .. N
      BY <1>1
    <3> QED
      BY <3>7, <3>8
  <2> HIDE DEF T
  <2>3. N \in T
    <3>1. \A k \in 0 .. N : k \in T
      BY <1>1, <2>1, <2>2, Upwards
    <3> QED
      BY <1>1, <3>1
  <2>4. PICK g : \A i \in 1 .. N : g[i] = Step(g, i)
    BY <2>3 DEF T
  <2> DEFINE G == [i \in 1 .. N |-> g[i]]
  <2>5. G = [i \in 1 .. N |-> Step(G, i)]
    <3>1. \A i \in 1 .. N : i # 1 => i - 1 \in 1 .. N
      BY <1>1
    <3>2. \A i \in 1 .. N : Step(g, i) = Step(G, i)
      BY <3>1
    <3> HIDE DEF Step
    <3> QED
      BY <2>4, <3>2, Zenon
  <2> HIDE DEF G
  <2> DEFINE F == CHOOSE h : h = [i \in 1 .. N |-> Step(h, i)]
  <2>6. F = [i \in 1 .. N |-> Step(F, i)]
    BY <2>5, Zenon
  <2>7. FlattenSeq(seqs) = F[N]
    BY <1>3, Zenon DEF FlattenSeq, N
  <2> HIDE DEF F
  <2>8. \A i \in 1 .. N : F[i] = Step(F, i)
    BY <2>6
  <2> DEFINE f == [i \in 0 .. N |-> IF i = 0 THEN <<>> ELSE F[i]]
  <2>9. f[0] = <<>> /\ \A i \in 1 .. N : f[i] = F[i]
    BY <1>1
  <2> HIDE DEF f
  <2>10. ASSUME NEW i \in 1 .. N
         PROVE  f[i] = f[i - 1] \o seqs[i]
    <3>1. CASE i = 1
      <4>1. f[i] = seqs[i]
        BY <2>8, <2>9, <3>1
      <4>2. seqs[i] \in Seq(S) /\ f[i - 1] = <<>>
        BY <1>1, <2>9, <3>1
      <4> QED
        BY <4>1, <4>2, ConcatEmptySeq
    <3>2. CASE i # 1
      <4>1. i - 1 \in 1 .. N
        BY <1>1, <3>2
      <4> QED
        BY <2>8, <2>9, <3>2, <4>1
    <3> QED
      BY <3>1, <3>2
  <2> DEFINE U == {k \in 0 .. N : f[k] \in Seq(S)}
  <2>11. 0 \in U
    <3>1. 0 \in 0 .. N /\ f[0] \in Seq(S)
      BY <1>1, <2>9, EmptySeq
    <3> QED
      BY <3>1
  <2>12. ASSUME NEW k \in 0 .. N - 1, k \in U
         PROVE  k + 1 \in U
    <3>1. k + 1 \in 1 .. N /\ k + 1 - 1 = k
      BY <1>1
    <3>2. PICK i \in 1 .. N : i = k + 1 /\ i - 1 = k
      BY <3>1
    <3>3. f[k + 1] = f[k] \o seqs[k + 1]
      <4>1. f[i] = f[i - 1] \o seqs[i]
        BY <2>10
      <4> QED
        BY <3>2, <4>1, Zenon
    <3>4. seqs[k + 1] \in Seq(S)
      BY <1>1, <3>1
    <3>5. f[k] \in Seq(S)
      BY <2>12
    <3>6. f[k] \o seqs[k + 1] \in Seq(S)
      BY <3>4, <3>5, ConcatProperties, Zenon
    <3>7. k + 1 \in 0 .. N
      BY <3>1
    <3> QED
      BY <3>3, <3>6, <3>7
  <2> HIDE DEF U
  <2>13. \A k \in 0 .. N : f[k] \in Seq(S)
    <3>1. \A k \in 0 .. N : k \in U
      BY <1>1, <2>11, <2>12, Upwards
    <3> QED
      BY <3>1 DEF U
  <2>14. FlattenSeq(seqs) = f[N]
    BY <1>1, <1>3, <2>7, <2>9
  <2> QED
    BY <2>9, <2>10, <2>13, <2>14 DEF N
<1> QED
  BY <1>2, <1>3

\* What stands for each character of the pattern.
Parted(part, srcname, fnum, pat) ==
  LET P == Places(pat, "f") \cup Places(pat, "n")
  IN  /\ part \in Seq(Seq(Char)) /\ Len(part) = Len(pat)
      /\ \A c \in Places(pat, "f") : part[c] = fnum
      /\ \A c \in Places(pat, "n") : part[c] = srcname
      /\ \A c \in P : part[c + 1] = <<>>
      /\ \A c \in 1 .. Len(pat) : c \notin P /\ c - 1 \notin P => part[c] = <<pat[c]>>

LEMMA PartsAre ==
  ASSUME NEW srcname \in Seq(Char), NEW fnum \in Seq(Char), NEW pat \in Seq(Char)
  PROVE  Parted(Parts(srcname, fnum, pat), srcname, fnum, pat)
<1> DEFINE N == Len(pat)
           part == Parts(srcname, fnum, pat)
           P == Places(pat, "f") \cup Places(pat, "n")
<1>1. N \in Nat
  OBVIOUS
<1>2. ASSUME NEW c \in P
      PROVE  c \in 1 .. N /\ c + 1 \in 1 .. N /\ c + 1 - 1 = c /\ c - 1 \notin P /\ c + 1 \notin P
  <2>1. c \in 1 .. N - 1 /\ c - 1 \notin P /\ c + 1 \notin P
    BY PlacesApart
  <2> QED
    BY <1>1, <2>1
<1>3. \A c \in Places(pat, "f") : c \notin Places(pat, "n")
  BY PlacesApart
<1>4. ASSUME NEW c \in 1 .. N
      PROVE  part[c] = CASE c \in Places(pat, "f") -> fnum
                         [] c \in Places(pat, "n") -> srcname
                         [] c - 1 \in Places(pat, "f") \cup Places(pat, "n") -> <<>>
                         [] OTHER -> <<pat[c]>>
  BY DEF Parts
<1>5. part = [c \in 1 .. N |-> part[c]]
  BY DEF Parts
<1> HIDE DEF part
<1>6. ASSUME NEW c \in Places(pat, "f")
      PROVE  part[c] = fnum
  <2>1. c \in 1 .. N /\ c \notin Places(pat, "n")
    BY <1>2, <1>3
  <2> QED
    BY <1>2, <1>4, <2>1
<1>7. ASSUME NEW c \in Places(pat, "n")
      PROVE  part[c] = srcname
  <2>1. c \in 1 .. N /\ c \notin Places(pat, "f")
    BY <1>2, <1>3
  <2> QED
    BY <1>2, <1>4, <2>1
<1>8. ASSUME NEW c \in P
      PROVE  part[c + 1] = <<>>
  <2>1. c \in 1 .. N /\ c + 1 \in 1 .. N /\ c + 1 \notin P /\ c \in P
    BY <1>2
  <2> DEFINE d == c + 1
  <2>2. d \in 1 .. N /\ d \notin P /\ d - 1 \in P
    <3> HIDE DEF N, P
    <3> QED
      BY <1>1, <2>1 DEF N
  <2> HIDE DEF d
  <2>3. part[d] = <<>>
    <3>1. part[d] = CASE d \in Places(pat, "f") -> fnum
                      [] d \in Places(pat, "n") -> srcname
                      [] d - 1 \in Places(pat, "f") \cup Places(pat, "n") -> <<>>
                      [] OTHER -> <<pat[d]>>
      BY <1>4, <2>2
    <3>2. d \notin Places(pat, "f") /\ d \notin Places(pat, "n")
          /\ d - 1 \in Places(pat, "f") \cup Places(pat, "n")
      BY <2>2
    <3> QED
      BY <3>1, <3>2, Zenon
  <2> QED
    BY <2>3 DEF d
<1>9. ASSUME NEW c \in 1 .. N, c \notin P, c - 1 \notin P
      PROVE  part[c] = <<pat[c]>>
  BY <1>4, <1>9
<1>10. ASSUME NEW c \in 1 .. N
       PROVE  part[c] \in Seq(Char)
  <2>1. <<pat[c]>> \in Seq(Char) /\ <<>> \in Seq(Char)
    BY ElementOfSeq
  <2>2. CASE c \in P
    BY <1>6, <1>7, <2>2
  <2>3. CASE c - 1 \in P
    <3>1. c - 1 + 1 = c
      BY <1>1
    <3> QED
      BY <1>8, <2>1, <2>3, <3>1
  <2>4. CASE c \notin P /\ c - 1 \notin P
    BY <1>9, <2>1, <2>4
  <2> QED
    BY <2>2, <2>3, <2>4
<1>11. part \in Seq(Seq(Char)) /\ Len(part) = N
  BY <1>1, <1>5, <1>10
<1> QED
  BY <1>6, <1>7, <1>8, <1>9, <1>11, Zenon DEF part, Parted

\* Concatenation is associative on sequences of characters.
LEMMA Associative ==
  \A p, q, r \in Seq(Char) : (p \o q) \o r = p \o (q \o r)
  BY ConcatAssociative, SMT

\* What filename_forge() copies is the pattern with its placeholders replaced.
LEMMA ForgedIsExpanded ==
  ASSUME NEW srcname \in Seq(Char), NEW fnum \in Seq(Char), NEW pat \in Seq(Char)
  PROVE  Copied(srcname, fnum, pat)[1] = Expanded(srcname, fnum, pat)
<1> DEFINE N == Len(pat)
           C == Copied(srcname, fnum, pat)
           P == Places(pat, "f") \cup Places(pat, "n")
           part == Parts(srcname, fnum, pat)
<1>1. N \in Nat
  OBVIOUS
<1>2. P \subseteq 1 .. N - 1
  BY <1>1 DEF Places
<1>3. ASSUME NEW c \in P
      PROVE  c + 1 \notin P /\ c - 1 \notin P
  BY PlacesApart
<1>4. /\ C[N + 1] = <<>>
      /\ \A c \in P : C[c] = part[c] \o C[c + 2]
      /\ \A c \in 1 .. N : c \notin P /\ c - 1 \notin P => C[c] = part[c] \o C[c + 1]
  <2>1. /\ C[N + 1] = <<>>
        /\ \A c \in Places(pat, "f") : C[c] = fnum \o C[c + 2]
        /\ \A c \in Places(pat, "n") : C[c] = srcname \o C[c + 2]
        /\ \A c \in 1 .. N : c \notin Places(pat, "f") /\ c \notin Places(pat, "n") =>
             C[c] = <<pat[c]>> \o C[c + 1]
    <3>1. Steps(C, srcname, fnum, pat)
      BY CopiedSteps
    <3> QED
      BY <3>1, Zenon DEF Steps
  <2>2. Parted(part, srcname, fnum, pat)
    BY PartsAre
  <2> HIDE DEF part, C
  <2>3. /\ \A c \in Places(pat, "f") : part[c] = fnum
        /\ \A c \in Places(pat, "n") : part[c] = srcname
        /\ \A c \in 1 .. N : c \notin P /\ c - 1 \notin P => part[c] = <<pat[c]>>
    BY <2>2, Zenon DEF Parted
  <2> HIDE DEF N
  <2> QED
    BY <2>1, <2>3
<1>5. /\ \A c \in P : part[c + 1] = <<>>
      /\ part \in Seq(Seq(Char)) /\ Len(part) = N
  <2>1. Parted(part, srcname, fnum, pat)
    BY PartsAre
  <2> HIDE DEF part
  <2> QED
    BY <2>1, Zenon DEF Parted
<1>6. part \in Seq(Seq(Char)) /\ Len(part) = N
  BY <1>5
<1>7. \A c \in 1 .. N + 1 : C[c] \in Seq(Char)
  BY CopiedLength
<1>8. PICK f : /\ f[0] = <<>>
               /\ \A i \in 1 .. N : f[i] = f[i - 1] \o part[i]
               /\ \A i \in 0 .. N : f[i] \in Seq(Char)
               /\ FlattenSeq(part) = f[N]
  <2>1. \E f : /\ f[0] = <<>>
               /\ \A i \in 1 .. Len(part) : f[i] = f[i - 1] \o part[i]
               /\ \A i \in 0 .. Len(part) : f[i] \in Seq(Char)
               /\ FlattenSeq(part) = f[Len(part)]
    BY <1>6, FlattenIs, Zenon
  <2> QED
    BY <1>6, <2>1, Zenon
<1>9. \A i \in 1 .. N : part[i] \in Seq(Char)
  BY <1>6, ElementOfSeq
<1>10. FlattenSeq(part) = Expanded(srcname, fnum, pat)
  BY DEF Expanded
<1> HIDE DEF N, C, P, part
<1> DEFINE Good(k) == k \notin P => f[k] \o C[k + 1] = C[1]
           S == {k \in 0 .. N : \A j \in 0 .. k : Good(j)}
<1>11. 0 \in S
  <2>1. 1 \in 1 .. N + 1
    BY <1>1
  <2>2. <<>> \o C[0 + 1] = C[1]
    BY <1>7, <2>1, ConcatEmptySeq
  <2>3. \A j \in 0 .. 0 : j = 0
    OBVIOUS
  <2>4. Good(0)
    BY <1>8, <2>2
  <2>5. 0 \in 0 .. N
    BY <1>1
  <2> HIDE DEF Good
  <2> QED
    BY <2>3, <2>4, <2>5
<1>12. ASSUME NEW k \in 0 .. N - 1, \A j \in 0 .. k : Good(j), k + 1 \notin P
       PROVE  f[k + 1] \o C[k + 2] = C[1]
  <2>1. k + 1 \in 1 .. N /\ k + 1 - 1 = k /\ k + 2 \in 1 .. N + 1 /\ k + 1 + 1 = k + 2 /\ k \in 0 .. N
    BY <1>1
  <2>2. f[k + 1] = f[k] \o part[k + 1] /\ f[k] \in Seq(Char) /\ part[k + 1] \in Seq(Char)
    <3>1. PICK i \in 1 .. N : i = k + 1 /\ i - 1 = k
      BY <2>1
    <3>2. f[i] = f[i - 1] \o part[i] /\ part[i] \in Seq(Char)
      BY <1>8, <1>9
    <3>3. f[k] \in Seq(Char)
      BY <1>8, <2>1
    <3> QED
      BY <3>1, <3>2, <3>3, Zenon
  <2>3. C[k + 2] \in Seq(Char)
    BY <1>7, <2>1
  <2>4. f[k + 1] \o C[k + 2] = f[k] \o (part[k + 1] \o C[k + 2])
    <3>1. (f[k] \o part[k + 1]) \o C[k + 2] = f[k] \o (part[k + 1] \o C[k + 2])
      BY <2>2, <2>3, Associative, Zenon
    <3> QED
      BY <2>2, <3>1, Zenon
  <2>5. CASE k \notin P
    <3>1. C[k + 1] = part[k + 1] \o C[k + 2]
      <4>1. PICK i \in 1 .. N : i = k + 1 /\ i - 1 = k /\ i + 1 = k + 2
        BY <2>1
      <4>2. i \notin P /\ i - 1 \notin P
        BY <1>12, <2>5, <4>1, Zenon
      <4>3. C[i] = part[i] \o C[i + 1]
        BY <1>4, <4>2
      <4> QED
        BY <4>1, <4>3, Zenon
    <3>2. f[k] \o C[k + 1] = C[1]
      <4>1. k \in 0 .. k
        OBVIOUS
      <4>2. Good(k)
        BY <1>12, <4>1, Zenon
      <4> QED
        BY <2>5, <4>2
    <3> QED
      BY <2>4, <3>1, <3>2
  <2>6. CASE k \in P
    <3>1. part[k + 1] = <<>> /\ C[k] = part[k] \o C[k + 2] /\ k - 1 \notin P
      BY <1>3, <1>4, <1>5, <2>6
    <3>2. k \in 1 .. N /\ k - 1 \in 0 .. k /\ k - 1 + 1 = k /\ k - 1 \in 0 .. N
      BY <1>1, <1>2, <2>6
    <3>3. f[k] = f[k - 1] \o part[k] /\ f[k - 1] \in Seq(Char) /\ part[k] \in Seq(Char)
      BY <1>8, <1>9, <3>2, Zenon
    <3>4. f[k - 1] \o C[k] = C[1]
      <4>1. Good(k - 1)
        BY <1>12, <3>2, Zenon
      <4>2. f[k - 1] \o C[k - 1 + 1] = C[1]
        BY <3>1, <4>1, Zenon
      <4> QED
        BY <3>2, <4>2, Zenon
    <3>5. part[k + 1] \o C[k + 2] = C[k + 2]
      BY <2>3, <3>1, ConcatEmptySeq
    <3>6. f[k] \o C[k + 2] = f[k - 1] \o (part[k] \o C[k + 2])
      <4>1. (f[k - 1] \o part[k]) \o C[k + 2] = f[k - 1] \o (part[k] \o C[k + 2])
        BY <2>3, <3>3, Associative, Zenon
      <4> QED
        BY <3>3, <4>1, Zenon
    <3> QED
      BY <2>4, <3>1, <3>4, <3>5, <3>6
  <2> QED
    BY <2>5, <2>6
<1>13. ASSUME NEW k \in 0 .. N - 1, k \in S
       PROVE  k + 1 \in S
  <2>1. k + 1 + 1 = k + 2 /\ k + 1 \in 0 .. N
    BY <1>1
  <2>2. Good(k + 1)
    BY <1>12, <1>13, <2>1
  <2>3. \A j \in 0 .. k + 1 : j \in 0 .. k \/ j = k + 1
    OBVIOUS
  <2> HIDE DEF Good
  <2> QED
    BY <1>13, <2>1, <2>2, <2>3
<1> HIDE DEF S
<1>14. N \in S
  <2>1. \A k \in 0 .. N : k \in S
    BY <1>1, <1>11, <1>13, Upwards
  <2> QED
    BY <1>1, <2>1
<1>15. f[N] \o C[N + 1] = C[1]
  <2>1. N \notin P /\ N \in 0 .. N
    BY <1>1, <1>2
  <2> QED
    BY <1>14, <2>1 DEF S
<1>16. f[N] \o <<>> = f[N]
  <2>1. f[N] \in Seq(Char)
    BY <1>1, <1>8
  <2> QED
    BY <2>1, ConcatEmptySeq
<1> QED
  BY <1>4, <1>8, <1>10, <1>15, <1>16 DEF C

\* The digits are characters.
LEMMA DigitIsChar ==
  ASSUME NEW w \in 1 .. 10
  PROVE  Digits[w] \in Char
<1> DEFINE D == {"0", "1", "2", "3", "4", "5", "6", "7", "8", "9"}
<1>1. D \subseteq Char
  BY DEF Char
<1>2. /\ w = 1 => Digits[w] = "0"
      /\ w = 2 => Digits[w] = "1"
      /\ w = 3 => Digits[w] = "2"
      /\ w = 4 => Digits[w] = "3"
      /\ w = 5 => Digits[w] = "4"
  BY DEF Digits
<1>3. /\ w = 6 => Digits[w] = "5"
      /\ w = 7 => Digits[w] = "6"
      /\ w = 8 => Digits[w] = "7"
      /\ w = 9 => Digits[w] = "8"
      /\ w = 10 => Digits[w] = "9"
  BY DEF Digits
<1>4. \/ w = 1 \/ w = 2 \/ w = 3 \/ w = 4 \/ w = 5
      \/ w = 6 \/ w = 7 \/ w = 8 \/ w = 9 \/ w = 10
  OBVIOUS
<1>5. Digits[w] \in D
  BY <1>2, <1>3, <1>4, Zenon
<1> QED
  BY <1>1, <1>5

\* itoa() writes as many characters as framenum_expanded_len() says.
LEMMA ItoaIs ==
  ASSUME NEW n \in Nat, n < Limit
  PROVE  /\ Itoa(n, FramenumExpandedLen(n)) \in Seq(Char)
         /\ Len(Itoa(n, FramenumExpandedLen(n))) = FramenumExpandedLen(n)
<1> DEFINE len == FramenumExpandedLen(n)
           text == Itoa(n, len)
<1>1. len \in 1 .. 10
  BY LengthIs
<1> HIDE DEF len
<1>2. text = [i \in 1 .. len |-> text[i]] /\ Len(text) = len
  BY <1>1 DEF Itoa
<1>3. ASSUME NEW i \in 1 .. len
      PROVE  text[i] \in Char
  <2>1. PICK v \in 0 .. 9 : text[i] = Digits[v + 1]
    BY <1>1, DigitAt
  <2> HIDE DEF text
  <2>2. v + 1 \in 1 .. 10
    OBVIOUS
  <2>3. Digits[v + 1] \in Char
    BY <2>2, DigitIsChar
  <2> QED
    BY <2>1, <2>2, <2>3
<1> HIDE DEF text
<1>4. text \in Seq(Char)
  BY <1>1, <1>2, <1>3
<1> QED
  BY <1>2, <1>4 DEF text, len

\* filename_forge() fills its buffer to the last character and does what the
\* pattern asks for, whatever the pattern, the name and the number.
THEOREM ForgeCorrect ==
  ASSUME NEW srcname \in Seq(Char), NEW framenum \in Nat, framenum < Limit,
         NEW pat \in Seq(Char)
  PROVE  ForgesAsAsked(srcname, framenum, pat)
<1> DEFINE len == FramenumExpandedLen(framenum)
           fnum == Itoa(framenum, len)
           name == FilenameForge(srcname, framenum, pat)
<1>1. len \in 1 .. 10 /\ framenum < 10 ^ len
  BY LengthIs
<1>2. fnum \in Seq(Char) /\ Len(fnum) = len
  BY ItoaIs
<1>3. Number(fnum) = framenum
  BY <1>1, NumberIs
<1>4. fnum[1] = "0" => framenum = 0
  BY FirstDigit
<1>5. name = Copied(srcname, fnum, pat)[1]
  BY DEF FilenameForge
<1>6. name = Expanded(srcname, fnum, pat)
  BY <1>2, <1>5, ForgedIsExpanded
<1>7. Len(name) = BufLen(srcname, framenum, pat)
  <2>1. Len(pat) \in Nat /\ 1 \in 1 .. Len(pat) + 1
    OBVIOUS
  <2>2. Len(name) = Len(pat) + 1 - 1 + (Len(fnum) - 2) * Left(pat, "f", 1)
                                     + (Len(srcname) - 2) * Left(pat, "n", 1)
    <3> HIDE DEF fnum, name
    <3>1. Len(Copied(srcname, fnum, pat)[1]) =
            Len(pat) + 1 - 1 + (Len(fnum) - 2) * Left(pat, "f", 1)
                             + (Len(srcname) - 2) * Left(pat, "n", 1)
      BY <1>2, <2>1, CopiedLength, Zenon
    <3> QED
      BY <1>5, <3>1, Zenon
  <2>3. \A x : Left(pat, x, 1) = Cardinality(Places(pat, x))
    <3>1. \A x : {i \in Places(pat, x) : i >= 1} = Places(pat, x)
      BY DEF Places
    <3> QED
      BY <3>1 DEF Left
  <2>4. Len(pat) + 1 - 1 = Len(pat)
    BY <2>1
  <2> HIDE DEF fnum, name
  <2>5. Len(name) = Len(pat) + (len - 2) * Cardinality(Places(pat, "f"))
                             + (Len(srcname) - 2) * Cardinality(Places(pat, "n"))
    BY <1>2, <2>2, <2>3, <2>4
  <2> QED
    BY <2>5, Zenon DEF BufLen, name
<1> QED
  BY <1>3, <1>4, <1>6, <1>7 DEF ForgesAsAsked

-----------------------------------------------------------------------------
\* The character behind the name of the source.
Underscore == "_"

\* Where the characters of two sequences are when they are joined.
LEMMA Joined ==
  ASSUME NEW r \in Seq(Char), NEW s \in Seq(Char)
  PROVE  /\ r \o s \in Seq(Char)
         /\ Len(r \o s) = Len(r) + Len(s)
         /\ \A k \in 1 .. Len(r) : (r \o s)[k] = r[k]
         /\ \A k \in 1 .. Len(s) : (r \o s)[Len(r) + k] = s[k]
OBVIOUS

\* A character in front of a sequence.
LEMMA InFront ==
  ASSUME NEW a \in Char, NEW s \in Seq(Char)
  PROVE  /\ <<a>> \o s \in Seq(Char)
         /\ Len(<<a>> \o s) = 1 + Len(s)
         /\ (<<a>> \o s)[1] = a
         /\ \A k \in 1 .. Len(s) : (<<a>> \o s)[1 + k] = s[k]
<1> DEFINE r == <<a>>
           w == r \o s
<1>1. r \in Seq(Char) /\ Len(r) = 1 /\ r[1] = a
  OBVIOUS
<1> HIDE DEF r
<1>2. /\ w \in Seq(Char) /\ Len(w) = Len(r) + Len(s)
      /\ \A k \in 1 .. Len(r) : w[k] = r[k]
      /\ \A k \in 1 .. Len(s) : w[Len(r) + k] = s[k]
  BY <1>1, Joined, Zenon
<1> HIDE DEF w
<1>3. w \in Seq(Char) /\ Len(w) = 1 + Len(s) /\ w[1] = a
      /\ \A k \in 1 .. Len(s) : w[1 + k] = s[k]
  BY <1>1, <1>2
<1> QED
  BY <1>3, Zenon DEF w, r

\* A sequence of n characters without x.
Plain(s, x, n) == s \in Seq(Char) /\ Len(s) = n /\ \A k \in 1 .. Len(s) : s[k] # x

\* Another character than x in front of such a sequence.
LEMMA PlainInFront ==
  ASSUME NEW x, NEW a \in Char, a # x, NEW s, NEW n \in Nat, Plain(s, x, n)
  PROVE  Plain(<<a>> \o s, x, n + 1)
<1> DEFINE w == <<a>> \o s
<1>1. s \in Seq(Char) /\ Len(s) = n /\ \A k \in 1 .. Len(s) : s[k] # x
  BY DEF Plain
<1>2. /\ w \in Seq(Char) /\ Len(w) = 1 + Len(s) /\ w[1] = a
      /\ \A k \in 1 .. Len(s) : w[1 + k] = s[k]
  <2>1. s \in Seq(Char)
    BY <1>1
  <2> QED
    BY <2>1, InFront, Zenon
<1> HIDE DEF w
<1>3. ASSUME NEW k \in 1 .. Len(w)
      PROVE  w[k] # x
  <2>1. CASE k = 1
    BY <1>2, <2>1
  <2>2. CASE k # 1
    <3> DEFINE j == k - 1
    <3>1. j \in 1 .. Len(s) /\ 1 + j = k
      BY <1>1, <1>2, <2>2
    <3> HIDE DEF j
    <3> QED
      BY <1>1, <1>2, <3>1
  <2> QED
    BY <2>1, <2>2
<1> QED
  BY <1>1, <1>2, <1>3 DEF Plain, w

\* What the pattern of mjvmulti has at each place.
LEMMA PatternAt ==
  /\ Pattern[1] = "%" /\ Pattern[2] = "n" /\ Pattern[3] = "_"
  /\ Pattern[4] = "%" /\ Pattern[5] = "f" /\ Pattern[6] = "."
  /\ Pattern[7] = "j" /\ Pattern[8] = "p" /\ Pattern[9] = "g"
  BY DEF Pattern

\* It has a placeholder for the name and one for the number.
LEMMA PatternIs ==
  /\ Pattern \in Seq(Char) /\ Len(Pattern) = 9
  /\ Places(Pattern, "f") = {4} /\ Places(Pattern, "n") = {1}
<1>1. Len(Pattern) = 9 /\ Pattern = [i \in 1 .. 9 |-> Pattern[i]]
  BY DEF Pattern
<1>2. ASSUME NEW i \in 1 .. 9
      PROVE  Pattern[i] \in Char
  <2>1. {"%", "n", "_", "f", ".", "j", "p", "g"} \subseteq Char
    BY DEF Char
  <2>2. i = 1 \/ i = 2 \/ i = 3 \/ i = 4 \/ i = 5 \/ i = 6 \/ i = 7 \/ i = 8 \/ i = 9
    OBVIOUS
  <2>3. Pattern[i] \in {"%", "n", "_", "f", ".", "j", "p", "g"}
    BY PatternAt, <2>2, Zenon
  <2> QED
    BY <2>1, <2>3
<1>3. Pattern \in Seq(Char)
  BY <1>1, <1>2
<1>4. ASSUME NEW i \in 1 .. 8
      PROVE  /\ Pattern[i] = "%" /\ Pattern[i + 1] = "f" <=> i = 4
             /\ Pattern[i] = "%" /\ Pattern[i + 1] = "n" <=> i = 1
  <2>1. i = 1 \/ i = 2 \/ i = 3 \/ i = 4 \/ i = 5 \/ i = 6 \/ i = 7 \/ i = 8
    OBVIOUS
  <2>2. CASE i = 1
    <3>1. i + 1 = 2 /\ i # 4 /\ "n" # "f"
      BY <2>2
    <3> QED
      BY PatternAt, <2>2, <3>1, Zenon
  <2>3. CASE i = 4
    <3>1. i + 1 = 5 /\ i # 1 /\ "n" # "f"
      BY <2>3
    <3> QED
      BY PatternAt, <2>3, <3>1, Zenon
  <2>4. CASE i # 1 /\ i # 4
    <3>1. /\ Pattern[2] # "%" /\ Pattern[3] # "%" /\ Pattern[5] # "%"
          /\ Pattern[6] # "%" /\ Pattern[7] # "%" /\ Pattern[8] # "%"
      BY PatternAt
    <3>2. Pattern[i] # "%"
      BY <2>1, <2>4, <3>1, Zenon
    <3> QED
      BY <2>4, <3>2
  <2> QED
    BY <2>2, <2>3, <2>4
<1>5. Places(Pattern, "f") = {i \in 1 .. 8 : Pattern[i] = "%" /\ Pattern[i + 1] = "f"}
  BY <1>1 DEF Places
<1>6. Places(Pattern, "n") = {i \in 1 .. 8 : Pattern[i] = "%" /\ Pattern[i + 1] = "n"}
  BY <1>1 DEF Places
<1>7. Places(Pattern, "f") = {4}
  BY <1>4, <1>5
<1>8. Places(Pattern, "n") = {1}
  BY <1>4, <1>6
<1> QED
  BY <1>1, <1>3, <1>7, <1>8

\* The name of the source, an underscore, the number, and a suffix without
\* underscores.
LEMMA ForgedIs ==
  ASSUME NEW s \in Seq(Char), NEW fnum \in Seq(Char)
  PROVE  \E z : /\ Plain(z, Underscore, 4)
                /\ Copied(s, fnum, Pattern)[1] = s \o (<<Underscore>> \o (fnum \o z))
<1> DEFINE C == Copied(s, fnum, Pattern)
<1>1. /\ C[9 + 1] = <<>>
      /\ \A c \in {4} : C[c] = fnum \o C[c + 2]
      /\ \A c \in {1} : C[c] = s \o C[c + 2]
      /\ \A c \in 1 .. 9 : c \notin {4} /\ c \notin {1} => C[c] = <<Pattern[c]>> \o C[c + 1]
  <2>1. /\ C[Len(Pattern) + 1] = <<>>
        /\ \A c \in Places(Pattern, "f") : C[c] = fnum \o C[c + 2]
        /\ \A c \in Places(Pattern, "n") : C[c] = s \o C[c + 2]
        /\ \A c \in 1 .. Len(Pattern) :
             c \notin Places(Pattern, "f") /\ c \notin Places(Pattern, "n") =>
               C[c] = <<Pattern[c]>> \o C[c + 1]
    <3>1. Steps(C, s, fnum, Pattern)
      BY PatternIs, CopiedSteps, Zenon
    <3> QED
      BY <3>1, Zenon DEF Steps
  <2> HIDE DEF C
  <2> QED
    BY PatternIs, <2>1
<1> HIDE DEF C
<1>2. /\ C[1] = s \o C[3]
      /\ C[3] = <<Pattern[3]>> \o C[4]
      /\ C[4] = fnum \o C[6]
      /\ C[6] = <<Pattern[6]>> \o C[7]
      /\ C[7] = <<Pattern[7]>> \o C[8]
      /\ C[8] = <<Pattern[8]>> \o C[9]
      /\ C[9] = <<Pattern[9]>> \o C[10]
      /\ C[10] = <<>>
  <2>1. \A c \in {3, 6, 7, 8, 9} : c \in 1 .. 9 /\ c \notin {4} /\ c \notin {1}
    OBVIOUS
  <2>2. \A c \in {3, 6, 7, 8, 9} : C[c] = <<Pattern[c]>> \o C[c + 1]
    BY <1>1, <2>1, Zenon
  <2>3. /\ 3 + 1 = 4 /\ 6 + 1 = 7 /\ 7 + 1 = 8 /\ 8 + 1 = 9 /\ 9 + 1 = 10
        /\ 4 + 2 = 6 /\ 1 + 2 = 3
    OBVIOUS
  <2>4. /\ C[3] = <<Pattern[3]>> \o C[3 + 1]
        /\ C[6] = <<Pattern[6]>> \o C[6 + 1]
        /\ C[7] = <<Pattern[7]>> \o C[7 + 1]
        /\ C[8] = <<Pattern[8]>> \o C[8 + 1]
        /\ C[9] = <<Pattern[9]>> \o C[9 + 1]
    BY <2>2, Zenon
  <2>5. C[1] = s \o C[1 + 2] /\ C[4] = fnum \o C[4 + 2] /\ C[9 + 1] = <<>>
    BY <1>1, Zenon
  <2> QED
    BY <2>3, <2>4, <2>5, Zenon
<1>3. /\ "." \in Char /\ "j" \in Char /\ "p" \in Char /\ "g" \in Char
      /\ "." # Underscore /\ "j" # Underscore /\ "p" # Underscore /\ "g" # Underscore
  BY DEF Char, Underscore
<1>4. Plain(C[10], Underscore, 0)
  <2>1. <<>> \in Seq(Char) /\ Len(<<>>) = 0
    BY EmptySeq, Zenon
  <2>2. \A k \in 1 .. 0 : FALSE
    OBVIOUS
  <2>3. Plain(<<>>, Underscore, 0)
    BY <2>1, <2>2, Zenon DEF Plain
  <2> QED
    BY <1>2, <2>3, Zenon
<1>5. Plain(C[9], Underscore, 1)
  <2>1. Plain(<<"g">> \o C[10], Underscore, 0 + 1)
    BY <1>3, <1>4, PlainInFront
  <2>2. 0 + 1 = 1
    OBVIOUS
  <2> QED
    BY <1>2, <2>1, <2>2, PatternAt, Zenon
<1>6. Plain(C[8], Underscore, 2)
  <2>1. Plain(<<"p">> \o C[9], Underscore, 1 + 1)
    BY <1>3, <1>5, PlainInFront
  <2>2. 1 + 1 = 2
    OBVIOUS
  <2> QED
    BY <1>2, <2>1, <2>2, PatternAt, Zenon
<1>7. Plain(C[7], Underscore, 3)
  <2>1. Plain(<<"j">> \o C[8], Underscore, 2 + 1)
    BY <1>3, <1>6, PlainInFront
  <2>2. 2 + 1 = 3
    OBVIOUS
  <2> QED
    BY <1>2, <2>1, <2>2, PatternAt, Zenon
<1>8. Plain(C[6], Underscore, 4)
  <2>1. Plain(<<".">> \o C[7], Underscore, 3 + 1)
    BY <1>3, <1>7, PlainInFront
  <2>2. 3 + 1 = 4
    OBVIOUS
  <2> QED
    BY <1>2, <2>1, <2>2, PatternAt, Zenon
<1>9. C[1] = s \o (<<Underscore>> \o (fnum \o C[6]))
  BY <1>2, PatternAt, Zenon DEF Underscore
<1> QED
  BY <1>8, <1>9 DEF C

\* Where each of these stands.
Laid(F, s, fnum, z) ==
  /\ Len(F) = Len(s) + 1 + Len(fnum) + Len(z)
  /\ \A i \in 1 .. Len(s) : F[i] = s[i]
  /\ F[Len(s) + 1] = Underscore
  /\ \A k \in 1 .. Len(fnum) : F[Len(s) + 1 + k] = fnum[k]
  /\ \A k \in 1 .. Len(z) : F[Len(s) + 1 + Len(fnum) + k] = z[k]

LEMMA ForgedAt ==
  ASSUME NEW s \in Seq(Char), NEW fnum \in Seq(Char), NEW z \in Seq(Char)
  PROVE  Laid(s \o (<<Underscore>> \o (fnum \o z)), s, fnum, z)
<1> DEFINE u == fnum \o z
           v == <<Underscore>> \o u
           F == s \o v
<1>1. Len(s) \in Nat /\ Len(fnum) \in Nat /\ Len(z) \in Nat
  OBVIOUS
<1>2. /\ u \in Seq(Char) /\ Len(u) = Len(fnum) + Len(z)
      /\ \A k \in 1 .. Len(fnum) : u[k] = fnum[k]
      /\ \A k \in 1 .. Len(z) : u[Len(fnum) + k] = z[k]
  BY Joined, Zenon
<1> HIDE DEF u
<1>3. /\ v \in Seq(Char) /\ Len(v) = 1 + Len(u)
      /\ v[1] = Underscore
      /\ \A k \in 1 .. Len(u) : v[1 + k] = u[k]
  <2>1. Underscore \in Char
    BY DEF Char, Underscore
  <2> QED
    BY <1>2, <2>1, InFront
<1> HIDE DEF v
<1>4. /\ Len(F) = Len(s) + Len(v)
      /\ \A i \in 1 .. Len(s) : F[i] = s[i]
      /\ \A k \in 1 .. Len(v) : F[Len(s) + k] = v[k]
  BY <1>3, Joined, Zenon
<1> HIDE DEF F
<1>5. F[Len(s) + 1] = Underscore
  <2>1. 1 \in 1 .. Len(v)
    BY <1>1, <1>2, <1>3
  <2> QED
    BY <1>3, <1>4, <2>1
<1>6. ASSUME NEW k \in 1 .. Len(u)
      PROVE  F[Len(s) + 1 + k] = u[k]
  <2>1. 1 + k \in 1 .. Len(v) /\ Len(s) + (1 + k) = Len(s) + 1 + k
    BY <1>1, <1>2, <1>3
  <2>2. F[Len(s) + (1 + k)] = v[1 + k]
    BY <1>4, <2>1
  <2> QED
    BY <1>3, <2>1, <2>2
<1>7. ASSUME NEW k \in 1 .. Len(fnum)
      PROVE  F[Len(s) + 1 + k] = fnum[k]
  <2>1. k \in 1 .. Len(u)
    BY <1>1, <1>2
  <2> QED
    BY <1>2, <1>6, <2>1
<1>8. ASSUME NEW k \in 1 .. Len(z)
      PROVE  F[Len(s) + 1 + Len(fnum) + k] = z[k]
  <2>1. Len(fnum) + k \in 1 .. Len(u)
        /\ Len(s) + 1 + (Len(fnum) + k) = Len(s) + 1 + Len(fnum) + k
    BY <1>1, <1>2
  <2>2. F[Len(s) + 1 + (Len(fnum) + k)] = u[Len(fnum) + k]
    BY <1>6, <2>1
  <2> QED
    BY <1>2, <2>1, <2>2
<1>9. Len(F) = Len(s) + 1 + Len(fnum) + Len(z)
  BY <1>1, <1>2, <1>3, <1>4
<1> QED
  BY <1>4, <1>5, <1>7, <1>8, <1>9 DEF F, v, u, Laid

\* Behind the underscore of the pattern there is no other.
LEMMA LastUnderscore ==
  ASSUME NEW s \in Seq(Char), NEW n \in Nat, n < Limit,
         NEW z \in Seq(Char), \A k \in 1 .. Len(z) : z[k] # Underscore
  PROVE  LET fnum == Itoa(n, FramenumExpandedLen(n))
             F    == s \o (<<Underscore>> \o (fnum \o z))
         IN  \A i \in Len(s) + 2 .. Len(F) : F[i] # Underscore
<1> DEFINE len == FramenumExpandedLen(n)
           fnum == Itoa(n, len)
           F == s \o (<<Underscore>> \o (fnum \o z))
<1>1. len \in 1 .. 10
  BY LengthIs
<1>2. fnum \in Seq(Char) /\ Len(fnum) = len
  BY ItoaIs
<1>3. ASSUME NEW k \in 1 .. len
      PROVE  fnum[k] # Underscore
  <2>1. PICK d \in 0 .. 9 : fnum[k] = Digits[d + 1]
    BY <1>1, DigitAt
  <2> HIDE DEF fnum
  <2> DEFINE w == d + 1
  <2>2. w = 1 \/ w = 2 \/ w = 3 \/ w = 4 \/ w = 5 \/ w = 6 \/ w = 7 \/ w = 8 \/ w = 9 \/ w = 10
    OBVIOUS
  <2> HIDE DEF w
  <2>3. /\ Digits[1] # Underscore /\ Digits[2] # Underscore /\ Digits[3] # Underscore /\ Digits[4] # Underscore
        /\ Digits[5] # Underscore /\ Digits[6] # Underscore /\ Digits[7] # Underscore /\ Digits[8] # Underscore
        /\ Digits[9] # Underscore /\ Digits[10] # Underscore
    BY DEF Digits, Underscore
  <2>4. Digits[w] # Underscore
    BY <2>2, <2>3, Zenon
  <2> QED
    BY <2>1, <2>4 DEF w
<1> HIDE DEF len, fnum
<1>4. Laid(F, s, fnum, z)
  BY <1>2, ForgedAt, Zenon
<1> HIDE DEF F
<1>5. Len(s) \in Nat /\ Len(z) \in Nat
  OBVIOUS
<1>6. ASSUME NEW i \in Len(s) + 2 .. Len(F)
      PROVE  F[i] # Underscore
  <2>1. CASE i <= Len(s) + 1 + len
    <3> DEFINE k == i - Len(s) - 1
    <3>1. k \in 1 .. len /\ Len(s) + 1 + k = i
      BY <1>1, <1>5, <2>1
    <3> HIDE DEF k
    <3> QED
      <4>1. F[Len(s) + 1 + k] = fnum[k]
        BY <1>2, <1>4, <3>1, Zenon DEF Laid
      <4> QED
        BY <1>3, <3>1, <4>1, Zenon
  <2>2. CASE i > Len(s) + 1 + len
    <3> DEFINE k == i - Len(s) - 1 - len
    <3>1. k \in 1 .. Len(z) /\ Len(s) + 1 + len + k = i
      <4>1. Len(F) = Len(s) + 1 + len + Len(z)
        BY <1>2, <1>4, Zenon DEF Laid
      <4> QED
        BY <1>1, <1>5, <2>2, <4>1
    <3> HIDE DEF k
    <3> QED
      <4>1. F[Len(s) + 1 + len + k] = z[k]
        BY <1>2, <1>4, <3>1, Zenon DEF Laid
      <4>2. z[k] # Underscore
        BY <3>1, Zenon
      <4> QED
        BY <3>1, <4>1, <4>2, Zenon
  <2> QED
    BY <1>1, <1>5, <2>1, <2>2
<1> QED
  BY <1>6 DEF F, fnum, len

\* The names of two files differ in the name of the source or in the number.
LEMMA NamesApart ==
  ASSUME NEW s \in Seq(Char), NEW m \in Nat, m < Limit,
         NEW r \in Seq(Char), NEW n \in Nat, n < Limit,
         FilenameForge(s, m, Pattern) = FilenameForge(r, n, Pattern)
  PROVE  s = r /\ m = n
<1> DEFINE a == Itoa(m, FramenumExpandedLen(m))
           b == Itoa(n, FramenumExpandedLen(n))
<1>1. a \in Seq(Char) /\ b \in Seq(Char)
      /\ Len(a) = FramenumExpandedLen(m) /\ Len(b) = FramenumExpandedLen(n)
  BY ItoaIs
<1>2. Number(a) = m /\ Number(b) = n
  <2>1. /\ FramenumExpandedLen(m) \in 1 .. 10 /\ m < 10 ^ FramenumExpandedLen(m)
        /\ FramenumExpandedLen(n) \in 1 .. 10 /\ n < 10 ^ FramenumExpandedLen(n)
    BY LengthIs
  <2> QED
    BY <2>1, NumberIs
<1>3. PICK y : /\ Plain(y, Underscore, 4)
                /\ Copied(s, a, Pattern)[1] = s \o (<<Underscore>> \o (a \o y))
  BY <1>1, ForgedIs, Zenon
<1>4. PICK z : /\ Plain(z, Underscore, 4)
                /\ Copied(r, b, Pattern)[1] = r \o (<<Underscore>> \o (b \o z))
  BY <1>1, ForgedIs, Zenon
<1>5. y \in Seq(Char) /\ Len(y) = 4 /\ z \in Seq(Char) /\ Len(z) = 4
       /\ (\A k \in 1 .. Len(y) : y[k] # Underscore) /\ (\A k \in 1 .. Len(z) : z[k] # Underscore)
  BY <1>3, <1>4, Zenon DEF Plain
<1> DEFINE F == s \o (<<Underscore>> \o (a \o y))
           G == r \o (<<Underscore>> \o (b \o z))
<1>6. \A i \in Len(s) + 2 .. Len(F) : F[i] # Underscore
  BY <1>5, LastUnderscore
<1>7. \A i \in Len(r) + 2 .. Len(G) : G[i] # Underscore
  BY <1>5, LastUnderscore
<1>8. F = G
  <2>1. Copied(s, a, Pattern)[1] = Copied(r, b, Pattern)[1]
    BY DEF FilenameForge
  <2> QED
    BY <1>3, <1>4, <2>1, Zenon
<1> HIDE DEF a, b
<1>9. /\ Len(F) = Len(s) + 1 + Len(a) + Len(y)
      /\ \A i \in 1 .. Len(s) : F[i] = s[i]
      /\ F[Len(s) + 1] = Underscore
      /\ \A k \in 1 .. Len(a) : F[Len(s) + 1 + k] = a[k]
  <2>1. Laid(F, s, a, y)
    BY <1>1, <1>5, ForgedAt, Zenon
  <2> QED
    BY <2>1, Zenon DEF Laid
<1>10. /\ Len(G) = Len(r) + 1 + Len(b) + Len(z)
       /\ \A i \in 1 .. Len(r) : G[i] = r[i]
       /\ G[Len(r) + 1] = Underscore
       /\ \A k \in 1 .. Len(b) : G[Len(r) + 1 + k] = b[k]
  <2>1. Laid(G, r, b, z)
    BY <1>1, <1>5, ForgedAt, Zenon
  <2> QED
    BY <2>1, Zenon DEF Laid
<1> HIDE DEF F, G
<1>11. Len(s) \in Nat /\ Len(r) \in Nat /\ Len(a) \in Nat /\ Len(b) \in Nat
       /\ Len(y) = 4 /\ Len(z) = 4
  BY <1>1, <1>5
<1>12. Len(s) = Len(r)
  <2>1. CASE Len(s) < Len(r)
    <3>1. Len(r) + 1 \in Len(s) + 2 .. Len(F)
      <4>1. Len(F) = Len(r) + 1 + Len(b) + Len(z)
        BY <1>8, <1>10
      <4> QED
        BY <1>11, <2>1, <4>1
    <3> QED
      BY <1>6, <1>8, <1>10, <3>1
  <2>2. CASE Len(r) < Len(s)
    <3>1. Len(s) + 1 \in Len(r) + 2 .. Len(G)
      <4>1. Len(G) = Len(s) + 1 + Len(a) + Len(y)
        BY <1>8, <1>9
      <4> QED
        BY <1>11, <2>2, <4>1
    <3> QED
      BY <1>7, <1>8, <1>9, <3>1
  <2> QED
    BY <1>11, <2>1, <2>2
<1>13. Len(a) = Len(b)
  <2>1. Len(s) + 1 + Len(a) + Len(y) = Len(r) + 1 + Len(b) + Len(z)
    BY <1>8, <1>9, <1>10
  <2> QED
    BY <1>11, <1>12, <2>1
<1>14. s = r
  <2>1. \A i \in 1 .. Len(s) : s[i] = r[i]
    BY <1>8, <1>9, <1>10, <1>12
  <2> QED
    BY <1>12, <2>1
<1>15. a = b
  <2>1. \A k \in 1 .. Len(a) : a[k] = b[k]
    <3> SUFFICES ASSUME NEW k \in 1 .. Len(a) PROVE a[k] = b[k]
      OBVIOUS
    <3>1. F[Len(s) + 1 + k] = a[k]
      BY <1>9
    <3>2. G[Len(r) + 1 + k] = b[k]
      <4>1. k \in 1 .. Len(b)
        BY <1>13
      <4> QED
        BY <1>10, <4>1
    <3> QED
      BY <1>8, <1>12, <3>1, <3>2
  <2> QED
    BY <1>1, <1>13, <2>1
<1> QED
  BY <1>2, <1>14, <1>15

-----------------------------------------------------------------------------
(* The threads of mjvmulti.                                                *)

USE MultiAssumption DEF MultiAssumption, Threads

Ended(i) == thread[i] \in {"end", "none"}

\* The first structures have been made, and of the first of those the threads;
\* when the main thread cancels structure t, the threads before it have ended.
Progress ==
  /\ main \in {"config", "create"} => /\ created = t - 1
                                      /\ \A i \in Threads : thread[i] = "none"
  /\ main = "config" => t = 1
  /\ main = "start" => \A i \in Threads : i >= t => thread[i] = "none"
  /\ main = "join" => t <= created
  /\ \A i \in Threads : i > created => thread[i] = "none"
  /\ main \in {"cancel", "join"} => \A i \in Threads : i < t => Ended(i)
  /\ main \in {"destroy", "exited"} => \A i \in Threads : Ended(i)
  /\ main \notin {"destroy", "exited"} => \A i \in Threads : ~freed[i]

IInv == TypeOK /\ Progress

LEMMA InitIInv == Init => IInv
<1> SUFFICES ASSUME Init PROVE IInv
  OBVIOUS
<1>1. pipe \in [Threads -> Pipes]
  BY DEF Init, NoPipe, Pipes
<1>2. {handler, quit_flag, killed, fault} \subseteq BOOLEAN
  BY DEF Init
<1>3. /\ thread \in [Threads -> ThreadPcs] /\ freed \in [Threads -> BOOLEAN]
      /\ n_frames \in [Threads -> 0 .. MaxFrames]
  BY DEF Init, ThreadPcs
<1>4. main \in MainPcs /\ t \in 1 .. Sources + 1 /\ created \in 0 .. Sources
  BY DEF Init, MainPcs
<1>5. \A f \in files : f.source \in Threads /\ f.frame \in 1 .. n_frames[f.source]
  BY DEF Init
<1>6. Progress
  BY DEF Init, Progress
<1> QED
  BY <1>1, <1>2, <1>3, <1>4, <1>5, <1>6 DEF IInv, TypeOK

\* What one step of a thread does: it moves on, or ends, and may have got a
\* frame.
LEMMA ThreadStepFacts ==
  ASSUME IInv, NEW i \in Threads, ThreadStep(i)
  PROVE  /\ thread[i] \notin {"end", "none"}
         /\ thread' = [thread EXCEPT ![i] = thread'[i]]
         /\ thread'[i] \in ThreadPcs
         /\ UNCHANGED <<main, t, created, pipe, freed, handler, quit_flag, killed, fault>>
         /\ n_frames' \in [Threads -> 0 .. MaxFrames]
         /\ \A j \in Threads : n_frames[j] <= n_frames'[j]
         /\ \A f \in files' \ files : f.source \in Threads /\ f.frame \in 1 .. n_frames'[f.source]
<1>1. /\ thread \in [Threads -> ThreadPcs] /\ n_frames \in [Threads -> 0 .. MaxFrames]
  BY DEF IInv, TypeOK
<1>2. CASE Open(i) \/ Select(i) \/ Read(i) \/ Parse(i)
  <2>1. UNCHANGED output
    BY <1>2 DEF Open, Select, Read, Parse
  <2> QED
    BY <1>1, <1>2, <2>1 DEF Open, Select, Read, Parse, ThreadGoes, ThreadPcs, output
<1>3. CASE GotFrame(i)
  <2> DEFINE file == [name   |-> FilenameForge(Names[i], n_frames[i] + 1, Pattern),
                      source |-> i,
                      frame  |-> n_frames[i] + 1]
  <2>1. /\ n_frames[i] < MaxFrames /\ n_frames' = [n_frames EXCEPT ![i] = n_frames[i] + 1]
        /\ files' = files \/ files' = files \cup {file}
    BY <1>3 DEF GotFrame
  <2>2. file.source = i /\ file.frame = n_frames[i] + 1
    OBVIOUS
  <2> HIDE DEF file
  <2>3. n_frames' \in [Threads -> 0 .. MaxFrames] /\ n_frames'[i] = n_frames[i] + 1
    BY <1>1, <2>1
  <2>4. \A j \in Threads : n_frames[j] <= n_frames'[j]
    BY <1>1, <2>1
  <2>5. \A f \in files' \ files : f.source \in Threads /\ f.frame \in 1 .. n_frames'[f.source]
    BY <1>1, <2>1, <2>2, <2>3
  <2>6. /\ thread[i] = "parse" /\ thread' = [thread EXCEPT ![i] = "parse"]
        /\ UNCHANGED <<main, t, created, pipe, freed, handler, quit_flag, killed, fault>>
    BY <1>3 DEF GotFrame, ThreadGoes
  <2> QED
    BY <1>1, <2>3, <2>4, <2>5, <2>6 DEF ThreadPcs
<1> QED
  BY <1>2, <1>3 DEF ThreadStep

LEMMA ThreadStepIInv ==
  ASSUME IInv, NEW i \in Threads, ThreadStep(i)
  PROVE  IInv'
<1>1. /\ thread \in [Threads -> ThreadPcs] /\ n_frames \in [Threads -> 0 .. MaxFrames]
      /\ \A f \in files : f.source \in Threads /\ f.frame \in 1 .. n_frames[f.source]
  BY DEF IInv, TypeOK
<1>2. \A f \in files' : f.source \in Threads /\ f.frame \in 1 .. n_frames'[f.source]
  <2> SUFFICES ASSUME NEW f \in files, f \in files'
               PROVE  f.source \in Threads /\ f.frame \in 1 .. n_frames'[f.source]
    BY ThreadStepFacts
  <2>1. n_frames[f.source] <= n_frames'[f.source]
    BY <1>1, ThreadStepFacts
  <2> QED
    BY <1>1, <2>1, ThreadStepFacts
<1>3. TypeOK'
  BY <1>1, <1>2, ThreadStepFacts DEF IInv, TypeOK
<1>4. \A j \in Threads : thread[j] = "none" => thread'[j] = "none"
  BY <1>1, ThreadStepFacts
<1>5. \A j \in Threads : Ended(j) => Ended(j)'
  BY <1>1, ThreadStepFacts DEF Ended
<1>6. Progress'
  BY <1>4, <1>5, ThreadStepFacts DEF IInv, Progress
<1> QED
  BY <1>3, <1>6 DEF IInv

LEMMA MainStepIInv ==
  ASSUME IInv, MainStep
  PROVE  IInv'
<1> USE DEF IInv, TypeOK, MainGoes, MainPcs, output
<1>1. UNCHANGED output
  BY DEF MainStep, ReadConfig, ThreadCreate, Created, Start, SigSetup, CheckQuitFlag, Wake,
         ThreadCancel, Join, JoinFaults, AllCancelled, ThreadDestroy, Exit
<1>2. CASE ReadConfig
  BY <1>1, <1>2 DEF ReadConfig, Progress, Ended
<1>3. CASE ThreadCreate
  <2>1. pipe' \in [Threads -> Pipes]
    BY <1>3 DEF ThreadCreate, Pair, Pipes
  <2>2. TypeOK'
    BY <1>1, <1>3, <2>1 DEF ThreadCreate
  <2>3. Progress'
    BY <1>3 DEF ThreadCreate, Progress, Ended
  <2> QED
    BY <2>2, <2>3
<1>4. CASE Created
  <2>1. TypeOK'
    BY <1>1, <1>4 DEF Created
  <2>2. Progress'
    BY <1>4 DEF Created, Progress, Ended
  <2> QED
    BY <2>1, <2>2
<1>5. CASE Start
  <2>1. TypeOK'
    BY <1>1, <1>5 DEF Start, ThreadPcs
  <2>2. Progress'
    BY <1>5 DEF Start, Progress, Ended
  <2> QED
    BY <2>1, <2>2
<1>6. CASE SigSetup \/ CheckQuitFlag \/ Wake \/ AllCancelled \/ Exit
  <2>1. TypeOK'
    <3>1. handler' \in BOOLEAN /\ UNCHANGED <<created, thread, pipe, freed, quit_flag, killed, fault>>
      BY <1>6 DEF SigSetup, CheckQuitFlag, Wake, AllCancelled, Exit
    <3>2. main' \in MainPcs /\ t' \in 1 .. Sources + 1
      BY <1>6 DEF SigSetup, CheckQuitFlag, Wake, AllCancelled, Exit
    <3> QED
      BY <1>1, <3>1, <3>2
  <2>2. Progress'
    BY <1>6 DEF SigSetup, CheckQuitFlag, Wake, AllCancelled, Exit, Progress, Ended
  <2> QED
    BY <2>1, <2>2
<1>7. CASE ThreadCancel
  <2>1. pipe' \in [Threads -> Pipes]
    BY <1>7 DEF ThreadCancel, WriteClose, WriteEndClosed, ByteWritten, Pipes
  <2>2. TypeOK'
    BY <1>1, <1>7, <2>1 DEF ThreadCancel
  <2>3. Progress'
    BY <1>7 DEF ThreadCancel, Progress, Ended
  <2> QED
    BY <2>2, <2>3
<1>8. CASE Join
  <2>1. TypeOK'
    BY <1>1, <1>8 DEF Join, Progress
  <2>2. Progress'
    BY <1>8 DEF Join, Progress, Ended
  <2> QED
    BY <2>1, <2>2
<1>9. CASE ThreadDestroy
  <2>1. pipe' \in [Threads -> Pipes]
    BY <1>9 DEF ThreadDestroy, NoPipe, Pipes
  <2>2. TypeOK'
    BY <1>1, <1>9, <2>1 DEF ThreadDestroy
  <2>3. Progress'
    BY <1>9 DEF ThreadDestroy, Progress, Ended
  <2> QED
    BY <2>2, <2>3
<1>10. CASE JoinFaults
  BY <1>1, <1>10 DEF JoinFaults, Progress, Ended
<1> QED
  BY <1>2, <1>3, <1>4, <1>5, <1>6, <1>7, <1>8, <1>9, <1>10 DEF MainStep

LEMMA NextIInv == IInv /\ [Next]_vars => IInv'
<1> SUFFICES ASSUME IInv, [Next]_vars PROVE IInv'
  OBVIOUS
<1>1. CASE Signal
  BY <1>1 DEF Signal, IInv, TypeOK, Progress, Ended, output
<1>2. CASE UNCHANGED vars
  BY <1>2 DEF vars, IInv, TypeOK, Progress, Ended, output
<1> QED
  BY <1>1, <1>2, MainStepIInv, ThreadStepIInv DEF Next

\* The invariant holds in every reachable state of mjvmulti.
THEOREM Invariance == Spec => []IInv
  BY InitIInv, NextIInv, PTL DEF Spec

\* The main thread stays within the list of structures, and no file has a frame
\* that was not received.
THEOREM TypeCorrect == Spec => []TypeOK
  BY Invariance, PTL DEF IInv

\* No helper structure is freed while a thread runs, for any number of sources
\* and whichever of them got no thread.
THEOREM FreedCorrect == Spec => []FreedAfterEnd
<1>1. IInv => FreedAfterEnd
  BY DEF IInv, Progress, FreedAfterEnd, Ended
<1> QED
  BY <1>1, Invariance, PTL

-----------------------------------------------------------------------------
(* The files.                                                              *)

\* The number of the first frame that is not written.
Unwritten == 1000000000

\* Every file has the name of its frame, and the number of the frame is one that
\* is written.
FilesNamed ==
  \A f \in files : /\ f.source \in Threads
                   /\ f.frame \in Nat /\ f.frame < Unwritten
                   /\ f.name = FilenameForge(Names[f.source], f.frame, Pattern)

LEMMA FilesNamedStep ==
  ASSUME IInv, FilesNamed, [Next]_vars
  PROVE  FilesNamed'
<1>1. CASE UNCHANGED files
  BY <1>1 DEF FilesNamed
<1>2. CASE \E i \in Threads : GotFrame(i)
  <2> PICK i \in Threads : GotFrame(i)
    BY <1>2
  <2> DEFINE file == [name   |-> FilenameForge(Names[i], n_frames[i] + 1, Pattern),
                      source |-> i,
                      frame  |-> n_frames[i] + 1]
  <2>1. files' = files \/ (n_frames[i] + 1 < Unwritten /\ files' = files \cup {file})
    <3>1. files' = files \/ files' = files \cup {file}
      BY SMT DEF GotFrame
    <3>2. files' = files \/ n_frames[i] + 1 < Unwritten
      BY SMT DEF GotFrame, Unwritten
    <3> HIDE DEF file
    <3> QED
      BY <3>1, <3>2, Zenon
  <2>2. n_frames[i] + 1 \in Nat
    BY DEF IInv, TypeOK
  <2>3. /\ file.source = i /\ file.frame = n_frames[i] + 1
        /\ file.name = FilenameForge(Names[i], n_frames[i] + 1, Pattern)
    BY Zenon
  <2>4. file.name = FilenameForge(Names[file.source], file.frame, Pattern)
    BY <2>3, Zenon
  <2> HIDE DEF file
  <2> QED
    BY <1>1, <2>1, <2>2, <2>3, <2>4 DEF FilesNamed
<1>3. UNCHANGED files \/ \E i \in Threads : GotFrame(i)
  BY SMT DEF Next, MainStep, ReadConfig, ThreadCreate, Created, Start, SigSetup, CheckQuitFlag, Wake,
         ThreadCancel, Join, JoinFaults, AllCancelled, ThreadDestroy, Exit, Signal,
         ThreadStep, Open, Select, Read, Parse, output, vars
<1> QED
  BY <1>1, <1>2, <1>3

\* The file of every frame is named as Filename says, in every reachable state.
THEOREM FilesNamedAlways == Spec => []FilesNamed
<1>1. Init => FilesNamed
  BY DEF Init, FilesNamed
<1>2. IInv /\ FilesNamed /\ [Next]_vars => FilesNamed'
  BY FilesNamedStep
<1> QED
  BY <1>1, <1>2, Invariance, PTL DEF Spec

\* A function on the numbers up to m is a sequence.
LEMMA SeqFromFunction ==
  ASSUME NEW S, NEW m \in Nat, NEW f \in [1 .. m -> S]
  PROVE  f \in Seq(S)
OBVIOUS

\* Elements of a set are elements of a larger one.
LEMMA SeqOfMore ==
  ASSUME NEW S, NEW T, S \subseteq T, NEW s \in Seq(S)
  PROVE  s \in Seq(T)
<1>1. Len(s) \in Nat /\ s \in [1 .. Len(s) -> S]
  OBVIOUS
<1>2. s \in [1 .. Len(s) -> T]
  BY <1>1
<1> QED
  BY <1>1, <1>2, SeqFromFunction, Zenon

\* However many sources there are and whatever their names, with underscores,
\* digits or placeholders in them: two frames get the same file only if they have
\* the same number and come from sources of the same name.
THEOREM FilesDiffer == Spec => []FilesApart
<1>1. \A i \in Threads : Names[i] \in Seq(Char)
  <2> SUFFICES ASSUME NEW i \in Threads PROVE Names[i] \in Seq(Char)
    OBVIOUS
  <2>1. Names[i] \in Seq(STRING)
    OBVIOUS
  <2>2. STRING \subseteq Char
    BY DEF Char
  <2> QED
    BY <2>1, <2>2, SeqOfMore, Zenon
<1>2. ASSUME FilesNamed, NEW f \in files, NEW g \in files, f.name = g.name
      PROVE  f.frame = g.frame /\ Names[f.source] = Names[g.source]
  <2>1. /\ f.source \in Threads /\ f.frame \in Nat /\ f.frame < Unwritten
        /\ g.source \in Threads /\ g.frame \in Nat /\ g.frame < Unwritten
    BY <1>2 DEF FilesNamed
  <2>2. f.frame < Limit /\ g.frame < Limit
    BY <2>1, SMT DEF Limit, Unwritten
  <2>3. FilenameForge(Names[f.source], f.frame, Pattern)
          = FilenameForge(Names[g.source], g.frame, Pattern)
    BY <1>2, Zenon DEF FilesNamed
  <2> QED
    BY <1>1, <2>1, <2>2, <2>3, NamesApart, Zenon
<1>3. FilesNamed => FilesApart
  BY <1>2 DEF FilesApart
<1> QED
  BY <1>3, FilesNamedAlways, PTL

\* filename_forge() is right for the patterns, names and numbers of the run.
THEOREM ForgedAsAsked == Spec => []FilenamesForged
<1>1. Patterns \subseteq Seq(Char)
  <2> SUFFICES ASSUME NEW m \in 0 .. 4, NEW pat \in [1 .. m -> {"%", "f", "n", "x"}]
               PROVE  pat \in Seq(Char)
    BY Zenon DEF Patterns, BoundedSeq, SeqOf
  <2>1. {"%", "f", "n", "x"} \subseteq Char
    BY DEF Char
  <2>2. m \in Nat
    OBVIOUS
  <2>3. pat \in Seq({"%", "f", "n", "x"})
    BY <2>2, SeqFromFunction, Zenon
  <2> QED
    BY <2>1, <2>3, SeqOfMore, Zenon
<1>2. <<>> \in Seq(Char) /\ <<"%", "f", "n">> \in Seq(Char) /\ <<"a">> \in Seq(Char)
  <2>1. {"%", "f", "n", "a"} \subseteq Char
    BY DEF Char
  <2> QED
    BY <2>1
<1>3. 10 \in Nat /\ 10 < Limit
  BY SMT DEF Limit
<1>4. ASSUME NEW framenum \in Boundaries
      PROVE  framenum \in Nat /\ framenum < Limit
  <2>1. CASE framenum = 2147483647
    BY <2>1, SMT DEF Limit
  <2>2. CASE framenum # 2147483647
    <3>1. PICK k \in 0 .. 9 : framenum = 10 ^ k - 1 \/ framenum = 10 ^ k
      BY <2>2, SMT DEF Boundaries
    <3>2. 10 ^ k \in Nat \ {0}
      BY PowerStep
    <3>3. 10 ^ k <= 10 ^ 9
      <4>1. 9 \in 0 .. 10
        BY SMT
      <4> QED
        BY <4>1, PowersGrow, Zenon
    <3>4. 10 ^ 9 < Limit
      BY SMT DEF Limit
    <3>5. 10 ^ 9 \in Nat /\ Limit \in Nat
      BY SMT DEF Limit
    <3> DEFINE p == 10 ^ k
               q == 10 ^ 9
    <3>6. p \in Nat \ {0} /\ p <= q /\ q < Limit /\ q \in Nat /\ Limit \in Nat
          /\ (framenum = p - 1 \/ framenum = p)
      BY <3>1, <3>2, <3>3, <3>4, <3>5
    <3> HIDE DEF p, q
    <3> QED
      BY <3>6
  <2> QED
    BY <2>1, <2>2, SMT
<1>5. FilenamesForged
  <2>1. \A pat \in Patterns, name \in {<<>>, <<"%", "f", "n">>} : ForgesAsAsked(name, 10, pat)
    BY <1>1, <1>2, <1>3, ForgeCorrect, Zenon
  <2>2. \A framenum \in Boundaries : ForgesAsAsked(<<"a">>, framenum, Pattern)
    BY <1>2, <1>4, PatternIs, ForgeCorrect, Zenon
  <2> QED
    BY <2>1, <2>2 DEF FilenamesForged
<1> QED
  BY <1>5, PTL

=============================================================================
