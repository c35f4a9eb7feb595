------------------------------- MODULE Base64 -------------------------------
(***************************************************************************)
(* base64_encode() of source_network.c, which turns the credentials of a   *)
(* network source into the text of the Authorization header, and the size  *)
(* of the buffer write_auth_string() gives it. A character of the text is  *)
(* its place in the alphabet, 0 .. 63; the padding character is 64.        *)
(***************************************************************************)
EXTENDS Integers, Sequences, FiniteSets

Byte == 0 .. 255
Pad  == 64

\* The rounds of the loop: one for every three bytes begun.
Rounds(n) == (n + 2) \div 3

\* Byte i of src, counted from 0; the places past the end of src read as 0.
At(src, i) == IF i < Len(src) THEN src[i + 1] ELSE 0

\* in[j] in the round that starts at byte c of src.
Sextet(src, c, j) ==
  LET b0 == At(src, c)
      b1 == At(src, c + 1)
      b2 == At(src, c + 2)
  IN  CASE j = 0 -> b0 \div 4
        [] j = 1 -> (b0 % 4) * 16 + b1 \div 16
        [] j = 2 -> (b1 % 16) * 4 + b2 \div 64
        [] j = 3 -> b2 % 64

\* How many bytes the round that starts at byte c takes from n.
Valid(n, c) == IF n - c < 3 THEN n - c ELSE 3

\* A slip: one character of every round that is cut short becomes padding.
Encode_Padded(src) ==
  [i \in 1 .. 4 * Rounds(Len(src)) |->
     LET c == 3 * ((i - 1) \div 4)
         j == (i - 1) % 4
     IN  IF j >= Valid(Len(src), c) THEN Pad ELSE Sextet(src, c, j)]

Encode(src) ==
  [i \in 1 .. 4 * Rounds(Len(src)) |->
     LET c == 3 * ((i - 1) \div 4)
         j == (i - 1) % 4
     IN  IF j > Valid(Len(src), c) THEN Pad ELSE Sextet(src, c, j)]

\* The characters written to the buffer, the zero at the end among them, and
\* the characters it has room for.
Written(n) == 4 * Rounds(n) + 1
Room(n)    == (n * 4) \div 3 + 3

\* What the receiver makes of a text: the bits of its characters, eight at a
\* time, as long as no padding is among them.
Decode(text) ==
  LET bytes == (3 * Cardinality({i \in DOMAIN text : text[i] # Pad})) \div 4
      Bits(i) == IF text[i + 1] = Pad THEN 0 ELSE text[i + 1]
  IN  [k \in 1 .. bytes |->
         LET p == 8 * (k - 1)
             i == p \div 6
         IN  ((Bits(i) * 64 + Bits(i + 1)) \div 2 ^ (4 - (p % 6))) % 256]
=============================================================================
