------------------------------ MODULE Filename ------------------------------
(***************************************************************************)
(* filename.c: the name of the file a frame is written to, made from a     *)
(* pattern in which %n stands for the name of the source and %f for the    *)
(* number of the frame. A string is a sequence of characters.              *)
(***************************************************************************)
EXTENDS Integers, Sequences, FiniteSets, SequencesExt

Digits == <<"0", "1", "2", "3", "4", "5", "6", "7", "8", "9">>

\* A slip: the powers of ten are taken to have the digits of the number before.
FramenumExpandedLen_Strict(framenum) == 1 + Cardinality({k \in 1 .. 9 : framenum > 10 ^ k})

FramenumExpandedLen(framenum) == 1 + Cardinality({k \in 1 .. 9 : framenum >= 10 ^ k})

\* The last known_length digits of n.
Itoa(n, known_length) ==
  [i \in 1 .. known_length |-> Digits[((n \div 10 ^ (known_length - i)) % 10) + 1]]

\* The places of the pattern where %n or %f stands.
Places(pat, c) == {i \in 1 .. Len(pat) - 1 : pat[i] = "%" /\ pat[i + 1] = c}

\* The length of the buffer, without the zero at its end.
BufLen(srcname, framenum, pat) ==
  LET n_f == Cardinality(Places(pat, "f"))
      n_n == Cardinality(Places(pat, "n"))
  IN  Len(pat) + (FramenumExpandedLen(framenum) - 2) * n_f + (Len(srcname) - 2) * n_n

\* What the loop copies from position c of the pattern on.
Copied(srcname, fnum, pat) ==
  LET From[c \in 1 .. Len(pat) + 1] ==
        CASE c > Len(pat)            -> <<>>
          [] c \in Places(pat, "f")  -> fnum \o From[c + 2]
          [] c \in Places(pat, "n")  -> srcname \o From[c + 2]
          [] OTHER                   -> <<pat[c]>> \o From[c + 1]
  IN  From

\* filename_forge()
FilenameForge(srcname, framenum, pat) ==
  Copied(srcname, Itoa(framenum, FramenumExpandedLen(framenum)), pat)[1]

-----------------------------------------------------------------------------
(* What the result should be.                                              *)

\* The number that a sequence of digits stands for.
Number(digits) ==
  LET Value(d) == CHOOSE v \in 0 .. 9 : Digits[v + 1] = d
      Upto[i \in 0 .. Len(digits)] == IF i = 0 THEN 0 ELSE 10 * Upto[i - 1] + Value(digits[i])
  IN  Upto[Len(digits)]

\* The pattern with every placeholder replaced and the rest left alone.
Parts(srcname, fnum, pat) ==
  [i \in 1 .. Len(pat) |->
    CASE i \in Places(pat, "f") -> fnum
      [] i \in Places(pat, "n") -> srcname
      [] i - 1 \in Places(pat, "f") \cup Places(pat, "n") -> <<>>
      [] OTHER -> <<pat[i]>>]

Expanded(srcname, fnum, pat) == FlattenSeq(Parts(srcname, fnum, pat))

\* The name has the length its buffer was made for, and it is the pattern with
\* the source's name and the digits of the frame number in place of %n and %f.
ForgesAsAsked(srcname, framenum, pat) ==
  LET fnum == Itoa(framenum, FramenumExpandedLen(framenum))
      name == FilenameForge(srcname, framenum, pat)
  IN  /\ Len(name) = BufLen(srcname, framenum, pat)
      /\ name = Expanded(srcname, fnum, pat)
      /\ Number(fnum) = framenum
      /\ fnum[1] = "0" => framenum = 0
=============================================================================
