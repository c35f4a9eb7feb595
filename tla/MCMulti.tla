------------------------------ MODULE MCMulti ------------------------------
(***************************************************************************)
(* Multi for model checking: sources whose names are easily confused with  *)
(* each other and with the placeholders of the pattern; and filename.c on  *)
(* every short pattern and at every number where its result grows.         *)
(***************************************************************************)
EXTENDS Multi

MCNames == << <<"%", "f">>, <<"a", "_", "1">>, <<"a">> >>

Patterns   == BoundedSeq({"%", "f", "n", "x"}, 4)
Boundaries == (UNION {{10 ^ k - 1, 10 ^ k} : k \in 0 .. 9}) \cup {2147483647}

\* The file name fits its buffer and is what the pattern asks for, whatever
\* placeholders the pattern has, whole or cut short, with a name that looks
\* like one, and for every length of the number. It does not depend on the
\* state, so it is looked at where the program starts.
FilenamesForged ==
  main = "config" =>
    /\ \A pat \in Patterns, name \in {<<>>, <<"%", "f", "n">>} : ForgesAsAsked(name, 10, pat)
    /\ \A framenum \in Boundaries : ForgesAsAsked(<<"a">>, framenum, Pattern)
=============================================================================
