------------------------------- MODULE SeqOps ------------------------------
(***************************************************************************)
(* Operators on sequences.  SequencesExt has them too, but it extends Bags *)
(* and with it the libraries of theorems, which every step of a proof would *)
(* carry along.                                                            *)
(***************************************************************************)
EXTENDS Integers, Sequences, Functions

\* The sequences of ss, one after the other.
FlattenSeq(ss) ==
    LET upTo[i \in 0..Len(ss)] == IF i = 0 THEN <<>> ELSE upTo[i - 1] \o ss[i]
    IN  upTo[Len(ss)]

Last(s) == s[Len(s)]
Front(s) == SubSeq(s, 1, Len(s) - 1)
IsPrefix(s, t) == Len(s) <= Len(t) /\ \A i \in 1..Len(s) : s[i] = t[i]
============================================================================
