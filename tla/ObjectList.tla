----------------------------- MODULE ObjectList -----------------------------
(***************************************************************************)
(* The linked lists of objects in lgc.c, as sequences.                     *)
(***************************************************************************)
EXTENDS Integers, SequencesExt

(* What the list s has of S, in its order. (SelectSeq does this with an    *)
(* operator for S.)                                                        *)
Kept(s, S) ==
  LET I == {i \in DOMAIN s : s[i] \in S}
  IN  [n \in 1..Cardinality(I) |-> s[CHOOSE i \in I : Cardinality(I \cap 1..i) = n]]

=============================================================================
