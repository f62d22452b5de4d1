--------------------------- MODULE MCResultTable ---------------------------
EXTENDS ResultTable, TLC

CONSTANTS Text

(* One column of each way to convert it, under every name: numbers that    *)
(* fit and that do not, bits, a decimal, a string, NULL.                   *)
Kinds == {<<"LONGLONG", 2>>, <<"LONGLONG", 7>>, <<"BIT", 49>>, <<"DECIMAL", 5>>,
          <<"VARCHAR", Text>>, <<"VARCHAR", Nil>>}
MCColumns == {[name |-> n, type |-> k[1], data |-> k[2]] : n \in Names, k \in Kinds}
MCScriptData == {Text, Nil}
Symmetry == Permutations(Names)
=============================================================================
