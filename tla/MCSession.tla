------------------------------ MODULE MCSession ------------------------------
EXTENDS SessionBinding, TLC
MCSeconds == {-1, 1}
Symmetry == Permutations(Stmts)
=============================================================================
