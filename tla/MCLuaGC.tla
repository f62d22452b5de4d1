------------------------------ MODULE MCLuaGC ------------------------------
EXTENDS LuaGC, TLC
Symmetry == Permutations(Udata)
=============================================================================
