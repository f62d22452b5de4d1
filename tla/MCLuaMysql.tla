----------------------------- MODULE MCLuaMysql -----------------------------
EXTENDS CursorStream, TLC
Symmetry == Permutations(Conns) \cup Permutations(Cursors)
=============================================================================
