SPECIFICATION Spec
CONSTANTS
  Udata = {u1, u2}
  MainThread = MainThread
  Registry = Registry
  Metatable = Metatable
  WeakTable = WeakTable
  SweepMax = 1
SYMMETRY Symmetry
INVARIANT AllWhite
