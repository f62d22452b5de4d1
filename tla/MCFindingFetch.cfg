SPECIFICATION Spec
CONSTANTS
  Conns = {k1}
  Cursors = {c1}
  MaxRows = 2
  NULL = NULL
  MainThread = MainThread
  Globals = Globals
  ReconnectValues = {}
  Reentrant = FALSE
  AllocThrows = FALSE
  MultiResults = FALSE
INVARIANT NothingMeansNoMore
