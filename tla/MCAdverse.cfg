SPECIFICATION Spec
CONSTANTS
  Conns = {k1}
  Cursors = {c1}
  MaxRows = 2
  NULL = NULL
  MainThread = MainThread
  Globals = Globals
  ReconnectValues = {TRUE}
  Reentrant = TRUE
  AllocThrows = TRUE
  MultiResults = FALSE
INVARIANTS RegistrySound ResultOwned ConnOutlivesReader BusyIffReader RowsInOrder
