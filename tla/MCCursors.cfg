SPECIFICATION Spec
CONSTANTS
  Conns = {k1}
  Cursors = {c1, c2}
  MaxRows = 2
  NULL = NULL
  MainThread = MainThread
  Globals = Globals
  ReconnectValues = {TRUE, FALSE}
  Reentrant = FALSE
  AllocThrows = FALSE
  MultiResults = TRUE
SYMMETRY Symmetry
INVARIANTS RegistrySound ResultOwned BusyIffReader NoStaleRow RowsInOrder
PROPERTIES ReaderUndisturbed
