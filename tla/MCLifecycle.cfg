SPECIFICATION Spec
CONSTANTS
  Conns = {k1, k2}
  Cursors = {c1}
  MaxRows = 3
  NULL = NULL
  MainThread = MainThread
  Globals = Globals
  ReconnectValues = {TRUE}
  Reentrant = FALSE
  AllocThrows = FALSE
  MultiResults = FALSE
SYMMETRY Symmetry
INVARIANTS TypeOK ConnOutlivesReader NothingLeaks RowsInOrder FetchOwnLengths
PROPERTIES CollectorSparesReader StoredResultComplete CursorIsStream
