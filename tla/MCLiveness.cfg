SPECIFICATION FairSpec
CONSTANTS
  Conns = {k1}
  Cursors = {c1, c2}
  MaxRows = 1
  NULL = NULL
  MainThread = MainThread
  Globals = Globals
  ReconnectValues = {}
  Reentrant = FALSE
  AllocThrows = FALSE
  MultiResults = FALSE
PROPERTIES ForgottenCursorReleases ForgottenConnCloses CloseEnds
