SPECIFICATION Spec
CONSTANTS
  Stmts = {s1}
  Seconds <- MCSeconds
  Charsets = {utf8}
  UIntRange = 4
  MaxSetters = 1
  Unset = Unset
  Conn = Conn
  NULL = NULL
  MainThread = MainThread
  Globals = Globals
PROPERTY TimeoutsAsDocumented
CHECK_DEADLOCK FALSE
