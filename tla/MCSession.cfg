SPECIFICATION Spec
CONSTANTS
  Stmts = {s1, s2}
  Seconds <- MCSeconds
  Charsets = {utf8}
  UIntRange = 4
  MaxSetters = 2
  Unset = Unset
  Conn = Conn
  NULL = NULL
  MainThread = MainThread
  Globals = Globals
SYMMETRY Symmetry
INVARIANTS TypeOK NothingDurableYet
PROPERTIES AnswersTrue OptionsInForce IsBinding
CHECK_DEADLOCK FALSE
