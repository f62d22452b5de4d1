SPECIFICATION Spec
CONSTANTS
  Names = {n1, n2, n3}
  Nil = Nil
  Text = Text
  NewValue = NewValue
  Hashes = {0, 2, 3}
  MaxCols = 3
  MaxRows = 9
  LLONG_MAX = 3
  INT_MAX = 1
  DoubleBits = 2
  Columns <- MCColumns
  ScriptData <- MCScriptData
  MaxAssigns = 3
SYMMETRY Symmetry
INVARIANTS TypeOK LookupRight ColumnsKept PresizedEnough TraversalRight LengthRight
CHECK_DEADLOCK FALSE
