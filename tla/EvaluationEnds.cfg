\* A string inside a `do'.
SPECIFICATION Spec
CONSTANTS
  Number = {"1"}
  ValueOf <- Worth
  Cell = {"a", "bpm", "beats-per-bar"}
  Output = {"a1"}
  Operator = {"+"}
  Trees <- TextsWithString
  MaxTables = 1
PROPERTY EvaluationEnds
CHECK_DEADLOCK FALSE
