SPECIFICATION Spec
CONSTANTS
  Source = {"t"}
  Operation = {"add"}
  Home <- HomeOf
  NumOutputs = 1
  MaxSlots = 1
  MaxNodes = 4
  TableSize = 4
INVARIANTS InputsFirst NothingTwice TickIsFresh
PROPERTIES KeepsMeanings
