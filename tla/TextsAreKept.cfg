\* The texts of two programs in the arena.
SPECIFICATION ReaderSpec
CONSTANTS
  Digit = {"1"}
  Typed = {"a"}
  MaxLength = 1
  MostTokens = 3
  MostErrors = 1
  Sources <- Programs
  ArenaSize = 6
INVARIANT TextsAreKept
CHECK_DEADLOCK FALSE
