\* One cell, expressions and functions, saves and resets at any time.
SPECIFICATION FlashSpec
CONSTANTS
  x = x
  y = y
  a1 = a1
  a2 = a2
  one = one
  two = two
  Cell = {x}
  Output = {a1}
  Text = {"xPlain", "xCall", "beat"}
  Refs <- RefsOf
  Broken = {}
  Value = {one}
  Zero = one
  NoText = NoText
  NoGraph = NoGraph
  Unread = Unread
  Neutral = Neutral
  MaxOutputDeps = 1
  ArenaMayFill = FALSE
  PoolMayFill = TRUE
  Rounded <- RoundedOf
  NoFile = NoFile
  Damaged = Damaged
INVARIANTS FallbackIsLast
PROPERTIES PatchComesBack
