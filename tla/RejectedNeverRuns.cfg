\* What a document says and the code does not do.
SPECIFICATION Spec
CONSTANTS
  x = x
  y = y
  a1 = a1
  a2 = a2
  one = one
  two = two
  Cell = {x, y}
  Output = {a1}
  Text = {"xPlain", "yPlain"}
  Refs <- RefsOf
  Broken = {}
  Value = {one}
  Zero = one
  NoText = NoText
  NoGraph = NoGraph
  Unread = Unread
  Neutral = Neutral
  MaxOutputDeps = 2
  ArenaMayFill = FALSE
  PoolMayFill = FALSE
PROPERTY RejectedNeverRuns
