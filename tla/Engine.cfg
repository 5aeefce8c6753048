\* One part of the engine moves; slots fill.
SPECIFICATION EngineSpec
CONSTANTS
  x = x
  y = y
  k = k
  Anonymous = Anonymous
  NoOp = NoOp
  NoText = NoText
  NoLaw = NoLaw
  NoSlot = NoSlot
  MaxTables = 1
  Name = {x, y}
  Id = {k}
  Text = {"osc", "stray"}
  Reads <- ReadsOf
  Op <- OpOf
  Broken = {"stray"}
  Outputs = 1
  MaxSlots = 2
  Letter = {"a", "b"}
  MostLetters = 3
  Word <- Words
  Builtin <- Builtins
  NoWord = NoWord
  MaxNames = 3
  PoolSize = 7
  MostBuilt = 3
  HwInput = {Wired}
  LeafOp = {"InputLoad", "LoadState", "Const"}
  Digit = {"1"}
  Typed <- Keys
  MaxLength = 4
  MostTokens = 2
  MostErrors = 1
  Sources <- KeptTexts
  ArenaSize = 1
  Marks <- Phases
  Report = {x, y}
  Metric = {x, y}
  Amount = {1}
  Engine <- Engines
  Request <- Questions
  MaxPhases = 1
  Window = 2
  EventSlots = 2
  NameSlots = 1
  Wrap = 8
  NoNode = NoNode
  NoAnswer = NoAnswer
  MaxStep = 1
  MaxWork = 3
  MaxDepth = 3
  Nesting = 3
  MaxTokens = 9
  Characters <- Strings
  LastOutput = 2
  Source <- Programs
  StateId <- StateIds
  LiveId <- LiveIds
  Faulty = {"bad"}
  Value = {0, 1}
  Seed = 0
  Unnamed = Unnamed
  NoSource = NoSource
  MaxStates = 2
  NoId = NoId
  NoReply = NoReply
  MaxForms = 3
INVARIANTS EachHasItsOwn LawIsLatest SuggestionIsNearest ClassIsSound FormsRunInOrder LinesAreReadAlone TellsWhatHappened WellFormed MirrorAgrees
PROPERTIES EditsKeepState
CHECK_DEADLOCK FALSE
