\* Texts, streams and lines: programs of one line, and short sessions with states and knobs.
SPECIFICATION EditorSpec
CONSTANTS
  time = time
  in1 = in1
  s1 = s1
  s2 = s2
  Time = time
  Input = {in1}
  Output = {s1, s2}
  Level = {0, 1}
  Blank = Blank
  Config <- Configs
  NoConfig = NoConfig
  MaxChannels = 3
  Capacity = 4
  Wrap = 6
  MaxStep = 2
  MaxRequests = 4
  MaxFaults = 1
  Math <- MathOf
  None = None
  Wrong = Wrong
  Garbage = Garbage
  NoCell = NoCell
  Repl = "repl"
  MaxInline = 3
  DeepestCall = 3
  MaxLocals = 8
  MaxDeps = 8
  MaxVector = 8
  MaxTables = 5
  MaxSlots = 4
  MaxLive = 3
  Documents <- DocumentsOf
  Cells <- CellStore
  FirstTables <- TablesOf
  FirstLaws <- LawsAtFirst
  Outputs = {"o1", "o2"}
  LiveValues = {6, 20}
  Ticks <- SomeTicks
  Histories <- HistoriesOf
  Line <- SomeLines
  Kind <- KindOf
  Id <- IdOf
  Size <- SizeOf
  ask = ask
  tell = tell
  long = long
  silent = silent
  text = text
  id1 = id1
  id2 = id2
  NoId = NoId
  RxSize = 4
  MaxMessages = 3
INVARIANTS FramesFollowTheirConfig BurstsKeepTheirDistance MeansTheText UnlistedCellsDoNotMatter AnswersMatch RemembersItsHistory StatesHaveLaws
PROPERTIES ChangesAreShown KnobsSurviveEdits RequestsAreAnswered
CHECK_DEADLOCK FALSE
