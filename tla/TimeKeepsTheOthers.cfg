\* The configuration of the example in the protocol document.
SPECIFICATION SessionSpec
CONSTANTS
  time = time
  in1 = in1
  s1 = s1
  s2 = s2
  Time = time
  Input = {in1}
  Output = {s1, s2}
  Level = {0, 1}
  Blank = Blank
  Config <- ConfigsWithTime
  NoConfig = NoConfig
  MaxChannels = 3
  Capacity = 4
  Wrap = 6
  MaxStep = 2
  MaxRequests = 3
  MaxFaults = 1
INVARIANT TimeKeepsTheOthers
CHECK_DEADLOCK FALSE
