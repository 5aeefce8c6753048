\* Each part of the hardware side on its own.
SPECIFICATION AroundSpec
CONSTANTS
  Output = {1, 2, 3}
  Program <- Programs
  Texts <- TextsOf
  Probe <- Probes
  NoProgram = NoProgram
  Faulty = {1}
  InputValue = {0, 1}
  KnobValue = {0, 1}
  Wrap = 2
  MaxTime = 2
  MaxSamples = 2
  NaN = NaN
  Garbage = Garbage
  m1 = m1
  m2 = m2
  huge = huge
  Message = {m1, m2, huge}
  Oversize = {huge}
  Capacity = 4
  k1 = k1
  k2 = k2
  Knob = {k1, k2}
  None = None
  Bounds <- Ranges
  Entry <- Entries
  MaxEntries = 2
  MaxSent = 3
  Nothing = Nothing
  MaxPhase = 5
  MaxCount = 2
  Size = 3
  Scale = 8
  Samples = {0, 3, 5, 7}
  Full = 4095
  Unit = 100
  SnapMultiplier = 0
  AnalogResolution = 1024
  Boards = {"MUSICTHING", "USEQHARDWARE_1_0", "USEQHARDWARE_0_2", "EXPANDER_OUT"}
  Top = 3
  Values <- OutputValues
  Address = {1, 2, 3}
  MaxExpanders = 2
  Lengths = {1, 2}
INVARIANTS WindowIsSampled PulseIsKept StateFollowsGate LightIsAsAsked JacksShowTheOutputs TheRestHears KnobsAreAsSent
PROPERTIES LookedSpec FutureIsReal IsMailbox BouncesAreNot
CHECK_DEADLOCK FALSE
