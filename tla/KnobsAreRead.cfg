\* What ResponsiveAnalogRead.h asks of its users and HardwareIO does not do.
SPECIFICATION Spec
CONSTANTS
  Top = 4095
  Raw = {0, 4095}
  Unit = 100
  SnapMultiplier = 0
  AnalogResolution = 1024
INVARIANT KnobsAreRead
