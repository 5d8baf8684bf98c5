SPECIFICATION FairSpec
CONSTANTS
  CPU_KHZ = 3
  CycleMod = 11
  MsMod = 32
  InputPeriod = 1
  TimerPeriod = 1
  Thousand = 2
  Sleeps <- MCSleeps
  Steps <- MCSteps
PROPERTY TimerKeepsFiring
