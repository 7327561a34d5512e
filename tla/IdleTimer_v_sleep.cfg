SPECIFICATION TimerSpec
CONSTANTS
  UsPerMs = 2
  MsPerSec = 4
  MinFreq = 2
  Freq = 5
  Width = 16
  MaxNow = 24
INVARIANT SleepWithinFrequency
CHECK_DEADLOCK FALSE
