SPECIFICATION Spec
CONSTANTS
  Dir <- OneDir
  DayLen = 2
  maxLookBackDays = 1
  shipInterval = 1
  minKeep = 1
  maxReady = 2
  Skew = 0
  MaxForeign = 0
  MaxNow = 7
  MaxFiles <- OneEach
  MaxCrashes = 0
INVARIANT ExactlyOnce
