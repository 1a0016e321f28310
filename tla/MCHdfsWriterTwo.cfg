SPECIFICATION FairSpec
CONSTANTS
  Dir <- TwoServices
  DayLen = 1
  maxLookBackDays = 1
  shipInterval = 1
  minKeep = 1
  maxReady = 2
  Skew = 1
  MaxForeign = 0
  MaxNow = 2
  MaxFiles <- TwoAndOne
  MaxCrashes = 0
INVARIANTS WriterInv CopiesInv
PROPERTIES EverythingShipped
