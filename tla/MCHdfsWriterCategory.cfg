SPECIFICATION Spec
CONSTANTS
  Dir <- TwoCategories
  DayLen = 2
  maxLookBackDays = 1
  shipInterval = 1
  minKeep = 1
  maxReady = 2
  Skew = 0
  MaxForeign = 0
  MaxNow = 4
  MaxFiles <- TwoEach
  MaxCrashes = 0
PROPERTY NoYoungLoss
