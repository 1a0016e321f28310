SPECIFICATION FairSpec
CONSTANTS
  Dir <- OneDir
  DayLen = 2
  maxLookBackDays = 1
  shipInterval = 2
  minKeep = 1
  maxReady = 1
  Skew = 1
  MaxNow = 6
  MaxFiles <- TwoEach
  MaxForeign = 1
  MaxCrashes = 1
INVARIANTS TypeOK CopiesFarApart NothingPassedOver NewestRetained
PROPERTIES NoYoungLoss ArchivesInOrder EverythingShipped
