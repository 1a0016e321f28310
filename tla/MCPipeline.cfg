SPECIFICATION FairPipeline
CONSTANTS
  Dir <- OneDir
  DayLen = 1
  maxLookBackDays = 1
  shipInterval = 2
  minKeep = 0
  maxReady = 2
  Skew = 0
  MaxNow = 4
  MaxFiles <- ThreeEach
  MaxForeign = 0
  MaxCrashes = 1
  Retain = 2
INVARIANTS PipelineInv InOrderToHdfs
PROPERTIES WriterServed EndToEnd
