SPECIFICATION MCSpec
CONSTANTS
  Listings <- MCListings
  Calls <- MCCalls
  MaxName = 6
  conversionTable <- MCTable
  MaxJump = 4
  Rest = {0, 1}
  MaxClock = 60
INVARIANTS LoopInv ResultIsTail ResultSorted MergeInv CountsMissing RoundTrip SmallSetback
CHECK_DEADLOCK FALSE
