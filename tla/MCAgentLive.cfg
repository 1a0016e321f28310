SPECIFICATION FairSpec
CONSTANTS
  seconds_before_failover = 1
  Retain = 2
  MaxTs = 3
  MaxCrashes = 1
PROPERTIES PrimaryRetried PrimaryDrains SecondaryDrains StopEndsShipping
