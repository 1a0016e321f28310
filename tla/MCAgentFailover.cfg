SPECIFICATION Spec
CONSTANTS
  seconds_before_failover = 2
  Retain = 1
  MaxTs = 3
  MaxCrashes = 0
PROPERTY FailoverOnlyWhenNecessary
