SPECIFICATION Spec
CONSTANTS
  seconds_before_failover = 2
  Retain = 2
  MaxTs = 4
  MaxCrashes = 1
INVARIANTS TypeOK ShippingInv NothingPassedOver NeverOffersDelivered NoSilentLoss LostIsRotated
PROPERTIES NoFailoverAfterProgress DeliversInOrder
