\* Two deliveries of one case, of every kind that may meet.
SPECIFICATION MCSpec
CONSTANTS
    Deliveries <- MCDeliveries
    Seeds <- TwoSeeds
    Catalog <- Phone
    Price <- Prices
    Tests <- MCTests
    MaxCrashes = 1
INVARIANTS
    Isolated
    CleanedUp
    Consistent
    OneOrderPerId
    LockHeld
CHECK_DEADLOCK FALSE
