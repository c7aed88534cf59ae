SPECIFICATION FairSpec
CONSTANTS
  a1 = a1
  b1 = b1
  b2 = b2
  b3 = b3
  Addresses = {a1}
  Batches = {b1, b2}
  AddressOf <- LaneOfTwo
  DELIVERY_BACKOFF <- TwoRungs
  DELIVERY_WINDOW = 2
  FAULT_WINDOW = 1
  OneConnection = TRUE
  MaxCallers = 1
  MaxCrashes = 1
  NoBatch = NoBatch
INVARIANTS TypeOK Accounting NoLoss NoLostWake
PROPERTIES ChargedItsOwnFault EveryRowSettles ImplementsChannel
