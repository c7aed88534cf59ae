SPECIFICATION Spec
CONSTANTS
  a1 = a1
  b1 = b1
  b2 = b2
  b3 = b3
  Addresses = {a1}
  Batches = {b1, b2, b3}
  AddressOf <- LaneOfThree
  DELIVERY_BACKOFF <- Flat
  DELIVERY_WINDOW = 1
  FAULT_WINDOW = 0
  OneConnection = FALSE
  MaxCallers = 2
  MaxCrashes = 0
  NoBatch = NoBatch
SYMMETRY SymmetryOfThree
INVARIANTS HoldsTheOldest
PROPERTIES LandsInOrder
