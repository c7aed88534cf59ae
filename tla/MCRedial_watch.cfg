SPECIFICATION FairSpec
CONSTANTS
  s1 = s1
  s2 = s2
  a1 = a1
  a2 = a2
  Sessions = {s1, s2}
  AddressOf <- OwnAddress
  SLEEP_TICK = 1
  SLEEP_GAP = 3
  REDIAL_BACKOFF <- TwoRungs
  DialTime = 1
  Suspends = {1, 4}
  Stored <- OneStored
  Barrable = {s2}
  Horizon = 4
  MaxSuspends = 1
INVARIANTS TypeOK GoneIsOwed
PROPERTIES NeverMistaken Spaced ComesBack
