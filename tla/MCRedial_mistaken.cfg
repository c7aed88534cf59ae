SPECIFICATION Spec
CONSTANTS
  s1 = s1
  s2 = s2
  a1 = a1
  a2 = a2
  Sessions = {s1}
  AddressOf <- OfOne
  SLEEP_TICK = 1
  SLEEP_GAP = 3
  REDIAL_BACKOFF <- TwoRungs
  DialTime = 3
  Suspends = {4}
  Stored <- AllStored
  Barrable = {}
  Horizon = 4
  MaxSuspends = 1
PROPERTIES NeverMistaken
