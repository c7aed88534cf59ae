SPECIFICATION SceneSpec
CONSTANTS
  N = 5
  Messages <- Five
  MaxDrains = 2
  MaxKills = 1
  ItemsSent = 3
  QueuesSent = 1
INVARIANTS TypeOK HoldIsWhole OnePlaceEach LandsAsSent
PROPERTIES HoldEnds HandedOnIsPosted
CHECK_DEADLOCK FALSE
