SPECIFICATION Spec
CONSTANTS
  N = 2
  Messages <- Two
  MaxDrains = 2
  MaxKills = 0
INVARIANTS NeverStranded
CHECK_DEADLOCK FALSE
