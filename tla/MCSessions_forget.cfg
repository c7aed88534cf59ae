SPECIFICATION Spec
CONSTANTS
  d1 = d1
  d2 = d2
  a1 = a1
  PairSuccess = PairSuccess
  Handlers = {PairSuccess}
  Devices = {d1, d2}
  Addresses = {a1}
  AddressOf <- OneAccount
  NoDevice = NoDevice
  MaxCrashes = 0
PROPERTIES ForgetsItsOwn
CHECK_DEADLOCK FALSE
