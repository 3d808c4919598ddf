SPECIFICATION Spec
CONSTANTS
  U16 = 28
  FirstAddr = 26
  Devices = {d1}
  NoDevice = none
  Values = {5}
  Keys = {"1", "r"}
  MaxProvisions = 2
  MaxQueue = 0
INVARIANTS TypeOK PendingWasSent
PROPERTIES LadderSpec
