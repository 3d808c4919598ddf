SPECIFICATION FairSpec
CONSTANTS
  U16 = 65536
  FirstAddr = 26
  Devices = {d1, d2}
  NoDevice = none
  Values = {0}
  Keys = {"1"}
  MaxProvisions = 3
  MaxQueue = 1
  ScanOpcodes = {"PROV_SCAN_START"}
  SubnetHandle = 0
  DevkeyBase = 8
  Faults = {}
  Patient = TRUE
  Prompt = TRUE
  MaxPresses = 1
  MaxFaults = 1
PROPERTIES ScanStarts
CHECK_DEADLOCK FALSE
