SPECIFICATION GSpec
CONSTANTS
  U16 = 65536
  FirstAddr = 26
  Devices = {d1, d2}
  NoDevice = none
  Values = {0}
  Keys = {"1"}
  MaxProvisions = 3
  MaxQueue = 1
  ScanOpcodes = {"PROV_SCAN_START", "DFU_JUMP_TO_BOOTLOADER"}
  SubnetHandle = 0
  DevkeyBase = 8
  Faults = {}
  Patient = TRUE
  Prompt = FALSE
  MaxPresses = 2
  MaxFaults = 1
INVARIANTS LinkServed
CHECK_DEADLOCK FALSE
