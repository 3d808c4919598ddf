SPECIFICATION FairSpec
CONSTANTS
  U16 = 65536
  FirstAddr = 26
  Devices = {d1, d2}
  NoDevice = none
  Values = {0}
  Keys = {"1", "r"}
  MaxProvisions = 5
  MaxQueue = 1
  ScanOpcodes = {"PROV_SCAN_START", "DFU_JUMP_TO_BOOTLOADER"}
  SubnetHandle = 3
  DevkeyBase = 8
  Faults = {"drop", "loss", "reject", "early", "restart", "write", "crash"}
  Patient = TRUE
  Prompt = TRUE
  MaxPresses = 2
  MaxFaults = 1
PROPERTIES EveryScanConfigures AlwaysInstalled
CHECK_DEADLOCK FALSE
