SPECIFICATION StartupSpec
CONSTANTS
  Opcodes = {132}
  Bytes = {0, 2}
  MaxData = 2
  MaxFrames = 1
  MaxBytes = 5
  BufSize = 4
PROPERTY StartedHears
CHECK_DEADLOCK FALSE
