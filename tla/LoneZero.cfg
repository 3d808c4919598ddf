SPECIFICATION Spec
CONSTANTS
  Opcodes = {132}
  Bytes = {0, 2}
  MaxData = 3
  MaxFrames = 2
  MaxBytes = 10
  BufSize = 4
INVARIANTS FramesAsSent
CHECK_DEADLOCK FALSE
