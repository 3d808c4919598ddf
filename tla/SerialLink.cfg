SPECIFICATION StartupSpec
CONSTANTS
  Opcodes = {132}
  Bytes = {0, 2}
  MaxData = 3
  MaxFrames = 3
  MaxBytes = 11
  BufSize = 5
INVARIANTS TypeOK AlignedUntilDrop
PROPERTY FifoSpec
CHECK_DEADLOCK FALSE
