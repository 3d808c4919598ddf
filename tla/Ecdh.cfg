SPECIFICATION Spec
CONSTANTS
  Base = 2
  Top = 256
  NumBits = 8
  WordBase = 4
  WordBits = 2
  NumWords = 4
  WordBytes = 2
  ByteBase = 2
  p = 199
  n = 181
  B = 188
  Gx = 192
  Gy = 142
  PeerXs = {0, 106}
  Randoms = {0, 18101, 54480, 36277, 12345}
  MaxTries = 2
INVARIANTS
  TypeOK
  BezoutKept
  InverseFound
  LadderHoldsMultiples
  ResultIsMultiple
  WordsAgree
PROPERTY
  ProductHalves
