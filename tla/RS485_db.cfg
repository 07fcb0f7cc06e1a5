SPECIFICATION Spec
CONSTANTS
  Frame = {}
  TooLong = {}
  NoFrame = NoFrame
  RX_BUF_SIZE = 2
  RX_RING_SIZE = 2
  ReadLen = {2}
  MaxBytes = 2
INVARIANTS DoubleBuffered
