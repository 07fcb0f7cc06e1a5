SPECIFICATION Spec
CONSTANTS
  Frame = {}
  TooLong = {}
  NoFrame = NoFrame
  RX_BUF_SIZE = 3
  RX_RING_SIZE = 3
  ReadLen = {1, 2}
  MaxBytes = 6
INVARIANTS LosslessWhileReaderKeepsUp
PROPERTIES ReceiveIsFifo
