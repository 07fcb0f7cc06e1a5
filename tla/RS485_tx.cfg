SPECIFICATION FairSpec
CONSTANTS
  Frame = {f1, f2, big}
  TooLong = {big}
  NoFrame = NoFrame
  RX_BUF_SIZE = 2
  RX_RING_SIZE = 1
  ReadLen = {2}
  MaxBytes = 2
INVARIANTS TypeOK BusDrivenOnlyWhileSending OkMeansSent
PROPERTIES TxBufferStable WriteReturns ReadReturns
