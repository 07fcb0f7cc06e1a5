SPECIFICATION Spec
CONSTANTS
  Kind <- AnyKind
  RX_RING_SIZE = 6
  MB_FRAME_MAX_LEN = 5
  MB_POLL_BUF_LEN = 2
  MB_FRAME_GAP_MS = 2
  HB_PERIOD = 2
  CHUNK_GAP = 9
  SILENCE = 0
  STALL = 9
  LATE = 9
  MaxBursts = 2
  MaxTime = 4
INVARIANTS TypeOK SubmittedOnceInOrder HeartbeatNotAhead
