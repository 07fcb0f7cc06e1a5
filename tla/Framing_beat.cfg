SPECIFICATION Spec
CONSTANTS
  Kind <- BeatKind
  RX_RING_SIZE = 9
  MB_FRAME_MAX_LEN = 5
  MB_POLL_BUF_LEN = 3
  MB_FRAME_GAP_MS = 2
  HB_PERIOD = 3
  CHUNK_GAP = 1
  SILENCE = 6
  STALL = 0
  LATE = 1
  MaxBursts = 0
  MaxTime = 30
INVARIANTS HeartbeatCountsSeconds
