SPECIFICATION Spec
CONSTANTS
  Caller = {c1, c2}
  StdBit = {0}
  ExtBit = {0, 1}
  Bit = {0, 1, 2}
  StdSlot = {0, 1}
  ExtSlot = {2}
  CAN_RX_MSGQ_LEN = 2
  CAN_MAX_DLC = 8
  Request <- Filters
  Traffic <- Frames
  Sending <- Sends
INVARIANTS TypeOK FiltersAsConfigured OnlyMatchingFrames
