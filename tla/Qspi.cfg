SPECIFICATION Spec
CONSTANTS
  QSPI_REGION_SIZE = 4
  RX_BUF_SIZE = 4
  PageSize = 6
  WriteBlock = 2
  Byte = {b1, b2}
  ERASED = ERASED
  MIXED = MIXED
  USED = USED
INVARIANTS TypeOK AcknowledgedIsStored WindowKept
