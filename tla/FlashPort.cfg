SPECIFICATION ReportSpec
CONSTANTS
  SIZE_MOD = 16
  AREA_SIZE = 7
  PAGE_SIZE = 3
  HDR_SIZE = 24
  Addr <- MCAddr
  Dw15At <- MCDw15At
  Chip <- MCChip
INVARIANTS TypeOK WithinPartition InsideIsAccepted PublishedIsUsable ReportIsRight
