SPECIFICATION Spec
CONSTANTS
  BLINK_PERIOD_MS_MAX = 1000
  BLINK_PERIOD_MS_STEP = 100
  DtPeriod = 700
  UINT_MOD = 65536
INVARIANTS TypeOK DarkWhenOff
PROPERTIES FollowsTheCycle
