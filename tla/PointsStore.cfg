SPECIFICATION SysSpec
CONSTANTS
  hr0 = hr0
  coil0 = coil0
  input0 = input0
  v1 = v1
  v2 = v2
  d = d
  Key = {hr0, coil0}
  BadAddr = bad
  Value = {v1, v2}
  DefaultOf <- MCDefault
  Sector = {s0, s1}
  Sector0 = s0
  NOWHERE = NOWHERE
  InputReg = {input0}
  Beat = beat
  RtuFrame <- MCFrames
INVARIANTS TypeOK LossOnlyBySelfTest ServerImpliesDatabase
PROPERTIES KeepsPromise
