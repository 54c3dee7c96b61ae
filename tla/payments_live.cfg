SPECIFICATION FairSpec
CONSTANTS
  small = small
  medium = medium
  Pack = {small}
  priceWei <- MCPrice
  undos <- MCUndos
  MaxNonce = 1
  Fid = {f1}
  Tx = {t1, t2}
  Req = {r1}
  None = None
  MinConf = 1
  MaxBlock = 3
  MaxUndos = 2
  MaxBlocksPerTick = 2
  InitialLookback = 3
  StrayValue = {}
  Faults = {"flush"}
INVARIANT
  NothingLeftBehind
PROPERTIES
  CreditedOnce
  PaidIsEventuallyCredited
CHECK_DEADLOCK FALSE
