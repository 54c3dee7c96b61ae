SPECIFICATION Spec
CONSTANTS
  small = small
  medium = medium
  Pack = {small, medium}
  priceWei <- MCPrice
  undos <- MCUndos
  MaxNonce = 1
  Fid = {f1, f2}
  Tx = {t1}
  Req = {r1}
  None = None
  MinConf = 1
  MaxBlock = 3
  MaxUndos = 2
  MaxBlocksPerTick = 2
  InitialLookback = 3
  StrayValue = {}
  Faults = {"lag"}
INVARIANT
  NothingLeftBehind
CHECK_DEADLOCK FALSE
