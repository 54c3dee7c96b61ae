SPECIFICATION Spec
CONSTANTS
  small = small
  medium = medium
  Pack = {small, medium}
  priceWei <- MCPrice
  undos <- MCUndos
  MaxNonce = 2
  Fid = {f1, f2}
  Tx = {t1}
  Req = {r1, r2}
  None = None
  MinConf = 1
  MaxBlock = 3
  MaxUndos = 1
  MaxBlocksPerTick = 2
  InitialLookback = 1
  StrayValue = {20}
  Faults = {"mirror", "db", "reply", "crash", "lag"}
SYMMETRY Symmetry
INVARIANTS
  TypeOK
  CreditOnlyConfirmed
  ReceiptNamesPayer
PROPERTIES
  CursorContiguous
  LedgerSpec
CHECK_DEADLOCK FALSE
