SPECIFICATION FairClientSpec
CONSTANTS
  s1 = s1
  s2 = s2
  up = up
  Seed = {s1, s2}
  Dir = {up}
  Moves <- MCMoves
  Points <- MCPoints
  MaxBatch = 2
  InitialCredits = 1
  Req = {r1, r2}
  NoGame = NoGame
  Throws = TRUE
  Faults = {"loss", "error", "reload", "device", "expiry"}
  MaxTrouble = 2
INVARIANTS
  ClientTypeOK
  InStep
  SubmitAfterKillingMove
PROPERTIES
  KillingMoveIsSubmitted
CHECK_DEADLOCK FALSE
