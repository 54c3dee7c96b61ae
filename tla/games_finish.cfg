SPECIFICATION Spec
CONSTANTS
  s1 = s1
  s2 = s2
  up = up
  left = left
  Seed = {s1, s2}
  Dir = {up, left}
  Moves <- MCMoves
  Points <- MCPoints
  MaxBatch = 2
  InitialCredits = 1
  Req = {r1, r2}
  NoGame = NoGame
  Throws = FALSE
INVARIANTS
  FinishedIsOver
CHECK_DEADLOCK FALSE
