SPECIFICATION Spec
CONSTANTS
  SIZE = 2
  Grain = 12
  Draw <- MCDraw
INVARIANTS
  TypeOK
  ClientAgrees
  OverIsStuck
  ScoreMatchesBoard
