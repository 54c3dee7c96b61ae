-------------------------------- MODULE Replay --------------------------------
(***************************************************************************)
(* The rules of the game, which exist twice: apps/api/src/replay.ts keeps  *)
(* a board and is the authority, apps/web/src/game.ts keeps a list of      *)
(* tiles and shows the player a move before the server has seen it.  Here  *)
(* both are given the same moves and the same random numbers, which is     *)
(* what the shared seed and mulberry32 amount to.                          *)
(*                                                                         *)
(* The arithmetic of the generator is abstracted: a draw is j/Grain for a  *)
(* j in Draw.                                                              *)
(***************************************************************************)
EXTENDS Integers, Sequences, FiniteSets, SequencesExt, Functions, TLC

CONSTANTS
  SIZE,    \* side of the board (in the code: 4)
  Grain,   \* rng() is a multiple of 1/Grain
  Draw     \* the multiples it takes

ASSUME ReplayAssumption ==
  /\ SIZE \in Nat /\ SIZE >= 2
  /\ Grain \in Nat
  /\ Draw \subseteq 0 .. Grain - 1

VARIABLES
  board,    \* replay.ts: the board after the moves so far
  score,    \* replay.ts: the score
  tiles,    \* App.tsx: tilesRef
  shown,    \* App.tsx: the score on the screen
  fours     \* history: how many tiles appeared as a 4

vars == <<board, score, tiles, shown, fours>>

Side == 1 .. SIZE
Cells == Side \X Side
Direction == {"up", "down", "left", "right"}
IsHorizontal(dir) == dir \in {"left", "right"}
Reverses(dir) == dir \in {"right", "down"}

(***************************************************************************)
(* What the two share: how draws place a tile.                             *)
(***************************************************************************)
RowMajor(c) == c[1] * SIZE + c[2]

(* cells[Math.floor(rng() * cells.length)], of the free cells in row-major *)
(* order                                                                   *)
DrawnCell(free, u) ==
  LET n == Cardinality(free)
  IN  CHOOSE c \in free :
        Cardinality({d \in free : RowMajor(d) < RowMajor(c)}) = (u * n) \div Grain

DrawnExponent(w) == IF 10 * w < 9 * Grain THEN 1 ELSE 2

DrawnValue(w) == IF 10 * w < 9 * Grain THEN 2 ELSE 4

(***************************************************************************)
(* replay.ts                                                               *)
(***************************************************************************)
EmptyBoard == [c \in Cells |-> 0]

Spawn(b, u, w) ==
  LET free == {c \in Cells : b[c] = 0}
  IN  IF free = {} THEN b ELSE [b EXCEPT ![DrawnCell(free, u)] = DrawnValue(w)]

(* The i-th cell of a line, seen from the side the tiles slide to.         *)
LineCell(dir, line, i) ==
  LET idx == IF Reverses(dir) THEN SIZE + 1 - i ELSE i
  IN  IF IsHorizontal(dir) THEN <<line, idx>> ELSE <<idx, line>>

Line(b, dir, line) == [i \in Side |-> b[LineCell(dir, line, i)]]

PushValue(values, v) == IF v = 0 THEN values ELSE Append(values, v)

Values(b, dir, line) == FoldLeft(PushValue, <<>>, Line(b, dir, line))

MergeNothing == [merged |-> <<>>, gained |-> 0, canMerge |-> FALSE]

MergeStepGainsTile(acc, v) ==
  IF acc.canMerge /\ Last(acc.merged) = v
  THEN [merged |-> Front(acc.merged) \o <<2 * v>>, gained |-> acc.gained + v, canMerge |-> FALSE]
  ELSE [acc EXCEPT !.merged = Append(@, v), !.canMerge = TRUE]

MergeStep(acc, v) ==
  IF acc.canMerge /\ Last(acc.merged) = v
  THEN [merged |-> Front(acc.merged) \o <<2 * v>>, gained |-> acc.gained + 2 * v, canMerge |-> FALSE]
  ELSE [acc EXCEPT !.merged = Append(@, v), !.canMerge = TRUE]

Merge(values) == FoldLeft(MergeStep, MergeNothing, values)

ApplyMove(b, dir) ==
  LET line(c) == IF IsHorizontal(dir) THEN c[1] ELSE c[2]
      place(c) == CHOOSE i \in Side : LineCell(dir, line(c), i) = c
      after == [l \in Side |-> Merge(Values(b, dir, l))]
      next == [c \in Cells |-> IF place(c) <= Len(after[line(c)].merged)
                               THEN after[line(c)].merged[place(c)] ELSE 0]
  IN  [board |-> next,
       gained |-> SumFunction([l \in Side |-> after[l].gained]),
       moved |-> next # b]

CanMoveInRow(b) ==
  \E c \in Cells :
    \/ b[c] = 0
    \/ c[2] < SIZE /\ b[c] = b[<<c[1], c[2] + 1>>]

CanMoveAny(b) ==
  \E c \in Cells :
    \/ b[c] = 0
    \/ c[2] < SIZE /\ b[c] = b[<<c[1], c[2] + 1>>]
    \/ c[1] < SIZE /\ b[c] = b[<<c[1] + 1, c[2]>>]

(***************************************************************************)
(* game.ts                                                                 *)
(***************************************************************************)
Tile == [row : Side, col : Side, value : Nat]

SpawnTile(ts, u, w) ==
  LET free == Cells \ {<<t.row, t.col>> : t \in ToSet(ts)}
      cell == DrawnCell(free, u)
  IN  IF free = {} THEN ts
      ELSE Append(ts, [row |-> cell[1], col |-> cell[2], value |-> DrawnValue(w)])

(* The tiles of a line, from the side they slide to: a filter and a stable *)
(* sort.                                                                   *)
Across(dir, t) == IF IsHorizontal(dir) THEN t.row ELSE t.col
Along(dir, t) == IF IsHorizontal(dir) THEN t.col ELSE t.row

SortsBefore(ts, dir, j, k) ==
  IF Along(dir, ts[j]) = Along(dir, ts[k]) THEN j < k
  ELSE Along(dir, ts[j]) < Along(dir, ts[k]) <=> ~Reverses(dir)

InLine(ts, dir, line) ==
  LET in == {k \in DOMAIN ts : Across(dir, ts[k]) = line}
      order == CHOOSE s \in [1 .. Cardinality(in) -> in] :
                 \A i, j \in DOMAIN s : i < j => SortsBefore(ts, dir, s[i], s[j])
  IN  [i \in 1 .. Cardinality(in) |-> ts[order[i]]]

PlaceNothing == [placed |-> <<>>, canMerge |-> FALSE, gained |-> 0, moved |-> FALSE]

(* A tile doubles the last one placed, or is placed behind it.             *)
PlaceStepMergeStill(dir, line, acc, t) ==
  LET at == LineCell(dir, line, Len(acc.placed) + 1)
  IN  IF acc.canMerge /\ Last(acc.placed).value = t.value
      THEN [placed |-> Front(acc.placed) \o <<[Last(acc.placed) EXCEPT !.value = 2 * @]>>,
            canMerge |-> FALSE, gained |-> acc.gained + 2 * t.value, moved |-> acc.moved]
      ELSE [acc EXCEPT !.placed = Append(@, [t EXCEPT !.row = at[1], !.col = at[2]]),
                       !.canMerge = TRUE,
                       !.moved = @ \/ at # <<t.row, t.col>>]

PlaceStep(dir, line, acc, t) ==
  LET at == LineCell(dir, line, Len(acc.placed) + 1)
  IN  IF acc.canMerge /\ Last(acc.placed).value = t.value
      THEN [placed |-> Front(acc.placed) \o <<[Last(acc.placed) EXCEPT !.value = 2 * @]>>,
            canMerge |-> FALSE, gained |-> acc.gained + 2 * t.value, moved |-> TRUE]
      ELSE [acc EXCEPT !.placed = Append(@, [t EXCEPT !.row = at[1], !.col = at[2]]),
                       !.canMerge = TRUE,
                       !.moved = @ \/ at # <<t.row, t.col>>]

PlaceLine(dir, line, ts) ==
  FoldLeft(LAMBDA acc, t : PlaceStep(dir, line, acc, t), PlaceNothing, ts)

Move(ts, dir) ==
  LET after == [line \in Side |-> PlaceLine(dir, line, InLine(ts, dir, line))]
  IN  [tiles |-> FlattenSeq([line \in Side |-> after[line].placed]),
       gained |-> SumFunction([line \in Side |-> after[line].gained]),
       moved |-> \E line \in Side : after[line].moved]

(* Of two tiles in a cell the later one is seen.                           *)
TilesToBoard(ts) ==
  FoldLeft(LAMBDA b, t : [b EXCEPT ![<<t.row, t.col>>] = t.value], EmptyBoard, ts)

CanMove(ts) ==
  \/ Len(ts) < SIZE * SIZE
  \/ LET grid == TilesToBoard(ts)
     IN  \E c \in Cells : \/ c[2] < SIZE /\ grid[c] = grid[<<c[1], c[2] + 1>>]
                          \/ c[1] < SIZE /\ grid[c] = grid[<<c[1] + 1, c[2]>>]

-----------------------------------------------------------------------------
FourFrom(ws) == Cardinality({i \in DOMAIN ws : DrawnValue(ws[i]) = 4})

Init ==
  \E us, ws \in [{1, 2} -> Draw] :
    /\ board = Spawn(Spawn(EmptyBoard, us[1], ws[1]), us[2], ws[2])
    /\ tiles = SpawnTile(SpawnTile(<<>>, us[1], ws[1]), us[2], ws[2])
    /\ score = 0
    /\ shown = 0
    /\ fours = FourFrom(ws)

(* One move of the log, replayed by the server.                            *)
ReplayMove(dir, u, w) ==
  LET r == ApplyMove(board, dir)
  IN  IF CanMoveAny(board) /\ r.moved
      THEN /\ board' = Spawn(r.board, u, w)
           /\ score' = score + r.gained
           /\ fours' = fours + FourFrom(<<w>>)
      ELSE UNCHANGED <<board, score, fours>>

(* One key, played by the client.                                          *)
ApplyKey(dir, u, w) ==
  LET r == Move(tiles, dir)
  IN  IF CanMove(tiles) /\ r.moved
      THEN /\ tiles' = SpawnTile(r.tiles, u, w)
           /\ shown' = shown + r.gained
      ELSE UNCHANGED <<tiles, shown>>

Next == \E dir \in Direction, u, w \in Draw : ReplayMove(dir, u, w) /\ ApplyKey(dir, u, w)

Spec == Init /\ [][Next]_vars

-----------------------------------------------------------------------------
(***************************************************************************)
(* The reference: a tile of value 2^k is worth (k - 1) * 2^k points, all   *)
(* it took to build it from 2s.                                            *)
(***************************************************************************)
MaxExponent == SIZE * SIZE + 1
TwoTo[k \in 1 .. MaxExponent] == IF k = 1 THEN 2 ELSE 2 * TwoTo[k - 1]
Power == {TwoTo[k] : k \in 1 .. MaxExponent}
Exponent(v) == CHOOSE k \in 1 .. MaxExponent : TwoTo[k] = v
Worth(v) == IF v = 0 THEN 0 ELSE (Exponent(v) - 1) * v

(* The board holds powers of two, the tiles lie on it.                     *)
TypeOK ==
  /\ board \in [Cells -> Power \cup {0}]
  /\ tiles \in Seq(Tile)
  /\ score \in Nat /\ shown \in Nat /\ fours \in Nat

(* What the client shows before the server answers is what the server will *)
(* answer: the two implementations of the rules agree after every move,    *)
(* on every tile, on the score, and that no cell holds two tiles.          *)
ClientAgrees ==
  /\ TilesToBoard(tiles) = board
  /\ Len(tiles) = Cardinality({c \in Cells : board[c] # 0})
  /\ shown = score

(* The tests for game over, which compare neighbours, are right: the       *)
(* server's and the client's hold exactly when no direction moves a tile.  *)
OverIsStuck ==
  LET stuck == \A dir \in Direction : ~ApplyMove(board, dir).moved
  IN  /\ CanMoveAny(board) <=> ~stuck
      /\ CanMove(tiles) <=> ~stuck

(* The score is a function of the board and of the 4s that appeared: no    *)
(* sequence of merges loses points or counts a tile twice.                 *)
ScoreMatchesBoard ==
  score + 4 * fours = SumFunction([c \in Cells |-> Worth(board[c])])
==============================================================================
