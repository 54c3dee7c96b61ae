-------------------------------- MODULE Games --------------------------------
(***************************************************************************)
(* One player's server-authoritative game: the key game:active:<fid> in    *)
(* Redis, the row of the player in scores and in undo_credits, and the     *)
(* handlers of apps/api/src/index.ts that work on them.  Handlers of the   *)
(* same player overlap (two devices, a retry, a tab left open), so each is *)
(* split where it awaits a store.                                          *)
(***************************************************************************)
EXTENDS Integers, Sequences, FiniteSets, SequencesExt

CONSTANTS
  Seed,             \* seeds /api/games/start may draw
  Dir,              \* directions
  Moves(_, _, _),   \* Moves(seed, played, d): after the moves played, d moves a tile
  Points(_, _),     \* Points(seed, played): the score of those moves
  MaxBatch,         \* longest batch of /api/games/move (in the code: 64)
  InitialCredits,   \* undo credits the player has bought
  Req,              \* slots for requests in flight
  NoGame,           \* "no such key", "no such row"
  Throws            \* may a store call throw, or the process die?

ASSUME GamesAssumption ==
  /\ MaxBatch \in Nat \ {0}
  /\ InitialCredits \in Nat
  /\ IsFiniteSet(Req)
  /\ Throws \in BOOLEAN

VARIABLES
  game,      \* Redis: [seed, log, finished], or NoGame
  credits,   \* Postgres: undo_credits.balance
  row,       \* Postgres: the row of scores, or NoGame
  req,       \* the requests in flight
  pops,      \* history: moves taken back
  scored     \* history: the scores written to the row so far

vars == <<game, credits, row, req, pops, scored>>

Game == [seed : Seed, log : Seq(Dir), finished : BOOLEAN]
ScoreRow == [score : Nat, finalScore : Nat, seed : Seed, log : Seq(Dir)]

Idle == [pc |-> "idle", game |-> NoGame, log |-> <<>>]
ApiRequest == [pc : {"idle", "append", "pop", "refund", "finish", "upsert"},
               game : Game \cup {NoGame}, log : Seq(Dir)]

(***************************************************************************)
(* replay(): the board is a function of the seed and of the moves that did *)
(* something, so a position is those moves.  The others are skipped.       *)
(***************************************************************************)
Played(seed, log) ==
  FoldLeft(LAMBDA played, d : IF Moves(seed, played, d) THEN Append(played, d) ELSE played,
           <<>>, log)

Score(seed, log) == Points(seed, Played(seed, log))
Over(seed, log) == \A d \in Dir : ~Moves(seed, Played(seed, log), d)

(* /api/games/move keeps of a batch the moves that do something.           *)
Accept(seed, log, dirs) ==
  FoldLeft(LAMBDA acc, d : IF Len(Played(seed, Append(acc, d))) = Len(Played(seed, acc))
                           THEN acc ELSE Append(acc, d),
           log, dirs)

Batch == UNION {[1 .. n -> Dir] : n \in 1 .. MaxBatch}

Init ==
  /\ game = NoGame
  /\ credits = InitialCredits
  /\ row = NoGame
  /\ req = [r \in Req |-> Idle]
  /\ pops = 0
  /\ scored = {}

At(r, pc) == req[r].pc = pc
Begin(r, pc, g, log) ==
  /\ At(r, "idle")
  /\ req' = [req EXCEPT ![r] = [pc |-> pc, game |-> g, log |-> log]]
Continue(r, pc) == req' = [req EXCEPT ![r].pc = pc]
Return(r) == req' = [req EXCEPT ![r] = Idle]

(***************************************************************************)
(* POST /api/games/start                                                   *)
(***************************************************************************)
Start(seed) ==
  /\ game' = [seed |-> seed, log |-> <<>>, finished |-> FALSE]
  /\ UNCHANGED <<credits, row, req, pops, scored>>

(***************************************************************************)
(* POST /api/games/move                                                    *)
(***************************************************************************)
MoveRead(r, dirs) ==
  /\ game # NoGame
  /\ ~game.finished
  /\ ~Over(game.seed, game.log)
  /\ Accept(game.seed, game.log, dirs) # game.log
  /\ Begin(r, "append", game, Accept(game.seed, game.log, dirs))
  /\ UNCHANGED <<game, credits, row, pops, scored>>

AppendableLenOnly(r) ==
  game # NoGame /\ Len(game.log) = Len(req[r].game.log)

(* APPEND_SCRIPT compares the length of the stored log, nothing else.      *)
Appendable(r) ==
  /\ game # NoGame
  /\ ~game.finished
  /\ Len(game.log) = Len(req[r].game.log)

MoveAppend(r) ==
  /\ At(r, "append")
  /\ game' = IF Appendable(r) THEN [game EXCEPT !.log = req[r].log] ELSE game
  /\ Return(r)
  /\ UNCHANGED <<credits, row, pops, scored>>

(***************************************************************************)
(* POST /api/games/undo                                                    *)
(***************************************************************************)
HasCreditOffByOne == credits >= 0

(* UPDATE ... SET balance = balance - 1 WHERE balance > 0                  *)
HasCredit == credits > 0

UndoConsume(r) ==
  /\ HasCredit
  /\ credits' = credits - 1
  /\ Begin(r, "pop", NoGame, <<>>)
  /\ UNCHANGED <<game, row, pops, scored>>

Poppable == game # NoGame /\ ~game.finished /\ game.log # <<>>

(* POP_SCRIPT; when it declines, the handler refunds.                      *)
UndoPop(r) ==
  /\ At(r, "pop")
  /\ \/ /\ Poppable
        /\ game' = [game EXCEPT !.log = Front(@)]
        /\ pops' = pops + 1
        /\ Return(r)
     \/ /\ ~Poppable
        /\ Continue(r, "refund")
        /\ UNCHANGED <<game, pops>>
  /\ UNCHANGED <<credits, row, scored>>

UndoRefundTwice(r) ==
  /\ At(r, "refund")
  /\ credits' = credits + 2
  /\ Return(r)
  /\ UNCHANGED <<game, row, pops, scored>>

UndoRefund(r) ==
  /\ At(r, "refund")
  /\ credits' = credits + 1
  /\ Return(r)
  /\ UNCHANGED <<game, row, pops, scored>>

(***************************************************************************)
(* POST /api/scores/submit                                                 *)
(***************************************************************************)
SubmitRead(r) ==
  /\ game # NoGame
  /\ Over(game.seed, game.log)
  /\ Score(game.seed, game.log) > 0
  /\ Begin(r, "finish", game, <<>>)
  /\ UNCHANGED <<game, credits, row, pops, scored>>

(* FINISH_SCRIPT marks whatever game the key holds by now.                 *)
SubmitFinish(r) ==
  /\ At(r, "finish")
  /\ game' = IF game = NoGame THEN NoGame ELSE [game EXCEPT !.finished = TRUE]
  /\ Continue(r, "upsert")
  /\ UNCHANGED <<credits, row, pops, scored>>

LastScore(old, new) == new

BestScore(old, new) == IF new > old THEN new ELSE old

RowOnlyBest(old, new) == IF new.score > old.score THEN new ELSE [old EXCEPT !.finalScore = new.score]

(* The last game's columns are always overwritten, the best only if beaten.*)
Upserted(old, new) ==
  [new EXCEPT !.score = BestScore(old.score, new.score)]

SubmitUpsert(r) ==
  LET g == req[r].game
      s == Score(g.seed, g.log)
      new == [score |-> s, finalScore |-> s, seed |-> g.seed, log |-> g.log]
  IN  /\ At(r, "upsert")
      /\ row' = IF row = NoGame THEN new ELSE Upserted(row, new)
      /\ scored' = scored \cup {s}
      /\ Return(r)
      /\ UNCHANGED <<game, credits, pops>>

(***************************************************************************)
(* A store call throws, or the API goes down, while a request is in        *)
(* flight; and Redis loses the game, by its TTL or by a crash.             *)
(***************************************************************************)
RequestDies(r) ==
  /\ Throws
  /\ ~At(r, "idle")
  /\ Return(r)
  /\ UNCHANGED <<game, credits, row, pops, scored>>

LoseGame ==
  /\ game # NoGame
  /\ game' = NoGame
  /\ UNCHANGED <<credits, row, req, pops, scored>>

Next ==
  \/ \E seed \in Seed : Start(seed)
  \/ \E r \in Req, dirs \in Batch : MoveRead(r, dirs)
  \/ \E r \in Req : \/ MoveAppend(r)
                    \/ UndoConsume(r)
                    \/ UndoPop(r)
                    \/ UndoRefund(r)
                    \/ SubmitRead(r)
                    \/ SubmitFinish(r)
                    \/ SubmitUpsert(r)
                    \/ RequestDies(r)
  \/ LoseGame

Spec == Init /\ [][Next]_vars

-----------------------------------------------------------------------------
(* Every variable holds what the code can put there.                       *)
TypeOK ==
  /\ game \in Game \cup {NoGame}
  /\ credits \in Nat
  /\ row \in ScoreRow \cup {NoGame}
  /\ req \in [Req -> ApiRequest]
  /\ pops \in Nat
  /\ scored \subseteq Nat

Spending == {r \in Req : req[r].pc \in {"pop", "refund"}}

(* Undos never outnumber the credits paid for them: no interleaving of     *)
(* undo requests with moves, new games, submits and failures takes a move  *)
(* back for free or refunds a credit twice.                                *)
NoFreeUndo == credits + Cardinality(Spending) + pops <= InitialCredits

(* A credit is spent only on a move that was taken back: an undo that did  *)
(* not happen is refunded (index.ts, /api/games/undo).                     *)
UndoOrRefund == credits + Cardinality(Spending) + pops = InitialCredits

(* A finished game is never played on or reopened, by no move, undo or     *)
(* submit that read it before it was finished: the key may only be lost or *)
(* given to a new game.                                                    *)
FinishedIsFrozen ==
  [][game # NoGame /\ game.finished =>
       game' = NoGame \/ (game'.log = <<>> /\ ~game'.finished)]_game

(* The row keeps the best of all scores ever written, in whatever order    *)
(* submits of several games overlap.                                       *)
RowKeepsBest ==
  IF row = NoGame THEN scored = {}
  ELSE row.score \in scored /\ \A s \in scored : s <= row.score

(* The replay tuple of the row is a game that is over and gives exactly    *)
(* the final score next to it: the share page can always be rebuilt.       *)
SnapshotReplays ==
  row # NoGame =>
    /\ Over(row.seed, row.log)
    /\ row.finalScore = Score(row.seed, row.log)
    /\ row.score >= row.finalScore

(* Every move in the stored log moved a tile when it was made              *)
(* (/api/games/move accepts only those that do).                           *)
LogReplays == game # NoGame => Played(game.seed, game.log) = game.log

(* A game marked finished is a game that is over, so that a client that    *)
(* resumes it shows its last board (gameStore.ts, markFinished).           *)
FinishedIsOver ==
  game # NoGame /\ game.finished => Over(game.seed, game.log)
==============================================================================
