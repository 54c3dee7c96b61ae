------------------------------ MODULE Leaderboard ------------------------------
(***************************************************************************)
(* The table of scores, the pages of the leaderboard that /api/scores      *)
(* keeps in Redis, and the end of /api/scores/submit, which writes the one *)
(* and sweeps the other (apps/api/src/index.ts, cache.ts).  A submit       *)
(* starts here where module Games has marked the game finished.            *)
(***************************************************************************)
EXTENDS Integers, Sequences, FiniteSets, SequencesExt

CONSTANTS
  Player,      \* fids
  Results,     \* [player, score] of the games that may be submitted
  Page,        \* numbers of the pages clients ask for
  PageSize,    \* PAGE_SIZE
  Req,         \* slots for requests in flight
  Nothing,     \* "no such key", "no such row"
  CacheFails,  \* may Redis refuse a call of cache.ts?
  Throws       \* may another store call throw, or the process die?

ASSUME LeaderboardAssumption ==
  /\ Results \subseteq [player : Player, score : Nat \ {0}]
  /\ PageSize \in Nat \ {0}
  /\ Page \subseteq Nat
  /\ CacheFails \in BOOLEAN /\ Throws \in BOOLEAN

VARIABLES
  board,   \* Postgres: the rows of scores, best first, earlier first among equals
  cache,   \* Redis: scores:top:<PageSize>:<offset>, by page
  req      \* the requests in flight

ScoreRow == [player : Player, score : Nat, final : Nat]
ShownRow == [player : Player, score : Nat]

(* owed is history: the submits in flight whose sweep has this page to go. *)
CachedPage == [rows : Seq(ShownRow), owed : SUBSET Req]

Idle == [pc |-> "idle"]
Reading == [pc : {"select", "set"}, page : Page, rows : Seq(ShownRow)]
Submitting == [pc : {"upsert"}, result : Results, newBest : BOOLEAN]
Sweeping == [pc : {"scan", "delete"}, keys : SUBSET Page]

LeaderboardInit ==
  /\ board = <<>>
  /\ cache = [p \in Page |-> Nothing]
  /\ req = [r \in Req |-> Idle]

At(r, pc) == req[r].pc = pc
Begin(r, record) == At(r, "idle") /\ req' = [req EXCEPT ![r] = record]
Return(r) == req' = [req EXCEPT ![r] = Idle]

RowOf(p) == {i \in DOMAIN board : board[i].player = p}

(* SELECT ... ORDER BY score DESC, updated_at ASC LIMIT ... OFFSET ...     *)
PageOf(n) ==
  LET left == Len(board) - n * PageSize
  IN  [i \in 1 .. (IF left < PageSize THEN left ELSE PageSize) |->
         [player |-> board[n * PageSize + i].player, score |-> board[n * PageSize + i].score]]

-----------------------------------------------------------------------------
(***************************************************************************)
(* GET /api/scores                                                         *)
(***************************************************************************)
(* A hit changes nothing; a get that fails counts as a miss.               *)
ReadCache(r, n) ==
  /\ cache[n] = Nothing \/ CacheFails
  /\ Begin(r, [pc |-> "select", page |-> n, rows |-> <<>>])
  /\ UNCHANGED <<board, cache>>

SelectPage(r) ==
  /\ At(r, "select")
  /\ req' = [req EXCEPT ![r].pc = "set", ![r].rows = PageOf(req[r].page)]
  /\ UNCHANGED <<board, cache>>

SetPage(r) ==
  /\ At(r, "set")
  /\ \/ cache' = [cache EXCEPT ![req[r].page] = [rows |-> req[r].rows, owed |-> {}]]
     \/ CacheFails /\ UNCHANGED cache
  /\ Return(r)
  /\ UNCHANGED board

ExpirableNever(n) == FALSE

(* Every page is set with an expiry of SCORES_CACHE_TTL.                   *)
Expirable(n) == cache[n] # Nothing

ExpirePage(n) ==
  /\ Expirable(n)
  /\ cache' = [cache EXCEPT ![n] = Nothing]
  /\ UNCHANGED <<board, req>>

-----------------------------------------------------------------------------
(***************************************************************************)
(* POST /api/scores/submit, after markFinished                             *)
(***************************************************************************)
Improves(result) == \A i \in RowOf(result.player) : result.score > board[i].score

NewBestFirstOnly(result) == RowOf(result.player) = {}

(* !existing || r.score > existing.score                                   *)
NewBest(result) == Improves(result)

SelectExisting(r, result) ==
  /\ Begin(r, [pc |-> "upsert", result |-> result, newBest |-> NewBest(result)])
  /\ UNCHANGED <<board, cache>>

(* A new best goes behind those who had that score before; any other score *)
(* is only the player's last one.                                          *)
Place(rows, score) == Cardinality({i \in DOMAIN rows : rows[i].score >= score}) + 1

Others(p) ==
  IF RowOf(p) = {} THEN board ELSE RemoveAt(board, CHOOSE i \in RowOf(p) : TRUE)

NewRow(result) == [player |-> result.player, score |-> result.score, final |-> result.score]

UpsertedAnew(result) == InsertAt(board, Place(board, result.score), NewRow(result))

Upserted(result) ==
  IF Improves(result)
  THEN InsertAt(Others(result.player), Place(Others(result.player), result.score), NewRow(result))
  ELSE [i \in DOMAIN board |-> IF i \in RowOf(result.player)
                               THEN [board[i] EXCEPT !.final = result.score] ELSE board[i]]

Owed(r) == [n \in Page |-> IF cache[n] = Nothing THEN Nothing ELSE [cache[n] EXCEPT !.owed = @ \cup {r}]]
Excused(r) == [n \in Page |-> IF cache[n] = Nothing THEN Nothing ELSE [cache[n] EXCEPT !.owed = @ \ {r}]]

UpsertScore(r) ==
  /\ At(r, "upsert")
  /\ board' = Upserted(req[r].result)
  /\ cache' = IF Improves(req[r].result) THEN Owed(r) ELSE cache
  /\ req' = [req EXCEPT ![r] = IF @.newBest THEN [pc |-> "scan", keys |-> {}] ELSE Idle]

(* SCAN finds every key that is there throughout.                          *)
Scan(r) ==
  /\ At(r, "scan")
  /\ req' = [req EXCEPT ![r].pc = "delete", ![r].keys = {n \in Page : cache[n] # Nothing}]
  /\ UNCHANGED <<board, cache>>

(* It may have found keys that came while it was running, too.             *)
Delete(r) ==
  /\ At(r, "delete")
  /\ \E later \in SUBSET {n \in Page : cache[n] # Nothing} :
       cache' = [n \in Page |-> IF n \in req[r].keys \cup later THEN Nothing ELSE cache[n]]
  /\ Return(r)
  /\ UNCHANGED board

(* cacheInvalidatePattern logs the error and the submit succeeds.          *)
SweepFails(r) ==
  /\ CacheFails
  /\ At(r, "scan") \/ At(r, "delete")
  /\ cache' = Excused(r)
  /\ Return(r)
  /\ UNCHANGED board

(* Whatever the request was about to do, it does not.                      *)
RequestDies(r) ==
  /\ Throws
  /\ ~At(r, "idle")
  /\ cache' = Excused(r)
  /\ Return(r)
  /\ UNCHANGED board

LeaderboardStep(r) ==
  SelectPage(r) \/ SetPage(r) \/ UpsertScore(r) \/ Scan(r) \/ Delete(r)

-----------------------------------------------------------------------------
(* The key of the table, and the order of the SELECT.                      *)
LeaderboardTypeOK ==
  /\ board \in Seq(ScoreRow)
  /\ \A i, j \in DOMAIN board :
       i < j => board[i].player # board[j].player /\ board[i].score >= board[j].score
  /\ cache \in [Page -> CachedPage \cup {Nothing}]

(* When a player's best has gone into the table, every page cached before  *)
(* is gone by the time the submit answers, whatever else reads, writes and *)
(* sweeps meanwhile (index.ts, cacheInvalidatePattern); only a sweep that  *)
(* failed may leave one.                                                   *)
ImprovementSweepsPages ==
  \A n \in Page : cache[n] # Nothing =>
    \A r \in cache[n].owed : At(r, "scan") \/ At(r, "delete")

Current == \A n \in Page : cache[n] # Nothing => cache[n].rows = PageOf(n)

Settled == \A r \in Req : req[r].pc \notin {"upsert", "scan", "delete"}

(* A page read before a submit and cached after its sweep, or left by a    *)
(* sweep that failed, is not shown for ever: when no more scores come, the *)
(* pages are soon those of the table (index.ts, SCORES_CACHE_TTL).         *)
CacheConverges == <>[]Settled => <>[]Current
================================================================================
