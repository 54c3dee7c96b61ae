# A TLA+ model of the 2048 mini app

This directory specifies the parts of the repository where order, failure and
concurrency decide whether a player gets what they paid for or played for: the
shop and its reconciler, the server-authoritative game and the optimistic page
in front of it, the rules of the game themselves, and the table of scores with
its cached pages and share cards. Paths below are relative to the repository's root.

## 1. Inventory

| Component | State it keeps | Operations | Talks to | What is hard | Modelled |
|---|---|---|---|---|---|
| Shop API (`apps/api/src/index.ts`, `onchain.ts`, `shop.ts`) | Redis `pack:intent:*`; Postgres `pack_intents`, `undo_payments`, `undo_credits` | `/packs/intent`, `/packs/buy` | client, Base RPC, Redis, Postgres, and through Postgres the reconciler | five awaits per purchase; a roll-back that is not a transaction; TTLs; retries by the client | `ShopApi`, `Payments` |
| Reconciler (`apps/reconciler`) | Postgres `reconciler_cursor`, and the two payment tables | `Tick`: scan, process, advance | Base RPC, Postgres | races `/buy`; aborted ticks and restarts; lagging nodes; the cursor must not pass unprocessed work | `Reconciler`, `Payments` |
| Active games (`index.ts`, `gameStore.ts`) | Redis `game:active:<fid>` | `/games/start`, `move`, `undo`, `state`, `/scores/submit` | Redis scripts, Postgres | read, compute, compare-and-set; overlapping devices and retries; spending a credit before the undo | `Games` |
| Score rows (`index.ts`) | Postgres `scores` | `SELECT` and upsert in `/scores/submit` | leaderboard, share cards | two submits overlap; best score and last game in one row; `new_best` is read before the row is written | `Games`, `Leaderboard` |
| Game rules (`apps/api/src/replay.ts`, `apps/web/src/game.ts`) | a board / a list of tiles | move, spawn, game over | - | written twice, must agree for ever | `Replay` |
| Web client: play (`apps/web/src/App.tsx`, `api.ts`) | refs: log, `over`, queue, in-flight, submit and undo flags | load, key, batch, resync, submit, undo, new game | API | shows moves before the server has them; late, lost and overlapping answers; flags reset under calls on their way | `Client`, `Replay` |
| Web client: purchase (`App.tsx`, `wallet.ts`) | none that lasts | intent, payment, polling `/buy` | API, wallet | the poll may end before or after the reconciler's credit | `Payments` (paying) |
| Leaderboard cache (`cache.ts`, `index.ts`) | Redis `scores:top:*` | get, set, expiry, SCAN and DEL | Postgres, submits | a fill races an invalidation; a sweep of two calls; Redis fails silently | `Leaderboard`, `Scores` |
| Rate limiter (`cache.ts`) | Redis `ratelimit:*` | INCR, EXPIRE | every POST | two calls that are not one; fails open | `RateLimiter`, `Scores` |
| Share cards (`index.ts` from line 523, `storage.ts`, `shareImage.ts`) | S3 objects, Postgres `shares` | preview, create, the public page and image | scores, rate limiter, S3 | three awaits between the row that is read and the row that is written; upload and insert are not one | `Scores` (not the drawing) |
| Auth, database set-up, configuration | none of their own | - | - | - | not modelled |

What makes each correct:

- shop and reconciler together: a mined payment is credited exactly once, to the
  user and for the pack it was sent for, in the end, whatever the client does
  after paying (once: unless the database's reply to a credit is lost; in the end:
  unless the API stops between claim and credit; section 3 shows both);
- active games: a log replays on its own seed; undos are paid for and paid undos
  happen; a finished game is over, and stays as it is;
- score rows: the best score survives every order of submits, and the replay
  tuple is one finished game;
- web client: in calm play the page is the server's log, the batch on its way and
  the queue, from any state it took over in peace; a finished game is submitted
  once, after its killing move. That a disturbed page gets back to such a state is
  neither promised nor checked;
- leaderboard: no page from before a new best outlives that submit's sweep, and
  no page is stale for ever;
- rate limiter: a window admits its limit and no more, and ends;
- share cards: a page that is published has its image, and they agree;
- rules: client and server agree on every tile and on the end of the game.

## 2. Modules

| Module | Models | Its state |
|---|---|---|
| `Packs` | price table, `amount_wei = price + nonce`, `MatchPack` | none |
| `PaymentState` | what API and reconciler share | chain (`head`, `txs`), Redis (`counter`, `redisIntent`), Postgres (`packIntents`, `undoPayments`, `undoCredits`, `cursor`), processes (`req`, `worker`), replies (`offers`), and the history variables `credited`, `unacked` |
| `ShopApi` | `/packs/intent` and `/packs/buy`, one action per store call | the above |
| `Reconciler` | `Tick`, `scanRange`, `processTx`, `CreditPayment`, one action per call to the node or the database | the above |
| `Payments` | the composition with clients, chain and Redis; fairness; properties | the above |
| `CreditLedger` | what the shop promises, without processes: `Pay`, `Settle`, `CreditUnnoticed`, `Spend` | `purchase`, `settled`, `balance` |
| `Games` | one player's game and score row, one action per store call | `game`, `credits`, `row`, `req`, and the histories `pops`, `scored` |
| `Replay` | both implementations of the rules | `board`, `score`; `tiles`, `shown`; the history `fours` |
| `Client` | the page of `App.tsx` over `Games`, which it extends, and the network between them | the refs `c`, the `calls` on their way, and the histories `calm`, `trouble` |
| `Leaderboard` | `GET /api/scores`, the end of `/api/scores/submit`, `cacheInvalidatePattern` | `board` (Postgres), `cache` (Redis), `req` |
| `RateLimiter` | `rateLimit` | `window` (Redis), and the histories `admitted`, `orphaned` |
| `Scores` | the share endpoints; composes `Leaderboard` and `RateLimiter` | the above, `shares`, `objects` |
| `PaymentsProof`, `ReconcilerProof`, `GamesProof`, `ClientProof`, `InStepProof`, `ReplayProof`, `ScoresProof` | theorems and proofs | - |
| `FoldLemmas` | lemmas about `FoldLeft`, by which batches, queues, lines and merges are defined, and about sums | - |
| `MCPayments`, `MCGames`, `MCReplay`, `MCClient`, `MCScores` | values of the constants for TLC | - |

Correspondence of actions and code:

- A handler is split where it awaits a store, because another handler of the same
  or another process can run there; what happens between two awaits is one
  action. A request that fails a check before its first write changes nothing and
  has no action: it simply does not begin (429, 400, 202 "pending", 404, 409).
- `req[r].pc` names the next store call of a handler. `/packs/intent`:
  `IntentIncr` (INCR), `IntentSet` (SET), `IntentMirror` or `IntentMirrorFails`
  (INSERT into `pack_intents`, whose failure is swallowed). `/packs/buy`:
  `BuyVerify` (chain and Redis reads), `BuyClaim` (INSERT; 409 on the key),
  `BuyCredit`, or `BuyCreditFails` then `BuyUnclaim` (DELETE), and `BuyBurn` (DEL).
  When `addUndoCredits` throws, the upsert has failed (`CreditThrown`) or has been
  committed and only its reply was lost (`CreditUnacked`); the handler cannot tell,
  and deletes the claim either way. `unacked` remembers, for the properties alone,
  which payments were last credited without the handler learning of it.
- The reconciler: `Tick` chooses the range of blocks, `FetchRange` fetches all of it
  (`scanRange` waits for every fetch before it processes the first block), then block
  by block `CheckPayment` (`PaymentExists`), `ResolveIntent` (receipt, `MatchPack`,
  `GetIntent`, the pack check), `CreditPayment` (one transaction) for each payment,
  and `AdvanceCursor`. `AbortTick` covers an error of any call, the five minutes of
  a tick and a restart: all drop the tick where it is, and only the cursor stays.
  The fetches run side by side in the code; over blocks that no longer change that
  is one step. A fetch that fails lets the blocks before it be processed: an
  `AbortTick` when its turn comes.
- `Games`: `MoveRead` is everything up to `casAppend`, the batch loop included;
  `MoveAppend` is the script. `UndoConsume`, `UndoPop`, `UndoRefund` and
  `SubmitRead`, `SubmitFinish`, `SubmitUpsert` are the three awaits of their
  handlers. `Start` writes blindly, as `setGame` does. A position is the sequence
  of moves that did something (`Played`), since `replay` is a function of the seed
  and those; `Moves` and `Points`, the rules, are constants here.
- `Replay`: the random numbers are `j/Grain` for chosen `j`, given to both sides.
  Tiles keep their order in the list; ids and animation flags are left out. A loop
  over cells or tiles is a fold (`Values`, `Merge`, `PlaceLine`); the filter and stable
  sort of `move` is the only order they can yield (`InLine`), and powers of two are a
  recursive function, because nothing can be proved of `SortSeq` and `^`.

- `Client`: the refs of component `Game` are the record `c`; the position shown is
  a function of `c.seed` and `c.log`, as in `Games`, and `c.over` is the flag of its
  own that the code keeps. The callbacks are functions of that record
  (`SyncFromServer`, `DrainQueue`, `Apply`), because JavaScript runs each to its next
  await without interruption; `Become` puts their result into effect together with
  the calls they send. The microtask between a key and `drainQueue` runs before
  any other event, so it belongs to `Play`. `On` has an action for each `.then`,
  `.catch` and `.finally`. A call is `sent`, then `answered`, then gone; one that is
  not `mine` belongs to a page that was closed, or is still on its way although
  `fetch` has rejected. `Serve` runs the handlers of `Games` and answers; a refusal
  (`Acceptable`) is decided as `/api/games/move` does.
- `Leaderboard`: `board` is the table in the order the SELECT returns it, so a new
  best is put behind the scores that are at least as good (`Place`: `score DESC,
  updated_at ASC`). A read is `ReadCache`, `SelectPage`, `SetPage`; a submit is
  `SelectExisting` (after `markFinished`, which is in `Games`), `UpsertScore`, `Scan`,
  `Delete`. SCAN returns at least the keys that are there throughout, and perhaps
  others, hence `later` in `Delete`. A cached page carries, as history, the submits
  that still owe its removal (`owed`).
- `RateLimiter` and `Scores`: `ShareIncr` and `ShareExpire` are the two calls of
  `rateLimit`, then `LoadShareSnapshot`, `RankCard` (where a preview ends),
  `UploadCard`, `InsertShare`. A card is its player, score and rank: the image is
  drawn from these, and the row repeats them.

The faults of the shop are a constant, `Faults`, so that each run says which it
lets happen: `mirror` (the best-effort insert fails), `db` (a statement of `/buy`
throws and has no effect), `reply` (a statement of `/buy` is committed and its reply
lost, so that it throws all the same), `crash` (a request stops at an await), `lag`
(a node answers null for a block), `flush` (Redis restarts empty). Aborted ticks, expiring
intents, reverted and stray payments and repeated payments of an offer are always
possible. In `Games`, `Throws` lets any request in flight stop; losing the key is
always possible. `Client` has `Faults` of its own: `loss` (a request or a reply is
lost, at once or while it is still on its way), `error` (the limiter refuses or a
handler throws), `reload` (the page is closed and opened), `device` (the player's
other device calls the API) and `expiry` (Redis drops the game). In `Scores`,
`CacheFails` lets any call of `cache.ts` fail (the limiter's INCR with or without
effect: `IncrUnnoticed`), `Throws` any request stop anywhere.

## 3. Runs

| Run | Bounds | Checks | Result |
|---|---|---|---|
| `payments_safety` | 2 users, 2 packs, 2 nonces, 1 payment, 2 requests, 3 blocks, ticks of 2, `MaxUndos` 1; faults mirror, db, reply, crash, lag | `TypeOK`, `CreditOnlyConfirmed`, `ReceiptNamesPayer`, `CursorContiguous`, `LedgerSpec` | hold |
| `payments_live` | 1 user, 1 pack, 1 nonce, 2 payments, 1 request, 3 blocks, ticks of 2; fault flush | `NothingLeftBehind`, `CreditedOnce`, `PaidIsEventuallyCredited` | hold |
| `payments_rollback` | 2 users, 1 payment, 1 request, 3 blocks, ticks of 2; fault db | `NothingLeftBehind` | violated |
| `payments_crash` | the same, 1 user; fault crash | `PassedIsCredited` | violated |
| `payments_lag` | as `payments_rollback`; fault lag | `NothingLeftBehind` | violated |
| `games` | 2 seeds of games of 1 and 2 moves, batches of 2, 2 credits, 2 requests; failures | `TypeOK`, `NoFreeUndo`, `RowKeepsBest`, `SnapshotReplays`, `FinishedIsFrozen` | hold |
| `games_undo` | the same, 1 credit; failures | `UndoOrRefund` | violated |
| `games_stale` | the same, no failures | `LogReplays` | violated |
| `games_finish` | the same, no failures | `FinishedIsOver` | violated |
| `client` | 2 seeds of games of 1 and 3 moves, batches of 2, 1 credit, 2 calls at a time, `MaxTrouble` 2; all five faults | `ClientTypeOK`, `InStep`, `SubmitAfterKillingMove`, `KillingMoveIsSubmitted` | hold |
| `scores` | 2 players, 3 results, 1 page of 1 row, 2 requests, a limit of 1, 1 share; every failure | `TypeOK`, `ImprovementSweepsPages`, `AtMostLimit`, `ShareHasImage`, `CacheConverges`, `RefusedOnlyForAWhile` | hold |
| `replay` | whole games on a board of side 2 | `TypeOK`, `ClientAgrees`, `OverIsStuck`, `ScoreMatchesBoard` | hold |

Why the bounds are enough. Every race of the shop is between the holders of one
payment: two requests and the reconciler meet on one transaction, with two users
and two packs for a wrong owner or a wrong price to exist, and a second nonce for
a wrong intent. Three blocks leave one block below, at and above the confirmation
depth (`MaxBlock`; `Mine` stops early enough that the last payment can still be
reached); the last two confirmed blocks make a tick of two, whose second block may be
cut off after its first. `MaxUndos` stops replies from being lost when a balance has
grown past it, or credits without an end would make balances without an end; it
lets a balance be spent and credited anew any number of times. `payments_safety` looks back one block, so that a first scan starts at
block 1 or, with more of the chain confirmed, at block 2; `payments_live` looks
back over the whole chain, since what was paid before the first scan is not the
reconciler's to find. It needs two payments of one offer, in different blocks, so
that the cursor can pass one while the other is pending, in the same tick or in the
next; more would only repeat it. `MaxNonce` bounds the counter and the gap of the
prices 10 and 20 stands for the real gap of 869565217391304 wei: `NonceGap` is the
assumption both satisfy.
In `games` three overlapping handlers would need a third request, but every
property there is about what one stale handler can do to another. The two seeds
differ in length, in legal moves and in points; one game can end with no points.
`client` needs a game that is over at once and one long enough for a batch of two
to queue up behind a batch, and two calls at a time: each race of the page is
between one reply and one other call. `MaxTrouble` bounds how often something
disturbs play (a fault, or a new game, undo or reload by the player), not what may
follow it: two are enough for a disturbance during the recovery from another.
`scores` has an improvement, a worse result of the same player and a tie of
another, one page that all of them change, and two requests, so that each pair of
handlers overlaps; a player's limit of 1 makes the second call the refused one.
Counts above the limit are not told apart (`Counted`).
`replay` covers every game on a 2x2 board; lines of up to four tiles, which only
the real board has, are compared exhaustively with the rule in
`MCReplay` (`MergeIsSlide`, `PlaceIsSlide`). Deadlock is not checked where a
bounded system really ends (all blocks mined, all nonces used, no game running, a
page that gave up loading); it is in `scores`, where something can always happen.

`calm` in `Client` says what the optimistic protocol takes for granted: the page
has taken over the server's state with nothing else under way, and since then no
call failed, nobody else touched the game and the player only moved. It is a
history variable that no guard reads. `InStep`, `SubmitAfterKillingMove` and
`KillingMoveIsSubmitted` are about such stretches, the first of the page and those
that begin when a load, a resync, an undo or a new game takes over a state after a
disturbance. That such a stretch must begin again is not claimed: a resync may fail
("give up"), and a page that played on during one may stay apart. They do not hold without calm, and
no such promise is made to the player ("user can hit New game", `App.tsx:321`):
after a failed killing move the page is over while the server's game is not
(`App.tsx:330`), a submit in flight when New game is pressed marks the new game as
submitted (`App.tsx:294`), and a game loaded over and unfinished is never submitted
(`App.tsx:319`). These are listed as hazards. `orphaned` in `RateLimiter` and `owed` in
`Leaderboard` are histories of the same kind: a key left without expiry and a sweep
that failed are excepted by name, not assumed away.

Symmetry is used in `payments_safety` (users, payments, requests) and `games`
(requests), where no property chooses among them; not in `payments_live`, which
checks liveness.

Fairness (`Payments!Fairness`, used by `payments_live`). Blocks keep coming. A
request that has begun runs on, since node continues a handler when its await
settles. The ticker fires for ever (`main.go`). The reconciler's calls may fail or
time out any number of times, so weak fairness would be too little: `AbortTick`
disables them again and again. Strong fairness says that a call tried for ever
succeeds some time, which is what `retryRPC`, the retry from the cursor and "next
tick" rely on. For `FetchRange` that means the whole range is fetched within a tick's
five minutes again and again: were it always too long for that
(`MAX_BLOCKS_PER_TICK` against the speed of the node), no tick would process a block,
and the code has no smaller step to fall back to. Nothing is assumed of the client:
it need never call `/buy`.

Fairness of `Client` and `Scores`. A handler that has begun runs on, and a reply
that has arrived is taken, both weakly: nothing disables them but the step itself
or a fault. In `Scores` Redis also drops a key some time after its expiry. No user
is assumed to do anything, and no fault to stop; `CacheConverges` is conditional on
submits coming to an end (`Settled`), because as long as they go on a page may be
stale at any moment.

What the violated properties show is in `PROJECT.json` under `findings`:

- `payments_rollback`: `/buy` claims a payment, its credit fails, the reconciler
  sees the claim and passes the block, `/buy` deletes the claim. The reconciler,
  the "long-tail safety net", never comes back.
- `payments_crash`: `/buy` claims a payment and the API dies before the credit. The
  reconciler takes the claim for a credit, its cursor passes the block, and `/buy`
  answers 409 from then on: the case the reconciler is there for (`README.md:8`).
- `payments_lag`: `eth_getBlockByNumber` answers null and the block counts as
  empty. It takes an RPC endpoint whose nodes differ, which the comments of
  `onchain.ts` expect of the same endpoint.
- `games_undo`: a `casPop` that throws is not refunded, only one that declines.
- `games_stale`: the compare-and-set compares lengths; after a new game, or an
  undo and another move, a stale batch fits.
- `games_finish`: `markFinished` marks the game that is there when it runs.

What the faults left out of the passing runs would break:

- A lost reply (`reply`) breaks `CreditedOnce`: `/buy` credits, the reply is lost, the
  handler deletes the claim, and the next `/buy`, or the reconciler if its cursor is
  not past the block, credits again; that the key "enforces one-time use"
  (`index.ts:352`) is then not so. `LedgerSpec`, with `LostReplies`, is what remains and
  is checked with the fault: a payment is credited anew only after a credit whose
  reply was lost, and still to its payer.
- A Redis that restarts empty (`flush`) breaks `ReceiptNamesPayer`: the counter starts
  again at 1, a later user is given the nonce and so the amount of an earlier one,
  and the later user's `/buy` of the earlier user's payment passes every check. The
  code takes the counter to be monotonic (`store.go:73-74`). `payments_live` has the
  fault with one user: what was paid and mirrored is credited all the same.
- `db`, `reply`, `crash` and `lag` break `PaidIsEventuallyCredited` by the traces above.

Two documents differ from the code without a run: `README.md:49` describes a
conditional upsert of the score row (the code writes the last game's columns
always, `index.ts:455-488`), and `README.md:59-68` describes an older undo that
was paid per use.

## 4. Proofs

`PaymentsProof` (every number of users, payments, requests, nonces, blocks):

- `TypeCorrect`: `Spec => []TypeOK`, under every fault.
- `InvCorrect`: the inductive invariant `IInv`, if Redis keeps its counter
  (`NoRedisLoss`, that is `"flush" \notin Faults`; section 3 says why). The
  properties are not inductive: that a claim names the payer follows only if a
  nonce stands for one intent in every store and in every request on its way
  there (`NonceInv`), if every payment was made to an offer of its payer
  (`PaymentInv`), and if a request or tick about to claim is owed the payment
  (`RequestInv`, `TickInv`); that no payment is credited twice unnoticed follows only
  if at most one request holds a claim, and of a payment that is not known to be
  credited (`RequestInv`, `Acked`), and if what is known to be credited keeps its
  claim (`ReceiptInv`).
- `ReceiptsCorrect`, `CreditsConfirmed`, `CursorCorrect`: the properties of the
  same name in `payments_safety`, from `IInv`.
- `LedgerCorrect`: `Spec => LedgerSpec`, the refinement, under every fault but
  `flush`. Mining maps to `Pay`, `BuyCredit` and `CreditPayment` to `Settle`, a credit
  whose reply is lost to `CreditUnnoticed`, `ConsumeUndoCredit` to `Spend`, all else
  to a stutter.
- `CreditsOnce`: `Spec => CreditedOnce` where moreover no reply is lost
  (`NoLostReply`): then `unacked` stays empty (`NoneUnacked`), so a credited payment
  keeps its claim, and nothing credits a claimed payment but the request that
  claimed it.
- `MatchPackOfAmount`: the reconciler decodes what the API encodes, from `NonceGap`.

`ReconcilerProof` (the same; on top of `IInv`):

- `ScanCorrect`: `Spec => []NothingLeftBehind`, under `ScanFaults` (no node lags, no
  statement fails or loses its reply, Redis keeps its counter; `payments_lag` and
  `payments_rollback` show why) while requests die, mirrors fail and ticks are cut off at any point. The
  invariant `ScanInv` says of every mined payment of a scanned block that it is
  handled, and of one of the blocks fetched and not left that it is handled or still to do
  (`ScanDone`). A payment without an intent counts as handled, so none may be
  mirrored after the scan: once an offer is out, no request is still to write its
  intent (`OfferSettled`). `SeededInTime` asks that the scan start within the
  look-back: blocks older than the seed of the cursor are left out by design.
  That the row stands for a credit is not part of it: `payments_crash` refutes that.

`GamesProof` (every set of seeds, requests and directions, any rules):

- `InvCorrect`, `UndosArePaid`, `RowCorrect`, `SnapshotCorrect`, `FinishedCorrect`.
  The invariant adds to the properties that a submit carries a game that is over
  through its three awaits (`SubmitsOver`), and counts the requests between spending
  and popping with the cardinality of `Spending`. Assumed of the constants: scores
  are numbers (`ScoresAreNumbers`) and "no row" is no row (`NoGameIsNoRow`).
- `TypeCorrect`: `Spec => []TypeOK`. That every stored log is a sequence of moves
  needs that `Accept`, a fold over the batch, yields one.

`FoldLemmas`: induction over data. The library's induction theorems take an operator,
which the provers cannot instantiate; here the induction is stated of a set of
numbers (`SetInduction`: a set that holds 0 and with n also n + 1 holds every number),
from the theorem that a non-empty set of numbers has a least element. From it follow
what a left fold over a sequence is, what type it has, how it continues when the
sequence is prolonged, and its trace (`FoldingTrace`): the accumulators after 0, 1, 2,
... elements, on which later proofs do their own induction (`UpTo`). Sums over finite
sets are treated alike: the community modules add in an order they choose, and
`SumOf` shows that it does not matter; `SumTrace` adds 1 .. n term by term, `SumRow` adds
a row to a set, `SumChanges` changes one term. `GamesProof` derives `AcceptsAll` from
them: a batch each of whose moves does something, up to a killing last one, is
accepted whole.

`ClientProof` (any set of faults, any number of calls, any `MaxTrouble`):

- `ClientRefinesGames`: `ClientSpec => Spec`. Every step of the page, the network, the
  handlers behind it and the faults is a step of `Games` or leaves it alone.
- `ClientKeepsPromises`: so whatever pages and devices do to the API, undos are paid
  for, the row keeps its best and a game that replays, and finished games stay.
- `ClientTypeCorrect`: `ClientSpec => []ClientTypeOK`. It is not inductive: a reply is
  of the right kind only if the request in a slot serves the call in that slot
  (`SlotsAgree`); the page takes over the answer to a start or an undo without asking
  whether it carries a game, so it must carry one (`RepliesWhole`); and a page that
  waits has a batch on its way (`Awaited`), or its retry would have nothing to send.

`InStepProof` (the same, and any batch size; the optimistic protocol of `App.tsx`):

- `PeaceCorrect`: the inductive invariant `Peace`. `InStep` says what the page shows, and
  that is not enough to know what the server will answer. `Peace` adds that at most
  one batch is on its way, and that its call carries the length the server has; that
  every queued move carries the length the log will have before it; that every move
  the server has not appended moved a tile when it was made, so that `Accept` will
  keep the whole batch (`AcceptsAll`) and the reply will be the one expected; that
  nobody else's call is on its way; and that a score goes out, and the game is marked
  finished, only when all moves are in. The page enters this state only by taking
  over a state, which is what `InCalm` in `Client` asks of that moment.
- `InStepCorrect`, `SubmitCorrect`: `InStep` and `SubmitAfterKillingMove`, from `Peace`.
  Assumed: `ScoresAreNumbers`, and that "no such key" is no state of a game
  (`NoGameIsNoState`).

`ScoresProof` (every set of players, results, pages, requests and share ids, every
page size and limit, every failure):

- `TypeCorrect`, `SweepsCorrect`, `LimitCorrect`, `SharesCorrect`, from one invariant
  `IInv`. The properties are not inductive. For `ImprovementSweepsPages`, a request
  about to delete must have collected every page it owes, and a request about to
  improve its row must know it (`Sweeps`): it looked before the upsert, and only
  because no best ever goes down does an improvement now imply an improvement
  then. That is the second half of `UpsertedTable`, which also says that the upsert
  keeps the table's key and order, and rests on what inserting and removing one row
  does to a sequence (`InsertElements`, `RemoveElements`, `PlaceSplits`). For
  `AtMostLimit`, the count is never below the calls admitted (`WithinWindow`); for
  `ShareHasImage`, a request about to insert has uploaded that card (`Stored`).
  Assumed: results are positive numbers, page size and limit are positive
  (`LeaderboardAssumption`, `LimitAssumption`), callers are players.

`ReplayProof` (a board of any side from 2 on, any log, any draws):

- `BoardCorrect`, `TypeCorrect`: every tile is a power of two up to 2^(SIZE²+1), 131072 on the
  real board. "Powers of two" is not inductive, since the tallest could double;
  `Tower` says why it cannot: at most SIZE² + 2 - k cells hold 2^k or more. A move
  keeps that, because each tile after it has a tile of its own before it, and one
  that doubled has two (`MoveComes`); a spawn does, because it adds at most a 4.
- `AgreeCorrect`: `game.ts` and `replay.ts` agree. The invariant `ReplayInv` says that the
  tiles cover the board: one tile for each cell that is not 0, none twice. The
  tiles the client sorts into a line are then the values the server reads off it
  (`InLineTiles`), since both are increasing lists of the same places and there is
  only one; the two merge loops stay alike step by step (`StepsAlike`), and the client's
  flag `moved`, which it sets tile by tile, says what the server finds by comparing
  boards (`StepsFollow`). From this the same draw falls on the same free cell.
- `StuckCorrect`: the tests for game over. A full line moves exactly when two
  neighbours are equal (`FullLine`), and a board with a tile and a hole moves in some
  direction (`HoleMoves`); a board is never without a tile (`HasTile`).
- `ScoreCorrect`: the score is what the board is worth. A merge step keeps the balance
  of points and worth (`MergeBalances`), the worth of a line after a move is that
  before and the points (`LineGains`), and lines add up to the board in each direction
  (`SumBySides`). A spawn is worth nothing, or 4 for a 4, and there is always a cell
  for it: a move that moves leaves a hole (`MoveLeavesHole`), without which `fours`
  would count a tile that is not there.

  Assumed: `ReplayAssumption`.

Only model-checked: all liveness (fairness and `ENABLED` are outside the prover). Every
invariant and action property of the passing runs is a theorem.

## 5. Not modelled, and why

- Authentication: stateless, a library's check; every modelled request carries its
  fid.
- The drawing of share images (`shareImage.ts`) and the HTML of the share page: pure
  functions of a card; no property here is about layout.
- What the page only shows: best score, modals (the leaderboard modal appends the
  pages it loads, the game-over modal composes the cast), the balance of credits. The
  balance decides whether the undo button undoes or opens the shop; `TriggerUndo`
  leaves that choice open.
  What can go wrong there: a row that moved between two pages cached at different
  times is listed twice or not at all (`App.tsx:893`), and the text of a cast, with the
  rank of the preview, may differ from the image drawn at create (`App.tsx:814`).
- The polling loop of a purchase: the calls to `/buy` it makes are in `Payments`, in
  any order and number; the deadline and the message shown at its end are not. If
  the reconciler credits first, the next `/buy` answers 409 and the page says
  "Purchase failed" (`App.tsx:468`), although the credit is there.
- The arithmetic of `mulberry32` (the two copies are identical; a draw is any value).
- Rate limits other than those of the share endpoints: the same function on other
  keys. In `Games` and `Payments` a refused request does not begin, in `Client` it is
  a refused call.
- Running the migrations: once, with nothing beside it. The tables and keys are the
  types and initial states of the models.
- Lost replies of the database elsewhere than in `/buy`: of the reconciler's
  transaction it is an `AbortTick` after `CreditPayment`, of the mirror an
  `IntentMirror` whose failure is swallowed, of a game's score row a request that dies
  after its upsert (`RequestDies`), and a spent undo credit whose reply is lost is one
  that dies before its pop.

Where two documents differ from the code without a run, besides those of section
3: `index.ts:560` says a share's rank is where the game would land "if it were the
player's PB", but `rankForScore` counts the player's own better row; `App.tsx:280-283`
says the submit waits until the server confirms that the game is over, but after a
failed killing move `drainQueue` calls `trySubmit` on the optimistic flag.

## 6. Plan

1. Done: the shop and reconciler, the ledger they implement, a player's game, the
   page in front of it, the rules, the leaderboard, limiter and share cards; proofs
   of every safety property the passing runs check.
2. The page's purchase loop with its limiter, and a page that recovers from a
   disturbance: from which states a resync brings it back into step.
3. The steps behind liveness that are not temporal: what each fair action of
   `Payments` and `Client` makes smaller.
