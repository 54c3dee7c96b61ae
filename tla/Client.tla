-------------------------------- MODULE Client --------------------------------
(***************************************************************************)
(* The page of apps/web/src/App.tsx in front of the game of module Games:  *)
(* moves are shown at once, queued, sent in batches, and the page is set   *)
(* back to the server's state when a batch is refused.  Calls and replies  *)
(* travel independently of each other, and a reply may be lost.            *)
(***************************************************************************)
EXTENDS Games

CONSTANTS
  Faults,      \* a subset of {"loss", "error", "reload", "device", "expiry"}
  MaxTrouble   \* bound on the steps that take page and server apart

ASSUME ClientAssumption ==
  /\ Faults \subseteq {"loss", "error", "reload", "device", "expiry"}
  /\ MaxTrouble \in Nat

VARIABLES
  c,       \* the refs of component Game
  calls,   \* the calls on their way, by the slot of Req they are served in
  calm,    \* history: nothing has gone wrong since the page last took over the server's state
  trouble  \* history: how often something has

pageVars == <<c, calls, calm, trouble>>
allVars == <<vars, pageVars>>

NoReply == [status |-> "none", game |-> NoGame, len |-> 0]
Ok(game_, len) == [status |-> "ok", game |-> game_, len |-> len]
Refused == [NoReply EXCEPT !.status = "refused"]
Failed == [NoReply EXCEPT !.status = "failed"]

(* What api.ts sends.  A call is "sent" until its handler answers; a call  *)
(* that is not mine belongs to a page that was closed or gave up on it.    *)
Call(kind, len, dirs) ==
  [kind |-> kind, mine |-> TRUE, phase |-> "sent", len |-> len, dirs |-> dirs, reply |-> NoReply]
NoCall == [Call("none", 0, <<>>) EXCEPT !.mine = FALSE]

StateKind == {"load", "resync"}
StartKind == {"open", "reopen", "fresh"}

Free(cs) == {r \in Req : cs[r] = NoCall /\ At(r, "idle")}
SendOne(cs, call) == [cs EXCEPT ![CHOOSE r \in Free(cs) : TRUE] = call]

(* The page changes to cl and sends what is in out.                        *)
Become(cl, cs, out) ==
  /\ Cardinality(Free(cs)) >= Len(out)
  /\ c' = cl
  /\ calls' = FoldLeft(SendOne, cs, out)

Blank ==
  [hydrated |-> FALSE, seed |-> NoGame, log |-> <<>>, over |-> FALSE, finished |-> FALSE,
   finishedShown |-> FALSE, submitting |-> FALSE, submitted |-> FALSE, undoing |-> FALSE,
   inFlight |-> FALSE, queue |-> <<>>]

ClientInit ==
  /\ Init
  /\ c = Blank
  /\ calls = SendOne([r \in Req |-> NoCall], Call("load", 0, <<>>))
  /\ calm = FALSE
  /\ trouble = 0

Trouble ==
  /\ trouble < MaxTrouble
  /\ trouble' = trouble + 1
  /\ calm' = FALSE

-----------------------------------------------------------------------------
(***************************************************************************)
(* The callbacks of the component, as functions of its refs.               *)
(***************************************************************************)
SyncFromServer(cl, g) ==
  [cl EXCEPT !.seed = g.seed, !.log = g.log, !.over = Over(g.seed, g.log),
             !.finished = g.finished, !.finishedShown = g.finished,
             !.submitted = @ \/ g.finished]

MaySubmitOptimistic(cl) ==
  cl.over /\ ~cl.submitting /\ ~cl.submitted /\ ~cl.finished

MaySubmit(cl) ==
  /\ cl.over
  /\ ~cl.submitting /\ ~cl.submitted /\ ~cl.finished
  /\ cl.queue = <<>> /\ ~cl.inFlight

MayPostAtOnce(cl) == cl.queue # <<>>

MayPost(cl) == ~cl.inFlight /\ cl.queue # <<>>

MoveCall(queue) == Call("move", queue[1].len, [i \in DOMAIN queue |-> queue[i].dir])

(* drainQueue: one batch at a time; when all is sent and the game is over, *)
(* the score.                                                              *)
DrainQueue(cl) ==
  IF MayPost(cl) THEN [cl EXCEPT !.queue = <<>>, !.inFlight = TRUE]
  ELSE IF MaySubmit(cl) THEN [cl EXCEPT !.submitting = TRUE]
  ELSE cl

DrainCalls(cl) ==
  IF MayPost(cl) THEN <<MoveCall(cl.queue)>>
  ELSE IF MaySubmit(cl) THEN <<Call("submit", 0, <<>>)>>
  ELSE <<>>

ApplyLenOffByOne(cl, d) ==
  [cl EXCEPT !.log = Append(@, d), !.over = Over(cl.seed, Append(cl.log, d)),
             !.queue = Append(@, [dir |-> d, len |-> Len(cl.log) - 1])]

(* The move is shown and queued before anyone has asked the server.        *)
Apply(cl, d) ==
  [cl EXCEPT !.log = Append(@, d), !.over = Over(cl.seed, Append(cl.log, d)),
             !.queue = Append(@, [dir |-> d, len |-> Len(cl.log)])]

-----------------------------------------------------------------------------
(***************************************************************************)
(* What the player does.                                                   *)
(***************************************************************************)
Play(d) ==
  LET cl == Apply(c, d)
  IN  /\ c.hydrated /\ ~c.over /\ ~c.undoing
      /\ Moves(c.seed, Played(c.seed, c.log), d)
      /\ Become(DrainQueue(cl), calls, DrainCalls(cl))
      /\ calm' = (calm /\ Len(cl.queue) <= MaxBatch)
      /\ UNCHANGED <<trouble, vars>>

StartFresh ==
  /\ Become([c EXCEPT !.queue = <<>>, !.inFlight = FALSE, !.submitted = FALSE,
                      !.submitting = FALSE, !.finished = FALSE, !.undoing = FALSE],
            calls, <<Call("fresh", 0, <<>>)>>)
  /\ Trouble
  /\ UNCHANGED vars

(* With no credits shown the button opens the shop instead; the balance    *)
(* shown is a copy that may be wrong either way, so it is left open.       *)
TriggerUndo ==
  /\ c.hydrated /\ ~c.finishedShown /\ ~c.undoing /\ ~c.over
  /\ Played(c.seed, c.log) # <<>>
  /\ Become([c EXCEPT !.undoing = TRUE], calls, <<Call("undo", 0, <<>>)>>)
  /\ Trouble
  /\ UNCHANGED vars

(* The page is closed and opened again; its calls go on without it.        *)
Reload ==
  /\ "reload" \in Faults
  /\ Become(Blank,
            [r \in Req |-> IF calls[r].phase = "answered" THEN NoCall
                           ELSE [calls[r] EXCEPT !.mine = FALSE]],
            <<Call("load", 0, <<>>)>>)
  /\ Trouble
  /\ UNCHANGED vars

-----------------------------------------------------------------------------
(***************************************************************************)
(* How the page takes its replies.                                         *)
(***************************************************************************)
Replied(r, kinds, statuses) ==
  /\ calls[r].mine /\ calls[r].phase = "answered"
  /\ calls[r].kind \in kinds
  /\ calls[r].reply.status \in statuses

Without(r) == [calls EXCEPT ![r] = NoCall]

(* The page shows the very state of the server and nothing else is going   *)
(* on: from here on, play should keep the two together.                    *)
InCalm(r, cl) ==
  /\ calls[r].reply.game = game
  /\ \A q \in Req \ {r} : calls[q] = NoCall /\ At(q, "idle")
  /\ cl.queue = <<>> /\ ~cl.submitted

TakeState(r, cl) ==
  LET synced == SyncFromServer(cl, calls[r].reply.game)
  IN  /\ Become(synced, Without(r), <<>>)
      /\ calm' = InCalm(r, synced)

OnLoad(r) ==
  /\ \/ /\ Replied(r, {"load"}, {"ok"})
        /\ calls[r].reply.game # NoGame
        /\ ~calls[r].reply.game.finished
        /\ TakeState(r, [c EXCEPT !.hydrated = TRUE])
     \/ /\ Replied(r, {"load"}, {"ok"})
        /\ calls[r].reply.game # NoGame => calls[r].reply.game.finished
        /\ Become(c, Without(r), <<Call("open", 0, <<>>)>>)
        /\ UNCHANGED calm
     \/ /\ Replied(r, {"load", "open"}, {"refused", "failed"})
        /\ Become(c, Without(r), <<Call("reopen", 0, <<>>)>>)
        /\ UNCHANGED calm
     \/ /\ Replied(r, {"open", "reopen"}, {"ok"})
        /\ TakeState(r, [c EXCEPT !.hydrated = TRUE])
     \/ /\ Replied(r, {"reopen"}, {"refused", "failed"})
        /\ Become(c, Without(r), <<>>)
        /\ UNCHANGED calm
  /\ UNCHANGED <<trouble, vars>>

(* startFresh and resyncFromServer take the state whenever it comes, and   *)
(* let a failure pass.                                                     *)
OnFreshOrResync(r) ==
  /\ \/ /\ Replied(r, {"fresh", "resync"}, {"ok"})
        /\ calls[r].reply.game # NoGame
        /\ TakeState(r, c)
     \/ /\ Replied(r, {"fresh", "resync"}, {"ok", "refused", "failed"})
        /\ calls[r].reply.game = NoGame
        /\ Become(c, Without(r), <<>>)
        /\ UNCHANGED calm
  /\ UNCHANGED <<trouble, vars>>

AsExpected(call) ==
  call.reply.status = "ok" /\ call.reply.len = call.len + Len(call.dirs)

SettledNever(cl) == cl

Settled(cl) == [cl EXCEPT !.inFlight = FALSE]

(* postMove(...).then(...).finally(...): a reply that is not the expected  *)
(* one asks for the full state; then, in any case, the queue is drained.   *)
OnMove(r) ==
  LET taken == Settled(c)
      emptied == [taken EXCEPT !.queue = <<>>]
  IN  /\ \/ /\ Replied(r, {"move"}, {"ok", "failed"})
            /\ AsExpected(calls[r]) \/ calls[r].reply.status = "failed"
            /\ Become(DrainQueue(taken), Without(r), DrainCalls(taken))
         \/ /\ Replied(r, {"move"}, {"ok", "refused"})
            /\ ~AsExpected(calls[r])
            /\ Become(DrainQueue(emptied), Without(r),
                      <<Call("resync", 0, <<>>)>> \o DrainCalls(emptied))
      /\ UNCHANGED <<calm, trouble, vars>>

OnUndo(r) ==
  /\ \/ /\ Replied(r, {"undo"}, {"ok"})
        /\ TakeState(r, [c EXCEPT !.queue = <<>>, !.undoing = FALSE])
     \/ /\ Replied(r, {"undo"}, {"refused", "failed"})
        /\ Become([c EXCEPT !.undoing = FALSE], Without(r), <<>>)
        /\ UNCHANGED calm
  /\ UNCHANGED <<trouble, vars>>

OnSubmit(r) ==
  /\ Replied(r, {"submit"}, {"ok", "refused", "failed"})
  /\ Become([c EXCEPT !.submitting = FALSE,
                      !.submitted = @ \/ calls[r].reply.status = "ok"],
            Without(r), <<>>)
  /\ UNCHANGED <<calm, trouble, vars>>

On(r) == OnLoad(r) \/ OnFreshOrResync(r) \/ OnMove(r) \/ OnUndo(r) \/ OnSubmit(r)

-----------------------------------------------------------------------------
(***************************************************************************)
(* The API, with the handlers of Games.                                    *)
(***************************************************************************)
Sent(r, kinds) == calls[r].phase = "sent" /\ calls[r].kind \in kinds

Answer(r, reply) ==
  calls' = IF calls[r].mine
           THEN [calls EXCEPT ![r].phase = "answered", ![r].reply = reply]
           ELSE Without(r)

ServeState(r) ==
  /\ Sent(r, StateKind)
  /\ Answer(r, Ok(game, 0))
  /\ UNCHANGED vars

ServeStart(r) ==
  /\ Sent(r, StartKind)
  /\ \E seed \in Seed :
       /\ Start(seed)
       /\ Answer(r, Ok([seed |-> seed, log |-> <<>>, finished |-> FALSE], 0))

Acceptable(call) ==
  /\ call.dirs \in Batch
  /\ game # NoGame /\ ~game.finished
  /\ ~Over(game.seed, game.log)
  /\ Len(game.log) = call.len
  /\ Accept(game.seed, game.log, call.dirs) # game.log

ServeMove(r) ==
  /\ Sent(r, {"move"}) /\ At(r, "idle")
  /\ \/ /\ Acceptable(calls[r])
        /\ MoveRead(r, calls[r].dirs)
        /\ UNCHANGED calls
     \/ /\ ~Acceptable(calls[r])
        /\ Answer(r, Refused)
        /\ UNCHANGED vars

ServeAppend(r) ==
  /\ Sent(r, {"move"})
  /\ MoveAppend(r)
  /\ Answer(r, IF Appendable(r) THEN Ok(NoGame, Len(req[r].log)) ELSE Refused)

ServeUndo(r) ==
  /\ Sent(r, {"undo"})
  /\ \/ UndoConsume(r) /\ UNCHANGED calls
     \/ /\ At(r, "idle") /\ ~HasCredit
        /\ Answer(r, Refused)
        /\ UNCHANGED vars
     \/ /\ UndoPop(r)
        /\ IF Poppable THEN Answer(r, Ok([game EXCEPT !.log = Front(@)], 0))
                       ELSE UNCHANGED calls
     \/ UndoRefund(r) /\ Answer(r, Refused)

ServeSubmit(r) ==
  /\ Sent(r, {"submit"})
  /\ \/ SubmitRead(r) /\ UNCHANGED calls
     \/ /\ At(r, "idle")
        /\ game # NoGame => ~Over(game.seed, game.log) \/ Score(game.seed, game.log) = 0
        /\ Answer(r, Refused)
        /\ UNCHANGED vars
     \/ SubmitFinish(r) /\ UNCHANGED calls
     \/ SubmitUpsert(r) /\ Answer(r, Ok(NoGame, 0))

Serve(r) ==
  /\ ServeState(r) \/ ServeStart(r) \/ ServeMove(r) \/ ServeAppend(r)
     \/ ServeUndo(r) \/ ServeSubmit(r)
  /\ UNCHANGED <<c, calm, trouble>>

-----------------------------------------------------------------------------
(***************************************************************************)
(* What goes wrong.                                                        *)
(***************************************************************************)
(* The limiter refuses the call, or its handler throws where it stands.    *)
ServerFails(r) ==
  /\ "error" \in Faults
  /\ calls[r].phase = "sent"
  /\ RequestDies(r) \/ (At(r, "idle") /\ UNCHANGED vars)
  /\ Answer(r, Refused)

(* fetch rejects: the request did not arrive, or its reply does not, or    *)
(* both are still to come and nobody waits for them.                       *)
Disconnect(r) ==
  LET failed == [calls[r] EXCEPT !.phase = "answered", !.reply = Failed]
  IN  /\ "loss" \in Faults
      /\ calls[r].mine
      /\ \/ /\ calls[r].phase = "answered" \/ At(r, "idle")
            /\ calls' = [calls EXCEPT ![r] = failed]
         \/ /\ calls[r].phase = "sent"
            /\ \E q \in Free(calls) :
                 calls' = [calls EXCEPT ![r].mine = FALSE, ![q] = failed]
      /\ UNCHANGED vars

(* A request nobody waits for never arrives.                               *)
Vanish(r) ==
  /\ calls[r].phase = "sent" /\ ~calls[r].mine /\ calls[r] # NoCall
  /\ At(r, "idle")
  /\ calls' = Without(r)
  /\ UNCHANGED vars

(* Another device of the player calls the API; its calls are not mine.     *)
OtherDevice ==
  /\ "device" \in Faults
  /\ Free(calls) # {}
  /\ \E call \in {Call(kind, 0, <<>>) : kind \in {"fresh", "undo", "submit"}}
        \cup {Call("move", IF game = NoGame THEN 0 ELSE Len(game.log), dirs) : dirs \in Batch} :
       calls' = SendOne(calls, [call EXCEPT !.mine = FALSE])
  /\ UNCHANGED vars

Expire == "expiry" \in Faults /\ LoseGame /\ UNCHANGED calls

Disturb ==
  /\ (\E r \in Req : ServerFails(r) \/ Disconnect(r) \/ Vanish(r)) \/ OtherDevice \/ Expire
  /\ Trouble
  /\ UNCHANGED c

ClientNext ==
  \/ \E d \in Dir : Play(d)
  \/ StartFresh
  \/ TriggerUndo
  \/ Reload
  \/ \E r \in Req : On(r)
  \/ \E r \in Req : Serve(r)
  \/ Disturb

ClientSpec == ClientInit /\ [][ClientNext]_allVars

(* A handler that has begun runs on, and a reply that has come is taken.   *)
Fairness == \A r \in Req : WF_allVars(Serve(r)) /\ WF_allVars(On(r))

FairClientSpec == ClientSpec /\ Fairness

-----------------------------------------------------------------------------
Page ==
  [hydrated : BOOLEAN, seed : Seed \cup {NoGame}, log : Seq(Dir), over : BOOLEAN,
   finished : BOOLEAN, finishedShown : BOOLEAN, submitting : BOOLEAN, submitted : BOOLEAN,
   undoing : BOOLEAN, inFlight : BOOLEAN, queue : Seq([dir : Dir, len : Nat])]

ApiCall ==
  [kind : StateKind \cup StartKind \cup {"none", "move", "undo", "submit"},
   mine : BOOLEAN, phase : {"sent", "answered"}, len : Nat, dirs : Seq(Dir),
   reply : [status : {"none", "ok", "refused", "failed"}, game : Game \cup {NoGame}, len : Nat]]

(* Every variable of the page holds what the code can put there.           *)
ClientTypeOK ==
  /\ c \in Page
  /\ calls \in [Req -> ApiCall]
  /\ calm \in BOOLEAN
  /\ trouble \in 0 .. MaxTrouble

Mine(kind) == {r \in Req : calls[r].mine /\ calls[r].kind = kind}

(* What the server has not yet appended of the batch on its way.           *)
Unapplied ==
  LET waiting == {r \in Mine("move") : calls[r].phase = "sent"}
  IN  IF waiting = {} THEN <<>> ELSE calls[CHOOSE r \in waiting : TRUE].dirs

Queued == [i \in DOMAIN c.queue |-> c.queue[i].dir]

(* The optimistic protocol of App.tsx (apply, drainQueue, postMove): as    *)
(* long as nothing goes wrong, the page shows the server's log followed by *)
(* the one batch on its way and the moves in the queue, so that no move is *)
(* lost, doubled, reordered or refused; and this holds again after any     *)
(* disturbance once the page has taken over a state in peace.              *)
InStep ==
  calm =>
    /\ game # NoGame /\ c.seed = game.seed
    /\ c.log = game.log \o Unapplied \o Queued
    /\ Cardinality(Mine("move")) = IF c.inFlight THEN 1 ELSE 0

(* The score is submitted only when the server has the killing move        *)
(* (App.tsx, trySubmit), and then once.                                    *)
SubmitAfterKillingMove ==
  calm /\ Mine("submit") # {} =>
    /\ Over(game.seed, game.log) /\ c.log = game.log
    /\ Cardinality(Mine("submit")) = 1 /\ ~c.inFlight

(* A game that ends in peace with a score gets into the score row without  *)
(* the player's help, and the page learns of it (App.tsx, drainQueue and   *)
(* trySubmit).                                                             *)
KillingMoveIsSubmitted ==
  calm /\ c.over /\ c.inFlight /\ Score(c.seed, c.log) > 0
    ~> \/ ~calm
       \/ /\ c.submitted
          /\ row # NoGame /\ row.seed = c.seed /\ row.log = c.log
=============================================================================
