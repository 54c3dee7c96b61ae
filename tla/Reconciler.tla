------------------------------ MODULE Reconciler ------------------------------
(***************************************************************************)
(* The reconciler of apps/reconciler: one tick at a time scans confirmed   *)
(* blocks for treasury payments nobody has credited.  A tick is split at   *)
(* each call to the node or the database; any of those calls may fail, the *)
(* tick may time out and the process may be restarted, and all of these    *)
(* end the tick where it stands.                                           *)
(***************************************************************************)
EXTENDS PaymentState

CONSTANTS MaxBlocksPerTick, InitialLookback

ASSUME ScanAssumption ==
  /\ MaxBlocksPerTick \in Nat \ {0}
  /\ InitialLookback \in Nat

UnconfirmedHead == head

SafeHead == head - MinConf

FirstBlock ==
  IF cursor # 0 THEN cursor + 1
  ELSE IF SafeHead > InitialLookback THEN SafeHead - InitialLookback + 1
  ELSE 1

LastBlock ==
  IF SafeHead - FirstBlock + 1 > MaxBlocksPerTick
  THEN FirstBlock + MaxBlocksPerTick - 1
  ELSE SafeHead

Tick ==
  /\ worker.pc = "idle"
  /\ FirstBlock <= SafeHead
  /\ worker' = [NoTick EXCEPT !.pc = "fetch", !.block = FirstBlock, !.to = LastBlock]
  /\ UNCHANGED <<chainVars, redisVars, packIntents, creditVars, cursor, req, offers>>

(* The transactions of a block that pay the treasury, reverted ones too.   *)
TreasuryTxs(block) ==
  {t \in Tx : /\ txs[t].status \in {"ok", "reverted"}
              /\ txs[t].block = block
              /\ txs[t].value > 0}

Process(todo) ==
  worker' = [worker EXCEPT !.pc = "process", !.todo = todo, !.tx = None, !.fid = None]

TreasuryTxsOf(blocks) == UNION {TreasuryTxs(b) : b \in blocks}

(* Every block of the range is fetched before the first is processed; the  *)
(* fetches run side by side, over blocks that no longer change.  A block   *)
(* whose fetch fails ends the tick when its turn comes (AbortTick).        *)
FetchRange ==
  /\ worker.pc = "fetch"
  /\ Process(TreasuryTxsOf(worker.block .. worker.to))
  /\ UNCHANGED <<chainVars, redisVars, packIntents, creditVars, cursor, req, offers>>

(* A node that has not seen a block yet answers null, which CallContext    *)
(* leaves as the zero rpcBlock: no error and no transactions.              *)
FetchRangeNulls ==
  /\ "lag" \in Faults
  /\ worker.pc = "fetch"
  /\ \E seen \in SUBSET (worker.block .. worker.to) : Process(TreasuryTxsOf(seen))
  /\ UNCHANGED <<chainVars, redisVars, packIntents, creditVars, cursor, req, offers>>

(* PaymentExists: skip what undo_payments already holds.                   *)
CheckPayment(t) ==
  /\ worker.pc = "process"
  /\ t \in worker.todo /\ txs[t].block = worker.block
  /\ \/ /\ undoPayments[t] # None
        /\ Process(worker.todo \ {t})
     \/ /\ undoPayments[t] = None
        /\ worker' = [worker EXCEPT !.pc = "resolve", !.tx = t]
  /\ UNCHANGED <<chainVars, redisVars, packIntents, creditVars, cursor, req, offers>>

GetIntentFromRedis(nonce) == Lookup(redisIntent, nonce)

GetIntent(nonce) == Lookup(packIntents, nonce)

(* The intent this payment may be credited to, or None: reverted, below    *)
(* the smallest price, no such intent, or an intent for another pack.      *)
PaidIntent(t) ==
  LET value == txs[t].value
      intent == GetIntent(NonceIn(value, MatchPack(value)))
  IN  IF /\ txs[t].status = "ok"
         /\ Affordable(value) # {}
         /\ intent # None
         /\ intent.pack = MatchPack(value)
      THEN intent
      ELSE None

ResolveIntent(t) ==
  /\ worker.pc = "resolve" /\ worker.tx = t
  /\ \/ /\ PaidIntent(t) = None
        /\ Process(worker.todo \ {t})
     \/ /\ PaidIntent(t) # None
        /\ worker' = [worker EXCEPT !.pc = "credit", !.fid = PaidIntent(t).fid]
  /\ UNCHANGED <<chainVars, redisVars, packIntents, creditVars, cursor, req, offers>>

(* One database transaction: claim and credit, or neither.                 *)
CreditPayment(t) ==
  LET pack == MatchPack(txs[t].value)
  IN  /\ worker.pc = "credit" /\ worker.tx = t
      /\ \/ /\ undoPayments[t] # None
            /\ UNCHANGED creditVars
         \/ /\ undoPayments[t] = None
            /\ undoPayments' = [undoPayments EXCEPT ![t] = [fid |-> worker.fid, pack |-> pack]]
            /\ AddUndoCredits(worker.fid, pack, t)
            /\ unacked' = unacked \ {t}
      /\ Process(worker.todo \ {t})
      /\ UNCHANGED <<chainVars, redisVars, packIntents, cursor, req, offers>>

AdvancePast == worker.block + 1

AdvanceTo == worker.block

BlockDone == \A t \in worker.todo : txs[t].block # worker.block

AdvanceCursor ==
  /\ worker.pc = "process"
  /\ BlockDone
  /\ cursor' = AdvanceTo
  /\ worker' = IF worker.block = worker.to THEN NoTick ELSE [worker EXCEPT !.block = @ + 1]
  /\ UNCHANGED <<chainVars, redisVars, packIntents, creditVars, req, offers>>

(* A call returns an error, the five minutes pass, or the process goes.    *)
AbortTick ==
  /\ worker.pc # "idle"
  /\ worker' = NoTick
  /\ UNCHANGED <<chainVars, redisVars, packIntents, creditVars, cursor, req, offers>>

ReconcilerStep ==
  \/ Tick
  \/ FetchRange
  \/ FetchRangeNulls
  \/ \E t \in Tx : CheckPayment(t) \/ ResolveIntent(t) \/ CreditPayment(t)
  \/ AdvanceCursor
  \/ AbortTick
==============================================================================
