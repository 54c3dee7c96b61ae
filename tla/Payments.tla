------------------------------- MODULE Payments -------------------------------
(***************************************************************************)
(* The shop as a whole: the API's handlers and the reconciler over one     *)
(* database, the clients that pay the offers they are given, the chain     *)
(* that mines the payments, and Redis forgetting.                          *)
(***************************************************************************)
EXTENDS ShopApi, Reconciler

CONSTANT StrayValue   \* values sent to the treasury without an offer

(* A stray transfer does not happen to carry the code of an intent.        *)
ASSUME StrayAssumption ==
  /\ StrayValue \subseteq Nat
  /\ \A v \in StrayValue, p \in Pack : NonceIn(v, p) \notin Nonce

(***************************************************************************)
(* Clients and chain.                                                      *)
(***************************************************************************)
Send(t, value, payer) ==
  /\ txs[t].status = "none"
  /\ txs' = [txs EXCEPT ![t] = [status |-> "sent", value |-> value,
                                payer |-> payer, block |-> 0]]
  /\ UNCHANGED <<head, redisVars, packIntents, creditVars, cursor, req, worker, offers>>

(* payTreasury: exactly the amount of the offer; an offer may be paid more *)
(* than once, by a user who repeats the purchase with a stale reply.       *)
PayTreasury(t) ==
  \E o \in offers : Send(t, AmountWei(o.pack, o.nonce), o.fid)

PayStray(t) == \E v \in StrayValue : Send(t, v, None)

(* Bound: a payment is mined early enough for the reconciler to reach it.  *)
Mine(t) ==
  /\ txs[t].status = "sent"
  /\ head + 1 + MinConf <= MaxBlock
  /\ \E status \in {"ok", "reverted"} :
       txs' = [txs EXCEPT ![t].status = status, ![t].block = head + 1]
  /\ UNCHANGED <<head, redisVars, packIntents, creditVars, cursor, req, worker, offers>>

NewBlock ==
  /\ head < MaxBlock
  /\ head' = head + 1
  /\ UNCHANGED <<txs, redisVars, packIntents, creditVars, cursor, req, worker, offers>>

(***************************************************************************)
(* Redis: a key outlives its TTL by nothing, and a crash loses them all,   *)
(* the counter with them.                                                  *)
(***************************************************************************)
ExpireIntent(n) ==
  /\ redisIntent[n] # None
  /\ redisIntent' = [redisIntent EXCEPT ![n] = None]
  /\ UNCHANGED <<chainVars, counter, packIntents, creditVars, cursor, req, worker, offers>>

LoseRedis ==
  /\ "flush" \in Faults
  /\ counter' = 0
  /\ redisIntent' = [n \in Nonce |-> None]
  /\ UNCHANGED <<chainVars, packIntents, creditVars, cursor, req, worker, offers>>

Next ==
  \/ \E r \in Req : ApiStep(r)
  \/ ReconcilerStep
  \/ \E fid \in Fid : ConsumeUndoCredit(fid)
  \/ \E t \in Tx : PayTreasury(t)
  \/ \E t \in Tx : PayStray(t)
  \/ \E t \in Tx : Mine(t)
  \/ NewBlock
  \/ \E n \in Nonce : ExpireIntent(n)
  \/ LoseRedis

Spec == Init /\ [][Next]_vars

(***************************************************************************)
(* A request in flight runs on, blocks keep coming, and the ticker keeps   *)
(* firing.  The reconciler's calls may fail, again and again, but not for  *)
(* ever for the same payment: strong fairness on each of its steps.        *)
(***************************************************************************)
Fairness ==
  /\ WF_vars(NewBlock)
  /\ \A r \in Req : /\ WF_vars(IntentSet(r))
                    /\ WF_vars(IntentMirror(r))
                    /\ WF_vars(BuyClaim(r))
                    /\ WF_vars(BuyCredit(r))
                    /\ WF_vars(BuyBurn(r))
  /\ WF_vars(Tick)
  /\ SF_vars(FetchRange)
  /\ \A t \in Tx : /\ SF_vars(CheckPayment(t))
                   /\ SF_vars(ResolveIntent(t))
                   /\ SF_vars(CreditPayment(t))
  /\ SF_vars(AdvanceCursor)

FairSpec == Spec /\ Fairness

-----------------------------------------------------------------------------
(***************************************************************************)
(* Properties.                                                             *)
(***************************************************************************)
PaidPack(t) == MatchPack(txs[t].value)
PaidNonce(t) == NonceIn(txs[t].value, PaidPack(t))

(* The shop implements the ledger: no interleaving of /buy, a repeated     *)
(* /buy and the reconciler credits a payment that is settled, credits one  *)
(* that was not mined, or moves a balance for another reason.  A payment   *)
(* is settled once credited, unless the reply to the credit was lost: the  *)
(* handler then takes the claim back and the payment may be credited anew. *)
Ledger == INSTANCE CreditLedger WITH
  LostReplies <- "reply" \in Faults,
  purchase <- [t \in Tx |->
                 IF txs[t].status = "ok" /\ txs[t].payer # None
                 THEN [fid |-> txs[t].payer, undos |-> undos[PaidPack(t)]]
                 ELSE None],
  settled <- credited \ unacked,
  balance <- undoCredits

LedgerSpec == Ledger!Spec

(* The PK of undo_payments "enforces one-time use" (index.ts, step 3): a   *)
(* balance grows only by a payment whose undos reached none before, as     *)
(* long as no reply of the database is lost.                               *)
CreditedOnce ==
  [][\A f \in Fid : undoCredits'[f] > undoCredits[f] =>
       \E t \in Tx \ credited : t \in credited' /\ txs[t].payer = f]_vars

(* Credits are given out only for payments that have the confirmations     *)
(* UNDO_MIN_CONFIRMATIONS asks for, whichever of the two services gives.   *)
CreditOnlyConfirmed == \A t \in credited : Confirmed(t)

(* A row of undo_payments names the user who sent the payment and the pack *)
(* its value pays for: no other user's /buy, and no nonce decoded against  *)
(* the wrong price, takes the payment.                                     *)
ReceiptNamesPayer ==
  \A t \in Tx :
    undoPayments[t] # None =>
      /\ undoPayments[t].fid = txs[t].payer
      /\ undoPayments[t].pack = PaidPack(t)

(* Once the cursor has left its seed it moves one block at a time and      *)
(* stays behind the confirmation depth (reconciler.go, scanRange).         *)
CursorContiguous ==
  [][/\ cursor' = cursor + 1 \/ cursor = 0
     /\ cursor' + MinConf <= head]_cursor

(* The payment's intent reached pack_intents for its own payer.            *)
IntentMirrored(t) ==
  /\ txs[t].payer # None
  /\ packIntents[PaidNonce(t)] = [fid |-> txs[t].payer, pack |-> PaidPack(t)]

(* The cursor is past a payment the reconciler could tell the owner of; it *)
(* never comes back for it.                                                *)
Passed(t) == txs[t].status = "ok" /\ txs[t].block <= cursor /\ IntentMirrored(t)

(* Every payment the cursor has passed is claimed.                         *)
NothingLeftBehind == \A t \in Tx : Passed(t) => undoPayments[t] # None

(* The reconciler credits what /buy did not get to credit (README.md): a   *)
(* payment the cursor has passed was credited, or its /buy is about to.    *)
PassedIsCredited ==
  \A t \in Tx :
    Passed(t) => t \in credited \/ \E r \in Req : req[r].tx = t /\ At(r, "credit")

(* A mined payment with a mirrored intent is credited in the end, whether  *)
(* or not its client ever calls /buy and whatever Redis has forgotten.     *)
PaidIsEventuallyCredited ==
  \A t \in Tx :
    (txs[t].status = "ok" /\ IntentMirrored(t)) ~> (t \in credited)
==============================================================================
