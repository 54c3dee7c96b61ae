------------------------------- MODULE ShopApi -------------------------------
(***************************************************************************)
(* The two shop handlers of apps/api/src/index.ts, split where they await  *)
(* a store.  A reply that changes nothing (429, 400, 202 "pending") is no  *)
(* step: the request was never begun.                                      *)
(***************************************************************************)
EXTENDS PaymentState

Begin(r, call) == req[r].pc = "idle" /\ req' = [req EXCEPT ![r] = call]
Continue(r, pc) == req' = [req EXCEPT ![r].pc = pc]
Return(r) == req' = [req EXCEPT ![r] = NoRequest]
At(r, pc) == req[r].pc = pc

(***************************************************************************)
(* POST /api/shop/packs/intent                                             *)
(***************************************************************************)
IntentIncr(r, fid, pack) ==
  /\ counter < MaxNonce
  /\ counter' = counter + 1
  /\ Begin(r, [pc |-> "set", fid |-> fid, pack |-> pack,
               nonce |-> counter + 1, tx |-> None])
  /\ UNCHANGED <<chainVars, redisIntent, packIntents, creditVars, cursor, worker, offers>>

RequestIntent(r) == [fid |-> req[r].fid, pack |-> req[r].pack]

IntentSet(r) ==
  /\ At(r, "set")
  /\ redisIntent' = [redisIntent EXCEPT ![req[r].nonce] = RequestIntent(r)]
  /\ Continue(r, "mirror")
  /\ UNCHANGED <<chainVars, counter, packIntents, creditVars, cursor, worker, offers>>

(* INSERT ... ON CONFLICT (nonce) DO NOTHING                               *)
InsertPackIntent(nonce, intent) ==
  packIntents' = IF packIntents[nonce] = None
                 THEN [packIntents EXCEPT ![nonce] = intent]
                 ELSE packIntents

ReplyOffer(r) ==
  /\ offers' = offers \cup
       {[nonce |-> req[r].nonce, fid |-> req[r].fid, pack |-> req[r].pack]}
  /\ Return(r)

IntentMirror(r) ==
  /\ At(r, "mirror")
  /\ InsertPackIntent(req[r].nonce, RequestIntent(r))
  /\ ReplyOffer(r)
  /\ UNCHANGED <<chainVars, redisVars, creditVars, cursor, worker>>

(* The insert throws; the handler logs it and replies all the same.        *)
IntentMirrorFails(r) ==
  /\ "mirror" \in Faults
  /\ At(r, "mirror")
  /\ ReplyOffer(r)
  /\ UNCHANGED <<chainVars, redisVars, packIntents, creditVars, cursor, worker>>

(***************************************************************************)
(* POST /api/shop/packs/buy                                                *)
(***************************************************************************)
VerifiedUnconfirmed(t, pack) == txs[t].status = "ok" /\ txs[t].value >= priceWei[pack]

(* verifyTreasuryPayment returns, rather than throws.  What it reads only  *)
(* ever turns from false to true, so the reads are one step.               *)
Verified(t, pack) == Confirmed(t) /\ txs[t].value >= priceWei[pack]

IntentOfAnyone(t, fid, pack) ==
  LET intent == Lookup(redisIntent, NonceIn(txs[t].value, pack))
  IN  intent # None /\ intent.pack = pack

(* The payment names a live intent of this user for this pack.             *)
IntentMatches(t, fid, pack) ==
  Lookup(redisIntent, NonceIn(txs[t].value, pack)) = [fid |-> fid, pack |-> pack]

BuyVerify(r, fid, pack, t) ==
  /\ Verified(t, pack)
  /\ IntentMatches(t, fid, pack)
  /\ Begin(r, [pc |-> "claim", fid |-> fid, pack |-> pack,
               nonce |-> NonceIn(txs[t].value, pack), tx |-> t])
  /\ UNCHANGED <<chainVars, redisVars, packIntents, creditVars, cursor, worker, offers>>

ClaimAlways(t) == TRUE

(* The primary key of undo_payments admits the row.                        *)
Claimable(t) == undoPayments[t] = None

(* Insert the claim; on 23505 reply 409.                                   *)
BuyClaim(r) ==
  LET t == req[r].tx
  IN  /\ At(r, "claim")
      /\ \/ /\ Claimable(t)
            /\ undoPayments' = [undoPayments EXCEPT ![t] = RequestIntent(r)]
            /\ Continue(r, "credit")
         \/ /\ ~Claimable(t)
            /\ Return(r)
            /\ UNCHANGED undoPayments
      /\ UNCHANGED <<chainVars, redisVars, packIntents, undoCredits, credited,
                     unacked, cursor, worker, offers>>

BuyCredit(r) ==
  /\ At(r, "credit")
  /\ AddUndoCredits(req[r].fid, req[r].pack, req[r].tx)
  /\ unacked' = unacked \ {req[r].tx}
  /\ Continue(r, "burn")
  /\ UNCHANGED <<chainVars, redisVars, packIntents, undoPayments, cursor, worker, offers>>

CreditThrown(r) == "db" \in Faults /\ UNCHANGED creditVars

(* The upsert commits and its reply is lost on the way back.               *)
CreditUnacked(r) ==
  /\ "reply" \in Faults
  /\ undoCredits[req[r].fid] + undos[req[r].pack] <= MaxUndos
  /\ AddUndoCredits(req[r].fid, req[r].pack, req[r].tx)
  /\ unacked' = unacked \cup {req[r].tx}
  /\ UNCHANGED undoPayments

(* addUndoCredits throws.  Whether or not it has added the undos, which    *)
(* the handler cannot see: take the claim back, then rethrow.              *)
BuyCreditFails(r) ==
  /\ At(r, "credit")
  /\ CreditThrown(r) \/ CreditUnacked(r)
  /\ Continue(r, "unclaim")
  /\ UNCHANGED <<chainVars, redisVars, packIntents, cursor, worker, offers>>

BuyUnclaim(r) ==
  /\ At(r, "unclaim")
  /\ undoPayments' = [undoPayments EXCEPT ![req[r].tx] = None]
  /\ Return(r)
  /\ UNCHANGED <<chainVars, redisVars, packIntents, undoCredits, credited,
                 unacked, cursor, worker, offers>>

BuyBurn(r) ==
  /\ At(r, "burn")
  /\ redisIntent' = [redisIntent EXCEPT ![req[r].nonce] = None]
  /\ Return(r)
  /\ UNCHANGED <<chainVars, counter, packIntents, creditVars, cursor, worker, offers>>

(* The handler stops at an await and runs no further: the process dies,    *)
(* or a Redis call, the claim or the DELETE throws; the claim that threw   *)
(* may have been inserted, and only its reply lost.                        *)
RequestDies(r) ==
  /\ \/ "crash" \in Faults /\ ~At(r, "idle")
     \/ "db" \in Faults /\ req[r].pc \in {"claim", "unclaim"}
     \/ "reply" \in Faults /\ At(r, "credit")
  /\ Return(r)
  /\ UNCHANGED <<chainVars, redisVars, packIntents, creditVars, cursor, worker, offers>>

(***************************************************************************)
(* consumeUndoCredit, called by /api/games/undo.                           *)
(***************************************************************************)
SpendAny(fid) == TRUE

HasCredit(fid) == undoCredits[fid] > 0

ConsumeUndoCredit(fid) ==
  /\ HasCredit(fid)
  /\ undoCredits' = [undoCredits EXCEPT ![fid] = @ - 1]
  /\ UNCHANGED <<chainVars, redisVars, packIntents, undoPayments, credited, unacked,
                 cursor, req, worker, offers>>

ApiStep(r) ==
  \/ \E fid \in Fid, pack \in Pack : IntentIncr(r, fid, pack)
  \/ IntentSet(r)
  \/ IntentMirror(r)
  \/ IntentMirrorFails(r)
  \/ \E fid \in Fid, pack \in Pack, t \in Tx : BuyVerify(r, fid, pack, t)
  \/ BuyClaim(r)
  \/ BuyCredit(r)
  \/ BuyCreditFails(r)
  \/ BuyUnclaim(r)
  \/ BuyBurn(r)
  \/ RequestDies(r)
==============================================================================
