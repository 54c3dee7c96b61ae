----------------------------- MODULE PaymentsProof -----------------------------
(***************************************************************************)
(* Theorems about Payments, for every number of users, payments, requests, *)
(* nonces and blocks.                                                      *)
(***************************************************************************)
EXTENDS Payments, TLAPS

-----------------------------------------------------------------------------
(***************************************************************************)
(* The coding of an intent in a value.                                     *)
(***************************************************************************)

(* A value codes at most one pack and nonce.                               *)
LEMMA DecodeUnique ==
  ASSUME NEW p \in Pack, NEW q \in Pack, NEW m \in Nonce, NEW n \in Nonce,
         AmountWei(p, m) = AmountWei(q, n)
  PROVE  p = q /\ m = n
BY PackAssumption, NonceGap DEF AmountWei, Nonce

(* The reconciler decodes what the API encoded: for the value of an intent *)
(* MatchPack finds the intent's pack (packs.go against index.ts).          *)
LEMMA MatchPackOfAmount ==
  ASSUME NEW p \in Pack, NEW n \in Nonce
  PROVE  MatchPack(AmountWei(p, n)) = p
<1> DEFINE v == AmountWei(p, n)
<1>1. v \in Nat /\ priceWei[p] <= v
  BY PackAssumption DEF AmountWei, Nonce
<1>2. \A q \in Pack : priceWei[q] <= v /\ q # p => priceWei[q] < priceWei[p]
  BY PackAssumption, NonceGap DEF AmountWei, Nonce
<1> HIDE DEF v
<1>3. p \in Affordable(v)
  BY <1>1 DEF Affordable
<1>4. \A q \in Affordable(v) : q \in Pack /\ priceWei[q] <= v
  BY DEF Affordable
<1>5. \A q \in Affordable(v) : priceWei[q] <= priceWei[p]
<2> SUFFICES ASSUME NEW q \in Affordable(v)
             PROVE  priceWei[q] <= priceWei[p]
  OBVIOUS
<2>1. q \in Pack /\ priceWei[q] \in Nat /\ priceWei[p] \in Nat
  BY <1>4, PackAssumption
<2>2. q = p \/ priceWei[q] < priceWei[p]
  BY <1>2, <1>4
<2> QED BY <2>1, <2>2
<1>6. \A q \in Affordable(v) :
        (\A o \in Affordable(v) : priceWei[o] <= priceWei[q]) => q = p
  BY <1>2, <1>3, <1>4, PackAssumption
<1>7. MatchPack(v) = p
  BY <1>3, <1>5, <1>6 DEF MatchPack
<1> QED BY <1>7 DEF v

-----------------------------------------------------------------------------
(***************************************************************************)
(* The inductive invariant.                                                *)
(***************************************************************************)

(* What a request and a tick carry at each of their steps.                 *)
RequestCarries ==
  \A r \in Req :
    /\ req[r].pc # "idle" =>
         req[r].fid \in Fid /\ req[r].pack \in Pack /\ req[r].nonce \in Nonce
    /\ req[r].pc \in {"claim", "credit", "unclaim", "burn"} => req[r].tx \in Tx

TickCarries ==
  /\ worker.pc \in {"resolve", "credit"} =>
       worker.tx \in Tx /\ txs[worker.tx].status \in {"ok", "reverted"}
  /\ worker.pc = "credit" => worker.fid \in Fid /\ PaidPack(worker.tx) \in Pack
  /\ \A t \in worker.todo : txs[t].status \in {"ok", "reverted"}

TypeInv == TypeOK /\ RequestCarries /\ TickCarries

(* The stores and requests in which intent i of nonce n can still be found.*)
Issued(n, i) ==
  \/ [nonce |-> n, fid |-> i.fid, pack |-> i.pack] \in offers
  \/ redisIntent[n] = i
  \/ packIntents[n] = i
  \/ \E r \in Req : /\ req[r].pc \in {"set", "mirror"}
                    /\ req[r].nonce = n
                    /\ RequestIntent(r) = i

(* A nonce stands for one intent, wherever it is stored, and was counted.  *)
NonceInv ==
  \A n \in Nonce, i, j \in Intent :
    Issued(n, i) => n <= counter /\ (Issued(n, j) => i = j)

(* A payment with a payer was offered to the payer; the others are stray.  *)
PaymentInv ==
  \A t \in Tx :
    /\ txs[t].payer # None =>
         \E o \in offers : o.fid = txs[t].payer /\ txs[t].value = AmountWei(o.pack, o.nonce)
    /\ txs[t].payer = None /\ txs[t].status # "none" => txs[t].value \in StrayValue

(* Payment t is confirmed, was sent by fid and pays for pack.              *)
Owed(t, fid, pack) ==
  Confirmed(t) /\ txs[t].payer = fid /\ PaidPack(t) = pack

(* The payments settled: credited, and known to be.                        *)
Acked == credited \ unacked

RequestInv ==
  \A r \in Req :
    /\ req[r].pc \in {"claim", "credit", "unclaim"} =>
         Owed(req[r].tx, req[r].fid, req[r].pack)
    /\ req[r].pc \in {"credit", "unclaim"} =>
         /\ undoPayments[req[r].tx] # None
         /\ req[r].tx \notin Acked
         /\ \A s \in Req : req[s].pc \in {"credit", "unclaim"} /\ req[s].tx = req[r].tx => s = r

TickInv ==
  /\ worker.pc # "idle" =>
       /\ worker.block <= worker.to
       /\ worker.to + MinConf <= head
       /\ cursor = 0 \/ worker.block = cursor + 1
       /\ \A t \in worker.todo : txs[t].block <= worker.to
  /\ worker.pc \in {"resolve", "credit"} => worker.tx \in worker.todo
  /\ worker.pc = "credit" => Owed(worker.tx, worker.fid, PaidPack(worker.tx))

(* Claims are for what is owed, and a payment that was credited keeps its  *)
(* claim, unless the reply to its last credit was lost.                    *)
ReceiptInv ==
  /\ \A t \in Tx : undoPayments[t] # None =>
       Owed(t, undoPayments[t].fid, undoPayments[t].pack)
  /\ \A t \in Acked : undoPayments[t] # None

IInv ==
  /\ TypeInv /\ NonceInv /\ PaymentInv /\ RequestInv /\ TickInv /\ ReceiptInv
  /\ CreditOnlyConfirmed

-----------------------------------------------------------------------------
(***************************************************************************)
(* Type correctness, whatever faults happen.                               *)
(***************************************************************************)
USE DEF At, Begin, Continue, Return, RequestIntent, chainVars, redisVars, creditVars

LEMMA TypeInit == Init => TypeInv
BY StateAssumption, PackAssumption
   DEF Init, TypeInv, TypeOK, RequestCarries, TickCarries, NoRequest, NoTick,
       Unsent, Payment, ApiRequest, TickState

LEMMA TypeApi ==
  ASSUME TypeInv, NEW r \in Req, ApiStep(r)
  PROVE  TypeInv'
<1> USE DEF TypeInv, TypeOK, ApiRequest
<1> USE StateAssumption
<1>1. ASSUME NEW fid \in Fid, NEW pack \in Pack, IntentIncr(r, fid, pack)
      PROVE  TypeInv'
  <2>1. counter' \in Nonce
    BY <1>1, PackAssumption DEF IntentIncr, Nonce
  <2>2. req' \in [Req -> ApiRequest] /\ counter' \in 0 .. MaxNonce
    BY <1>1, <2>1 DEF IntentIncr, Nonce
  <2>3. RequestCarries'
    BY <1>1, <2>1 DEF IntentIncr, RequestCarries
  <2> QED BY <1>1, <2>2, <2>3 DEF IntentIncr, TickCarries, PaidPack
<1>2. CASE IntentSet(r)
  <2>1. req[r].fid \in Fid /\ req[r].pack \in Pack /\ req[r].nonce \in Nonce
    BY <1>2 DEF IntentSet, RequestCarries
  <2>2. redisIntent' \in [Nonce -> Intent \cup {None}]
    BY <1>2, <2>1 DEF IntentSet, Intent
  <2>3. RequestCarries'
    BY <1>2 DEF IntentSet, RequestCarries
  <2> QED BY <1>2, <2>2, <2>3 DEF IntentSet, TickCarries, PaidPack
<1>3. CASE IntentMirror(r) \/ IntentMirrorFails(r)
  <2>1. req[r].fid \in Fid /\ req[r].pack \in Pack /\ req[r].nonce \in Nonce
    BY <1>3 DEF IntentMirror, IntentMirrorFails, RequestCarries
  <2>2. packIntents' \in [Nonce -> Intent \cup {None}]
    BY <1>3, <2>1 DEF IntentMirror, IntentMirrorFails, InsertPackIntent, Intent
  <2>3. offers' \subseteq [nonce : Nonce, fid : Fid, pack : Pack]
    BY <1>3, <2>1 DEF IntentMirror, IntentMirrorFails, ReplyOffer
  <2>4. RequestCarries' /\ req' \in [Req -> ApiRequest]
    BY <1>3, PackAssumption
       DEF IntentMirror, IntentMirrorFails, ReplyOffer, RequestCarries, NoRequest
  <2> QED BY <1>3, <2>2, <2>3, <2>4
          DEF IntentMirror, IntentMirrorFails, ReplyOffer, TickCarries, PaidPack
<1>4. ASSUME NEW fid \in Fid, NEW pack \in Pack, NEW t \in Tx, BuyVerify(r, fid, pack, t)
      PROVE  TypeInv'
  <2>1. NonceIn(txs[t].value, pack) \in Nonce
    BY <1>4 DEF BuyVerify, IntentMatches, Lookup, Intent
  <2>2. req' \in [Req -> ApiRequest]
    BY <1>4, <2>1 DEF BuyVerify, Nonce
  <2>3. RequestCarries'
    BY <1>4, <2>1 DEF BuyVerify, RequestCarries
  <2> QED BY <1>4, <2>2, <2>3 DEF BuyVerify, TickCarries, PaidPack
<1>5. CASE BuyClaim(r)
  <2>1. /\ req[r].fid \in Fid /\ req[r].pack \in Pack /\ req[r].nonce \in Nonce
        /\ req[r].tx \in Tx
    BY <1>5 DEF BuyClaim, RequestCarries
  <2>2. undoPayments' \in [Tx -> Intent \cup {None}]
    BY <1>5, <2>1 DEF BuyClaim, Intent
  <2>3. RequestCarries' /\ req' \in [Req -> ApiRequest]
    BY <1>5, <2>1, PackAssumption DEF BuyClaim, RequestCarries, NoRequest
  <2> QED BY <1>5, <2>2, <2>3 DEF BuyClaim, TickCarries, PaidPack
<1>6. CASE BuyCredit(r)
  <2>1. req[r].fid \in Fid /\ req[r].pack \in Pack /\ req[r].tx \in Tx
    BY <1>6 DEF BuyCredit, RequestCarries
  <2>2. /\ undoCredits' \in [Fid -> Nat] /\ credited' \subseteq Tx
        /\ unacked' \subseteq credited'
    BY <1>6, <2>1, PackAssumption DEF BuyCredit, AddUndoCredits
  <2>3. RequestCarries' /\ req' \in [Req -> ApiRequest]
    BY <1>6 DEF BuyCredit, RequestCarries
  <2> QED BY <1>6, <2>2, <2>3 DEF BuyCredit, TickCarries, PaidPack
<1>7. CASE BuyCreditFails(r)
  <2>1. RequestCarries' /\ req' \in [Req -> ApiRequest]
    BY <1>7 DEF BuyCreditFails, RequestCarries
  <2>2. CASE CreditThrown(r)
    BY <1>7, <2>1, <2>2 DEF BuyCreditFails, CreditThrown, TickCarries, PaidPack
  <2>3. CASE CreditUnacked(r)
    <3>1. req[r].fid \in Fid /\ req[r].pack \in Pack /\ req[r].tx \in Tx
      BY <1>7 DEF BuyCreditFails, RequestCarries
    <3>2. /\ undoCredits' \in [Fid -> Nat] /\ credited' \subseteq Tx
          /\ unacked' \subseteq credited'
      BY <2>3, <3>1, PackAssumption DEF CreditUnacked, AddUndoCredits
    <3> QED BY <1>7, <2>1, <2>3, <3>2 DEF BuyCreditFails, CreditUnacked, TickCarries, PaidPack
  <2> QED BY <1>7, <2>2, <2>3 DEF BuyCreditFails
<1>8. CASE BuyUnclaim(r)
  <2>1. RequestCarries' /\ req' \in [Req -> ApiRequest]
    BY <1>8, PackAssumption DEF BuyUnclaim, RequestCarries, NoRequest
  <2> QED BY <1>8, <2>1 DEF BuyUnclaim, TickCarries, PaidPack
<1>9. CASE BuyBurn(r)
  <2>1. RequestCarries' /\ req' \in [Req -> ApiRequest]
    BY <1>9, PackAssumption DEF BuyBurn, RequestCarries, NoRequest
  <2> QED BY <1>9, <2>1 DEF BuyBurn, TickCarries, PaidPack
<1>10. CASE RequestDies(r)
  <2>1. RequestCarries' /\ req' \in [Req -> ApiRequest]
    BY <1>10, PackAssumption DEF RequestDies, RequestCarries, NoRequest
  <2> QED BY <1>10, <2>1 DEF RequestDies, TickCarries, PaidPack
<1> QED BY <1>1, <1>2, <1>3, <1>4, <1>5, <1>6, <1>7, <1>8, <1>9, <1>10 DEF ApiStep

LEMMA TypeProcess ==
  ASSUME TypeInv, NEW todo \in SUBSET Tx, Process(todo), txs' = txs,
         \A t \in todo : txs[t].status \in {"ok", "reverted"}
  PROVE  worker' \in TickState /\ TickCarries'
<1>1. worker' \in TickState
  <2>1. worker \in TickState
    BY DEF TypeInv, TypeOK
  <2> QED BY <2>1 DEF Process, TickState
<1>2. worker'.pc = "process" /\ worker'.todo = todo
  BY DEF Process, TypeInv, TypeOK, TickState
<1> QED BY <1>1, <1>2 DEF TickCarries

LEMMA NextBlockType ==
  ASSUME worker \in TickState
  PROVE  [worker EXCEPT !.block = worker.block + 1] \in TickState
<1>1. worker.block + 1 \in Nat
  BY DEF TickState
<1> QED BY <1>1 DEF TickState

LEMMA TypeReconciler ==
  ASSUME TypeInv, ReconcilerStep
  PROVE  TypeInv'
<1> USE DEF TypeInv, TypeOK, TickState
<1> USE StateAssumption
<1>1. CASE Tick
  <2>1. FirstBlock \in Nat /\ LastBlock \in Nat
    BY <1>1, ScanAssumption DEF Tick, FirstBlock, LastBlock, SafeHead
  <2>2. worker' \in TickState /\ TickCarries'
    BY <1>1, <2>1 DEF Tick, NoTick, TickCarries
  <2> QED BY <1>1, <2>2 DEF Tick, RequestCarries
<1>2. CASE FetchRange \/ FetchRangeNulls
  <2>1. worker' \in TickState /\ TickCarries'
    <3>1. PICK seen \in SUBSET (worker.block .. worker.to) : Process(TreasuryTxsOf(seen))
      BY <1>2 DEF FetchRange, FetchRangeNulls
    <3>2. txs' = txs
      BY <1>2 DEF FetchRange, FetchRangeNulls
    <3>3. \A t \in TreasuryTxsOf(seen) : t \in Tx /\ txs[t].status \in {"ok", "reverted"}
      BY DEF TreasuryTxsOf, TreasuryTxs
    <3> QED BY <3>1, <3>2, <3>3, TypeProcess
  <2> QED BY <1>2, <2>1 DEF FetchRange, FetchRangeNulls, RequestCarries
<1>3. ASSUME NEW t \in Tx, CheckPayment(t) PROVE TypeInv'
  <2>1. CASE undoPayments[t] # None
    <3>1. Process(worker.todo \ {t}) /\ txs' = txs
      BY <1>3, <2>1 DEF CheckPayment
    <3>2. \A u \in worker.todo \ {t} : u \in Tx /\ txs[u].status \in {"ok", "reverted"}
      BY DEF TickCarries
    <3>3. worker' \in TickState /\ TickCarries'
      BY <3>1, <3>2, TypeProcess
    <3> QED BY <1>3, <3>3 DEF CheckPayment, RequestCarries
  <2>2. CASE undoPayments[t] = None
    <3>1. worker' \in TickState
      BY <1>3, <2>2 DEF CheckPayment
    <3>2. TickCarries'
      BY <1>3, <2>2 DEF CheckPayment, TickCarries, PaidPack
    <3> QED BY <1>3, <3>1, <3>2 DEF CheckPayment, RequestCarries
  <2> QED BY <2>1, <2>2
<1>4. ASSUME NEW t \in Tx, ResolveIntent(t) PROVE TypeInv'
  <2>1. PaidIntent(t) # None => PaidIntent(t) \in Intent /\ PaidIntent(t).pack = PaidPack(t)
    BY DEF PaidIntent, GetIntent, Lookup, PaidPack
  <2>2. PaidIntent(t) # None => PaidIntent(t).fid \in Fid /\ PaidPack(t) \in Pack
    BY <2>1 DEF Intent
  <2>3. CASE PaidIntent(t) = None
    <3>1. Process(worker.todo \ {t}) /\ txs' = txs
      BY <1>4, <2>3 DEF ResolveIntent
    <3>2. \A u \in worker.todo \ {t} : u \in Tx /\ txs[u].status \in {"ok", "reverted"}
      BY DEF TickCarries
    <3>3. worker' \in TickState /\ TickCarries'
      BY <3>1, <3>2, TypeProcess
    <3> QED BY <1>4, <3>3 DEF ResolveIntent, RequestCarries
  <2>4. CASE PaidIntent(t) # None
    <3>1. worker' \in TickState
      BY <1>4, <2>2, <2>4 DEF ResolveIntent
    <3>2. TickCarries'
      BY <1>4, <2>2, <2>4 DEF ResolveIntent, TickCarries, PaidPack
    <3> QED BY <1>4, <3>1, <3>2 DEF ResolveIntent, RequestCarries
  <2> QED BY <2>3, <2>4
<1>5. ASSUME NEW t \in Tx, CreditPayment(t) PROVE TypeInv'
  <2>1. worker.fid \in Fid /\ MatchPack(txs[t].value) \in Pack
    BY <1>5 DEF CreditPayment, TickCarries, PaidPack
  <2>2. undoPayments' \in [Tx -> Intent \cup {None}]
    BY <1>5, <2>1 DEF CreditPayment, Intent
  <2>3. /\ undoCredits' \in [Fid -> Nat] /\ credited' \subseteq Tx
        /\ unacked' \subseteq credited'
    BY <1>5, <2>1, PackAssumption DEF CreditPayment, AddUndoCredits
  <2>4. worker' \in TickState /\ TickCarries'
    BY <1>5 DEF CreditPayment, Process, TickCarries
  <2> QED BY <1>5, <2>2, <2>3, <2>4 DEF CreditPayment, RequestCarries
<1>6. CASE AdvanceCursor
  <2>1. cursor' \in Nat
    BY <1>6 DEF AdvanceCursor, AdvanceTo
  <2>3. worker' \in TickState
    <3>1. NoTick \in TickState
      BY DEF NoTick
    <3>2. [worker EXCEPT !.block = worker.block + 1] \in TickState
      BY NextBlockType
    <3> QED BY <1>6, <3>1, <3>2 DEF AdvanceCursor
  <2>2. TickCarries'
    BY <1>6 DEF AdvanceCursor, NoTick, TickCarries, PaidPack
  <2> QED BY <1>6, <2>1, <2>2, <2>3 DEF AdvanceCursor, RequestCarries
<1>7. CASE AbortTick
  BY <1>7 DEF AbortTick, NoTick, RequestCarries, TickCarries
<1> QED BY <1>1, <1>2, <1>3, <1>4, <1>5, <1>6, <1>7 DEF ReconcilerStep

LEMMA TypeEnvironment ==
  ASSUME TypeInv,
         \/ \E fid \in Fid : ConsumeUndoCredit(fid)
         \/ \E t \in Tx : PayTreasury(t) \/ PayStray(t) \/ Mine(t)
         \/ NewBlock
         \/ \E n \in Nonce : ExpireIntent(n)
         \/ LoseRedis
  PROVE  TypeInv'
<1> USE DEF TypeInv, TypeOK
<1> USE StateAssumption
<1>1. ASSUME NEW fid \in Fid, ConsumeUndoCredit(fid) PROVE TypeInv'
  BY <1>1 DEF ConsumeUndoCredit, HasCredit, RequestCarries, TickCarries, PaidPack
<1>2. ASSUME NEW t \in Tx, PayTreasury(t) \/ PayStray(t) PROVE TypeInv'
  <2>1. PICK value \in Nat, payer \in Fid \cup {None} : Send(t, value, payer)
    BY <1>2, PackAssumption, StrayAssumption DEF PayTreasury, PayStray, AmountWei, Nonce
  <2>2. txs' \in [Tx -> Payment]
    BY <2>1 DEF Send, Payment
  <2>3. \A u \in Tx : txs[u].status \in {"ok", "reverted"} => txs'[u] = txs[u]
    BY <2>1 DEF Send
  <2>4. TickCarries'
    BY <2>1, <2>3 DEF Send, TickCarries, PaidPack, TickState
  <2> QED BY <2>1, <2>2, <2>4 DEF Send, RequestCarries
<1>3. ASSUME NEW t \in Tx, Mine(t) PROVE TypeInv'
  <2>1. txs' \in [Tx -> Payment]
    BY <1>3 DEF Mine, Payment
  <2>2. \A u \in Tx : txs[u].status \in {"ok", "reverted"} => txs'[u] = txs[u]
    BY <1>3 DEF Mine
  <2>3. TickCarries'
    BY <1>3, <2>2 DEF Mine, TickCarries, PaidPack, TickState
  <2> QED BY <1>3, <2>1, <2>3 DEF Mine, RequestCarries
<1>4. CASE NewBlock
  BY <1>4 DEF NewBlock, RequestCarries, TickCarries, PaidPack
<1>5. ASSUME NEW n \in Nonce, ExpireIntent(n) PROVE TypeInv'
  BY <1>5 DEF ExpireIntent, RequestCarries, TickCarries, PaidPack
<1>6. CASE LoseRedis
  BY <1>6, PackAssumption DEF LoseRedis, RequestCarries, TickCarries, PaidPack
<1> QED BY <1>1, <1>2, <1>3, <1>4, <1>5, <1>6

LEMMA TypeStep == TypeInv /\ [Next]_vars => TypeInv'
<1> SUFFICES ASSUME TypeInv, [Next]_vars PROVE TypeInv'
  OBVIOUS
<1>1. CASE Next
  BY <1>1, TypeApi, TypeReconciler, TypeEnvironment DEF Next
<1>2. CASE UNCHANGED vars
  BY <1>2 DEF vars, TypeInv, TypeOK, RequestCarries, TickCarries, PaidPack
<1> QED BY <1>1, <1>2

(* No step of the shop, of the chain or of a failing store puts a value of *)
(* the wrong kind in a table, a key, or a request in flight.               *)
THEOREM TypeCorrect == Spec => []TypeOK
<1>1. Spec => []TypeInv
  BY TypeInit, TypeStep, PTL DEF Spec
<1>2. TypeInv => TypeOK
  BY DEF TypeInv
<1> QED BY <1>1, <1>2, PTL

-----------------------------------------------------------------------------
(***************************************************************************)
(* While Redis keeps its counter, a nonce stands for one intent.           *)
(***************************************************************************)
NoRedisLoss == "flush" \notin Faults

(* Nothing new is issued, and the counter does not run backwards.          *)
LEMMA NonceKept ==
  ASSUME TypeInv, TypeInv', NonceInv, counter <= counter',
         \A n \in Nonce, i \in Intent : Issued(n, i)' => Issued(n, i)
  PROVE  NonceInv'
<1>1. counter \in Int /\ counter' \in Int
  BY PackAssumption DEF TypeInv, TypeOK
<1>2. \A n \in Nonce : n \in Int
  BY DEF Nonce
<1> SUFFICES ASSUME NEW n \in Nonce, NEW i \in Intent, NEW j \in Intent, Issued(n, i)'
             PROVE  n <= counter' /\ (Issued(n, j)' => i = j)
  BY DEF NonceInv
<1>3. n <= counter /\ (Issued(n, j) => i = j)
  BY DEF NonceInv
<1>4. n <= counter'
  BY <1>1, <1>2, <1>3
<1> QED BY <1>3, <1>4

(* A step that writes no intent and puts no request on the way to one.     *)
LEMMA IssuedFrame ==
  ASSUME TypeInv, offers' = offers, packIntents' = packIntents,
         \A n \in Nonce : redisIntent'[n] \in {redisIntent[n], None},
         \A s \in Req : req'[s].pc \in {"set", "mirror"} => req'[s] = req[s]
  PROVE  \A n \in Nonce, i \in Intent : Issued(n, i)' => Issued(n, i)
<1>1. \A i \in Intent : i # None
  BY StateAssumption
<1> QED BY <1>1 DEF Issued

LEMMA NonceApi ==
  ASSUME TypeInv, TypeInv', NonceInv, NEW r \in Req, ApiStep(r)
  PROVE  NonceInv'
<1>0. req \in [Req -> ApiRequest] /\ counter \in Nat
  BY PackAssumption DEF TypeInv, TypeOK
<1>1. ASSUME NEW fid \in Fid, NEW pack \in Pack, IntentIncr(r, fid, pack)
      PROVE  NonceInv'
  <2> DEFINE fresh == [fid |-> fid, pack |-> pack]
  <2>1. counter' = counter + 1
    BY <1>1 DEF IntentIncr
  <2>2. ASSUME NEW n \in Nonce, NEW i \in Intent, Issued(n, i)'
        PROVE  Issued(n, i) \/ (n = counter + 1 /\ i = fresh)
    BY <1>0, <1>1, <2>2 DEF IntentIncr, Issued
  <2>3. \A n \in Nonce, i \in Intent : Issued(n, i) => n # counter + 1
    BY <1>0 DEF NonceInv, Nonce
  <2>4. \A n \in Nonce, i \in Intent : Issued(n, i) => n <= counter'
    BY <1>0, <2>1 DEF NonceInv, Nonce
  <2> HIDE DEF fresh
  <2> SUFFICES ASSUME NEW n \in Nonce, NEW i \in Intent, NEW j \in Intent, Issued(n, i)'
               PROVE  n <= counter' /\ (Issued(n, j)' => i = j)
    BY DEF NonceInv
  <2>5. n <= counter'
    BY <1>0, <2>1, <2>2, <2>4
  <2>6. Issued(n, j)' => i = j
    BY <2>2, <2>3 DEF NonceInv
  <2> QED BY <2>5, <2>6
<1>2. CASE IntentSet(r)
  <2>1. \A n \in Nonce, i \in Intent : Issued(n, i)' => Issued(n, i)
    BY <1>0, <1>2 DEF IntentSet, Issued, TypeInv, TypeOK
  <2> QED BY <1>0, <1>2, <2>1, NonceKept DEF IntentSet
<1>3. CASE IntentMirror(r) \/ IntentMirrorFails(r)
  <2>1. /\ At(r, "mirror") /\ req' = [req EXCEPT ![r] = NoRequest]
        /\ offers' = offers \cup
             {[nonce |-> req[r].nonce, fid |-> req[r].fid, pack |-> req[r].pack]}
        /\ UNCHANGED <<redisIntent, counter>>
    BY <1>3 DEF IntentMirror, IntentMirrorFails, ReplyOffer
  <2>2. \A n \in Nonce : \/ packIntents'[n] = packIntents[n]
                         \/ n = req[r].nonce /\ packIntents'[n] = RequestIntent(r)
    BY <1>3 DEF IntentMirror, IntentMirrorFails, InsertPackIntent, TypeInv, TypeOK
  <2>3. ASSUME NEW n \in Nonce, NEW i \in Intent, Issued(n, i)'
        PROVE  Issued(n, i)
    <3>1. CASE [nonce |-> n, fid |-> i.fid, pack |-> i.pack] \in offers'
      <4>1. CASE [nonce |-> n, fid |-> i.fid, pack |-> i.pack] \in offers
        BY <4>1 DEF Issued
      <4>2. CASE n = req[r].nonce /\ i.fid = req[r].fid /\ i.pack = req[r].pack
        <5>1. RequestIntent(r) = i
          BY <4>2 DEF Intent
        <5> QED BY <2>1, <4>2, <5>1 DEF Issued
      <4> QED BY <2>1, <3>1, <4>1, <4>2
    <3>2. CASE redisIntent'[n] = i
      BY <2>1, <3>2 DEF Issued
    <3>3. CASE packIntents'[n] = i
      BY <2>1, <2>2, <3>3 DEF Issued
    <3>4. ASSUME NEW s \in Req, req'[s].pc \in {"set", "mirror"}, req'[s].nonce = n,
                 [fid |-> req'[s].fid, pack |-> req'[s].pack] = i
          PROVE  Issued(n, i)
      BY <1>0, <2>1, <3>4 DEF Issued, NoRequest
    <3> QED BY <2>3, <3>1, <3>2, <3>3, <3>4 DEF Issued
  <2> QED BY <1>0, <2>1, <2>3, NonceKept
<1>4. ASSUME NEW fid \in Fid, NEW pack \in Pack, NEW t \in Tx, BuyVerify(r, fid, pack, t)
      PROVE  NonceInv'
  <2>1. \A s \in Req : req'[s].pc \in {"set", "mirror"} => req'[s] = req[s]
    BY <1>0, <1>4 DEF BuyVerify
  <2> QED BY <1>0, <1>4, <2>1, IssuedFrame, NonceKept DEF BuyVerify
<1>5. CASE BuyClaim(r) \/ BuyCredit(r) \/ BuyCreditFails(r) \/ BuyUnclaim(r) \/ RequestDies(r)
  <2>1. /\ UNCHANGED <<offers, packIntents, redisIntent, counter>>
        /\ \/ Continue(r, "credit") \/ Continue(r, "burn") \/ Continue(r, "unclaim")
           \/ Return(r)
    BY <1>5 DEF BuyClaim, BuyCredit, BuyCreditFails, BuyUnclaim, RequestDies
  <2>2. \A s \in Req : req'[s].pc \in {"set", "mirror"} => req'[s] = req[s]
    BY <1>0, <2>1 DEF NoRequest, ApiRequest
  <2> QED BY <1>0, <2>1, <2>2, IssuedFrame, NonceKept
<1>6. CASE BuyBurn(r)
  <2>1. \A s \in Req : req'[s].pc \in {"set", "mirror"} => req'[s] = req[s]
    BY <1>0, <1>6 DEF BuyBurn, NoRequest
  <2>2. \A n \in Nonce : redisIntent'[n] \in {redisIntent[n], None}
    BY <1>6 DEF BuyBurn, TypeInv, TypeOK
  <2> QED BY <1>0, <1>6, <2>1, <2>2, IssuedFrame, NonceKept DEF BuyBurn
<1> QED BY <1>1, <1>2, <1>3, <1>4, <1>5, <1>6 DEF ApiStep

LEMMA NonceStep ==
  ASSUME NoRedisLoss, TypeInv, TypeInv', NonceInv, [Next]_vars
  PROVE  NonceInv'
<1>0. counter \in Nat
  BY PackAssumption DEF TypeInv, TypeOK
<1>1. ASSUME UNCHANGED <<counter, redisIntent, packIntents, offers, req>>
      PROVE  NonceInv'
  BY <1>0, <1>1, IssuedFrame, NonceKept
<1>2. ASSUME NEW n \in Nonce, ExpireIntent(n) PROVE NonceInv'
  <2>1. \A m \in Nonce : redisIntent'[m] \in {redisIntent[m], None}
    BY <1>2 DEF ExpireIntent, TypeInv, TypeOK
  <2> QED BY <1>0, <1>2, <2>1, IssuedFrame, NonceKept DEF ExpireIntent
<1>3. CASE ReconcilerStep
  BY <1>1, <1>3 DEF ReconcilerStep, Tick, FetchRange, FetchRangeNulls, CheckPayment,
     ResolveIntent, CreditPayment, AdvanceCursor, AbortTick
<1>4. ASSUME NEW fid \in Fid, ConsumeUndoCredit(fid) PROVE NonceInv'
  BY <1>1, <1>4 DEF ConsumeUndoCredit
<1>5. ASSUME NEW t \in Tx, PayTreasury(t) \/ PayStray(t) \/ Mine(t) PROVE NonceInv'
  BY <1>1, <1>5 DEF PayTreasury, PayStray, Send, Mine
<1>6. CASE NewBlock
  BY <1>1, <1>6 DEF NewBlock
<1>7. CASE LoseRedis
  BY <1>7 DEF LoseRedis, NoRedisLoss
<1>8. CASE UNCHANGED vars
  BY <1>1, <1>8 DEF vars
<1> QED BY <1>2, <1>3, <1>4, <1>5, <1>6, <1>7, <1>8, NonceApi DEF Next

-----------------------------------------------------------------------------
(***************************************************************************)
(* Who a payment is owed to.                                               *)
(***************************************************************************)
LEMMA PaymentStep ==
  ASSUME TypeInv, TypeInv', PaymentInv, [Next]_vars
  PROVE  PaymentInv'
<1>1. ASSUME txs' = txs, offers \subseteq offers' PROVE PaymentInv'
  BY <1>1 DEF PaymentInv
<1>2. ASSUME NEW t \in Tx, PayTreasury(t) PROVE PaymentInv'
  <2>1. PICK o \in offers : Send(t, AmountWei(o.pack, o.nonce), o.fid)
    BY <1>2 DEF PayTreasury
  <2>2. /\ txs'[t].payer = o.fid /\ txs'[t].value = AmountWei(o.pack, o.nonce)
        /\ \A u \in Tx : u # t => txs'[u] = txs[u]
        /\ offers' = offers
    BY <2>1 DEF Send, TypeInv, TypeOK
  <2>3. o.fid # None
    BY StateAssumption DEF TypeInv, TypeOK
  <2> QED BY <2>2, <2>3 DEF PaymentInv
<1>3. ASSUME NEW t \in Tx, PayStray(t) PROVE PaymentInv'
  <2>1. PICK v \in StrayValue : Send(t, v, None)
    BY <1>3 DEF PayStray
  <2>2. /\ txs'[t].payer = None /\ txs'[t].value = v
        /\ \A u \in Tx : u # t => txs'[u] = txs[u]
        /\ offers' = offers
    BY <2>1 DEF Send, TypeInv, TypeOK
  <2> QED BY <2>2 DEF PaymentInv
<1>4. ASSUME NEW t \in Tx, Mine(t) PROVE PaymentInv'
  <2>1. /\ \A u \in Tx : txs'[u].payer = txs[u].payer /\ txs'[u].value = txs[u].value
        /\ \A u \in Tx : txs'[u].status # "none" => txs[u].status # "none"
        /\ offers' = offers
    BY <1>4 DEF Mine, TypeInv, TypeOK, Payment
  <2> QED BY <2>1 DEF PaymentInv
<1>5. ASSUME NEW r \in Req, ApiStep(r) PROVE PaymentInv'
  BY <1>1, <1>5 DEF ApiStep, IntentIncr, IntentSet, IntentMirror, IntentMirrorFails,
     ReplyOffer, BuyVerify, BuyClaim, BuyCredit, BuyCreditFails, BuyUnclaim, BuyBurn,
     RequestDies
<1>6. CASE ReconcilerStep
  BY <1>1, <1>6 DEF ReconcilerStep, Tick, FetchRange, FetchRangeNulls, CheckPayment,
     ResolveIntent, CreditPayment, AdvanceCursor, AbortTick
<1>7. CASE \/ \E fid \in Fid : ConsumeUndoCredit(fid)
           \/ NewBlock
           \/ \E n \in Nonce : ExpireIntent(n)
           \/ LoseRedis
           \/ UNCHANGED vars
  BY <1>1, <1>7 DEF ConsumeUndoCredit, NewBlock, ExpireIntent, LoseRedis, vars
<1> QED BY <1>2, <1>3, <1>4, <1>5, <1>6, <1>7 DEF Next

(* A payment whose value codes an issued intent was sent by its owner.     *)
LEMMA DecodePayer ==
  ASSUME TypeInv, NonceInv, PaymentInv,
         NEW t \in Tx, txs[t].status # "none",
         NEW i \in Intent, NEW n \in Nonce, n = NonceIn(txs[t].value, i.pack), Issued(n, i)
  PROVE  txs[t].payer = i.fid /\ PaidPack(t) = i.pack
<1>1. /\ txs[t].value \in Nat /\ i.pack \in Pack /\ priceWei[i.pack] \in Nat
      /\ i.fid \in Fid
  BY PackAssumption DEF TypeInv, TypeOK, Payment, Intent
<1>2. txs[t].value = AmountWei(i.pack, n)
  BY <1>1 DEF NonceIn, AmountWei, Nonce
<1>3. PaidPack(t) = i.pack
  BY <1>1, <1>2, MatchPackOfAmount DEF PaidPack
<1>4. txs[t].payer # None
  <2>1. txs[t].value \notin StrayValue
    BY <1>1, StrayAssumption
  <2> QED BY <2>1 DEF PaymentInv
<1>5. PICK o \in offers : o.fid = txs[t].payer /\ txs[t].value = AmountWei(o.pack, o.nonce)
  BY <1>4 DEF PaymentInv
<1>6. o \in [nonce : Nonce, fid : Fid, pack : Pack]
  BY DEF TypeInv, TypeOK
<1>7. o.pack = i.pack /\ o.nonce = n
  BY <1>1, <1>2, <1>5, <1>6, DecodeUnique
<1> DEFINE j == [fid |-> o.fid, pack |-> o.pack]
<1>8. j \in Intent /\ j.fid = o.fid /\ j.pack = o.pack
  BY <1>6 DEF Intent
<1>9. o = [nonce |-> n, fid |-> j.fid, pack |-> j.pack]
  BY <1>6, <1>7, <1>8
<1>10. Issued(n, j)
  BY <1>9 DEF Issued
<1>11. i = j
  BY <1>8, <1>10 DEF NonceInv
<1> QED BY <1>3, <1>5, <1>8, <1>11

(* The chain grows, and a mined payment stays as it was mined.              *)
LEMMA ChainStep ==
  ASSUME TypeInv, [Next]_vars
  PROVE  /\ head' \in {head, head + 1}
         /\ \A t \in Tx : txs[t].status \in {"ok", "reverted"} => txs'[t] = txs[t]
<1>1. ASSUME NEW u \in Tx, PayTreasury(u) \/ PayStray(u) \/ Mine(u)
      PROVE  /\ head' = head
             /\ \A t \in Tx : txs[t].status \in {"ok", "reverted"} => txs'[t] = txs[t]
  BY <1>1 DEF PayTreasury, PayStray, Send, Mine, TypeInv, TypeOK
<1>2. ASSUME NEW r \in Req, ApiStep(r) PROVE head' = head /\ txs' = txs
  BY <1>2 DEF ApiStep, IntentIncr, IntentSet, IntentMirror, IntentMirrorFails, BuyVerify,
     BuyClaim, BuyCredit, BuyCreditFails, BuyUnclaim, BuyBurn, RequestDies
<1>3. CASE ReconcilerStep
  BY <1>3 DEF ReconcilerStep, Tick, FetchRange, FetchRangeNulls, CheckPayment,
     ResolveIntent, CreditPayment, AdvanceCursor, AbortTick
<1>4. CASE \/ \E fid \in Fid : ConsumeUndoCredit(fid)
           \/ NewBlock
           \/ \E n \in Nonce : ExpireIntent(n)
           \/ LoseRedis
           \/ UNCHANGED vars
  BY <1>4 DEF ConsumeUndoCredit, NewBlock, ExpireIntent, LoseRedis, vars
<1> QED BY <1>1, <1>2, <1>3, <1>4 DEF Next

(* The chain never takes a confirmation back.                              *)
LEMMA ConfirmedKept ==
  ASSUME TypeInv, [Next]_vars, NEW t \in Tx, Confirmed(t)
  PROVE  Confirmed(t)' /\ txs'[t] = txs[t]
<1>1. head \in Nat /\ txs[t].block \in Nat
  BY StateAssumption DEF TypeInv, TypeOK, Payment
<1>2. txs'[t] = txs[t] /\ head' \in {head, head + 1}
  BY ChainStep DEF Confirmed
<1> QED BY <1>1, <1>2, StateAssumption DEF Confirmed

LEMMA OwedKept ==
  ASSUME TypeInv, [Next]_vars, NEW t \in Tx, NEW fid, NEW pack, Owed(t, fid, pack)
  PROVE  Owed(t, fid, pack)'
BY ConfirmedKept DEF Owed, PaidPack

-----------------------------------------------------------------------------
(***************************************************************************)
(* Claims, credits and the scan.                                           *)
(***************************************************************************)
SafetyInv == RequestInv /\ TickInv /\ ReceiptInv

(* A /buy that passed its checks is for what its caller paid.              *)
LEMMA VerifiedOwed ==
  ASSUME TypeInv, NonceInv, PaymentInv,
         NEW r \in Req, NEW fid \in Fid, NEW pack \in Pack, NEW t \in Tx,
         BuyVerify(r, fid, pack, t)
  PROVE  Owed(t, fid, pack)
<1> DEFINE i == [fid |-> fid, pack |-> pack]
           n == NonceIn(txs[t].value, pack)
<1>1. i \in Intent /\ i.fid = fid /\ i.pack = pack /\ i # None
  BY StateAssumption DEF Intent
<1>2. n \in Nonce /\ redisIntent[n] = i
  BY <1>1 DEF BuyVerify, IntentMatches, Lookup
<1>3. Confirmed(t)
  BY DEF BuyVerify, Verified
<1>4. txs[t].status # "none" /\ Issued(n, i) /\ n = NonceIn(txs[t].value, i.pack)
  BY <1>1, <1>2, <1>3 DEF Confirmed, Issued
<1>5. txs[t].payer = i.fid /\ PaidPack(t) = i.pack
  BY <1>1, <1>2, <1>4, DecodePayer
<1> QED BY <1>1, <1>3, <1>5 DEF Owed

(* What the reconciler resolves is what the payment is for.                *)
LEMMA ResolvedOwed ==
  ASSUME TypeInv, NonceInv, PaymentInv, TickInv, NEW t \in Tx, ResolveIntent(t),
         PaidIntent(t) # None
  PROVE  Owed(t, PaidIntent(t).fid, PaidPack(t))
<1> DEFINE i == PaidIntent(t)
           n == NonceIn(txs[t].value, PaidPack(t))
<1>1. /\ txs[t].status = "ok" /\ i = Lookup(packIntents, n) /\ i.pack = PaidPack(t)
  BY DEF PaidIntent, GetIntent, PaidPack
<1>2. n \in Nonce /\ packIntents[n] = i /\ i \in Intent
  BY <1>1 DEF Lookup, TypeInv, TypeOK
<1>3. txs[t].payer = i.fid
  BY <1>1, <1>2, DecodePayer DEF Issued
<1>4. Confirmed(t)
  <2>1. txs[t].block <= worker.to /\ worker.to + MinConf <= head
    BY DEF ResolveIntent, TickInv
  <2>2. head \in Nat /\ txs[t].block \in Nat /\ worker.to \in Nat
    BY StateAssumption DEF TypeInv, TypeOK, TickState, Payment
  <2> QED BY <1>1, <2>1, <2>2, StateAssumption DEF Confirmed
<1> QED BY <1>3, <1>4 DEF Owed

(* What a step that touches no claim, credit or request leaves true.       *)
LEMMA ReceiptFrame ==
  ASSUME TypeInv, TypeInv', [Next]_vars, RequestInv, ReceiptInv,
         UNCHANGED <<req, undoPayments, credited, unacked>>
  PROVE  RequestInv' /\ ReceiptInv'
<1>1. \A r \in Req : req[r].pc \in {"claim", "credit", "unclaim"} => req[r].tx \in Tx
  BY DEF TypeInv, RequestCarries
<1>2. RequestInv'
  BY <1>1, OwedKept DEF RequestInv, Acked
<1>3. ReceiptInv'
  BY OwedKept DEF ReceiptInv, Acked
<1> QED BY <1>2, <1>3

(* What a step that leaves the tick and the cursor alone leaves true.      *)
LEMMA TickFrame ==
  ASSUME TypeInv, TypeInv', [Next]_vars, TickInv, UNCHANGED <<worker, cursor>>
  PROVE  TickInv'
<1>1. head \in Nat /\ head' \in Nat /\ worker.to \in Nat /\ worker \in TickState
  BY StateAssumption DEF TypeInv, TypeOK, TickState
<1>2. head <= head' /\ \A t \in worker.todo : txs'[t].block = txs[t].block
  <2>1. \A t \in worker.todo : t \in Tx /\ txs[t].status \in {"ok", "reverted"}
    BY <1>1 DEF TypeInv, TickCarries, TickState
  <2> QED BY <1>1, <2>1, ChainStep
<1>3. worker.to + MinConf <= head => worker.to + MinConf <= head'
  BY <1>1, <1>2, StateAssumption
<1>4. worker.pc = "credit" => Owed(worker.tx, worker.fid, PaidPack(worker.tx))'
  <2> SUFFICES ASSUME worker.pc = "credit"
               PROVE  Owed(worker.tx, worker.fid, PaidPack(worker.tx))'
    OBVIOUS
  <2>1. worker.tx \in Tx /\ Owed(worker.tx, worker.fid, PaidPack(worker.tx))
    BY DEF TypeInv, TickCarries, TickInv
  <2>2. Confirmed(worker.tx)' /\ txs'[worker.tx] = txs[worker.tx]
    BY <2>1, ConfirmedKept DEF Owed, Confirmed
  <2> QED BY <2>1, <2>2 DEF Owed, PaidPack
<1> QED BY <1>2, <1>3, <1>4 DEF TickInv

(* A step of a request that claims nothing and credits nothing.            *)
LEMMA RequestMoves ==
  ASSUME TypeInv, TypeInv', [Next]_vars, RequestInv, ReceiptInv,
         UNCHANGED <<undoPayments, credited, unacked>>, NEW r \in Req,
         \A s \in Req : s # r => req'[s] = req[s],
         \/ req'[r].pc \notin {"claim", "credit", "unclaim"}
         \/ /\ req[r].pc = "credit" /\ req'[r].pc = "unclaim"
            /\ req'[r].tx = req[r].tx /\ req'[r].fid = req[r].fid
            /\ req'[r].pack = req[r].pack
  PROVE  RequestInv' /\ ReceiptInv'
<1>1. \A s \in Req : req[s].pc \in {"claim", "credit", "unclaim"} => req[s].tx \in Tx
  BY DEF TypeInv, RequestCarries
<1>2. RequestInv'
  BY <1>1, OwedKept DEF RequestInv, Acked
<1>3. ReceiptInv'
  BY OwedKept DEF ReceiptInv, Acked
<1> QED BY <1>2, <1>3

LEMMA SafetyApi ==
  ASSUME TypeInv, TypeInv', NonceInv, PaymentInv, SafetyInv, NEW r \in Req, ApiStep(r)
  PROVE  SafetyInv'
<1>0. [Next]_vars /\ req \in [Req -> ApiRequest]
  BY DEF Next, TypeInv, TypeOK
<1>1. TickInv'
  <2>1. UNCHANGED <<worker, cursor>>
    BY DEF ApiStep, IntentIncr, IntentSet, IntentMirror, IntentMirrorFails, BuyVerify,
       BuyClaim, BuyCredit, BuyCreditFails, BuyUnclaim, BuyBurn, RequestDies
  <2> QED BY <1>0, <2>1, TickFrame DEF SafetyInv
<1>2. RequestInv /\ ReceiptInv
  BY DEF SafetyInv
<1> SUFFICES RequestInv' /\ ReceiptInv'
  BY <1>1 DEF SafetyInv
<1>3. ASSUME NEW fid \in Fid, NEW pack \in Pack, IntentIncr(r, fid, pack)
      PROVE  RequestInv' /\ ReceiptInv'
  <2>1. req'[r].pc = "set" /\ \A s \in Req : s # r => req'[s] = req[s]
    BY <1>0, <1>3 DEF IntentIncr
  <2> QED BY <1>0, <1>2, <1>3, <2>1, RequestMoves DEF IntentIncr
<1>4. CASE \/ IntentSet(r) \/ IntentMirror(r) \/ IntentMirrorFails(r)
           \/ BuyBurn(r) \/ RequestDies(r)
  <2>1. /\ req'[r].pc \in {"idle", "mirror"}
        /\ \A s \in Req : s # r => req'[s] = req[s]
        /\ UNCHANGED <<undoPayments, credited, unacked>>
    BY <1>0, <1>4 DEF IntentSet, IntentMirror, IntentMirrorFails, ReplyOffer, BuyBurn,
       RequestDies, NoRequest, ApiRequest
  <2> QED BY <1>0, <1>2, <2>1, RequestMoves
<1>5. CASE BuyCreditFails(r)
  <2>1. /\ req[r].pc = "credit" /\ req'[r].pc = "unclaim"
        /\ req'[r].tx = req[r].tx /\ req'[r].fid = req[r].fid /\ req'[r].pack = req[r].pack
        /\ \A s \in Req : s # r => req'[s] = req[s]
    BY <1>0, <1>5 DEF BuyCreditFails, ApiRequest
  <2>2. CASE CreditThrown(r)
    BY <1>0, <1>2, <2>1, <2>2, RequestMoves DEF CreditThrown
  <2>3. CASE CreditUnacked(r)
    <3>1. /\ undoPayments' = undoPayments
          /\ credited' = credited \cup {req[r].tx} /\ unacked' = unacked \cup {req[r].tx}
      BY <2>3 DEF CreditUnacked, AddUndoCredits
    <3>2. \A s \in Req : req[s].pc \in {"claim", "credit", "unclaim"} => req[s].tx \in Tx
      BY DEF TypeInv, RequestCarries
    <3>3. \A s \in Req : s # r /\ req[s].pc \in {"credit", "unclaim"} => req[s].tx # req[r].tx
      BY <1>2, <2>1 DEF RequestInv
    <3>4. Acked' \subseteq Acked
      BY <3>1 DEF Acked
    <3>5. RequestInv'
      BY <1>0, <1>2, <2>1, <3>1, <3>2, <3>3, <3>4, OwedKept DEF RequestInv
    <3>6. ReceiptInv'
      BY <1>0, <1>2, <3>1, <3>4, OwedKept DEF ReceiptInv
    <3> QED BY <3>5, <3>6
  <2> QED BY <1>5, <2>2, <2>3 DEF BuyCreditFails
<1>6. ASSUME NEW fid \in Fid, NEW pack \in Pack, NEW t \in Tx, BuyVerify(r, fid, pack, t)
      PROVE  RequestInv' /\ ReceiptInv'
  <2>1. /\ req'[r].pc = "claim" /\ req'[r].tx = t /\ req'[r].fid = fid /\ req'[r].pack = pack
        /\ \A s \in Req : s # r => req'[s] = req[s]
        /\ UNCHANGED <<undoPayments, credited, unacked>>
    BY <1>0, <1>6 DEF BuyVerify
  <2>2. Owed(t, fid, pack)'
    BY <1>0, <1>6, VerifiedOwed, OwedKept
  <2>3. \A s \in Req : req[s].pc \in {"claim", "credit", "unclaim"} => req[s].tx \in Tx
    BY DEF TypeInv, RequestCarries
  <2>4. RequestInv'
    BY <1>0, <1>2, <2>1, <2>2, <2>3, OwedKept DEF RequestInv, Acked
  <2>5. ReceiptInv'
    BY <1>0, <1>2, <2>1, OwedKept DEF ReceiptInv, Acked
  <2> QED BY <2>4, <2>5
<1>7. CASE BuyClaim(r)
  <2> DEFINE t == req[r].tx
  <2>1. req[r].pc = "claim" /\ t \in Tx /\ Owed(t, req[r].fid, req[r].pack)
    BY <1>2, <1>7 DEF BuyClaim, RequestInv, TypeInv, RequestCarries
  <2>2. CASE Claimable(t)
    <3>1. /\ undoPayments[t] = None /\ undoPayments'[t] = RequestIntent(r)
          /\ \A u \in Tx : u # t => undoPayments'[u] = undoPayments[u]
          /\ req'[r] = [req[r] EXCEPT !.pc = "credit"]
          /\ \A s \in Req : s # r => req'[s] = req[s]
          /\ Acked' = Acked
      BY <1>0, <1>7, <2>1, <2>2 DEF BuyClaim, Claimable, TypeInv, TypeOK, Acked
    <3>2. /\ req'[r].pc = "credit" /\ req'[r].tx = t
          /\ req'[r].fid = req[r].fid /\ req'[r].pack = req[r].pack
      BY <1>0, <3>1 DEF ApiRequest
    <3>3. \A s \in Req : req[s].pc \in {"claim", "credit", "unclaim"} => req[s].tx \in Tx
      BY DEF TypeInv, RequestCarries
    <3>4. undoPayments'[t] # None
      BY <2>1, <3>1, StateAssumption DEF TypeInv, RequestCarries, Intent
    <3>5. Owed(t, req[r].fid, req[r].pack)'
      BY <1>0, <2>1, <3>2, OwedKept DEF Owed, Confirmed, PaidPack
    <3>6. \A s \in Req : s # r /\ req[s].pc \in {"credit", "unclaim"} => req[s].tx # t
      BY <1>2, <3>1 DEF RequestInv
    <3>7. t \notin Acked
      BY <1>2, <3>1 DEF ReceiptInv
    <3>8. RequestInv'
      <4> SUFFICES ASSUME NEW s \in Req
                   PROVE  /\ req'[s].pc \in {"claim", "credit", "unclaim"} =>
                               Owed(req[s].tx, req[s].fid, req[s].pack)'
                          /\ req'[s].pc \in {"credit", "unclaim"} =>
                               /\ undoPayments'[req'[s].tx] # None
                               /\ req'[s].tx \notin Acked'
                               /\ \A q \in Req :
                                    req'[q].pc \in {"credit", "unclaim"}
                                    /\ req'[q].tx = req'[s].tx => q = s
        BY DEF RequestInv
      <4>1. CASE s = r
        <5>1. Owed(req[s].tx, req[s].fid, req[s].pack)'
          BY <3>2, <3>5, <4>1 DEF Owed, Confirmed, PaidPack
        <5>2. undoPayments'[req'[s].tx] # None /\ req'[s].tx \notin Acked'
          BY <3>1, <3>2, <3>4, <3>7, <4>1
        <5>3. ASSUME NEW q \in Req, req'[q].pc \in {"credit", "unclaim"},
                     req'[q].tx = req'[s].tx
              PROVE  q = s
          BY <3>1, <3>2, <3>6, <4>1, <5>3
        <5> QED BY <5>1, <5>2, <5>3
      <4>2. CASE s # r
        <5>1. req'[s] = req[s]
          BY <3>1, <4>2
        <5>2. req'[s].pc \in {"claim", "credit", "unclaim"} =>
                Owed(req[s].tx, req[s].fid, req[s].pack)'
          BY <1>0, <1>2, <3>3, <5>1, OwedKept DEF RequestInv
        <5>3. req'[s].pc \in {"credit", "unclaim"} =>
                /\ undoPayments'[req'[s].tx] # None
                /\ req'[s].tx \notin Acked'
          BY <1>2, <3>1, <3>3, <3>4, <5>1 DEF RequestInv
        <5>4. ASSUME NEW q \in Req, req'[s].pc \in {"credit", "unclaim"},
                     req'[q].pc \in {"credit", "unclaim"}, req'[q].tx = req'[s].tx
              PROVE  q = s
          <6>1. q # r
            BY <3>2, <3>6, <4>2, <5>1, <5>4
          <6>2. req'[q] = req[q]
            BY <3>1, <6>1
          <6> QED BY <1>2, <5>1, <5>4, <6>2 DEF RequestInv
        <5> QED BY <5>2, <5>3, <5>4
      <4> QED BY <4>1, <4>2
    <3>9. ReceiptInv'
      <4>1. undoPayments'[t].fid = req'[r].fid /\ undoPayments'[t].pack = req'[r].pack
        BY <3>1, <3>2
      <4>2. Owed(t, undoPayments[t].fid, undoPayments[t].pack)'
        BY <3>2, <3>5, <4>1 DEF Owed, Confirmed, PaidPack
      <4>3. ASSUME NEW u \in Tx, u # t, undoPayments'[u] # None
            PROVE  Owed(u, undoPayments[u].fid, undoPayments[u].pack)'
        <5>1. undoPayments'[u] = undoPayments[u]
          BY <3>1, <4>3
        <5> QED BY <1>0, <1>2, <4>3, <5>1, OwedKept DEF ReceiptInv
      <4>4. \A u \in Acked' : u # t /\ u \in Tx /\ undoPayments'[u] # None
        BY <1>2, <3>1, <3>7 DEF ReceiptInv, TypeInv, TypeOK, Acked
      <4>5. \A u \in Tx : undoPayments'[u] # None =>
              Owed(u, undoPayments[u].fid, undoPayments[u].pack)'
        BY <3>2, <4>2, <4>3 DEF Owed, Confirmed, PaidPack
      <4> QED BY <4>4, <4>5 DEF ReceiptInv
    <3> QED BY <3>8, <3>9
  <2>3. CASE ~Claimable(t)
    <3>1. /\ req'[r].pc = "idle"
          /\ \A s \in Req : s # r => req'[s] = req[s]
          /\ UNCHANGED <<undoPayments, credited, unacked>>
      BY <1>0, <1>7, <2>3 DEF BuyClaim, NoRequest
    <3> QED BY <1>0, <1>2, <3>1, RequestMoves
  <2> QED BY <2>2, <2>3
<1>8. CASE BuyCredit(r)
  <2>1. /\ req[r].pc = "credit" /\ req'[r].pc = "burn"
        /\ \A s \in Req : s # r => req'[s] = req[s]
        /\ undoPayments' = undoPayments /\ Acked' \subseteq Acked \cup {req[r].tx}
    BY <1>0, <1>8 DEF BuyCredit, AddUndoCredits, ApiRequest, Acked
  <2>2. \A s \in Req : req[s].pc \in {"claim", "credit", "unclaim"} => req[s].tx \in Tx
    BY DEF TypeInv, RequestCarries
  <2>3. \A s \in Req : s # r /\ req[s].pc \in {"credit", "unclaim"} => req[s].tx # req[r].tx
    BY <1>2, <2>1 DEF RequestInv
  <2>4. RequestInv'
    BY <1>0, <1>2, <2>1, <2>2, <2>3, OwedKept DEF RequestInv
  <2>5. ReceiptInv'
    BY <1>0, <1>2, <2>1, OwedKept DEF ReceiptInv, RequestInv
  <2> QED BY <2>4, <2>5
<1>9. CASE BuyUnclaim(r)
  <2>1. /\ req[r].pc = "unclaim" /\ req'[r].pc = "idle"
        /\ \A s \in Req : s # r => req'[s] = req[s]
        /\ \A u \in Tx : u # req[r].tx => undoPayments'[u] = undoPayments[u]
        /\ undoPayments'[req[r].tx] = None \/ req[r].tx \notin Tx
        /\ Acked' = Acked
    BY <1>0, <1>9 DEF BuyUnclaim, NoRequest, TypeInv, TypeOK, Acked
  <2>2. \A s \in Req : req[s].pc \in {"claim", "credit", "unclaim"} => req[s].tx \in Tx
    BY DEF TypeInv, RequestCarries
  <2>3. req[r].tx \notin Acked
    BY <1>2, <2>1 DEF RequestInv
  <2>4. \A s \in Req : s # r /\ req[s].pc \in {"credit", "unclaim"} => req[s].tx # req[r].tx
    BY <1>2, <2>1 DEF RequestInv
  <2>5. RequestInv'
    BY <1>0, <1>2, <2>1, <2>2, <2>4, OwedKept DEF RequestInv
  <2>6. ReceiptInv'
    <3>1. \A u \in Tx : undoPayments'[u] # None => undoPayments'[u] = undoPayments[u]
      BY <2>1, <2>2
    <3>2. \A u \in Acked : u \in Tx /\ u # req[r].tx
      BY <2>3 DEF TypeInv, TypeOK, Acked
    <3> QED BY <1>0, <1>2, <2>1, <3>1, <3>2, OwedKept DEF ReceiptInv
  <2> QED BY <2>5, <2>6
<1> QED BY <1>3, <1>4, <1>5, <1>6, <1>7, <1>8, <1>9 DEF ApiStep

(* The tick goes on to process a part of what it had, or of its range.     *)
LEMMA TickProcess ==
  ASSUME TypeInv, TickInv, NEW todo \in SUBSET Tx, Process(todo),
         UNCHANGED <<head, txs, cursor>>, worker.pc # "idle",
         \A t \in todo : txs[t].block <= worker.to
  PROVE  TickInv'
<1>1. /\ worker'.pc = "process" /\ worker'.todo = todo
      /\ worker'.block = worker.block /\ worker'.to = worker.to
  BY DEF Process, TypeInv, TypeOK, TickState
<1> QED BY <1>1 DEF TickInv

LEMMA SafetyReconciler ==
  ASSUME TypeInv, TypeInv', NonceInv, PaymentInv, SafetyInv, ReconcilerStep
  PROVE  SafetyInv'
<1>0. /\ [Next]_vars /\ worker \in TickState /\ cursor \in Nat /\ head \in Nat
      /\ RequestInv /\ TickInv /\ ReceiptInv
  BY StateAssumption DEF Next, SafetyInv, TypeInv, TypeOK
<1>1. ASSUME TickInv', UNCHANGED <<req, undoPayments, credited, unacked>> PROVE SafetyInv'
  BY <1>0, <1>1, ReceiptFrame DEF SafetyInv
<1>2. CASE Tick
  <2>1. /\ FirstBlock \in Nat /\ LastBlock \in Nat /\ FirstBlock <= LastBlock
        /\ LastBlock <= SafeHead /\ (cursor = 0 \/ FirstBlock = cursor + 1)
    BY <1>0, <1>2, ScanAssumption, StateAssumption DEF Tick, FirstBlock, LastBlock, SafeHead
  <2>2. /\ worker'.pc = "fetch" /\ worker'.block = FirstBlock /\ worker'.to = LastBlock
        /\ worker'.todo = {}
    BY <1>2 DEF Tick, NoTick
  <2>3. LastBlock + MinConf <= head
    BY <1>0, <2>1, StateAssumption DEF SafeHead
  <2>4. head' = head /\ cursor' = cursor
    BY <1>2 DEF Tick
  <2>5. TickInv'
    BY <2>1, <2>2, <2>3, <2>4 DEF TickInv
  <2> QED BY <1>1, <1>2, <2>5 DEF Tick
<1>3. CASE FetchRange \/ FetchRangeNulls
  <2> DEFINE range == worker.block .. worker.to
  <2>1. PICK seen \in SUBSET range : Process(TreasuryTxsOf(seen))
    BY <1>3 DEF FetchRange, FetchRangeNulls
  <2>2. UNCHANGED <<head, txs, cursor, req, undoPayments, credited, unacked>> /\ worker.pc # "idle"
    BY <1>3 DEF FetchRange, FetchRangeNulls
  <2>3. \A t \in TreasuryTxsOf(seen) : t \in Tx /\ txs[t].block <= worker.to
    BY <1>0 DEF TreasuryTxsOf, TreasuryTxs, TickState
  <2>4. TickInv'
    BY <1>0, <2>1, <2>2, <2>3, TickProcess
  <2> QED BY <1>1, <2>2, <2>4
<1>4. ASSUME NEW t \in Tx, CheckPayment(t) PROVE SafetyInv'
  <2>1. UNCHANGED <<head, txs, cursor, req, undoPayments, credited, unacked>>
    BY <1>4 DEF CheckPayment
  <2>2. CASE undoPayments[t] # None
    <3>1. Process(worker.todo \ {t}) /\ worker.pc # "idle" /\ worker.todo \ {t} \in SUBSET Tx
      BY <1>0, <1>4, <2>2 DEF CheckPayment, TickState
    <3>2. \A u \in worker.todo \ {t} : txs[u].block <= worker.to
      BY <1>0, <3>1 DEF TickInv
    <3>3. TickInv'
      BY <1>0, <2>1, <3>1, <3>2, TickProcess
    <3> QED BY <1>1, <2>1, <3>3
  <2>3. CASE undoPayments[t] = None
    <3>1. /\ worker.pc = "process" /\ worker'.pc = "resolve" /\ worker'.tx = t
          /\ t \in worker.todo /\ worker'.todo = worker.todo
          /\ worker'.block = worker.block /\ worker'.to = worker.to
      BY <1>0, <1>4, <2>3 DEF CheckPayment, TickState
    <3>2. TickInv'
      BY <1>0, <2>1, <3>1 DEF TickInv
    <3> QED BY <1>1, <2>1, <3>2
  <2> QED BY <2>2, <2>3
<1>5. ASSUME NEW t \in Tx, ResolveIntent(t) PROVE SafetyInv'
  <2>1. UNCHANGED <<head, txs, cursor, req, undoPayments, credited, unacked>>
    BY <1>5 DEF ResolveIntent
  <2>2. CASE PaidIntent(t) = None
    <3>1. Process(worker.todo \ {t}) /\ worker.pc # "idle" /\ worker.todo \ {t} \in SUBSET Tx
      BY <1>0, <1>5, <2>2 DEF ResolveIntent, TickState
    <3>2. \A u \in worker.todo \ {t} : txs[u].block <= worker.to
      BY <1>0, <3>1 DEF TickInv
    <3>3. TickInv'
      BY <1>0, <2>1, <3>1, <3>2, TickProcess
    <3> QED BY <1>1, <2>1, <3>3
  <2>3. CASE PaidIntent(t) # None
    <3>1. /\ worker.pc = "resolve" /\ worker'.pc = "credit"
          /\ worker.tx = t /\ worker'.tx = t /\ worker'.fid = PaidIntent(t).fid
          /\ worker'.todo = worker.todo
          /\ worker'.block = worker.block /\ worker'.to = worker.to
      BY <1>0, <1>5, <2>3 DEF ResolveIntent, TickState
    <3>2. Owed(t, PaidIntent(t).fid, PaidPack(t))
      BY <1>0, <1>5, <2>3, ResolvedOwed
    <3>3. Owed(worker.tx, worker.fid, PaidPack(worker.tx))'
      BY <2>1, <3>1, <3>2 DEF Owed, Confirmed, PaidPack
    <3>4. TickInv'
      BY <1>0, <2>1, <3>1, <3>3 DEF TickInv
    <3> QED BY <1>1, <2>1, <3>4
  <2> QED BY <2>2, <2>3
<1>6. ASSUME NEW t \in Tx, CreditPayment(t) PROVE SafetyInv'
  <2>1. UNCHANGED <<head, txs, cursor, req>> /\ worker.pc = "credit" /\ worker.tx = t
    BY <1>6 DEF CreditPayment
  <2>2. TickInv'
    <3>1. Process(worker.todo \ {t}) /\ worker.todo \ {t} \in SUBSET Tx
      BY <1>0, <1>6 DEF CreditPayment, TickState
    <3>2. \A u \in worker.todo \ {t} : txs[u].block <= worker.to
      BY <1>0, <2>1 DEF TickInv
    <3> QED BY <1>0, <2>1, <3>1, <3>2, TickProcess
  <2>3. CASE undoPayments[t] # None
    <3>1. UNCHANGED <<undoPayments, credited, unacked>>
      BY <1>6, <2>3 DEF CreditPayment
    <3> QED BY <1>1, <2>1, <2>2, <3>1
  <2>4. CASE undoPayments[t] = None
    <3> DEFINE row == [fid |-> worker.fid, pack |-> PaidPack(t)]
    <3>1. /\ undoPayments' = [undoPayments EXCEPT ![t] = row]
          /\ Acked' \subseteq Acked \cup {t}
      BY <1>6, <2>4 DEF CreditPayment, AddUndoCredits, PaidPack, Acked
    <3>2. row \in Intent /\ row # None
      BY <2>1, StateAssumption DEF TypeInv, TickCarries, Intent
    <3>3. /\ undoPayments'[t] = row
          /\ \A u \in Tx : u # t => undoPayments'[u] = undoPayments[u]
      BY <3>1 DEF TypeInv, TypeOK
    <3>4. Owed(t, row.fid, row.pack)
      BY <1>0, <2>1 DEF TickInv
    <3>5. Owed(t, undoPayments[t].fid, undoPayments[t].pack)'
      BY <2>1, <3>3, <3>4 DEF Owed, Confirmed, PaidPack
    <3> HIDE DEF row
    <3>6. ReceiptInv'
      <4>1. ASSUME NEW u \in Tx, undoPayments'[u] # None
            PROVE  Owed(u, undoPayments[u].fid, undoPayments[u].pack)'
        <5>1. CASE u = t
          BY <3>5, <5>1 DEF Owed, Confirmed, PaidPack
        <5>2. CASE u # t
          <6>1. undoPayments'[u] = undoPayments[u]
            BY <3>3, <5>2
          <6> QED BY <1>0, <4>1, <6>1, OwedKept DEF ReceiptInv
        <5> QED BY <5>1, <5>2
      <4>2. \A u \in Acked' : u \in Tx /\ undoPayments'[u] # None
        BY <1>0, <3>1, <3>2, <3>3 DEF ReceiptInv, TypeInv, TypeOK, Acked
      <4> QED BY <4>1, <4>2 DEF ReceiptInv
    <3>7. RequestInv'
      <4>1. \A s \in Req : req[s].pc \in {"claim", "credit", "unclaim"} => req[s].tx \in Tx
        BY DEF TypeInv, RequestCarries
      <4>2. \A s \in Req : req[s].pc \in {"credit", "unclaim"} => req[s].tx # t
        BY <1>0, <2>4 DEF RequestInv
      <4> QED BY <1>0, <2>1, <3>1, <3>3, <4>1, <4>2, OwedKept DEF RequestInv
    <3> QED BY <2>2, <3>6, <3>7 DEF SafetyInv
  <2> QED BY <2>3, <2>4
<1>7. CASE AdvanceCursor
  <2>1. /\ worker.pc = "process" /\ cursor' = worker.block
        /\ UNCHANGED <<head, txs, req, undoPayments, credited, unacked>>
    BY <1>7 DEF AdvanceCursor, AdvanceTo
  <2>2. CASE worker.block = worker.to
    <3>1. worker'.pc = "idle"
      BY <1>7, <2>2 DEF AdvanceCursor, NoTick
    <3> QED BY <1>1, <2>1, <3>1 DEF TickInv
  <2>3. CASE worker.block # worker.to
    <3>1. /\ worker'.pc = "process" /\ worker'.block = worker.block + 1
          /\ worker'.to = worker.to /\ worker'.todo = worker.todo
      BY <1>0, <1>7, <2>1, <2>3 DEF AdvanceCursor, TickState
    <3>2. worker.block \in Nat /\ worker.to \in Nat
      BY <1>0 DEF TickState
    <3>3. worker'.block <= worker'.to
      BY <1>0, <2>1, <2>3, <3>1, <3>2 DEF TickInv
    <3>4. TickInv'
      BY <1>0, <2>1, <3>1, <3>3 DEF TickInv
    <3> QED BY <1>1, <2>1, <3>4
  <2> QED BY <2>2, <2>3
<1>8. CASE AbortTick
  <2>1. worker'.pc = "idle" /\ UNCHANGED <<req, undoPayments, credited, unacked>>
    BY <1>8 DEF AbortTick, NoTick
  <2> QED BY <1>1, <2>1 DEF TickInv
<1> QED BY <1>2, <1>3, <1>4, <1>5, <1>6, <1>7, <1>8 DEF ReconcilerStep

(* What a step credits is confirmed, and confirmed it stays.               *)
LEMMA CreditsKept ==
  ASSUME TypeInv, SafetyInv, CreditOnlyConfirmed, [Next]_vars
  PROVE  CreditOnlyConfirmed'
<1>1. credited \subseteq Tx /\ RequestInv /\ TickInv
  BY DEF TypeInv, TypeOK, SafetyInv
<1>2. ASSUME NEW u \in Tx, Confirmed(u), credited' \subseteq credited \cup {u}
      PROVE  CreditOnlyConfirmed'
  BY <1>1, <1>2, ConfirmedKept DEF CreditOnlyConfirmed
<1>3. ASSUME credited' = credited PROVE CreditOnlyConfirmed'
  BY <1>1, <1>3, ConfirmedKept DEF CreditOnlyConfirmed
<1>4. ASSUME NEW r \in Req, ApiStep(r) PROVE CreditOnlyConfirmed'
  <2>1. CASE At(r, "credit") /\ credited' \subseteq credited \cup {req[r].tx}
    <3>1. req[r].tx \in Tx /\ Confirmed(req[r].tx)
      BY <1>1, <2>1 DEF TypeInv, RequestCarries, RequestInv, Owed
    <3> QED BY <1>2, <2>1, <3>1
  <2>2. CASE credited' = credited
    BY <1>3, <2>2
  <2>3. BuyCredit(r) \/ BuyCreditFails(r) \/ credited' = credited
    BY <1>4 DEF ApiStep, IntentIncr, IntentSet, IntentMirror, IntentMirrorFails, BuyVerify,
       BuyClaim, BuyUnclaim, BuyBurn, RequestDies
  <2>4. BuyCredit(r) \/ BuyCreditFails(r) =>
          At(r, "credit") /\ credited' \subseteq credited \cup {req[r].tx}
    BY DEF BuyCredit, BuyCreditFails, CreditThrown, CreditUnacked, AddUndoCredits
  <2> QED BY <2>1, <2>2, <2>3, <2>4
<1>5. ASSUME NEW t \in Tx, CreditPayment(t) PROVE CreditOnlyConfirmed'
  <2>1. Confirmed(t) /\ credited' \subseteq credited \cup {t}
    BY <1>1, <1>5 DEF CreditPayment, AddUndoCredits, TickInv, Owed
  <2> QED BY <1>2, <2>1
<1>6. ASSUME ReconcilerStep PROVE CreditOnlyConfirmed'
  BY <1>3, <1>5, <1>6 DEF ReconcilerStep, Tick, FetchRange, FetchRangeNulls, CheckPayment,
     ResolveIntent, AdvanceCursor, AbortTick
<1>7. ASSUME NEW t \in Tx, PayTreasury(t) \/ PayStray(t) \/ Mine(t)
      PROVE  CreditOnlyConfirmed'
  BY <1>3, <1>7 DEF PayTreasury, PayStray, Send, Mine
<1>8. ASSUME \/ \E fid \in Fid : ConsumeUndoCredit(fid)
             \/ NewBlock
             \/ \E n \in Nonce : ExpireIntent(n)
             \/ LoseRedis
             \/ UNCHANGED vars
      PROVE  CreditOnlyConfirmed'
  BY <1>3, <1>8 DEF ConsumeUndoCredit, NewBlock, ExpireIntent, LoseRedis, vars
<1> QED BY <1>4, <1>6, <1>7, <1>8 DEF Next

LEMMA InvInit == Init => IInv
<1> SUFFICES ASSUME Init PROVE NonceInv /\ PaymentInv /\ SafetyInv /\ CreditOnlyConfirmed
  BY TypeInit DEF IInv, SafetyInv
<1>1. NonceInv
  BY StateAssumption DEF Init, NonceInv, Issued, NoRequest
<1>2. PaymentInv
  BY DEF Init, PaymentInv, Unsent
<1>3. SafetyInv
  BY DEF Init, SafetyInv, RequestInv, TickInv, ReceiptInv, Acked, NoRequest, NoTick
<1>4. CreditOnlyConfirmed
  BY DEF Init, CreditOnlyConfirmed
<1> QED BY <1>1, <1>2, <1>3, <1>4

LEMMA InvStep ==
  ASSUME NoRedisLoss, IInv, [Next]_vars
  PROVE  IInv'
<1>1. TypeInv /\ TypeInv' /\ NonceInv /\ PaymentInv /\ SafetyInv /\ CreditOnlyConfirmed
  BY TypeStep DEF IInv, SafetyInv
<1>2. NonceInv' /\ PaymentInv'
  BY <1>1, NonceStep, PaymentStep
<1>3. ASSUME UNCHANGED <<worker, cursor, req, undoPayments, credited, unacked>> PROVE SafetyInv'
  BY <1>1, <1>3, TickFrame, ReceiptFrame DEF SafetyInv
<1>4. ASSUME NEW t \in Tx, PayTreasury(t) \/ PayStray(t) \/ Mine(t) PROVE SafetyInv'
  BY <1>3, <1>4 DEF PayTreasury, PayStray, Send, Mine
<1>5. ASSUME \/ \E fid \in Fid : ConsumeUndoCredit(fid)
             \/ NewBlock
             \/ \E n \in Nonce : ExpireIntent(n)
             \/ LoseRedis
             \/ UNCHANGED vars
      PROVE  SafetyInv'
  BY <1>3, <1>5 DEF ConsumeUndoCredit, NewBlock, ExpireIntent, LoseRedis, vars
<1>6. ASSUME NEW r \in Req, ApiStep(r) PROVE SafetyInv'
  BY <1>1, <1>6, SafetyApi
<1>7. ASSUME ReconcilerStep PROVE SafetyInv'
  BY <1>1, <1>7, SafetyReconciler
<1>8. SafetyInv'
  BY <1>4, <1>5, <1>6, <1>7 DEF Next
<1>9. CreditOnlyConfirmed'
  BY <1>1, CreditsKept
<1> QED BY <1>1, <1>2, <1>8, <1>9 DEF IInv, SafetyInv

(* While Redis keeps its counter, the invariant holds for ever: through    *)
(* every race of two /buy calls and the reconciler over one payment, dead  *)
(* requests, failing databases, lost replies and nodes that lag.           *)
THEOREM InvCorrect ==
  ASSUME NoRedisLoss
  PROVE  Spec => []IInv
<1>1. IInv /\ [Next]_vars => IInv'
  BY InvStep
<1> QED BY InvInit, <1>1, PTL DEF Spec

-----------------------------------------------------------------------------
(***************************************************************************)
(* What follows from the invariant.                                        *)
(***************************************************************************)

(* The claim on a payment names the user who sent it and the pack its      *)
(* value pays for: no interleaving of the services binds it to another.    *)
THEOREM ReceiptsCorrect ==
  ASSUME NoRedisLoss
  PROVE  Spec => []ReceiptNamesPayer
<1>1. IInv => ReceiptNamesPayer
  BY DEF IInv, ReceiptInv, Owed, ReceiptNamesPayer
<1> QED BY <1>1, InvCorrect, PTL

(* Neither service credits a payment before it has its confirmations.      *)
THEOREM CreditsConfirmed ==
  ASSUME NoRedisLoss
  PROVE  Spec => []CreditOnlyConfirmed
<1>1. IInv => CreditOnlyConfirmed
  BY DEF IInv
<1> QED BY <1>1, InvCorrect, PTL

(* The cursor moves one block at a time and stays behind the confirmation  *)
(* depth, though ticks fail and are started over at any point.             *)
THEOREM CursorCorrect ==
  ASSUME NoRedisLoss
  PROVE  Spec => CursorContiguous
<1>1. IInv /\ [Next]_vars =>
        [/\ cursor' = cursor + 1 \/ cursor = 0
         /\ cursor' + MinConf <= head]_cursor
  <2> SUFFICES ASSUME IInv, [Next]_vars, cursor' # cursor
               PROVE  /\ cursor' = cursor + 1 \/ cursor = 0
                      /\ cursor' + MinConf <= head
    OBVIOUS
  <2>1. AdvanceCursor
    <3>1. ASSUME NEW r \in Req, ApiStep(r) PROVE cursor' = cursor
      BY <3>1 DEF ApiStep, IntentIncr, IntentSet, IntentMirror, IntentMirrorFails, BuyVerify,
         BuyClaim, BuyCredit, BuyCreditFails, BuyUnclaim, BuyBurn, RequestDies
    <3>2. ReconcilerStep => AdvanceCursor \/ cursor' = cursor
      BY DEF ReconcilerStep, Tick, FetchRange, FetchRangeNulls, CheckPayment,
         ResolveIntent, CreditPayment, AbortTick
    <3>3. ASSUME NEW t \in Tx, PayTreasury(t) \/ PayStray(t) \/ Mine(t) PROVE cursor' = cursor
      BY <3>3 DEF PayTreasury, PayStray, Send, Mine
    <3>4. ASSUME \/ \E fid \in Fid : ConsumeUndoCredit(fid)
                 \/ NewBlock
                 \/ \E n \in Nonce : ExpireIntent(n)
                 \/ LoseRedis
                 \/ UNCHANGED vars
          PROVE  cursor' = cursor
      BY <3>4 DEF ConsumeUndoCredit, NewBlock, ExpireIntent, LoseRedis, vars
    <3> QED BY <3>1, <3>2, <3>3, <3>4 DEF Next
  <2>2. cursor' = worker.block /\ worker.pc # "idle"
    BY <2>1 DEF AdvanceCursor, AdvanceTo
  <2>3. /\ worker.block <= worker.to /\ worker.to + MinConf <= head
        /\ cursor = 0 \/ worker.block = cursor + 1
    BY <2>2 DEF IInv, TickInv
  <2>4. worker.block \in Nat /\ worker.to \in Nat /\ head \in Nat
    BY StateAssumption DEF IInv, TypeInv, TypeOK, TickState
  <2> QED BY <2>2, <2>3, <2>4, StateAssumption
<1> QED BY <1>1, InvCorrect, PTL DEF Spec, CursorContiguous

(***************************************************************************)
(* The shop implements CreditLedger.                                       *)
(***************************************************************************)
LedgerPurchase ==
  [t \in Tx |-> IF txs[t].status = "ok" /\ txs[t].payer # None
                THEN [fid |-> txs[t].payer, undos |-> undos[PaidPack(t)]]
                ELSE None]

LedgerVars == <<LedgerPurchase, credited \ unacked, undoCredits>>

(* Crediting an owed payment that is not settled credits its purchase, and *)
(* settles it if the credit is acknowledged.                               *)
LEMMA LedgerCredit ==
  ASSUME TypeInv, NEW t \in Tx, NEW fid \in Fid, NEW pack \in Pack,
         Owed(t, fid, pack), t \notin Acked, AddUndoCredits(fid, pack, t), txs' = txs,
         \/ unacked' = unacked \ {t}
         \/ unacked' = unacked \cup {t} /\ "reply" \in Faults
  PROVE  Ledger!Next
<1>1. LedgerPurchase[t] = [fid |-> fid, undos |-> undos[pack]]
  BY StateAssumption DEF LedgerPurchase, Owed, Confirmed
<1>2. LedgerPurchase[t] # None
  BY <1>1, PackAssumption, StateAssumption
<1>3. LedgerPurchase' = LedgerPurchase
  BY DEF LedgerPurchase, PaidPack
<1>4. undoCredits' = [undoCredits EXCEPT ![LedgerPurchase[t].fid] =
                        @ + LedgerPurchase[t].undos]
  BY <1>1 DEF AddUndoCredits
<1>5. Ledger!Credit(t)
  BY <1>2, <1>3, <1>4 DEF Ledger!Credit, LedgerPurchase, Acked
<1>6. CASE unacked' = unacked \ {t}
  <2>1. credited' \ unacked' = (credited \ unacked) \cup {t}
    BY <1>6 DEF AddUndoCredits
  <2> QED BY <1>5, <2>1 DEF Ledger!Settle, Ledger!Next
<1>7. CASE unacked' = unacked \cup {t} /\ "reply" \in Faults
  <2>1. credited' \ unacked' = credited \ unacked
    BY <1>7 DEF AddUndoCredits, Acked
  <2> QED BY <1>5, <1>7, <2>1 DEF Ledger!CreditUnnoticed, Ledger!Next
<1> QED BY <1>6, <1>7

(* A payment that becomes mined enters the ledger as a purchase.           *)
LEMMA LedgerPay ==
  ASSUME TypeInv, PaymentInv, NEW t \in Tx, Mine(t)
  PROVE  [Ledger!Next]_LedgerVars
<1>1. /\ txs[t].status = "sent" /\ txs[t].payer \in Fid \cup {None}
      /\ txs'[t].payer = txs[t].payer /\ txs'[t].value = txs[t].value
      /\ txs'[t].status \in {"ok", "reverted"}
      /\ \A u \in Tx : u # t => txs'[u] = txs[u]
      /\ UNCHANGED <<credited, unacked, undoCredits>>
  BY DEF Mine, TypeInv, TypeOK, Payment
<1>2. \A u \in Tx : u # t => LedgerPurchase'[u] = LedgerPurchase[u]
  BY <1>1 DEF LedgerPurchase, PaidPack
<1>3. LedgerPurchase[t] = None
  BY <1>1 DEF LedgerPurchase
<1>4. LedgerPurchase' = [LedgerPurchase EXCEPT ![t] = LedgerPurchase'[t]]
  BY <1>2 DEF LedgerPurchase
<1>5. CASE LedgerPurchase'[t] = None
  <2>1. LedgerPurchase' = LedgerPurchase
    BY <1>2, <1>3, <1>5 DEF LedgerPurchase
  <2> QED BY <1>1, <2>1 DEF LedgerVars
<1>6. CASE LedgerPurchase'[t] # None
  <2>1. /\ txs[t].payer \in Fid
        /\ LedgerPurchase'[t] = [fid |-> txs[t].payer, undos |-> undos[PaidPack(t)]]
    BY <1>1, <1>6 DEF LedgerPurchase, PaidPack
  <2>2. PaidPack(t) \in Pack
    <3>1. PICK o \in offers : txs[t].value = AmountWei(o.pack, o.nonce)
      BY <2>1, StateAssumption DEF PaymentInv
    <3>2. o.pack \in Pack /\ o.nonce \in Nonce
      BY DEF TypeInv, TypeOK
    <3> QED BY <3>1, <3>2, MatchPackOfAmount DEF PaidPack
  <2>3. LedgerPurchase'[t] \in Ledger!Purchase
    BY <2>1, <2>2, PackAssumption DEF Ledger!Purchase
  <2>4. Ledger!Pay(t)
    BY <1>1, <1>3, <1>4, <2>3 DEF Ledger!Pay, LedgerPurchase
  <2> QED BY <2>4 DEF Ledger!Next
<1> QED BY <1>5, <1>6

LEMMA LedgerStep ==
  ASSUME NoRedisLoss, IInv, [Next]_vars
  PROVE  [Ledger!Next]_LedgerVars
<1>0. TypeInv /\ PaymentInv /\ RequestInv /\ TickInv /\ ReceiptInv
  BY DEF IInv
<1>1. ASSUME UNCHANGED <<txs, credited, unacked, undoCredits>> PROVE [Ledger!Next]_LedgerVars
  BY <1>1 DEF LedgerVars, LedgerPurchase, PaidPack
<1>2. ASSUME NEW r \in Req, BuyCredit(r) \/ BuyCreditFails(r) PROVE [Ledger!Next]_LedgerVars
  <2>1. /\ req[r].tx \in Tx /\ req[r].fid \in Fid /\ req[r].pack \in Pack
        /\ Owed(req[r].tx, req[r].fid, req[r].pack) /\ req[r].tx \notin Acked
    BY <1>0, <1>2 DEF BuyCredit, BuyCreditFails, RequestInv, TypeInv, RequestCarries
  <2>2. CASE BuyCredit(r)
    BY <1>0, <2>1, <2>2, LedgerCredit DEF BuyCredit
  <2>3. CASE BuyCreditFails(r) /\ CreditUnacked(r)
    BY <1>0, <2>1, <2>3, LedgerCredit DEF BuyCreditFails, CreditUnacked
  <2>4. CASE BuyCreditFails(r) /\ CreditThrown(r)
    BY <1>1, <2>4 DEF BuyCreditFails, CreditThrown
  <2> QED BY <1>2, <2>2, <2>3, <2>4 DEF BuyCreditFails
<1>3. ASSUME NEW r \in Req, ApiStep(r) PROVE [Ledger!Next]_LedgerVars
  BY <1>1, <1>2, <1>3 DEF ApiStep, IntentIncr, IntentSet, IntentMirror, IntentMirrorFails,
     BuyVerify, BuyClaim, BuyUnclaim, BuyBurn, RequestDies
<1>4. ASSUME NEW t \in Tx, CreditPayment(t) PROVE [Ledger!Next]_LedgerVars
  <2>1. CASE undoPayments[t] # None
    BY <1>1, <1>4, <2>1 DEF CreditPayment
  <2>2. CASE undoPayments[t] = None
    <3>1. /\ worker.fid \in Fid /\ PaidPack(t) \in Pack
          /\ Owed(t, worker.fid, PaidPack(t)) /\ t \notin Acked
      BY <1>0, <1>4, <2>2 DEF CreditPayment, TickInv, TypeInv, TickCarries, ReceiptInv
    <3>2. /\ AddUndoCredits(worker.fid, PaidPack(t), t) /\ txs' = txs
          /\ unacked' = unacked \ {t}
      BY <1>4, <2>2 DEF CreditPayment, PaidPack
    <3> QED BY <1>0, <3>1, <3>2, LedgerCredit
  <2> QED BY <2>1, <2>2
<1>5. ASSUME ReconcilerStep PROVE [Ledger!Next]_LedgerVars
  BY <1>1, <1>4, <1>5 DEF ReconcilerStep, Tick, FetchRange, FetchRangeNulls, CheckPayment,
     ResolveIntent, AdvanceCursor, AbortTick
<1>6. ASSUME NEW fid \in Fid, ConsumeUndoCredit(fid) PROVE [Ledger!Next]_LedgerVars
  <2>1. LedgerPurchase' = LedgerPurchase
    BY <1>6 DEF ConsumeUndoCredit, LedgerPurchase, PaidPack
  <2>2. Ledger!Spend(fid)
    BY <1>6, <2>1 DEF ConsumeUndoCredit, HasCredit, Ledger!Spend, LedgerPurchase
  <2> QED BY <2>2 DEF Ledger!Next
<1>7. ASSUME NEW t \in Tx, PayTreasury(t) \/ PayStray(t) PROVE [Ledger!Next]_LedgerVars
  <2>1. PICK value, payer : Send(t, value, payer)
    BY <1>7 DEF PayTreasury, PayStray
  <2>2. LedgerPurchase' = LedgerPurchase
    BY <1>0, <2>1 DEF Send, LedgerPurchase, PaidPack, TypeInv, TypeOK
  <2> QED BY <2>1, <2>2 DEF Send, LedgerVars
<1>8. ASSUME NEW t \in Tx, Mine(t) PROVE [Ledger!Next]_LedgerVars
  BY <1>0, <1>8, LedgerPay
<1>9. ASSUME \/ NewBlock
             \/ \E n \in Nonce : ExpireIntent(n)
             \/ LoseRedis
             \/ UNCHANGED vars
      PROVE  [Ledger!Next]_LedgerVars
  BY <1>1, <1>9 DEF NewBlock, ExpireIntent, LoseRedis, vars
<1> QED BY <1>3, <1>5, <1>6, <1>7, <1>8, <1>9 DEF Next

(* The two services together implement the ledger, for any number of       *)
(* users, requests, nonces and blocks: credits go to the payer, for the    *)
(* pack paid for, a payment is credited anew only if the reply to its last *)
(* credit was lost, and no balance moves for another reason.               *)
THEOREM LedgerCorrect ==
  ASSUME NoRedisLoss
  PROVE  Spec => LedgerSpec
<1>1. Init => Ledger!Init
  BY DEF Init, Ledger!Init, Unsent
<1>2. IInv /\ [Next]_vars => [Ledger!Next]_LedgerVars
  BY LedgerStep
<1> QED BY <1>1, <1>2, InvCorrect, PTL
        DEF Spec, LedgerSpec, Ledger!Spec, LedgerVars, LedgerPurchase

-----------------------------------------------------------------------------
(***************************************************************************)
(* Where no reply is lost.                                                 *)
(***************************************************************************)
NoLostReply == "reply" \notin Faults

NoneUnacked == unacked = {}

LEMMA NoneUnackedStep ==
  ASSUME NoLostReply, NoneUnacked, [Next]_vars
  PROVE  NoneUnacked'
<1>1. ASSUME NEW r \in Req, ApiStep(r) PROVE unacked' \subseteq unacked
  BY <1>1 DEF ApiStep, IntentIncr, IntentSet, IntentMirror, IntentMirrorFails, BuyVerify,
     BuyClaim, BuyCredit, BuyCreditFails, CreditThrown, CreditUnacked, BuyUnclaim, BuyBurn,
     RequestDies, NoLostReply
<1>2. ASSUME ReconcilerStep PROVE unacked' \subseteq unacked
  BY <1>2 DEF ReconcilerStep, Tick, FetchRange, FetchRangeNulls, CheckPayment,
     ResolveIntent, CreditPayment, AdvanceCursor, AbortTick
<1>3. ASSUME NEW t \in Tx, PayTreasury(t) \/ PayStray(t) \/ Mine(t)
      PROVE  unacked' = unacked
  BY <1>3 DEF PayTreasury, PayStray, Send, Mine
<1>4. ASSUME \/ \E fid \in Fid : ConsumeUndoCredit(fid)
             \/ NewBlock
             \/ \E n \in Nonce : ExpireIntent(n)
             \/ LoseRedis
             \/ UNCHANGED vars
      PROVE  unacked' = unacked
  BY <1>4 DEF ConsumeUndoCredit, NewBlock, ExpireIntent, LoseRedis, vars
<1>5. unacked' \subseteq unacked
  BY <1>1, <1>2, <1>3, <1>4 DEF Next
<1> QED BY <1>5 DEF NoneUnacked

(* A credit for a payment of fid that was not credited before is the only  *)
(* way the step can raise a balance.                                       *)
LEMMA CreditRaises ==
  ASSUME TypeInv, NEW t \in Tx, NEW fid \in Fid, NEW pack \in Pack,
         Owed(t, fid, pack), t \notin credited, AddUndoCredits(fid, pack, t), txs' = txs,
         NEW f \in Fid, undoCredits'[f] > undoCredits[f]
  PROVE  \E u \in Tx \ credited : u \in credited' /\ txs[u].payer = f
<1>1. f = fid
  <2>1. f # fid => undoCredits'[f] = undoCredits[f]
    BY DEF AddUndoCredits, TypeInv, TypeOK
  <2>2. undoCredits[f] \in Nat
    BY DEF TypeInv, TypeOK
  <2> QED BY <2>1, <2>2
<1>2. t \in Tx \ credited /\ t \in credited' /\ txs[t].payer = f
  BY <1>1 DEF AddUndoCredits, Owed
<1> QED BY <1>2

(* A payment is credited once, however many calls of /buy and ticks of the *)
(* reconciler go for it and whichever of them die or fail halfway: as long *)
(* as a statement that throws has done nothing.                            *)
THEOREM CreditsOnce ==
  ASSUME NoRedisLoss, NoLostReply
  PROVE  Spec => CreditedOnce
<1> DEFINE Raised(f) == \E t \in Tx \ credited : t \in credited' /\ txs[t].payer = f
<1>1. ASSUME IInv, NoneUnacked, [Next]_vars, NEW f \in Fid, undoCredits'[f] > undoCredits[f]
      PROVE  Raised(f)
  <2>0. /\ TypeInv /\ RequestInv /\ TickInv /\ ReceiptInv /\ Acked = credited
        /\ undoCredits \in [Fid -> Nat]
    BY <1>1 DEF IInv, TypeInv, TypeOK, NoneUnacked, Acked
  <2>1. undoCredits' # undoCredits
    BY <1>1, <2>0
  <2>2. ASSUME NEW r \in Req, BuyCredit(r) PROVE Raised(f)
    <3>1. /\ req[r].tx \in Tx /\ req[r].fid \in Fid /\ req[r].pack \in Pack
          /\ Owed(req[r].tx, req[r].fid, req[r].pack) /\ req[r].tx \notin credited
      BY <2>0, <2>2 DEF BuyCredit, RequestInv, TypeInv, RequestCarries
    <3>2. AddUndoCredits(req[r].fid, req[r].pack, req[r].tx) /\ txs' = txs
      BY <2>2 DEF BuyCredit
    <3> QED BY <1>1, <2>0, <3>1, <3>2, CreditRaises
  <2>3. ASSUME NEW t \in Tx, CreditPayment(t) PROVE Raised(f)
    <3>1. /\ undoPayments[t] = None /\ txs' = txs
          /\ AddUndoCredits(worker.fid, PaidPack(t), t)
      BY <2>1, <2>3 DEF CreditPayment, PaidPack
    <3>2. /\ worker.fid \in Fid /\ PaidPack(t) \in Pack
          /\ Owed(t, worker.fid, PaidPack(t)) /\ t \notin credited
      BY <2>0, <2>3, <3>1 DEF CreditPayment, TickInv, TypeInv, TickCarries, ReceiptInv
    <3> QED BY <1>1, <2>0, <3>1, <3>2, CreditRaises
  <2>4. ASSUME NEW fid \in Fid, ConsumeUndoCredit(fid) PROVE FALSE
    <3>1. undoCredits'[f] \in {undoCredits[f], undoCredits[f] - 1}
      BY <2>0, <2>4 DEF ConsumeUndoCredit
    <3> QED BY <1>1, <2>0, <3>1
  <2>5. ASSUME NEW r \in Req, ApiStep(r) PROVE BuyCredit(r)
    BY <2>1, <2>5 DEF ApiStep, IntentIncr, IntentSet, IntentMirror, IntentMirrorFails,
       BuyVerify, BuyClaim, BuyCreditFails, CreditThrown, CreditUnacked, BuyUnclaim,
       BuyBurn, RequestDies, NoLostReply
  <2>6. ASSUME ReconcilerStep PROVE \E t \in Tx : CreditPayment(t)
    BY <2>1, <2>6 DEF ReconcilerStep, Tick, FetchRange, FetchRangeNulls, CheckPayment,
       ResolveIntent, AdvanceCursor, AbortTick
  <2>7. ASSUME NEW t \in Tx, PayTreasury(t) \/ PayStray(t) \/ Mine(t) PROVE FALSE
    BY <2>1, <2>7 DEF PayTreasury, PayStray, Send, Mine
  <2>8. ASSUME \/ NewBlock
               \/ \E n \in Nonce : ExpireIntent(n)
               \/ LoseRedis
               \/ UNCHANGED vars
        PROVE  FALSE
    BY <2>1, <2>8 DEF NewBlock, ExpireIntent, LoseRedis, vars
  <2> QED BY <1>1, <2>2, <2>3, <2>4, <2>5, <2>6, <2>7, <2>8 DEF Next
<1>2. IInv /\ NoneUnacked /\ [Next]_vars =>
        [\A f \in Fid : undoCredits'[f] > undoCredits[f] => Raised(f)]_vars
  BY <1>1
<1>3. Init => NoneUnacked
  BY DEF Init, NoneUnacked
<1>4. NoneUnacked /\ [Next]_vars => NoneUnacked'
  BY NoneUnackedStep
<1> QED BY <1>2, <1>3, <1>4, InvCorrect, PTL DEF Spec, CreditedOnce
==============================================================================
