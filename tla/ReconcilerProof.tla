---------------------------- MODULE ReconcilerProof ----------------------------
(***************************************************************************)
(* What the reconciler's scan promises a buyer whose client never calls    *)
(* /buy, for every number of users, payments, requests, nonces and blocks. *)
(***************************************************************************)
EXTENDS PaymentsProof

USE DEF At, Begin, Continue, Return, RequestIntent, chainVars, redisVars, creditVars

-----------------------------------------------------------------------------
(***************************************************************************)
(* The inductive invariant of the scan.                                    *)
(***************************************************************************)

(* The first tick comes while the chain is within the look-back: no block  *)
(* with a payment is older than the seed of the cursor.                    *)
SeededInTime == MaxBlock <= InitialLookback + MinConf

(* Nodes answer for confirmed blocks, no claim is taken back (the credit   *)
(* after it neither fails nor loses its reply), and Redis keeps its        *)
(* counter.  Requests may die, mirrors may fail.                           *)
ScanFaults == Faults \cap {"lag", "db", "reply", "flush"} = {}

OnItsWay(r) == req[r].pc \in {"set", "mirror"}

(* Once an offer is out, no request is still to write its intent: whether  *)
(* it is mirrored is settled before it can be paid.                        *)
OfferSettled ==
  /\ \A r \in Req : OnItsWay(r) =>
       /\ req[r].nonce <= counter
       /\ \A o \in offers : req[r].nonce # o.nonce
       /\ \A s \in Req : OnItsWay(s) /\ req[s].nonce = req[r].nonce => s = r
  /\ \A o \in offers : o.nonce <= counter

NoUnclaim == \A r \in Req : req[r].pc # "unclaim"

(* The reconciler has nothing to do, or nothing left to do, for t.         *)
Handled(t) == undoPayments[t] # None \/ ~IntentMirrored(t)

(* The scan leaves no block out and lies behind the head.                  *)
ScanPosition ==
  /\ cursor <= head
  /\ worker.pc # "idle" => worker.block = cursor + 1

InBlock == worker.pc \in {"process", "resolve", "credit"}

(* A payment of a scanned block is handled; one of a block the tick has    *)
(* fetched and not left is handled or still to do.                         *)
ScanDone ==
  \A t \in Tx : txs[t].status = "ok" =>
    /\ txs[t].block <= cursor => Handled(t)
    /\ InBlock /\ txs[t].block \in worker.block .. worker.to =>
         t \in worker.todo \/ Handled(t)

ScanInv == OfferSettled /\ NoUnclaim /\ ScanPosition /\ ScanDone

-----------------------------------------------------------------------------
(***************************************************************************)
(* What the steps of the API leave of it.                                  *)
(***************************************************************************)

(* A payment with a payer is for the pack and the nonce of an offer.       *)
LEMMA PaidOffer ==
  ASSUME TypeInv, PaymentInv, NEW t \in Tx, txs[t].payer # None
  PROVE  \E o \in offers : /\ o.nonce \in Nonce /\ o.nonce = PaidNonce(t)
                           /\ o.pack \in Pack /\ o.pack = PaidPack(t)
                           /\ txs[t].value = priceWei[o.pack] + o.nonce
<1>1. PICK o \in offers : txs[t].value = AmountWei(o.pack, o.nonce)
  BY DEF PaymentInv
<1>2. o.nonce \in Nonce /\ o.pack \in Pack
  BY DEF TypeInv, TypeOK
<1>3. PaidPack(t) = o.pack
  BY <1>1, <1>2, MatchPackOfAmount DEF PaidPack
<1>4. PaidNonce(t) = o.nonce
  BY <1>1, <1>2, <1>3, PackAssumption DEF PaidNonce, NonceIn, AmountWei, Nonce
<1> QED BY <1>1, <1>2, <1>3, <1>4 DEF AmountWei

(* Nothing new is on its way to a mirror.                                  *)
LEMMA SettledKept ==
  ASSUME TypeInv, OfferSettled, UNCHANGED <<offers, counter>>,
         \A s \in Req : req'[s].pc \in {"set", "mirror"} =>
           req[s].pc \in {"set", "mirror"} /\ req'[s].nonce = req[s].nonce
  PROVE  OfferSettled'
BY DEF OfferSettled, OnItsWay

LEMMA SettledApi ==
  ASSUME TypeInv, NonceInv, OfferSettled, NEW r \in Req, ApiStep(r)
  PROVE  OfferSettled'
<1>0. /\ req \in [Req -> ApiRequest] /\ counter \in Nat
      /\ \A o \in offers : o.nonce \in Nat
      /\ \A s \in Req : req[s].nonce \in Nat
  BY PackAssumption DEF TypeInv, TypeOK, ApiRequest, Nonce
<1>1. ASSUME NEW fid \in Fid, NEW pack \in Pack, IntentIncr(r, fid, pack)
      PROVE  OfferSettled'
  <2>1. /\ counter' = counter + 1 /\ offers' = offers
        /\ req'[r].nonce = counter + 1
        /\ \A s \in Req : s # r => req'[s] = req[s]
    BY <1>0, <1>1 DEF IntentIncr
  <2>2. \A s \in Req : OnItsWay(s)' => req'[s].nonce <= counter'
    BY <1>0, <2>1 DEF OfferSettled, OnItsWay
  <2>3. \A o \in offers : o.nonce # counter + 1 /\ o.nonce <= counter'
    BY <1>0, <2>1 DEF OfferSettled
  <2>4. \A s \in Req : s # r /\ OnItsWay(s)' => OnItsWay(s) /\ req[s].nonce # counter + 1
    BY <1>0, <2>1 DEF OfferSettled, OnItsWay
  <2>5. \A s \in Req, o \in offers' : OnItsWay(s)' => req'[s].nonce # o.nonce
    BY <2>1, <2>3, <2>4 DEF OfferSettled
  <2>6. \A s, q \in Req : OnItsWay(s)' /\ OnItsWay(q)' /\ req'[q].nonce = req'[s].nonce => q = s
    BY <2>1, <2>4 DEF OfferSettled
  <2> QED BY <2>1, <2>2, <2>3, <2>5, <2>6 DEF OfferSettled
<1>2. CASE IntentMirror(r) \/ IntentMirrorFails(r)
  <2>1. /\ OnItsWay(r) /\ req' = [req EXCEPT ![r] = NoRequest] /\ counter' = counter
        /\ \A o \in offers' : o \in offers \/ o.nonce = req[r].nonce
    BY <1>2 DEF IntentMirror, IntentMirrorFails, ReplyOffer, OnItsWay
  <2>2. ~OnItsWay(r)' /\ \A s \in Req : s # r => req'[s] = req[s]
    BY <1>0, <2>1 DEF OnItsWay, NoRequest
  <2>3. \A s \in Req : OnItsWay(s)' => s # r /\ OnItsWay(s)
    BY <2>2 DEF OnItsWay
  <2>4. \A s \in Req, o \in offers' : OnItsWay(s)' => req'[s].nonce # o.nonce
    BY <2>1, <2>2, <2>3 DEF OfferSettled
  <2>5. \A o \in offers' : o.nonce <= counter'
    BY <2>1 DEF OfferSettled
  <2>6. \A s, q \in Req : OnItsWay(s)' /\ OnItsWay(q)' /\ req'[q].nonce = req'[s].nonce => q = s
    BY <2>2, <2>3 DEF OfferSettled
  <2> QED BY <2>1, <2>2, <2>3, <2>4, <2>5, <2>6 DEF OfferSettled
<1>3. ASSUME NEW fid \in Fid, NEW pack \in Pack, NEW t \in Tx, BuyVerify(r, fid, pack, t)
      PROVE  OfferSettled'
  BY <1>0, <1>3, SettledKept DEF BuyVerify
<1>4. CASE \/ IntentSet(r) \/ BuyClaim(r) \/ BuyCredit(r) \/ BuyCreditFails(r)
           \/ BuyUnclaim(r) \/ BuyBurn(r) \/ RequestDies(r)
  <2>1. UNCHANGED <<offers, counter>>
    BY <1>4 DEF IntentSet, BuyClaim, BuyCredit, BuyCreditFails, BuyUnclaim, BuyBurn, RequestDies
  <2>2. \/ req[r].pc = "set" /\ Continue(r, "mirror")
        \/ Continue(r, "credit") \/ Continue(r, "unclaim") \/ Continue(r, "burn")
        \/ Return(r)
    BY <1>4 DEF IntentSet, BuyClaim, BuyCredit, BuyCreditFails, BuyUnclaim, BuyBurn, RequestDies
  <2>3. \A s \in Req : req'[s].pc \in {"set", "mirror"} =>
          req[s].pc \in {"set", "mirror"} /\ req'[s].nonce = req[s].nonce
    BY <1>0, <2>2 DEF NoRequest, ApiRequest
  <2> QED BY <2>1, <2>3, SettledKept
<1> QED BY <1>1, <1>2, <1>3, <1>4 DEF ApiStep

LEMMA NoUnclaimApi ==
  ASSUME ScanFaults, TypeInv, NoUnclaim, NEW r \in Req, ApiStep(r)
  PROVE  NoUnclaim'
<1>0. req \in [Req -> ApiRequest]
  BY DEF TypeInv, TypeOK
<1>1. /\ \A s \in Req : s # r => req'[s] = req[s]
      /\ req'[r].pc # "unclaim"
  BY <1>0 DEF ApiStep, IntentIncr, IntentSet, IntentMirror, IntentMirrorFails, ReplyOffer,
     BuyVerify, BuyClaim, BuyCredit, BuyCreditFails, CreditThrown, CreditUnacked, BuyUnclaim,
     BuyBurn, RequestDies, NoRequest, ApiRequest, ScanFaults
<1> QED BY <1>1 DEF NoUnclaim

(* A request that only makes offers and claims leaves what is handled so.  *)
LEMMA HandledApi ==
  ASSUME ScanFaults, TypeInv, PaymentInv, OfferSettled, NoUnclaim,
         NEW r \in Req, ApiStep(r), NEW t \in Tx, Handled(t)
  PROVE  Handled(t)'
<1>0. txs' = txs
  BY DEF ApiStep, IntentIncr, IntentSet, IntentMirror, IntentMirrorFails, BuyVerify,
     BuyClaim, BuyCredit, BuyCreditFails, BuyUnclaim, BuyBurn, RequestDies
<1>1. CASE undoPayments[t] # None
  <2>1. CASE BuyClaim(r)
    <3>1. req[r].tx \in Tx /\ RequestIntent(r) \in Intent
      BY <2>1 DEF BuyClaim, TypeInv, RequestCarries, Intent
    <3> QED BY <1>1, <2>1, <3>1, StateAssumption DEF BuyClaim, TypeInv, TypeOK, Handled
  <2>2. CASE ~BuyClaim(r)
    <3>1. undoPayments' = undoPayments
      BY <2>2 DEF NoUnclaim, ApiStep, IntentIncr, IntentSet, IntentMirror, IntentMirrorFails,
         BuyVerify, BuyCredit, BuyCreditFails, CreditThrown, CreditUnacked, BuyUnclaim,
         BuyBurn, RequestDies
    <3> QED BY <1>1, <3>1 DEF Handled
  <2> QED BY <2>1, <2>2
<1>2. CASE ~IntentMirrored(t)
  <2>1. CASE txs[t].payer = None
    BY <1>0, <2>1 DEF Handled, IntentMirrored
  <2>2. CASE txs[t].payer # None
    <3>1. PICK o \in offers : o.nonce \in Nonce /\ o.nonce = PaidNonce(t)
      BY <2>2, PaidOffer
    <3>2. packIntents'[PaidNonce(t)] = packIntents[PaidNonce(t)]
      <4>1. CASE IntentMirror(r)
        <5>1. req[r].nonce # PaidNonce(t)
          BY <3>1, <4>1 DEF OfferSettled, OnItsWay, IntentMirror
        <5> QED BY <3>1, <4>1, <5>1 DEF IntentMirror, InsertPackIntent, TypeInv, TypeOK
      <4>2. CASE ~IntentMirror(r)
        BY <4>2 DEF ApiStep, IntentIncr, IntentSet, IntentMirrorFails, BuyVerify,
           BuyClaim, BuyCredit, BuyCreditFails, BuyUnclaim, BuyBurn, RequestDies
      <4> QED BY <4>1, <4>2
    <3>3. PaidNonce(t)' = PaidNonce(t) /\ PaidPack(t)' = PaidPack(t)
      BY <1>0 DEF PaidNonce, PaidPack
    <3> QED BY <1>0, <1>2, <3>2, <3>3 DEF Handled, IntentMirrored
  <2> QED BY <2>1, <2>2
<1> QED BY <1>1, <1>2 DEF Handled

(* A mirrored payment is what the reconciler looks for.                    *)
LEMMA MirroredIsPaid ==
  ASSUME TypeInv, PaymentInv, NEW t \in Tx, txs[t].status = "ok", IntentMirrored(t)
  PROVE  txs[t].value > 0 /\ PaidIntent(t) # None
<1>1. PICK o \in offers : /\ o.nonce \in Nonce /\ o.nonce = PaidNonce(t)
                          /\ o.pack \in Pack /\ o.pack = PaidPack(t)
                          /\ txs[t].value = priceWei[o.pack] + o.nonce
  BY PaidOffer DEF IntentMirrored
<1>2. txs[t].value > 0 /\ o.pack \in Affordable(txs[t].value)
  BY <1>1, PackAssumption DEF Affordable, Nonce
<1>3. GetIntent(PaidNonce(t)) = [fid |-> txs[t].payer, pack |-> PaidPack(t)]
  BY <1>1 DEF GetIntent, Lookup, IntentMirrored
<1>4. txs[t].payer \in Fid /\ PaidPack(t) \in Pack
  BY <1>1 DEF IntentMirrored, TypeInv, TypeOK, Payment
<1>5. GetIntent(PaidNonce(t)) # None
  BY <1>3, <1>4, StateAssumption DEF Intent
<1>6. GetIntent(PaidNonce(t)).pack = PaidPack(t)
  BY <1>3
<1>7. PaidIntent(t) = GetIntent(PaidNonce(t))
  BY <1>2, <1>5, <1>6 DEF PaidIntent, PaidNonce, PaidPack
<1> QED BY <1>2, <1>5, <1>7

(* No step undoes what is handled, and a mined payment stays as it is.     *)
LEMMA HandledKept ==
  ASSUME ScanFaults, TypeInv, PaymentInv, OfferSettled, NoUnclaim, [Next]_vars,
         NEW t \in Tx, txs[t].status = "ok", Handled(t)
  PROVE  Handled(t)'
<1>1. txs'[t] = txs[t]
  BY ChainStep
<1>2. ASSUME packIntents' = packIntents, undoPayments[t] # None => undoPayments'[t] # None
      PROVE  Handled(t)'
  BY <1>1, <1>2 DEF Handled, IntentMirrored, PaidNonce, PaidPack
<1>3. ASSUME NEW r \in Req, ApiStep(r) PROVE Handled(t)'
  BY <1>3, HandledApi
<1>4. ASSUME NEW u \in Tx, CreditPayment(u) PROVE Handled(t)'
  <2>1. packIntents' = packIntents
    BY <1>4 DEF CreditPayment
  <2>2. undoPayments[t] # None => undoPayments'[t] = undoPayments[t]
    BY <1>4 DEF CreditPayment, TypeInv, TypeOK
  <2> QED BY <1>2, <2>1, <2>2
<1>5. ASSUME ReconcilerStep, ~\E u \in Tx : CreditPayment(u) PROVE Handled(t)'
  BY <1>2, <1>5 DEF ReconcilerStep, Tick, FetchRange, FetchRangeNulls, CheckPayment,
     ResolveIntent, AdvanceCursor, AbortTick
<1>6. ASSUME NEW u \in Tx, PayTreasury(u) \/ PayStray(u) \/ Mine(u) PROVE Handled(t)'
  BY <1>2, <1>6 DEF PayTreasury, PayStray, Send, Mine
<1>7. ASSUME \/ \E fid \in Fid : ConsumeUndoCredit(fid)
             \/ NewBlock
             \/ \E n \in Nonce : ExpireIntent(n)
             \/ LoseRedis
             \/ UNCHANGED vars
      PROVE  Handled(t)'
  BY <1>2, <1>7 DEF ConsumeUndoCredit, NewBlock, ExpireIntent, LoseRedis, vars
<1> QED BY <1>3, <1>4, <1>5, <1>6, <1>7 DEF Next

-----------------------------------------------------------------------------
(***************************************************************************)
(* The steps of the scan.                                                  *)
(***************************************************************************)

(* A step that leaves the worker and the cursor alone; what it mines comes *)
(* after the blocks of the tick.                                           *)
LEMMA ScanFrame ==
  ASSUME ScanFaults, IInv, TypeInv', ScanInv, [Next]_vars, UNCHANGED <<worker, cursor>>
  PROVE  ScanPosition' /\ ScanDone'
<1>0. /\ head \in Nat /\ head' \in Nat /\ cursor \in Nat
      /\ worker.block \in Nat /\ worker.to \in Nat
  BY StateAssumption DEF IInv, TypeInv, TypeOK, TickState
<1>1. head <= head'
  BY <1>0, ChainStep DEF IInv
<1>2. ScanPosition'
  BY <1>0, <1>1 DEF ScanInv, ScanPosition
<1>3. ASSUME NEW t \in Tx, txs'[t].status = "ok"
      PROVE  \/ txs[t].status = "ok" /\ txs'[t] = txs[t]
             \/ txs'[t].block = head + 1
  <2>1. ASSUME NEW u \in Tx, Mine(u) PROVE txs'[t] = txs[t] \/ txs'[t].block = head + 1
    BY <2>1 DEF Mine, IInv, TypeInv, TypeOK, Payment
  <2>2. ASSUME NEW u \in Tx, PayTreasury(u) \/ PayStray(u)
        PROVE  txs'[t] = txs[t]
    BY <1>3, <2>2 DEF PayTreasury, PayStray, Send, IInv, TypeInv, TypeOK
  <2>3. ASSUME NEW r \in Req, ApiStep(r) PROVE txs' = txs
    BY <2>3 DEF ApiStep, IntentIncr, IntentSet, IntentMirror, IntentMirrorFails, BuyVerify,
       BuyClaim, BuyCredit, BuyCreditFails, BuyUnclaim, BuyBurn, RequestDies
  <2>4. ASSUME ReconcilerStep PROVE txs' = txs
    BY <2>4 DEF ReconcilerStep, Tick, FetchRange, FetchRangeNulls, CheckPayment,
       ResolveIntent, CreditPayment, AdvanceCursor, AbortTick
  <2>5. ASSUME \/ \E fid \in Fid : ConsumeUndoCredit(fid)
               \/ NewBlock
               \/ \E n \in Nonce : ExpireIntent(n)
               \/ LoseRedis
               \/ UNCHANGED vars
        PROVE  txs' = txs
    BY <2>5 DEF ConsumeUndoCredit, NewBlock, ExpireIntent, LoseRedis, vars
  <2>6. txs'[t] = txs[t] \/ txs'[t].block = head + 1
    BY <2>1, <2>2, <2>3, <2>4, <2>5 DEF Next
  <2> QED BY <1>3, <2>6
<1>4. worker.pc # "idle" => head + 1 > worker.to
  BY <1>0, StateAssumption DEF IInv, TickInv
<1>5. ScanDone'
  <2> SUFFICES ASSUME NEW t \in Tx, txs'[t].status = "ok"
               PROVE  /\ txs'[t].block <= cursor => Handled(t)'
                      /\ InBlock /\ txs'[t].block \in worker.block .. worker.to =>
                           t \in worker.todo \/ Handled(t)'
    BY DEF ScanDone, InBlock
  <2>1. CASE txs[t].status = "ok" /\ txs'[t] = txs[t]
    BY <2>1, HandledKept DEF ScanInv, ScanDone, IInv
  <2>2. CASE txs'[t].block = head + 1
    BY <1>0, <1>4, <2>2 DEF ScanInv, ScanPosition, InBlock
  <2> QED BY <1>3, <2>1, <2>2
<1> QED BY <1>2, <1>5

(* The tick goes on in its range with all that is not handled still to do. *)
LEMMA ScanProcess ==
  ASSUME ScanFaults, IInv, TypeInv', ScanInv, ReconcilerStep,
         NEW todo \in SUBSET Tx, Process(todo), worker.pc # "idle",
         UNCHANGED <<head, txs, cursor>>,
         \A t \in Tx : txs[t].status = "ok" /\ txs[t].block \in worker.block .. worker.to
                       => t \in todo \/ Handled(t)'
  PROVE  ScanPosition' /\ ScanDone'
<1>0. [Next]_vars
  BY DEF Next
<1>1. worker'.pc = "process" /\ worker'.todo = todo
      /\ worker'.block = worker.block /\ worker'.to = worker.to
  BY DEF Process, IInv, TypeInv, TypeOK, TickState
<1>2. ScanPosition'
  BY <1>1 DEF ScanInv, ScanPosition
<1>3. ScanDone'
  BY <1>0, <1>1, HandledKept DEF ScanInv, ScanDone, InBlock, IInv
<1> QED BY <1>2, <1>3

LEMMA ScanReconciler ==
  ASSUME SeededInTime, ScanFaults, IInv, TypeInv', ScanInv, ReconcilerStep
  PROVE  ScanPosition' /\ ScanDone'
<1>0. /\ [Next]_vars /\ worker \in TickState /\ cursor \in Nat /\ head \in 0 .. MaxBlock
      /\ TypeInv /\ PaymentInv /\ TickInv /\ OfferSettled /\ NoUnclaim
      /\ ScanPosition /\ ScanDone
  BY DEF Next, IInv, ScanInv, TypeInv, TypeOK
<1>1. \A t \in Tx : txs[t].status = "ok" /\ Handled(t) => Handled(t)'
  BY <1>0, HandledKept
<1>2. CASE Tick
  <2>1. FirstBlock = cursor + 1
    BY <1>0, <1>2, StateAssumption, ScanAssumption
       DEF Tick, FirstBlock, SafeHead, SeededInTime
  <2>2. /\ worker'.pc = "fetch" /\ worker'.block = cursor + 1
        /\ UNCHANGED <<head, txs, cursor>>
    BY <1>2, <2>1 DEF Tick, NoTick
  <2> QED BY <1>0, <1>1, <2>2 DEF ScanPosition, ScanDone, InBlock
<1>3. CASE FetchRange
  <2> DEFINE todo == TreasuryTxsOf(worker.block .. worker.to)
  <2>1. /\ Process(todo) /\ worker.pc # "idle"
        /\ UNCHANGED <<head, txs, cursor>>
        /\ todo \in SUBSET Tx
    BY <1>3 DEF FetchRange, TreasuryTxsOf, TreasuryTxs
  <2>2. ASSUME NEW t \in Tx, txs[t].status = "ok", txs[t].block \in worker.block .. worker.to
        PROVE  t \in todo \/ Handled(t)'
    <3>1. CASE Handled(t)
      BY <1>1, <2>2, <3>1
    <3>2. CASE ~Handled(t)
      <4>1. txs[t].value > 0
        BY <1>0, <2>2, <3>2, MirroredIsPaid DEF Handled
      <4> QED BY <2>2, <4>1 DEF TreasuryTxs, TreasuryTxsOf
    <3> QED BY <3>1, <3>2
  <2> HIDE DEF todo
  <2> QED BY <2>1, <2>2, ScanProcess
<1>4. ASSUME NEW t \in Tx, CheckPayment(t) PROVE ScanPosition' /\ ScanDone'
  <2>1. /\ UNCHANGED <<head, txs, cursor>>
        /\ worker.pc = "process" /\ worker.todo \ {t} \in SUBSET Tx
    BY <1>0, <1>4 DEF CheckPayment, TickState
  <2>2. CASE undoPayments[t] # None
    <3>1. Process(worker.todo \ {t})
      BY <1>4, <2>2 DEF CheckPayment
    <3>2. Handled(t)
      BY <2>2 DEF Handled
    <3>3. \A u \in Tx : txs[u].status = "ok" /\ txs[u].block \in worker.block .. worker.to
            => u \in worker.todo \ {t} \/ Handled(u)'
      BY <1>0, <1>1, <2>1, <3>2 DEF ScanDone, InBlock
    <3> QED BY <2>1, <3>1, <3>3, ScanProcess
  <2>3. CASE undoPayments[t] = None
    <3>1. /\ worker'.pc = "resolve" /\ worker'.todo = worker.todo
          /\ worker'.block = worker.block /\ worker'.to = worker.to
      BY <1>0, <1>4, <2>3 DEF CheckPayment, TickState
    <3> QED BY <1>0, <1>1, <2>1, <3>1 DEF ScanPosition, ScanDone, InBlock
  <2> QED BY <2>2, <2>3
<1>5. ASSUME NEW t \in Tx, ResolveIntent(t) PROVE ScanPosition' /\ ScanDone'
  <2>1. /\ UNCHANGED <<head, txs, cursor>>
        /\ worker.pc = "resolve" /\ worker.todo \ {t} \in SUBSET Tx
    BY <1>0, <1>5 DEF ResolveIntent, TickState
  <2>2. CASE PaidIntent(t) = None
    <3>1. Process(worker.todo \ {t})
      BY <1>5, <2>2 DEF ResolveIntent
    <3>2. txs[t].status = "ok" => Handled(t)
      BY <1>0, <2>2, MirroredIsPaid DEF Handled
    <3>3. \A u \in Tx : txs[u].status = "ok" /\ txs[u].block \in worker.block .. worker.to
            => u \in worker.todo \ {t} \/ Handled(u)'
      BY <1>0, <1>1, <2>1, <3>2 DEF ScanDone, InBlock
    <3> QED BY <2>1, <3>1, <3>3, ScanProcess
  <2>3. CASE PaidIntent(t) # None
    <3>1. /\ worker'.pc = "credit" /\ worker'.todo = worker.todo
          /\ worker'.block = worker.block /\ worker'.to = worker.to
      BY <1>0, <1>5, <2>3 DEF ResolveIntent, TickState
    <3> QED BY <1>0, <1>1, <2>1, <3>1 DEF ScanPosition, ScanDone, InBlock
  <2> QED BY <2>2, <2>3
<1>6. ASSUME NEW t \in Tx, CreditPayment(t) PROVE ScanPosition' /\ ScanDone'
  <2>1. /\ UNCHANGED <<head, txs, cursor>> /\ Process(worker.todo \ {t})
        /\ worker.pc = "credit" /\ worker.tx = t /\ worker.todo \ {t} \in SUBSET Tx
    BY <1>0, <1>6 DEF CreditPayment, TickState
  <2>2. undoPayments'[t] # None
    <3>1. CASE undoPayments[t] # None
      BY <1>6, <3>1 DEF CreditPayment
    <3>2. CASE undoPayments[t] = None
      <4>1. undoPayments'[t] = [fid |-> worker.fid, pack |-> PaidPack(t)]
        BY <1>0, <1>6, <3>2 DEF CreditPayment, PaidPack, TypeInv, TypeOK
      <4>2. worker.fid \in Fid /\ PaidPack(t) \in Pack
        BY <1>0, <2>1 DEF TypeInv, TickCarries
      <4> QED BY <4>1, <4>2, StateAssumption DEF Intent
    <3> QED BY <3>1, <3>2
  <2>3. Handled(t)'
    BY <2>2 DEF Handled
  <2>4. \A u \in Tx : txs[u].status = "ok" /\ txs[u].block \in worker.block .. worker.to
          => u \in worker.todo \ {t} \/ Handled(u)'
    BY <1>0, <1>1, <2>1, <2>3 DEF ScanDone, InBlock
  <2> QED BY <2>1, <2>4, ScanProcess
<1>7. CASE AdvanceCursor
  <2>1. /\ worker.pc = "process" /\ BlockDone /\ cursor' = worker.block
        /\ UNCHANGED <<head, txs>>
        /\ worker'.pc # "idle" =>
             /\ worker'.block = worker.block + 1
             /\ worker'.to = worker.to /\ worker'.todo = worker.todo
    BY <1>0, <1>7 DEF AdvanceCursor, AdvanceTo, NoTick, TickState
  <2>2. worker.block = cursor + 1 /\ worker.block <= worker.to /\ worker.to <= head
    BY <1>0, <2>1, StateAssumption DEF ScanPosition, TickInv, TickState
  <2>3. ASSUME NEW t \in Tx, txs[t].status = "ok", txs[t].block <= cursor'
        PROVE  Handled(t)
    <3>1. txs[t].block \in Nat
      BY <1>0 DEF TypeInv, TypeOK, Payment
    <3>2. txs[t].block <= cursor \/ txs[t].block = worker.block
      BY <1>0, <2>1, <2>2, <2>3, <3>1
    <3>3. worker.block \in worker.block .. worker.to
      BY <1>0, <2>2 DEF TickState
    <3> QED BY <1>0, <2>1, <2>3, <3>2, <3>3 DEF ScanDone, InBlock, BlockDone
  <2>4. ScanPosition'
    BY <1>0, <2>1, <2>2 DEF ScanPosition, TickState
  <2>5. ASSUME NEW t \in Tx, txs[t].status = "ok", InBlock',
               txs[t].block \in worker'.block .. worker'.to
        PROVE  t \in worker'.todo \/ Handled(t)
    <3>1. txs[t].block \in worker.block .. worker.to
      BY <1>0, <2>1, <2>5 DEF InBlock, TypeInv, TypeOK, TickState, Payment
    <3> QED BY <1>0, <2>1, <2>5, <3>1 DEF ScanDone, InBlock
  <2> QED BY <1>1, <2>1, <2>3, <2>4, <2>5 DEF ScanDone
<1>8. CASE AbortTick
  <2>1. worker'.pc = "idle" /\ UNCHANGED <<head, txs, cursor>>
    BY <1>8 DEF AbortTick, NoTick
  <2> QED BY <1>0, <1>1, <2>1 DEF ScanPosition, ScanDone, InBlock
<1>9. ~FetchRangeNulls
  BY DEF FetchRangeNulls, ScanFaults
<1> QED BY <1>2, <1>3, <1>4, <1>5, <1>6, <1>7, <1>8, <1>9 DEF ReconcilerStep

LEMMA ScanInit == Init => ScanInv
BY DEF Init, ScanInv, OfferSettled, OnItsWay, NoUnclaim, ScanPosition, ScanDone,
       NoRequest, NoTick, Unsent

LEMMA ScanStep ==
  ASSUME SeededInTime, ScanFaults, IInv, IInv', ScanInv, [Next]_vars
  PROVE  ScanInv'
<1>0. TypeInv /\ NonceInv /\ TypeInv' /\ OfferSettled /\ NoUnclaim
  BY DEF IInv, ScanInv
<1>1. ASSUME UNCHANGED <<offers, counter, req>> PROVE OfferSettled' /\ NoUnclaim'
  BY <1>0, <1>1, SettledKept DEF NoUnclaim
<1>2. ASSUME NEW r \in Req, ApiStep(r) PROVE ScanInv'
  <2>1. UNCHANGED <<worker, cursor>>
    BY <1>2 DEF ApiStep, IntentIncr, IntentSet, IntentMirror, IntentMirrorFails, BuyVerify,
       BuyClaim, BuyCredit, BuyCreditFails, BuyUnclaim, BuyBurn, RequestDies
  <2>2. OfferSettled' /\ NoUnclaim'
    BY <1>0, <1>2, SettledApi, NoUnclaimApi
  <2> QED BY <1>0, <2>1, <2>2, ScanFrame DEF ScanInv
<1>3. ASSUME ReconcilerStep PROVE ScanInv'
  <2>1. UNCHANGED <<offers, counter, req>>
    BY <1>3 DEF ReconcilerStep, Tick, FetchRange, FetchRangeNulls, CheckPayment,
       ResolveIntent, CreditPayment, AdvanceCursor, AbortTick
  <2> QED BY <1>0, <1>1, <1>3, <2>1, ScanReconciler DEF ScanInv
<1>4. ASSUME NEW t \in Tx, PayTreasury(t) \/ PayStray(t) \/ Mine(t) PROVE ScanInv'
  <2>1. UNCHANGED <<offers, counter, req, worker, cursor>>
    BY <1>4 DEF PayTreasury, PayStray, Send, Mine
  <2> QED BY <1>0, <1>1, <2>1, ScanFrame DEF ScanInv
<1>5. ASSUME \/ \E fid \in Fid : ConsumeUndoCredit(fid)
             \/ NewBlock
             \/ \E n \in Nonce : ExpireIntent(n)
             \/ UNCHANGED vars
      PROVE  ScanInv'
  <2>1. UNCHANGED <<offers, counter, req, worker, cursor>>
    BY <1>5 DEF ConsumeUndoCredit, NewBlock, ExpireIntent, vars
  <2> QED BY <1>0, <1>1, <2>1, ScanFrame DEF ScanInv
<1>6. ~LoseRedis
  BY DEF LoseRedis, ScanFaults
<1> QED BY <1>2, <1>3, <1>4, <1>5, <1>6 DEF Next

(* The cursor passes no mined payment whose intent its buyer's request got *)
(* into pack_intents: it is claimed by then, though ticks fail and are     *)
(* started over at any point, requests die and /buy races the scan         *)
(* (reconciler.go, scanRange and processBlock).                            *)
THEOREM ScanCorrect ==
  ASSUME SeededInTime, ScanFaults
  PROVE  Spec => []NothingLeftBehind
<1>1. ScanInv => NothingLeftBehind
  BY DEF ScanInv, ScanDone, Handled, Passed, NothingLeftBehind
<1>2. IInv /\ IInv' /\ ScanInv /\ [Next]_vars => ScanInv'
  BY ScanStep
<1>3. Spec => []IInv
  BY InvCorrect DEF NoRedisLoss, ScanFaults
<1> QED BY <1>1, <1>2, <1>3, ScanInit, PTL DEF Spec

=============================================================================
