----------------------------- MODULE PaymentState -----------------------------
(***************************************************************************)
(* The state the shop's two services share: the Base chain they read, the  *)
(* intents in Redis, the tables in Postgres, and what each process is in   *)
(* the middle of.                                                          *)
(***************************************************************************)
EXTENDS Packs

CONSTANTS
  Fid,        \* Farcaster users
  Tx,         \* transaction hashes
  Req,        \* slots for API requests in flight
  None,       \* "no row", "no key", "no value"
  MinConf,    \* UNDO_MIN_CONFIRMATIONS, of both services
  MaxBlock,   \* bound: the chain stops growing here
  MaxUndos,   \* bound: no reply is lost that leaves a balance above this
  Faults      \* the failures a run lets happen

Intent == [fid : Fid, pack : Pack]

ASSUME StateAssumption ==
  /\ MinConf \in Nat
  /\ MaxBlock \in Nat
  /\ MaxUndos \in Nat
  /\ None \notin Fid \cup Tx \cup Pack \cup Intent
  /\ None \notin [fid : Fid, undos : Nat]
  /\ Faults \subseteq {"mirror", "db", "reply", "crash", "lag", "flush"}

VARIABLES
  head,          \* chain: number of the last block
  txs,           \* chain: payments to the treasury, by hash
  counter,       \* Redis: pack:intent:counter
  redisIntent,   \* Redis: pack:intent:<nonce>
  packIntents,   \* Postgres: pack_intents, by nonce
  undoPayments,  \* Postgres: undo_payments, by tx_hash
  undoCredits,   \* Postgres: undo_credits, by fid
  cursor,        \* Postgres: reconciler_cursor.last_block
  req,           \* API: the requests in flight
  worker,        \* reconciler: where its tick is
  offers,        \* clients: the replies of /packs/intent
  credited,      \* history: payments whose undos reached a balance
  unacked        \* history: those of them whose last credit lost its reply

chainVars == <<head, txs>>
redisVars == <<counter, redisIntent>>
creditVars == <<undoPayments, undoCredits, credited, unacked>>
vars == <<head, txs, counter, redisIntent, packIntents, undoPayments,
          undoCredits, cursor, req, worker, offers, credited, unacked>>

(***************************************************************************)
(* Payments as the chain shows them.  payer is the user whose client sent  *)
(* it, None for a transfer no intent asked for; no service can read it.    *)
(***************************************************************************)
Payment == [status : {"none", "sent", "ok", "reverted"},
            value : Nat, payer : Fid \cup {None}, block : Nat]

Unsent == [status |-> "none", value |-> 0, payer |-> None, block |-> 0]

Confirmed(t) == txs[t].status = "ok" /\ head - txs[t].block >= MinConf

(***************************************************************************)
(* A request in flight, and the reconciler's position in its tick.         *)
(***************************************************************************)
ApiRequest == [pc : {"idle", "set", "mirror", "claim", "credit", "unclaim", "burn"},
               fid : Fid \cup {None}, pack : Pack \cup {None},
               nonce : 0 .. MaxNonce, tx : Tx \cup {None}]

NoRequest == [pc |-> "idle", fid |-> None, pack |-> None, nonce |-> 0, tx |-> None]

TickState == [pc : {"idle", "fetch", "process", "resolve", "credit"},
              block : Nat, to : Nat, todo : SUBSET Tx,
              tx : Tx \cup {None}, fid : Fid \cup {None}]

NoTick == [pc |-> "idle", block |-> 0, to |-> 0, todo |-> {},
           tx |-> None, fid |-> None]

(* A key or row that may be missing; a nonce outside Nonce names none.     *)
Lookup(table, nonce) == IF nonce \in Nonce THEN table[nonce] ELSE None

(***************************************************************************)
(* addUndoCredits: the upsert that adds a pack's undos to a balance.       *)
(***************************************************************************)
AddUndoCredits(fid, pack, t) ==
  /\ undoCredits' = [undoCredits EXCEPT ![fid] = @ + undos[pack]]
  /\ credited' = credited \cup {t}

(* Every variable holds what the code can put there.                       *)
TypeOK ==
  /\ head \in 0 .. MaxBlock
  /\ txs \in [Tx -> Payment]
  /\ counter \in 0 .. MaxNonce
  /\ redisIntent \in [Nonce -> Intent \cup {None}]
  /\ packIntents \in [Nonce -> Intent \cup {None}]
  /\ undoPayments \in [Tx -> Intent \cup {None}]
  /\ undoCredits \in [Fid -> Nat]
  /\ cursor \in Nat
  /\ req \in [Req -> ApiRequest]
  /\ worker \in TickState
  /\ offers \subseteq [nonce : Nonce, fid : Fid, pack : Pack]
  /\ credited \subseteq Tx
  /\ unacked \subseteq credited

Init ==
  /\ head = 0
  /\ txs = [t \in Tx |-> Unsent]
  /\ counter = 0
  /\ redisIntent = [n \in Nonce |-> None]
  /\ packIntents = [n \in Nonce |-> None]
  /\ undoPayments = [t \in Tx |-> None]
  /\ undoCredits = [f \in Fid |-> 0]
  /\ cursor = 0
  /\ req = [r \in Req |-> NoRequest]
  /\ worker = NoTick
  /\ offers = {}
  /\ credited = {}
  /\ unacked = {}
==============================================================================
