----------------------------- MODULE CreditLedger -----------------------------
(***************************************************************************)
(* What the shop promises a buyer, without processes or stores: a purchase *)
(* is settled at most once, to the account of the one who paid, for what   *)
(* was paid for; and a balance changes for no other reason than a          *)
(* settlement or the owner spending one credit.  Where replies get lost, a *)
(* credit may go unnoticed: the purchase is then not settled, and stays to *)
(* be settled.                                                             *)
(***************************************************************************)
EXTENDS Integers

CONSTANTS Fid, Tx, None, LostReplies

VARIABLES
  purchase,   \* tx -> [fid, undos] once the payment is on the chain
  settled,    \* the purchases known to be credited
  balance     \* fid -> credits

Purchase == [fid : Fid, undos : Nat]

Init ==
  /\ purchase = [t \in Tx |-> None]
  /\ settled = {}
  /\ balance = [f \in Fid |-> 0]

Pay(t) ==
  /\ purchase[t] = None
  /\ purchase'[t] \in Purchase
  /\ purchase' = [purchase EXCEPT ![t] = purchase'[t]]
  /\ UNCHANGED <<settled, balance>>

Credit(t) ==
  /\ purchase[t] # None
  /\ t \notin settled
  /\ balance' = [balance EXCEPT ![purchase[t].fid] = @ + purchase[t].undos]
  /\ UNCHANGED purchase

Settle(t) == Credit(t) /\ settled' = settled \cup {t}

CreditUnnoticed(t) == LostReplies /\ Credit(t) /\ UNCHANGED settled

Spend(f) ==
  /\ balance[f] > 0
  /\ balance' = [balance EXCEPT ![f] = @ - 1]
  /\ UNCHANGED <<purchase, settled>>

Next ==
  \/ \E t \in Tx : Pay(t) \/ Settle(t) \/ CreditUnnoticed(t)
  \/ \E f \in Fid : Spend(f)

Spec == Init /\ [][Next]_<<purchase, settled, balance>>
==============================================================================
