-------------------------------- MODULE Packs --------------------------------
(***************************************************************************)
(* The undo packs the shop sells and the coding of an intent in the value  *)
(* of a payment: amount_wei = price of the pack + nonce of the intent.     *)
(* The table is kept twice, in apps/api/src/shop.ts for the API and in     *)
(* apps/reconciler/packs.go for the reconciler.                            *)
(***************************************************************************)
EXTENDS Integers

CONSTANTS
  Pack,       \* pack ids ("small", "medium", "large")
  priceWei,   \* pack -> price
  undos,      \* pack -> undo credits it grants
  MaxNonce    \* bound on the nonces INCR hands out (in the code: int64)

Nonce == 1 .. MaxNonce

ASSUME PackAssumption ==
  /\ MaxNonce \in Nat
  /\ priceWei \in [Pack -> Nat]
  /\ undos \in [Pack -> Nat \ {0}]

(* No two prices are as close as a nonce can reach: what makes the value   *)
(* of a payment decodable.  The real gap is 869565217391304 wei, between   *)
(* "small" and "medium".                                                   *)
ASSUME NonceGap ==
  \A p, q \in Pack :
    p # q => \/ priceWei[p] + MaxNonce < priceWei[q]
             \/ priceWei[q] + MaxNonce < priceWei[p]

Affordable(value) == {p \in Pack : priceWei[p] <= value}

(* The reconciler's guess at the pack: the dearest one the value covers.   *)
MatchPack(value) ==
  CHOOSE p \in Affordable(value) :
    \A q \in Affordable(value) : priceWei[q] <= priceWei[p]

(* What the wallet is asked to send, and how the nonce is read back.       *)
AmountWei(pack, nonce) == priceWei[pack] + nonce
NonceIn(value, pack) == value - priceWei[pack]
==============================================================================
