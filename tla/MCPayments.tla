----------------------------- MODULE MCPayments -----------------------------
(***************************************************************************)
(* Purchases and refunds on a small instance: a payment of 2 currency units *)
(* buys 4 cents of credit, refunds take half or all of it.                 *)
(***************************************************************************)
EXTENDS Payments, TLC

MCRefs == Intents
MCProcs == Deliveries \cup Refunders
MCGrantAmounts == {400}
MCChargeAmounts == {200, 400}
MCRefundAmounts == {1, 2}

MCSymmetry == Permutations(Intents) \cup Permutations(Deliveries) \cup Permutations(Refunders)
=============================================================================
