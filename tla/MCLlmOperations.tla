-------------------------- MODULE MCLlmOperations ---------------------------
(***************************************************************************)
(* An operation, a content embedding of two chunks and an event embedding  *)
(* of two chunks share an account with a payment service.  Model calls     *)
(* cost 13 units (a gpt-4o-mini operation of a few hundred tokens is       *)
(* 0.0013 credits) or 60 (over half a cent); a purchase is one cent.       *)
(***************************************************************************)
EXTENDS LlmOperations, TLC

CONSTANTS op1, op2, content, event, purchase, payer

MCRefs == Ops \cup {purchase}
MCProcs == Ops \cup Others

MCKind == [o \in Ops |-> CASE o = content -> "content embedding"
                           [] o = event -> "event embedding"
                           [] OTHER -> "operation"]
MCChunks == [o \in Ops |-> IF MCKind[o] = "operation" THEN 1 ELSE 2]
MCEstimate == [o \in Ops |-> 60]
MCCosts == {13, 60}
MCGrantAmounts == {100}
MCChargeAmounts == {100}
=============================================================================
