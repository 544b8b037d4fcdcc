--------------------------- MODULE MCSubscriptions ---------------------------
(***************************************************************************)
(* A subscription on a small instance: the first period and its renewals,   *)
(* requests to cancel, and one or two webhook requests at a time.           *)
(***************************************************************************)
EXTENDS Subscriptions, TLC

MCRefs == {Sub}
MCProcs == Deliveries
MCGrantAmounts == {300}
MCChargeAmounts == {}

\* Where events come in any order and overlap, one renewal is enough, and the
\* cancellations and the arrears are left to the orderly behaviours: the state space is
\* explored up to there.
MCBound ==
  LET Cancelling == \E c \in Cancels : cancel[c] # "none" IN
  /\ inOrder /\ Cancelling => stripeSub.period <= 1
  /\ ~inOrder => /\ stripeSub.status \in {"absent", "active", "canceled"}
                 /\ stripeSub.status # "absent" => stripeSub.period <= 1
                 /\ ~Cancelling

MCSymmetry == Permutations(Deliveries) \cup Permutations(Cancels)
=============================================================================
