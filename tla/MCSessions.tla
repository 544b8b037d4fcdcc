----------------------------- MODULE MCSessions -----------------------------
(* Two accounts, one after the other at an address or each at its own, two *)
(* sessions, and two requests at a time.                                   *)
EXTENDS Sessions, TLC

CONSTANTS a1, a2, m1, m2, q1, q2

MCSymmetry ==
  Permutations({a1, a2}) \cup Permutations({m1, m2}) \cup Permutations(Codes)
  \cup Permutations(Sessions) \cup Permutations({q1, q2})
=============================================================================
