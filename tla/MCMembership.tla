---------------------------- MODULE MCMembership ----------------------------
(* The owner and one other person, two addresses, one custom role, one     *)
(* permission.                                                             *)
EXTENDS Membership, TLC

CONSTANTS o, u, a1, a2, r1, p1, q1, q2

MCGranted == [OWNER |-> {p1}, ADMIN |-> {p1}]
MCOffers == {<<"ADMIN", NoRole>>, <<NoPredefined, r1>>, <<"OWNER", NoRole>>}
\* Addresses change where there is no custom role.  While requests overlap, a third row, a
\* custom role (and then one invite) or a change of address: one of them.
MCPlain == \A r \in Roles : roles[r] = "unmade"
MCBound ==
  /\ moves = 0 \/ MCPlain
  /\ course = "together" =>
       /\ moves = 0 \/ Len(members) <= 2
       /\ MCPlain \/ (Len(members) <= 2 /\ Len(invites) <= 1)
MCSymmetry == Permutations(Requests) \cup Permutations(Addresses)
=============================================================================
