--------------------------- MODULE MCIntegrations ---------------------------
(* Either the GitHub integrations of two organizations, or the integration *)
(* of one of the other apps.                                               *)
EXTENDS Installations, AppConfigs

CONSTANTS o1, o2, s1, s2, s3, g1, g2, i1, i2, r1, r2, q1, q2

VARIABLE part  \* what this behaviour is about

MCReposOf == (i1 :> <<r1>>) @@ (i2 :> <<r2>>)

MCVars == <<instVars, appVars, part>>

MCInit ==
  /\ InstInit /\ AppInit
  /\ \/ part = "github" /\ app = "slack" /\ conduct = "calm"
     \/ part = "apps" /\ course = "calm" /\ slug = (o1 :> s1) @@ (o2 :> s2)
MCNext ==
  \/ part = "github" /\ InstNext /\ UNCHANGED <<appVars, part>>
  \/ part = "apps" /\ AppNext /\ UNCHANGED <<instVars, part>>
MCSpec == MCInit /\ [][MCNext]_MCVars

-----------------------------------------------------------------------------
\* Bounds.

Doing(ops) == {q \in Requests : call[q].op \in ops}
Shown == (\E s \in Slugs : cache[s] # NoEntry)
         \/ Doing({"read org", "look", "build", "keep entry"}) # {}
Read == (\E o \in Orgs : resources[o] # <<>> \/ row[o].token # NoToken)
        \/ Doing({"token", "mint", "keep token", "use", "upsert"}) # {}

\* A status is shown or repositories are read, not both, and of one organization; an
\* account is left for another while there is one installation.
CalmBound ==
  /\ ~(Shown /\ Read)
  /\ deserted # {} => ~Read /\ phase[i2] = "new"
  /\ Read => phase[i2] # "gone" /\ Cardinality(UNION {users[o] : o \in Orgs}) <= 1
  /\ \E o \in Orgs : resources[o] = <<>> /\ row[o].token = NoToken

\* Neither; the requests that write, one of each kind.
FreeBound ==
  /\ ~Shown /\ ~Read /\ phase[i2] = "new"
  /\ Cardinality(vouched) <= 1
  /\ Cardinality(authorized[o1]) + Cardinality(authorized[o2])
       <= IF phase[i1] = "gone" THEN 2 ELSE 3
  /\ \A kind \in {{"compare"}, {"authorize", "replace"}, {"link", "unlink"}} :
       Cardinality(Doing(kind)) <= 1
  /\ Doing({"mark", "find peers", "find slug", "drop", "find keys"}) = {}

\* The third slug is asked for, and nobody takes it.
MCBound ==
  /\ part = "github" =>
       /\ \A o \in Orgs : slug[o] # s3
       /\ IF course = "calm" THEN CalmBound ELSE FreeBound
  /\ part = "apps" /\ conduct = "free" => grants <= 2

MCSymmetry ==
  Permutations({o1, o2}) \cup Permutations({g1, g2}) \cup Permutations({q1, q2})

\* The shapes of the state of both parts.
IntTypeOK == InstTypeOK /\ ConfigTypeOK
=============================================================================
