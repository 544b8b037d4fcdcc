------------------------------- MODULE Logins -------------------------------
(***************************************************************************)
(* What the sessions of the API promise: a session opens once and ends     *)
(* once, and a request for a new access token is answered only if it       *)
(* presented a session while that was open.                                *)
(***************************************************************************)
CONSTANTS Sessions, Requests,
          NoSession  \* none of Sessions

VARIABLES
  life,   \* of each session: "none", "open" or "ended"
  admits  \* the session on whose strength each request is being answered

logVars == <<life, admits>>

LogInit ==
  /\ life = [s \in Sessions |-> "none"]
  /\ admits = [q \in Requests |-> NoSession]

Open(s) ==
  /\ life[s] = "none"
  /\ life' = [life EXCEPT ![s] = "open"]
  /\ UNCHANGED admits

\* By itself, on request, or all those of an account together.
End(some) ==
  /\ \A s \in some : life[s] = "open"
  /\ life' = [s \in Sessions |-> IF s \in some THEN "ended" ELSE life[s]]
  /\ UNCHANGED admits

Admit(q, s) ==
  /\ admits[q] = NoSession /\ life[s] = "open"
  /\ admits' = [admits EXCEPT ![q] = s]
  /\ UNCHANGED life

\* Answered, or not after all.
Leave(q) ==
  /\ admits' = [admits EXCEPT ![q] = NoSession]
  /\ UNCHANGED life

LogNext ==
  \/ \E s \in Sessions : Open(s)
  \/ \E some \in SUBSET Sessions : End(some)
  \/ \E q \in Requests : Leave(q) \/ \E s \in Sessions : Admit(q, s)

LogSpec == LogInit /\ [][LogNext]_logVars
=============================================================================
