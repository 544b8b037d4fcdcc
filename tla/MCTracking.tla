----------------------------- MODULE MCTracking -----------------------------
(***************************************************************************)
(* The features of a project, and a task: two services that share no state, *)
(* so the one or the other moves in a behaviour.                           *)
(***************************************************************************)
EXTENDS Features, Tasks, TLC

CONSTANTS m1, n1, n2, p1, p2, c1, c2, a1, a2, e1, e2

VARIABLE part

MCAuthorOf == [e \in Events |-> IF e = e1 THEN m1 ELSE NoMember]

MCInit == FeatInit /\ TaskInit
          /\ \/ part = "features" /\ ~taskAlone
             \/ part = "tasks" /\ ~featAlone
MCNext ==
  \/ part = "features" /\ FeatNext /\ UNCHANGED <<taskVars, part>>
  \/ part = "tasks" /\ TaskNext /\ UNCHANGED <<featVars, part>>
MCSpec == MCInit /\ [][MCNext]_<<featVars, taskVars, part>>

\* The dates are compared where requests do not overlap; where they do, the status of
\* the features and of the task is left alone.
MCBound ==
  /\ ~featAlone => /\ \A f \in DOMAIN features : features[f].status = "open"
                   /\ \A c \in Calls : /\ call[c].op # "status"
                                      /\ call[c].op \in {"check name", "update"} =>
                                           call[c].status = AsItIs
  /\ ~taskAlone => /\ There => task = Task("open", "none")
                   /\ \A a \in Asks : ask[a].op \notin {"update", "status"}

MCSymmetry == Permutations(Names) \cup Permutations(Calls) \cup Permutations(Asks) \cup Permutations(People)

\* The types of both.
TrackTypeOK == FeatTypeOK /\ TaskTypeOK

\* Completion leaves its date, in both services, while calls do not overlap.
DatesFollowStatus == FeatureIsDated /\ TaskIsDated
=============================================================================
