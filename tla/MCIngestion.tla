----------------------------- MODULE MCIngestion ----------------------------
(* Two deliveries at once, or one ingest; the older of two things has no   *)
(* author, as far as the provider tells, and is a push with changed files  *)
(* at GitHub; the other one is anything else.                              *)
EXTENDS Ingestion, TLC

CONSTANTS w1, w2, n1, n2, p1, p2, a1, m1, m2

MCHome == [p \in Projects |-> IF p = p2 /\ n2 \in Integrations THEN n2 ELSE n1]
MCAuthorOf == [i \in Items |-> IF i = 2 THEN a1 ELSE NoAuthor]
MCFilePushes == {1}
MCProviders == {"github", "slack", "discord", "notion", "jira", "figma"}
MCMaxRows == [p \in Providers |-> IF p = "github" THEN 2 ELSE 1]
MCThings == [p \in Providers |-> IF p = "github" THEN 2 ELSE 3]
MCCrew == [p \in Providers |-> IF p = "github" THEN Workers ELSE {w1}]
=============================================================================
