----------------------------- MODULE MCLlmJobs ------------------------------
(***************************************************************************)
(* A job with one or two queue entries of three attempts each.             *)
(***************************************************************************)
EXTENDS LlmJobs, TLC
=============================================================================
