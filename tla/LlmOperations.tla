--------------------------- MODULE LlmOperations ----------------------------
(***************************************************************************)
(* The credit tracking of LLM work in src/modules/llm/llm.service.ts:       *)
(* executeLlmOperation, generateEmbeddingForContent and                    *)
(* generateEmbeddingForRawEvent, outside development mode, running         *)
(* concurrently for one organization.                                      *)
(*                                                                         *)
(* Each has the same skeleton: check the balance against an estimate,      *)
(* create an LlmUsage row, call OpenAI (once, or once per chunk), add what *)
(* it cost to the row and mark it COMPLETED, and deduct the total in one   *)
(* transaction.  A throw marks the row FAILED and is thrown on.  The       *)
(* embedding of a raw event neither checks the balance nor marks or throws *)
(* anything: its catch only logs.                                          *)
(*                                                                         *)
(* A model call is external: it answers at some cost, or throws (error,    *)
(* timeout, invalid JSON).  The services that sell and refund credits are  *)
(* Others: any transactions of the credit store that are not charges.      *)
(***************************************************************************)
EXTENDS CreditStore, FiniteSets

CONSTANTS
  Ops,         \* the executions; each is named by its LlmUsage row
  Kind,        \* what each of them executes
  Chunks,      \* how many model calls each of them makes
  Estimate,    \* the credits each of them checks for
  Costs,       \* credits one model call may cost
  CreditLimit, \* Organization.creditLimit; null is a limit no balance reaches
  Others,      \* processes that grant or take back credits
  MaxEntries   \* bound: Others start nothing once the ledger is this long

ASSUME LlmAssumption ==
  /\ Ops \subseteq Procs /\ Ops \subseteq Refs
  /\ Others \subseteq Procs /\ Ops \cap Others = {}
  /\ Kind \in [Ops -> {"operation", "content embedding", "event embedding"}]
  /\ Chunks \in [Ops -> Nat \ {0}]
  /\ \A o \in Ops : Kind[o] = "operation" => Chunks[o] = 1
  /\ Estimate \in [Ops -> Nat]
  /\ Costs \subseteq Nat \ {0}
  /\ CreditLimit \in Nat /\ MaxEntries \in Nat

VARIABLES
  step,      \* where each execution is
  left,      \* the model calls it still has to make
  cost,      \* what the last model call cost
  status,    \* LlmUsage.status of each execution
  consumed   \* LlmUsage.creditsConsumed of each execution

llmVars == <<storeVars, step, left, cost, status, consumed>>

Steps == {"idle", "create", "call", "record", "deduct", "tx", "catch",
          "returned", "failed", "refused", "interrupted"}

UsageStatus == {"absent", "PENDING", "COMPLETED", "FAILED"}

LlmInit ==
  /\ StoreInit
  /\ step = [o \in Ops |-> "idle"]
  /\ left = Chunks
  /\ cost = [o \in Ops |-> 0]
  /\ status = [o \in Ops |-> "absent"]
  /\ consumed = [o \in Ops |-> 0]

Goto(o, next) == step' = [step EXCEPT ![o] = next]

-----------------------------------------------------------------------------

\* checkCreditBalance: Decimal.min(creditBalance, creditLimit)
Available == IF balance <= CreditLimit THEN balance ELSE CreditLimit

\* 'Insufficient credits for this operation', or the execution goes on.
Check(o) ==
  /\ step[o] = "idle"
  /\ Kind[o] # "event embedding"
  /\ Goto(o, IF Available >= Estimate[o] THEN "create" ELSE "refused")
  /\ UNCHANGED <<storeVars, left, cost, status, consumed>>

\* generateEmbeddingForRawEvent has no check.
StartUnchecked(o) ==
  /\ step[o] = "idle"
  /\ Kind[o] = "event embedding"
  /\ Goto(o, "create")
  /\ UNCHANGED <<storeVars, left, cost, status, consumed>>

CreateUsage(o) ==
  /\ step[o] = "create"
  /\ status' = [status EXCEPT ![o] = "PENDING"]
  /\ Goto(o, "call")
  /\ UNCHANGED <<storeVars, left, cost, consumed>>

\* OpenAI answers; an embedding is also stored.
Call(o) ==
  /\ step[o] = "call"
  /\ \E c \in Costs : cost' = [cost EXCEPT ![o] = c]
  /\ left' = [left EXCEPT ![o] = @ - 1]
  /\ Goto(o, "record")
  /\ UNCHANGED <<storeVars, status, consumed>>

\* The usage is COMPLETED after every call, before the deduction.
RecordUsage(o) ==
  /\ step[o] = "record"
  /\ consumed' = [consumed EXCEPT ![o] = @ + cost[o]]
  /\ status' = [status EXCEPT ![o] = "COMPLETED"]
  /\ Goto(o, IF left[o] = 0 THEN "deduct" ELSE "call")
  /\ UNCHANGED <<storeVars, left, cost>>

\* deductCreditsAtomically
BeginDeduct(o) ==
  /\ step[o] = "deduct"
  /\ BeginTx(o)
  /\ Goto(o, "tx")
  /\ UNCHANGED <<left, cost, status, consumed>>

\* A mutant of CommitDeduct: the estimate is charged.
CommitEstimate(o) ==
  /\ step[o] = "tx"
  /\ DeductTx(o, o, Estimate[o])
  /\ Goto(o, "returned")
  /\ UNCHANGED <<left, cost, status, consumed>>

CommitDeduct(o) ==
  /\ step[o] = "tx"
  /\ DeductTx(o, o, consumed[o])
  /\ Goto(o, "returned")
  /\ UNCHANGED <<left, cost, status, consumed>>

-----------------------------------------------------------------------------
\* Failures.

\* The catch of an event embedding only logs: the call returns as if it were done.
Throw(o) == Goto(o, IF Kind[o] = "event embedding" THEN "failed" ELSE "catch")

\* The usage row cannot be created: there is no try around it yet.
FailToCreate(o) ==
  /\ step[o] = "create"
  /\ Goto(o, "refused")
  /\ UNCHANGED <<storeVars, left, cost, status, consumed>>

\* OpenAI or the database fails, or the model's answer is not JSON.
Fail(o) ==
  /\ step[o] \in {"call", "record", "deduct"}
  /\ Throw(o)
  /\ UNCHANGED <<storeVars, left, cost, status, consumed>>

\* A mutant of AbortDeduct: an error of the deduction is only logged.
AbortQuietly(o) ==
  /\ step[o] = "tx"
  /\ AbortTx(o)
  /\ Goto(o, "returned")
  /\ UNCHANGED <<left, cost, status, consumed>>

\* 'Insufficient credits', another transaction took the version, or an error.
AbortDeduct(o) ==
  /\ step[o] = "tx"
  /\ AbortTx(o)
  /\ Throw(o)
  /\ UNCHANGED <<left, cost, status, consumed>>

\* The transaction commits and the connection is lost before the answer.
CommitUnconfirmed(o) ==
  /\ step[o] = "tx"
  /\ DeductTx(o, o, consumed[o])
  /\ Throw(o)
  /\ UNCHANGED <<left, cost, status, consumed>>

\* Mark LlmUsage as FAILED
MarkFailed(o) ==
  /\ step[o] = "catch"
  /\ status' = [status EXCEPT ![o] = "FAILED"]
  /\ Goto(o, "failed")
  /\ UNCHANGED <<storeVars, left, cost, consumed>>

\* The process ends, or the update that marks the failure fails itself.
Interrupt(o) ==
  /\ step[o] \in {"create", "call", "record", "deduct", "tx", "catch"}
  /\ IF txn[o].open THEN AbortTx(o) ELSE UNCHANGED storeVars
  /\ Goto(o, "interrupted")
  /\ UNCHANGED <<left, cost, status, consumed>>

-----------------------------------------------------------------------------

OpStep(o) ==
  \/ Check(o) \/ StartUnchecked(o) \/ CreateUsage(o) \/ Call(o) \/ RecordUsage(o)
  \/ BeginDeduct(o) \/ CommitDeduct(o)
  \/ FailToCreate(o) \/ Fail(o) \/ AbortDeduct(o) \/ CommitUnconfirmed(o) \/ MarkFailed(o)

\* The payments side of the same account.
OtherBegin(p) == Len(ledger) < MaxEntries /\ BeginTx(p)

OtherStep(p) ==
  /\ OtherBegin(p) \/ Grant(p) \/ TakeBack(p) \/ AbortTx(p)
  /\ UNCHANGED <<step, left, cost, status, consumed>>

LlmNext ==
  \/ \E o \in Ops : OpStep(o) \/ Interrupt(o)
  \/ \E p \in Others : OtherStep(p)

LlmSpec == LlmInit /\ [][LlmNext]_llmVars

-----------------------------------------------------------------------------

LlmTypeOK ==
  /\ StoreTypeOK
  /\ step \in [Ops -> Steps]
  /\ left \in [Ops -> Nat]
  /\ cost \in [Ops -> Nat]
  /\ status \in [Ops -> UsageStatus]
  /\ consumed \in [Ops -> Nat]

Charges(o) == {k \in 1 .. Len(ledger) : ledger[k].type = "USAGE" /\ ledger[k].ref = o}

\* Nobody gets an answer that was not charged: an execution returns its result
\* only with the USAGE entry of its usage in the ledger.
AnswersAreCharged == \A o \in Ops : step[o] = "returned" => Charges(o) # {}

\* One execution is charged once, and for what all its model calls cost, not for
\* its estimate or a part of it: whatever it is interleaved with, and also when
\* the commit goes unconfirmed.
ChargeIsConsumption ==
  \A o \in Ops :
    /\ Cardinality(Charges(o)) <= 1
    /\ \A k \in Charges(o) : left[o] = 0 /\ ledger[k].amount = RoundToCent(-consumed[o])

-----------------------------------------------------------------------------
\* What the source says of itself and the code does not keep.

\* "type=USAGE: amount < 0": a usage entry takes credits.
UsageTakesCredits ==
  \A k \in 1 .. Len(ledger) : ledger[k].type = "USAGE" => ledger[k].amount < 0

\* COMPLETED is "Operation completed successfully": when an execution is over and
\* its usage is COMPLETED, every model call was answered and the usage charged.
CompletedIsCharged ==
  \A o \in Ops :
    step[o] \in {"returned", "failed"} /\ status[o] = "COMPLETED" => left[o] = 0 /\ Charges(o) # {}

\* PENDING is "Operation pending": an execution that is over is not pending.
PendingIsPending ==
  \A o \in Ops : step[o] \in {"returned", "failed"} => status[o] # "PENDING"

\* "Check if organization has sufficient credits": an execution that passed the
\* check, and costs no more than it checked for, is not refused after the model
\* has answered.
CheckIsEnough ==
  \A o \in Ops :
    step[o] = "tx" /\ Kind[o] # "event embedding" /\ consumed[o] <= Estimate[o]
      => txn[o].balance >= consumed[o]
=============================================================================
