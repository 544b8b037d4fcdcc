----------------------------- MODULE LlmProofs ------------------------------
(***************************************************************************)
(* What is proved of the charges for LLM work, for any number of executions *)
(* and of model calls in each, at any cost, interleaved in any way with    *)
(* each other and with grants and refunds.                                 *)
(*                                                                         *)
(* An execution is charged once because it is charged by the transaction   *)
(* that ends it: before, there is no entry of its usage, and after, neither *)
(* the usage nor the ledger gets another.  That is ChargedBy, which with   *)
(* the number of calls still to make is inductive.                         *)
(***************************************************************************)
EXTENDS LlmOperations, CreditStoreProofs, FiniteSetTheorems

\* The charge of an execution: none before its transaction, one after it returned,
\* never two, and for what it consumed.
ChargedBy(o) ==
  /\ \A j, k \in Charges(o) : j = k
  /\ \A k \in Charges(o) : left[o] = 0 /\ ledger[k].amount = RoundToCent(-consumed[o])
  /\ step[o] \in {"idle", "create", "call", "record", "deduct", "tx"} => Charges(o) = {}
  /\ step[o] = "returned" => Charges(o) # {}

\* An execution about to call the model has calls left, one about to pay has none.
CallsLeft(o) ==
  /\ step[o] \in {"idle", "create", "call"} => left[o] # 0
  /\ step[o] \in {"deduct", "tx"} => left[o] = 0

\* The inductive invariant.
LlmIInv ==
  /\ LlmTypeOK
  /\ StoreIInv
  /\ \A o \in Ops : ChargedBy(o) /\ CallsLeft(o)

\* Nothing is there at first.
LEMMA LlmInitHolds == LlmInit => LlmIInv
<1> SUFFICES ASSUME LlmInit PROVE LlmIInv
  OBVIOUS
<1>1. StoreIInv
  BY StoreInitIInv DEF LlmInit
<1>2. LlmTypeOK
  BY <1>1, LlmAssumption DEF LlmInit, LlmTypeOK, StoreIInv, Steps, UsageStatus
<1>3. ASSUME NEW o \in Ops PROVE ChargedBy(o) /\ CallsLeft(o)
  <2>1. Charges(o) = {}
    BY DEF LlmInit, StoreInit, Charges
  <2> QED BY <2>1, LlmAssumption DEF LlmInit, ChargedBy, CallsLeft
<1> QED BY <1>1, <1>2, <1>3 DEF LlmIInv

-----------------------------------------------------------------------------
\* The account.

\* Every step keeps the store, and is a step of the account or leaves it alone.
LEMMA LlmStepOfAccount ==
  ASSUME LlmIInv, [LlmNext]_llmVars
  PROVE  StoreIInv' /\ [Account!LedgerNext]_(Account!ledgerVars)
<1> USE DEF LlmIInv
<1>1. ASSUME UNCHANGED storeVars PROVE StoreIInv' /\ UNCHANGED Account!ledgerVars
  BY <1>1 DEF storeVars, StoreIInv, StoreTypeOK, SnapshotFresh, LedgerChain, Account!ledgerVars
<1>2. ASSUME NEW p \in Procs, BeginTx(p) \/ AbortTx(p)
      PROVE  StoreIInv' /\ UNCHANGED Account!ledgerVars
  BY <1>2, ReadKeeps, AbortKeeps DEF BeginTx, AbortTx, Account!ledgerVars
<1>3. ASSUME NEW o \in Ops, OpStep(o) \/ Interrupt(o)
      PROVE  StoreIInv' /\ [Account!LedgerNext]_(Account!ledgerVars)
  <2>1. o \in Procs /\ o \in Refs /\ consumed[o] \in Nat
    BY LlmAssumption DEF LlmTypeOK
  <2>2. CASE Check(o) \/ StartUnchecked(o) \/ CreateUsage(o) \/ Call(o) \/ RecordUsage(o)
             \/ FailToCreate(o) \/ Fail(o) \/ MarkFailed(o)
    BY <1>1, <2>2 DEF Check, StartUnchecked, CreateUsage, Call, RecordUsage, FailToCreate, Fail, MarkFailed
  <2>3. CASE BeginDeduct(o) \/ AbortDeduct(o)
    BY <1>2, <2>1, <2>3 DEF BeginDeduct, AbortDeduct
  <2>4. CASE CommitDeduct(o) \/ CommitUnconfirmed(o)
    <3>1. DeductTx(o, o, consumed[o])
      BY <2>4 DEF CommitDeduct, CommitUnconfirmed
    <3> QED BY <2>1, <3>1, DeductKeeps, DeductRecords
  <2>5. CASE Interrupt(o)
    BY <1>1, <1>2, <2>1, <2>5 DEF Interrupt
  <2> QED BY <1>3, <2>2, <2>3, <2>4, <2>5 DEF OpStep
<1>4. ASSUME NEW p \in Others, OtherStep(p)
      PROVE  StoreIInv' /\ [Account!LedgerNext]_(Account!ledgerVars)
  <2>1. p \in Procs
    BY LlmAssumption
  <2>2. CASE OtherBegin(p) \/ AbortTx(p)
    BY <1>2, <2>1, <2>2 DEF OtherBegin
  <2>3. CASE Grant(p)
    BY <2>1, <2>3, GrantKeeps, GrantRecords, GrantAssumption DEF Grant, EntryTypes
  <2>4. CASE TakeBack(p)
    BY <2>1, <2>4, ReverseKeeps, ReverseRecords, ChargeAssumption DEF TakeBack
  <2> QED BY <1>4, <2>2, <2>3, <2>4 DEF OtherStep
<1>5. CASE UNCHANGED llmVars
  BY <1>1, <1>5 DEF llmVars
<1> QED BY <1>3, <1>4, <1>5 DEF LlmNext

-----------------------------------------------------------------------------
\* The charges of one execution.

\* A commit adds an entry and keeps the others.
LEMMA ChargesAfter ==
  ASSUME StoreTypeOK, NEW e \in Entry, ledger' = Append(ledger, e), NEW o
  PROVE  /\ Charges(o)' = Charges(o) \cup (IF e.type = "USAGE" /\ e.ref = o
                                           THEN {Len(ledger) + 1} ELSE {})
         /\ \A k \in Charges(o) : ledger'[k] = ledger[k]
         /\ ledger'[Len(ledger) + 1] = e
<1>1. ledger \in Seq(Entry)
  BY DEF StoreTypeOK
<1>2. Len(ledger') = Len(ledger) + 1 /\ ledger'[Len(ledger) + 1] = e /\ Len(ledger) \in Nat
  BY <1>1
<1>3. \A k \in 1 .. Len(ledger) : ledger'[k] = ledger[k]
  BY <1>1
<1>4. 1 .. Len(ledger') = 1 .. Len(ledger) \cup {Len(ledger) + 1}
  BY <1>2
<1> QED BY <1>2, <1>3, <1>4 DEF Charges

\* The transaction of a charge adds one entry, for what was consumed.
LEMMA ChargeAdds ==
  ASSUME StoreIInv, NEW p \in Procs, p \in Refs, NEW credits \in Nat, DeductTx(p, p, credits)
  PROVE  \E e \in Entry : /\ ledger' = Append(ledger, e)
                          /\ e.type = "USAGE" /\ e.ref = p /\ e.amount = RoundToCent(-credits)
<1> DEFINE e == [type |-> "USAGE", ref |-> p, amount |-> RoundToCent(-credits),
                 before |-> txn[p].balance, after |-> RoundToCent(txn[p].balance - credits)]
<1>1. txn[p].balance \in Nat /\ txn[p].balance - credits \in Nat /\ -credits \in Int
  BY MoneyTypes DEF DeductTx
<1>2. e \in Entry
  BY <1>1, RoundInt, RoundSign DEF Entry, EntryTypes
<1>3. ledger' = Append(ledger, e)
  BY DEF DeductTx, CommitTx
<1> QED BY <1>2, <1>3

\* What leaves the ledger and an execution alone leaves its charge alone.
LEMMA ChargedAsBefore ==
  ASSUME NEW o \in Ops, ChargedBy(o), Charges(o)' = Charges(o),
         \A k \in Charges(o) : ledger'[k] = ledger[k],
         step'[o] = step[o], left'[o] = left[o], consumed'[o] = consumed[o], CallsLeft(o)
  PROVE  (ChargedBy(o) /\ CallsLeft(o))'
<1>1. CallsLeft(o)'
  BY DEF CallsLeft
<1> QED BY <1>1 DEF ChargedBy

\* The steps of one execution keep its charge.
LEMMA OpKeepsCharge ==
  ASSUME LlmIInv, NEW o \in Ops, OpStep(o) \/ Interrupt(o)
  PROVE  (ChargedBy(o) /\ CallsLeft(o))'
<1> USE DEF LlmIInv
<1>1. step \in [Ops -> Steps] /\ left \in [Ops -> Nat] /\ consumed \in [Ops -> Nat]
  BY DEF LlmTypeOK
<1>2. ChargedBy(o) /\ CallsLeft(o)
  OBVIOUS
<1>3. ASSUME UNCHANGED ledger PROVE Charges(o)' = Charges(o)
  BY <1>3 DEF Charges
<1>4. CASE Check(o)
  BY <1>1, <1>2, <1>3, <1>4 DEF Check, Goto, storeVars, ChargedBy, CallsLeft
<1>5. CASE StartUnchecked(o)
  BY <1>1, <1>2, <1>3, <1>5 DEF StartUnchecked, Goto, storeVars, ChargedBy, CallsLeft
<1>6. CASE CreateUsage(o)
  BY <1>1, <1>2, <1>3, <1>6 DEF CreateUsage, Goto, storeVars, ChargedBy, CallsLeft
<1>7. CASE Call(o)
  <2>1. step'[o] = "record" /\ consumed' = consumed /\ ledger' = ledger /\ Charges(o) = {}
    BY <1>1, <1>2, <1>7 DEF Call, Goto, storeVars, ChargedBy
  <2> QED BY <1>3, <2>1 DEF ChargedBy, CallsLeft
<1>8. CASE RecordUsage(o)
  <2>1. /\ step'[o] = IF left[o] = 0 THEN "deduct" ELSE "call"
        /\ left' = left /\ ledger' = ledger /\ Charges(o) = {}
    BY <1>1, <1>2, <1>8 DEF RecordUsage, Goto, storeVars, ChargedBy
  <2> QED BY <1>3, <2>1 DEF ChargedBy, CallsLeft
<1>9. CASE BeginDeduct(o)
  BY <1>1, <1>2, <1>3, <1>9 DEF BeginDeduct, BeginTx, Goto, ChargedBy, CallsLeft
<1>10. CASE CommitDeduct(o) \/ CommitUnconfirmed(o)
  <2>1. /\ step[o] = "tx" /\ DeductTx(o, o, consumed[o])
        /\ left' = left /\ consumed' = consumed
        /\ step'[o] \in {"returned", "failed", "catch"}
    BY <1>1, <1>10 DEF CommitDeduct, CommitUnconfirmed, Goto, Throw
  <2>0. o \in Procs /\ o \in Refs /\ consumed[o] \in Nat
    BY <1>1, LlmAssumption
  <2>2. PICK e \in Entry : /\ ledger' = Append(ledger, e)
                           /\ e.type = "USAGE" /\ e.ref = o
                           /\ e.amount = RoundToCent(-consumed[o])
    BY <2>0, <2>1, ChargeAdds
  <2>3. /\ Charges(o)' = Charges(o) \cup {Len(ledger) + 1}
        /\ ledger'[Len(ledger) + 1] = e
    BY <2>2, ChargesAfter DEF LlmTypeOK
  <2>4. Charges(o) = {} /\ left[o] = 0
    BY <1>2, <2>1 DEF ChargedBy, CallsLeft
  <2>5. Charges(o)' = {Len(ledger) + 1}
    BY <2>3, <2>4
  <2>6. CallsLeft(o)'
    BY <2>1 DEF CallsLeft
  <2>7. \A k \in Charges(o)' : left'[o] = 0 /\ ledger'[k].amount = RoundToCent(-consumed'[o])
    BY <2>1, <2>2, <2>3, <2>4, <2>5
  <2> QED BY <2>1, <2>5, <2>6, <2>7 DEF ChargedBy
<1>11. CASE FailToCreate(o)
  BY <1>1, <1>2, <1>3, <1>11 DEF FailToCreate, Goto, storeVars, ChargedBy, CallsLeft
<1>12. CASE Fail(o)
  BY <1>1, <1>2, <1>3, <1>12 DEF Fail, Throw, Goto, storeVars, ChargedBy, CallsLeft
<1>13. CASE AbortDeduct(o)
  BY <1>1, <1>2, <1>3, <1>13 DEF AbortDeduct, AbortTx, Throw, Goto, ChargedBy, CallsLeft
<1>14. CASE MarkFailed(o)
  BY <1>1, <1>2, <1>3, <1>14 DEF MarkFailed, Goto, storeVars, ChargedBy, CallsLeft
<1>15. CASE Interrupt(o)
  <2>1. ledger' = ledger
    BY <1>15 DEF Interrupt, AbortTx, storeVars
  <2> QED BY <1>1, <1>2, <1>3, <1>15, <2>1 DEF Interrupt, Goto, ChargedBy, CallsLeft
<1> QED BY <1>4, <1>5, <1>6, <1>7, <1>8, <1>9, <1>10, <1>11, <1>12, <1>13, <1>14, <1>15 DEF OpStep

\* The steps of another execution leave it alone: an entry names the usage it charges.
LEMMA OpKeepsOthers ==
  ASSUME LlmIInv, NEW o \in Ops, NEW q \in Ops, q # o, OpStep(o) \/ Interrupt(o)
  PROVE  (ChargedBy(q) /\ CallsLeft(q))'
<1> USE DEF LlmIInv
<1>1. step'[q] = step[q] /\ left'[q] = left[q] /\ consumed'[q] = consumed[q]
  <2>1. step \in [Ops -> Steps] /\ left \in [Ops -> Nat] /\ consumed \in [Ops -> Nat]
    BY DEF LlmTypeOK
  <2> QED BY <2>1 DEF OpStep, Check, StartUnchecked, CreateUsage, Call, RecordUsage, BeginDeduct,
       CommitDeduct, FailToCreate, Fail, AbortDeduct, CommitUnconfirmed, MarkFailed, Interrupt,
       Throw, Goto
<1>2. CASE DeductTx(o, o, consumed[o])
  <2>1. o \in Procs /\ o \in Refs /\ consumed[o] \in Nat
    BY LlmAssumption DEF LlmTypeOK
  <2>2. PICK e \in Entry : ledger' = Append(ledger, e) /\ e.ref = o
    BY <1>2, <2>1, ChargeAdds
  <2>3. /\ Charges(q)' = Charges(q) \cup (IF e.type = "USAGE" /\ e.ref = q
                                          THEN {Len(ledger) + 1} ELSE {})
        /\ \A k \in Charges(q) : ledger'[k] = ledger[k]
    BY <2>2, ChargesAfter DEF LlmTypeOK
  <2>4. e.ref # q
    BY <2>2
  <2>5. Charges(q)' = Charges(q)
    BY <2>3, <2>4
  <2> QED BY <1>1, <2>3, <2>5, ChargedAsBefore
<1>3. CASE ledger' = ledger
  <2>1. Charges(q)' = Charges(q)
    BY <1>3 DEF Charges
  <2> QED BY <1>1, <1>3, <2>1, ChargedAsBefore
<1>4. DeductTx(o, o, consumed[o]) \/ ledger' = ledger
  BY DEF OpStep, Check, StartUnchecked, CreateUsage, Call, RecordUsage, BeginDeduct, BeginTx,
     CommitDeduct, FailToCreate, Fail, AbortDeduct, AbortTx, CommitUnconfirmed, MarkFailed,
     Interrupt, storeVars
<1> QED BY <1>2, <1>3, <1>4

\* Grants and refunds write no usage entries.
LEMMA OthersKeepCharges ==
  ASSUME LlmIInv, NEW p \in Others, OtherStep(p), NEW q \in Ops
  PROVE  (ChargedBy(q) /\ CallsLeft(q))'
<1> USE DEF LlmIInv
<1>1. step'[q] = step[q] /\ left'[q] = left[q] /\ consumed'[q] = consumed[q]
  BY DEF OtherStep
<1>2. p \in Procs
  BY LlmAssumption
<1>3. CASE ledger' = ledger
  <2>1. Charges(q)' = Charges(q)
    BY <1>3 DEF Charges
  <2> QED BY <1>1, <1>3, <2>1, ChargedAsBefore
<1>4. ASSUME NEW e \in Entry, ledger' = Append(ledger, e), e.type # "USAGE"
      PROVE  (ChargedBy(q) /\ CallsLeft(q))'
  <2>1. /\ Charges(q)' = Charges(q) \cup (IF e.type = "USAGE" /\ e.ref = q
                                          THEN {Len(ledger) + 1} ELSE {})
        /\ \A k \in Charges(q) : ledger'[k] = ledger[k]
    BY <1>4, ChargesAfter DEF LlmTypeOK
  <2>2. Charges(q)' = Charges(q)
    BY <1>4, <2>1
  <2> QED BY <1>1, <2>1, <2>2, ChargedAsBefore
<1>5. CASE OtherBegin(p) \/ AbortTx(p)
  BY <1>3, <1>5 DEF OtherBegin, BeginTx, AbortTx
<1>6. CASE Grant(p)
  <2>1. PICK ref \in Refs, c \in GrantAmounts, type \in {"PURCHASE", "SUBSCRIPTION"} :
          GrantTx(p, type, ref, c)
    BY <1>6 DEF Grant
  <2>2. c \in Nat /\ txn[p].balance \in Nat /\ txn[p].balance + c \in Nat
    BY <1>2, GrantAssumption, MoneyTypes
  <2> DEFINE e == [type |-> type, ref |-> ref, amount |-> RoundToCent(c),
                   before |-> txn[p].balance, after |-> RoundToCent(txn[p].balance + c)]
  <2>3. e \in Entry
    BY <2>2, RoundInt, RoundSign DEF Entry, EntryTypes
  <2>4. ledger' = Append(ledger, e)
    BY <2>1 DEF GrantTx, CommitTx
  <2> QED BY <1>4, <2>3, <2>4
<1>7. CASE TakeBack(p)
  <2>1. PICK ref \in Refs, c \in ChargeAmounts : ReverseTx(p, ref, c)
    BY <1>7 DEF TakeBack
  <2>2. /\ c \in Nat /\ -c \in Int /\ txn[p].balance \in Nat
        /\ ClampAtZero(txn[p].balance - c) \in Nat
    BY <1>2, ChargeAssumption, MoneyTypes
  <2> DEFINE e == [type |-> "REFUND", ref |-> ref, amount |-> RoundToCent(-c),
                   before |-> txn[p].balance,
                   after |-> RoundToCent(ClampAtZero(txn[p].balance - c))]
  <2>3. e \in Entry
    BY <2>2, RoundInt, RoundSign DEF Entry, EntryTypes
  <2>4. ledger' = Append(ledger, e)
    BY <2>1 DEF ReverseTx, CommitTx
  <2> QED BY <1>4, <2>3, <2>4
<1> QED BY <1>5, <1>6, <1>7 DEF OtherStep

-----------------------------------------------------------------------------
\* The executions keep their types.
LEMMA LlmKeepsTypes ==
  ASSUME LlmIInv, [LlmNext]_llmVars
  PROVE  LlmTypeOK'
<1> USE DEF LlmIInv
<1>1. StoreTypeOK'
  BY LlmStepOfAccount DEF StoreIInv
<1>2. ASSUME NEW o \in Ops, OpStep(o) \/ Interrupt(o) PROVE LlmTypeOK'
  <2>1. /\ step \in [Ops -> Steps] /\ left \in [Ops -> Nat] /\ cost \in [Ops -> Nat]
        /\ status \in [Ops -> UsageStatus] /\ consumed \in [Ops -> Nat]
    BY DEF LlmTypeOK
  <2>2. step' \in [Ops -> Steps]
    BY <1>2, <2>1 DEF OpStep, Check, StartUnchecked, CreateUsage, Call, RecordUsage, BeginDeduct,
       CommitDeduct, FailToCreate, Fail, AbortDeduct, CommitUnconfirmed, MarkFailed, Interrupt,
       Throw, Goto, Steps
  <2>3. left' \in [Ops -> Nat] /\ cost' \in [Ops -> Nat]
    <3>1. CASE Call(o)
      <4>1. left[o] \in Nat /\ left[o] # 0
        BY <2>1, <3>1 DEF Call, CallsLeft
      <4>2. left[o] - 1 \in Nat
        BY <4>1
      <4>3. PICK c \in Costs : cost' = [cost EXCEPT ![o] = c]
        BY <3>1 DEF Call
      <4>4. c \in Nat
        BY LlmAssumption
      <4> QED BY <2>1, <3>1, <4>2, <4>3, <4>4 DEF Call
    <3>2. CASE left' = left /\ cost' = cost
      BY <2>1, <3>2
    <3> QED BY <1>2, <3>1, <3>2 DEF OpStep, Check, StartUnchecked, CreateUsage, RecordUsage,
         BeginDeduct, CommitDeduct, FailToCreate, Fail, AbortDeduct, CommitUnconfirmed, MarkFailed,
         Interrupt
  <2>4. status' \in [Ops -> UsageStatus] /\ consumed' \in [Ops -> Nat]
    <3>1. CASE RecordUsage(o)
      BY <2>1, <3>1 DEF RecordUsage, UsageStatus
    <3>2. CASE CreateUsage(o) \/ MarkFailed(o)
      BY <2>1, <3>2 DEF CreateUsage, MarkFailed, UsageStatus
    <3>3. CASE status' = status /\ consumed' = consumed
      BY <2>1, <3>3
    <3> QED BY <1>2, <3>1, <3>2, <3>3 DEF OpStep, Check, StartUnchecked, Call, BeginDeduct,
         CommitDeduct, FailToCreate, Fail, AbortDeduct, CommitUnconfirmed, Interrupt
  <2> QED BY <1>1, <2>2, <2>3, <2>4 DEF LlmTypeOK
<1>3. ASSUME NEW p \in Others, OtherStep(p) PROVE LlmTypeOK'
  BY <1>1, <1>3 DEF OtherStep, LlmTypeOK
<1>4. CASE UNCHANGED llmVars
  BY <1>1, <1>4 DEF llmVars, LlmTypeOK
<1> QED BY <1>2, <1>3, <1>4 DEF LlmNext

\* Every step keeps the invariant.
LEMMA LlmNextKeeps == ASSUME LlmIInv, [LlmNext]_llmVars PROVE LlmIInv'
<1>1. LlmTypeOK' /\ StoreIInv'
  BY LlmKeepsTypes, LlmStepOfAccount
<1>2. ASSUME NEW q \in Ops PROVE (ChargedBy(q) /\ CallsLeft(q))'
  <2>1. CASE UNCHANGED llmVars
    BY <2>1 DEF llmVars, storeVars, LlmIInv, ChargedBy, CallsLeft, Charges
  <2>2. ASSUME NEW o \in Ops, OpStep(o) \/ Interrupt(o) PROVE (ChargedBy(q) /\ CallsLeft(q))'
    BY <2>2, OpKeepsCharge, OpKeepsOthers
  <2>3. ASSUME NEW p \in Others, OtherStep(p) PROVE (ChargedBy(q) /\ CallsLeft(q))'
    BY <2>3, OthersKeepCharges
  <2> QED BY <2>1, <2>2, <2>3 DEF LlmNext
<1> QED BY <1>1, <1>2 DEF LlmIInv

\* The invariant holds in every behaviour of the executions.
THEOREM LlmInvariant == LlmSpec => []LlmIInv
<1>1. LlmIInv /\ [LlmNext]_llmVars => LlmIInv'
  BY LlmNextKeeps
<1> QED BY <1>1, LlmInitHolds, PTL DEF LlmSpec

\* The usage rows and the account keep their types: what was consumed is never
\* negative, and no execution calls the model more often than it has chunks.
THEOREM LlmTypeCorrect == LlmSpec => []LlmTypeOK
<1>1. LlmIInv => LlmTypeOK
  BY DEF LlmIInv
<1> QED BY <1>1, LlmInvariant, PTL

\* Nobody gets an answer without the USAGE entry of its usage in the ledger.
THEOREM AnswersArePaid == LlmSpec => []AnswersAreCharged
<1>1. LlmIInv => AnswersAreCharged
  BY DEF LlmIInv, ChargedBy, AnswersAreCharged
<1> QED BY <1>1, LlmInvariant, PTL

\* An execution is charged at most once, after all its model calls, and for what they
\* cost: whatever it is interleaved with, and also when a commit goes unconfirmed.
THEOREM ChargedOnceForAll == LlmSpec => []ChargeIsConsumption
<1>1. ASSUME LlmIInv PROVE ChargeIsConsumption
  <2>1. ASSUME NEW o \in Ops PROVE Cardinality(Charges(o)) <= 1
    <3>1. \A j, k \in Charges(o) : j = k
      BY <1>1 DEF LlmIInv, ChargedBy
    <3>2. CASE Charges(o) = {}
      BY <3>2, FS_EmptySet
    <3>3. CASE Charges(o) # {}
      <4>1. PICK k : k \in Charges(o)
        BY <3>3
      <4>2. Charges(o) = {k}
        BY <3>1, <4>1
      <4> QED BY <4>2, FS_Singleton
    <3> QED BY <3>2, <3>3
  <2> QED BY <1>1, <2>1 DEF LlmIInv, ChargedBy, ChargeIsConsumption
<1> QED BY <1>1, LlmInvariant, PTL

\* Seen from the account, concurrent executions, grants and refunds are entries that
\* are recorded one at a time and explain the balance.
THEOREM ChargesImplementAccount == LlmSpec => AccountSpec
<1>1. LlmInit => Account!LedgerInit
  BY DEF LlmInit, StoreInit, Account!LedgerInit
<1>2. LlmIInv /\ [LlmNext]_llmVars => [Account!LedgerNext]_(Account!ledgerVars)
  BY LlmStepOfAccount
<1> QED BY <1>1, <1>2, LlmInvariant, PTL DEF LlmSpec, AccountSpec, Account!LedgerSpec
=============================================================================
