-------------------------- MODULE CreditStoreProofs --------------------------
(***************************************************************************)
(* The credit store keeps its account for every set of processes, of       *)
(* references and of amounts, and for a ledger of any length.              *)
(*                                                                         *)
(* The account statement (LedgerChain) is not inductive: a commit writes   *)
(* balanceBefore from the transaction's snapshot, so one needs to know     *)
(* that the snapshot which passes the version check is the current balance *)
(* (SnapshotFresh), and that the snapshot has a type.  StoreIInv is the    *)
(* three together, and the refinement of CreditLedger follows from it.     *)
(***************************************************************************)
EXTENDS CreditStore, TLAPS

StoreIInv == StoreTypeOK /\ SnapshotFresh /\ LedgerChain

-----------------------------------------------------------------------------
\* Arithmetic of the stored amounts.

\* A stored amount is a whole number of cents.
LEMMA RoundInt ==
  \A x \in Int : RoundToCent(x) \in Int /\ IsCents(RoundToCent(x))
  BY DEF RoundToCent, IsCents, Cent

\* Rounding keeps the sign.
LEMMA RoundSign ==
  \A x \in Int : /\ x >= 0 => RoundToCent(x) >= 0
                 /\ x <= 0 => RoundToCent(x) <= 0
  BY DEF RoundToCent, Cent

\* Rounding moves by at most half a cent.
LEMMA RoundNear ==
  \A x \in Int : RoundToCent(x) - x \in -50 .. 50
  BY DEF RoundToCent, Cent

\* A whole number of cents is stored as it is.
LEMMA RoundCents ==
  \A x \in Int : IsCents(x) => RoundToCent(x) = x
  BY DEF RoundToCent, IsCents, Cent

\* Cents add up to cents.
LEMMA CentsAdd ==
  \A x, y \in Int : IsCents(x) /\ IsCents(y) => IsCents(x + y)
  BY DEF IsCents, Cent

\* Rounding never carries a charge past the balance it was taken from.
LEMMA RoundBelow ==
  \A b, c \in Nat : IsCents(b) => RoundToCent(b - c) <= b
  BY DEF RoundToCent, IsCents, Cent

-----------------------------------------------------------------------------
\* The steps preserve the invariant.

\* A read takes a snapshot of the current version and its balance.
LEMMA ReadKeeps ==
  ASSUME StoreIInv, NEW p \in Procs, BeginTx(p)
  PROVE  StoreIInv'
<1> USE DEF StoreIInv, BeginTx
<1>1. StoreTypeOK'
  BY DEF StoreTypeOK, Snapshot
<1>2. SnapshotFresh'
  BY DEF StoreTypeOK, Snapshot, SnapshotFresh
<1>3. LedgerChain'
  BY DEF LedgerChain
<1> QED BY <1>1, <1>2, <1>3

\* A rollback leaves the rows alone.
LEMMA AbortKeeps ==
  ASSUME StoreIInv, NEW p \in Procs, AbortTx(p)
  PROVE  StoreIInv'
<1> USE DEF StoreIInv, AbortTx
<1>1. StoreTypeOK'
  BY DEF StoreTypeOK, Snapshot, Closed
<1>2. SnapshotFresh'
  BY DEF StoreTypeOK, Snapshot, Closed, SnapshotFresh
<1>3. LedgerChain'
  BY DEF LedgerChain
<1> QED BY <1>1, <1>2, <1>3

\* A commit, whatever it computed, as long as it did not compute a debt: its
\* snapshot is the current balance, so the entry continues the chain.
LEMMA CommitKeeps ==
  ASSUME StoreIInv, NEW p \in Procs, NEW type \in EntryTypes, NEW ref \in Refs,
         NEW amount \in Int, NEW newBalance \in Nat,
         CommitTx(p, type, ref, amount, newBalance)
  PROVE  StoreIInv'
<1> DEFINE after == RoundToCent(newBalance)
           e == [type |-> type, ref |-> ref, amount |-> RoundToCent(amount),
                 before |-> txn[p].balance, after |-> after]
<1>0. after \in Nat /\ IsCents(after) /\ RoundToCent(amount) \in Int
  BY RoundInt, RoundSign
<1>1. txn[p].balance = balance /\ txn[p] \in Snapshot
  BY DEF StoreIInv, StoreTypeOK, SnapshotFresh, CommitTx, VersionMatches
<1>2. e \in Entry
  BY <1>0, <1>1 DEF Entry, Snapshot
<1>3. ledger' = Append(ledger, e) /\ balance' = after /\ version' = version + 1
  BY DEF CommitTx
<1> HIDE DEF e, after
<1>4. ledger \in Seq(Entry) /\ balance \in Nat /\ version \in Nat
  BY DEF StoreIInv, StoreTypeOK
<1>5. StoreTypeOK'
  <2>1. txn' \in [Procs -> Snapshot]
    BY DEF StoreIInv, StoreTypeOK, CommitTx, Snapshot, Closed
  <2> QED BY <1>0, <1>2, <1>3, <1>4, <2>1 DEF StoreTypeOK
<1>6. SnapshotFresh'
  BY <1>3, <1>4 DEF StoreIInv, StoreTypeOK, SnapshotFresh, CommitTx, Snapshot, Closed
<1>7. LedgerChain'
  <2>1. Len(ledger') = Len(ledger) + 1 /\ ledger'[Len(ledger')] = e
    BY <1>2, <1>3, <1>4
  <2>2. \A i \in 1 .. Len(ledger) : ledger'[i] = ledger[i]
    BY <1>2, <1>3, <1>4
  <2>3. e.before = balance /\ e.after = after
    BY <1>1 DEF e
  <2>4. version' = Len(ledger')
    BY <2>1, <1>3 DEF StoreIInv, LedgerChain
  <2>5. balance' = IF ledger' = <<>> THEN 0 ELSE ledger'[Len(ledger')].after
    BY <2>1, <2>3, <1>3, <1>4
  <2>6. ASSUME NEW i \in 1 .. Len(ledger')
        PROVE  ledger'[i].before = IF i = 1 THEN 0 ELSE ledger'[i - 1].after
    <3>1. CASE i \in 1 .. Len(ledger)
      <4>1. ledger'[i] = ledger[i] /\ (i # 1 => ledger'[i - 1] = ledger[i - 1])
        BY <3>1, <2>2, <1>4
      <4> QED BY <3>1, <4>1 DEF StoreIInv, LedgerChain
    <3>2. CASE i = Len(ledger) + 1
      <4>1. CASE ledger = <<>>
        BY <3>2, <4>1, <2>1, <2>3 DEF StoreIInv, LedgerChain
      <4>2. CASE ledger # <<>>
        <5>1. Len(ledger) \in 1 .. Len(ledger)
          BY <4>2, <1>4
        <5>2. balance = ledger[Len(ledger)].after
          BY <4>2 DEF StoreIInv, LedgerChain
        <5>3. i # 1 /\ ledger'[i - 1] = ledger[Len(ledger)] /\ ledger'[i] = e
          BY <3>2, <5>1, <2>1, <2>2
        <5> QED BY <5>2, <5>3, <2>3
      <4> QED BY <4>1, <4>2
    <3> QED BY <3>1, <3>2, <2>1, <1>4
  <2> QED BY <2>4, <2>5, <2>6 DEF LedgerChain
<1> QED BY <1>5, <1>6, <1>7 DEF StoreIInv

-----------------------------------------------------------------------------
\* The three ways of moving credits compute no debt, so they are such commits.

\* What the three ways of moving credits compute is no debt.
LEMMA MoneyTypes ==
  ASSUME StoreIInv, NEW p \in Procs, NEW credits \in Nat
  PROVE  /\ txn[p].balance \in Nat
         /\ txn[p].balance + credits \in Nat
         /\ ClampAtZero(txn[p].balance - credits) \in Nat
         /\ txn[p].balance >= credits => txn[p].balance - credits \in Nat
  BY DEF StoreIInv, StoreTypeOK, Snapshot, ClampAtZero

\* grantCreditsFromPayment and grantSubscriptionCredits.
LEMMA GrantKeeps ==
  ASSUME StoreIInv, NEW p \in Procs, NEW type \in EntryTypes, NEW ref \in Refs,
         NEW credits \in Nat, GrantTx(p, type, ref, credits)
  PROVE  StoreIInv'
  BY MoneyTypes, CommitKeeps DEF GrantTx

\* deductCreditsAtomically.
LEMMA DeductKeeps ==
  ASSUME StoreIInv, NEW p \in Procs, NEW usage \in Refs, NEW credits \in Nat,
         DeductTx(p, usage, credits)
  PROVE  StoreIInv'
<1>1. -credits \in Int /\ "USAGE" \in EntryTypes
  BY DEF EntryTypes
<1> QED BY <1>1, MoneyTypes, CommitKeeps DEF DeductTx

\* processRefund.
LEMMA ReverseKeeps ==
  ASSUME StoreIInv, NEW p \in Procs, NEW payment \in Refs, NEW credits \in Nat,
         ReverseTx(p, payment, credits)
  PROVE  StoreIInv'
<1>1. -credits \in Int /\ "REFUND" \in EntryTypes
  BY DEF EntryTypes
<1> QED BY <1>1, MoneyTypes, CommitKeeps DEF ReverseTx

\* A new organization has nothing.
LEMMA StoreInitIInv == StoreInit => StoreIInv
  BY DEF StoreInit, StoreIInv, StoreTypeOK, SnapshotFresh, LedgerChain, Snapshot,
         Closed, IsCents, Cent

\* Every step of the store keeps the invariant.
LEMMA StoreStepIInv == StoreIInv /\ [StoreNext]_storeVars => StoreIInv'
<1> SUFFICES ASSUME StoreIInv, [StoreNext]_storeVars PROVE StoreIInv'
  OBVIOUS
<1>1. CASE UNCHANGED storeVars
  BY <1>1 DEF storeVars, StoreIInv, StoreTypeOK, SnapshotFresh, LedgerChain
<1>2. ASSUME NEW p \in Procs, BeginTx(p) PROVE StoreIInv'
  BY <1>2, ReadKeeps
<1>3. ASSUME NEW p \in Procs, Grant(p) PROVE StoreIInv'
  BY <1>3, GrantKeeps, GrantAssumption DEF Grant, EntryTypes
<1>4. ASSUME NEW p \in Procs, Deduct(p) PROVE StoreIInv'
  BY <1>4, DeductKeeps, ChargeAssumption DEF Deduct
<1>5. ASSUME NEW p \in Procs, TakeBack(p) PROVE StoreIInv'
  BY <1>5, ReverseKeeps, ChargeAssumption DEF TakeBack
<1>6. ASSUME NEW p \in Procs, AbortTx(p) PROVE StoreIInv'
  BY <1>6, AbortKeeps
<1> QED BY <1>1, <1>2, <1>3, <1>4, <1>5, <1>6 DEF StoreNext

\* The invariant holds in every behaviour of the store.
LEMMA StoreInvariance == StoreSpec => []StoreIInv
<1> QED BY StoreInitIInv, StoreStepIInv, PTL DEF StoreSpec

\* The columns keep their types, and the balance is a non-negative number of
\* cents: no interleaving of grants, charges and refunds makes it a debt.
THEOREM StoreTypeCorrect == StoreSpec => []StoreTypeOK
<1>1. StoreIInv => StoreTypeOK
  BY DEF StoreIInv
<1> QED BY <1>1, StoreInvariance, PTL

\* Optimistic locking does its work: a transaction whose version check passes
\* computed its new balance from the current one.
THEOREM SnapshotsAreFresh == StoreSpec => []SnapshotFresh
<1>1. StoreIInv => SnapshotFresh
  BY DEF StoreIInv
<1> QED BY <1>1, StoreInvariance, PTL

\* The CreditTransaction rows are a gapless statement of the balance: no update
\* is lost, whatever transactions overlap.
THEOREM LedgerIsChain == StoreSpec => []LedgerChain
<1>1. StoreIInv => LedgerChain
  BY DEF StoreIInv
<1> QED BY <1>1, StoreInvariance, PTL

-----------------------------------------------------------------------------
\* The store implements the account.

\* A commit records an entry of the account when its amount explains it.
LEMMA CommitRecords ==
  ASSUME StoreIInv, NEW p \in Procs, NEW type \in EntryTypes, NEW ref \in Refs,
         NEW amount \in Int, NEW newBalance \in Nat,
         CommitTx(p, type, ref, amount, newBalance),
         Account!Explained([type |-> type, ref |-> ref, amount |-> RoundToCent(amount),
                            before |-> balance, after |-> RoundToCent(newBalance)])
  PROVE  Account!LedgerNext
<1> DEFINE e == [type |-> type, ref |-> ref, amount |-> RoundToCent(amount),
                 before |-> balance, after |-> RoundToCent(newBalance)]
<1>1. txn[p].balance = balance /\ balance \in Nat
  BY DEF StoreIInv, StoreTypeOK, SnapshotFresh, CommitTx, VersionMatches
<1>2. e \in Account!Entry /\ e \in Entry
  BY <1>1, RoundInt, RoundSign DEF Account!Entry, Account!EntryTypes, Entry, EntryTypes
<1>3. ledger' = Append(ledger, e) /\ balance' = e.after
  BY <1>1 DEF CommitTx
<1>4. ledger \in Seq(Entry)
  BY DEF StoreIInv, StoreTypeOK
<1>5. Account!IsCents(balance')
  BY <1>3, RoundInt DEF Account!IsCents, Account!Cent, IsCents, Cent
<1>6. e.before = balance /\ Account!Explained(e)
  OBVIOUS
<1> HIDE DEF e
<1>7. Len(ledger') = Len(ledger) + 1 /\ ledger'[Len(ledger')] = e
  BY <1>2, <1>3, <1>4
<1> QED BY <1>2, <1>3, <1>5, <1>6, <1>7 DEF Account!LedgerNext, Account!Record

\* A grant is an entry that adds its amount exactly: amounts are stored in cents.
LEMMA GrantRecords ==
  ASSUME StoreIInv, NEW p \in Procs, NEW type \in {"PURCHASE", "SUBSCRIPTION"},
         NEW ref \in Refs, NEW credits \in Nat, IsCents(credits),
         GrantTx(p, type, ref, credits)
  PROVE  Account!LedgerNext
<1>1. txn[p].balance = balance /\ balance \in Nat /\ IsCents(balance)
  BY DEF StoreIInv, StoreTypeOK, SnapshotFresh, GrantTx, CommitTx, VersionMatches
<1>2. RoundToCent(credits) = credits /\ RoundToCent(balance + credits) = balance + credits
  BY <1>1, RoundCents, CentsAdd
<1>3. Account!Explained([type |-> type, ref |-> ref, amount |-> RoundToCent(credits),
                         before |-> balance, after |-> RoundToCent(balance + credits)])
  BY <1>1, <1>2 DEF Account!Explained, Account!Added
<1>4. type \in EntryTypes /\ credits \in Int /\ balance + credits \in Nat
  BY <1>1 DEF EntryTypes
<1>5. CommitTx(p, type, ref, credits, balance + credits)
  BY <1>1 DEF GrantTx
<1> QED BY <1>3, <1>4, <1>5, CommitRecords

\* Rounding the amount and rounding the balance may part by the cent of a tie.
LEMMA RoundedCharge ==
  \A b, c \in Nat : IsCents(b) /\ b >= c =>
    RoundToCent(b - c) - b - RoundToCent(-c) \in -Cent .. Cent
  BY DEF RoundToCent, IsCents, Cent

\* A refund of more than the balance is recorded as at least the balance.
LEMMA RoundedClear ==
  \A b, c \in Nat : IsCents(b) /\ b < c => RoundToCent(-c) <= -b
  BY DEF RoundToCent, IsCents, Cent

\* A charge is an entry that takes its amount, up to a cent.
LEMMA DeductRecords ==
  ASSUME StoreIInv, NEW p \in Procs, NEW usage \in Refs, NEW credits \in Nat,
         DeductTx(p, usage, credits)
  PROVE  Account!LedgerNext
<1>1. txn[p].balance = balance /\ balance \in Nat /\ IsCents(balance) /\ balance >= credits
  BY DEF StoreIInv, StoreTypeOK, SnapshotFresh, DeductTx, CommitTx, VersionMatches
<1>2. /\ RoundToCent(balance - credits) <= balance
      /\ RoundToCent(-credits) <= 0
      /\ RoundToCent(balance - credits) - balance - RoundToCent(-credits) \in -Cent .. Cent
  BY <1>1, RoundBelow, RoundSign, RoundedCharge
<1>3. Account!Explained([type |-> "USAGE", ref |-> usage, amount |-> RoundToCent(-credits),
                         before |-> balance, after |-> RoundToCent(balance - credits)])
  BY <1>2 DEF Account!Explained, Account!Charged, Account!Cent, Cent
<1>4. "USAGE" \in EntryTypes /\ -credits \in Int /\ balance - credits \in Nat
  BY <1>1 DEF EntryTypes
<1>5. CommitTx(p, "USAGE", usage, -credits, balance - credits)
  BY <1>1 DEF DeductTx
<1> QED BY <1>3, <1>4, <1>5, CommitRecords

\* A refund takes its amount, or what is left.
LEMMA ReverseRecords ==
  ASSUME StoreIInv, NEW p \in Procs, NEW payment \in Refs, NEW credits \in Nat,
         ReverseTx(p, payment, credits)
  PROVE  Account!LedgerNext
<1> DEFINE new == ClampAtZero(balance - credits)
<1>1. txn[p].balance = balance /\ balance \in Nat /\ IsCents(balance)
  BY DEF StoreIInv, StoreTypeOK, SnapshotFresh, ReverseTx, CommitTx, VersionMatches
<1>2. new \in Nat /\ -credits \in Int /\ RoundToCent(-credits) <= 0
  BY <1>1, RoundSign DEF ClampAtZero
<1>3. Account!Explained([type |-> "REFUND", ref |-> payment, amount |-> RoundToCent(-credits),
                         before |-> balance, after |-> RoundToCent(new)])
  <2>1. CASE balance >= credits
    <3>1. new = balance - credits
      BY <1>1, <2>1 DEF ClampAtZero
    <3>2. /\ RoundToCent(new) <= balance
          /\ RoundToCent(new) - balance - RoundToCent(-credits) \in -Cent .. Cent
      BY <1>1, <2>1, <3>1, RoundBelow, RoundedCharge
    <3> HIDE DEF new
    <3> QED BY <1>2, <3>2 DEF Account!Explained, Account!Reversed, Account!Cent, Cent
  <2>2. CASE balance < credits
    <3>1. RoundToCent(new) = 0
      BY <1>1, <2>2, RoundCents DEF ClampAtZero, RoundToCent, Cent
    <3>2. RoundToCent(-credits) <= -balance
      BY <1>1, <2>2, RoundedClear
    <3> HIDE DEF new
    <3> QED BY <1>1, <1>2, <3>1, <3>2 DEF Account!Explained, Account!Reversed
  <2> QED BY <1>1, <2>1, <2>2
<1>4. "REFUND" \in EntryTypes
  BY DEF EntryTypes
<1>5. CommitTx(p, "REFUND", payment, -credits, new)
  BY <1>1 DEF ReverseTx
<1> QED BY <1>2, <1>3, <1>4, <1>5, CommitRecords

\* Every step of the store records one entry, or changes nothing that is seen outside.
LEMMA StoreStepRecords ==
  StoreIInv /\ [StoreNext]_storeVars => [Account!LedgerNext]_(Account!ledgerVars)
<1> SUFFICES ASSUME StoreIInv, [StoreNext]_storeVars
             PROVE  Account!LedgerNext \/ UNCHANGED Account!ledgerVars
  OBVIOUS
<1>1. CASE UNCHANGED storeVars
  BY <1>1 DEF storeVars, Account!ledgerVars
<1>2. ASSUME NEW p \in Procs, BeginTx(p) PROVE UNCHANGED Account!ledgerVars
  BY <1>2 DEF BeginTx, Account!ledgerVars
<1>3. ASSUME NEW p \in Procs, Grant(p) PROVE Account!LedgerNext
  BY <1>3, GrantRecords, GrantAssumption DEF Grant
<1>4. ASSUME NEW p \in Procs, Deduct(p) PROVE Account!LedgerNext
  BY <1>4, DeductRecords, ChargeAssumption DEF Deduct
<1>5. ASSUME NEW p \in Procs, TakeBack(p) PROVE Account!LedgerNext
  BY <1>5, ReverseRecords, ChargeAssumption DEF TakeBack
<1>6. ASSUME NEW p \in Procs, AbortTx(p) PROVE UNCHANGED Account!ledgerVars
  BY <1>6 DEF AbortTx, Account!ledgerVars
<1> QED BY <1>1, <1>2, <1>3, <1>4, <1>5, <1>6 DEF StoreNext

\* Seen from outside, optimistic transactions are atomic entries of an account
\* that is never in debt and whose every move is explained by an amount.
THEOREM StoreImplementsAccount == StoreSpec => AccountSpec
<1>1. StoreInit => Account!LedgerInit
  BY DEF StoreInit, Account!LedgerInit
<1> QED BY <1>1, StoreStepRecords, StoreInvariance, PTL
        DEF StoreSpec, AccountSpec, Account!LedgerSpec
=============================================================================
