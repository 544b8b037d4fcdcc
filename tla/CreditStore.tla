---------------------------- MODULE CreditStore -----------------------------
(***************************************************************************)
(* The credit account of one organization as the services keep it in       *)
(* PostgreSQL: Organization.creditBalance and Organization.version, and the *)
(* CreditTransaction table.  Every service that moves credits does it in   *)
(* one Prisma interactive transaction with the same shape: read            *)
(* {creditBalance, version}, compute the new balance in the process, then  *)
(*    organization.update({where: {id, version: org.version},              *)
(*                         data: {creditBalance, version: increment 1}})   *)
(*    creditTransaction.create({..., balanceBefore, balanceAfter})         *)
(* PostgreSQL runs it under Read Committed, so between the read and the    *)
(* update any other transaction may commit; the update then matches no     *)
(* row, Prisma throws P2025 and the transaction is rolled back.  Nothing   *)
(* retries it.  A transaction is therefore a read step (BeginTx) and a     *)
(* conditional commit step, or an abort (conflict, timeout, lost           *)
(* connection or crash of the process before the commit).                  *)
(*                                                                         *)
(* This module is the store and the three ways the services move credits;  *)
(* the services themselves EXTEND it.                                      *)
(***************************************************************************)
EXTENDS Integers, Sequences

CONSTANTS
  Procs,          \* requests, webhook deliveries and jobs that run transactions
  Refs,           \* payments, subscriptions and usages that entries refer to
  GrantAmounts,   \* credits a payment or a subscription period grants
  ChargeAmounts   \* credits a usage or a refund takes, at any precision

Cent == 100

IsCents(x) == x % Cent = 0

\* Payment.creditsAmount and Subscription.monthlyCredits are Decimal(15, 2).
ASSUME GrantAssumption == GrantAmounts \subseteq {x \in Nat : IsCents(x)}
ASSUME ChargeAssumption == ChargeAmounts \subseteq Nat

VARIABLES
  balance,  \* Organization.creditBalance
  version,  \* Organization.version
  ledger,   \* the CreditTransaction rows, in commit order
  txn       \* for each process, what its open transaction has read

storeVars == <<balance, version, ledger, txn>>

EntryTypes == {"PURCHASE", "SUBSCRIPTION", "USAGE", "REFUND"}

Entry == [type : EntryTypes, ref : Refs, amount : Int, before : Nat, after : Nat]

Snapshot == [open : BOOLEAN, balance : Nat, version : Nat]

Closed == [open |-> FALSE, balance |-> 0, version |-> 0]

\* PostgreSQL stores a numeric in a Decimal(15, 2) column rounded to the
\* nearest cent, a tie away from zero.
RoundToCent(x) == IF x >= 0
                  THEN ((x + Cent \div 2) \div Cent) * Cent
                  ELSE -(((Cent \div 2 - x) \div Cent) * Cent)

ClampAtZero(x) == IF x >= 0 THEN x ELSE 0

-----------------------------------------------------------------------------

\* tx.organization.findUnique({select: {creditBalance, version}})
BeginTx(p) ==
  /\ ~txn[p].open
  /\ txn' = [txn EXCEPT ![p] = [open |-> TRUE, balance |-> balance, version |-> version]]
  /\ UNCHANGED <<balance, version, ledger>>

\* A mutant of VersionMatches: where: {id}.
VersionIgnored(p) == TRUE

\* where: {id, version: org.version}
VersionMatches(p) == txn[p].version = version

\* Promise.all([tx.organization.update, tx.creditTransaction.create]) and COMMIT.
CommitTx(p, type, ref, amount, newBalance) ==
  /\ txn[p].open
  /\ VersionMatches(p)
  /\ balance' = RoundToCent(newBalance)
  /\ version' = version + 1
  /\ ledger' = Append(ledger, [type   |-> type,
                               ref    |-> ref,
                               amount |-> RoundToCent(amount),
                               before |-> txn[p].balance,
                               after  |-> RoundToCent(newBalance)])
  /\ txn' = [txn EXCEPT ![p] = Closed]

\* Any throw inside the transaction, or the end of the process.
AbortTx(p) ==
  /\ txn[p].open
  /\ txn' = [txn EXCEPT ![p] = Closed]
  /\ UNCHANGED <<balance, version, ledger>>

\* grantCreditsFromPayment and grantSubscriptionCredits
GrantTx(p, type, ref, credits) ==
  CommitTx(p, type, ref, credits, txn[p].balance + credits)

\* A mutant of DeductTx: the entry's amount is not negated.
DeductUnsigned(p, usage, credits) ==
  /\ txn[p].balance >= credits
  /\ CommitTx(p, "USAGE", usage, credits, txn[p].balance - credits)

\* deductCreditsAtomically; when the guard fails the code throws: AbortTx.
DeductTx(p, usage, credits) ==
  /\ txn[p].balance >= credits
  /\ CommitTx(p, "USAGE", usage, -credits, txn[p].balance - credits)

\* processRefund
ReverseTx(p, payment, credits) ==
  CommitTx(p, "REFUND", payment, -credits, ClampAtZero(txn[p].balance - credits))

-----------------------------------------------------------------------------
\* The store under an arbitrary client: any process may start a transaction
\* at any time and finish it in any of the ways the services do.

StoreInit ==
  /\ balance = 0
  /\ version = 0
  /\ ledger = <<>>
  /\ txn = [p \in Procs |-> Closed]

Grant(p) == \E ref \in Refs, c \in GrantAmounts, type \in {"PURCHASE", "SUBSCRIPTION"} :
              GrantTx(p, type, ref, c)

Deduct(p) == \E ref \in Refs, c \in ChargeAmounts : DeductTx(p, ref, c)

TakeBack(p) == \E ref \in Refs, c \in ChargeAmounts : ReverseTx(p, ref, c)

StoreNext ==
  \E p \in Procs : BeginTx(p) \/ Grant(p) \/ Deduct(p) \/ TakeBack(p) \/ AbortTx(p)

StoreSpec == StoreInit /\ [][StoreNext]_storeVars

-----------------------------------------------------------------------------

\* Types, and the balance at cent precision: it is what Decimal(15, 2) holds.
StoreTypeOK ==
  /\ balance \in Nat /\ IsCents(balance)
  /\ version \in Nat
  /\ ledger \in Seq(Entry)
  /\ txn \in [Procs -> Snapshot]

\* The version check makes a snapshot that passes it the current balance: an
\* open transaction never read a later version than the row has, and one that
\* read the row's version read the row's balance.  This is what the "Optimistic
\* locking version for credit balance updates" is for.
SnapshotFresh ==
  \A p \in Procs : txn[p].open =>
    /\ txn[p].version <= version
    /\ txn[p].version = version => txn[p].balance = balance

\* The ledger is a gapless account statement of the balance: the first entry
\* starts from zero, each entry starts from where the one before it ended, the
\* last one ends at the balance, and the version counts the entries.  A lost
\* update of any two concurrent grants, charges or refunds would break it.
LedgerChain ==
  /\ version = Len(ledger)
  /\ \A i \in 1 .. Len(ledger) :
       ledger[i].before = IF i = 1 THEN 0 ELSE ledger[i - 1].after
  /\ balance = IF ledger = <<>> THEN 0 ELSE ledger[Len(ledger)].after

\* The store implements the account it promises: every commit is one recorded
\* entry, every read or abort changes nothing.
Account == INSTANCE CreditLedger WITH balance <- balance, ledger <- ledger, Refs <- Refs
AccountSpec == Account!LedgerSpec
=============================================================================
