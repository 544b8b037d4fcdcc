---------------------------- MODULE CreditLedger ----------------------------
(***************************************************************************)
(* What an organization's credit account promises, without transactions,   *)
(* snapshots or version numbers: a balance that is never negative and a    *)
(* history of entries.  One step records one entry: it starts from the     *)
(* balance of that moment, moves the balance to the entry's balanceAfter,  *)
(* and its amount explains the move.                                       *)
(*                                                                         *)
(* Quantities are integers in units of 1/10000 credit, the precision of    *)
(* LlmUsage.creditsConsumed (prisma/schema.prisma, Decimal(15, 4)).        *)
(* Balances and ledger amounts are Decimal(15, 2): multiples of Cent.      *)
(***************************************************************************)
EXTENDS Integers, Sequences

CONSTANT Refs  \* identifiers of what an entry refers to (payment, usage, ...)

VARIABLES
  balance,     \* Organization.creditBalance
  ledger       \* the organization's CreditTransaction rows, in commit order

ledgerVars == <<balance, ledger>>

Cent == 100

IsCents(x) == x % Cent = 0

EntryTypes == {"PURCHASE", "SUBSCRIPTION", "USAGE", "REFUND"}

Entry == [type : EntryTypes, ref : Refs, amount : Int, before : Nat, after : Nat]

-----------------------------------------------------------------------------

\* A purchase or a subscription grant adds exactly its amount.
Added(e) == /\ e.type \in {"PURCHASE", "SUBSCRIPTION"}
            /\ e.amount >= 0
            /\ e.after = e.before + e.amount

\* A usage charge takes its amount, up to the cent that storing it may round.
Charged(e) == /\ e.type = "USAGE"
              /\ e.amount <= 0
              /\ e.after <= e.before
              /\ e.after - e.before - e.amount \in -Cent .. Cent

\* A refund takes its amount likewise, or whatever is left of the balance.
Reversed(e) == /\ e.type = "REFUND"
               /\ e.amount <= 0
               /\ e.after <= e.before
               /\ \/ e.after - e.before - e.amount \in -Cent .. Cent
                  \/ e.after = 0 /\ e.amount <= -e.before

Explained(e) == Added(e) \/ Charged(e) \/ Reversed(e)

\* e is recorded: it starts from the balance, explains the move to the new
\* balance, and is added to a history that is otherwise left alone.
Record(e) == /\ e \in Entry
             /\ e.before = balance
             /\ Explained(e)
             /\ balance' = e.after
             /\ IsCents(balance')
             /\ ledger' = Append(ledger, e)

LedgerInit == balance = 0 /\ ledger = <<>>

LedgerNext == /\ Len(ledger') = Len(ledger) + 1
              /\ Record(ledger'[Len(ledger')])

LedgerSpec == LedgerInit /\ [][LedgerNext]_ledgerVars
=============================================================================
