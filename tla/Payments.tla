------------------------------ MODULE Payments ------------------------------
(***************************************************************************)
(* One-time credit purchases and their refunds: PaymentsService of          *)
(* src/modules/payments/payments.service.ts in production mode, the Stripe  *)
(* events that drive it, and the credit store it writes to.                 *)
(*                                                                         *)
(* Stripe (not under src/) is modelled from how the service uses it: a      *)
(* payment intent may be declined before it succeeds, both produce an       *)
(* event, an event is delivered in any order and again until the webhook    *)
(* route answers 2xx (it is acknowledged), and now and then once more; a    *)
(* refund is refused when it exceeds what is left of the charge.            *)
(*                                                                         *)
(* A webhook delivery and a refund request are processes that stop at each  *)
(* await where something another process may change is read or written.    *)
(* Any throw makes the route answer an error: the event stays unacked.      *)
(***************************************************************************)
EXTENDS CreditStore, FiniteSets, SequencesExt

CONSTANTS
  Intents,        \* Stripe payment intents; Payment.stripePaymentId is unique,
                  \* so a Payment row is named by its intent
  Deliveries,     \* webhook requests that can be in progress at once
  Refunders,      \* refund requests that can be in progress at once
  Price,          \* Payment.amount of every payment, in units of its currency
  Credits,        \* Payment.creditsAmount of every payment
  RefundAmounts,  \* amounts a refund request may name
  MaxDuplicates   \* bound on deliveries of an event that is already acked

ASSUME PayAssumption ==
  /\ Intents \subseteq Refs
  /\ Deliveries \subseteq Procs /\ Refunders \subseteq Procs
  /\ Deliveries \cap Refunders = {}
  /\ IsFiniteSet(Deliveries) /\ IsFiniteSet(Refunders)
  /\ Price \in Nat \ {0} /\ RefundAmounts \subseteq Nat \ {0}
  /\ Credits \in GrantAmounts /\ Credits # 0
  /\ \A a \in RefundAmounts : (a * Credits) \div Price \in ChargeAmounts
  /\ MaxDuplicates \in Nat

VARIABLES
  intent,      \* Stripe's state of each payment intent
  refunded,    \* Stripe: what each charge has been refunded
  emitted,     \* Stripe: the events produced so far
  acked,       \* Stripe: the events some delivery of which was answered 2xx
  duplicates,  \* Stripe: deliveries made of acked events
  row,         \* the Payment rows
  delivery,    \* what each webhook request is doing
  refund       \* what each refund request is doing

stripeVars == <<intent, refunded, emitted, acked, duplicates>>
payVars == <<storeVars, stripeVars, row, delivery, refund>>

EventTypes == {"succeeded", "failed"}  \* payment_intent.succeeded, .payment_failed
Event == [type : EventTypes, intent : Intents]

PaymentStatus == {"absent", "PENDING", "SUCCEEDED", "FAILED", "REFUNDED"}
Row == [status : PaymentStatus, charged : BOOLEAN, refundAmount : Nat]
NoRow == [status |-> "absent", charged |-> FALSE, refundAmount |-> 0]

Idle == [step |-> "idle"]
Delivering == [step : {"grant", "dedupe", "begin", "commit"}, event : Event]
Refunding == [step : {"checked", "refunded", "tx"}, intent : Intents, amount : RefundAmounts]

\* Some CreditTransaction of this type refers to the payment.
HasEntry(type, i) == \E k \in 1 .. Len(ledger) : ledger[k].type = type /\ ledger[k].ref = i

\* A mutant of Granted: findFirst looks for entries of another type.
GrantedByWrongType(i) == HasEntry("REFUND", i)

\* Check if credits already granted
Granted(i) == HasEntry("PURCHASE", i)

\* refundAmount.div(payment.amount).times(payment.creditsAmount)
CreditsToRefund(amount) == (amount * Credits) \div Price

\* processRefund updates the Payment row first: the row stays locked until its
\* transaction ends, and every other update of the row waits for it.
RowLocked(i) == \E r \in Refunders : refund[r].step = "tx" /\ refund[r].intent = i

PayInit ==
  /\ StoreInit
  /\ intent = [i \in Intents |-> "none"]
  /\ refunded = [i \in Intents |-> 0]
  /\ emitted = {} /\ acked = {} /\ duplicates = 0
  /\ row = [i \in Intents |-> NoRow]
  /\ delivery = [h \in Deliveries |-> Idle]
  /\ refund = [r \in Refunders |-> Idle]

-----------------------------------------------------------------------------
\* Creating and paying an intent.

\* createPaymentIntent: the intent, then the row; the client gets the secret
\* that lets it pay only after both, so nothing happens to the intent between.
CreatePaymentIntent(i) ==
  /\ intent[i] = "none"
  /\ intent' = [intent EXCEPT ![i] = "unpaid"]
  /\ row' = [row EXCEPT ![i].status = "PENDING"]
  /\ UNCHANGED <<storeVars, refunded, emitted, acked, duplicates, delivery, refund>>

\* An intent of the same Stripe account that has no Payment row: Stripe makes
\* one for every invoice of a subscription.
OtherIntent(i) ==
  /\ intent[i] = "none"
  /\ intent' = [intent EXCEPT ![i] = "unpaid"]
  /\ UNCHANGED <<storeVars, refunded, emitted, acked, duplicates, row, delivery, refund>>

\* The customer's card is declined (once per intent, which bounds the model).
Decline(i) ==
  /\ intent[i] = "unpaid"
  /\ intent' = [intent EXCEPT ![i] = "declined"]
  /\ emitted' = emitted \cup {[type |-> "failed", intent |-> i]}
  /\ UNCHANGED <<storeVars, refunded, acked, duplicates, row, delivery, refund>>

Pay(i) ==
  /\ intent[i] \in {"unpaid", "declined"}
  /\ intent' = [intent EXCEPT ![i] = "succeeded"]
  /\ emitted' = emitted \cup {[type |-> "succeeded", intent |-> i]}
  /\ UNCHANGED <<storeVars, refunded, acked, duplicates, row, delivery, refund>>

-----------------------------------------------------------------------------
\* Webhook deliveries.

\* Stripe makes a delivery of e to a free request h.
Deliver(h, e) ==
  /\ delivery[h] = Idle
  /\ e \in emitted
  /\ IF e \in acked THEN duplicates < MaxDuplicates /\ duplicates' = duplicates + 1
                     ELSE UNCHANGED duplicates

Ack(e) == acked' = acked \cup {e}

\* Both handlers return at once when no Payment row has the intent's id.
IgnoreUnknown(h, e) ==
  /\ Deliver(h, e)
  /\ row[e.intent] = NoRow
  /\ Ack(e)
  /\ UNCHANGED <<storeVars, intent, refunded, emitted, row, delivery, refund>>

\* handlePaymentIntentFailed: the status is overwritten whatever it was.
RecordFailure(h, e) ==
  /\ Deliver(h, e)
  /\ e.type = "failed"
  /\ row[e.intent] # NoRow
  /\ ~RowLocked(e.intent)
  /\ row' = [row EXCEPT ![e.intent].status = "FAILED"]
  /\ Ack(e)
  /\ UNCHANGED <<storeVars, intent, refunded, emitted, delivery, refund>>

\* A mutant of RecordSuccess: the case of payment_failed falls through to it.
RecordAnyOutcome(h, e) ==
  /\ Deliver(h, e)
  /\ row[e.intent] # NoRow
  /\ ~RowLocked(e.intent)
  /\ row' = [row EXCEPT ![e.intent].status = "SUCCEEDED", ![e.intent].charged = TRUE]
  /\ delivery' = [delivery EXCEPT ![h] = [step |-> "grant", event |-> e]]
  /\ UNCHANGED <<storeVars, intent, refunded, emitted, acked, refund>>

\* handlePaymentIntentSucceeded up to its call of grantCreditsFromPayment.
RecordSuccess(h, e) ==
  /\ Deliver(h, e)
  /\ e.type = "succeeded"
  /\ row[e.intent] # NoRow
  /\ ~RowLocked(e.intent)
  /\ row' = [row EXCEPT ![e.intent].status = "SUCCEEDED", ![e.intent].charged = TRUE]
  /\ delivery' = [delivery EXCEPT ![h] = [step |-> "grant", event |-> e]]
  /\ UNCHANGED <<storeVars, intent, refunded, emitted, acked, refund>>

Goto(h, step) == delivery' = [delivery EXCEPT ![h].step = step]

Return(h) == delivery' = [delivery EXCEPT ![h] = Idle]

\* A mutant of CheckStatus: it returns where the code throws.
CheckStatusQuietly(h) ==
  /\ delivery[h].step = "grant"
  /\ IF row[delivery[h].event.intent].status = "SUCCEEDED"
     THEN Goto(h, "dedupe") /\ UNCHANGED acked
     ELSE Return(h) /\ Ack(delivery[h].event)
  /\ UNCHANGED <<storeVars, intent, refunded, emitted, duplicates, row, refund>>

\* grantCreditsFromPayment reads the payment again, and goes on or throws.
CheckStatus(h) ==
  /\ delivery[h].step = "grant"
  /\ IF row[delivery[h].event.intent].status = "SUCCEEDED"
     THEN Goto(h, "dedupe")
     ELSE Return(h)
  /\ UNCHANGED <<storeVars, stripeVars, row, refund>>

\* creditTransaction.findFirst: no transaction is open yet.
CheckGranted(h) ==
  /\ delivery[h].step = "dedupe"
  /\ IF Granted(delivery[h].event.intent)
     THEN Return(h) /\ Ack(delivery[h].event)
     ELSE Goto(h, "begin") /\ UNCHANGED acked
  /\ UNCHANGED <<storeVars, intent, refunded, emitted, duplicates, row, refund>>

BeginGrant(h) ==
  /\ delivery[h].step = "begin"
  /\ BeginTx(h)
  /\ Goto(h, "commit")
  /\ UNCHANGED <<stripeVars, row, refund>>

CommitGrant(h) ==
  /\ delivery[h].step = "commit"
  /\ GrantTx(h, "PURCHASE", delivery[h].event.intent, Credits)
  /\ Return(h)
  /\ Ack(delivery[h].event)
  /\ UNCHANGED <<intent, refunded, emitted, duplicates, row, refund>>

\* The grant's transaction fails: another transaction took the version, a
\* timeout, a lost connection or the end of the process.
AbortGrant(h) ==
  /\ delivery[h].step = "commit"
  /\ AbortTx(h)
  /\ Return(h)
  /\ UNCHANGED <<stripeVars, row, refund>>

\* A mutant of DropDelivery: the route catches the error and answers 2xx.
DropAndAck(h) ==
  /\ delivery[h].step \in {"grant", "dedupe", "begin"}
  /\ Return(h)
  /\ Ack(delivery[h].event)
  /\ UNCHANGED <<storeVars, intent, refunded, emitted, duplicates, row, refund>>

\* Any other await of the delivery throws, or the process ends there.
DropDelivery(h) ==
  /\ delivery[h].step \in {"grant", "dedupe", "begin"}
  /\ Return(h)
  /\ UNCHANGED <<storeVars, stripeVars, row, refund>>

-----------------------------------------------------------------------------
\* Refund requests.

\* A mutant of RequestRefund: processRefund is reached without a Stripe refund.
RequestUnbackedRefund(r, i, amount) ==
  /\ refund[r] = Idle
  /\ row[i].status = "SUCCEEDED" /\ row[i].charged
  /\ refund' = [refund EXCEPT ![r] = [step |-> "refunded", intent |-> i, amount |-> amount]]
  /\ UNCHANGED <<storeVars, stripeVars, row, delivery>>

\* refundPayment: 'Can only refund succeeded payments', and with a charge.
RequestRefund(r, i, amount) ==
  /\ refund[r] = Idle
  /\ row[i].status = "SUCCEEDED" /\ row[i].charged
  /\ refund' = [refund EXCEPT ![r] = [step |-> "checked", intent |-> i, amount |-> amount]]
  /\ UNCHANGED <<storeVars, stripeVars, row, delivery>>

\* stripe.refunds.create({charge, amount})
StripeRefund(r) ==
  /\ refund[r].step = "checked"
  /\ refunded[refund[r].intent] + refund[r].amount <= Price
  /\ refunded' = [refunded EXCEPT ![refund[r].intent] = @ + refund[r].amount]
  /\ refund' = [refund EXCEPT ![r].step = "refunded"]
  /\ UNCHANGED <<storeVars, intent, emitted, acked, duplicates, row, delivery>>

\* processRefund: tx.payment.update takes the row's lock, then the read.
BeginRefund(r) ==
  /\ refund[r].step = "refunded"
  /\ ~RowLocked(refund[r].intent)
  /\ BeginTx(r)
  /\ refund' = [refund EXCEPT ![r].step = "tx"]
  /\ UNCHANGED <<stripeVars, row, delivery>>

CommitRefund(r) ==
  /\ refund[r].step = "tx"
  /\ ReverseTx(r, refund[r].intent, CreditsToRefund(refund[r].amount))
  /\ row' = [row EXCEPT ![refund[r].intent].status = "REFUNDED",
                        ![refund[r].intent].refundAmount = refund[r].amount]
  /\ refund' = [refund EXCEPT ![r] = Idle]
  /\ UNCHANGED <<stripeVars, delivery>>

AbortRefund(r) ==
  /\ refund[r].step = "tx"
  /\ AbortTx(r)
  /\ refund' = [refund EXCEPT ![r] = Idle]
  /\ UNCHANGED <<stripeVars, row, delivery>>

\* Stripe refuses the refund, or the request ends outside the transaction.
DropRefund(r) ==
  /\ refund[r].step \in {"checked", "refunded"}
  /\ refund' = [refund EXCEPT ![r] = Idle]
  /\ UNCHANGED <<storeVars, stripeVars, row, delivery>>

-----------------------------------------------------------------------------

StripeStep == \E i \in Intents :
  CreatePaymentIntent(i) \/ OtherIntent(i) \/ Decline(i) \/ Pay(i)

DeliveryStart(h) == \E e \in Event :
  IgnoreUnknown(h, e) \/ RecordFailure(h, e) \/ RecordSuccess(h, e)

DeliveryStep(h) ==
  \/ CheckStatus(h) \/ CheckGranted(h) \/ BeginGrant(h) \/ CommitGrant(h)
  \/ AbortGrant(h) \/ DropDelivery(h)

RefundStart(r) == \E i \in Intents, amount \in RefundAmounts : RequestRefund(r, i, amount)

RefundStep(r) ==
  \/ StripeRefund(r) \/ BeginRefund(r) \/ CommitRefund(r) \/ AbortRefund(r) \/ DropRefund(r)

PayNext ==
  \/ StripeStep
  \/ \E h \in Deliveries : DeliveryStart(h) \/ DeliveryStep(h)
  \/ \E r \in Refunders : RefundStart(r) \/ RefundStep(r)

PaySpec == PayInit /\ [][PayNext]_payVars

\* The requests that work on an event of the intent.
WorkingOn(i) == {h \in Deliveries : delivery[h] # Idle /\ delivery[h].event.intent = i}

\* Stripe redelivers an event until it is acked, so the delivery of each one is
\* weakly fair.  The deliveries of a payment may fail at any step, but not all of
\* them at the same step for ever: a step that is possible again and again is
\* taken in the end (strong fairness).  An open transaction commits or is rolled
\* back, and a started refund request runs on.  Customers and administrators do
\* nothing they do not want to.
PayFairness ==
  /\ \A e \in Event : WF_payVars(e \notin acked /\ \E h \in Deliveries :
                       IgnoreUnknown(h, e) \/ RecordFailure(h, e) \/ RecordSuccess(h, e))
  /\ \A i \in Intents :
       /\ SF_payVars(\E h \in WorkingOn(i) : CheckStatus(h))
       /\ SF_payVars(\E h \in WorkingOn(i) : CheckGranted(h))
       /\ SF_payVars(\E h \in WorkingOn(i) : BeginGrant(h))
       /\ SF_payVars(\E h \in WorkingOn(i) : CommitGrant(h))
  /\ \A h \in Deliveries : WF_payVars(CommitGrant(h) \/ AbortGrant(h))
  /\ \A r \in Refunders : WF_payVars(RefundStep(r))

PayFairSpec == PaySpec /\ PayFairness

-----------------------------------------------------------------------------

PayTypeOK ==
  /\ StoreTypeOK
  /\ intent \in [Intents -> {"none", "unpaid", "declined", "succeeded"}]
  /\ refunded \in [Intents -> Nat]
  /\ emitted \subseteq Event /\ acked \subseteq emitted /\ duplicates \in Nat
  /\ row \in [Intents -> Row]
  /\ delivery \in [Deliveries -> {Idle} \cup Delivering]
  /\ refund \in [Refunders -> {Idle} \cup Refunding]

Entries(type, i) == {k \in 1 .. Len(ledger) : ledger[k].type = type /\ ledger[k].ref = i}

\* The requests that have found a payment not credited yet and are going to
\* credit it.
AboutToGrant(i) ==
  {h \in Deliveries : delivery[h].step \in {"begin", "commit"} /\ delivery[h].event.intent = i}

\* A purchase is credited at most once for each request that was handling it when
\* it was credited first: a delivery that starts later finds the entry ("Check if
\* credits already granted").  One request at a time means one credit.
GrantsWithinOverlap ==
  \A i \in Intents :
    Cardinality(Entries("PURCHASE", i)) + Cardinality(AboutToGrant(i)) <= Cardinality(Deliveries)

\* A 2xx answer to payment_intent.succeeded means that the credits are there:
\* Stripe will not deliver the event again, so nothing else would grant them.
AckedImpliesGranted ==
  \A e \in acked : e.type = "succeeded" /\ row[e.intent] # NoRow => Granted(e.intent)

\* Credits are granted for a payment only if Stripe took the money, even though
\* the row's status is overwritten by whichever event came last.
GrantsArePaid == \A i \in Intents : Granted(i) => intent[i] = "succeeded"

\* The credits that these entries took back for a payment.
TakenBack(i, entries) ==
  FoldLeft(LAMBDA sum, e : sum - (IF e.type = "REFUND" /\ e.ref = i THEN e.amount ELSE 0),
           0, entries)

\* The credits taken back for a payment are covered by the money given back:
\* no REFUND entry is written before, or without, its refund at Stripe.
RefundsAreBacked ==
  \A i \in Intents :
    TakenBack(i, ledger) <= CreditsToRefund(refunded[i]) + Cent * Cardinality(Entries("REFUND", i))

\* Every step of the purchase and refund code is a step of the credit store, so
\* what holds of the store under any client holds here.
PaymentsUseStore == StoreSpec

\* A payment that Stripe took and that has a row is credited in the end, in any
\* order of its events, after any failed attempts and beside any refunds.
PaidIsGranted ==
  \A i \in Intents : intent[i] = "succeeded" /\ row[i] # NoRow ~> Granted(i)

-----------------------------------------------------------------------------
\* What the source says of itself and the code does not keep.

\* "Check if credits already granted": a purchase is credited once, however often
\* its event is delivered.
GrantedAtMostOnce == \A i \in Intents : Cardinality(Entries("PURCHASE", i)) <= 1

\* 'Payment is not succeeded': a grant is committed only for a payment whose
\* status is SUCCEEDED at that moment.
GrantWhileSucceeded ==
  [][\A i \in Intents : Granted(i)' /\ ~Granted(i) => row[i].status = "SUCCEEDED"]_payVars

\* Payment.refundAmount, "Amount refunded", is what Stripe refunded, whenever no
\* refund of the payment is in progress.
RefundAmountIsRefunded ==
  \A i \in Intents :
    (\A r \in Refunders : refund[r] = Idle) => row[i].refundAmount = refunded[i]

\* FAILED is "Payment failed": once every event is acked and nothing is in
\* progress, a payment that Stripe took is not marked as failed.
FailedIsFailed ==
  \A i \in Intents :
    emitted = acked /\ (\A h \in Deliveries : delivery[h] = Idle) /\ row[i].status = "FAILED"
      => intent[i] # "succeeded"

\* 'Can only refund succeeded payments': a payment once REFUNDED is not refunded
\* again, because its status never returns to SUCCEEDED.
RefundedStaysRefunded ==
  [][\A i \in Intents : row[i].status = "REFUNDED" => row'[i].status = "REFUNDED"]_payVars

\* "balanceAfter = balanceBefore + amount", of every CreditTransaction.
EntriesAddUp ==
  \A k \in 1 .. Len(ledger) : ledger[k].after = ledger[k].before + ledger[k].amount

\* "type=REFUND: amount > 0 (refunds add credits back)".
RefundsAddCredits ==
  \A k \in 1 .. Len(ledger) : ledger[k].type = "REFUND" => ledger[k].amount > 0
=============================================================================
