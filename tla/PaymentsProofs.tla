--------------------------- MODULE PaymentsProofs ----------------------------
(***************************************************************************)
(* Purchases and refunds, for every set of payments, of webhook requests   *)
(* and of refund requests, in any order and with any failures.             *)
(*                                                                         *)
(* First, every step is a step of the credit store or leaves it alone, so  *)
(* what CreditStoreProofs shows of the store holds of the service.  Then,  *)
(* an acked event has granted its credits, and only a paid payment has     *)
(* been granted any.  Neither is inductive: one also needs to know that a  *)
(* request in progress works on a payment_intent.succeeded event that was  *)
(* emitted, that Stripe emits events of intents that exist and announces a *)
(* success only after it, and that a refund in progress has a Payment row. *)
(*                                                                         *)
(* Then, what overlaps cost: a payment is credited no more often than      *)
(* there are requests, counting those that are about to credit it.  Last,  *)
(* the credits taken back: the money Stripe gave back covers the REFUND    *)
(* entries and the refunds that are under way.  That one sums the ledger   *)
(* up, so it rests on an induction over the number of entries.             *)
(***************************************************************************)
EXTENDS Payments, CreditStoreProofs, FiniteSetTheorems, WellFoundedInduction

-----------------------------------------------------------------------------
\* The requests.

RequestsTyped ==
  /\ delivery \in [Deliveries -> {Idle} \cup Delivering]
  /\ refund \in [Refunders -> {Idle} \cup Refunding]

\* No request is in progress at first.
LEMMA RequestsInit == PayInit => RequestsTyped
  BY DEF PayInit, RequestsTyped

\* The steps of a webhook delivery keep the types of the requests.
LEMMA DeliveryKeepsTypes ==
  ASSUME RequestsTyped, NEW h \in Deliveries, DeliveryStart(h) \/ DeliveryStep(h)
  PROVE  RequestsTyped'
<1> USE DEF RequestsTyped, Idle, Delivering
<1>1. ASSUME NEW e \in Event, IgnoreUnknown(h, e) \/ RecordFailure(h, e)
      PROVE  RequestsTyped'
  BY <1>1 DEF IgnoreUnknown, RecordFailure
<1>2. ASSUME NEW e \in Event, RecordSuccess(h, e) PROVE RequestsTyped'
  BY <1>2 DEF RecordSuccess
<1>3. CASE CheckStatus(h) \/ CheckGranted(h) \/ BeginGrant(h)
  BY <1>3 DEF CheckStatus, CheckGranted, BeginGrant, Goto, Return
<1>4. CASE CommitGrant(h) \/ AbortGrant(h) \/ DropDelivery(h)
  BY <1>4 DEF CommitGrant, AbortGrant, DropDelivery, Return
<1> QED BY <1>1, <1>2, <1>3, <1>4 DEF DeliveryStart, DeliveryStep

\* So do those of a refund.
LEMMA RefundKeepsTypes ==
  ASSUME RequestsTyped, NEW r \in Refunders, RefundStart(r) \/ RefundStep(r)
  PROVE  RequestsTyped'
<1> USE DEF RequestsTyped, Idle, Refunding
<1>1. CASE RefundStart(r)
  BY <1>1 DEF RefundStart, RequestRefund
<1>2. CASE StripeRefund(r) \/ BeginRefund(r)
  BY <1>2 DEF StripeRefund, BeginRefund
<1>3. CASE CommitRefund(r) \/ AbortRefund(r) \/ DropRefund(r)
  BY <1>3 DEF CommitRefund, AbortRefund, DropRefund
<1> QED BY <1>1, <1>2, <1>3 DEF RefundStep

\* So does every step.
LEMMA RequestsStep == RequestsTyped /\ [PayNext]_payVars => RequestsTyped'
<1> SUFFICES ASSUME RequestsTyped, [PayNext]_payVars PROVE RequestsTyped'
  OBVIOUS
<1>1. CASE UNCHANGED payVars
  BY <1>1 DEF payVars, RequestsTyped
<1>2. CASE StripeStep
  BY <1>2 DEF StripeStep, CreatePaymentIntent, OtherIntent, Decline, Pay, RequestsTyped
<1> QED BY <1>1, <1>2, DeliveryKeepsTypes, RefundKeepsTypes DEF PayNext

-----------------------------------------------------------------------------
\* The service is a client of the credit store.

\* A delivery opens and ends a transaction of the store, or leaves it alone.
LEMMA DeliveryUsesStore ==
  ASSUME RequestsTyped, NEW h \in Deliveries, DeliveryStart(h) \/ DeliveryStep(h)
  PROVE  [StoreNext]_storeVars
<1>1. h \in Procs
  BY PayAssumption
<1>2. CASE DeliveryStart(h)
  BY <1>2 DEF DeliveryStart, IgnoreUnknown, RecordFailure, RecordSuccess, storeVars
<1>3. CASE CheckStatus(h) \/ CheckGranted(h) \/ DropDelivery(h)
  BY <1>3 DEF CheckStatus, CheckGranted, DropDelivery, storeVars
<1>4. CASE BeginGrant(h)
  BY <1>1, <1>4 DEF BeginGrant, StoreNext
<1>5. CASE CommitGrant(h)
  <2>1. delivery[h].event.intent \in Refs /\ Credits \in GrantAmounts
    BY <1>5, PayAssumption DEF CommitGrant, RequestsTyped, Idle, Delivering, Event
  <2> QED BY <1>1, <1>5, <2>1 DEF CommitGrant, StoreNext, Grant
<1>6. CASE AbortGrant(h)
  BY <1>1, <1>6 DEF AbortGrant, StoreNext
<1> QED BY <1>2, <1>3, <1>4, <1>5, <1>6 DEF DeliveryStep

\* So does a refund.
LEMMA RefundUsesStore ==
  ASSUME RequestsTyped, NEW r \in Refunders, RefundStart(r) \/ RefundStep(r)
  PROVE  [StoreNext]_storeVars
<1>1. r \in Procs
  BY PayAssumption
<1>2. CASE RefundStart(r)
  BY <1>2 DEF RefundStart, RequestRefund, storeVars
<1>3. CASE StripeRefund(r) \/ DropRefund(r)
  BY <1>3 DEF StripeRefund, DropRefund, storeVars
<1>4. CASE BeginRefund(r)
  BY <1>1, <1>4 DEF BeginRefund, StoreNext
<1>5. CASE CommitRefund(r)
  <2>1. refund[r].intent \in Refs /\ CreditsToRefund(refund[r].amount) \in ChargeAmounts
    BY <1>5, PayAssumption DEF CommitRefund, RequestsTyped, Idle, Refunding, CreditsToRefund
  <2> QED BY <1>1, <1>5, <2>1 DEF CommitRefund, StoreNext, TakeBack
<1>6. CASE AbortRefund(r)
  BY <1>1, <1>6 DEF AbortRefund, StoreNext
<1> QED BY <1>2, <1>3, <1>4, <1>5, <1>6 DEF RefundStep

\* So does every step.
LEMMA PayStepUsesStore == RequestsTyped /\ [PayNext]_payVars => [StoreNext]_storeVars
<1> SUFFICES ASSUME RequestsTyped, [PayNext]_payVars PROVE [StoreNext]_storeVars
  OBVIOUS
<1>1. CASE UNCHANGED payVars
  BY <1>1 DEF payVars, storeVars
<1>2. CASE StripeStep
  BY <1>2 DEF StripeStep, CreatePaymentIntent, OtherIntent, Decline, Pay, storeVars
<1> QED BY <1>1, <1>2, DeliveryUsesStore, RefundUsesStore DEF PayNext

\* The types hold in every behaviour.
LEMMA RequestsAreTyped == PaySpec => []RequestsTyped
<1> QED BY RequestsInit, RequestsStep, PTL DEF PaySpec

\* Every step of the purchase and refund code is a step of the credit store.
THEOREM PaymentsAreClients == PaySpec => PaymentsUseStore
<1>1. PayInit => StoreInit
  BY DEF PayInit
<1> QED BY <1>1, PayStepUsesStore, RequestsAreTyped, PTL
        DEF PaySpec, StoreSpec, PaymentsUseStore

\* So purchases and refunds, however they overlap and fail, are atomic entries
\* of an account that is never in debt.
THEOREM PaymentsKeepAccount == PaySpec => AccountSpec
  BY PaymentsAreClients, StoreImplementsAccount, PTL DEF PaymentsUseStore

-----------------------------------------------------------------------------
\* Types of the rows and of Stripe's state.

StripeTyped ==
  /\ intent \in [Intents -> {"none", "unpaid", "declined", "succeeded"}]
  /\ refunded \in [Intents -> Nat]
  /\ emitted \subseteq Event /\ duplicates \in Nat
  /\ row \in [Intents -> Row]

InHand ==
  \A h \in Deliveries : delivery[h] # Idle =>
    delivery[h].event \in emitted /\ delivery[h].event.type = "succeeded"

EmittedHappened ==
  \A e \in emitted : /\ intent[e.intent] # "none"
                     /\ e.type = "succeeded" => intent[e.intent] = "succeeded"

RefundsHaveRows ==
  \A r \in Refunders : refund[r] # Idle => row[refund[r].intent].status # "absent"

PayIInv ==
  /\ StoreIInv
  /\ RequestsTyped
  /\ StripeTyped
  /\ acked \subseteq emitted
  /\ InHand
  /\ EmittedHappened
  /\ RefundsHaveRows
  /\ AckedImpliesGranted
  /\ GrantsArePaid

\* Nothing is there at first.
LEMMA PayInitIInv == PayInit => PayIInv
<1> SUFFICES ASSUME PayInit PROVE PayIInv
  OBVIOUS
<1> USE DEF PayInit
<1>1. StoreIInv /\ RequestsTyped
  BY StoreInitIInv, RequestsInit
<1>2. StripeTyped
  BY DEF StripeTyped, Row, NoRow, PaymentStatus
<1>3. InHand /\ EmittedHappened /\ RefundsHaveRows
  BY DEF InHand, EmittedHappened, RefundsHaveRows
<1>4. AckedImpliesGranted /\ GrantsArePaid
  BY DEF AckedImpliesGranted, GrantsArePaid, Granted, HasEntry, StoreInit
<1> QED BY <1>1, <1>2, <1>3, <1>4 DEF PayIInv

\* What both kinds of step need: the parts that are already shown.
LEMMA PayStepKeepsStore ==
  ASSUME PayIInv, [PayNext]_payVars
  PROVE  StoreIInv' /\ RequestsTyped'
  BY RequestsStep, PayStepUsesStore, StoreStepIInv DEF PayIInv

\* A PURCHASE entry stays, and only a commit of its event's grant adds one.
LEMMA GrantedWhileLedgerStays ==
  ASSUME ledger' = ledger, NEW i \in Intents
  PROVE  Granted(i)' <=> Granted(i)
  BY DEF Granted, HasEntry

\* A committed grant is in the ledger, and what was there stays.
LEMMA GrantedAfterCommit ==
  ASSUME StoreTypeOK, NEW p, NEW type, NEW ref, NEW amount, NEW balanceAfter,
         CommitTx(p, type, ref, amount, balanceAfter), NEW i \in Intents
  PROVE  Granted(i)' <=> Granted(i) \/ (type = "PURCHASE" /\ ref = i)
<1> DEFINE e == [type   |-> type, ref |-> ref, amount |-> RoundToCent(amount),
                 before |-> txn[p].balance, after |-> RoundToCent(balanceAfter)]
<1>1. ledger' = Append(ledger, e) /\ ledger \in Seq(Entry)
  BY DEF CommitTx, StoreTypeOK
<1>2. e.type = type /\ e.ref = ref
  OBVIOUS
<1> HIDE DEF e
<1>3. /\ Len(ledger') = Len(ledger) + 1
      /\ \A k \in 1 .. Len(ledger) : ledger'[k] = ledger[k]
      /\ ledger'[Len(ledger) + 1] = e
      /\ Len(ledger) \in Nat
  BY <1>1
<1>4. 1 .. Len(ledger') = 1 .. Len(ledger) \cup {Len(ledger) + 1}
  BY <1>3
<1> QED BY <1>2, <1>3, <1>4 DEF Granted, HasEntry

-----------------------------------------------------------------------------
\* Stripe's own steps.

\* Stripe's own steps: a success is emitted of an intent that exists.
LEMMA StripeKeeps ==
  ASSUME PayIInv, NEW i \in Intents,
         CreatePaymentIntent(i) \/ OtherIntent(i) \/ Decline(i) \/ Pay(i)
  PROVE  /\ StripeTyped' /\ (acked \subseteq emitted)' /\ InHand' /\ EmittedHappened'
         /\ RefundsHaveRows' /\ AckedImpliesGranted' /\ GrantsArePaid'
<1> USE DEF PayIInv
<1>0. ledger' = ledger
  BY DEF CreatePaymentIntent, OtherIntent, Decline, Pay, storeVars
<1>1. StripeTyped'
  BY DEF StripeTyped, CreatePaymentIntent, OtherIntent, Decline, Pay, Row, PaymentStatus,
         Event, EventTypes
<1>2. acked' = acked /\ emitted \subseteq emitted' /\ delivery' = delivery /\ refund' = refund
  BY DEF CreatePaymentIntent, OtherIntent, Decline, Pay
<1>3. EmittedHappened'
  BY DEF EmittedHappened, StripeTyped, Event, CreatePaymentIntent, OtherIntent, Decline, Pay
<1>4. RefundsHaveRows'
  BY <1>2 DEF RefundsHaveRows, RequestsTyped, Refunding, Idle, StripeTyped,
              CreatePaymentIntent, OtherIntent, Decline, Pay, Row
<1>5. ASSUME NEW e \in acked', e.type = "succeeded", row'[e.intent] # NoRow
      PROVE  Granted(e.intent)'
  <2>1. e \in emitted /\ e.intent \in Intents
    BY <1>2, <1>5 DEF StripeTyped, Event
  <2>2. row'[e.intent] = row[e.intent]
    BY <2>1 DEF EmittedHappened, StripeTyped, CreatePaymentIntent, OtherIntent, Decline, Pay
  <2> QED BY <1>0, <1>2, <1>5, <2>1, <2>2, GrantedWhileLedgerStays DEF AckedImpliesGranted
<1>6. ASSUME NEW j \in Intents, Granted(j)' PROVE intent'[j] = "succeeded"
  <2>1. intent[j] = "succeeded"
    BY <1>0, <1>6, GrantedWhileLedgerStays DEF GrantsArePaid
  <2> QED BY <2>1 DEF StripeTyped, CreatePaymentIntent, OtherIntent, Decline, Pay
<1>7. AckedImpliesGranted'
  BY <1>5 DEF AckedImpliesGranted
<1>8. GrantsArePaid'
  BY <1>6 DEF GrantsArePaid
<1> QED BY <1>1, <1>2, <1>3, <1>4, <1>7, <1>8 DEF InHand
-----------------------------------------------------------------------------
\* Webhook deliveries.

\* A delivery that starts works on an event that was emitted.
LEMMA StartKeeps ==
  ASSUME PayIInv, NEW h \in Deliveries, NEW e \in Event,
         IgnoreUnknown(h, e) \/ RecordFailure(h, e) \/ RecordSuccess(h, e)
  PROVE  /\ StripeTyped' /\ (acked \subseteq emitted)' /\ InHand' /\ EmittedHappened'
         /\ RefundsHaveRows' /\ AckedImpliesGranted' /\ GrantsArePaid'
<1> USE DEF PayIInv, Deliver, Ack
<1>1. /\ ledger' = ledger /\ intent' = intent /\ emitted' = emitted /\ refund' = refund
      /\ refunded' = refunded /\ e \in emitted
  BY DEF IgnoreUnknown, RecordFailure, RecordSuccess, storeVars
<1>2. StripeTyped'
  BY <1>1 DEF StripeTyped, IgnoreUnknown, RecordFailure, RecordSuccess, Row, PaymentStatus
<1>3. acked' \subseteq emitted'
  BY <1>1 DEF IgnoreUnknown, RecordFailure, RecordSuccess
<1>4. InHand'
  BY <1>1 DEF InHand, RequestsTyped, IgnoreUnknown, RecordFailure, RecordSuccess
<1>5. EmittedHappened'
  BY <1>1 DEF EmittedHappened
<1>6. RefundsHaveRows'
  BY <1>1 DEF RefundsHaveRows, StripeTyped, RequestsTyped, Refunding, Idle, Row,
              IgnoreUnknown, RecordFailure, RecordSuccess
<1>7. ASSUME NEW i \in Intents, row'[i] # NoRow PROVE row[i] # NoRow
  BY <1>7 DEF StripeTyped, Event, IgnoreUnknown, RecordFailure, RecordSuccess
<1>8. ASSUME NEW f \in acked', f.type = "succeeded", row'[f.intent] # NoRow
      PROVE  Granted(f.intent)'
  <2>1. f.intent \in Intents /\ row[f.intent] # NoRow
    BY <1>1, <1>3, <1>7, <1>8 DEF StripeTyped, Event
  <2>2. f \in acked
    BY <1>8, <2>1 DEF IgnoreUnknown, RecordFailure, RecordSuccess
  <2> QED BY <1>1, <1>8, <2>1, <2>2, GrantedWhileLedgerStays DEF AckedImpliesGranted
<1>9. AckedImpliesGranted' /\ GrantsArePaid'
  BY <1>1, <1>8, GrantedWhileLedgerStays DEF AckedImpliesGranted, GrantsArePaid
<1> QED BY <1>2, <1>3, <1>4, <1>5, <1>6, <1>9

\* The steps of a delivery: it acks once the grant is in the ledger.
LEMMA GrantStepKeeps ==
  ASSUME PayIInv, NEW h \in Deliveries, DeliveryStep(h)
  PROVE  /\ StripeTyped' /\ (acked \subseteq emitted)' /\ InHand' /\ EmittedHappened'
         /\ RefundsHaveRows' /\ AckedImpliesGranted' /\ GrantsArePaid'
<1> USE DEF PayIInv, Ack
<1> DEFINE e == delivery[h].event
<1>1. /\ intent' = intent /\ emitted' = emitted /\ row' = row /\ refund' = refund
      /\ refunded' = refunded /\ duplicates' = duplicates
      /\ acked' = acked \/ acked' = acked \cup {e}
  BY DEF DeliveryStep, CheckStatus, CheckGranted, BeginGrant, CommitGrant, AbortGrant,
         DropDelivery, stripeVars
<1>2. /\ delivery[h] # Idle /\ e \in emitted /\ e.type = "succeeded" /\ e.intent \in Intents
      /\ intent[e.intent] = "succeeded"
  BY DEF DeliveryStep, CheckStatus, CheckGranted, BeginGrant, CommitGrant, AbortGrant,
         DropDelivery, InHand, Idle, StripeTyped, Event, EmittedHappened
<1>3. StripeTyped' /\ EmittedHappened' /\ RefundsHaveRows' /\ acked' \subseteq emitted'
  BY <1>1, <1>2 DEF StripeTyped, EmittedHappened, RefundsHaveRows
<1>4. InHand'
  <2>1. ASSUME NEW g \in Deliveries, delivery'[g] # Idle
        PROVE  delivery[g] # Idle /\ delivery'[g].event = delivery[g].event
    BY <2>1, <1>2 DEF DeliveryStep, CheckStatus, CheckGranted, BeginGrant, CommitGrant,
       AbortGrant, DropDelivery, Goto, Return, RequestsTyped, Delivering, Idle
  <2> QED BY <1>1, <2>1 DEF InHand
<1>5. /\ \A i \in Intents : Granted(i) => Granted(i)'
      /\ \A i \in Intents : Granted(i)' => Granted(i) \/ i = e.intent
      /\ acked' = acked \/ \A i \in Intents : i = e.intent => Granted(i)'
  <2>1. CASE CommitGrant(h)
    <3>1. \A i \in Intents : Granted(i)' <=> Granted(i) \/ ("PURCHASE" = "PURCHASE" /\ e.intent = i)
      BY <2>1, GrantedAfterCommit DEF CommitGrant, GrantTx, StoreIInv
    <3> QED BY <1>2, <3>1
  <2>2. CASE CheckGranted(h)
    <3>1. ledger' = ledger
      BY <2>2 DEF CheckGranted, storeVars
    <3> QED BY <1>2, <2>2, <3>1, GrantedWhileLedgerStays DEF CheckGranted
  <2>3. CASE CheckStatus(h) \/ BeginGrant(h) \/ AbortGrant(h) \/ DropDelivery(h)
    <3>1. ledger' = ledger /\ acked' = acked
      BY <2>3 DEF CheckStatus, BeginGrant, AbortGrant, DropDelivery, BeginTx, AbortTx,
                  storeVars, stripeVars
    <3> QED BY <3>1, GrantedWhileLedgerStays
  <2> QED BY <2>1, <2>2, <2>3 DEF DeliveryStep
<1>6. AckedImpliesGranted'
  <2>1. ASSUME NEW f \in acked', f.type = "succeeded", row'[f.intent] # NoRow
        PROVE  Granted(f.intent)'
    <3>1. f.intent \in Intents
      BY <1>3 DEF StripeTyped, Event
    <3> QED BY <1>1, <1>5, <2>1, <3>1 DEF AckedImpliesGranted
  <2> QED BY <2>1 DEF AckedImpliesGranted
<1>7. GrantsArePaid'
  BY <1>1, <1>2, <1>5 DEF GrantsArePaid
<1> QED BY <1>3, <1>4, <1>6, <1>7

-----------------------------------------------------------------------------
\* Refund requests.

\* The steps of a refund, which has a Payment row.
LEMMA RefundKeeps ==
  ASSUME PayIInv, NEW r \in Refunders, RefundStart(r) \/ RefundStep(r)
  PROVE  /\ StripeTyped' /\ (acked \subseteq emitted)' /\ InHand' /\ EmittedHappened'
         /\ RefundsHaveRows' /\ AckedImpliesGranted' /\ GrantsArePaid'
<1> USE DEF PayIInv
<1>1. /\ intent' = intent /\ emitted' = emitted /\ acked' = acked /\ duplicates' = duplicates
      /\ delivery' = delivery
  BY DEF RefundStart, RequestRefund, RefundStep, StripeRefund, BeginRefund, CommitRefund,
         AbortRefund, DropRefund, stripeVars
<1>2. refunded' \in [Intents -> Nat]
  <2>1. CASE StripeRefund(r)
    BY <2>1, PayAssumption DEF StripeRefund, StripeTyped, RequestsTyped, Refunding, Idle
  <2>2. CASE ~StripeRefund(r)
    BY <2>2 DEF RefundStart, RequestRefund, RefundStep, BeginRefund, CommitRefund,
                AbortRefund, DropRefund, stripeVars, StripeTyped
  <2> QED BY <2>1, <2>2
<1>3. /\ row' \in [Intents -> Row]
      /\ \A i \in Intents : row'[i].status = "absent" => row[i].status = "absent"
      /\ \A i \in Intents : row'[i] # NoRow => row[i] # NoRow
      /\ \A i \in Intents : row[i].status # "absent" => row'[i].status # "absent"
  <2>1. CASE CommitRefund(r)
    <3>1. /\ refund[r].intent \in Intents /\ refund[r].amount \in Nat
          /\ row[refund[r].intent].status # "absent"
      BY <2>1, PayAssumption DEF CommitRefund, RequestsTyped, Refunding, Idle, RefundsHaveRows
    <3>2. row[refund[r].intent] # NoRow
      BY <3>1 DEF NoRow
    <3>3. \A i \in Intents : row'[i] # NoRow => row[i] # NoRow
      BY <2>1, <3>1, <3>2 DEF CommitRefund, StripeTyped
    <3>4. row' \in [Intents -> Row]
      BY <2>1, <3>1, SMTT(40) DEF CommitRefund, StripeTyped, Row, PaymentStatus
    <3>5. \A i \in Intents : row'[i].status = "absent" <=> row[i].status = "absent"
      BY <2>1, <3>1, SMTT(40) DEF CommitRefund, StripeTyped, Row
    <3> QED BY <3>3, <3>4, <3>5
  <2>2. CASE ~CommitRefund(r)
    <3>1. row' = row
      BY <2>2 DEF RefundStart, RequestRefund, RefundStep, StripeRefund, BeginRefund,
                  AbortRefund, DropRefund
    <3> QED BY <3>1 DEF StripeTyped
  <2> QED BY <2>1, <2>2
<1>4. StripeTyped'
  BY <1>1, <1>2, <1>3 DEF StripeTyped
<1>5. RefundsHaveRows'
  <2>1. ASSUME NEW q \in Refunders, refund'[q] # Idle
        PROVE  row[refund'[q].intent].status # "absent" /\ refund'[q].intent \in Intents
    <3>1. CASE RefundStart(r)
      BY <2>1, <3>1 DEF RefundStart, RequestRefund, RefundsHaveRows, RequestsTyped, Refunding, Idle
    <3>2. CASE StripeRefund(r) \/ BeginRefund(r)
      BY <2>1, <3>2 DEF StripeRefund, BeginRefund, RefundsHaveRows, RequestsTyped, Refunding, Idle
    <3>3. CASE CommitRefund(r) \/ AbortRefund(r) \/ DropRefund(r)
      BY <2>1, <3>3 DEF CommitRefund, AbortRefund, DropRefund, RefundsHaveRows, RequestsTyped,
                        Refunding, Idle
    <3> QED BY <3>1, <3>2, <3>3 DEF RefundStep
  <2> QED BY <1>3, <2>1 DEF RefundsHaveRows
<1>6. \A i \in Intents : Granted(i)' <=> Granted(i)
  <2>1. CASE CommitRefund(r)
    BY <2>1, GrantedAfterCommit DEF CommitRefund, ReverseTx, StoreIInv
  <2>2. CASE ~CommitRefund(r)
    <3>1. ledger' = ledger
      BY <2>2 DEF RefundStart, RequestRefund, RefundStep, StripeRefund, BeginRefund,
                  AbortRefund, DropRefund, BeginTx, AbortTx, storeVars
    <3> QED BY <3>1, GrantedWhileLedgerStays
  <2> QED BY <2>1, <2>2
<1>7. AckedImpliesGranted' /\ GrantsArePaid'
  <2>1. \A f \in acked : f.intent \in Intents
    BY DEF StripeTyped, Event
  <2> QED BY <1>1, <1>3, <1>6, <2>1 DEF AckedImpliesGranted, GrantsArePaid
<1> QED BY <1>1, <1>4, <1>5, <1>7 DEF InHand, EmittedHappened

-----------------------------------------------------------------------------

\* Every step keeps the invariant.
LEMMA PayStepIInv == PayIInv /\ [PayNext]_payVars => PayIInv'
<1> SUFFICES ASSUME PayIInv, [PayNext]_payVars PROVE PayIInv'
  OBVIOUS
<1>1. StoreIInv' /\ RequestsTyped'
  BY PayStepKeepsStore
<1>2. CASE UNCHANGED payVars
  BY <1>1, <1>2 DEF PayIInv, payVars, stripeVars, storeVars, StripeTyped, InHand,
     EmittedHappened, RefundsHaveRows, AckedImpliesGranted, GrantsArePaid, Granted, HasEntry
<1>3. CASE StripeStep
  BY <1>1, <1>3, StripeKeeps DEF StripeStep, PayIInv
<1>4. ASSUME NEW h \in Deliveries, DeliveryStart(h) PROVE PayIInv'
  BY <1>1, <1>4, StartKeeps DEF DeliveryStart, PayIInv
<1>5. ASSUME NEW h \in Deliveries, DeliveryStep(h) PROVE PayIInv'
  BY <1>1, <1>5, GrantStepKeeps DEF PayIInv
<1>6. ASSUME NEW r \in Refunders, RefundStart(r) \/ RefundStep(r) PROVE PayIInv'
  BY <1>1, <1>6, RefundKeeps DEF PayIInv
<1> QED BY <1>2, <1>3, <1>4, <1>5, <1>6 DEF PayNext

\* The invariant holds in every behaviour of purchases and refunds.
LEMMA PayInvariance == PaySpec => []PayIInv
<1> QED BY PayInitIInv, PayStepIInv, PTL DEF PaySpec

\* The rows, Stripe's state and the requests keep their types.
THEOREM PayTypeCorrect == PaySpec => []PayTypeOK
<1>1. PayIInv => PayTypeOK
  BY DEF PayIInv, PayTypeOK, StoreIInv, RequestsTyped, StripeTyped
<1> QED BY <1>1, PayInvariance, PTL

\* A webhook that answers 2xx to payment_intent.succeeded has left the credits
\* in the ledger, whatever other deliveries and refunds did meanwhile.
THEOREM AcksMeanGrants == PaySpec => []AckedImpliesGranted
<1>1. PayIInv => AckedImpliesGranted
  BY DEF PayIInv
<1> QED BY <1>1, PayInvariance, PTL

\* No credits for a payment that Stripe did not take.
THEOREM GrantsFollowPayment == PaySpec => []GrantsArePaid
<1>1. PayIInv => GrantsArePaid
  BY DEF PayIInv
<1> QED BY <1>1, PayInvariance, PTL

-----------------------------------------------------------------------------
\* Arithmetic and induction.

\* What the quotient says.
LEMMA DivBounds ==
  ASSUME NEW n \in Nat, NEW p \in Nat \ {0}
  PROVE  n \div p \in Nat /\ (n \div p) * p <= n /\ n < (n \div p) * p + p
OBVIOUS

\* A product grows with its factor.
LEMMA TimesUp ==
  ASSUME NEW x \in Int, NEW y \in Int, NEW p \in Nat, x <= y
  PROVE  x * p <= y * p
OBVIOUS

\* Two quotients rounded down are no more than the quotient of the sum.
LEMMA DivAdds ==
  ASSUME NEW a \in Nat, NEW b \in Nat, NEW p \in Nat \ {0}
  PROVE  (a \div p) + (b \div p) <= (a + b) \div p
<1>1. PICK x, y, z : x = a \div p /\ y = b \div p /\ z = (a + b) \div p
  OBVIOUS
<1>2. x \in Nat /\ y \in Nat /\ z \in Nat /\ x * p <= a /\ y * p <= b /\ a + b < z * p + p
  BY <1>1, DivBounds
<1> SUFFICES ASSUME z + 1 <= x + y PROVE FALSE
  BY <1>1, <1>2
<1>3. (z + 1) * p <= (x + y) * p
  BY <1>2, TimesUp
<1>4. (z + 1) * p = z * p + p /\ (x + y) * p = x * p + y * p
  BY <1>2
<1> QED BY <1>2, <1>3, <1>4

\* A set of natural numbers that is not empty has a least one.
LEMMA LeastNat ==
  ASSUME NEW T \in SUBSET Nat, T # {}
  PROVE  \E n \in T : \A m \in T : n <= m
<1> DEFINE R == OpToRel(<, Nat)
<1>1. IsWellFoundedOn(R, Nat)
  BY NatLessThanWellFounded
<1>2. R = {ss \in Nat \X Nat : ss[1] < ss[2]}
  BY DEF OpToRel
<1> HIDE DEF R
<1>3. PICK n \in T : \A m \in T : ~ (<<m, n>> \in R)
  BY <1>1, WFMin
<1>4. ASSUME NEW m \in T PROVE n <= m
  <2>1. m \in Nat /\ n \in Nat /\ ~ (<<m, n>> \in R)
    BY <1>3
  <2>2. <<m, n>> \in R <=> m < n
    BY <1>2, <2>1
  <2> QED BY <2>1, <2>2
<1> QED BY <1>4

\* Induction on the natural numbers, for a set.
LEMMA NatUp ==
  ASSUME NEW S, 0 \in S, \A n \in Nat : n \in S => n + 1 \in S
  PROVE  Nat \subseteq S
<1> SUFFICES ASSUME Nat \ S # {} PROVE FALSE
  OBVIOUS
<1>1. PICK n \in Nat \ S : \A m \in Nat \ S : n <= m
  BY LeastNat
<1>2. n # 0
  BY <1>1
<1>3. n - 1 \in Nat /\ n - 1 \in S
  BY <1>1, <1>2
<1> QED BY <1>3, <1>1

\* The CHOOSE of Max finds the last of some positions.
LEMMA MaxIsLast ==
  ASSUME NEW n \in Nat, NEW t \in SUBSET (1 .. n), t # {}
  PROVE  Max(t) \in t /\ \A x \in t : Max(t) >= x
<1>1. PICK T : T = {n - x : x \in t}
  OBVIOUS
<1>2. T \in SUBSET Nat /\ T # {}
  <2>1. \A x \in t : n - x \in Nat
    OBVIOUS
  <2> QED BY <1>1, <2>1
<1>3. PICK d \in T : \A m \in T : d <= m
  BY <1>2, LeastNat
<1>4. PICK x \in t : d = n - x
  BY <1>1, <1>3
<1>5. ASSUME NEW y \in t PROVE x >= y
  <2>1. n - y \in T /\ x \in Nat /\ y \in Nat
    BY <1>1
  <2> QED BY <1>3, <1>4, <2>1
<1>6. \E z \in t : \A y \in t : z >= y
  BY <1>5
<1> QED BY <1>6 DEF Max

-----------------------------------------------------------------------------
\* The credits that the ledger took back for a payment, entry by entry.

\* What one entry contributes.
Term(i, e) == IF e.type = "REFUND" /\ e.ref = i THEN e.amount ELSE 0

\* The function by which the fold sums up the entries at a set of positions, the
\* last position first.
IsSum(f, n, i, s) ==
  f = [t \in SUBSET (1 .. n) |-> IF t = {} THEN 0 ELSE f[t \ {Max(t)}] - Term(i, s[Max(t)])]
Sum(n, i, s) == CHOOSE f : IsSum(f, n, i, s)

\* TakenBack is that sum over every position.
LEMMA FoldIsSum ==
  ASSUME NEW s, NEW n, DOMAIN s = 1 .. n, NEW i
  PROVE  TakenBack(i, s) = Sum(n, i, s)[1 .. n]
BY DEF TakenBack, FoldLeft, MapThenFoldSet, Sum, IsSum, Term

\* The sums of the first n entries.
Below(f, n) == [t \in SUBSET (1 .. n) |-> f[t]]

\* What sums up to n + 1 entries sums up the first n.
LEMMA SumBelow ==
  ASSUME NEW f, NEW n \in Nat, NEW i, NEW s, IsSum(f, n + 1, i, s),
         NEW g, g = Below(f, n)
  PROVE  /\ IsSum(g, n, i, s)
         /\ f[1 .. n + 1] = f[1 .. n] - Term(i, s[n + 1])
         /\ \A t \in SUBSET (1 .. n + 1) : n + 1 \in t => f[t] = f[t \ {n + 1}] - Term(i, s[n + 1])
<1>1. \A t \in SUBSET (1 .. n) : t \in SUBSET (1 .. n + 1) /\ t \ {Max(t)} \in SUBSET (1 .. n)
  <2>1. \A k \in 1 .. n : k \in 1 .. n + 1
    OBVIOUS
  <2> QED BY <2>1
<1>3. ASSUME NEW t \in SUBSET (1 .. n)
      PROVE  g[t] = IF t = {} THEN 0 ELSE g[t \ {Max(t)}] - Term(i, s[Max(t)])
  <2>1. g[t] = f[t] /\ g[t \ {Max(t)}] = f[t \ {Max(t)}]
    BY <1>1 DEF Below
  <2>2. f[t] = IF t = {} THEN 0 ELSE f[t \ {Max(t)}] - Term(i, s[Max(t)])
    BY <1>1 DEF IsSum
  <2> QED BY <2>1, <2>2
<1>4. IsSum(g, n, i, s)
  BY <1>3 DEF IsSum, Below
<1>5. ASSUME NEW t \in SUBSET (1 .. n + 1), n + 1 \in t
      PROVE  f[t] = f[t \ {n + 1}] - Term(i, s[n + 1])
  <2>1. t # {} /\ n + 1 \in Nat
    BY <1>5
  <2>2. Max(t) \in t /\ Max(t) >= n + 1 /\ Max(t) \in 1 .. n + 1
    BY <1>5, <2>1, MaxIsLast
  <2>3. Max(t) = n + 1
    BY <2>2
  <2> QED BY <2>1, <2>3 DEF IsSum
<1>6. (1 .. n + 1) \ {n + 1} = 1 .. n /\ n + 1 \in 1 .. n + 1
  OBVIOUS
<1>7. f[1 .. n + 1] = f[1 .. n] - Term(i, s[n + 1])
  BY <1>5, <1>6
<1> QED BY <1>4, <1>5, <1>7

\* There is such a function, for any number of entries ...
LEMMA SumExists ==
  ASSUME NEW i, NEW s, NEW n \in Nat
  PROVE  \E f : IsSum(f, n, i, s)
<1>1. PICK S : S = {m \in Nat : \E f : IsSum(f, m, i, s)}
  OBVIOUS
<1>2. 0 \in S
  <2>1. PICK f : f = [t \in SUBSET (1 .. 0) |-> 0]
    OBVIOUS
  <2>2. \A t \in SUBSET (1 .. 0) : t = {}
    OBVIOUS
  <2>3. IsSum(f, 0, i, s)
    BY <2>1, <2>2 DEF IsSum
  <2> QED BY <1>1, <2>3
<1>3. ASSUME NEW m \in Nat, m \in S PROVE m + 1 \in S
  <2>1. PICK f : IsSum(f, m, i, s)
    BY <1>1, <1>3
  <2>2. PICK g : g = [t \in SUBSET (1 .. m + 1) |->
                        IF m + 1 \in t THEN f[t \ {m + 1}] - Term(i, s[m + 1]) ELSE f[t]]
    OBVIOUS
  <2>3. ASSUME NEW t \in SUBSET (1 .. m + 1)
        PROVE  g[t] = IF t = {} THEN 0 ELSE g[t \ {Max(t)}] - Term(i, s[Max(t)])
    <3>1. CASE m + 1 \in t
      <4>1. Max(t) \in t /\ Max(t) >= m + 1 /\ Max(t) \in 1 .. m + 1 /\ t # {}
        <5>1. m + 1 \in Nat /\ t # {}
          BY <3>1
        <5> QED BY <3>1, <5>1, MaxIsLast
      <4>2. Max(t) = m + 1
        BY <4>1
      <4>3. t \ {m + 1} \in SUBSET (1 .. m + 1) /\ m + 1 \notin t \ {m + 1}
        OBVIOUS
      <4> QED BY <2>2, <3>1, <4>1, <4>2, <4>3
    <3>2. CASE m + 1 \notin t
      <4>1. t \in SUBSET (1 .. m)
        BY <3>2
      <4>2. t \ {Max(t)} \in SUBSET (1 .. m + 1) /\ m + 1 \notin t \ {Max(t)}
        BY <3>2
      <4>3. f[t] = IF t = {} THEN 0 ELSE f[t \ {Max(t)}] - Term(i, s[Max(t)])
        BY <2>1, <4>1 DEF IsSum
      <4> QED BY <2>2, <3>2, <4>2, <4>3
    <3> QED BY <3>1, <3>2
  <2>4. IsSum(g, m + 1, i, s)
    BY <2>2, <2>3 DEF IsSum
  <2> QED BY <1>1, <2>4
<1>4. Nat \subseteq S
  BY <1>2, <1>3, NatUp
<1> QED BY <1>1, <1>4

\* ... and only one.
LEMMA SumIsOne ==
  ASSUME NEW i, NEW s, NEW n \in Nat, NEW f, NEW g, IsSum(f, n, i, s), IsSum(g, n, i, s)
  PROVE  f = g
<1>1. PICK S : S = {m \in Nat : \A x, y : IsSum(x, m, i, s) /\ IsSum(y, m, i, s) => x = y}
  OBVIOUS
<1>2. 0 \in S
  <2> SUFFICES ASSUME NEW x, NEW y, IsSum(x, 0, i, s), IsSum(y, 0, i, s) PROVE x = y
    BY <1>1
  <2>1. \A t \in SUBSET (1 .. 0) : x[t] = 0 /\ y[t] = 0
    <3>1. \A t \in SUBSET (1 .. 0) : t = {}
      OBVIOUS
    <3> QED BY <3>1 DEF IsSum
  <2> QED BY <2>1 DEF IsSum
<1>3. ASSUME NEW m \in Nat, m \in S PROVE m + 1 \in S
  <2> SUFFICES ASSUME NEW x, NEW y, IsSum(x, m + 1, i, s), IsSum(y, m + 1, i, s) PROVE x = y
    BY <1>1
  <2>4. PICK v, w : v = Below(x, m) /\ w = Below(y, m)
    OBVIOUS
  <2>5. /\ IsSum(v, m, i, s)
        /\ \A t \in SUBSET (1 .. m + 1) :
             m + 1 \in t => x[t] = x[t \ {m + 1}] - Term(i, s[m + 1])
    BY <2>4, SumBelow
  <2>6. /\ IsSum(w, m, i, s)
        /\ \A t \in SUBSET (1 .. m + 1) :
             m + 1 \in t => y[t] = y[t \ {m + 1}] - Term(i, s[m + 1])
    BY <2>4, SumBelow
  <2>1. v = w
    BY <1>1, <1>3, <2>5, <2>6
  <2>2. \A t \in SUBSET (1 .. m) : x[t] = y[t]
    BY <2>1, <2>4 DEF Below
  <2>3. ASSUME NEW t \in SUBSET (1 .. m + 1) PROVE x[t] = y[t]
    <3>1. CASE m + 1 \in t
      <4>1. t \ {m + 1} \in SUBSET (1 .. m)
        OBVIOUS
      <4>2. x[t] = x[t \ {m + 1}] - Term(i, s[m + 1]) /\ y[t] = y[t \ {m + 1}] - Term(i, s[m + 1])
        BY <3>1, <2>5, <2>6
      <4> QED BY <2>2, <4>1, <4>2
    <3>2. CASE m + 1 \notin t
      <4>1. \A k \in t : k \in 1 .. m
        <5> SUFFICES ASSUME NEW k \in t PROVE k \in 1 .. m
          OBVIOUS
        <5>1. k \in 1 .. m + 1 /\ k # m + 1
          BY <3>2
        <5> QED BY <5>1
      <4>2. t \in SUBSET (1 .. m)
        BY <4>1
      <4> QED BY <2>2, <4>2
    <3> QED BY <3>1, <3>2
  <2>7. PICK D : D = SUBSET (1 .. m + 1)
    OBVIOUS
  <2>8. x = [t \in D |-> x[t]]
    BY <2>7 DEF IsSum
  <2>9. y = [t \in D |-> y[t]]
    BY <2>7 DEF IsSum
  <2> QED BY <2>3, <2>7, <2>8, <2>9
<1>4. Nat \subseteq S
  BY <1>2, <1>3, NatUp
<1> QED BY <1>1, <1>4

\* An entry more.
LEMMA TakenBackAfter ==
  ASSUME NEW S, NEW s \in Seq(S), NEW e \in S, NEW i
  PROVE  TakenBack(i, Append(s, e)) = TakenBack(i, s) - Term(i, e)
<1>1. PICK n, l : n = Len(s) /\ l = Append(s, e)
  OBVIOUS
<1>2. /\ n \in Nat /\ DOMAIN s = 1 .. n /\ DOMAIN l = 1 .. n + 1 /\ l[n + 1] = e
      /\ \A k \in 1 .. n : l[k] = s[k]
  BY <1>1
<1>3. PICK f, g : f = Sum(n, i, s) /\ g = Sum(n + 1, i, l)
  OBVIOUS
<1>4. IsSum(f, n, i, s) /\ IsSum(g, n + 1, i, l)
  <2>1. \E x : IsSum(x, n, i, s)
    BY <1>2, SumExists
  <2>2. n + 1 \in Nat
    BY <1>2
  <2>3. \E x : IsSum(x, n + 1, i, l)
    BY <2>2, SumExists
  <2> QED BY <1>3, <2>1, <2>3 DEF Sum
<1>5. IsSum(f, n, i, l)
  <2>1. \A t \in SUBSET (1 .. n) : t # {} => Max(t) \in 1 .. n
    BY <1>2, MaxIsLast
  <2>2. \A t \in SUBSET (1 .. n) : t # {} => Term(i, s[Max(t)]) = Term(i, l[Max(t)])
    BY <1>2, <2>1
  <2> QED BY <1>4, <2>2 DEF IsSum
<1>6. PICK v : v = Below(g, n)
  OBVIOUS
<1>7. /\ IsSum(v, n, i, l)
      /\ g[1 .. n + 1] = g[1 .. n] - Term(i, l[n + 1])
  <2>1. IsSum(g, n + 1, i, l) /\ n \in Nat
    BY <1>2, <1>4
  <2> QED BY <1>6, <2>1, SumBelow
<1>8. f[1 .. n] = g[1 .. n]
  <2>1. f = v
    BY <1>2, <1>5, <1>7, SumIsOne
  <2> QED BY <1>6, <2>1 DEF Below
<1>9. TakenBack(i, s) = f[1 .. n] /\ TakenBack(i, l) = g[1 .. n + 1]
  BY <1>2, <1>3, FoldIsSum
<1> QED BY <1>1, <1>2, <1>7, <1>8, <1>9

\* Nothing is taken back at first.
LEMMA TakenBackEmpty ==
  ASSUME NEW i
  PROVE  TakenBack(i, <<>>) = 0
<1>1. PICK s, f : s = <<>> /\ f = Sum(0, i, s)
  OBVIOUS
<1>2. DOMAIN s = 1 .. 0 /\ 1 .. 0 = {}
  BY <1>1
<1>3. IsSum(f, 0, i, s)
  <2>1. \E x : IsSum(x, 0, i, s)
    BY SumExists
  <2> QED BY <1>1, <2>1 DEF Sum
<1>4. f[1 .. 0] = 0
  BY <1>2, <1>3 DEF IsSum
<1>5. TakenBack(i, s) = f[1 .. 0]
  BY <1>1, <1>2, FoldIsSum
<1> QED BY <1>1, <1>4, <1>5

-----------------------------------------------------------------------------
\* Entries of the ledger.

\* The entries of a type for a payment are finitely many.
LEMMA EntriesFinite ==
  ASSUME StoreTypeOK, NEW type, NEW i
  PROVE  IsFiniteSet(Entries(type, i)) /\ Cardinality(Entries(type, i)) \in Nat
<1>1. Len(ledger) \in Nat
  BY DEF StoreTypeOK
<1>2. IsFiniteSet(1 .. Len(ledger))
  BY <1>1, FS_Interval
<1>3. Entries(type, i) \in SUBSET (1 .. Len(ledger))
  BY DEF Entries
<1> QED BY <1>2, <1>3, FS_Subset, FS_CardinalityType

\* A commit adds the one entry it names.
LEMMA EntriesAfterCommit ==
  ASSUME StoreTypeOK, NEW p, NEW type, NEW ref, NEW amount, NEW balanceAfter,
         CommitTx(p, type, ref, amount, balanceAfter), NEW t, NEW i
  PROVE  Cardinality(Entries(t, i)') =
           Cardinality(Entries(t, i)) + (IF t = type /\ i = ref THEN 1 ELSE 0)
<1>1. PICK e : e = [type   |-> type, ref |-> ref, amount |-> RoundToCent(amount),
                    before |-> txn[p].balance, after |-> RoundToCent(balanceAfter)]
  OBVIOUS
<1>2. ledger' = Append(ledger, e) /\ ledger \in Seq(Entry)
  BY <1>1 DEF CommitTx, StoreTypeOK
<1>3. e.type = type /\ e.ref = ref
  BY <1>1
<1>4. PICK n : n = Len(ledger)
  OBVIOUS
<1>5. /\ n \in Nat /\ Len(ledger') = n + 1 /\ ledger'[n + 1] = e
      /\ \A k \in 1 .. n : ledger'[k] = ledger[k]
  BY <1>2, <1>4
<1>6. 1 .. n + 1 = (1 .. n) \cup {n + 1} /\ n + 1 \notin 1 .. n
  BY <1>5
<1>7. PICK E, F : E = Entries(t, i) /\ F = Entries(t, i)'
  OBVIOUS
<1>8. n + 1 \notin E /\ IsFiniteSet(E)
  <2>1. E \in SUBSET (1 .. n) /\ IsFiniteSet(1 .. n)
    BY <1>4, <1>5, <1>7, FS_Interval DEF Entries
  <2> QED BY <1>6, <2>1, FS_Subset
<1>9. F = IF t = type /\ i = ref THEN E \cup {n + 1} ELSE E
  BY <1>3, <1>4, <1>5, <1>6, <1>7 DEF Entries
<1>10. Cardinality(F) = Cardinality(E) + (IF t = type /\ i = ref THEN 1 ELSE 0)
  <2>1. Cardinality(E) \in Nat
    BY <1>8, FS_CardinalityType
  <2>2. Cardinality(E \cup {n + 1}) = Cardinality(E) + 1
    BY <1>8, FS_AddElement
  <2> QED BY <1>9, <2>1, <2>2
<1> QED BY <1>7, <1>10

\* A commit of a charge, a refund or a grant changes what was taken back by its amount.
LEMMA TakenBackAfterCommit ==
  ASSUME StoreTypeOK, StoreTypeOK', NEW p, NEW type, NEW ref, NEW amount, NEW balanceAfter,
         CommitTx(p, type, ref, amount, balanceAfter), NEW i
  PROVE  TakenBack(i, ledger') =
           TakenBack(i, ledger) - (IF type = "REFUND" /\ ref = i THEN RoundToCent(amount) ELSE 0)
<1>1. PICK e : e = [type   |-> type, ref |-> ref, amount |-> RoundToCent(amount),
                    before |-> txn[p].balance, after |-> RoundToCent(balanceAfter)]
  OBVIOUS
<1>2. PICK s, l : s = ledger /\ l = ledger'
  OBVIOUS
<1>3. l = Append(s, e) /\ s \in Seq(Entry) /\ l \in Seq(Entry)
  BY <1>1, <1>2 DEF CommitTx, StoreTypeOK
<1>4. e \in Entry
  <2>1. Len(s) \in Nat /\ l[Len(s) + 1] = e /\ Len(l) = Len(s) + 1
    BY <1>3
  <2>2. Len(s) + 1 \in 1 .. Len(l)
    BY <2>1
  <2>3. l[Len(s) + 1] \in Entry
    BY <1>3, <2>2
  <2> QED BY <2>1, <2>3
<1>5. Term(i, e) = IF type = "REFUND" /\ ref = i THEN RoundToCent(amount) ELSE 0
  BY <1>1 DEF Term
<1>6. TakenBack(i, l) = TakenBack(i, s) - Term(i, e)
  BY <1>3, <1>4, TakenBackAfter
<1> QED BY <1>2, <1>5, <1>6

-----------------------------------------------------------------------------
\* A purchase is credited once for each overlapping delivery at most.

\* The requests that are about to grant are finitely many.
LEMMA AboutFinite ==
  ASSUME NEW i
  PROVE  /\ IsFiniteSet(AboutToGrant(i)) /\ Cardinality(AboutToGrant(i)) \in Nat
         /\ Cardinality(AboutToGrant(i)) <= Cardinality(Deliveries)
         /\ Cardinality(Deliveries) \in Nat
<1>1. AboutToGrant(i) \in SUBSET Deliveries
  BY DEF AboutToGrant
<1>2. IsFiniteSet(Deliveries)
  BY PayAssumption
<1> QED BY <1>1, <1>2, FS_Subset, FS_CardinalityType

\* Fewer requests about to grant, and the same entries.
LEMMA FewerAbout ==
  ASSUME NEW i, StoreTypeOK, AboutToGrant(i)' \subseteq AboutToGrant(i),
         Entries("PURCHASE", i)' = Entries("PURCHASE", i),
         Cardinality(Entries("PURCHASE", i)) + Cardinality(AboutToGrant(i))
           <= Cardinality(Deliveries)
  PROVE  Cardinality(Entries("PURCHASE", i)') + Cardinality(AboutToGrant(i)')
           <= Cardinality(Deliveries)
<1>1. PICK A, B : A = AboutToGrant(i) /\ B = AboutToGrant(i)'
  OBVIOUS
<1>2. IsFiniteSet(A) /\ B \in SUBSET A
  BY <1>1, AboutFinite
<1>3. Cardinality(B) <= Cardinality(A) /\ Cardinality(B) \in Nat /\ Cardinality(A) \in Nat
  BY <1>2, FS_Subset, FS_CardinalityType
<1> QED BY <1>1, <1>3, EntriesFinite, AboutFinite

\* A step of a delivery keeps the bound.
LEMMA DeliveryKeepsFew ==
  ASSUME PayIInv, GrantsWithinOverlap, NEW h \in Deliveries, DeliveryStart(h) \/ DeliveryStep(h)
  PROVE  GrantsWithinOverlap'
<1> SUFFICES ASSUME NEW i \in Intents
             PROVE  Cardinality(Entries("PURCHASE", i)') + Cardinality(AboutToGrant(i)')
                      <= Cardinality(Deliveries)
  BY DEF GrantsWithinOverlap
<1>1. /\ StoreTypeOK /\ delivery \in [Deliveries -> {Idle} \cup Delivering]
      /\ Cardinality(Entries("PURCHASE", i)) + Cardinality(AboutToGrant(i))
           <= Cardinality(Deliveries)
  BY DEF PayIInv, StoreIInv, RequestsTyped, GrantsWithinOverlap
<1>2. CASE DeliveryStart(h)
  <2>1. ledger' = ledger /\ AboutToGrant(i)' \subseteq AboutToGrant(i)
    <3>1. ASSUME NEW e \in Event, IgnoreUnknown(h, e) \/ RecordFailure(h, e)
          PROVE  ledger' = ledger /\ delivery' = delivery
      BY <3>1 DEF IgnoreUnknown, RecordFailure, storeVars
    <3>2. ASSUME NEW e \in Event, RecordSuccess(h, e)
          PROVE  ledger' = ledger /\ AboutToGrant(i)' \subseteq AboutToGrant(i)
      BY <1>1, <3>2 DEF RecordSuccess, storeVars, AboutToGrant
    <3> QED BY <1>2, <3>1, <3>2 DEF DeliveryStart, AboutToGrant
  <2>2. Entries("PURCHASE", i)' = Entries("PURCHASE", i)
    BY <2>1 DEF Entries
  <2> QED BY <1>1, <2>1, <2>2, FewerAbout
<1>3. CASE CheckStatus(h) \/ BeginGrant(h) \/ AbortGrant(h) \/ DropDelivery(h)
  <2>1. ledger' = ledger
    BY <1>3 DEF CheckStatus, BeginGrant, AbortGrant, DropDelivery, BeginTx, AbortTx, storeVars
  <2>2. AboutToGrant(i)' \subseteq AboutToGrant(i)
    <3>1. delivery[h] \in Delivering
      BY <1>1, <1>3 DEF CheckStatus, BeginGrant, AbortGrant, DropDelivery, Idle
    <3>2. CASE AbortGrant(h) \/ DropDelivery(h)
      BY <1>1, <3>2 DEF AbortGrant, DropDelivery, Return, Idle, AboutToGrant
    <3>3. CASE CheckStatus(h)
      BY <1>1, <3>1, <3>3 DEF CheckStatus, Goto, Return, Idle, Delivering, AboutToGrant
    <3>4. CASE BeginGrant(h)
      BY <1>1, <3>1, <3>4 DEF BeginGrant, Goto, Delivering, AboutToGrant
    <3> QED BY <1>3, <3>2, <3>3, <3>4
  <2>3. Entries("PURCHASE", i)' = Entries("PURCHASE", i)
    BY <2>1 DEF Entries
  <2> QED BY <1>1, <2>2, <2>3, FewerAbout
<1>4. CASE CheckGranted(h)
  <2>1. ledger' = ledger
    BY <1>4 DEF CheckGranted, storeVars
  <2>2. Entries("PURCHASE", i)' = Entries("PURCHASE", i)
    BY <2>1 DEF Entries
  <2>3. CASE ~Granted(i)
    <3>1. Entries("PURCHASE", i) = {}
      BY <2>3 DEF Entries, Granted, HasEntry
    <3>2. PICK A : A = AboutToGrant(i)'
      OBVIOUS
    <3>3. A \in SUBSET Deliveries /\ IsFiniteSet(Deliveries)
      BY <3>2, PayAssumption DEF AboutToGrant
    <3>4. /\ Cardinality(A) <= Cardinality(Deliveries) /\ Cardinality(A) \in Nat
          /\ Cardinality(Deliveries) \in Nat
      BY <3>3, FS_Subset, FS_CardinalityType
    <3>5. Cardinality(Entries("PURCHASE", i)') = 0
      BY <2>2, <3>1, FS_EmptySet
    <3> QED BY <3>2, <3>4, <3>5
  <2>4. CASE Granted(i)
    <3>1. AboutToGrant(i)' \subseteq AboutToGrant(i)
      <4>1. delivery[h] \in Delivering
        BY <1>1, <1>4 DEF CheckGranted, Idle
      <4>2. CASE delivery[h].event.intent = i
        BY <1>1, <1>4, <2>4, <4>2 DEF CheckGranted, Return, Idle, AboutToGrant
      <4>3. CASE delivery[h].event.intent # i
        BY <1>1, <1>4, <4>1, <4>3 DEF CheckGranted, Goto, Return, Idle, Delivering, AboutToGrant
      <4> QED BY <4>2, <4>3
    <3> QED BY <1>1, <2>2, <3>1, FewerAbout
  <2> QED BY <2>3, <2>4
<1>5. CASE CommitGrant(h)
  <2>1. PICK A, B : A = AboutToGrant(i) /\ B = AboutToGrant(i)'
    OBVIOUS
  <2>2. B = A \ {h}
    BY <1>1, <1>5, <2>1 DEF CommitGrant, Return, Idle, AboutToGrant
  <2>3. h \in A <=> delivery[h].event.intent = i
    BY <1>1, <1>5, <2>1 DEF CommitGrant, AboutToGrant
  <2>4. /\ IsFiniteSet(A) /\ Cardinality(A) \in Nat /\ Cardinality(Deliveries) \in Nat
    BY <2>1, AboutFinite
  <2>5. Cardinality(B) = IF delivery[h].event.intent = i THEN Cardinality(A) - 1 ELSE Cardinality(A)
    BY <2>2, <2>3, <2>4, FS_RemoveElement
  <2>6. CommitTx(h, "PURCHASE", delivery[h].event.intent, Credits, txn[h].balance + Credits)
    BY <1>5 DEF CommitGrant, GrantTx
  <2>7. Cardinality(Entries("PURCHASE", i)') = Cardinality(Entries("PURCHASE", i))
          + (IF delivery[h].event.intent = i THEN 1 ELSE 0)
    BY <1>1, <2>6, EntriesAfterCommit
  <2>8. Cardinality(Entries("PURCHASE", i)) \in Nat
    BY <1>1, EntriesFinite
  <2> QED BY <1>1, <2>1, <2>4, <2>5, <2>7, <2>8
<1> QED BY <1>2, <1>3, <1>4, <1>5 DEF DeliveryStep

\* A purchase is credited at most once for each request that was handling it when
\* it was credited first.
THEOREM GrantsAreFew == PaySpec => []GrantsWithinOverlap
<1>1. PayInit => GrantsWithinOverlap
  <2> SUFFICES ASSUME PayInit, NEW i \in Intents
               PROVE  Cardinality(Entries("PURCHASE", i)) + Cardinality(AboutToGrant(i))
                        <= Cardinality(Deliveries)
    BY DEF GrantsWithinOverlap
  <2>1. Entries("PURCHASE", i) = {}
    BY DEF PayInit, StoreInit, Entries
  <2>2. AboutToGrant(i) = {}
    BY DEF PayInit, AboutToGrant, Idle
  <2> QED BY <2>1, <2>2, AboutFinite, FS_EmptySet
<1>2. PayIInv /\ GrantsWithinOverlap /\ [PayNext]_payVars => GrantsWithinOverlap'
  <2> SUFFICES ASSUME PayIInv, GrantsWithinOverlap, [PayNext]_payVars PROVE GrantsWithinOverlap'
    OBVIOUS
  <2>1. CASE UNCHANGED payVars
    BY <2>1 DEF payVars, storeVars, GrantsWithinOverlap, Entries, AboutToGrant
  <2>2. CASE StripeStep
    BY <2>2 DEF StripeStep, CreatePaymentIntent, OtherIntent, Decline, Pay, storeVars,
                GrantsWithinOverlap, Entries, AboutToGrant
  <2>3. ASSUME NEW r \in Refunders, RefundStart(r) \/ RefundStep(r) PROVE GrantsWithinOverlap'
    <3>1. delivery' = delivery
      BY <2>3 DEF RefundStart, RequestRefund, RefundStep, StripeRefund, BeginRefund,
                  CommitRefund, AbortRefund, DropRefund
    <3>2. \A i \in Intents : Cardinality(Entries("PURCHASE", i)') = Cardinality(Entries("PURCHASE", i))
      <4>1. CASE CommitRefund(r)
        <5>1. StoreTypeOK
          BY DEF PayIInv, StoreIInv
        <5> SUFFICES ASSUME NEW i \in Intents
                     PROVE Cardinality(Entries("PURCHASE", i)') = Cardinality(Entries("PURCHASE", i))
          OBVIOUS
        <5>2. Cardinality(Entries("PURCHASE", i)') = Cardinality(Entries("PURCHASE", i)) + 0
          BY <4>1, <5>1, EntriesAfterCommit DEF CommitRefund, ReverseTx
        <5> QED BY <5>1, <5>2, EntriesFinite
      <4>2. CASE ~CommitRefund(r)
        <5>1. ledger' = ledger
          BY <2>3, <4>2 DEF RefundStart, RequestRefund, RefundStep, StripeRefund, BeginRefund,
                            AbortRefund, DropRefund, BeginTx, AbortTx, storeVars
        <5> QED BY <5>1 DEF Entries
      <4> QED BY <4>1, <4>2
    <3>3. \A i \in Intents : AboutToGrant(i)' = AboutToGrant(i)
      BY <3>1 DEF AboutToGrant
    <3> QED BY <3>2, <3>3 DEF GrantsWithinOverlap
  <2> QED BY <2>1, <2>2, <2>3, DeliveryKeepsFew DEF PayNext
<1> QED BY <1>1, <1>2, PayInvariance, PTL DEF PaySpec
-----------------------------------------------------------------------------
\* What is taken back is covered by what Stripe gave back.

\* Refund r is done at Stripe, and its credits are still to be taken back.
UnderWay(r, i) == refund[r].step \in {"refunded", "tx"} /\ refund[r].intent = i

\* What a refund of a gives back, as a set with one element per unit of currency,
\* and all that the refunds under way of a payment do.
Units(r, a) == {r} \X (1 .. a)
GivenBack(i) ==
  {p \in Refunders \X (1 .. Price) : UnderWay(p[1], i) /\ p[2] <= refund[p[1]].amount}

\* The credits taken back are covered by the refunds whose entry is written: what
\* Stripe gave back less what is under way.
BackedIInv ==
  /\ \A r \in Refunders : refund[r].step \in {"refunded", "tx"} => refund[r].amount <= Price
  /\ \A i \in Intents :
       /\ Cardinality(GivenBack(i)) <= refunded[i]
       /\ TakenBack(i, ledger) \in Int
       /\ TakenBack(i, ledger)
            <= CreditsToRefund(refunded[i] - Cardinality(GivenBack(i)))
               + Cent * Cardinality(Entries("REFUND", i))

\* The credits of a larger refund are not fewer.
LEMMA CreditsGrow ==
  ASSUME NEW m \in Nat, NEW n \in Nat
  PROVE  /\ CreditsToRefund(m) \in Nat
         /\ m <= n => CreditsToRefund(m) <= CreditsToRefund(n)
         /\ CreditsToRefund(m) + CreditsToRefund(n) <= CreditsToRefund(m + n)
<1>1. Credits \in Nat /\ Price \in Nat \ {0}
  BY PayAssumption, GrantAssumption
<1>2. PICK c, p : c = Credits /\ p = Price
  OBVIOUS
<1>3. c \in Nat /\ p \in Nat \ {0}
  BY <1>1, <1>2
<1>4. PICK x, y, d : x = m * c /\ y = n * c /\ d = (n - m) * c
  OBVIOUS
<1>5. x \in Nat /\ y \in Nat /\ (m + n) * c = x + y
  BY <1>3, <1>4
<1>6. x \div p \in Nat /\ (x \div p) + (y \div p) <= (x + y) \div p
  BY <1>3, <1>5, DivAdds, DivBounds
<1>7. ASSUME m <= n PROVE x \div p <= y \div p
  <2>1. d \in Nat /\ y = x + d
    BY <1>3, <1>4, <1>7
  <2>2. (x \div p) + (d \div p) <= (x + d) \div p /\ d \div p \in Nat
    BY <1>3, <1>5, <2>1, DivAdds, DivBounds
  <2>3. PICK u, v, w : u = x \div p /\ v = d \div p /\ w = y \div p
    OBVIOUS
  <2>4. u \in Nat /\ v \in Nat /\ w \in Int /\ u + v <= w
    <3>1. w \in Nat
      BY <1>3, <1>5, <2>3, DivBounds
    <3> QED BY <1>6, <2>1, <2>2, <2>3, <3>1
  <2>5. u <= w
    BY <2>4
  <2> QED BY <2>3, <2>5
<1> QED BY <1>2, <1>4, <1>5, <1>6, <1>7 DEF CreditsToRefund

\* The units of a refund.
LEMMA UnitsCount ==
  ASSUME NEW r, NEW a \in Nat
  PROVE  IsFiniteSet(Units(r, a)) /\ Cardinality(Units(r, a)) = a
<1>1. IsFiniteSet(1 .. a) /\ Cardinality(1 .. a) = a
  BY FS_Interval
<1>2. IsFiniteSet({r}) /\ Cardinality({r}) = 1
  BY FS_Singleton
<1>3. PICK S, T : S = {r} /\ T = 1 .. a
  OBVIOUS
<1>4. Cardinality(S \X T) = Cardinality(S) * Cardinality(T) /\ IsFiniteSet(S \X T)
  BY <1>1, <1>2, <1>3, FS_Product
<1>5. Cardinality(S) * Cardinality(T) = a
  BY <1>1, <1>2, <1>3
<1> QED BY <1>3, <1>4, <1>5 DEF Units

\* The money that refunds under way give back is finite.
LEMMA GivenBackFinite ==
  ASSUME NEW i
  PROVE  IsFiniteSet(GivenBack(i)) /\ Cardinality(GivenBack(i)) \in Nat
<1>1. IsFiniteSet(1 .. Price) /\ IsFiniteSet(Refunders)
  BY PayAssumption, FS_Interval
<1>2. IsFiniteSet(Refunders \X (1 .. Price))
  BY <1>1, FS_Product
<1>3. GivenBack(i) \in SUBSET (Refunders \X (1 .. Price))
  BY DEF GivenBack
<1> QED BY <1>2, <1>3, FS_Subset, FS_CardinalityType

\* Who gives back a, alone: the sets before and after.
LEMMA UnitsMore ==
  ASSUME NEW A, NEW B, NEW r, NEW a \in Nat, IsFiniteSet(A),
         B = A \cup Units(r, a), A \cap Units(r, a) = {}
  PROVE  Cardinality(B) = Cardinality(A) + a /\ Cardinality(A) \in Nat
<1>1. IsFiniteSet(Units(r, a)) /\ Cardinality(Units(r, a)) = a
  BY UnitsCount
<1>2. Cardinality(B) = Cardinality(A) + Cardinality(Units(r, a)) - Cardinality(A \cap Units(r, a))
  BY <1>1, FS_Union
<1>3. Cardinality(A \cap Units(r, a)) = 0
  BY FS_EmptySet
<1> QED BY <1>1, <1>2, <1>3, FS_CardinalityType

\* What leaves the refunds, Stripe's count and the entries alone keeps it.
LEMMA BackedKept ==
  ASSUME BackedIInv, StoreTypeOK, refunded \in [Intents -> Nat], refund' = refund, refunded' = refunded,
         \A i \in Intents : /\ TakenBack(i, ledger') = TakenBack(i, ledger)
                            /\ Cardinality(Entries("REFUND", i)') = Cardinality(Entries("REFUND", i))
  PROVE  BackedIInv'
<1>1. \A i \in Intents : GivenBack(i)' = GivenBack(i)
  BY DEF GivenBack, UnderWay
<1>2. \A i \in Intents : refunded'[i] = refunded[i]
  OBVIOUS
<1> QED BY <1>1, <1>2 DEF BackedIInv, CreditsToRefund

\* So does what drops a refund whose money Stripe gave back.
LEMMA BackedWhenFewer ==
  ASSUME BackedIInv, StoreTypeOK, refunded \in [Intents -> Nat], ledger' = ledger, refunded' = refunded,
         \A i \in Intents : GivenBack(i)' \subseteq GivenBack(i),
         \A r \in Refunders :
           refund'[r].step \in {"refunded", "tx"} => refund'[r].amount <= Price
  PROVE  BackedIInv'
<1> SUFFICES ASSUME NEW i \in Intents
             PROVE  /\ Cardinality(GivenBack(i)') <= refunded[i]
                    /\ TakenBack(i, ledger) \in Int
                    /\ TakenBack(i, ledger)
                         <= CreditsToRefund(refunded[i] - Cardinality(GivenBack(i)'))
                            + Cent * Cardinality(Entries("REFUND", i))
  <2>1. \A i \in Intents : Entries("REFUND", i)' = Entries("REFUND", i)
    BY DEF Entries
  <2> QED BY <2>1 DEF BackedIInv, CreditsToRefund
<1>1. PICK A, B : A = GivenBack(i) /\ B = GivenBack(i)'
  OBVIOUS
<1>2. IsFiniteSet(A) /\ B \in SUBSET A
  BY <1>1, GivenBackFinite
<1>3. Cardinality(B) <= Cardinality(A) /\ Cardinality(B) \in Nat /\ Cardinality(A) \in Nat
  BY <1>2, FS_Subset, FS_CardinalityType
<1>4. PICK R, T, N : /\ R = refunded[i] /\ T = TakenBack(i, ledger)
                     /\ N = Cardinality(Entries("REFUND", i))
  OBVIOUS
<1>5. /\ R \in Nat /\ N \in Nat /\ T \in Int /\ Cardinality(A) <= R
      /\ T <= CreditsToRefund(R - Cardinality(A)) + Cent * N
  BY <1>1, <1>4, EntriesFinite DEF BackedIInv
<1>6. R - Cardinality(A) \in Nat /\ R - Cardinality(B) \in Nat
      /\ R - Cardinality(A) <= R - Cardinality(B)
  BY <1>3, <1>5
<1>7. /\ CreditsToRefund(R - Cardinality(A)) <= CreditsToRefund(R - Cardinality(B))
      /\ CreditsToRefund(R - Cardinality(A)) \in Nat /\ CreditsToRefund(R - Cardinality(B)) \in Nat
  BY <1>6, CreditsGrow
<1>8. T <= CreditsToRefund(R - Cardinality(B)) + Cent * N /\ Cardinality(B) <= R
  BY <1>3, <1>5, <1>7 DEF Cent
<1> QED BY <1>1, <1>4, <1>5, <1>8

\* A commit that is no refund takes nothing back.
LEMMA NothingTakenBack ==
  ASSUME StoreTypeOK, StoreTypeOK', NEW p, NEW type, NEW ref, NEW amount, NEW balanceAfter,
         CommitTx(p, type, ref, amount, balanceAfter), type # "REFUND", NEW i,
         TakenBack(i, ledger) \in Int
  PROVE  /\ TakenBack(i, ledger') = TakenBack(i, ledger)
         /\ Cardinality(Entries("REFUND", i)') = Cardinality(Entries("REFUND", i))
<1>1. TakenBack(i, ledger') = TakenBack(i, ledger) - 0
  BY TakenBackAfterCommit
<1>2. Cardinality(Entries("REFUND", i)') = Cardinality(Entries("REFUND", i)) + 0
  BY EntriesAfterCommit
<1>3. Cardinality(Entries("REFUND", i)) \in Nat
  BY EntriesFinite
<1> QED BY <1>1, <1>2, <1>3

\* Stripe gives money back, and the refund is under way.
LEMMA StripeRefundBacked ==
  ASSUME PayIInv, BackedIInv, NEW r \in Refunders, StripeRefund(r)
  PROVE  BackedIInv'
<1>1. /\ StoreTypeOK /\ refund \in [Refunders -> {Idle} \cup Refunding]
      /\ refunded \in [Intents -> Nat]
  BY DEF PayIInv, StoreIInv, RequestsTyped, StripeTyped
<1>2. PICK j, a : j = refund[r].intent /\ a = refund[r].amount
  OBVIOUS
<1>3. refund[r] \in Refunding /\ refund[r].step = "checked"
  BY <1>1 DEF StripeRefund, Idle
<1>4. j \in Intents /\ a \in Nat /\ refunded[j] \in Nat /\ refunded[j] + a <= Price
      /\ Price \in Nat
  BY <1>1, <1>2, <1>3, PayAssumption DEF StripeRefund, Refunding
<1>5. /\ ledger' = ledger
      /\ refunded' = [refunded EXCEPT ![j] = @ + a]
      /\ refund' = [refund EXCEPT ![r].step = "refunded"]
  BY <1>2 DEF StripeRefund, storeVars
<1>6. /\ refund'[r].step = "refunded" /\ refund'[r].intent = j /\ refund'[r].amount = a
      /\ \A q \in Refunders : q # r => refund'[q] = refund[q]
  BY <1>1, <1>2, <1>3, <1>5 DEF Refunding
<1>7. \A q \in Refunders : refund'[q].step \in {"refunded", "tx"} => refund'[q].amount <= Price
  BY <1>4, <1>6 DEF BackedIInv
<1> SUFFICES ASSUME NEW i \in Intents
             PROVE  /\ Cardinality(GivenBack(i)') <= refunded'[i]
                    /\ TakenBack(i, ledger) \in Int
                    /\ TakenBack(i, ledger)
                         <= CreditsToRefund(refunded'[i] - Cardinality(GivenBack(i)'))
                            + Cent * Cardinality(Entries("REFUND", i))
  <2>1. \A i \in Intents : Entries("REFUND", i)' = Entries("REFUND", i)
    BY <1>5 DEF Entries
  <2> QED BY <1>5, <1>7, <2>1 DEF BackedIInv, CreditsToRefund
<1>8. PICK A, B : A = GivenBack(i) /\ B = GivenBack(i)'
  OBVIOUS
<1>9. IsFiniteSet(A) /\ Cardinality(A) \in Nat
  BY <1>8, GivenBackFinite
<1>10. \A q \in Refunders : q # r => (UnderWay(q, i)' <=> UnderWay(q, i))
  BY <1>6 DEF UnderWay
<1>11. ~UnderWay(r, i) /\ (UnderWay(r, i)' <=> j = i)
  BY <1>3, <1>6 DEF UnderWay
<1>12. CASE j # i
  <2>1. B = A
    BY <1>6, <1>8, <1>10, <1>11, <1>12 DEF GivenBack
  <2>2. refunded'[i] = refunded[i]
    BY <1>1, <1>5, <1>12
  <2> QED BY <1>8, <2>1, <2>2 DEF BackedIInv
<1>13. CASE j = i
  <2>1. B = A \cup Units(r, a) /\ A \cap Units(r, a) = {}
    <3>1. A \cap Units(r, a) = {}
      BY <1>8, <1>11 DEF GivenBack, Units
    <3>2. ASSUME NEW p \in B PROVE p \in A \cup Units(r, a)
      BY <1>4, <1>6, <1>8, <1>10, <3>2 DEF GivenBack, Units
    <3>3. ASSUME NEW p \in A PROVE p \in B
      BY <1>6, <1>8, <1>10, <1>11, <3>3 DEF GivenBack
    <3>4. ASSUME NEW p \in Units(r, a) PROVE p \in B
      BY <1>4, <1>6, <1>8, <1>11, <1>13, <3>4 DEF GivenBack, Units
    <3> QED BY <3>1, <3>2, <3>3, <3>4
  <2>2. Cardinality(B) = Cardinality(A) + a
    BY <1>4, <1>9, <2>1, UnitsMore
  <2>3. refunded'[i] = refunded[i] + a
    BY <1>1, <1>5, <1>13
  <2>4. refunded'[i] - Cardinality(B) = refunded[i] - Cardinality(A)
    BY <1>4, <1>9, <1>13, <2>2, <2>3
  <2>5. Cardinality(B) <= refunded'[i]
    BY <1>4, <1>8, <1>9, <1>13, <2>2, <2>3 DEF BackedIInv
  <2> QED BY <1>8, <2>4, <2>5 DEF BackedIInv
<1> QED BY <1>12, <1>13

\* The entry of a refund is written: it takes back no more than its money's worth.
LEMMA CommitRefundBacked ==
  ASSUME PayIInv, PayIInv', BackedIInv, NEW r \in Refunders, CommitRefund(r)
  PROVE  BackedIInv'
<1>1. /\ StoreTypeOK /\ StoreTypeOK' /\ refund \in [Refunders -> {Idle} \cup Refunding]
      /\ refunded \in [Intents -> Nat]
  BY DEF PayIInv, StoreIInv, RequestsTyped, StripeTyped
<1>2. PICK j, a, c : j = refund[r].intent /\ a = refund[r].amount /\ c = CreditsToRefund(a)
  OBVIOUS
<1>3. refund[r] \in Refunding /\ refund[r].step = "tx"
  BY <1>1 DEF CommitRefund, Idle
<1>4. j \in Intents /\ a \in Nat /\ a <= Price /\ Price \in Nat
  BY <1>1, <1>2, <1>3, PayAssumption DEF BackedIInv, Refunding
<1>5. c \in Nat
  BY <1>2, <1>4, CreditsGrow
<1>6. /\ refunded' = refunded
      /\ refund' = [refund EXCEPT ![r] = Idle]
      /\ CommitTx(r, "REFUND", j, -c, ClampAtZero(txn[r].balance - c))
  BY <1>2 DEF CommitRefund, stripeVars, ReverseTx
<1>7. /\ refund'[r].step = "idle"
      /\ \A q \in Refunders : q # r => refund'[q] = refund[q]
  BY <1>1, <1>6 DEF Idle
<1>8. \A q \in Refunders : refund'[q].step \in {"refunded", "tx"} => refund'[q].amount <= Price
  BY <1>7 DEF BackedIInv
<1> SUFFICES ASSUME NEW i \in Intents
             PROVE  /\ Cardinality(GivenBack(i)') <= refunded[i]
                    /\ TakenBack(i, ledger') \in Int
                    /\ TakenBack(i, ledger')
                         <= CreditsToRefund(refunded[i] - Cardinality(GivenBack(i)'))
                            + Cent * Cardinality(Entries("REFUND", i)')
  BY <1>6, <1>8 DEF BackedIInv, CreditsToRefund
<1>9. PICK A, B : A = GivenBack(i) /\ B = GivenBack(i)'
  OBVIOUS
<1>10. IsFiniteSet(B) /\ Cardinality(B) \in Nat
  <2>1. IsFiniteSet(A) /\ B \in SUBSET A
    <3>1. \A q \in Refunders : UnderWay(q, i)' => UnderWay(q, i) /\ q # r
      BY <1>7 DEF UnderWay
    <3> QED BY <1>7, <1>9, <3>1, GivenBackFinite DEF GivenBack
  <2> QED BY <2>1, FS_Subset, FS_CardinalityType
<1>11. PICK R, T, S, N : /\ R = refunded[i] /\ T = TakenBack(i, ledger) /\ S = TakenBack(i, ledger')
                         /\ N = Cardinality(Entries("REFUND", i))
  OBVIOUS
<1>12. /\ R \in Nat /\ N \in Nat /\ T \in Int /\ Cardinality(A) <= R
       /\ T <= CreditsToRefund(R - Cardinality(A)) + Cent * N
  BY <1>1, <1>9, <1>11, EntriesFinite DEF BackedIInv
<1>13. /\ Cardinality(Entries("REFUND", i)') = N + (IF i = j THEN 1 ELSE 0)
       /\ S = T - (IF j = i THEN RoundToCent(-c) ELSE 0)
  <2>1. Cardinality(Entries("REFUND", i)') = N + (IF "REFUND" = "REFUND" /\ i = j THEN 1 ELSE 0)
    BY <1>1, <1>6, <1>11, EntriesAfterCommit
  <2>2. S = T - (IF "REFUND" = "REFUND" /\ j = i THEN RoundToCent(-c) ELSE 0)
    BY <1>1, <1>6, <1>11, TakenBackAfterCommit
  <2> QED BY <2>1, <2>2
<1>14. \A q \in Refunders : q # r => (UnderWay(q, i)' <=> UnderWay(q, i))
  BY <1>7 DEF UnderWay
<1>15. ~UnderWay(r, i)' /\ (UnderWay(r, i) <=> j = i)
  BY <1>2, <1>3, <1>7 DEF UnderWay
<1>16. CASE j # i
  <2>1. B = A
    BY <1>7, <1>9, <1>14, <1>15, <1>16 DEF GivenBack
  <2>2. S = T /\ Cardinality(Entries("REFUND", i)') = N
    BY <1>12, <1>13, <1>16
  <2> QED BY <1>9, <1>11, <1>12, <2>1, <2>2
<1>17. CASE j = i
  <2>1. A = B \cup Units(r, a) /\ B \cap Units(r, a) = {}
    <3>1. B \cap Units(r, a) = {}
      BY <1>9, <1>15 DEF GivenBack, Units
    <3>2. ASSUME NEW p \in A PROVE p \in B \cup Units(r, a)
      BY <1>2, <1>4, <1>7, <1>9, <1>14, <3>2 DEF GivenBack, Units
    <3>3. ASSUME NEW p \in B PROVE p \in A
      BY <1>7, <1>9, <1>14, <1>15, <3>3 DEF GivenBack
    <3>4. ASSUME NEW p \in Units(r, a) PROVE p \in A
      BY <1>2, <1>4, <1>9, <1>15, <1>17, <3>4 DEF GivenBack, Units
    <3> QED BY <3>1, <3>2, <3>3, <3>4
  <2>2. Cardinality(A) = Cardinality(B) + a
    BY <1>4, <1>10, <2>1, UnitsMore
  <2>3. R - Cardinality(A) \in Nat /\ (R - Cardinality(A)) + a = R - Cardinality(B)
        /\ R - Cardinality(B) \in Nat
    BY <1>4, <1>10, <1>12, <2>2
  <2>4. /\ CreditsToRefund(R - Cardinality(A)) + c <= CreditsToRefund(R - Cardinality(B))
        /\ CreditsToRefund(R - Cardinality(A)) \in Nat /\ CreditsToRefund(R - Cardinality(B)) \in Nat
    BY <1>2, <1>4, <2>3, CreditsGrow
  <2>5. RoundToCent(-c) \in Int /\ 0 - RoundToCent(-c) <= c + Cent
    <3>1. -c \in Int /\ RoundToCent(-c) \in Int /\ RoundToCent(-c) - (-c) \in -50 .. 50
      BY <1>5, RoundInt, RoundNear
    <3> QED BY <1>5, <3>1 DEF Cent
  <2>6. S \in Int /\ S <= T + c + Cent /\ Cardinality(Entries("REFUND", i)') = N + 1
    BY <1>5, <1>12, <1>13, <1>17, <2>5 DEF Cent
  <2>7. S <= CreditsToRefund(R - Cardinality(B)) + Cent * (N + 1)
    BY <1>5, <1>12, <2>4, <2>6 DEF Cent
  <2>8. Cardinality(B) <= R
    BY <1>10, <1>12, <2>3
  <2> QED BY <1>9, <1>11, <2>6, <2>7, <2>8
<1> QED BY <1>16, <1>17

\* The other steps of a refund.
LEMMA RefundKeepsBacked ==
  ASSUME PayIInv, PayIInv', BackedIInv, NEW r \in Refunders, RefundStart(r) \/ RefundStep(r)
  PROVE  BackedIInv'
<1>1. /\ StoreTypeOK /\ refund \in [Refunders -> {Idle} \cup Refunding]
      /\ refunded \in [Intents -> Nat]
  BY DEF PayIInv, StoreIInv, RequestsTyped, StripeTyped
<1>2. CASE StripeRefund(r)
  BY <1>2, StripeRefundBacked
<1>3. CASE CommitRefund(r)
  BY <1>3, CommitRefundBacked
<1>4. CASE RefundStart(r) \/ AbortRefund(r) \/ DropRefund(r)
  <2>1. ledger' = ledger /\ refunded' = refunded
    BY <1>4 DEF RefundStart, RequestRefund, AbortRefund, DropRefund, AbortTx, storeVars, stripeVars
  <2>2. /\ refund'[r].step \notin {"refunded", "tx"}
        /\ \A q \in Refunders : q # r => refund'[q] = refund[q]
    BY <1>1, <1>4 DEF RefundStart, RequestRefund, AbortRefund, DropRefund, Idle
  <2>3. \A i \in Intents : GivenBack(i)' \subseteq GivenBack(i)
    BY <2>2 DEF GivenBack, UnderWay
  <2>4. \A q \in Refunders : refund'[q].step \in {"refunded", "tx"} => refund'[q].amount <= Price
    BY <2>2 DEF BackedIInv
  <2> QED BY <1>1, <2>1, <2>3, <2>4, BackedWhenFewer
<1>5. CASE BeginRefund(r)
  <2>1. ledger' = ledger /\ refunded' = refunded
    BY <1>5 DEF BeginRefund, BeginTx, stripeVars
  <2>2. refund[r] \in Refunding /\ refund[r].step = "refunded"
    BY <1>1, <1>5 DEF BeginRefund, Idle
  <2>3. /\ refund'[r].step = "tx" /\ refund'[r].intent = refund[r].intent
        /\ refund'[r].amount = refund[r].amount
        /\ \A q \in Refunders : q # r => refund'[q] = refund[q]
    BY <1>1, <1>5, <2>2 DEF BeginRefund, Refunding
  <2>4. \A i \in Intents, q \in Refunders : /\ UnderWay(q, i)' <=> UnderWay(q, i)
                                            /\ refund'[q].amount = refund[q].amount
    BY <2>2, <2>3 DEF UnderWay
  <2>5. \A i \in Intents : GivenBack(i)' \subseteq GivenBack(i)
    BY <2>4 DEF GivenBack
  <2>6. \A q \in Refunders : refund'[q].step \in {"refunded", "tx"} => refund'[q].amount <= Price
    BY <2>2, <2>3 DEF BackedIInv
  <2> QED BY <1>1, <2>1, <2>5, <2>6, BackedWhenFewer
<1> QED BY <1>2, <1>3, <1>4, <1>5 DEF RefundStep

\* The credits that were taken back for a payment are covered by the money that
\* Stripe gave back, to a cent for each refund.
THEOREM RefundsHaveCover == PaySpec => []RefundsAreBacked
<1>1. PayInit => BackedIInv
  <2> SUFFICES ASSUME PayInit PROVE BackedIInv
    OBVIOUS
  <2>1. \A r \in Refunders : refund[r].step = "idle"
    BY DEF PayInit, Idle
  <2>2. ASSUME NEW i \in Intents
        PROVE  /\ Cardinality(GivenBack(i)) <= refunded[i]
               /\ TakenBack(i, ledger) \in Int
               /\ TakenBack(i, ledger)
                    <= CreditsToRefund(refunded[i] - Cardinality(GivenBack(i)))
                       + Cent * Cardinality(Entries("REFUND", i))
    <3>1. GivenBack(i) = {} /\ Entries("REFUND", i) = {}
      BY <2>1 DEF GivenBack, UnderWay, Entries, PayInit, StoreInit
    <3>2. Cardinality(GivenBack(i)) = 0 /\ Cardinality(Entries("REFUND", i)) = 0
      BY <3>1, FS_EmptySet
    <3>3. TakenBack(i, ledger) = 0 /\ refunded[i] = 0
      BY TakenBackEmpty DEF PayInit, StoreInit
    <3>4. CreditsToRefund(0) \in Nat
      BY CreditsGrow
    <3> QED BY <3>2, <3>3, <3>4 DEF Cent
  <2> QED BY <2>1, <2>2 DEF BackedIInv
<1>2. PayIInv /\ PayIInv' /\ BackedIInv /\ [PayNext]_payVars => BackedIInv'
  <2> SUFFICES ASSUME PayIInv, PayIInv', BackedIInv, [PayNext]_payVars PROVE BackedIInv'
    OBVIOUS
  <2>1. StoreTypeOK /\ StoreTypeOK' /\ refunded \in [Intents -> Nat]
    BY DEF PayIInv, StoreIInv, StripeTyped
  <2>2. CASE UNCHANGED payVars \/ StripeStep
    <3>1. ledger' = ledger /\ refund' = refund /\ refunded' = refunded
      BY <2>2 DEF payVars, storeVars, stripeVars, StripeStep, CreatePaymentIntent, OtherIntent,
                  Decline, Pay
    <3>2. \A i \in Intents : Entries("REFUND", i)' = Entries("REFUND", i)
      BY <3>1 DEF Entries
    <3> QED BY <2>1, <3>1, <3>2, BackedKept
  <2>3. ASSUME NEW h \in Deliveries, DeliveryStart(h) \/ DeliveryStep(h) PROVE BackedIInv'
    <3>1. refund' = refund /\ refunded' = refunded
      BY <2>3 DEF DeliveryStart, IgnoreUnknown, RecordFailure, RecordSuccess, DeliveryStep,
                  CheckStatus, CheckGranted, BeginGrant, CommitGrant, AbortGrant, DropDelivery,
                  stripeVars
    <3>2. CASE CommitGrant(h)
      <4>1. CommitTx(h, "PURCHASE", delivery[h].event.intent, Credits, txn[h].balance + Credits)
        BY <3>2 DEF CommitGrant, GrantTx
      <4>2. \A i \in Intents : TakenBack(i, ledger) \in Int
        BY DEF BackedIInv
      <4>3. \A i \in Intents :
              /\ TakenBack(i, ledger') = TakenBack(i, ledger)
              /\ Cardinality(Entries("REFUND", i)') = Cardinality(Entries("REFUND", i))
        BY <2>1, <4>1, <4>2, NothingTakenBack
      <4> QED BY <2>1, <3>1, <4>3, BackedKept
    <3>3. CASE ~CommitGrant(h)
      <4>1. ledger' = ledger
        BY <2>3, <3>3 DEF DeliveryStart, IgnoreUnknown, RecordFailure, RecordSuccess, DeliveryStep,
           CheckStatus, CheckGranted, BeginGrant, AbortGrant, DropDelivery, BeginTx, AbortTx,
           storeVars
      <4>2. \A i \in Intents : Entries("REFUND", i)' = Entries("REFUND", i)
        BY <4>1 DEF Entries
      <4> QED BY <2>1, <3>1, <4>1, <4>2, BackedKept
    <3> QED BY <3>2, <3>3
  <2> QED BY <2>2, <2>3, RefundKeepsBacked DEF PayNext
<1>3. PayIInv /\ BackedIInv => RefundsAreBacked
  <2> SUFFICES ASSUME PayIInv, BackedIInv, NEW i \in Intents
               PROVE  TakenBack(i, ledger)
                        <= CreditsToRefund(refunded[i]) + Cent * Cardinality(Entries("REFUND", i))
    BY DEF RefundsAreBacked
  <2>1. PICK R, K, T, N : /\ R = refunded[i] /\ K = Cardinality(GivenBack(i))
                          /\ T = TakenBack(i, ledger) /\ N = Cardinality(Entries("REFUND", i))
    OBVIOUS
  <2>2. StoreTypeOK /\ R \in Nat /\ K \in Nat /\ K <= R /\ T \in Int
        /\ T <= CreditsToRefund(R - K) + Cent * N
    BY <2>1, GivenBackFinite DEF PayIInv, StoreIInv, StripeTyped, BackedIInv
  <2>3. N \in Nat
    BY <2>1, <2>2, EntriesFinite
  <2>4. R - K \in Nat /\ R - K <= R
    BY <2>2
  <2>5. /\ CreditsToRefund(R - K) <= CreditsToRefund(R)
        /\ CreditsToRefund(R - K) \in Nat /\ CreditsToRefund(R) \in Nat
    BY <2>2, <2>4, CreditsGrow
  <2>6. T <= CreditsToRefund(R) + Cent * N
    BY <2>2, <2>3, <2>5 DEF Cent
  <2> QED BY <2>1, <2>6
<1> QED BY <1>1, <1>2, <1>3, PayInvariance, PTL DEF PaySpec

\* "Check if credits already granted": with one delivery at a time it is enough, and
\* a purchase is credited once, however often its event comes and fails.
THEOREM GrantedOnceAlone ==
  ASSUME Cardinality(Deliveries) = 1
  PROVE  PaySpec => []GrantedAtMostOnce
<1>1. PayIInv /\ GrantsWithinOverlap => GrantedAtMostOnce
  <2> SUFFICES ASSUME PayIInv, GrantsWithinOverlap, NEW i \in Intents
               PROVE  Cardinality(Entries("PURCHASE", i)) <= 1
    BY DEF GrantedAtMostOnce
  <2>1. StoreTypeOK
    BY DEF PayIInv, StoreIInv
  <2> QED BY <2>1, EntriesFinite, AboutFinite DEF GrantsWithinOverlap
<1> QED BY <1>1, GrantsAreFew, PayInvariance, PTL
=============================================================================
