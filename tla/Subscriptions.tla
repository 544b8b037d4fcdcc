---------------------------- MODULE Subscriptions ----------------------------
(***************************************************************************)
(* One Stripe subscription and the monthly credits it grants:               *)
(* createSubscription, cancelSubscription, grantSubscriptionCredits and the *)
(* three subscription webhooks of PaymentsService                           *)
(* (src/modules/payments/payments.service.ts), in production mode.          *)
(*                                                                         *)
(* Stripe (not under src/) keeps the subscription, moves it to its next     *)
(* period, bills the period, changes its status with the payments, ends it, *)
(* and emits an event each time.  customer.subscription.* events carry the  *)
(* subscription as it was then; invoice.paid carries only its id.  A period *)
(* begins before its invoice is paid, and begins unpaid too.                *)
(* Events keep the order they were emitted in, and a period does not end    *)
(* before its events are acked, only where inOrder is TRUE.                 *)
(* A billing period is named by its number; the code compares the Unix time *)
(* at which it starts.                                                      *)
(***************************************************************************)
EXTENDS CreditStore, FiniteSets

CONSTANTS
  Sub,            \* the subscription, as the reference of its credit entries
  Deliveries,     \* webhook requests that can be in progress at once
  MonthlyCredits, \* Subscription.monthlyCredits
  MaxPeriod,      \* bound on the periods
  Answers,        \* the statuses Stripe answers the creation with: the first invoice is
                  \* paid, is not yet due, or could not be paid
  Cancels,        \* the requests to cancel
  MaxDuplicates   \* bound on deliveries of an event that is already acked

ASSUME SubAssumption ==
  /\ Sub \in Refs
  /\ Deliveries \subseteq Procs
  /\ MonthlyCredits \in GrantAmounts
  /\ Answers \subseteq {"active", "trialing", "incomplete"}
  /\ MaxPeriod \in Nat /\ MaxDuplicates \in Nat

VARIABLES
  stripeSub,   \* Stripe: the subscription
  paid,        \* Stripe: the periods whose invoice is paid
  events,      \* Stripe: the events emitted, in order
  ackedUpTo,   \* Stripe: the numbers of the events that were answered 2xx
  again,       \* Stripe: deliveries made of acked events
  inOrder,     \* chosen at the start.  TRUE: in this behaviour Stripe happens to
               \* deliver one event at a time and in order, each until it is acked,
               \* and a period is over once its events are
  subRow,      \* the Subscription row
  creation,    \* createSubscription: between Stripe's answer and the row
  cancel,      \* cancelSubscription: each request, between Stripe's answer and the row
  overtaken,   \* history: the row's atEnd was last written by a request to cancel after
               \* another one had changed Stripe
  work         \* what each webhook request is doing

subStripeVars == <<stripeSub, paid, events, ackedUpTo, again, inOrder>>
requestVars == <<creation, cancel>>
subVars == <<storeVars, subStripeVars, subRow, requestVars, overtaken, work>>

NoPeriod == -1  \* lastCreditsGrantedPeriod is null
Period == 0 .. MaxPeriod

Over == {"canceled", "incomplete_expired"}
StripeStatus == {"active", "trialing", "incomplete", "past_due", "unpaid"} \cup Over

\* A subscription as Stripe shows it, in a response or in an event.
Shown == [status : StripeStatus, period : Period, atEnd : BOOLEAN]

SubEvent == [type : {"updated", "deleted", "invoice"}, sub : Shown]

SubStatus == {"ACTIVE", "CANCELLED", "PAST_DUE", "UNPAID", "TRIALING"}
SubRow == [status : SubStatus, period : Period, atEnd : BOOLEAN,
           canceledAt : BOOLEAN, lastGranted : Period \cup {NoPeriod}]
NoSub == [status |-> "absent"]

Idle == [step |-> "idle"]
Working ==
       [step : {"fetch"}, event : Nat]
  \cup [step : {"find"}, event : Nat, sub : Shown]
  \cup [step : {"update"}, event : Nat, sub : Shown, seen : Period]
  \cup [step : {"read"}, event : Nat]
  \cup [step : {"begin", "commit"}, event : Nat, period : Period]

\* mapStripeSubscriptionStatus
MapStatus(status) ==
  CASE status = "canceled" -> "CANCELLED"
    [] status = "past_due" -> "PAST_DUE"
    [] status = "unpaid"   -> "UNPAID"
    [] status = "trialing" -> "TRIALING"
    [] OTHER               -> "ACTIVE"

\* canceled_at is set when the subscription has ended, and when it has been asked to.
CanceledAt(sub) == sub.status = "canceled" \/ sub.atEnd

SubInit ==
  /\ StoreInit
  /\ stripeSub = [status |-> "absent"]
  /\ paid = {}
  /\ events = <<>> /\ ackedUpTo = {} /\ again = 0
  /\ inOrder \in BOOLEAN
  /\ subRow = NoSub
  /\ creation = "none" /\ cancel = [c \in Cancels |-> "none"]
  /\ overtaken = FALSE
  /\ work = [h \in Deliveries |-> Idle]

-----------------------------------------------------------------------------
\* Stripe.

\* The subscription changes to sub, and events of these types show it.
Emit(sub, types) ==
  /\ stripeSub' = sub
  /\ events' = events \o [j \in DOMAIN types |-> [type |-> types[j], sub |-> sub]]

\* A period lasts far longer than a request: none ends during createSubscription.
PeriodMayEnd ==
  /\ stripeSub.status \notin Over \cup {"absent", "incomplete"}
  /\ creation \in {"none", "done"}
  /\ inOrder => ackedUpTo = DOMAIN events

\* The next period begins; its invoice is paid later, or not at all.
Renew ==
  /\ PeriodMayEnd
  /\ ~stripeSub.atEnd /\ stripeSub.period < MaxPeriod
  /\ Emit([stripeSub EXCEPT !.period = @ + 1,
                            !.status = IF @ = "trialing" THEN "active" ELSE @], <<"updated">>)
  /\ UNCHANGED <<storeVars, paid, ackedUpTo, again, inOrder, subRow, requestVars, overtaken, work>>

\* The invoice of a period is paid; that of the current one ends any arrears.
PayInvoice(p) ==
  /\ stripeSub.status \notin Over \cup {"absent"}
  /\ p \in 0 .. stripeSub.period \ paid
  /\ paid' = paid \cup {p}
  /\ IF p = stripeSub.period /\ stripeSub.status \in {"incomplete", "past_due", "unpaid"}
     THEN Emit([stripeSub EXCEPT !.status = "active"], <<"updated", "invoice">>)
     ELSE Emit(stripeSub, <<"invoice">>)
  /\ UNCHANGED <<storeVars, ackedUpTo, again, inOrder, subRow, requestVars, overtaken, work>>

\* It is not paid when due, nor in the attempts that follow.
PaymentFails ==
  /\ stripeSub.status \in {"active", "past_due", "incomplete"}
  /\ stripeSub.period \notin paid
  /\ creation \in {"none", "done"}
  /\ Emit([stripeSub EXCEPT !.status = CASE @ = "active"     -> "past_due"
                                         [] @ = "past_due"   -> "unpaid"
                                         [] @ = "incomplete" -> "incomplete_expired"],
          <<"updated">>)
  /\ UNCHANGED <<storeVars, paid, ackedUpTo, again, inOrder, subRow, requestVars, overtaken, work>>

\* The subscription ends: at the end of its period, or for want of payment.
End ==
  /\ PeriodMayEnd
  /\ Emit([stripeSub EXCEPT !.status = "canceled"], <<"deleted">>)
  /\ UNCHANGED <<storeVars, paid, ackedUpTo, again, inOrder, subRow, requestVars, overtaken, work>>

-----------------------------------------------------------------------------
\* createSubscription and cancelSubscription.

\* creation keeps the status Stripe answers with until the row is written.
CreateAtStripe(status) ==
  /\ stripeSub.status = "absent"
  /\ Emit([status |-> status, period |-> 0, atEnd |-> FALSE],
          IF status = "incomplete" THEN <<"updated">> ELSE <<"updated", "invoice">>)
  /\ paid' = IF status = "incomplete" THEN {} ELSE {0}
  /\ creation' = status
  /\ UNCHANGED <<storeVars, ackedUpTo, again, inOrder, subRow, cancel, overtaken, work>>

\* The row is written from Stripe's response to the creation.
StoreSubscription ==
  /\ creation \in Answers
  /\ subRow' = [status |-> MapStatus(creation), period |-> 0, atEnd |-> FALSE,
                canceledAt |-> FALSE, lastGranted |-> NoPeriod]
  /\ creation' = "done"
  /\ UNCHANGED <<storeVars, subStripeVars, cancel, overtaken, work>>

\* The request ends between the two: Stripe bills a subscription without a row.
LoseSubscription ==
  /\ creation \in Answers
  /\ creation' = "done"
  /\ UNCHANGED <<storeVars, subStripeVars, subRow, cancel, overtaken, work>>

\* stripe.subscriptions.update({cancel_at_period_end}): an event only when this changes it.
CancelAtStripe(c, atEnd) ==
  /\ cancel[c] = "none"
  /\ subRow # NoSub
  /\ stripeSub.status \notin Over
  /\ IF atEnd # stripeSub.atEnd
     THEN Emit([stripeSub EXCEPT !.atEnd = atEnd], <<"updated">>)
     ELSE UNCHANGED <<stripeSub, events>>
  /\ cancel' = [cancel EXCEPT ![c] = IF atEnd THEN "at period end" ELSE "now"]
  /\ UNCHANGED <<storeVars, paid, ackedUpTo, again, inOrder, subRow, creation, overtaken, work>>

\* The row is written with the flag of this request, whatever the others did meanwhile.
StoreCancellation(c) ==
  /\ cancel[c] \in {"at period end", "now"}
  /\ subRow' = [subRow EXCEPT !.atEnd = (cancel[c] = "at period end"),
                              !.canceledAt = @ \/ cancel[c] = "now"]
  /\ overtaken' = (stripeSub.atEnd # (cancel[c] = "at period end"))
  /\ cancel' = [cancel EXCEPT ![c] = "done"]
  /\ UNCHANGED <<storeVars, subStripeVars, creation, work>>

LoseCancellation(c) ==
  /\ cancel[c] \in {"at period end", "now"}
  /\ cancel' = [cancel EXCEPT ![c] = "done"]
  /\ UNCHANGED <<storeVars, subStripeVars, subRow, creation, overtaken, work>>

-----------------------------------------------------------------------------
\* Webhook deliveries.

\* Stripe makes a delivery of its k-th event to a free request h.
Deliver(h, k) ==
  /\ work[h] = Idle
  /\ k \in DOMAIN events
  /\ inOrder => /\ k \notin ackedUpTo /\ 1 .. k - 1 \subseteq ackedUpTo
                /\ \A other \in Deliveries : work[other] = Idle
  /\ IF k \in ackedUpTo THEN again < MaxDuplicates /\ again' = again + 1
                         ELSE UNCHANGED again

Ack(k) == ackedUpTo' = ackedUpTo \cup {k}

Goto(h, at) == work' = [work EXCEPT ![h] = at]

\* A mutant of IgnoreUnknown: a missing row is an error, as elsewhere.
RejectUnknown(h, k) ==
  /\ Deliver(h, k)
  /\ subRow = NoSub
  /\ UNCHANGED <<storeVars, stripeSub, paid, events, ackedUpTo, inOrder, subRow, requestVars, overtaken, work>>

\* All three handlers return at once while there is no row.
IgnoreUnknown(h, k) ==
  /\ Deliver(h, k)
  /\ subRow = NoSub
  /\ Ack(k)
  /\ UNCHANGED <<storeVars, stripeSub, paid, events, inOrder, subRow, requestVars, overtaken, work>>

\* handleSubscriptionUpdated is called with the subscription of the event.
StartUpdated(h, k) ==
  /\ Deliver(h, k)
  /\ subRow # NoSub
  /\ events[k].type = "updated"
  /\ Goto(h, [step |-> "find", event |-> k, sub |-> events[k].sub])
  /\ UNCHANGED <<storeVars, stripeSub, paid, events, ackedUpTo, inOrder, subRow, requestVars, overtaken>>

\* handleInvoicePaid found the row and asks Stripe for the subscription.
StartInvoice(h, k) ==
  /\ Deliver(h, k)
  /\ subRow # NoSub
  /\ events[k].type = "invoice"
  /\ Goto(h, [step |-> "fetch", event |-> k])
  /\ UNCHANGED <<storeVars, stripeSub, paid, events, ackedUpTo, inOrder, subRow, requestVars, overtaken>>

\* Its call of handleSubscriptionUpdated is with Stripe's subscription of now.
FetchSubscription(h) ==
  /\ work[h].step = "fetch"
  /\ Goto(h, [step |-> "find", event |-> work[h].event, sub |-> stripeSub])
  /\ UNCHANGED <<storeVars, subStripeVars, subRow, requestVars, overtaken>>

\* A mutant of RecordDeleted: the status is left as it was.
RecordDeletedDate(h, k) ==
  /\ Deliver(h, k)
  /\ subRow # NoSub
  /\ events[k].type = "deleted"
  /\ subRow' = [subRow EXCEPT !.canceledAt = TRUE]
  /\ Ack(k)
  /\ UNCHANGED <<storeVars, stripeSub, paid, events, inOrder, requestVars, overtaken, work>>

\* handleSubscriptionDeleted
RecordDeleted(h, k) ==
  /\ Deliver(h, k)
  /\ subRow # NoSub
  /\ events[k].type = "deleted"
  /\ subRow' = [subRow EXCEPT !.status = "CANCELLED", !.canceledAt = TRUE]
  /\ Ack(k)
  /\ UNCHANGED <<storeVars, stripeSub, paid, events, inOrder, requestVars, overtaken, work>>

\* handleSubscriptionUpdated reads the row, which has the period seen so far,
FindSubscription(h) ==
  /\ work[h].step = "find"
  /\ Goto(h, [step |-> "update", event |-> work[h].event, sub |-> work[h].sub,
              seen |-> subRow.period])
  /\ UNCHANGED <<storeVars, subStripeVars, subRow, requestVars, overtaken>>

\* A mutant of PeriodChanged: every update grants.
AlwaysGrants(h) == TRUE

\* Grant credits if period changed (new billing period)
PeriodChanged(h) == work[h].seen # work[h].sub.period

\* overwrites it with Stripe's subscription, and grants or returns.
UpdateSubscription(h) ==
  /\ work[h].step = "update"
  /\ subRow' = [subRow EXCEPT !.status = MapStatus(work[h].sub.status),
                              !.period = work[h].sub.period,
                              !.atEnd = work[h].sub.atEnd,
                              !.canceledAt = @ \/ CanceledAt(work[h].sub)]
  /\ overtaken' = FALSE
  /\ IF PeriodChanged(h)
     THEN Goto(h, [step |-> "read", event |-> work[h].event]) /\ UNCHANGED ackedUpTo
     ELSE Goto(h, Idle) /\ Ack(work[h].event)
  /\ UNCHANGED <<storeVars, stripeSub, paid, events, again, inOrder, requestVars>>

\* Check if credits already granted for this period
GrantedForPeriod == subRow.lastGranted = subRow.period

\* grantSubscriptionCredits reads the row again: nothing to grant, or goes on.
ReadSubscription(h) ==
  /\ work[h].step = "read"
  /\ IF MonthlyCredits = 0 \/ GrantedForPeriod
     THEN Goto(h, Idle) /\ Ack(work[h].event)
     ELSE /\ Goto(h, [step |-> "begin", event |-> work[h].event, period |-> subRow.period])
          /\ UNCHANGED ackedUpTo
  /\ UNCHANGED <<storeVars, stripeSub, paid, events, again, inOrder, subRow, requestVars, overtaken>>

BeginSubGrant(h) ==
  /\ work[h].step = "begin"
  /\ BeginTx(h)
  /\ Goto(h, [work[h] EXCEPT !.step = "commit"])
  /\ UNCHANGED <<subStripeVars, subRow, requestVars, overtaken>>

\* A mutant of CommitSubGrant: the marker is not stored with the grant.
CommitUnmarked(h) ==
  /\ work[h].step = "commit"
  /\ GrantTx(h, "SUBSCRIPTION", Sub, MonthlyCredits)
  /\ Goto(h, Idle)
  /\ Ack(work[h].event)
  /\ UNCHANGED <<stripeSub, paid, events, again, inOrder, subRow, requestVars, overtaken>>

\* The grant and the marker of its period are one transaction.
CommitSubGrant(h) ==
  /\ work[h].step = "commit"
  /\ GrantTx(h, "SUBSCRIPTION", Sub, MonthlyCredits)
  /\ subRow' = [subRow EXCEPT !.lastGranted = work[h].period]
  /\ Goto(h, Idle)
  /\ Ack(work[h].event)
  /\ UNCHANGED <<stripeSub, paid, events, again, inOrder, requestVars, overtaken>>

AbortSubGrant(h) ==
  /\ work[h].step = "commit"
  /\ AbortTx(h)
  /\ Goto(h, Idle)
  /\ UNCHANGED <<subStripeVars, subRow, requestVars, overtaken>>

\* Any other await throws or the process ends: Stripe will deliver again.
DropWork(h) ==
  /\ work[h].step \in {"fetch", "find", "update", "read", "begin"}
  /\ Goto(h, Idle)
  /\ UNCHANGED <<storeVars, subStripeVars, subRow, requestVars, overtaken>>

-----------------------------------------------------------------------------

SubStripeStep == Renew \/ End \/ PaymentFails \/ \E p \in Period : PayInvoice(p)

SubRequest ==
  \/ \E status \in Answers : CreateAtStripe(status)
  \/ StoreSubscription \/ LoseSubscription
  \/ \E c \in Cancels : \/ \E atEnd \in BOOLEAN : CancelAtStripe(c, atEnd)
                       \/ StoreCancellation(c) \/ LoseCancellation(c)

SubStart(h) == \E k \in DOMAIN events :
  IgnoreUnknown(h, k) \/ StartUpdated(h, k) \/ StartInvoice(h, k) \/ RecordDeleted(h, k)

SubStep(h) ==
  \/ FetchSubscription(h) \/ FindSubscription(h) \/ UpdateSubscription(h)
  \/ ReadSubscription(h) \/ BeginSubGrant(h) \/ CommitSubGrant(h) \/ AbortSubGrant(h)
  \/ DropWork(h)

SubNext ==
  \/ SubStripeStep
  \/ SubRequest
  \/ \E h \in Deliveries : SubStart(h) \/ SubStep(h)

SubSpec == SubInit /\ [][SubNext]_subVars

\* As for payments: there is a delivery again while an event is not acked,
\* and the deliveries do not all fail at the same step for ever.  A request to
\* create or to cancel runs on, or is lost.
SubFairness ==
  /\ WF_subVars(\E k \in DOMAIN events \ ackedUpTo, h \in Deliveries :
       IgnoreUnknown(h, k) \/ StartUpdated(h, k) \/ StartInvoice(h, k) \/ RecordDeleted(h, k))
  /\ SF_subVars(\E h \in Deliveries : FetchSubscription(h))
  /\ SF_subVars(\E h \in Deliveries : FindSubscription(h))
  /\ SF_subVars(\E h \in Deliveries : UpdateSubscription(h))
  /\ SF_subVars(\E h \in Deliveries : ReadSubscription(h))
  /\ SF_subVars(\E h \in Deliveries : BeginSubGrant(h))
  /\ SF_subVars(\E h \in Deliveries : CommitSubGrant(h))
  /\ \A h \in Deliveries : WF_subVars(CommitSubGrant(h) \/ AbortSubGrant(h))
  /\ WF_subVars(StoreSubscription \/ LoseSubscription)
  /\ \A c \in Cancels : WF_subVars(StoreCancellation(c) \/ LoseCancellation(c))

SubFairSpec == SubSpec /\ SubFairness

-----------------------------------------------------------------------------

SubTypeOK ==
  /\ StoreTypeOK
  /\ stripeSub \in {[status |-> "absent"]} \cup Shown
  /\ paid \subseteq Period
  /\ events \in Seq(SubEvent)
  /\ ackedUpTo \subseteq DOMAIN events /\ again \in Nat /\ inOrder \in BOOLEAN
  /\ subRow \in {NoSub} \cup SubRow
  /\ creation \in {"none", "done"} \cup Answers
  /\ cancel \in [Cancels -> {"none", "at period end", "now", "done"}]
  /\ overtaken \in BOOLEAN
  /\ work \in [Deliveries -> {Idle} \cup Working]

SubGrants == {k \in DOMAIN ledger : ledger[k].type = "SUBSCRIPTION" /\ ledger[k].ref = Sub}

\* Nothing is being processed and no event waits for a delivery.
Settled ==
  /\ ackedUpTo = DOMAIN events
  /\ \A h \in Deliveries : work[h] = Idle
  /\ creation = "done" /\ subRow # NoSub
  /\ \A c \in Cancels : cancel[c] \in {"none", "done"}

\* A period is credited once: there are no more grants than renewals ("prevents
\* duplicate grants"), when events arrive one at a time and in order, whatever
\* deliveries fail.
GrantsWithinRenewals ==
  inOrder => Cardinality(SubGrants) <= IF stripeSub.status = "absent" THEN 0 ELSE stripeSub.period

\* Once every event of an orderly delivery is acked the row shows the subscription as
\* Stripe has it: its period, its status through every arrears and recovery, that it has
\* ended, and whether it will end with its period.  Only of the last it may show what a
\* request to cancel wrote after another one had changed Stripe.
RowFollowsStripe ==
  Settled /\ inOrder =>
    /\ subRow.period = stripeSub.period
    /\ subRow.status = MapStatus(stripeSub.status)
    /\ subRow.atEnd = stripeSub.atEnd \/ overtaken
    /\ stripeSub.status = "canceled" => subRow.canceledAt

\* No order, overlap, repetition or failure of deliveries grants credits before a
\* renewal has begun, or for a period Stripe has not reached; and the marker of the last
\* period granted is set exactly when something has been granted.
GrantsFollowRenewal ==
  /\ SubGrants # {} => stripeSub.period >= 1 /\ subRow.lastGranted <= stripeSub.period
  /\ subRow # NoSub => (subRow.lastGranted # NoPeriod <=> SubGrants # {})

\* No event is delivered for ever: the events of a subscription are finitely many
\* here, and in the end all of them are acked, whatever their deliveries met, so
\* Stripe never disables the endpoint.
EventsAreAcked == <>[](ackedUpTo = DOMAIN events)

\* A subscription that has ended at Stripe ends up as CANCELLED in its row, or has
\* none, and stays so, whatever deliveries of its last events fail.
EndIsRecorded ==
  inOrder /\ stripeSub.status = "canceled" ~> [](subRow = NoSub \/ subRow.status = "CANCELLED")

-----------------------------------------------------------------------------
\* What the source says of itself and the code does not keep.

\* "Prevent duplicate credit grants per billing period", in any order of delivery.
PeriodsGrantedOnce == Cardinality(SubGrants) <= IF stripeSub.status = "absent" THEN 0 ELSE stripeSub.period

\* "Update subscription period and grant credits": once every event is acked, the
\* renewals that were paid have been granted.
RenewalsAreGranted == Settled => Cardinality(SubGrants) >= subRow.period

\* "Monthly credit allowance": once the events of a paid period are acked, the
\* subscriber has been granted credits, in the first month too.
AllowanceIsGranted == Settled => SubGrants # {}

\* 'Subscription cancelled successfully': when the request to cancel has been
\* stored and is not for the end of the period, Stripe has ended it, or will.
CancelledIsCancelled ==
  Settled /\ subRow.canceledAt => stripeSub.status = "canceled" \/ stripeSub.atEnd

\* "Handle invoice paid (for subscription renewals)", "Update subscription period and
\* grant credits": the renewals that have been granted have been paid.
GrantsArePaid == Cardinality(SubGrants) <= Cardinality(paid \ {0})

\* 'Subscription cancelled successfully': once the requests to cancel are answered and
\* the events acked, the row shows whether Stripe will end the subscription.
CancellationsAgree == Settled /\ inOrder => subRow.atEnd = stripeSub.atEnd
=============================================================================
