------------------------- MODULE SubscriptionsProofs -------------------------
(***************************************************************************)
(* What is proved of a subscription, for any number of periods, events and *)
(* deliveries, delivered in any order, repeatedly, overlapping or failing. *)
(*                                                                         *)
(* First, every step is a step of the credit store or leaves it alone, so  *)
(* what CreditStoreProofs shows of the store holds here too.  Then, no     *)
(* grant runs ahead of the renewals.  That is not inductive: the period a  *)
(* grant is marked with comes from an event or from a row that was written *)
(* from one, so one needs to know that nothing anywhere shows a period that *)
(* Stripe has not reached, and that a handler which found the period       *)
(* changed has seen a renewal.                                             *)
(*                                                                         *)
(* Then, of the courses in which the events come in order: a renewal is    *)
(* credited once, and the row ends up with what Stripe has.  The invariant *)
(* of these courses follows the one event in hand: what it and the events   *)
(* behind it will still show the row, and that the grant of the period it   *)
(* opens is not yet made.                                                   *)
(***************************************************************************)
EXTENDS Subscriptions, CreditStoreProofs, SequenceTheorems, FiniteSetTheorems

\* What is in an event is not ahead of Stripe.
EventsShown ==
  \A k \in DOMAIN events :
    stripeSub.status # "absent" /\ events[k].sub.period <= stripeSub.period

\* Nor is the row, which is written once the subscription is there and not yet in arrears;
\* without it there is no grant, no request to cancel and no handler at work.
RowShown ==
  /\ creation # "none" => stripeSub.status # "absent"
  /\ creation \in Answers => stripeSub.status \notin {"past_due", "unpaid"}
  /\ subRow # NoSub => /\ stripeSub.status # "absent"
                       /\ subRow.period <= stripeSub.period
                       /\ creation = "done"
  /\ subRow = NoSub => /\ SubGrants = {} /\ \A c \in Cancels : cancel[c] = "none"
                       /\ \A h \in Deliveries : work[h] = Idle

\* Nor is what a handler holds, and one that is about to grant has seen a renewal.
WorkShown ==
  \A h \in Deliveries :
    /\ work[h].step # "idle" => work[h].event \in DOMAIN events
    /\ work[h].step \in {"find", "update"} => work[h].sub.period <= stripeSub.period
    /\ work[h].step = "update" => work[h].seen <= stripeSub.period
    /\ work[h].step \in {"read", "begin", "commit"} => stripeSub.period >= 1
    /\ work[h].step \in {"begin", "commit"} => work[h].period <= stripeSub.period

\* The inductive invariant.
SubIInv == SubTypeOK /\ StoreIInv /\ EventsShown /\ RowShown /\ WorkShown /\ GrantsFollowRenewal

\* Nothing is there at first.
LEMMA SubInitHolds == SubInit => SubIInv
<1> SUFFICES ASSUME SubInit PROVE SubIInv
  OBVIOUS
<1>1. StoreIInv
  BY StoreInitIInv DEF SubInit
<1>2. SubTypeOK
  <2>1. cancel \in [Cancels -> {"none", "at period end", "now", "done"}]
    BY DEF SubInit
  <2>2. work \in [Deliveries -> {Idle} \cup Working]
    BY DEF SubInit
  <2>3. events \in Seq(SubEvent) /\ ackedUpTo \subseteq DOMAIN events
    BY DEF SubInit
  <2> QED BY <1>1, <2>1, <2>2, <2>3 DEF SubInit, SubTypeOK, StoreIInv
<1>3. SubGrants = {} /\ events = <<>>
  BY DEF SubInit, StoreInit, SubGrants
<1>4. EventsShown /\ RowShown /\ GrantsFollowRenewal
  BY <1>3 DEF SubInit, EventsShown, RowShown, GrantsFollowRenewal
<1>5. WorkShown
  BY DEF SubInit, WorkShown, Idle
<1> QED BY <1>1, <1>2, <1>4, <1>5 DEF SubIInv

\* What is there, when it is there.
LEMMA ShownTypes ==
  ASSUME SubTypeOK
  PROVE  /\ stripeSub.status # "absent" => stripeSub \in Shown
         /\ subRow # NoSub => subRow \in SubRow
         /\ events \in Seq(SubEvent)
<1>1. stripeSub \in {[status |-> "absent"]} \cup Shown /\ subRow \in {NoSub} \cup SubRow
  BY DEF SubTypeOK
<1>2. events \in Seq(SubEvent)
  BY DEF SubTypeOK
<1> QED BY <1>1, <1>2

\* Periods are numbers.
LEMMA PeriodTypes ==
  /\ \A s \in Shown : s.status # "absent" /\ s.period \in Nat
  /\ \A r \in SubRow : r.period \in Int /\ r.lastGranted \in Int
  /\ \A e \in SubEvent : e.sub \in Shown /\ e.sub.period \in Int
<1>1. Period \subseteq Int /\ NoPeriod \in Int
  BY SubAssumption DEF Period, NoPeriod
<1>2. \A s \in Shown : s.status # "absent" /\ s.period \in Nat
  BY SubAssumption DEF Shown, Period, StripeStatus, Over
<1>3. \A r \in SubRow : r.period \in Int /\ r.lastGranted \in Int
  BY <1>1 DEF SubRow
<1>4. \A e \in SubEvent : e.sub \in Shown
  BY DEF SubEvent
<1> QED BY <1>2, <1>3, <1>4

\* What a handler holds at each step.
LEMMA WorkTypes ==
  ASSUME SubTypeOK, NEW h \in Deliveries
  PROVE  /\ work[h].step = "fetch" => work[h] \in [step : {"fetch"}, event : Nat]
         /\ work[h].step = "find" => work[h] \in [step : {"find"}, event : Nat, sub : Shown]
         /\ work[h].step = "update" =>
              work[h] \in [step : {"update"}, event : Nat, sub : Shown, seen : Period]
         /\ work[h].step = "read" => work[h] \in [step : {"read"}, event : Nat]
         /\ work[h].step \in {"begin", "commit"} =>
              work[h] \in [step : {"begin", "commit"}, event : Nat, period : Period]
<1>1. work[h] \in {Idle} \cup Working
  BY DEF SubTypeOK
<1>2. CASE work[h] = Idle
  BY <1>2 DEF Idle
<1>3. CASE work[h] \in [step : {"fetch"}, event : Nat]
  BY <1>3
<1>4. CASE work[h] \in [step : {"find"}, event : Nat, sub : Shown]
  BY <1>4
<1>5. CASE work[h] \in [step : {"update"}, event : Nat, sub : Shown, seen : Period]
  BY <1>5
<1>6. CASE work[h] \in [step : {"read"}, event : Nat]
  BY <1>6
<1>7. CASE work[h] \in [step : {"begin", "commit"}, event : Nat, period : Period]
  BY <1>7
<1> QED BY <1>1, <1>2, <1>3, <1>4, <1>5, <1>6, <1>7 DEF Working

-----------------------------------------------------------------------------
\* The service is a client of the credit store.

\* A step of a handler is a step of the store or leaves it alone.
LEMMA SubUsesStore == SubIInv /\ [SubNext]_subVars => [StoreNext]_storeVars
<1> SUFFICES ASSUME SubIInv, [SubNext]_subVars PROVE [StoreNext]_storeVars
  OBVIOUS
<1>1. CASE UNCHANGED subVars
  BY <1>1 DEF subVars
<1>2. CASE SubStripeStep \/ SubRequest
  BY <1>2 DEF SubStripeStep, Renew, PayInvoice, PaymentFails, End, SubRequest, CreateAtStripe,
     StoreSubscription, LoseSubscription, CancelAtStripe, StoreCancellation, LoseCancellation
<1>3. ASSUME NEW h \in Deliveries, SubStart(h) PROVE [StoreNext]_storeVars
  BY <1>3 DEF SubStart, IgnoreUnknown, StartUpdated, StartInvoice, RecordDeleted
<1>4. ASSUME NEW h \in Deliveries, SubStep(h) PROVE [StoreNext]_storeVars
  <2>1. h \in Procs
    BY SubAssumption
  <2>2. CASE FetchSubscription(h) \/ FindSubscription(h) \/ UpdateSubscription(h)
             \/ ReadSubscription(h) \/ DropWork(h)
    BY <2>2 DEF FetchSubscription, FindSubscription, UpdateSubscription, ReadSubscription, DropWork
  <2>3. CASE BeginSubGrant(h)
    BY <2>1, <2>3 DEF BeginSubGrant, StoreNext
  <2>4. CASE CommitSubGrant(h)
    BY <2>1, <2>4, SubAssumption DEF CommitSubGrant, StoreNext, Grant
  <2>5. CASE AbortSubGrant(h)
    BY <2>1, <2>5 DEF AbortSubGrant, StoreNext
  <2> QED BY <1>4, <2>2, <2>3, <2>4, <2>5 DEF SubStep
<1> QED BY <1>1, <1>2, <1>3, <1>4 DEF SubNext

\* So every step keeps the store.
LEMMA SubKeepsStore == ASSUME SubIInv, [SubNext]_subVars PROVE StoreIInv'
  BY SubUsesStore, StoreStepIInv DEF SubIInv

-----------------------------------------------------------------------------
\* The grants of the subscription.

\* A step that writes no entry leaves them alone.
LEMMA GrantsAsBefore == ASSUME ledger' = ledger PROVE SubGrants' = SubGrants
  BY DEF SubGrants

\* A grant adds one.
LEMMA GrantAdds ==
  ASSUME StoreIInv, NEW h \in Deliveries, GrantTx(h, "SUBSCRIPTION", Sub, MonthlyCredits)
  PROVE  SubGrants' # {}
<1> DEFINE e == [type |-> "SUBSCRIPTION", ref |-> Sub, amount |-> RoundToCent(MonthlyCredits),
                 before |-> txn[h].balance, after |-> RoundToCent(txn[h].balance + MonthlyCredits)]
<1>1. ledger' = Append(ledger, e) /\ ledger \in Seq(Entry)
  BY DEF GrantTx, CommitTx, StoreIInv, StoreTypeOK
<1>2. e.type = "SUBSCRIPTION" /\ e.ref = Sub
  OBVIOUS
<1> HIDE DEF e
<1>3. Len(ledger) + 1 \in DOMAIN ledger' /\ ledger'[Len(ledger) + 1] = e
  BY <1>1
<1> QED BY <1>2, <1>3 DEF SubGrants

-----------------------------------------------------------------------------
\* The steps, but for the store.

SubRest == SubTypeOK /\ EventsShown /\ RowShown /\ WorkShown /\ GrantsFollowRenewal

\* What is emitted comes after the other events and shows the subscription.
EventTypes == {"updated", "deleted", "invoice"}
Unacked == DOMAIN events \ ackedUpTo

\* The requests to cancel are each at one of these.
Requested == cancel \in [Cancels -> {"none", "at period end", "now", "done"}]

LEMMA EmitGrows ==
  ASSUME SubTypeOK, NEW sub \in Shown, NEW types \in Seq(EventTypes), Emit(sub, types),
         UNCHANGED ackedUpTo
  PROVE  /\ stripeSub' = sub /\ events' \in Seq(SubEvent)
         /\ DOMAIN events' \subseteq Nat
         /\ \A k \in DOMAIN events : k \in DOMAIN events' /\ events'[k] = events[k]
         /\ \A k \in DOMAIN events' \ DOMAIN events :
              /\ events'[k].sub = sub /\ \E j \in DOMAIN types : events'[k].type = types[j]
              /\ \A l \in DOMAIN events : l < k
         /\ Unacked \subseteq Unacked'
         /\ Unacked' \subseteq Unacked \cup (DOMAIN events' \ DOMAIN events)
         /\ types # <<>> => \E k \in Unacked' \ DOMAIN events :
                             events'[k].type = types[1] /\ events'[k].sub = sub
<1> DEFINE more == [j \in DOMAIN types |-> [type |-> types[j], sub |-> sub]]
<1>0. events \in Seq(SubEvent) /\ ackedUpTo \subseteq DOMAIN events
  BY DEF SubTypeOK
<1>1. stripeSub' = sub /\ events' = events \o more
  BY DEF Emit
<1>2. /\ DOMAIN types = 1 .. Len(types) /\ Len(types) \in Nat
      /\ \A j \in DOMAIN types : types[j] \in EventTypes
  OBVIOUS
<1>3. \A j \in DOMAIN types : [type |-> types[j], sub |-> sub] \in SubEvent
  BY <1>2 DEF SubEvent, EventTypes
<1>4. /\ more \in Seq(SubEvent) /\ Len(more) = Len(types) /\ DOMAIN more = DOMAIN types
      /\ \A j \in DOMAIN types : more[j].type = types[j] /\ more[j].sub = sub
  <2>1. more \in [1 .. Len(types) -> SubEvent]
    BY <1>2, <1>3
  <2>2. more \in Seq(SubEvent)
    BY <1>2, <2>1
  <2> QED BY <1>2, <2>1, <2>2
<1> HIDE DEF more
<1>5. /\ events' \in Seq(SubEvent)
      /\ Len(events') = Len(events) + Len(more)
      /\ \A k \in 1 .. Len(events') :
           events'[k] = IF k <= Len(events) THEN events[k] ELSE more[k - Len(events)]
  <2>1. /\ events \o more \in Seq(SubEvent)
        /\ Len(events \o more) = Len(events) + Len(more)
        /\ \A k \in 1 .. Len(events) + Len(more) :
             (events \o more)[k] = IF k <= Len(events) THEN events[k] ELSE more[k - Len(events)]
    <3>1. events \in Seq(SubEvent) /\ more \in Seq(SubEvent)
      BY <1>0, <1>4
    <3> QED BY <3>1, ConcatProperties
  <2> QED BY <1>1, <2>1
<1>6. /\ DOMAIN events = 1 .. Len(events) /\ DOMAIN events' = 1 .. Len(events')
      /\ Len(events) \in Nat
  BY <1>0, <1>5
<1>7. \A k \in DOMAIN events : k \in DOMAIN events' /\ events'[k] = events[k]
  BY <1>2, <1>4, <1>5, <1>6
<1>8. ASSUME NEW k \in DOMAIN events' \ DOMAIN events
      PROVE  /\ events'[k].sub = sub /\ \E j \in DOMAIN types : events'[k].type = types[j]
             /\ \A l \in DOMAIN events : l < k
  <2>1. k - Len(events) \in DOMAIN types /\ events'[k] = more[k - Len(events)]
    BY <1>2, <1>4, <1>5, <1>6
  <2>2. \A l \in DOMAIN events : l < k
    BY <1>6
  <2> QED BY <1>4, <2>1, <2>2
<1>9. Unacked \subseteq Unacked' /\ Unacked' \subseteq Unacked \cup (DOMAIN events' \ DOMAIN events)
  BY <1>0, <1>7 DEF Unacked
<1>10. ASSUME types # <<>>
       PROVE  \E k \in Unacked' \ DOMAIN events : events'[k].type = types[1] /\ events'[k].sub = sub
  <2>1. 1 \in DOMAIN types
    BY <1>2, <1>10
  <2>2. /\ Len(events) + 1 \in DOMAIN events' \ DOMAIN events
        /\ events'[Len(events) + 1] = more[1]
    BY <1>2, <1>4, <1>5, <1>6, <2>1
  <2>3. Len(events) + 1 \in Unacked'
    BY <1>0, <2>2 DEF Unacked
  <2> QED BY <1>4, <2>1, <2>2, <2>3
<1>11. DOMAIN events' \subseteq Nat
  BY <1>6
<1> QED BY <1>1, <1>5, <1>7, <1>8, <1>9, <1>10, <1>11

\* A step of Stripe emits what it has changed, and moves the period on or leaves it.
StripeMoves(sub, types) ==
  /\ sub \in Shown /\ types \in Seq(EventTypes)
  /\ Emit(sub, types) /\ ledger' = ledger /\ StoreTypeOK'
  /\ stripeSub.status # "absent" => stripeSub.period <= sub.period
  /\ paid' \subseteq Period
  /\ UNCHANGED <<ackedUpTo, again, inOrder, subRow, overtaken, work>>

LEMMA StripeKeeps ==
  ASSUME SubIInv, NEW sub, NEW types, StripeMoves(sub, types),
         creation' \in {"none", "done"} \cup Answers,
         stripeSub.status = "absent" \/ creation' = creation,
         creation' \in Answers => sub.status \notin {"past_due", "unpaid"},
         subRow = NoSub => cancel' = cancel,
         Requested'
  PROVE  SubRest'
<1>0. /\ sub \in Shown /\ StoreTypeOK' /\ ledger' = ledger /\ paid' \subseteq Period
      /\ stripeSub.status # "absent" => stripeSub.period <= sub.period
      /\ UNCHANGED <<ackedUpTo, again, inOrder, subRow, overtaken, work>>
  BY DEF StripeMoves
<1>1. SubGrants' = SubGrants
  BY <1>0, GrantsAsBefore
<1>2. sub.status # "absent" /\ sub.period \in Nat
  BY <1>0, PeriodTypes
<1>3. /\ stripeSub' = sub /\ events' \in Seq(SubEvent)
      /\ \A k \in DOMAIN events : k \in DOMAIN events' /\ events'[k] = events[k]
      /\ \A k \in DOMAIN events' \ DOMAIN events : events'[k].sub = sub
  BY EmitGrows DEF SubIInv, StripeMoves
<1>4. stripeSub.status # "absent" => stripeSub.period \in Nat /\ stripeSub.period <= sub.period
  BY <1>0, ShownTypes, PeriodTypes DEF SubIInv
<1>5. SubTypeOK'
  <2>1. ackedUpTo' \subseteq DOMAIN events'
    BY <1>0, <1>3 DEF SubIInv, SubTypeOK
  <2> QED BY <1>0, <1>3, <2>1 DEF SubIInv, SubTypeOK, Requested
<1>6. EventsShown'
  <2> SUFFICES ASSUME NEW k \in DOMAIN events' PROVE events'[k].sub.period <= sub.period
    BY <1>2, <1>3 DEF EventsShown
  <2>1. CASE k \in DOMAIN events
    <3>1. /\ events'[k] = events[k] /\ events[k] \in SubEvent
          /\ stripeSub.status # "absent" /\ events[k].sub.period <= stripeSub.period
      BY <1>3, <2>1, ShownTypes DEF SubIInv, EventsShown
    <3>2. events[k].sub.period \in Int
      BY <3>1, PeriodTypes
    <3> QED BY <1>2, <1>4, <3>1, <3>2
  <2>2. CASE k \notin DOMAIN events
    BY <1>2, <1>3, <2>2
  <2> QED BY <2>1, <2>2
<1>7. RowShown'
  <2>1. subRow # NoSub => /\ subRow.period \in Int /\ stripeSub.status # "absent"
                          /\ subRow.period <= stripeSub.period /\ creation = "done"
    BY ShownTypes, PeriodTypes DEF SubIInv, RowShown
  <2>2. subRow # NoSub => subRow.period <= sub.period
    BY <1>2, <1>4, <2>1
  <2>3. subRow = NoSub => /\ SubGrants = {} /\ \A c \in Cancels : cancel'[c] = "none"
                          /\ \A h \in Deliveries : work[h] = Idle
    BY DEF SubIInv, RowShown
  <2>4. subRow # NoSub => creation' = "done"
    BY <2>1
  <2> QED BY <1>0, <1>1, <1>2, <1>3, <2>2, <2>3, <2>4 DEF RowShown
<1>8. WorkShown'
  <2> SUFFICES ASSUME NEW h \in Deliveries
               PROVE  (/\ work[h].step # "idle" => work[h].event \in DOMAIN events
                       /\ work[h].step \in {"find", "update"} => work[h].sub.period <= stripeSub.period
                       /\ work[h].step = "update" => work[h].seen <= stripeSub.period
                       /\ work[h].step \in {"read", "begin", "commit"} => stripeSub.period >= 1
                       /\ work[h].step \in {"begin", "commit"} => work[h].period <= stripeSub.period)'
    BY DEF WorkShown
  <2>1. /\ work[h].step \in {"find", "update"} => work[h].sub.period \in Int
        /\ work[h].step = "update" => work[h].seen \in Int
        /\ work[h].step \in {"begin", "commit"} => work[h].period \in Int
    BY WorkTypes, PeriodTypes, SubAssumption DEF SubIInv, Period
  <2>2. work' = work /\ (work[h].step # "idle" => work[h].event \in DOMAIN events')
    BY <1>0, <1>3 DEF SubIInv, WorkShown
  <2>3. /\ work[h].step \in {"find", "update"} => work[h].sub.period <= stripeSub.period
        /\ work[h].step = "update" => work[h].seen <= stripeSub.period
        /\ work[h].step \in {"read", "begin", "commit"} => stripeSub.period >= 1
        /\ work[h].step \in {"begin", "commit"} => work[h].period <= stripeSub.period
    BY DEF SubIInv, WorkShown
  <2>4. work[h].step # "idle" => stripeSub.status # "absent"
    BY DEF SubIInv, WorkShown, EventsShown
  <2> QED BY <1>2, <1>3, <1>4, <2>1, <2>2, <2>3, <2>4
<1>9. GrantsFollowRenewal'
  <2>1. subRow # NoSub => subRow.lastGranted \in Int /\ stripeSub.status # "absent"
    BY ShownTypes, PeriodTypes DEF SubIInv, RowShown
  <2>2. SubGrants # {} => subRow # NoSub
    BY DEF SubIInv, RowShown
  <2>3. SubGrants # {} => sub.period >= 1 /\ subRow.lastGranted <= sub.period
    BY <1>2, <1>4, <2>1, <2>2 DEF SubIInv, GrantsFollowRenewal
  <2> QED BY <1>0, <1>1, <1>3, <2>3 DEF SubIInv, GrantsFollowRenewal
<1> QED BY <1>5, <1>6, <1>7, <1>8, <1>9 DEF SubRest

\* What Stripe changes of its own accord: the period and the status.
LEMMA StripeStepMoves ==
  ASSUME SubIInv, StoreIInv', SubStripeStep
  PROVE  \E sub, types :
           /\ StripeMoves(sub, types) /\ types # <<>>
           /\ UNCHANGED <<creation, cancel>>
           /\ stripeSub \in Shown /\ stripeSub.status # "canceled" /\ sub.atEnd = stripeSub.atEnd
           /\ creation \in Answers =>
                /\ sub.period = stripeSub.period /\ MapStatus(sub.status) = MapStatus(stripeSub.status)
                /\ sub.status \notin {"past_due", "unpaid"}
           /\ inOrder => \/ sub.period = stripeSub.period
                         \/ /\ sub.period = stripeSub.period + 1
                            /\ creation \notin Answers /\ ackedUpTo = DOMAIN events
           /\ \/ sub.status # "canceled" /\ \A j \in DOMAIN types : types[j] # "deleted"
              \/ /\ sub.status = "canceled" /\ types = <<"deleted">> /\ creation \notin Answers
                 /\ sub.period = stripeSub.period /\ (inOrder => ackedUpTo = DOMAIN events)
<1>1. StoreTypeOK' /\ ledger' = ledger
      /\ UNCHANGED <<ackedUpTo, again, inOrder, subRow, overtaken, work, creation, cancel>>
  BY DEF StoreIInv, SubStripeStep, Renew, PayInvoice, PaymentFails, End, storeVars, requestVars
<1>2. stripeSub \in Shown /\ stripeSub.status # "canceled" /\ stripeSub.period \in Nat
  <2>1. stripeSub.status \notin {"absent", "canceled"}
    BY DEF SubStripeStep, Renew, PayInvoice, PaymentFails, End, PeriodMayEnd, Over
  <2> QED BY <2>1, ShownTypes, PeriodTypes DEF SubIInv
<1>3. {"none", "done"} \cap Answers = {} /\ paid \subseteq Period
  BY SubAssumption DEF SubIInv, SubTypeOK
<1>4. CASE Renew
  <2> DEFINE sub == [stripeSub EXCEPT !.period = @ + 1,
                                      !.status = IF @ = "trialing" THEN "active" ELSE @]
             types == <<"updated">>
  <2>1. /\ sub \in Shown /\ sub.period = stripeSub.period + 1 /\ sub.atEnd = stripeSub.atEnd
        /\ sub.status # "canceled"
    <3> DEFINE status == IF stripeSub.status = "trialing" THEN "active" ELSE stripeSub.status
    <3>1. status \in StripeStatus /\ status # "canceled"
      BY <1>2 DEF Shown, StripeStatus
    <3>2. stripeSub.period + 1 \in Period
      BY <1>2, <1>4, SubAssumption DEF Renew, Period
    <3>3. sub = [stripeSub EXCEPT !.period = stripeSub.period + 1, !.status = status]
      OBVIOUS
    <3> HIDE DEF status, sub
    <3> QED BY <1>2, <3>1, <3>2, <3>3 DEF Shown
  <2>2. /\ types \in Seq(EventTypes) /\ types # <<>>
        /\ \A j \in DOMAIN types : types[j] # "deleted"
    BY DEF EventTypes
  <2>3. /\ Emit(sub, types) /\ paid' = paid /\ creation \notin Answers
        /\ inOrder => ackedUpTo = DOMAIN events
    BY <1>3, <1>4 DEF Renew, PeriodMayEnd
  <2> HIDE DEF sub, types
  <2>4. StripeMoves(sub, types)
    BY <1>1, <1>2, <1>3, <2>1, <2>2, <2>3 DEF StripeMoves
  <2> QED BY <1>1, <1>2, <2>1, <2>2, <2>3, <2>4
<1>5. CASE End
  <2> DEFINE sub == [stripeSub EXCEPT !.status = "canceled"]
  <2>1. /\ sub \in Shown /\ sub.period = stripeSub.period /\ sub.atEnd = stripeSub.atEnd
        /\ sub.status = "canceled"
    BY <1>2 DEF Shown, StripeStatus, Over
  <2>2. <<"deleted">> \in Seq(EventTypes) /\ <<"deleted">> # <<>>
    BY DEF EventTypes
  <2>3. /\ Emit(sub, <<"deleted">>) /\ paid' = paid /\ creation \notin Answers
        /\ inOrder => ackedUpTo = DOMAIN events
    BY <1>3, <1>5 DEF End, PeriodMayEnd
  <2> HIDE DEF sub
  <2>4. StripeMoves(sub, <<"deleted">>)
    BY <1>1, <1>2, <1>3, <2>1, <2>2, <2>3 DEF StripeMoves
  <2> QED BY <1>1, <1>2, <2>1, <2>2, <2>3, <2>4
<1>6. CASE PaymentFails
  <2> DEFINE next == CASE stripeSub.status = "active"     -> "past_due"
                       [] stripeSub.status = "past_due"   -> "unpaid"
                       [] stripeSub.status = "incomplete" -> "incomplete_expired"
             sub == [stripeSub EXCEPT !.status = next]
             types == <<"updated">>
  <2>0. next \in {"past_due", "unpaid", "incomplete_expired"}
    BY <1>6 DEF PaymentFails
  <2>3. /\ Emit(sub, types) /\ paid' = paid /\ creation \notin Answers
    BY <1>3, <1>6 DEF PaymentFails
  <2> HIDE DEF next
  <2>1. /\ sub \in Shown /\ sub.period = stripeSub.period /\ sub.atEnd = stripeSub.atEnd
        /\ sub.status # "canceled"
    BY <1>2, <2>0 DEF Shown, StripeStatus, Over
  <2>2. /\ types \in Seq(EventTypes) /\ types # <<>>
        /\ \A j \in DOMAIN types : types[j] # "deleted"
    BY DEF EventTypes
  <2> HIDE DEF sub, types
  <2>4. StripeMoves(sub, types)
    BY <1>1, <1>2, <1>3, <2>1, <2>2, <2>3 DEF StripeMoves
  <2> QED BY <1>1, <1>2, <2>1, <2>2, <2>3, <2>4
<1>7. ASSUME NEW p \in Period, PayInvoice(p)
      PROVE  \E sub, types :
               /\ StripeMoves(sub, types) /\ types # <<>>
               /\ sub.period = stripeSub.period /\ sub.atEnd = stripeSub.atEnd
               /\ creation \in Answers =>
                    /\ MapStatus(sub.status) = MapStatus(stripeSub.status)
                    /\ sub.status \notin {"past_due", "unpaid"}
               /\ sub.status # "canceled" /\ \A j \in DOMAIN types : types[j] # "deleted"
  <2>1. paid' \subseteq Period
    BY <1>3, <1>7 DEF PayInvoice
  <2>2. CASE p = stripeSub.period /\ stripeSub.status \in {"incomplete", "past_due", "unpaid"}
    <3> DEFINE sub == [stripeSub EXCEPT !.status = "active"]
               types == <<"updated", "invoice">>
    <3>1. /\ sub \in Shown /\ sub.period = stripeSub.period /\ sub.atEnd = stripeSub.atEnd
          /\ sub.status = "active"
      BY <1>2 DEF Shown, StripeStatus
    <3>2. /\ types \in Seq(EventTypes) /\ types # <<>>
          /\ \A j \in DOMAIN types : types[j] # "deleted"
      BY DEF EventTypes
    <3>3. Emit(sub, types)
      BY <1>7, <2>2 DEF PayInvoice
    <3>4. creation \in Answers => MapStatus(sub.status) = MapStatus(stripeSub.status)
      <4>1. creation \in Answers => stripeSub.status \notin {"past_due", "unpaid"}
        BY DEF SubIInv, RowShown
      <4> QED BY <2>2, <3>1, <4>1 DEF MapStatus
    <3> HIDE DEF sub, types
    <3> QED BY <1>1, <1>2, <2>1, <3>1, <3>2, <3>3, <3>4 DEF StripeMoves
  <2>3. CASE ~(p = stripeSub.period /\ stripeSub.status \in {"incomplete", "past_due", "unpaid"})
    <3> DEFINE types == <<"invoice">>
    <3>1. /\ types \in Seq(EventTypes) /\ types # <<>>
          /\ \A j \in DOMAIN types : types[j] # "deleted"
      BY DEF EventTypes
    <3>2. Emit(stripeSub, types)
      BY <1>7, <2>3 DEF PayInvoice
    <3>3. creation \in Answers => stripeSub.status \notin {"past_due", "unpaid"}
      BY DEF SubIInv, RowShown
    <3> HIDE DEF types
    <3> QED BY <1>1, <1>2, <2>1, <3>1, <3>2, <3>3 DEF StripeMoves
  <2> QED BY <2>2, <2>3
<1> QED BY <1>1, <1>2, <1>4, <1>5, <1>6, <1>7 DEF SubStripeStep

\* createSubscription writes a row that shows Stripe's answer; a request to cancel
\* changes no period.
LEMMA CreateMoves ==
  ASSUME SubIInv, StoreIInv', NEW status \in Answers, CreateAtStripe(status)
  PROVE  \E sub, types :
           /\ StripeMoves(sub, types) /\ creation' = status /\ cancel' = cancel
           /\ sub = [status |-> status, period |-> 0, atEnd |-> FALSE]
           /\ status \notin {"canceled", "past_due", "unpaid"}
           /\ \A j \in DOMAIN types : types[j] # "deleted"
<1> DEFINE sub == [status |-> status, period |-> 0, atEnd |-> FALSE]
           types == IF status = "incomplete" THEN <<"updated">> ELSE <<"updated", "invoice">>
<1>1. 0 \in Period /\ status \in StripeStatus \ {"canceled"}
  BY SubAssumption DEF Period, StripeStatus, Over
<1>2. sub \in Shown /\ status \notin {"canceled", "past_due", "unpaid"}
  BY <1>1, SubAssumption DEF Shown
<1>3. types \in Seq(EventTypes) /\ \A j \in DOMAIN types : types[j] # "deleted"
  <2>1. <<"updated">> \in Seq(EventTypes) /\ <<"updated", "invoice">> \in Seq(EventTypes)
    BY DEF EventTypes
  <2>2. \A j \in DOMAIN <<"updated">> : <<"updated">>[j] # "deleted"
    OBVIOUS
  <2>3. \A j \in DOMAIN <<"updated", "invoice">> : <<"updated", "invoice">>[j] # "deleted"
    OBVIOUS
  <2> QED BY <2>1, <2>2, <2>3
<1>4. /\ Emit(sub, types) /\ stripeSub.status = "absent" /\ paid' \in {{}, {0}}
      /\ creation' = status /\ ledger' = ledger
      /\ UNCHANGED <<ackedUpTo, again, inOrder, subRow, cancel, overtaken, work>>
  BY DEF CreateAtStripe, storeVars
<1>5. paid' \subseteq Period /\ StoreTypeOK'
  BY <1>1, <1>4 DEF StoreIInv
<1> HIDE DEF types
<1>6. StripeMoves(sub, types)
  BY <1>2, <1>3, <1>4, <1>5 DEF StripeMoves
<1> QED BY <1>2, <1>3, <1>4, <1>6

LEMMA CancelMoves ==
  ASSUME SubIInv, StoreIInv', NEW c \in Cancels, NEW atEnd \in BOOLEAN, CancelAtStripe(c, atEnd)
  PROVE  /\ subRow # NoSub /\ stripeSub \in Shown /\ stripeSub.status # "canceled"
         /\ Requested'
         /\ ledger' = ledger /\ StoreTypeOK'
         /\ UNCHANGED <<paid, ackedUpTo, again, inOrder, subRow, creation, overtaken, work>>
         /\ \/ UNCHANGED <<stripeSub, events>>
            \/ \E sub : /\ StripeMoves(sub, <<"updated">>) /\ sub.period = stripeSub.period
                        /\ sub.status = stripeSub.status
<1>1. /\ subRow # NoSub /\ stripeSub.status # "canceled" /\ ledger' = ledger
      /\ UNCHANGED <<paid, ackedUpTo, again, inOrder, subRow, creation, overtaken, work>>
  BY DEF CancelAtStripe, storeVars, Over
<1>2. stripeSub \in Shown /\ stripeSub.status # "absent" /\ stripeSub.period \in Nat
  <2>1. stripeSub.status # "absent"
    BY <1>1 DEF SubIInv, RowShown
  <2> QED BY <2>1, ShownTypes, PeriodTypes DEF SubIInv
<1>3. Requested' /\ StoreTypeOK'
  BY DEF CancelAtStripe, SubIInv, SubTypeOK, StoreIInv, Requested
<1>4. ASSUME atEnd # stripeSub.atEnd
      PROVE  \E sub : /\ StripeMoves(sub, <<"updated">>) /\ sub.period = stripeSub.period
                      /\ sub.status = stripeSub.status
  <2> DEFINE sub == [stripeSub EXCEPT !.atEnd = atEnd]
  <2>1. sub \in Shown /\ sub.period = stripeSub.period /\ sub.status = stripeSub.status
    BY <1>2 DEF Shown
  <2>2. Emit(sub, <<"updated">>)
    BY <1>4 DEF CancelAtStripe
  <2>3. <<"updated">> \in Seq(EventTypes)
    BY DEF EventTypes
  <2>4. paid' \subseteq Period
    BY <1>1 DEF SubIInv, SubTypeOK
  <2> HIDE DEF sub
  <2>5. stripeSub.period <= sub.period
    BY <1>2, <2>1
  <2>6. StripeMoves(sub, <<"updated">>)
    BY <1>1, <1>3, <2>1, <2>2, <2>3, <2>4, <2>5 DEF StripeMoves
  <2> QED BY <2>1, <2>6
<1>5. atEnd = stripeSub.atEnd => UNCHANGED <<stripeSub, events>>
  BY DEF CancelAtStripe
<1> QED BY <1>1, <1>2, <1>3, <1>4, <1>5

LEMMA RequestKeeps ==
  ASSUME SubIInv, StoreIInv', SubRequest
  PROVE  SubRest'
<1>1. StoreTypeOK' /\ SubGrants' = SubGrants /\ inOrder' = inOrder /\ work' = work
      /\ ackedUpTo' = ackedUpTo /\ again' = again
  BY GrantsAsBefore DEF StoreIInv, SubRequest, CreateAtStripe, StoreSubscription, LoseSubscription,
     CancelAtStripe, StoreCancellation, LoseCancellation, storeVars, subStripeVars, requestVars
<1>2. ASSUME NEW status \in Answers, CreateAtStripe(status) PROVE SubRest'
  <2>1. PICK sub, types :
          /\ StripeMoves(sub, types) /\ creation' = status /\ cancel' = cancel
          /\ sub.status \notin {"past_due", "unpaid"}
    BY <1>2, CreateMoves
  <2>2. stripeSub.status = "absent" /\ Requested
    BY <1>2 DEF CreateAtStripe, SubIInv, SubTypeOK, Requested
  <2>3. Requested'
    BY <2>1, <2>2 DEF Requested
  <2> QED BY <2>1, <2>2, <2>3, StripeKeeps
<1>3. CASE StoreSubscription
  <2>1. /\ subRow' \in SubRow /\ subRow'.period = 0 /\ subRow'.lastGranted = NoPeriod
        /\ subRow' # NoSub
    <3>1. 0 \in Period
      BY SubAssumption DEF Period
    <3>2. subRow' = [status |-> MapStatus(creation), period |-> 0, atEnd |-> FALSE,
                     canceledAt |-> FALSE, lastGranted |-> NoPeriod]
      BY <1>3 DEF StoreSubscription
    <3>3. MapStatus(creation) \in SubStatus
      BY DEF MapStatus, SubStatus
    <3> QED BY <3>1, <3>2, <3>3 DEF SubRow, NoSub, SubStatus
  <2>2. UNCHANGED <<stripeSub, paid, events, cancel, overtaken>> /\ creation' = "done"
        /\ creation \in Answers
    BY <1>3 DEF StoreSubscription, subStripeVars
  <2>3. subRow = NoSub /\ creation # "none"
    BY <2>2, SubAssumption DEF SubIInv, RowShown
  <2>4. SubGrants = {} /\ \A h \in Deliveries : work[h] = Idle
    BY <2>3 DEF SubIInv, RowShown
  <2>5. SubTypeOK'
    BY <1>1, <2>1, <2>2 DEF SubIInv, SubTypeOK
  <2>6. stripeSub.status # "absent" /\ 0 <= stripeSub.period
    <3>1. stripeSub.status # "absent"
      BY <2>3 DEF SubIInv, RowShown
    <3>2. stripeSub \in Shown
      BY <3>1, ShownTypes DEF SubIInv
    <3> QED BY <3>1, <3>2, PeriodTypes
  <2>7. RowShown'
    BY <1>1, <2>1, <2>2, <2>6, SubAssumption DEF RowShown
  <2>8. EventsShown' /\ WorkShown' /\ GrantsFollowRenewal'
    BY <1>1, <2>1, <2>2, <2>4 DEF SubIInv, EventsShown, WorkShown, GrantsFollowRenewal
  <2> QED BY <2>5, <2>7, <2>8 DEF SubRest
<1>4. CASE LoseSubscription
  <2>1. /\ UNCHANGED <<stripeSub, paid, events, subRow, cancel, overtaken>> /\ creation' = "done"
        /\ stripeSub.status # "absent" /\ creation \in Answers
    BY <1>4, SubAssumption DEF LoseSubscription, subStripeVars, SubIInv, RowShown
  <2>2. SubTypeOK' /\ EventsShown' /\ WorkShown' /\ GrantsFollowRenewal'
    BY <1>1, <2>1 DEF SubIInv, SubTypeOK, EventsShown, WorkShown, GrantsFollowRenewal
  <2>3. RowShown'
    BY <1>1, <2>1, SubAssumption DEF SubIInv, RowShown
  <2> QED BY <2>2, <2>3 DEF SubRest
<1>5. ASSUME NEW c \in Cancels, NEW atEnd \in BOOLEAN, CancelAtStripe(c, atEnd) PROVE SubRest'
  <2>1. /\ subRow # NoSub
        /\ Requested'
        /\ UNCHANGED <<paid, ackedUpTo, again, inOrder, subRow, creation, overtaken, work>>
        /\ \/ UNCHANGED <<stripeSub, events>>
           \/ \E sub : StripeMoves(sub, <<"updated">>)
    BY <1>5, CancelMoves
  <2>2. creation \in {"none", "done"} \cup Answers /\ creation \notin Answers
    BY <2>1, SubAssumption DEF SubIInv, SubTypeOK, RowShown
  <2>3. CASE \E sub : StripeMoves(sub, <<"updated">>)
    BY <2>1, <2>2, <2>3, StripeKeeps
  <2>4. CASE UNCHANGED <<stripeSub, events>>
    BY <1>1, <2>1, <2>4 DEF SubRest, SubIInv, SubTypeOK, EventsShown, RowShown, WorkShown,
                            GrantsFollowRenewal, Requested
  <2> QED BY <2>1, <2>3, <2>4
<1>6. ASSUME NEW c \in Cancels, StoreCancellation(c) PROVE SubRest'
  <2>1. /\ UNCHANGED <<stripeSub, paid, events, creation>> /\ subRow # NoSub
        /\ Requested'
        /\ overtaken' \in BOOLEAN
    <3>1. UNCHANGED <<stripeSub, paid, events, creation>> /\ overtaken' \in BOOLEAN
      BY <1>6 DEF StoreCancellation, subStripeVars
    <3>2. Requested'
      BY <1>6 DEF StoreCancellation, SubIInv, SubTypeOK, Requested
    <3>3. subRow # NoSub
      BY <1>6 DEF StoreCancellation, SubIInv, RowShown
    <3> QED BY <3>1, <3>2, <3>3
  <2>2. subRow \in SubRow
    BY <2>1, ShownTypes DEF SubIInv
  <2>3. /\ subRow' \in SubRow /\ subRow'.period = subRow.period
        /\ subRow'.lastGranted = subRow.lastGranted /\ subRow' # NoSub
    BY <1>6, <2>2 DEF StoreCancellation, SubRow, NoSub
  <2>4. SubTypeOK'
    BY <1>1, <2>1, <2>3 DEF SubIInv, SubTypeOK, Requested
  <2> QED BY <1>1, <2>1, <2>3, <2>4 DEF SubRest, SubIInv, EventsShown, RowShown, WorkShown,
                                        GrantsFollowRenewal
<1>7. ASSUME NEW c \in Cancels, LoseCancellation(c) PROVE SubRest'
  <2>1. UNCHANGED <<stripeSub, paid, events, subRow, creation, overtaken>>
    BY <1>7 DEF LoseCancellation, subStripeVars
  <2>2. Requested'
    BY <1>7 DEF LoseCancellation, SubIInv, SubTypeOK, Requested
  <2>3. SubTypeOK' /\ EventsShown' /\ WorkShown' /\ GrantsFollowRenewal'
    BY <1>1, <2>1, <2>2 DEF SubIInv, SubTypeOK, EventsShown, WorkShown, GrantsFollowRenewal, Requested
  <2>4. subRow # NoSub
    BY <1>7 DEF LoseCancellation, SubIInv, RowShown
  <2> QED BY <1>1, <2>1, <2>3, <2>4 DEF SubRest, SubIInv, RowShown
<1> QED BY <1>2, <1>3, <1>4, <1>5, <1>6, <1>7 DEF SubRequest

\* A handler that a delivery starts holds what the event shows.
LEMMA StartKeeps ==
  ASSUME SubIInv, StoreIInv', NEW h \in Deliveries, SubStart(h)
  PROVE  SubRest'
<1> PICK k \in DOMAIN events :
      IgnoreUnknown(h, k) \/ StartUpdated(h, k) \/ StartInvoice(h, k) \/ RecordDeleted(h, k)
  BY DEF SubStart
<1>1. /\ StoreTypeOK' /\ SubGrants' = SubGrants
      /\ UNCHANGED <<stripeSub, paid, events, inOrder, creation, cancel, overtaken>>
  BY GrantsAsBefore DEF StoreIInv, IgnoreUnknown, StartUpdated, StartInvoice, RecordDeleted, storeVars,
     requestVars
<1>2. ackedUpTo' \subseteq DOMAIN events /\ again' \in Nat
  <2>1. ackedUpTo \subseteq DOMAIN events /\ again \in Nat
    BY DEF SubIInv, SubTypeOK
  <2>2. Deliver(h, k) /\ (ackedUpTo' = ackedUpTo \/ Ack(k))
    BY DEF IgnoreUnknown, StartUpdated, StartInvoice, RecordDeleted
  <2> QED BY <2>1, <2>2 DEF Deliver, Ack
<1>3. EventsShown'
  BY <1>1 DEF SubIInv, EventsShown
<1>4. events[k] \in SubEvent /\ k \in Nat
  BY ShownTypes DEF SubIInv
<1>5. CASE IgnoreUnknown(h, k)
  <2>1. subRow' = subRow /\ work' = work
    BY <1>5 DEF IgnoreUnknown
  <2> QED BY <1>1, <1>2, <1>3, <2>1 DEF SubRest, SubIInv, SubTypeOK, RowShown, WorkShown,
                                        GrantsFollowRenewal
<1>6. ASSUME NEW w \in [step : {"find"}, event : Nat, sub : Shown] \cup [step : {"fetch"}, event : Nat],
             Goto(h, w), subRow' = subRow, subRow # NoSub, w.event \in DOMAIN events,
             w.step = "find" => w.sub.period <= stripeSub.period
      PROVE  SubRest'
  <2>1. work' = [work EXCEPT ![h] = w] /\ w \in Working /\ work \in [Deliveries -> {Idle} \cup Working]
    BY <1>6 DEF Goto, Working, SubIInv, SubTypeOK
  <2>2. work' \in [Deliveries -> {Idle} \cup Working]
    BY <2>1
  <2>3. SubTypeOK'
    BY <1>1, <1>2, <1>6, <2>2 DEF SubIInv, SubTypeOK
  <2>4. WorkShown'
    <3>1. w.step \in {"find", "fetch"}
      BY <1>6
    <3> QED BY <1>1, <1>6, <2>1, <3>1 DEF SubIInv, WorkShown
  <2>5. RowShown' /\ GrantsFollowRenewal'
    BY <1>1, <1>6 DEF SubIInv, RowShown, GrantsFollowRenewal
  <2> QED BY <1>3, <2>3, <2>4, <2>5 DEF SubRest
<1>7. CASE StartUpdated(h, k)
  <2> DEFINE w == [step |-> "find", event |-> k, sub |-> events[k].sub]
  <2>1. w \in [step : {"find"}, event : Nat, sub : Shown] /\ w.sub.period <= stripeSub.period
    BY <1>4, PeriodTypes DEF SubIInv, EventsShown
  <2> QED BY <1>6, <1>7, <2>1 DEF StartUpdated
<1>8. CASE StartInvoice(h, k)
  <2> DEFINE w == [step |-> "fetch", event |-> k]
  <2>1. w \in [step : {"fetch"}, event : Nat] /\ w.step # "find"
    BY <1>4
  <2> QED BY <1>6, <1>8, <2>1 DEF StartInvoice
<1>9. CASE RecordDeleted(h, k)
  <2>1. work' = work /\ subRow # NoSub
    BY <1>9 DEF RecordDeleted
  <2>2. subRow \in SubRow
    BY <2>1, ShownTypes DEF SubIInv
  <2>3. /\ subRow' \in SubRow /\ subRow'.period = subRow.period
        /\ subRow'.lastGranted = subRow.lastGranted /\ subRow' # NoSub
    BY <1>9, <2>2 DEF RecordDeleted, SubRow, SubStatus, NoSub
  <2>4. SubTypeOK'
    BY <1>1, <1>2, <2>1, <2>3 DEF SubIInv, SubTypeOK
  <2> QED BY <1>1, <1>3, <2>1, <2>3, <2>4 DEF SubRest, SubIInv, RowShown, WorkShown, GrantsFollowRenewal
<1> QED BY <1>5, <1>7, <1>8, <1>9

\* What a handler may hold next, given what Stripe shows.
Held(w) ==
  /\ w \in {Idle} \cup Working
  /\ w.step # "idle" => w.event \in DOMAIN events
  /\ w.step \in {"find", "update"} => w.sub.period <= stripeSub.period
  /\ w.step = "update" => w.seen <= stripeSub.period
  /\ w.step \in {"read", "begin", "commit"} => stripeSub.period >= 1
  /\ w.step \in {"begin", "commit"} => w.period <= stripeSub.period

\* A handler at work has a row, and so a subscription.
LEMMA AtWork ==
  ASSUME SubIInv, NEW h \in Deliveries, work[h].step # "idle"
  PROVE  /\ subRow # NoSub /\ subRow \in SubRow /\ subRow.period <= stripeSub.period
         /\ stripeSub.status # "absent" /\ stripeSub \in Shown
<1>1. work[h] # Idle
  BY DEF Idle
<1>2. subRow # NoSub
  BY <1>1 DEF SubIInv, RowShown
<1>3. stripeSub.status # "absent" /\ subRow.period <= stripeSub.period
  BY <1>2 DEF SubIInv, RowShown
<1> QED BY <1>2, <1>3, ShownTypes DEF SubIInv

\* A step of a handler that neither grants nor touches the row's marker.
LEMMA HandlerKeeps ==
  ASSUME SubIInv, StoreIInv', NEW h \in Deliveries, work[h].step # "idle",
         NEW w, Held(w), Goto(h, w), ledger' = ledger,
         UNCHANGED <<stripeSub, paid, events, again, inOrder, creation, cancel>>,
         ackedUpTo' \subseteq DOMAIN events, overtaken' \in BOOLEAN,
         subRow' \in SubRow, subRow' # NoSub, subRow'.period <= stripeSub.period,
         subRow'.lastGranted = subRow.lastGranted
  PROVE  SubRest'
<1>1. subRow # NoSub /\ stripeSub.status # "absent"
  BY AtWork
<1>2. StoreTypeOK' /\ SubGrants' = SubGrants
  BY GrantsAsBefore DEF StoreIInv
<1>3. work \in [Deliveries -> {Idle} \cup Working] /\ work' = [work EXCEPT ![h] = w]
  BY DEF SubIInv, SubTypeOK, Goto
<1>4. work' \in [Deliveries -> {Idle} \cup Working]
  BY <1>3 DEF Held
<1>5. SubTypeOK'
  BY <1>2, <1>4 DEF SubIInv, SubTypeOK
<1>6. WorkShown'
  BY <1>3 DEF SubIInv, WorkShown, Held
<1>7. EventsShown' /\ RowShown' /\ GrantsFollowRenewal'
  BY <1>1, <1>2 DEF SubIInv, EventsShown, RowShown, GrantsFollowRenewal
<1> QED BY <1>5, <1>6, <1>7 DEF SubRest

\* The steps of a handler.
LEMMA StepKeeps ==
  ASSUME SubIInv, StoreIInv', NEW h \in Deliveries, SubStep(h)
  PROVE  SubRest'
<1>1. work[h].step # "idle"
  BY DEF SubStep, FetchSubscription, FindSubscription, UpdateSubscription, ReadSubscription,
     BeginSubGrant, CommitSubGrant, AbortSubGrant, DropWork
<1>2. /\ subRow # NoSub /\ subRow \in SubRow /\ subRow.period <= stripeSub.period
      /\ stripeSub.status # "absent" /\ stripeSub \in Shown
  BY <1>1, AtWork
<1>3. /\ work[h].event \in DOMAIN events /\ work[h].event \in Nat
      /\ ackedUpTo \subseteq DOMAIN events
  <2>1. work[h].event \in DOMAIN events /\ ackedUpTo \subseteq DOMAIN events
    BY <1>1 DEF SubIInv, WorkShown, SubTypeOK
  <2>2. events \in Seq(SubEvent)
    BY ShownTypes DEF SubIInv
  <2> QED BY <2>1, <2>2
<1>4. stripeSub.period \in Nat /\ subRow.period \in Period
  BY <1>2, PeriodTypes DEF SubRow
<1>5. Held(Idle)
  BY DEF Held, Idle
<1>6. ASSUME NEW w, Held(w), Goto(h, w), ledger' = ledger, subRow' = subRow,
             UNCHANGED <<stripeSub, paid, events, again, inOrder, creation, cancel>>,
             overtaken' = overtaken, ackedUpTo' = ackedUpTo \/ Ack(work[h].event)
      PROVE  SubRest'
  <2>1. ackedUpTo' \subseteq DOMAIN events /\ overtaken' \in BOOLEAN
    BY <1>3, <1>6 DEF Ack, SubIInv, SubTypeOK
  <2> QED BY <1>1, <1>2, <1>6, <2>1, HandlerKeeps
<1>7. CASE FetchSubscription(h)
  <2> DEFINE w == [step |-> "find", event |-> work[h].event, sub |-> stripeSub]
  <2>1. w \in [step : {"find"}, event : Nat, sub : Shown]
    BY <1>2, <1>3
  <2>2. Held(w)
    BY <1>3, <1>4, <2>1 DEF Held, Working
  <2> QED BY <1>6, <1>7, <2>2 DEF FetchSubscription, storeVars, subStripeVars, requestVars
<1>8. CASE FindSubscription(h)
  <2>1. work[h].sub \in Shown /\ work[h].sub.period <= stripeSub.period
    BY <1>8, WorkTypes DEF FindSubscription, SubIInv, WorkShown
  <2> DEFINE w == [step |-> "update", event |-> work[h].event, sub |-> work[h].sub,
                   seen |-> subRow.period]
  <2>2. w \in [step : {"update"}, event : Nat, sub : Shown, seen : Period]
    BY <1>3, <1>4, <2>1
  <2>3. Held(w)
    BY <1>2, <1>3, <2>1, <2>2 DEF Held, Working
  <2> QED BY <1>6, <1>8, <2>3 DEF FindSubscription, storeVars, subStripeVars, requestVars
<1>9. CASE UpdateSubscription(h)
  <2>1. /\ work[h].sub \in Shown /\ work[h].sub.period <= stripeSub.period
        /\ work[h].seen \in Period /\ work[h].seen <= stripeSub.period
    BY <1>9, WorkTypes DEF UpdateSubscription, SubIInv, WorkShown
  <2>2. work[h].sub.period \in Period /\ work[h].sub.period \in Nat /\ work[h].seen \in Nat
    BY <2>1, SubAssumption DEF Shown, Period
  <2>3. MapStatus(work[h].sub.status) \in SubStatus /\ work[h].sub.atEnd \in BOOLEAN
        /\ CanceledAt(work[h].sub) \in BOOLEAN
    BY <2>1 DEF MapStatus, SubStatus, Shown, CanceledAt
  <2>4. /\ subRow' \in SubRow /\ subRow' # NoSub /\ subRow'.period = work[h].sub.period
        /\ subRow'.lastGranted = subRow.lastGranted
    <3> DEFINE status == MapStatus(work[h].sub.status)
               canceledAt == subRow.canceledAt \/ CanceledAt(work[h].sub)
    <3>1. status \in SubStatus /\ canceledAt \in BOOLEAN
      BY <2>3
    <3>2. subRow' = [subRow EXCEPT !.status = status, !.period = work[h].sub.period,
                                   !.atEnd = work[h].sub.atEnd, !.canceledAt = canceledAt]
      BY <1>9 DEF UpdateSubscription
    <3> HIDE DEF status, canceledAt
    <3> QED BY <1>2, <2>2, <2>3, <3>1, <3>2 DEF SubRow, NoSub
  <2>5. /\ ledger' = ledger /\ overtaken' \in BOOLEAN
        /\ UNCHANGED <<stripeSub, paid, events, again, inOrder, creation, cancel>>
    BY <1>9 DEF UpdateSubscription, storeVars, requestVars
  <2>6. CASE PeriodChanged(h)
    <3> DEFINE w == [step |-> "read", event |-> work[h].event]
    <3>1. stripeSub.period >= 1
      BY <1>4, <2>1, <2>2, <2>6 DEF PeriodChanged
    <3>2. w \in [step : {"read"}, event : Nat]
      BY <1>3
    <3>3. Held(w)
      BY <1>3, <3>1, <3>2 DEF Held, Working
    <3>4. Goto(h, w) /\ ackedUpTo' = ackedUpTo
      BY <1>9, <2>6 DEF UpdateSubscription
    <3> QED BY <1>1, <1>3, <2>1, <2>4, <2>5, <3>3, <3>4, HandlerKeeps
  <2>7. CASE ~PeriodChanged(h)
    <3>1. Goto(h, Idle) /\ ackedUpTo' \subseteq DOMAIN events
      BY <1>3, <1>9, <2>7 DEF UpdateSubscription, Ack
    <3> QED BY <1>1, <1>5, <2>1, <2>4, <2>5, <3>1, HandlerKeeps
  <2> QED BY <2>6, <2>7
<1>10. CASE ReadSubscription(h)
  <2> DEFINE w == [step |-> "begin", event |-> work[h].event, period |-> subRow.period]
  <2>1. stripeSub.period >= 1
    BY <1>10 DEF ReadSubscription, SubIInv, WorkShown
  <2>2. w \in [step : {"begin", "commit"}, event : Nat, period : Period]
    BY <1>3, <1>4
  <2>3. Held(w)
    BY <1>2, <1>3, <2>1, <2>2 DEF Held, Working
  <2>4. /\ ledger' = ledger /\ subRow' = subRow /\ overtaken' = overtaken
        /\ UNCHANGED <<stripeSub, paid, events, again, inOrder, creation, cancel>>
    BY <1>10 DEF ReadSubscription, storeVars, requestVars
  <2>5. CASE Goto(h, Idle) /\ Ack(work[h].event)
    BY <1>5, <1>6, <2>4, <2>5
  <2>6. CASE Goto(h, w) /\ ackedUpTo' = ackedUpTo
    <3> HIDE DEF w
    <3> QED BY <1>6, <2>3, <2>4, <2>6
  <2> QED BY <1>10, <2>5, <2>6 DEF ReadSubscription
<1>11. CASE BeginSubGrant(h)
  <2> DEFINE w == [work[h] EXCEPT !.step = "commit"]
  <2>1. /\ work[h] \in [step : {"begin", "commit"}, event : Nat, period : Period]
        /\ stripeSub.period >= 1 /\ work[h].period <= stripeSub.period
    BY <1>11, WorkTypes DEF BeginSubGrant, SubIInv, WorkShown
  <2>2. /\ w \in [step : {"begin", "commit"}, event : Nat, period : Period]
        /\ w.event = work[h].event /\ w.period = work[h].period /\ w.step = "commit"
    BY <2>1
  <2>3. Held(w)
    BY <1>3, <2>1, <2>2 DEF Held, Working
  <2> QED BY <1>6, <1>11, <2>3 DEF BeginSubGrant, BeginTx, subStripeVars, requestVars
<1>12. CASE CommitSubGrant(h)
  <2>1. /\ work[h].period \in Period /\ work[h].period \in Nat
        /\ stripeSub.period >= 1 /\ work[h].period <= stripeSub.period
    <3>1. work[h].step = "commit"
      BY <1>12 DEF CommitSubGrant
    <3>2. work[h].period \in Period
      BY <3>1, WorkTypes DEF SubIInv
    <3>3. Period \subseteq Nat
      BY SubAssumption DEF Period
    <3> QED BY <3>1, <3>2, <3>3 DEF SubIInv, WorkShown
  <2>2. SubGrants' # {}
    BY <1>12, GrantAdds DEF CommitSubGrant, SubIInv
  <2>3. /\ subRow' \in SubRow /\ subRow' # NoSub /\ subRow'.period = subRow.period
        /\ subRow'.lastGranted = work[h].period
    BY <1>2, <1>12, <2>1 DEF CommitSubGrant, SubRow, NoSub
  <2>4. UNCHANGED <<stripeSub, paid, events, again, inOrder, creation, cancel>>
        /\ ackedUpTo' \subseteq DOMAIN events /\ overtaken' = overtaken
    BY <1>3, <1>12 DEF CommitSubGrant, Ack, requestVars
  <2>5. work' = [work EXCEPT ![h] = Idle] /\ work \in [Deliveries -> {Idle} \cup Working]
    BY <1>12 DEF CommitSubGrant, Goto, SubIInv, SubTypeOK
  <2>6. work' \in [Deliveries -> {Idle} \cup Working]
    BY <2>5
  <2>7. SubTypeOK'
    BY <2>3, <2>4, <2>6 DEF SubIInv, SubTypeOK, StoreIInv
  <2>8. WorkShown'
    BY <2>4, <2>5 DEF SubIInv, WorkShown, Idle
  <2>9. EventsShown' /\ RowShown'
    BY <1>2, <2>3, <2>4 DEF SubIInv, EventsShown, RowShown
  <2>10. GrantsFollowRenewal'
    BY <2>1, <2>2, <2>3, <2>4 DEF GrantsFollowRenewal, NoPeriod
  <2> QED BY <2>7, <2>8, <2>9, <2>10 DEF SubRest
<1>13. CASE AbortSubGrant(h)
  BY <1>5, <1>6, <1>13 DEF AbortSubGrant, AbortTx, subStripeVars, requestVars
<1>14. CASE DropWork(h)
  BY <1>5, <1>6, <1>14 DEF DropWork, storeVars, subStripeVars, requestVars
<1> QED BY <1>7, <1>8, <1>9, <1>10, <1>11, <1>12, <1>13, <1>14 DEF SubStep

-----------------------------------------------------------------------------

\* Every step keeps the invariant.
LEMMA SubNextKeeps == ASSUME SubIInv, [SubNext]_subVars PROVE SubIInv'
<1>1. StoreIInv'
  BY SubKeepsStore
<1>2. CASE UNCHANGED subVars
  BY <1>1, <1>2 DEF subVars, subStripeVars, requestVars, storeVars, SubIInv, SubTypeOK, StoreIInv, EventsShown,
     RowShown, WorkShown, GrantsFollowRenewal, SubGrants
<1>3. ASSUME SubStripeStep PROVE SubRest'
  <2>1. PICK sub, types :
          /\ StripeMoves(sub, types) /\ UNCHANGED <<creation, cancel>>
          /\ creation \in Answers => sub.status \notin {"past_due", "unpaid"}
    BY <1>1, <1>3, StripeStepMoves
  <2>2. /\ creation \in {"none", "done"} \cup Answers
        /\ Requested
    BY DEF SubIInv, SubTypeOK, Requested
  <2>3. Requested'
    BY <2>1, <2>2 DEF Requested
  <2> QED BY <2>1, <2>2, <2>3, StripeKeeps
<1>4. CASE SubNext
  <2>1. SubRest'
    BY <1>1, <1>3, <1>4, RequestKeeps, StartKeeps, StepKeeps DEF SubNext
  <2> QED BY <1>1, <2>1 DEF SubRest, SubIInv
<1> QED BY <1>2, <1>4

\* The invariant holds in every behaviour of the subscription.
THEOREM SubInvariant == SubSpec => []SubIInv
<1>1. SubIInv /\ [SubNext]_subVars => SubIInv'
  BY SubNextKeeps
<1> QED BY <1>1, SubInitHolds, PTL DEF SubSpec

\* Every step of the subscription code is a step of the credit store.
THEOREM SubscriptionsAreClients == SubSpec => StoreSpec
<1>1. SubInit => StoreInit
  BY DEF SubInit
<1> QED BY <1>1, SubUsesStore, SubInvariant, PTL DEF SubSpec, StoreSpec

\* So the account is kept by the grants of a subscription too: each is one entry that
\* explains the balance.
THEOREM SubscriptionsKeepAccount == SubSpec => AccountSpec
<1> QED BY SubscriptionsAreClients, StoreImplementsAccount, PTL

\* Events, row and handlers keep their types.
THEOREM SubTypeCorrect == SubSpec => []SubTypeOK
<1>1. SubIInv => SubTypeOK
  BY DEF SubIInv
<1> QED BY <1>1, SubInvariant, PTL

\* No order, overlap, repetition or failure of deliveries grants credits before a
\* renewal has begun, or for a period Stripe has not reached; and the marker of the last period
\* granted is set exactly when something has been granted.
THEOREM GrantsFollow == SubSpec => []GrantsFollowRenewal
<1>1. SubIInv => GrantsFollowRenewal
  BY DEF SubIInv
<1> QED BY <1>1, SubInvariant, PTL
-----------------------------------------------------------------------------
\* Deliveries in order: one event at a time, each until it is acked, and no period ends
\* before its events are acked.

\* An event whose handler will see what Stripe has now, and what the row is yet to be told.
Shows(k) ==
  events[k].type = "invoice" \/ (events[k].type = "updated" /\ events[k].sub = stripeSub)
Later(j) == \E k \in Unacked : k > j /\ Shows(k)

Behind ==
  \/ subRow.period # stripeSub.period
  \/ subRow.atEnd # stripeSub.atEnd /\ ~overtaken
  \/ subRow.status # MapStatus(stripeSub.status) /\ stripeSub.status # "canceled"

\* One request at a time has an event, the first that is not acked.
OneInOrder ==
  /\ \A h, g \in Deliveries : work[h].step # "idle" /\ work[g].step # "idle" => h = g
  /\ \A h \in Deliveries : work[h].step # "idle" =>
       work[h].event \in Unacked /\ \A k \in Unacked : work[h].event <= k

\* Whatever is not acked is of Stripe's period, and so is what a handler holds.
PeriodSettles ==
  /\ \A k \in Unacked : events[k].sub.period = stripeSub.period
  /\ \A h \in Deliveries :
       /\ work[h].step \in {"find", "update"} => work[h].sub.period = stripeSub.period
       /\ work[h].step = "update" => work[h].seen = subRow.period
       /\ work[h].step \in {"read", "begin", "commit"} => subRow.period = stripeSub.period

\* A grant of Stripe's period is still to come while the row is behind, and while the
\* handler that brought it there is at work.
GrantsLeft ==
  /\ stripeSub.status = "absent" => SubGrants = {}
  /\ stripeSub.status # "absent" => Cardinality(SubGrants) <= stripeSub.period
  /\ subRow # NoSub /\ subRow.period # stripeSub.period => Cardinality(SubGrants) < stripeSub.period
  /\ \A h \in Deliveries : work[h].step \in {"read", "begin", "commit"} =>
       Cardinality(SubGrants) < stripeSub.period

\* What contradicts Stripe, in an event, a handler or the row, is older than an event that
\* is not acked; so is the row that createSubscription is about to write.
RowSettles ==
  /\ creation \in Answers =>
       /\ stripeSub.period = 0 /\ ~stripeSub.atEnd
       /\ MapStatus(stripeSub.status) = MapStatus(creation)
  /\ \A k \in Unacked : events[k].type = "updated" /\ events[k].sub # stripeSub => Later(k)
  /\ subRow # NoSub /\ Behind => \E k \in Unacked : Shows(k)
  /\ \A h \in Deliveries :
       /\ work[h].step \in {"find", "update"} /\ work[h].sub # stripeSub => Later(work[h].event)
       /\ work[h].step \in {"read", "begin", "commit"} /\ Behind => Later(work[h].event)

\* The end of the subscription is its last event, and finds nobody at work.
EndSettles ==
  /\ stripeSub.status # "canceled" => \A k \in Unacked : events[k].type # "deleted"
  /\ stripeSub.status = "canceled" =>
       /\ \A k \in Unacked : events[k].type = "deleted"
       /\ \A h \in Deliveries : work[h].step = "idle"
       /\ creation \notin Answers
       /\ subRow # NoSub /\ Unacked = {} => subRow.status = "CANCELLED" /\ subRow.canceledAt

OrderParts == OneInOrder /\ PeriodSettles /\ GrantsLeft /\ RowSettles /\ EndSettles
InOrderInv == inOrder => OrderParts

\* Nothing is there at first.
LEMMA OrderInitHolds == ASSUME SubInit PROVE InOrderInv
<1>1. SubGrants = {} /\ DOMAIN events = {} /\ Unacked = {}
  BY DEF SubInit, StoreInit, SubGrants, Unacked
<1>2. \A h \in Deliveries : work[h].step = "idle"
  BY DEF SubInit, Idle
<1>3. stripeSub.status = "absent" /\ subRow = NoSub /\ creation \notin Answers
  BY SubAssumption DEF SubInit
<1> QED BY <1>1, <1>2, <1>3 DEF InOrderInv, OrderParts, OneInOrder, PeriodSettles, GrantsLeft,
                                RowSettles, EndSettles

\* The grants can be counted.
LEMMA GrantsFinite == ASSUME StoreIInv PROVE IsFiniteSet(SubGrants) /\ Cardinality(SubGrants) \in Nat
<1>1. ledger \in Seq(Entry)
  BY DEF StoreIInv, StoreTypeOK
<1>2. Len(ledger) \in Nat /\ SubGrants \subseteq 1 .. Len(ledger)
  BY <1>1 DEF SubGrants
<1>3. IsFiniteSet(1 .. Len(ledger))
  BY <1>2, FS_Interval
<1> QED BY <1>2, <1>3, FS_Subset, FS_CardinalityType

\* A grant adds exactly one.
LEMMA GrantAddsOne ==
  ASSUME StoreIInv, NEW h \in Deliveries, GrantTx(h, "SUBSCRIPTION", Sub, MonthlyCredits)
  PROVE  Cardinality(SubGrants') = Cardinality(SubGrants) + 1
<1> DEFINE e == [type |-> "SUBSCRIPTION", ref |-> Sub, amount |-> RoundToCent(MonthlyCredits),
                 before |-> txn[h].balance, after |-> RoundToCent(txn[h].balance + MonthlyCredits)]
           n == Len(ledger) + 1
<1>1. ledger' = Append(ledger, e) /\ ledger \in Seq(Entry)
  BY DEF GrantTx, CommitTx, StoreIInv, StoreTypeOK
<1>2. e.type = "SUBSCRIPTION" /\ e.ref = Sub
  OBVIOUS
<1> HIDE DEF e
<1>3. /\ DOMAIN ledger' = DOMAIN ledger \cup {n} /\ n \notin DOMAIN ledger /\ ledger'[n] = e
      /\ \A k \in DOMAIN ledger : ledger'[k] = ledger[k]
  BY <1>1
<1> HIDE DEF n
<1>4. SubGrants' = SubGrants \cup {n} /\ n \notin SubGrants
  BY <1>2, <1>3 DEF SubGrants
<1> QED BY <1>4, GrantsFinite, FS_AddElement

\* Stripe moves on: the events it emits come last and show what it has, so that whatever
\* was behind is told of it.  A new period and the end of the subscription find all settled.
LEMMA OrderEmits ==
  ASSUME SubIInv, inOrder, OrderParts, NEW sub, NEW types, StripeMoves(sub, types), types # <<>>,
         stripeSub \in Shown, stripeSub.status # "canceled", sub.atEnd = stripeSub.atEnd \/ creation \notin Answers,
         creation' = creation,
         creation \in Answers => sub.period = stripeSub.period /\ MapStatus(sub.status) = MapStatus(stripeSub.status),
         \/ sub.period = stripeSub.period
         \/ /\ sub.period = stripeSub.period + 1
            /\ creation \notin Answers /\ ackedUpTo = DOMAIN events,
         \/ sub.status # "canceled" /\ \A j \in DOMAIN types : types[j] # "deleted"
         \/ /\ sub.status = "canceled" /\ types = <<"deleted">> /\ creation \notin Answers
            /\ sub.period = stripeSub.period /\ sub.atEnd = stripeSub.atEnd /\ ackedUpTo = DOMAIN events
  PROVE  OrderParts'
<1> USE DEF OrderParts
<1>1. /\ stripeSub' = sub /\ DOMAIN events' \subseteq Nat
      /\ \A k \in DOMAIN events : k \in DOMAIN events' /\ events'[k] = events[k]
      /\ \A k \in DOMAIN events' \ DOMAIN events :
           /\ events'[k].sub = sub /\ \E j \in DOMAIN types : events'[k].type = types[j]
           /\ \A l \in DOMAIN events : l < k
      /\ Unacked \subseteq Unacked' /\ Unacked' \subseteq Unacked \cup (DOMAIN events' \ DOMAIN events)
      /\ \E k \in Unacked' \ DOMAIN events : events'[k].type = types[1] /\ events'[k].sub = sub
  BY EmitGrows DEF StripeMoves, SubIInv
<1>2. /\ UNCHANGED <<ackedUpTo, subRow, overtaken, work>> /\ SubGrants' = SubGrants
      /\ sub.period \in Nat /\ stripeSub.period \in Nat /\ stripeSub.status # "absent"
      /\ sub.status # "absent" /\ Cardinality(SubGrants) \in Nat
  BY GrantsAsBefore, PeriodTypes, GrantsFinite DEF StripeMoves, SubIInv
<1>3. /\ Unacked \subseteq DOMAIN events /\ Unacked' \subseteq DOMAIN events'
      /\ \A h \in Deliveries : work[h].step # "idle" => work[h].event \in DOMAIN events
  BY DEF Unacked, SubIInv, WorkShown
<1>4. ackedUpTo = DOMAIN events =>
        /\ Unacked = {} /\ \A h \in Deliveries : work[h].step = "idle"
        /\ subRow # NoSub => ~Behind
  BY DEF Unacked, OneInOrder, RowSettles
<1>5. PICK last \in Unacked' \ DOMAIN events : events'[last].type = types[1] /\ events'[last].sub = sub
  BY <1>1
<1>6. \A k \in DOMAIN events : k < last
  BY <1>1, <1>3, <1>5
<1>7. sub.status # "canceled" => Shows(last)' /\ \A k \in DOMAIN events : Later(k)'
  <2> SUFFICES ASSUME sub.status # "canceled" PROVE Shows(last)' /\ \A k \in DOMAIN events : Later(k)'
    OBVIOUS
  <2>1. types[1] \in {"updated", "invoice"}
    <3>1. 1 \in DOMAIN types /\ types \in Seq(EventTypes)
      BY DEF StripeMoves
    <3> QED BY <3>1 DEF EventTypes
  <2>2. Shows(last)'
    BY <1>1, <1>5, <2>1 DEF Shows
  <2>3. ASSUME NEW k \in DOMAIN events PROVE Later(k)'
    <3>1. last \in Unacked' /\ last > k
      <4>1. k \in Nat /\ last \in Nat
        BY <1>1, <1>3, <1>5
      <4> QED BY <1>5, <1>6, <4>1
    <3> QED BY <2>2, <3>1 DEF Later
  <2> QED BY <2>2, <2>3
<1>8. OneInOrder'
  <2> SUFFICES ASSUME NEW h \in Deliveries, work[h].step # "idle"
               PROVE  work[h].event \in Unacked' /\ \A k \in Unacked' : work[h].event <= k
    BY <1>2 DEF OneInOrder
  <2>1. work[h].event \in Unacked /\ \A l \in Unacked : work[h].event <= l
    BY DEF OneInOrder
  <2>2. ASSUME NEW k \in Unacked' PROVE work[h].event <= k
    <3>1. CASE k \in Unacked
      BY <2>1, <3>1
    <3>2. CASE k \notin Unacked
      <4>1. k \in DOMAIN events' \ DOMAIN events /\ k \in Nat
        BY <1>1, <1>3, <2>2, <3>2
      <4>2. work[h].event \in DOMAIN events /\ work[h].event \in Nat
        BY <1>1, <1>3
      <4>3. work[h].event < k
        BY <1>1, <4>1, <4>2
      <4> QED BY <4>1, <4>2, <4>3
    <3> QED BY <3>1, <3>2
  <2> QED BY <1>1, <2>1, <2>2
<1>9. PeriodSettles'
  <2>1. ASSUME NEW k \in Unacked' PROVE events'[k].sub.period = sub.period
    <3>1. CASE k \in Unacked
      <4>1. events'[k] = events[k] /\ events[k].sub.period = stripeSub.period
        BY <1>1, <1>3, <3>1 DEF PeriodSettles
      <4>2. sub.period = stripeSub.period
        BY <1>4, <3>1
      <4> QED BY <4>1, <4>2
    <3>2. CASE k \notin Unacked
      BY <1>1, <2>1, <3>2
    <3> QED BY <3>1, <3>2
  <2>2. (\E h \in Deliveries : work[h].step # "idle") => sub.period = stripeSub.period
    BY <1>4
  <2> QED BY <1>1, <1>2, <2>1, <2>2 DEF PeriodSettles
<1>10. GrantsLeft'
  <2>1. Cardinality(SubGrants) <= stripeSub.period
    BY <1>2 DEF GrantsLeft
  <2>2. CASE sub.period = stripeSub.period
    BY <1>1, <1>2, <2>2 DEF GrantsLeft
  <2>3. CASE sub.period = stripeSub.period + 1
    <3>1. Cardinality(SubGrants) < sub.period
      BY <1>2, <2>1, <2>3
    <3> QED BY <1>1, <1>2, <3>1 DEF GrantsLeft
  <2> QED BY <2>2, <2>3
<1>11. RowSettles'
  <2>1. CASE sub.status # "canceled"
    <3>1. (\A k \in Unacked : events[k].type = "updated" /\ events[k].sub # stripeSub => Later(k))'
      BY <1>1, <1>3, <1>7, <2>1 DEF Later
    <3>2. Shows(last)' /\ last \in Unacked'
      BY <1>5, <1>7, <2>1
    <3>3. (\A h \in Deliveries : work[h].step # "idle" => Later(work[h].event))'
      BY <1>2, <1>3, <1>7, <2>1 DEF Later
    <3>4. creation' \in Answers =>
            stripeSub'.period = 0 /\ ~stripeSub'.atEnd /\ MapStatus(stripeSub'.status) = MapStatus(creation')
      BY <1>1 DEF RowSettles
    <3> QED BY <1>1, <1>2, <3>1, <3>2, <3>3, <3>4 DEF RowSettles
  <2>2. CASE sub.status = "canceled"
    <3>1. /\ Unacked = {} /\ \A h \in Deliveries : work'[h].step = "idle"
          /\ subRow # NoSub => ~Behind
      BY <1>2, <1>4, <2>2
    <3>2. subRow' # NoSub => ~Behind'
      BY <1>1, <1>2, <2>2, <3>1 DEF Behind
    <3>3. \A k \in Unacked' : events'[k].sub = sub
      BY <1>1, <3>1
    <3> QED BY <1>1, <2>2, <3>1, <3>2, <3>3 DEF RowSettles
  <2> QED BY <2>1, <2>2
<1>12. EndSettles'
  <2>1. CASE sub.status # "canceled"
    <3>1. \A k \in Unacked' : events'[k].type # "deleted"
      <4> SUFFICES ASSUME NEW k \in Unacked' PROVE events'[k].type # "deleted"
        OBVIOUS
      <4>1. CASE k \in Unacked
        BY <1>1, <1>3, <4>1 DEF EndSettles
      <4>2. CASE k \notin Unacked
        BY <1>1, <2>1, <4>2
      <4> QED BY <4>1, <4>2
    <3> QED BY <1>1, <2>1, <3>1 DEF EndSettles
  <2>2. CASE sub.status = "canceled"
    <3>1. /\ Unacked = {} /\ \A h \in Deliveries : work'[h].step = "idle"
      BY <1>2, <1>4, <2>2
    <3>2. \A k \in Unacked' : events'[k].type = "deleted"
      <4>1. \A j \in DOMAIN types : types[j] = "deleted"
        BY <2>2
      <4> QED BY <1>1, <3>1, <4>1
    <3> QED BY <1>1, <1>5, <2>2, <3>1, <3>2 DEF EndSettles
  <2> QED BY <2>1, <2>2
<1> QED BY <1>8, <1>9, <1>10, <1>11, <1>12

LEMMA OrderStripe ==
  ASSUME SubIInv, StoreIInv', inOrder, OrderParts, SubStripeStep
  PROVE  OrderParts'
<1>1. PICK sub, types :
        /\ StripeMoves(sub, types) /\ types # <<>>
        /\ UNCHANGED <<creation, cancel>>
        /\ stripeSub \in Shown /\ stripeSub.status # "canceled" /\ sub.atEnd = stripeSub.atEnd
        /\ creation \in Answers =>
             /\ sub.period = stripeSub.period /\ MapStatus(sub.status) = MapStatus(stripeSub.status)
        /\ \/ sub.period = stripeSub.period
           \/ /\ sub.period = stripeSub.period + 1
              /\ creation \notin Answers /\ ackedUpTo = DOMAIN events
        /\ \/ sub.status # "canceled" /\ \A j \in DOMAIN types : types[j] # "deleted"
           \/ /\ sub.status = "canceled" /\ types = <<"deleted">> /\ creation \notin Answers
              /\ sub.period = stripeSub.period /\ ackedUpTo = DOMAIN events
  BY StripeStepMoves
<1> QED BY <1>1, OrderEmits

\* createSubscription and cancelSubscription write the row from what Stripe answered,
\* and a request to cancel that changes Stripe emits an event after all others.
LEMMA OrderRequest ==
  ASSUME SubIInv, StoreIInv', inOrder, OrderParts, SubRequest
  PROVE  OrderParts'
<1> USE DEF OrderParts
<1>1. /\ work' = work /\ ackedUpTo' = ackedUpTo /\ SubGrants' = SubGrants
      /\ creation \in {"none", "done"} \cup Answers /\ {"none", "done"} \cap Answers = {}
  BY GrantsAsBefore, SubAssumption DEF SubIInv, SubTypeOK, SubRequest, CreateAtStripe,
     StoreSubscription, LoseSubscription, CancelAtStripe, StoreCancellation, LoseCancellation,
     storeVars, subStripeVars
<1>2. ASSUME NEW status \in Answers, CreateAtStripe(status) PROVE OrderParts'
  <2>1. PICK sub, types :
          /\ StripeMoves(sub, types) /\ creation' = status
          /\ sub = [status |-> status, period |-> 0, atEnd |-> FALSE]
          /\ status \notin {"canceled", "past_due", "unpaid"}
          /\ \A j \in DOMAIN types : types[j] # "deleted"
    BY <1>2, CreateMoves
  <2>2. /\ sub.status = status /\ sub.period = 0 /\ ~sub.atEnd /\ sub.status # "absent"
        /\ sub.status # "canceled"
    BY <2>1, PeriodTypes DEF StripeMoves
  <2> HIDE DEF StripeMoves
  <2>3. DOMAIN events = {} /\ subRow = NoSub /\ SubGrants = {}
        /\ \A h \in Deliveries : work[h].step = "idle"
    <3>0. stripeSub.status = "absent"
      BY <1>2 DEF CreateAtStripe
    <3>1. DOMAIN events = {}
      BY <3>0 DEF SubIInv, EventsShown
    <3>2. subRow = NoSub
      BY <3>0 DEF SubIInv, RowShown
    <3>3. SubGrants = {} /\ \A h \in Deliveries : work[h] = Idle
      BY <3>2 DEF SubIInv, RowShown
    <3> QED BY <3>1, <3>2, <3>3 DEF Idle
  <2>4. /\ stripeSub' = sub
        /\ \A k \in DOMAIN events' : events'[k].sub = sub /\ events'[k].type # "deleted"
    <3>1. /\ stripeSub' = sub
          /\ \A k \in DOMAIN events' \ DOMAIN events :
               events'[k].sub = sub /\ \E j \in DOMAIN types : events'[k].type = types[j]
      BY <2>1, EmitGrows DEF StripeMoves, SubIInv
    <3> QED BY <2>1, <2>3, <3>1
  <2>5. Unacked' \subseteq DOMAIN events' /\ Cardinality(SubGrants') = 0 /\ subRow' = NoSub
    BY <1>1, <2>1, <2>3, FS_EmptySet DEF Unacked, StripeMoves
  <2>6. OneInOrder' /\ PeriodSettles'
    BY <1>1, <2>2, <2>3, <2>4, <2>5 DEF OneInOrder, PeriodSettles
  <2>7. GrantsLeft'
    BY <1>1, <2>2, <2>3, <2>4, <2>5 DEF GrantsLeft
  <2>8. RowSettles'
    BY <1>1, <2>1, <2>2, <2>3, <2>4, <2>5 DEF RowSettles
  <2>9. EndSettles'
    BY <1>1, <2>2, <2>3, <2>4, <2>5 DEF EndSettles
  <2> QED BY <2>6, <2>7, <2>8, <2>9
<1>3. CASE StoreSubscription
  <2>1. /\ subRow' = [status |-> MapStatus(creation), period |-> 0, atEnd |-> FALSE,
                      canceledAt |-> FALSE, lastGranted |-> NoPeriod]
        /\ creation \in Answers /\ creation' = "done"
        /\ UNCHANGED <<stripeSub, events, overtaken>>
    BY <1>3 DEF StoreSubscription, subStripeVars
  <2>2. /\ stripeSub.status # "absent" /\ SubGrants = {} /\ Cardinality(SubGrants) = 0
        /\ \A h \in Deliveries : work[h].step = "idle"
    <3>1. subRow = NoSub /\ stripeSub.status # "absent"
      BY <1>1, <2>1 DEF SubIInv, RowShown
    <3>2. SubGrants = {} /\ \A h \in Deliveries : work[h] = Idle
      BY <3>1 DEF SubIInv, RowShown
    <3> QED BY <3>1, <3>2, FS_EmptySet DEF Idle
  <2>3. /\ stripeSub.period = 0 /\ ~stripeSub.atEnd /\ stripeSub.status # "canceled"
        /\ MapStatus(stripeSub.status) = MapStatus(creation) /\ stripeSub.atEnd \in BOOLEAN
    <3>1. stripeSub \in Shown
      BY <2>2, ShownTypes DEF SubIInv
    <3> QED BY <2>1, <3>1 DEF RowSettles, EndSettles, Shown
  <2>4. UNCHANGED Unacked /\ \A j : UNCHANGED Later(j) /\ UNCHANGED Shows(j)
    BY <1>1, <2>1 DEF Unacked, Later, Shows
  <2>5. ~Behind'
    BY <2>1, <2>3 DEF Behind
  <2>6. OneInOrder' /\ PeriodSettles'
    BY <1>1, <2>1, <2>2, <2>4 DEF OneInOrder, PeriodSettles
  <2>7. GrantsLeft'
    BY <1>1, <2>1, <2>2, <2>3 DEF GrantsLeft
  <2>8. RowSettles'
    BY <1>1, <2>1, <2>2, <2>4, <2>5 DEF RowSettles
  <2>9. EndSettles'
    BY <1>1, <2>1, <2>3, <2>4 DEF EndSettles
  <2> QED BY <2>6, <2>7, <2>8, <2>9
<1>4. CASE LoseSubscription
  <2>1. creation' = "done" /\ UNCHANGED <<stripeSub, events, subRow, overtaken>>
    BY <1>4 DEF LoseSubscription, subStripeVars
  <2>2. /\ UNCHANGED Unacked /\ UNCHANGED Behind
        /\ \A j : UNCHANGED Later(j) /\ UNCHANGED Shows(j)
    BY <1>1, <2>1 DEF Unacked, Later, Shows, Behind
  <2>3. OneInOrder' /\ PeriodSettles' /\ GrantsLeft'
    BY <1>1, <2>1, <2>2 DEF OneInOrder, PeriodSettles, GrantsLeft
  <2>4. RowSettles' /\ EndSettles'
    BY <1>1, <2>1, <2>2 DEF RowSettles, EndSettles
  <2> QED BY <2>3, <2>4
<1>5. ASSUME NEW c \in Cancels, NEW atEnd \in BOOLEAN, CancelAtStripe(c, atEnd) PROVE OrderParts'
  <2>1. /\ subRow # NoSub /\ stripeSub \in Shown /\ stripeSub.status # "canceled"
        /\ UNCHANGED <<subRow, creation, overtaken>>
        /\ \/ UNCHANGED <<stripeSub, events>>
           \/ \E sub : /\ StripeMoves(sub, <<"updated">>) /\ sub.period = stripeSub.period
                       /\ sub.status = stripeSub.status
    BY <1>5, CancelMoves
  <2>2. creation \notin Answers
    BY <1>1, <2>1 DEF SubIInv, RowShown
  <2>3. ASSUME NEW sub, StripeMoves(sub, <<"updated">>), sub.period = stripeSub.period,
               sub.status = stripeSub.status
        PROVE  OrderParts'
    <3>1. <<"updated">> # <<>> /\ \A j \in DOMAIN <<"updated">> : <<"updated">>[j] # "deleted"
      OBVIOUS
    <3> QED BY <2>1, <2>2, <2>3, <3>1, OrderEmits
  <2>4. CASE UNCHANGED <<stripeSub, events>>
    <3>1. /\ UNCHANGED Unacked /\ UNCHANGED Behind
          /\ \A j : UNCHANGED Later(j) /\ UNCHANGED Shows(j)
      BY <1>1, <2>1, <2>4 DEF Unacked, Later, Shows, Behind
    <3>2. OneInOrder' /\ PeriodSettles' /\ GrantsLeft'
      BY <1>1, <2>1, <2>4, <3>1 DEF OneInOrder, PeriodSettles, GrantsLeft
    <3>3. RowSettles' /\ EndSettles'
      BY <1>1, <2>1, <2>4, <3>1 DEF RowSettles, EndSettles
    <3> QED BY <3>2, <3>3
  <2> QED BY <2>1, <2>3, <2>4
<1>6. ASSUME NEW c \in Cancels, StoreCancellation(c) PROVE OrderParts'
  <2> DEFINE flag == (cancel[c] = "at period end")
             now == cancel[c] = "now"
  <2>1. /\ UNCHANGED <<stripeSub, events, creation>> /\ subRow # NoSub
        /\ subRow' = [subRow EXCEPT !.atEnd = flag, !.canceledAt = @ \/ now]
        /\ overtaken' = (stripeSub.atEnd # flag)
    BY <1>6 DEF StoreCancellation, subStripeVars, SubIInv, RowShown
  <2> HIDE DEF flag, now
  <2>2. subRow \in SubRow
    BY <2>1, ShownTypes DEF SubIInv
  <2>3. /\ subRow' # NoSub /\ subRow'.period = subRow.period /\ subRow'.status = subRow.status
        /\ subRow'.atEnd = flag /\ (subRow.canceledAt => subRow'.canceledAt)
    BY <2>1, <2>2 DEF SubRow, NoSub
  <2>4. /\ UNCHANGED Unacked /\ (Behind' => Behind)
        /\ \A j : UNCHANGED Later(j) /\ UNCHANGED Shows(j)
    BY <1>1, <2>1, <2>3 DEF Unacked, Later, Shows, Behind
  <2>5. OneInOrder' /\ PeriodSettles' /\ GrantsLeft'
    BY <1>1, <2>1, <2>3, <2>4 DEF OneInOrder, PeriodSettles, GrantsLeft
  <2>6. RowSettles' /\ EndSettles'
    BY <1>1, <2>1, <2>3, <2>4 DEF RowSettles, EndSettles
  <2> QED BY <2>5, <2>6
<1>7. ASSUME NEW c \in Cancels, LoseCancellation(c) PROVE OrderParts'
  <2>1. UNCHANGED <<stripeSub, events, subRow, creation, overtaken>>
    BY <1>7 DEF LoseCancellation, subStripeVars
  <2>2. /\ UNCHANGED Unacked /\ UNCHANGED Behind
        /\ \A j : UNCHANGED Later(j) /\ UNCHANGED Shows(j)
    BY <1>1, <2>1 DEF Unacked, Later, Shows, Behind
  <2>3. OneInOrder' /\ PeriodSettles' /\ GrantsLeft'
    BY <1>1, <2>1, <2>2 DEF OneInOrder, PeriodSettles, GrantsLeft
  <2>4. RowSettles' /\ EndSettles'
    BY <1>1, <2>1, <2>2 DEF RowSettles, EndSettles
  <2> QED BY <2>3, <2>4
<1> QED BY <1>2, <1>3, <1>4, <1>5, <1>6, <1>7 DEF SubRequest

\* A delivery starts on the first event that is not acked, or acks it.
LEMMA OrderStart ==
  ASSUME SubIInv, inOrder, OrderParts, NEW h \in Deliveries, SubStart(h)
  PROVE  OrderParts'
<1> USE DEF OrderParts
<1> PICK k \in DOMAIN events :
      IgnoreUnknown(h, k) \/ StartUpdated(h, k) \/ StartInvoice(h, k) \/ RecordDeleted(h, k)
  BY DEF SubStart
<1>1. /\ work \in [Deliveries -> {Idle} \cup Working] /\ ackedUpTo \subseteq DOMAIN events
      /\ events \in Seq(SubEvent) /\ SubGrants' = SubGrants
      /\ UNCHANGED <<stripeSub, events, creation, overtaken>>
  BY GrantsAsBefore DEF SubIInv, SubTypeOK, IgnoreUnknown, StartUpdated, StartInvoice, RecordDeleted,
     storeVars, requestVars
<1>2. Deliver(h, k)
  BY DEF IgnoreUnknown, StartUpdated, StartInvoice, RecordDeleted
<1>3. /\ k \in Unacked /\ \A other \in Deliveries : work[other].step = "idle"
      /\ \A l \in Unacked : k <= l
  <2>1. k \in Unacked /\ 1 .. k - 1 \subseteq ackedUpTo /\ \A other \in Deliveries : work[other] = Idle
    BY <1>2 DEF Deliver, Unacked
  <2>2. \A l \in Unacked : k <= l
    <3> SUFFICES ASSUME NEW l \in Unacked, ~(k <= l) PROVE FALSE
      OBVIOUS
    <3>1. l \in Nat /\ k \in Nat /\ l >= 1
      BY <1>1 DEF Unacked
    <3>2. l \in 1 .. k - 1
      BY <3>1
    <3> QED BY <2>1, <3>2 DEF Unacked
  <2> QED BY <2>1, <2>2 DEF Idle
<1>4. /\ events[k].sub.period = stripeSub.period
      /\ events[k].type = "updated" /\ events[k].sub # stripeSub => Later(k)
  BY <1>3 DEF PeriodSettles, RowSettles
<1>5. ASSUME NEW w, Goto(h, w), UNCHANGED <<subRow, ackedUpTo>>, w.step \in {"find", "fetch"},
             w.event = k, w.step = "find" => w.sub = events[k].sub /\ events[k].type = "updated",
             events[k].type # "deleted"
      PROVE  OrderParts'
  <2>1. /\ work'[h] = w /\ \A g \in Deliveries : g # h => work'[g].step = "idle"
    BY <1>1, <1>3, <1>5 DEF Goto
  <2>2. /\ UNCHANGED Unacked /\ UNCHANGED Behind
        /\ \A j : UNCHANGED Later(j) /\ UNCHANGED Shows(j)
    BY <1>1, <1>5 DEF Unacked, Later, Shows, Behind
  <2>3. stripeSub.status # "canceled"
    BY <1>3, <1>5 DEF EndSettles
  <2>4. OneInOrder'
    BY <1>3, <1>5, <2>1, <2>2 DEF OneInOrder
  <2>5. PeriodSettles' /\ GrantsLeft'
    BY <1>1, <1>4, <1>5, <2>1, <2>2 DEF PeriodSettles, GrantsLeft
  <2>6. RowSettles'
    BY <1>1, <1>4, <1>5, <2>1, <2>2 DEF RowSettles
  <2>7. EndSettles'
    BY <1>1, <1>5, <2>1, <2>2, <2>3 DEF EndSettles
  <2> QED BY <2>4, <2>5, <2>6, <2>7
<1>6. CASE StartUpdated(h, k)
  <2> DEFINE w == [step |-> "find", event |-> k, sub |-> events[k].sub]
  <2>1. w.step = "find" /\ w.event = k /\ w.sub = events[k].sub
    OBVIOUS
  <2>2. Goto(h, w) /\ UNCHANGED <<subRow, ackedUpTo>> /\ events[k].type = "updated"
    BY <1>6 DEF StartUpdated
  <2> HIDE DEF w
  <2> QED BY <1>5, <2>1, <2>2
<1>7. CASE StartInvoice(h, k)
  <2> DEFINE w == [step |-> "fetch", event |-> k]
  <2>1. w.step = "fetch" /\ w.event = k
    OBVIOUS
  <2>2. Goto(h, w) /\ UNCHANGED <<subRow, ackedUpTo>> /\ events[k].type # "deleted"
    BY <1>7 DEF StartInvoice
  <2> HIDE DEF w
  <2> QED BY <1>5, <2>1, <2>2
<1>8. /\ Ack(k) => /\ Unacked' = Unacked \ {k} /\ \A j : UNCHANGED Shows(j)
                   /\ \A j \in Unacked : Later(j) => Later(j)'
  <2> SUFFICES ASSUME Ack(k)
               PROVE  /\ Unacked' = Unacked \ {k} /\ \A j : UNCHANGED Shows(j)
                      /\ \A j \in Unacked : Later(j) => Later(j)'
    OBVIOUS
  <2>1. Unacked' = Unacked \ {k}
    BY <1>1 DEF Ack, Unacked
  <2>2. \A j : UNCHANGED Shows(j)
    BY <1>1 DEF Shows
  <2>3. ASSUME NEW j \in Unacked, Later(j) PROVE Later(j)'
    <3>1. PICK l \in Unacked : l > j /\ Shows(l)
      BY <2>3 DEF Later
    <3>2. l # k
      BY <1>1, <1>3, <3>1 DEF Unacked
    <3> QED BY <2>1, <2>2, <3>1, <3>2 DEF Later
  <2> QED BY <2>1, <2>2, <2>3
<1>9. CASE IgnoreUnknown(h, k)
  <2>1. subRow = NoSub /\ UNCHANGED <<subRow, work>> /\ Ack(k)
    BY <1>9 DEF IgnoreUnknown
  <2>2. OneInOrder' /\ PeriodSettles' /\ GrantsLeft'
    BY <1>1, <1>3, <1>8, <2>1 DEF OneInOrder, PeriodSettles, GrantsLeft
  <2>3. RowSettles'
    BY <1>1, <1>3, <1>8, <2>1 DEF RowSettles
  <2>4. EndSettles'
    BY <1>1, <1>3, <1>8, <2>1 DEF EndSettles
  <2> QED BY <2>2, <2>3, <2>4
<1>10. CASE RecordDeleted(h, k)
  <2>1. /\ subRow # NoSub /\ UNCHANGED work /\ Ack(k) /\ events[k].type = "deleted"
        /\ subRow' = [subRow EXCEPT !.status = "CANCELLED", !.canceledAt = TRUE]
    BY <1>10 DEF RecordDeleted
  <2>2. stripeSub.status = "canceled" /\ subRow \in SubRow
    BY <1>3, <2>1, ShownTypes DEF EndSettles, SubIInv
  <2>3. \A j \in Unacked : events[j].type = "deleted" /\ ~Shows(j)
    BY <2>2 DEF EndSettles, Shows
  <2>4. ~Behind
    BY <2>1, <2>3 DEF RowSettles
  <2>5. /\ subRow' # NoSub /\ subRow'.period = subRow.period /\ subRow'.atEnd = subRow.atEnd
        /\ subRow'.status = "CANCELLED" /\ subRow'.canceledAt
    BY <2>1, <2>2 DEF SubRow, NoSub
  <2>6. ~Behind'
    BY <1>1, <2>2, <2>4, <2>5 DEF Behind
  <2>7. OneInOrder' /\ PeriodSettles' /\ GrantsLeft'
    BY <1>1, <1>3, <1>8, <2>1, <2>5 DEF OneInOrder, PeriodSettles, GrantsLeft
  <2>8. RowSettles'
    BY <1>1, <1>3, <1>8, <2>1, <2>6 DEF RowSettles
  <2>9. EndSettles'
    BY <1>1, <1>3, <1>8, <2>1, <2>2, <2>5 DEF EndSettles
  <2> QED BY <2>7, <2>8, <2>9
<1> QED BY <1>6, <1>7, <1>9, <1>10

\* What a step of a handler that holds the event k may do: hold on to it, drop it, or
\* ack it once the row shows what Stripe has, but for what later events will tell.
Moves(w, k) ==
  /\ \/ UNCHANGED ackedUpTo /\ (w.step # "idle" => w.event = k)
     \/ Ack(k) /\ w.step = "idle" /\ (Behind' => Later(k))
  /\ subRow' # NoSub /\ subRow'.period \in {subRow.period, stripeSub.period}
  /\ (Behind' => Behind) \/ (Behind' => Later(k))
  /\ w.step \in {"find", "update"} =>
       /\ w.sub.period = stripeSub.period
       /\ w.sub # stripeSub => Later(k)
  /\ w.step = "update" => w.seen = subRow'.period
  /\ w.step \in {"read", "begin", "commit"} =>
       /\ subRow'.period = stripeSub.period
       /\ Behind' => Later(k)

\* How many grants it may leave.
Counts(w) ==
  /\ Cardinality(SubGrants') <= stripeSub.period
  /\ subRow'.period # stripeSub.period \/ w.step \in {"read", "begin", "commit"} =>
       Cardinality(SubGrants') < stripeSub.period

LEMMA OrderMoves ==
  ASSUME SubIInv, inOrder, OrderParts, NEW h \in Deliveries, work[h].step # "idle",
         NEW w, Goto(h, w), Moves(w, work[h].event), Counts(w),
         UNCHANGED <<stripeSub, events, creation>>
  PROVE  OrderParts'
<1> USE DEF OrderParts
<1> DEFINE k == work[h].event
<1>1. /\ work'[h] = w /\ \A g \in Deliveries : g # h => work'[g] = work[g] /\ work[g].step = "idle"
  <2>1. work \in [Deliveries -> {Idle} \cup Working]
    BY DEF SubIInv, SubTypeOK
  <2>2. \A g \in Deliveries : g # h => work[g].step = "idle"
    BY DEF OneInOrder
  <2> QED BY <2>1, <2>2 DEF Goto
<1>2. k \in Unacked /\ \A l \in Unacked : k <= l
  BY DEF OneInOrder
<1>3. subRow # NoSub /\ stripeSub.status # "absent" /\ stripeSub.status # "canceled"
  BY AtWork DEF EndSettles
<1>4. events \in Seq(SubEvent) /\ ackedUpTo \subseteq DOMAIN events
  BY DEF SubIInv, SubTypeOK
<1>5. \A l : UNCHANGED Shows(l)
  BY DEF Shows
<1>6. Unacked' \subseteq Unacked /\ Unacked \ {k} \subseteq Unacked' /\ (UNCHANGED ackedUpTo => k \in Unacked')
  BY <1>2 DEF Unacked, Moves, Ack
<1>7. \A j \in Unacked : Later(j) => Later(j)'
  <2> SUFFICES ASSUME NEW j \in Unacked, Later(j) PROVE Later(j)'
    OBVIOUS
  <2>1. PICK l \in Unacked : l > j /\ Shows(l)
    BY DEF Later
  <2>2. l # k
    BY <1>2, <1>4, <2>1 DEF Unacked
  <2> QED BY <1>5, <1>6, <2>1, <2>2 DEF Later
<1>8. Later(k) => \E l \in Unacked' : Shows(l)'
  BY <1>2, <1>7 DEF Later
<1> HIDE DEF k
<1>9. Moves(w, k)
  BY DEF k
<1>10. OneInOrder'
  <2>1. w.step # "idle" => w.event = k /\ UNCHANGED ackedUpTo
    BY <1>9 DEF Moves
  <2> QED BY <1>1, <1>2, <1>6, <2>1 DEF OneInOrder
<1>11. PeriodSettles'
  <2>1. \A l \in Unacked' : events'[l].sub.period = stripeSub'.period
    BY <1>6 DEF PeriodSettles
  <2> QED BY <1>1, <1>9, <2>1 DEF PeriodSettles, Moves
<1>12. GrantsLeft'
  <2>1. /\ subRow'.period # stripeSub.period => Cardinality(SubGrants') < stripeSub.period
        /\ w.step \in {"read", "begin", "commit"} => Cardinality(SubGrants') < stripeSub.period
        /\ Cardinality(SubGrants') <= stripeSub.period
    BY DEF Counts
  <2>2. \A g \in Deliveries : work'[g].step # "idle" => g = h
    BY <1>1
  <2> QED BY <1>1, <1>3, <2>1, <2>2 DEF GrantsLeft
<1>13. RowSettles'
  <2>1. \A l \in Unacked' : events'[l].type = "updated" /\ events'[l].sub # stripeSub' => Later(l)'
    BY <1>6, <1>7 DEF RowSettles
  <2>2. Behind' => \E l \in Unacked' : Shows(l)'
    <3> SUFFICES ASSUME Behind', ~Later(k)
                 PROVE  \E l \in Unacked' : Shows(l)'
      BY <1>8
    <3>1. UNCHANGED ackedUpTo /\ Behind
      BY <1>9 DEF Moves
    <3>2. PICK l \in Unacked : Shows(l)
      BY <1>3, <3>1 DEF RowSettles
    <3>3. l \in Unacked'
      BY <1>6, <3>1, <3>2
    <3> QED BY <1>5, <3>2, <3>3
  <2>3. /\ w.step \in {"find", "update"} /\ w.sub # stripeSub => Later(w.event)'
        /\ w.step \in {"read", "begin", "commit"} /\ Behind' => Later(w.event)'
    BY <1>2, <1>7, <1>9 DEF Moves
  <2>4. creation' \in Answers =>
          stripeSub'.period = 0 /\ ~stripeSub'.atEnd /\ MapStatus(stripeSub'.status) = MapStatus(creation')
    BY DEF RowSettles
  <2> QED BY <1>1, <2>1, <2>2, <2>3, <2>4 DEF RowSettles
<1>14. EndSettles'
  BY <1>3, <1>6 DEF EndSettles
<1> QED BY <1>10, <1>11, <1>12, <1>13, <1>14

\* The handler of an event in order brings the row to where Stripe is, and grants the
\* period at most once: what it has changed it does not find changed again.
LEMMA OrderStep ==
  ASSUME SubIInv, inOrder, OrderParts, NEW h \in Deliveries, SubStep(h)
  PROVE  OrderParts'
<1> USE DEF OrderParts
<1> DEFINE k == work[h].event
<1>1. work[h].step # "idle"
  BY DEF SubStep, FetchSubscription, FindSubscription, UpdateSubscription, ReadSubscription,
     BeginSubGrant, CommitSubGrant, AbortSubGrant, DropWork
<1>2. /\ subRow # NoSub /\ subRow \in SubRow /\ stripeSub \in Shown /\ stripeSub.period \in Nat
      /\ stripeSub.status \notin {"absent", "canceled"} /\ Cardinality(SubGrants) \in Nat
  <2>1. subRow # NoSub /\ subRow \in SubRow /\ stripeSub \in Shown
    BY <1>1, AtWork
  <2>2. stripeSub.status # "canceled"
    BY <1>1 DEF EndSettles
  <2> QED BY <2>1, <2>2, PeriodTypes, GrantsFinite DEF SubIInv
<1>3. /\ Cardinality(SubGrants) <= stripeSub.period
      /\ subRow.period # stripeSub.period => Cardinality(SubGrants) < stripeSub.period
      /\ work[h].step \in {"read", "begin", "commit"} => Cardinality(SubGrants) < stripeSub.period
  BY <1>2 DEF GrantsLeft
<1>4. /\ work[h].step \in {"find", "update"} =>
           /\ work[h].sub.period = stripeSub.period
           /\ work[h].sub # stripeSub => Later(k)
      /\ work[h].step = "update" => work[h].seen = subRow.period
      /\ work[h].step \in {"read", "begin", "commit"} =>
           /\ subRow.period = stripeSub.period
           /\ Behind => Later(k)
  BY <1>2 DEF PeriodSettles, RowSettles
<1> HIDE DEF k
<1>5. ASSUME NEW w, Goto(h, w), Moves(w, k), Counts(w), UNCHANGED <<stripeSub, events, creation>>
      PROVE  OrderParts'
  BY <1>1, <1>5, OrderMoves DEF k
<1>6. ASSUME NEW w, Goto(h, w), UNCHANGED <<stripeSub, events, creation, overtaken, ledger, subRow>>,
             \/ w = Idle /\ UNCHANGED ackedUpTo
             \/ /\ UNCHANGED ackedUpTo /\ w.event = k
                /\ w.step \in {"find", "update"} =>
                     /\ w.sub.period = stripeSub.period
                     /\ w.sub # stripeSub => Later(k)
                /\ w.step = "update" => w.seen = subRow.period
                /\ w.step \in {"read", "begin", "commit"} =>
                     work[h].step \in {"read", "begin", "commit"}
             \/ w = Idle /\ Ack(k) /\ work[h].step \in {"read", "begin", "commit"}
      PROVE  OrderParts'
  <2>1. SubGrants' = SubGrants /\ UNCHANGED Behind
    BY <1>6, GrantsAsBefore DEF Behind
  <2>2. Moves(w, k)
    BY <1>2, <1>4, <1>6, <2>1 DEF Moves, Idle
  <2>3. Counts(w)
    BY <1>2, <1>3, <1>6, <2>1 DEF Counts, Idle
  <2> QED BY <1>5, <1>6, <2>2, <2>3
<1>7. CASE FetchSubscription(h)
  <2> DEFINE w == [step |-> "find", event |-> k, sub |-> stripeSub]
  <2>1. w.step = "find" /\ w.event = k /\ w.sub = stripeSub
    OBVIOUS
  <2>2. Goto(h, w) /\ UNCHANGED <<stripeSub, events, creation, overtaken, ledger, subRow, ackedUpTo>>
    BY <1>7 DEF FetchSubscription, storeVars, subStripeVars, requestVars, k
  <2> HIDE DEF w
  <2> QED BY <1>2, <1>6, <2>1, <2>2
<1>8. CASE FindSubscription(h)
  <2> DEFINE w == [step |-> "update", event |-> k, sub |-> work[h].sub, seen |-> subRow.period]
  <2>1. w.step = "update" /\ w.event = k /\ w.sub = work[h].sub /\ w.seen = subRow.period
    OBVIOUS
  <2>2. /\ work[h].step = "find" /\ Goto(h, w)
        /\ UNCHANGED <<stripeSub, events, creation, overtaken, ledger, subRow, ackedUpTo>>
    BY <1>8 DEF FindSubscription, storeVars, subStripeVars, requestVars, k
  <2> HIDE DEF w
  <2> QED BY <1>4, <1>6, <2>1, <2>2
<1>9. CASE UpdateSubscription(h)
  <2>1. work[h].step = "update" /\ UNCHANGED <<stripeSub, events, creation, ledger>>
    BY <1>9 DEF UpdateSubscription, storeVars, requestVars
  <2>2. /\ subRow' # NoSub /\ subRow'.period = stripeSub.period
        /\ subRow'.atEnd = work[h].sub.atEnd /\ subRow'.status = MapStatus(work[h].sub.status)
    <3> DEFINE status == MapStatus(work[h].sub.status)
               canceledAt == subRow.canceledAt \/ CanceledAt(work[h].sub)
    <3>1. subRow' = [subRow EXCEPT !.status = status, !.period = work[h].sub.period,
                                   !.atEnd = work[h].sub.atEnd, !.canceledAt = canceledAt]
      BY <1>9 DEF UpdateSubscription
    <3> HIDE DEF status, canceledAt
    <3>2. subRow' # NoSub /\ subRow'.period = stripeSub.period /\ subRow'.atEnd = work[h].sub.atEnd
          /\ subRow'.status = status
      BY <1>2, <1>4, <2>1, <3>1 DEF SubRow, NoSub
    <3> QED BY <3>2 DEF status
  <2>3. SubGrants' = SubGrants
    BY <2>1, GrantsAsBefore
  <2>4. Behind' => Later(k)
    BY <1>4, <2>1, <2>2 DEF Behind
  <2>5. CASE PeriodChanged(h)
    <3> DEFINE w == [step |-> "read", event |-> k]
    <3>1. w.step = "read" /\ w.event = k
      OBVIOUS
    <3>2. Goto(h, w) /\ UNCHANGED ackedUpTo
      BY <1>9, <2>5 DEF UpdateSubscription, k
    <3> HIDE DEF w
    <3>3. subRow.period # stripeSub.period
      BY <1>4, <2>1, <2>5 DEF PeriodChanged
    <3>4. Moves(w, k) /\ Counts(w)
      BY <1>3, <2>2, <2>3, <2>4, <3>1, <3>2, <3>3 DEF Moves, Counts
    <3> QED BY <1>5, <2>1, <3>2, <3>4
  <2>6. CASE ~PeriodChanged(h)
    <3>1. Goto(h, Idle) /\ Ack(k)
      BY <1>9, <2>6 DEF UpdateSubscription, k
    <3>2. Moves(Idle, k) /\ Counts(Idle)
      BY <1>3, <2>2, <2>3, <2>4, <3>1 DEF Moves, Counts, Idle
    <3> QED BY <1>5, <2>1, <3>1, <3>2
  <2> QED BY <2>5, <2>6
<1>10. CASE ReadSubscription(h)
  <2> DEFINE w == [step |-> "begin", event |-> k, period |-> subRow.period]
  <2>1. w.step = "begin" /\ w.event = k
    OBVIOUS
  <2>2. /\ work[h].step = "read"
        /\ UNCHANGED <<stripeSub, events, creation, overtaken, ledger, subRow>>
        /\ (Goto(h, Idle) /\ Ack(k)) \/ (Goto(h, w) /\ UNCHANGED ackedUpTo)
    BY <1>10 DEF ReadSubscription, storeVars, requestVars, k, w
  <2> HIDE DEF w
  <2> QED BY <1>6, <2>1, <2>2
<1>11. CASE BeginSubGrant(h)
  <2> DEFINE w == [work[h] EXCEPT !.step = "commit"]
  <2>1. w.step = "commit" /\ w.event = k
    BY <1>11, WorkTypes DEF BeginSubGrant, SubIInv, k
  <2>2. /\ work[h].step = "begin" /\ Goto(h, w)
        /\ UNCHANGED <<stripeSub, events, creation, overtaken, ledger, subRow, ackedUpTo>>
    BY <1>11 DEF BeginSubGrant, BeginTx, subStripeVars, requestVars
  <2> HIDE DEF w
  <2> QED BY <1>6, <2>1, <2>2
<1>12. CASE CommitSubGrant(h)
  <2>1. /\ work[h].step = "commit" /\ Goto(h, Idle) /\ Ack(k)
        /\ UNCHANGED <<stripeSub, events, creation, overtaken>>
        /\ GrantTx(h, "SUBSCRIPTION", Sub, MonthlyCredits)
        /\ subRow' = [subRow EXCEPT !.lastGranted = work[h].period]
    BY <1>12 DEF CommitSubGrant, requestVars, k
  <2>2. /\ subRow' # NoSub /\ subRow'.period = subRow.period /\ UNCHANGED Behind
    <3>1. /\ subRow' # NoSub /\ subRow'.period = subRow.period
          /\ subRow'.status = subRow.status /\ subRow'.atEnd = subRow.atEnd
      BY <1>2, <2>1 DEF SubRow, NoSub
    <3> QED BY <2>1, <3>1 DEF Behind
  <2>3. Cardinality(SubGrants') = Cardinality(SubGrants) + 1
    BY <2>1, GrantAddsOne DEF SubIInv
  <2>4. Moves(Idle, k)
    BY <1>4, <2>1, <2>2 DEF Moves, Idle
  <2>5. Counts(Idle)
    BY <1>2, <1>3, <1>4, <2>1, <2>2, <2>3 DEF Counts, Idle
  <2> QED BY <1>5, <2>1, <2>4, <2>5
<1>13. CASE AbortSubGrant(h) \/ DropWork(h)
  <2>1. Goto(h, Idle) /\ UNCHANGED <<stripeSub, events, creation, overtaken, ledger, subRow, ackedUpTo>>
    BY <1>13 DEF AbortSubGrant, AbortTx, DropWork, storeVars, subStripeVars, requestVars
  <2> QED BY <1>6, <2>1
<1> QED BY <1>7, <1>8, <1>9, <1>10, <1>11, <1>12, <1>13 DEF SubStep

\* Every step in an orderly behaviour keeps it so.
LEMMA OrderNextKeeps ==
  ASSUME SubIInv, InOrderInv, [SubNext]_subVars
  PROVE  InOrderInv'
<1>1. UNCHANGED inOrder
  BY DEF SubNext, subVars, SubStripeStep, Renew, PayInvoice, PaymentFails, End, SubRequest,
     CreateAtStripe, StoreSubscription, LoseSubscription, CancelAtStripe, StoreCancellation,
     LoseCancellation, SubStart, IgnoreUnknown, StartUpdated, StartInvoice, RecordDeleted, SubStep,
     FetchSubscription, FindSubscription, UpdateSubscription, ReadSubscription, BeginSubGrant,
     CommitSubGrant, AbortSubGrant, DropWork, subStripeVars
<1>2. CASE UNCHANGED subVars
  <2>1. /\ UNCHANGED <<stripeSub, events, ackedUpTo, subRow, creation, overtaken, work>>
        /\ UNCHANGED SubGrants
    BY <1>2 DEF subVars, subStripeVars, requestVars, storeVars, SubGrants
  <2>2. UNCHANGED Unacked /\ UNCHANGED Behind /\ \A j : UNCHANGED Later(j) /\ UNCHANGED Shows(j)
    BY <2>1 DEF Unacked, Later, Shows, Behind
  <2> QED BY <1>1, <2>1, <2>2 DEF InOrderInv, OrderParts, OneInOrder, PeriodSettles, GrantsLeft,
                                  RowSettles, EndSettles
<1>3. CASE SubNext
  <2>1. StoreIInv'
    BY SubKeepsStore
  <2> QED BY <1>1, <1>3, <2>1, OrderStripe, OrderRequest, OrderStart, OrderStep DEF InOrderInv, SubNext
<1> QED BY <1>2, <1>3

\* What holds of a subscription whose events come in order.
LEMMA OrderInvariant == SubSpec => []InOrderInv
<1>1. SubInit => InOrderInv
  BY OrderInitHolds
<1>2. SubIInv /\ InOrderInv /\ [SubNext]_subVars => InOrderInv'
  BY OrderNextKeeps
<1> QED BY <1>1, <1>2, SubInvariant, PTL DEF SubSpec

\* A period is credited once: with events in order there are no more grants than
\* renewals, whatever deliveries fail and start again.
THEOREM PeriodsCreditedOnce == SubSpec => []GrantsWithinRenewals
<1>1. StoreIInv /\ InOrderInv => GrantsWithinRenewals
  <2> SUFFICES ASSUME StoreIInv, GrantsLeft
               PROVE  Cardinality(SubGrants) <= IF stripeSub.status = "absent" THEN 0 ELSE stripeSub.period
    BY DEF InOrderInv, OrderParts, GrantsWithinRenewals
  <2>1. CASE stripeSub.status = "absent"
    BY <2>1, FS_EmptySet DEF GrantsLeft
  <2>2. CASE stripeSub.status # "absent"
    BY <2>2 DEF GrantsLeft
  <2> QED BY <2>1, <2>2
<1>2. SubIInv => StoreIInv
  BY DEF SubIInv
<1> QED BY <1>1, <1>2, SubInvariant, OrderInvariant, PTL

\* When every event of an orderly delivery is acked, the row shows the period, the status
\* and the end as Stripe has them, and whether the subscription ends with its period
\* unless requests to cancel overtook each other, however many there are.
THEOREM RowFollows == SubSpec => []RowFollowsStripe
<1>1. SubIInv /\ InOrderInv => RowFollowsStripe
  <2> SUFFICES ASSUME SubIInv, OrderParts, Settled
               PROVE  /\ subRow.period = stripeSub.period
                      /\ subRow.status = MapStatus(stripeSub.status)
                      /\ subRow.atEnd = stripeSub.atEnd \/ overtaken
                      /\ stripeSub.status = "canceled" => subRow.canceledAt
    BY DEF InOrderInv, RowFollowsStripe
  <2>1. Unacked = {} /\ subRow # NoSub
    BY DEF Settled, Unacked
  <2>2. ~Behind
    BY <2>1 DEF OrderParts, RowSettles
  <2>3. stripeSub.status = "canceled" => subRow.status = "CANCELLED" /\ subRow.canceledAt
    BY <2>1 DEF OrderParts, EndSettles
  <2>4. MapStatus("canceled") = "CANCELLED"
    BY DEF MapStatus
  <2> QED BY <2>2, <2>3, <2>4 DEF Behind
<1> QED BY <1>1, SubInvariant, OrderInvariant, PTL
=============================================================================
