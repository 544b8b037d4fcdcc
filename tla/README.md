# TLA+ models of the Ovlox services

Ovlox is a NestJS backend (`src/src`). Organizations connect GitHub, Slack, Discord,
Notion, Jira and Figma; what happens there is ingested as raw events, which a language
model summarises, embeds and searches for features; people chat with a model about
their project. All model work is paid with credits, which are bought or granted by a
subscription through Stripe. State is kept in PostgreSQL (Prisma), queues and sockets
in Redis (BullMQ, socket.io).

This directory has TLA+ modules for the parts of it that carry the logic, the TLC
configurations that check them on small instances, and proofs, checked by TLAPS, of
theorems about all of them, for instances of any size.

Paths below are those of the repository: `payments.service.ts` is
`src/modules/payments/payments.service.ts`, and so on.

- [1. The system](#1-the-system)
- [2. The modules](#2-the-modules)
- [3. The runs](#3-the-runs)
- [4. Disagreements](#4-disagreements)
- [5. The proofs](#5-the-proofs)
- [6. Not modelled, and assumed](#6-not-modelled-and-assumed)
- [7. Plan](#7-plan)
- [8. How to run it](#8-how-to-run-it)

## 1. The system

There is one API process, which is also the worker of the queues. Between two awaits
a handler is not interrupted; at each await any other request, webhook or job may move.
Almost every handler first reads and then writes, in two statements without a
transaction, so the interesting behaviour is in what happens between the two. The
places that do use a transaction use it at PostgreSQL's default level, Read Committed.

| component | state | operations | talks to | hard | what makes it correct |
|---|---|---|---|---|---|
| credit store (`payments.service.ts`, `llm.service.ts`, `schema.prisma`) | balance, version, ledger of an organization | grant, refund, deduct: read, versioned update, entry, in one transaction | payments, subscriptions, LLM | two transactions that read one balance; rounding; clamping | no lost update; the ledger explains the balance; the balance is never negative |
| payments (`payments.*.ts`) | Payment rows | create intent, webhook success and failure, refund | Stripe, credit store | redelivered, overlapping, failing, late events; refund in three systems | every paid payment is credited, at most once per request that overlaps, and only if paid; credits are taken back only for money given back |
| subscriptions (`payments.*.ts`) | Subscription row | create, cancel, updated, deleted, invoice paid, grant of a period | Stripe, credit store | events out of order; a failed step after an earlier one took effect; periods that begin unpaid; requests to cancel that overtake each other | each renewal is granted once; the row follows Stripe; no event is redelivered for ever |
| LLM operations (`llm.service.ts`) | LlmUsage rows | check, usage row, model calls, deduction; chat, reports, embeddings | OpenAI, credit store | seconds between check and deduction; failure at each await | no answer without its charge, no charge but for consumption |
| LLM jobs (`llm.controller.ts`, `llm.processor.ts`, `llm.queue.ts`) | Job row, BullMQ entries | submit, retry, work, fail, `onFailed` | BullMQ, LLM operations | three parties count attempts; a crash; a retry that races a backoff | a job ends, its row says how, COMPLETED has a result |
| ingestion (`providers/*`) | RawEvent, Identity, connections | GitHub webhooks; history ingests with paging | providers, contributor maps, LLM | a listing that changes between two pages; partial failure; races for identities | nothing lost at a page boundary; an answered delivery is recorded for each project; attribution follows the map; loops end |
| contributor maps (`contributors.service.ts`) | ContributorMap | create, update, delete | ingestion reads them | a map that changes under an ingest | a member gets credit only for an identity mapped to him |
| organizations (`organizations.service.ts`) | OrganizationMember, Invite | create, invite, accept, update role, remove | roles, authorization | find-then-create without a unique key; invites that outlive a removal; invites are for addresses, which accounts change | access goes back to an accepted invite; one way in |
| authorization, roles (`authorization.service.ts`, `roles.service.ts`) | RoleTemplate, RolePermission | create, delete, assign and remove permissions and roles | organizations | a role deleted while it is assigned; two replacements of permissions | a member or role keeps what it was given |
| features (`features.service.ts`, `llm.service.ts`) | Feature, FeatureEvent, LlmOutput, processedByLLM | CRUD, status, link; processing and detection | ingestion, LLM | people and detection make and rename features at once; processing that stops half way and is repeated | one feature per name; attribution to the author of an event it has |
| tasks (`tasks.service.ts`) | Task, TaskAssignment, TaskTeam, TaskTeamMember | CRUD, status, assign, team | organizations (a member leaves) | end-then-create of assignments in two statements; two rules for one date | one active assignment; dates that follow the status |
| GitHub integrations (`github.service.ts`, `organizations.service.ts`, `redis.service.ts`) | Provider and Integration rows, installation token, cached status, synced repositories | install and OAuth callbacks, installation webhooks, auto-connect, status, sync | GitHub, Redis, organizations of one owner | an hour of cache that depends on other organizations; webhooks late, twice or never; tokens that outlive an installation | a cached status is the one that would be built; an installation reaches only organizations an account of it vouches for; nothing stays linked to what is gone |
| other integrations (`slack`, `discord`, `notion`, `jira`, `figma.service.ts`, `oauth-state.ts`) | config: tokens, site, servers; IntegrationResource | callback, token refresh, sync | the app | the config is one JSON value that is read, and written whole after a call; a refresh token is good once | no write loses a token or a server |
| authentication, sessions (`auth.service.ts`, `auth.guard.ts`, `users.service.ts`) | User, one-time code, Session | sign up, sign in, request and verify a code, refresh, log out, change address, delete | | read-then-update of a code; a session that is made in two statements; an account that goes or moves meanwhile | a session opens once, ends once and answers only while open; no session ends for another's sake; a code opens its own account |
| profiles, projects | one row each | CRUD | | | |
| chat gateway (`chat.gateway.ts`) | rooms, typing timers, messages | join, leave, send, typing | application gateway | timers against disconnects | |
| application gateway (`app.gateway.ts`, `redis.service.ts`) | socket of a user, `isOnline` | connect, disconnect | Redis | two sockets of one user | online while a socket is connected |
| analytics, health, storage, e-mail and fallback queues, utilities | none, or another system's | read, send, sign | | | |

## 2. The modules

```
                CreditLedger          abstract account
                     ^  implemented by (AccountSpec)
                CreditStore           balance, version, ledger, transactions
       ^             ^              ^
   Payments     Subscriptions   LlmOperations       EXTEND the store
   CreditStoreProofs, PaymentsProofs, SubscriptionsProofs, LlmProofs     theorems

                  Logins              abstract log of sessions
                     ^  implemented by (LoginSpec)
                 Sessions        Membership                        AccessProofs: theorems

   Installations + AppConfigs    Features + Tasks    LlmJobs   Ingestion
   IntegrationsProofs            TrackingProofs      BackgroundProofs
```

Each has an `MC…` module with the definitions its configurations need.
An action stands for what a handler does between two awaits: its guard is the read and
the early returns that depend on it, its primed variables what it writes. What a handler
has read stays in the record of its request (`delivery`, `work`, `request`, `call`, `ask`)
until it writes, which makes every stale read visible. A statement may fail, and the
process may stop, between any two of them (`Drop…`, `Abort…`, `Interrupt`, `Crash`,
`ProcessDies`, `Abandon`, `GiveUp`, `Break`).

Some definitions are headed "A mutant of X". They state what X would be with a
plausible bug in the code it models. No specification uses them; with X so
replaced, the property they are listed for in `PROJECT.json` is violated.

### CreditLedger, CreditStore

All amounts are integers in units of 1/10000 credit (`LlmUsage.creditsConsumed` is
`Decimal(15,4)`); the balance and the ledger are `Decimal(15,2)`, so multiples of 100, and
PostgreSQL rounds what is stored in them (`RoundToCent`). `BeginTx` is
`tx.organization.findUnique`, `CommitTx` the update `where {id, version}` with the entry
and the COMMIT, `AbortTx` everything else. `GrantTx`, `DeductTx` and `ReverseTx` are the
three ways in which the four transactions move credits. `CreditLedger` is what an
account promises with none of this: a step records an entry that starts at the current
balance and explains the next one.

### Payments

A `delivery` is one webhook request, a `refund` one refund request. Stripe is external:
it declines or takes a payment (`Decline`, `Pay`), delivers each event until one of its
deliveries is answered 2xx (`acked`), sometimes once more (`duplicates`), and refuses a
refund beyond the charge. `RecordSuccess`, `CheckStatus`, `CheckGranted`, `BeginGrant`
and `CommitGrant` are `handlePaymentIntentSucceeded` and `grantCreditsFromPayment` await by
await. `processRefund` updates the Payment row first in its transaction, which keeps
it locked (`RowLocked`) against the other writes of the row.

### Subscriptions

A period is its number instead of its Unix time. `updated` and `deleted` events show the
subscription as it was when they were emitted; `invoice` events name it, and the handler
fetches it as it is (`FetchSubscription`). `FindSubscription`, `UpdateSubscription`,
`ReadSubscription`, `BeginSubGrant`, `CommitSubGrant` are `handleSubscriptionUpdated` and
`grantSubscriptionCredits`. `inOrder`, chosen in the initial state, tells apart the
behaviours in which Stripe happens to deliver one event at a time, in order and each until it
is acked.

Stripe is external. A period begins (`Renew`) before its invoice is paid (`PayInvoice`), and
begins also when it never will be: then the subscription is `past_due`, `unpaid` or, before
its first payment, `incomplete` and `incomplete_expired` (`PaymentFails`), and `active` again when
it is paid. `Emit` changes the subscription and emits what shows it. `MapStatus` has the cases of
`mapStripeSubscriptionStatus`, which has no status of its own for the incomplete ones. `cancel`
has one request for each member of `Cancels`; they overlap, with either flag, and each
writes its row (`StoreCancellation`) when it gets there. `overtaken` is history: the row has the
flag of a request that another one overtook at Stripe.

### LlmOperations

One skeleton with three kinds: `operation` (`executeLlmOperation`), `content embedding`
(`generateEmbeddingForContent`) and `event embedding` (`generateEmbeddingForRawEvent`), which
differ in the check, the number of calls and the catch. `Others` are the payments
side of the same account, as any transactions of the store that are not charges.

### LlmJobs

One Job row, its queue entries (`queue`, a retry adds one), the worker at each (`at`), and
the calls of `onFailed` in progress (`hooks`), which nobody awaits. `course` chooses what
a behaviour may meet beside crashes: nothing (`calm`), retries by users (`retried`), or an
`onFailed` that is still running when the next attempt begins (`overtaken`); in the
latter two, writes may be lost too.

### Ingestion

A behaviour is about one provider. `work` is where a worker is, `events[w]` the RawEvent
rows it wrote, `posted` and `listed` what the provider has and lists. The actions `SlackPage`,
`DiscordPage`, `NotionPage`, `JiraPage`, `FigmaPage` are the five ways to page: a cursor
at a time, at a message id, an opaque cursor, a count of places, no paging.
The resolution of an author (`FindIdentity`, `CreateIdentity`, `ReadMapping`), the rows
(`WriteEvent`) and their processing (`ProcessEvent`) are one action each, since the code is
the same text in six files; the differences are guards (`Stops`, `Things`, `MaxRows`).
Of what is pushed to GitHub, the head commit changed files or not (`FilePushes`): `commit()` stores
the number of files where `summarizeCodeChange` expects a list, so the processing of a push with
changed files throws (`NotSummarizable`), and the webhook only logs that.
`seen` is history: what was listed all the time, what was walked.

### Membership

Rows are numbered in the order in which they are made, and a removed row keeps its number.
`request` has one record for each request of any kind. `assertOrgPermission` is `MayAct`.
Invites are for addresses (`Addresses`), and an account has one or none (`email`), which it
changes at any time to any that is free (`ChangeEmail`, the part of `updateUserDetails` that matters
here). What `createOrg` invites at once (`MemInit`) may name an address twice, or the owner's.
`joined`, `given` and `meant` are history: the members an invite made, the role a member and
the permissions a role were last given; so are `held` (who ever had which address), `moved` (the
rows of accounts that changed it since) and `unchecked` (the invites of `createOrg` that
`inviteMember` would have refused). A `createMany` of permissions is one action with
the commit of its transaction (`CommitReplace`) while the deletion before it is another
(`StartReplace`).

### Features, Tasks

Two services that share nothing; `MCTracking` lets one or the other move. In `Features`
people (`CreateFeature` … `SetDetector`) and the processing of raw events (`ProcessRawEvent`,
`Summarise`, `MarkProcessed`, `FindFeature`, `CreateFound`, `LinkFound`) work on one table. Its
unique key is in `Insert` and `WriteUpdate`, its cascade in `DropFeature`. `origin` is
history: the event a feature was detected in. In `Tasks`, a deadline is none, ahead or
past, a status DONE or open; a member who leaves is cleared from assignments (SetNull)
and dropped from teams (Cascade). `featAlone` and `taskAlone` choose behaviours in
which calls do not overlap. `finished` is history: an update moved the task to DONE.

### Installations, AppConfigs

`MCIntegrations` lets one or the other move. `Installations` has the organizations of one
owner, with one GitHub Integration row (`row`) and any number of Provider rows (`users`)
each. An organization is authorized with any account, for the first time or, forced, again
(`OAuthCallback`). The callbacks (`Link`, `DeleteProviders`, `UpsertProvider`), the webhooks
(`MarkConnected`, `Unlink`) and `githubAutoConnect` (`ReadOne`, `Connect`) all end with the
invalidation of cached statuses: `FindIdentity`, `FindPeers`, `FindSlug`, `DropEntries` are
`invalidateOrgIntegrationStatusCachesForGithubIdentity`, which falls back to the slug of
the organization itself. `Build` computes the status, `KeepEntry` caches it. `ReadToken`, `Mint`,
`KeepToken` are `getValidInstallationToken`; `Upsert` is one row of `syncRepositories`, and
`DefaultRepo` what `resolveGithubContext` reads when nobody names a repository. Expiry of
tokens and entries are actions (`TokenAges`, `EntryExpires`).

`AppConfigs` is the integration of one of the other five apps. The five callbacks differ in
guards and in what they keep: `ReplaceConfig` (Slack) makes the config anew, `UpdateRow`
and `CreateRow` (Notion, Jira, Figma) put the token into what they read, `AddGuild` (Discord)
adds a server. `Refresh`, `KeepTokens` and `KeepSite` are Jira's alone. The age of an
access token has four values, for the two sides of its end within a minute.

History: `vouched` and `authorized` (who stood for which installation), `told` (deletions
handled), `deserted` (accounts an organization had when it got another one), `moved` and `synced`,
`added`. `course` and `conduct` choose between behaviours of one
request after the other, and of any number of them, which may fail.

### Sessions, Logins

A session is made in two statements (`CreateSession`, `KeepHash`), because its refresh token
names its row; `hash` tells the stages. `VerifyOtp`, `ClearCode` and those two are
`verifyOtp` await by await. `RefreshToken`, `CheckSession`, `Issue` are `refreshToken`; the
answer is decided by what `CheckSession` read. `Logins` is what one would promise of all
that: `Life` and the requests at "issue" are its variables. A session that expires, that is
logged out, or goes with its account ends; those of an account end together.
`issued`, `by`, `sent` and `ended` are history.

## 3. The runs

States are distinct states, of the whole state space up to the bounds.

| run | states | shows |
|---|---|---|
| `payments` | 58 000 | one payment, two deliveries, two refund requests, one duplicate, every failure: `LedgerChain` of the store; `GrantsWithinOverlap`, `AckedImpliesGranted`, `GrantsArePaid`, `RefundsAreBacked`; `PaidIsGranted` (liveness) |
| `subscriptions` | 543 000 | two deliveries, two renewals, invoices paid or not, two requests to cancel: `GrantsWithinRenewals` and `RowFollowsStripe` where events come in order; `GrantsFollowRenewal` in any order |
| `sub_live` | 144 000 | `EventsAreAcked`, `EndIsRecorded` (liveness) |
| `sub_lost_grant` | violation | `RenewalsAreGranted` |
| `llm` | 1 172 000 | an operation and both embeddings beside a purchase and a refund: `AnswersAreCharged`, `ChargeIsConsumption`, and `AccountSpec`, the refinement of the abstract account |
| `jobs` | 288 000 | two entries of three attempts, a crash: `StatusIsOutcome`, `CompletedIsAnswered`; `JobEnds` (liveness) |
| `ingestion` | 377 000 | six providers: `IngestIsComplete`, `DoneIsRecorded`, `AttributionFollowsMap`; `WorkersEnd` (liveness) |
| `membership` | 1 699 000 | two requests, one at a time or interleaved, and changes of addresses: `AccessIsInvited`, `AcceptedMadeMember`, `OneWayIn`, `GivenIsKept` |
| `tracking` | 920 000 | two calls on features, or two requests on a task: `DetectedByAuthor`, `AssignmentsWithinOverlap`, `DatesFollowStatus` |
| `integrations` | 1 018 000 | two organizations, two installations, two GitHub accounts, two requests: `AccountIsVouched`, `StatusIsFresh`, `LinkedIsInstalled`, `DefaultIsReadable`; or one of the other apps and two requests: `ConfigIsKept` |
| `jira_expired` | violation | `TokenHandedOutIsLive` |
| `sessions` | 391 000 | two accounts, two addresses, two codes, two sessions, two requests: `SentCanRefresh`, `CodesOpenTheirs`, and `LoginSpec`, the refinement of the abstract log |

`ingestion`, `membership`, `tracking` and `integrations` also check a type invariant, which
says too that references between rows are kept. Every invariant and both refinements in this
table are proved for instances of any size (section 5).

### What the properties say

Where the code keeps a promise only while requests do not overlap, the property says
so, and, where there is one, gives the bound that still holds when they do:

- `GrantsWithinOverlap`: a payment is credited at most once per delivery that was
  handling it when it was credited first; one delivery at a time means one credit.
- `AssignmentsWithinOverlap`: a task has at most as many active assignments as requests
  were between ending the old one and making the new one.
- `GrantsWithinRenewals`, `RowFollowsStripe`: for events in order, one at a time. Whether the row
  says that the subscription will end is as Stripe has it unless a request to cancel was
  overtaken (`overtaken`): then no event tells the row better.
- `GrantsFollowRenewal`: in any order. That a renewal was granted does not say that it was paid.
- `OneWayIn`, `GivenIsKept`, `DatesFollowStatus`, part of `AcceptedMadeMember`: for
  requests one after the other, each of which may still stop half way. `OneWayIn` leaves out the
  members whose address has changed since they joined: an invite to the new one, or to
  the old one, may be waiting, made when it was nobody's or while it was somebody else's.
- `DoneIsRecorded`: a row with a project is processed when no call failed, a push with changed files
  excepted, which never is.
- `AttributionFollowsMap`: a row without its author was written after a failure, or lost the
  race for the identity to a worker that made it; and a member gets credit for a row only if
  its author has been mapped to that member.
- `StatusIsFresh`, `LinkedIsInstalled`, `DefaultIsReadable`, the servers of Discord in
  `ConfigIsKept`, that a code opens one session in `CodesOpenTheirs`: for requests one after
  the other. `StatusIsFresh` also only for organizations whose accounts no organization has left
  for another one, or has beside another one (`Settled`): the invalidation follows one account
  of an organization, and after the change. Jira's refresh token in `ConfigIsKept`: for
  overlapping requests too, if none fails.

The others hold under every interleaving and failure of the model.

### Bounds, and why they are enough

- Two concurrent requests of a kind: every hazard of section 1 is a race of two, or of one
  with itself after a failure. That more of them change nothing is what the proofs show.
- `payments`: one intent, since a payment shares only the store with another one, and
  refunds already contend for that. Price 2, so that refunds can be whole, partial, and
  two partial ones. `MaxDuplicates` 1: a delivery after the acknowledgement.
- `subscriptions`: `MaxPeriod` 2 for a renewal after a renewal, two requests to cancel, for one that
  overtakes the other. `MCBound` stops the behaviours with events in any order after one renewal, and
  leaves the requests to cancel and the arrears to the orderly ones, where somebody cancels in the
  first two periods. `SYMMETRY` permutes deliveries and requests; `sub_live`, which checks
  liveness, has none, and neither requests to cancel nor a second renewal.
- `llm`: costs of 13 and 60 units, below and above half a cent, for both directions of rounding.
  Two chunks per embedding. `CreditLimit` 1000 is not reached (it is never set by the code).
- `jobs`: `MaxEntries` 2 is the first entry and a retry; the three attempts are the code's.
- `ingestion`: `PageSize` 2 and three things give a second page and one that changes between two
  pages; the page sizes of the code (100 or 200) are abstracted. Several projects per
  delivery for GitHub. One failure (`MaxFailures`) anywhere. One of the pushes changed files.
- `membership`: the owner and one other person, two addresses and two changes of them, three
  member rows, two invites (invite, remove, invite again; or both from `createOrg`), one custom
  role. `MCBound`: addresses change where there is no custom role; where requests overlap, a third
  row, a custom role or a change of address, one of them.
- `tracking`: two names and two features, for renames onto each other; one event with and one
  without an author; three assignments. `MCBound`: where calls overlap, statuses and
  deadlines are left alone, since the properties about them are for calls that do not.
- `integrations`: two organizations, two GitHub accounts (one shared, or one each), two
  installation ids (install, uninstall, install again) with one repository each, three slugs
  of which one belongs to nobody. `CalmBound`: one request after the other; a behaviour is
  about the status or about repositories, and repositories of one organization; an account is
  left for another one while there is one installation. `FreeBound`:
  two requests at once that read, link and connect, with one installation and up to three
  authorizations, two once it is gone; how they invalidate the cache is left to the calm
  ones. Jira gives three tokens: those of a callback, of a refresh and of the callback or
  refresh that overlaps it; two where calls may fail, and nothing is said of them.
- `sessions`: two accounts at two addresses, so that they can take over each other's; two
  codes and two sessions, for a code used twice and a session that must survive another.
- `CHECK_DEADLOCK FALSE` everywhere: a payment, a job or an ingest may be over, and
  users need not ask for more.

### Fairness

Only liveness uses it, and only what the surroundings of the code give.

- Stripe redelivers an event until it is answered 2xx: weak fairness of the delivery of each.
- A step of a delivery that is possible again and again is taken in the end (strong
  fairness for each step of `handlePaymentIntentSucceeded`, `handleSubscriptionUpdated` and the
  grants): a delivery may fail at any step any number of times, but the database, Stripe
  and the version conflict do not hit the same step for ever. Without it a payment
  is never credited, which is right and uninteresting.
- Node continues a request whose await is answered, and Prisma ends a transaction (its
  timeout): weak fairness of the steps of refunds, workers and hooks.
- BullMQ offers a waiting entry, ends a backoff and hands a stalled entry on.
- No fairness for users, for Stripe's decisions, for crashes or failures.
- `WorkersEnd` needs more than fairness: things appear at a provider finitely often
  (`Things`). With messages arriving faster than pages are read the loop would not end.

## 4. Disagreements

Two runs show a disagreement between the code and what it says of itself, listed under
"findings" in `PROJECT.json`: `sub_lost_grant`, `jira_expired`.

The other statements the code does not keep are written in the last section of each
module and not run with the rest. To see a counterexample, name the definition in the
configuration of its module.

| definition | the source says | what happens |
|---|---|---|
| `GrantedAtMostOnce` | "Check if credits already granted" (`payments.service.ts:186`) | two deliveries that overlap both find no entry; the second begins its transaction after the first committed, and grants again |
| `CompletedIsCharged` | "Operation completed successfully" (`schema.prisma:193`) | an event embedding is COMPLETED after its first chunk; a failed later chunk or deduction is only logged |
| `EndedIsFinal` | "Stop streaming if job is completed or failed" (`llm.controller.ts:444`) | FAILED is written after every failed attempt, and left again |
| `GrantWhileSucceeded` | "Payment … is not succeeded" (`payments.service.ts:183`) | the status is read before the transaction; a late failure or a refund changes it before the commit |
| `FailedIsFailed` | FAILED is "Payment failed" (`schema.prisma:166`) | `payment_failed` of an earlier attempt, handled after the success, marks a paid payment FAILED for good |
| `RefundedStaysRefunded` | "Can only refund succeeded payments" (`payments.service.ts:627`) | a redelivered success turns REFUNDED back to SUCCEEDED |
| `RefundAmountIsRefunded` | "Amount refunded" (`schema.prisma:1179`) | it is the last amount, and not written when the transaction fails |
| `EntriesAddUp` | "balanceAfter = balanceBefore + amount" (`schema.prisma:1106`) | a refund beyond the balance is clamped, and so is not its entry |
| `RefundsAddCredits` | "type=REFUND: amount > 0" (`schema.prisma:1104`) | every REFUND entry is negative |
| `PeriodsGrantedOnce` | "Prevent duplicate credit grants per billing period" | an old `updated` event moves the period back and the next one forward: a second grant |
| `GrantsArePaid` (`Subscriptions`) | "Handle invoice paid (for subscription renewals)" (`payments.service.ts:551`) | every `updated` event with a new period grants; Stripe sends it when the period begins, before the invoice is paid, and when it never is |
| `CancellationsAgree` | "Subscription cancelled successfully" | two requests to cancel, with opposite flags: the rows are written in the other order than Stripe was told, and after all events |
| `AllowanceIsGranted` | "Monthly credit allowance" | the first period is stored with the row, so no event finds it changed and it is never granted |
| `CancelledIsCancelled` | "Subscription cancelled successfully" | a cancellation that is not for the end of the period updates `cancel_at_period_end` to false and sets only `canceledAt` |
| `UsageTakesCredits` | "type=USAGE: amount < 0" | less than half a cent is stored as 0.00 |
| `CheckIsEnough` | "Check if organization has sufficient credits" | the balance is gone when the model has answered |
| `PendingIsPending` | PENDING is "Operation pending" | the catch of an event embedding leaves it |
| `GivenUpIsOver` | "Mark as failed after max attempts" | worker and hook both count, so the row gives up one attempt before BullMQ |
| `OneLiveEntry` | "Job cannot be retried" | a FAILED job may have an attempt left in the queue; a retry adds a second entry |
| `RetryKeepsMode` | "Re-queue the job" | the mode is read from a payload that does not hold it: a report is queued as a chat |
| `EachConnectedProjectHears` | "Create RawEvent for each connected project" (`github.service.ts:800`) | several organizations may hold one installation; one is looked at |
| `ProjectRowsAreProcessed` | "Queue LLM processing if project exists" (`github.service.ts:828`) | the row of a push has the number of changed files (823) in the place of the list that is mapped (`llm.service.ts:456`, 548): the processing throws, which is logged, whenever the number is not 0 |
| `JiraIsComplete` | | `startAt` counts places: an issue that leaves the listing hides another one |
| `RecordedOnce` | | a repeated delivery or ingest writes its rows again |
| `OneRowPerMember`, `OnePendingInvite` | "Check if already a member" (`organizations.service.ts:617`), "Invite already sent" (565) | two requests at once; no unique key |
| `RemovalIsFinal` | "User is already a member of this organization" (`organizations.service.ts:556`) | a member who has changed his address may hold a pending invite: his removal leaves him a way in. So may one whom `createOrg` invited twice |
| `OwnerIsMember` | "Cannot remove organization owner" (742) | `assignRoleToMember` clears the predefined role which that check looks at |
| `RoleIsKept` | "Cannot delete role that is assigned to members" (`roles.service.ts:135`) | assigned between the count and the delete |
| `PermissionsAreReplaced` | "Remove existing permissions and add new ones" (166) | of two replacements at once both sets remain |
| `CompletedIsDated` | "When marked as completed" (`schema.prisma:992`) | `updateFeature` decides by a status it read before |
| `FirstEventDetects` | "if this is the first event" (`features.service.ts:226`) | a later event with an author is taken, if the first had none |
| `OpenIsUndated` | "Reset if moving away from DONE" (`tasks.service.ts:105`) | `updateTaskStatus` keeps `completedAt` |
| `DoneIsDated` | "When task was marked as completed" (`schema.prisma:595`) | a task created as DONE has none |
| `ActiveHasAssignee` | "isActive=true requires assigneeId OR teamId" (`schema.prisma:622`) | the member's removal clears his id and leaves the row active |
| `OverdueIsOpen` | "Calculated: completionDeadline < now && status != DONE" (`schema.prisma:599`) | from a read that is out of date when it is written; and nothing recalculates it when time passes |

| `OldPeersAreFresh` | "Invalidate cached integration status so SSE/HTTP reflects new OAuth connection immediately" (`github.service.ts:298`) | an organization is authorized, by force, with another account: the other organizations of the new one are invalidated, those of the old one go on offering it an installation |

Of integrations and sessions, these are known from the models, without a definition except
`CodesOpenOnce`:

- A status that is built from a read before a change, and cached after the invalidation of
  that change, is stale for up to an hour (`KeepEntry`); so is one whose invalidation failed.
  The callbacks of the other five apps invalidate nothing.
- `updateOrg` changes the slug and leaves the entry under the old one, which an organization
  that takes the slug is then shown.
- A callback that moves an organization from one installation to another keeps the token of
  the first (`moved`), and the repositories of an earlier installation are never removed.
- "Get the first synced repository" (`github.service.ts:1108`) is the one updated last.
- `githubAutoConnect` acts on what it read: it may connect an organization with an installation
  whose deletion was handled in between, which no webhook corrects.
- A Jira refresh that fails between the exchange and the write (`KeepTokens`) has used up the
  refresh token that is kept; so has one whose caller lost a race, and it reports a failure.
  An account without a site may be locked out in the same way by overlapping calls.
- Two Discord callbacks at once: the second writes the list it read before the first.
- `CodesOpenOnce` (`Sessions`): two requests with one code at once each open a session. A code also
  stays valid when its account changes its address; and `isVerified` is written and never read.
- A crash between the two statements of a session leaves a row no token opens. An access
  token lives on for its fifteen minutes after a logout: it names no session.

Of two events that name one new feature at once, the loser of the race for the name is
not linked to it: the detection catches the error. No text says otherwise.

## 5. The proofs

`tlapm` checks every theorem of the eight modules named `…Proofs`, for any constants that
satisfy the assumptions of the modules: any number of processes, intents, deliveries,
periods, executions, entries of a job, workers, pages, things, projects, accounts, sessions,
people, roles, organizations, installations, features or tokens, any amounts at cent precision.
They state every safety invariant that a passing run checks, and both refinements. Each module
has one lemma per action, or group of actions alike, that it keeps the inductive invariant; the
theorems follow from it. Where a property is about requests one after the other, the invariant
has two parts: what a request still knows of what it read whatever overlaps, and what it knows
while it is the only one.

**Credit store.** `StoreIInv` is `StoreTypeOK`, `SnapshotFresh` and `LedgerChain`. `LedgerChain`
alone is not inductive: the entry of a commit starts from the balance its transaction
read, and only `SnapshotFresh` makes that the balance of now when the versions are
equal. `SnapshotFresh` is kept because each commit increments the version, which no open
transaction has read yet. Lemmas about `RoundToCent` give the cents of the balance and its sign.
From `StoreIInv`:
`StoreTypeCorrect`, `SnapshotsAreFresh`, `LedgerIsChain`, and `StoreImplementsAccount`: a
commit is a `Record` step of `CreditLedger`, every other step stutters.

**Payments.** `PaymentsAreClients` shows that each action is one of `StoreNext` or leaves the
store alone; so the invariants of the store hold, and `PaymentsKeepAccount`
follows without looking at payments again. `PayIInv` adds to `StoreIInv`:

- the types (`PayTypeCorrect`);
- `InHand` and `EmittedHappened`: a request works only on an event that Stripe emitted, and
  a success event is emitted only for a payment that succeeded; hence `GrantsArePaid`
  (`GrantsFollowPayment`), since the status alone cannot be trusted;
- `RefundsHaveRows`: a refund request is about a payment that has a row, so that its commit
  does not make one;
- `AckedImpliesGranted` (`AcksMeanGrants`): the only 2xx answers to a success are after the commit,
  after finding the entry, or without a row; entries are never removed.

`GrantsAreFew` (`GrantsWithinOverlap`): the credits of a payment and the deliveries that found
none and have yet to commit are together never more than the deliveries; a commit moves one of
them from the second to the first, and once there is a credit no delivery finds none. With one
delivery at a time that leaves one credit, which is what the check of `payments.service.ts:186`
means to ensure (`GrantedOnceAlone`; with two it fails, section 4). `RefundsHaveCover`
(`RefundsAreBacked`): `BackedIInv` compares what the REFUND entries took back with what Stripe
gave back, less the refunds that have been given back and are not yet entered. The sum over
the ledger is a function of the length summed; that it grows by the last entry, and by nothing
else, is an induction on the length, done with a set of lengths and the well-foundedness of `<`.

**Subscriptions.** `SubscriptionsAreClients`, `SubscriptionsKeepAccount`: as for payments. `SubIInv`
adds to `StoreIInv` and `SubTypeOK` what makes `GrantsFollowRenewal` inductive (`GrantsFollow`):
nothing anywhere shows a period that Stripe has not reached, neither an event
(`EventsShown`), nor the row, which was written from one (`RowShown`), nor a handler; and a
handler that found the period changed has seen a renewal (`WorkShown`). The order of events
plays no part. It does in `PeriodsCreditedOnce` (`GrantsWithinRenewals`) and `RowFollows`
(`RowFollowsStripe`), which are about events in order: `InOrderInv` follows the one event in hand,
the first that is not acked (`OneInOrder`). Whatever is not acked is of Stripe's period
(`PeriodSettles`). Whatever contradicts Stripe, in an event, in a handler or in the row (`Behind`), is
older than an event that is not acked and will show what Stripe has now (`Shows`, `Later`): that
is `RowSettles`, with `EndSettles` for the last event. The requests to cancel are in no order with the
events: one that is overtaken leaves its flag, which `Behind` leaves out. And while the row is behind by
a period, or its handler is between the update and the grant, one grant is missing (`GrantsLeft`).

**LLM operations.** `ChargesImplementAccount` as above. `LlmIInv` has for each execution
`ChargedBy`, which ties its entry in the ledger to how far it has come and what it consumed,
and `CallsLeft`, that the calls it made and those it has yet to make are those of its
kind. From them `ChargedOnceForAll` (`ChargeIsConsumption`) and `AnswersArePaid`
(`AnswersAreCharged`).

**LLM jobs.** `CompletedMeansAnswered`: `CompletedIsAnswered` needs `AnswersAreStored` (a worker
that is about to write COMPLETED has stored the answer) and `AttemptsAreLeft` (who works, waits or
is stalled has an attempt left, so that no late hook ends a job that is still running).
`RowSaysOutcome` (`StatusIsOutcome`) is about the calm course: there is one entry
(`CalmQueue`), the row counts at least the attempts that BullMQ counts (`CalmRow`), and a hook
writes with attempts that are still those of the row (`CalmHooks`).

**Ingestion.** Every step is, for each worker, one of twelve things it may do (`Acts`), or leaves
it where it is while the listing changes (`Stays`); so each part of `IngestIInv` is proved of one
worker, whoever stepped, and the six providers differ only in what a page takes (`Page`).

- `IngestTypeCorrect`: the types, with what a worker holds at each place (`Placed`).
- `IngestsAreComplete` (`IngestIsComplete`): what was listed all the time was walked, or is still
  ahead of the cursor and there is a page to come (`CompI`). Jira's cursor is a place: the place
  of a thing (`Rank`) only grows as others are posted, and it falls when one leaves the listing,
  which is where the property makes its exception.
- `DoneIsWritten` (`DoneIsRecorded`): the rows a worker has written of each thing of its page, and
  of what it left behind (`RecI`). Nothing is walked twice, since a cursor leaves what was
  walked behind (`CursorI`), so nothing is written twice; and every row has a project and is
  processed, or has none, or is of a push with changed files (`ProcI`).
- `AttributionsFollow` (`AttributionFollowsMap`): `mapped`, the history of the maps, and the
  identities only grow, so an author settled early remains settled (`MapI`, `AttribI`).

**Sessions.** `SessIInv` is `SessTypeOK`, `SentCanRefresh` (`SessionsStayUsable`), and for
`CodesOpenTheirs` (`CodesOpenOwn`) three parts: the owner of a session is an account that was
made, a session that has expired had been sent, and a request about to drop one has seen it
expired (`OwnersKnown`); a code in a row, in a request or in a session belongs to that account
(`CodesKnown`); and, one request at a time, a code that opened a session is in no row and in no
request (`CodesSpent`). `SessionsImplementLogins`: each action is a step of `Logins` or a stutter;
a request answers only after it has seen the row unexpired, which is `Admit`; a session is open
from the moment its hash is written, and was never sent before (`SessTypeOK`).

**Membership.** A request writes on the strength of what it read before, so `MemIInv` says what
a request at each place still knows (`RequestsKnown`). Whatever overlaps: the invite it accepts
was for an address that who accepts it had when it was checked (`held`, which only grows, so it does
not matter that he changes it before the row is written), and nothing changes an invite's address; hence
every row but the owner's comes from an accepted invite to such an address (`RowsAreInvited`), which gives
`AccessNeedsInvite` (`AccessIsInvited`). And while requests do not overlap: what it looked for
and did not find (a row, a pending invite, a member with the role) is still not there, and
the rows a replacement deletes are all there are, and no two accounts have one address (`MailKnown`), nor
does one change hands under a request; hence `OneWayInOnly`, the second half of
`AcceptedIsJoined`, and `RolesAreKept`. The same facts with overlapping requests are false, and are
listed in section 4.

**Installations.** In the course where anything overlaps and fails (`FreeCourse`): the installation a row is linked to is one that an
account of its organization, or of one tied to it by such accounts, has called back for, and
so is that of the row an auto-connect has read, however old it is. That gives
`AccountsAreVouched` (`AccountIsVouched`), with ties through any number of organizations. In the calm
course (`CalmCourse`): a cached status is the one that would be built now, or the request in progress has
still to drop it. `WillDrop` says which entries a request at each step of the invalidation will
still drop; it is the heart of `StatusesAreFresh` (`StatusIsFresh`). That the invalidation of one account
reaches whoever the status was shown to needs that it is the only one the organization has, or
had: `CalmRow` says so of every account that is not `deserted`. `LinksAreInstalled`
(`LinkedIsInstalled`) needs that a request about to link has an installation whose deletion was
not told, `DefaultsAreReadable` (`DefaultIsReadable`) that the token a sync reads with is one of the
installation the row is linked to, unless the organization has moved (section 4).

**Integrations' configs.** `ConfigsAreKept` (`ConfigIsKept`): a token that was just given is accepted, in
no config that anybody has read, and in the hands of one request (`AskKnown`, `HeldApart`), so
that a refresh, which takes back the token of the config it read, never takes back one that is
about to be kept. The one write that puts an old token back, that of the site, is either
alone (calm) or does not happen (sound: each config with a token has a site). `IntTypeCorrect`
joins the types of both.

**Features.** `DetectorsAreAuthors` (`DetectedByAuthor`): a deleted feature is not found again under its
number, an event keeps its author, and links go only with the feature. So what a call knows
(`CallKnows`) stays true for as long as it can act on it, and a detector written late is still
the author of a linked event.

**Tasks.** `AssignmentsAreFew` (`AssignmentsWithinOverlap`): the active assignments and the requests
that have ended the old ones and not yet made their own are together never more than the
requests, or one. `CompletedIsDatedAlone` (`DatesFollowStatus`): a request that is alone writes by
the status there is (`AskKnowsAlone`, and `CallKnowsAlone` for a feature). `TrackTypeCorrect` has
the types of both.

Assumptions: those named `…Assumption` in the modules, all evaluated by TLC for the runs. Where
a theorem counts requests (deliveries, refunds, assignments), they are finitely many.

**Only model-checked**: liveness (`PaidIsGranted`, `EventsAreAcked`, `EndIsRecorded`, `JobEnds`,
`WorkersEnd`), as TLAPS proves no properties under fairness, and the counterexamples of section 4.
Induction over data is mostly out of the prover's reach, because the library's induction
theorems take an operator; sums and counts are proved here with sets and cardinalities instead.

## 6. Not modelled, and assumed

- The code runs in production mode (development mode skips Stripe and the charges).
- One organization: its account is one row, and nothing but Stripe and the
  providers is shared by two of them.
- PostgreSQL: Read Committed, unique and foreign keys as in `schema.prisma`; a statement
  with several rows is atomic. `Organization.creditLimit`, which no code sets, is a
  constant.
- Stripe: a payment intent succeeds once; `current_period_start` identifies a period; an
  event is redelivered unchanged. A period ends long after its subscription was created, and, where
  events come in order, after they were acked. The late invoice of a subscription that is over
  is not paid; one that is incomplete or over does not renew.
- `updateUserDetails` changes the address alone; an account that is deleted (`deleteUser`) is in
  `Sessions`, not among the members of an organization.
- Providers: a page is a consistent cut of the listing; cursors mean "after this one";
  newest first.
- A signature, a password and the text of a token are correct or the request ends there. A code
  is never issued twice (in production a code has six digits; in development all are 000000).
- GitHub gives an installation id once, and no token for an installation that is gone.
- Atlassian accepts a refresh token once, and answers it with the next one; a grant of an
  authorization code leaves earlier refresh tokens valid. An access token lives an hour.
- Redis keeps an entry for an hour at most.
- Profiles and projects: single-row updates that nothing else here reads.
- The gateways: `SocketGuard` does not run for `handleConnection` in NestJS, so
  `client.data.user` is unset there. `ChatGateway` then disconnects every client; `AppGateway`
  falls back to the `userId` of the query. Nothing reads the socket map or `isOnline`
  (`emitToUser` has no caller).
- `linkRawEventToTask`: one upsert. Who completed a task or a feature.
- Prompts, model choice, retrieval, texts, what listings are shown, file storage, analytics, health, e-mail.

## 7. Plan

Done: the account and all its clients, jobs, ingestion, membership, features and tasks,
integrations, sessions; the proofs of section 5. What is left:

1. Theorems that say of the statements of section 4 under which condition they do hold, as
   `GrantedOnceAlone` does: `RecordedOnce` without a repeated delivery, `OneRowPerMember`,
   `OnePendingInvite` and `PermissionsAreReplaced` for requests that do not overlap.
2. `Billing`: payments, a subscription and operations on one account in one behaviour,
   instead of `Others`.
3. An abstract specification of the queue that `LlmJobs` implements: an entry is tried until it
   succeeds or has no attempt left.
4. `Presence` and `Chat`, once something reads the one and reaches the other.

## 8. How to run it

```
tlc -workers 2 -config MCPayments.cfg MCPayments
tlapm PaymentsProofs.tla
```

`PROJECT.json` lists each run with its module, configuration and properties, maps each
definition to the lines it models, and names for each property the mutant that breaks it.
