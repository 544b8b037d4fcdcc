----------------------------- MODULE Ingestion ------------------------------
(***************************************************************************)
(* How what happens at a provider becomes RawEvent rows: the GitHub        *)
(* webhook handlers (src/modules/providers/github/github.service.ts) and   *)
(* the history ingests of Slack, Discord, Notion, Jira and Figma           *)
(* (src/modules/providers/<name>/<name>.service.ts), with the identities   *)
(* and contributor maps they attribute the rows with and the connections   *)
(* that say which projects get one.                                        *)
(*                                                                         *)
(* A behaviour is about one provider: nothing but the LLM is shared by two *)
(* of them.  A worker is one webhook delivery, or one ingest request.  The *)
(* things a provider has (commits, issues, messages, pages, comments) are  *)
(* numbered in the order in which they appeared there.                     *)
(***************************************************************************)
EXTENDS Naturals, Sequences, FiniteSets, SequencesExt

CONSTANTS
  Workers,       \* webhook deliveries, or ingest requests
  Integrations,  \* the provider's integrations, each of its own organization
  Projects,      \* projects
  Home,          \* the integration of the organization each project is of
  Authors,       \* the people of the provider
  AuthorOf,      \* who wrote each thing, or NoAuthor
  FilePushes,    \* the things that are, at GitHub, pushes whose head commit changed files
  Members,       \* members of the organizations
  NoAuthor, NoMember, Unassigned,
  Providers,     \* the providers a behaviour may be about
  Crew,          \* the workers that may work for each of them
  PageSize,      \* the page size of the provider's API
  MaxItem,       \* bound on the things that ever appear at a provider
  Things,        \* how many of them ever appear at each provider
  MaxRows,       \* bound on the IntegrationConnection rows of an integration, for
                 \* each provider
  MaxFailures    \* bound on the calls and statements that fail

Items == 1 .. MaxItem

ASSUME IngestionAssumption ==
  /\ PageSize \in Nat \ {0}
  /\ MaxItem \in Nat \ {0} /\ Things \in [Providers -> Items]
  /\ MaxRows \in [Providers -> Nat] /\ MaxFailures \in Nat
  /\ Home \in [Projects -> Integrations]
  /\ AuthorOf \in [Items -> Authors \cup {NoAuthor}]
  /\ FilePushes \subseteq Items
  /\ NoAuthor \notin Authors /\ NoMember \notin Members /\ Unassigned \notin Projects
  /\ Crew \in [Providers -> SUBSET Workers]
  /\ Providers \subseteq {"github", "slack", "discord", "notion", "jira", "figma"}

VARIABLES
  provider,     \* the provider
  posted,       \* how many things have appeared there
  listed,       \* those it still lists
  linked,       \* integrations that hold the id of the GitHub installation
  connections,  \* the IntegrationConnection rows of each integration
  identities,   \* Identity rows, as <<integration, author>>
  mapping,      \* the member of each identity in ContributorMap
  mapped,       \* every <<identity, member>> there has ever been in it (history)
  events,       \* the RawEvent rows each worker wrote, in order
  work,         \* where each worker is
  seen,         \* of each worker: what it walked and what it should have (history)
  failures      \* calls and statements that failed so far

tables == <<linked, connections, identities, mapping, mapped>>
ingestVars == <<provider, posted, listed, tables, events, work, seen, failures>>

Identities == Integrations \X Authors

\* The workers whose failed create ends the request; the others log it and go on.
Stops == {"github", "discord"}

Idle == [pc |-> "idle", integration |-> NoAuthor, rows |-> <<>>, page |-> <<>>,
         left |-> <<>>, position |-> 0, more |-> FALSE,
         author |-> NoAuthor, member |-> NoMember]

IngestInit ==
  /\ provider \in Providers
  /\ posted \in IF provider = "github" THEN {Things[provider]}
                ELSE 1 .. Things[provider]
  /\ listed = 1 .. posted
  /\ linked \in IF provider = "github" THEN (SUBSET Integrations) \ {{}} ELSE {{}}
  /\ connections = [n \in Integrations |-> <<>>]
  /\ identities = {}
  /\ mapping = [id \in Identities |-> NoMember] /\ mapped = {}
  /\ events = [w \in Workers |-> <<>>]
  /\ work = [w \in Workers |-> Idle]
  /\ seen = [w \in Workers |-> [steady |-> {}, shifted |-> FALSE,
                                walked |-> {}, connected |-> {}]]
  /\ failures = 0

Fails == failures < MaxFailures /\ failures' = failures + 1
Goes == UNCHANGED failures

-----------------------------------------------------------------------------
\* What goes on at the provider and in the rest of the API.  A GitHub webhook may
\* be about any thing at any time; a listing is only read by the ingests.

\* Something new: it comes first in every listing.
Post ==
  /\ provider # "github" /\ posted < Things[provider]
  /\ posted' = posted + 1 /\ listed' = listed \cup {posted'}
  /\ UNCHANGED <<provider, tables, events, work, seen, failures>>

\* Something is deleted, or leaves what the query of the ingest selects.
Unlist(i) ==
  /\ provider # "github" /\ i \in listed
  /\ listed' = listed \ {i}
  /\ seen' = [w \in Workers |->
                [seen[w] EXCEPT !.steady = @ \ {i},
                                !.shifted = @ \/ work[w].pc # "idle"]]
  /\ UNCHANGED <<provider, posted, tables, events, work, failures>>

\* linkIntegration: nothing stops a second row for the same project.
LinkIntegration(p) ==
  /\ Len(connections[Home[p]]) < MaxRows[provider]
  /\ connections' = [connections EXCEPT ![Home[p]] = Append(@, p)]
  /\ UNCHANGED <<provider, posted, listed, linked, identities, mapping, mapped,
                 events, work, seen, failures>>

SetMapping(id, m) ==
  /\ mapping' = [mapping EXCEPT ![id] = m]
  /\ mapped' = mapped \cup {<<id, m>>}
  /\ UNCHANGED <<provider, posted, listed, linked, connections, identities,
                 events, work, seen, failures>>

CreateContributorMap(id, m) ==
  id \in identities /\ mapping[id] = NoMember /\ SetMapping(id, m)

UpdateContributorMap(id, m) ==
  mapping[id] \notin {NoMember, m} /\ SetMapping(id, m)

DeleteContributorMap(id) ==
  /\ mapping[id] # NoMember
  /\ mapping' = [mapping EXCEPT ![id] = NoMember]
  /\ UNCHANGED <<provider, posted, listed, linked, connections, identities, mapped,
                 events, work, seen, failures>>

\* installation with action 'deleted': every integration that holds the id drops it.
Uninstall ==
  /\ linked # {}
  /\ linked' = {}
  /\ UNCHANGED <<provider, posted, listed, connections, identities, mapping, mapped,
                 events, work, seen, failures>>

\* handleInstallationCallback, or githubAutoConnect from another organization of the owner.
Connect(n) ==
  /\ provider = "github" /\ n \notin linked
  /\ linked' = linked \cup {n}
  /\ UNCHANGED <<provider, posted, listed, connections, identities, mapping, mapped,
                 events, work, seen, failures>>

-----------------------------------------------------------------------------
\* Where a worker goes from where it is.

Newest(s) == [k \in 1 .. Cardinality(s) |->
                CHOOSE i \in s : Cardinality({j \in s : j >= i}) = k]
FirstOf(s, n) == SubSeq(s, 1, IF n < Len(s) THEN n ELSE Len(s))

Ended(me) == [me EXCEPT !.pc = "done", !.page = <<>>, !.left = <<>>,
                        !.author = NoAuthor, !.member = NoMember]
Failed(me) == [Ended(me) EXCEPT !.pc = "failed"]

\* After a thing: the next of the page, the next page, or the end.
AfterItem(me) ==
  IF Len(me.page) > 1
  THEN [me EXCEPT !.pc = "finding", !.page = Tail(@), !.left = <<>>]
  ELSE IF me.more
  THEN [me EXCEPT !.pc = "fetching", !.page = <<>>, !.left = <<>>]
  ELSE Ended(me)

\* A mutant of AfterProject: the loop over the projects takes one too many.
OneProjectMore(me) ==
  IF Len(me.left) >= 1
  THEN [me EXCEPT !.pc = "writing", !.left = Tail(@)]
  ELSE AfterItem(me)

\* After a project: the next one of the same thing.
AfterProject(me) ==
  IF Len(me.left) > 1
  THEN [me EXCEPT !.pc = "writing", !.left = Tail(@)]
  ELSE AfterItem(me)

\* The author is settled: one row for every project.
ToProjects(me, author, member) ==
  LET attributed == [me EXCEPT !.author = author, !.member = member]
  IN IF me.rows = <<>> THEN AfterItem(attributed)
     ELSE [attributed EXCEPT !.pc = "writing", !.left = me.rows]

Move(w, me) ==
  /\ work' = [work EXCEPT ![w] = me]
  /\ UNCHANGED <<provider, posted, listed>>

-----------------------------------------------------------------------------
\* A GitHub delivery: push, pull_request or issues, about the thing i.  One thing
\* has many: each action on a pull request, and what a user redelivers.

Deliver(w, i) ==
  /\ provider = "github" /\ w \in Crew["github"] /\ work[w].pc = "idle"
  /\ i \in 1 .. posted
  /\ Move(w, [Idle EXCEPT !.pc = "storing", !.page = <<i>>])
  /\ UNCHANGED <<tables, events, seen, failures>>

\* handleWebhook first keeps the payload as a WebhookEvent row.
StoreWebhook(w) ==
  /\ work[w].pc = "storing"
  /\ \/ Goes /\ Move(w, [work[w] EXCEPT !.pc = "looking"])
     \/ Fails /\ Move(w, Failed(work[w]))
  /\ UNCHANGED <<tables, events, seen>>

\* The integration that holds the installation id (findFirst: any one of them) and
\* its connections; an unassigned row is written when it has none.
LookUp(w) ==
  /\ work[w].pc = "looking"
  /\ \/ /\ Goes /\ linked = {}
        /\ Move(w, Ended(work[w])) /\ UNCHANGED seen
     \/ /\ Goes
        /\ \E n \in linked :
             Move(w, [work[w] EXCEPT !.pc = "finding", !.integration = n,
                        !.rows = IF connections[n] = <<>> THEN <<Unassigned>>
                                 ELSE connections[n]])
        /\ seen' = [seen EXCEPT ![w].walked = ToSet(work[w].page),
                      ![w].connected = UNION {ToSet(connections[n]) : n \in linked}]
     \/ /\ Fails
        /\ Move(w, Failed(work[w])) /\ UNCHANGED seen
  /\ UNCHANGED <<tables, events>>

-----------------------------------------------------------------------------
\* An ingest of the history of the integration n.

\* The projects of Slack and Discord: of the connections, all or those of the
\* project the request names, which comes as often as it is connected; with none of
\* these, the project it names.
RowsFor(n, asked) ==
  LET times == Cardinality({k \in DOMAIN connections[n] : connections[n][k] = asked})
  IN IF asked = Unassigned THEN connections[n]
     ELSE [k \in 1 .. (IF times = 0 THEN 1 ELSE times) |-> asked]

\* Newer than all: the position of a cursor before the first page.
Newer == MaxItem + 1

Begin(w, n) ==
  /\ provider # "github" /\ w \in Crew[provider] /\ work[w].pc = "idle"
  /\ \E asked \in {Unassigned} \cup {p \in Projects : Home[p] = n} :
       LET rows == CASE provider \in {"slack", "discord"} -> RowsFor(n, asked)
                     [] OTHER -> <<>>
       IN Move(w, [Idle EXCEPT !.pc = "fetching", !.integration = n, !.rows = rows,
                     !.position = IF provider = "jira" THEN 0 ELSE Newer])
  /\ seen' = [seen EXCEPT ![w].steady = listed, ![w].shifted = FALSE]
  /\ UNCHANGED <<tables, events, failures>>

\* A page has come; rows are the connections in use for it.
Receive(w, page, rows, position, more) ==
  LET me == [work[w] EXCEPT !.page = page, !.rows = rows,
                            !.position = position, !.more = more]
  IN /\ Goes
     /\ Move(w, IF page = <<>> THEN Ended(me) ELSE [me EXCEPT !.pc = "finding"])
     /\ seen' = [seen EXCEPT ![w].walked = @ \cup ToSet(page),
                             ![w].connected = @ \cup ToSet(rows)]

\* The things before the cursor, newest first: a page of them, and whether that
\* leaves any.
Older(w) == {i \in listed : i < work[w].position}
CursorPage(w) == FirstOf(Newest(Older(w)), PageSize)
\* A mutant of NextCursor: the cursor is not moved.
SameCursor(w) == work[w].position

NextCursor(w) == IF Older(w) = {} THEN work[w].position ELSE Last(CursorPage(w))
\* A mutant of Leaves: a last page of one thing is not asked for.
LeavesMore(w) == Cardinality(Older(w)) > PageSize + 1

Leaves(w) == Cardinality(Older(w)) > PageSize

\* next_cursor is absent after the last page.
SlackPage(w) ==
  provider = "slack" /\ Receive(w, CursorPage(w), work[w].rows, NextCursor(w), Leaves(w))

\* before: the id of the last message; the loop ends with an empty page.
DiscordPage(w) ==
  provider = "discord" /\ Receive(w, CursorPage(w), work[w].rows, NextCursor(w), TRUE)

\* has_more and next_cursor; the connections are read again for each page.
NotionPage(w) ==
  /\ provider = "notion"
  /\ Receive(w, CursorPage(w), connections[work[w].integration], NextCursor(w), Leaves(w))

\* startAt counts from the newest; a short page is the last one.  The connections
\* are read again for each page.
JiraPage(w) ==
  /\ provider = "jira"
  /\ LET from == work[w].position
         page == SubSeq(Newest(listed), from + 1,
                        IF from + PageSize < Cardinality(listed)
                        THEN from + PageSize ELSE Cardinality(listed))
     IN Receive(w, page, connections[work[w].integration], from + PageSize,
                Len(page) >= PageSize)

\* Comments and versions come in one answer, before the connections are read.
FigmaPage(w) ==
  /\ provider = "figma"
  /\ Receive(w, Newest(listed), connections[work[w].integration], Newer, FALSE)

Fetch(w) ==
  /\ work[w].pc = "fetching"
  /\ \/ SlackPage(w) \/ DiscordPage(w) \/ NotionPage(w) \/ JiraPage(w) \/ FigmaPage(w)
     \/ Fails /\ Move(w, Failed(work[w])) /\ UNCHANGED seen
  /\ UNCHANGED <<tables, events>>

-----------------------------------------------------------------------------
\* The author of the first thing of the page: resolveAuthorIdentity.  Whatever
\* fails in it, the row is written without identity and member.

Author(w) == AuthorOf[Head(work[w].page)]
Identity(w) == <<work[w].integration, Author(w)>>
\* A mutant of Unattributed: the member of the thing before is left in place.
AttributedAsBefore(w) == ToProjects(work[w], NoAuthor, work[w].member)

Unattributed(w) == ToProjects(work[w], NoAuthor, NoMember)

\* A mutant of FindIdentity: an identity that is not found is not created.
FindIdentityOnly(w) ==
  /\ work[w].pc = "finding"
  /\ \/ Goes /\ Author(w) # NoAuthor /\ Identity(w) \in identities
             /\ Move(w, [work[w] EXCEPT !.pc = "mapping"])
     \/ Goes /\ ~ (Author(w) # NoAuthor /\ Identity(w) \in identities)
             /\ Move(w, Unattributed(w))
  /\ UNCHANGED <<tables, events, seen>>

FindIdentity(w) ==
  /\ work[w].pc = "finding"
  /\ \/ Goes /\ Author(w) = NoAuthor /\ Move(w, Unattributed(w))
     \/ Goes /\ Author(w) # NoAuthor /\ Identity(w) \in identities
             /\ Move(w, [work[w] EXCEPT !.pc = "mapping"])
     \/ Goes /\ Author(w) # NoAuthor /\ Identity(w) \notin identities
             /\ Move(w, [work[w] EXCEPT !.pc = "creating"])
     \/ Fails /\ Author(w) # NoAuthor /\ Move(w, Unattributed(w))
  /\ UNCHANGED <<tables, events, seen>>

\* (organization, provider, user) is unique: a worker that found no identity and
\* creates it after another did gets an error.
CreateIdentity(w) ==
  /\ work[w].pc = "creating"
  /\ \/ /\ Goes /\ Identity(w) \notin identities
        /\ identities' = identities \cup {Identity(w)}
        /\ Move(w, [work[w] EXCEPT !.pc = "mapping"])
     \/ /\ Goes /\ Identity(w) \in identities
        /\ Move(w, Unattributed(w)) /\ UNCHANGED identities
     \/ /\ Fails
        /\ Move(w, Unattributed(w)) /\ UNCHANGED identities
  /\ UNCHANGED <<linked, connections, mapping, mapped, events, seen>>

ReadMapping(w) ==
  /\ work[w].pc = "mapping"
  /\ \/ Goes /\ Move(w, ToProjects(work[w], Author(w), mapping[Identity(w)]))
     \/ Fails /\ Move(w, Unattributed(w))
  /\ UNCHANGED <<tables, events, seen>>

-----------------------------------------------------------------------------
\* One row for every project.

NewEvent(w) ==
  [item |-> Head(work[w].page), project |-> Head(work[w].left),
   author |-> work[w].author, member |-> work[w].member, processedByLLM |-> FALSE]

\* A mutant of WriteEvent: a row that cannot be written is passed over everywhere.
WriteEventOrSkip(w) ==
  /\ work[w].pc = "writing"
  /\ \/ /\ Goes
        /\ events' = [events EXCEPT ![w] = Append(@, NewEvent(w))]
        /\ Move(w, IF Head(work[w].left) = Unassigned THEN AfterProject(work[w])
                   ELSE [work[w] EXCEPT !.pc = "processing"])
     \/ /\ Fails
        /\ Move(w, AfterProject(work[w]))
        /\ UNCHANGED events
  /\ UNCHANGED <<tables, seen>>

\* rawEvent.create, and where its failure leads.  A row with a project is processed
\* before the next one is written.
WriteEvent(w) ==
  /\ work[w].pc = "writing"
  /\ \/ /\ Goes
        /\ events' = [events EXCEPT ![w] = Append(@, NewEvent(w))]
        /\ Move(w, IF Head(work[w].left) = Unassigned THEN AfterProject(work[w])
                   ELSE [work[w] EXCEPT !.pc = "processing"])
     \/ /\ Fails
        /\ Move(w, IF provider \in Stops THEN Failed(work[w]) ELSE AfterProject(work[w]))
        /\ UNCHANGED events
  /\ UNCHANGED <<tables, seen>>

\* A mutant of ProcessEvent: the id of the first row is kept.
ProcessFirst(w) ==
  /\ work[w].pc = "processing"
  /\ \/ Goes /\ events' = [events EXCEPT ![w][1].processedByLLM = TRUE]
     \/ Fails /\ UNCHANGED events
  /\ Move(w, AfterProject(work[w]))
  /\ UNCHANGED <<tables, seen>>

\* commit() stores the number of changed files where summarizeCodeChange expects the
\* list of them, and has .map called on it; only 0 is taken for no list.
NotSummarizable(i) == provider = "github" /\ i \in FilePushes

\* processRawEvent, awaited; its error is logged.  It sets processedByLLM last but
\* for the detection of features, whose errors it keeps to itself.  It fails with a
\* call, for want of credits, and whenever the row cannot be summarized.
ProcessEvent(w) ==
  /\ work[w].pc = "processing"
  /\ \/ /\ Goes /\ ~NotSummarizable(Head(work[w].page))
        /\ events' = [events EXCEPT ![w][Len(events[w])].processedByLLM = TRUE]
     \/ /\ Goes /\ NotSummarizable(Head(work[w].page))
        /\ UNCHANGED events
     \/ /\ Fails
        /\ UNCHANGED events
  /\ Move(w, AfterProject(work[w]))
  /\ UNCHANGED <<tables, seen>>

\* The process dies: what its workers had not done is not done, and nobody answers.
ProcessDies ==
  /\ \E w \in Workers : work[w].pc \notin {"idle", "done", "failed"}
  /\ Fails
  /\ work' = [w \in Workers |-> IF work[w].pc \in {"idle", "done"} THEN work[w]
                                ELSE Failed(work[w])]
  /\ UNCHANGED <<provider, posted, listed, tables, events, seen>>

Worker(w) ==
  \/ StoreWebhook(w) \/ LookUp(w) \/ Fetch(w)
  \/ FindIdentity(w) \/ CreateIdentity(w) \/ ReadMapping(w)
  \/ WriteEvent(w) \/ ProcessEvent(w)

Surroundings ==
  \/ Post \/ Uninstall
  \/ \E i \in listed : Unlist(i)
  \/ \E p \in Projects : LinkIntegration(p)
  \/ \E n \in Integrations : Connect(n)
  \/ \E id \in Identities :
       \/ DeleteContributorMap(id)
       \/ \E m \in Members : CreateContributorMap(id, m) \/ UpdateContributorMap(id, m)

IngestNext ==
  \/ Surroundings \/ ProcessDies
  \/ \E w \in Workers :
       \/ Worker(w)
       \/ \E i \in Items : Deliver(w, i)
       \/ \E n \in Integrations : Begin(w, n)

IngestSpec == IngestInit /\ [][IngestNext]_ingestVars

\* Node runs each continuation, and every call it awaits ends in the end.
IngestFairSpec == IngestSpec /\ \A w \in Workers : WF_ingestVars(Worker(w))

-----------------------------------------------------------------------------
\* Properties.

EventType == [item : Items, project : Projects \cup {Unassigned},
              author : Authors \cup {NoAuthor}, member : Members \cup {NoMember},
              processedByLLM : BOOLEAN]

WorkerStates == {"idle", "storing", "looking", "fetching", "finding", "creating",
                 "mapping", "writing", "processing", "done", "failed"}

IngestTypeOK ==
  /\ provider \in Providers /\ posted \in Items /\ listed \subseteq 1 .. posted
  /\ linked \subseteq Integrations /\ identities \subseteq Identities
  /\ connections \in [Integrations -> Seq(Projects)]
  /\ mapping \in [Identities -> Members \cup {NoMember}]
  /\ mapped \subseteq Identities \X Members
  /\ events \in [Workers -> Seq(EventType)]
  /\ \A w \in Workers :
       /\ work[w].pc \in WorkerStates
       /\ work[w].page \in Seq(Items)
       /\ work[w].rows \in Seq(Projects \cup {Unassigned})
       /\ work[w].left \in Seq(Projects \cup {Unassigned})
       /\ (work[w].pc \in {"finding", "creating", "mapping", "writing", "processing"})
            => work[w].page # <<>>
       /\ (work[w].pc \in {"writing", "processing"}) => work[w].left # <<>>
  /\ failures \in 0 .. MaxFailures

Begun(w) == work[w].pc # "idle"
Over(w) == work[w].pc \in {"done", "failed"}

\* An ingest that ends well has walked everything that was listed from its beginning
\* to its end: no page boundary loses a thing while new ones arrive or others go.
\* Jira's startAt counts places, so there only new things may arrive meanwhile.
IngestIsComplete ==
  \A w \in Workers :
    work[w].pc = "done" /\ provider # "github"
      => seen[w].steady \subseteq seen[w].walked \/ (provider = "jira" /\ seen[w].shifted)

Recorded(w, i, p) == Cardinality({k \in DOMAIN events[w] :
                                   events[w][k].item = i /\ events[w][k].project = p})

\* A delivery answered with 200, or a Discord ingest that answers, has written for
\* each thing exactly one row per connection it found, however many calls failed on
\* the way and whatever the other workers did; so has a Slack or Figma ingest when
\* nothing failed, since a row that cannot be written is only logged there.  When no call
\* failed, exactly the rows that have a project have been processed too, those of pushes
\* with changed files excepted: these never are.
DoneIsRecorded ==
  \A w \in Workers : work[w].pc = "done" =>
    /\ provider \notin {"notion", "jira"} /\ (provider \in Stops \/ failures = 0)
         => \A i \in seen[w].walked : \A p \in ToSet(work[w].rows) :
              Recorded(w, i, p) = Cardinality({k \in DOMAIN work[w].rows : work[w].rows[k] = p})
    /\ failures = 0
         => \A k \in DOMAIN events[w] :
              events[w][k].processedByLLM <=>
                events[w][k].project # Unassigned /\ ~NotSummarizable(events[w][k].item)

\* Attribution follows the map.  A row without its author's identity was written after
\* a failure, or lost the race for the identity to a worker that made it, which is there
\* to be mapped; and a row is credited to a member only if its own author was mapped to
\* that member in the organization of the integration, also when one ingest walks several
\* authors and maps change meanwhile.
AttributionFollowsMap ==
  \A w \in Workers : \A k \in DOMAIN events[w] :
    LET e == events[w][k]
        known == <<work[w].integration, AuthorOf[e.item]>>
    IN /\ e.author # AuthorOf[e.item]
            => e.author = NoAuthor /\ (failures > 0 \/ known \in identities)
       /\ e.member # NoMember => <<known, e.member>> \in mapped

\* Every delivery and every ingest comes to an end, however many things appear while
\* it runs: the loops over pages are left.
WorkersEnd == \A w \in Workers : Begun(w) ~> Over(w)

-----------------------------------------------------------------------------
\* What the source says of itself and the code does not keep.

\* "Create RawEvent for each connected project (or one if no connections)"
\* (github.service.ts:800): githubAutoConnect lets several organizations hold one
\* installation, and the handlers look at the connections of one of them.
EachConnectedProjectHears ==
  \A w \in Workers :
    work[w].pc = "done" /\ provider = "github"
      => \A p \in seen[w].connected : \E k \in DOMAIN events[w] : events[w][k].project = p

\* "Queue LLM processing if project exists" (github.service.ts:828), "Route based on
\* event type" (llm.service.ts:446): when no call failed, every row of a project has been
\* processed when its delivery is answered.
ProjectRowsAreProcessed ==
  \A w \in Workers : work[w].pc = "done" /\ failures = 0 =>
    \A k \in DOMAIN events[w] :
      events[w][k].processedByLLM <=> events[w][k].project # Unassigned

\* An ingest of Jira walks what is listed throughout, also when things leave the
\* listing while it runs.
JiraIsComplete ==
  \A w \in Workers :
    work[w].pc = "done" /\ provider = "jira" => seen[w].steady \subseteq seen[w].walked

\* One thing makes one row per project: RawEvent has no unique key, a delivery that
\* comes again writes its rows again, and so does an ingest that is repeated.
RecordedOnce ==
  \A i \in Items : \A p \in Projects :
    Cardinality({q \in Workers \X (1 .. MaxItem * MaxRows[provider]) :
      /\ q[2] \in DOMAIN events[q[1]]
      /\ events[q[1]][q[2]].item = i /\ events[q[1]][q[2]].project = p}) <= 1
=============================================================================
