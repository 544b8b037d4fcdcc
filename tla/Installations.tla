--------------------------- MODULE Installations ---------------------------
(***************************************************************************)
(* The GitHub integrations of the organizations of one owner: the callback *)
(* of an installation and of an authorization, the installation webhooks,  *)
(* the tokens of an installation and what is read with them                *)
(* (src/modules/providers/github/github.service.ts), the connection of one *)
(* organization with the installation of another, and the status the       *)
(* organizations are shown, which is cached for an hour                    *)
(* (src/modules/organizations/organizations.service.ts).                   *)
(*                                                                         *)
(* An installation id is never given twice: who uninstalls the app and     *)
(* installs it again has a new one.  Each await of a handler ends a step.  *)
(***************************************************************************)
EXTENDS Naturals, Sequences, FiniteSets, SequencesExt

CONSTANTS
  Orgs,         \* organizations, made with GitHub among their apps
  Slugs,        \* what an organization can be called
  GithubUsers,  \* accounts that authorize the app
  Installs,     \* installation ids
  ReposOf,      \* the repositories of each, last pushed first
  Requests,     \* requests that can be in progress at once
  NoUser, NoInstall, NoEntry, NoRepo

Repos == UNION {ToSet(ReposOf[i]) : i \in Installs}

ASSUME InstallationsAssumption ==
  /\ Orgs # {} /\ NoInstall \notin Installs /\ NoUser \notin GithubUsers
  /\ Cardinality(Orgs) <= Cardinality(Slugs) /\ IsFiniteSet(Slugs)
  /\ \A i \in Installs : /\ ReposOf[i] \in Seq(Repos) /\ IsInjective(ReposOf[i])
                         /\ ReposOf[i] # <<>> /\ NoRepo \notin ToSet(ReposOf[i])

VARIABLES
  slug,        \* the slug of each organization
  users,       \* its GitHub Provider rows
  row,         \* its GitHub Integration row
  cache,       \* the cached status, by slug
  resources,   \* the repositories in its IntegrationResource rows, last updated last
  phase,       \* what has become of each installation at GitHub
  told,        \* installations whose deletion the API has handled (history)
  vouched,     \* <<organization, installation>> of every callback, and
  authorized,  \* the accounts that ever authorized in each organization, in a free
               \* course (history)
  deserted,    \* the accounts an organization had when it got another one, in a calm
               \* course (history)
  moved,       \* linked to an installation while linked to another, and
  synced,      \* a sync ended since it was last linked, in a calm course (history)
  call,        \* where each request is
  course       \* "calm": one request after the other, and none fails; see the guards.
               \* "free": any number of them, and any may fail

rows == <<slug, users, row, resources>>
trace == <<told, vouched, authorized, deserted, moved, synced>>
instVars == <<rows, cache, phase, trace, call, course>>

Idle == [op |-> "none"]
NoToken == [of |-> NoInstall, fresh |-> FALSE]
Unlinked == [status |-> "NOT_CONNECTED", account |-> NoInstall, token |-> NoToken]

InstInit ==
  /\ slug \in {f \in [Orgs -> Slugs] : \A o, p \in Orgs : f[o] = f[p] => o = p}
  /\ users = [o \in Orgs |-> {}]
  /\ row = [o \in Orgs |-> Unlinked]
  /\ cache = [s \in Slugs |-> NoEntry]
  /\ resources = [o \in Orgs |-> <<>>]
  /\ phase = [i \in Installs |-> "new"]
  /\ told = {} /\ vouched = {} /\ authorized = [o \in Orgs |-> {}]
  /\ deserted = {}
  /\ moved = [o \in Orgs |-> FALSE] /\ synced = [o \in Orgs |-> FALSE]
  /\ call = [q \in Requests |-> Idle]
  /\ course \in {"calm", "free"}

Linked(i) == {o \in Orgs : row[o].account = i}
Sharing(g) == {o \in Orgs : g \in users[o]}
AllIdle == \A q \in Requests : call[q] = Idle

To(q, next) == call' = [call EXCEPT ![q] = next]
Begin(q, next) ==
  /\ call[q] = Idle /\ (course = "calm" => AllIdle)
  /\ To(q, next)
  /\ UNCHANGED <<rows, cache, phase, trace, course>>
\* A step that only reads.
Reads == UNCHANGED <<rows, cache, phase, trace, course>>

\* A call or a statement fails, or the process dies.
Abandon(q) ==
  course = "free" /\ call[q] # Idle /\ To(q, Idle) /\ Reads

-----------------------------------------------------------------------------
\* What happens at GitHub, and as time passes.

Install(i) ==
  /\ phase[i] = "new"
  /\ phase' = [phase EXCEPT ![i] = "installed"]
  /\ UNCHANGED <<rows, cache, trace, call, course>>

Uninstall(i) ==
  /\ phase[i] = "installed"
  /\ phase' = [phase EXCEPT ![i] = "gone"]
  /\ UNCHANGED <<rows, cache, trace, call, course>>

\* Less than a minute of an hour is left.
TokenAges(o) ==
  /\ row[o].token.fresh
  /\ row' = [row EXCEPT ![o].token.fresh = FALSE]
  /\ UNCHANGED <<slug, users, resources, cache, phase, trace, call, course>>

EntryExpires(s) ==
  /\ cache[s] # NoEntry
  /\ cache' = [cache EXCEPT ![s] = NoEntry]
  /\ UNCHANGED <<rows, phase, trace, call, course>>

-----------------------------------------------------------------------------
\* Invalidation of the cached status of organizations, one after the other; the
\* handler runs them together, and they do not read what another writes.

Invalidate(todo) == IF todo = {} THEN Idle ELSE [op |-> "invalidate", todo |-> todo]
SlugOnly(o, todo) == [op |-> "find slug", org |-> o, todo |-> todo]
Drop(slugs, todo) == [op |-> "drop", slugs |-> slugs, todo |-> todo]

\* The GitHub account of the organization; without one, and when the read fails, its
\* own entry is all there is to drop.
FindIdentity(q) ==
  /\ call[q].op = "invalidate"
  /\ \E o \in call[q].todo :
       LET todo == call[q].todo \ {o}
       IN \/ users[o] = {} /\ To(q, SlugOnly(o, todo))
          \/ course = "free" /\ To(q, SlugOnly(o, todo))
          \/ \E g \in users[o] :
               To(q, [op |-> "find peers", org |-> o, user |-> g, todo |-> todo])
  /\ Reads

\* A mutant of PeerSlugs: the organization's own slug only.
OwnSlug(o, g) == {slug[o]}

PeerSlugs(o, g) == {slug[p] : p \in Sharing(g)}

\* Every organization of the same account: each may be offered the other's installation.
FindPeers(q) ==
  /\ call[q].op = "find peers"
  /\ LET c == call[q]
         slugs == PeerSlugs(c.org, c.user)
     IN \/ slugs # {} /\ To(q, Drop(slugs, c.todo))
        \/ (slugs = {} \/ course = "free") /\ To(q, SlugOnly(c.org, c.todo))
  /\ Reads

FindSlug(q) ==
  /\ call[q].op = "find slug"
  /\ To(q, Drop({slug[call[q].org]}, call[q].todo))
  /\ Reads

\* redis.del, which keeps its errors to itself.
DropEntries(q) ==
  /\ call[q].op = "drop"
  /\ \/ cache' = [s \in Slugs |-> IF s \in call[q].slugs THEN NoEntry ELSE cache[s]]
     \/ course = "free" /\ UNCHANGED cache
  /\ To(q, Invalidate(call[q].todo))
  /\ UNCHANGED <<rows, phase, trace, course>>

-----------------------------------------------------------------------------
\* Callbacks.

\* Within ten minutes of getInstallUrl.  In a calm course the app is still installed,
\* as far as the API has heard.
InstallationCallback(q, o, i) ==
  /\ phase[i] # "new" /\ (course = "calm" => i \notin told)
  /\ Begin(q, [op |-> "link", org |-> o, install |-> i])

\* integration.updateMany: the config, and the token in it, stays.
Link(q) ==
  /\ call[q].op = "link"
  /\ LET o == call[q].org
         i == call[q].install
     IN /\ row' = [row EXCEPT ![o].status = "CONNECTED", ![o].account = i]
        /\ moved' = [moved EXCEPT ![o] =
                       @ \/ (course = "calm" /\ row[o].account \notin {NoInstall, i})]
        /\ synced' = [synced EXCEPT ![o] = FALSE]
        /\ vouched' = vouched \cup {e \in {<<o, i>>} : course = "free"}
        /\ To(q, Invalidate({o}))
  /\ UNCHANGED <<slug, users, resources, cache, phase, told, authorized, deserted, course>>

\* getOAuthUrl refuses an organization that has an account, unless forced, and the
\* callback comes within ten minutes: the organization may have got one since.  Either way
\* it is any account, the one it has or another.
OAuthCallback(q, o, g, replace) ==
  Begin(q, [op |-> IF replace THEN "replace" ELSE "authorize", org |-> o, user |-> g])

\* In a calm course.
Desert(set) == deserted' = deserted \cup {g \in set : course = "calm"}

\* provider.deleteMany.
DeleteProviders(q) ==
  /\ call[q].op = "replace"
  /\ LET o == call[q].org
     IN users' = [users EXCEPT ![o] = {}] /\ Desert(users[o] \ {call[q].user})
  /\ To(q, [call[q] EXCEPT !.op = "authorize"])
  /\ UNCHANGED <<slug, row, resources, cache, phase, told, vouched, authorized, moved, synced,
                 course>>

\* provider.upsert.
UpsertProvider(q) ==
  /\ call[q].op = "authorize"
  /\ LET o == call[q].org
         all == users[o] \cup {call[q].user}
     IN /\ users' = [users EXCEPT ![o] = all]
        /\ authorized' = [authorized EXCEPT ![o] =
                           @ \cup {g \in {call[q].user} : course = "free"}]
        /\ Desert(IF all = {call[q].user} THEN {} ELSE all)
        /\ To(q, Invalidate({o}))
  /\ UNCHANGED <<slug, row, resources, cache, phase, told, vouched, moved, synced, course>>

-----------------------------------------------------------------------------
\* Webhooks about an installation, at any time after what they are about, again or never.

\* installation_repositories: any one of the organizations that are linked.
ReposChanged(q, i) ==
  \E o \in Linked(i) : Begin(q, SlugOnly(o, {}))

\* installation, created: the organizations that are linked are connected.
Created(q, i) ==
  /\ phase[i] # "new" /\ Linked(i) # {}
  /\ Begin(q, [op |-> "mark", install |-> i, todo |-> Linked(i)])

MarkConnected(q) ==
  /\ call[q].op = "mark"
  /\ row' = [o \in Orgs |-> IF o \in Linked(call[q].install)
                            THEN [row[o] EXCEPT !.status = "CONNECTED"] ELSE row[o]]
  /\ To(q, Invalidate(call[q].todo))
  /\ UNCHANGED <<slug, users, resources, cache, phase, trace, course>>

\* installation, deleted.
Deleted(q, i) ==
  /\ phase[i] = "gone"
  /\ Begin(q, [op |-> "unlink", install |-> i, todo |-> Linked(i)])

\* A mutant of Unlink: one of the organizations is unlinked.
UnlinkFirst(q) ==
  /\ call[q].op = "unlink"
  /\ LET i == call[q].install
         first == IF Linked(i) = {} THEN {} ELSE {CHOOSE o \in Linked(i) : TRUE}
     IN /\ row' = [o \in Orgs |-> IF o \in first THEN Unlinked ELSE row[o]]
        /\ told' = told \cup {i}
  /\ To(q, Invalidate(call[q].todo))
  /\ UNCHANGED <<slug, users, resources, cache, phase, vouched, authorized, deserted,
                 moved, synced, course>>

\* integration.updateMany: also what was linked since they were listed.
Unlink(q) ==
  /\ call[q].op = "unlink"
  /\ LET i == call[q].install
         Keeps(f) == [o \in Orgs |-> o \notin Linked(i) /\ f[o]]
     IN /\ row' = [o \in Orgs |-> IF o \in Linked(i) THEN Unlinked ELSE row[o]]
        /\ moved' = Keeps(moved) /\ synced' = Keeps(synced)
        /\ told' = told \cup {i}
  /\ To(q, Invalidate(call[q].todo))
  /\ UNCHANGED <<slug, users, resources, cache, phase, vouched, authorized, deserted, course>>

-----------------------------------------------------------------------------
\* githubAutoConnect: with the installation of another organization.  Both are read at once.

Unread == [users |-> {}, row |-> Unlinked, known |-> FALSE]
Copy(o) == [users |-> users[o], row |-> row[o], known |-> TRUE]

AutoConnect(q, o, from) ==
  Begin(q, [op |-> "compare", org |-> o, from |-> from, dest |-> Unread, src |-> Unread])

ReadOne(q) ==
  /\ call[q].op = "compare"
  /\ \/ ~call[q].dest.known
        /\ To(q, [call[q] EXCEPT !.dest = Copy(call[q].org)])
     \/ ~call[q].src.known
        /\ To(q, [call[q] EXCEPT !.src = Copy(call[q].from)])
  /\ Reads

\* A mutant of SameIdentity: it is enough that both have an account.
BothHaveOne(g, h) == TRUE

\* 'GitHub OAuth identity must match'.
SameIdentity(g, h) == g = h

\* A mutant of Adopted: the config is left as it is.
AdoptedWithToken(old, src) == [src EXCEPT !.token = old.token]

\* Without the token, which is of another installation.
Adopted(old, src) == [src EXCEPT !.token = NoToken]

\* 'Source org GitHub app is not installed' and the other refusals, or the update.
Connect(q) ==
  /\ call[q].op = "compare" /\ call[q].dest.known /\ call[q].src.known
  /\ LET c == call[q]
         installed == c.src.row.status = "CONNECTED" /\ c.src.row.account # NoInstall
         Fits(g, h) == SameIdentity(g, h) /\ installed
     IN \/ \E g \in c.dest.users, h \in c.src.users :
             /\ Fits(g, h)
             /\ row' = [row EXCEPT ![c.org] = Adopted(@, c.src.row)]
             /\ moved' = [moved EXCEPT ![c.org] = FALSE]
             /\ synced' = [synced EXCEPT ![c.org] = FALSE]
             /\ To(q, [op |-> "find keys", user |-> g])
        \/ /\ c.dest.users = {} \/ c.src.users = {}
              \/ \E g \in c.dest.users, h \in c.src.users : ~Fits(g, h)
           /\ To(q, Idle) /\ UNCHANGED <<row, moved, synced>>
  /\ UNCHANGED <<slug, users, resources, cache, phase, told, vouched, authorized, deserted,
                 course>>

FindKeys(q) ==
  /\ call[q].op = "find keys"
  /\ LET slugs == {slug[p] : p \in Sharing(call[q].user)}
     IN To(q, IF slugs = {} THEN Idle ELSE Drop(slugs, {}))
  /\ Reads

\* updateOrg: the slug is unique.  The entry under the old slug stays.
Rename(o, s) ==
  /\ course = "free" /\ \A p \in Orgs : slug[p] # s
  /\ slug' = [slug EXCEPT ![o] = s]
  /\ UNCHANGED <<users, row, resources, cache, phase, trace, call, course>>

-----------------------------------------------------------------------------
\* The status shown: buildIntegrationStatusEntries, less the config, the names and
\* what is derived from the rest.

Candidates(o, g) ==
  {p \in Sharing(g) \ {o} : row[p].status = "CONNECTED" /\ row[p].account # NoInstall}

\* r and g: the row and the account that were read with the organization.
Entry(o, r, g) ==
  [status |-> r.status, account |-> r.account, user |-> g,
   candidates |->
     IF g # NoUser /\ r.status = "NOT_CONNECTED" /\ r.account = NoInstall
     THEN {<<p, row[p].account>> : p \in Candidates(o, g)} ELSE {}]

\* One of the accounts: the first row the database returns.
OneOf(set) == IF set = {} THEN {NoUser} ELSE set
Found(op, o) ==
  {[op |-> op, slug |-> slug[o], org |-> o, row |-> row[o], user |-> g] : g \in OneOf(users[o])}

\* integrationStatus: the entry under the slug, or else the organization.
IntegrationStatus(q, s) ==
  cache[s] = NoEntry /\ Begin(q, [op |-> "read org", slug |-> s])

ReadOrg(q) ==
  /\ call[q].op = "read org"
  /\ \/ \E o \in Orgs : /\ slug[o] = call[q].slug
                        /\ \E next \in Found("build", o) : To(q, next)
     \/ (\A o \in Orgs : slug[o] # call[q].slug) /\ To(q, Idle)
  /\ Reads

\* listIntegrationsByOrgId: the organization, and then the entry.
ListIntegrations(q, o) == \E next \in Found("look", o) : Begin(q, next)

LookInCache(q) ==
  /\ call[q].op = "look"
  /\ To(q, IF cache[call[q].slug] # NoEntry THEN Idle ELSE [call[q] EXCEPT !.op = "build"])
  /\ Reads

\* The other organizations are read after the organization.
Build(q) ==
  /\ call[q].op = "build"
  /\ To(q, [op |-> "keep entry", slug |-> call[q].slug,
            entry |-> Entry(call[q].org, call[q].row, call[q].user)])
  /\ Reads

\* redis.set, which keeps its errors to itself.
KeepEntry(q) ==
  /\ call[q].op = "keep entry"
  /\ \/ cache' = [cache EXCEPT ![call[q].slug] = call[q].entry]
     \/ course = "free" /\ UNCHANGED cache
  /\ To(q, Idle)
  /\ UNCHANGED <<rows, phase, trace, course>>

-----------------------------------------------------------------------------
\* What is read at GitHub: the repositories of an installation, to be synced, and one
\* of them, by the overview, commits, pull requests and issues.

\* A mutant of DefaultRepo: the oldest.
FirstSynced(o) == Head(resources[o])

\* Without a name, and without a project that has one: the one updated last.
DefaultRepo(o) == Last(resources[o])

\* resolveGithubContext.
ReadRepo(q, o) ==
  /\ row[o].account # NoInstall
  /\ \E repo \in {NoRepo} \cup (IF resources[o] = <<>> THEN {} ELSE {DefaultRepo(o)}) :
       Begin(q, [op |-> "token", org |-> o, repo |-> repo, sync |-> FALSE])

SyncRepositories(q, o) ==
  Begin(q, [op |-> "token", org |-> o, repo |-> NoRepo, sync |-> TRUE])

\* getValidInstallationToken: the token of the config while it has a minute left.
ReadToken(q) ==
  /\ call[q].op = "token"
  /\ LET c == call[q]
         r == row[c.org]
     IN To(q, IF r.account = NoInstall THEN Idle
              ELSE [op |-> IF r.token.fresh THEN "use" ELSE "mint", org |-> c.org,
                    repo |-> c.repo, sync |-> c.sync,
                    of |-> IF r.token.fresh THEN r.token.of ELSE r.account])
  /\ Reads

\* generateInstallationToken: of an installation that is gone GitHub gives none.
Mint(q) ==
  /\ call[q].op = "mint"
  /\ To(q, IF phase[call[q].of] # "installed" THEN Idle ELSE [call[q] EXCEPT !.op = "keep token"])
  /\ Reads

\* The config is written over, whatever it has become.
KeepToken(q) ==
  /\ call[q].op = "keep token"
  /\ row' = [row EXCEPT ![call[q].org].token = [of |-> call[q].of, fresh |-> TRUE]]
  /\ To(q, [call[q] EXCEPT !.op = "use"])
  /\ UNCHANGED <<slug, users, resources, cache, phase, trace, course>>

\* With the token of an installation that is gone the call fails.  A sync takes all
\* the repositories, or those its project is linked to.
Use(q) ==
  /\ call[q].op = "use"
  /\ LET c == call[q]
     IN \/ (~c.sync \/ phase[c.of] # "installed") /\ To(q, Idle)
        \/ /\ c.sync /\ phase[c.of] = "installed"
           /\ \E some \in SUBSET ToSet(ReposOf[c.of]) :
                To(q, IF some = {} THEN Idle
                      ELSE [op |-> "upsert", org |-> c.org, of |-> c.of, left |-> some])
  /\ Reads

\* integrationResource.upsert, one repository after the other, in the order of the list.
Upsert(q) ==
  /\ call[q].op = "upsert"
  /\ \E repo \in call[q].left :
       LET o == call[q].org
           listed == ReposOf[call[q].of]
           left == call[q].left \ {repo}
       IN /\ \E k \in DOMAIN listed :
               listed[k] = repo /\ \A j \in 1 .. k - 1 : listed[j] \notin left
          /\ resources' = [resources EXCEPT ![o] = Append(RemoveFirst(@, repo), repo)]
          /\ synced' = [synced EXCEPT ![o] = @ \/ (course = "calm" /\ left = {})]
          /\ To(q, IF left = {} THEN Idle ELSE [call[q] EXCEPT !.left = left])
  /\ UNCHANGED <<slug, users, row, cache, phase, told, vouched, authorized, deserted, moved,
                 course>>

-----------------------------------------------------------------------------

Step(q) ==
  \/ FindIdentity(q) \/ FindPeers(q) \/ FindSlug(q) \/ DropEntries(q)
  \/ Link(q) \/ DeleteProviders(q) \/ UpsertProvider(q) \/ MarkConnected(q) \/ Unlink(q)
  \/ ReadOne(q) \/ Connect(q) \/ FindKeys(q)
  \/ ReadOrg(q) \/ LookInCache(q) \/ Build(q) \/ KeepEntry(q)
  \/ ReadToken(q) \/ Mint(q) \/ KeepToken(q) \/ Use(q) \/ Upsert(q)
  \/ Abandon(q)

Ask(q) ==
  \/ \E i \in Installs : ReposChanged(q, i) \/ Created(q, i) \/ Deleted(q, i)
  \/ \E s \in Slugs : IntegrationStatus(q, s)
  \/ \E o \in Orgs :
       \/ ListIntegrations(q, o) \/ ReadRepo(q, o) \/ SyncRepositories(q, o)
       \/ \E i \in Installs : InstallationCallback(q, o, i)
       \/ \E g \in GithubUsers, replace \in BOOLEAN : OAuthCallback(q, o, g, replace)
       \/ \E from \in Orgs : AutoConnect(q, o, from)

Elsewhere ==
  \/ \E i \in Installs : Install(i) \/ Uninstall(i)
  \/ \E o \in Orgs : TokenAges(o) \/ \E s \in Slugs : Rename(o, s)
  \/ \E s \in Slugs : EntryExpires(s)

InstNext == Elsewhere \/ \E q \in Requests : Ask(q) \/ Step(q)

InstSpec == InstInit /\ [][InstNext]_instVars

-----------------------------------------------------------------------------
\* Properties.

TokenType == [of : Installs \cup {NoInstall}, fresh : BOOLEAN]
RowType == [status : {"NOT_CONNECTED", "CONNECTED"}, account : Installs \cup {NoInstall},
            token : TokenType]
EntryType == [status : {"NOT_CONNECTED", "CONNECTED"}, account : Installs \cup {NoInstall},
              user : GithubUsers \cup {NoUser}, candidates : SUBSET (Orgs \X Installs)]

\* Slugs differ, and a row is CONNECTED exactly when it names an installation.
InstTypeOK ==
  /\ slug \in [Orgs -> Slugs] /\ \A o, p \in Orgs : slug[o] = slug[p] => o = p
  /\ users \in [Orgs -> SUBSET GithubUsers]
  /\ row \in [Orgs -> RowType]
  /\ \A o \in Orgs : (row[o].status = "CONNECTED") <=> (row[o].account # NoInstall)
  /\ \A s \in Slugs : cache[s] = NoEntry \/ cache[s] \in EntryType
  /\ \A o \in Orgs : resources[o] \in Seq(Repos) /\ IsInjective(resources[o])

\* Organizations of which no account also authorized in another one.
Closed(set) == \A o \in set, p \in Orgs \ set : authorized[o] \cap authorized[p] = {}

\* An organization is linked to an installation only by its own callback, or by that of
\* one it is tied to by accounts that authorized in both, directly or over others,
\* whatever requests overlap and fail: no auto-connect leads out of a closed set.
AccountIsVouched ==
  course = "free" =>
  \A o \in Orgs, set \in SUBSET Orgs :
    row[o].account # NoInstall /\ o \in set /\ Closed(set) =>
      \E p \in set : <<p, row[o].account>> \in vouched

\* In a calm course a cached status is the one that would be built: a callback, a
\* webhook or an auto-connect drops the entries of the other organizations too that
\* offer, or no longer offer, the installation.  Not so for an account that some
\* organization has left for another, or has besides another: of two accounts the
\* invalidation follows one.
Settled(o) == users[o] \cap deserted = {}
StatusIsFresh ==
  course = "calm" /\ AllIdle =>
    \A o \in Orgs : Settled(o) /\ cache[slug[o]] # NoEntry =>
      \E g \in OneOf(users[o]) : cache[slug[o]] = Entry(o, row[o], g)

\* In a calm course no organization stays linked to an installation whose deletion has
\* been handled, and a token that is kept is of the installation it is linked to, unless
\* it was moved from one to another without uninstalling.
LinkedIsInstalled ==
  course = "calm" =>
    \A o \in Orgs :
      /\ row[o].account \notin told
      /\ row[o].token # NoToken /\ ~moved[o] => row[o].token.of = row[o].account

\* In a calm course the repository that is read by default is one the token can read,
\* once a sync ended after the organization was linked.
DefaultIsReadable ==
  course = "calm" =>
    \A q \in Requests :
      call[q].op = "use" /\ call[q].repo # NoRepo
        /\ synced[call[q].org] /\ ~moved[call[q].org] =>
          call[q].repo \in ToSet(ReposOf[call[q].of])

-----------------------------------------------------------------------------
\* What the source says of itself and the code does not keep.

\* "Invalidate cached integration status so SSE/HTTP reflects new OAuth connection
\* immediately" (github.service.ts:298), for the organizations of the account before too:
\* theirs still offer the installation of the one that left.
OldPeersAreFresh ==
  course = "calm" /\ AllIdle =>
    \A o \in Orgs : cache[slug[o]] # NoEntry =>
      \E g \in OneOf(users[o]) : cache[slug[o]] = Entry(o, row[o], g)
=============================================================================
