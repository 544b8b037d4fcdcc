----------------------------- MODULE AppConfigs -----------------------------
(***************************************************************************)
(* The configuration of one integration of Slack, Discord, Notion, Jira or *)
(* Figma: the callback of its authorization, the tokens it keeps and the   *)
(* resources that are synced with them                                     *)
(* (src/modules/providers/<app>/<app>.service.ts).                         *)
(*                                                                         *)
(* The config column is a JSON value: a handler reads it, awaits a call    *)
(* and writes it whole.  Of Jira's tokens the model knows what the API     *)
(* relies on: a refresh token is accepted once, and answered with the next *)
(* one; and an access token lives an hour.                                 *)
(***************************************************************************)
EXTENDS Naturals

CONSTANTS
  Apps,      \* the apps a behaviour may be about
  Guilds,    \* Discord servers the bot is added to
  Things,    \* channels, databases, projects or files that are listed
  Askers,    \* requests that can be in progress at once
  MaxGrants  \* bound on the tokens ever given

ASSUME AppConfigsAssumption ==
  /\ Apps \subseteq {"slack", "discord", "notion", "jira", "figma"}
  /\ MaxGrants \in Nat \ {0}

VARIABLES
  app,        \* the app
  config,     \* the row: status, and in its config the tokens, guilds and cloudId
  listings,   \* its IntegrationResource rows
  grants,     \* how many tokens the app has given
  accepted,   \* refresh tokens it accepts
  age,        \* of each access token: Fresh; Closing, in its last minute; Overdue, in
              \* the minute after that; Expired
  ask,        \* where each request is
  added,      \* guilds whose callback has ended (history)
  conduct     \* "calm": one request after the other, and none fails.  "sound": none
              \* fails, and every account has a site.  "free": any may fail

appVars == <<app, config, listings, grants, accepted, age, ask, added, conduct>>
atApp == <<grants, accepted, age>>

NoGrant == 0
Grants == 1 .. MaxGrants
Fresh == 0
Closing == 1
Overdue == 2
Expired == 3

Row(made, status) ==
  [made |-> made, status |-> status, token |-> NoGrant, refresh |-> NoGrant,
   cloud |-> FALSE, guilds |-> {}]
Resting == [op |-> "none"]

\* createOrg made the row.  The callbacks of Notion, Jira and Figma make one where
\* there is none by the id they are given.
AppInit ==
  /\ app \in Apps
  /\ \E made \in IF app \in {"notion", "jira", "figma"} THEN BOOLEAN ELSE {TRUE} :
       config = Row(made, "NOT_CONNECTED")
  /\ listings = {}
  /\ grants = 0 /\ accepted = {} /\ age = [g \in Grants |-> Fresh]
  /\ ask = [q \in Askers |-> Resting]
  /\ added = {}
  /\ conduct \in {"calm", "sound", "free"}

Goes(q, next) == ask' = [ask EXCEPT ![q] = next]
Looks == UNCHANGED <<app, config, listings, atApp, added, conduct>>
Starts(q, next) ==
  /\ ask[q] = Resting /\ (conduct = "calm" => \A p \in Askers : ask[p] = Resting)
  /\ Goes(q, next) /\ Looks
Writes(row) ==
  config' = row /\ UNCHANGED <<app, listings, atApp, added, conduct>>

\* A call or a statement fails, or the process dies.
GivesUp(q) ==
  conduct = "free" /\ ask[q] # Resting /\ Goes(q, Resting) /\ Looks

\* Only Jira's tokens are known to expire.
AccessAges(g) ==
  /\ app = "jira" /\ g <= grants /\ age[g] < Expired
  /\ age' = [age EXCEPT ![g] = @ + 1]
  /\ UNCHANGED <<app, config, listings, grants, accepted, ask, added, conduct>>

\* The app answers with the next token, and Jira with a refresh token for it.
Grant ==
  /\ grants < MaxGrants
  /\ grants' = grants + 1
  /\ UNCHANGED <<app, config, listings, age, added, conduct>>

-----------------------------------------------------------------------------
\* handleCallback.

\* Within ten minutes of getAuthUrl.
Callback(q) == app # "discord" /\ Starts(q, [op |-> "exchange"])

\* The code is exchanged.  Jira then tells the sites of the account, if there are any.
Exchange(q) ==
  /\ ask[q].op = "exchange"
  /\ Grant
  /\ accepted' = accepted \cup {g \in {grants'} : app = "jira"}
  /\ \E cloud \in IF app # "jira" THEN {FALSE} ELSE IF conduct = "sound" THEN {TRUE} ELSE BOOLEAN :
       Goes(q, [op |-> IF app = "slack" THEN "replace" ELSE "find",
                grant |-> grants', cloud |-> cloud])

\* Slack: the config is made anew.
ReplaceConfig(q) ==
  /\ ask[q].op = "replace"
  /\ Writes([Row(TRUE, "CONNECTED") EXCEPT !.token = ask[q].grant])
  /\ Goes(q, Resting)

FindRow(q) ==
  /\ ask[q].op = "find"
  /\ Goes(q, [op |-> IF config.made THEN "update" ELSE "create", read |-> config,
              grant |-> ask[q].grant, cloud |-> ask[q].cloud])
  /\ Looks

\* What was read, with the new tokens and the site in their places.
Granted(row, grant, cloud) ==
  [row EXCEPT !.made = TRUE, !.status = "CONNECTED", !.token = grant,
              !.refresh = IF app = "jira" THEN grant ELSE @, !.cloud = @ \/ cloud]

UpdateRow(q) ==
  /\ ask[q].op = "update"
  /\ Writes(Granted(ask[q].read, ask[q].grant, ask[q].cloud))
  /\ Goes(q, Resting)

\* The id is the key: a second creation fails.
CreateRow(q) ==
  /\ ask[q].op = "create"
  /\ \/ ~config.made /\ Writes(Granted(ask[q].read, ask[q].grant, ask[q].cloud))
     \/ config.made /\ Looks
  /\ Goes(q, Resting)

\* Discord: the bot was added to a guild.  The row is read, and then the guild.
GuildCallback(q, guild) ==
  app = "discord" /\ Starts(q, [op |-> "guild", guild |-> guild, read |-> config])

\* A mutant of WithGuild: the list is of one guild.
GuildAlone(row, guild) == [row EXCEPT !.status = "CONNECTED", !.guilds = {guild}]

WithGuild(row, guild) == [row EXCEPT !.status = "CONNECTED", !.guilds = @ \cup {guild}]

AddGuild(q) ==
  /\ ask[q].op = "guild"
  /\ config' = WithGuild(ask[q].read, ask[q].guild)
  /\ added' = added \cup {ask[q].guild}
  /\ Goes(q, Resting)
  /\ UNCHANGED <<app, listings, atApp, conduct>>

-----------------------------------------------------------------------------
\* What needs a token: the resources that are synced, and the ingests, which read
\* nothing else here.

\* Discord has a token of its own for all.
Sync(q) ==
  config.made /\ Starts(q, IF app = "discord" THEN [op |-> "list"] ELSE [op |-> "token"])

\* getValidToken: 'Integration not properly configured', the token, or for Jira an
\* exchange; with its minute counted the other way.
FindToken(q) ==
  /\ ask[q].op = "token"
  /\ Goes(q, CASE config.token = NoGrant -> Resting
               [] config.token # NoGrant /\ age[config.token] < Expired ->
                    [op |-> "use", grant |-> config.token,
                     live |-> age[config.token] <= Closing]
               [] OTHER -> [op |-> "refresh", read |-> config])
  /\ Looks

\* A refresh token is accepted once.  'Token refresh failed'.
Refresh(q) ==
  /\ ask[q].op = "refresh"
  /\ LET refresh == ask[q].read.refresh
     IN \/ /\ refresh \in accepted
           /\ Grant
           /\ accepted' = (accepted \ {refresh}) \cup {grants'}
           /\ Goes(q, [op |-> "keep", read |-> ask[q].read, grant |-> grants'])
        \/ refresh \notin accepted /\ Goes(q, Resting) /\ Looks

\* A mutant of KeepTokens: the refresh token that came with it is not kept.
KeepTokenOnly(q) ==
  /\ ask[q].op = "keep"
  /\ Writes([ask[q].read EXCEPT !.token = ask[q].grant])
  /\ Goes(q, [op |-> "use", grant |-> ask[q].grant, live |-> TRUE])

KeepTokens(q) ==
  /\ ask[q].op = "keep"
  /\ Writes(Granted(ask[q].read, ask[q].grant, FALSE))
  /\ Goes(q, [op |-> "use", grant |-> ask[q].grant, live |-> TRUE])

\* fetchProjects reads the row again for the site.  What needs no site goes on.
UseToken(q) ==
  /\ ask[q].op = "use"
  /\ Goes(q, IF app = "jira" /\ ~config.cloud THEN [op |-> "site", grant |-> ask[q].grant,
                                                    read |-> config]
             ELSE [op |-> "list", grant |-> ask[q].grant])
  /\ Looks

Lives(q) == app = "jira" => age[ask[q].grant] <= Closing

\* 'No accessible Jira resources found', or the first of them, written over what was
\* read; and fetchProjects from the start.
KeepSite(q) ==
  /\ ask[q].op = "site"
  /\ \/ /\ Lives(q)
        /\ Writes([ask[q].read EXCEPT !.cloud = TRUE])
        /\ Goes(q, [op |-> "token"])
     \/ Goes(q, Resting) /\ Looks

\* What the app lists, if it still takes the token.
List(q) ==
  /\ ask[q].op = "list"
  /\ \/ /\ Lives(q)
        /\ \E some \in SUBSET Things :
             Goes(q, IF some = {} THEN Resting ELSE [op |-> "upsert", left |-> some])
     \/ ~Lives(q) /\ Goes(q, Resting)
  /\ Looks

\* integrationResource.upsert, one after the other.
UpsertListing(q) ==
  /\ ask[q].op = "upsert"
  /\ \E thing \in ask[q].left :
       LET left == ask[q].left \ {thing}
       IN /\ listings' = listings \cup {thing}
          /\ Goes(q, IF left = {} THEN Resting ELSE [op |-> "upsert", left |-> left])
  /\ UNCHANGED <<app, config, atApp, added, conduct>>

-----------------------------------------------------------------------------

AskStep(q) ==
  \/ Exchange(q) \/ ReplaceConfig(q) \/ FindRow(q) \/ UpdateRow(q) \/ CreateRow(q)
  \/ AddGuild(q) \/ FindToken(q) \/ Refresh(q) \/ KeepTokens(q) \/ UseToken(q)
  \/ KeepSite(q) \/ List(q) \/ UpsertListing(q) \/ GivesUp(q)

AppNext ==
  \/ \E g \in Grants : AccessAges(g)
  \/ \E q \in Askers : \/ Callback(q) \/ Sync(q) \/ AskStep(q)
                       \/ \E guild \in Guilds : GuildCallback(q, guild)

AppSpec == AppInit /\ [][AppNext]_appVars

-----------------------------------------------------------------------------
\* Properties.

ConfigType ==
  [made : BOOLEAN, status : {"NOT_CONNECTED", "CONNECTED"},
   token : Grants \cup {NoGrant}, refresh : Grants \cup {NoGrant},
   cloud : BOOLEAN, guilds : SUBSET Guilds]

\* A row is CONNECTED exactly when its config has a token, or a guild, and Jira's
\* tokens come in pairs.
ConfigTypeOK ==
  /\ config \in ConfigType
  /\ (config.status = "CONNECTED") <=> (config.token # NoGrant \/ config.guilds # {})
  /\ app = "jira" => config.refresh = config.token
  /\ grants \in 0 .. MaxGrants /\ accepted \subseteq 1 .. grants
  /\ listings \subseteq Things

RefreshIsAccepted ==
  app = "jira" /\ conduct # "free" /\ config.refresh # NoGrant =>
    config.refresh \in accepted \/ \E q \in Askers : ask[q].op = "keep"

GuildsAreKept == conduct = "calm" => added \subseteq config.guilds

\* What a config holds is not lost when it is written over whole.  As long as nothing
\* fails, and accounts have a site, the refresh token that is kept is one Jira accepts, or
\* the next is about to be kept: refreshes and callbacks that overlap lock nobody out
\* (one request at a time, it holds without a site too).  And one request at a time, each
\* callback of Discord keeps the guilds that the ones before it added.
ConfigIsKept == RefreshIsAccepted /\ GuildsAreKept

\* "Token is still valid (with 1 minute buffer)": a token that is handed out has not expired.
TokenHandedOutIsLive ==
  \A q \in Askers : ask[q].op = "use" => ask[q].live
=============================================================================
