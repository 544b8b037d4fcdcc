------------------------- MODULE IntegrationsProofs -------------------------
(***************************************************************************)
(* What is proved of the integrations, for any number of organizations,    *)
(* installations, accounts and requests, and of guilds, things and tokens. *)
(*                                                                         *)
(* First, the installations.  When requests overlap and fail: the account  *)
(* of an organization is one that it, or one it is tied to, has called     *)
(* back for, and so is that of the row an auto-connect has read, however   *)
(* old.  In a calm course: a cached status is the one that would be built, *)
(* or the request in progress has still to drop it; which request drops    *)
(* which entries is the heart of the invariant.                            *)
(*                                                                         *)
(* Then the configs.  A handler writes one whole, with what it read        *)
(* before.  That loses no token Jira accepts because of where tokens come  *)
(* from: one that was just given is accepted, is in no config that anybody *)
(* has read, and is in the hands of one request only; so a refresh, which  *)
(* takes back the token of the config it read, never takes back one of     *)
(* those.                                                                  *)
(***************************************************************************)
EXTENDS MCIntegrations, SequenceTheorems, TLAPS

\* A row: CONNECTED exactly when it names an installation, and a token that is fresh is
\* one of an installation.
RowSane(r) ==
  /\ r \in RowType
  /\ (r.status = "CONNECTED") <=> (r.account # NoInstall)
  /\ r.token.fresh => r.token.of \in Installs

CopySane(c) ==
  /\ c \in [users : SUBSET GithubUsers, row : RowType, known : BOOLEAN]
  /\ RowSane(c.row)

\* What a request holds.
CallSane(c) ==
  /\ c.op = "none" => c = Idle
  /\ c.op = "invalidate" => c \in [op : {"invalidate"}, todo : SUBSET Orgs]
  /\ c.op = "find peers" =>
       c \in [op : {"find peers"}, org : Orgs, user : GithubUsers, todo : SUBSET Orgs]
  /\ c.op = "find slug" => c \in [op : {"find slug"}, org : Orgs, todo : SUBSET Orgs]
  /\ c.op = "drop" => c \in [op : {"drop"}, slugs : SUBSET Slugs, todo : SUBSET Orgs]
  /\ c.op = "link" => c \in [op : {"link"}, org : Orgs, install : Installs]
  /\ c.op \in {"replace", "authorize"} =>
       c \in [op : {"replace", "authorize"}, org : Orgs, user : GithubUsers]
  /\ c.op \in {"mark", "unlink"} =>
       c \in [op : {"mark", "unlink"}, install : Installs, todo : SUBSET Orgs]
  /\ c.op = "compare" =>
       /\ c = [op |-> "compare", org |-> c.org, from |-> c.from, dest |-> c.dest, src |-> c.src]
       /\ c.org \in Orgs /\ c.from \in Orgs /\ CopySane(c.dest) /\ CopySane(c.src)
  /\ c.op = "find keys" => c \in [op : {"find keys"}, user : GithubUsers]
  /\ c.op = "read org" => c \in [op : {"read org"}, slug : Slugs]
  /\ c.op \in {"look", "build"} =>
       /\ c \in [op : {"look", "build"}, slug : Slugs, org : Orgs, row : RowType,
                 user : GithubUsers \cup {NoUser}]
       /\ RowSane(c.row)
  /\ c.op = "keep entry" => c \in [op : {"keep entry"}, slug : Slugs, entry : EntryType]
  /\ c.op = "token" =>
       c \in [op : {"token"}, org : Orgs, repo : Repos \cup {NoRepo}, sync : BOOLEAN]
  /\ c.op \in {"mint", "keep token", "use"} =>
       c \in [op : {"mint", "keep token", "use"}, org : Orgs, repo : Repos \cup {NoRepo},
              sync : BOOLEAN, of : Installs]
  /\ c.op = "upsert" =>
       /\ c \in [op : {"upsert"}, org : Orgs, of : Installs, left : SUBSET Repos]
       /\ c.left \subseteq ToSet(ReposOf[c.of])

RowsSane == row \in [Orgs -> RowType] /\ \A o \in Orgs : RowSane(row[o])
CallsSane ==
  call = [q \in Requests |-> call[q]] /\ \A q \in Requests : CallSane(call[q])
PastSane ==
  /\ phase \in [Installs -> {"new", "installed", "gone"}]
  /\ told \subseteq Installs /\ vouched \subseteq Orgs \X Installs
  /\ authorized \in [Orgs -> SUBSET GithubUsers]
  /\ moved \in [Orgs -> BOOLEAN] /\ synced \in [Orgs -> BOOLEAN]
  /\ course \in {"calm", "free"}
  /\ cache = [s \in Slugs |-> cache[s]] /\ resources = [o \in Orgs |-> resources[o]]

InstTypes == InstTypeOK /\ RowsSane /\ CallsSane /\ PastSane

-----------------------------------------------------------------------------
\* The free course: who is tied to whom.

Vouched(o, i) ==
  \A set \in SUBSET Orgs :
    i # NoInstall /\ o \in set /\ Closed(set) => \E p \in set : <<p, i>> \in vouched

FreeRows ==
  \A o \in Orgs : users[o] \subseteq authorized[o] /\ Vouched(o, row[o].account)

FreeCall(c) ==
  c.op = "compare" =>
    /\ c.dest.users \subseteq authorized[c.org]
    /\ c.src.users \subseteq authorized[c.from]
    /\ Vouched(c.from, c.src.row.account)

FreeCourse == course = "free" => FreeRows /\ \A q \in Requests : FreeCall(call[q])

-----------------------------------------------------------------------------
\* One request after the other.

OneAtATime == \A p, q \in Requests : call[p] # Idle /\ call[q] # Idle => p = q

CalmRow(o) ==
  /\ row[o].account \notin told
  /\ row[o].account = NoInstall => row[o].token = NoToken
  /\ row[o].token # NoToken /\ ~moved[o] => row[o].token.of = row[o].account
  /\ \A g, h \in users[o] : g = h \/ g \in deserted
  /\ synced[o] => resources[o] # <<>>
  /\ synced[o] /\ ~moved[o] => Last(resources[o]) \in ToSet(ReposOf[row[o].account])

\* An entry that would be built.
Shows(entry, o) == \E g \in OneOf(users[o]) : entry = Entry(o, row[o], g)

SameOrg(r, o) == r.status = row[o].status /\ r.account = row[o].account

CalmCall(c) ==
  /\ c.op = "link" => c.install \notin told
  /\ c.op = "find peers" => c.user \in users[c.org]
  /\ c.op = "unlink" => c.todo = Linked(c.install)
  /\ c.op = "compare" =>
       /\ c.dest.known => c.dest.users = users[c.org]
       /\ IF c.src.known THEN c.src.users = users[c.from] /\ SameOrg(c.src.row, c.from)
          ELSE c.src = Unread
  /\ c.op \in {"look", "build"} =>
       c.slug = slug[c.org] /\ c.user \in OneOf(users[c.org]) /\ SameOrg(c.row, c.org)
  /\ c.op = "keep entry" => \E o \in Orgs : c.slug = slug[o] /\ Shows(c.entry, o)
  /\ c.op \in {"token", "mint", "keep token", "use"} =>
       (c.repo # NoRepo /\ synced[c.org] /\ ~moved[c.org] =>
          c.repo \in ToSet(ReposOf[row[c.org].account]))
  /\ c.op \in {"mint", "keep token"} => c.of = row[c.org].account
  /\ c.op \in {"use", "upsert"} /\ ~moved[c.org] => c.of = row[c.org].account

\* The entry of an organization is the one that would be built, or the request in
\* progress will drop it.
Covers(set, o) == \E p \in set : p = o \/ users[p] \cap users[o] # {}
WillDrop(c, o) ==
  \/ c.op = "authorize" /\ (o = c.org \/ c.user \in users[o])
  \/ c.op = "invalidate" /\ Covers(c.todo, o)
  \/ c.op = "find peers" /\ (c.user \in users[o] \/ Covers(c.todo, o))
  \/ c.op = "find slug" /\ (o = c.org \/ Covers(c.todo, o))
  \/ c.op = "drop" /\ (slug[o] \in c.slugs \/ Covers(c.todo, o))
  \/ c.op = "find keys" /\ c.user \in users[o]
EntryFresh(o) == Settled(o) /\ cache[slug[o]] # NoEntry => Shows(cache[slug[o]], o)
CalmEntry(o) == EntryFresh(o) \/ \E q \in Requests : WillDrop(call[q], o)

CalmCourse ==
  course = "calm" =>
    /\ OneAtATime
    /\ \A o \in Orgs : CalmRow(o) /\ CalmEntry(o)
    /\ \A q \in Requests : CalmCall(call[q])

InstIInv == InstTypes /\ FreeCourse /\ CalmCourse
-----------------------------------------------------------------------------
\* Lemmas.

LEMMA IdleSane == CallSane(Idle) /\ Idle.op = "none" /\ FreeCall(Idle) /\ CalmCall(Idle)
BY DEF CallSane, Idle, FreeCall, CalmCall

LEMMA IdleDrops == \A o : ~WillDrop(Idle, o)
BY DEF WillDrop, Idle

\* A request goes on to what it does next; the others stay where they are.
LEMMA GoesOn ==
  ASSUME CallsSane, NEW q \in Requests, NEW next, CallSane(next), To(q, next)
  PROVE  /\ CallsSane' /\ call'[q] = next
         /\ \A p \in Requests : p # q => call'[p] = call[p]
<1>1. /\ call = [p \in Requests |-> call[p]] /\ call' = [call EXCEPT ![q] = next]
      /\ \A p \in Requests : CallSane(call[p])
  BY DEF CallsSane, To
<1>2. /\ call' = [p \in Requests |-> IF p = q THEN next ELSE call[p]]
  BY <1>1
<1>3. /\ call'[q] = next /\ \A p \in Requests : p # q => call'[p] = call[p]
      /\ call' = [p \in Requests |-> call'[p]]
  BY <1>2
<1>4. \A p \in Requests : CallSane(call'[p])
  BY <1>1, <1>3
<1> QED BY <1>3, <1>4 DEF CallsSane

\* In a calm course, what is to be shown of a step of a request.
LEMMA CalmGoesOn ==
  ASSUME CallsSane, course = "calm", CalmCourse, NEW q \in Requests, NEW next,
         CallSane(next), To(q, next), call[q] # Idle \/ AllIdle,
         CalmCall(next)', course' = course,
         \A o \in Orgs : CalmRow(o)' /\ (EntryFresh(o)' \/ WillDrop(next, o)')
  PROVE  CalmCourse'
<1>1. /\ call'[q] = next
      /\ \A p \in Requests : p # q => call'[p] = call[p]
  BY GoesOn
<1>2. \A p \in Requests : p # q => call[p] = Idle
  BY DEF CalmCourse, OneAtATime, AllIdle
<1>3. \A p \in Requests : p # q => call'[p] = Idle
  BY <1>1, <1>2
<1>4. OneAtATime'
  BY <1>3 DEF OneAtATime, Idle
<1>5. CalmCall(Idle)'
  BY DEF CalmCall, Idle
<1>6. \A p \in Requests : CalmCall(call[p])'
  <2> SUFFICES ASSUME NEW p \in Requests PROVE CalmCall(call[p])'
    OBVIOUS
  <2>1. CASE p = q
    BY <1>1, <2>1
  <2>2. CASE p # q
    BY <1>3, <1>5, <2>2 DEF Idle
  <2> QED BY <2>1, <2>2
<1>7. \A o \in Orgs : CalmEntry(o)'
  BY <1>1 DEF CalmEntry
<1> QED BY <1>4, <1>6, <1>7 DEF CalmCourse

\* What a request may hold in a calm course is a matter of the rows.
LEMMA CalmCallStays ==
  ASSUME NEW c, CalmCall(c), UNCHANGED <<slug, users, row, told, moved, synced>>
  PROVE  CalmCall(c)'
<1>1. /\ slug' = slug /\ users' = users /\ row' = row /\ told' = told /\ moved' = moved
      /\ synced' = synced
  OBVIOUS
<1>2. \A e, o : Shows(e, o)' <=> Shows(e, o)
  BY <1>1 DEF Shows, OneOf, Entry, Candidates, Sharing
<1>3. \A i : Linked(i)' = Linked(i)
  BY <1>1 DEF Linked
<1>4. \A r, o : SameOrg(r, o)' <=> SameOrg(r, o)
  BY <1>1 DEF SameOrg
<1>5. /\ c.op = "link" => c.install \notin told'
      /\ c.op = "find peers" => c.user \in users'[c.org]
      /\ c.op = "unlink" => c.todo = Linked(c.install)'
  BY <1>1, <1>3 DEF CalmCall
<1>6. c.op = "compare" =>
        /\ c.dest.known => c.dest.users = users'[c.org]
        /\ IF c.src.known THEN c.src.users = users'[c.from] /\ SameOrg(c.src.row, c.from)'
           ELSE c.src = Unread
  BY <1>1, <1>4 DEF CalmCall
<1>7. c.op \in {"look", "build"} =>
        c.slug = slug'[c.org] /\ c.user \in OneOf(users'[c.org]) /\ SameOrg(c.row, c.org)'
  BY <1>1, <1>4 DEF CalmCall
<1>8. c.op = "keep entry" => \E o \in Orgs : c.slug = slug'[o] /\ Shows(c.entry, o)'
  BY <1>1, <1>2 DEF CalmCall
<1>9. /\ c.op \in {"token", "mint", "keep token", "use"} =>
           (c.repo # NoRepo /\ synced'[c.org] /\ ~moved'[c.org] =>
              c.repo \in ToSet(ReposOf[row'[c.org].account]))
      /\ c.op \in {"mint", "keep token"} => c.of = row'[c.org].account
      /\ c.op \in {"use", "upsert"} /\ ~moved'[c.org] => c.of = row'[c.org].account
  BY <1>1 DEF CalmCall
<1> QED BY <1>5, <1>6, <1>7, <1>8, <1>9 DEF CalmCall

\* A step that only reads.
LEMMA ReadKeeps ==
  ASSUME InstIInv, NEW q \in Requests, NEW next, CallSane(next), To(q, next), Reads,
         course = "free" => FreeCall(next),
         course = "calm" =>
           /\ CalmCall(next) /\ (call[q] # Idle \/ AllIdle)
           /\ \A o \in Orgs : Settled(o) /\ WillDrop(call[q], o) => WillDrop(next, o)
  PROVE  InstIInv'
<1>1. /\ UNCHANGED <<slug, users, row, resources, cache, phase, told, vouched, authorized, deserted>>
      /\ UNCHANGED <<moved, synced, course>>
  BY DEF Reads, rows, trace
<1>2. /\ CallsSane' /\ call'[q] = next
      /\ \A p \in Requests : p # q => call'[p] = call[p]
  BY GoesOn DEF InstIInv, InstTypes
<1>3. InstTypes'
  BY <1>1, <1>2 DEF InstIInv, InstTypes, InstTypeOK, RowsSane, PastSane
<1>4. FreeCourse'
  <2> SUFFICES ASSUME course = "free"
               PROVE  FreeRows' /\ \A p \in Requests : FreeCall(call[p])'
    BY <1>1 DEF FreeCourse
  <2>1. FreeRows'
    BY <1>1 DEF InstIInv, FreeCourse, FreeRows, Vouched, Closed
  <2>2. \A p \in Requests : FreeCall(call[p]) /\ FreeCall(next)
    BY DEF InstIInv, FreeCourse
  <2>3. ASSUME NEW p \in Requests PROVE FreeCall(call[p])'
    <3>1. PICK c : c = call'[p]
      OBVIOUS
    <3>2. FreeCall(c)
      BY <1>2, <2>2, <3>1
    <3>3. FreeCall(c)'
      BY <1>1, <3>2 DEF FreeCall, Vouched, Closed
    <3> QED BY <3>1, <3>3 DEF FreeCall
  <2> QED BY <2>1, <2>3
<1>5. CalmCourse'
  <2> SUFFICES ASSUME course = "calm" PROVE CalmCourse'
    BY <1>1 DEF CalmCourse
  <2>1. CalmCall(next)'
    BY <1>1, CalmCallStays
  <2>2. ASSUME NEW o \in Orgs
        PROVE  CalmRow(o)' /\ (EntryFresh(o)' \/ WillDrop(next, o)')
    <3>1. CalmRow(o) /\ CalmEntry(o)
      BY DEF InstIInv, CalmCourse
    <3>2. CalmRow(o)'
      BY <1>1, <3>1 DEF CalmRow
    <3>3. EntryFresh(o) => EntryFresh(o)'
      BY <1>1 DEF EntryFresh, Settled, Shows, OneOf, Entry, Candidates, Sharing
    <3>4. WillDrop(next, o) => WillDrop(next, o)'
      BY <1>1 DEF WillDrop, Covers
    <3>5. EntryFresh(o) \/ WillDrop(call[q], o)
      <4>1. \A p \in Requests : p # q => call[p] = Idle
        BY DEF InstIInv, CalmCourse, OneAtATime, AllIdle
      <4> QED BY <3>1, <4>1, IdleDrops DEF CalmEntry
    <3>6. EntryFresh(o) \/ Settled(o)
      BY DEF EntryFresh
    <3> QED BY <3>2, <3>3, <3>4, <3>5, <3>6
  <2> QED BY <2>1, <2>2, <1>1, CalmGoesOn DEF InstIInv, InstTypes
<1> QED BY <1>3, <1>4, <1>5 DEF InstIInv

\* The steps that only read, one by one.
LEMMA FindsKeep ==
  ASSUME InstIInv, NEW q \in Requests,
         \/ FindIdentity(q) \/ FindPeers(q) \/ FindSlug(q) \/ FindKeys(q)
  PROVE  InstIInv'
<1>1. /\ CallSane(call[q]) /\ users \in [Orgs -> SUBSET GithubUsers] /\ slug \in [Orgs -> Slugs]
      /\ course \in {"calm", "free"}
  BY DEF InstIInv, InstTypes, InstTypeOK, CallsSane, PastSane
<1>2. course = "calm" =>
        CalmCall(call[q]) /\ \A o \in Orgs : \A g, h \in users[o] : g = h \/ g \in deserted
  BY DEF InstIInv, CalmCourse, CalmRow
<1>3. ASSUME NEW next, next.op # "compare", To(q, next), Reads, CallSane(next),
             call[q] # Idle,
             course = "calm" =>
               /\ CalmCall(next)
               /\ \A o \in Orgs : Settled(o) /\ WillDrop(call[q], o) => WillDrop(next, o)
      PROVE  InstIInv'
  BY <1>3, ReadKeeps DEF FreeCall
<1>4. CASE FindIdentity(q)
  <2>1. /\ call[q].op = "invalidate" /\ call[q].todo \in SUBSET Orgs /\ call[q] # Idle /\ Reads
    BY <1>1, <1>4, IdleSane DEF FindIdentity, CallSane
  <2>2. PICK o \in call[q].todo :
          LET todo == call[q].todo \ {o}
          IN \/ users[o] = {} /\ To(q, SlugOnly(o, todo))
             \/ course = "free" /\ To(q, SlugOnly(o, todo))
             \/ \E g \in users[o] :
                  To(q, [op |-> "find peers", org |-> o, user |-> g, todo |-> todo])
    BY <1>4 DEF FindIdentity
  <2>3. PICK todo : todo = call[q].todo \ {o}
    OBVIOUS
  <2>4. todo \in SUBSET Orgs /\ o \in Orgs
    BY <2>1, <2>2, <2>3
  <2>5. CASE To(q, SlugOnly(o, todo)) /\ (course = "free" \/ users[o] = {})
    <3>1. PICK next : next = SlugOnly(o, todo)
      OBVIOUS
    <3>2. next.op = "find slug" /\ next.org = o /\ next.todo = todo /\ CallSane(next)
      BY <2>4, <3>1 DEF CallSane, SlugOnly
    <3>3. course = "calm" =>
            /\ CalmCall(next)
            /\ \A x \in Orgs : WillDrop(call[q], x) => WillDrop(next, x)
      BY <2>1, <2>3, <2>5, <3>2 DEF CalmCall, WillDrop, Covers
    <3> QED BY <1>3, <2>1, <2>5, <3>1, <3>2, <3>3
  <2>6. ASSUME NEW g \in users[o],
               To(q, [op |-> "find peers", org |-> o, user |-> g, todo |-> todo])
        PROVE  InstIInv'
    <3>1. PICK next : next = [op |-> "find peers", org |-> o, user |-> g, todo |-> todo]
      OBVIOUS
    <3>2. /\ next.op = "find peers" /\ next.org = o /\ next.todo = todo /\ next.user = g
          /\ CallSane(next)
      BY <1>1, <2>4, <3>1 DEF CallSane
    <3>3. course = "calm" => CalmCall(next)
      BY <2>6, <3>2 DEF CalmCall
    <3>4. ASSUME course = "calm", NEW x \in Orgs, Settled(x), WillDrop(call[q], x)
          PROVE  WillDrop(next, x)
      <4>1. PICK p \in call[q].todo : p = x \/ users[p] \cap users[x] # {}
        BY <2>1, <3>4 DEF WillDrop, Covers
      <4>2. CASE p = o
        <5>1. \A h \in users[o] : h = g \/ h \notin users[x]
          BY <1>2, <2>4, <2>6, <3>4 DEF Settled
        <5> QED BY <2>6, <3>2, <4>1, <4>2, <5>1 DEF WillDrop
      <4>3. CASE p # o
        BY <2>3, <3>2, <4>1, <4>3 DEF WillDrop, Covers
      <4> QED BY <4>2, <4>3
    <3> QED BY <1>3, <2>1, <2>6, <3>1, <3>2, <3>3, <3>4
  <2> QED BY <2>2, <2>3, <2>5, <2>6
<1>5. CASE FindPeers(q)
  <2>1. /\ call[q].op = "find peers" /\ call[q].todo \in SUBSET Orgs /\ call[q].org \in Orgs
        /\ call[q] # Idle /\ Reads /\ call[q].user \in GithubUsers
    BY <1>1, <1>5, IdleSane DEF FindPeers, CallSane
  <2>2. PICK slugs, todo, org :
          slugs = PeerSlugs(call[q].org, call[q].user) /\ todo = call[q].todo /\ org = call[q].org
    OBVIOUS
  <2>3. slugs = {slug[p] : p \in {o \in Orgs : call[q].user \in users[o]}}
    BY <2>2 DEF PeerSlugs, Sharing
  <2>4. CASE To(q, Drop(slugs, todo)) /\ slugs # {}
    <3>1. PICK next : next = Drop(slugs, todo)
      OBVIOUS
    <3>2. next.op = "drop" /\ next.slugs = slugs /\ next.todo = todo /\ CallSane(next)
      <4>1. slugs \in SUBSET Slugs /\ todo \in SUBSET Orgs
        BY <1>1, <2>1, <2>2, <2>3
      <4> QED BY <3>1, <4>1 DEF CallSane, Drop
    <3>3. course = "calm" =>
            /\ CalmCall(next)
            /\ \A x \in Orgs : WillDrop(call[q], x) => WillDrop(next, x)
      BY <2>1, <2>2, <2>3, <3>2 DEF CalmCall, WillDrop
    <3> QED BY <1>3, <2>1, <2>4, <3>1, <3>2, <3>3
  <2>5. CASE To(q, SlugOnly(org, todo)) /\ (slugs = {} \/ course = "free")
    <3>1. PICK next : next = SlugOnly(org, todo)
      OBVIOUS
    <3>2. next.op = "find slug" /\ next.org = org /\ next.todo = todo /\ CallSane(next)
      BY <2>1, <2>2, <3>1 DEF CallSane, SlugOnly
    <3>3. course = "calm" =>
            /\ CalmCall(next)
            /\ \A x \in Orgs : WillDrop(call[q], x) => WillDrop(next, x)
      BY <2>1, <2>2, <2>3, <2>5, <3>2 DEF CalmCall, WillDrop
    <3> QED BY <1>3, <2>1, <2>5, <3>1, <3>2, <3>3
  <2> QED BY <1>5, <2>2, <2>4, <2>5 DEF FindPeers
<1>6. CASE FindSlug(q)
  <2>1. /\ call[q].op = "find slug" /\ call[q].todo \in SUBSET Orgs /\ call[q].org \in Orgs
        /\ call[q] # Idle /\ Reads
    BY <1>1, <1>6, IdleSane DEF FindSlug, CallSane
  <2>2. PICK next : next = Drop({slug[call[q].org]}, call[q].todo)
    OBVIOUS
  <2>3. /\ next.op = "drop" /\ next.slugs = {slug[call[q].org]} /\ next.todo = call[q].todo
        /\ CallSane(next)
    <3>1. {slug[call[q].org]} \in SUBSET Slugs
      BY <1>1, <2>1
    <3> QED BY <2>1, <2>2, <3>1 DEF CallSane, Drop
  <2>4. course = "calm" =>
          /\ CalmCall(next)
          /\ \A x \in Orgs : WillDrop(call[q], x) => WillDrop(next, x)
    BY <2>1, <2>3 DEF CalmCall, WillDrop
  <2> QED BY <1>3, <1>6, <2>1, <2>2, <2>3, <2>4 DEF FindSlug
<1>7. CASE FindKeys(q)
  <2>1. /\ call[q].op = "find keys" /\ call[q] # Idle /\ Reads
    BY <1>7, IdleSane DEF FindKeys
  <2>2. PICK slugs : slugs = {slug[p] : p \in {o \in Orgs : call[q].user \in users[o]}}
    OBVIOUS
  <2>3. To(q, IF slugs = {} THEN Idle ELSE Drop(slugs, {}))
    BY <1>7, <2>2 DEF FindKeys, Sharing
  <2>4. CASE slugs = {}
    <3>1. course = "calm" => \A x \in Orgs : ~WillDrop(call[q], x)
      BY <2>1, <2>2, <2>4 DEF WillDrop
    <3>2. PICK next : next = Idle
      OBVIOUS
    <3> QED BY <1>3, <2>1, <2>3, <2>4, <3>1, <3>2, IdleSane
  <2>5. CASE slugs # {}
    <3>1. PICK next : next = Drop(slugs, {})
      OBVIOUS
    <3>2. next.op = "drop" /\ next.slugs = slugs /\ next.todo = {} /\ CallSane(next)
      <4>1. slugs \in SUBSET Slugs
        BY <1>1, <2>2
      <4> QED BY <3>1, <4>1 DEF CallSane, Drop
    <3>3. course = "calm" =>
            /\ CalmCall(next)
            /\ \A x \in Orgs : WillDrop(call[q], x) => WillDrop(next, x)
      BY <2>1, <2>2, <3>2 DEF CalmCall, WillDrop
    <3> QED BY <1>3, <2>1, <2>3, <2>5, <3>1, <3>2, <3>3
  <2> QED BY <2>4, <2>5
<1> QED BY <1>4, <1>5, <1>6, <1>7

\* The status that is read and built, and the calls that read at GitHub.
LEMMA ShownSane ==
  ASSUME InstTypes, NEW o \in Orgs, NEW r, RowSane(r), NEW g \in GithubUsers \cup {NoUser}
  PROVE  Entry(o, r, g) \in EntryType
<1>1. row \in [Orgs -> RowType] /\ \A p \in Orgs : RowSane(row[p])
  BY DEF InstTypes, RowsSane
<1>2. {<<p, row[p].account>> : p \in Candidates(o, g)} \in SUBSET (Orgs \X Installs)
  <2> SUFFICES ASSUME NEW p \in Candidates(o, g) PROVE p \in Orgs /\ row[p].account \in Installs
    OBVIOUS
  <2> QED BY <1>1 DEF Candidates, Sharing, RowType
<1> QED BY <1>2 DEF Entry, EntryType, RowSane, RowType

LEMMA StatusReadsKeep ==
  ASSUME InstIInv, NEW q \in Requests,
         \/ ReadOrg(q) \/ LookInCache(q) \/ Build(q) \/ \E o \in Orgs : ListIntegrations(q, o)
         \/ \E s \in Slugs : IntegrationStatus(q, s)
  PROVE  InstIInv'
<1>1. /\ CallSane(call[q]) /\ users \in [Orgs -> SUBSET GithubUsers] /\ slug \in [Orgs -> Slugs]
      /\ \A o \in Orgs : RowSane(row[o])
  BY DEF InstIInv, InstTypes, InstTypeOK, CallsSane, RowsSane
<1>2. course = "calm" => CalmCall(call[q])
  BY DEF InstIInv, CalmCourse
<1>3. ASSUME NEW next, next.op # "compare", To(q, next), Reads, CallSane(next),
             course = "calm" =>
               /\ CalmCall(next) /\ (call[q] # Idle \/ AllIdle)
               /\ \A o \in Orgs : ~WillDrop(call[q], o)
      PROVE  InstIInv'
  BY <1>3, ReadKeeps DEF FreeCall
<1>4. ASSUME NEW o \in Orgs, NEW op \in {"look", "build"}, NEW next, next \in Found(op, o)
      PROVE  next.op \notin {"none", "compare"} /\ CallSane(next) /\ CalmCall(next)
  <2>1. PICK g \in OneOf(users[o]) :
          next = [op |-> op, slug |-> slug[o], org |-> o, row |-> row[o], user |-> g]
    BY <1>4 DEF Found
  <2>2. /\ next.op = op /\ next.slug = slug[o] /\ next.org = o /\ next.row = row[o]
        /\ next.user = g
    BY <2>1
  <2>3. g \in GithubUsers \cup {NoUser} /\ row[o] \in RowType
    BY <1>1, <2>1 DEF OneOf, RowSane
  <2>4. next \in [op : {"look", "build"}, slug : Slugs, org : Orgs, row : RowType,
                  user : GithubUsers \cup {NoUser}]
    BY <1>1, <2>1, <2>3
  <2>5. CallSane(next)
    BY <1>1, <2>2, <2>4 DEF CallSane
  <2>6. CalmCall(next)
    BY <2>2 DEF CalmCall, SameOrg
  <2> QED BY <2>2, <2>5, <2>6
<1>5. CASE ReadOrg(q)
  <2>1. call[q].op = "read org" /\ call[q] # Idle /\ Reads /\ \A o : ~WillDrop(call[q], o)
    BY <1>5, IdleSane DEF ReadOrg, WillDrop
  <2>2. CASE To(q, Idle)
    <3>1. PICK next : next = Idle
      OBVIOUS
    <3> QED BY <1>3, <2>1, <2>2, <3>1, IdleSane
  <2>3. ASSUME NEW o \in Orgs, NEW next \in Found("build", o), To(q, next) PROVE InstIInv'
    BY <1>3, <1>4, <2>1, <2>3
  <2> QED BY <1>5, <2>2, <2>3 DEF ReadOrg
<1>6. CASE LookInCache(q)
  <2>1. /\ call[q].op = "look" /\ call[q] # Idle /\ Reads
        /\ \A o : ~WillDrop(call[q], o)
    BY <1>6, IdleSane DEF LookInCache, WillDrop
  <2>2. CASE To(q, Idle)
    <3>1. PICK next : next = Idle
      OBVIOUS
    <3> QED BY <1>3, <2>1, <2>2, <3>1, IdleSane
  <2>3. CASE To(q, [call[q] EXCEPT !.op = "build"])
    <3>1. PICK next : next = [call[q] EXCEPT !.op = "build"]
      OBVIOUS
    <3>2. call[q] \in [op : {"look", "build"}, slug : Slugs, org : Orgs, row : RowType,
                       user : GithubUsers \cup {NoUser}] /\ RowSane(call[q].row)
      BY <1>1, <2>1 DEF CallSane
    <3>3. /\ next.op = "build" /\ next.slug = call[q].slug /\ next.org = call[q].org
          /\ next.row = call[q].row /\ next.user = call[q].user
          /\ next \in [op : {"look", "build"}, slug : Slugs, org : Orgs, row : RowType,
                       user : GithubUsers \cup {NoUser}]
      BY <3>1, <3>2
    <3>4. CallSane(next)
      BY <3>2, <3>3 DEF CallSane
    <3>5. course = "calm" => CalmCall(next)
      BY <1>2, <2>1, <3>3 DEF CalmCall, SameOrg
    <3> QED BY <1>3, <2>1, <2>3, <3>1, <3>3, <3>4, <3>5
  <2> QED BY <1>6, <2>2, <2>3 DEF LookInCache
<1>7. CASE Build(q)
  <2>1. /\ call[q].op = "build" /\ call[q] # Idle /\ Reads
        /\ \A o : ~WillDrop(call[q], o)
    BY <1>7, IdleSane DEF Build, WillDrop
  <2>2. /\ call[q].slug \in Slugs /\ call[q].org \in Orgs /\ RowSane(call[q].row)
        /\ call[q].user \in GithubUsers \cup {NoUser}
    BY <1>1, <2>1 DEF CallSane
  <2>3. PICK e : e = Entry(call[q].org, call[q].row, call[q].user)
    OBVIOUS
  <2>4. e \in EntryType
    BY <2>2, <2>3, ShownSane DEF InstIInv
  <2>5. PICK next : next = [op |-> "keep entry", slug |-> call[q].slug, entry |-> e]
    OBVIOUS
  <2>6. /\ next.op = "keep entry" /\ next.slug = call[q].slug /\ next.entry = e
        /\ CallSane(next)
    BY <2>2, <2>4, <2>5 DEF CallSane
  <2>7. ASSUME course = "calm" PROVE CalmCall(next)
    <3>1. /\ call[q].slug = slug[call[q].org] /\ call[q].user \in OneOf(users[call[q].org])
          /\ SameOrg(call[q].row, call[q].org)
      BY <1>2, <2>1, <2>7 DEF CalmCall
    <3>2. e = Entry(call[q].org, row[call[q].org], call[q].user)
      BY <2>3, <3>1 DEF Entry, SameOrg
    <3>3. Shows(e, call[q].org)
      BY <3>1, <3>2 DEF Shows
    <3> QED BY <2>2, <2>6, <3>1, <3>3 DEF CalmCall
  <2> QED BY <1>3, <1>7, <2>1, <2>3, <2>5, <2>6, <2>7 DEF Build
<1>8. ASSUME NEW s \in Slugs, IntegrationStatus(q, s) PROVE InstIInv'
  <2>1. PICK next : next = [op |-> "read org", slug |-> s]
    OBVIOUS
  <2>2. next.op = "read org" /\ CallSane(next) /\ CalmCall(next)
    BY <2>1 DEF CallSane, CalmCall
  <2>3. call[q] = Idle /\ To(q, next) /\ Reads /\ (course = "calm" => AllIdle)
    BY <1>8, <2>1 DEF IntegrationStatus, Begin, Reads
  <2> QED BY <1>3, <2>2, <2>3, IdleDrops
<1>9. ASSUME NEW o \in Orgs, ListIntegrations(q, o) PROVE InstIInv'
  <2>1. PICK next \in Found("look", o) : Begin(q, next)
    BY <1>9 DEF ListIntegrations
  <2>2. call[q] = Idle /\ To(q, next) /\ Reads /\ (course = "calm" => AllIdle)
    BY <2>1 DEF Begin, Reads
  <2> QED BY <1>3, <1>4, <2>1, <2>2, IdleDrops
<1> QED BY <1>5, <1>6, <1>7, <1>8, <1>9

LEMMA TokenReadsKeep ==
  ASSUME InstIInv, NEW q \in Requests,
         \/ \E o \in Orgs : ReadRepo(q, o) \/ SyncRepositories(q, o)
         \/ ReadToken(q) \/ Mint(q) \/ Use(q) \/ Abandon(q)
  PROVE  InstIInv'
<1> DEFINE Holder == [op : {"mint", "keep token", "use"}, org : Orgs, repo : Repos \cup {NoRepo},
                      sync : BOOLEAN, of : Installs]
<1>1. /\ CallSane(call[q])
      /\ \A o \in Orgs : RowSane(row[o]) /\ resources[o] \in Seq(Repos)
  BY DEF InstIInv, InstTypes, InstTypeOK, CallsSane, RowsSane
<1>2. course = "calm" => CalmCall(call[q]) /\ \A o \in Orgs : CalmRow(o)
  BY DEF InstIInv, CalmCourse
<1>3. ASSUME NEW next, next.op # "compare", To(q, next), Reads, CallSane(next),
             course = "calm" =>
               /\ CalmCall(next) /\ (call[q] # Idle \/ AllIdle)
               /\ \A o \in Orgs : ~WillDrop(call[q], o)
      PROVE  InstIInv'
  BY <1>3, ReadKeeps DEF FreeCall
<1>4. ASSUME To(q, Idle), Reads, call[q] # Idle,
             course = "calm" => \A o \in Orgs : ~WillDrop(call[q], o)
      PROVE  InstIInv'
  <2>1. PICK next : next = Idle
    OBVIOUS
  <2> QED BY <1>3, <1>4, <2>1, IdleSane
<1>5. ASSUME NEW o \in Orgs, ReadRepo(q, o) PROVE InstIInv'
  <2>1. PICK repo \in {NoRepo} \cup (IF resources[o] = <<>> THEN {} ELSE {DefaultRepo(o)}) :
          Begin(q, [op |-> "token", org |-> o, repo |-> repo, sync |-> FALSE])
    BY <1>5 DEF ReadRepo
  <2>2. PICK next : next = [op |-> "token", org |-> o, repo |-> repo, sync |-> FALSE]
    OBVIOUS
  <2>3. call[q] = Idle /\ To(q, next) /\ Reads /\ (course = "calm" => AllIdle)
    BY <2>1, <2>2 DEF Begin, Reads
  <2>4. repo # NoRepo => resources[o] # <<>> /\ repo = Last(resources[o])
    BY <2>1 DEF DefaultRepo
  <2>5. resources[o] # <<>> => Last(resources[o]) \in Repos
    BY <1>1 DEF Last
  <2>6. next.op = "token" /\ next.org = o /\ next.repo = repo /\ CallSane(next)
    BY <2>2, <2>4, <2>5 DEF CallSane
  <2>7. course = "calm" => CalmCall(next)
    BY <1>2, <2>4, <2>6 DEF CalmCall, CalmRow
  <2> QED BY <1>3, <2>3, <2>6, <2>7, IdleDrops
<1>6. ASSUME NEW o \in Orgs, SyncRepositories(q, o) PROVE InstIInv'
  <2>1. PICK next : next = [op |-> "token", org |-> o, repo |-> NoRepo, sync |-> TRUE]
    OBVIOUS
  <2>2. call[q] = Idle /\ To(q, next) /\ Reads /\ (course = "calm" => AllIdle)
    BY <1>6, <2>1 DEF SyncRepositories, Begin, Reads
  <2>3. next.op = "token" /\ next.repo = NoRepo /\ CallSane(next) /\ CalmCall(next)
    BY <2>1 DEF CallSane, CalmCall
  <2> QED BY <1>3, <2>2, <2>3, IdleDrops
<1>7. CASE ReadToken(q)
  <2> DEFINE c == call[q]
             r == row[c.org]
  <2>1. /\ c.op = "token" /\ c # Idle /\ Reads /\ \A o : ~WillDrop(c, o)
        /\ c.org \in Orgs /\ c.repo \in Repos \cup {NoRepo} /\ c.sync \in BOOLEAN
        /\ RowSane(r)
    BY <1>1, <1>7, IdleSane DEF ReadToken, WillDrop, CallSane
  <2>2. CASE r.account = NoInstall
    BY <1>4, <1>7, <2>1, <2>2 DEF ReadToken
  <2>3. CASE r.account # NoInstall
    <3>1. PICK of : of = IF r.token.fresh THEN r.token.of ELSE r.account
      OBVIOUS
    <3>2. PICK op : op = IF r.token.fresh THEN "use" ELSE "mint"
      OBVIOUS
    <3>3. PICK next : next = [op |-> op, org |-> c.org, repo |-> c.repo, sync |-> c.sync,
                              of |-> of]
      OBVIOUS
    <3>4. To(q, next)
      BY <1>7, <2>3, <3>1, <3>2, <3>3 DEF ReadToken
    <3>5. of \in Installs
      BY <2>1, <2>3, <3>1 DEF RowSane, RowType
    <3>6. /\ next.op = op /\ next.org = c.org /\ next.repo = c.repo /\ next.of = of
          /\ next \in Holder
      BY <2>1, <3>2, <3>3, <3>5
    <3>7. CallSane(next)
      BY <3>2, <3>6 DEF CallSane
    <3>8. ASSUME course = "calm" PROVE CalmCall(next)
      <4>1. r.token.fresh => r.token # NoToken
        BY <2>1 DEF RowSane, NoToken
      <4>2. r.token.fresh /\ ~moved[c.org] => r.token.of = r.account
        BY <1>2, <2>1, <3>8, <4>1 DEF CalmRow
      <4>3. /\ op = "mint" => of = r.account
            /\ op = "use" /\ ~moved[c.org] => of = r.account
        BY <3>1, <3>2, <4>2
      <4>4. c.repo # NoRepo /\ synced[c.org] /\ ~moved[c.org] =>
              c.repo \in ToSet(ReposOf[r.account])
        BY <1>2, <2>1, <3>8 DEF CalmCall
      <4> QED BY <3>2, <3>6, <4>3, <4>4 DEF CalmCall
    <3> QED BY <1>3, <2>1, <3>2, <3>4, <3>6, <3>7, <3>8
  <2> QED BY <2>2, <2>3
<1>8. CASE Mint(q)
  <2>1. /\ call[q].op = "mint" /\ call[q] # Idle /\ Reads /\ \A o : ~WillDrop(call[q], o)
        /\ call[q] \in Holder
    BY <1>1, <1>8, IdleSane DEF Mint, WillDrop, CallSane
  <2>2. CASE To(q, Idle)
    BY <1>4, <2>1, <2>2
  <2>3. CASE To(q, [call[q] EXCEPT !.op = "keep token"])
    <3>1. PICK next : next = [call[q] EXCEPT !.op = "keep token"]
      OBVIOUS
    <3>2. /\ next.op = "keep token" /\ next.org = call[q].org /\ next.repo = call[q].repo
          /\ next.of = call[q].of /\ next \in Holder
      BY <2>1, <3>1
    <3>3. CallSane(next)
      BY <3>2 DEF CallSane
    <3>4. course = "calm" => CalmCall(next)
      BY <1>2, <2>1, <3>2 DEF CalmCall
    <3> QED BY <1>3, <2>1, <2>3, <3>1, <3>2, <3>3, <3>4
  <2> QED BY <1>8, <2>2, <2>3 DEF Mint
<1>9. CASE Use(q)
  <2>1. /\ call[q].op = "use" /\ call[q] # Idle /\ Reads /\ \A o : ~WillDrop(call[q], o)
        /\ call[q] \in Holder
    BY <1>1, <1>9, IdleSane DEF Use, WillDrop, CallSane
  <2>2. CASE To(q, Idle)
    BY <1>4, <2>1, <2>2
  <2>3. ASSUME NEW some \in SUBSET ToSet(ReposOf[call[q].of]), some # {},
               To(q, [op |-> "upsert", org |-> call[q].org, of |-> call[q].of, left |-> some])
        PROVE  InstIInv'
    <3>1. PICK next : next = [op |-> "upsert", org |-> call[q].org, of |-> call[q].of,
                              left |-> some]
      OBVIOUS
    <3>2. call[q].org \in Orgs /\ call[q].of \in Installs /\ some \in SUBSET Repos
      BY <2>1, <2>3 DEF Repos
    <3>3. /\ next.op = "upsert" /\ next.org = call[q].org /\ next.of = call[q].of
          /\ next.left = some /\ CallSane(next)
      BY <2>3, <3>1, <3>2 DEF CallSane
    <3>4. course = "calm" => CalmCall(next)
      BY <1>2, <2>1, <3>3 DEF CalmCall
    <3> QED BY <1>3, <2>1, <2>3, <3>1, <3>3, <3>4
  <2> QED BY <1>9, <2>2, <2>3 DEF Use
<1>10. CASE Abandon(q)
  BY <1>4, <1>10 DEF Abandon
<1> QED BY <1>5, <1>6, <1>7, <1>8, <1>9, <1>10

LEMMA ArrivalsKeep ==
  ASSUME InstIInv, NEW q \in Requests,
         \/ \E i \in Installs :
              \/ ReposChanged(q, i) \/ Created(q, i) \/ Deleted(q, i)
              \/ \E o \in Orgs : InstallationCallback(q, o, i)
         \/ \E o \in Orgs :
              \/ \E g \in GithubUsers, replace \in BOOLEAN : OAuthCallback(q, o, g, replace)
              \/ \E from \in Orgs : AutoConnect(q, o, from)
  PROVE  InstIInv'
<1>1. ASSUME NEW next, Begin(q, next), CallSane(next), course = "calm" => CalmCall(next),
             course = "free" => FreeCall(next)
      PROVE  InstIInv'
  <2>1. call[q] = Idle /\ To(q, next) /\ Reads /\ (course = "calm" => AllIdle)
    BY <1>1 DEF Begin, Reads
  <2> QED BY <1>1, <2>1, IdleDrops, ReadKeeps
<1>2. ASSUME NEW i \in Installs PROVE Linked(i) \in SUBSET Orgs
  BY DEF Linked
<1>3. ASSUME NEW i \in Installs, ReposChanged(q, i) PROVE InstIInv'
  <2>1. PICK o \in Linked(i) : Begin(q, SlugOnly(o, {}))
    BY <1>3 DEF ReposChanged
  <2>2. PICK next : next = SlugOnly(o, {})
    OBVIOUS
  <2>3. CallSane(next) /\ CalmCall(next) /\ FreeCall(next)
    BY <1>2, <2>1, <2>2 DEF SlugOnly, CallSane, CalmCall, FreeCall
  <2> QED BY <1>1, <2>1, <2>2, <2>3
<1>4. ASSUME NEW i \in Installs, Created(q, i) PROVE InstIInv'
  <2>1. PICK next : next = [op |-> "mark", install |-> i, todo |-> Linked(i)]
    OBVIOUS
  <2>2. CallSane(next) /\ CalmCall(next) /\ FreeCall(next)
    BY <1>2, <2>1 DEF CallSane, CalmCall, FreeCall
  <2> QED BY <1>1, <1>4, <2>1, <2>2 DEF Created
<1>5. ASSUME NEW i \in Installs, Deleted(q, i) PROVE InstIInv'
  <2>1. PICK next : next = [op |-> "unlink", install |-> i, todo |-> Linked(i)]
    OBVIOUS
  <2>2. CallSane(next) /\ CalmCall(next) /\ FreeCall(next)
    BY <1>2, <2>1 DEF CallSane, CalmCall, FreeCall
  <2> QED BY <1>1, <1>5, <2>1, <2>2 DEF Deleted
<1>6. ASSUME NEW i \in Installs, NEW o \in Orgs, InstallationCallback(q, o, i) PROVE InstIInv'
  <2>1. PICK next : next = [op |-> "link", org |-> o, install |-> i]
    OBVIOUS
  <2>2. CallSane(next) /\ FreeCall(next) /\ (course = "calm" => CalmCall(next))
    BY <1>6, <2>1 DEF InstallationCallback, CallSane, CalmCall, FreeCall
  <2> QED BY <1>1, <1>6, <2>1, <2>2 DEF InstallationCallback
<1>7. ASSUME NEW o \in Orgs, NEW g \in GithubUsers, NEW replace \in BOOLEAN,
             OAuthCallback(q, o, g, replace)
      PROVE  InstIInv'
  <2>1. PICK next : next = [op |-> IF replace THEN "replace" ELSE "authorize", org |-> o,
                            user |-> g]
    OBVIOUS
  <2>2. /\ next.op = (IF replace THEN "replace" ELSE "authorize") /\ next.org = o
        /\ next.user = g
        /\ next \in [op : {"replace", "authorize"}, org : Orgs, user : GithubUsers]
    BY <2>1
  <2>3. CallSane(next) /\ FreeCall(next)
    BY <2>2 DEF CallSane, FreeCall
  <2>4. course = "calm" => CalmCall(next)
    BY <2>2 DEF CalmCall
  <2> QED BY <1>1, <1>7, <2>1, <2>3, <2>4 DEF OAuthCallback
<1>8. ASSUME NEW o \in Orgs, NEW from \in Orgs, AutoConnect(q, o, from) PROVE InstIInv'
  <2>1. PICK next : next = [op |-> "compare", org |-> o, from |-> from, dest |-> Unread,
                            src |-> Unread]
    OBVIOUS
  <2>2. /\ next.op = "compare" /\ next.org = o /\ next.from = from /\ next.dest = Unread
        /\ next.src = Unread
    BY <2>1
  <2>3. /\ CopySane(Unread) /\ Unread.users = {} /\ ~Unread.known
        /\ Unread.row.account = NoInstall
    BY InstallationsAssumption
    DEF Unread, Unlinked, NoToken, CopySane, RowSane, RowType, TokenType
  <2>4. CallSane(next)
    BY <2>1, <2>2, <2>3 DEF CallSane
  <2>5. FreeCall(next) /\ CalmCall(next)
    BY <2>2, <2>3 DEF FreeCall, CalmCall, Vouched
  <2> QED BY <1>1, <1>8, <2>1, <2>4, <2>5 DEF AutoConnect
<1> QED BY <1>3, <1>4, <1>5, <1>6, <1>7, <1>8

-----------------------------------------------------------------------------
\* The steps that write.  First, what keeps a tie and an entry.

LEMMA VouchedStays ==
  ASSUME vouched \subseteq vouched', \A o \in Orgs : authorized[o] \subseteq authorized'[o],
         NEW o \in Orgs, NEW i, Vouched(o, i)
  PROVE  Vouched(o, i)'
<1> SUFFICES ASSUME NEW set \in SUBSET Orgs, i # NoInstall, o \in set, Closed(set)'
             PROVE  \E p \in set : <<p, i>> \in vouched'
  BY DEF Vouched
<1>1. Closed(set)
  BY DEF Closed
<1> QED BY <1>1 DEF Vouched

LEMMA FreeGoesOn ==
  ASSUME CallsSane, FreeCourse, NEW q \in Requests, NEW next, CallSane(next), To(q, next),
         course' = course,
         course = "free" =>
           /\ vouched \subseteq vouched' /\ \A o \in Orgs : authorized[o] \subseteq authorized'[o]
           /\ \A o \in Orgs : users'[o] \subseteq authorized'[o]
           /\ \A o \in Orgs : row'[o].account = row[o].account \/ Vouched(o, row[o].account)'
           /\ FreeCall(next)'
  PROVE  FreeCourse'
<1> SUFFICES ASSUME course = "free"
             PROVE  FreeRows' /\ \A p \in Requests : FreeCall(call[p])'
  BY DEF FreeCourse
<1>1. /\ call'[q] = next
      /\ \A p \in Requests : p # q => call'[p] = call[p]
  BY GoesOn
<1>2. FreeRows /\ \A p \in Requests : FreeCall(call[p])
  BY DEF FreeCourse
<1>3. FreeRows'
  <2> SUFFICES ASSUME NEW o \in Orgs PROVE Vouched(o, row[o].account)'
    BY DEF FreeRows
  <2>1. PICK i : i = row[o].account
    OBVIOUS
  <2>2. Vouched(o, i)
    BY <1>2, <2>1 DEF FreeRows
  <2>3. Vouched(o, i)'
    BY <2>2, VouchedStays
  <2> QED BY <2>1, <2>3 DEF Vouched
<1>4. ASSUME NEW p \in Requests PROVE FreeCall(call[p])'
  <2>1. PICK c : c = call'[p]
    OBVIOUS
  <2>2. CASE p = q
    BY <1>1, <2>2
  <2>3. CASE p # q
    <3>1. FreeCall(c) /\ CallSane(c)
      BY <1>1, <1>2, <2>1, <2>3 DEF CallsSane
    <3>2. FreeCall(c)'
      <4> SUFFICES ASSUME c.op = "compare"
                   PROVE  /\ c.dest.users \subseteq authorized'[c.org]
                          /\ c.src.users \subseteq authorized'[c.from]
                          /\ Vouched(c.from, c.src.row.account)'
        BY DEF FreeCall
      <4>1. c.org \in Orgs /\ c.from \in Orgs
        BY <3>1 DEF CallSane
      <4>2. Vouched(c.from, c.src.row.account)'
        BY <3>1, <4>1, VouchedStays DEF FreeCall
      <4> QED BY <3>1, <4>1, <4>2 DEF FreeCall
    <3> QED BY <2>1, <3>2 DEF FreeCall
  <2> QED BY <2>2, <2>3
<1> QED BY <1>3, <1>4

\* An entry stays the one that would be built, if neither its organization nor those it
\* shares an account with change.
LEMMA EntryStays ==
  ASSUME NEW o \in Orgs, EntryFresh(o), slug' = slug, cache'[slug[o]] = cache[slug[o]],
         deserted \subseteq deserted',
         \A p \in Orgs :
           p = o \/ users[p] \cap users[o] # {} \/ users'[p] \cap users[o] # {} =>
             users'[p] = users[p] /\ SameOrg(row'[p], p)
  PROVE  EntryFresh(o)'
<1> SUFFICES ASSUME cache[slug[o]] # NoEntry, Settled(o)'
             PROVE  Shows(cache[slug[o]], o)'
  BY DEF EntryFresh
<1>0. Settled(o)
  BY DEF Settled
<1>1. PICK g \in OneOf(users[o]) : cache[slug[o]] = Entry(o, row[o], g)
  BY <1>0 DEF EntryFresh, Shows
<1>2. users'[o] = users[o] /\ row'[o].status = row[o].status /\ row'[o].account = row[o].account
  BY DEF SameOrg
<1>3. g # NoUser => g \in users[o]
  BY <1>1 DEF OneOf
<1>4. ASSUME g # NoUser
      PROVE  {<<p, row[p].account>> : p \in Candidates(o, g)}'
               = {<<p, row[p].account>> : p \in Candidates(o, g)}
  <2>1. \A p \in Orgs : g \in users[p] \/ g \in users'[p] =>
                          users'[p] = users[p] /\ SameOrg(row'[p], p)
    BY <1>3, <1>4
  <2>2. \A p \in Orgs : p \in Candidates(o, g) <=> p \in Candidates(o, g)'
    BY <2>1 DEF Candidates, Sharing, SameOrg
  <2>3. Candidates(o, g)' = Candidates(o, g)
    BY <2>2 DEF Candidates, Sharing
  <2>4. \A p \in Candidates(o, g) : row'[p].account = row[p].account
    BY <2>1 DEF Candidates, Sharing, SameOrg
  <2> QED BY <2>3, <2>4
<1>5. Entry(o, row[o], g)' = Entry(o, row[o], g)
  BY <1>2, <1>4 DEF Entry
<1>6. g \in OneOf(users[o])'
  BY <1>1, <1>2 DEF OneOf
<1>7. Shows(cache[slug[o]], o)'
  BY <1>1, <1>5, <1>6 DEF Shows
<1> QED BY <1>7

\* In a calm course, an entry that the request does not drop stays or was already wrong.
LEMMA CalmEntries ==
  ASSUME CalmCourse, course = "calm", NEW q \in Requests, call[q] # Idle, NEW o \in Orgs
  PROVE  EntryFresh(o) \/ WillDrop(call[q], o)
<1>1. \A p \in Requests : p # q => call[p] = Idle
  BY DEF CalmCourse, OneAtATime
<1>2. CalmEntry(o)
  BY DEF CalmCourse
<1> QED BY <1>1, <1>2, IdleDrops DEF CalmEntry

\* What an invalidation will drop, after the step that asks for it.
LEMMA InvalidateNext ==
  ASSUME NEW todo \in SUBSET Orgs, NEW next, next = Invalidate(todo)
  PROVE  /\ CallSane(next) /\ FreeCall(next)' /\ CalmCall(next)'
         /\ \A o \in Orgs : (\E p \in todo : p = o \/ users'[p] \cap users'[o] # {})
                              => WillDrop(next, o)'
<1>1. CASE todo = {}
  <2>1. next = Idle
    BY <1>1 DEF Invalidate
  <2>2. next.op = "none"
    BY <2>1, IdleSane
  <2> QED BY <1>1, <2>1, <2>2, IdleSane DEF FreeCall, CalmCall
<1>2. CASE todo # {}
  <2>1. next = [op |-> "invalidate", todo |-> todo]
    BY <1>2 DEF Invalidate
  <2>2. next.op = "invalidate" /\ next.todo = todo
    BY <2>1
  <2>3. CallSane(next) /\ FreeCall(next)' /\ CalmCall(next)'
    BY <2>1, <2>2 DEF CallSane, FreeCall, CalmCall
  <2>4. \A o \in Orgs : (\E p \in todo : p = o \/ users'[p] \cap users'[o] # {})
                          => WillDrop(next, o)'
    BY <2>2 DEF WillDrop, Covers
  <2> QED BY <2>3, <2>4
<1> QED BY <1>1, <1>2

LEMMA DropKeeps ==
  ASSUME InstIInv, NEW q \in Requests, DropEntries(q)
  PROVE  InstIInv'
<1> DEFINE c == call[q]
<1>1. /\ CallsSane /\ CallSane(c) /\ InstTypeOK /\ cache = [s \in Slugs |-> cache[s]]
  BY DEF InstIInv, InstTypes, CallsSane, PastSane
<1>2. /\ c.op = "drop" /\ c # Idle
      /\ UNCHANGED <<slug, users, row, resources, phase, told, vouched, authorized, deserted>>
      /\ UNCHANGED <<moved, synced, course>>
  BY IdleSane DEF DropEntries, rows, trace
<1>3. PICK todo : todo = c.todo
  OBVIOUS
<1>4. PICK next : next = Invalidate(todo)
  OBVIOUS
<1>5. todo \in SUBSET Orgs /\ To(q, next)
  BY <1>1, <1>2, <1>3, <1>4 DEF CallSane, DropEntries
<1>6. /\ CallSane(next) /\ FreeCall(next)' /\ CalmCall(next)'
      /\ \A o \in Orgs : (\E p \in todo : p = o \/ users'[p] \cap users'[o] # {})
                           => WillDrop(next, o)'
  BY <1>4, <1>5, InvalidateNext
<1>7. \/ cache' = [s \in Slugs |-> IF s \in c.slugs THEN NoEntry ELSE cache[s]]
      \/ course = "free" /\ UNCHANGED cache
  BY DEF DropEntries
<1>8. /\ \A s \in Slugs : cache'[s] = NoEntry \/ cache'[s] \in EntryType
      /\ cache' = [s \in Slugs |-> cache'[s]]
  BY <1>1, <1>7 DEF InstTypeOK
<1>9. CallsSane'
  BY <1>1, <1>5, <1>6, GoesOn
<1>10. InstTypes'
  BY <1>2, <1>8, <1>9 DEF InstIInv, InstTypes, InstTypeOK, RowsSane, PastSane
<1>11. FreeCourse'
  <2>1. course = "free" => \A o \in Orgs : users[o] \subseteq authorized[o]
    BY DEF InstIInv, FreeCourse, FreeRows
  <2> QED BY <1>1, <1>2, <1>5, <1>6, <2>1, FreeGoesOn DEF InstIInv
<1>12. CalmCourse'
  <2> SUFFICES ASSUME course = "calm" PROVE CalmCourse'
    BY <1>2 DEF CalmCourse
  <2>1. ASSUME NEW o \in Orgs
        PROVE  CalmRow(o)' /\ (EntryFresh(o)' \/ WillDrop(next, o)')
    <3>1. CalmRow(o)'
      BY <1>2 DEF InstIInv, CalmCourse, CalmRow
    <3>2. EntryFresh(o) \/ WillDrop(c, o)
      BY <1>2, CalmEntries DEF InstIInv
    <3>3. slug[o] \in Slugs
      BY <1>1 DEF InstTypeOK
    <3>4. CASE slug[o] \in c.slugs
      <4>1. cache'[slug'[o]] = NoEntry
        BY <1>2, <1>7, <3>3, <3>4
      <4> QED BY <3>1, <4>1 DEF EntryFresh
    <3>5. CASE slug[o] \notin c.slugs /\ EntryFresh(o)
      <4>1. cache'[slug[o]] = cache[slug[o]]
        BY <1>7, <3>3, <3>5
      <4>2. \A p \in Orgs : users'[p] = users[p] /\ SameOrg(row'[p], p)
        BY <1>2 DEF SameOrg
      <4> QED BY <1>2, <3>1, <3>5, <4>1, <4>2, EntryStays
    <3>6. CASE slug[o] \notin c.slugs /\ WillDrop(c, o)
      <4>1. \E p \in todo : p = o \/ users'[p] \cap users'[o] # {}
        BY <1>2, <1>3, <3>6 DEF WillDrop, Covers
      <4> QED BY <1>6, <3>1, <4>1
    <3> QED BY <3>1, <3>2, <3>4, <3>5, <3>6
  <2> QED BY <1>1, <1>2, <1>5, <1>6, <2>1, CalmGoesOn DEF InstIInv
<1> QED BY <1>10, <1>11, <1>12 DEF InstIInv

LEMMA KeepEntryKeeps ==
  ASSUME InstIInv, NEW q \in Requests, KeepEntry(q)
  PROVE  InstIInv'
<1> DEFINE c == call[q]
<1>1. /\ CallsSane /\ CallSane(c) /\ InstTypeOK /\ cache = [s \in Slugs |-> cache[s]]
  BY DEF InstIInv, InstTypes, CallsSane, PastSane
<1>2. /\ c.op = "keep entry" /\ c # Idle /\ To(q, Idle)
      /\ UNCHANGED <<slug, users, row, resources, phase, told, vouched, authorized, deserted>>
      /\ UNCHANGED <<moved, synced, course>>
  BY IdleSane DEF KeepEntry, rows, trace
<1>3. PICK next : next = Idle
  OBVIOUS
<1>4. CallSane(next) /\ FreeCall(next)' /\ CalmCall(next)' /\ To(q, next)
  BY <1>2, <1>3, IdleSane DEF FreeCall, CalmCall
<1>5. c.slug \in Slugs /\ c.entry \in EntryType
  BY <1>1, <1>2 DEF CallSane
<1>6. \/ cache' = [cache EXCEPT ![c.slug] = c.entry]
      \/ course = "free" /\ UNCHANGED cache
  BY DEF KeepEntry
<1>7. /\ \A s \in Slugs : cache'[s] = NoEntry \/ cache'[s] \in EntryType
      /\ cache' = [s \in Slugs |-> cache'[s]]
  BY <1>1, <1>5, <1>6 DEF InstTypeOK
<1>8. CallsSane'
  BY <1>1, <1>4, GoesOn
<1>9. InstTypes'
  BY <1>2, <1>7, <1>8 DEF InstIInv, InstTypes, InstTypeOK, RowsSane, PastSane
<1>10. FreeCourse'
  <2>1. course = "free" => \A o \in Orgs : users[o] \subseteq authorized[o]
    BY DEF InstIInv, FreeCourse, FreeRows
  <2> QED BY <1>1, <1>2, <1>4, <2>1, FreeGoesOn DEF InstIInv
<1>11. CalmCourse'
  <2> SUFFICES ASSUME course = "calm" PROVE CalmCourse'
    BY <1>2 DEF CalmCourse
  <2>1. PICK p \in Orgs : c.slug = slug[p] /\ Shows(c.entry, p)
    BY <1>2 DEF InstIInv, CalmCourse, CalmCall
  <2>2. ASSUME NEW o \in Orgs
        PROVE  CalmRow(o)' /\ (EntryFresh(o)' \/ WillDrop(next, o)')
    <3>1. CalmRow(o)'
      BY <1>2 DEF InstIInv, CalmCourse, CalmRow
    <3>2. EntryFresh(o)
      BY <1>2, CalmEntries DEF InstIInv, WillDrop
    <3>3. slug[o] \in Slugs /\ (slug[o] = slug[p] => o = p)
      BY <1>1 DEF InstTypeOK
    <3>4. CASE o # p
      <4>1. cache'[slug[o]] = cache[slug[o]]
        BY <1>1, <1>6, <2>1, <3>3, <3>4
      <4> QED BY <1>2, <3>1, <3>2, <4>1, EntryStays DEF SameOrg
    <3>5. CASE o = p
      <4>1. cache'[slug[p]] = cache[slug[p]] \/ cache'[slug[p]] = c.entry
        BY <1>1, <1>5, <1>6, <2>1
      <4>2. CASE cache'[slug[p]] = c.entry
        <5>1. PICK e : e = c.entry
          OBVIOUS
        <5>2. Shows(e, p)'
          BY <1>2, <2>1, <5>1 DEF Shows, OneOf, Entry, Candidates, Sharing
        <5>3. Shows(cache[slug[p]], p)'
          BY <1>2, <4>2, <5>1, <5>2 DEF Shows
        <5> QED BY <3>1, <3>5, <5>3 DEF EntryFresh
      <4>3. CASE cache'[slug[p]] = cache[slug[p]]
        BY <1>2, <3>1, <3>2, <3>5, <4>3, EntryStays DEF SameOrg
      <4> QED BY <4>1, <4>2, <4>3
    <3> QED BY <3>4, <3>5
  <2> QED BY <1>1, <1>2, <1>4, <2>2, CalmGoesOn DEF InstIInv
<1> QED BY <1>9, <1>10, <1>11 DEF InstIInv

\* Rows are written, and accounts and entries left alone.
LEMMA RowsKeep ==
  ASSUME InstIInv, NEW q \in Requests, call[q] # Idle, NEW next, CallSane(next), To(q, next),
         UNCHANGED <<slug, users, resources, cache, phase, authorized, deserted, course>>,
         RowsSane', told' \subseteq Installs, vouched' \subseteq Orgs \X Installs,
         moved' \in [Orgs -> BOOLEAN], synced' \in [Orgs -> BOOLEAN],
         vouched \subseteq vouched',
         course = "free" =>
           /\ FreeCall(next)'
           /\ \A o \in Orgs : row'[o].account = row[o].account \/ Vouched(o, row[o].account)',
         course = "calm" =>
           /\ CalmCall(next)' /\ \A o \in Orgs : CalmRow(o)'
           /\ \A o \in Orgs : Settled(o) /\ ~WillDrop(next, o)' =>
                /\ ~WillDrop(call[q], o)
                /\ \A p \in Orgs : p = o \/ users[p] \cap users[o] # {} => SameOrg(row'[p], p)
  PROVE  InstIInv'
<1>1. CallsSane /\ CallsSane' /\ InstTypeOK
  BY GoesOn DEF InstIInv, InstTypes
<1>2. \A o \in Orgs : (row'[o].status = "CONNECTED") <=> (row'[o].account # NoInstall)
  BY DEF RowsSane, RowSane
<1>3. InstTypes'
  BY <1>1, <1>2 DEF InstIInv, InstTypes, InstTypeOK, RowsSane, PastSane
<1>4. FreeCourse'
  <2>1. course = "free" => \A o \in Orgs : users[o] \subseteq authorized[o]
    BY DEF InstIInv, FreeCourse, FreeRows
  <2> QED BY <1>1, <2>1, FreeGoesOn DEF InstIInv
<1>5. CalmCourse'
  <2> SUFFICES ASSUME course = "calm" PROVE CalmCourse'
    BY DEF CalmCourse
  <2>1. ASSUME NEW o \in Orgs, ~WillDrop(next, o)'
        PROVE  EntryFresh(o)'
    <3>1. CASE Settled(o)
      <4>1. EntryFresh(o)
        BY <2>1, <3>1, CalmEntries DEF InstIInv
      <4>2. \A p \in Orgs :
              p = o \/ users[p] \cap users[o] # {} \/ users'[p] \cap users[o] # {} =>
                users'[p] = users[p] /\ SameOrg(row'[p], p)
        BY <2>1, <3>1
      <4> QED BY <4>1, <4>2, EntryStays
    <3>2. CASE ~Settled(o)
      BY <3>2 DEF EntryFresh, Settled
    <3> QED BY <3>1, <3>2
  <2> QED BY <1>1, <2>1, CalmGoesOn DEF InstIInv
<1> QED BY <1>3, <1>4, <1>5 DEF InstIInv

LEMMA CalmRowStays ==
  ASSUME NEW p \in Orgs, CalmRow(p),
         UNCHANGED <<row[p], users[p], resources[p], told, deserted>>,
         moved'[p] <=> moved[p], synced'[p] <=> synced[p]
  PROVE  CalmRow(p)'
<1>1. /\ row'[p] = row[p] /\ users'[p] = users[p] /\ resources'[p] = resources[p]
      /\ told' = told /\ deserted' = deserted
  OBVIOUS
<1> QED BY <1>1 DEF CalmRow

LEMMA LinkKeeps ==
  ASSUME InstIInv, NEW q \in Requests, Link(q)
  PROVE  InstIInv'
<1>1. PICK c, o, i, r : c = call[q] /\ o = c.org /\ i = c.install /\ r = row[o]
  OBVIOUS
<1>2. CallSane(c) /\ RowsSane /\ PastSane
  BY <1>1 DEF InstIInv, InstTypes, CallsSane
<1>3. c.op = "link" /\ c # Idle /\ o \in Orgs /\ i \in Installs /\ RowSane(r)
  BY <1>1, <1>2, IdleSane DEF Link, CallSane, RowsSane
<1>4. PICK next : next = Invalidate({o})
  OBVIOUS
<1>5. /\ row' = [row EXCEPT ![o].status = "CONNECTED", ![o].account = i]
      /\ moved' = [moved EXCEPT ![o] =
                     @ \/ (course = "calm" /\ row[o].account \notin {NoInstall, i})]
      /\ synced' = [synced EXCEPT ![o] = FALSE]
      /\ vouched' = vouched \cup {e \in {<<o, i>>} : course = "free"}
      /\ To(q, next)
      /\ UNCHANGED <<slug, users, resources, cache, phase, told, authorized, deserted, course>>
  BY <1>1, <1>4 DEF Link
<1>6. /\ CallSane(next) /\ FreeCall(next)' /\ CalmCall(next)'
      /\ \A x \in Orgs : (\E p \in {o} : p = x \/ users'[p] \cap users'[x] # {})
                           => WillDrop(next, x)'
  BY <1>3, <1>4, InvalidateNext
<1>7. /\ row'[o] = [r EXCEPT !.status = "CONNECTED", !.account = i]
      /\ \A p \in Orgs : p # o => row'[p] = row[p]
  BY <1>1, <1>2, <1>3, <1>5 DEF RowsSane
<1>8. i # NoInstall
  BY <1>3, InstallationsAssumption
<1>9. /\ row'[o].status = "CONNECTED" /\ row'[o].account = i /\ row'[o].token = r.token
      /\ RowSane(row'[o])
  BY <1>3, <1>7, <1>8 DEF RowSane, RowType
<1>10. RowsSane'
  <2>1. \A p \in Orgs : RowSane(row'[p])
    BY <1>2, <1>7, <1>9 DEF RowsSane
  <2>2. row' \in [Orgs -> RowType]
    BY <1>2, <1>5, <2>1 DEF RowsSane, RowSane
  <2> QED BY <2>1, <2>2 DEF RowsSane
<1>11. /\ moved' \in [Orgs -> BOOLEAN] /\ synced' \in [Orgs -> BOOLEAN]
       /\ told' \subseteq Installs /\ vouched' \subseteq Orgs \X Installs
       /\ \A p \in Orgs : p # o => moved'[p] = moved[p] /\ synced'[p] = synced[p]
       /\ synced'[o] = FALSE
       /\ course = "calm" /\ ~moved'[o] => ~moved[o] /\ r.account \in {NoInstall, i}
  <2>1. moved \in [Orgs -> BOOLEAN] /\ synced \in [Orgs -> BOOLEAN]
    BY <1>2 DEF PastSane
  <2>2. PICK b \in BOOLEAN : b = (moved[o] \/ (course = "calm" /\ r.account \notin {NoInstall, i}))
    OBVIOUS
  <2>3. moved' = [moved EXCEPT ![o] = b]
    BY <1>1, <1>5, <2>2
  <2>4. /\ moved' \in [Orgs -> BOOLEAN] /\ moved'[o] = b
        /\ \A p \in Orgs : p # o => moved'[p] = moved[p]
    BY <1>3, <2>1, <2>3
  <2>5. /\ synced' \in [Orgs -> BOOLEAN] /\ synced'[o] = FALSE
        /\ \A p \in Orgs : p # o => synced'[p] = synced[p]
    BY <1>3, <1>5, <2>1
  <2>6. told' \subseteq Installs /\ vouched' \subseteq Orgs \X Installs
    BY <1>2, <1>3, <1>5 DEF PastSane
  <2> QED BY <2>2, <2>4, <2>5, <2>6
<1>12. course = "free" => Vouched(o, row[o].account)'
  BY <1>3, <1>5, <1>9 DEF Vouched
<1>13. ASSUME course = "calm", NEW p \in Orgs PROVE CalmRow(p)'
  <2>1. CalmRow(p)
    BY <1>13 DEF InstIInv, CalmCourse
  <2>2. CASE p # o
    <3>1. /\ UNCHANGED <<row[p], users[p], resources[p], told, deserted>>
          /\ moved'[p] = moved[p] /\ synced'[p] = synced[p]
      BY <1>5, <1>7, <1>11, <2>2
    <3> QED BY <2>1, <3>1, CalmRowStays
  <2>3. CASE p = o
    <3>1. i \notin told
      BY <1>1, <1>3, <1>13 DEF InstIInv, CalmCourse, CalmCall
    <3>2. r.token # NoToken /\ ~moved'[o] => r.token.of = i
      BY <1>1, <1>11, <1>13, <2>1, <2>3 DEF CalmRow
    <3> QED BY <1>5, <1>8, <1>9, <1>11, <2>1, <2>3, <3>1, <3>2 DEF CalmRow
  <2> QED BY <2>2, <2>3
<1>14. ASSUME course = "calm", NEW x \in Orgs, ~WillDrop(next, x)'
       PROVE  /\ ~WillDrop(call[q], x)
              /\ \A p \in Orgs : p = x \/ users[p] \cap users[x] # {} => SameOrg(row'[p], p)
  <2>1. x # o /\ users[o] \cap users[x] = {}
    BY <1>5, <1>6, <1>14
  <2> QED BY <1>1, <1>3, <1>7, <2>1 DEF WillDrop, SameOrg
<1>15. \A p \in Orgs : course = "free" =>
         row'[p].account = row[p].account \/ Vouched(p, row[p].account)'
  BY <1>7, <1>12
<1>16. call[q] # Idle /\ vouched \subseteq vouched'
  BY <1>1, <1>3, <1>5
<1> QED BY <1>5, <1>6, <1>10, <1>11, <1>13, <1>14, <1>15, <1>16, RowsKeep

LEMMA MarkKeeps ==
  ASSUME InstIInv, NEW q \in Requests, MarkConnected(q)
  PROVE  InstIInv'
<1>1. PICK c, todo, next : c = call[q] /\ todo = c.todo /\ next = Invalidate(todo)
  OBVIOUS
<1>2. CallSane(c) /\ RowsSane
  BY <1>1 DEF InstIInv, InstTypes, CallsSane
<1>3. c.op = "mark" /\ c # Idle /\ todo \in SUBSET Orgs /\ c.install \in Installs
  BY <1>1, <1>2, IdleSane DEF MarkConnected, CallSane
<1>4. \A o \in Orgs : o \in Linked(c.install) => [row[o] EXCEPT !.status = "CONNECTED"] = row[o]
  <2> SUFFICES ASSUME NEW o \in Orgs, o \in Linked(c.install)
               PROVE  [row[o] EXCEPT !.status = "CONNECTED"] = row[o]
    OBVIOUS
  <2>1. row[o] \in RowType /\ row[o].status = "CONNECTED"
    BY <1>2, <1>3, InstallationsAssumption DEF RowsSane, RowSane, Linked
  <2> QED BY <2>1 DEF RowType
<1>5. row' = row
  <2>1. row' = [o \in Orgs |-> row[o]]
    BY <1>1, <1>4 DEF MarkConnected
  <2> QED BY <1>2, <2>1 DEF RowsSane
<1>6. To(q, next) /\ Reads
  BY <1>1, <1>5 DEF MarkConnected, Reads, rows
<1>7. CallSane(next) /\ FreeCall(next) /\ CalmCall(next)
  <2>1. CASE todo = {}
    BY <1>1, <2>1, IdleSane DEF Invalidate
  <2>2. CASE todo # {}
    <3>1. next = [op |-> "invalidate", todo |-> todo]
      BY <1>1, <2>2 DEF Invalidate
    <3> QED BY <1>3, <3>1 DEF CallSane, FreeCall, CalmCall
  <2> QED BY <2>1, <2>2
<1>8. \A o \in Orgs : ~WillDrop(call[q], o)
  BY <1>1, <1>3 DEF WillDrop
<1> QED BY <1>1, <1>3, <1>6, <1>7, <1>8, ReadKeeps

LEMMA UnlinkedSane == RowSane(Unlinked) /\ Unlinked.account = NoInstall /\ Unlinked.token = NoToken
BY InstallationsAssumption DEF RowSane, RowType, TokenType, Unlinked, NoToken

LEMMA UnlinkKeeps ==
  ASSUME InstIInv, NEW q \in Requests, Unlink(q)
  PROVE  InstIInv'
<1>1. PICK c, i, L, todo, next :
        c = call[q] /\ i = c.install /\ L = Linked(i) /\ todo = c.todo /\ next = Invalidate(todo)
  OBVIOUS
<1>2. CallSane(c) /\ RowsSane /\ PastSane
  BY <1>1 DEF InstIInv, InstTypes, CallsSane
<1>3. c.op = "unlink" /\ c # Idle /\ todo \in SUBSET Orgs /\ i \in Installs
  BY <1>1, <1>2, IdleSane DEF Unlink, CallSane
<1>4. /\ row' = [o \in Orgs |-> IF o \in L THEN Unlinked ELSE row[o]]
      /\ moved' = [o \in Orgs |-> o \notin L /\ moved[o]]
      /\ synced' = [o \in Orgs |-> o \notin L /\ synced[o]]
      /\ told' = told \cup {i} /\ To(q, next)
      /\ UNCHANGED <<slug, users, resources, cache, phase, vouched, authorized, deserted, course>>
  BY <1>1 DEF Unlink
<1>5. L = {o \in Orgs : row[o].account = i}
  BY <1>1 DEF Linked
<1>6. /\ CallSane(next) /\ FreeCall(next)' /\ CalmCall(next)'
      /\ \A x \in Orgs : (\E p \in todo : p = x \/ users'[p] \cap users'[x] # {})
                           => WillDrop(next, x)'
  BY <1>1, <1>3, InvalidateNext
<1>7. /\ \A o \in L : row'[o] = Unlinked /\ moved'[o] = FALSE /\ synced'[o] = FALSE
      /\ \A o \in Orgs : o \notin L => /\ row'[o] = row[o]
                                       /\ moved'[o] = moved[o] /\ synced'[o] = synced[o]
  <2>1. moved \in [Orgs -> BOOLEAN] /\ synced \in [Orgs -> BOOLEAN]
    BY <1>2 DEF PastSane
  <2> QED BY <1>4, <1>5, <2>1
<1>8. RowsSane'
  BY <1>2, <1>4, <1>7, UnlinkedSane DEF RowsSane, RowSane
<1>9. /\ moved' \in [Orgs -> BOOLEAN] /\ synced' \in [Orgs -> BOOLEAN]
      /\ told' \subseteq Installs /\ vouched' \subseteq Orgs \X Installs
      /\ vouched \subseteq vouched'
  BY <1>2, <1>3, <1>4 DEF PastSane
<1>10. \A o \in Orgs : row'[o].account = row[o].account \/ Vouched(o, row[o].account)'
  BY <1>7, UnlinkedSane DEF Vouched
<1>11. ASSUME course = "calm" PROVE todo = L
  BY <1>1, <1>3, <1>11 DEF InstIInv, CalmCourse, CalmCall
<1>12. ASSUME course = "calm", NEW p \in Orgs PROVE CalmRow(p)'
  <2>1. CalmRow(p)
    BY <1>12 DEF InstIInv, CalmCourse
  <2>2. CASE p \in L
    <3>1. NoInstall \notin told' /\ users'[p] = users[p] /\ deserted' = deserted
      BY <1>4, <1>9, InstallationsAssumption
    <3>2. row'[p].account = NoInstall /\ row'[p].token = NoToken /\ ~synced'[p]
      BY <1>7, <2>2, UnlinkedSane
    <3>3. \A g, h \in users'[p] : g = h \/ g \in deserted'
      BY <2>1, <3>1 DEF CalmRow
    <3> QED BY <3>1, <3>2, <3>3 DEF CalmRow
  <2>3. CASE p \notin L
    <3>1. /\ row'[p] = row[p] /\ moved'[p] = moved[p] /\ synced'[p] = synced[p]
          /\ users'[p] = users[p] /\ resources'[p] = resources[p]
      BY <1>4, <1>7, <2>3
    <3>2. row'[p].account \notin told'
      BY <1>4, <1>5, <2>1, <2>3, <3>1 DEF CalmRow
    <3>3. deserted' = deserted
      BY <1>4
    <3> QED BY <2>1, <3>1, <3>2, <3>3 DEF CalmRow
  <2> QED BY <2>2, <2>3
<1>13. ASSUME course = "calm", NEW x \in Orgs, ~WillDrop(next, x)'
       PROVE  /\ ~WillDrop(call[q], x)
              /\ \A p \in Orgs : p = x \/ users[p] \cap users[x] # {} => SameOrg(row'[p], p)
  <2>1. x \notin L /\ \A p \in L : users[p] \cap users[x] = {}
    BY <1>4, <1>6, <1>11, <1>13
  <2> QED BY <1>1, <1>3, <1>7, <2>1 DEF WillDrop, SameOrg
<1>14. call[q] # Idle
  BY <1>1, <1>3
<1> QED BY <1>4, <1>6, <1>8, <1>9, <1>10, <1>12, <1>13, <1>14, RowsKeep

LEMMA KeepTokenKeeps ==
  ASSUME InstIInv, NEW q \in Requests, KeepToken(q)
  PROVE  InstIInv'
<1> DEFINE Holder == [op : {"mint", "keep token", "use"}, org : Orgs, repo : Repos \cup {NoRepo},
                      sync : BOOLEAN, of : Installs]
<1>1. PICK c, o, next : c = call[q] /\ o = c.org /\ next = [c EXCEPT !.op = "use"]
  OBVIOUS
<1>2. CallSane(c) /\ RowsSane /\ PastSane
  BY <1>1 DEF InstIInv, InstTypes, CallsSane
<1>3. c.op = "keep token" /\ c # Idle /\ c \in Holder /\ o \in Orgs /\ c.of \in Installs
  BY <1>1, <1>2, IdleSane DEF KeepToken, CallSane
<1>4. /\ row' = [row EXCEPT ![o].token = [of |-> c.of, fresh |-> TRUE]]
      /\ To(q, next)
      /\ UNCHANGED <<slug, users, resources, cache, phase, told, vouched, authorized, deserted,
                     course>>
      /\ UNCHANGED <<moved, synced>>
  BY <1>1 DEF KeepToken, trace
<1>5. /\ next.op = "use" /\ next.org = o /\ next.of = c.of /\ next.repo = c.repo
      /\ next \in Holder
  BY <1>1, <1>3
<1>6. CallSane(next) /\ FreeCall(next)'
  BY <1>5 DEF CallSane, FreeCall
<1>7. /\ RowSane(row[o]) /\ row'[o] = [row[o] EXCEPT !.token = [of |-> c.of, fresh |-> TRUE]]
      /\ \A p \in Orgs : p # o => row'[p] = row[p]
  BY <1>2, <1>3, <1>4 DEF RowsSane
<1>8. /\ row'[o].status = row[o].status /\ row'[o].account = row[o].account
      /\ row'[o].token.of = c.of /\ RowSane(row'[o])
  <2>1. PICK t : t = [of |-> c.of, fresh |-> TRUE]
    OBVIOUS
  <2>2. t \in TokenType /\ t.of = c.of
    BY <1>3, <2>1 DEF TokenType
  <2>3. /\ row'[o] = [row[o] EXCEPT !.token = t]
        /\ row'[o].status = row[o].status /\ row'[o].account = row[o].account
        /\ row'[o].token = t /\ row'[o] \in RowType
    BY <1>7, <2>1, <2>2 DEF RowSane, RowType
  <2> QED BY <1>3, <1>7, <2>2, <2>3 DEF RowSane
<1>9. RowsSane'
  <2>1. \A p \in Orgs : RowSane(row'[p])
    BY <1>2, <1>7, <1>8 DEF RowsSane
  <2>2. row' \in [Orgs -> RowType]
    BY <1>2, <1>4, <2>1 DEF RowsSane, RowSane
  <2> QED BY <2>1, <2>2 DEF RowsSane
<1>10. \A p \in Orgs : row'[p].status = row[p].status /\ row'[p].account = row[p].account
  BY <1>7, <1>8
<1>11. ASSUME course = "calm" PROVE CalmCall(c) /\ c.of = row[o].account
  BY <1>1, <1>3, <1>11 DEF InstIInv, CalmCourse, CalmCall
<1>12. ASSUME course = "calm", NEW p \in Orgs PROVE CalmRow(p)'
  <2>1. CalmRow(p)
    BY <1>12 DEF InstIInv, CalmCourse
  <2>2. CASE p # o
    <3>1. /\ UNCHANGED <<row[p], users[p], resources[p], told, deserted>>
          /\ moved'[p] = moved[p] /\ synced'[p] = synced[p]
      BY <1>4, <1>7, <2>2
    <3> QED BY <2>1, <3>1, CalmRowStays
  <2>3. CASE p = o
    <3>1. c.of = row[o].account
      BY <1>11, <1>12
    <3>2. c.of # NoInstall
      BY <1>3, InstallationsAssumption
    <3>3. /\ row'[o].account = c.of /\ row'[o].account = row[o].account
          /\ row'[o].token.of = c.of
      BY <1>8, <3>1
    <3> QED BY <1>4, <2>1, <2>3, <3>2, <3>3 DEF CalmRow
  <2> QED BY <2>2, <2>3
<1>13. ASSUME course = "calm" PROVE CalmCall(next)'
  BY <1>1, <1>3, <1>4, <1>5, <1>8, <1>11, <1>13 DEF CalmCall
<1>14. /\ call[q] # Idle /\ \A x \in Orgs : ~WillDrop(call[q], x)
       /\ \A p \in Orgs : SameOrg(row'[p], p)
  BY <1>1, <1>3, <1>10 DEF WillDrop, SameOrg
<1>15. /\ moved' \in [Orgs -> BOOLEAN] /\ synced' \in [Orgs -> BOOLEAN]
       /\ told' \subseteq Installs /\ vouched' \subseteq Orgs \X Installs
       /\ vouched \subseteq vouched'
  BY <1>2, <1>4 DEF PastSane
<1> QED BY <1>4, <1>6, <1>9, <1>10, <1>12, <1>13, <1>14, <1>15, RowsKeep

LEMMA ConnectKeeps ==
  ASSUME InstIInv, NEW q \in Requests, ReadOne(q) \/ Connect(q)
  PROVE  InstIInv'
<1>1. PICK c, o : c = call[q] /\ o = c.org
  OBVIOUS
<1>2. CallSane(c) /\ RowsSane /\ PastSane /\ users \in [Orgs -> SUBSET GithubUsers]
  BY <1>1 DEF InstIInv, InstTypes, InstTypeOK, CallsSane
<1>3. /\ c.op = "compare" /\ c # Idle /\ o \in Orgs /\ c.from \in Orgs
      /\ c = [op |-> "compare", org |-> o, from |-> c.from, dest |-> c.dest, src |-> c.src]
      /\ CopySane(c.dest) /\ CopySane(c.src)
  BY <1>1, <1>2, IdleSane DEF ReadOne, Connect, CallSane
<1>4. /\ call[q] # Idle /\ \A x \in Orgs : ~WillDrop(call[q], x)
  BY <1>1, <1>3 DEF WillDrop
<1>5. course = "free" =>
        /\ FreeCall(c)
        /\ \A p \in Orgs : users[p] \subseteq authorized[p] /\ Vouched(p, row[p].account)
  BY <1>1 DEF InstIInv, FreeCourse, FreeRows
<1>6. course = "calm" => CalmCall(c) /\ \A p \in Orgs : CalmRow(p)
  BY <1>1 DEF InstIInv, CalmCourse
<1>7. ASSUME NEW p \in Orgs PROVE CopySane(Copy(p)) /\ Copy(p).known
  BY <1>2 DEF Copy, CopySane, RowsSane, RowSane
<1>8. CASE ReadOne(q)
  <2>1. ASSUME To(q, [c EXCEPT !.dest = Copy(o)]) PROVE InstIInv'
    <3>1. PICK next : next = [c EXCEPT !.dest = Copy(o)]
      OBVIOUS
    <3>2. /\ next = [op |-> "compare", org |-> o, from |-> c.from, dest |-> Copy(o), src |-> c.src]
      BY <1>3, <3>1
    <3>3. /\ next.op = "compare" /\ next.org = o /\ next.from = c.from /\ next.src = c.src
          /\ next.dest.users = users[o] /\ CallSane(next)
      BY <1>3, <1>7, <3>2 DEF CallSane, Copy
    <3>4. course = "free" => FreeCall(next)
      BY <1>1, <1>3, <1>5, <3>3 DEF FreeCall
    <3>5. course = "calm" => CalmCall(next)
      BY <1>3, <1>6, <3>3 DEF CalmCall
    <3> QED BY <1>4, <1>8, <2>1, <3>1, <3>3, <3>4, <3>5, ReadKeeps DEF ReadOne
  <2>2. ASSUME To(q, [c EXCEPT !.src = Copy(c.from)]) PROVE InstIInv'
    <3>1. PICK next : next = [c EXCEPT !.src = Copy(c.from)]
      OBVIOUS
    <3>2. next = [op |-> "compare", org |-> o, from |-> c.from, dest |-> c.dest,
                  src |-> Copy(c.from)]
      BY <1>3, <3>1
    <3>3. /\ next.op = "compare" /\ next.org = o /\ next.from = c.from /\ next.dest = c.dest
          /\ next.src.users = users[c.from] /\ next.src.row = row[c.from] /\ next.src.known
          /\ CallSane(next)
      BY <1>3, <1>7, <3>2 DEF CallSane, Copy
    <3>4. course = "free" => FreeCall(next)
      BY <1>1, <1>3, <1>5, <3>3 DEF FreeCall
    <3>5. course = "calm" => CalmCall(next)
      BY <1>1, <1>3, <1>6, <3>3 DEF CalmCall, SameOrg
    <3> QED BY <1>4, <1>8, <2>2, <3>1, <3>3, <3>4, <3>5, ReadKeeps DEF ReadOne
  <2> QED BY <1>1, <1>8, <2>1, <2>2 DEF ReadOne
<1>9. CASE Connect(q) /\ To(q, Idle) /\ UNCHANGED <<row, moved, synced>>
  <2>1. Reads
    BY <1>9 DEF Connect, Reads, rows, trace
  <2>2. PICK next : next = Idle
    OBVIOUS
  <2> QED BY <1>4, <1>9, <2>1, <2>2, IdleSane, ReadKeeps
<1>10. ASSUME Connect(q), NEW g \in c.dest.users, g \in c.src.users,
              c.src.row.status = "CONNECTED", c.src.row.account # NoInstall,
              row' = [row EXCEPT ![o] = Adopted(@, c.src.row)],
              moved' = [moved EXCEPT ![o] = FALSE], synced' = [synced EXCEPT ![o] = FALSE],
              To(q, [op |-> "find keys", user |-> g])
       PROVE  InstIInv'
  <2>1. PICK next : next = [op |-> "find keys", user |-> g]
    OBVIOUS
  <2>2. /\ UNCHANGED <<slug, users, resources, cache, phase, told, vouched, authorized, deserted,
                     course>>
        /\ c.dest.known /\ c.src.known
    BY <1>1, <1>10 DEF Connect
  <2>3. g \in GithubUsers
    BY <1>3, <1>10 DEF CopySane
  <2>4. next.op = "find keys" /\ next.user = g /\ CallSane(next) /\ FreeCall(next)' /\ CalmCall(next)'
    BY <2>1, <2>3 DEF CallSane, FreeCall, CalmCall
  <2>5. /\ row'[o] = [c.src.row EXCEPT !.token = NoToken]
        /\ \A p \in Orgs : p # o => row'[p] = row[p]
    BY <1>2, <1>3, <1>10 DEF RowsSane, Adopted
  <2>6. /\ row'[o].status = "CONNECTED" /\ row'[o].account = c.src.row.account
        /\ row'[o].token = NoToken /\ RowSane(row'[o])
    <3>1. NoToken \in TokenType /\ NoToken.fresh = FALSE
      BY DEF TokenType, NoToken
    <3>2. c.src.row \in RowType
      BY <1>3 DEF CopySane
    <3>3. /\ row'[o].status = c.src.row.status /\ row'[o].account = c.src.row.account
          /\ row'[o].token = NoToken /\ row'[o] \in RowType
      BY <2>5, <3>1, <3>2 DEF RowType
    <3> QED BY <1>10, <3>1, <3>3 DEF RowSane
  <2>7. RowsSane'
    <3>1. \A p \in Orgs : RowSane(row'[p])
      BY <1>2, <2>5, <2>6 DEF RowsSane
    <3>2. row' \in [Orgs -> RowType]
      BY <1>2, <1>10, <3>1 DEF RowsSane, RowSane
    <3> QED BY <3>1, <3>2 DEF RowsSane
  <2>8. /\ moved' \in [Orgs -> BOOLEAN] /\ synced' \in [Orgs -> BOOLEAN]
        /\ told' \subseteq Installs /\ vouched' \subseteq Orgs \X Installs
        /\ vouched \subseteq vouched' /\ ~synced'[o]
        /\ \A p \in Orgs : p # o => moved'[p] = moved[p] /\ synced'[p] = synced[p]
    BY <1>2, <1>3, <1>10, <2>2 DEF PastSane
  <2>9. ASSUME course = "free" PROVE Vouched(o, row[o].account)'
    <3>1. g \in authorized[o] \cap authorized[c.from] /\ Vouched(c.from, c.src.row.account)
      BY <1>1, <1>3, <1>5, <1>10, <2>9 DEF FreeCall
    <3> SUFFICES ASSUME NEW set \in SUBSET Orgs, o \in set, Closed(set)
                 PROVE  \E p \in set : <<p, c.src.row.account>> \in vouched
      BY <2>2, <2>6 DEF Vouched, Closed
    <3>2. c.from \in set
      BY <1>3, <3>1 DEF Closed
    <3> QED BY <1>10, <3>1, <3>2 DEF Vouched
  <2>10. ASSUME course = "calm", NEW p \in Orgs PROVE CalmRow(p)'
    <3>1. CalmRow(p) /\ CalmRow(c.from)
      BY <1>3, <1>6, <2>10
    <3>2. CASE p # o
      <4>1. /\ UNCHANGED <<row[p], users[p], resources[p], told, deserted>>
            /\ moved'[p] = moved[p] /\ synced'[p] = synced[p]
        BY <2>2, <2>5, <2>8, <3>2
      <4> QED BY <3>1, <4>1, CalmRowStays
    <3>3. CASE p = o
      <4>1. c.src.row.account \notin told
        BY <1>3, <1>6, <2>2, <2>10, <3>1 DEF CalmCall, CalmRow, SameOrg
      <4>2. told' = told /\ users'[o] = users[o] /\ deserted' = deserted
        BY <2>2
      <4>3. row'[o].account \notin told'
        BY <2>6, <4>1, <4>2
      <4>4. row'[o].account # NoInstall
        BY <1>10, <2>6
      <4>5. ~synced'[o] /\ row'[o].token = NoToken
        BY <2>6, <2>8
      <4> QED BY <3>1, <3>3, <4>2, <4>3, <4>4, <4>5 DEF CalmRow
    <3> QED BY <3>2, <3>3
  <2>11. ASSUME course = "calm", NEW x \in Orgs, Settled(x), ~WillDrop(next, x)',
                NEW p \in Orgs, p = x \/ users[p] \cap users[x] # {}
         PROVE  SameOrg(row'[p], p)
    <3>1. g \notin users[x]
      BY <2>2, <2>4, <2>11 DEF WillDrop
    <3>2. g \in users[o] /\ \A h \in users[o] : h = g \/ h \in deserted
      BY <1>1, <1>3, <1>6, <1>10, <2>2, <2>11 DEF CalmCall, CalmRow
    <3>3. p # o
      BY <2>11, <3>1, <3>2 DEF Settled
    <3> QED BY <2>5, <3>3 DEF SameOrg
  <2>12. \A p \in Orgs : course = "free" =>
           row'[p].account = row[p].account \/ Vouched(p, row[p].account)'
    BY <2>5, <2>9
  <2> QED BY <1>4, <1>10, <2>1, <2>2, <2>4, <2>7, <2>8, <2>10, <2>11, <2>12, RowsKeep
<1>11. CASE Connect(q) /\ ~(To(q, Idle) /\ UNCHANGED <<row, moved, synced>>)
  BY <1>1, <1>10, <1>11 DEF Connect, SameIdentity
<1> QED BY <1>8, <1>9, <1>11

\* The accounts of an organization are written.
LEMMA UsersKeep ==
  ASSUME InstIInv, NEW q \in Requests, DeleteProviders(q) \/ UpsertProvider(q)
  PROVE  InstIInv'
<1>1. PICK c, o, g : c = call[q] /\ o = c.org /\ g = c.user
  OBVIOUS
<1>2. /\ CallSane(c) /\ CallsSane /\ InstTypeOK /\ RowsSane /\ PastSane
      /\ users \in [Orgs -> SUBSET GithubUsers] /\ authorized \in [Orgs -> SUBSET GithubUsers]
  BY <1>1 DEF InstIInv, InstTypes, InstTypeOK, CallsSane, PastSane
<1>3. /\ c.op \in {"replace", "authorize"} /\ c # Idle /\ o \in Orgs /\ g \in GithubUsers
      /\ c \in [op : {"replace", "authorize"}, org : Orgs, user : GithubUsers]
  BY <1>1, <1>2, IdleSane DEF DeleteProviders, UpsertProvider, CallSane
<1>4. /\ UNCHANGED <<slug, row, resources, cache, phase, told, vouched, moved, synced>>
      /\ course' = course
  BY DEF DeleteProviders, UpsertProvider, trace
<1>5. /\ course = "calm" => \A p \in Orgs : CalmRow(p)
      /\ deserted \subseteq deserted'
  BY DEF InstIInv, CalmCourse, DeleteProviders, UpsertProvider, Desert
<1>6. course = "free" => FreeRows
  BY DEF InstIInv, FreeCourse
<1>7. ASSUME NEW new \in SUBSET GithubUsers, users' = [users EXCEPT ![o] = new],
             authorized' \in [Orgs -> SUBSET GithubUsers],
             NEW next, To(q, next), CallSane(next), FreeCall(next)',
             \A p \in Orgs : authorized[p] \subseteq authorized'[p],
             course = "free" => \A p \in Orgs : users'[p] \subseteq authorized'[p],
             course = "calm" =>
               /\ CalmCall(next)'
               /\ \A h, k \in new : h = k \/ h \in deserted'
               /\ \A h \in users[o] \cup new : h = g \/ h \in deserted'
               /\ \A x \in Orgs : x = o \/ g \in users[x] => WillDrop(next, x)'
      PROVE  InstIInv'
  <2>1. /\ users'[o] = new /\ \A p \in Orgs : p # o => users'[p] = users[p]
        /\ users' \in [Orgs -> SUBSET GithubUsers]
    BY <1>2, <1>3, <1>7
  <2>2. CallsSane'
    BY <1>2, <1>7, GoesOn
  <2>3. InstTypes'
    BY <1>2, <1>4, <1>7, <2>1, <2>2 DEF InstTypes, InstTypeOK, RowsSane, PastSane
  <2>4. FreeCourse'
    BY <1>2, <1>4, <1>7, FreeGoesOn DEF InstIInv
  <2>5. ASSUME course = "calm" PROVE CalmCourse'
    <3>1. ASSUME NEW x \in Orgs
          PROVE  CalmRow(x)' /\ (EntryFresh(x)' \/ WillDrop(next, x)')
      <4>1. CalmRow(x)'
        <5>1. \A h, k \in users'[x] : h = k \/ h \in deserted'
          BY <1>5, <1>7, <2>1, <2>5, <3>1 DEF CalmRow
        <5> QED BY <1>4, <1>5, <2>5, <5>1 DEF CalmRow
      <4>2. CASE x = o \/ g \in users[x]
        BY <1>7, <2>5, <4>1, <4>2
      <4>3. CASE x # o /\ g \notin users[x]
        <5>1. ~WillDrop(c, x)
          BY <1>1, <1>3, <4>3 DEF WillDrop
        <5>2. EntryFresh(x)
          BY <1>1, <1>3, <2>5, <5>1, CalmEntries DEF InstIInv
        <5>3. \A p \in Orgs : SameOrg(row'[p], p)
          BY <1>4 DEF SameOrg
        <5>4. CASE Settled(x)'
          <6>1. \A p \in Orgs :
                  p = x \/ users[p] \cap users[x] # {} \/ users'[p] \cap users[x] # {} =>
                    users'[p] = users[p]
            BY <1>7, <2>1, <2>5, <4>3, <5>4 DEF Settled
          <6> QED BY <1>4, <1>5, <4>1, <5>2, <5>3, <6>1, EntryStays
        <5>5. CASE ~Settled(x)'
          BY <4>1, <5>5 DEF EntryFresh
        <5> QED BY <5>4, <5>5
      <4> QED BY <4>2, <4>3
    <3>2. call[q] # Idle
      BY <1>1, <1>3
    <3> QED BY <1>2, <1>4, <1>7, <2>5, <3>1, <3>2, CalmGoesOn DEF InstIInv
  <2>6. CalmCourse'
    BY <1>4, <2>5 DEF CalmCourse
  <2> QED BY <2>3, <2>4, <2>6 DEF InstIInv
<1>8. CASE DeleteProviders(q)
  <2>1. PICK next : next = [c EXCEPT !.op = "authorize"]
    OBVIOUS
  <2>2. /\ next.op = "authorize" /\ next.org = o /\ next.user = g
        /\ next \in [op : {"replace", "authorize"}, org : Orgs, user : GithubUsers]
    BY <1>1, <1>3, <2>1
  <2>3. /\ c.op = "replace" /\ users' = [users EXCEPT ![o] = {}] /\ To(q, next)
        /\ authorized' = authorized
    BY <1>1, <1>8, <2>1 DEF DeleteProviders, trace
  <2>4. /\ users'[o] = {} /\ \A p \in Orgs : p # o => users'[p] = users[p]
    BY <1>2, <1>3, <2>3
  <2>5. CallSane(next) /\ FreeCall(next)' /\ CalmCall(next)'
    BY <2>2, <2>4 DEF CallSane, FreeCall, CalmCall
  <2>6. \A x \in Orgs : x = o \/ g \in users[x] => WillDrop(next, x)'
    BY <2>2, <2>4 DEF WillDrop
  <2>7. course = "free" => \A p \in Orgs : users'[p] \subseteq authorized'[p]
    BY <1>6, <2>3, <2>4 DEF FreeRows
  <2>8. authorized' \in [Orgs -> SUBSET GithubUsers]
    BY <1>2, <2>3
  <2>9. {} \in SUBSET GithubUsers /\ \A p \in Orgs : authorized[p] \subseteq authorized'[p]
    BY <2>3
  <2>10. course = "calm" => \A h \in users[o] : h = g \/ h \in deserted'
    BY <1>1, <1>8 DEF DeleteProviders, Desert
  <2> QED BY <1>7, <2>3, <2>5, <2>6, <2>7, <2>8, <2>9, <2>10
<1>9. CASE UpsertProvider(q)
  <2>1. PICK next, new : next = Invalidate({o}) /\ new = users[o] \cup {g}
    OBVIOUS
  <2>2. /\ c.op = "authorize" /\ users' = [users EXCEPT ![o] = new] /\ To(q, next)
        /\ authorized' = [authorized EXCEPT ![o] = @ \cup {h \in {g} : course = "free"}]
    BY <1>1, <1>9, <2>1 DEF UpsertProvider
  <2>3. /\ new \in SUBSET GithubUsers
        /\ users'[o] = new /\ \A p \in Orgs : p # o => users'[p] = users[p]
    BY <1>2, <1>3, <2>1, <2>2
  <2>4. /\ CallSane(next) /\ FreeCall(next)' /\ CalmCall(next)'
        /\ \A x \in Orgs : (\E p \in {o} : p = x \/ users'[p] \cap users'[x] # {})
                             => WillDrop(next, x)'
    BY <1>3, <2>1, InvalidateNext
  <2>5. \A x \in Orgs : x = o \/ g \in users[x] => WillDrop(next, x)'
    BY <2>1, <2>3, <2>4
  <2>6. PICK more : more = {h \in {g} : course = "free"}
    OBVIOUS
  <2>7. /\ authorized' = [authorized EXCEPT ![o] = authorized[o] \cup more]
        /\ more \subseteq GithubUsers /\ (course = "free" => g \in more)
    BY <1>3, <2>2, <2>6
  <2>8. /\ authorized'[o] = authorized[o] \cup more
        /\ \A p \in Orgs : p # o => authorized'[p] = authorized[p]
        /\ authorized' \in [Orgs -> SUBSET GithubUsers]
    BY <1>2, <1>3, <2>7
  <2>9. course = "free" => \A p \in Orgs : users'[p] \subseteq authorized'[p]
    BY <1>6, <2>1, <2>3, <2>7, <2>8 DEF FreeRows
  <2>10. \A p \in Orgs : authorized[p] \subseteq authorized'[p]
    BY <2>8
  <2>11. course = "calm" =>
           /\ \A h, k \in new : h = k \/ h \in deserted'
           /\ \A h \in users[o] \cup new : h = g \/ h \in deserted'
    <3>1. CASE new = {g}
      BY <2>1, <3>1
    <3>2. CASE new # {g}
      <4>1. course = "calm" => new \subseteq deserted'
        BY <1>1, <1>9, <2>1, <3>2 DEF UpsertProvider, Desert
      <4> QED BY <2>1, <4>1
    <3> QED BY <3>1, <3>2
  <2> QED BY <1>7, <2>2, <2>3, <2>4, <2>5, <2>8, <2>9, <2>10, <2>11
<1> QED BY <1>8, <1>9

-----------------------------------------------------------------------------
\* The repositories.

\* An upserted repository is the last, and no other is lost or doubled.
LEMMA MovedToEnd ==
  ASSUME NEW S, NEW s \in Seq(S), IsInjective(s), NEW e \in S
  PROVE  LET t == Append(RemoveFirst(s, e), e)
         IN t \in Seq(S) /\ IsInjective(t) /\ t # <<>> /\ Last(t) = e
<1>1. ASSUME NEW u \in Seq(S), IsInjective(u), \A k \in 1 .. Len(u) : u[k] # e
      PROVE  LET t == Append(u, e)
             IN t \in Seq(S) /\ IsInjective(t) /\ t # <<>> /\ Last(t) = e
  <2>1. PICK t : t = Append(u, e)
    OBVIOUS
  <2>2. /\ t \in Seq(S) /\ Len(t) = Len(u) + 1 /\ t[Len(t)] = e /\ Len(u) \in Nat
        /\ \A k \in 1 .. Len(u) : t[k] = u[k]
    BY <2>1
  <2>3. DOMAIN t = 1 .. Len(t) /\ DOMAIN u = 1 .. Len(u)
    BY <2>2
  <2>4. ASSUME NEW j \in DOMAIN t, NEW k \in DOMAIN t, t[j] = t[k] PROVE j = k
    <3>1. \/ j \in 1 .. Len(u) /\ k \in 1 .. Len(u)
          \/ j \in 1 .. Len(u) /\ k = Len(t)
          \/ k \in 1 .. Len(u) /\ j = Len(t)
          \/ k = Len(t) /\ j = Len(t)
      BY <2>2, <2>3
    <3>2. CASE j \in 1 .. Len(u) /\ k \in 1 .. Len(u)
      BY <1>1, <2>2, <2>3, <2>4, <3>2 DEF IsInjective
    <3> QED BY <1>1, <2>2, <2>4, <3>1, <3>2
  <2> QED BY <2>1, <2>2, <2>4 DEF IsInjective, Last
<1>2. CASE ~ \E i \in 1 .. Len(s) : s[i] = e
  <2>1. RemoveFirst(s, e) = s
    BY <1>2 DEF RemoveFirst
  <2> QED BY <1>1, <1>2, <2>1
<1>3. CASE \E i \in 1 .. Len(s) : s[i] = e
  <2>1. PICK i \in 1 .. Len(s) : s[i] = e
    BY <1>3
  <2>2. DOMAIN s = 1 .. Len(s) /\ Len(s) \in Nat
    OBVIOUS
  <2>3. \A k \in 1 .. Len(s) : s[k] = e <=> k = i
    BY <2>1, <2>2 DEF IsInjective
  <2>4. {k \in 1 .. Len(s) : s[k] = e} = {i}
    BY <2>1, <2>3
  <2>5. Min({i}) = i
    BY <2>2 DEF Min
  <2>6. SelectInSeq(s, LAMBDA v : v = e) = i
    BY <2>4, <2>5 DEF SelectInSeq
  <2>7. PICK u : u = SubSeq(s, 1, i - 1) \o SubSeq(s, i + 1, Len(s))
    OBVIOUS
  <2>8. RemoveFirst(s, e) = u
    BY <1>3, <2>6, <2>7 DEF RemoveFirst, RemoveAt
  <2>9. /\ u \in Seq(S) /\ Len(u) = Len(s) - 1
        /\ \A k \in 1 .. Len(u) : u[k] = IF k < i THEN s[k] ELSE s[k + 1]
    <3>1. PICK a, b : a = SubSeq(s, 1, i - 1) /\ b = SubSeq(s, i + 1, Len(s))
      OBVIOUS
    <3>2. /\ a \in Seq(S) /\ Len(a) = i - 1 /\ \A k \in 1 .. i - 1 : a[k] = s[k]
      BY <2>1, <2>2, <3>1
    <3>3. /\ b \in Seq(S) /\ Len(b) = Len(s) - i
          /\ \A k \in 1 .. Len(s) - i : b[k] = s[k + i]
      <4>1. \A k \in i + 1 .. Len(s) : s[k] \in S
        BY <2>1, <2>2
      <4>2. i + 1 \in Int /\ Len(s) \in Int
        BY <2>1, <2>2
      <4>3. /\ b \in Seq(S) /\ Len(b) = IF i + 1 <= Len(s) THEN Len(s) - (i + 1) + 1 ELSE 0
            /\ \A k \in 1 .. Len(s) - (i + 1) + 1 : b[k] = s[(i + 1) + k - 1]
        BY <3>1, <4>1, <4>2, SubSeqProperties
      <4>4. Len(b) = Len(s) - i
        <5>1. PICK n \in Int : n = Len(s)
          BY <4>2
        <5>2. i \in Int /\ i <= n
          BY <2>2, <5>1
        <5>3. Len(b) = IF i + 1 <= n THEN n - (i + 1) + 1 ELSE 0
          BY <4>3, <5>1
        <5> QED BY <5>1, <5>2, <5>3
      <4>5. ASSUME NEW k \in 1 .. Len(s) - i PROVE b[k] = s[k + i]
        <5>1. k \in 1 .. Len(s) - (i + 1) + 1 /\ (i + 1) + k - 1 = k + i
          BY <2>1, <2>2
        <5> QED BY <4>3, <5>1
      <4> QED BY <4>3, <4>4, <4>5
    <3>4. u = a \o b
      BY <2>7, <3>1
    <3>5. u \in Seq(S) /\ Len(u) = Len(s) - 1
      <4>1. u \in Seq(S) /\ Len(u) = Len(a) + Len(b)
        BY <3>2, <3>3, <3>4, ConcatProperties
      <4> QED BY <2>1, <2>2, <3>2, <3>3, <4>1
    <3>6. ASSUME NEW k \in 1 .. Len(u) PROVE u[k] = IF k < i THEN s[k] ELSE s[k + 1]
      <4>1. CASE k < i
        BY <2>1, <2>2, <3>2, <3>3, <3>4, <3>5, <4>1
      <4>2. CASE ~(k < i)
        <5>1. u[k] = b[k - (i - 1)]
          BY <2>1, <2>2, <3>2, <3>3, <3>4, <3>5, <4>2
        <5>2. k - (i - 1) \in 1 .. Len(s) - i
          BY <2>1, <2>2, <3>5, <4>2
        <5> QED BY <2>1, <2>2, <3>3, <4>2, <5>1, <5>2
      <4> QED BY <4>1, <4>2
    <3> QED BY <3>5, <3>6
  <2>10. \A k \in 1 .. Len(u) : u[k] # e
    BY <2>1, <2>2, <2>3, <2>9
  <2>11. DOMAIN u = 1 .. Len(u)
    BY <2>9
  <2>12. IsInjective(u)
    <3> SUFFICES ASSUME NEW j \in 1 .. Len(u), NEW k \in 1 .. Len(u), u[j] = u[k] PROVE j = k
      BY <2>11 DEF IsInjective
    <3>1. \A a, b \in 1 .. Len(s) : s[a] = s[b] => a = b
      BY <2>2 DEF IsInjective
    <3>2. PICK a, b : a = (IF j < i THEN j ELSE j + 1) /\ b = (IF k < i THEN k ELSE k + 1)
      OBVIOUS
    <3>3. a \in 1 .. Len(s) /\ b \in 1 .. Len(s) /\ s[a] = u[j] /\ s[b] = u[k]
      BY <2>1, <2>2, <2>9, <3>2
    <3>4. a = b
      BY <3>1, <3>3
    <3> QED BY <2>1, <2>2, <2>9, <3>2, <3>4
  <2> QED BY <1>1, <2>8, <2>9, <2>10, <2>12
<1> QED BY <1>2, <1>3

LEMMA UpsertKeeps ==
  ASSUME InstIInv, NEW q \in Requests, Upsert(q)
  PROVE  InstIInv'
<1>1. PICK c, o : c = call[q] /\ o = c.org
  OBVIOUS
<1>2. /\ CallSane(c) /\ CallsSane /\ InstTypeOK /\ RowsSane /\ PastSane
      /\ resources = [p \in Orgs |-> resources[p]]
      /\ \A p \in Orgs : resources[p] \in Seq(Repos) /\ IsInjective(resources[p])
  BY <1>1 DEF InstIInv, InstTypes, InstTypeOK, CallsSane, PastSane
<1>3. /\ c.op = "upsert" /\ c # Idle /\ o \in Orgs /\ c.of \in Installs
      /\ c \in [op : {"upsert"}, org : Orgs, of : Installs, left : SUBSET Repos]
      /\ c.left \subseteq ToSet(ReposOf[c.of])
  BY <1>1, <1>2, IdleSane DEF Upsert, CallSane
<1>4. PICK repo \in c.left :
        LET left == c.left \ {repo}
        IN /\ resources' = [resources EXCEPT ![o] = Append(RemoveFirst(@, repo), repo)]
           /\ synced' = [synced EXCEPT ![o] = @ \/ (course = "calm" /\ left = {})]
           /\ To(q, IF left = {} THEN Idle ELSE [c EXCEPT !.left = left])
  BY <1>1 DEF Upsert
<1>5. /\ UNCHANGED <<slug, users, row, cache, phase, told, vouched, authorized, deserted>>
      /\ UNCHANGED <<moved, course>>
  BY DEF Upsert
<1>6. PICK t : t = Append(RemoveFirst(resources[o], repo), repo)
  OBVIOUS
<1>7. repo \in Repos
  BY <1>3, <1>4
<1>8. t \in Seq(Repos) /\ IsInjective(t) /\ t # <<>> /\ Last(t) = repo
  BY <1>2, <1>3, <1>6, <1>7, MovedToEnd
<1>9. /\ resources' = [resources EXCEPT ![o] = t]
      /\ resources'[o] = t /\ \A p \in Orgs : p # o => resources'[p] = resources[p]
  BY <1>2, <1>3, <1>4, <1>6
<1>10. /\ resources' = [p \in Orgs |-> resources'[p]]
       /\ \A p \in Orgs : resources'[p] \in Seq(Repos) /\ IsInjective(resources'[p])
  BY <1>2, <1>8, <1>9
<1>11. /\ synced' \in [Orgs -> BOOLEAN] /\ \A p \in Orgs : p # o => synced'[p] = synced[p]
  <2>1. PICK b \in BOOLEAN : b = (synced[o] \/ (course = "calm" /\ c.left \ {repo} = {}))
    OBVIOUS
  <2>2. synced' = [synced EXCEPT ![o] = b] /\ synced \in [Orgs -> BOOLEAN]
    BY <1>2, <1>4, <2>1 DEF PastSane
  <2> QED BY <1>3, <2>2
<1>12. PICK next : next = IF c.left \ {repo} = {} THEN Idle ELSE [c EXCEPT !.left = c.left \ {repo}]
  OBVIOUS
<1>13. To(q, next)
  BY <1>4, <1>12
<1>14. \/ next = Idle
       \/ /\ next.op = "upsert" /\ next.org = o /\ next.of = c.of
          /\ next \in [op : {"upsert"}, org : Orgs, of : Installs, left : SUBSET Repos]
          /\ next.left \subseteq ToSet(ReposOf[next.of])
  BY <1>1, <1>3, <1>12
<1>15. CallSane(next) /\ FreeCall(next)'
  BY <1>14, IdleSane DEF CallSane, FreeCall
<1>16. CallsSane'
  BY <1>2, <1>13, <1>15, GoesOn
<1>17. InstTypes'
  BY <1>2, <1>5, <1>10, <1>11, <1>16 DEF InstTypes, InstTypeOK, RowsSane, PastSane
<1>18. FreeCourse'
  <2>1. course = "free" => \A p \in Orgs : users[p] \subseteq authorized[p]
    BY DEF InstIInv, FreeCourse, FreeRows
  <2> QED BY <1>2, <1>5, <1>13, <1>15, <2>1, FreeGoesOn DEF InstIInv
<1>19. ASSUME course = "calm" PROVE CalmCourse'
  <2>1. CalmCall(c) /\ \A p \in Orgs : CalmRow(p)
    BY <1>1, <1>19 DEF InstIInv, CalmCourse
  <2>2. ~moved[o] => c.of = row[o].account
    BY <1>1, <1>3, <2>1 DEF CalmCall
  <2>3. CalmCall(next)'
    <3>1. CASE next = Idle
      BY <3>1, IdleSane DEF CalmCall
    <3>2. CASE next # Idle
      BY <1>5, <1>14, <2>2, <3>2 DEF CalmCall
    <3> QED BY <3>1, <3>2
  <2>4. ASSUME NEW p \in Orgs PROVE CalmRow(p)' /\ EntryFresh(p)'
    <3>a. CalmRow(p)
      BY <2>1
    <3>1. CalmRow(p)'
      <4>1. CASE p # o
        <5>1. /\ UNCHANGED <<row[p], users[p], resources[p], told, deserted>>
              /\ moved'[p] = moved[p] /\ synced'[p] = synced[p]
          BY <1>5, <1>9, <1>11, <4>1
        <5> QED BY <3>a, <5>1, CalmRowStays
      <4>2. CASE p = o
        <5>1. ~moved'[o] => Last(resources'[o]) \in ToSet(ReposOf[row'[o].account])
          BY <1>3, <1>4, <1>5, <1>8, <1>9, <2>2
        <5>2. resources'[o] # <<>>
          BY <1>8, <1>9
        <5> QED BY <1>5, <3>a, <4>2, <5>1, <5>2 DEF CalmRow
      <4> QED BY <4>1, <4>2
    <3>2. EntryFresh(p)
      BY <1>1, <1>3, <1>19, CalmEntries DEF InstIInv, WillDrop
    <3>3. \A x \in Orgs : users'[x] = users[x] /\ SameOrg(row'[x], x)
      BY <1>5 DEF SameOrg
    <3>4. EntryFresh(p)'
      BY <1>5, <3>2, <3>3, EntryStays
    <3> QED BY <3>1, <3>4
  <2>5. call[q] # Idle
    BY <1>1, <1>3
  <2> QED BY <1>2, <1>5, <1>13, <1>15, <1>19, <2>3, <2>4, <2>5, CalmGoesOn DEF InstIInv
<1>20. CalmCourse'
  BY <1>5, <1>19 DEF CalmCourse
<1> QED BY <1>17, <1>18, <1>20 DEF InstIInv

-----------------------------------------------------------------------------
\* What happens elsewhere.

LEMMA ElsewhereKeeps ==
  ASSUME InstIInv,
         \/ \E i \in Installs : Install(i) \/ Uninstall(i)
         \/ \E o \in Orgs : TokenAges(o) \/ \E s \in Slugs : Rename(o, s)
         \/ \E s \in Slugs : EntryExpires(s)
  PROVE  InstIInv'
<1>1. /\ CallsSane /\ InstTypeOK /\ RowsSane /\ PastSane /\ slug \in [Orgs -> Slugs]
      /\ \A x, y \in Orgs : slug[x] = slug[y] => x = y
  BY DEF InstIInv, InstTypes, InstTypeOK
\* No request moves, and no account and installation either.
<1>2. ASSUME UNCHANGED <<users, resources, told, vouched, authorized, deserted, moved, synced>>,
             UNCHANGED <<call, course>>, RowsSane',
             slug' \in [Orgs -> Slugs], \A x, y \in Orgs : slug'[x] = slug'[y] => x = y,
             cache' = [s \in Slugs |-> cache'[s]],
             \A s \in Slugs : cache'[s] = NoEntry \/ cache'[s] = cache[s],
             phase' \in [Installs -> {"new", "installed", "gone"}],
             \A p \in Orgs : SameOrg(row'[p], p),
             course = "calm" =>
               /\ slug' = slug
               /\ \A p \in Orgs :
                    \/ row'[p].token = row[p].token
                    \/ row[p].token # NoToken /\ row'[p].token.of = row[p].token.of
      PROVE  InstIInv'
  <2>1. InstTypes'
    <3>1. \A o \in Orgs : (row'[o].status = "CONNECTED") <=> (row'[o].account # NoInstall)
      BY <1>2 DEF RowsSane, RowSane
    <3>2. CallsSane'
      BY <1>1, <1>2 DEF CallsSane
    <3>3. \A s \in Slugs : cache'[s] = NoEntry \/ cache'[s] \in EntryType
      BY <1>1, <1>2 DEF InstTypeOK
    <3>4. InstTypeOK'
      BY <1>1, <1>2, <3>1, <3>3 DEF InstTypeOK, RowsSane
    <3> QED BY <1>1, <1>2, <3>2, <3>4 DEF InstTypes, PastSane
  <2>2. FreeCourse'
    <3> SUFFICES ASSUME course = "free"
                 PROVE  FreeRows' /\ \A p \in Requests : FreeCall(call[p])'
      BY <1>2 DEF FreeCourse
    <3>1. FreeRows /\ \A p \in Requests : FreeCall(call[p])
      BY DEF InstIInv, FreeCourse
    <3>2. \A p \in Orgs : row'[p].account = row[p].account
      BY <1>2 DEF SameOrg
    <3>3. FreeRows'
      <4>1. ASSUME NEW o \in Orgs PROVE Vouched(o, row[o].account)'
        <5>1. PICK i : i = row[o].account /\ Vouched(o, i)
          BY <3>1 DEF FreeRows
        <5>2. Vouched(o, i)'
          BY <1>2, <5>1, VouchedStays
        <5> QED BY <3>2, <5>1, <5>2 DEF Vouched
      <4> QED BY <1>2, <3>1, <4>1 DEF FreeRows
    <3>4. \A p \in Requests : FreeCall(call[p])'
      BY <1>2, <3>1 DEF FreeCall, Vouched, Closed
    <3> QED BY <3>3, <3>4
  <2>3. ASSUME course = "calm" PROVE CalmCourse'
    <3>1. /\ OneAtATime /\ \A o \in Orgs : CalmRow(o) /\ CalmEntry(o)
          /\ \A q \in Requests : CalmCall(call[q])
      BY <2>3 DEF InstIInv, CalmCourse
    <3>2. OneAtATime'
      BY <1>2, <3>1 DEF OneAtATime, Idle
    <3>3. \A o \in Orgs : row'[o].account = row[o].account /\ row'[o].status = row[o].status
      BY <1>2 DEF SameOrg
    <3>4. ASSUME NEW o \in Orgs PROVE CalmRow(o)'
      <4>1. CalmRow(o) /\ row'[o].account = row[o].account
        BY <3>1, <3>3
      <4>2. \/ row'[o].token = row[o].token
            \/ row[o].token # NoToken /\ row'[o].token.of = row[o].token.of
        BY <1>2, <2>3
      <4> QED BY <1>2, <4>1, <4>2 DEF CalmRow
    <3>5. /\ \A r, o : o \in Orgs => (SameOrg(r, o)' <=> SameOrg(r, o))
          /\ \A i : Linked(i)' = Linked(i)
      BY <3>3 DEF SameOrg, Linked
    <3>6. \A o \in Orgs : OneOf(users[o])' = OneOf(users[o])
      BY <1>2 DEF OneOf
    <3>7. ASSUME NEW e, NEW o \in Orgs, Shows(e, o) PROVE Shows(e, o)'
      <4>1. PICK g \in OneOf(users[o]) : e = Entry(o, row[o], g)
        BY <3>7 DEF Shows
      <4>2. Candidates(o, g)' = Candidates(o, g)
        BY <1>2, <3>3 DEF Candidates, Sharing
      <4>3. {<<p, row[p].account>> : p \in Candidates(o, g)}'
              = {<<p, row[p].account>> : p \in Candidates(o, g)}
        BY <3>3, <4>2 DEF Candidates, Sharing
      <4>4. Entry(o, row[o], g)' = Entry(o, row[o], g)
        BY <3>3, <4>3 DEF Entry
      <4> QED BY <3>6, <4>1, <4>4 DEF Shows
    <3>8. ASSUME NEW q \in Requests PROVE CalmCall(call[q])'
      <4>1. PICK c : c = call[q]
        OBVIOUS
      <4>2. CalmCall(c) /\ CallSane(c)
        BY <1>1, <3>1, <4>1 DEF CallsSane
      <4>3. /\ c.op \in {"look", "build"} => c.org \in Orgs
            /\ c.op = "compare" => c.org \in Orgs /\ c.from \in Orgs
            /\ c.op \in {"token", "mint", "keep token", "use", "upsert"} => c.org \in Orgs
        BY <4>2 DEF CallSane
      <4>4. slug' = slug
        BY <1>2, <2>3
      <4>5. c.op = "keep entry" => \E o \in Orgs : c.slug = slug'[o] /\ Shows(c.entry, o)'
        BY <3>7, <4>2, <4>4 DEF CalmCall
      <4>6. c.op = "compare" =>
              /\ c.dest.known => c.dest.users = users'[c.org]
              /\ IF c.src.known THEN c.src.users = users'[c.from] /\ SameOrg(c.src.row, c.from)'
                 ELSE c.src = Unread
        BY <1>2, <3>5, <4>2, <4>3 DEF CalmCall
      <4>7. c.op \in {"look", "build"} =>
              /\ c.slug = slug'[c.org] /\ c.user \in OneOf(users[c.org])'
              /\ SameOrg(c.row, c.org)'
        BY <3>5, <3>6, <4>2, <4>3, <4>4 DEF CalmCall
      <4>8. /\ c.op = "link" => c.install \notin told'
            /\ c.op = "find peers" => c.user \in users'[c.org]
            /\ c.op = "unlink" => c.todo = Linked(c.install)'
        BY <1>2, <3>5, <4>2 DEF CalmCall
      <4>9. /\ c.op \in {"token", "mint", "keep token", "use"} =>
                 (c.repo # NoRepo /\ synced'[c.org] /\ ~moved'[c.org] =>
                    c.repo \in ToSet(ReposOf[row'[c.org].account]))
            /\ c.op \in {"mint", "keep token"} => c.of = row'[c.org].account
            /\ c.op \in {"use", "upsert"} /\ ~moved'[c.org] => c.of = row'[c.org].account
        BY <1>2, <3>3, <4>2, <4>3 DEF CalmCall
      <4>10. CalmCall(c)'
        BY <4>5, <4>6, <4>7, <4>8, <4>9 DEF CalmCall
      <4> QED BY <1>2, <4>1, <4>10
    <3>9. ASSUME NEW o \in Orgs PROVE CalmEntry(o)'
      <4>1. slug' = slug /\ slug[o] \in Slugs
        BY <1>1, <1>2, <2>3
      <4>2. ASSUME EntryFresh(o) PROVE EntryFresh(o)'
        <5>1. CASE cache'[slug[o]] = cache[slug[o]]
          <6>1. /\ \A p \in Orgs : users'[p] = users[p] /\ SameOrg(row'[p], p)
                /\ deserted \subseteq deserted'
            BY <1>2
          <6> QED BY <4>1, <4>2, <5>1, <6>1, EntryStays
        <5>2. CASE cache'[slug[o]] = NoEntry
          BY <4>1, <5>2 DEF EntryFresh
        <5> QED BY <1>2, <4>1, <5>1, <5>2
      <4>3. ASSUME NEW q \in Requests, WillDrop(call[q], o) PROVE WillDrop(call[q], o)'
        BY <1>2, <4>1, <4>3 DEF WillDrop, Covers
      <4>4. EntryFresh(o) \/ \E q \in Requests : WillDrop(call[q], o)
        BY <3>1 DEF CalmEntry
      <4> QED BY <4>2, <4>3, <4>4 DEF CalmEntry
    <3> QED BY <3>2, <3>4, <3>8, <3>9 DEF CalmCourse
  <2>4. CalmCourse'
    BY <1>2, <2>3 DEF CalmCourse
  <2> QED BY <2>1, <2>2, <2>4 DEF InstIInv
<1>3. /\ cache = [s \in Slugs |-> cache[s]]
      /\ phase \in [Installs -> {"new", "installed", "gone"}]
      /\ \A p \in Orgs : SameOrg(row[p], p)
  BY <1>1 DEF PastSane, SameOrg
<1>4. ASSUME NEW i \in Installs, Install(i) \/ Uninstall(i) PROVE InstIInv'
  <2>1. /\ UNCHANGED <<slug, users, row, resources, cache, told, vouched, authorized, deserted>>
        /\ UNCHANGED <<moved, synced, call, course>>
    BY <1>4 DEF Install, Uninstall, rows, trace
  <2>2. phase' \in [Installs -> {"new", "installed", "gone"}]
    BY <1>3, <1>4 DEF Install, Uninstall
  <2>3. RowsSane'
    BY <1>1, <2>1 DEF RowsSane
  <2> QED BY <1>1, <1>2, <1>3, <2>1, <2>2, <2>3
<1>5. ASSUME NEW s \in Slugs, EntryExpires(s) PROVE InstIInv'
  <2>1. /\ UNCHANGED <<slug, users, row, resources, phase, told, vouched, authorized, deserted>>
        /\ UNCHANGED <<moved, synced, call, course>>
    BY <1>5 DEF EntryExpires, rows, trace
  <2>2. /\ cache' = [x \in Slugs |-> cache'[x]]
        /\ \A x \in Slugs : cache'[x] = NoEntry \/ cache'[x] = cache[x]
    BY <1>3, <1>5 DEF EntryExpires
  <2>3. RowsSane'
    BY <1>1, <2>1 DEF RowsSane
  <2> QED BY <1>1, <1>2, <1>3, <2>1, <2>2, <2>3
<1>6. ASSUME NEW o \in Orgs, TokenAges(o) PROVE InstIInv'
  <2>1. /\ UNCHANGED <<slug, users, cache, resources, phase, told, vouched, authorized, deserted>>
        /\ UNCHANGED <<moved, synced, call, course>>
        /\ row[o].token.fresh /\ row' = [row EXCEPT ![o].token.fresh = FALSE]
    BY <1>6 DEF TokenAges, trace
  <2>2. PICK t : t = [row[o].token EXCEPT !.fresh = FALSE]
    OBVIOUS
  <2>3. RowSane(row[o]) /\ row[o] \in RowType /\ row[o].token \in TokenType
    BY <1>1 DEF RowsSane, RowSane, RowType
  <2>4. t \in TokenType /\ t.of = row[o].token.of /\ t.fresh = FALSE
    BY <2>2, <2>3 DEF TokenType
  <2>5. /\ row'[o] = [row[o] EXCEPT !.token = t]
        /\ \A p \in Orgs : p # o => row'[p] = row[p]
    BY <1>1, <2>1, <2>2 DEF RowsSane
  <2>6. /\ row'[o].status = row[o].status /\ row'[o].account = row[o].account
        /\ row'[o].token = t /\ row'[o] \in RowType
    BY <2>3, <2>4, <2>5 DEF RowType
  <2>7. RowSane(row'[o]) /\ row[o].token # NoToken
    BY <2>1, <2>3, <2>4, <2>6 DEF RowSane, NoToken
  <2>8. RowsSane'
    <3>1. \A p \in Orgs : RowSane(row'[p])
      BY <1>1, <2>5, <2>7 DEF RowsSane
    <3>2. row' \in [Orgs -> RowType]
      BY <1>1, <2>1, <3>1 DEF RowsSane, RowSane
    <3> QED BY <3>1, <3>2 DEF RowsSane
  <2>9. \A p \in Orgs : SameOrg(row'[p], p)
    BY <2>5, <2>6 DEF SameOrg
  <2>10. \A p \in Orgs : \/ row'[p].token = row[p].token
                         \/ row[p].token # NoToken /\ row'[p].token.of = row[p].token.of
    BY <2>4, <2>5, <2>6, <2>7
  <2>11. /\ slug' = slug /\ slug' \in [Orgs -> Slugs]
         /\ \A x, y \in Orgs : slug'[x] = slug'[y] => x = y
         /\ cache' = [s \in Slugs |-> cache'[s]] /\ \A s \in Slugs : cache'[s] = cache[s]
         /\ phase' \in [Installs -> {"new", "installed", "gone"}]
    BY <1>1, <1>3, <2>1
  <2> QED BY <1>2, <2>1, <2>8, <2>9, <2>10, <2>11
<1>7. ASSUME NEW o \in Orgs, NEW s \in Slugs, Rename(o, s) PROVE InstIInv'
  <2>1. /\ UNCHANGED <<users, row, resources, cache, phase, told, vouched, authorized, deserted>>
        /\ UNCHANGED <<moved, synced, call, course>> /\ course = "free"
        /\ slug' = [slug EXCEPT ![o] = s] /\ \A p \in Orgs : slug[p] # s
    BY <1>7 DEF Rename, trace
  <2>2. slug' \in [Orgs -> Slugs] /\ \A x, y \in Orgs : slug'[x] = slug'[y] => x = y
    BY <1>1, <2>1
  <2>3. RowsSane'
    BY <1>1, <2>1 DEF RowsSane
  <2> QED BY <1>1, <1>2, <1>3, <2>1, <2>2, <2>3
<1> QED BY <1>4, <1>5, <1>6, <1>7

-----------------------------------------------------------------------------

LEMMA InstInitHolds == InstInit => InstIInv
<1> SUFFICES ASSUME InstInit PROVE InstIInv
  OBVIOUS
<1>1. \A o \in Orgs : row[o] = Unlinked /\ users[o] = {} /\ resources[o] = <<>>
  BY DEF InstInit
<1>2. \A q \in Requests : call[q] = Idle
  BY DEF InstInit
<1>3. RowsSane /\ CallsSane
  BY <1>1, <1>2, UnlinkedSane, IdleSane DEF InstInit, RowsSane, RowSane, CallsSane
<1>4. PastSane
  BY DEF InstInit, PastSane
<1>5. InstTypeOK
  <2>1. /\ slug \in [Orgs -> Slugs] /\ \A o, p \in Orgs : slug[o] = slug[p] => o = p
        /\ users \in [Orgs -> SUBSET GithubUsers]
        /\ \A s \in Slugs : cache[s] = NoEntry
    BY DEF InstInit
  <2>2. \A o \in Orgs : (row[o].status = "CONNECTED") <=> (row[o].account # NoInstall)
    BY <1>3 DEF RowsSane, RowSane
  <2>3. \A o \in Orgs : resources[o] \in Seq(Repos) /\ IsInjective(resources[o])
    <3>1. <<>> \in Seq(Repos) /\ DOMAIN <<>> = 1 .. 0
      OBVIOUS
    <3>2. IsInjective(<<>>)
      BY <3>1 DEF IsInjective
    <3> QED BY <1>1, <3>1, <3>2
  <2> QED BY <1>3, <2>1, <2>2, <2>3 DEF InstTypeOK, RowsSane
<1>6. FreeCourse
  BY <1>1, <1>2, IdleSane, UnlinkedSane DEF FreeCourse, FreeRows, Vouched
<1>7. CalmCourse
  <2>1. OneAtATime
    BY <1>2 DEF OneAtATime
  <2>2. ASSUME NEW o \in Orgs PROVE CalmRow(o) /\ CalmEntry(o)
    <3>1. told = {} /\ synced[o] = FALSE /\ cache[slug[o]] = NoEntry
      BY DEF InstInit
    <3> QED BY <1>1, <3>1, UnlinkedSane DEF CalmRow, CalmEntry, EntryFresh
  <2> QED BY <1>2, <2>1, <2>2, IdleSane DEF CalmCourse
<1> QED BY <1>3, <1>4, <1>5, <1>6, <1>7 DEF InstIInv, InstTypes

LEMMA InstStepKeeps == InstIInv /\ [InstNext]_instVars => InstIInv'
<1> SUFFICES ASSUME InstIInv, [InstNext]_instVars PROVE InstIInv'
  OBVIOUS
<1>1. CASE UNCHANGED instVars
  <2>1. /\ UNCHANGED <<slug, users, row, resources, cache, phase, told, vouched, authorized, deserted>>
        /\ UNCHANGED <<moved, synced, call, course>>
    BY <1>1 DEF instVars, rows, trace
  <2>2. InstTypes'
    BY <2>1 DEF InstIInv, InstTypes, InstTypeOK, RowsSane, CallsSane, PastSane
  <2>3. FreeCourse'
    BY <2>1 DEF InstIInv, FreeCourse, FreeRows, FreeCall, Vouched, Closed
  <2>4. \A e, o : Shows(e, o)' <=> Shows(e, o)
    BY <2>1 DEF Shows, OneOf, Entry, Candidates, Sharing
  <2>5. /\ \A c : CalmCall(c) => CalmCall(c)'
        /\ \A c, o : WillDrop(c, o)' <=> WillDrop(c, o)
    <3>1. \A c, o : WillDrop(c, o)' <=> WillDrop(c, o)
      BY <2>1 DEF WillDrop, Covers
    <3> QED BY <2>1, <3>1, CalmCallStays
  <2>6. \A o \in Orgs : (CalmRow(o)' <=> CalmRow(o)) /\ (EntryFresh(o)' <=> EntryFresh(o))
    BY <2>1, <2>4 DEF CalmRow, EntryFresh, Settled
  <2>7. CalmCourse'
    BY <2>1, <2>5, <2>6 DEF InstIInv, CalmCourse, OneAtATime, Idle, CalmEntry
  <2> QED BY <2>2, <2>3, <2>7 DEF InstIInv
<1>2. CASE Elsewhere
  BY <1>2, ElsewhereKeeps DEF Elsewhere
<1>3. ASSUME NEW q \in Requests, Ask(q) PROVE InstIInv'
  BY <1>3, StatusReadsKeep, TokenReadsKeep, ArrivalsKeep DEF Ask
<1>4. ASSUME NEW q \in Requests, Step(q) PROVE InstIInv'
  BY <1>4, FindsKeep, DropKeeps, LinkKeeps, UsersKeep, MarkKeeps, UnlinkKeeps, ConnectKeeps,
     StatusReadsKeep, KeepEntryKeeps, TokenReadsKeep, KeepTokenKeeps, UpsertKeeps
  DEF Step
<1> QED BY <1>1, <1>2, <1>3, <1>4 DEF InstNext

LEMMA InstInvariant == InstSpec => []InstIInv
BY InstInitHolds, InstStepKeeps, PTL DEF InstSpec

\* Types, for any number of organizations, installations and requests: slugs differ, and
\* a row is CONNECTED exactly when it names an installation.
THEOREM InstTypeCorrect == InstSpec => []InstTypeOK
<1>1. InstIInv => InstTypeOK
  BY DEF InstIInv, InstTypes
<1> QED BY <1>1, InstInvariant, PTL

\* However requests overlap, fail and come late, no chain of auto-connects links an
\* organization to an installation that nobody it is tied to has called back for.
THEOREM AccountsAreVouched == InstSpec => []AccountIsVouched
<1>1. InstIInv => AccountIsVouched
  BY DEF InstIInv, FreeCourse, FreeRows, Vouched, AccountIsVouched
<1> QED BY <1>1, InstInvariant, PTL

\* Whatever a handler changes, it drops every cached status that showed it, those of the
\* other organizations too: unless the account is one that an organization has left for
\* another, or has beside another.
THEOREM StatusesAreFresh == InstSpec => []StatusIsFresh
<1>1. InstIInv => StatusIsFresh
  <2> SUFFICES ASSUME InstIInv, course = "calm", AllIdle, NEW o \in Orgs,
                      Settled(o), cache[slug[o]] # NoEntry
               PROVE  \E g \in OneOf(users[o]) : cache[slug[o]] = Entry(o, row[o], g)
    BY DEF StatusIsFresh
  <2>1. CalmEntry(o) /\ \A q \in Requests : ~WillDrop(call[q], o)
    BY IdleDrops DEF InstIInv, CalmCourse, AllIdle
  <2> QED BY <2>1 DEF CalmEntry, EntryFresh, Shows
<1> QED BY <1>1, InstInvariant, PTL

\* No organization stays linked to an installation whose deletion was handled, and the
\* token it keeps is of the installation it is linked to.
THEOREM LinksAreInstalled == InstSpec => []LinkedIsInstalled
<1>1. InstIInv => LinkedIsInstalled
  BY DEF InstIInv, CalmCourse, CalmRow, LinkedIsInstalled
<1> QED BY <1>1, InstInvariant, PTL

\* The repository that is read by default is one the token can read.
THEOREM DefaultsAreReadable == InstSpec => []DefaultIsReadable
<1>1. InstIInv => DefaultIsReadable
  BY DEF InstIInv, CalmCourse, CalmCall, DefaultIsReadable
<1> QED BY <1>1, InstInvariant, PTL
-----------------------------------------------------------------------------
\* The configs of the other apps.

\* Where a request holds a config it read, and where a token that is not yet kept.
Reading == {"update", "create", "guild", "refresh", "keep", "site"}
Holding == {"find", "update", "create", "keep"}

AskType ==
  [op : {"none", "exchange", "token", "list"}]
  \cup [op : {"replace", "find"}, grant : Grants, cloud : BOOLEAN]
  \cup [op : {"update", "create"}, read : ConfigType, grant : Grants, cloud : BOOLEAN]
  \cup [op : {"guild"}, guild : Guilds, read : ConfigType]
  \cup [op : {"use"}, grant : Grants, live : BOOLEAN]
  \cup [op : {"refresh"}, read : ConfigType]
  \cup [op : {"keep", "site"}, read : ConfigType, grant : Grants]
  \cup [op : {"list"}, grant : Grants]
  \cup [op : {"upsert"}, left : SUBSET Things]

\* ConfigTypeOK, of a config that was read or is written.
Sane(conf) ==
  /\ conf \in ConfigType
  /\ (conf.status = "CONNECTED") <=> (conf.token # NoGrant \/ conf.guilds # {})
  /\ app = "jira" => conf.refresh = conf.token
  /\ conf.refresh \in 0 .. grants

\* What a request knows.
AskKnown(r) ==
  /\ r \in AskType
  /\ r.op \in Reading => Sane(r.read) /\ (conduct = "calm" => r.read = config)
  /\ r.op \in {"replace"} \cup Holding => r.grant <= grants
  /\ r.op = "replace" => app = "slack"
  /\ r.op = "guild" => app = "discord"
  /\ app = "jira" /\ r.op \in Holding => r.grant \in accepted /\ r.grant # config.refresh
  /\ app = "jira" /\ conduct = "sound" =>
       /\ r.op \in {"find", "update", "create"} => r.cloud
       /\ r.op \in {"refresh", "keep"} => r.read.cloud
       /\ r.op = "use" => config.cloud
       /\ r.op # "site"

\* A token that is held is in no config that was read, and nobody else's.
HeldApart ==
  app = "jira" =>
    \A p, q \in Askers :
      ask[p].op \in Holding =>
        /\ ask[q].op \in Reading => ask[q].read.refresh # ask[p].grant
        /\ p # q /\ ask[q].op \in Holding => ask[q].grant # ask[p].grant

AsksKnown ==
  /\ ask \in [Askers -> AskType] /\ \A q \in Askers : AskKnown(ask[q])
  /\ conduct = "calm" => \A p, q \in Askers : ask[p] # Resting /\ ask[q] # Resting => p = q

RowKnown ==
  /\ Sane(config)
  /\ app = "jira" /\ conduct = "sound" /\ config.token # NoGrant => config.cloud
  /\ app # "discord" => added = {}
  /\ age \in [Grants -> 0 .. Expired] /\ conduct \in {"calm", "sound", "free"}

\* The inductive invariant.
AppIInv == ConfigTypeOK /\ RowKnown /\ AsksKnown /\ HeldApart /\ ConfigIsKept

-----------------------------------------------------------------------------
\* Lemmas.

LEMMA RestingType == Resting \in AskType /\ Resting.op = "none"
BY DEF Resting, AskType

LEMMA AppInitHolds == AppInit => AppIInv
<1> SUFFICES ASSUME AppInit PROVE AppIInv
  OBVIOUS
<1>1. PICK made \in BOOLEAN : config = Row(made, "NOT_CONNECTED")
  BY DEF AppInit
<1>2. /\ config \in ConfigType /\ config.status = "NOT_CONNECTED" /\ config.token = NoGrant
      /\ config.refresh = NoGrant /\ config.guilds = {}
  BY <1>1 DEF Row, ConfigType
<1>3. Sane(config) /\ ConfigTypeOK
  BY <1>2, AppConfigsAssumption DEF AppInit, Sane, ConfigTypeOK, NoGrant
<1>4. RowKnown
  BY <1>2, <1>3 DEF AppInit, RowKnown, Fresh, Expired
<1>5. \A q \in Askers : ask[q] = Resting
  BY DEF AppInit
<1>6. AsksKnown
  BY <1>5, RestingType DEF AppInit, AsksKnown, AskKnown, Reading, Holding
<1>7. HeldApart /\ ConfigIsKept
  BY <1>2, <1>5, RestingType
  DEF AppInit, HeldApart, Holding, ConfigIsKept, RefreshIsAccepted, GuildsAreKept
<1> QED BY <1>3, <1>4, <1>6, <1>7 DEF AppIInv

\* A request moves on and writes nothing, with the config it may have read now.
LEMMA LooksKeeps ==
  ASSUME AppIInv, NEW q \in Askers, NEW next \in AskType, Goes(q, next),
         UNCHANGED <<app, config, grants, accepted, added, conduct>>,
         age' \in [Grants -> 0 .. Expired], listings' \subseteq Things,
         conduct = "calm" => ask[q] # Resting \/ \A p \in Askers : ask[p] = Resting,
         conduct # "free" => ask[q].op # "keep",
         next.op \in Reading => next.read = config,
         next.op \in Holding => /\ ask[q].op = "find" /\ next.op # "keep"
                                /\ next.grant = ask[q].grant /\ next.cloud = ask[q].cloud,
         next.op # "replace", next.op = "guild" => app = "discord",
         app = "jira" /\ conduct = "sound" =>
           /\ next.op = "refresh" => config.token # NoGrant
           /\ next.op = "use" => config.cloud
           /\ next.op # "site"
  PROVE  AppIInv'
<1>1. \A p \in Askers : ask'[p] = IF p = q THEN next ELSE ask[p]
  BY DEF Goes, AppIInv, AsksKnown
<1>2. ConfigTypeOK' /\ RowKnown'
  BY DEF AppIInv, ConfigTypeOK, RowKnown, Sane
<1>3. \A p \in Askers : AskKnown(ask[p]) /\ Sane(config)
  BY DEF AppIInv, AsksKnown, RowKnown
<1>4. AskKnown(next)
  <2>1. next.op \in Reading => Sane(next.read) /\ (conduct = "calm" => next.read = config)
    BY <1>3
  <2>2. app = "jira" /\ conduct = "sound" /\ next.op \in {"refresh", "keep"} => next.read.cloud
    BY DEF AppIInv, RowKnown, Holding, Reading
  <2> QED BY <1>3, <2>1, <2>2 DEF AskKnown, Holding
<1>5. \A p \in Askers : AskKnown(ask[p])'
  BY <1>1, <1>3, <1>4 DEF AskKnown, Sane
<1>6. ask' \in [Askers -> AskType]
  BY <1>1 DEF Goes, AppIInv, AsksKnown
<1>7. conduct = "calm" => \A p, r \in Askers : ask'[p] # Resting /\ ask'[r] # Resting => p = r
  BY <1>1 DEF AppIInv, AsksKnown
<1>8. AsksKnown'
  BY <1>5, <1>6, <1>7 DEF AsksKnown, Resting
<1>9. HeldApart'
  <2> SUFFICES ASSUME app = "jira", NEW p \in Askers, NEW r \in Askers,
                      ask'[p].op \in Holding
               PROVE  /\ ask'[r].op \in Reading => ask'[r].read.refresh # ask'[p].grant
                      /\ p # r /\ ask'[r].op \in Holding => ask'[r].grant # ask'[p].grant
    BY DEF HeldApart
  <2>1. /\ ask[p].op \in Holding /\ ask'[p].grant = ask[p].grant
        /\ ask[p].grant # config.refresh
    BY <1>1, <1>3 DEF Holding, AskKnown
  <2>2. CASE r = q
    BY <1>1, <2>1, <2>2 DEF AppIInv, HeldApart, Holding
  <2>3. CASE r # q
    BY <1>1, <2>1, <2>3 DEF AppIInv, HeldApart
  <2> QED BY <2>2, <2>3
<1>10. ConfigIsKept'
  BY <1>1 DEF AppIInv, ConfigIsKept, RefreshIsAccepted, GuildsAreKept
<1> QED BY <1>2, <1>8, <1>9, <1>10 DEF AppIInv

\* A request writes the row.
LEMMA WriteKeeps ==
  ASSUME AppIInv, NEW q \in Askers, NEW next \in AskType, Goes(q, next), NEW conf, Sane(conf),
         config' = conf, UNCHANGED <<app, listings, grants, accepted, age, conduct>>,
         ask[q] # Resting, next.op \in {"none", "use", "token"},
         app = "jira" =>
           \A p \in Askers \ {q} : ask[p].op \in Holding => ask[p].grant # conf.refresh,
         app = "jira" /\ conduct # "free" =>
           conf.refresh \in accepted \/ (conf.refresh = config.refresh /\ ask[q].op # "keep"),
         app = "jira" /\ conduct = "sound" => conf.cloud,
         app # "discord" => added' = added, GuildsAreKept'
  PROVE  AppIInv'
<1>1. \A p \in Askers : ask'[p] = IF p = q THEN next ELSE ask[p]
  BY DEF Goes, AppIInv, AsksKnown
<1>2. ConfigTypeOK' /\ RowKnown'
  BY DEF AppIInv, ConfigTypeOK, RowKnown, Sane
<1>3. \A p \in Askers : AskKnown(ask[p])
  BY DEF AppIInv, AsksKnown
<1>4. conduct = "calm" => \A p \in Askers \ {q} : ask[p] = Resting
  BY DEF AppIInv, AsksKnown
<1>5. ASSUME NEW p \in Askers PROVE AskKnown(ask[p])'
  <2>1. CASE p = q
    BY <1>1, <2>1 DEF AskKnown, Reading, Holding
  <2>2. CASE p # q
    <3>1. ask'[p] = ask[p] /\ (conduct = "calm" => ask[p] = Resting)
      BY <1>1, <1>4, <2>2
    <3> QED BY <1>3, <2>2, <3>1, RestingType DEF AskKnown, Sane, Reading
  <2> QED BY <2>1, <2>2
<1>6. ask' \in [Askers -> AskType]
  BY <1>1 DEF Goes, AppIInv, AsksKnown
<1>7. AsksKnown'
  BY <1>1, <1>4, <1>5, <1>6 DEF AsksKnown, Resting
<1>8. HeldApart'
  BY <1>1 DEF AppIInv, HeldApart, Holding, Reading
<1>9. RefreshIsAccepted'
  BY <1>1 DEF AppIInv, ConfigIsKept, RefreshIsAccepted
<1> QED BY <1>2, <1>7, <1>8, <1>9 DEF AppIInv, ConfigIsKept

\* The app gives a token, to who holds it then.
LEMMA GrantKeeps ==
  ASSUME AppIInv, NEW q \in Askers, NEW next \in AskType, Goes(q, next), Grant,
         ask[q].op \in {"exchange", "refresh"},
         next.op \in {"replace"} \cup Holding, next.grant = grants',
         next.op = "replace" => app = "slack",
         \/ next.op \in {"find", "replace"}
         \/ next.op = "keep" /\ next.read = ask[q].read /\ ask[q].op = "refresh",
         app = "jira" /\ conduct = "sound" /\ next.op = "find" => next.cloud,
         NEW lost, lost \subseteq accepted, accepted' \subseteq (accepted \ lost) \cup {grants'},
         app = "jira" => accepted' = (accepted \ lost) \cup {grants'},
         lost # {} => next.op = "keep" /\ lost = {next.read.refresh}
  PROVE  AppIInv'
<1>1. \A p \in Askers : ask'[p] = IF p = q THEN next ELSE ask[p]
  BY DEF Goes, AppIInv, AsksKnown
<1>2. /\ grants' = grants + 1 /\ grants \in 0 .. MaxGrants /\ grants < MaxGrants
      /\ app' = app /\ config' = config /\ listings' = listings /\ age' = age
      /\ added' = added /\ conduct' = conduct /\ accepted \subseteq 1 .. grants
  BY DEF Grant, AppIInv, ConfigTypeOK
<1>3. \A conf : Sane(conf) => Sane(conf)' /\ conf.refresh # grants'
  BY <1>2, AppConfigsAssumption DEF Sane
<1>4. ConfigTypeOK' /\ RowKnown'
  <2>1. accepted' \subseteq 1 .. grants' /\ grants' \in 0 .. MaxGrants
    BY <1>2, AppConfigsAssumption
  <2> QED BY <1>2, <1>3, <2>1 DEF AppIInv, ConfigTypeOK, RowKnown
<1>5. \A p \in Askers : AskKnown(ask[p]) /\ (ask[p].op \in Holding => ask[p].grant # grants')
  BY <1>2, AppConfigsAssumption DEF AppIInv, AsksKnown, AskKnown, AskType, Holding, Grants
<1>6. \A p \in Askers \ {q} :
        app = "jira" /\ ask[p].op \in Holding => ask[p].grant \in accepted'
  <2>1. app = "jira" /\ next.op = "keep" /\ lost # {} =>
          \A p \in Askers : ask[p].op \in Holding => ask[p].grant \notin lost
    BY DEF AppIInv, HeldApart, Reading
  <2> QED BY <1>5, <2>1 DEF AskKnown
<1>7. Sane(config) /\ config.refresh # grants'
  BY <1>3 DEF AppIInv, RowKnown
<1>8. ASSUME NEW p \in Askers PROVE AskKnown(ask[p])'
  <2>1. CASE p = q
    <3>1. next.op \in Reading =>
            /\ Sane(next.read)' /\ (conduct = "calm" => next.read = config)
            /\ app = "jira" /\ conduct = "sound" => next.read.cloud
      BY <1>3, <1>5 DEF AskKnown, Reading
    <3>2. app = "jira" => grants' \in accepted'
      OBVIOUS
    <3>3. next.grant <= grants' /\ next.grant # config'.refresh
      BY <1>2, <1>7
    <3>4. /\ ask'[p] = next /\ next.op # "guild" /\ next.op # "use" /\ next.op # "site"
          /\ next.op = "replace" => app' = "slack"
      BY <1>1, <1>2, <2>1 DEF Holding
    <3>5. app' = "jira" /\ conduct' = "sound" =>
            /\ next.op \in {"find", "update", "create"} => next.cloud
            /\ next.op \in {"refresh", "keep"} => next.read.cloud
      BY <1>2, <3>1 DEF Reading, Holding
    <3> QED BY <1>2, <3>1, <3>2, <3>3, <3>4, <3>5 DEF AskKnown
  <2>2. CASE p # q
    <3>1. ask'[p] = ask[p] /\ AskKnown(ask[p])
      BY <1>1, <1>5, <2>2
    <3>2. ask[p].op \in {"replace"} \cup Holding => ask[p].grant <= grants'
      BY <1>2, <3>1 DEF AskKnown, AskType, Holding, Grants
    <3> QED BY <1>2, <1>3, <1>6, <2>2, <3>1, <3>2 DEF AskKnown
  <2> QED BY <2>1, <2>2
<1>9. ask' \in [Askers -> AskType]
  BY <1>1 DEF Goes, AppIInv, AsksKnown
<1>10. AsksKnown'
  <2>1. ask[q] # Resting
    BY RestingType
  <2> QED BY <1>1, <1>2, <1>8, <1>9, <2>1 DEF AppIInv, AsksKnown, Resting
<1>11. HeldApart'
  <2> SUFFICES ASSUME app = "jira", NEW p \in Askers, NEW r \in Askers,
                      ask'[p].op \in Holding
               PROVE  /\ ask'[r].op \in Reading => ask'[r].read.refresh # ask'[p].grant
                      /\ p # r /\ ask'[r].op \in Holding => ask'[r].grant # ask'[p].grant
    BY <1>2 DEF HeldApart
  <2>1. ask'[r].op \in Reading => ask[r].op \in Reading /\ ask'[r].read = ask[r].read
    BY <1>1 DEF Reading
  <2>2. ask[r].op \in Reading => Sane(ask[r].read) /\ ask[r].read.refresh # grants'
    BY <1>3, <1>5 DEF AskKnown
  <2>3. CASE p = q
    BY <1>1, <1>5, <2>1, <2>2, <2>3
  <2>4. CASE p # q
    BY <1>1, <1>5, <2>1, <2>4 DEF AppIInv, HeldApart
  <2> QED BY <2>3, <2>4
<1>12. RefreshIsAccepted'
  <2>1. CASE lost = {}
    BY <1>1, <1>2, <2>1 DEF AppIInv, ConfigIsKept, RefreshIsAccepted
  <2>2. CASE lost # {}
    BY <1>1, <2>2 DEF RefreshIsAccepted
  <2> QED BY <2>1, <2>2
<1>13. GuildsAreKept'
  BY <1>2 DEF AppIInv, ConfigIsKept, GuildsAreKept
<1> QED BY <1>4, <1>10, <1>11, <1>12, <1>13 DEF AppIInv, ConfigIsKept

-----------------------------------------------------------------------------
\* The steps.

\* A request arrives, or an access token ages.
LEMMA ArrivalKeeps ==
  ASSUME AppIInv, NEW q \in Askers,
         Callback(q) \/ Sync(q) \/ \E guild \in Guilds : GuildCallback(q, guild)
  PROVE  AppIInv'
<1>1. ASSUME NEW next \in AskType, Starts(q, next), next.op \notin Holding,
             next.op \notin {"replace", "use", "site", "refresh"},
             next.op \in Reading => next.read = config, next.op = "guild" => app = "discord"
      PROVE  AppIInv'
  <2>1. ask[q] = Resting /\ age \in [Grants -> 0 .. Expired] /\ listings \subseteq Things
    BY <1>1 DEF Starts, AppIInv, RowKnown, ConfigTypeOK
  <2>2. /\ Goes(q, next) /\ UNCHANGED <<app, config, grants, accepted, added, conduct>>
        /\ age' = age /\ listings' = listings
        /\ conduct = "calm" => \A p \in Askers : ask[p] = Resting
    BY <1>1 DEF Starts, Looks, atApp
  <2> QED BY <1>1, <2>1, <2>2, RestingType, LooksKeeps
<1>2. CASE Callback(q) \/ Sync(q)
  <2>1. ASSUME NEW op \in {"exchange", "list", "token"}
        PROVE  [op |-> op] \in AskType /\ [op |-> op].op \notin Holding \cup Reading
    BY DEF AskType, Holding, Reading
  <2> QED BY <1>1, <1>2, <2>1 DEF Callback, Sync
<1>3. ASSUME NEW guild \in Guilds, GuildCallback(q, guild) PROVE AppIInv'
  <2> DEFINE next == [op |-> "guild", guild |-> guild, read |-> config]
  <2>1. next \in AskType /\ next.op \notin Holding
    BY DEF AskType, Holding, AppIInv, RowKnown, Sane
  <2> QED BY <1>1, <1>3, <2>1 DEF GuildCallback
<1> QED BY <1>2, <1>3

LEMMA AgeKeeps ==
  ASSUME AppIInv, NEW g \in Grants, AccessAges(g)
  PROVE  AppIInv'
<1>1. /\ app' = app /\ config' = config /\ listings' = listings /\ grants' = grants
      /\ accepted' = accepted /\ ask' = ask /\ added' = added /\ conduct' = conduct
  BY DEF AccessAges
<1>2. age' \in [Grants -> 0 .. Expired]
  <2>1. age[g] \in 0 .. Expired /\ age[g] < Expired /\ age' = [age EXCEPT ![g] = @ + 1]
    BY DEF AccessAges, AppIInv, RowKnown
  <2> QED BY <2>1 DEF AppIInv, RowKnown, Expired
<1>3. ConfigTypeOK' /\ RowKnown' /\ HeldApart' /\ ConfigIsKept'
  BY <1>1, <1>2 DEF AppIInv, ConfigTypeOK, RowKnown, Sane, HeldApart, ConfigIsKept,
     RefreshIsAccepted, GuildsAreKept
<1>4. AsksKnown'
  BY <1>1 DEF AppIInv, AsksKnown, AskKnown, Sane, Resting
<1> QED BY <1>3, <1>4 DEF AppIInv

\* The app is called, and gives a token or not.
LEMMA CallsKeep ==
  ASSUME AppIInv, NEW q \in Askers, Exchange(q) \/ Refresh(q)
  PROVE  AppIInv'
<1>1. /\ AskKnown(ask[q]) /\ grants \in 0 .. MaxGrants /\ MaxGrants \in Nat
      /\ age \in [Grants -> 0 .. Expired] /\ listings \subseteq Things
  BY AppConfigsAssumption DEF AppIInv, AsksKnown, ConfigTypeOK, RowKnown
<1>2. CASE Exchange(q)
  <2>1. /\ ask[q].op = "exchange" /\ Grant
        /\ accepted' = accepted \cup {g \in {grants'} : app = "jira"}
    BY <1>2 DEF Exchange
  <2>2. PICK cloud \in BOOLEAN :
          /\ app = "jira" /\ conduct = "sound" => cloud
          /\ Goes(q, [op |-> IF app = "slack" THEN "replace" ELSE "find",
                      grant |-> grants', cloud |-> cloud])
    BY <1>2 DEF Exchange
  <2> DEFINE next == [op |-> IF app = "slack" THEN "replace" ELSE "find",
                      grant |-> grants', cloud |-> cloud]
  <2>3. grants' \in Grants
    BY <1>1, <2>1 DEF Grant, Grants
  <2>4. /\ next \in AskType /\ next.op \in {"replace", "find"} /\ next.grant = grants'
        /\ next.op = "replace" => app = "slack"
        /\ next.cloud = cloud
    BY <2>3 DEF AskType
  <2>5. Goes(q, next)
    BY <2>2
  <2>6. /\ accepted' \subseteq (accepted \ {}) \cup {grants'}
        /\ app = "jira" => accepted' = (accepted \ {}) \cup {grants'}
    BY <2>1
  <2> HIDE DEF next
  <2> QED BY <2>1, <2>2, <2>4, <2>5, <2>6, GrantKeeps DEF Holding
<1>3. CASE Refresh(q) /\ Grant
  <2> DEFINE refresh == ask[q].read.refresh
             next == [op |-> "keep", read |-> ask[q].read, grant |-> grants']
  <2>1. /\ ask[q].op = "refresh" /\ refresh \in accepted /\ Goes(q, next)
        /\ accepted' = (accepted \ {refresh}) \cup {grants'}
    BY <1>1, <1>3 DEF Refresh, Grant, Looks, atApp
  <2>2. grants' \in Grants
    BY <1>1, <1>3 DEF Grant, Grants
  <2>3. /\ next \in AskType /\ next.op = "keep" /\ next.grant = grants'
        /\ next.read = ask[q].read
    BY <1>1, <2>1, <2>2 DEF AskKnown, AskType
  <2>4. {refresh} \subseteq accepted /\ {refresh} = {next.read.refresh}
    BY <2>1, <2>3
  <2> HIDE DEF next, refresh
  <2> QED BY <1>3, <2>1, <2>3, <2>4, GrantKeeps DEF Holding
<1>4. CASE Refresh(q) /\ ~Grant
  <2>1. ask[q].op = "refresh" /\ Goes(q, Resting) /\ Looks
    BY <1>4 DEF Refresh
  <2> QED BY <1>1, <2>1, RestingType, LooksKeeps DEF Looks, atApp, Reading, Holding
<1> QED BY <1>2, <1>3, <1>4

\* A request writes the row, with what it read before.
LEMMA WritesKeep ==
  ASSUME AppIInv, NEW q \in Askers,
         ReplaceConfig(q) \/ UpdateRow(q) \/ CreateRow(q) \/ AddGuild(q) \/ KeepTokens(q)
         \/ KeepSite(q)
  PROVE  AppIInv'
<1> DEFINE r == ask[q]
<1>1. /\ AskKnown(r) /\ r \in AskType /\ Sane(config) /\ grants \in 0 .. MaxGrants
      /\ age \in [Grants -> 0 .. Expired] /\ listings \subseteq Things
      /\ app # "discord" => added = {}
      /\ conduct = "calm" => added \subseteq config.guilds
  BY DEF AppIInv, AsksKnown, AskKnown, ConfigTypeOK, RowKnown, ConfigIsKept, GuildsAreKept
<1>2. r # Resting
  BY RestingType
  DEF ReplaceConfig, UpdateRow, CreateRow, AddGuild, KeepTokens, KeepSite
<1>3. ASSUME Goes(q, Resting), Looks, conduct = "free" \/ r.op # "keep" PROVE AppIInv'
  BY <1>1, <1>2, <1>3, RestingType, LooksKeeps DEF Looks, atApp, Reading, Holding
<1>4. ASSUME r.op \in {"update", "create", "keep"}, NEW cloud \in BOOLEAN,
             app = "jira" /\ conduct = "sound" => cloud \/ r.read.cloud
      PROVE  LET conf == Granted(r.read, r.grant, cloud)
             IN /\ Sane(conf) /\ conf.guilds = r.read.guilds
                /\ app = "jira" => conf.refresh = r.grant
                /\ app = "jira" /\ conduct = "sound" => conf.cloud
  <2>1. Sane(r.read) /\ r.grant \in Grants /\ r.grant \in 1 .. grants
    BY <1>1, <1>4, AppConfigsAssumption DEF AskKnown, AskType, Reading, Holding, Grants
  <2> DEFINE conf == Granted(r.read, r.grant, cloud)
  <2>2. /\ conf.made = TRUE /\ conf.status = "CONNECTED" /\ conf.token = r.grant
        /\ conf.refresh = IF app = "jira" THEN r.grant ELSE r.read.refresh
        /\ conf.cloud = (r.read.cloud \/ cloud) /\ conf.guilds = r.read.guilds
        /\ conf \in ConfigType
    BY <2>1 DEF Granted, Sane, ConfigType
  <2> HIDE DEF conf
  <2>3. Sane(conf)
    BY <2>1, <2>2, AppConfigsAssumption DEF Sane, NoGrant, Grants
  <2> QED BY <1>4, <2>1, <2>2, <2>3 DEF conf
<1>5. ASSUME NEW next \in AskType, Goes(q, next), next.op \in {"none", "use"},
             NEW cloud \in BOOLEAN, Writes(Granted(r.read, r.grant, cloud)),
             r.op \in {"update", "create", "keep"},
             app = "jira" /\ conduct = "sound" => cloud \/ r.read.cloud
      PROVE  AppIInv'
  <2> DEFINE conf == Granted(r.read, r.grant, cloud)
  <2>1. /\ Sane(conf) /\ conf.guilds = r.read.guilds
        /\ app = "jira" => conf.refresh = r.grant
        /\ app = "jira" /\ conduct = "sound" => conf.cloud
    BY <1>4, <1>5
  <2>2. /\ config' = conf /\ added' = added
        /\ UNCHANGED <<app, listings, grants, accepted, age, conduct>>
    BY <1>5 DEF Writes, atApp
  <2> HIDE DEF conf
  <2>3. GuildsAreKept'
    BY <1>1, <1>5, <2>1, <2>2 DEF GuildsAreKept, AskKnown, Reading
  <2>4. app = "jira" =>
          /\ conf.refresh \in accepted
          /\ \A p \in Askers \ {q} : ask[p].op \in Holding => ask[p].grant # conf.refresh
    BY <1>1, <1>5, <2>1 DEF AppIInv, HeldApart, AskKnown, Holding
  <2> QED BY <1>2, <1>5, <2>1, <2>2, <2>3, <2>4, WriteKeeps
<1>6. CASE ReplaceConfig(q)
  <2> DEFINE conf == [Row(TRUE, "CONNECTED") EXCEPT !.token = r.grant]
  <2>1. /\ r.op = "replace" /\ app = "slack" /\ r.grant \in Grants
        /\ config' = conf /\ Goes(q, Resting) /\ added' = added
        /\ UNCHANGED <<app, listings, grants, accepted, age, conduct>>
    BY <1>1, <1>6 DEF ReplaceConfig, AskKnown, AskType, Writes, atApp
  <2>2. Sane(conf)
    <3>1. /\ conf \in ConfigType /\ conf.status = "CONNECTED" /\ conf.token = r.grant
          /\ conf.refresh = NoGrant
      BY <2>1 DEF Row, ConfigType
    <3> HIDE DEF conf
    <3> QED BY <1>1, <2>1, <3>1, AppConfigsAssumption DEF Sane, NoGrant, Grants
  <2> HIDE DEF conf
  <2>3. GuildsAreKept'
    BY <1>1, <2>1 DEF GuildsAreKept
  <2> QED BY <1>2, <2>1, <2>2, <2>3, RestingType, WriteKeeps
<1>7. CASE UpdateRow(q) \/ (CreateRow(q) /\ ~Looks)
  <2>1. /\ r.op \in {"update", "create"} /\ Goes(q, Resting)
        /\ Writes(Granted(r.read, r.grant, r.cloud))
    BY <1>7 DEF UpdateRow, CreateRow
  <2>2. r.cloud \in BOOLEAN /\ (app = "jira" /\ conduct = "sound" => r.cloud)
    BY <1>1, <2>1 DEF AskKnown, AskType
  <2> QED BY <1>5, <2>1, <2>2, RestingType
<1>8. CASE CreateRow(q) /\ Looks
  BY <1>3, <1>8 DEF CreateRow
<1>9. CASE KeepTokens(q)
  <2> DEFINE next == [op |-> "use", grant |-> r.grant, live |-> TRUE]
  <2>1. /\ r.op = "keep" /\ Goes(q, next) /\ Writes(Granted(r.read, r.grant, FALSE))
        /\ app = "jira" /\ conduct = "sound" => r.read.cloud
    BY <1>1, <1>9 DEF KeepTokens, AskKnown
  <2>2. next \in AskType
    BY <1>1, <2>1 DEF AskType
  <2> QED BY <1>5, <2>1, <2>2
<1>10. CASE AddGuild(q)
  <2> DEFINE conf == WithGuild(r.read, r.guild)
  <2>1. /\ r.op = "guild" /\ app = "discord" /\ r.guild \in Guilds /\ Sane(r.read)
        /\ conduct = "calm" => r.read = config
        /\ config' = conf /\ Goes(q, Resting) /\ added' = added \cup {r.guild}
        /\ UNCHANGED <<app, listings, grants, accepted, age, conduct>>
    BY <1>1, <1>10 DEF AddGuild, AskKnown, AskType, atApp, Reading
  <2>2. Sane(conf) /\ conf.guilds = r.read.guilds \cup {r.guild}
    BY <2>1 DEF Sane, WithGuild, ConfigType, NoGrant
  <2> HIDE DEF conf
  <2>3. GuildsAreKept'
    BY <1>1, <2>1, <2>2 DEF GuildsAreKept
  <2> QED BY <1>2, <2>1, <2>2, <2>3, RestingType, WriteKeeps
<1>11. CASE KeepSite(q) /\ Goes(q, Resting) /\ Looks
  BY <1>3, <1>11 DEF KeepSite
<1>12. CASE KeepSite(q) /\ ~(Goes(q, Resting) /\ Looks)
  <2> DEFINE conf == [r.read EXCEPT !.cloud = TRUE]
             next == [op |-> "token"]
  <2>1. /\ r.op = "site" /\ config' = conf /\ Goes(q, next) /\ added' = added
        /\ UNCHANGED <<app, listings, grants, accepted, age, conduct>>
    BY <1>12 DEF KeepSite, Writes, atApp
  <2>2. /\ Sane(r.read) /\ (conduct = "calm" => r.read = config)
        /\ ~ (app = "jira" /\ conduct = "sound")
    BY <1>1, <2>1 DEF AskKnown, Reading
  <2>3. /\ Sane(conf) /\ conf.guilds = r.read.guilds /\ conf.refresh = r.read.refresh
        /\ conf.cloud = TRUE
    BY <2>2 DEF Sane, ConfigType
  <2>4. next \in AskType /\ next.op = "token"
    BY DEF AskType
  <2> HIDE DEF conf, next
  <2>5. GuildsAreKept'
    BY <1>1, <2>1, <2>2, <2>3 DEF GuildsAreKept
  <2>6. app = "jira" =>
          \A p \in Askers \ {q} : ask[p].op \in Holding => ask[p].grant # conf.refresh
    BY <2>1, <2>3 DEF AppIInv, HeldApart, Reading
  <2>7. app = "jira" /\ conduct # "free" => conf.refresh = config.refresh
    BY <2>2, <2>3 DEF AppIInv, RowKnown
  <2> QED BY <1>2, <2>1, <2>3, <2>4, <2>5, <2>6, <2>7, WriteKeeps
<1> QED BY <1>6, <1>7, <1>8, <1>9, <1>10, <1>11, <1>12

\* A request reads, calls what needs a token, or is given up.
LEMMA ReadsKeep ==
  ASSUME AppIInv, NEW q \in Askers,
         \/ FindRow(q) \/ FindToken(q) \/ UseToken(q) \/ List(q) \/ UpsertListing(q)
         \/ GivesUp(q)
  PROVE  AppIInv'
<1> DEFINE r == ask[q]
<1>1. /\ AskKnown(r) /\ r \in AskType /\ Sane(config) /\ config \in ConfigType
      /\ grants \in 0 .. MaxGrants
      /\ age \in [Grants -> 0 .. Expired] /\ listings \subseteq Things
      /\ app = "jira" /\ conduct = "sound" /\ config.token # NoGrant => config.cloud
  BY DEF AppIInv, AsksKnown, AskKnown, ConfigTypeOK, RowKnown, Sane
<1>2. ASSUME NEW next \in AskType, Goes(q, next),
             UNCHANGED <<app, config, grants, accepted, age, added, conduct>>,
             listings' \subseteq Things,
             r # Resting, conduct # "free" => r.op # "keep",
             next.op \notin Reading \cup Holding \cup {"replace", "use"}
      PROVE  AppIInv'
  <2>1. age' \in [Grants -> 0 .. Expired]
    BY <1>1, <1>2
  <2> QED BY <1>2, <2>1, LooksKeeps DEF Reading
<1>3. Resting \in AskType /\ Resting.op \notin Reading \cup Holding \cup {"replace", "use"}
  BY RestingType DEF Reading, Holding
<1>4. CASE Looks /\ Goes(q, Resting) /\ r # Resting /\ (conduct = "free" \/ r.op # "keep")
  <2>1. /\ UNCHANGED <<app, config, grants, accepted, age, added, conduct>>
        /\ listings' \subseteq Things
    BY <1>1, <1>4 DEF Looks, atApp
  <2> QED BY <1>2, <1>3, <1>4, <2>1
<1>5. CASE GivesUp(q)
  BY <1>4, <1>5 DEF GivesUp
<1>6. CASE FindRow(q)
  <2> DEFINE next == [op |-> IF config.made THEN "update" ELSE "create", read |-> config,
                      grant |-> ask[q].grant, cloud |-> ask[q].cloud]
  <2>1. /\ r.op = "find" /\ Goes(q, next) /\ listings' = listings /\ age' = age
        /\ UNCHANGED <<app, config, grants, accepted, added, conduct>>
    BY <1>6 DEF FindRow, Looks, atApp
  <2>2. /\ next \in AskType /\ next.op \in {"update", "create"} /\ next.read = config
        /\ next.grant = r.grant /\ next.cloud = r.cloud
    BY <1>1, <2>1 DEF AskType
  <2> HIDE DEF next
  <2> QED BY <1>1, <2>1, <2>2, RestingType, LooksKeeps DEF Holding
<1>7. CASE FindToken(q)
  <2>1. /\ r.op = "token" /\ r # Resting /\ listings' = listings /\ age' = age
        /\ UNCHANGED <<app, config, grants, accepted, added, conduct>>
    BY <1>7, RestingType DEF FindToken, Looks, atApp
  <2>2. CASE config.token = NoGrant
    BY <1>4, <1>7, <2>1, <2>2 DEF FindToken
  <2>3. CASE config.token # NoGrant /\ age[config.token] < Expired
    <3> DEFINE next == [op |-> "use", grant |-> config.token,
                        live |-> age[config.token] <= Closing]
    <3>1. Goes(q, next)
      BY <1>7, <2>3 DEF FindToken
    <3>2. config.token \in Grants
      BY <1>1, <2>3 DEF ConfigType
    <3>3. next \in AskType /\ next.op = "use"
      BY <1>1, <3>2 DEF AskType, Closing, Expired
    <3> HIDE DEF next
    <3> QED BY <1>1, <2>1, <2>3, <3>1, <3>3, LooksKeeps DEF Holding, Reading
  <2>4. CASE config.token # NoGrant /\ ~ (age[config.token] < Expired)
    <3> DEFINE next == [op |-> "refresh", read |-> config]
    <3>1. Goes(q, next)
      BY <1>7, <2>4 DEF FindToken
    <3>2. next \in AskType /\ next.op = "refresh" /\ next.read = config
      BY <1>1 DEF AskType
    <3> HIDE DEF next
    <3> QED BY <1>1, <2>1, <2>4, <3>1, <3>2, LooksKeeps DEF Holding, Reading
  <2> QED BY <2>2, <2>3, <2>4
<1>8. CASE UseToken(q)
  <2>1. /\ r.op = "use" /\ r # Resting /\ listings' = listings /\ age' = age
        /\ UNCHANGED <<app, config, grants, accepted, added, conduct>> /\ r.grant \in Grants
        /\ app = "jira" /\ conduct = "sound" => config.cloud
    BY <1>1, <1>8, RestingType DEF UseToken, Looks, atApp, AskKnown, AskType
  <2>2. CASE app = "jira" /\ ~config.cloud
    <3> DEFINE next == [op |-> "site", grant |-> r.grant, read |-> config]
    <3>1. Goes(q, next)
      BY <1>8, <2>2 DEF UseToken
    <3>2. next \in AskType /\ next.op = "site" /\ next.read = config
      BY <1>1, <2>1 DEF AskType
    <3> HIDE DEF next
    <3> QED BY <1>1, <2>1, <2>2, <3>1, <3>2, LooksKeeps DEF Holding, Reading
  <2>3. CASE ~(app = "jira" /\ ~config.cloud)
    <3> DEFINE next == [op |-> "list", grant |-> r.grant]
    <3>1. Goes(q, next)
      BY <1>8, <2>3 DEF UseToken
    <3>2. next \in AskType /\ next.op = "list"
      BY <2>1 DEF AskType
    <3> HIDE DEF next
    <3> QED BY <1>1, <1>2, <2>1, <3>1, <3>2 DEF Holding, Reading
  <2> QED BY <2>2, <2>3
<1>9. ASSUME NEW left \in SUBSET Things
      PROVE  /\ [op |-> "upsert", left |-> left] \in AskType
             /\ [op |-> "upsert", left |-> left].op
                  \notin Reading \cup Holding \cup {"replace", "use"}
  BY DEF AskType, Reading, Holding
<1>10. CASE List(q)
  <2>1. /\ r.op = "list" /\ r # Resting /\ listings' \subseteq Things /\ Looks
        /\ UNCHANGED <<app, config, grants, accepted, age, added, conduct>>
    BY <1>1, <1>10, RestingType DEF List, Looks, atApp
  <2>2. \/ Goes(q, Resting)
        \/ \E some \in SUBSET Things : Goes(q, [op |-> "upsert", left |-> some])
    BY <1>10 DEF List
  <2> QED BY <1>2, <1>4, <1>9, <2>1, <2>2
<1>11. CASE UpsertListing(q)
  <2>1. /\ r.op = "upsert" /\ r # Resting /\ r.left \in SUBSET Things
        /\ UNCHANGED <<app, config, grants, accepted, age, added, conduct>>
    BY <1>1, <1>11, RestingType DEF UpsertListing, AskType, atApp
  <2>2. PICK thing \in r.left :
          /\ listings' = listings \cup {thing}
          /\ Goes(q, IF r.left \ {thing} = {} THEN Resting
                     ELSE [op |-> "upsert", left |-> r.left \ {thing}])
    BY <1>11 DEF UpsertListing
  <2>3. listings' \subseteq Things /\ r.left \ {thing} \in SUBSET Things
    BY <1>1, <2>1, <2>2
  <2>4. \/ Goes(q, Resting)
        \/ Goes(q, [op |-> "upsert", left |-> r.left \ {thing}])
    BY <2>2
  <2> QED BY <1>2, <1>3, <1>9, <2>1, <2>3, <2>4
<1> QED BY <1>5, <1>6, <1>7, <1>8, <1>10, <1>11

\* Every step.
LEMMA AppStepKeeps == AppIInv /\ [AppNext]_appVars => AppIInv'
<1> SUFFICES ASSUME AppIInv, [AppNext]_appVars PROVE AppIInv'
  OBVIOUS
<1>1. CASE UNCHANGED appVars
  <2>1. /\ app' = app /\ config' = config /\ listings' = listings /\ grants' = grants
        /\ accepted' = accepted /\ age' = age /\ ask' = ask /\ added' = added
        /\ conduct' = conduct
    BY <1>1 DEF appVars, atApp
  <2>2. ConfigTypeOK' /\ RowKnown' /\ HeldApart' /\ ConfigIsKept'
    BY <2>1 DEF AppIInv, ConfigTypeOK, RowKnown, Sane, HeldApart, ConfigIsKept,
       RefreshIsAccepted, GuildsAreKept
  <2>3. AsksKnown'
    BY <2>1 DEF AppIInv, AsksKnown, AskKnown, Sane, Resting
  <2> QED BY <2>2, <2>3 DEF AppIInv
<1>2. ASSUME NEW g \in Grants, AccessAges(g) PROVE AppIInv'
  BY <1>2, AgeKeeps
<1>3. ASSUME NEW q \in Askers,
             Callback(q) \/ Sync(q) \/ \E guild \in Guilds : GuildCallback(q, guild)
      PROVE  AppIInv'
  BY <1>3, ArrivalKeeps
<1>4. ASSUME NEW q \in Askers, AskStep(q) PROVE AppIInv'
  BY <1>4, CallsKeep, WritesKeep, ReadsKeep DEF AskStep
<1> QED BY <1>1, <1>2, <1>3, <1>4 DEF AppNext

\* The invariant holds always.
LEMMA AppInvariant == AppSpec => []AppIInv
BY AppInitHolds, AppStepKeeps, PTL DEF AppSpec

\* The shape of a config, and that it is CONNECTED exactly when it has what that needs.
THEOREM ConfigTypeCorrect == AppSpec => []ConfigTypeOK
<1>1. AppIInv => ConfigTypeOK
  BY DEF AppIInv
<1> QED BY <1>1, AppInvariant, PTL

\* Handlers that write a config whole lose neither the refresh token that is accepted nor,
\* one after the other, the guilds.
THEOREM ConfigsAreKept == AppSpec => []ConfigIsKept
<1>1. AppIInv => ConfigIsKept
  BY DEF AppIInv
<1> QED BY <1>1, AppInvariant, PTL

-----------------------------------------------------------------------------
\* Both parts together.

LEMMA PartsKept == MCSpec => InstSpec /\ AppSpec
<1>1. MCInit => InstInit /\ AppInit
  BY DEF MCInit
<1>2. [MCNext]_MCVars => [InstNext]_instVars /\ [AppNext]_appVars
  BY DEF MCNext, MCVars
<1> QED BY <1>1, <1>2, PTL DEF MCSpec, InstSpec, AppSpec

\* The shape of the rows of all integrations.
THEOREM IntTypeCorrect == MCSpec => []IntTypeOK
<1>1. InstTypeOK /\ ConfigTypeOK => IntTypeOK
  BY DEF IntTypeOK
<1> QED BY <1>1, PartsKept, InstTypeCorrect, ConfigTypeCorrect, PTL
=============================================================================
