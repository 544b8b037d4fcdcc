--------------------------- MODULE TrackingProofs ---------------------------
(***************************************************************************)
(* What is proved of the features of a project and of a task, for any      *)
(* number of features, events, members, assignments and requests.          *)
(*                                                                         *)
(* A feature is not found again under a number once it was deleted, so     *)
(* what a call knows of it stays true as long as it is there: that is why  *)
(* a detector written late is still the author of a linked event.  And     *)
(* every request that assigns ends all the assignments there are before it *)
(* makes its own: together, the active ones and the requests that have     *)
(* still to make one are never more than the requests.                     *)
(***************************************************************************)
EXTENDS MCTracking, FiniteSetTheorems, SequenceTheorems, TLAPS

-----------------------------------------------------------------------------
\* Features.

Numbers == 1 .. MaxFeatures

\* The record of a call.
CallSane(u) ==
  /\ u.op \in {"none", "create", "check name", "update", "status", "delete", "link",
               "detector", "summarise", "mark", "detect", "create found", "link found"}
  /\ u.op = "none" => u = Resting
  /\ u.op = "create" => u \in [op : {"create"}, name : Names]
  /\ u.op \in {"check name", "update"} =>
       u \in [op : {"check name", "update"}, feature : Numbers, name : Names \cup {NoName},
              status : Completion \cup {AsItIs}, was : Completion]
  /\ u.op = "status" => u \in [op : {"status"}, feature : Numbers, status : Completion]
  /\ u.op = "delete" => u \in [op : {"delete"}, feature : Numbers]
  /\ u.op = "link" =>
       u \in [op : {"link"}, feature : Numbers, event : Events,
              detector : Members \cup {NoMember}]
  /\ u.op = "detector" => u \in [op : {"detector"}, feature : Numbers, member : Members]
  /\ u.op \in {"summarise", "mark", "detect"} =>
       u \in [op : {"summarise", "mark", "detect"}, event : Events]
  /\ u.op = "create found" => u \in [op : {"create found"}, event : Events, name : Names]
  /\ u.op = "link found" => u \in [op : {"link found"}, event : Events, feature : Numbers]

\* What a call knows: the event whose author it names is linked, as long as the feature
\* is there; the event it looks at has its summary, and is marked.
CallKnows(u) ==
  /\ u.op = "detector" /\ u.feature \in Live =>
       \E e \in Events : AuthorOf[e] = u.member /\ <<u.feature, e>> \in links
  /\ u.op = "mark" => outputs[u.event] > 0
  /\ u.op \in {"detect", "create found", "link found"} =>
       outputs[u.event] > 0 /\ processed[u.event]
  /\ u.op \in {"check name", "update", "status", "delete", "link", "detector", "link found"} =>
       u.feature \in DOMAIN features

\* While it is the only one, the status it has read is the one there is.
CallKnowsAlone(u) ==
  u.op \in {"check name", "update"} /\ u.feature \in Live => u.was = features[u.feature].status

RowsSane ==
  /\ features \in Seq(FeatureRow) /\ Len(features) <= MaxFeatures
  /\ \A f \in Live : features[f].name \in Names
  /\ \A f, g \in Live : features[f].name = features[g].name => f = g
  /\ links \subseteq Live \X Events
  /\ outputs \in [Events -> 0 .. MaxOutputs] /\ processed \in [Events -> BOOLEAN]
  /\ origin \in Seq(Events \cup {NoEvent}) /\ Len(origin) = Len(features)

FeatIInv ==
  /\ RowsSane
  /\ call = [c \in Calls |-> call[c]] /\ featAlone \in BOOLEAN
  /\ \A c \in Calls : CallSane(call[c]) /\ CallKnows(call[c])
  /\ DetectedByAuthor
  /\ featAlone =>
       /\ \A c, d \in Calls : call[c] # Resting /\ call[d] # Resting => c = d
       /\ \A c \in Calls : CallKnowsAlone(call[c])
       /\ FeatureIsDated

-----------------------------------------------------------------------------
\* The task.

\* The record of a request.
AskSane(u) ==
  /\ u.op \in {"none", "update", "status", "delete", "deactivate", "assign", "create team",
               "add", "remove"}
  /\ u.op = "none" => u = Quiet
  /\ u.op = "update" =>
       u \in [op : {"update"}, status : Statuses \cup {AsItWas},
              deadline : Deadlines \cup {AsItWas}, was : Statuses, overdue : BOOLEAN]
  /\ u.op = "status" =>
       u \in [op : {"status"}, status : Statuses, was : Statuses, overdue : BOOLEAN]
  /\ u.op \in {"deactivate", "assign"} =>
       u \in [op : {"deactivate", "assign"}, whom : People \cup {TheTeam}]
  /\ u.op = "create team" => u \in [op : {"create team"}, members : SUBSET People]
  /\ u.op = "add" =>
       u \in [op : {"add"}, person : People, was : {"never", "removed"}]
  /\ u.op = "remove" => u \in [op : {"remove"}, person : People]

\* What a request knows while it is the only one: the status it has read is the one there
\* is, isOverdue as it worked it out does not come too early, and what it is about to
\* assign has no assignment.
AskKnowsAlone(u) ==
  /\ u.op = "update" /\ There =>
       /\ u.was = task.status
       /\ u.overdue => /\ Given(u.deadline, task.completionDeadline) = "past"
                       /\ Given(u.status, task.status) # "DONE"
  /\ u.op = "status" /\ There =>
       (u.overdue => task.completionDeadline = "past" /\ u.status # "DONE")
  /\ u.op = "assign" => Active = {}

TaskIInv ==
  /\ TaskTypeOK
  /\ ask = [a \in Asks |-> ask[a]] /\ taskAlone \in BOOLEAN
  /\ \A a \in Asks : AskSane(ask[a])
  /\ task = NoTask => \A a \in Asks : ask[a] = Quiet
  /\ AssignmentsWithinOverlap
  /\ taskAlone =>
       /\ \A a, b \in Asks : ask[a] # Quiet /\ ask[b] # Quiet => a = b
       /\ \A a \in Asks : AskKnowsAlone(ask[a])
       /\ TaskIsDated

-----------------------------------------------------------------------------
\* Features: what a step does to the rows, and what that leaves true.

\* Nothing a call knows is undone: a number is not used again, the links of a feature that
\* stays stay, and an event keeps its summary and its mark.
Onward ==
  /\ DOMAIN features \subseteq DOMAIN features'
  /\ \A f \in DOMAIN features : f \in Live' => f \in Live
  /\ \A f \in Live, e \in Events : f \in Live' /\ <<f, e>> \in links => <<f, e>> \in links'
  /\ \A e \in Events : (outputs[e] > 0 => outputs'[e] > 0) /\ (processed[e] => processed'[e])

LEMMA KnowsOn ==
  ASSUME Onward, NEW u, CallSane(u), CallKnows(u)
  PROVE  CallKnows(u)'
<1>1. u.op \in {"mark", "detect", "create found", "link found"} => u.event \in Events
  BY DEF CallSane
<1>2. u.op = "detector" /\ u.feature \in Live' =>
        \E e \in Events : AuthorOf[e] = u.member /\ <<u.feature, e>> \in links'
  <2> SUFFICES ASSUME u.op = "detector", u.feature \in Live'
               PROVE  \E e \in Events : AuthorOf[e] = u.member /\ <<u.feature, e>> \in links'
    OBVIOUS
  <2>1. u.feature \in DOMAIN features
    BY DEF CallKnows
  <2>2. u.feature \in Live
    BY <2>1 DEF Onward
  <2>3. PICK e \in Events : AuthorOf[e] = u.member /\ <<u.feature, e>> \in links
    BY <2>2 DEF CallKnows
  <2> QED BY <2>2, <2>3 DEF Onward
<1>3. u.op = "mark" => outputs'[u.event] > 0
  BY <1>1 DEF CallKnows, Onward
<1>4. u.op \in {"detect", "create found", "link found"} =>
        outputs'[u.event] > 0 /\ processed'[u.event]
  BY <1>1 DEF CallKnows, Onward
<1>5. u.op \in {"check name", "update", "status", "delete", "link", "detector", "link found"} =>
        u.feature \in DOMAIN features'
  BY DEF CallKnows, Onward
<1> QED BY <1>2, <1>3, <1>4, <1>5 DEF CallKnows

\* One call goes on, from where it is or from rest.
LEMMA MoveKeeps ==
  ASSUME FeatIInv, NEW c \in Calls, NEW next,
         call' = [call EXCEPT ![c] = next], featAlone' = featAlone,
         featAlone /\ call[c] = Resting => \A d \in Calls : call[d] = Resting,
         CallSane(next), CallKnows(next)', Onward, RowsSane', DetectedByAuthor',
         featAlone => CallKnowsAlone(next)' /\ FeatureIsDated'
  PROVE  FeatIInv'
<1>1. call'[c] = next /\ \A d \in Calls : d # c => call'[d] = call[d]
  BY DEF FeatIInv
<1>2. call' = [d \in Calls |-> call'[d]] /\ featAlone' \in BOOLEAN
  BY DEF FeatIInv
<1>3. ASSUME NEW d \in Calls PROVE CallSane(call'[d]) /\ CallKnows(call[d])'
  <2>1. CASE d = c
    BY <1>1, <2>1 DEF CallKnows
  <2>2. CASE d # c
    <3>1. PICK u : u = call[d]
      OBVIOUS
    <3>2. CallSane(u) /\ CallKnows(u)
      BY <3>1 DEF FeatIInv
    <3>3. CallKnows(u)'
      BY <3>2, KnowsOn
    <3> QED BY <1>1, <2>2, <3>1, <3>2, <3>3 DEF CallKnows
  <2> QED BY <2>1, <2>2
<1>4. ASSUME featAlone
      PROVE  /\ \A d, e \in Calls : call'[d] # Resting /\ call'[e] # Resting => d = e
             /\ \A d \in Calls : CallKnowsAlone(call[d])'
  <2>1. \A d \in Calls : d # c => call[d] = Resting
    BY <1>4 DEF FeatIInv
  <2>2. \A d \in Calls : d # c => call'[d] = Resting
    BY <1>1, <2>1
  <2>3. CallKnowsAlone(Resting)'
    BY DEF CallKnowsAlone, Resting
  <2>4. ASSUME NEW d \in Calls PROVE CallKnowsAlone(call[d])'
    <3>1. CASE d = c
      BY <1>1, <1>4, <3>1 DEF CallKnowsAlone
    <3>2. CASE d # c
      BY <2>2, <2>3, <3>2 DEF CallKnowsAlone
    <3> QED BY <3>1, <3>2
  <2> QED BY <2>2, <2>4
<1>5. CallSane(call[c])' /\ \A d \in Calls : CallSane(call[d])'
  BY <1>3 DEF CallSane
<1> QED BY <1>2, <1>3, <1>4, <1>5 DEF FeatIInv

LEMMA RestKnows == CallSane(Resting) /\ CallKnows(Resting)' /\ CallKnowsAlone(Resting)'
BY DEF CallSane, CallKnows, CallKnowsAlone, Resting

\* A step that reads.
LEMMA ReadKeeps ==
  ASSUME FeatIInv, NEW c \in Calls, NEW next, call' = [call EXCEPT ![c] = next],
         UNCHANGED <<features, links, eventVars, origin, featAlone>>,
         featAlone /\ call[c] = Resting => \A d \in Calls : call[d] = Resting,
         CallSane(next), CallKnows(next), featAlone => CallKnowsAlone(next)
  PROVE  FeatIInv'
<1>1. /\ features' = features /\ links' = links /\ outputs' = outputs
      /\ processed' = processed /\ origin' = origin /\ featAlone' = featAlone
  BY DEF eventVars
<1>2. Live' = Live
  BY <1>1 DEF Live
<1>3. Onward
  BY <1>1, <1>2 DEF Onward
<1>4. CallKnows(next)'
  BY <1>3, KnowsOn
<1>5. featAlone => CallKnowsAlone(next)'
  BY <1>1, <1>2 DEF CallKnowsAlone
<1>6. RowsSane'
  BY <1>1, <1>2 DEF FeatIInv, RowsSane
<1>7. DetectedByAuthor'
  BY <1>1, <1>2 DEF FeatIInv, DetectedByAuthor
<1>8. featAlone => FeatureIsDated'
  BY <1>1, <1>2 DEF FeatIInv, FeatureIsDated
<1> QED BY <1>1, <1>3, <1>4, <1>5, <1>6, <1>7, <1>8, MoveKeeps

\* One row of a feature that is there is written anew.
LEMMA RowWritten ==
  ASSUME RowsSane, NEW f \in Live, NEW r \in FeatureRow, r.name \in Names,
         \A g \in Live : features[g].name = r.name => g = f,
         features' = [features EXCEPT ![f] = r],
         UNCHANGED <<links, outputs, processed, origin>>
  PROVE  /\ RowsSane' /\ Onward /\ Live' = Live
         /\ features'[f] = r /\ \A g \in Live : g # f => features'[g] = features[g]
<1>1. /\ links' = links /\ outputs' = outputs /\ processed' = processed /\ origin' = origin
  OBVIOUS
<1>2. f \in 1 .. Len(features) /\ DOMAIN features = 1 .. Len(features) /\ Len(features) \in Nat
  BY DEF Live, RowsSane
<1>3. /\ features' \in Seq(FeatureRow) /\ Len(features') = Len(features)
      /\ DOMAIN features' = DOMAIN features
  BY <1>2 DEF RowsSane
<1>4. features'[f] = r /\ \A g \in DOMAIN features : g # f => features'[g] = features[g]
  BY <1>2
<1>5. r # Deleted
  BY FeatureAssumption DEF Deleted
<1>6. Live' = Live
  BY <1>2, <1>3, <1>4, <1>5 DEF Live
<1>7. \A g \in Live' : features'[g].name \in Names
  BY <1>4, <1>6 DEF RowsSane, Live
<1>8. \A g, h \in Live' : features'[g].name = features'[h].name => g = h
  BY <1>4, <1>6 DEF RowsSane, Live
<1>9. RowsSane'
  BY <1>1, <1>3, <1>6, <1>7, <1>8 DEF RowsSane
<1>10. Onward
  BY <1>1, <1>3, <1>6 DEF Onward
<1> QED BY <1>4, <1>6, <1>9, <1>10 DEF Live

\* A row is made.
LEMMA RowMade ==
  ASSUME RowsSane, NEW name \in Names, NEW member \in Members \cup {NoMember},
         NEW event \in Events \cup {NoEvent}, Insert(name, member, event),
         UNCHANGED <<links, outputs, processed>>
  PROVE  /\ RowsSane' /\ Onward /\ Live' = Live \cup {Len(features) + 1}
         /\ features'[Len(features) + 1] = Feature(name, member)
         /\ \A g \in Live : features'[g] = features[g] /\ origin'[g] = origin[g]
         /\ origin'[Len(features) + 1] = event
         /\ Len(features) + 1 \in Numbers \ Live
<1>1. /\ links' = links /\ outputs' = outputs /\ processed' = processed
      /\ features' = Append(features, Feature(name, member))
      /\ origin' = Append(origin, event)
      /\ Named(name) = {} /\ Len(features) < MaxFeatures
  BY DEF Insert
<1>2. /\ features \in Seq(FeatureRow) /\ origin \in Seq(Events \cup {NoEvent})
      /\ DOMAIN features = 1 .. Len(features) /\ Len(features) \in Nat
      /\ Len(origin) = Len(features) /\ MaxFeatures \in Nat
  BY FeatureAssumption DEF RowsSane
<1>3. PICK n, r : n = Len(features) + 1 /\ r = Feature(name, member)
  OBVIOUS
<1>4. r \in FeatureRow /\ r.name = name /\ r # Deleted
  BY <1>3, FeatureAssumption DEF Feature, FeatureRow, Completion, Deleted
<1>5. /\ features' \in Seq(FeatureRow) /\ Len(features') = n /\ features'[n] = r
      /\ DOMAIN features' = 1 .. n
      /\ \A g \in 1 .. Len(features) : features'[g] = features[g]
  BY <1>1, <1>2, <1>3, <1>4
<1>6. /\ origin' \in Seq(Events \cup {NoEvent}) /\ Len(origin') = n /\ origin'[n] = event
      /\ \A g \in 1 .. Len(features) : origin'[g] = origin[g]
  BY <1>1, <1>2, <1>3
<1>7. Live' = Live \cup {n} /\ Live \subseteq 1 .. Len(features)
  BY <1>2, <1>3, <1>4, <1>5 DEF Live
<1>8. n \notin Live /\ n \in Numbers
  BY <1>1, <1>2, <1>3, <1>7 DEF Numbers
<1>9. \A g \in Live : features'[g] = features[g] /\ origin'[g] = origin[g]
  BY <1>5, <1>6, <1>7
<1>10. \A g \in Live : features[g].name # name
  BY <1>1 DEF Named
<1>11. \A g \in Live' : features'[g].name \in Names
  BY <1>4, <1>5, <1>7, <1>9 DEF RowsSane
<1>12. \A g, h \in Live' : features'[g].name = features'[h].name => g = h
  BY <1>4, <1>5, <1>7, <1>9, <1>10 DEF RowsSane
<1>13. Len(features') <= MaxFeatures
  BY <1>1, <1>2, <1>3, <1>5
<1>14. links' \subseteq Live' \X Events
  BY <1>1, <1>7 DEF RowsSane
<1>15. RowsSane'
  BY <1>1, <1>5, <1>6, <1>11, <1>12, <1>13, <1>14 DEF RowsSane
<1>16. Onward
  BY <1>1, <1>2, <1>3, <1>5, <1>7 DEF Onward
<1> QED BY <1>3, <1>5, <1>6, <1>7, <1>8, <1>9, <1>15, <1>16

\* A detector that stays is still the author of an event.
LEMMA DetectorsStay ==
  ASSUME RowsSane, DetectedByAuthor, Onward, NEW f \in Live, f \in Live',
         features'[f].autoDetectedBy = features[f].autoDetectedBy,
         origin'[f] = origin[f]
  PROVE  features'[f].autoDetectedBy # NoMember =>
           \E e \in Events :
             /\ AuthorOf[e] = features'[f].autoDetectedBy
             /\ \/ <<f, e>> \in links'
                \/ origin'[f] = e /\ processed'[e] /\ outputs'[e] > 0
<1> SUFFICES ASSUME features'[f].autoDetectedBy # NoMember
             PROVE  \E e \in Events :
                      /\ AuthorOf[e] = features'[f].autoDetectedBy
                      /\ \/ <<f, e>> \in links'
                         \/ origin'[f] = e /\ processed'[e] /\ outputs'[e] > 0
  OBVIOUS
<1>1. PICK e \in Events :
        /\ AuthorOf[e] = features[f].autoDetectedBy
        /\ <<f, e>> \in links \/ (origin[f] = e /\ processed[e] /\ outputs[e] > 0)
  BY DEF DetectedByAuthor
<1> QED BY <1>1 DEF Onward

-----------------------------------------------------------------------------
\* Features: the steps.

LEMMA LiveNumbers == ASSUME RowsSane PROVE Live \subseteq Numbers /\ Live \subseteq DOMAIN features
<1>1. DOMAIN features = 1 .. Len(features) /\ Len(features) \in Nat /\ MaxFeatures \in Nat
  BY FeatureAssumption DEF RowsSane
<1> QED BY <1>1 DEF Live, RowsSane, Numbers

LEMMA LiveRow ==
  ASSUME RowsSane, NEW f \in Live
  PROVE  features[f] \in FeatureRow /\ features[f].name \in Names
<1>1. f \in 1 .. Len(features) /\ features \in Seq(FeatureRow)
  BY DEF Live, RowsSane
<1> QED BY <1>1 DEF RowsSane

LEMMA RestIsNone ==
  ASSUME FeatIInv, NEW c \in Calls, call[c].op # "none"
  PROVE  call[c] # Resting /\ CallSane(call[c]) /\ CallKnows(call[c])
BY DEF FeatIInv, Resting

\* What people ask for, and the processing of an event: each begins with a read.
LEMMA AskKeeps ==
  ASSUME FeatIInv, NEW c \in Calls, AskFeatures(c)
  PROVE  FeatIInv'
<1>1. /\ RowsSane /\ Live \subseteq Numbers /\ Live \subseteq DOMAIN features
      /\ \A f \in Live : features[f] \in FeatureRow
  BY LiveNumbers DEF FeatIInv, RowsSane
<1>2. ASSUME NEW next, Start(c, next), CallSane(next), CallKnows(next), CallKnowsAlone(next),
             UNCHANGED <<features, links, eventVars, origin, featAlone>>
      PROVE  FeatIInv'
  <2>1. call' = [call EXCEPT ![c] = next]
        /\ (featAlone /\ call[c] = Resting => \A d \in Calls : call[d] = Resting)
    BY <1>2 DEF Start
  <2> QED BY <1>2, <2>1, ReadKeeps
<1>3. ASSUME NEW name \in Names, CreateFeature(c, name) PROVE FeatIInv'
  <2>1. PICK next : next = [op |-> "create", name |-> name]
    OBVIOUS
  <2>2. CallSane(next) /\ CallKnows(next) /\ CallKnowsAlone(next)
    BY <2>1 DEF CallSane, CallKnows, CallKnowsAlone
  <2> QED BY <1>2, <1>3, <2>1, <2>2 DEF CreateFeature
<1>4. ASSUME NEW f, DeleteFeature(c, f) PROVE FeatIInv'
  <2>1. PICK next : next = [op |-> "delete", feature |-> f]
    OBVIOUS
  <2>2. CallSane(next) /\ CallKnows(next) /\ CallKnowsAlone(next)
    BY <1>1, <1>4, <2>1 DEF CallSane, CallKnows, CallKnowsAlone, DeleteFeature
  <2> QED BY <1>2, <1>4, <2>1, <2>2 DEF DeleteFeature
<1>5. ASSUME NEW f, NEW e \in Events, LinkRawEventToFeature(c, f, e) PROVE FeatIInv'
  <2>1. PICK next : next = [op |-> "link", feature |-> f, event |-> e,
                            detector |-> features[f].autoDetectedBy]
    OBVIOUS
  <2>2. f \in Live /\ features[f] \in FeatureRow
    BY <1>1, <1>5 DEF LinkRawEventToFeature
  <2>3. CallSane(next) /\ CallKnows(next) /\ CallKnowsAlone(next)
    BY <1>1, <2>1, <2>2 DEF CallSane, CallKnows, CallKnowsAlone, FeatureRow
  <2> QED BY <1>2, <1>5, <2>1, <2>3 DEF LinkRawEventToFeature
<1>6. ASSUME NEW f, NEW status \in Completion, UpdateFeatureStatus(c, f, status) PROVE FeatIInv'
  <2>1. PICK next : next = [op |-> "status", feature |-> f, status |-> status]
    OBVIOUS
  <2>2. CallSane(next) /\ CallKnows(next) /\ CallKnowsAlone(next)
    BY <1>1, <1>6, <2>1 DEF CallSane, CallKnows, CallKnowsAlone, UpdateFeatureStatus
  <2> QED BY <1>2, <1>6, <2>1, <2>2 DEF UpdateFeatureStatus
<1>7. ASSUME NEW f, NEW name \in Names \cup {NoName}, NEW status \in Completion \cup {AsItIs},
             UpdateFeature(c, f, name, status)
      PROVE  FeatIInv'
  <2>1. PICK next : next = [op |-> "check name", feature |-> f, name |-> name,
                            status |-> status, was |-> features[f].status]
    OBVIOUS
  <2>2. f \in Live /\ features[f] \in FeatureRow
    BY <1>1, <1>7 DEF UpdateFeature
  <2>3. CallSane(next) /\ CallKnows(next) /\ CallKnowsAlone(next)
    BY <1>1, <2>1, <2>2 DEF CallSane, CallKnows, CallKnowsAlone, FeatureRow
  <2> QED BY <1>2, <1>7, <2>1, <2>3 DEF UpdateFeature
<1>8. ASSUME NEW e \in Events, ProcessRawEvent(c, e) PROVE FeatIInv'
  <2>1. PICK next : next = [op |-> "summarise", event |-> e]
    OBVIOUS
  <2>2. CallSane(next) /\ CallKnows(next) /\ CallKnowsAlone(next)
    BY <2>1 DEF CallSane, CallKnows, CallKnowsAlone
  <2> QED BY <1>2, <1>8, <2>1, <2>2 DEF ProcessRawEvent
<1> QED BY <1>3, <1>4, <1>5, <1>6, <1>7, <1>8 DEF AskFeatures

\* The steps that go on from what was read without writing a row.
LEMMA GoOnKeeps ==
  ASSUME FeatIInv, NEW c \in Calls,
         \/ CheckName(c) \/ GiveUp(c)
         \/ \E name \in Names \cup {NoName}, isNew \in BOOLEAN : FindFeature(c, name, isNew)
  PROVE  FeatIInv'
<1>1. ASSUME NEW next, call' = [call EXCEPT ![c] = next], call[c] # Resting,
             CallSane(next), CallKnows(next), featAlone => CallKnowsAlone(next),
             UNCHANGED <<features, links, eventVars, origin, featAlone>>
      PROVE  FeatIInv'
  BY <1>1, ReadKeeps
<1>2. CallSane(Resting) /\ CallKnows(Resting) /\ CallKnowsAlone(Resting)
  BY DEF CallSane, CallKnows, CallKnowsAlone, Resting
<1>3. CASE GiveUp(c)
  BY <1>1, <1>2, <1>3 DEF GiveUp, Finish
<1>4. CASE CheckName(c)
  <2>1. PICK u, next : u = call[c] /\ next = [u EXCEPT !.op = "update"]
    OBVIOUS
  <2>2. u.op = "check name" /\ call[c] # Resting /\ CallSane(u) /\ CallKnows(u)
    BY <1>4, <2>1, RestIsNone DEF CheckName
  <2>3. CallSane(next) /\ next.op = "update" /\ next.feature = u.feature /\ next.was = u.was
    BY <2>1, <2>2 DEF CallSane
  <2>4. CallKnows(next)
    BY <2>2, <2>3 DEF CallKnows
  <2>5. featAlone => CallKnowsAlone(u)
    BY <2>1 DEF FeatIInv
  <2>6. featAlone => CallKnowsAlone(next)
    BY <2>2, <2>3, <2>5 DEF CallKnowsAlone
  <2> QED BY <1>1, <1>4, <2>1, <2>2, <2>3, <2>4, <2>6 DEF CheckName, Continue
<1>5. ASSUME NEW name \in Names \cup {NoName}, NEW isNew \in BOOLEAN, FindFeature(c, name, isNew)
      PROVE  FeatIInv'
  <2>1. PICK u : u = call[c]
    OBVIOUS
  <2>2. u.op = "detect" /\ call[c] # Resting /\ CallSane(u) /\ CallKnows(u)
    BY <1>5, <2>1, RestIsNone DEF FindFeature
  <2>3. u.event \in Events
    BY <2>2 DEF CallSane
  <2>4. CASE \E f \in Named(name) :
               Continue(c, [op |-> "link found", event |-> u.event, feature |-> f])
    <3>1. PICK f \in Named(name) :
            Continue(c, [op |-> "link found", event |-> u.event, feature |-> f])
      BY <2>4
    <3>2. PICK next : next = [op |-> "link found", event |-> u.event, feature |-> f]
      OBVIOUS
    <3>3. f \in Numbers /\ f \in DOMAIN features
      BY LiveNumbers DEF FeatIInv, Named
    <3>4. CallSane(next) /\ CallKnows(next) /\ CallKnowsAlone(next)
      BY <2>2, <2>3, <3>2, <3>3 DEF CallSane, CallKnows, CallKnowsAlone
    <3> QED BY <1>1, <1>5, <2>2, <3>1, <3>2, <3>4 DEF FindFeature, Continue
  <2>5. CASE /\ name # NoName
             /\ Continue(c, [op |-> "create found", event |-> u.event, name |-> name])
    <3>1. PICK next : next = [op |-> "create found", event |-> u.event, name |-> name]
      OBVIOUS
    <3>2. CallSane(next) /\ CallKnows(next) /\ CallKnowsAlone(next)
      BY <2>2, <2>3, <2>5, <3>1 DEF CallSane, CallKnows, CallKnowsAlone
    <3> QED BY <1>1, <1>5, <2>2, <2>5, <3>1, <3>2 DEF FindFeature, Continue
  <2>6. CASE Finish(c)
    BY <1>1, <1>2, <1>5, <2>2, <2>6 DEF FindFeature, Finish
  <2> QED BY <1>5, <2>1, <2>4, <2>5, <2>6 DEF FindFeature
<1> QED BY <1>3, <1>4, <1>5

\* A step that writes rows ends or goes on: what is left to show is about the rows.
LEMMA WriteKeeps ==
  ASSUME FeatIInv, NEW c \in Calls, call[c] # Resting, NEW next,
         call' = [call EXCEPT ![c] = next], featAlone' = featAlone,
         CallSane(next), CallKnows(next)', featAlone => CallKnowsAlone(next)',
         Onward, RowsSane', DetectedByAuthor', featAlone => FeatureIsDated'
  PROVE  FeatIInv'
BY MoveKeeps

LEMMA InsertFeatureKeeps ==
  ASSUME FeatIInv, NEW c \in Calls, InsertFeature(c)
  PROVE  FeatIInv'
<1>1. PICK u : u = call[c]
  OBVIOUS
<1>2. u.op = "create" /\ call[c] # Resting /\ CallSane(u)
  BY <1>1, RestIsNone DEF InsertFeature
<1>3. u.name \in Names /\ NoMember \in Members \cup {NoMember} /\ NoEvent \in Events \cup {NoEvent}
  BY <1>2 DEF CallSane
<1>4. /\ Insert(u.name, NoMember, NoEvent) /\ call' = [call EXCEPT ![c] = Resting]
      /\ links' = links /\ outputs' = outputs /\ processed' = processed /\ featAlone' = featAlone
  BY <1>1 DEF InsertFeature, Finish, eventVars
<1>5. PICK n : n = Len(features) + 1
  OBVIOUS
<1>6. /\ RowsSane' /\ Onward /\ Live' = Live \cup {n}
      /\ features'[n] = Feature(u.name, NoMember)
      /\ \A g \in Live : features'[g] = features[g] /\ origin'[g] = origin[g]
  BY <1>3, <1>4, <1>5, RowMade DEF FeatIInv
<1>7. features'[n].autoDetectedBy = NoMember /\ features'[n].status = "open"
      /\ features'[n].completionDate = FALSE
  BY <1>6 DEF Feature
<1>8. DetectedByAuthor'
  <2>1. \A f \in Live : features'[f].autoDetectedBy # NoMember =>
           \E e \in Events :
             /\ AuthorOf[e] = features'[f].autoDetectedBy
             /\ \/ <<f, e>> \in links'
                \/ origin'[f] = e /\ processed'[e] /\ outputs'[e] > 0
    BY <1>6, DetectorsStay DEF FeatIInv
  <2> QED BY <1>6, <1>7, <2>1 DEF DetectedByAuthor
<1>9. featAlone => FeatureIsDated'
  BY <1>4, <1>6, <1>7 DEF FeatureIsDated, FeatIInv
<1> QED BY <1>2, <1>4, <1>6, <1>8, <1>9, RestKnows, WriteKeeps

LEMMA WriteUpdateKeeps ==
  ASSUME FeatIInv, NEW c \in Calls, WriteUpdate(c)
  PROVE  FeatIInv'
<1>1. PICK u : u = call[c]
  OBVIOUS
<1>2. u.op = "update" /\ call[c] # Resting /\ CallSane(u) /\ CallKnows(u)
  BY <1>1, RestIsNone DEF WriteUpdate
<1>3. PICK f, row : f = u.feature /\ row = features[f]
  OBVIOUS
<1>4. /\ f \in Live /\ row \in FeatureRow /\ row.name \in Names
      /\ Named(u.name) \subseteq {f}
      /\ u.name \in Names \cup {NoName} /\ u.status \in Completion \cup {AsItIs}
      /\ u.was \in Completion
  <2>1. f \in Live /\ Named(u.name) \subseteq {f}
    BY <1>1, <1>3 DEF WriteUpdate
  <2>2. row \in FeatureRow /\ row.name \in Names
    BY <1>3, <2>1, LiveRow DEF FeatIInv
  <2>3. /\ u.name \in Names \cup {NoName} /\ u.status \in Completion \cup {AsItIs}
        /\ u.was \in Completion
    BY <1>2 DEF CallSane
  <2> QED BY <2>1, <2>2, <2>3
<1>5. PICK r : r = Updated(row, u)
  OBVIOUS
<1>6. /\ features' = [features EXCEPT ![f] = r] /\ call' = [call EXCEPT ![c] = Resting]
      /\ links' = links /\ outputs' = outputs /\ processed' = processed /\ origin' = origin
      /\ featAlone' = featAlone
  BY <1>1, <1>3, <1>5 DEF WriteUpdate, Finish, eventVars
<1>7. /\ r \in FeatureRow /\ r.autoDetectedBy = row.autoDetectedBy
      /\ r.name = (IF u.name = NoName THEN row.name ELSE u.name)
      /\ r.status = (IF u.status = AsItIs THEN row.status ELSE u.status)
      /\ r.completionDate = DateAfter(u.was, u.status, row.completionDate)
  BY <1>4, <1>5 DEF FeatureRow, Updated, DateAfter
<1>8. r.name \in Names /\ \A g \in Live : features[g].name = r.name => g = f
  BY <1>3, <1>4, <1>7 DEF Named, FeatIInv, RowsSane
<1>9. /\ RowsSane' /\ Onward /\ Live' = Live /\ features'[f] = r
      /\ \A g \in Live : g # f => features'[g] = features[g]
  <2>1. RowsSane
    BY DEF FeatIInv
  <2> QED BY <1>4, <1>6, <1>7, <1>8, <2>1, RowWritten
<1>10. DetectedByAuthor'
  <2>1. \A g \in Live : features'[g].autoDetectedBy = features[g].autoDetectedBy
    BY <1>3, <1>7, <1>9
  <2>2. \A g \in Live : features'[g].autoDetectedBy # NoMember =>
           \E e \in Events :
             /\ AuthorOf[e] = features'[g].autoDetectedBy
             /\ \/ <<g, e>> \in links'
                \/ origin'[g] = e /\ processed'[e] /\ outputs'[e] > 0
    BY <1>6, <1>9, <2>1, DetectorsStay DEF FeatIInv
  <2> QED BY <1>9, <2>2 DEF DetectedByAuthor
<1>11. featAlone => FeatureIsDated'
  <2> SUFFICES ASSUME featAlone PROVE FeatureIsDated'
    OBVIOUS
  <2>1. u.was = row.status /\ (row.completionDate <=> row.status = "COMPLETED")
    BY <1>1, <1>2, <1>3, <1>4 DEF FeatIInv, CallKnowsAlone, FeatureIsDated
  <2>2. r.completionDate <=> r.status = "COMPLETED"
    BY <1>4, <1>7, <2>1 DEF DateAfter, Completion, AsItIs, FeatureRow
  <2>3. \A g \in Live : features[g].completionDate <=> features[g].status = "COMPLETED"
    BY DEF FeatIInv, FeatureIsDated
  <2> QED BY <1>9, <2>2, <2>3 DEF FeatureIsDated
<1> QED BY <1>2, <1>6, <1>9, <1>10, <1>11, RestKnows, WriteKeeps

LEMMA WriteStatusKeeps ==
  ASSUME FeatIInv, NEW c \in Calls, WriteStatus(c)
  PROVE  FeatIInv'
<1>1. PICK u : u = call[c]
  OBVIOUS
<1>2. u.op = "status" /\ call[c] # Resting /\ CallSane(u)
  BY <1>1, RestIsNone DEF WriteStatus
<1>3. PICK f, row : f = u.feature /\ row = features[f]
  OBVIOUS
<1>4. f \in Live /\ row \in FeatureRow /\ row.name \in Names /\ u.status \in Completion
  <2>1. f \in Live
    BY <1>1, <1>3 DEF WriteStatus
  <2>2. row \in FeatureRow /\ row.name \in Names
    BY <1>3, <2>1, LiveRow DEF FeatIInv
  <2>3. u.status \in Completion
    BY <1>2 DEF CallSane
  <2> QED BY <2>1, <2>2, <2>3
<1>5. PICK r : r = [row EXCEPT !.status = u.status, !.completionDate = (u.status = "COMPLETED")]
  OBVIOUS
<1>6. /\ features' = [features EXCEPT ![f] = r] /\ call' = [call EXCEPT ![c] = Resting]
      /\ links' = links /\ outputs' = outputs /\ processed' = processed /\ origin' = origin
      /\ featAlone' = featAlone
  BY <1>1, <1>3, <1>5 DEF WriteStatus, Finish, eventVars
<1>7. /\ r \in FeatureRow /\ r.autoDetectedBy = row.autoDetectedBy /\ r.name = row.name
      /\ r.status = u.status /\ r.completionDate = (u.status = "COMPLETED")
  BY <1>4, <1>5 DEF FeatureRow
<1>8. r.name \in Names /\ \A g \in Live : features[g].name = r.name => g = f
  BY <1>3, <1>4, <1>7 DEF FeatIInv, RowsSane
<1>9. /\ RowsSane' /\ Onward /\ Live' = Live /\ features'[f] = r
      /\ \A g \in Live : g # f => features'[g] = features[g]
  <2>1. RowsSane
    BY DEF FeatIInv
  <2> QED BY <1>4, <1>6, <1>7, <1>8, <2>1, RowWritten
<1>10. DetectedByAuthor'
  <2>1. \A g \in Live : features'[g].autoDetectedBy = features[g].autoDetectedBy
    BY <1>3, <1>7, <1>9
  <2>2. \A g \in Live : features'[g].autoDetectedBy # NoMember =>
           \E e \in Events :
             /\ AuthorOf[e] = features'[g].autoDetectedBy
             /\ \/ <<g, e>> \in links'
                \/ origin'[g] = e /\ processed'[e] /\ outputs'[e] > 0
    BY <1>6, <1>9, <2>1, DetectorsStay DEF FeatIInv
  <2> QED BY <1>9, <2>2 DEF DetectedByAuthor
<1>11. featAlone => FeatureIsDated'
  BY <1>7, <1>9 DEF FeatIInv, FeatureIsDated
<1> QED BY <1>2, <1>6, <1>9, <1>10, <1>11, RestKnows, WriteKeeps

LEMMA SetDetectorKeeps ==
  ASSUME FeatIInv, NEW c \in Calls, SetDetector(c)
  PROVE  FeatIInv'
<1>1. PICK u : u = call[c]
  OBVIOUS
<1>2. u.op = "detector" /\ call[c] # Resting /\ CallSane(u) /\ CallKnows(u)
  BY <1>1, RestIsNone DEF SetDetector
<1>3. PICK f, row : f = u.feature /\ row = features[f]
  OBVIOUS
<1>4. f \in Live /\ row \in FeatureRow /\ row.name \in Names /\ u.member \in Members
  <2>1. f \in Live
    BY <1>1, <1>3 DEF SetDetector
  <2>2. row \in FeatureRow /\ row.name \in Names
    BY <1>3, <2>1, LiveRow DEF FeatIInv
  <2>3. u.member \in Members
    BY <1>2 DEF CallSane
  <2> QED BY <2>1, <2>2, <2>3
<1>5. PICK r : r = [row EXCEPT !.autoDetectedBy = u.member]
  OBVIOUS
<1>6. /\ features' = [features EXCEPT ![f] = r] /\ call' = [call EXCEPT ![c] = Resting]
      /\ links' = links /\ outputs' = outputs /\ processed' = processed /\ origin' = origin
      /\ featAlone' = featAlone
  BY <1>1, <1>3, <1>5 DEF SetDetector, Finish, eventVars
<1>7. /\ r \in FeatureRow /\ r.autoDetectedBy = u.member /\ r.name = row.name
      /\ r.status = row.status /\ r.completionDate = row.completionDate
  BY <1>4, <1>5 DEF FeatureRow
<1>8. r.name \in Names /\ \A g \in Live : features[g].name = r.name => g = f
  BY <1>3, <1>4, <1>7 DEF FeatIInv, RowsSane
<1>9. /\ RowsSane' /\ Onward /\ Live' = Live /\ features'[f] = r
      /\ \A g \in Live : g # f => features'[g] = features[g]
  <2>1. RowsSane
    BY DEF FeatIInv
  <2> QED BY <1>4, <1>6, <1>7, <1>8, <2>1, RowWritten
<1>10. DetectedByAuthor'
  <2>1. \A g \in Live : g # f => features'[g].autoDetectedBy = features[g].autoDetectedBy
    BY <1>9
  <2>2. \A g \in Live : g # f /\ features'[g].autoDetectedBy # NoMember =>
           \E e \in Events :
             /\ AuthorOf[e] = features'[g].autoDetectedBy
             /\ \/ <<g, e>> \in links'
                \/ origin'[g] = e /\ processed'[e] /\ outputs'[e] > 0
    BY <1>6, <1>9, <2>1, DetectorsStay DEF FeatIInv
  <2>3. \E e \in Events : AuthorOf[e] = features'[f].autoDetectedBy /\ <<f, e>> \in links'
    BY <1>2, <1>3, <1>4, <1>6, <1>7, <1>9 DEF CallKnows
  <2> QED BY <1>9, <2>2, <2>3 DEF DetectedByAuthor
<1>11. featAlone => FeatureIsDated'
  BY <1>3, <1>6, <1>7, <1>9 DEF FeatIInv, FeatureIsDated
<1> QED BY <1>2, <1>6, <1>9, <1>10, <1>11, RestKnows, WriteKeeps

\* The links of a feature that is dropped are dropped too.
LEMMA DropFeatureKeeps ==
  ASSUME FeatIInv, NEW c \in Calls, DropFeature(c)
  PROVE  FeatIInv'
<1>1. PICK u, f : u = call[c] /\ f = u.feature
  OBVIOUS
<1>2. u.op = "delete" /\ call[c] # Resting /\ CallSane(u) /\ CallKnows(u)
  BY <1>1, RestIsNone DEF DropFeature
<1>3. /\ features' = [features EXCEPT ![f] = Deleted] /\ call' = [call EXCEPT ![c] = Resting]
      /\ links' = {link \in links : link[1] # f}
      /\ outputs' = outputs /\ processed' = processed /\ origin' = origin
      /\ featAlone' = featAlone
  BY <1>1 DEF DropFeature, Finish, eventVars
<1>4. /\ f \in 1 .. Len(features) /\ DOMAIN features = 1 .. Len(features)
      /\ Len(features) \in Nat /\ features \in Seq(FeatureRow)
  <2>1. f \in DOMAIN features
    BY <1>1, <1>2 DEF CallKnows
  <2>2. features \in Seq(FeatureRow)
    BY DEF FeatIInv, RowsSane
  <2> QED BY <2>1, <2>2
<1>5. Deleted \in FeatureRow
  BY DEF Deleted, FeatureRow, Completion
<1>6. /\ features' \in Seq(FeatureRow) /\ Len(features') = Len(features)
      /\ DOMAIN features' = DOMAIN features
  BY <1>3, <1>4, <1>5
<1>7. features'[f] = Deleted /\ \A g \in DOMAIN features : g # f => features'[g] = features[g]
  BY <1>3, <1>4
<1>8. Live' = Live \ {f} /\ \A g \in Live' : features'[g] = features[g]
  BY <1>6, <1>7 DEF Live
<1>9. links' \subseteq Live' \X Events
  BY <1>3, <1>8 DEF FeatIInv, RowsSane
<1>10. RowsSane'
  BY <1>3, <1>6, <1>8, <1>9 DEF FeatIInv, RowsSane
<1>11. Onward
  BY <1>3, <1>6, <1>8 DEF Onward
<1>12. DetectedByAuthor'
  <2>1. \A g \in Live' : features'[g].autoDetectedBy # NoMember =>
           \E e \in Events :
             /\ AuthorOf[e] = features'[g].autoDetectedBy
             /\ \/ <<g, e>> \in links'
                \/ origin'[g] = e /\ processed'[e] /\ outputs'[e] > 0
    BY <1>3, <1>8, <1>11, DetectorsStay DEF FeatIInv
  <2> QED BY <2>1 DEF DetectedByAuthor
<1>13. featAlone => FeatureIsDated'
  BY <1>3, <1>8 DEF FeatIInv, FeatureIsDated
<1> QED BY <1>2, <1>3, <1>10, <1>11, <1>12, <1>13, RestKnows, WriteKeeps

\* A link of a feature that is there.
LEMMA Linked ==
  ASSUME RowsSane, DetectedByAuthor, NEW f \in Live, NEW e \in Events,
         links' = links \cup {<<f, e>>}, UNCHANGED <<features, outputs, processed, origin>>
  PROVE  RowsSane' /\ Onward /\ DetectedByAuthor' /\ Live' = Live
<1>1. /\ features' = features /\ outputs' = outputs /\ processed' = processed
      /\ origin' = origin
  OBVIOUS
<1>2. Live' = Live
  BY <1>1 DEF Live
<1>3. RowsSane'
  BY <1>1, <1>2 DEF RowsSane
<1>4. Onward
  BY <1>1, <1>2 DEF Onward
<1>5. DetectedByAuthor'
  BY <1>1, <1>2 DEF DetectedByAuthor
<1> QED BY <1>2, <1>3, <1>4, <1>5

LEMMA UpsertLinkKeeps ==
  ASSUME FeatIInv, NEW c \in Calls, UpsertLink(c)
  PROVE  FeatIInv'
<1>1. PICK u, f, e : u = call[c] /\ f = u.feature /\ e = u.event
  OBVIOUS
<1>2. u.op = "link" /\ call[c] # Resting /\ CallSane(u)
  BY <1>1, RestIsNone DEF UpsertLink
<1>3. e \in Events /\ f \in Numbers
  BY <1>1, <1>2 DEF CallSane
<1>4. /\ f \in Live /\ links' = links \cup {<<f, e>>}
      /\ features' = features /\ outputs' = outputs /\ processed' = processed
      /\ origin' = origin /\ featAlone' = featAlone
  BY <1>1 DEF UpsertLink, Upsert, eventVars
<1>5. RowsSane' /\ Onward /\ DetectedByAuthor' /\ Live' = Live
  BY <1>3, <1>4, Linked DEF FeatIInv
<1>6. featAlone => FeatureIsDated'
  BY <1>4, <1>5 DEF FeatIInv, FeatureIsDated
<1>7. CASE Finish(c)
  <2>1. call' = [call EXCEPT ![c] = Resting]
    BY <1>7 DEF Finish
  <2> QED BY <1>2, <1>4, <1>5, <1>6, <2>1, RestKnows, WriteKeeps
<1>8. CASE /\ AuthorOf[e] # NoMember
           /\ Continue(c, [op |-> "detector", feature |-> f, member |-> AuthorOf[e]])
  <2>1. PICK next : next = [op |-> "detector", feature |-> f, member |-> AuthorOf[e]]
    OBVIOUS
  <2>2. AuthorOf[e] \in Members
    BY <1>3, <1>8, FeatureAssumption
  <2>3. CallSane(next) /\ CallKnowsAlone(next)'
    BY <1>3, <2>1, <2>2 DEF CallSane, CallKnowsAlone
  <2>4. f \in DOMAIN features'
    BY <1>4 DEF Live
  <2>5. \E x \in Events : AuthorOf[x] = next.member /\ <<next.feature, x>> \in links'
    BY <1>3, <1>4, <2>1
  <2>6. CallKnows(next)'
    BY <2>1, <2>4, <2>5 DEF CallKnows
  <2>7. call' = [call EXCEPT ![c] = next]
    BY <1>8, <2>1 DEF Continue
  <2> QED BY <1>2, <1>4, <1>5, <1>6, <2>3, <2>6, <2>7, WriteKeeps
<1> QED BY <1>1, <1>7, <1>8 DEF UpsertLink

LEMMA LinkFoundKeeps ==
  ASSUME FeatIInv, NEW c \in Calls, LinkFound(c)
  PROVE  FeatIInv'
<1>1. PICK u, f, e : u = call[c] /\ f = u.feature /\ e = u.event
  OBVIOUS
<1>2. u.op = "link found" /\ call[c] # Resting /\ CallSane(u)
  BY <1>1, RestIsNone DEF LinkFound
<1>3. e \in Events
  BY <1>1, <1>2 DEF CallSane
<1>4. /\ f \in Live /\ links' = links \cup {<<f, e>>} /\ call' = [call EXCEPT ![c] = Resting]
      /\ features' = features /\ outputs' = outputs /\ processed' = processed
      /\ origin' = origin /\ featAlone' = featAlone
  BY <1>1 DEF LinkFound, Upsert, Finish, eventVars
<1>5. RowsSane' /\ Onward /\ DetectedByAuthor' /\ Live' = Live
  BY <1>3, <1>4, Linked DEF FeatIInv
<1>6. featAlone => FeatureIsDated'
  BY <1>4, <1>5 DEF FeatIInv, FeatureIsDated
<1> QED BY <1>2, <1>4, <1>5, <1>6, RestKnows, WriteKeeps

LEMMA CreateFoundKeeps ==
  ASSUME FeatIInv, NEW c \in Calls, CreateFound(c)
  PROVE  FeatIInv'
<1>1. PICK u, e, n : u = call[c] /\ e = u.event /\ n = Len(features) + 1
  OBVIOUS
<1>2. u.op = "create found" /\ call[c] # Resting /\ CallSane(u) /\ CallKnows(u)
  BY <1>1, RestIsNone DEF CreateFound
<1>3. /\ e \in Events /\ u.name \in Names /\ AuthorOf[e] \in Members \cup {NoMember}
      /\ outputs[e] > 0 /\ processed[e]
  BY <1>1, <1>2, FeatureAssumption DEF CallSane, CallKnows
<1>4. PICK next : next = [op |-> "link found", event |-> e, feature |-> n]
  OBVIOUS
<1>5. /\ Insert(u.name, AuthorOf[e], e) /\ call' = [call EXCEPT ![c] = next]
      /\ links' = links /\ outputs' = outputs /\ processed' = processed /\ featAlone' = featAlone
  BY <1>1, <1>4 DEF CreateFound, Continue, eventVars
<1>6. e \in Events \cup {NoEvent}
  BY <1>3
<1>7. /\ RowsSane' /\ Onward /\ Live' = Live \cup {n} /\ n \in Numbers
      /\ features'[n] = Feature(u.name, AuthorOf[e]) /\ origin'[n] = e
      /\ \A g \in Live : features'[g] = features[g] /\ origin'[g] = origin[g]
  BY <1>1, <1>3, <1>5, <1>6, RowMade DEF FeatIInv
<1>8. features'[n].autoDetectedBy = AuthorOf[e] /\ features'[n].status = "open"
      /\ features'[n].completionDate = FALSE
  BY <1>7 DEF Feature
<1>9. DetectedByAuthor'
  <2>1. \A f \in Live : features'[f].autoDetectedBy # NoMember =>
           \E x \in Events :
             /\ AuthorOf[x] = features'[f].autoDetectedBy
             /\ \/ <<f, x>> \in links'
                \/ origin'[f] = x /\ processed'[x] /\ outputs'[x] > 0
    BY <1>7, DetectorsStay DEF FeatIInv
  <2>2. /\ e \in Events /\ AuthorOf[e] = features'[n].autoDetectedBy
        /\ origin'[n] = e /\ processed'[e] /\ outputs'[e] > 0
    BY <1>3, <1>5, <1>7, <1>8
  <2>3. DetectedByAuthor' <=>
          \A f \in Live' : features'[f].autoDetectedBy # NoMember =>
           \E x \in Events :
             /\ AuthorOf[x] = features'[f].autoDetectedBy
             /\ \/ <<f, x>> \in links'
                \/ origin'[f] = x /\ processed'[x] /\ outputs'[x] > 0
    BY DEF DetectedByAuthor
  <2> QED BY <1>7, <2>1, <2>2, <2>3
<1>10. featAlone => FeatureIsDated'
  BY <1>5, <1>7, <1>8 DEF FeatureIsDated, FeatIInv
<1>11. CallSane(next) /\ CallKnowsAlone(next)'
  BY <1>3, <1>4, <1>7 DEF CallSane, CallKnowsAlone
<1>12. CallKnows(next)'
  <2>1. n \in DOMAIN features'
    BY <1>7 DEF Live
  <2> QED BY <1>3, <1>4, <1>5, <2>1 DEF CallKnows
<1> QED BY <1>2, <1>5, <1>7, <1>9, <1>10, <1>11, <1>12, WriteKeeps

\* The event has its summary.
LEMMA SummariseKeeps ==
  ASSUME FeatIInv, NEW c \in Calls, Summarise(c)
  PROVE  FeatIInv'
<1>1. PICK u, e, next : u = call[c] /\ e = u.event /\ next = [u EXCEPT !.op = "mark"]
  OBVIOUS
<1>2. u.op = "summarise" /\ call[c] # Resting /\ CallSane(u)
  BY <1>1, RestIsNone DEF Summarise
<1>3. e \in Events /\ CallSane(next) /\ next.op = "mark" /\ next.event = e
  BY <1>1, <1>2 DEF CallSane
<1>4. /\ outputs' = [outputs EXCEPT ![e] = @ + 1] /\ outputs[e] < MaxOutputs
      /\ call' = [call EXCEPT ![c] = next] /\ features' = features /\ links' = links
      /\ processed' = processed /\ origin' = origin /\ featAlone' = featAlone
  BY <1>1 DEF Summarise, Continue
<1>5. Live' = Live
  BY <1>4 DEF Live
<1>6. /\ outputs \in [Events -> 0 .. MaxOutputs] /\ MaxOutputs \in Nat
      /\ outputs[e] \in 0 .. MaxOutputs
  BY <1>3, FeatureAssumption DEF FeatIInv, RowsSane
<1>7. /\ outputs' \in [Events -> 0 .. MaxOutputs] /\ outputs'[e] > 0
      /\ \A x \in Events : outputs[x] > 0 => outputs'[x] > 0
  BY <1>3, <1>4, <1>6
<1>8. RowsSane' /\ Onward
  BY <1>4, <1>5, <1>7 DEF FeatIInv, RowsSane, Onward
<1>9. DetectedByAuthor'
  BY <1>4, <1>5, <1>7 DEF FeatIInv, DetectedByAuthor
<1>10. featAlone => FeatureIsDated'
  BY <1>4, <1>5 DEF FeatIInv, FeatureIsDated
<1>11. CallKnows(next)' /\ CallKnowsAlone(next)'
  BY <1>3, <1>7 DEF CallKnows, CallKnowsAlone
<1> QED BY <1>2, <1>3, <1>4, <1>8, <1>9, <1>10, <1>11, WriteKeeps

\* It is marked.
LEMMA MarkProcessedKeeps ==
  ASSUME FeatIInv, NEW c \in Calls, MarkProcessed(c)
  PROVE  FeatIInv'
<1>1. PICK u, e, next : u = call[c] /\ e = u.event /\ next = [u EXCEPT !.op = "detect"]
  OBVIOUS
<1>2. u.op = "mark" /\ call[c] # Resting /\ CallSane(u) /\ CallKnows(u)
  BY <1>1, RestIsNone DEF MarkProcessed
<1>3. e \in Events /\ CallSane(next) /\ next.op = "detect" /\ next.event = e
  BY <1>1, <1>2 DEF CallSane
<1>4. /\ processed' = [processed EXCEPT ![e] = TRUE] /\ features' = features /\ links' = links
      /\ outputs' = outputs /\ origin' = origin /\ featAlone' = featAlone
  BY <1>1 DEF MarkProcessed
<1>5. Live' = Live
  BY <1>4 DEF Live
<1>6. /\ processed' \in [Events -> BOOLEAN] /\ processed'[e]
      /\ \A x \in Events : processed[x] => processed'[x]
  BY <1>3, <1>4 DEF FeatIInv, RowsSane
<1>7. RowsSane' /\ Onward
  BY <1>4, <1>5, <1>6 DEF FeatIInv, RowsSane, Onward
<1>8. DetectedByAuthor'
  BY <1>4, <1>5, <1>6 DEF FeatIInv, DetectedByAuthor
<1>9. featAlone => FeatureIsDated'
  BY <1>4, <1>5 DEF FeatIInv, FeatureIsDated
<1>10. CallKnows(next)' /\ CallKnowsAlone(next)'
  BY <1>1, <1>2, <1>3, <1>4, <1>6 DEF CallKnows, CallKnowsAlone
<1>11. call' = [call EXCEPT ![c] = Resting] \/ call' = [call EXCEPT ![c] = next]
  BY <1>1 DEF MarkProcessed, Finish, Continue
<1> QED BY <1>2, <1>3, <1>4, <1>7, <1>8, <1>9, <1>10, <1>11, RestKnows, WriteKeeps

THEOREM FeatInvariant == FeatSpec => []FeatIInv
<1>1. FeatInit => FeatIInv
  <2> SUFFICES ASSUME FeatInit PROVE FeatIInv
    OBVIOUS
  <2>1. Live = {} /\ features \in Seq(FeatureRow) /\ origin \in Seq(Events \cup {NoEvent})
        /\ Len(features) = 0 /\ Len(origin) = 0
    BY DEF FeatInit, Live
  <2>2. RowsSane
    BY <2>1, FeatureAssumption DEF FeatInit, RowsSane
  <2>3. \A c \in Calls : call[c] = Resting
    BY DEF FeatInit
  <2>4. CallSane(Resting) /\ CallKnows(Resting) /\ CallKnowsAlone(Resting)
    BY DEF CallSane, CallKnows, CallKnowsAlone, Resting
  <2>5. \A c \in Calls : CallSane(call[c]) /\ CallKnows(call[c]) /\ CallKnowsAlone(call[c])
    BY <2>3, <2>4
  <2>6. DetectedByAuthor /\ FeatureIsDated
    BY <2>1 DEF DetectedByAuthor, FeatureIsDated
  <2>7. call = [c \in Calls |-> call[c]] /\ featAlone \in BOOLEAN
    BY DEF FeatInit
  <2> QED BY <2>2, <2>3, <2>5, <2>6, <2>7 DEF FeatIInv
<1>2. FeatIInv /\ [FeatNext]_featVars => FeatIInv'
  <2> SUFFICES ASSUME FeatIInv, [FeatNext]_featVars PROVE FeatIInv'
    OBVIOUS
  <2>1. ASSUME NEW c \in Calls, AskFeatures(c) PROVE FeatIInv'
    BY <2>1, AskKeeps
  <2>2. ASSUME NEW c \in Calls, FeatureStep(c) PROVE FeatIInv'
    BY <2>2, GoOnKeeps, InsertFeatureKeeps, WriteUpdateKeeps, WriteStatusKeeps,
       DropFeatureKeeps, UpsertLinkKeeps, SetDetectorKeeps, SummariseKeeps,
       MarkProcessedKeeps, CreateFoundKeeps, LinkFoundKeeps
       DEF FeatureStep
  <2>3. CASE UNCHANGED featVars
    <3>1. /\ features' = features /\ links' = links /\ outputs' = outputs
          /\ processed' = processed /\ call' = call /\ origin' = origin
          /\ featAlone' = featAlone
      BY <2>3 DEF featVars
    <3>2. Live' = Live
      BY <3>1 DEF Live
    <3>3. RowsSane' /\ DetectedByAuthor' /\ (featAlone => FeatureIsDated')
      BY <3>1, <3>2 DEF FeatIInv, RowsSane, DetectedByAuthor, FeatureIsDated
    <3>4. \A c \in Calls : CallKnows(call[c])'
      BY <3>1, <3>2 DEF FeatIInv, CallKnows
    <3>5. featAlone => \A c \in Calls : CallKnowsAlone(call[c])'
      BY <3>1, <3>2 DEF FeatIInv, CallKnowsAlone
    <3> QED BY <3>1, <3>3, <3>4, <3>5 DEF FeatIInv
  <2> QED BY <2>1, <2>2, <2>3 DEF FeatNext
<1> QED BY <1>1, <1>2, PTL DEF FeatSpec

LEMMA FeatTypes == FeatIInv => FeatTypeOK
<1> SUFFICES ASSUME FeatIInv PROVE FeatTypeOK
  OBVIOUS
<1>1. ASSUME NEW name \in Names PROVE Cardinality(Named(name)) <= 1
  <2>1. \A f, g \in Named(name) : f = g
    BY DEF Named, FeatIInv, RowsSane
  <2>2. CASE Named(name) = {}
    BY <2>2, FS_EmptySet
  <2>3. CASE Named(name) # {}
    <3>1. PICK f : Named(name) = {f}
      BY <2>1, <2>3
    <3>2. Cardinality(Named(name)) = 1
      BY <3>1, FS_Singleton
    <3> QED BY <3>2
  <2> QED BY <2>2, <2>3
<1>2. DOMAIN call = Calls
  BY DEF FeatIInv
<1> QED BY <1>1, <1>2 DEF FeatIInv, RowsSane, FeatTypeOK

\* autoDetectedByMemberId names the author of an event of the feature, whatever calls
\* overlap and wherever they stop (features.service.ts, llm.service.ts).
THEOREM DetectorsAreAuthors == FeatSpec => []DetectedByAuthor
<1>1. FeatIInv => DetectedByAuthor
  BY DEF FeatIInv
<1> QED BY <1>1, FeatInvariant, PTL

-----------------------------------------------------------------------------
\* The task: what a step of a request leaves true.

Assignment == [whom : people \cup {NoPerson, TheTeam}, isActive : BOOLEAN]
TeamType == [People -> {"never", "member", "removed"}]

\* Together, the active assignments and the requests that are about to make one.
Within == Cardinality(Active) + Cardinality(AboutToAssign) <= Cardinality(Asks)
OneActive == Cardinality(Active) <= 1 /\ Active \subseteq {Len(assignments)}

LEMMA Parts ==
  ASSUME TaskTypeOK
  PROVE  /\ IsFiniteSet(Active) /\ Cardinality(Active) \in Nat
         /\ Active \subseteq 1 .. Len(assignments)
         /\ IsFiniteSet(AboutToAssign) /\ Cardinality(AboutToAssign) \in Nat
         /\ Cardinality(AboutToAssign) <= Cardinality(Asks)
         /\ Cardinality(Asks) \in Nat
<1>1. Active \subseteq 1 .. Len(assignments) /\ Len(assignments) \in Nat
  <2>1. assignments \in Seq(Assignment)
    BY DEF TaskTypeOK, Assignment
  <2>2. DOMAIN assignments = 1 .. Len(assignments) /\ Len(assignments) \in Nat
    BY <2>1
  <2> QED BY <2>2 DEF Active
<1>2. IsFiniteSet(Active)
  <2>1. IsFiniteSet(1 .. Len(assignments))
    BY <1>1, FS_Interval
  <2> QED BY <1>1, <2>1, FS_Subset
<1>3. IsFiniteSet(Asks) /\ AboutToAssign \subseteq Asks
  BY TaskAssumption DEF AboutToAssign
<1> QED BY <1>1, <1>2, <1>3, FS_Subset, FS_CardinalityType

\* A request that is not about to assign goes on, and no assignment becomes active.
LEMMA WithinKeeps ==
  ASSUME TaskTypeOK, TaskTypeOK', Within, Active' \subseteq Active,
         AboutToAssign' \subseteq AboutToAssign
  PROVE  Within'
<1>1. Cardinality(Active') <= Cardinality(Active) /\ Cardinality(Active') \in Nat
  BY Parts, FS_Subset, FS_CardinalityType
<1>2. /\ Cardinality(AboutToAssign') <= Cardinality(AboutToAssign)
      /\ Cardinality(AboutToAssign') \in Nat
  BY Parts, FS_Subset, FS_CardinalityType
<1> QED BY <1>1, <1>2, Parts DEF Within

\* A request goes on, from where it is or from rest.
LEMMA AskMoves ==
  ASSUME TaskIInv, NEW a \in Asks, NEW next,
         ask' = [ask EXCEPT ![a] = next], taskAlone' = taskAlone,
         taskAlone /\ ask[a] = Quiet => \A b \in Asks : ask[b] = Quiet,
         AskSane(next), TaskTypeOK', task' # NoTask,
         Within', taskAlone => OneActive',
         taskAlone => AskKnowsAlone(next)' /\ TaskIsDated'
  PROVE  TaskIInv'
<1>1. ask'[a] = next /\ \A b \in Asks : b # a => ask'[b] = ask[b]
  BY DEF TaskIInv
<1>2. ask' = [b \in Asks |-> ask'[b]] /\ taskAlone' \in BOOLEAN
  BY DEF TaskIInv
<1>3. \A b \in Asks : AskSane(ask'[b])
  BY <1>1 DEF TaskIInv
<1>4. ASSUME taskAlone
      PROVE  /\ \A b, d \in Asks : ask'[b] # Quiet /\ ask'[d] # Quiet => b = d
             /\ \A b \in Asks : AskKnowsAlone(ask[b])'
  <2>1. \A b \in Asks : b # a => ask[b] = Quiet
    BY <1>4 DEF TaskIInv
  <2>2. \A b \in Asks : b # a => ask'[b] = Quiet
    BY <1>1, <2>1
  <2>3. AskKnowsAlone(Quiet)'
    BY DEF AskKnowsAlone, Quiet
  <2>4. ASSUME NEW b \in Asks PROVE AskKnowsAlone(ask[b])'
    <3>1. CASE b = a
      BY <1>1, <1>4, <3>1 DEF AskKnowsAlone
    <3>2. CASE b # a
      BY <2>2, <2>3, <3>2 DEF AskKnowsAlone
    <3> QED BY <3>1, <3>2
  <2> QED BY <2>2, <2>4
<1>5. AssignmentsWithinOverlap'
  BY DEF AssignmentsWithinOverlap, Within, OneActive
<1>6. \A b \in Asks : AskSane(ask[b])'
  BY <1>3 DEF AskSane
<1> QED BY <1>2, <1>4, <1>5, <1>6 DEF TaskIInv

\* What nobody is asking for is not about to be assigned.
LEMMA AboutToAssignAfter ==
  ASSUME TaskIInv, NEW a \in Asks, NEW next, ask' = [ask EXCEPT ![a] = next]
  PROVE  /\ next.op # "assign" => AboutToAssign' = AboutToAssign \ {a}
         /\ next.op = "assign" => AboutToAssign' = AboutToAssign \cup {a}
<1>1. ask'[a] = next /\ \A b \in Asks : b # a => ask'[b] = ask[b]
  BY DEF TaskIInv
<1> QED BY <1>1 DEF AboutToAssign

\* A request that only reads.
LEMMA AskReads ==
  ASSUME TaskIInv, NEW a \in Asks, NEW next, ask' = [ask EXCEPT ![a] = next],
         UNCHANGED <<task, assignments, team, people, finished, taskAlone>>,
         taskAlone /\ ask[a] = Quiet => \A b \in Asks : ask[b] = Quiet,
         AskSane(next), next.op # "assign", taskAlone => AskKnowsAlone(next), task # NoTask
  PROVE  TaskIInv'
<1>1. /\ task' = task /\ assignments' = assignments /\ team' = team /\ people' = people
      /\ finished' = finished /\ taskAlone' = taskAlone
  OBVIOUS
<1>2. Active' = Active /\ (There' <=> There) /\ (HasTeam' <=> HasTeam)
  BY <1>1 DEF Active, There, HasTeam
<1>3. DOMAIN ask' = Asks
  BY DEF TaskIInv
<1>4. TaskTypeOK'
  BY <1>1, <1>2, <1>3 DEF TaskIInv, TaskTypeOK
<1>5. Within'
  BY <1>2, <1>4, AboutToAssignAfter, WithinKeeps DEF TaskIInv, AssignmentsWithinOverlap, Within
<1>6. taskAlone => OneActive'
  BY <1>1, <1>2 DEF TaskIInv, AssignmentsWithinOverlap, OneActive
<1>7. taskAlone => AskKnowsAlone(next)' /\ TaskIsDated'
  BY <1>1, <1>2 DEF TaskIInv, AskKnowsAlone, TaskIsDated
<1> QED BY <1>1, <1>4, <1>5, <1>6, <1>7, AskMoves

LEMMA QuietSane == AskSane(Quiet) /\ AskKnowsAlone(Quiet) /\ AskKnowsAlone(Quiet)'
                   /\ Quiet.op = "none"
BY DEF AskSane, AskKnowsAlone, Quiet

\* A request is made of a task that is, or was, there.
LEMMA BusyTask ==
  ASSUME TaskIInv, NEW a \in Asks, ask[a].op # "none"
  PROVE  ask[a] # Quiet /\ task # NoTask /\ AskSane(ask[a])
BY DEF TaskIInv, Quiet

\* What is asked for.
LEMMA AskTasksKeeps ==
  ASSUME TaskIInv, NEW a \in Asks, AskTasks(a)
  PROVE  TaskIInv'
<1>1. ASSUME NEW next, Open(a, next), AskSane(next), AskKnowsAlone(next), next.op # "assign",
             UNCHANGED <<task, assignments, team, people, finished, taskAlone>>, task # NoTask
      PROVE  TaskIInv'
  <2>1. ask' = [ask EXCEPT ![a] = next]
        /\ (taskAlone /\ ask[a] = Quiet => \A b \in Asks : ask[b] = Quiet)
    BY <1>1 DEF Open
  <2> QED BY <1>1, <2>1, AskReads
<1>2. There => task \in TaskRow /\ task # NoTask
  BY DEF TaskIInv, TaskTypeOK, There
<1>3. HasTeam => There /\ team \in TeamType
  BY DEF TaskIInv, TaskTypeOK, HasTeam, TeamType
<1>4. ASSUME NEW status \in Statuses \cup {AsItWas},
             NEW deadline \in {"ahead", "past", AsItWas}, UpdateTask(a, status, deadline)
      PROVE  TaskIInv'
  <2>1. PICK next : next =
          [op |-> "update", status |-> status, deadline |-> deadline, was |-> task.status,
           overdue |-> Overdue(Given(deadline, task.completionDeadline),
                               Given(status, task.status))]
    OBVIOUS
  <2>2. There /\ task \in TaskRow
    BY <1>2, <1>4 DEF UpdateTask
  <2>3. AskSane(next)
    BY <2>1, <2>2 DEF AskSane, TaskRow, Deadlines, Overdue
  <2>4. AskKnowsAlone(next)
    BY <2>1 DEF AskKnowsAlone, Overdue
  <2> QED BY <1>1, <1>2, <1>4, <2>1, <2>2, <2>3, <2>4 DEF UpdateTask
<1>5. ASSUME NEW status \in Statuses, UpdateTaskStatus(a, status) PROVE TaskIInv'
  <2>1. PICK next : next =
          [op |-> "status", status |-> status, was |-> task.status,
           overdue |-> Overdue(task.completionDeadline, status)]
    OBVIOUS
  <2>2. There /\ task \in TaskRow
    BY <1>2, <1>5 DEF UpdateTaskStatus
  <2>3. AskSane(next)
    BY <2>1, <2>2 DEF AskSane, TaskRow, Overdue
  <2>4. AskKnowsAlone(next)
    BY <2>1 DEF AskKnowsAlone, Overdue
  <2> QED BY <1>1, <1>2, <1>5, <2>1, <2>2, <2>3, <2>4 DEF UpdateTaskStatus
<1>6. CASE DeleteTask(a)
  <2>1. PICK next : next = [op |-> "delete"]
    OBVIOUS
  <2>2. AskSane(next) /\ AskKnowsAlone(next)
    BY <2>1 DEF AskSane, AskKnowsAlone
  <2> QED BY <1>1, <1>2, <1>6, <2>1, <2>2 DEF DeleteTask
<1>7. ASSUME NEW whom \in People \cup {TheTeam}, AssignTask(a, whom) PROVE TaskIInv'
  <2>1. PICK next : next = [op |-> "deactivate", whom |-> whom]
    OBVIOUS
  <2>2. AskSane(next) /\ AskKnowsAlone(next)
    BY <2>1 DEF AskSane, AskKnowsAlone
  <2> QED BY <1>1, <1>2, <1>7, <2>1, <2>2 DEF AssignTask
<1>8. ASSUME NEW set \in SUBSET People, CreateTaskTeam(a, set) PROVE TaskIInv'
  <2>1. PICK next : next = [op |-> "create team", members |-> set]
    OBVIOUS
  <2>2. AskSane(next) /\ AskKnowsAlone(next)
    BY <2>1 DEF AskSane, AskKnowsAlone
  <2> QED BY <1>1, <1>2, <1>8, <2>1, <2>2 DEF CreateTaskTeam
<1>9. ASSUME NEW p \in People, AddTaskTeamMember(a, p) PROVE TaskIInv'
  <2>1. PICK next : next = [op |-> "add", person |-> p, was |-> team[p]]
    OBVIOUS
  <2>2. There /\ team[p] \in {"never", "removed"}
    BY <1>3, <1>9 DEF AddTaskTeamMember, TeamType
  <2>3. AskSane(next) /\ AskKnowsAlone(next)
    BY <2>1, <2>2 DEF AskSane, AskKnowsAlone
  <2> QED BY <1>1, <1>2, <1>9, <2>1, <2>2, <2>3 DEF AddTaskTeamMember
<1>10. ASSUME NEW p \in People, RemoveTaskTeamMember(a, p) PROVE TaskIInv'
  <2>1. PICK next : next = [op |-> "remove", person |-> p]
    OBVIOUS
  <2>2. There
    BY <1>3, <1>10 DEF RemoveTaskTeamMember, HasTeam, NoTeam
  <2>3. AskSane(next) /\ AskKnowsAlone(next)
    BY <2>1 DEF AskSane, AskKnowsAlone
  <2> QED BY <1>1, <1>2, <1>10, <2>1, <2>2, <2>3 DEF RemoveTaskTeamMember
<1> QED BY <1>4, <1>5, <1>6, <1>7, <1>8, <1>9, <1>10 DEF AskTasks

-----------------------------------------------------------------------------
\* The task: the steps.

LEMMA TypesOfTask ==
  ASSUME TaskIInv
  PROVE  /\ There <=> task \in TaskRow
         /\ task \in TaskRow \cup {NoTask, DeletedTask}
         /\ There => task # NoTask
         /\ HasTeam => There /\ team \in TeamType
         /\ assignments \in Seq(Assignment)
         /\ DOMAIN assignments = 1 .. Len(assignments) /\ Len(assignments) \in Nat
         /\ people \subseteq People
         /\ NoTask \notin TaskRow /\ DeletedTask \notin TaskRow /\ NoTask # DeletedTask
<1>1. NoTask.status = "absent" /\ DeletedTask.status = "deleted"
      /\ \A t \in TaskRow : t.status \in {"open", "DONE"}
  BY DEF NoTask, DeletedTask, TaskRow, Statuses
<1>2. NoTask \notin TaskRow /\ DeletedTask \notin TaskRow /\ NoTask # DeletedTask
  BY <1>1
<1>3. task \in TaskRow \cup {NoTask, DeletedTask}
  BY DEF TaskIInv, TaskTypeOK
<1>4. There <=> task \in TaskRow
  BY <1>2, <1>3 DEF There
<1>5. HasTeam => There /\ team \in TeamType
  BY DEF TaskIInv, TaskTypeOK, HasTeam, TeamType
<1>6. assignments \in Seq(Assignment) /\ people \subseteq People
  BY DEF TaskIInv, TaskTypeOK, Assignment
<1> QED BY <1>2, <1>3, <1>4, <1>5, <1>6

\* A step that leaves the assignments and the team alone, of a task that is there.
LEMMA RowKeeps ==
  ASSUME TaskIInv, NEW a \in Asks, ask' = [ask EXCEPT ![a] = Quiet], ask[a] # Quiet,
         task' \in TaskRow, There, finished' \in BOOLEAN,
         UNCHANGED <<assignments, team, people, taskAlone>>,
         taskAlone => TaskIsDated'
  PROVE  TaskIInv'
<1>1. /\ assignments' = assignments /\ team' = team /\ people' = people
      /\ taskAlone' = taskAlone
  OBVIOUS
<1>2. Active' = Active /\ (HasTeam' <=> HasTeam) /\ There' /\ task' # NoTask
  BY <1>1, TypesOfTask DEF Active, HasTeam, There
<1>3. DOMAIN ask' = Asks
  BY DEF TaskIInv
<1>4. TaskTypeOK'
  BY <1>1, <1>2, <1>3 DEF TaskIInv, TaskTypeOK
<1>5. Within'
  BY <1>2, <1>4, AboutToAssignAfter, QuietSane, WithinKeeps
     DEF TaskIInv, AssignmentsWithinOverlap, Within
<1>6. taskAlone => OneActive'
  BY <1>1, <1>2 DEF TaskIInv, AssignmentsWithinOverlap, OneActive
<1> QED BY <1>1, <1>2, <1>4, <1>5, <1>6, QuietSane, AskMoves

LEMMA WriteTaskKeeps ==
  ASSUME TaskIInv, NEW a \in Asks, WriteTask(a)
  PROVE  TaskIInv'
<1>1. PICK u : u = ask[a]
  OBVIOUS
<1>2. u.op = "update" /\ ask[a] # Quiet /\ AskSane(u) /\ There /\ task \in TaskRow
  BY <1>1, BusyTask, TypesOfTask DEF WriteTask
<1>3. /\ u.status \in Statuses \cup {AsItWas} /\ u.deadline \in Deadlines \cup {AsItWas}
      /\ u.was \in Statuses /\ u.overdue \in BOOLEAN
  BY <1>2 DEF AskSane
<1>4. PICK status, deadline, date :
        /\ status = Given(u.status, task.status)
        /\ deadline = Given(u.deadline, task.completionDeadline)
        /\ date = CompletedAfter(u.was, u.status, task.completedAt)
  OBVIOUS
<1>5. status \in Statuses /\ deadline \in Deadlines /\ date \in BOOLEAN
  BY <1>2, <1>3, <1>4 DEF Given, CompletedAfter, TaskRow
<1>6. /\ task' = [task EXCEPT !.status = status, !.completionDeadline = deadline,
                              !.isOverdue = u.overdue, !.completedAt = date]
      /\ finished' = (status = "DONE" /\ (finished \/ task.status # "DONE"))
      /\ ask' = [ask EXCEPT ![a] = Quiet]
      /\ UNCHANGED <<assignments, team, people, taskAlone>>
  BY <1>1, <1>4 DEF WriteTask, Close
<1>7. /\ task' \in TaskRow /\ task'.status = status /\ task'.completionDeadline = deadline
      /\ task'.isOverdue = u.overdue /\ task'.completedAt = date
  BY <1>2, <1>3, <1>5, <1>6 DEF TaskRow
<1>8. taskAlone => TaskIsDated'
  <2> SUFFICES ASSUME taskAlone PROVE TaskIsDated'
    OBVIOUS
  <2>1. AskKnowsAlone(u)
    BY <1>1 DEF TaskIInv
  <2>2. u.was = task.status /\ (u.overdue => deadline = "past" /\ status # "DONE")
    BY <1>2, <1>4, <2>1 DEF AskKnowsAlone
  <2>3. finished => task.completedAt
    BY <1>2 DEF TaskIInv, TaskIsDated
  <2>4. CASE u.status = AsItWas
    <3>1. status = task.status /\ (date <=> task.completedAt)
      BY <1>4, <2>4 DEF Given, CompletedAfter, AsItWas
    <3> QED BY <1>6, <1>7, <2>2, <2>3, <3>1 DEF TaskIsDated
  <2>5. CASE u.status # AsItWas
    <3>1. status = u.status
      BY <1>4, <2>5 DEF Given
    <3>2. status = "DONE" /\ (finished \/ task.status # "DONE") => date
      BY <1>4, <2>2, <2>3, <3>1 DEF CompletedAfter
    <3> QED BY <1>6, <1>7, <2>2, <3>2 DEF TaskIsDated
  <2> QED BY <2>4, <2>5
<1> QED BY <1>2, <1>6, <1>7, <1>8, RowKeeps

LEMMA WriteTaskStatusKeeps ==
  ASSUME TaskIInv, NEW a \in Asks, WriteTaskStatus(a)
  PROVE  TaskIInv'
<1>1. PICK u : u = ask[a]
  OBVIOUS
<1>2. u.op = "status" /\ ask[a] # Quiet /\ AskSane(u) /\ There /\ task \in TaskRow
  BY <1>1, BusyTask, TypesOfTask DEF WriteTaskStatus
<1>3. u.status \in Statuses /\ u.overdue \in BOOLEAN
  BY <1>2 DEF AskSane
<1>4. PICK date : date = ((u.status = "DONE") \/ (task.completedAt /\ u.was = "DONE"))
  OBVIOUS
<1>5. /\ task' = [task EXCEPT !.status = u.status, !.isOverdue = u.overdue,
                              !.completedAt = date]
      /\ finished' = (u.status = "DONE")
      /\ ask' = [ask EXCEPT ![a] = Quiet]
      /\ UNCHANGED <<assignments, team, people, taskAlone>>
  BY <1>1, <1>4 DEF WriteTaskStatus, Close
<1>6. /\ task' \in TaskRow /\ task'.status = u.status
      /\ task'.completionDeadline = task.completionDeadline
      /\ task'.isOverdue = u.overdue /\ task'.completedAt = date
  BY <1>2, <1>3, <1>4, <1>5 DEF TaskRow
<1>7. taskAlone => TaskIsDated'
  BY <1>1, <1>2, <1>4, <1>5, <1>6 DEF TaskIInv, AskKnowsAlone, TaskIsDated
<1> QED BY <1>2, <1>5, <1>6, <1>7, RowKeeps

\* With the task go its assignments and its team.
LEMMA DropTaskKeeps ==
  ASSUME TaskIInv, NEW a \in Asks, DropTask(a)
  PROVE  TaskIInv'
<1>1. ask[a] # Quiet
  BY BusyTask DEF DropTask
<1>2. /\ task' = DeletedTask /\ assignments' = <<>> /\ team' = NoTeam /\ finished' = FALSE
      /\ ask' = [ask EXCEPT ![a] = Quiet] /\ people' = people /\ taskAlone' = taskAlone
  BY DEF DropTask, Close
<1>3. /\ Active' = {} /\ ~There' /\ ~HasTeam' /\ task' # NoTask
      /\ assignments' \in Seq(Assignment') /\ Len(assignments') = 0
  BY <1>2, TypesOfTask DEF Active, There, HasTeam
<1>4. DOMAIN ask' = Asks
  BY <1>2 DEF TaskIInv
<1>5. TaskTypeOK'
  <2>1. \A p \in People \ people' : team'[p] \in {"no team", "never"}
    BY <1>2 DEF NoTeam
  <2>2. DOMAIN assignments' = {} /\ Len(assignments') <= MaxAssignments
    BY <1>2, <1>3, TaskAssumption
  <2>3. finished' \in BOOLEAN /\ people' \subseteq People
    BY <1>2, TypesOfTask
  <2> QED BY <1>2, <1>3, <1>4, <2>1, <2>2, <2>3 DEF TaskTypeOK, Assignment
<1>6. Within'
  <2>1. Active' \subseteq Active
    BY <1>3
  <2> QED BY <1>2, <1>5, <2>1, AboutToAssignAfter, QuietSane, WithinKeeps
          DEF TaskIInv, AssignmentsWithinOverlap, Within
<1>7. OneActive'
  BY <1>3, FS_EmptySet DEF OneActive
<1>8. TaskIsDated'
  BY <1>3 DEF TaskIsDated
<1> QED BY <1>1, <1>2, <1>3, <1>5, <1>6, <1>7, <1>8, QuietSane, AskMoves

\* A request that assigns ends every assignment, whoever made it.
LEMMA DeactivateKeeps ==
  ASSUME TaskIInv, NEW a \in Asks, Deactivate(a)
  PROVE  TaskIInv'
<1>1. PICK u, next : u = ask[a] /\ next = [u EXCEPT !.op = "assign"]
  OBVIOUS
<1>2. u.op = "deactivate" /\ ask[a] # Quiet /\ AskSane(u) /\ task # NoTask
  BY <1>1, BusyTask DEF Deactivate
<1>3. AskSane(next) /\ next.op = "assign"
  BY <1>1, <1>2 DEF AskSane
<1>4. ask' = [ask EXCEPT ![a] = next]
  BY <1>1 DEF Deactivate, GoOn
<1>5. /\ assignments' = [k \in DOMAIN assignments |->
                            [assignments[k] EXCEPT !.isActive = FALSE]]
      /\ task' = task /\ team' = team /\ people' = people /\ finished' = finished
      /\ taskAlone' = taskAlone
  BY DEF Deactivate
<1>6. \A k \in 1 .. Len(assignments) : /\ assignments[k] \in Assignment
                                       /\ assignments'[k] \in Assignment
                                       /\ assignments'[k].whom = assignments[k].whom
                                       /\ assignments'[k].isActive = FALSE
  <2> SUFFICES ASSUME NEW k \in 1 .. Len(assignments)
               PROVE  /\ assignments[k] \in Assignment
                      /\ assignments'[k] \in Assignment
                      /\ assignments'[k].whom = assignments[k].whom
                      /\ assignments'[k].isActive = FALSE
    OBVIOUS
  <2>1. assignments[k] \in Assignment
    BY TypesOfTask
  <2>2. assignments'[k] = [assignments[k] EXCEPT !.isActive = FALSE]
    BY <1>5, TypesOfTask
  <2> QED BY <2>1, <2>2 DEF Assignment
<1>7. /\ assignments' \in Seq(Assignment) /\ Len(assignments') = Len(assignments)
      /\ DOMAIN assignments' = DOMAIN assignments
  <2>1. DOMAIN assignments' = 1 .. Len(assignments) /\ Len(assignments) \in Nat
    BY <1>5, TypesOfTask
  <2>2. assignments' = [k \in 1 .. Len(assignments) |-> assignments'[k]]
    BY <1>5, TypesOfTask
  <2> QED BY <1>6, <2>1, <2>2, TypesOfTask
<1>8. Active' = {} /\ (There' <=> There) /\ (HasTeam' <=> HasTeam)
  BY <1>5, <1>6, <1>7, TypesOfTask DEF Active, There, HasTeam
<1>9. (\E k \in DOMAIN assignments' : assignments'[k].whom = TheTeam) => HasTeam'
  BY <1>6, <1>7, <1>8, TypesOfTask DEF TaskIInv, TaskTypeOK
<1>10. ~There' => assignments' = <<>> /\ ~HasTeam'
  <2>1. ~There => assignments = <<>> /\ ~HasTeam
    BY DEF TaskIInv, TaskTypeOK
  <2>2. Len(assignments) = 0 => assignments' = <<>>
    BY <1>7, EmptySeq
  <2> QED BY <1>8, <2>1, <2>2
<1>11. DOMAIN ask' = Asks
  BY <1>4 DEF TaskIInv
<1>12. TaskTypeOK'
  BY <1>5, <1>7, <1>9, <1>10, <1>11 DEF TaskIInv, TaskTypeOK, Assignment
<1>13. Within'
  <2>1. Cardinality(Active') = 0
    BY <1>8, FS_EmptySet
  <2>2. IsFiniteSet(Asks) /\ AboutToAssign' \subseteq Asks
    BY TaskAssumption DEF AboutToAssign
  <2>3. Cardinality(AboutToAssign') <= Cardinality(Asks) /\ Cardinality(AboutToAssign') \in Nat
        /\ Cardinality(Asks) \in Nat
    BY <2>2, FS_Subset, FS_CardinalityType
  <2> QED BY <2>1, <2>3 DEF Within
<1>14. OneActive'
  BY <1>8, FS_EmptySet DEF OneActive
<1>15. AskKnowsAlone(next)' /\ (taskAlone => TaskIsDated')
  BY <1>3, <1>5, <1>8 DEF AskKnowsAlone, TaskIInv, TaskIsDated
<1> QED BY <1>2, <1>3, <1>4, <1>5, <1>12, <1>13, <1>14, <1>15, AskMoves

\* The new assignment takes the place of the request among those counted.
LEMMA AssignKeeps ==
  ASSUME TaskIInv, NEW a \in Asks, Assign(a)
  PROVE  TaskIInv'
<1>1. PICK u, n : u = ask[a] /\ n = Len(assignments) + 1
  OBVIOUS
<1>2. u.op = "assign" /\ ask[a] # Quiet /\ task # NoTask /\ There
  BY <1>1, BusyTask DEF Assign
<1>3. PICK new : new = [whom |-> u.whom, isActive |-> TRUE]
  OBVIOUS
<1>4. /\ assignments' = Append(assignments, new) /\ Len(assignments) < MaxAssignments
      /\ u.whom \in people \/ (u.whom = TheTeam /\ HasTeam)
      /\ ask' = [ask EXCEPT ![a] = Quiet]
      /\ task' = task /\ team' = team /\ people' = people /\ finished' = finished
      /\ taskAlone' = taskAlone
  BY <1>1, <1>3 DEF Assign, Close
<1>5. new \in Assignment /\ new.isActive = TRUE /\ new.whom = u.whom
  BY <1>3, <1>4 DEF Assignment
<1>6. /\ assignments' \in Seq(Assignment) /\ Len(assignments') = n /\ n \in Nat \ {0}
      /\ DOMAIN assignments' = 1 .. n /\ assignments'[n] = new
      /\ \A k \in 1 .. Len(assignments) : assignments'[k] = assignments[k]
      /\ Len(assignments') <= MaxAssignments
  BY <1>1, <1>4, <1>5, TypesOfTask, TaskAssumption
<1>7. Active' = Active \cup {n} /\ n \notin Active
  BY <1>1, <1>5, <1>6, TypesOfTask DEF Active
<1>8. (There' <=> There) /\ (HasTeam' <=> HasTeam)
  BY <1>4 DEF There, HasTeam
<1>9. (\E k \in DOMAIN assignments' : assignments'[k].whom = TheTeam) => HasTeam'
  <2> SUFFICES ASSUME NEW k \in 1 .. n, assignments'[k].whom = TheTeam PROVE HasTeam
    BY <1>6, <1>8
  <2>1. CASE k = n
    <3>1. u.whom = TheTeam /\ TheTeam \notin people
      BY <1>5, <1>6, <2>1, TypesOfTask, TaskAssumption
    <3> QED BY <1>4, <3>1
  <2>2. CASE k # n
    <3>1. k \in 1 .. Len(assignments)
      BY <1>1, <2>2, TypesOfTask
    <3> QED BY <1>6, <3>1, TypesOfTask DEF TaskIInv, TaskTypeOK
  <2> QED BY <2>1, <2>2
<1>10. DOMAIN ask' = Asks
  BY <1>4 DEF TaskIInv
<1>11. TaskTypeOK'
  BY <1>2, <1>4, <1>6, <1>8, <1>9, <1>10 DEF TaskIInv, TaskTypeOK, Assignment
<1>12. Within'
  <2>1. Cardinality(Active') = Cardinality(Active) + 1
    BY <1>7, Parts, FS_AddElement DEF TaskIInv
  <2>2. AboutToAssign' = AboutToAssign \ {a} /\ a \in AboutToAssign
    BY <1>1, <1>2, <1>4, AboutToAssignAfter, QuietSane DEF AboutToAssign
  <2>3. Cardinality(AboutToAssign') = Cardinality(AboutToAssign) - 1
    BY <2>2, Parts, FS_RemoveElement DEF TaskIInv
  <2> QED BY <2>1, <2>3, Parts DEF TaskIInv, AssignmentsWithinOverlap, Within
<1>13. taskAlone => OneActive'
  <2> SUFFICES ASSUME taskAlone PROVE OneActive'
    OBVIOUS
  <2>1. AskKnowsAlone(u)
    BY <1>1 DEF TaskIInv
  <2>2. Active = {}
    BY <1>2, <2>1 DEF AskKnowsAlone
  <2>3. Active' = {n} /\ Len(assignments') = n
    BY <1>6, <1>7, <2>2
  <2>4. Cardinality(Active') = 1
    BY <2>3, FS_Singleton
  <2> QED BY <2>3, <2>4 DEF OneActive
<1>14. taskAlone => TaskIsDated'
  BY <1>4, <1>8 DEF TaskIInv, TaskIsDated
<1> QED BY <1>2, <1>4, <1>11, <1>12, <1>13, <1>14, QuietSane, AskMoves

\* A step that changes neither the task nor the assignments, of a request that ends.
LEMMA TeamKeeps ==
  ASSUME TaskIInv, NEW a \in Asks, ask' = [ask EXCEPT ![a] = Quiet], ask[a] # Quiet,
         There, team' \in TeamType, HasTeam', \A p \in People \ people : team'[p] = "never",
         UNCHANGED <<task, assignments, people, finished, taskAlone>>
  PROVE  TaskIInv'
<1>1. /\ task' = task /\ assignments' = assignments /\ people' = people
      /\ finished' = finished /\ taskAlone' = taskAlone
  OBVIOUS
<1>2. Active' = Active /\ There' /\ task' # NoTask
  BY <1>1, TypesOfTask DEF Active, There
<1>3. DOMAIN ask' = Asks
  BY DEF TaskIInv
<1>4. TaskTypeOK'
  BY <1>1, <1>2, <1>3 DEF TaskIInv, TaskTypeOK, TeamType
<1>5. Within'
  BY <1>2, <1>4, AboutToAssignAfter, QuietSane, WithinKeeps
     DEF TaskIInv, AssignmentsWithinOverlap, Within
<1>6. taskAlone => OneActive'
  BY <1>1, <1>2 DEF TaskIInv, AssignmentsWithinOverlap, OneActive
<1>7. taskAlone => TaskIsDated'
  BY <1>1, <1>2 DEF TaskIInv, TaskIsDated, There
<1> QED BY <1>1, <1>2, <1>4, <1>5, <1>6, <1>7, QuietSane, AskMoves

LEMMA InsertTeamKeeps ==
  ASSUME TaskIInv, NEW a \in Asks, InsertTeam(a)
  PROVE  TaskIInv'
<1>1. PICK u : u = ask[a]
  OBVIOUS
<1>2. u.op = "create team" /\ ask[a] # Quiet
  BY <1>1, BusyTask DEF InsertTeam
<1>3. /\ There /\ u.members \subseteq people /\ ask' = [ask EXCEPT ![a] = Quiet]
      /\ team' = [p \in People |-> IF p \in u.members THEN "member" ELSE "never"]
      /\ UNCHANGED <<task, assignments, people, finished, taskAlone>>
  BY <1>1 DEF InsertTeam, Close
<1>4. team' \in TeamType /\ \A p \in People \ people : team'[p] = "never"
  BY <1>3 DEF TeamType
<1>5. CASE HasTeam'
  BY <1>2, <1>3, <1>4, <1>5, TeamKeeps
<1>6. CASE ~HasTeam'
  <2>1. team' = team
    BY <1>1, <1>6 DEF HasTeam, InsertTeam
  <2>2. AskSane(Quiet) /\ Quiet.op # "assign" /\ AskKnowsAlone(Quiet)
    BY QuietSane
  <2>3. task # NoTask
    BY <1>3, TypesOfTask
  <2> QED BY <1>2, <1>3, <2>1, <2>2, <2>3, AskReads
<1> QED BY <1>5, <1>6

LEMMA WriteTeamMemberKeeps ==
  ASSUME TaskIInv, NEW a \in Asks, WriteTeamMember(a)
  PROVE  TaskIInv'
<1>1. PICK u, p : u = ask[a] /\ p = u.person
  OBVIOUS
<1>2. u.op = "add" /\ ask[a] # Quiet /\ AskSane(u)
  BY <1>1, BusyTask DEF WriteTeamMember
<1>3. /\ HasTeam /\ p \in people /\ team' = [team EXCEPT ![p] = "member"]
      /\ ask' = [ask EXCEPT ![a] = Quiet]
      /\ UNCHANGED <<task, assignments, people, finished, taskAlone>>
  BY <1>1 DEF WriteTeamMember, Close
<1>4. There /\ team \in TeamType /\ p \in People
  BY <1>3, TypesOfTask
<1>5. team' \in TeamType /\ team'[p] = "member"
  BY <1>3, <1>4 DEF TeamType
<1>6. \A x \in People \ people : team'[x] = "never"
  BY <1>3, <1>4 DEF TeamType, TaskIInv, TaskTypeOK
<1>7. HasTeam'
  BY <1>4, <1>5 DEF HasTeam, NoTeam
<1> QED BY <1>2, <1>3, <1>4, <1>5, <1>6, <1>7, TeamKeeps

LEMMA WriteRemovalKeeps ==
  ASSUME TaskIInv, NEW a \in Asks, WriteRemoval(a)
  PROVE  TaskIInv'
<1>1. PICK u, p : u = ask[a] /\ p = u.person
  OBVIOUS
<1>2. u.op = "remove" /\ ask[a] # Quiet /\ AskSane(u) /\ p \in People
  <2>1. u.op = "remove" /\ ask[a] # Quiet /\ AskSane(u)
    BY <1>1, BusyTask DEF WriteRemoval
  <2> QED BY <1>1, <2>1 DEF AskSane
<1>3. /\ HasTeam /\ team[p] # "never" /\ team' = [team EXCEPT ![p] = "removed"]
      /\ ask' = [ask EXCEPT ![a] = Quiet]
      /\ UNCHANGED <<task, assignments, people, finished, taskAlone>>
  BY <1>1 DEF WriteRemoval, Close
<1>4. There /\ team \in TeamType
  BY <1>3, TypesOfTask
<1>5. team' \in TeamType /\ team'[p] = "removed"
  BY <1>2, <1>3, <1>4 DEF TeamType
<1>6. \A x \in People \ people : team[x] = "never"
  BY <1>4 DEF TeamType, TaskIInv, TaskTypeOK
<1>7. \A x \in People \ people : team'[x] = "never"
  BY <1>2, <1>3, <1>4, <1>6 DEF TeamType
<1>8. HasTeam'
  BY <1>2, <1>5 DEF HasTeam, NoTeam
<1> QED BY <1>2, <1>3, <1>4, <1>5, <1>7, <1>8, TeamKeeps

LEMMA BreakKeeps ==
  ASSUME TaskIInv, NEW a \in Asks, Break(a)
  PROVE  TaskIInv'
<1>1. /\ ask[a] # Quiet /\ ask' = [ask EXCEPT ![a] = Quiet]
      /\ UNCHANGED <<task, assignments, team, people, finished, taskAlone>>
  BY DEF Break, Close
<1>2. task # NoTask
  BY <1>1 DEF TaskIInv
<1> QED BY <1>1, <1>2, QuietSane, AskReads

\* What happens to the task outside of the requests.
LEMMA TaskAlters ==
  ASSUME TaskIInv, task' \in TaskRow, finished' \in BOOLEAN,
         There \/ task = NoTask,
         UNCHANGED <<assignments, team, people, ask, taskAlone>>,
         taskAlone => TaskIsDated' /\ \A b \in Asks : AskKnowsAlone(ask[b])'
  PROVE  TaskIInv'
<1>1. /\ assignments' = assignments /\ team' = team /\ people' = people
      /\ taskAlone' = taskAlone /\ ask' = ask
  OBVIOUS
<1>2. /\ Active' = Active /\ (HasTeam' <=> HasTeam) /\ There' /\ task' # NoTask
      /\ AboutToAssign' = AboutToAssign
  BY <1>1, TypesOfTask DEF Active, HasTeam, There, AboutToAssign
<1>3. TaskTypeOK'
  BY <1>1, <1>2 DEF TaskIInv, TaskTypeOK
<1>4. AssignmentsWithinOverlap'
  BY <1>1, <1>2 DEF TaskIInv, AssignmentsWithinOverlap
<1> QED BY <1>1, <1>2, <1>3, <1>4 DEF TaskIInv

LEMMA CreateTaskKeeps ==
  ASSUME TaskIInv, NEW status \in Statuses, NEW deadline \in Deadlines,
         CreateTask(status, deadline)
  PROVE  TaskIInv'
<1>1. /\ task = NoTask /\ task' = Task(status, deadline) /\ finished' = FALSE
      /\ UNCHANGED <<assignments, team, people, ask, taskAlone>> /\ ask' = ask
  BY DEF CreateTask
<1>2. /\ task' \in TaskRow /\ task'.status = status /\ task'.completionDeadline = deadline
      /\ task'.isOverdue = (deadline = "past" /\ status # "DONE")
  BY <1>1 DEF Task, TaskRow
<1>3. TaskIsDated'
  BY <1>1, <1>2 DEF TaskIsDated
<1>4. ASSUME NEW b \in Asks PROVE AskKnowsAlone(ask[b])'
  <2>1. ask'[b] = Quiet
    BY <1>1 DEF TaskIInv
  <2> QED BY <2>1, QuietSane DEF AskKnowsAlone
<1> QED BY <1>1, <1>2, <1>3, <1>4, TaskAlters

LEMMA DeadlinePassesKeeps ==
  ASSUME TaskIInv, DeadlinePasses
  PROVE  TaskIInv'
<1>1. /\ There /\ task \in TaskRow /\ task.completionDeadline = "ahead"
      /\ task' = [task EXCEPT !.completionDeadline = "past"] /\ finished' = finished
      /\ UNCHANGED <<assignments, team, people, ask, taskAlone>>
      /\ ask' = ask /\ assignments' = assignments
  BY TypesOfTask DEF DeadlinePasses
<1>2. /\ task' \in TaskRow /\ task'.status = task.status /\ task'.completionDeadline = "past"
      /\ task'.isOverdue = task.isOverdue /\ task'.completedAt = task.completedAt
  BY <1>1 DEF TaskRow, Deadlines
<1>3. finished' \in BOOLEAN /\ (There' <=> There) /\ Active' = Active
  BY <1>1, <1>2, TypesOfTask DEF TaskIInv, TaskTypeOK, There, Active
<1>4. taskAlone => TaskIsDated'
  BY <1>1, <1>2, <1>3 DEF TaskIInv, TaskIsDated
<1>5. ASSUME taskAlone, NEW b \in Asks PROVE AskKnowsAlone(ask[b])'
  <2>1. PICK u : u = ask[b]
    OBVIOUS
  <2>2. AskKnowsAlone(u)
    BY <1>5, <2>1 DEF TaskIInv
  <2>3. Given(u.deadline, task.completionDeadline) = "past" =>
          Given(u.deadline, task'.completionDeadline) = "past"
    BY <1>2 DEF Given
  <2>4. AskKnowsAlone(u)'
    BY <1>1, <1>2, <1>3, <2>2, <2>3 DEF AskKnowsAlone
  <2> QED BY <1>1, <2>1, <2>4 DEF AskKnowsAlone
<1> QED BY <1>1, <1>2, <1>3, <1>4, <1>5, TaskAlters

\* A member leaves: his assignments stay without him.
LEMMA LeaveKeeps ==
  ASSUME TaskIInv, NEW p \in People, LeaveOrganization(p)
  PROVE  TaskIInv'
<1>1. /\ p \in people /\ people' = people \ {p}
      /\ assignments' = [k \in DOMAIN assignments |->
            [assignments[k] EXCEPT !.whom = IF @ = p THEN NoPerson ELSE @]]
      /\ team' = IF HasTeam THEN [team EXCEPT ![p] = "never"] ELSE team
      /\ task' = task /\ ask' = ask /\ finished' = finished /\ taskAlone' = taskAlone
  BY DEF LeaveOrganization
<1>2. ASSUME NEW k \in 1 .. Len(assignments)
      PROVE  /\ assignments'[k] \in Assignment'
             /\ assignments'[k].isActive = assignments[k].isActive
             /\ assignments'[k].whom = TheTeam => assignments[k].whom = TheTeam
  <2>1. assignments[k] \in Assignment
    BY TypesOfTask
  <2>2. assignments'[k] = [assignments[k] EXCEPT !.whom = IF @ = p THEN NoPerson ELSE @]
    BY <1>1, TypesOfTask
  <2>3. p # TheTeam /\ p # NoPerson /\ NoPerson # TheTeam
    BY TaskAssumption
  <2> QED BY <1>1, <2>1, <2>2, <2>3 DEF Assignment
<1>3. /\ assignments' \in Seq(Assignment') /\ Len(assignments') = Len(assignments)
      /\ DOMAIN assignments' = DOMAIN assignments
  <2>1. DOMAIN assignments' = 1 .. Len(assignments) /\ Len(assignments) \in Nat
    BY <1>1, TypesOfTask
  <2>2. assignments' = [k \in 1 .. Len(assignments) |-> assignments'[k]]
    BY <1>1, TypesOfTask
  <2> QED BY <1>2, <2>1, <2>2, TypesOfTask
<1>4. Active' = Active /\ (There' <=> There) /\ AboutToAssign' = AboutToAssign
  BY <1>1, <1>2, <1>3, TypesOfTask DEF Active, There, AboutToAssign
<1>5. CASE HasTeam
  <2>1. There /\ team \in TeamType /\ team' = [team EXCEPT ![p] = "never"]
    BY <1>1, <1>5, TypesOfTask
  <2>2. team' \in TeamType /\ team'[p] = "never"
    BY <2>1 DEF TeamType
  <2>3. HasTeam'
    BY <2>2 DEF HasTeam, NoTeam
  <2>4. \A x \in People \ people' : team'[x] \in {"no team", "never"}
    BY <1>1, <2>1 DEF TeamType, TaskIInv, TaskTypeOK
  <2>5. TaskTypeOK'
    BY <1>1, <1>3, <1>4, <2>1, <2>2, <2>3, <2>4
       DEF TaskIInv, TaskTypeOK, Assignment, TeamType
  <2>6. AssignmentsWithinOverlap'
    BY <1>1, <1>3, <1>4 DEF TaskIInv, AssignmentsWithinOverlap
  <2>7. taskAlone => TaskIsDated' /\ \A b \in Asks : AskKnowsAlone(ask[b])'
    BY <1>1, <1>4 DEF TaskIInv, TaskIsDated, AskKnowsAlone
  <2> QED BY <1>1, <2>5, <2>6, <2>7 DEF TaskIInv
<1>6. CASE ~HasTeam
  <2>1. team = NoTeam /\ team' = NoTeam /\ ~HasTeam'
    BY <1>1, <1>6 DEF HasTeam
  <2>2. \A x \in People \ people' : team'[x] \in {"no team", "never"}
    BY <2>1 DEF NoTeam
  <2>3. (\E k \in DOMAIN assignments' : assignments'[k].whom = TheTeam) => HasTeam'
    BY <1>2, <1>3, <1>6, TypesOfTask DEF TaskIInv, TaskTypeOK
  <2>4. ~There' => assignments' = <<>>
    <3>1. ~There => assignments = <<>>
      BY DEF TaskIInv, TaskTypeOK
    <3>2. Len(assignments) = 0 => assignments' = <<>>
      BY <1>3, EmptySeq
    <3> QED BY <1>4, <3>1, <3>2
  <2>5. TaskTypeOK'
    BY <1>1, <1>3, <1>4, <2>1, <2>2, <2>3, <2>4 DEF TaskIInv, TaskTypeOK, Assignment
  <2>6. AssignmentsWithinOverlap'
    BY <1>1, <1>3, <1>4 DEF TaskIInv, AssignmentsWithinOverlap
  <2>7. taskAlone => TaskIsDated' /\ \A b \in Asks : AskKnowsAlone(ask[b])'
    BY <1>1, <1>4 DEF TaskIInv, TaskIsDated, AskKnowsAlone
  <2> QED BY <1>1, <2>5, <2>6, <2>7 DEF TaskIInv
<1> QED BY <1>5, <1>6

THEOREM TaskInvariant == TaskSpec => []TaskIInv
<1>1. TaskInit => TaskIInv
  <2> SUFFICES ASSUME TaskInit PROVE TaskIInv
    OBVIOUS
  <2>1. /\ task = NoTask /\ assignments = <<>> /\ team = NoTeam /\ people = People
        /\ finished = FALSE /\ taskAlone \in BOOLEAN /\ ~There /\ ~HasTeam
    BY DEF TaskInit, There, HasTeam
  <2>2. ask = [a \in Asks |-> ask[a]] /\ DOMAIN ask = Asks /\ \A a \in Asks : ask[a] = Quiet
    BY DEF TaskInit
  <2>3. Active = {} /\ AboutToAssign = {} /\ Len(assignments) = 0
    BY <2>1, <2>2 DEF Active, AboutToAssign, Quiet
  <2>4. TaskTypeOK
    <3>1. assignments \in Seq([whom : people \cup {NoPerson, TheTeam}, isActive : BOOLEAN])
      BY <2>1
    <3>2. Len(assignments) <= MaxAssignments /\ DOMAIN assignments = {}
      BY <2>1, <2>3, TaskAssumption
    <3> QED BY <2>1, <2>2, <3>1, <3>2 DEF TaskTypeOK
  <2>5. AssignmentsWithinOverlap
    BY <2>3, <2>4, Parts, FS_EmptySet DEF AssignmentsWithinOverlap
  <2>6. TaskIsDated /\ \A a \in Asks : AskSane(ask[a]) /\ AskKnowsAlone(ask[a])
    BY <2>1, <2>2, QuietSane DEF TaskIsDated
  <2> QED BY <2>1, <2>2, <2>4, <2>5, <2>6 DEF TaskIInv
<1>2. TaskIInv /\ [TaskNext]_taskVars => TaskIInv'
  <2> SUFFICES ASSUME TaskIInv, [TaskNext]_taskVars PROVE TaskIInv'
    OBVIOUS
  <2>1. ASSUME NEW a \in Asks, AskTasks(a) PROVE TaskIInv'
    BY <2>1, AskTasksKeeps
  <2>2. ASSUME NEW a \in Asks, TaskStep(a) PROVE TaskIInv'
    BY <2>2, WriteTaskKeeps, WriteTaskStatusKeeps, DropTaskKeeps, DeactivateKeeps,
       AssignKeeps, InsertTeamKeeps, WriteTeamMemberKeeps, WriteRemovalKeeps, BreakKeeps
       DEF TaskStep
  <2>3. ASSUME NEW status \in Statuses, NEW deadline \in Deadlines, CreateTask(status, deadline)
        PROVE  TaskIInv'
    BY <2>3, CreateTaskKeeps
  <2>4. CASE DeadlinePasses
    BY <2>4, DeadlinePassesKeeps
  <2>5. ASSUME NEW p \in People, LeaveOrganization(p) PROVE TaskIInv'
    BY <2>5, LeaveKeeps
  <2>6. CASE UNCHANGED taskVars
    <3>1. /\ task' = task /\ assignments' = assignments /\ team' = team /\ people' = people
          /\ ask' = ask /\ finished' = finished /\ taskAlone' = taskAlone
      BY <2>6 DEF taskVars
    <3>2. Active' = Active /\ (There' <=> There) /\ AboutToAssign' = AboutToAssign
          /\ (HasTeam' <=> HasTeam)
      BY <3>1 DEF Active, There, AboutToAssign, HasTeam
    <3>3. TaskTypeOK' /\ AssignmentsWithinOverlap'
      BY <3>1, <3>2 DEF TaskIInv, TaskTypeOK, AssignmentsWithinOverlap
    <3>4. taskAlone => TaskIsDated' /\ \A b \in Asks : AskKnowsAlone(ask[b])'
      BY <3>1, <3>2 DEF TaskIInv, TaskIsDated, AskKnowsAlone
    <3> QED BY <3>1, <3>3, <3>4 DEF TaskIInv
  <2> QED BY <2>1, <2>2, <2>3, <2>4, <2>5, <2>6 DEF TaskNext
<1> QED BY <1>1, <1>2, PTL DEF TaskSpec

\* However requests that assign overlap and wherever they stop, a task has at most as many
\* active assignments as there were requests at once, and one if there was just one
\* (assignTask, assignTaskToTeam).
THEOREM AssignmentsAreFew == TaskSpec => []AssignmentsWithinOverlap
<1>1. TaskIInv => AssignmentsWithinOverlap
  BY DEF TaskIInv
<1> QED BY <1>1, TaskInvariant, PTL

-----------------------------------------------------------------------------
\* Both services together.

LEMMA ServicesKept == MCSpec => FeatSpec /\ TaskSpec
<1>1. MCInit => FeatInit /\ TaskInit
  BY DEF MCInit
<1>2. [MCNext]_<<featVars, taskVars, part>> => [FeatNext]_featVars /\ [TaskNext]_taskVars
  BY DEF MCNext
<1> QED BY <1>1, <1>2, PTL DEF MCSpec, FeatSpec, TaskSpec

\* The rows of both services, and what they refer to: a link, a feature that is there; an
\* assignment and a team, members of the organization.
THEOREM TrackTypeCorrect == MCSpec => []TrackTypeOK
<1>1. TaskIInv => TaskTypeOK
  BY DEF TaskIInv
<1>2. FeatTypeOK /\ TaskTypeOK => TrackTypeOK
  BY DEF TrackTypeOK
<1> QED BY <1>1, <1>2, FeatTypes, FeatInvariant, TaskInvariant, ServicesKept, PTL

\* While requests do not overlap, what is completed has its date, by four handlers that
\* set it by four rules (updateFeature, updateFeatureStatus, updateTask, updateTaskStatus).
THEOREM CompletedIsDatedAlone == MCSpec => []DatesFollowStatus
<1>1. FeatIInv => FeatureIsDated
  BY DEF FeatIInv, FeatureIsDated
<1>2. TaskIInv => TaskIsDated
  BY DEF TaskIInv, TaskIsDated
<1>3. FeatureIsDated /\ TaskIsDated => DatesFollowStatus
  BY DEF DatesFollowStatus
<1> QED BY <1>1, <1>2, <1>3, FeatInvariant, TaskInvariant, ServicesKept, PTL
=============================================================================
