------------------------------ MODULE Features ------------------------------
(***************************************************************************)
(* The features of one project: FeaturesService                            *)
(* (src/modules/features/features.service.ts), which people call, and       *)
(* processRawEvent with detectFeatureFromRawEvent                          *)
(* (src/modules/llm/llm.service.ts), which finds features in the events     *)
(* that were ingested.                                                     *)
(*                                                                         *)
(* A call is a record of what it was asked, of what it has read and of     *)
(* where it is; it stops at every await that reads or writes a row.  The   *)
(* name of a feature is unique in its project (a key of the schema).  Who  *)
(* completed a feature is left out: it follows the caller of one update.   *)
(***************************************************************************)
EXTENDS Naturals, Sequences, FiniteSets

CONSTANTS
  Names,        \* names of features
  NoName,       \* no name: what an update or the model may give
  Events,       \* raw events of the project
  Members,      \* members of the organization
  NoMember,
  AuthorOf,     \* RawEvent.authorMemberId
  Calls,        \* calls that can be in progress at once
  MaxFeatures,  \* bound on the features ever made
  MaxOutputs    \* bound on the times an event is processed

ASSUME FeatureAssumption ==
  /\ NoName \notin Names /\ NoMember \notin Members
  /\ AuthorOf \in [Events -> Members \cup {NoMember}]
  /\ MaxFeatures \in Nat /\ MaxOutputs \in Nat

VARIABLES
  features,    \* the Feature rows, in the order they were made
  links,       \* the FeatureEvent rows: feature and event
  outputs,     \* how many LlmOutput rows each event has
  processed,   \* RawEvent.processedByLLM
  call,        \* where each call is
  origin,      \* the event a feature was detected in (history)
  featAlone    \* TRUE: in this behaviour one call at a time is made

featVars == <<features, links, outputs, processed, call, origin, featAlone>>
eventVars == <<outputs, processed>>

NoEvent == "no event"
Completion == {"COMPLETED", "open"}  \* the status: every other one is open
AsItIs == "as it is"                 \* an update that does not name the status

Feature(name, member) ==
  [name |-> name, status |-> "open", completionDate |-> FALSE, autoDetectedBy |-> member]
Deleted == [name |-> NoName, status |-> "open", completionDate |-> FALSE,
            autoDetectedBy |-> NoMember]
Resting == [op |-> "none"]

FeatInit ==
  /\ features = <<>> /\ links = {} /\ origin = <<>>
  /\ outputs = [e \in Events |-> 0] /\ processed = [e \in Events |-> FALSE]
  /\ call = [c \in Calls |-> Resting]
  /\ featAlone \in BOOLEAN

Live == {f \in DOMAIN features : features[f] # Deleted}
Named(name) == {f \in Live : features[f].name = name}

Start(c, record) ==
  /\ call[c] = Resting
  /\ featAlone => \A other \in Calls : call[other] = Resting
  /\ call' = [call EXCEPT ![c] = record]
Continue(c, record) == call' = [call EXCEPT ![c] = record]
Finish(c) == call' = [call EXCEPT ![c] = Resting]

\* A mutant of Insert: the name is not a key.
InsertTwice(name, member, event) ==
  /\ Len(features) < MaxFeatures
  /\ features' = Append(features, Feature(name, member))
  /\ origin' = Append(origin, event)

\* A new row: its name must be free.  If it is not, the write throws.
Insert(name, member, event) ==
  /\ Named(name) = {} /\ Len(features) < MaxFeatures
  /\ features' = Append(features, Feature(name, member))
  /\ origin' = Append(origin, event)

\* A call fails at some await, or the process dies.  (The detection of features
\* swallows its errors: it ends the call the same way.)
GiveUp(c) ==
  /\ call[c] # Resting
  /\ Finish(c)
  /\ UNCHANGED <<features, links, eventVars, origin, featAlone>>

-----------------------------------------------------------------------------
\* What people ask for.

CreateFeature(c, name) ==
  /\ Named(name) = {}
  /\ Start(c, [op |-> "create", name |-> name])
  /\ UNCHANGED <<features, links, eventVars, origin, featAlone>>

InsertFeature(c) ==
  /\ call[c].op = "create"
  /\ Insert(call[c].name, NoMember, NoEvent)
  /\ Finish(c)
  /\ UNCHANGED <<links, eventVars, featAlone>>

\* The status is read here, with the row.
UpdateFeature(c, f, name, status) ==
  /\ f \in Live
  /\ Start(c, [op |-> "check name", feature |-> f, name |-> name, status |-> status,
               was |-> features[f].status])
  /\ UNCHANGED <<features, links, eventVars, origin, featAlone>>

\* "Check name uniqueness if name is being updated"
CheckName(c) ==
  /\ call[c].op = "check name"
  /\ Named(call[c].name) \subseteq {call[c].feature}
  /\ Continue(c, [call[c] EXCEPT !.op = "update"])
  /\ UNCHANGED <<features, links, eventVars, origin, featAlone>>

\* A mutant of DateAfter: the date is not taken away again.
DateOnlySet(was, status, date) == date \/ (status = "COMPLETED" /\ was # "COMPLETED")

\* completionDate after an update that gives this status to a feature that had, when
\* it was read, that one.
DateAfter(was, status, date) ==
  \/ status = "COMPLETED" /\ was # "COMPLETED"
  \/ date /\ ~(was = "COMPLETED" /\ status = "open")

\* The row with what an update names.
Updated(row, u) ==
  [row EXCEPT !.name = IF u.name = NoName THEN @ ELSE u.name,
              !.status = IF u.status = AsItIs THEN @ ELSE u.status,
              !.completionDate = DateAfter(u.was, u.status, @)]

WriteUpdate(c) ==
  LET u == call[c] IN
  /\ u.op = "update"
  /\ u.feature \in Live /\ Named(u.name) \subseteq {u.feature}
  /\ features' = [features EXCEPT ![u.feature] = Updated(@, u)]
  /\ Finish(c)
  /\ UNCHANGED <<links, eventVars, origin, featAlone>>

UpdateFeatureStatus(c, f, status) ==
  /\ f \in Live
  /\ Start(c, [op |-> "status", feature |-> f, status |-> status])
  /\ UNCHANGED <<features, links, eventVars, origin, featAlone>>

WriteStatus(c) ==
  LET u == call[c] IN
  /\ u.op = "status"
  /\ u.feature \in Live
  /\ features' = [features EXCEPT ![u.feature] = [@ EXCEPT
       !.status = u.status,
       !.completionDate = (u.status = "COMPLETED")]]
  /\ Finish(c)
  /\ UNCHANGED <<links, eventVars, origin, featAlone>>

DeleteFeature(c, f) ==
  /\ f \in Live
  /\ Start(c, [op |-> "delete", feature |-> f])
  /\ UNCHANGED <<features, links, eventVars, origin, featAlone>>

\* Its links go with it.
DropFeature(c) ==
  /\ call[c].op = "delete"
  /\ features' = [features EXCEPT ![call[c].feature] = Deleted]
  /\ links' = {link \in links : link[1] # call[c].feature}
  /\ Finish(c)
  /\ UNCHANGED <<eventVars, origin, featAlone>>

LinkRawEventToFeature(c, f, e) ==
  /\ f \in Live
  /\ Start(c, [op |-> "link", feature |-> f, event |-> e,
               detector |-> features[f].autoDetectedBy])
  /\ UNCHANGED <<features, links, eventVars, origin, featAlone>>

\* featureEvent.upsert: the feature must still be there.
Upsert(f, e) == f \in Live /\ links' = links \cup {<<f, e>>}

UpsertLink(c) ==
  LET u == call[c] IN
  /\ u.op = "link"
  /\ Upsert(u.feature, u.event)
  /\ IF u.detector = NoMember /\ AuthorOf[u.event] # NoMember
     THEN Continue(c, [op |-> "detector", feature |-> u.feature, member |-> AuthorOf[u.event]])
     ELSE Finish(c)
  /\ UNCHANGED <<features, eventVars, origin, featAlone>>

SetDetector(c) ==
  /\ call[c].op = "detector"
  /\ call[c].feature \in Live
  /\ features' = [features EXCEPT ![call[c].feature].autoDetectedBy = call[c].member]
  /\ Finish(c)
  /\ UNCHANGED <<links, eventVars, origin, featAlone>>

-----------------------------------------------------------------------------
\* processRawEvent.

ProcessRawEvent(c, e) ==
  /\ outputs[e] < MaxOutputs
  /\ Start(c, [op |-> "summarise", event |-> e])
  /\ UNCHANGED <<features, links, eventVars, origin, featAlone>>

\* The model has answered: llmOutput.create.
Summarise(c) ==
  /\ call[c].op = "summarise"
  /\ outputs[call[c].event] < MaxOutputs
  /\ outputs' = [outputs EXCEPT ![call[c].event] = @ + 1]
  /\ Continue(c, [call[c] EXCEPT !.op = "mark"])
  /\ UNCHANGED <<features, links, processed, origin, featAlone>>

\* A mutant of MarkProcessed: features are detected first.
MarkLater(c) ==
  /\ call[c].op = "mark"
  /\ Continue(c, [call[c] EXCEPT !.op = "detect"])
  /\ UNCHANGED <<features, links, eventVars, origin, featAlone>>

\* After the embedding, whose errors stay inside it.  Only a message or an issue with
\* one of three intents goes on to the detection.
MarkProcessed(c) ==
  /\ call[c].op = "mark"
  /\ processed' = [processed EXCEPT ![call[c].event] = TRUE]
  /\ Finish(c) \/ Continue(c, [call[c] EXCEPT !.op = "detect"])
  /\ UNCHANGED <<features, links, outputs, origin, featAlone>>

\* The model names a feature and says whether it is new, or names none.
FindFeature(c, name, isNew) ==
  LET u == call[c] IN
  /\ u.op = "detect"
  /\ \/ \E f \in Named(name) : Continue(c, [op |-> "link found", event |-> u.event, feature |-> f])
     \/ /\ Named(name) = {} /\ name # NoName /\ isNew
        /\ Continue(c, [op |-> "create found", event |-> u.event, name |-> name])
     \/ /\ Named(name) = {} /\ (name = NoName \/ ~isNew)
        /\ Finish(c)
  /\ UNCHANGED <<features, links, eventVars, origin, featAlone>>

CreateFound(c) ==
  LET u == call[c] IN
  /\ u.op = "create found"
  /\ Insert(u.name, AuthorOf[u.event], u.event)
  /\ Continue(c, [op |-> "link found", event |-> u.event, feature |-> Len(features) + 1])
  /\ UNCHANGED <<links, eventVars, featAlone>>

LinkFound(c) ==
  /\ call[c].op = "link found"
  /\ Upsert(call[c].feature, call[c].event)
  /\ Finish(c)
  /\ UNCHANGED <<features, eventVars, origin, featAlone>>

-----------------------------------------------------------------------------

AskFeatures(c) ==
  \/ \E name \in Names : CreateFeature(c, name)
  \/ \E f \in 1 .. MaxFeatures :
       \/ DeleteFeature(c, f)
       \/ \E e \in Events : LinkRawEventToFeature(c, f, e)
       \/ \E status \in Completion : UpdateFeatureStatus(c, f, status)
       \/ \E name \in Names \cup {NoName}, status \in Completion \cup {AsItIs} :
            UpdateFeature(c, f, name, status)
  \/ \E e \in Events : ProcessRawEvent(c, e)

FeatureStep(c) ==
  \/ InsertFeature(c) \/ CheckName(c) \/ WriteUpdate(c) \/ WriteStatus(c) \/ DropFeature(c)
  \/ UpsertLink(c) \/ SetDetector(c)
  \/ Summarise(c) \/ MarkProcessed(c) \/ CreateFound(c) \/ LinkFound(c)
  \/ \E name \in Names \cup {NoName}, isNew \in BOOLEAN : FindFeature(c, name, isNew)
  \/ GiveUp(c)

FeatNext == \E c \in Calls : AskFeatures(c) \/ FeatureStep(c)

FeatSpec == FeatInit /\ [][FeatNext]_featVars

-----------------------------------------------------------------------------
\* Properties.

FeatureRow == [name : Names \cup {NoName}, status : Completion, completionDate : BOOLEAN,
               autoDetectedBy : Members \cup {NoMember}]

\* Two features never have one name, and a link refers to a feature that is there.
FeatTypeOK ==
  /\ features \in Seq(FeatureRow) /\ Len(features) <= MaxFeatures
  /\ \A name \in Names : Cardinality(Named(name)) <= 1
  /\ links \subseteq Live \X Events
  /\ outputs \in [Events -> 0 .. MaxOutputs] /\ processed \in [Events -> BOOLEAN]
  /\ origin \in Seq(Events \cup {NoEvent}) /\ Len(origin) = Len(features)
  /\ DOMAIN call = Calls

\* autoDetectedByMemberId always names the author of an event the feature has: one it
\* is linked with, or the one it was detected in, which then has its summary and is
\* marked as processed.  Whatever overlaps, whatever is renamed or deleted meanwhile,
\* and wherever a call stops.
DetectedByAuthor ==
  \A f \in Live : features[f].autoDetectedBy # NoMember =>
    \E e \in Events :
      /\ AuthorOf[e] = features[f].autoDetectedBy
      /\ \/ <<f, e>> \in links
         \/ origin[f] = e /\ processed[e] /\ outputs[e] > 0

\* While calls do not overlap, a feature has a completionDate just when it is COMPLETED,
\* although two handlers set it by different rules.
FeatureIsDated ==
  featAlone => \A f \in Live : features[f].completionDate <=> features[f].status = "COMPLETED"

-----------------------------------------------------------------------------
\* What the source says of itself and the code does not keep.

\* completionDate is "When marked as completed" (schema.prisma:992): updateFeature takes the
\* old status from a read that may be out of date.
CompletedIsDated ==
  \A f \in Live : features[f].completionDate <=> features[f].status = "COMPLETED"

\* "if this is the first event" (features.service.ts:226), "from first
\* FeatureEvent.rawEvent.authorMemberId" (schema.prisma:989): a later event with an
\* author is taken too, when the first had none.
FirstEventDetects ==
  [][\A f \in Live :
       features'[f] # Deleted /\ features'[f].autoDetectedBy # features[f].autoDetectedBy =>
         Cardinality({e \in Events : <<f, e>> \in links}) <= 1]_featVars
=============================================================================
