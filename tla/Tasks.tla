------------------------------- MODULE Tasks --------------------------------
(***************************************************************************)
(* A task, its assignments and its team: TasksService                      *)
(* (src/modules/tasks/tasks.service.ts), and what the removal of a member   *)
(* from the organization does to them (the keys of prisma/schema.prisma).   *)
(*                                                                         *)
(* A request is a record of what it was asked, of what it has read and of  *)
(* where it is; it stops at every await that reads or writes a row.  Who   *)
(* completed the task is left out: it follows the caller of one update.    *)
(***************************************************************************)
EXTENDS Naturals, Sequences, FiniteSets

CONSTANTS
  People,         \* members of the organization at the start
  NoPerson,
  TheTeam,        \* the task's team, as one whom the task may be assigned to
  Asks,           \* requests that can be in progress at once
  MaxAssignments  \* bound on the TaskAssignment rows ever made

ASSUME TaskAssumption ==
  /\ NoPerson \notin People /\ TheTeam \notin People \cup {NoPerson}
  /\ IsFiniteSet(Asks) /\ MaxAssignments \in Nat

VARIABLES
  task,         \* the Task row
  assignments,  \* its TaskAssignment rows: whom, and isActive
  team,         \* its TaskTeam row: of each person, whether he was ever a member,
                \* is one, or has been removed
  people,       \* the members of the organization
  ask,          \* where each request is
  finished,     \* whether an update has moved the task to DONE (history)
  taskAlone     \* TRUE: in this behaviour one request at a time is made

taskVars == <<task, assignments, team, people, ask, finished, taskAlone>>

NoTask == [status |-> "absent"]
DeletedTask == [status |-> "deleted"]
Statuses == {"open", "DONE"}   \* every status but DONE is open
AsItWas == "as it was"         \* an update that does not name the field
Deadlines == {"none", "ahead", "past"}
Task(status, deadline) ==
  [status |-> status, completionDeadline |-> deadline,
   isOverdue |-> (deadline = "past" /\ status # "DONE"), completedAt |-> FALSE]
NoTeam == [p \in People |-> "no team"]
Quiet == [op |-> "none"]

TaskInit ==
  /\ task = NoTask /\ assignments = <<>> /\ team = NoTeam /\ people = People
  /\ ask = [a \in Asks |-> Quiet] /\ finished = FALSE
  /\ taskAlone \in BOOLEAN

There == task \notin {NoTask, DeletedTask}
HasTeam == team # NoTeam
Active == {k \in DOMAIN assignments : assignments[k].isActive}

Open(a, record) ==
  /\ ask[a] = Quiet
  /\ taskAlone => \A other \in Asks : ask[other] = Quiet
  /\ ask' = [ask EXCEPT ![a] = record]
GoOn(a, op) == ask' = [ask EXCEPT ![a].op = op]
Close(a) == ask' = [ask EXCEPT ![a] = Quiet]

\* A request fails at some await, or the process dies.
Break(a) ==
  /\ ask[a] # Quiet
  /\ Close(a)
  /\ UNCHANGED <<task, assignments, team, people, finished, taskAlone>>

-----------------------------------------------------------------------------
\* The task.

CreateTask(status, deadline) ==
  /\ task = NoTask
  /\ task' = Task(status, deadline)
  /\ finished' = FALSE
  /\ UNCHANGED <<assignments, team, people, ask, taskAlone>>

\* Time passes the deadline.
DeadlinePasses ==
  /\ There /\ task.completionDeadline = "ahead"
  /\ task' = [task EXCEPT !.completionDeadline = "past"]
  /\ UNCHANGED <<assignments, team, people, ask, finished, taskAlone>>

\* isOverdue, from the deadline and the status there will be.
Overdue(deadline, status) == deadline = "past" /\ status # "DONE"
Given(new, old) == IF new = AsItWas THEN old ELSE new

\* updateTask reads the row and works out isOverdue.
UpdateTask(a, status, deadline) ==
  /\ There
  /\ Open(a, [op |-> "update", status |-> status, deadline |-> deadline, was |-> task.status,
              overdue |-> Overdue(Given(deadline, task.completionDeadline),
                                  Given(status, task.status))])
  /\ UNCHANGED <<task, assignments, team, people, finished, taskAlone>>

\* completedAt, "Reset if moving away from DONE".
CompletedAfter(was, status, date) ==
  (status = "DONE" /\ was # "DONE") \/ (date /\ ~(status = "open" /\ was = "DONE"))

WriteTask(a) ==
  LET u == ask[a] IN
  /\ u.op = "update" /\ There
  /\ task' = [task EXCEPT
       !.status = Given(u.status, @), !.completionDeadline = Given(u.deadline, @),
       !.isOverdue = u.overdue, !.completedAt = CompletedAfter(u.was, u.status, @)]
  /\ finished' = (Given(u.status, task.status) = "DONE" /\ (finished \/ task.status # "DONE"))
  /\ Close(a)
  /\ UNCHANGED <<assignments, team, people, taskAlone>>

UpdateTaskStatus(a, status) ==
  /\ There
  /\ Open(a, [op |-> "status", status |-> status, was |-> task.status,
              overdue |-> Overdue(task.completionDeadline, status)])
  /\ UNCHANGED <<task, assignments, team, people, finished, taskAlone>>

WriteTaskStatus(a) ==
  LET u == ask[a] IN
  /\ u.op = "status" /\ There
  /\ task' = [task EXCEPT
       !.status = u.status, !.isOverdue = u.overdue,
       !.completedAt = (u.status = "DONE") \/ (@ /\ u.was = "DONE")]
  /\ finished' = (u.status = "DONE")
  /\ Close(a)
  /\ UNCHANGED <<assignments, team, people, taskAlone>>

DeleteTask(a) ==
  /\ There
  /\ Open(a, [op |-> "delete"])
  /\ UNCHANGED <<task, assignments, team, people, finished, taskAlone>>

\* Assignments and team go with the task.
DropTask(a) ==
  /\ ask[a].op = "delete"
  /\ task' = DeletedTask /\ assignments' = <<>> /\ team' = NoTeam /\ finished' = FALSE
  /\ Close(a)
  /\ UNCHANGED <<people, taskAlone>>

-----------------------------------------------------------------------------
\* Assignments.

\* assignTask, and assignTaskToTeam when whom is TheTeam ('Task team not found').
AssignTask(a, whom) ==
  /\ There
  /\ whom = TheTeam => HasTeam
  /\ Open(a, [op |-> "deactivate", whom |-> whom])
  /\ UNCHANGED <<task, assignments, team, people, finished, taskAlone>>

\* A mutant of Deactivate: it looks for assignments of the same assignee.
DeactivateOwn(a) ==
  /\ ask[a].op = "deactivate"
  /\ assignments' = [k \in DOMAIN assignments |-> [assignments[k] EXCEPT
       !.isActive = @ /\ assignments[k].whom # ask[a].whom]]
  /\ GoOn(a, "assign")
  /\ UNCHANGED <<task, team, people, finished, taskAlone>>

\* "Deactivate existing assignments"
Deactivate(a) ==
  /\ ask[a].op = "deactivate"
  /\ assignments' = [k \in DOMAIN assignments |-> [assignments[k] EXCEPT !.isActive = FALSE]]
  /\ GoOn(a, "assign")
  /\ UNCHANGED <<task, team, people, finished, taskAlone>>

\* "Create new assignment"
Assign(a) ==
  LET whom == ask[a].whom IN
  /\ ask[a].op = "assign"
  /\ There /\ Len(assignments) < MaxAssignments
  /\ whom \in people \/ (whom = TheTeam /\ HasTeam)
  /\ assignments' = Append(assignments, [whom |-> whom, isActive |-> TRUE])
  /\ Close(a)
  /\ UNCHANGED <<task, team, people, finished, taskAlone>>

-----------------------------------------------------------------------------
\* The team.

\* 'Task team already exists for this task'
CreateTaskTeam(a, members) ==
  /\ There /\ ~HasTeam
  /\ Open(a, [op |-> "create team", members |-> members])
  /\ UNCHANGED <<task, assignments, team, people, finished, taskAlone>>

\* The task has one team at most (unique key), of people who are there.
InsertTeam(a) ==
  LET members == ask[a].members IN
  /\ ask[a].op = "create team"
  /\ There /\ ~HasTeam /\ members \subseteq people
  /\ team' = [p \in People |-> IF p \in members THEN "member" ELSE "never"]
  /\ Close(a)
  /\ UNCHANGED <<task, assignments, people, finished, taskAlone>>

\* 'Member already in team'
AddTaskTeamMember(a, p) ==
  /\ HasTeam /\ team[p] # "member"
  /\ Open(a, [op |-> "add", person |-> p, was |-> team[p]])
  /\ UNCHANGED <<task, assignments, team, people, finished, taskAlone>>

\* "Re-add removed member", or a new row, which must be the first.
WriteTeamMember(a) ==
  LET p == ask[a].person IN
  /\ ask[a].op = "add"
  /\ HasTeam /\ p \in people
  /\ IF ask[a].was = "removed" THEN team[p] # "never" ELSE team[p] = "never"
  /\ team' = [team EXCEPT ![p] = "member"]
  /\ Close(a)
  /\ UNCHANGED <<task, assignments, people, finished, taskAlone>>

\* 'Team member not found or already removed'
RemoveTaskTeamMember(a, p) ==
  /\ team[p] = "member"
  /\ Open(a, [op |-> "remove", person |-> p])
  /\ UNCHANGED <<task, assignments, team, people, finished, taskAlone>>

WriteRemoval(a) ==
  LET p == ask[a].person IN
  /\ ask[a].op = "remove"
  /\ HasTeam /\ team[p] # "never"
  /\ team' = [team EXCEPT ![p] = "removed"]
  /\ Close(a)
  /\ UNCHANGED <<task, assignments, people, finished, taskAlone>>

\* The organization removes a member: assignments keep their rows without him (SetNull),
\* his row in the team goes (Cascade).
LeaveOrganization(p) ==
  /\ p \in people
  /\ people' = people \ {p}
  /\ assignments' = [k \in DOMAIN assignments |->
       [assignments[k] EXCEPT !.whom = IF @ = p THEN NoPerson ELSE @]]
  /\ team' = IF HasTeam THEN [team EXCEPT ![p] = "never"] ELSE team
  /\ UNCHANGED <<task, ask, finished, taskAlone>>

-----------------------------------------------------------------------------

AskTasks(a) ==
  \/ \E status \in Statuses \cup {AsItWas}, deadline \in {"ahead", "past", AsItWas} :
       UpdateTask(a, status, deadline)
  \/ \E status \in Statuses : UpdateTaskStatus(a, status)
  \/ DeleteTask(a)
  \/ \E whom \in People \cup {TheTeam} : AssignTask(a, whom)
  \/ \E members \in SUBSET People : CreateTaskTeam(a, members)
  \/ \E p \in People : AddTaskTeamMember(a, p) \/ RemoveTaskTeamMember(a, p)

TaskStep(a) ==
  \/ WriteTask(a) \/ WriteTaskStatus(a) \/ DropTask(a) \/ Deactivate(a) \/ Assign(a)
  \/ InsertTeam(a) \/ WriteTeamMember(a) \/ WriteRemoval(a) \/ Break(a)

TaskNext ==
  \/ \E a \in Asks : AskTasks(a) \/ TaskStep(a)
  \/ \E status \in Statuses, deadline \in Deadlines : CreateTask(status, deadline)
  \/ DeadlinePasses
  \/ \E p \in People : LeaveOrganization(p)

TaskSpec == TaskInit /\ [][TaskNext]_taskVars

-----------------------------------------------------------------------------
\* Properties.

TaskRow == [status : Statuses, completionDeadline : Deadlines, isOverdue : BOOLEAN,
            completedAt : BOOLEAN]

\* What refers to a member or to a team refers to one that is there.
TaskTypeOK ==
  /\ task \in TaskRow \cup {NoTask, DeletedTask}
  /\ assignments \in Seq([whom : people \cup {NoPerson, TheTeam}, isActive : BOOLEAN])
  /\ Len(assignments) <= MaxAssignments
  /\ team = NoTeam \/ team \in [People -> {"never", "member", "removed"}]
  /\ \A p \in People \ people : team[p] \in {"no team", "never"}
  /\ (\E k \in DOMAIN assignments : assignments[k].whom = TheTeam) => HasTeam
  /\ ~There => assignments = <<>> /\ ~HasTeam
  /\ DOMAIN ask = Asks /\ finished \in BOOLEAN /\ people \subseteq People

\* The requests that have ended the assignments of the task and are going to make one.
AboutToAssign == {a \in Asks : ask[a].op = "assign"}

\* A task has one active assignment for each request that was assigning it when the
\* last one was ended, at most: one, where requests do not overlap.  The next
\* assignment ends them all, whether the ones before it came to an end or not.
AssignmentsWithinOverlap ==
  /\ Cardinality(Active) + Cardinality(AboutToAssign) <= Cardinality(Asks)
  /\ taskAlone => /\ Cardinality(Active) <= 1
                  /\ Active \subseteq {Len(assignments)}

\* While requests do not overlap, a task that an update has moved to DONE has a
\* completedAt, and isOverdue is never left at a task that is DONE or whose deadline is
\* not over.
TaskIsDated ==
  taskAlone /\ There =>
    /\ finished => task.completedAt
    /\ task.isOverdue => task.status # "DONE" /\ task.completionDeadline = "past"

-----------------------------------------------------------------------------
\* What the source says of itself and the code does not keep.

\* "Reset if moving away from DONE" (tasks.service.ts:105): updateTask does,
\* updateTaskStatus keeps the date.
OpenIsUndated == There /\ task.status = "open" => ~task.completedAt

\* completedAt is "When task was marked as completed" (schema.prisma:595): createTask
\* stores a task that is DONE from the start without it.
DoneIsDated == There /\ task.status = "DONE" => task.completedAt

\* "isActive=true requires assigneeId OR teamId" (schema.prisma:622): the removal of a
\* member clears his id and leaves the row active.
ActiveHasAssignee == \A k \in Active : assignments[k].whom # NoPerson

\* isOverdue is "Calculated: completionDeadline < now && status != DONE"
\* (schema.prisma:599), from a read that may be out of date when it is written.
OverdueIsOpen == There /\ task.isOverdue => task.status # "DONE"
=============================================================================
