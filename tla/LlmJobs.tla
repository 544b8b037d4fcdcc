------------------------------ MODULE LlmJobs -------------------------------
(***************************************************************************)
(* One background LLM job (a chat question or a project report): the       *)
(* requests that create and retry it (src/modules/llm/llm.controller.ts),   *)
(* the worker that runs it (src/services/queue/processors/llm.processor.ts) *)
(* and its row in the Job table, which clients poll and stream.            *)
(*                                                                         *)
(* BullMQ (not under src/) is modelled from how llm.queue.ts uses it: an    *)
(* entry is attempted up to three times with a backoff between attempts,   *)
(* after each failed one the worker emits "failed", whose handler onFailed *)
(* nobody awaits; a process that dies leaves its active entries to be      *)
(* taken again.  The API and the worker are one process.                   *)
(***************************************************************************)
EXTENDS Naturals, FiniteSets

CONSTANTS
  Kind,         \* "chat" or "project_report"
  Requests,     \* create and retry requests that can be in progress at once
  MaxEntries,   \* bound on the queue entries of the job, retries included:
                \* no more retries are asked for than can be queued
  MaxCrashes    \* bound on the crashes of the process

ASSUME JobAssumption ==
  /\ Kind \in {"chat", "project_report"}
  /\ MaxEntries \in Nat \ {0} /\ MaxCrashes \in Nat

VARIABLES
  job,      \* the Job row
  queue,    \* the BullMQ entries
  at,       \* where the worker is with each entry
  hooks,    \* the calls of onFailed in progress
  request,  \* where each request is
  answers,  \* the results stored: assistant messages or reports
  crashes,  \* crashes so far
  course    \* what this behaviour meets beside crashes, chosen at the start

jobVars == <<job, queue, at, hooks, request, answers, crashes, course>>

Entries == 1 .. MaxEntries
QueueAttempts == 3  \* attempts: 3 of LLMQueue.enqueue
MaxAttempts == 3    \* maxAttempts of onFailed

JobStatus == {"PENDING", "RUNNING", "COMPLETED", "FAILED", "RETRY"}
NoJob == [status |-> "absent", attempts |-> 0]
NoEntry == [state |-> "absent", mode |-> "none", made |-> 0]

\* calm: nothing but crashes.  retried: users retry the job.  overtaken: onFailed
\* may still run when the next attempt begins.  In the last two the database and
\* Redis may fail an update of the row, which the worker only logs, or an enqueue.
Courses == {"calm", "retried", "overtaken"}

JobInit ==
  /\ job = NoJob
  /\ queue = [q \in Entries |-> NoEntry]
  /\ at = [q \in Entries |-> "none"]
  /\ hooks = {}
  /\ request = [r \in Requests |-> "idle"]
  /\ answers = 0 /\ crashes = 0
  /\ course \in Courses

Live(q) == queue[q].state \in {"waiting", "active", "delayed"}

-----------------------------------------------------------------------------
\* Requests.

\* sendMessage and generateReport: the row is created before the entry.
Submit(r) ==
  /\ request[r] = "idle"
  /\ job = NoJob
  /\ job' = [status |-> "PENDING", attempts |-> 0]
  /\ request' = [request EXCEPT ![r] = "enqueue"]
  /\ UNCHANGED <<queue, at, hooks, answers, crashes, course>>

\* retryJob: 'Job cannot be retried', or it goes on with what it has read.
AskRetry(r) ==
  /\ course = "retried"
  /\ request[r] = "idle"
  /\ job.status \in {"FAILED", "RETRY"}
  /\ Cardinality({p \in Requests : request[p] # "idle"})
       < Cardinality({q \in Entries : queue[q] = NoEntry})
  /\ request' = [request EXCEPT ![r] = "reset"]
  /\ UNCHANGED <<job, queue, at, hooks, answers, crashes, course>>

\* Reset job status
Reset(r) ==
  /\ request[r] = "reset"
  /\ job' = [status |-> "PENDING", attempts |-> 0]
  /\ request' = [request EXCEPT ![r] = "requeue"]
  /\ UNCHANGED <<queue, at, hooks, answers, crashes, course>>

\* A retry takes the mode from the row's payload, which neither kind of job
\* stores, and 'chat' in its place.
ModeOf(r) == IF request[r] = "requeue" THEN "chat" ELSE Kind

Enqueue(r) ==
  /\ request[r] \in {"enqueue", "requeue"}
  /\ \E q \in Entries :
       /\ queue[q] = NoEntry
       /\ \A p \in Entries : p < q => queue[p] # NoEntry
       /\ queue' = [queue EXCEPT ![q] = [state |-> "waiting", mode |-> ModeOf(r), made |-> 0]]
  /\ request' = [request EXCEPT ![r] = "idle"]
  /\ UNCHANGED <<job, at, hooks, answers, crashes, course>>

\* The enqueue throws: the row stays PENDING without an entry.
LoseRequest(r) ==
  /\ course # "calm"
  /\ request[r] \in {"enqueue", "requeue"}
  /\ request' = [request EXCEPT ![r] = "idle"]
  /\ UNCHANGED <<job, queue, at, hooks, answers, crashes, course>>

-----------------------------------------------------------------------------
\* The worker: LLMProcessor.process.

Take(q) ==
  /\ queue[q].state = "waiting"
  /\ queue' = [queue EXCEPT ![q].state = "active"]
  /\ at' = [at EXCEPT ![q] = "start"]
  /\ UNCHANGED <<job, hooks, request, answers, crashes, course>>

\* updateJobStatus: the row is updated whatever it says, or the error is logged.
UpdateJobStatus(status, failed) ==
  \/ job' = [status |-> status, attempts |-> job.attempts + failed]
  \/ course # "calm" /\ UNCHANGED job

Goto(q, next) == at' = [at EXCEPT ![q] = next]

MarkRunning(q) ==
  /\ at[q] = "start"
  /\ UpdateJobStatus("RUNNING", 0)
  /\ Goto(q, "work")
  /\ UNCHANGED <<queue, hooks, request, answers, crashes, course>>

\* LlmService.chat or generateProjectReport stores a result.  A chat entry of a
\* report job has no conversation: 'Chat mode requires conversationId, ...'.
Answer(q) ==
  /\ at[q] = "work"
  /\ queue[q].mode = Kind
  /\ answers' = answers + 1
  /\ Goto(q, "answered")
  /\ UNCHANGED <<job, queue, hooks, request, crashes, course>>

\* A mutant of Throw: the error of the model call is caught on the way.
ThrowSwallowed(q) ==
  /\ at[q] \in {"work", "answered"}
  /\ Goto(q, "answered")
  /\ UNCHANGED <<job, queue, hooks, request, answers, crashes, course>>

\* Anything before or after the result is stored may throw.
Throw(q) ==
  /\ at[q] \in {"work", "answered"}
  /\ Goto(q, "catch")
  /\ UNCHANGED <<job, queue, hooks, request, answers, crashes, course>>

\* A mutant of MarkCompleted: process returns before the update.
ReturnUnmarked(q) ==
  /\ at[q] = "answered"
  /\ Goto(q, "return")
  /\ UNCHANGED <<job, queue, hooks, request, answers, crashes, course>>

MarkCompleted(q) ==
  /\ at[q] = "answered"
  /\ UpdateJobStatus("COMPLETED", 0)
  /\ Goto(q, "return")
  /\ UNCHANGED <<queue, hooks, request, answers, crashes, course>>

Complete(q) ==
  /\ at[q] = "return"
  /\ queue' = [queue EXCEPT ![q].state = "done"]
  /\ Goto(q, "none")
  /\ UNCHANGED <<job, hooks, request, answers, crashes, course>>

\* A mutant of MarkFailed: the attempt is not counted.
MarkFailedUncounted(q) ==
  /\ at[q] = "catch"
  /\ UpdateJobStatus("FAILED", 0)
  /\ Goto(q, "throw")
  /\ UNCHANGED <<queue, hooks, request, answers, crashes, course>>

\* Update job status to FAILED (increment attempts for failures)
MarkFailed(q) ==
  /\ at[q] = "catch"
  /\ UpdateJobStatus("FAILED", 1)
  /\ Goto(q, "throw")
  /\ UNCHANGED <<queue, hooks, request, answers, crashes, course>>

\* BullMQ counts the attempt, delays the next one or gives the entry up, and
\* emits "failed".
FailAttempt(q) ==
  /\ at[q] = "throw"
  /\ LET made == queue[q].made + 1 IN
       /\ queue' = [queue EXCEPT ![q] =
                      [state |-> IF made < QueueAttempts THEN "delayed" ELSE "dead",
                       mode |-> @.mode, made |-> made]]
       /\ hooks' = hooks \cup {[entry |-> q, made |-> made, step |-> "read", seen |-> 0]}
  /\ Goto(q, "none")
  /\ UNCHANGED <<job, request, answers, crashes, course>>

Backoff(q) ==
  /\ queue[q].state = "delayed"
  /\ course # "overtaken" => \A k \in hooks : k.entry # q
  /\ queue' = [queue EXCEPT ![q].state = "waiting"]
  /\ UNCHANGED <<job, at, hooks, request, answers, crashes, course>>

-----------------------------------------------------------------------------
\* onFailed

HookRead(k) ==
  /\ k.step = "read"
  /\ hooks' = (hooks \ {k}) \cup {[k EXCEPT !.step = "write", !.seen = job.attempts]}
  /\ UNCHANGED <<job, queue, at, request, answers, crashes, course>>

\* Mark for retry, or mark as failed after max attempts.
HookWrite(k) ==
  /\ k.step = "write"
  /\ job' = IF k.seen < MaxAttempts
            THEN [status |-> "RETRY", attempts |-> job.attempts + 1]
            ELSE [job EXCEPT !.status = "FAILED"]
  /\ hooks' = hooks \ {k}
  /\ UNCHANGED <<queue, at, request, answers, crashes, course>>

\* The database fails it.
HookLost(k) ==
  /\ course # "calm"
  /\ hooks' = hooks \ {k}
  /\ UNCHANGED <<job, queue, at, request, answers, crashes, course>>

\* The process dies with its requests and hooks; its active entries stall, and
\* the next process takes them again without counting an attempt.
Crash ==
  /\ crashes < MaxCrashes
  /\ crashes' = crashes + 1
  /\ hooks' = {}
  /\ request' = [r \in Requests |-> "idle"]
  /\ queue' = [q \in Entries |-> IF queue[q].state = "active"
                                 THEN [queue[q] EXCEPT !.state = "waiting"] ELSE queue[q]]
  /\ at' = [q \in Entries |-> "none"]
  /\ UNCHANGED <<job, answers, course>>

-----------------------------------------------------------------------------

RequestStep(r) == Submit(r) \/ AskRetry(r) \/ Reset(r) \/ Enqueue(r) \/ LoseRequest(r)

WorkerStep(q) ==
  \/ Take(q) \/ MarkRunning(q) \/ Answer(q) \/ Throw(q) \/ MarkCompleted(q)
  \/ Complete(q) \/ MarkFailed(q) \/ FailAttempt(q) \/ Backoff(q)

HookStep(k) == HookRead(k) \/ HookWrite(k) \/ HookLost(k)

JobNext ==
  \/ \E r \in Requests : RequestStep(r)
  \/ \E q \in Entries : WorkerStep(q)
  \/ \E k \in hooks : HookStep(k)
  \/ Crash

JobSpec == JobInit /\ [][JobNext]_jobVars

\* BullMQ keeps offering entries and the backoff ends, every await of the worker
\* or of onFailed is answered or fails, a started request runs on.
JobFairSpec ==
  /\ JobSpec
  /\ \A q \in Entries : WF_jobVars(WorkerStep(q))
  /\ WF_jobVars(\E k \in hooks : HookStep(k))
  /\ \A r \in Requests : WF_jobVars(Reset(r) \/ Enqueue(r))

-----------------------------------------------------------------------------

JobTypeOK ==
  /\ job \in {NoJob} \cup [status : JobStatus, attempts : Nat]
  /\ queue \in [Entries -> {NoEntry} \cup
       [state : {"waiting", "active", "delayed", "done", "dead"},
        mode : {"chat", "project_report"}, made : 0 .. QueueAttempts]]
  /\ at \in [Entries -> {"none", "start", "work", "answered", "return", "catch", "throw"}]
  /\ hooks \subseteq [entry : Entries, made : 1 .. QueueAttempts,
                      step : {"read", "write"}, seen : Nat]
  /\ request \in [Requests -> {"idle", "enqueue", "reset", "requeue"}]
  /\ answers \in Nat /\ crashes \in 0 .. MaxCrashes /\ course \in Courses

\* A client that is told COMPLETED finds a result, whatever crashes, retries,
\* late handlers and lost updates there were.
CompletedIsAnswered == job.status = "COMPLETED" => answers > 0

\* Nothing more is going to happen to the job by itself.
Quiet ==
  /\ \A q \in Entries : ~Live(q)
  /\ hooks = {}
  /\ \A r \in Requests : request[r] = "idle"

\* Once the queue is done with a job in a calm behaviour, the row says how it
\* ended, although four different places wrote to it: it is neither stuck as
\* running or to be retried, nor completed after three failures.
StatusIsOutcome ==
  course = "calm" /\ Quiet /\ queue[1] # NoEntry =>
    job.status = IF queue[1].state = "done" THEN "COMPLETED" ELSE "FAILED"

\* In a calm behaviour a job that is queued comes to an end, and its row says so
\* for good, also when the process crashes on the way.
JobEnds == course = "calm" /\ queue[1] # NoEntry ~> [](job.status \in {"COMPLETED", "FAILED"})

-----------------------------------------------------------------------------
\* What the source says of itself and the code does not keep.

\* "Stop streaming if job is completed or failed": a status that ends the stream
\* is left only by a request to retry.
EndedIsFinal ==
  [][job.status \in {"COMPLETED", "FAILED"} /\ job'.status # job.status
       => \E r \in Requests : Reset(r)]_jobVars

\* "Mark as failed after max attempts": when onFailed gives a job up, its entry
\* has no attempt left.
GivenUpIsOver ==
  [][\A k \in hooks : HookWrite(k) /\ k.seen >= MaxAttempts => ~Live(k.entry)]_jobVars

\* 'Job cannot be retried': a retry is accepted only for a job that no entry of
\* the queue is still going to run, so one entry at a time is live.
OneLiveEntry == Cardinality({q \in Entries : Live(q)}) <= 1

\* "Re-queue the job": a retry queues the same job again.
RetryKeepsMode == \A q \in Entries : queue[q] # NoEntry => queue[q].mode = Kind
=============================================================================
