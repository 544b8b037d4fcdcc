-------------------------- MODULE BackgroundProofs --------------------------
(***************************************************************************)
(* What is proved of the work nobody waits for: the background LLM jobs,   *)
(* for either kind of job and any number of requests, queue entries and    *)
(* crashes (LlmJobs), and the webhook deliveries and history ingests, for  *)
(* every provider and any number of workers, integrations, projects,       *)
(* authors, things and failures and any page size (Ingestion).             *)
(*                                                                         *)
(* LlmJobs: JobIInv is inductive; for the courses without a retry, a lost  *)
(* write or an overtaken onFailed, so is CalmCourse.                       *)
(*                                                                         *)
(* Ingestion: every step is one of twelve things to each worker, or leaves *)
(* it where it is while the listing changes (Acts, Stays); so each part of *)
(* the invariant is proved of one worker at a time, whoever stepped.       *)
(***************************************************************************)
EXTENDS LlmJobs, Ingestion, FiniteSetTheorems, SequenceTheorems, TLAPS

-----------------------------------------------------------------------------
\* The background LLM jobs.

\* An entry that the worker is at is active, and one that is not over has an attempt
\* left: BullMQ counts no more of them than it was told to make.
AttemptsAreLeft ==
  \A q \in Entries :
    /\ at[q] # "none" => queue[q].state = "active"
    /\ Live(q) => queue[q].made < QueueAttempts

\* Behind an attempt that goes on to COMPLETED there is an answer.
AnswersAreStored == \A q \in Entries : at[q] \in {"answered", "return"} => answers > 0

\* The inductive invariant.
JobIInv == JobTypeOK /\ AttemptsAreLeft /\ AnswersAreStored /\ CompletedIsAnswered

\* Nothing is there at first.
LEMMA JobInitHolds == ASSUME JobInit PROVE JobIInv
<1>1. JobTypeOK
  BY JobAssumption DEF JobInit, JobTypeOK, NoJob, NoEntry, Courses, JobStatus, QueueAttempts
<1>2. AttemptsAreLeft /\ AnswersAreStored /\ CompletedIsAnswered
  BY DEF JobInit, AttemptsAreLeft, AnswersAreStored, CompletedIsAnswered, Live, NoEntry, NoJob
<1> QED BY <1>1, <1>2 DEF JobIInv

\* A request writes PENDING into the row, and a new entry has all its attempts left.
LEMMA RequestKeeps ==
  ASSUME JobIInv, NEW r \in Requests, RequestStep(r)
  PROVE  JobIInv'
<1> USE DEF JobIInv
<1>1. CASE Submit(r)
  BY <1>1 DEF Submit, JobTypeOK, AttemptsAreLeft, AnswersAreStored, CompletedIsAnswered, Live, JobStatus
<1>2. CASE AskRetry(r)
  BY <1>2 DEF AskRetry, JobTypeOK, AttemptsAreLeft, AnswersAreStored, CompletedIsAnswered, Live
<1>3. CASE Reset(r)
  BY <1>3 DEF Reset, JobTypeOK, AttemptsAreLeft, AnswersAreStored, CompletedIsAnswered, Live, JobStatus
<1>4. CASE Enqueue(r)
  <2>1. PICK q \in Entries :
          /\ queue[q] = NoEntry
          /\ queue' = [queue EXCEPT ![q] = [state |-> "waiting", mode |-> ModeOf(r), made |-> 0]]
    BY <1>4 DEF Enqueue
  <2>2. ModeOf(r) \in {"chat", "project_report"}
    BY JobAssumption DEF ModeOf
  <2>3. JobTypeOK'
    BY <1>4, <2>1, <2>2 DEF Enqueue, JobTypeOK, QueueAttempts
  <2>4. AttemptsAreLeft'
    BY <1>4, <2>1 DEF Enqueue, JobTypeOK, AttemptsAreLeft, Live, NoEntry, QueueAttempts
  <2>5. AnswersAreStored' /\ CompletedIsAnswered'
    BY <1>4 DEF Enqueue, AnswersAreStored, CompletedIsAnswered
  <2> QED BY <2>3, <2>4, <2>5
<1>5. CASE LoseRequest(r)
  BY <1>5 DEF LoseRequest, JobTypeOK, AttemptsAreLeft, AnswersAreStored, CompletedIsAnswered, Live
<1> QED BY <1>1, <1>2, <1>3, <1>4, <1>5 DEF RequestStep

\* updateJobStatus gives the row one of its statuses.
LEMMA UpdateTypes ==
  ASSUME JobTypeOK, NEW s \in JobStatus, NEW n \in Nat, UpdateJobStatus(s, n)
  PROVE  job' \in {NoJob} \cup [status : JobStatus, attempts : Nat] /\ (job' = job \/ job'.status = s)
BY DEF JobTypeOK, UpdateJobStatus, NoJob

\* The worker marks a job COMPLETED only after an attempt that stored its answer, and
\* starts no attempt that BullMQ does not have.
LEMMA WorkerKeeps ==
  ASSUME JobIInv, NEW q \in Entries, WorkerStep(q)
  PROVE  JobIInv'
<1> USE DEF JobIInv
<1>1. CASE Take(q)
  <2>1. JobTypeOK'
    BY <1>1 DEF Take, JobTypeOK, NoEntry
  <2>2. AttemptsAreLeft'
    BY <1>1 DEF Take, JobTypeOK, AttemptsAreLeft, Live, NoEntry
  <2> QED BY <1>1, <2>1, <2>2 DEF Take, JobTypeOK, AnswersAreStored, CompletedIsAnswered
<1>2. CASE MarkRunning(q)
  <2>1. job' \in {NoJob} \cup [status : JobStatus, attempts : Nat] /\ (job' = job \/ job'.status = "RUNNING")
    BY <1>2, UpdateTypes DEF MarkRunning, JobStatus
  <2> QED BY <1>2, <2>1 DEF MarkRunning, Goto, JobTypeOK, AttemptsAreLeft, AnswersAreStored,
                            CompletedIsAnswered, Live
<1>3. CASE Answer(q)
  BY <1>3 DEF Answer, Goto, JobTypeOK, AttemptsAreLeft, AnswersAreStored, CompletedIsAnswered, Live
<1>4. CASE Throw(q)
  BY <1>4 DEF Throw, Goto, JobTypeOK, AttemptsAreLeft, AnswersAreStored, CompletedIsAnswered, Live
<1>5. CASE MarkCompleted(q)
  <2>1. job' \in {NoJob} \cup [status : JobStatus, attempts : Nat]
    BY <1>5, UpdateTypes DEF MarkCompleted, JobStatus
  <2> QED BY <1>5, <2>1 DEF MarkCompleted, Goto, JobTypeOK, AttemptsAreLeft, AnswersAreStored,
                            CompletedIsAnswered, Live
<1>6. CASE Complete(q)
  <2>1. queue[q].state = "active"
    BY <1>6 DEF Complete, AttemptsAreLeft
  <2>2. JobTypeOK'
    BY <1>6, <2>1 DEF Complete, Goto, JobTypeOK, NoEntry
  <2>3. AttemptsAreLeft'
    BY <1>6, <2>1 DEF Complete, Goto, JobTypeOK, AttemptsAreLeft, Live, NoEntry
  <2> QED BY <1>6, <2>2, <2>3 DEF Complete, Goto, JobTypeOK, AnswersAreStored, CompletedIsAnswered
<1>7. CASE MarkFailed(q)
  <2>1. job' \in {NoJob} \cup [status : JobStatus, attempts : Nat] /\ (job' = job \/ job'.status = "FAILED")
    BY <1>7, UpdateTypes DEF MarkFailed, JobStatus
  <2> QED BY <1>7, <2>1 DEF MarkFailed, Goto, JobTypeOK, AttemptsAreLeft, AnswersAreStored,
                            CompletedIsAnswered, Live
<1>8. CASE FailAttempt(q)
  <2> DEFINE made == queue[q].made + 1
             state == IF made < QueueAttempts THEN "delayed" ELSE "dead"
             hook == [entry |-> q, made |-> made, step |-> "read", seen |-> 0]
  <2>1. queue[q].state = "active" /\ queue[q].made < QueueAttempts
    BY <1>8 DEF FailAttempt, AttemptsAreLeft, Live
  <2>2. queue[q] \in [state : {"waiting", "active", "delayed", "done", "dead"},
                      mode : {"chat", "project_report"}, made : 0 .. QueueAttempts]
    BY <2>1 DEF JobTypeOK, NoEntry
  <2>3. made \in 1 .. QueueAttempts /\ state \in {"delayed", "dead"}
    BY <2>1, <2>2 DEF QueueAttempts
  <2>4. /\ queue' = [queue EXCEPT ![q] = [state |-> state, mode |-> queue[q].mode, made |-> made]]
        /\ hooks' = hooks \cup {hook}
        /\ at' = [at EXCEPT ![q] = "none"]
        /\ UNCHANGED <<job, request, answers, crashes, course>>
    BY <1>8, <2>2 DEF FailAttempt, Goto, JobTypeOK
  <2> HIDE DEF made, state
  <2>5. JobTypeOK'
    <3>1. [state |-> state, mode |-> queue[q].mode, made |-> made]
            \in [state : {"waiting", "active", "delayed", "done", "dead"},
                mode : {"chat", "project_report"}, made : 0 .. QueueAttempts]
      BY <2>2, <2>3 DEF QueueAttempts
    <3>2. hook \in [entry : Entries, made : 1 .. QueueAttempts, step : {"read", "write"}, seen : Nat]
      BY <2>3
    <3>3. hooks' \subseteq [entry : Entries, made : 1 .. QueueAttempts,
                            step : {"read", "write"}, seen : Nat]
      BY <2>4, <3>2 DEF JobTypeOK
    <3> QED BY <2>4, <3>1, <3>3 DEF JobTypeOK
  <2>6. AttemptsAreLeft'
    BY <2>2, <2>3, <2>4 DEF JobTypeOK, AttemptsAreLeft, Live, QueueAttempts, made, state
  <2> QED BY <2>4, <2>5, <2>6 DEF JobTypeOK, AnswersAreStored, CompletedIsAnswered
<1>9. CASE Backoff(q)
  <2>1. JobTypeOK'
    BY <1>9 DEF Backoff, JobTypeOK, NoEntry
  <2>2. AttemptsAreLeft'
    BY <1>9 DEF Backoff, JobTypeOK, AttemptsAreLeft, Live, NoEntry
  <2> QED BY <1>9, <2>1, <2>2 DEF Backoff, AnswersAreStored, CompletedIsAnswered
<1> QED BY <1>1, <1>2, <1>3, <1>4, <1>5, <1>6, <1>7, <1>8, <1>9 DEF WorkerStep

\* onFailed writes RETRY or FAILED, whenever it comes to it.
LEMMA HookKeeps ==
  ASSUME JobIInv, NEW k \in hooks, HookStep(k)
  PROVE  JobIInv'
<1> USE DEF JobIInv
<1>1. k \in [entry : Entries, made : 1 .. QueueAttempts, step : {"read", "write"}, seen : Nat]
  BY DEF JobTypeOK
<1>2. job.attempts \in Nat
  BY DEF JobTypeOK, NoJob
<1>3. CASE HookRead(k)
  <2>1. [k EXCEPT !.step = "write", !.seen = job.attempts]
          \in [entry : Entries, made : 1 .. QueueAttempts, step : {"read", "write"}, seen : Nat]
    BY <1>1, <1>2
  <2> QED BY <1>3, <2>1 DEF HookRead, JobTypeOK, AttemptsAreLeft, AnswersAreStored,
                            CompletedIsAnswered, Live
<1>4. CASE HookWrite(k)
  <2>1. job' \in [status : JobStatus, attempts : Nat] /\ job'.status # "COMPLETED"
    BY <1>2, <1>4 DEF HookWrite, JobTypeOK, NoJob, JobStatus
  <2> QED BY <1>4, <2>1 DEF HookWrite, JobTypeOK, AttemptsAreLeft, AnswersAreStored,
                            CompletedIsAnswered, Live
<1>5. CASE HookLost(k)
  BY <1>5 DEF HookLost, JobTypeOK, AttemptsAreLeft, AnswersAreStored, CompletedIsAnswered, Live
<1> QED BY <1>3, <1>4, <1>5 DEF HookStep

\* A crash leaves what is stored, and hands stalled entries back with their attempts.
LEMMA CrashKeeps == ASSUME JobIInv, Crash PROVE JobIInv'
<1> USE DEF JobIInv
<1>1. JobTypeOK'
  BY JobAssumption DEF Crash, JobTypeOK, NoEntry
<1>2. AttemptsAreLeft'
  BY DEF Crash, JobTypeOK, AttemptsAreLeft, Live, NoEntry
<1> QED BY <1>1, <1>2 DEF Crash, AnswersAreStored, CompletedIsAnswered

\* Every step keeps the invariant.
LEMMA JobNextKeeps == ASSUME JobIInv, [JobNext]_jobVars PROVE JobIInv'
<1>1. CASE UNCHANGED jobVars
  BY <1>1 DEF jobVars, JobIInv, JobTypeOK, AttemptsAreLeft, AnswersAreStored,
              CompletedIsAnswered, Live
<1> QED BY <1>1, RequestKeeps, WorkerKeeps, HookKeeps, CrashKeeps DEF JobNext

\* The invariant holds in every behaviour of the job.
THEOREM JobInvariant == JobSpec => []JobIInv
<1>1. JobInit => JobIInv
  BY JobInitHolds
<1>2. JobIInv /\ [JobNext]_jobVars => JobIInv'
  BY JobNextKeeps
<1> QED BY <1>1, <1>2, PTL DEF JobSpec

\* The row, the queue entries and the calls in progress keep their types; no entry is
\* attempted more often than the queue was told.
THEOREM JobTypeCorrect == JobSpec => []JobTypeOK
<1>1. JobIInv => JobTypeOK
  BY DEF JobIInv
<1> QED BY <1>1, JobInvariant, PTL

\* A client that is told COMPLETED finds a result: whatever is retried, overtaken, lost
\* or crashes, and however many entries run the job at once.
THEOREM CompletedMeansAnswered == JobSpec => []CompletedIsAnswered
<1>1. JobIInv => CompletedIsAnswered
  BY DEF JobIInv
<1> QED BY <1>1, JobInvariant, PTL
-----------------------------------------------------------------------------
\* A calm behaviour: crashes, but no retry by a user, no lost update, and every call
\* of onFailed over before the next attempt.

\* One request is ever there, before the entry; one that dies leaves no entry behind.
CalmRequests ==
  /\ \A r \in Requests : request[r] \in {"idle", "enqueue"}
  /\ \A r, s \in Requests : request[r] = "enqueue" /\ request[s] = "enqueue" => r = s
  /\ (job = NoJob \/ \E r \in Requests : request[r] = "enqueue") => queue[1] = NoEntry /\ hooks = {}
  /\ job = NoJob => \A r \in Requests : request[r] = "idle"

\* There is one entry, of the job's own mode.
CalmQueue ==
  /\ \A q \in Entries : queue[q] # NoEntry => q = 1
  /\ queue[1] # NoEntry => queue[1].mode = Kind

\* The row counts each attempt that BullMQ counts, a crash may make it count more; it
\* says what the worker wrote last, until onFailed writes.
CalmRow ==
  /\ job.attempts >= queue[1].made + (IF at[1] = "throw" THEN 1 ELSE 0)
  /\ at[1] = "throw" \/ queue[1].state = "dead" => job.status = "FAILED"
  /\ at[1] = "return" \/ queue[1].state = "done" => job.status = "COMPLETED"
  /\ queue[1].state = "dead" => queue[1].made = QueueAttempts

\* One call of onFailed, of an entry that nobody is working on, which writes with the
\* attempts of the row as they still are.
CalmHooks ==
  /\ \A k, l \in hooks : k = l
  /\ \A k \in hooks : /\ k.entry = 1 /\ queue[1].state \in {"delayed", "dead"}
                      /\ k.step = "write" => k.seen = job.attempts

CalmParts == CalmRequests /\ CalmQueue /\ CalmRow /\ CalmHooks
CalmCourse == course = "calm" => CalmParts

\* What the steps below use of the types.
LEMMA CalmTypes ==
  ASSUME JobIInv
  PROVE  /\ 1 \in Entries /\ job.attempts \in Nat /\ queue[1].made \in Nat
         /\ at[1] # "none" => queue[1].state = "active"
         /\ queue[1].state = "absent" <=> queue[1] = NoEntry
         /\ queue[1].state \in {"absent", "waiting", "active", "delayed", "done", "dead"}
         /\ queue[1].state = "active" => queue[1].made < QueueAttempts
<1>1. 1 \in Entries
  BY JobAssumption DEF Entries
<1> QED BY <1>1 DEF JobIInv, JobTypeOK, AttemptsAreLeft, Live, NoJob, NoEntry, QueueAttempts

\* Nothing is there at first.
LEMMA CalmInitHolds == ASSUME JobInit PROVE CalmCourse
<1>1. 1 \in Entries
  BY JobAssumption DEF Entries
<1> QED BY <1>1 DEF JobInit, CalmCourse, CalmParts, CalmRequests, CalmQueue, CalmRow, CalmHooks, NoJob, NoEntry

\* The one request creates the row, and its one entry.
LEMMA CalmRequestKeeps ==
  ASSUME JobIInv, course = "calm", CalmParts, NEW r \in Requests, RequestStep(r)
  PROVE  CalmParts'
<1> USE DEF CalmParts
<1>1. /\ 1 \in Entries /\ queue[1].made \in Nat
      /\ at[1] # "none" => queue[1].state = "active"
      /\ request \in [Requests -> {"idle", "enqueue", "reset", "requeue"}]
  BY CalmTypes DEF JobIInv, JobTypeOK
<1>2. CASE Submit(r)
  <2>1. /\ job = NoJob /\ job' = [status |-> "PENDING", attempts |-> 0]
        /\ request' = [request EXCEPT ![r] = "enqueue"]
        /\ UNCHANGED <<queue, at, hooks>>
    BY <1>2 DEF Submit
  <2>2. queue[1] = NoEntry /\ hooks = {} /\ \A s \in Requests : request[s] = "idle"
    BY <2>1 DEF CalmRequests
  <2>3. job' # NoJob
    BY <2>1 DEF NoJob
  <2>4. CalmRequests'
    BY <1>1, <2>1, <2>2, <2>3 DEF CalmRequests
  <2>5. CalmRow' /\ CalmHooks'
    BY <1>1, <2>1, <2>2 DEF CalmRow, CalmHooks, NoEntry
  <2> QED BY <2>1, <2>4, <2>5 DEF CalmQueue
<1>3. CASE Enqueue(r)
  <2>1. /\ request[r] = "enqueue" /\ request' = [request EXCEPT ![r] = "idle"]
        /\ UNCHANGED <<job, at, hooks>>
    BY <1>3 DEF Enqueue, CalmRequests
  <2>2. queue[1] = NoEntry /\ hooks = {} /\ job # NoJob
    BY <2>1 DEF CalmRequests
  <2>3. queue' = [queue EXCEPT ![1] = [state |-> "waiting", mode |-> Kind, made |-> 0]]
    <3>1. PICK q \in Entries :
            /\ queue[q] = NoEntry
            /\ \A p \in Entries : p < q => queue[p] # NoEntry
            /\ queue' = [queue EXCEPT ![q] = [state |-> "waiting", mode |-> ModeOf(r), made |-> 0]]
      BY <1>3 DEF Enqueue
    <3>2. q = 1
      BY <1>1, <2>2, <3>1 DEF Entries
    <3> QED BY <2>1, <3>1, <3>2 DEF ModeOf
  <2>4. queue'[1] = [state |-> "waiting", mode |-> Kind, made |-> 0]
    BY <1>1, <2>3 DEF JobIInv, JobTypeOK
  <2>5. CalmRequests'
    BY <1>1, <2>1, <2>2 DEF CalmRequests
  <2>6. CalmQueue'
    BY <1>1, <2>3, <2>4 DEF CalmQueue
  <2>7. CalmRow' /\ CalmHooks'
    BY <1>1, CalmTypes, <2>1, <2>2, <2>4 DEF CalmRow, CalmHooks, NoEntry
  <2> QED BY <2>5, <2>6, <2>7
<1>4. ~AskRetry(r) /\ ~Reset(r) /\ ~LoseRequest(r)
  BY DEF AskRetry, Reset, LoseRequest, CalmRequests
<1> QED BY <1>2, <1>3, <1>4 DEF RequestStep

\* The worker has the one entry, while no call of onFailed is in progress.
LEMMA CalmWorkerKeeps ==
  ASSUME JobIInv, course = "calm", CalmParts, NEW q \in Entries, WorkerStep(q)
  PROVE  CalmParts'
<1> USE DEF CalmParts
<1>1. /\ 1 \in Entries /\ job.attempts \in Nat /\ queue[1].made \in Nat
      /\ at[1] # "none" => queue[1].state = "active"
      /\ queue[1].state = "absent" <=> queue[1] = NoEntry
      /\ queue[1].state = "active" => queue[1].made < QueueAttempts
      /\ queue \in [Entries -> {NoEntry} \cup
           [state : {"waiting", "active", "delayed", "done", "dead"},
            mode : {"chat", "project_report"}, made : 0 .. QueueAttempts]]
      /\ at \in [Entries -> {"none", "start", "work", "answered", "return", "catch", "throw"}]
  BY CalmTypes DEF JobIInv, JobTypeOK
<1>2. q = 1 /\ queue[1] # NoEntry
  <2>1. queue[q].state # "absent"
    BY DEF WorkerStep, Take, MarkRunning, Answer, Throw, MarkCompleted, Complete, MarkFailed,
           FailAttempt, Backoff, JobIInv, AttemptsAreLeft
  <2> QED BY <2>1 DEF CalmQueue, NoEntry
<1>3. /\ queue[1] \in [state : {"waiting", "active", "delayed", "done", "dead"},
                       mode : {"chat", "project_report"}, made : 0 .. QueueAttempts]
      /\ job # NoJob /\ \A r \in Requests : request[r] = "idle"
  BY <1>1, <1>2 DEF CalmRequests
<1>4. (UNCHANGED request /\ job' # NoJob) => CalmRequests'
  BY <1>3 DEF CalmRequests
<1>5. (\A p \in Entries : p # 1 => queue'[p] = queue[p]) /\ queue'[1].mode = queue[1].mode => CalmQueue'
  BY <1>1, <1>2 DEF CalmQueue
<1>6. CASE Take(q)
  <2>1. /\ queue[1].state = "waiting" /\ queue' = [queue EXCEPT ![1].state = "active"]
        /\ at' = [at EXCEPT ![1] = "start"] /\ UNCHANGED <<job, hooks, request>>
    BY <1>2, <1>6 DEF Take
  <2>2. /\ queue'[1] = [queue[1] EXCEPT !.state = "active"] /\ at'[1] = "start"
        /\ \A p \in Entries : p # 1 => queue'[p] = queue[p]
    BY <1>1, <2>1
  <2>3. CalmRow' /\ CalmHooks'
    BY <1>1, <1>3, <2>1, <2>2 DEF CalmRow, CalmHooks
  <2> QED BY <1>3, <1>4, <1>5, <2>1, <2>2, <2>3
<1>7. ASSUME at[1] \notin {"throw", "none"},
             \/ UNCHANGED job
             \/ \E s \in JobStatus, n \in {0, 1} : job' = [status |-> s, attempts |-> job.attempts + n],
             NEW next, next # "none", Goto(q, next), UNCHANGED <<queue, hooks, request>>,
             next = "throw" => job' = [status |-> "FAILED", attempts |-> job.attempts + 1],
             next = "return" => job'.status = "COMPLETED"
      PROVE  CalmParts'
  <2>1. at'[1] = next
    BY <1>1, <1>2, <1>7 DEF Goto
  <2>2. job' # NoJob /\ job'.attempts \in Nat /\ job'.attempts >= job.attempts
    BY <1>1, <1>3, <1>7 DEF NoJob, JobStatus
  <2>3. queue[1].state = "active" /\ hooks = {}
    BY <1>1, <1>7 DEF CalmHooks
  <2>4. CalmRow'
    BY <1>1, <1>3, <1>7, <2>1, <2>2, <2>3 DEF CalmRow
  <2>5. CalmHooks'
    BY <1>7, <2>3 DEF CalmHooks
  <2> QED BY <1>3, <1>4, <1>5, <1>7, <2>2, <2>4, <2>5
<1>8. CASE MarkRunning(q)
  <2>1. job' = [status |-> "RUNNING", attempts |-> job.attempts + 0]
    BY <1>8 DEF MarkRunning, UpdateJobStatus
  <2>2. "RUNNING" \in JobStatus
    BY DEF JobStatus
  <2> QED BY <1>2, <1>7, <1>8, <2>1, <2>2 DEF MarkRunning
<1>9. CASE Answer(q) \/ Throw(q)
  <2>1. PICK next \in {"answered", "catch"} : Goto(q, next)
    BY <1>9 DEF Answer, Throw
  <2>2. at[1] \notin {"throw", "none"} /\ UNCHANGED <<job, queue, hooks, request>>
    BY <1>2, <1>9 DEF Answer, Throw
  <2> QED BY <1>7, <2>1, <2>2
<1>10. CASE MarkCompleted(q)
  <2>1. job' = [status |-> "COMPLETED", attempts |-> job.attempts + 0]
    BY <1>10 DEF MarkCompleted, UpdateJobStatus
  <2>2. "COMPLETED" \in JobStatus /\ job'.status = "COMPLETED"
    BY <2>1 DEF JobStatus
  <2> QED BY <1>2, <1>7, <1>10, <2>1, <2>2 DEF MarkCompleted
<1>11. CASE MarkFailed(q)
  <2>1. job' = [status |-> "FAILED", attempts |-> job.attempts + 1]
    BY <1>11 DEF MarkFailed, UpdateJobStatus
  <2>2. "FAILED" \in JobStatus
    BY DEF JobStatus
  <2> QED BY <1>2, <1>7, <1>11, <2>1, <2>2 DEF MarkFailed
<1>12. CASE Complete(q)
  <2>1. /\ at[1] = "return" /\ queue' = [queue EXCEPT ![1].state = "done"]
        /\ at' = [at EXCEPT ![1] = "none"] /\ UNCHANGED <<job, hooks, request>>
    BY <1>2, <1>12 DEF Complete, Goto
  <2>2. /\ queue'[1] = [queue[1] EXCEPT !.state = "done"] /\ at'[1] = "none"
        /\ \A p \in Entries : p # 1 => queue'[p] = queue[p]
    BY <1>1, <2>1
  <2>3. CalmRow' /\ CalmHooks'
    BY <1>1, <1>3, <2>1, <2>2 DEF CalmRow, CalmHooks
  <2> QED BY <1>3, <1>4, <1>5, <2>1, <2>2, <2>3
<1>13. CASE FailAttempt(q)
  <2> DEFINE made == queue[1].made + 1
             state == IF made < QueueAttempts THEN "delayed" ELSE "dead"
             hook == [entry |-> 1, made |-> made, step |-> "read", seen |-> 0]
  <2>1. /\ at[1] = "throw" /\ queue[1].state = "active" /\ hooks = {}
        /\ job.status = "FAILED" /\ job.attempts >= made
    BY <1>1, <1>2, <1>13 DEF FailAttempt, CalmRow, CalmHooks
  <2>2. /\ queue'[1] = [state |-> state, mode |-> queue[1].mode, made |-> made] /\ at'[1] = "none"
        /\ \A p \in Entries : p # 1 => queue'[p] = queue[p]
        /\ hooks' = {hook} /\ UNCHANGED <<job, request>>
    BY <1>1, <1>2, <1>13, <2>1 DEF FailAttempt, Goto
  <2>3. made \in Nat /\ made <= QueueAttempts
    BY <1>1, <2>1 DEF QueueAttempts
  <2>4. CalmRow'
    <3>1. queue'[1].made = made /\ queue'[1].state = state
      BY <2>2
    <3> QED BY <2>1, <2>2, <2>3, <3>1 DEF CalmRow, QueueAttempts
  <2>5. CalmHooks'
    BY <2>2 DEF CalmHooks
  <2>6. queue'[1].mode = queue[1].mode
    BY <2>2
  <2> HIDE DEF made, state, hook
  <2> QED BY <1>3, <1>4, <1>5, <2>2, <2>4, <2>5, <2>6
<1>14. CASE Backoff(q)
  <2>1. /\ queue[1].state = "delayed" /\ queue' = [queue EXCEPT ![1].state = "waiting"]
        /\ \A k \in hooks : k.entry # 1
        /\ UNCHANGED <<at, job, hooks, request>>
    BY <1>2, <1>14 DEF Backoff
  <2>2. /\ queue'[1] = [queue[1] EXCEPT !.state = "waiting"]
        /\ \A p \in Entries : p # 1 => queue'[p] = queue[p]
    BY <1>1, <2>1
  <2>3. hooks = {} /\ at[1] = "none"
    BY <1>1, <2>1 DEF CalmHooks
  <2>4. CalmRow' /\ CalmHooks'
    BY <1>1, <1>3, <2>1, <2>2, <2>3 DEF CalmRow, CalmHooks
  <2> QED BY <1>3, <1>4, <1>5, <2>1, <2>2, <2>4
<1> QED BY <1>6, <1>8, <1>9, <1>10, <1>11, <1>12, <1>13, <1>14 DEF WorkerStep

\* onFailed writes RETRY only over the failure of an attempt that is not the last: the
\* row has then counted fewer attempts than the queue makes.
LEMMA CalmHookKeeps ==
  ASSUME JobIInv, course = "calm", CalmParts, NEW k \in hooks, HookStep(k)
  PROVE  CalmParts'
<1> USE DEF CalmParts
<1>1. /\ 1 \in Entries /\ job.attempts \in Nat /\ queue[1].made \in Nat
      /\ at[1] # "none" => queue[1].state = "active"
      /\ queue[1].state \in {"delayed", "dead"} /\ hooks = {k}
      /\ k \in [entry : Entries, made : 1 .. QueueAttempts, step : {"read", "write"}, seen : Nat]
  BY CalmTypes DEF JobIInv, JobTypeOK, CalmHooks
<1>2. at[1] = "none" /\ k.entry = 1 /\ job # NoJob /\ queue[1] # NoEntry
  BY <1>1 DEF CalmHooks, CalmRequests, NoEntry
<1>3. \A r \in Requests : request[r] = "idle"
  BY <1>2 DEF CalmRequests
<1>4. (UNCHANGED request /\ job' # NoJob) => CalmRequests'
  BY <1>3 DEF CalmRequests
<1>5. CASE HookRead(k)
  <2> DEFINE new == [k EXCEPT !.step = "write", !.seen = job.attempts]
  <2>1. hooks' = {new} /\ UNCHANGED <<job, queue, at, request>>
    BY <1>1, <1>5 DEF HookRead
  <2>2. new.entry = 1 /\ new.seen = job.attempts
    BY <1>1, <1>2
  <2> HIDE DEF new
  <2>3. CalmHooks'
    BY <1>1, <2>1, <2>2 DEF CalmHooks
  <2> QED BY <1>2, <1>4, <2>1, <2>3 DEF CalmQueue, CalmRow
<1>6. CASE HookWrite(k)
  <2>1. /\ hooks' = {} /\ UNCHANGED <<queue, at, request>> /\ k.seen = job.attempts
        /\ job' = IF k.seen < MaxAttempts
                  THEN [status |-> "RETRY", attempts |-> job.attempts + 1]
                  ELSE [job EXCEPT !.status = "FAILED"]
    BY <1>1, <1>6 DEF HookWrite, CalmHooks
  <2>2. job \in [status : JobStatus, attempts : Nat]
    BY <1>2 DEF JobIInv, JobTypeOK
  <2>3. job' # NoJob /\ job'.attempts \in Nat /\ job'.attempts >= job.attempts
    BY <1>1, <2>1, <2>2 DEF NoJob
  <2>4. queue[1].state = "dead" => job'.status = "FAILED"
    BY <1>1, <2>1, <2>2 DEF CalmRow, QueueAttempts, MaxAttempts
  <2>5. CalmRow'
    BY <1>1, <1>2, <2>1, <2>3, <2>4 DEF CalmRow
  <2>6. CalmHooks'
    BY <2>1 DEF CalmHooks
  <2> QED BY <1>4, <2>1, <2>3, <2>5, <2>6 DEF CalmQueue
<1>7. ~HookLost(k)
  BY DEF HookLost
<1> QED BY <1>5, <1>6, <1>7 DEF HookStep

\* After a crash the row may say what no attempt does: the entry is still there.
LEMMA CalmCrashKeeps ==
  ASSUME JobIInv, course = "calm", CalmParts, Crash
  PROVE  CalmParts'
<1> USE DEF CalmParts
<1>1. /\ 1 \in Entries /\ job.attempts \in Nat /\ queue[1].made \in Nat
      /\ queue \in [Entries -> {NoEntry} \cup
           [state : {"waiting", "active", "delayed", "done", "dead"},
            mode : {"chat", "project_report"}, made : 0 .. QueueAttempts]]
  BY CalmTypes DEF JobIInv, JobTypeOK
<1>2. /\ hooks' = {} /\ \A r \in Requests : request'[r] = "idle"
      /\ at'[1] = "none" /\ UNCHANGED job
      /\ \A q \in Entries : queue'[q] = IF queue[q].state = "active"
                                        THEN [queue[q] EXCEPT !.state = "waiting"] ELSE queue[q]
  BY <1>1 DEF Crash
<1>3. \A q \in Entries : /\ queue'[q] = NoEntry <=> queue[q] = NoEntry
                         /\ queue[q] # NoEntry => queue'[q].mode = queue[q].mode
  <2> SUFFICES ASSUME NEW q \in Entries
               PROVE  /\ queue'[q] = NoEntry <=> queue[q] = NoEntry
                      /\ queue[q] # NoEntry => queue'[q].mode = queue[q].mode
    OBVIOUS
  <2>1. CASE queue[q].state # "active"
    <3>1. queue'[q] = queue[q]
      BY <1>2, <2>1
    <3> QED BY <3>1
  <2>2. CASE queue[q].state = "active"
    <3>1. queue[q] \in [state : {"waiting", "active", "delayed", "done", "dead"},
                        mode : {"chat", "project_report"}, made : 0 .. QueueAttempts]
      BY <1>1, <2>2 DEF NoEntry
    <3>2. queue'[q] = [queue[q] EXCEPT !.state = "waiting"]
      BY <1>2, <2>2
    <3> QED BY <2>2, <3>1, <3>2 DEF NoEntry
  <2> QED BY <2>1, <2>2
<1>4. CalmRequests' /\ CalmQueue'
  BY <1>1, <1>2, <1>3 DEF CalmRequests, CalmQueue
<1>5. CalmRow'
  <2>1. CASE queue[1] = NoEntry
    BY <1>1, <1>2, <1>3, <2>1 DEF CalmRow, NoEntry
  <2>2. CASE queue[1] # NoEntry
    <3>1. queue'[1].made = queue[1].made
      BY <1>1, <1>2, <2>2
    <3>2. /\ queue'[1].state = "dead" => queue[1].state = "dead"
          /\ queue'[1].state = "done" => queue[1].state = "done"
      BY <1>1, <1>2, <2>2
    <3> QED BY <1>1, <1>2, <3>1, <3>2 DEF CalmRow
  <2> QED BY <2>1, <2>2
<1>6. CalmHooks'
  BY <1>2 DEF CalmHooks
<1> QED BY <1>4, <1>5, <1>6

\* Every step of a calm behaviour keeps it so.
LEMMA CalmNextKeeps ==
  ASSUME JobIInv, CalmCourse, [JobNext]_jobVars
  PROVE  CalmCourse'
<1>1. CASE UNCHANGED jobVars
  BY <1>1 DEF jobVars, CalmCourse, CalmParts, CalmRequests, CalmQueue, CalmRow, CalmHooks
<1>2. CASE JobNext
  <2>1. UNCHANGED course
    BY <1>2 DEF JobNext, RequestStep, Submit, AskRetry, Reset, Enqueue, LoseRequest, WorkerStep, Take,
         MarkRunning, Answer, Throw, MarkCompleted, Complete, MarkFailed, FailAttempt, Backoff,
         HookStep, HookRead, HookWrite, HookLost, Crash
  <2> QED BY <1>2, <2>1, CalmRequestKeeps, CalmWorkerKeeps, CalmHookKeeps, CalmCrashKeeps
          DEF JobNext, CalmCourse
<1> QED BY <1>1, <1>2

\* When the queue is done with a job and nothing else happened than crashes, its row says
\* how it ended: whatever the order in which the worker, onFailed and BullMQ wrote.
THEOREM RowSaysOutcome == JobSpec => []StatusIsOutcome
<1>1. JobInit => CalmCourse
  BY CalmInitHolds
<1>2. JobIInv /\ CalmCourse /\ [JobNext]_jobVars => CalmCourse'
  BY CalmNextKeeps
<1>3. JobIInv /\ CalmCourse => StatusIsOutcome
  <2> SUFFICES ASSUME JobIInv, CalmParts, Quiet, queue[1] # NoEntry
               PROVE  job.status = IF queue[1].state = "done" THEN "COMPLETED" ELSE "FAILED"
    BY DEF StatusIsOutcome, CalmCourse
  <2>1. queue[1].state \in {"done", "dead"}
    BY CalmTypes DEF Quiet, Live
  <2> QED BY <2>1 DEF CalmParts, CalmRow
<1> QED BY <1>1, <1>2, <1>3, JobInvariant, PTL DEF JobSpec

-----------------------------------------------------------------------------
\* Ingestion: the listing, newest first.

\* The place of i in the listing s, newest first.
Rank(s, i) == Cardinality({j \in s : j >= i})

\* The place of what is listed is between 1 and the length of the listing.
LEMMA RankBounds ==
  ASSUME NEW s \in SUBSET Nat, IsFiniteSet(s), NEW i \in s
  PROVE  /\ Cardinality(s) \in Nat
         /\ Rank(s, i) \in 1 .. Cardinality(s)
<1>1. PICK t : t = {j \in s : j >= i}
  OBVIOUS
<1>2. t \in SUBSET s /\ i \in t
  BY <1>1
<1>3. IsFiniteSet(t) /\ Cardinality(t) \in Nat /\ Cardinality(t) <= Cardinality(s)
      /\ Cardinality(s) \in Nat
  BY <1>2, FS_Subset, FS_CardinalityType
<1>4. Cardinality(t) # 0
  BY <1>2, <1>3, FS_EmptySet
<1> QED BY <1>1, <1>3, <1>4 DEF Rank

\* What is newer comes first.
LEMMA RankFalls ==
  ASSUME NEW s \in SUBSET Nat, IsFiniteSet(s), NEW i \in s, NEW j \in s, i < j
  PROVE  Rank(s, j) < Rank(s, i)
<1>1. PICK t, u : t = {k \in s : k >= i} /\ u = {k \in s : k >= j}
  OBVIOUS
<1>2. t \in SUBSET s /\ u \in SUBSET t /\ i \in t /\ i \notin u
  <2>1. \A k \in s : k \in Nat
    OBVIOUS
  <2>2. \A k \in u : k \in s /\ k >= i /\ k # i
    BY <1>1, <2>1
  <2>3. i \in t
    BY <1>1, <2>1
  <2>4. \A k \in u : k \in t
    BY <1>1, <2>2
  <2> QED BY <1>1, <2>2, <2>3, <2>4
<1>3. IsFiniteSet(t)
  BY <1>2, FS_Subset
<1>4. /\ Cardinality(u) <= Cardinality(t) /\ Cardinality(u) # Cardinality(t)
      /\ Cardinality(u) \in Nat /\ Cardinality(t) \in Nat
  BY <1>2, <1>3, FS_Subset, FS_CardinalityType
<1> QED BY <1>1, <1>4 DEF Rank

\* Two things do not share a place.
LEMMA RankIsPlace ==
  ASSUME NEW s \in SUBSET Nat, IsFiniteSet(s)
  PROVE  /\ \A i, j \in s : Rank(s, i) = Rank(s, j) => i = j
         /\ \A k \in 1 .. Cardinality(s) : \E i \in s : Rank(s, i) = k
<1>1. \A i, j \in s : Rank(s, i) = Rank(s, j) => i = j
  <2> SUFFICES ASSUME NEW i \in s, NEW j \in s, i # j PROVE Rank(s, i) # Rank(s, j)
    OBVIOUS
  <2>1. Rank(s, i) \in 1 .. Cardinality(s) /\ Rank(s, j) \in 1 .. Cardinality(s)
        /\ Cardinality(s) \in Nat
    BY RankBounds
  <2>2. CASE i < j
    <3>1. Rank(s, j) < Rank(s, i)
      BY <2>2, RankFalls
    <3> QED BY <2>1, <3>1
  <2>3. CASE j < i
    <3>1. Rank(s, i) < Rank(s, j)
      BY <2>3, RankFalls
    <3> QED BY <2>1, <3>1
  <2>4. i \in Nat /\ j \in Nat
    OBVIOUS
  <2> QED BY <2>2, <2>3, <2>4
<1>2. PICK f, T : f = [i \in s |-> Rank(s, i)] /\ T = 1 .. Cardinality(s)
  OBVIOUS
<1>3. f \in Injection(s, T)
  <2>1. \A i \in s : f[i] \in T
    BY <1>2, RankBounds
  <2> QED BY <1>1, <1>2, <2>1 DEF Injection, IsInjective
<1>4. IsFiniteSet(T) /\ Cardinality(T) = Cardinality(s)
  <2>1. Cardinality(s) \in Nat
    BY FS_CardinalityType
  <2> QED BY <1>2, <2>1, FS_Interval
<1>5. f \in Surjection(s, T)
  BY <1>3, <1>4, FS_Injection
<1>6. \A k \in T : \E i \in s : f[i] = k
  BY <1>5 DEF Surjection
<1> QED BY <1>1, <1>2, <1>6

\* Newest lists a set, newest first.
LEMMA NewestLists ==
  ASSUME NEW s \in SUBSET Nat, IsFiniteSet(s)
  PROVE  /\ Newest(s) \in Seq(s) /\ Len(Newest(s)) = Cardinality(s) /\ Cardinality(s) \in Nat
         /\ \A k \in 1 .. Cardinality(s) : Newest(s)[k] \in s /\ Rank(s, Newest(s)[k]) = k
<1>1. PICK q : q = Newest(s)
  OBVIOUS
<1>2. q = [k \in 1 .. Cardinality(s) |-> CHOOSE i \in s : Rank(s, i) = k]
  BY <1>1 DEF Newest, Rank
<1>3. \A k \in 1 .. Cardinality(s) : q[k] \in s /\ Rank(s, q[k]) = k
  <2> SUFFICES ASSUME NEW k \in 1 .. Cardinality(s) PROVE q[k] \in s /\ Rank(s, q[k]) = k
    OBVIOUS
  <2>1. \E i \in s : Rank(s, i) = k
    BY RankIsPlace
  <2>2. q[k] = CHOOSE i \in s : Rank(s, i) = k
    BY <1>2
  <2> QED BY <2>1, <2>2
<1>4. Cardinality(s) \in Nat
  BY FS_CardinalityType
<1>5. q \in Seq(s) /\ Len(q) = Cardinality(s)
  BY <1>2, <1>3, <1>4
<1> QED BY <1>1, <1>3, <1>4, <1>5

\* A page of the listing: the things whose place is after a and not after b.
Slice(s, a, b) == SubSeq(Newest(s), a + 1, b)
SliceLen(a, b) == IF a <= b THEN b - a ELSE 0

\* No thing is on a page twice.
Distinct(page) == \A k, l \in 1 .. Len(page) : page[k] = page[l] => k = l

\* Slice is that page.
LEMMA PageLists ==
  ASSUME NEW s \in SUBSET Nat, IsFiniteSet(s), NEW a \in Nat, NEW b \in Nat, b <= Cardinality(s),
         NEW page, page = Slice(s, a, b)
  PROVE  /\ page \in Seq(s) /\ Len(page) = SliceLen(a, b)
         /\ \A k \in 1 .. Len(page) : page[k] \in s /\ Rank(s, page[k]) = a + k
         /\ Distinct(page)
         /\ \A i \in s : a < Rank(s, i) /\ Rank(s, i) <= b => i \in ToSet(page)
<1>1. PICK q, c : q = Newest(s) /\ c = Cardinality(s)
  OBVIOUS
<1>2. /\ q \in Seq(s) /\ Len(q) = c /\ c \in Nat
      /\ \A k \in 1 .. c : q[k] \in s /\ Rank(s, q[k]) = k
  BY <1>1, NewestLists
<1>3. PICK n : n = IF a <= b THEN b - a ELSE 0
  OBVIOUS
<1>4. n \in Nat /\ (\A k \in 1 .. n : a + k \in 1 .. c)
  BY <1>1, <1>2, <1>3
<1>5. page = [k \in 1 .. n |-> q[a + k]]
  <2>1. page = [k \in 1 .. (b - (a + 1) + 1) |-> q[k + (a + 1) - 1]]
    BY <1>1 DEF Slice
  <2>2. 1 .. (b - (a + 1) + 1) = 1 .. n
    BY <1>3
  <2>3. \A k \in 1 .. n : k + (a + 1) - 1 = a + k
    BY <1>4
  <2> QED BY <2>1, <2>2, <2>3
<1>6. page \in Seq(s) /\ Len(page) = n
  <2>1. \A k \in 1 .. n : page[k] \in s
    BY <1>2, <1>4, <1>5
  <2> QED BY <1>4, <1>5, <2>1
<1>7. \A k \in 1 .. n : page[k] \in s /\ Rank(s, page[k]) = a + k
  BY <1>2, <1>4, <1>5
<1>8. \A k, l \in 1 .. n : page[k] = page[l] => k = l
  <2> SUFFICES ASSUME NEW k \in 1 .. n, NEW l \in 1 .. n, page[k] = page[l] PROVE k = l
    OBVIOUS
  <2>1. Rank(s, page[k]) = a + k /\ Rank(s, page[l]) = a + l
    BY <1>7
  <2>2. a + k = a + l
    BY <2>1
  <2>3. k \in Int /\ l \in Int
    BY <1>4
  <2> QED BY <2>2, <2>3
<1>9. ASSUME NEW i \in s, a < Rank(s, i), Rank(s, i) <= b PROVE i \in ToSet(page)
  <2>1. PICK k : k = Rank(s, i) - a
    OBVIOUS
  <2>2. Rank(s, i) \in 1 .. c
    BY <1>1, RankBounds
  <2>3. k \in 1 .. n /\ a + k = Rank(s, i)
    BY <1>2, <1>3, <1>9, <2>1, <2>2
  <2>4. Rank(s, page[k]) = Rank(s, i) /\ page[k] \in s
    BY <1>7, <2>3
  <2>5. page[k] = i
    BY <2>4, RankIsPlace
  <2>6. k \in DOMAIN page
    BY <1>5, <2>3
  <2> QED BY <2>5, <2>6 DEF ToSet
<1>10. Distinct(page)
  BY <1>6, <1>8 DEF Distinct
<1>11. Len(page) = SliceLen(a, b)
  BY <1>3, <1>6 DEF SliceLen
<1> QED BY <1>6, <1>7, <1>9, <1>10, <1>11

\* ToSet of a sequence and of its tail.
LEMMA SetOfTail ==
  ASSUME NEW S, NEW s \in Seq(S), s # <<>>
  PROVE  /\ Head(s) = s[1] /\ Head(s) \in S /\ Len(s) \in Nat /\ Len(s) >= 1
         /\ Tail(s) \in Seq(S) /\ Len(Tail(s)) = Len(s) - 1
         /\ \A k \in 1 .. Len(s) - 1 : Tail(s)[k] = s[k + 1]
         /\ ToSet(s) = {Head(s)} \cup ToSet(Tail(s))
         /\ ToSet(Tail(s)) \subseteq ToSet(s)
<1>1. PICK t, n : t = Tail(s) /\ n = Len(s)
  OBVIOUS
<1>2. /\ Head(s) = s[1] /\ Head(s) \in S /\ n \in Nat /\ n >= 1
      /\ t \in Seq(S) /\ Len(t) = n - 1
      /\ \A k \in 1 .. n - 1 : t[k] = s[k + 1]
  BY <1>1
<1>3. DOMAIN s = 1 .. n /\ DOMAIN t = 1 .. n - 1
  BY <1>1, <1>2
<1>4. \A k \in 1 .. n : k = 1 \/ k - 1 \in 1 .. n - 1
  BY <1>2
<1>5. \A k \in 1 .. n - 1 : k + 1 \in 1 .. n /\ 1 \in 1 .. n
  BY <1>2
<1>6. ToSet(s) = {Head(s)} \cup ToSet(t)
  <2>1. \A x \in ToSet(s) : x \in {Head(s)} \cup ToSet(t)
    <3> SUFFICES ASSUME NEW k \in 1 .. n PROVE s[k] \in {Head(s)} \cup ToSet(t)
      BY <1>3 DEF ToSet
    <3>1. CASE k = 1
      BY <1>2, <3>1
    <3>2. CASE k - 1 \in 1 .. n - 1
      <4>1. t[k - 1] = s[k]
        <5>1. t[k - 1] = s[(k - 1) + 1] /\ (k - 1) + 1 = k
          BY <1>2, <3>2
        <5> QED BY <5>1
      <4> QED BY <1>3, <3>2, <4>1 DEF ToSet
    <3> QED BY <1>4, <3>1, <3>2
  <2>2. Head(s) \in ToSet(s)
    <3>1. 1 \in 1 .. n
      BY <1>2
    <3> QED BY <1>2, <1>3, <3>1 DEF ToSet
  <2>3. \A x \in ToSet(t) : x \in ToSet(s)
    <3> SUFFICES ASSUME NEW k \in 1 .. n - 1 PROVE t[k] \in ToSet(s)
      BY <1>3 DEF ToSet
    <3>1. t[k] = s[k + 1] /\ k + 1 \in DOMAIN s
      BY <1>2, <1>3, <1>5
    <3> QED BY <3>1 DEF ToSet
  <2> QED BY <2>1, <2>2, <2>3
<1> QED BY <1>1, <1>2, <1>6

-----------------------------------------------------------------------------
\* Where a worker is.

Walking == {"finding", "creating", "mapping", "writing", "processing"}

Targets == Projects \cup {Unassigned}

Me == [pc : WorkerStates, integration : Integrations \cup {NoAuthor}, rows : Seq(Targets),
       page : Seq(Items), left : Seq(Targets), position : Nat, more : BOOLEAN,
       author : Authors \cup {NoAuthor}, member : Members \cup {NoMember}]

Seen == [steady : SUBSET Items, shifted : BOOLEAN, walked : SUBSET Items,
         connected : SUBSET Targets]

\* The integration, the rows and the cursor are those of the whole ingest.
SameIngest(me, m) ==
  /\ m.integration = me.integration /\ m.rows = me.rows
  /\ m.position = me.position /\ m.more = me.more

\* A worker that is over with the first thing of its page.
ItemOver(me, m) ==
  /\ m \in Me /\ SameIngest(me, m)
  /\ \/ Len(me.page) > 1 /\ m.pc = "finding" /\ m.page = Tail(me.page)
     \/ Len(me.page) = 1 /\ m.pc = (IF me.more THEN "fetching" ELSE "done") /\ m.page = <<>>

\* A worker that is over with the first of the projects left.
ProjectOver(me, m) ==
  \/ Len(me.left) = 1 /\ ItemOver(me, m)
  \/ Len(me.left) > 1 /\ m \in Me /\ m = [me EXCEPT !.pc = "writing", !.left = Tail(@)]

\* A worker that has settled the author of a thing.
AuthorSettled(me, m, author, member) ==
  \/ me.rows = <<>> /\ ItemOver(me, m)
  \/ /\ me.rows # <<>> /\ m \in Me
     /\ m = [me EXCEPT !.author = author, !.member = member, !.pc = "writing", !.left = me.rows]

\* Where a worker ends.
LEMMA Ends ==
  ASSUME NEW me \in Me
  PROVE  /\ Ended(me) \in Me /\ SameIngest(me, Ended(me))
         /\ Ended(me).pc = "done" /\ Ended(me).page = <<>>
         /\ Failed(me) \in Me /\ SameIngest(me, Failed(me))
         /\ Failed(me).pc = "failed" /\ Failed(me).page = <<>>
<1>1. <<>> \in Seq(Items) /\ <<>> \in Seq(Targets)
  BY EmptySeq
<1>2. PICK e : e = Ended(me)
  OBVIOUS
<1>3. e \in Me /\ SameIngest(me, e) /\ e.pc = "done" /\ e.page = <<>>
  BY <1>1, <1>2 DEF Me, Ended, SameIngest, WorkerStates
<1>4. Failed(me) = [e EXCEPT !.pc = "failed"]
  BY <1>2 DEF Failed
<1>5. /\ Failed(me) \in Me /\ SameIngest(me, Failed(me))
      /\ Failed(me).pc = "failed" /\ Failed(me).page = <<>>
  BY <1>3, <1>4 DEF Me, SameIngest, WorkerStates
<1> QED BY <1>2, <1>3, <1>5

\* AfterItem goes on to the next thing.
LEMMA AfterItemGoes ==
  ASSUME NEW me \in Me, me.page # <<>>
  PROVE  ItemOver(me, AfterItem(me))
<1>1. me.page \in Seq(Items) /\ Len(me.page) \in Nat /\ Len(me.page) >= 1
      /\ Tail(me.page) \in Seq(Items)
  BY DEF Me
<1>0. <<>> \in Seq(Items) /\ <<>> \in Seq(Targets)
  BY EmptySeq
<1>2. CASE Len(me.page) > 1
  <2>1. PICK m : m = [me EXCEPT !.pc = "finding", !.page = Tail(@), !.left = <<>>]
    OBVIOUS
  <2>2. m \in Me /\ SameIngest(me, m) /\ m.pc = "finding" /\ m.page = Tail(me.page)
    BY <1>0, <1>1, <2>1 DEF Me, SameIngest, WorkerStates
  <2>3. AfterItem(me) = m
    BY <1>2, <2>1 DEF AfterItem
  <2> QED BY <1>2, <2>2, <2>3 DEF ItemOver
<1>3. CASE Len(me.page) = 1 /\ me.more
  <2>1. PICK m : m = [me EXCEPT !.pc = "fetching", !.page = <<>>, !.left = <<>>]
    OBVIOUS
  <2>2. m \in Me /\ SameIngest(me, m) /\ m.pc = "fetching" /\ m.page = <<>>
    BY <1>0, <1>1, <2>1 DEF Me, SameIngest, WorkerStates
  <2>3. AfterItem(me) = m
    BY <1>3, <2>1 DEF AfterItem
  <2> QED BY <1>3, <2>2, <2>3 DEF ItemOver
<1>4. CASE Len(me.page) = 1 /\ ~me.more
  <2>1. AfterItem(me) = Ended(me)
    BY <1>1, <1>4 DEF AfterItem
  <2> QED BY <1>4, <2>1, Ends DEF ItemOver
<1>5. Len(me.page) > 1 \/ Len(me.page) = 1
  <2>1. PICK n : n = Len(me.page)
    OBVIOUS
  <2>2. n \in Nat /\ n >= 1
    BY <1>1, <2>1
  <2>3. n > 1 \/ n = 1
    BY <2>2
  <2> QED BY <2>1, <2>3
<1> QED BY <1>2, <1>3, <1>4, <1>5

\* AfterProject goes on to the next project.
LEMMA AfterProjectGoes ==
  ASSUME NEW me \in Me, me.page # <<>>, me.left # <<>>
  PROVE  ProjectOver(me, AfterProject(me))
<1>1. me.left \in Seq(Targets) /\ Len(me.left) \in Nat /\ Len(me.left) >= 1
      /\ Tail(me.left) \in Seq(Targets)
  BY DEF Me
<1>2. CASE Len(me.left) > 1
  BY <1>1, <1>2 DEF AfterProject, ProjectOver, Me, WorkerStates
<1>3. CASE Len(me.left) = 1
  <2>1. AfterProject(me) = AfterItem(me)
    BY <1>3 DEF AfterProject
  <2> QED BY <1>3, <2>1, AfterItemGoes DEF ProjectOver
<1>4. Len(me.left) > 1 \/ Len(me.left) = 1
  <2>1. PICK n : n = Len(me.left)
    OBVIOUS
  <2>2. n \in Nat /\ n >= 1
    BY <1>1, <2>1
  <2>3. n > 1 \/ n = 1
    BY <2>2
  <2> QED BY <2>1, <2>3
<1> QED BY <1>2, <1>3, <1>4

\* ToProjects goes on to the first project.
LEMMA ToProjectsGoes ==
  ASSUME NEW me \in Me, me.page # <<>>, NEW author \in Authors \cup {NoAuthor},
         NEW member \in Members \cup {NoMember}
  PROVE  AuthorSettled(me, ToProjects(me, author, member), author, member)
<1>1. PICK a : a = [me EXCEPT !.author = author, !.member = member]
  OBVIOUS
<1>2. /\ a \in Me /\ a.page = me.page /\ SameIngest(me, a) /\ a.rows = me.rows
  BY <1>1 DEF Me, SameIngest
<1>3. ToProjects(me, author, member) = IF me.rows = <<>> THEN AfterItem(a)
                                       ELSE [a EXCEPT !.pc = "writing", !.left = me.rows]
  BY <1>1 DEF ToProjects
<1>4. CASE me.rows = <<>>
  <2>1. ItemOver(a, AfterItem(a))
    BY <1>2, AfterItemGoes
  <2>2. ItemOver(me, AfterItem(a))
    BY <1>1, <1>2, <2>1 DEF ItemOver, SameIngest, Me
  <2> QED BY <1>3, <1>4, <2>2 DEF AuthorSettled
<1>5. CASE me.rows # <<>>
  <2>1. PICK m : m = [a EXCEPT !.pc = "writing", !.left = me.rows]
    OBVIOUS
  <2>2. m = [me EXCEPT !.author = author, !.member = member, !.pc = "writing", !.left = me.rows]
    BY <1>1, <2>1 DEF Me
  <2>3. m \in Me
    BY <1>2, <2>1 DEF Me, WorkerStates
  <2> QED BY <1>3, <1>5, <2>1, <2>2, <2>3 DEF AuthorSettled
<1> QED BY <1>4, <1>5

-----------------------------------------------------------------------------
\* Types.

TablesTyped ==
  /\ provider \in Providers /\ posted \in Items /\ listed \subseteq 1 .. posted
  /\ linked \subseteq Integrations /\ identities \subseteq Identities
  /\ connections \in [Integrations -> Seq(Projects)]
  /\ mapping \in [Identities -> Members \cup {NoMember}]
  /\ mapped \subseteq Identities \X Members
  /\ failures \in 0 .. MaxFailures

WorkTyped ==
  /\ work \in [Workers -> Me]
  /\ seen \in [Workers -> Seen]
  /\ events \in [Workers -> Seq(EventType)]

\* Where a worker is, it has what it needs there.
Placed(w) ==
  /\ work[w].pc \in {"storing", "looking"} \cup Walking => work[w].page # <<>>
  /\ work[w].pc \in {"writing", "processing"} =>
       /\ work[w].left # <<>> /\ Len(work[w].left) <= Len(work[w].rows)
       /\ \A k \in 1 .. Len(work[w].left) :
            work[w].left[k] = work[w].rows[Len(work[w].rows) - Len(work[w].left) + k]
  /\ work[w].pc \in {"fetching"} \cup Walking => work[w].integration \in Integrations
  /\ work[w].pc \in {"creating", "mapping"} => Author(w) \in Authors
  /\ work[w].pc \in {"storing", "looking"} => provider = "github" /\ Len(work[w].page) = 1
  /\ work[w].pc = "fetching" => provider # "github"
  /\ provider = "github" /\ work[w].pc \in {"storing", "looking"} \cup Walking => ~work[w].more
  /\ work[w].pc \in {"fetching", "done"} => work[w].page = <<>>
  /\ work[w].pc = "processing" =>
       /\ events[w] # <<>> /\ events[w][Len(events[w])].project # Unassigned
       /\ events[w][Len(events[w])].item = Head(work[w].page)

\* What a worker leaves alone.
Same(v) == work'[v] = work[v] /\ seen'[v] = seen[v] /\ events'[v] = events[v]

\* What is listed is a finite set of things.
LEMMA ListedTyped ==
  ASSUME TablesTyped
  PROVE  listed \in SUBSET Items /\ listed \in SUBSET Nat /\ IsFiniteSet(listed)
         /\ Items \in SUBSET Nat /\ MaxItem \in Nat
<1>1. MaxItem \in Nat /\ posted \in 1 .. MaxItem
  BY IngestionAssumption DEF TablesTyped, Items
<1>2. listed \in SUBSET (1 .. MaxItem) /\ IsFiniteSet(1 .. MaxItem)
  BY <1>1, FS_Interval DEF TablesTyped
<1>3. IsFiniteSet(listed)
  BY <1>2, FS_Subset
<1> QED BY <1>1, <1>2, <1>3 DEF Items

\* The thing a worker is at.
LEMMA AtThing ==
  ASSUME WorkTyped, NEW w \in Workers, work[w].page # <<>>
  PROVE  /\ work[w] \in Me /\ work[w].page \in Seq(Items) /\ Head(work[w].page) \in Items
         /\ Head(work[w].page) = work[w].page[1]
         /\ Author(w) = AuthorOf[Head(work[w].page)] /\ Author(w) \in Authors \cup {NoAuthor}
<1>1. work[w] \in Me /\ work[w].page \in Seq(Items)
  BY DEF WorkTyped, Me
<1>2. Head(work[w].page) \in Items /\ Head(work[w].page) = work[w].page[1]
  BY <1>1
<1> QED BY <1>1, <1>2, IngestionAssumption DEF Author

-----------------------------------------------------------------------------
\* What each page is.

\* The things still to come, from where the cursor is.
Ahead(position, i) == IF provider = "jira" THEN Rank(listed, i) > position ELSE i < position

\* A page takes things that are listed, each once, and leaves none behind it.
Page(w, page, rows, position, more) ==
  /\ page \in Seq(Items) /\ rows \in Seq(Targets) /\ position \in Nat /\ more \in BOOLEAN
  /\ ToSet(page) \subseteq listed
  /\ \A k, l \in 1 .. Len(page) : page[k] = page[l] => k = l
  /\ provider \in {"slack", "discord"} =>
       /\ rows = work[w].rows
       /\ \A i \in ToSet(page) : i < work[w].position /\ position <= i
       /\ position <= work[w].position
  /\ provider = "figma" => ~more
  /\ \A i \in listed :
       Ahead(work[w].position, i) \/ provider = "figma"
         => i \in ToSet(page) \/ (Ahead(position, i) /\ more /\ page # <<>>)

\* The page of a cursor.
LEMMA CursorPageIs ==
  ASSUME TablesTyped, WorkTyped, NEW w \in Workers
  PROVE  /\ CursorPage(w) \in Seq(Items)
         /\ ToSet(CursorPage(w)) \subseteq Older(w)
         /\ \A k, l \in 1 .. Len(CursorPage(w)) : CursorPage(w)[k] = CursorPage(w)[l] => k = l
         /\ NextCursor(w) \in Nat /\ NextCursor(w) <= work[w].position
         /\ \A i \in ToSet(CursorPage(w)) : NextCursor(w) <= i
         /\ \A i \in Older(w) : i \in ToSet(CursorPage(w)) \/ i < NextCursor(w)
         /\ Leaves(w) \in BOOLEAN
         /\ ~Leaves(w) => Older(w) \subseteq ToSet(CursorPage(w))
         /\ CursorPage(w) = <<>> => Older(w) = {}
<1>1. PICK s : s = Older(w)
  OBVIOUS
<1>2. /\ s \in SUBSET listed /\ s \in SUBSET Nat /\ s \in SUBSET Items /\ IsFiniteSet(s)
      /\ work[w].position \in Nat /\ \A i \in s : i < work[w].position
  <2>1. s \in SUBSET listed /\ \A i \in s : i < work[w].position
    BY <1>1 DEF Older
  <2>2. work[w].position \in Nat
    BY DEF WorkTyped, Me
  <2>3. listed \in SUBSET Items /\ Items \in SUBSET Nat /\ IsFiniteSet(listed)
    BY ListedTyped
  <2>4. IsFiniteSet(s)
    BY <2>1, <2>3, FS_Subset
  <2> QED BY <2>1, <2>2, <2>3, <2>4
<1>3. PICK c, b : c = Cardinality(s) /\ b = IF PageSize < c THEN PageSize ELSE c
  OBVIOUS
<1>4. /\ c \in Nat /\ Len(Newest(s)) = c
  BY <1>2, <1>3, NewestLists
<1>5. PageSize \in Nat /\ PageSize >= 1 /\ b \in Nat /\ b <= c
  BY <1>3, <1>4, IngestionAssumption
<1>6. PICK page : page = CursorPage(w)
  OBVIOUS
<1>0. PICK a : a = 0
  OBVIOUS
<1>7. page = Slice(s, a, b)
  <2>1. page = SubSeq(Newest(s), 1, IF PageSize < Len(Newest(s)) THEN PageSize ELSE Len(Newest(s)))
    BY <1>1, <1>6 DEF CursorPage, FirstOf
  <2>2. a + 1 = 1
    BY <1>0
  <2> QED BY <1>3, <1>4, <2>1, <2>2 DEF Slice
<1>8. /\ page \in Seq(s) /\ Len(page) = b
      /\ \A k \in 1 .. b : page[k] \in s /\ Rank(s, page[k]) = 0 + k
      /\ \A k, l \in 1 .. b : page[k] = page[l] => k = l
      /\ \A i \in s : 0 < Rank(s, i) /\ Rank(s, i) <= b => i \in ToSet(page)
  <2>3. a \in Nat /\ b <= Cardinality(s)
    BY <1>0, <1>3, <1>5
  <2>1. Len(page) = SliceLen(a, b)
    BY <1>2, <1>5, <1>7, <2>3, PageLists
  <2>2. Len(page) = b
    BY <1>0, <1>5, <2>1 DEF SliceLen
  <2>4. page \in Seq(s)
    BY <1>2, <1>5, <1>7, <2>3, PageLists
  <2>5. \A k \in 1 .. Len(page) : page[k] \in s /\ Rank(s, page[k]) = a + k
    BY <1>2, <1>5, <1>7, <2>3, PageLists
  <2>6. \A k, l \in 1 .. Len(page) : page[k] = page[l] => k = l
    <3>1. Distinct(page)
      BY <1>2, <1>5, <1>7, <2>3, PageLists
    <3> QED BY <3>1 DEF Distinct
  <2>7. \A i \in s : a < Rank(s, i) /\ Rank(s, i) <= b => i \in ToSet(page)
    BY <1>2, <1>5, <1>7, <2>3, PageLists
  <2> QED BY <1>0, <2>2, <2>4, <2>5, <2>6, <2>7
<1>9. page \in Seq(Items) /\ ToSet(page) \subseteq s /\ DOMAIN page = 1 .. b
  <2>1. page \in Seq(s) /\ Len(page) = b
    BY <1>8
  <2>2. DOMAIN page = 1 .. b /\ \A k \in DOMAIN page : page[k] \in s
    BY <2>1
  <2>3. ToSet(page) \subseteq s
    BY <2>2 DEF ToSet
  <2>4. page \in Seq(Items)
    <3>1. s \subseteq Items
      BY <1>2
    <3> QED BY <2>1, <3>1
  <2> QED BY <2>2, <2>3, <2>4
<1>10. c = 0 <=> s = {}
  BY <1>2, <1>3, FS_EmptySet
<1>11. \A i \in s : Rank(s, i) \in 1 .. c
  BY <1>2, <1>3, RankBounds
<1>12. page = <<>> => s = {}
  BY <1>3, <1>4, <1>5, <1>8, <1>10
<1>13. c <= PageSize => s \subseteq ToSet(page)
  BY <1>3, <1>4, <1>5, <1>8, <1>11
<1>14. CASE s = {}
  <2>1. NextCursor(w) = work[w].position
    BY <1>1, <1>14 DEF NextCursor
  <2>2. ToSet(page) = {}
    BY <1>9, <1>14
  <2> QED BY <1>1, <1>2, <1>3, <1>4, <1>5, <1>6, <1>8, <1>9, <1>12, <1>13, <1>14, <2>1, <2>2 DEF Leaves
<1>15. CASE s # {}
  <2>1. c # 0 /\ b >= 1 /\ b \in 1 .. b
    BY <1>3, <1>4, <1>5, <1>10, <1>15
  <2>2. NextCursor(w) = page[b]
    BY <1>1, <1>6, <1>8, <1>15 DEF NextCursor, Last
  <2>3. page[b] \in s /\ Rank(s, page[b]) = b
    BY <1>8, <2>1
  <2>4. \A i \in s : Rank(s, i) <= b => page[b] <= i
    <3> SUFFICES ASSUME NEW i \in s, Rank(s, i) <= b, ~ (page[b] <= i) PROVE FALSE
      OBVIOUS
    <3>0. i \in Nat /\ page[b] \in Nat
      BY <1>2, <2>3
    <3>1. i < page[b]
      BY <3>0
    <3>2. Rank(s, page[b]) < Rank(s, i)
      BY <1>2, <2>3, <3>1, RankFalls
    <3> QED BY <1>4, <1>5, <1>11, <2>3, <3>2
  <2>5. \A i \in ToSet(page) : page[b] <= i
    <3> SUFFICES ASSUME NEW k \in 1 .. b PROVE page[b] <= page[k]
      BY <1>9 DEF ToSet
    <3>1. page[k] \in s /\ Rank(s, page[k]) = k
      <4>1. page[k] \in s /\ Rank(s, page[k]) = 0 + k
        BY <1>8
      <4> QED BY <1>5, <4>1
    <3> QED BY <1>5, <2>4, <3>1
  <2>6. \A i \in s : i \in ToSet(page) \/ i < page[b]
    <3> SUFFICES ASSUME NEW i \in s, i \notin ToSet(page) PROVE i < page[b]
      OBVIOUS
    <3>1. Rank(s, i) > b
      BY <1>4, <1>5, <1>8, <1>11
    <3>2. i # page[b]
      BY <1>5, <2>3, <3>1
    <3>3. ~ (page[b] < i)
      <4> SUFFICES ASSUME page[b] < i PROVE FALSE
        OBVIOUS
      <4>1. Rank(s, i) < Rank(s, page[b])
        BY <1>2, <2>3, RankFalls
      <4> QED BY <1>4, <1>5, <1>11, <2>3, <3>1, <4>1
    <3>4. i \in Nat /\ page[b] \in Nat
      BY <1>2, <2>3
    <3> QED BY <3>2, <3>3, <3>4
  <2>7. page[b] \in Nat /\ page[b] < work[w].position
    BY <1>2, <2>3
  <2> QED BY <1>1, <1>2, <1>3, <1>4, <1>5, <1>6, <1>8, <1>9, <1>12, <1>13, <2>2, <2>5, <2>6, <2>7 DEF Leaves
<1> QED BY <1>14, <1>15

\* A page by offset, as Jira's.
LEMMA OffsetPageIs ==
  ASSUME TablesTyped, NEW from \in Nat, NEW to \in Nat, to <= Cardinality(listed),
         to = Cardinality(listed) \/ to = from + PageSize,
         NEW page, page = Slice(listed, from, to)
  PROVE  /\ page \in Seq(Items) /\ ToSet(page) \subseteq listed
         /\ Distinct(page)
         /\ \A i \in listed : Rank(listed, i) > from =>
              \/ i \in ToSet(page)
              \/ Rank(listed, i) > from + PageSize /\ Len(page) >= PageSize /\ page # <<>>
         /\ from + PageSize \in Nat /\ (Len(page) >= PageSize) \in BOOLEAN
<1>1. /\ listed \in SUBSET Nat /\ IsFiniteSet(listed) /\ listed \in SUBSET Items
      /\ PageSize \in Nat /\ PageSize >= 1
  BY ListedTyped, IngestionAssumption
<1>2. PICK c : c = Cardinality(listed)
  OBVIOUS
<1>3. c \in Nat /\ \A i \in listed : Rank(listed, i) \in 1 .. c
  <2>1. c \in Nat
    BY <1>1, <1>2, FS_CardinalityType
  <2> QED BY <1>1, <1>2, <2>1, RankBounds
<1>4. /\ to \in Nat /\ to <= c /\ (to = c \/ to = from + PageSize)
  BY <1>1, <1>2, <1>3
<1>5. /\ page \in Seq(listed) /\ Len(page) = IF from <= to THEN to - from ELSE 0
      /\ Distinct(page)
      /\ \A i \in listed : from < Rank(listed, i) /\ Rank(listed, i) <= to => i \in ToSet(page)
  <2>1. to <= Cardinality(listed)
    BY <1>2, <1>4
  <2>2. page \in Seq(listed)
    BY <1>1, <1>4, <2>1, PageLists
  <2>5. Len(page) = IF from <= to THEN to - from ELSE 0
    <3>1. Len(page) = SliceLen(from, to)
      BY <1>1, <1>4, <2>1, PageLists
    <3> QED BY <3>1 DEF SliceLen
  <2>3. Distinct(page)
    BY <1>1, <1>4, <2>1, PageLists
  <2>4. \A i \in listed : from < Rank(listed, i) /\ Rank(listed, i) <= to => i \in ToSet(page)
    BY <1>1, <1>4, <2>1, PageLists
  <2> QED BY <2>2, <2>3, <2>4, <2>5
<1>6. page \in Seq(Items) /\ ToSet(page) \subseteq listed
  <2>1. page \in Seq(listed)
    BY <1>5
  <2>2. \A k \in DOMAIN page : page[k] \in listed
    BY <2>1
  <2>3. page \in Seq(Items)
    <3>1. listed \subseteq Items
      BY <1>1
    <3> QED BY <2>1, <3>1
  <2> QED BY <2>2, <2>3 DEF ToSet
<1>7. ASSUME NEW i \in listed, Rank(listed, i) > from, i \notin ToSet(page)
      PROVE  Rank(listed, i) > from + PageSize /\ Len(page) >= PageSize /\ page # <<>>
  <2>1. PICK r : r = Rank(listed, i)
    OBVIOUS
  <2>2. r \in 1 .. c /\ r > from /\ ~ (r <= to)
    BY <1>3, <1>5, <1>7, <2>1
  <2>3. to = from + PageSize /\ r > from + PageSize
    BY <1>1, <1>3, <1>4, <2>2
  <2>4. Len(page) = PageSize
    BY <1>1, <1>5, <2>3
  <2>5. page # <<>>
    BY <1>1, <2>4
  <2> QED BY <1>1, <2>1, <2>3, <2>4, <2>5
<1> QED BY <1>1, <1>5, <1>6, <1>7

\* What every call that fetches a page receives.
LEMMA FetchReceives ==
  ASSUME TablesTyped, WorkTyped, NEW w \in Workers, Placed(w), work[w].pc = "fetching",
         SlackPage(w) \/ DiscordPage(w) \/ NotionPage(w) \/ JiraPage(w) \/ FigmaPage(w)
  PROVE  \E page, rows, position, more :
           Receive(w, page, rows, position, more) /\ Page(w, page, rows, position, more)
<1>1. /\ work[w] \in Me /\ work[w].integration \in Integrations
      /\ work[w].position \in Nat /\ work[w].rows \in Seq(Targets)
  BY DEF WorkTyped, Placed, Me
<1>2. PICK rows : rows = connections[work[w].integration]
  OBVIOUS
<1>3. rows \in Seq(Targets)
  <2>1. rows \in Seq(Projects) /\ Projects \subseteq Targets
    BY <1>1, <1>2 DEF TablesTyped, Targets
  <2> QED BY <2>1
<1>4. listed \in SUBSET Items /\ listed \in SUBSET Nat /\ IsFiniteSet(listed) /\ MaxItem \in Nat
      /\ Items = 1 .. MaxItem
  BY ListedTyped DEF Items
<1>5. PICK page, position : page = CursorPage(w) /\ position = NextCursor(w)
  OBVIOUS
<1>6. /\ page \in Seq(Items) /\ ToSet(page) \subseteq Older(w)
      /\ \A k, l \in 1 .. Len(page) : page[k] = page[l] => k = l
      /\ position \in Nat /\ position <= work[w].position
      /\ \A i \in ToSet(page) : position <= i
      /\ \A i \in Older(w) : i \in ToSet(page) \/ i < position
      /\ Leaves(w) \in BOOLEAN
      /\ ~Leaves(w) => Older(w) \subseteq ToSet(page)
      /\ page = <<>> => Older(w) = {}
  BY <1>5, CursorPageIs
<1>7. \A i \in Older(w) : i \in listed /\ i < work[w].position
  BY DEF Older
<1>8. \A i \in listed : i < work[w].position => i \in Older(w)
  BY DEF Older
<1>9. ASSUME provider \in {"slack", "discord", "notion"}, NEW rs \in Seq(Targets), NEW more \in BOOLEAN,
             provider = "notion" \/ rs = work[w].rows, ~more => ~Leaves(w)
      PROVE  Page(w, page, rs, position, more)
  <2>1. \A i \in listed : i < work[w].position => i \in ToSet(page) \/ (i < position /\ more /\ page # <<>>)
    BY <1>6, <1>8, <1>9
  <2>2. ToSet(page) \subseteq listed
    BY <1>6, <1>7
  <2>3. provider # "jira" /\ provider # "figma"
    BY <1>9
  <2>4. provider \in {"slack", "discord"} => rs = work[w].rows
    BY <1>9
  <2>5. \A i \in ToSet(page) : i < work[w].position /\ position <= i
    BY <1>6, <1>7
  <2> QED BY <1>6, <1>9, <2>1, <2>2, <2>3, <2>4, <2>5 DEF Page, Ahead
<1>10. CASE SlackPage(w)
  <2>1. provider = "slack" /\ Receive(w, page, work[w].rows, position, Leaves(w))
    BY <1>5, <1>10 DEF SlackPage
  <2>2. Page(w, page, work[w].rows, position, Leaves(w))
    BY <1>1, <1>6, <1>9, <2>1
  <2> QED BY <2>1, <2>2
<1>11. CASE DiscordPage(w)
  <2>1. provider = "discord" /\ Receive(w, page, work[w].rows, position, TRUE)
    BY <1>5, <1>11 DEF DiscordPage
  <2>2. Page(w, page, work[w].rows, position, TRUE)
    BY <1>1, <1>6, <1>9, <2>1
  <2> QED BY <2>1, <2>2
<1>12. CASE NotionPage(w)
  <2>1. provider = "notion" /\ Receive(w, page, rows, position, Leaves(w))
    BY <1>2, <1>5, <1>12 DEF NotionPage
  <2>2. Page(w, page, rows, position, Leaves(w))
    BY <1>3, <1>6, <1>9, <2>1
  <2> QED BY <2>1, <2>2
<1>13. CASE JiraPage(w)
  <2>1. PICK from, to, pg :
          /\ from = work[w].position
          /\ to = (IF from + PageSize < Cardinality(listed) THEN from + PageSize ELSE Cardinality(listed))
          /\ pg = Slice(listed, from, to)
    OBVIOUS
  <2>2. provider = "jira" /\ Receive(w, pg, rows, from + PageSize, Len(pg) >= PageSize)
    BY <1>2, <1>13, <2>1 DEF JiraPage, Slice
  <2>3. from \in Nat
    BY <1>1, <2>1
  <2>0. /\ to \in Nat /\ to <= Cardinality(listed)
        /\ to = Cardinality(listed) \/ to = from + PageSize
    <3>1. Cardinality(listed) \in Nat /\ from + PageSize \in Nat
      BY <1>4, <2>3, FS_CardinalityType, IngestionAssumption
    <3> QED BY <2>1, <3>1
  <2>9. pg = Slice(listed, from, to)
    BY <2>1
  <2>4. pg \in Seq(Items) /\ ToSet(pg) \subseteq listed
    BY <2>0, <2>3, <2>9, OffsetPageIs
  <2>6. \A k, l \in 1 .. Len(pg) : pg[k] = pg[l] => k = l
    <3>1. Distinct(pg)
      BY <2>0, <2>3, <2>9, OffsetPageIs
    <3> QED BY <3>1 DEF Distinct
  <2>7. \A i \in listed : Rank(listed, i) > from =>
             \/ i \in ToSet(pg)
             \/ Rank(listed, i) > from + PageSize /\ Len(pg) >= PageSize /\ pg # <<>>
    BY <2>0, <2>3, <2>9, OffsetPageIs
  <2>8. from + PageSize \in Nat /\ (Len(pg) >= PageSize) \in BOOLEAN
    BY <2>0, <2>3, <2>9, OffsetPageIs
  <2>5. Page(w, pg, rows, from + PageSize, Len(pg) >= PageSize)
    BY <1>3, <2>1, <2>2, <2>4, <2>6, <2>7, <2>8 DEF Page, Ahead
  <2> QED BY <2>2, <2>5
<1>14. CASE FigmaPage(w)
  <2>1. PICK pg, c : pg = Newest(listed) /\ c = Cardinality(listed)
    OBVIOUS
  <2>2. provider = "figma" /\ Receive(w, pg, rows, Newer, FALSE)
    BY <1>2, <1>14, <2>1 DEF FigmaPage
  <2>3. /\ pg \in Seq(listed) /\ Len(pg) = c /\ c \in Nat
        /\ \A k \in 1 .. c : pg[k] \in listed /\ Rank(listed, pg[k]) = k
    BY <1>4, <2>1, NewestLists
  <2>4. \A i \in listed : i \in ToSet(pg)
    <3> SUFFICES ASSUME NEW i \in listed PROVE i \in ToSet(pg)
      OBVIOUS
    <3>1. PICK k : k = Rank(listed, i)
      OBVIOUS
    <3>2. k \in 1 .. c
      BY <1>4, <2>1, <3>1, RankBounds
    <3>3. pg[k] \in listed /\ Rank(listed, pg[k]) = Rank(listed, i)
      BY <2>3, <3>1, <3>2
    <3>4. pg[k] = i
      BY <1>4, <3>3, RankIsPlace
    <3> QED BY <2>3, <3>2, <3>4 DEF ToSet
  <2>5. pg \in Seq(Items) /\ ToSet(pg) \subseteq listed
    BY <1>4, <2>3 DEF ToSet
  <2>6. \A k, l \in 1 .. Len(pg) : pg[k] = pg[l] => k = l
    <3> SUFFICES ASSUME NEW k \in 1 .. c, NEW l \in 1 .. c, pg[k] = pg[l] PROVE k = l
      BY <2>3
    <3>1. Rank(listed, pg[k]) = k /\ Rank(listed, pg[l]) = l
      BY <2>3
    <3> QED BY <3>1
  <2>7. Newer \in Nat
    BY <1>4 DEF Newer
  <2>8. Page(w, pg, rows, Newer, FALSE)
    BY <1>3, <2>2, <2>4, <2>5, <2>6, <2>7 DEF Page
  <2> QED BY <2>2, <2>8
<1> QED BY <1>10, <1>11, <1>12, <1>13, <1>14

\* What a worker does with the page.
LEMMA ReceiveGoes ==
  ASSUME WorkTyped, NEW w \in Workers, NEW page, NEW rows, NEW position, NEW more,
         Receive(w, page, rows, position, more), Page(w, page, rows, position, more)
  PROVE  /\ work' = [work EXCEPT ![w] = work'[w]] /\ work'[w] \in Me
         /\ work'[w].integration = work[w].integration /\ work'[w].rows = rows
         /\ work'[w].position = position /\ work'[w].more = more
         /\ work'[w].page = page
         /\ work'[w].pc = IF page = <<>> THEN "done" ELSE "finding"
         /\ seen' = [seen EXCEPT ![w] = seen'[w]]
         /\ seen'[w] \in Seen /\ seen'[w].walked = seen[w].walked \cup ToSet(page)
         /\ seen'[w].steady = seen[w].steady /\ seen'[w].shifted = seen[w].shifted
         /\ UNCHANGED <<provider, posted, listed, failures>>
<1>1. PICK me : me = [work[w] EXCEPT !.page = page, !.rows = rows,
                                     !.position = position, !.more = more]
  OBVIOUS
<1>2. work[w] \in Me /\ seen[w] \in Seen
  BY DEF WorkTyped
<1>3. page \in Seq(Items) /\ rows \in Seq(Targets) /\ position \in Nat /\ more \in BOOLEAN
  BY DEF Page
<1>4. /\ me \in Me /\ me.integration = work[w].integration /\ me.rows = rows
      /\ me.position = position /\ me.more = more /\ me.page = page
  BY <1>1, <1>2, <1>3 DEF Me
<1>5. PICK m : m = IF page = <<>> THEN Ended(me) ELSE [me EXCEPT !.pc = "finding"]
  OBVIOUS
<1>6. /\ work' = [work EXCEPT ![w] = m] /\ UNCHANGED <<provider, posted, listed, failures>>
      /\ seen' = [seen EXCEPT ![w].walked = @ \cup ToSet(page),
                              ![w].connected = @ \cup ToSet(rows)]
  BY <1>1, <1>5 DEF Receive, Move, Goes
<1>7. /\ m \in Me /\ m.integration = me.integration /\ m.rows = me.rows
      /\ m.position = me.position /\ m.more = me.more /\ m.page = me.page
      /\ m.pc = IF page = <<>> THEN "done" ELSE "finding"
  <2>1. CASE page = <<>>
    BY <1>4, <1>5, <2>1, Ends DEF SameIngest
  <2>2. CASE page # <<>>
    BY <1>4, <1>5, <2>2 DEF Me, WorkerStates
  <2> QED BY <2>1, <2>2
<1>8. work'[w] = m
  BY <1>6 DEF WorkTyped
<1>9. PICK sn : sn = [seen[w] EXCEPT !.walked = @ \cup ToSet(page), !.connected = @ \cup ToSet(rows)]
  OBVIOUS
<1>10. seen' = [seen EXCEPT ![w] = sn] /\ seen'[w] = sn
  BY <1>6, <1>9 DEF WorkTyped
<1>11. ToSet(page) \subseteq Items /\ ToSet(rows) \subseteq Targets
  BY <1>3 DEF ToSet
<1>12. /\ sn \in Seen /\ sn.walked = seen[w].walked \cup ToSet(page)
       /\ sn.steady = seen[w].steady /\ sn.shifted = seen[w].shifted
  BY <1>2, <1>9, <1>11 DEF Seen
<1> QED BY <1>4, <1>6, <1>7, <1>8, <1>10, <1>12

-----------------------------------------------------------------------------
\* Where each step leads, and what it leaves alone.

\* The worker w goes to m.
Moved(w, m) ==
  /\ m \in Me /\ work' = [work EXCEPT ![w] = m] /\ work'[w] = m
  /\ UNCHANGED <<provider, posted, listed>>
  /\ failures' \in 0 .. MaxFailures /\ failures' >= failures /\ failures \in Nat
  /\ failures' \in Nat

\* A step that fails counts, another does not.
LEMMA FailsCount ==
  ASSUME TablesTyped, Fails \/ Goes
  PROVE  /\ failures' \in 0 .. MaxFailures /\ failures' >= failures /\ failures \in Nat
         /\ failures' \in Nat /\ (Fails => failures' > 0) /\ (Goes => failures' = failures)
  BY IngestionAssumption DEF TablesTyped, Fails, Goes

\* A move of one worker.
LEMMA MoveGoes ==
  ASSUME TablesTyped, WorkTyped, NEW w \in Workers, NEW m \in Me, Move(w, m), Fails \/ Goes
  PROVE  Moved(w, m)
  BY FailsCount DEF Move, Moved, WorkTyped

\* A delivery starts.
LEMMA DeliverGoes ==
  ASSUME TablesTyped, WorkTyped, NEW w \in Workers, NEW i \in Items, Deliver(w, i)
  PROVE  \E m : /\ Moved(w, m) /\ m.pc = "storing" /\ m.page = <<i>> /\ ~m.more
                /\ work[w].pc = "idle" /\ provider = "github"
                /\ UNCHANGED <<tables, events, seen, failures>>
<1>1. PICK m : m = [Idle EXCEPT !.pc = "storing", !.page = <<i>>]
  OBVIOUS
<1>2. <<>> \in Seq(Items) /\ <<>> \in Seq(Targets) /\ <<i>> \in Seq(Items)
  BY EmptySeq
<1>3. m \in Me /\ m.pc = "storing" /\ m.page = <<i>> /\ ~m.more
  BY <1>1, <1>2 DEF Me, Idle, WorkerStates
<1>4. Move(w, m) /\ Goes /\ work[w].pc = "idle" /\ provider = "github"
      /\ UNCHANGED <<tables, events, seen, failures>>
  BY <1>1 DEF Deliver, Goes
<1> QED BY <1>3, <1>4, MoveGoes

\* The payload is stored, or the delivery fails.
LEMMA StoreGoes ==
  ASSUME TablesTyped, WorkTyped, NEW w \in Workers, Placed(w), StoreWebhook(w)
  PROVE  \E m : /\ Moved(w, m) /\ work[w].pc = "storing" /\ SameIngest(work[w], m)
                /\ \/ m.pc = "looking" /\ m.page = work[w].page
                   \/ m.pc = "failed" /\ m.page = <<>> /\ failures' > 0
                /\ UNCHANGED <<tables, events, seen>>
<1>1. work[w] \in Me
  BY DEF WorkTyped
<1>2. PICK m : m = [work[w] EXCEPT !.pc = "looking"]
  OBVIOUS
<1>3. m \in Me /\ SameIngest(work[w], m) /\ m.pc = "looking" /\ m.page = work[w].page
  BY <1>1, <1>2 DEF Me, SameIngest, WorkerStates
<1>4. CASE Goes /\ Move(w, m)
  BY <1>3, <1>4, MoveGoes DEF StoreWebhook
<1>5. CASE Fails /\ Move(w, Failed(work[w]))
  BY <1>1, <1>5, Ends, MoveGoes, FailsCount DEF StoreWebhook
<1> QED BY <1>2, <1>4, <1>5 DEF StoreWebhook

\* An integration is found, or none, or the delivery fails.
LEMMA LookUpGoes ==
  ASSUME TablesTyped, WorkTyped, NEW w \in Workers, Placed(w), LookUp(w)
  PROVE  \E m : /\ Moved(w, m) /\ work[w].pc = "looking" /\ m.more = work[w].more
                /\ \/ /\ m.pc \in {"done", "failed"} /\ m.page = <<>> /\ seen' = seen
                      /\ m.integration = work[w].integration
                      /\ m.pc = "failed" => failures' > 0
                   \/ /\ m.pc = "finding" /\ m.page = work[w].page
                      /\ m.integration \in Integrations
                      /\ seen'[w].walked = ToSet(m.page)
                      /\ seen' = [seen EXCEPT ![w] = seen'[w]] /\ seen'[w] \in Seen
                      /\ seen'[w].steady = seen[w].steady
                /\ UNCHANGED <<tables, events>>
<1>1. work[w] \in Me /\ seen[w] \in Seen /\ work[w].pc = "looking" /\ UNCHANGED <<tables, events>>
  BY DEF WorkTyped, LookUp
<1>2. CASE Goes /\ Move(w, Ended(work[w])) /\ UNCHANGED seen
  <2>1. Moved(w, Ended(work[w]))
    BY <1>1, <1>2, Ends, MoveGoes
  <2> QED BY <1>1, <1>2, <2>1, Ends DEF SameIngest
<1>3. CASE Fails /\ Move(w, Failed(work[w])) /\ UNCHANGED seen
  <2>1. Moved(w, Failed(work[w]))
    BY <1>1, <1>3, Ends, MoveGoes
  <2> QED BY <1>1, <1>3, <2>1, Ends, FailsCount DEF SameIngest
<1>4. CASE /\ Goes
           /\ \E n \in linked :
                Move(w, [work[w] EXCEPT !.pc = "finding", !.integration = n,
                           !.rows = IF connections[n] = <<>> THEN <<Unassigned>>
                                    ELSE connections[n]])
           /\ seen' = [seen EXCEPT ![w].walked = ToSet(work[w].page),
                         ![w].connected = UNION {ToSet(connections[n]) : n \in linked}]
  <2>1. PICK n \in linked :
          Move(w, [work[w] EXCEPT !.pc = "finding", !.integration = n,
                     !.rows = IF connections[n] = <<>> THEN <<Unassigned>> ELSE connections[n]])
    BY <1>4
  <2>2. PICK rows : rows = IF connections[n] = <<>> THEN <<Unassigned>> ELSE connections[n]
    OBVIOUS
  <2>3. n \in Integrations /\ \A x \in linked : connections[x] \in Seq(Projects)
    BY <2>1 DEF TablesTyped
  <2>4. rows \in Seq(Targets)
    <3>1. connections[n] \in Seq(Targets)
      <4>1. Projects \subseteq Targets /\ connections[n] \in Seq(Projects)
        BY <2>3 DEF Targets
      <4> QED BY <4>1
    <3>2. <<Unassigned>> \in Seq(Targets)
      BY DEF Targets
    <3> QED BY <2>2, <3>1, <3>2
  <2>5. PICK m : m = [work[w] EXCEPT !.pc = "finding", !.integration = n, !.rows = rows]
    OBVIOUS
  <2>6. /\ m \in Me /\ m.pc = "finding" /\ m.page = work[w].page /\ m.integration = n
        /\ m.more = work[w].more
    BY <1>1, <2>3, <2>4, <2>5 DEF Me, WorkerStates
  <2>7. Move(w, m)
    BY <2>1, <2>2, <2>5
  <2>8. Moved(w, m)
    BY <1>4, <2>6, <2>7, MoveGoes
  <2>9. PICK sn : sn = [seen[w] EXCEPT !.walked = ToSet(work[w].page),
                          !.connected = UNION {ToSet(connections[x]) : x \in linked}]
    OBVIOUS
  <2>10. seen' = [seen EXCEPT ![w] = sn] /\ seen'[w] = sn
    BY <1>4, <2>9 DEF WorkTyped
  <2>11. ToSet(work[w].page) \subseteq Items
    BY <1>1 DEF Me, ToSet
  <2>12. UNION {ToSet(connections[x]) : x \in linked} \subseteq Targets
    BY <2>3 DEF ToSet, Targets
  <2>13. sn \in Seen /\ sn.walked = ToSet(work[w].page) /\ sn.steady = seen[w].steady
    BY <1>1, <2>9, <2>11, <2>12 DEF Seen
  <2> QED BY <1>1, <2>3, <2>6, <2>8, <2>10, <2>13
<1> QED BY <1>2, <1>3, <1>4 DEF LookUp

\* An ingest starts.
LEMMA BeginGoes ==
  ASSUME TablesTyped, WorkTyped, NEW w \in Workers, NEW n \in Integrations, Begin(w, n)
  PROVE  \E m : /\ Moved(w, m) /\ m.pc = "fetching" /\ m.page = <<>> /\ m.integration = n
                /\ m.position = (IF provider = "jira" THEN 0 ELSE MaxItem + 1)
                /\ work[w].pc = "idle" /\ provider # "github"
                /\ seen' = [seen EXCEPT ![w] = seen'[w]] /\ seen'[w] \in Seen
                /\ seen'[w].walked = seen[w].walked
                /\ seen'[w].steady = listed /\ seen'[w].shifted = FALSE
                /\ UNCHANGED <<tables, events, failures>>
<1>1. PICK asked, rows :
        /\ asked \in {Unassigned} \cup {p \in Projects : Home[p] = n}
        /\ rows = CASE provider \in {"slack", "discord"} -> RowsFor(n, asked) [] OTHER -> <<>>
        /\ Move(w, [Idle EXCEPT !.pc = "fetching", !.integration = n, !.rows = rows,
                      !.position = IF provider = "jira" THEN 0 ELSE Newer])
  BY DEF Begin
<1>2. <<>> \in Seq(Items) /\ <<>> \in Seq(Targets)
  BY EmptySeq
<1>3. RowsFor(n, asked) \in Seq(Targets)
  <2>1. PICK s : s = connections[n]
    OBVIOUS
  <2>2. s \in Seq(Targets)
    <3>1. Projects \subseteq Targets /\ s \in Seq(Projects)
      BY <2>1 DEF Targets, TablesTyped
    <3> QED BY <3>1
  <2>3. PICK times : times = Cardinality({k \in DOMAIN s : s[k] = asked})
    OBVIOUS
  <2>4. times \in Nat
    <3>1. Len(s) \in Nat /\ DOMAIN s = 1 .. Len(s)
      BY <2>2
    <3>2. IsFiniteSet(1 .. Len(s)) /\ {k \in DOMAIN s : s[k] = asked} \in SUBSET (1 .. Len(s))
      BY <3>1, FS_Interval
    <3> QED BY <2>3, <3>2, FS_Subset, FS_CardinalityType
  <2>5. PICK c : c = IF times = 0 THEN 1 ELSE times
    OBVIOUS
  <2>6. c \in Nat
    BY <2>4, <2>5
  <2>7. asked \in Targets
    BY <1>1 DEF Targets
  <2>8. [k \in 1 .. c |-> asked] \in Seq(Targets)
    BY <2>6, <2>7
  <2>9. RowsFor(n, asked) = IF asked = Unassigned THEN s ELSE [k \in 1 .. c |-> asked]
    BY <2>1, <2>3, <2>5 DEF RowsFor
  <2> QED BY <2>2, <2>8, <2>9
<1>4. rows \in Seq(Targets)
  BY <1>1, <1>2, <1>3
<1>5. MaxItem + 1 \in Nat
  BY IngestionAssumption
<1>6. PICK m, pos : /\ pos = IF provider = "jira" THEN 0 ELSE MaxItem + 1
                    /\ m = [Idle EXCEPT !.pc = "fetching", !.integration = n, !.rows = rows,
                              !.position = pos]
  OBVIOUS
<1>7. m \in Me /\ m.pc = "fetching" /\ m.page = <<>> /\ m.integration = n /\ m.position = pos
  <2>1. pos \in Nat
    BY <1>5, <1>6
  <2> QED BY <1>2, <1>4, <1>6, <2>1 DEF Me, Idle, WorkerStates
<1>8. Move(w, m)
  BY <1>1, <1>6 DEF Newer
<1>9. Moved(w, m)
  <2>1. Goes
    BY DEF Begin, Goes
  <2> QED BY <1>7, <1>8, <2>1, MoveGoes
<1>10. PICK sn : sn = [seen[w] EXCEPT !.steady = listed, !.shifted = FALSE]
  OBVIOUS
<1>11. seen[w] \in Seen /\ listed \in SUBSET Items
  BY ListedTyped DEF WorkTyped
<1>12. sn \in Seen /\ sn.walked = seen[w].walked /\ sn.steady = listed /\ sn.shifted = FALSE
  BY <1>10, <1>11 DEF Seen
<1>13. seen' = [seen EXCEPT ![w] = sn] /\ seen'[w] = sn
  BY <1>10 DEF Begin, WorkTyped
<1> QED BY <1>6, <1>7, <1>9, <1>12, <1>13 DEF Begin

-----------------------------------------------------------------------------
\* What may happen to one worker in a step, its own or another's.

Untouched(v) == events'[v] = events[v] /\ seen'[v] = seen[v]

\* It stays where it is, and the provider may have more things, or one thing less.
Stays(v) ==
  /\ work'[v] = work[v] /\ events'[v] = events[v]
  /\ \/ seen'[v] = seen[v] /\ listed' \in {listed, listed \cup {posted + 1}}
     \/ \E i \in listed :
          /\ listed' = listed \ {i}
          /\ seen'[v] = [seen[v] EXCEPT !.steady = @ \ {i},
                                        !.shifted = @ \/ work[v].pc # "idle"]

Delivered(v) ==
  /\ work[v].pc = "idle" /\ work'[v].pc = "storing" /\ provider = "github"
  /\ Len(work'[v].page) = 1 /\ work'[v].page # <<>> /\ ~work'[v].more /\ Untouched(v)

Stored(v) ==
  /\ work[v].pc = "storing" /\ work'[v].pc = "looking"
  /\ work'[v].page = work[v].page /\ SameIngest(work[v], work'[v]) /\ Untouched(v)

\* A failure ends it.
Stopped(v) ==
  /\ work[v].pc \notin {"idle", "done"} /\ work'[v].pc = "failed"
  /\ work'[v].integration = work[v].integration /\ failures' > 0 /\ Untouched(v)

NoneLinked(v) ==
  work[v].pc = "looking" /\ work'[v].pc = "done" /\ work'[v].page = <<>> /\ Untouched(v)

Found(v) ==
  /\ work[v].pc = "looking" /\ work'[v].pc = "finding"
  /\ work'[v].page = work[v].page /\ work'[v].more = work[v].more
  /\ work'[v].integration \in Integrations
  /\ seen'[v].walked = ToSet(work'[v].page) /\ events'[v] = events[v]

Began(v) ==
  /\ work[v].pc = "idle" /\ work'[v].pc = "fetching" /\ provider # "github"
  /\ work'[v].page = <<>> /\ work'[v].integration \in Integrations
  /\ work'[v].position = (IF provider = "jira" THEN 0 ELSE MaxItem + 1)
  /\ seen'[v].walked = seen[v].walked /\ seen'[v].steady = listed /\ events'[v] = events[v]

Received(v) ==
  /\ work[v].pc = "fetching" /\ provider # "github"
  /\ work'[v].pc = (IF work'[v].page = <<>> THEN "done" ELSE "finding")
  /\ work'[v].integration = work[v].integration
  /\ Page(v, work'[v].page, work'[v].rows, work'[v].position, work'[v].more)
  /\ seen'[v].walked = seen[v].walked \cup ToSet(work'[v].page)
  /\ seen'[v].steady = seen[v].steady /\ seen'[v].shifted = seen[v].shifted
  /\ events'[v] = events[v]

Searched(v) ==
  /\ work[v].pc \in {"finding", "creating"} /\ work'[v].pc \in {"creating", "mapping"}
  /\ Author(v) \in Authors
  /\ work'[v].page = work[v].page /\ SameIngest(work[v], work'[v]) /\ Untouched(v)

\* The author is not known and there is a reason, or the row is credited by the map.
Credited(v, author, member) ==
  \/ /\ author = NoAuthor /\ member = NoMember
     /\ Author(v) = NoAuthor \/ failures' > 0 \/ Identity(v) \in identities
  \/ author = Author(v) /\ Author(v) \in Authors /\ member = mapping[Identity(v)]

Settled(v) ==
  /\ work[v].pc \in {"finding", "creating", "mapping"} /\ Untouched(v)
  /\ \E author \in Authors \cup {NoAuthor}, member \in Members \cup {NoMember} :
       /\ AuthorSettled(work[v], work'[v], author, member)
       /\ Credited(v, author, member)

Wrote(v) ==
  /\ work[v].pc = "writing" /\ seen'[v] = seen[v]
  /\ NewEvent(v) \in EventType /\ events'[v] = Append(events[v], NewEvent(v))
  /\ \/ Head(work[v].left) = Unassigned /\ ProjectOver(work[v], work'[v])
     \/ Head(work[v].left) # Unassigned /\ work'[v] = [work[v] EXCEPT !.pc = "processing"]

Skipped(v) ==
  /\ work[v].pc = "writing" /\ failures' > 0 /\ provider \notin Stops
  /\ ProjectOver(work[v], work'[v]) /\ Untouched(v)

Processed(v) ==
  /\ work[v].pc = "processing" /\ ProjectOver(work[v], work'[v]) /\ seen'[v] = seen[v]
  /\ \/ /\ events'[v] = [events[v] EXCEPT ![Len(events[v])].processedByLLM = TRUE]
        /\ ~NotSummarizable(Head(work[v].page))
     \/ events'[v] = events[v] /\ (failures' > 0 \/ NotSummarizable(Head(work[v].page)))

Acts(v) ==
  \/ Delivered(v) \/ Stored(v) \/ Stopped(v) \/ NoneLinked(v) \/ Found(v)
  \/ Began(v) \/ Received(v) \/ Searched(v) \/ Settled(v)
  \/ Wrote(v) \/ Skipped(v) \/ Processed(v)

\* Failures are counted, and identities and entries of the map stay on record.
Grows ==
  /\ provider' = provider /\ failures \in Nat /\ failures' \in Nat /\ failures' >= failures
  /\ identities \subseteq identities' /\ mapped \subseteq mapped'

\* A step of the worker w alone.
ActsAlone(w) ==
  /\ Acts(w) /\ Grows /\ listed' = listed /\ posted' = posted
  /\ work' = [work EXCEPT ![w] = work'[w]] /\ work'[w] \in Me
  /\ seen' = [seen EXCEPT ![w] = seen'[w]] /\ seen'[w] \in Seen
  /\ events' = [events EXCEPT ![w] = events'[w]] /\ events'[w] \in Seq(EventType)
  /\ linked' = linked /\ connections' = connections /\ mapping' = mapping /\ mapped' = mapped
  /\ identities' \subseteq Identities /\ failures' \in 0 .. MaxFailures

\* A worker that goes to m, writes its own rows and may make an identity.
LEMMA MovesWith ==
  ASSUME TablesTyped, WorkTyped, NEW w \in Workers, NEW m, Moved(w, m), Acts(w),
         seen' = [seen EXCEPT ![w] = seen'[w]], seen'[w] \in Seen,
         events' = [events EXCEPT ![w] = events'[w]], events'[w] \in Seq(EventType),
         UNCHANGED <<linked, connections, mapping, mapped>>,
         identities \subseteq identities', identities' \subseteq Identities
  PROVE  ActsAlone(w)
<1>1. /\ work' = [work EXCEPT ![w] = work'[w]] /\ work'[w] \in Me
      /\ listed' = listed /\ posted' = posted /\ provider' = provider
      /\ failures \in Nat /\ failures' \in Nat /\ failures' >= failures
      /\ failures' \in 0 .. MaxFailures
  BY DEF Moved
<1> QED BY <1>1 DEF ActsAlone, Grows

\* Tables that are left alone keep their identities.
LEMMA TablesStay ==
  ASSUME TablesTyped, UNCHANGED tables
  PROVE  /\ UNCHANGED <<linked, connections, mapping, mapped>>
         /\ identities \subseteq identities' /\ identities' \subseteq Identities
BY DEF tables, TablesTyped

\* What a worker did not write is as it was.
LEMMA RowsStay ==
  ASSUME WorkTyped, NEW w \in Workers
  PROVE  /\ seen' = seen => seen' = [seen EXCEPT ![w] = seen'[w]] /\ seen'[w] \in Seen
         /\ events' = events =>
              events' = [events EXCEPT ![w] = events'[w]] /\ events'[w] \in Seq(EventType)
BY DEF WorkTyped

\* Most steps change the worker's place only.
LEMMA MovesAlone ==
  ASSUME TablesTyped, WorkTyped, NEW w \in Workers, NEW m, Moved(w, m), Acts(w),
         UNCHANGED <<tables, events, seen>>
  PROVE  ActsAlone(w)
<1>1. /\ seen' = [seen EXCEPT ![w] = seen'[w]] /\ seen'[w] \in Seen
      /\ events' = [events EXCEPT ![w] = events'[w]] /\ events'[w] \in Seq(EventType)
  BY RowsStay
<1>2. /\ UNCHANGED <<linked, connections, mapping, mapped>>
      /\ identities \subseteq identities' /\ identities' \subseteq Identities
  BY TablesStay
<1> QED BY <1>1, <1>2, MovesWith

\* A delivery starts.
LEMMA DeliverActs ==
  ASSUME TablesTyped, WorkTyped, NEW w \in Workers, NEW i \in Items, Deliver(w, i)
  PROVE  ActsAlone(w)
<1>1. PICK m : /\ Moved(w, m) /\ m.pc = "storing" /\ m.page = <<i>> /\ ~m.more
               /\ work[w].pc = "idle" /\ provider = "github"
               /\ UNCHANGED <<tables, events, seen, failures>>
  BY DeliverGoes
<1>2. Delivered(w)
  <2>1. Len(<<i>>) = 1 /\ <<i>> # <<>>
    OBVIOUS
  <2> QED BY <1>1, <2>1 DEF Delivered, Moved, Untouched
<1> QED BY <1>1, <1>2, MovesAlone DEF Acts

\* handleWebhook stores the payload.
LEMMA StoreActs ==
  ASSUME TablesTyped, WorkTyped, NEW w \in Workers, Placed(w), StoreWebhook(w)
  PROVE  ActsAlone(w)
<1>1. PICK m : /\ Moved(w, m) /\ work[w].pc = "storing" /\ SameIngest(work[w], m)
               /\ \/ m.pc = "looking" /\ m.page = work[w].page
                  \/ m.pc = "failed" /\ m.page = <<>> /\ failures' > 0
               /\ UNCHANGED <<tables, events, seen>>
  BY StoreGoes
<1>2. Stored(w) \/ Stopped(w)
  BY <1>1 DEF Stored, Stopped, SameIngest, Moved, Untouched
<1> QED BY <1>1, <1>2, MovesAlone DEF Acts

\* handleWebhook looks for the integration.
LEMMA LookUpActs ==
  ASSUME TablesTyped, WorkTyped, NEW w \in Workers, Placed(w), LookUp(w)
  PROVE  ActsAlone(w)
<1>1. PICK m : /\ Moved(w, m) /\ work[w].pc = "looking" /\ m.more = work[w].more
               /\ \/ /\ m.pc \in {"done", "failed"} /\ m.page = <<>> /\ seen' = seen
                     /\ m.integration = work[w].integration
                     /\ m.pc = "failed" => failures' > 0
                  \/ /\ m.pc = "finding" /\ m.page = work[w].page
                     /\ m.integration \in Integrations
                     /\ seen'[w].walked = ToSet(m.page)
                     /\ seen' = [seen EXCEPT ![w] = seen'[w]] /\ seen'[w] \in Seen
               /\ UNCHANGED <<tables, events>>
  BY LookUpGoes
<1>2. CASE seen' = seen /\ m.pc # "finding"
  <2>1. NoneLinked(w) \/ Stopped(w)
    BY <1>1, <1>2 DEF NoneLinked, Stopped, Moved, Untouched
  <2> QED BY <1>1, <1>2, <2>1, MovesAlone DEF Acts
<1>3. CASE m.pc = "finding"
  <2>1. Found(w) /\ seen' = [seen EXCEPT ![w] = seen'[w]] /\ seen'[w] \in Seen
    BY <1>1, <1>3 DEF Found, Moved
  <2>2. events' = [events EXCEPT ![w] = events'[w]] /\ events'[w] \in Seq(EventType)
    BY <1>1, RowsStay
  <2>3. /\ UNCHANGED <<linked, connections, mapping, mapped>>
        /\ identities \subseteq identities' /\ identities' \subseteq Identities
    BY <1>1, TablesStay
  <2> QED BY <1>1, <2>1, <2>2, <2>3, MovesWith DEF Acts
<1> QED BY <1>1, <1>2, <1>3

\* An ingest starts.
LEMMA BeginActs ==
  ASSUME TablesTyped, WorkTyped, NEW w \in Workers, NEW n \in Integrations, Begin(w, n)
  PROVE  ActsAlone(w)
<1>1. PICK m : /\ Moved(w, m) /\ m.pc = "fetching" /\ m.page = <<>> /\ m.integration = n
               /\ m.position = (IF provider = "jira" THEN 0 ELSE MaxItem + 1)
               /\ work[w].pc = "idle" /\ provider # "github"
               /\ seen' = [seen EXCEPT ![w] = seen'[w]] /\ seen'[w] \in Seen
               /\ seen'[w].walked = seen[w].walked
               /\ seen'[w].steady = listed /\ seen'[w].shifted = FALSE
               /\ UNCHANGED <<tables, events, failures>>
  BY BeginGoes
<1>2. Began(w)
  BY <1>1 DEF Began, Moved
<1>3. events' = [events EXCEPT ![w] = events'[w]] /\ events'[w] \in Seq(EventType)
  BY <1>1, RowsStay
<1>4. /\ UNCHANGED <<linked, connections, mapping, mapped>>
      /\ identities \subseteq identities' /\ identities' \subseteq Identities
  BY <1>1, TablesStay
<1> QED BY <1>1, <1>2, <1>3, <1>4, MovesWith DEF Acts

\* A page comes, or does not.
LEMMA FetchActs ==
  ASSUME TablesTyped, WorkTyped, NEW w \in Workers, Placed(w), Fetch(w)
  PROVE  ActsAlone(w)
<1>1. work[w] \in Me /\ work[w].pc = "fetching" /\ UNCHANGED <<tables, events>>
      /\ provider # "github"
  BY DEF WorkTyped, Fetch, Placed
<1>2. CASE Fails /\ Move(w, Failed(work[w])) /\ UNCHANGED seen
  <2>1. PICK m : m = Failed(work[w])
    OBVIOUS
  <2>2. m \in Me /\ SameIngest(work[w], m) /\ m.pc = "failed"
    BY <1>1, <2>1, Ends
  <2>3. Moved(w, m)
    BY <1>2, <2>1, <2>2, MoveGoes
  <2>4. Stopped(w)
    BY <1>1, <1>2, <2>2, <2>3, FailsCount DEF Stopped, SameIngest, Moved, Untouched
  <2> QED BY <1>1, <1>2, <2>3, <2>4, MovesAlone DEF Acts
<1>3. CASE SlackPage(w) \/ DiscordPage(w) \/ NotionPage(w) \/ JiraPage(w) \/ FigmaPage(w)
  <2>1. PICK page, rows, position, more :
          Receive(w, page, rows, position, more) /\ Page(w, page, rows, position, more)
    BY <1>1, <1>3, FetchReceives
  <2>2. /\ work' = [work EXCEPT ![w] = work'[w]] /\ work'[w] \in Me
        /\ work'[w].integration = work[w].integration /\ work'[w].rows = rows
        /\ work'[w].position = position /\ work'[w].more = more
        /\ work'[w].page = page
        /\ work'[w].pc = IF page = <<>> THEN "done" ELSE "finding"
    BY <2>1, ReceiveGoes
  <2>3. /\ seen' = [seen EXCEPT ![w] = seen'[w]]
        /\ seen'[w] \in Seen /\ seen'[w].walked = seen[w].walked \cup ToSet(page)
        /\ seen'[w].steady = seen[w].steady /\ seen'[w].shifted = seen[w].shifted
        /\ UNCHANGED <<provider, posted, listed, failures>>
    BY <2>1, ReceiveGoes
  <2>4. Received(w)
    BY <1>1, <2>1, <2>2, <2>3 DEF Received
  <2>5. /\ events' = [events EXCEPT ![w] = events'[w]] /\ events'[w] \in Seq(EventType)
    BY <1>1 DEF WorkTyped
  <2>6. failures \in Nat /\ failures \in 0 .. MaxFailures
    BY IngestionAssumption DEF TablesTyped
  <2>7. /\ linked' = linked /\ connections' = connections /\ mapping' = mapping /\ mapped' = mapped
        /\ identities' = identities /\ identities \subseteq Identities
    BY <1>1 DEF tables, TablesTyped
  <2> QED BY <2>2, <2>3, <2>4, <2>5, <2>6, <2>7 DEF ActsAlone, Grows, Acts
<1> QED BY <1>2, <1>3 DEF Fetch

\* A worker whose author is settled.
LEMMA SettledMoves ==
  ASSUME TablesTyped, WorkTyped, NEW w \in Workers, work[w].page # <<>>,
         NEW author \in Authors \cup {NoAuthor}, NEW member \in Members \cup {NoMember},
         Move(w, ToProjects(work[w], author, member)), Fails \/ Goes,
         work[w].pc \in {"finding", "creating", "mapping"}, Credited(w, author, member),
         UNCHANGED <<tables, events, seen>>
  PROVE  ActsAlone(w)
<1>1. work[w] \in Me
  BY DEF WorkTyped
<1>2. PICK m : m = ToProjects(work[w], author, member)
  OBVIOUS
<1>3. AuthorSettled(work[w], m, author, member)
  BY <1>1, <1>2, ToProjectsGoes
<1>4. Moved(w, m)
  <2>1. m \in Me
    BY <1>3 DEF AuthorSettled, ItemOver
  <2> QED BY <1>2, <2>1, MoveGoes
<1>5. Settled(w)
  <2>1. work'[w] = m
    BY <1>4 DEF Moved
  <2> QED BY <1>3, <2>1 DEF Settled, Untouched
<1> QED BY <1>4, <1>5, MovesAlone DEF Acts

\* A worker that goes on without an author.
LEMMA UnattributedMoves ==
  ASSUME TablesTyped, WorkTyped, NEW w \in Workers, work[w].page # <<>>,
         Move(w, Unattributed(w)), Fails \/ Goes,
         work[w].pc \in {"finding", "creating", "mapping"},
         Author(w) = NoAuthor \/ Fails \/ Identity(w) \in identities,
         UNCHANGED <<tables, events, seen>>
  PROVE  ActsAlone(w)
<1>1. Fails => failures' > 0
  BY FailsCount
<1>2. Credited(w, NoAuthor, NoMember)
  BY <1>1 DEF Credited
<1> QED BY <1>2, SettledMoves DEF Unattributed

\* A worker that goes on looking for the author.
LEMMA SearchMoves ==
  ASSUME TablesTyped, WorkTyped, NEW w \in Workers, Goes,
         NEW pc \in {"creating", "mapping"}, Move(w, [work[w] EXCEPT !.pc = pc])
  PROVE  \E m : Moved(w, m) /\ m.pc = pc /\ m.page = work[w].page /\ SameIngest(work[w], m)
<1>1. work[w] \in Me
  BY DEF WorkTyped
<1>2. PICK m : m = [work[w] EXCEPT !.pc = pc]
  OBVIOUS
<1>3. m \in Me /\ m.pc = pc /\ m.page = work[w].page /\ SameIngest(work[w], m)
  BY <1>1, <1>2 DEF Me, SameIngest, WorkerStates
<1>4. Moved(w, m)
  BY <1>2, <1>3, MoveGoes
<1> QED BY <1>3, <1>4

\* resolveAuthorIdentity looks for the identity.
LEMMA FindActs ==
  ASSUME TablesTyped, WorkTyped, NEW w \in Workers, Placed(w), FindIdentity(w)
  PROVE  ActsAlone(w)
<1>1. /\ work[w].pc = "finding" /\ work[w].page # <<>> /\ UNCHANGED <<tables, events, seen>>
      /\ Author(w) \in Authors \cup {NoAuthor}
  <2>1. work[w].pc = "finding" /\ work[w].page # <<>> /\ UNCHANGED <<tables, events, seen>>
    BY DEF FindIdentity, Placed, Walking
  <2> QED BY <2>1, AtThing
<1>2. CASE Goes /\ Author(w) = NoAuthor /\ Move(w, Unattributed(w))
  BY <1>1, <1>2, UnattributedMoves
<1>3. CASE Fails /\ Author(w) # NoAuthor /\ Move(w, Unattributed(w))
  BY <1>1, <1>3, UnattributedMoves
<1>4. CASE \E pc \in {"creating", "mapping"} :
             Goes /\ Author(w) # NoAuthor /\ Move(w, [work[w] EXCEPT !.pc = pc])
  <2>1. PICK pc \in {"creating", "mapping"} :
             Goes /\ Author(w) # NoAuthor /\ Move(w, [work[w] EXCEPT !.pc = pc])
    BY <1>4
  <2>2. PICK m : Moved(w, m) /\ m.pc = pc /\ m.page = work[w].page /\ SameIngest(work[w], m)
    BY <2>1, SearchMoves
  <2>3. Searched(w)
    BY <1>1, <2>1, <2>2 DEF Searched, Moved, Untouched
  <2> QED BY <1>1, <2>2, <2>3, MovesAlone DEF Acts
<1> QED BY <1>2, <1>3, <1>4 DEF FindIdentity

\* resolveAuthorIdentity creates the identity.
LEMMA CreateActs ==
  ASSUME TablesTyped, WorkTyped, NEW w \in Workers, Placed(w), CreateIdentity(w)
  PROVE  ActsAlone(w)
<1>1. /\ work[w].pc = "creating" /\ work[w].page # <<>> /\ Author(w) \in Authors
      /\ UNCHANGED <<linked, connections, mapping, mapped, events, seen>>
      /\ work[w].integration \in Integrations
  BY DEF CreateIdentity, Placed, Walking
<1>2. CASE Fails /\ Move(w, Unattributed(w)) /\ UNCHANGED identities
  BY <1>1, <1>2, UnattributedMoves DEF tables
<1>3. CASE Goes /\ Identity(w) \in identities /\ Move(w, Unattributed(w)) /\ UNCHANGED identities
  BY <1>1, <1>3, UnattributedMoves DEF tables
<1>4. CASE /\ Goes /\ Identity(w) \notin identities
           /\ identities' = identities \cup {Identity(w)}
           /\ Move(w, [work[w] EXCEPT !.pc = "mapping"])
  <2>1. PICK pc \in {"creating", "mapping"} : pc = "mapping"
    OBVIOUS
  <2>2. PICK m : Moved(w, m) /\ m.pc = pc /\ m.page = work[w].page /\ SameIngest(work[w], m)
    BY <1>4, <2>1, SearchMoves
  <2>3. Searched(w)
    BY <1>1, <2>1, <2>2 DEF Searched, Moved, Untouched
  <2>4. Identity(w) \in Identities /\ identities \subseteq Identities
    BY <1>1 DEF Identity, Identities, TablesTyped
  <2>5. /\ seen' = [seen EXCEPT ![w] = seen'[w]] /\ seen'[w] \in Seen
        /\ events' = [events EXCEPT ![w] = events'[w]] /\ events'[w] \in Seq(EventType)
    BY <1>1, RowsStay
  <2>6. identities \subseteq identities' /\ identities' \subseteq Identities
    BY <1>4, <2>4
  <2> QED BY <1>1, <2>2, <2>3, <2>5, <2>6, MovesWith DEF Acts
<1> QED BY <1>2, <1>3, <1>4 DEF CreateIdentity

\* resolveAuthorIdentity reads the map.
LEMMA MappingActs ==
  ASSUME TablesTyped, WorkTyped, NEW w \in Workers, Placed(w), ReadMapping(w)
  PROVE  ActsAlone(w)
<1>1. /\ work[w].pc = "mapping" /\ work[w].page # <<>> /\ Author(w) \in Authors
      /\ UNCHANGED <<tables, events, seen>> /\ work[w].integration \in Integrations
  BY DEF ReadMapping, Placed, Walking
<1>2. CASE Fails /\ Move(w, Unattributed(w))
  BY <1>1, <1>2, UnattributedMoves
<1>3. CASE Goes /\ Move(w, ToProjects(work[w], Author(w), mapping[Identity(w)]))
  <2>1. mapping[Identity(w)] \in Members \cup {NoMember}
    <3>1. Identity(w) \in Identities
      BY <1>1 DEF Identity, Identities
    <3> QED BY <3>1 DEF TablesTyped
  <2>2. PICK author, member : author = Author(w) /\ member = mapping[Identity(w)]
    OBVIOUS
  <2>3. Credited(w, author, member)
    BY <1>1, <2>2 DEF Credited
  <2> QED BY <1>1, <1>3, <2>1, <2>2, <2>3, SettledMoves
<1> QED BY <1>2, <1>3 DEF ReadMapping

\* The row that is written is a row.
LEMMA NewEventTyped ==
  ASSUME WorkTyped, NEW w \in Workers, work[w].page # <<>>, work[w].left # <<>>
  PROVE  /\ NewEvent(w) \in EventType /\ Head(work[w].left) \in Targets
         /\ Head(work[w].left) = work[w].left[1]
<1>1. work[w] \in Me
  BY DEF WorkTyped
<1>2. Head(work[w].page) \in Items
  BY AtThing
<1>3. work[w].left \in Seq(Targets)
  BY <1>1 DEF Me
<1>4. Head(work[w].left) \in Targets /\ Head(work[w].left) = work[w].left[1]
  BY <1>3
<1> QED BY <1>1, <1>2, <1>4 DEF NewEvent, EventType, Me, Targets

\* The next place after a row is a place.
LEMMA ProjectOverTyped ==
  ASSUME NEW me, NEW m, ProjectOver(me, m)
  PROVE  m \in Me
BY DEF ProjectOver, ItemOver

\* A row is written, or not.
LEMMA WriteActs ==
  ASSUME TablesTyped, WorkTyped, NEW w \in Workers, Placed(w), WriteEvent(w)
  PROVE  ActsAlone(w)
<1>1. /\ work[w].pc = "writing" /\ work[w].page # <<>> /\ work[w].left # <<>>
      /\ UNCHANGED <<tables, seen>> /\ work[w] \in Me
  BY DEF WriteEvent, Placed, Walking, WorkTyped
<1>2. PICK m : m = AfterProject(work[w])
  OBVIOUS
<1>3. ProjectOver(work[w], m) /\ m \in Me
  BY <1>1, <1>2, AfterProjectGoes, ProjectOverTyped
<1>4. CASE /\ Fails
           /\ Move(w, IF provider \in Stops THEN Failed(work[w]) ELSE AfterProject(work[w]))
           /\ UNCHANGED events
  <2>1. CASE provider \in Stops
    <3>1. PICK f : f = Failed(work[w])
      OBVIOUS
    <3>2. f \in Me /\ SameIngest(work[w], f) /\ f.pc = "failed"
      BY <1>1, <3>1, Ends
    <3>3. Moved(w, f)
      BY <1>4, <2>1, <3>1, <3>2, MoveGoes
    <3>4. Stopped(w)
      BY <1>1, <1>4, <3>2, <3>3, FailsCount DEF Stopped, SameIngest, Moved, Untouched
    <3> QED BY <1>1, <1>4, <3>3, <3>4, MovesAlone DEF Acts
  <2>2. CASE provider \notin Stops
    <3>1. Moved(w, m) /\ failures' > 0
      BY <1>2, <1>3, <1>4, <2>2, MoveGoes, FailsCount
    <3>2. Skipped(w)
      BY <1>1, <1>3, <1>4, <2>2, <3>1 DEF Skipped, Moved, Untouched
    <3> QED BY <1>1, <1>4, <3>1, <3>2, MovesAlone DEF Acts
  <2> QED BY <2>1, <2>2
<1>5. CASE /\ Goes
           /\ events' = [events EXCEPT ![w] = Append(@, NewEvent(w))]
           /\ Move(w, IF Head(work[w].left) = Unassigned THEN AfterProject(work[w])
                      ELSE [work[w] EXCEPT !.pc = "processing"])
  <2>1. PICK p : p = [work[w] EXCEPT !.pc = "processing"]
    OBVIOUS
  <2>2. p \in Me
    BY <1>1, <2>1 DEF Me, WorkerStates
  <2>3. PICK n : n = IF Head(work[w].left) = Unassigned THEN m ELSE p
    OBVIOUS
  <2>4. n \in Me /\ Move(w, n)
    BY <1>2, <1>3, <1>5, <2>1, <2>2, <2>3
  <2>5. Moved(w, n)
    BY <1>5, <2>4, MoveGoes
  <2>6. NewEvent(w) \in EventType
    BY <1>1, NewEventTyped
  <2>7. PICK e : e = NewEvent(w)
    OBVIOUS
  <2>8. /\ events' = [events EXCEPT ![w] = events'[w]] /\ events'[w] = Append(events[w], e)
        /\ Append(events[w], e) \in Seq(EventType)
    BY <1>5, <2>6, <2>7 DEF WorkTyped
  <2>9. work'[w] = n
    BY <2>5 DEF Moved
  <2>10. Wrote(w)
    BY <1>1, <1>3, <2>1, <2>3, <2>6, <2>7, <2>8, <2>9 DEF Wrote
  <2>11. seen' = [seen EXCEPT ![w] = seen'[w]] /\ seen'[w] \in Seen
    BY <1>1, RowsStay
  <2>12. /\ UNCHANGED <<linked, connections, mapping, mapped>>
         /\ identities \subseteq identities' /\ identities' \subseteq Identities
    BY <1>1, TablesStay
  <2>13. events' = [events EXCEPT ![w] = events'[w]] /\ events'[w] \in Seq(EventType)
    BY <2>8
  <2> QED BY <2>5, <2>10, <2>11, <2>12, <2>13, MovesWith DEF Acts
<1> QED BY <1>4, <1>5 DEF WriteEvent

\* A row is processed, or not.
LEMMA ProcessActs ==
  ASSUME TablesTyped, WorkTyped, NEW w \in Workers, Placed(w), ProcessEvent(w)
  PROVE  ActsAlone(w)
<1>1. /\ work[w].pc = "processing" /\ work[w].page # <<>> /\ work[w].left # <<>>
      /\ UNCHANGED <<tables, seen>> /\ work[w] \in Me /\ Move(w, AfterProject(work[w])) /\ events[w] # <<>>
  BY DEF ProcessEvent, Placed, Walking, WorkTyped
<1>2. PICK m : m = AfterProject(work[w])
  OBVIOUS
<1>3. ProjectOver(work[w], m) /\ m \in Me
  BY <1>1, <1>2, AfterProjectGoes, ProjectOverTyped
<1>4. Goes \/ Fails
  BY DEF ProcessEvent
<1>5. Moved(w, m)
  BY <1>1, <1>2, <1>3, <1>4, MoveGoes
<1>6. seen' = [seen EXCEPT ![w] = seen'[w]] /\ seen'[w] \in Seen
  BY <1>1, RowsStay
<1>7. work'[w] = m
  BY <1>5 DEF Moved
<1>8. /\ UNCHANGED <<linked, connections, mapping, mapped>>
      /\ identities \subseteq identities' /\ identities' \subseteq Identities
  BY <1>1, TablesStay
<1>9. CASE (Fails \/ NotSummarizable(Head(work[w].page))) /\ UNCHANGED events
  <2>1. Fails => failures' > 0
    BY FailsCount
  <2>2. Processed(w)
    BY <1>1, <1>3, <1>7, <1>9, <2>1 DEF Processed
  <2> QED BY <1>1, <1>5, <1>9, <2>2, MovesAlone DEF Acts
<1>10. CASE /\ events' = [events EXCEPT ![w][Len(events[w])].processedByLLM = TRUE]
            /\ ~NotSummarizable(Head(work[w].page))
  <2>1. PICK es, n : es = events[w] /\ n = Len(es)
    OBVIOUS
  <2>2. es \in Seq(EventType) /\ n \in Nat /\ n >= 1 /\ n \in DOMAIN es /\ es[n] \in EventType
    BY <1>1, <2>1 DEF WorkTyped
  <2>3. PICK e : e = [es[n] EXCEPT !.processedByLLM = TRUE]
    OBVIOUS
  <2>4. e \in EventType
    BY <2>2, <2>3 DEF EventType
  <2>5. [es EXCEPT ![n] = e] \in Seq(EventType)
    BY <2>2, <2>4
  <2>6. /\ events'[w] = [es EXCEPT ![n].processedByLLM = TRUE]
        /\ [es EXCEPT ![n].processedByLLM = TRUE] = [es EXCEPT ![n] = e]
    BY <1>10, <2>1, <2>2, <2>3 DEF WorkTyped
  <2>7. events' = [events EXCEPT ![w] = events'[w]]
    BY <1>10, <2>1, <2>6 DEF WorkTyped
  <2>8. Processed(w)
    BY <1>1, <1>3, <1>7, <1>10, <2>1, <2>6 DEF Processed
  <2>9. events'[w] \in Seq(EventType)
    BY <2>5, <2>6
  <2> QED BY <1>5, <1>6, <1>8, <2>7, <2>8, <2>9, MovesWith DEF Acts
<1> QED BY <1>9, <1>10 DEF ProcessEvent

TypeI == TablesTyped /\ WorkTyped /\ \A w \in Workers : Placed(w)

\* A step of one worker is a step of every worker, most of which stay.
LEMMA AloneTyped ==
  ASSUME TablesTyped, WorkTyped, NEW w \in Workers, ActsAlone(w)
  PROVE  /\ TablesTyped' /\ WorkTyped' /\ Grows
         /\ \A v \in Workers : Stays(v) \/ (Acts(v) /\ listed' = listed)
<1>1. TablesTyped'
  BY DEF TablesTyped, ActsAlone, Grows
<1>2. WorkTyped'
  BY DEF WorkTyped, ActsAlone
<1>3. ASSUME NEW v \in Workers, v # w PROVE Stays(v)
  BY <1>3 DEF WorkTyped, ActsAlone, Stays
<1> QED BY <1>1, <1>2, <1>3 DEF ActsAlone

\* What goes on around the workers leaves them where they are.
LEMMA SurroundingsStep ==
  ASSUME TablesTyped, WorkTyped, Surroundings
  PROVE  /\ TablesTyped' /\ WorkTyped' /\ Grows
         /\ \A v \in Workers : Stays(v)
<1>1. /\ work' = work /\ events' = events /\ failures' = failures /\ provider' = provider
      /\ failures \in Nat
  <2>1. failures \in Nat
    BY IngestionAssumption DEF TablesTyped
  <2> QED BY <2>1 DEF Surroundings, Post, Uninstall, Unlist, LinkIntegration, Connect,
         DeleteContributorMap, CreateContributorMap, UpdateContributorMap, SetMapping
<1>2. CASE Post
  <2>1. /\ posted' = posted + 1 /\ listed' = listed \cup {posted + 1} /\ seen' = seen
        /\ UNCHANGED <<linked, connections, identities, mapping, mapped>>
        /\ posted < Things[provider]
    BY <1>2 DEF Post, tables
  <2>2. posted' \in Items /\ listed' \subseteq 1 .. posted'
    <3>1. posted \in Nat /\ posted >= 1 /\ Things[provider] \in 1 .. MaxItem /\ MaxItem \in Nat
      BY IngestionAssumption DEF TablesTyped, Items
    <3>2. listed \in SUBSET (1 .. posted)
      BY DEF TablesTyped
    <3> QED BY <2>1, <3>1, <3>2 DEF Items
  <2>3. TablesTyped'
    BY <1>1, <2>1, <2>2 DEF TablesTyped
  <2> QED BY <1>1, <2>1, <2>3 DEF WorkTyped, Grows, Stays
<1>3. ASSUME NEW i \in listed, Unlist(i) PROVE
         /\ TablesTyped' /\ WorkTyped' /\ Grows /\ \A v \in Workers : Stays(v)
  <2>1. /\ listed' = listed \ {i} /\ posted' = posted
        /\ UNCHANGED <<linked, connections, identities, mapping, mapped>>
        /\ seen' = [w \in Workers |->
                     [seen[w] EXCEPT !.steady = @ \ {i},
                                     !.shifted = @ \/ work[w].pc # "idle"]]
    BY <1>3 DEF Unlist, tables
  <2>2. TablesTyped'
    BY <1>1, <2>1 DEF TablesTyped
  <2>3. seen' \in [Workers -> Seen]
    <3>1. ASSUME NEW w \in Workers
          PROVE  [seen[w] EXCEPT !.steady = @ \ {i}, !.shifted = @ \/ work[w].pc # "idle"] \in Seen
      <4>1. PICK sn, sh : sn = seen[w] /\ sh = (sn.shifted \/ work[w].pc # "idle")
        OBVIOUS
      <4>2. sn \in Seen /\ sh \in BOOLEAN
        BY <4>1 DEF WorkTyped, Seen
      <4>3. [sn EXCEPT !.steady = @ \ {i}, !.shifted = sh] \in Seen
        BY <4>2 DEF Seen
      <4> QED BY <4>1, <4>3
    <3> QED BY <2>1, <3>1
  <2>4. \A v \in Workers : Stays(v)
    BY <1>1, <2>1 DEF Stays
  <2>5. WorkTyped'
    BY <1>1, <2>3 DEF WorkTyped
  <2>6. Grows
    <3>1. identities' = identities /\ mapped' = mapped
      BY <2>1
    <3> QED BY <1>1, <3>1 DEF Grows
  <2> QED BY <2>2, <2>4, <2>5, <2>6
<1>4. ASSUME NEW p \in Projects, LinkIntegration(p) PROVE
         /\ TablesTyped' /\ WorkTyped' /\ Grows /\ \A v \in Workers : Stays(v)
  <2>1. /\ connections' = [connections EXCEPT ![Home[p]] = Append(@, p)]
        /\ UNCHANGED <<posted, listed, linked, identities, mapping, mapped, seen>>
    BY <1>4 DEF LinkIntegration
  <2>2. connections' \in [Integrations -> Seq(Projects)]
    <3>1. Home[p] \in Integrations
      BY IngestionAssumption
    <3>2. connections[Home[p]] \in Seq(Projects)
      BY <3>1 DEF TablesTyped
    <3>3. Append(connections[Home[p]], p) \in Seq(Projects)
      BY <3>2
    <3> QED BY <2>1, <3>3 DEF TablesTyped
  <2>3. TablesTyped'
    BY <1>1, <2>1, <2>2 DEF TablesTyped
  <2> QED BY <1>1, <2>1, <2>3 DEF WorkTyped, Grows, Stays
<1>5. ASSUME NEW id \in Identities, NEW m \in Members,
             CreateContributorMap(id, m) \/ UpdateContributorMap(id, m) PROVE
         /\ TablesTyped' /\ WorkTyped' /\ Grows /\ \A v \in Workers : Stays(v)
  <2>1. /\ mapping' = [mapping EXCEPT ![id] = m] /\ mapped' = mapped \cup {<<id, m>>}
        /\ UNCHANGED <<posted, listed, linked, connections, identities, seen>>
    BY <1>5 DEF CreateContributorMap, UpdateContributorMap, SetMapping
  <2>2. TablesTyped'
    BY <1>1, <2>1 DEF TablesTyped
  <2> QED BY <1>1, <2>1, <2>2 DEF WorkTyped, Grows, Stays
<1>6. ASSUME NEW id \in Identities, DeleteContributorMap(id) PROVE
         /\ TablesTyped' /\ WorkTyped' /\ Grows /\ \A v \in Workers : Stays(v)
  <2>1. /\ mapping' = [mapping EXCEPT ![id] = NoMember]
        /\ UNCHANGED <<posted, listed, linked, connections, identities, mapped, seen>>
    BY <1>6 DEF DeleteContributorMap
  <2>2. TablesTyped'
    BY <1>1, <2>1 DEF TablesTyped
  <2> QED BY <1>1, <2>1, <2>2 DEF WorkTyped, Grows, Stays
<1>7. ASSUME Uninstall \/ \E n \in Integrations : Connect(n) PROVE
         /\ TablesTyped' /\ WorkTyped' /\ Grows /\ \A v \in Workers : Stays(v)
  <2>1. /\ linked' \in SUBSET Integrations
        /\ UNCHANGED <<posted, listed, connections, identities, mapping, mapped, seen>>
    BY <1>7 DEF Uninstall, Connect, TablesTyped
  <2>2. TablesTyped'
    BY <1>1, <2>1 DEF TablesTyped
  <2> QED BY <1>1, <2>1, <2>2 DEF WorkTyped, Grows, Stays
<1> QED BY <1>2, <1>3, <1>4, <1>5, <1>6, <1>7 DEF Surroundings

\* A crash ends the workers that were at work.
LEMMA CrashStep ==
  ASSUME TablesTyped, WorkTyped, ProcessDies
  PROVE  /\ TablesTyped' /\ WorkTyped' /\ Grows
         /\ \A v \in Workers : Stays(v) \/ (Acts(v) /\ listed' = listed)
<1>1. /\ work' = [w \in Workers |-> IF work[w].pc \in {"idle", "done"} THEN work[w]
                                    ELSE Failed(work[w])]
      /\ UNCHANGED <<provider, posted, listed, linked, connections, identities, mapping, mapped,
                     events, seen>>
  BY DEF ProcessDies, tables
<1>2. /\ failures' \in 0 .. MaxFailures /\ failures' >= failures /\ failures \in Nat
      /\ failures' \in Nat /\ failures' > 0
  BY FailsCount DEF ProcessDies
<1>3. ASSUME NEW v \in Workers PROVE work'[v] \in Me /\ (Stays(v) \/ (Acts(v) /\ listed' = listed))
  <2>1. work[v] \in Me
    BY DEF WorkTyped
  <2>2. CASE work[v].pc \in {"idle", "done"}
    BY <1>1, <2>1, <2>2 DEF Stays
  <2>3. CASE work[v].pc \notin {"idle", "done"}
    <3>1. PICK f : f = Failed(work[v])
      OBVIOUS
    <3>2. f \in Me /\ SameIngest(work[v], f) /\ f.pc = "failed"
      BY <2>1, <3>1, Ends
    <3>3. work'[v] = f
      BY <1>1, <2>3, <3>1
    <3>4. Stopped(v)
      BY <1>1, <1>2, <2>3, <3>2, <3>3 DEF Stopped, SameIngest, Untouched
    <3> QED BY <1>1, <3>2, <3>3, <3>4 DEF Acts
  <2> QED BY <2>2, <2>3
<1>4. work' \in [Workers -> Me]
  BY <1>1, <1>3
<1> QED BY <1>1, <1>2, <1>3, <1>4 DEF TablesTyped, WorkTyped, Grows

\* Every step.
LEMMA IngestSteps ==
  ASSUME TypeI, IngestNext
  PROVE  /\ TablesTyped' /\ WorkTyped' /\ Grows
         /\ \A v \in Workers : Stays(v) \/ (Acts(v) /\ listed' = listed)
<1>0. TablesTyped /\ WorkTyped /\ \A w \in Workers : Placed(w)
  BY DEF TypeI
<1>1. CASE Surroundings
  BY <1>0, <1>1, SurroundingsStep
<1>2. CASE ProcessDies
  BY <1>0, <1>2, CrashStep
<1>3. CASE \E w \in Workers : ActsAlone(w)
  BY <1>0, <1>3, AloneTyped
<1>4. ASSUME NEW w \in Workers, Worker(w) PROVE ActsAlone(w)
  BY <1>0, <1>4, StoreActs, LookUpActs, FetchActs, FindActs, CreateActs, MappingActs,
     WriteActs, ProcessActs DEF Worker
<1>5. ASSUME NEW w \in Workers, NEW i \in Items, Deliver(w, i) PROVE ActsAlone(w)
  BY <1>0, <1>5, DeliverActs
<1>6. ASSUME NEW w \in Workers, NEW n \in Integrations, Begin(w, n) PROVE ActsAlone(w)
  BY <1>0, <1>6, BeginActs
<1> QED BY <1>1, <1>2, <1>3, <1>4, <1>5, <1>6 DEF IngestNext

\* A worker that goes on to its next thing has what it needs there.
LEMMA ItemOverPlaced ==
  ASSUME NEW v \in Workers, ItemOver(work[v], work'[v]), work[v] \in Me,
         work[v].integration \in Integrations, provider' = provider,
         provider = "github" => ~work[v].more
  PROVE  Placed(v)'
<1>1. PICK me, m : me = work[v] /\ m = work'[v]
  OBVIOUS
<1>2. /\ m.integration = me.integration /\ m.more = me.more /\ me.page \in Seq(Items)
      /\ me.integration \in Integrations
  BY <1>1 DEF ItemOver, SameIngest, Me
<1>3. CASE Len(me.page) > 1 /\ m.pc = "finding" /\ m.page = Tail(me.page)
  <2>1. m.page # <<>>
    <3>1. PICK n, t : n = Len(me.page) /\ t = Tail(me.page)
      OBVIOUS
    <3>2. n \in Nat /\ n > 1
      BY <1>2, <1>3, <3>1
    <3>3. t \in Seq(Items) /\ Len(t) = n - 1
      BY <1>2, <3>1, <3>2
    <3>4. t # <<>>
      BY <3>2, <3>3
    <3> QED BY <1>3, <3>1, <3>4
  <2> QED BY <1>1, <1>2, <1>3, <2>1 DEF Placed, Walking
<1>4. CASE Len(me.page) = 1 /\ m.pc = (IF me.more THEN "fetching" ELSE "done") /\ m.page = <<>>
  BY <1>1, <1>2, <1>4 DEF Placed, Walking
<1> QED BY <1>1, <1>3, <1>4 DEF ItemOver

\* The projects that are left are the last of the rows.
LEMMA LeftOfRows ==
  ASSUME NEW rows \in Seq(Targets), NEW left \in Seq(Targets), Len(left) > 1,
         Len(left) <= Len(rows),
         \A k \in 1 .. Len(left) : left[k] = rows[Len(rows) - Len(left) + k]
  PROVE  /\ Tail(left) \in Seq(Targets) /\ Tail(left) # <<>> /\ Len(Tail(left)) <= Len(rows)
         /\ Len(Tail(left)) = Len(left) - 1
         /\ \A k \in 1 .. Len(Tail(left)) :
              Tail(left)[k] = rows[Len(rows) - Len(Tail(left)) + k]
<1>1. PICK n, m : n = Len(rows) /\ m = Len(left)
  OBVIOUS
<1>2. n \in Nat /\ m \in Nat /\ m > 1 /\ m <= n
  BY <1>1
<1>3. PICK t : t = Tail(left)
  OBVIOUS
<1>4. t \in Seq(Targets) /\ Len(t) = m - 1 /\ \A k \in 1 .. m - 1 : t[k] = left[k + 1]
  BY <1>1, <1>2, <1>3
<1>5. t # <<>>
  BY <1>2, <1>4
<1>6. ASSUME NEW k \in 1 .. m - 1 PROVE t[k] = rows[n - (m - 1) + k]
  <2>1. t[k] = left[k + 1] /\ k + 1 \in 1 .. m
    BY <1>2, <1>4
  <2>2. left[k + 1] = rows[n - m + (k + 1)]
    BY <1>1, <2>1
  <2>3. n - m + (k + 1) = n - (m - 1) + k
    BY <1>2
  <2> QED BY <2>1, <2>2, <2>3
<1>7. PICK l : l = m - 1
  OBVIOUS
<1>8. Len(t) = l /\ l <= n /\ \A k \in 1 .. l : t[k] = rows[n - l + k]
  BY <1>2, <1>4, <1>6, <1>7
<1>9. Len(t) <= n /\ \A k \in 1 .. Len(t) : t[k] = rows[n - Len(t) + k]
  BY <1>8
<1> QED BY <1>1, <1>3, <1>4, <1>5, <1>9

\* A worker that goes on to its next project has what it needs there.
LEMMA ProjectOverPlaced ==
  ASSUME NEW v \in Workers, ProjectOver(work[v], work'[v]), work[v] \in Me, Placed(v),
         work[v].pc \in {"writing", "processing"}, provider' = provider
  PROVE  Placed(v)'
<1>1. PICK me, m : me = work[v] /\ m = work'[v]
  OBVIOUS
<1>2. /\ me.page # <<>> /\ me.integration \in Integrations /\ (provider = "github" => ~me.more)
      /\ me.rows \in Seq(Targets) /\ me.left \in Seq(Targets) /\ Len(me.left) <= Len(me.rows)
      /\ \A k \in 1 .. Len(me.left) : me.left[k] = me.rows[Len(me.rows) - Len(me.left) + k]
  BY <1>1 DEF Placed, Walking, Me
<1>3. CASE ItemOver(me, m)
  BY <1>1, <1>2, <1>3, ItemOverPlaced
<1>4. CASE Len(me.left) > 1 /\ m \in Me /\ m = [me EXCEPT !.pc = "writing", !.left = Tail(@)]
  <2>1. PICK t : t = Tail(me.left)
    OBVIOUS
  <2>2. /\ t # <<>> /\ Len(t) <= Len(me.rows)
        /\ \A k \in 1 .. Len(t) : t[k] = me.rows[Len(me.rows) - Len(t) + k]
    BY <1>2, <1>4, <2>1, LeftOfRows
  <2>3. /\ m.pc = "writing" /\ m.left = t /\ m.rows = me.rows /\ m.page = me.page
        /\ m.integration = me.integration /\ m.more = me.more
    BY <1>1, <1>4, <2>1 DEF Me
  <2>4. /\ m.left # <<>> /\ Len(m.left) <= Len(m.rows)
        /\ \A k \in 1 .. Len(m.left) : m.left[k] = m.rows[Len(m.rows) - Len(m.left) + k]
    BY <2>2, <2>3
  <2> QED BY <1>1, <1>2, <2>3, <2>4 DEF Placed, Walking
<1> QED BY <1>1, <1>3, <1>4 DEF ProjectOver

\* So has every worker after every step.
LEMMA ActsPlaced ==
  ASSUME TypeI, NEW v \in Workers, Grows, Stays(v) \/ Acts(v)
  PROVE  Placed(v)'
<1>1. work[v] \in Me /\ Placed(v) /\ provider' = provider /\ events[v] \in Seq(EventType)
  BY DEF TypeI, WorkTyped, Grows
<1>2. PICK me, m : me = work[v] /\ m = work'[v]
  OBVIOUS
<1>3. CASE Stays(v)
  BY <1>1, <1>3 DEF Stays, Placed, Author
<1>4. CASE Delivered(v)
  BY <1>1, <1>4 DEF Delivered, Placed, Walking
<1>5. CASE Stored(v)
  BY <1>1, <1>5 DEF Stored, Placed, Walking, SameIngest
<1>6. CASE Stopped(v)
  BY <1>1, <1>6 DEF Stopped, Placed, Walking
<1>7. CASE NoneLinked(v)
  BY <1>1, <1>7 DEF NoneLinked, Placed, Walking
<1>8. CASE Found(v)
  <2>1. provider = "github" /\ work[v].page # <<>>
    BY <1>1, <1>8 DEF Found, Placed
  <2> QED BY <1>1, <1>8, <2>1 DEF Found, Placed, Walking
<1>9. CASE Began(v)
  BY <1>1, <1>9 DEF Began, Placed, Walking
<1>10. CASE Received(v)
  BY <1>1, <1>10 DEF Received, Placed, Walking
<1>11. CASE Searched(v)
  <2>1. Author(v)' = Author(v)
    BY <1>11 DEF Searched, Author
  <2> QED BY <1>1, <1>11, <2>1 DEF Searched, Placed, Walking, SameIngest
<1>12. CASE Settled(v)
  <2>1. PICK author, member : AuthorSettled(me, m, author, member)
    BY <1>2, <1>12 DEF Settled
  <2>2. /\ me.page # <<>> /\ me.integration \in Integrations /\ (provider = "github" => ~me.more)
        /\ me.rows \in Seq(Targets)
    BY <1>1, <1>2, <1>12 DEF Placed, Walking, Settled, Me
  <2>3. CASE ItemOver(me, m)
    BY <1>1, <1>2, <2>2, <2>3, ItemOverPlaced
  <2>4. CASE /\ me.rows # <<>> /\ m \in Me
             /\ m = [me EXCEPT !.author = author, !.member = member, !.pc = "writing",
                               !.left = me.rows]
    <3>1. /\ m.pc = "writing" /\ m.left = me.rows /\ m.rows = me.rows /\ m.page = me.page
          /\ m.integration = me.integration /\ m.more = me.more
      BY <1>1, <1>2, <2>4 DEF Me
    <3>2. PICK n : n = Len(me.rows)
      OBVIOUS
    <3>3. n \in Nat /\ \A k \in 1 .. n : n - n + k = k
      BY <2>2, <3>2
    <3>4. /\ m.left # <<>> /\ Len(m.left) <= Len(m.rows)
          /\ \A k \in 1 .. Len(m.left) : m.left[k] = m.rows[Len(m.rows) - Len(m.left) + k]
      BY <2>4, <3>1, <3>2, <3>3
    <3> QED BY <1>1, <1>2, <2>2, <3>1, <3>4 DEF Placed, Walking
  <2> QED BY <2>1, <2>3, <2>4 DEF AuthorSettled
<1>13. CASE Wrote(v)
  <2>1. CASE ProjectOver(work[v], work'[v])
    BY <1>1, <1>13, <2>1, ProjectOverPlaced DEF Wrote
  <2>2. CASE Head(work[v].left) # Unassigned /\ work'[v] = [work[v] EXCEPT !.pc = "processing"]
    <3>1. /\ m.pc = "processing" /\ m.left = me.left /\ m.rows = me.rows /\ m.page = me.page
          /\ m.integration = me.integration /\ m.more = me.more
      BY <1>1, <1>2, <2>2 DEF Me
    <3>2. PICK e, es : e = NewEvent(v) /\ es = events'[v]
      OBVIOUS
    <3>3. /\ e \in EventType /\ es = Append(events[v], e) /\ e.project # Unassigned
          /\ e.item = Head(me.page)
      BY <1>2, <1>13, <2>2, <3>2 DEF Wrote, NewEvent
    <3>4. es # <<>> /\ es[Len(es)] = e
      BY <1>1, <3>3
    <3> QED BY <1>1, <1>2, <1>13, <3>1, <3>2, <3>3, <3>4 DEF Placed, Walking, Wrote
  <2> QED BY <1>13, <2>1, <2>2 DEF Wrote
<1>14. CASE Skipped(v)
  BY <1>1, <1>14, ProjectOverPlaced DEF Skipped
<1>15. CASE Processed(v)
  BY <1>1, <1>15, ProjectOverPlaced DEF Processed
<1> QED BY <1>3, <1>4, <1>5, <1>6, <1>7, <1>8, <1>9, <1>10, <1>11, <1>12, <1>13, <1>14, <1>15
        DEF Acts

\* Types are kept.
LEMMA TypeStep ==
  ASSUME TypeI, [IngestNext]_ingestVars
  PROVE  TypeI'
<1>1. CASE IngestNext
  BY <1>1, IngestSteps, ActsPlaced DEF TypeI
<1>2. CASE UNCHANGED ingestVars
  BY <1>2 DEF TypeI, TablesTyped, WorkTyped, Placed, Author, ingestVars, tables
<1> QED BY <1>1, <1>2

\* Types hold at first.
LEMMA TypeInit ==
  ASSUME IngestInit
  PROVE  TypeI
<1>1. <<>> \in Seq(Items) /\ <<>> \in Seq(Targets) /\ <<>> \in Seq(EventType) /\ <<>> \in Seq(Projects)
  BY EmptySeq
<1>2. TablesTyped
  <2>1. posted \in Items
    <3>1. provider \in Providers /\ Things[provider] \in 1 .. MaxItem /\ MaxItem \in Nat
      BY IngestionAssumption DEF IngestInit, Items
    <3> QED BY <3>1 DEF IngestInit, Items
  <2>2. linked \subseteq Integrations
    BY DEF IngestInit
  <2>3. failures \in 0 .. MaxFailures
    BY IngestionAssumption DEF IngestInit
  <2> QED BY <1>1, <2>1, <2>2, <2>3 DEF IngestInit, TablesTyped
<1>3. Idle \in Me /\ Idle.pc = "idle"
  BY <1>1 DEF Idle, Me, WorkerStates
<1>4. WorkTyped
  BY <1>1, <1>3 DEF IngestInit, WorkTyped, Seen
<1>5. \A w \in Workers : Placed(w)
  BY <1>3 DEF IngestInit, Placed, Walking
<1> QED BY <1>2, <1>4, <1>5 DEF TypeI

\* The tables and what each worker holds and has written keep their types.
THEOREM IngestTypeCorrect == IngestSpec => []IngestTypeOK
<1>1. IngestInit => TypeI
  BY TypeInit
<1>2. TypeI /\ [IngestNext]_ingestVars => TypeI'
  BY TypeStep
<1>3. TypeI => IngestTypeOK
  <2>1. ASSUME TypeI, NEW w \in Workers PROVE
       /\ work[w].pc \in WorkerStates
       /\ work[w].page \in Seq(Items)
       /\ work[w].rows \in Seq(Projects \cup {Unassigned})
       /\ work[w].left \in Seq(Projects \cup {Unassigned})
       /\ (work[w].pc \in {"finding", "creating", "mapping", "writing", "processing"})
            => work[w].page # <<>>
       /\ (work[w].pc \in {"writing", "processing"}) => work[w].left # <<>>
    <3>1. work[w] \in Me /\ Placed(w)
      BY <2>1 DEF TypeI, WorkTyped
    <3> QED BY <3>1 DEF Me, Targets, Placed, Walking
  <2> QED BY <2>1 DEF TypeI, TablesTyped, WorkTyped, IngestTypeOK
<1> QED BY <1>1, <1>2, <1>3, PTL DEF IngestSpec

-----------------------------------------------------------------------------
\* What is written is about what was walked.

WalkedI(w) ==
  /\ work[w].pc \in {"idle", "storing", "looking"} => events[w] = <<>> /\ seen[w].walked = {}
  /\ \A k \in DOMAIN events[w] : events[w][k].item \in seen[w].walked
  /\ work[w].pc \in Walking => ToSet(work[w].page) \subseteq seen[w].walked

\* The rows of a worker after a step: as before, one more, or one marked.
LEMMA RowsOf ==
  ASSUME TypeI, NEW v \in Workers, Stays(v) \/ Acts(v)
  PROVE  \/ events'[v] = events[v]
         \/ /\ Wrote(v) /\ DOMAIN events'[v] = 1 .. Len(events[v]) + 1
            /\ Len(events[v]) \in Nat /\ DOMAIN events[v] = 1 .. Len(events[v])
            /\ Len(events'[v]) = Len(events[v]) + 1
            /\ events'[v][Len(events[v]) + 1] = NewEvent(v)
            /\ \A k \in 1 .. Len(events[v]) : events'[v][k] = events[v][k]
         \/ /\ Processed(v) /\ DOMAIN events'[v] = DOMAIN events[v]
            /\ Len(events[v]) \in DOMAIN events[v]
            /\ events'[v][Len(events[v])] = [events[v][Len(events[v])] EXCEPT !.processedByLLM = TRUE]
            /\ \A k \in DOMAIN events[v] : k # Len(events[v]) => events'[v][k] = events[v][k]
            /\ \A k \in DOMAIN events[v] : events[v][k] \in EventType
<1>1. PICK es, fs, n : es = events[v] /\ fs = events'[v] /\ n = Len(es)
  OBVIOUS
<1>2. es \in Seq(EventType) /\ n \in Nat /\ DOMAIN es = 1 .. n
  BY <1>1 DEF TypeI, WorkTyped
<1>3. CASE Wrote(v)
  <2>1. PICK e : e = NewEvent(v)
    OBVIOUS
  <2>2. e \in EventType /\ fs = Append(es, e)
    BY <1>1, <1>3, <2>1 DEF Wrote
  <2>3. fs \in Seq(EventType) /\ Len(fs) = n + 1 /\ fs[n + 1] = e /\ \A k \in 1 .. n : fs[k] = es[k]
    BY <1>1, <1>2, <2>2
  <2>4. DOMAIN fs = 1 .. n + 1
    BY <2>3
  <2> QED BY <1>1, <1>2, <1>3, <2>1, <2>3, <2>4
<1>4. CASE Processed(v)
  <2>1. fs = [es EXCEPT ![n].processedByLLM = TRUE] \/ fs = es
    BY <1>1, <1>4 DEF Processed
  <2>2. es # <<>>
    BY <1>1, <1>4 DEF Processed, TypeI, Placed
  <2>3. n \in DOMAIN es
    BY <1>1, <1>2, <2>2
  <2>4. ASSUME fs = [es EXCEPT ![n].processedByLLM = TRUE]
        PROVE  /\ DOMAIN fs = DOMAIN es /\ fs[n] = [es[n] EXCEPT !.processedByLLM = TRUE]
               /\ \A k \in DOMAIN es : k # n => fs[k] = es[k]
               /\ \A k \in DOMAIN es : es[k] \in EventType
    BY <1>2, <2>3, <2>4
  <2> QED BY <1>1, <1>4, <2>1, <2>3, <2>4
<1>5. CASE ~ Wrote(v) /\ ~ Processed(v)
  BY <1>5 DEF Stays, Acts, Delivered, Stored, Stopped, NoneLinked, Found, Began, Received,
              Searched, Settled, Skipped, Untouched
<1> QED BY <1>3, <1>4, <1>5

\* What a worker is at when it goes on to a thing or a project.
LEMMA ItemOverPage ==
  ASSUME NEW me \in Me, NEW m, ItemOver(me, m), me.page # <<>>
  PROVE  /\ m.pc \in {"finding", "fetching", "done"} /\ m \in Me /\ SameIngest(me, m)
         /\ (m.pc = "finding" => m.page = Tail(me.page) /\ m.page # <<>>)
         /\ (m.pc # "finding" => Len(me.page) = 1 /\ m.page = <<>>)
         /\ (m.pc = "fetching" => me.more) /\ (m.pc = "done" => ~me.more)
         /\ ToSet(m.page) \subseteq ToSet(me.page)
         /\ ToSet(me.page) = {Head(me.page)} \cup ToSet(m.page)
<1>1. me.page \in Seq(Items)
  BY DEF Me
<1>2. PICK t : t = Tail(me.page)
  OBVIOUS
<1>3. /\ Len(me.page) \in Nat /\ t \in Seq(Items) /\ Len(t) = Len(me.page) - 1
      /\ ToSet(me.page) = {Head(me.page)} \cup ToSet(t)
  BY <1>1, <1>2, SetOfTail
<1>4. CASE Len(me.page) > 1 /\ m.pc = "finding" /\ m.page = Tail(me.page)
  <2>1. PICK n : n = Len(me.page)
    OBVIOUS
  <2>2. n \in Nat /\ n > 1 /\ Len(t) = n - 1
    BY <1>3, <1>4, <2>1
  <2>3. t # <<>>
    BY <1>3, <2>2
  <2> QED BY <1>2, <1>3, <1>4, <2>3 DEF ItemOver
<1>5. CASE Len(me.page) = 1 /\ m.pc = (IF me.more THEN "fetching" ELSE "done") /\ m.page = <<>>
  <2>1. Len(t) = 0
    BY <1>3, <1>5
  <2>2. t = <<>>
    BY <1>3, <2>1
  <2>3. me.more \in BOOLEAN
    BY DEF Me
  <2> QED BY <1>2, <1>3, <1>5, <2>2, <2>3 DEF ItemOver
<1> QED BY <1>4, <1>5 DEF ItemOver

\* What a worker is at after a row.
LEMMA ProjectOverPage ==
  ASSUME NEW me \in Me, NEW m, ProjectOver(me, m), me.page # <<>>
  PROVE  /\ ToSet(m.page) \subseteq ToSet(me.page) /\ SameIngest(me, m) /\ m \in Me
         /\ \/ ItemOver(me, m) /\ Len(me.left) = 1 /\ m.pc \in {"finding", "fetching", "done"}
            \/ /\ m.pc = "writing" /\ m.page = me.page /\ m.author = me.author
               /\ m.member = me.member /\ m.left = Tail(me.left) /\ Len(me.left) > 1
<1>1. CASE Len(me.left) = 1 /\ ItemOver(me, m)
  BY <1>1, ItemOverPage DEF SameIngest
<1>2. CASE Len(me.left) > 1 /\ m \in Me /\ m = [me EXCEPT !.pc = "writing", !.left = Tail(@)]
  <2>1. /\ m.pc = "writing" /\ m.page = me.page /\ m.author = me.author
        /\ m.member = me.member /\ m.left = Tail(me.left) /\ SameIngest(me, m)
    BY <1>2 DEF Me, SameIngest
  <2> QED BY <1>2, <2>1
<1> QED BY <1>1, <1>2 DEF ProjectOver

\* What a worker is at when the author is settled.
LEMMA AuthorSettledPage ==
  ASSUME NEW me \in Me, NEW m, NEW author, NEW member, AuthorSettled(me, m, author, member),
         me.page # <<>>
  PROVE  /\ ToSet(m.page) \subseteq ToSet(me.page) /\ SameIngest(me, m) /\ m \in Me
         /\ \/ ItemOver(me, m) /\ me.rows = <<>> /\ m.pc \in {"finding", "fetching", "done"}
            \/ /\ m.pc = "writing" /\ m.page = me.page /\ m.author = author
               /\ m.member = member /\ m.left = me.rows /\ me.rows # <<>>
<1>1. CASE me.rows = <<>> /\ ItemOver(me, m)
  BY <1>1, ItemOverPage DEF SameIngest
<1>2. CASE /\ me.rows # <<>> /\ m \in Me
           /\ m = [me EXCEPT !.author = author, !.member = member, !.pc = "writing",
                             !.left = me.rows]
  <2>1. /\ m.pc = "writing" /\ m.page = me.page /\ m.author = author
        /\ m.member = member /\ m.left = me.rows /\ SameIngest(me, m)
    BY <1>2 DEF Me, SameIngest
  <2> QED BY <1>2, <2>1
<1> QED BY <1>1, <1>2 DEF AuthorSettled

\* Rows are only written about what was walked.
LEMMA WalkedStep ==
  ASSUME TypeI, NEW v \in Workers, Stays(v) \/ Acts(v), WalkedI(v)
  PROVE  WalkedI(v)'
<1>1. work[v] \in Me /\ Placed(v) /\ seen[v] \in Seen
  BY DEF TypeI, WorkTyped
<1>2. PICK me, m : me = work[v] /\ m = work'[v]
  OBVIOUS
<1>3. CASE Stays(v)
  BY <1>1, <1>3 DEF Stays, WalkedI, Seen
<1>4. CASE Delivered(v) \/ Stored(v) \/ Stopped(v) \/ NoneLinked(v)
  BY <1>1, <1>4 DEF Delivered, Stored, Stopped, NoneLinked, WalkedI, Untouched, Walking
<1>5. CASE Found(v)
  BY <1>1, <1>5 DEF Found, WalkedI, Walking
<1>6. CASE Began(v)
  BY <1>1, <1>6 DEF Began, WalkedI, Walking
<1>7. CASE Received(v)
  BY <1>1, <1>7 DEF Received, WalkedI, Walking
<1>8. CASE Searched(v)
  BY <1>1, <1>8 DEF Searched, WalkedI, Walking, Untouched
<1>9. CASE Settled(v)
  <2>1. PICK author, member : AuthorSettled(me, m, author, member)
    BY <1>2, <1>9 DEF Settled
  <2>2. me \in Me /\ me.page # <<>> /\ me.pc \in Walking
    BY <1>1, <1>2, <1>9 DEF Settled, Placed, Walking
  <2>3. ToSet(m.page) \subseteq ToSet(me.page) /\ m.pc \in Walking \cup {"fetching", "done"}
    BY <2>1, <2>2, AuthorSettledPage DEF Walking
  <2> QED BY <1>2, <1>9, <2>2, <2>3 DEF Settled, Untouched, WalkedI, Walking
<1>10. CASE Wrote(v) \/ Skipped(v) \/ Processed(v)
  <2>1. me \in Me /\ me.page # <<>> /\ me.pc \in Walking /\ Head(me.page) \in ToSet(me.page)
        /\ seen'[v] = seen[v]
    <3>1. me \in Me /\ me.page # <<>> /\ me.pc \in Walking /\ seen'[v] = seen[v]
      BY <1>1, <1>2, <1>10 DEF Wrote, Skipped, Processed, Placed, Walking, Untouched
    <3>2. me.page \in Seq(Items)
      BY <3>1 DEF Me
    <3> QED BY <3>1, <3>2, SetOfTail
  <2>2. ToSet(m.page) \subseteq ToSet(me.page) /\ m.pc \in Walking \cup {"fetching", "done"}
    <3>1. CASE ProjectOver(me, m)
      BY <2>1, <3>1, ProjectOverPage DEF Walking
    <3>2. CASE m = [me EXCEPT !.pc = "processing"]
      BY <2>1, <3>2 DEF Me, Walking
    <3> QED BY <1>2, <1>10, <3>1, <3>2 DEF Wrote, Skipped, Processed
  <2>3. NewEvent(v).item = Head(me.page)
    BY <1>2 DEF NewEvent
  <2>4. Head(me.page) \in seen[v].walked /\ ToSet(me.page) \subseteq seen[v].walked
    BY <1>2, <2>1 DEF WalkedI
  <2>5. \A k \in DOMAIN events'[v] : events'[v][k].item \in seen[v].walked
    <3>1. CASE events'[v] = events[v]
      BY <3>1 DEF WalkedI
    <3>2. CASE /\ Wrote(v) /\ DOMAIN events'[v] = 1 .. Len(events[v]) + 1
               /\ Len(events[v]) \in Nat /\ DOMAIN events[v] = 1 .. Len(events[v])
               /\ events'[v][Len(events[v]) + 1] = NewEvent(v)
               /\ \A k \in 1 .. Len(events[v]) : events'[v][k] = events[v][k]
      BY <2>3, <2>4, <3>2 DEF WalkedI
    <3>3. CASE /\ Processed(v) /\ DOMAIN events'[v] = DOMAIN events[v]
               /\ Len(events[v]) \in DOMAIN events[v]
               /\ events'[v][Len(events[v])]
                    = [events[v][Len(events[v])] EXCEPT !.processedByLLM = TRUE]
               /\ \A k \in DOMAIN events[v] : k # Len(events[v]) => events'[v][k] = events[v][k]
               /\ \A k \in DOMAIN events[v] : events[v][k] \in EventType
      <4>1. events'[v][Len(events[v])].item = events[v][Len(events[v])].item
        BY <3>3 DEF EventType
      <4> QED BY <3>3, <4>1 DEF WalkedI
    <3> QED BY <1>10, <3>1, <3>2, <3>3, RowsOf
  <2> QED BY <1>2, <2>1, <2>2, <2>4, <2>5 DEF WalkedI, Walking
<1> QED BY <1>3, <1>4, <1>5, <1>6, <1>7, <1>8, <1>9, <1>10 DEF Acts

-----------------------------------------------------------------------------
\* Attribution.

\* The author and the member written for a thing of the integration n, when f calls
\* have failed, the identities are ids and the map has had the entries in credits.
Attributed(f, ids, credits, n, item, author, member) ==
  /\ author # AuthorOf[item]
       => author = NoAuthor /\ (f > 0 \/ <<n, AuthorOf[item]>> \in ids)
  /\ member # NoMember => <<<<n, AuthorOf[item]>>, member>> \in credits

MapI == \A id \in Identities : mapping[id] # NoMember => <<id, mapping[id]>> \in mapped

AttribI(w) ==
  /\ \A k \in DOMAIN events[w] :
       Attributed(failures, identities, mapped, work[w].integration,
                  events[w][k].item, events[w][k].author, events[w][k].member)
  /\ work[w].pc \in {"writing", "processing"} =>
       Attributed(failures, identities, mapped, work[w].integration,
                  Head(work[w].page), work[w].author, work[w].member)

\* What is on record stays on record.
LEMMA AttributedStays ==
  ASSUME Grows, NEW n, NEW item, NEW author, NEW member,
         Attributed(failures, identities, mapped, n, item, author, member)
  PROVE  Attributed(failures', identities', mapped', n, item, author, member)
<1>1. failures > 0 => failures' > 0
  BY DEF Grows
<1> QED BY <1>1 DEF Grows, Attributed

\* Rows are attributed by the map.
LEMMA AttribStep ==
  ASSUME TypeI, NEW v \in Workers, Stays(v) \/ Acts(v), Grows, WalkedI(v), MapI, AttribI(v)
  PROVE  AttribI(v)'
<1>1. work[v] \in Me /\ Placed(v) /\ seen[v] \in Seen
  BY DEF TypeI, WorkTyped
<1>2. PICK me, m, n : me = work[v] /\ m = work'[v] /\ n = me.integration
  OBVIOUS
<1>3. \A k \in DOMAIN events[v] :
        Attributed(failures', identities', mapped', n,
                   events[v][k].item, events[v][k].author, events[v][k].member)
  BY <1>2, AttributedStays DEF AttribI
<1>4. me.pc \in {"writing", "processing"} =>
        Attributed(failures', identities', mapped', n, Head(me.page), me.author, me.member)
  BY <1>2, AttributedStays DEF AttribI
<1>5. CASE events[v] = <<>> /\ events'[v] = events[v] /\ m.pc \notin {"writing", "processing"}
  <2>1. DOMAIN events'[v] = {}
    BY <1>5
  <2> QED BY <1>2, <1>5, <2>1 DEF AttribI
<1>6. CASE /\ events'[v] = events[v] /\ m.integration = n
           /\ m.pc \notin {"writing", "processing"}
  BY <1>2, <1>3, <1>6 DEF AttribI
<1>7. CASE Stays(v)
  BY <1>2, <1>3, <1>4, <1>7 DEF Stays, AttribI
<1>8. CASE Delivered(v) \/ NoneLinked(v) \/ Found(v) \/ Began(v)
  BY <1>2, <1>5, <1>8 DEF Delivered, NoneLinked, Found, Began, WalkedI, Untouched
<1>9. CASE Stored(v) \/ Stopped(v) \/ Received(v) \/ Searched(v)
  BY <1>2, <1>6, <1>9 DEF Stored, Stopped, Received, Searched, Untouched, SameIngest
<1>10. CASE Settled(v)
  <2>1. PICK author \in Authors \cup {NoAuthor}, member \in Members \cup {NoMember} :
             AuthorSettled(me, m, author, member) /\ Credited(v, author, member)
    BY <1>2, <1>10 DEF Settled
  <2>2. me \in Me /\ me.page # <<>> /\ n \in Integrations
    BY <1>1, <1>2, <1>10 DEF Settled, Placed, Walking
  <2>3. CASE m.pc \in {"finding", "fetching", "done"}
    BY <1>2, <1>6, <1>10, <2>1, <2>2, <2>3, AuthorSettledPage DEF Settled, Untouched, SameIngest
  <2>4. CASE m.pc = "writing" /\ m.page = me.page /\ m.author = author /\ m.member = member
    <3>1. m.integration = n /\ events'[v] = events[v]
      BY <1>2, <1>10, <2>1, <2>2, AuthorSettledPage DEF Settled, Untouched, SameIngest
    <3>2. PICK a : a = AuthorOf[Head(me.page)]
      OBVIOUS
    <3>3. Author(v) = a /\ Identity(v) = <<n, a>>
      BY <1>2, <3>2 DEF Author, Identity
    <3>4. Attributed(failures', identities', mapped', n, Head(me.page), author, member)
      <4>1. CASE /\ author = NoAuthor /\ member = NoMember
                 /\ a = NoAuthor \/ failures' > 0 \/ <<n, a>> \in identities
        BY <3>2, <4>1 DEF Attributed, Grows
      <4>2. CASE author = a /\ a \in Authors /\ member = mapping[<<n, a>>]
        <5>1. <<n, a>> \in Identities
          BY <2>2, <4>2 DEF Identities
        <5>2. member # NoMember => <<<<n, a>>, member>> \in mapped'
          BY <4>2, <5>1 DEF MapI, Grows
        <5> QED BY <3>2, <4>2, <5>2 DEF Attributed
      <4> QED BY <2>1, <3>3, <4>1, <4>2 DEF Credited
    <3> QED BY <1>2, <1>3, <2>4, <3>1, <3>4 DEF AttribI
  <2> QED BY <2>1, <2>2, <2>3, <2>4, AuthorSettledPage
<1>11. CASE Wrote(v) \/ Skipped(v) \/ Processed(v)
  <2>1. me \in Me /\ me.page # <<>> /\ me.pc \in {"writing", "processing"}
    BY <1>1, <1>2, <1>11 DEF Wrote, Skipped, Processed, Placed, Walking
  <2>2. /\ m.integration = n
        /\ m.pc \in {"writing", "processing"}
             => m.page = me.page /\ m.author = me.author /\ m.member = me.member
    <3>1. CASE ProjectOver(me, m)
      BY <1>2, <2>1, <3>1, ProjectOverPage DEF SameIngest
    <3>2. CASE m = [me EXCEPT !.pc = "processing"]
      BY <1>2, <2>1, <3>2 DEF Me
    <3> QED BY <1>2, <1>11, <3>1, <3>2 DEF Wrote, Skipped, Processed
  <2>3. Attributed(failures', identities', mapped', n, Head(me.page), me.author, me.member)
    BY <1>4, <2>1
  <2>4. PICK e : e = NewEvent(v)
    OBVIOUS
  <2>5. e.item = Head(me.page) /\ e.author = me.author /\ e.member = me.member
    BY <1>2, <2>4 DEF NewEvent
  <2>6. \A k \in DOMAIN events'[v] :
          Attributed(failures', identities', mapped', n,
                     events'[v][k].item, events'[v][k].author, events'[v][k].member)
    <3>1. CASE events'[v] = events[v]
      BY <1>3, <3>1
    <3>2. CASE /\ Wrote(v) /\ DOMAIN events'[v] = 1 .. Len(events[v]) + 1
               /\ Len(events[v]) \in Nat /\ DOMAIN events[v] = 1 .. Len(events[v])
               /\ events'[v][Len(events[v]) + 1] = NewEvent(v)
               /\ \A k \in 1 .. Len(events[v]) : events'[v][k] = events[v][k]
      <4> SUFFICES ASSUME NEW k \in DOMAIN events'[v]
                   PROVE  Attributed(failures', identities', mapped', n,
                            events'[v][k].item, events'[v][k].author, events'[v][k].member)
        OBVIOUS
      <4>1. CASE k = Len(events[v]) + 1
        BY <2>3, <2>4, <2>5, <3>2, <4>1
      <4>2. CASE k \in 1 .. Len(events[v])
        BY <1>3, <3>2, <4>2
      <4> QED BY <3>2, <4>1, <4>2
    <3>3. CASE /\ Processed(v) /\ DOMAIN events'[v] = DOMAIN events[v]
               /\ Len(events[v]) \in DOMAIN events[v]
               /\ events'[v][Len(events[v])]
                    = [events[v][Len(events[v])] EXCEPT !.processedByLLM = TRUE]
               /\ \A k \in DOMAIN events[v] : k # Len(events[v]) => events'[v][k] = events[v][k]
               /\ \A k \in DOMAIN events[v] : events[v][k] \in EventType
      <4>1. \A k \in DOMAIN events[v] :
              /\ events'[v][k].item = events[v][k].item
              /\ events'[v][k].author = events[v][k].author
              /\ events'[v][k].member = events[v][k].member
        BY <3>3 DEF EventType
      <4> QED BY <1>3, <3>3, <4>1
    <3> QED BY <1>11, <3>1, <3>2, <3>3, RowsOf
  <2> QED BY <1>2, <2>2, <2>3, <2>6 DEF AttribI
<1> QED BY <1>7, <1>8, <1>9, <1>10, <1>11 DEF Acts

\* What is in the map now was put there.
LEMMA MapStep ==
  ASSUME TypeI, IngestNext, MapI
  PROVE  MapI'
<1>1. CASE UNCHANGED <<mapping, mapped>>
  BY <1>1 DEF MapI
<1>2. ASSUME NEW id \in Identities, NEW x \in Members, SetMapping(id, x) PROVE MapI'
  BY <1>2 DEF SetMapping, MapI, TypeI, TablesTyped
<1>3. ASSUME NEW id \in Identities, DeleteContributorMap(id) PROVE MapI'
  BY <1>3 DEF DeleteContributorMap, MapI, TypeI, TablesTyped
<1>4. CASE ProcessDies
  BY <1>1, <1>4 DEF ProcessDies, tables
<1>5. ASSUME NEW w \in Workers, Worker(w) PROVE MapI'
  BY <1>1, <1>5 DEF Worker, StoreWebhook, LookUp, Fetch, FindIdentity, CreateIdentity,
     ReadMapping, WriteEvent, ProcessEvent, tables
<1>6. ASSUME NEW w \in Workers, NEW i \in Items, Deliver(w, i) PROVE MapI'
  BY <1>1, <1>6 DEF Deliver, tables
<1>7. ASSUME NEW w \in Workers, NEW n \in Integrations, Begin(w, n) PROVE MapI'
  BY <1>1, <1>7 DEF Begin, tables
<1>8. CASE Surroundings
  <2>1. CASE Post \/ (\E i \in listed : Unlist(i)) \/ Uninstall
              \/ (\E n \in Integrations : Connect(n)) \/ (\E p \in Projects : LinkIntegration(p))
    BY <1>1, <2>1 DEF Post, Unlist, Uninstall, Connect, LinkIntegration, tables
  <2> QED BY <1>2, <1>3, <1>8, <2>1 DEF Surroundings, CreateContributorMap, UpdateContributorMap
<1> QED BY <1>4, <1>5, <1>6, <1>7, <1>8 DEF IngestNext

-----------------------------------------------------------------------------
\* What has been processed: the rows of a project that can be summarized.

ToProcess(e) == e.project # Unassigned /\ ~NotSummarizable(e.item)

ProcI(w) ==
  failures = 0 => \A k \in DOMAIN events[w] :
    events[w][k].processedByLLM <=>
      ToProcess(events[w][k]) /\ ~ (work[w].pc = "processing" /\ k = Len(events[w]))

\* They are processed one after the other.
LEMMA ProcStep ==
  ASSUME TypeI, NEW v \in Workers, Stays(v) \/ Acts(v), Grows, ProcI(v)
  PROVE  ProcI(v)'
<1>1. work[v] \in Me /\ Placed(v) /\ (failures' = 0 => failures = 0 /\ ~ (failures' > 0))
  BY DEF TypeI, WorkTyped, Grows
<1>2. SUFFICES ASSUME failures' = 0, failures = 0, ~ (failures' > 0)
               PROVE  \A k \in DOMAIN events'[v] :
                        events'[v][k].processedByLLM <=>
                          /\ ToProcess(events'[v][k])
                          /\ ~ (work'[v].pc = "processing" /\ k = Len(events'[v]))
  BY <1>1 DEF ProcI, ToProcess, NotSummarizable, Grows
<1>3. PICK me, m : me = work[v] /\ m = work'[v]
  OBVIOUS
<1>4. CASE events'[v] = events[v] /\ me.pc # "processing" /\ m.pc # "processing"
  BY <1>2, <1>3, <1>4 DEF ProcI
<1>5. CASE Stays(v)
  BY <1>2, <1>5 DEF Stays, ProcI
<1>6. CASE \/ Delivered(v) \/ NoneLinked(v) \/ Found(v) \/ Began(v) \/ Stored(v)
           \/ Received(v) \/ Searched(v)
  BY <1>3, <1>4, <1>6 DEF Delivered, NoneLinked, Found, Began, Stored, Received, Searched, Untouched
<1>7. CASE Stopped(v) \/ Skipped(v)
  BY <1>2, <1>7 DEF Stopped, Skipped
<1>8. CASE Settled(v)
  <2>1. PICK author, member : AuthorSettled(me, m, author, member)
    BY <1>3, <1>8 DEF Settled
  <2>2. me \in Me /\ me.page # <<>>
    BY <1>1, <1>3, <1>8 DEF Settled, Placed, Walking
  <2>3. m.pc # "processing"
    BY <2>1, <2>2, AuthorSettledPage
  <2> QED BY <1>3, <1>4, <1>8, <2>3 DEF Settled, Untouched
<1>9. CASE Wrote(v)
  <2>1. /\ DOMAIN events'[v] = 1 .. Len(events[v]) + 1
        /\ Len(events[v]) \in Nat /\ DOMAIN events[v] = 1 .. Len(events[v])
        /\ Len(events'[v]) = Len(events[v]) + 1
        /\ events'[v][Len(events[v]) + 1] = NewEvent(v)
        /\ \A k \in 1 .. Len(events[v]) : events'[v][k] = events[v][k]
    <3>1. events'[v] # events[v]
      <4>1. PICK es, e : es = events[v] /\ e = NewEvent(v)
        OBVIOUS
      <4>2. es \in Seq(EventType) /\ e \in EventType /\ events'[v] = Append(es, e)
        BY <1>9, <4>1 DEF Wrote, TypeI, WorkTyped
      <4>3. Len(Append(es, e)) = Len(es) + 1 /\ Len(es) \in Nat
        BY <4>2
      <4>4. Len(es) + 1 # Len(es)
        <5>1. PICK l : l = Len(es)
          OBVIOUS
        <5> QED BY <4>3, <5>1
      <4> QED BY <4>1, <4>2, <4>3, <4>4
    <3>2. ~ Processed(v)
      BY <1>9 DEF Wrote, Processed
    <3> QED BY <3>1, <3>2, RowsOf
  <2>2. PICK l : l = Len(events[v])
    OBVIOUS
  <2>3. /\ DOMAIN events'[v] = 1 .. l + 1 /\ l \in Nat /\ DOMAIN events[v] = 1 .. l
        /\ Len(events'[v]) = l + 1 /\ events'[v][l + 1] = NewEvent(v)
        /\ \A k \in 1 .. l : events'[v][k] = events[v][k]
    BY <2>1, <2>2
  <2>4. \A k \in 1 .. l : k # l + 1
    BY <2>3
  <2>5. me.pc = "writing" /\ me.page # <<>> /\ me \in Me
    BY <1>1, <1>3, <1>9 DEF Wrote, Placed, Walking
  <2>6. \A k \in 1 .. l :
          events[v][k].processedByLLM <=> ToProcess(events[v][k])
    BY <1>2, <1>3, <2>3, <2>5 DEF ProcI
  <2>7. PICK e : e = NewEvent(v)
    OBVIOUS
  <2>8. ~ e.processedByLLM /\ e.project = Head(me.left)
    BY <1>3, <2>7 DEF NewEvent
  <2>9. e.project # Unassigned <=> m.pc = "processing"
    <3>1. CASE Head(me.left) = Unassigned /\ ProjectOver(me, m)
      BY <2>5, <2>8, <3>1, ProjectOverPage
    <3>2. CASE Head(me.left) # Unassigned /\ m = [me EXCEPT !.pc = "processing"]
      BY <2>5, <2>8, <3>2 DEF Me
    <3> QED BY <1>3, <1>9, <3>1, <3>2 DEF Wrote
  <2>10. e.processedByLLM <=> ToProcess(e) /\ m.pc # "processing"
    BY <2>8, <2>9 DEF ToProcess
  <2> QED BY <1>3, <2>3, <2>4, <2>6, <2>7, <2>10
<1>10. CASE Processed(v)
  <2>1. me.pc = "processing" /\ me.page # <<>> /\ me \in Me /\ ProjectOver(me, m)
    BY <1>1, <1>3, <1>10 DEF Processed, Placed, Walking
  <2>2. m.pc # "processing"
    BY <2>1, ProjectOverPage
  <2>3. PICK es, fs, l : es = events[v] /\ fs = events'[v] /\ l = Len(es)
    OBVIOUS
  <2>4. /\ es \in Seq(EventType) /\ es # <<>> /\ es[l].project # Unassigned
        /\ es[l].item = Head(me.page)
    BY <1>1, <1>3, <2>1, <2>3 DEF TypeI, WorkTyped, Placed
  <2>5. \/ fs = [es EXCEPT ![l].processedByLLM = TRUE] /\ ToProcess(es[l])
        \/ fs = es /\ ~ToProcess(es[l])
    BY <1>2, <1>3, <1>10, <2>3, <2>4 DEF Processed, ToProcess
  <2>6. l \in DOMAIN es /\ \A k \in DOMAIN es : es[k] \in EventType
    BY <2>3, <2>4
  <2>7. /\ \A k \in DOMAIN es : k # l => (es[k].processedByLLM <=> ToProcess(es[k]))
        /\ ~es[l].processedByLLM
    BY <1>2, <1>3, <2>1, <2>3, <2>6 DEF ProcI
  <2>8. CASE fs = [es EXCEPT ![l].processedByLLM = TRUE] /\ ToProcess(es[l])
    <3>1. /\ DOMAIN fs = DOMAIN es /\ fs[l].processedByLLM
          /\ fs[l].project = es[l].project /\ fs[l].item = es[l].item
          /\ \A k \in DOMAIN es : k # l => fs[k] = es[k]
      BY <2>6, <2>8 DEF EventType
    <3>2. ToProcess(fs[l])
      BY <2>8, <3>1 DEF ToProcess
    <3> QED BY <1>3, <2>2, <2>3, <2>7, <3>1, <3>2
  <2>9. CASE fs = es /\ ~ToProcess(es[l])
    BY <1>3, <2>2, <2>3, <2>6, <2>7, <2>9
  <2> QED BY <2>5, <2>8, <2>9
<1> QED BY <1>5, <1>6, <1>7, <1>8, <1>9, <1>10 DEF Acts

-----------------------------------------------------------------------------
\* What an ingest still has before it.

\* Everything that was listed from the beginning of the ingest on has been walked, or
\* is still ahead of the cursor and there is a page to come.
CompI(w) ==
  provider # "github" /\ work[w].pc # "idle" =>
    /\ seen[w].steady \subseteq listed
    /\ ~ (provider = "jira" /\ seen[w].shifted) =>
         /\ work[w].pc \in Walking \cup {"fetching"} =>
              \A i \in seen[w].steady :
                \/ i \in seen[w].walked
                \/ Ahead(work[w].position, i) /\ (work[w].pc = "fetching" \/ work[w].more)
         /\ work[w].pc = "done" => seen[w].steady \subseteq seen[w].walked

\* A worker that goes on with its page.
LEMMA GoesOnComplete ==
  ASSUME NEW v, CompI(v), work[v].pc \in Walking, provider' = provider,
         listed' = listed, seen'[v] = seen[v], SameIngest(work[v], work'[v]),
         \/ work'[v].pc \in Walking
         \/ work'[v].pc = "fetching" /\ work[v].more
         \/ work'[v].pc = "done" /\ ~ work[v].more
  PROVE  CompI(v)'
<1>1. \A i : Ahead(work[v].position, i)' <=> Ahead(work[v].position, i)
  BY DEF Ahead, Rank, SameIngest
<1> QED BY <1>1 DEF CompI, SameIngest, Walking

\* New things are newer than all others, and a place only moves on.
LEMMA RankGrows ==
  ASSUME NEW s \in SUBSET Nat, IsFiniteSet(s), NEW n, NEW i
  PROVE  Rank(s, i) <= Rank(s \cup {n}, i)
<1>1. PICK a, b : a = {j \in s : j >= i} /\ b = {j \in s \cup {n} : j >= i}
  OBVIOUS
<1>2. IsFiniteSet(s \cup {n})
  BY FS_AddElement
<1>3. b \in SUBSET (s \cup {n}) /\ a \in SUBSET b
  BY <1>1
<1>4. IsFiniteSet(b)
  BY <1>2, <1>3, FS_Subset
<1>5. Cardinality(a) <= Cardinality(b)
  BY <1>3, <1>4, FS_Subset
<1> QED BY <1>1, <1>5 DEF Rank

\* Nothing that is listed throughout is passed over.
LEMMA CompStep ==
  ASSUME TypeI, NEW v \in Workers, Stays(v) \/ Acts(v), Stays(v) \/ listed' = listed, Grows,
         CompI(v)
  PROVE  CompI(v)'
<1>1. /\ work[v] \in Me /\ Placed(v) /\ provider' = provider /\ TablesTyped
      /\ seen[v] \in Seen
  BY DEF TypeI, WorkTyped, Grows
<1>2. PICK me, m : me = work[v] /\ m = work'[v]
  OBVIOUS
<1>3. /\ listed \in SUBSET Items /\ listed \in SUBSET Nat /\ IsFiniteSet(listed)
      /\ Items \in SUBSET Nat /\ MaxItem \in Nat
  BY <1>1, ListedTyped
<1>4. me.position \in Nat
  BY <1>1, <1>2 DEF Me
<1>5. CASE Stays(v)
  <2>1. CASE seen'[v] = seen[v] /\ listed' = listed
    <3>1. \A i : Ahead(work[v].position, i)' <=> Ahead(work[v].position, i)
      BY <1>1, <1>5, <2>1 DEF Ahead, Rank, Stays
    <3> QED BY <1>1, <1>5, <2>1, <3>1 DEF Stays, CompI
  <2>2. CASE seen'[v] = seen[v] /\ listed' = listed \cup {posted + 1}
    <3>1. \A i \in listed : Ahead(work[v].position, i) => Ahead(work[v].position, i)'
      <4> SUFFICES ASSUME NEW i \in listed, Ahead(work[v].position, i)
                   PROVE  Ahead(work[v].position, i)'
        OBVIOUS
      <4>1. CASE provider = "jira"
        <5>1. PICK a, b : a = Rank(listed, i) /\ b = Rank(listed', i)
          OBVIOUS
        <5>2. a <= b
          BY <1>3, <2>2, <5>1, RankGrows
        <5>3. a \in Nat
          BY <1>3, <5>1, RankBounds
        <5>4. b \in Nat
          <6>1. IsFiniteSet(listed')
            BY <1>3, <2>2, FS_AddElement
          <6>2. {j \in listed' : j >= i} \in SUBSET listed'
            OBVIOUS
          <6> QED BY <5>1, <6>1, <6>2, FS_Subset, FS_CardinalityType DEF Rank
        <5>5. a > me.position
          BY <1>2, <4>1, <5>1 DEF Ahead
        <5>6. b > me.position
          BY <1>4, <5>2, <5>3, <5>4, <5>5
        <5>7. work'[v] = me
          BY <1>2, <1>5 DEF Stays
        <5> QED BY <1>1, <4>1, <5>1, <5>6, <5>7 DEF Ahead
      <4>2. CASE provider # "jira"
        BY <1>1, <1>5, <4>2 DEF Ahead, Stays
      <4> QED BY <4>1, <4>2
    <3> QED BY <1>1, <1>5, <2>2, <3>1 DEF Stays, CompI
  <2>3. CASE \E i \in listed :
               /\ listed' = listed \ {i}
               /\ seen'[v] = [seen[v] EXCEPT !.steady = @ \ {i},
                                             !.shifted = @ \/ work[v].pc # "idle"]
    <3>1. PICK i \in listed : /\ listed' = listed \ {i}
               /\ seen'[v] = [seen[v] EXCEPT !.steady = @ \ {i},
                                             !.shifted = @ \/ work[v].pc # "idle"]
      BY <2>3
    <3>2. /\ seen'[v].steady = seen[v].steady \ {i} /\ seen'[v].walked = seen[v].walked
          /\ (work[v].pc # "idle" => seen'[v].shifted)
          /\ (seen[v].shifted => seen'[v].shifted)
      BY <1>1, <3>1 DEF Seen
    <3>3. work'[v] = work[v]
      BY <1>5 DEF Stays
    <3>4. provider # "jira" =>
            \A x : Ahead(work[v].position, x)' <=> Ahead(work[v].position, x)
      BY <1>1, <3>3 DEF Ahead
    <3> QED BY <1>1, <3>1, <3>2, <3>3, <3>4 DEF CompI
  <2> QED BY <1>5, <2>1, <2>2, <2>3 DEF Stays
<1>6. CASE Delivered(v) \/ Stored(v) \/ NoneLinked(v) \/ Found(v)
  BY <1>1, <1>6 DEF Delivered, Stored, NoneLinked, Found, Placed, CompI
<1>7. CASE Stopped(v) /\ listed' = listed
  <2>1. m.pc \notin Walking \cup {"fetching", "done"} /\ me.pc # "idle" /\ seen'[v] = seen[v]
    BY <1>2, <1>7 DEF Stopped, Untouched, Walking
  <2> QED BY <1>1, <1>2, <1>7, <2>1 DEF CompI
<1>8. CASE Began(v) /\ listed' = listed
  <2>1. \A i \in listed : Ahead(work'[v].position, i)
    <3> SUFFICES ASSUME NEW i \in listed PROVE Ahead(work'[v].position, i)
      OBVIOUS
    <3>1. Rank(listed, i) > 0
      <4>1. PICK a, c : a = Rank(listed, i) /\ c = Cardinality(listed)
        OBVIOUS
      <4>2. c \in Nat /\ a \in 1 .. c
        BY <1>3, <4>1, RankBounds
      <4> QED BY <4>1, <4>2
    <3>2. i < MaxItem + 1
      BY <1>3 DEF Items
    <3> QED BY <1>8, <3>1, <3>2 DEF Began, Ahead
  <2>2. \A i \in listed : Ahead(work[v].position, i)'
    <3> SUFFICES ASSUME NEW i \in listed PROVE Ahead(work[v].position, i)'
      OBVIOUS
    <3> QED BY <1>1, <1>8, <2>1 DEF Ahead
  <2>3. seen'[v].steady = listed' /\ m.pc = "fetching"
    BY <1>2, <1>8 DEF Began
  <2> QED BY <1>2, <1>8, <2>2, <2>3 DEF CompI
<1>9. CASE Received(v) /\ listed' = listed
  <2>1. PICK page, more, position, walked, steady :
          /\ page = m.page /\ more = m.more /\ position = m.position
          /\ walked = seen[v].walked /\ steady = seen[v].steady
    OBVIOUS
  <2>2. /\ me.pc = "fetching" /\ m.pc = (IF page = <<>> THEN "done" ELSE "finding")
        /\ seen'[v].walked = walked \cup ToSet(page) /\ seen'[v].steady = steady
        /\ seen'[v].shifted = seen[v].shifted /\ provider # "github"
    BY <1>2, <1>9, <2>1 DEF Received
  <2>3. \A i \in listed : Ahead(me.position, i) =>
          i \in ToSet(page) \/ (Ahead(position, i) /\ more /\ page # <<>>)
    BY <1>2, <1>9, <2>1 DEF Received, Page
  <2>4. \A i : Ahead(work[v].position, i)' <=> Ahead(position, i)
    BY <1>1, <1>2, <1>9, <2>1 DEF Ahead
  <2>5. steady \subseteq listed
    BY <1>2, <2>1, <2>2 DEF CompI
  <2>6. ASSUME ~ (provider = "jira" /\ seen[v].shifted), NEW i \in steady
        PROVE  i \in walked \cup ToSet(page) \/ (Ahead(position, i) /\ more /\ page # <<>>)
    BY <1>2, <2>1, <2>2, <2>3, <2>5, <2>6 DEF CompI
  <2>7. CASE page = <<>>
    <3>1. \A i \in steady : ~ (provider = "jira" /\ seen[v].shifted) =>
             i \in walked \cup ToSet(page)
      BY <2>6, <2>7
    <3> QED BY <1>1, <1>2, <1>9, <2>1, <2>2, <2>5, <2>7, <3>1 DEF CompI, Walking
  <2>8. CASE page # <<>>
    BY <1>1, <1>2, <1>9, <2>1, <2>2, <2>4, <2>5, <2>6, <2>8 DEF CompI, Walking
  <2> QED BY <2>7, <2>8
<1>10. CASE Searched(v) /\ listed' = listed
  BY <1>1, <1>10, GoesOnComplete DEF Searched, Untouched, Walking
<1>11. CASE Settled(v) /\ listed' = listed
  <2>1. PICK author, member : AuthorSettled(me, m, author, member)
    BY <1>2, <1>11 DEF Settled
  <2>2. me \in Me /\ me.page # <<>> /\ me.pc \in Walking /\ seen'[v] = seen[v]
    BY <1>1, <1>2, <1>11 DEF Settled, Placed, Walking, Untouched
  <2>3. /\ SameIngest(me, m)
        /\ \/ m.pc \in Walking
           \/ m.pc = "fetching" /\ me.more
           \/ m.pc = "done" /\ ~ me.more
    BY <2>1, <2>2, AuthorSettledPage, ItemOverPage DEF Walking
  <2> QED BY <1>1, <1>2, <1>11, <2>2, <2>3, GoesOnComplete
<1>12. CASE (Wrote(v) \/ Skipped(v) \/ Processed(v)) /\ listed' = listed
  <2>1. me \in Me /\ me.page # <<>> /\ me.pc \in Walking /\ seen'[v] = seen[v]
    BY <1>1, <1>2, <1>12 DEF Wrote, Skipped, Processed, Placed, Walking, Untouched
  <2>2. /\ SameIngest(me, m)
        /\ \/ m.pc \in Walking
           \/ m.pc = "fetching" /\ me.more
           \/ m.pc = "done" /\ ~ me.more
    <3>1. CASE ProjectOver(me, m)
      BY <2>1, <3>1, ProjectOverPage, ItemOverPage DEF Walking
    <3>2. CASE m = [me EXCEPT !.pc = "processing"]
      BY <2>1, <3>2 DEF Me, Walking, SameIngest
    <3> QED BY <1>2, <1>12, <3>1, <3>2 DEF Wrote, Skipped, Processed
  <2> QED BY <1>1, <1>2, <1>12, <2>1, <2>2, GoesOnComplete
<1> QED BY <1>5, <1>6, <1>7, <1>8, <1>9, <1>10, <1>11, <1>12 DEF Acts

-----------------------------------------------------------------------------
\* What is counted.

Recs(es, i, p) == Cardinality({k \in DOMAIN es : es[k].item = i /\ es[k].project = p})
Prefix(s, n, p) == Cardinality({k \in 1 .. n : s[k] = p})

\* Of no connections none is of a project.
LEMMA PrefixNone ==
  ASSUME NEW s, NEW p PROVE Prefix(s, 0, p) = 0
<1>1. {k \in 1 .. 0 : s[k] = p} = {}
  OBVIOUS
<1> QED BY <1>1, FS_EmptySet DEF Prefix

\* One connection more.
LEMMA PrefixNext ==
  ASSUME NEW s, NEW n \in Nat, NEW p
  PROVE  /\ Prefix(s, n, p) \in Nat
         /\ s[n + 1] = p => Prefix(s, n + 1, p) = Prefix(s, n, p) + 1
         /\ s[n + 1] # p => Prefix(s, n + 1, p) = Prefix(s, n, p)
<1>1. PICK a, b : a = {k \in 1 .. n : s[k] = p} /\ b = {k \in 1 .. n + 1 : s[k] = p}
  OBVIOUS
<1>2. IsFiniteSet(a) /\ Cardinality(a) \in Nat
  <2>1. IsFiniteSet(1 .. n) /\ a \in SUBSET (1 .. n)
    BY <1>1, FS_Interval
  <2> QED BY <2>1, FS_Subset, FS_CardinalityType
<1>3. \A k : k \in 1 .. n + 1 <=> k \in 1 .. n \/ k = n + 1
  OBVIOUS
<1>4. n + 1 \notin a
  BY <1>1
<1>5. s[n + 1] = p => b = a \cup {n + 1}
  BY <1>1, <1>3
<1>6. s[n + 1] # p => b = a
  BY <1>1, <1>3
<1>7. Cardinality(a \cup {n + 1}) = Cardinality(a) + 1
  BY <1>2, <1>4, FS_AddElement
<1> QED BY <1>1, <1>2, <1>5, <1>6, <1>7 DEF Prefix

\* A thing no row is about has none.
LEMMA RecsNone ==
  ASSUME NEW es, NEW i, NEW p, \A k \in DOMAIN es : es[k].item # i
  PROVE  Recs(es, i, p) = 0
<1>1. {k \in DOMAIN es : es[k].item = i /\ es[k].project = p} = {}
  OBVIOUS
<1> QED BY <1>1, FS_EmptySet DEF Recs

\* Rows that stay about the same.
LEMMA RecsSame ==
  ASSUME NEW es, NEW fs, DOMAIN fs = DOMAIN es, NEW i, NEW p,
         \A k \in DOMAIN es : fs[k].item = es[k].item /\ fs[k].project = es[k].project
  PROVE  Recs(fs, i, p) = Recs(es, i, p)
<1>1. {k \in DOMAIN es : es[k].item = i /\ es[k].project = p}
        = {k \in DOMAIN fs : fs[k].item = i /\ fs[k].project = p}
  OBVIOUS
<1> QED BY <1>1 DEF Recs

\* One row more.
LEMMA RecsNext ==
  ASSUME NEW es, NEW fs, NEW n \in Nat, DOMAIN es = 1 .. n, DOMAIN fs = 1 .. n + 1,
         \A k \in 1 .. n : fs[k] = es[k], NEW i, NEW p
  PROVE  /\ Recs(es, i, p) \in Nat
         /\ fs[n + 1].item = i /\ fs[n + 1].project = p
              => Recs(fs, i, p) = Recs(es, i, p) + 1
         /\ ~ (fs[n + 1].item = i /\ fs[n + 1].project = p)
              => Recs(fs, i, p) = Recs(es, i, p)
<1>1. PICK a, b : /\ a = {k \in DOMAIN es : es[k].item = i /\ es[k].project = p}
                  /\ b = {k \in DOMAIN fs : fs[k].item = i /\ fs[k].project = p}
  OBVIOUS
<1>2. IsFiniteSet(a) /\ Cardinality(a) \in Nat
  <2>1. IsFiniteSet(1 .. n) /\ a \in SUBSET (1 .. n)
    BY <1>1, FS_Interval
  <2> QED BY <2>1, FS_Subset, FS_CardinalityType
<1>3. \A k : k \in 1 .. n + 1 <=> k \in 1 .. n \/ k = n + 1
  OBVIOUS
<1>4. n + 1 \notin a
  BY <1>1
<1>5. fs[n + 1].item = i /\ fs[n + 1].project = p => b = a \cup {n + 1}
  BY <1>1, <1>3
<1>6. ~ (fs[n + 1].item = i /\ fs[n + 1].project = p) => b = a
  BY <1>1, <1>3
<1>7. Cardinality(a \cup {n + 1}) = Cardinality(a) + 1
  BY <1>2, <1>4, FS_AddElement
<1> QED BY <1>1, <1>2, <1>5, <1>6, <1>7 DEF Recs

-----------------------------------------------------------------------------
\* One row per connection.

\* Of the rows of the first thing of the page n have been passed, of the rest none, and
\* what is behind has all of them.
HeadRecs(me, es, n) ==
  \A p \in ToSet(me.rows) : Recs(es, Head(me.page), p) = Prefix(me.rows, n, p)
TailRecs(me, es) ==
  \A k \in 2 .. Len(me.page) : \A p \in ToSet(me.rows) : Recs(es, me.page[k], p) = 0
PastRecs(me, es, walked) ==
  \A i \in walked : i \notin ToSet(me.page) =>
    \A p \in ToSet(me.rows) : Recs(es, i, p) = Prefix(me.rows, Len(me.rows), p)

\* Where every failure ends the work, or none has happened, rows are counted.
Counts == provider \notin {"notion", "jira"} /\ (provider \in Stops \/ failures = 0)

\* The cursor of Slack and Discord leaves what was walked behind; Figma's page is its
\* only one.
CursorI(w) ==
  work[w].pc \in Walking \cup {"fetching"} =>
    /\ provider \in {"slack", "discord"} =>
         \A i \in seen[w].walked : work[w].position <= i
    /\ provider = "figma" =>
         IF work[w].pc = "fetching" THEN seen[w].walked = {} ELSE ~ work[w].more

RecI(w) ==
  Counts =>
    /\ work[w].pc \in Walking => Distinct(work[w].page) /\ TailRecs(work[w], events[w])
    /\ work[w].pc \in {"finding", "creating", "mapping"} => HeadRecs(work[w], events[w], 0)
    /\ work[w].pc = "writing" =>
         HeadRecs(work[w], events[w], Len(work[w].rows) - Len(work[w].left))
    /\ work[w].pc = "processing" =>
         HeadRecs(work[w], events[w], Len(work[w].rows) - Len(work[w].left) + 1)
    /\ work[w].pc \in Walking \cup {"fetching", "done"} =>
         PastRecs(work[w], events[w], seen[w].walked)

\* A thing that is over has all its rows, and the next one none.
LEMMA ItemRecs ==
  ASSUME NEW me \in Me, NEW m, NEW es, NEW walked, ItemOver(me, m), me.page # <<>>,
         Distinct(me.page), TailRecs(me, es), HeadRecs(me, es, Len(me.rows)),
         PastRecs(me, es, walked)
  PROVE  /\ Distinct(m.page) /\ TailRecs(m, es) /\ PastRecs(m, es, walked)
         /\ m.pc = "finding" => HeadRecs(m, es, 0)
<1>1. me.page \in Seq(Items) /\ m.rows = me.rows
  BY DEF Me, ItemOver, SameIngest
<1>2. PICK t, n : t = Tail(me.page) /\ n = Len(me.page)
  OBVIOUS
<1>3. /\ n \in Nat /\ n >= 1 /\ Len(t) = n - 1 /\ Head(me.page) = me.page[1]
      /\ \A k \in 1 .. n - 1 : t[k] = me.page[k + 1]
  BY <1>1, <1>2, SetOfTail
<1>4. ToSet(me.page) = {Head(me.page)} \cup ToSet(m.page)
  BY ItemOverPage
<1>5. PastRecs(m, es, walked)
  <2> SUFFICES ASSUME NEW i \in walked, i \notin ToSet(m.page), NEW p \in ToSet(me.rows)
               PROVE  Recs(es, i, p) = Prefix(me.rows, Len(me.rows), p)
    BY <1>1 DEF PastRecs
  <2>1. CASE i = Head(me.page)
    BY <2>1 DEF HeadRecs
  <2>2. CASE i # Head(me.page)
    <3>1. i \notin ToSet(me.page)
      BY <1>4, <2>2
    <3> QED BY <3>1 DEF PastRecs
  <2> QED BY <2>1, <2>2
<1>6. CASE m.pc = "finding"
  <2>1. m.page = t /\ t # <<>>
    BY <1>2, <1>6, ItemOverPage
  <2>2. t \in Seq(Items) /\ Head(t) = t[1] /\ Len(t) >= 1
    BY <1>1, <1>2, <2>1, SetOfTail
  <2>3. \A k \in 1 .. n - 1 : k + 1 \in 2 .. n /\ k + 1 \in 1 .. n
    BY <1>3
  <2>4. Distinct(t)
    <3> SUFFICES ASSUME NEW k \in 1 .. n - 1, NEW l \in 1 .. n - 1, t[k] = t[l] PROVE k = l
      BY <1>3 DEF Distinct
    <3>1. me.page[k + 1] = me.page[l + 1]
      BY <1>3
    <3>2. k + 1 = l + 1
      BY <1>2, <2>3, <3>1 DEF Distinct
    <3> QED BY <1>3, <3>2
  <2>5. TailRecs(m, es)
    <3> SUFFICES ASSUME NEW k \in 2 .. n - 1, NEW p \in ToSet(me.rows)
                 PROVE  Recs(es, t[k], p) = 0
      BY <1>1, <1>3, <2>1 DEF TailRecs
    <3>1. k \in 1 .. n - 1
      BY <1>3
    <3>2. t[k] = me.page[k + 1] /\ k + 1 \in 2 .. n
      BY <1>3, <2>3, <3>1
    <3> QED BY <1>2, <3>2 DEF TailRecs
  <2>6. HeadRecs(m, es, 0)
    <3> SUFFICES ASSUME NEW p \in ToSet(me.rows) PROVE Recs(es, Head(t), p) = Prefix(me.rows, 0, p)
      BY <1>1, <2>1 DEF HeadRecs
    <3>1. 1 \in 1 .. n - 1
      BY <1>3, <2>2
    <3>2. t[1] = me.page[1 + 1] /\ 1 + 1 \in 2 .. n
      BY <1>3, <2>3, <3>1
    <3>3. Recs(es, t[1], p) = 0
      BY <1>2, <3>2 DEF TailRecs
    <3> QED BY <2>2, <3>3, PrefixNone
  <2> QED BY <1>5, <2>1, <2>4, <2>5, <2>6
<1>7. CASE m.pc # "finding"
  <2>1. m.page = <<>> /\ Len(m.page) = 0
    BY <1>7, ItemOverPage
  <2> QED BY <1>5, <1>7, <2>1 DEF Distinct, TailRecs
<1> QED BY <1>6, <1>7

\* A project that is over has had its row.
LEMMA ProjectRecs ==
  ASSUME NEW me \in Me, NEW m, NEW es, NEW walked, ProjectOver(me, m), me.page # <<>>,
         Len(me.left) <= Len(me.rows), Distinct(me.page), TailRecs(me, es),
         HeadRecs(me, es, Len(me.rows) - Len(me.left) + 1), PastRecs(me, es, walked)
  PROVE  /\ Distinct(m.page) /\ TailRecs(m, es) /\ PastRecs(m, es, walked)
         /\ m.pc = "finding" => HeadRecs(m, es, 0)
         /\ m.pc = "writing" => HeadRecs(m, es, Len(m.rows) - Len(m.left))
         /\ m.pc \in {"finding", "fetching", "done", "writing"}
<1>1. PICK r, l : r = Len(me.rows) /\ l = Len(me.left)
  OBVIOUS
<1>2. r \in Nat /\ l \in Nat /\ me.left \in Seq(Targets)
  BY <1>1 DEF Me
<1>3. CASE ItemOver(me, m) /\ Len(me.left) = 1
  <2>1. r - l + 1 = r
    BY <1>1, <1>2, <1>3
  <2>2. HeadRecs(me, es, Len(me.rows))
    BY <1>1, <2>1
  <2>3. m.pc \in {"finding", "fetching", "done"}
    BY <1>3, ItemOverPage
  <2> QED BY <1>3, <2>2, <2>3, ItemRecs
<1>4. CASE Len(me.left) > 1 /\ m \in Me /\ m = [me EXCEPT !.pc = "writing", !.left = Tail(@)]
  <2>1. m.page = me.page /\ m.rows = me.rows /\ m.left = Tail(me.left) /\ m.pc = "writing"
    BY <1>4 DEF Me
  <2>2. me.left # <<>>
    BY <1>1, <1>2, <1>4
  <2>3. Len(m.left) = l - 1
    BY <1>1, <1>2, <2>1, <2>2, SetOfTail
  <2>4. r - (l - 1) = r - l + 1
    BY <1>2
  <2>5. HeadRecs(me, es, Len(m.rows) - Len(m.left))
    BY <1>1, <2>1, <2>3, <2>4
  <2> QED BY <2>1, <2>5 DEF TailRecs, PastRecs, HeadRecs
<1> QED BY <1>3, <1>4 DEF ProjectOver

\* A worker that goes on with its page has the same cursor.
LEMMA GoesOnCursor ==
  ASSUME NEW v, CursorI(v), work[v].pc \in Walking, provider' = provider,
         seen'[v] = seen[v], SameIngest(work[v], work'[v]),
         \/ work'[v].pc \in Walking
         \/ work'[v].pc = "fetching" /\ work[v].more
         \/ work'[v].pc = "done" /\ ~ work[v].more
  PROVE  CursorI(v)'
BY DEF CursorI, SameIngest, Walking

\* The cursor stays behind what was walked.
LEMMA CursorStep ==
  ASSUME TypeI, NEW v \in Workers, Stays(v) \/ Acts(v), Grows, WalkedI(v), CursorI(v)
  PROVE  CursorI(v)'
<1>1. /\ work[v] \in Me /\ Placed(v) /\ provider' = provider /\ TablesTyped
      /\ seen[v] \in Seen
  BY DEF TypeI, WorkTyped, Grows
<1>2. PICK me, m : me = work[v] /\ m = work'[v]
  OBVIOUS
<1>3. CASE Stays(v)
  BY <1>1, <1>3 DEF Stays, CursorI, Seen
<1>4. CASE Delivered(v) \/ Stored(v) \/ NoneLinked(v) \/ Stopped(v)
  BY <1>1, <1>4 DEF Delivered, Stored, NoneLinked, Stopped, CursorI, Walking
<1>5. CASE Found(v)
  BY <1>1, <1>5 DEF Found, Placed, CursorI
<1>6. CASE Began(v)
  <2>1. seen'[v].walked = {} /\ m.pc = "fetching"
    BY <1>2, <1>6 DEF Began, WalkedI
  <2> QED BY <1>2, <2>1 DEF CursorI
<1>7. CASE Received(v)
  <2>1. PICK page, walked, position, before :
          /\ page = m.page /\ walked = seen[v].walked /\ position = m.position
          /\ before = me.position
    OBVIOUS
  <2>2. /\ me.pc = "fetching" /\ m.pc \in {"finding", "done"}
        /\ seen'[v].walked = walked \cup ToSet(page)
        /\ (m.pc = "finding" => page # <<>>)
    BY <1>2, <1>7, <2>1 DEF Received
  <2>3. /\ (provider \in {"slack", "discord"} =>
              /\ \A i \in ToSet(page) : position <= i
              /\ position <= before)
        /\ (provider = "figma" => ~ m.more)
        /\ position \in Nat /\ page \in Seq(Items)
    BY <1>2, <1>7, <2>1 DEF Received, Page
  <2>4. before \in Nat /\ walked \in SUBSET Items /\ Items \in SUBSET Nat
    BY <1>1, <1>2, <2>1, ListedTyped DEF Me, Seen
  <2>5. provider \in {"slack", "discord"} => \A i \in walked : before <= i
    BY <1>2, <2>1, <2>2 DEF CursorI
  <2>6. ASSUME provider \in {"slack", "discord"}, NEW i \in walked PROVE position <= i
    <3>1. i \in Nat /\ before <= i /\ position <= before
      BY <2>3, <2>4, <2>5, <2>6
    <3> QED BY <2>3, <2>4, <3>1
  <2>7. provider \in {"slack", "discord"} => \A i \in walked \cup ToSet(page) : position <= i
    BY <2>3, <2>6
  <2> QED BY <1>1, <1>2, <2>1, <2>2, <2>3, <2>7 DEF CursorI
<1>8. CASE Searched(v)
  BY <1>1, <1>8, GoesOnCursor DEF Searched, Untouched, Walking
<1>9. CASE Settled(v)
  <2>1. PICK author, member : AuthorSettled(me, m, author, member)
    BY <1>2, <1>9 DEF Settled
  <2>2. me \in Me /\ me.page # <<>> /\ me.pc \in Walking /\ seen'[v] = seen[v]
    BY <1>1, <1>2, <1>9 DEF Settled, Placed, Walking, Untouched
  <2>3. /\ SameIngest(me, m)
        /\ \/ m.pc \in Walking
           \/ m.pc = "fetching" /\ me.more
           \/ m.pc = "done" /\ ~ me.more
    BY <2>1, <2>2, AuthorSettledPage, ItemOverPage DEF Walking
  <2> QED BY <1>1, <1>2, <2>2, <2>3, GoesOnCursor
<1>10. CASE Wrote(v) \/ Skipped(v) \/ Processed(v)
  <2>1. me \in Me /\ me.page # <<>> /\ me.pc \in Walking /\ seen'[v] = seen[v]
    BY <1>1, <1>2, <1>10 DEF Wrote, Skipped, Processed, Placed, Walking, Untouched
  <2>2. /\ SameIngest(me, m)
        /\ \/ m.pc \in Walking
           \/ m.pc = "fetching" /\ me.more
           \/ m.pc = "done" /\ ~ me.more
    <3>1. CASE ProjectOver(me, m)
      BY <2>1, <3>1, ProjectOverPage, ItemOverPage DEF Walking
    <3>2. CASE m = [me EXCEPT !.pc = "processing"]
      BY <2>1, <3>2 DEF Me, Walking, SameIngest
    <3> QED BY <1>2, <1>10, <3>1, <3>2 DEF Wrote, Skipped, Processed
  <2> QED BY <1>1, <1>2, <2>1, <2>2, GoesOnCursor
<1> QED BY <1>3, <1>4, <1>5, <1>6, <1>7, <1>8, <1>9, <1>10 DEF Acts

\* What is counted was counted.
LEMMA CountsLess ==
  ASSUME Grows, Counts' PROVE Counts /\ (failures' > 0 => provider \in Stops)
BY DEF Grows, Counts

\* A page is of things that have no row yet.
LEMMA PageHasNoRows ==
  ASSUME TypeI, NEW v \in Workers, Received(v), WalkedI(v), CursorI(v), Counts
  PROVE  /\ \A i \in ToSet(work'[v].page) : i \notin seen[v].walked
         /\ \A i \in ToSet(work'[v].page) : \A p : Recs(events[v], i, p) = 0
         /\ provider # "figma" => work'[v].rows = work[v].rows
         /\ provider = "figma" => seen[v].walked = {}
<1>1. work[v] \in Me /\ TablesTyped /\ seen[v] \in Seen
  BY DEF TypeI, WorkTyped
<1>2. work[v].pc = "fetching" /\ provider \notin {"github", "notion", "jira"}
      /\ Page(v, work'[v].page, work'[v].rows, work'[v].position, work'[v].more)
  BY DEF Received, Counts
<1>3. provider \in {"slack", "discord", "figma"}
  BY <1>1, <1>2, IngestionAssumption DEF TablesTyped
<1>4. PICK page, position, walked :
        page = work'[v].page /\ position = work[v].position /\ walked = seen[v].walked
  OBVIOUS
<1>5. position \in Nat /\ walked \in SUBSET Items /\ Items \in SUBSET Nat
      /\ ToSet(page) \in SUBSET Items
  <2>1. page \in Seq(Items)
    BY <1>2, <1>4 DEF Page
  <2>2. ToSet(page) \in SUBSET Items
    BY <2>1 DEF ToSet
  <2> QED BY <1>1, <1>4, <2>2, ListedTyped DEF Me, Seen
<1>6. provider = "figma" => walked = {}
  BY <1>2, <1>4 DEF CursorI
<1>7. \A i \in ToSet(page) : i \notin walked
  <2> SUFFICES ASSUME NEW i \in ToSet(page), i \in walked PROVE FALSE
    OBVIOUS
  <2>1. provider \in {"slack", "discord"}
    BY <1>3, <1>6
  <2>2. i < position
    BY <1>2, <1>4, <2>1 DEF Page
  <2>3. position <= i
    BY <1>2, <1>4, <2>1 DEF CursorI
  <2>4. i \in Nat
    BY <1>5
  <2> QED BY <1>5, <2>2, <2>3, <2>4
<1>8. \A i \in ToSet(page) : \A p : Recs(events[v], i, p) = 0
  <2> SUFFICES ASSUME NEW i \in ToSet(page), NEW p PROVE Recs(events[v], i, p) = 0
    OBVIOUS
  <2>1. PICK es : es = events[v]
    OBVIOUS
  <2>2. \A k \in DOMAIN es : es[k].item # i
    BY <1>4, <1>7, <2>1 DEF WalkedI
  <2>3. Recs(es, i, p) = 0
    BY <2>2, RecsNone
  <2> QED BY <2>1, <2>3
<1>9. provider # "figma" => work'[v].rows = work[v].rows
  BY <1>2, <1>3 DEF Page
<1> QED BY <1>4, <1>6, <1>7, <1>8, <1>9

\* The row of a project of a thing.
LEMMA WroteRecs ==
  ASSUME TypeI, NEW v \in Workers, Wrote(v), RecI(v), Counts
  PROVE  /\ Distinct(work[v].page) /\ TailRecs(work[v], events'[v])
         /\ HeadRecs(work[v], events'[v], Len(work[v].rows) - Len(work[v].left) + 1)
         /\ PastRecs(work[v], events'[v], seen[v].walked)
<1>1. PICK me, es, fs, e : me = work[v] /\ es = events[v] /\ fs = events'[v] /\ e = NewEvent(v)
  OBVIOUS
<1>2. /\ me \in Me /\ me.pc = "writing" /\ me.page # <<>> /\ me.left # <<>>
      /\ Len(me.left) <= Len(me.rows)
      /\ \A k \in 1 .. Len(me.left) : me.left[k] = me.rows[Len(me.rows) - Len(me.left) + k]
      /\ es \in Seq(EventType) /\ e \in EventType /\ fs = Append(es, e)
  BY <1>1 DEF Wrote, TypeI, WorkTyped, Placed, Walking
<1>3. PICK n, r, l : n = Len(es) /\ r = Len(me.rows) /\ l = Len(me.left)
  OBVIOUS
<1>4. /\ n \in Nat /\ DOMAIN es = 1 .. n /\ DOMAIN fs = 1 .. n + 1 /\ fs[n + 1] = e
      /\ \A k \in 1 .. n : fs[k] = es[k]
  BY <1>2, <1>3
<1>5. /\ me.left \in Seq(Targets) /\ me.rows \in Seq(Targets) /\ me.page \in Seq(Items)
  BY <1>2 DEF Me
<1>6. r \in Nat /\ l \in Nat /\ l >= 1 /\ l <= r /\ Head(me.left) = me.left[1]
  BY <1>2, <1>3, <1>5
<1>7. PICK q : q = r - l
  OBVIOUS
<1>8. q \in Nat /\ Head(me.left) = me.rows[q + 1]
  <2>1. 1 \in 1 .. l
    BY <1>6
  <2>2. me.left[1] = me.rows[r - l + 1]
    BY <1>2, <1>3, <2>1
  <2>3. q \in Nat
    BY <1>6, <1>7
  <2> QED BY <1>6, <1>7, <2>2, <2>3
<1>9. e.item = Head(me.page) /\ e.project = me.rows[q + 1]
  BY <1>1, <1>8 DEF NewEvent
<1>10. Distinct(me.page) /\ TailRecs(me, es) /\ HeadRecs(me, es, q) /\ PastRecs(me, es, seen[v].walked)
  BY <1>1, <1>2, <1>3, <1>7 DEF RecI, Walking
<1>11. Head(me.page) = me.page[1] /\ ToSet(me.page) = {Head(me.page)} \cup ToSet(Tail(me.page))
       /\ Len(me.page) \in Nat /\ Len(me.page) >= 1
  BY <1>2, <1>5, SetOfTail
<1>12. HeadRecs(me, fs, q + 1)
  <2> SUFFICES ASSUME NEW p \in ToSet(me.rows)
               PROVE  Recs(fs, Head(me.page), p) = Prefix(me.rows, q + 1, p)
    BY DEF HeadRecs
  <2>1. PICK i : i = Head(me.page)
    OBVIOUS
  <2>2. Recs(es, i, p) = Prefix(me.rows, q, p)
    BY <1>10, <2>1 DEF HeadRecs
  <2>3. CASE me.rows[q + 1] = p
    <3>1. Recs(fs, i, p) = Recs(es, i, p) + 1
      BY <1>4, <1>9, <2>1, <2>3, RecsNext
    <3>2. Prefix(me.rows, q + 1, p) = Prefix(me.rows, q, p) + 1
      BY <1>8, <2>3, PrefixNext
    <3> QED BY <2>1, <2>2, <3>1, <3>2
  <2>4. CASE me.rows[q + 1] # p
    <3>1. Recs(fs, i, p) = Recs(es, i, p)
      BY <1>4, <1>9, <2>1, <2>4, RecsNext
    <3>2. Prefix(me.rows, q + 1, p) = Prefix(me.rows, q, p)
      BY <1>8, <2>4, PrefixNext
    <3> QED BY <2>1, <2>2, <3>1, <3>2
  <2> QED BY <2>3, <2>4
<1>13. \A i, p : i # Head(me.page) => Recs(fs, i, p) = Recs(es, i, p)
  <2> SUFFICES ASSUME NEW i, NEW p, i # Head(me.page) PROVE Recs(fs, i, p) = Recs(es, i, p)
    OBVIOUS
  <2>1. ~ (fs[n + 1].item = i /\ fs[n + 1].project = p)
    BY <1>4, <1>9
  <2> QED BY <1>4, <2>1, RecsNext
<1>14. TailRecs(me, fs)
  <2> SUFFICES ASSUME NEW k \in 2 .. Len(me.page), NEW p \in ToSet(me.rows)
               PROVE  Recs(fs, me.page[k], p) = 0
    BY DEF TailRecs
  <2>1. k \in 1 .. Len(me.page) /\ 1 \in 1 .. Len(me.page) /\ k # 1
    BY <1>11
  <2>2. me.page[k] # Head(me.page)
    BY <1>10, <1>11, <2>1 DEF Distinct
  <2> QED BY <1>10, <1>13, <2>2 DEF TailRecs
<1>15. PastRecs(me, fs, seen[v].walked)
  <2>1. \A i : i \notin ToSet(me.page) => i # Head(me.page)
    BY <1>11
  <2> QED BY <1>10, <1>13, <2>1 DEF PastRecs
<1>16. q + 1 = r - l + 1
  BY <1>7
<1> QED BY <1>1, <1>3, <1>10, <1>12, <1>14, <1>15, <1>16

\* Marking a row as processed leaves it the row it is.
LEMMA ProcessedRecs ==
  ASSUME TypeI, NEW v \in Workers, Processed(v), RecI(v), Counts
  PROVE  /\ Distinct(work[v].page) /\ TailRecs(work[v], events'[v])
         /\ HeadRecs(work[v], events'[v], Len(work[v].rows) - Len(work[v].left) + 1)
         /\ PastRecs(work[v], events'[v], seen[v].walked)
<1>1. PICK me, es, fs : me = work[v] /\ es = events[v] /\ fs = events'[v]
  OBVIOUS
<1>2. \A i, p : Recs(fs, i, p) = Recs(es, i, p)
  <2>1. CASE fs = es
    BY <2>1
  <2>2. CASE fs # es
    <3>1. /\ DOMAIN fs = DOMAIN es
          /\ \A k \in DOMAIN es : fs[k].item = es[k].item /\ fs[k].project = es[k].project
      <4>1. ~ Wrote(v)
        BY DEF Wrote, Processed
      <4>2. /\ DOMAIN fs = DOMAIN es /\ Len(es) \in DOMAIN es
            /\ fs[Len(es)] = [es[Len(es)] EXCEPT !.processedByLLM = TRUE]
            /\ \A k \in DOMAIN es : k # Len(es) => fs[k] = es[k]
            /\ \A k \in DOMAIN es : es[k] \in EventType
        BY <1>1, <2>2, <4>1, RowsOf DEF Acts
      <4> QED BY <4>2 DEF EventType
    <3> QED BY <3>1, RecsSame
  <2> QED BY <2>1, <2>2
<1>3. /\ Distinct(me.page) /\ TailRecs(me, es)
      /\ HeadRecs(me, es, Len(me.rows) - Len(me.left) + 1) /\ PastRecs(me, es, seen[v].walked)
  BY <1>1 DEF RecI, Processed, Walking
<1>4. TailRecs(me, fs)
  BY <1>2, <1>3 DEF TailRecs
<1>5. HeadRecs(me, fs, Len(me.rows) - Len(me.left) + 1)
  BY <1>2, <1>3 DEF HeadRecs
<1>6. PastRecs(me, fs, seen[v].walked)
  BY <1>2, <1>3 DEF PastRecs
<1> QED BY <1>1, <1>3, <1>4, <1>5, <1>6

\* Every thing gets a row per connection.
LEMMA RecStep ==
  ASSUME TypeI, NEW v \in Workers, Stays(v) \/ Acts(v), Grows, WalkedI(v), CursorI(v), RecI(v)
  PROVE  RecI(v)'
<1>1. /\ work[v] \in Me /\ Placed(v) /\ seen[v] \in Seen
  BY DEF TypeI, WorkTyped
<1>2. SUFFICES ASSUME Counts, Counts', failures' > 0 => provider \in Stops
               PROVE  RecI(v)'
  BY CountsLess DEF RecI
<1>3. PICK me, m, es, walked : me = work[v] /\ m = work'[v] /\ es = events[v]
                               /\ walked = seen[v].walked
  OBVIOUS
<1>4. CASE Stays(v)
  <2>1. seen'[v].walked = walked /\ m = me /\ events'[v] = es
    BY <1>1, <1>3, <1>4 DEF Stays, Seen
  <2> QED BY <1>2, <1>3, <2>1 DEF RecI
<1>5. CASE Delivered(v) \/ Stored(v) \/ Stopped(v)
  BY <1>5 DEF Delivered, Stored, Stopped, RecI, Walking
<1>6. CASE NoneLinked(v) \/ Began(v)
  <2>1. seen'[v].walked = {} /\ m.pc \in {"fetching", "done"}
    BY <1>3, <1>6 DEF NoneLinked, Began, WalkedI, Untouched
  <2>2. PastRecs(m, events'[v], seen'[v].walked)
    BY <2>1 DEF PastRecs
  <2> QED BY <1>3, <2>1, <2>2 DEF RecI, Walking
<1>7. CASE Found(v)
  <2>1. /\ m.page = me.page /\ Len(m.page) = 1 /\ m.pc = "finding" /\ es = <<>>
        /\ events'[v] = es /\ seen'[v].walked = ToSet(m.page)
    BY <1>1, <1>3, <1>7 DEF Found, Placed, WalkedI
  <2>2. Distinct(m.page) /\ TailRecs(m, es) /\ PastRecs(m, es, ToSet(m.page))
    BY <2>1 DEF Distinct, TailRecs, PastRecs
  <2>3. HeadRecs(m, es, 0)
    <3> SUFFICES ASSUME NEW p \in ToSet(m.rows)
                 PROVE  Recs(es, Head(m.page), p) = Prefix(m.rows, 0, p)
      BY DEF HeadRecs
    <3>1. \A k \in DOMAIN es : es[k].item # Head(m.page)
      BY <2>1
    <3> QED BY <3>1, RecsNone, PrefixNone
  <2> QED BY <1>3, <2>1, <2>2, <2>3 DEF RecI, Walking
<1>8. CASE Received(v)
  <2>1. PICK page : page = m.page
    OBVIOUS
  <2>2. /\ \A i \in ToSet(page) : i \notin walked
        /\ \A i \in ToSet(page) : \A p : Recs(es, i, p) = 0
        /\ provider # "figma" => m.rows = me.rows
        /\ provider = "figma" => walked = {}
    BY <1>2, <1>3, <1>8, <2>1, PageHasNoRows
  <2>3. /\ me.pc = "fetching" /\ me.page = <<>> /\ events'[v] = es
        /\ m.pc = (IF page = <<>> THEN "done" ELSE "finding")
        /\ seen'[v].walked = walked \cup ToSet(page)
        /\ page \in Seq(Items) /\ \A k, l \in 1 .. Len(page) : page[k] = page[l] => k = l
    BY <1>1, <1>3, <1>8, <2>1 DEF Received, Placed, Page
  <2>4. PastRecs(m, es, walked \cup ToSet(page))
    <3> SUFFICES ASSUME NEW i \in walked, i \notin ToSet(page), NEW p \in ToSet(m.rows)
                 PROVE  Recs(es, i, p) = Prefix(m.rows, Len(m.rows), p)
      BY <2>1 DEF PastRecs
    <3>1. m.rows = me.rows
      BY <2>2
    <3>2. i \notin ToSet(me.page)
      BY <2>3 DEF ToSet
    <3>3. PastRecs(me, es, walked)
      BY <1>2, <1>3, <2>3 DEF RecI
    <3> QED BY <3>1, <3>2, <3>3 DEF PastRecs
  <2>5. CASE page = <<>>
    BY <1>3, <2>1, <2>3, <2>4, <2>5 DEF RecI, Walking
  <2>6. CASE page # <<>>
    <3>1. DOMAIN page = 1 .. Len(page) /\ Len(page) \in Nat /\ Head(page) = page[1]
          /\ Len(page) >= 1
      BY <2>3, <2>6
    <3>2. \A k \in 1 .. Len(page) : page[k] \in ToSet(page)
      BY <3>1 DEF ToSet
    <3>3. TailRecs(m, es)
      <4>1. \A k \in 2 .. Len(page) : k \in 1 .. Len(page)
        BY <3>1
      <4> QED BY <2>1, <2>2, <3>2, <4>1 DEF TailRecs
    <3>4. HeadRecs(m, es, 0)
      <4>1. Head(page) \in ToSet(page)
        BY <3>1, <3>2
      <4> QED BY <2>1, <2>2, <4>1, PrefixNone DEF HeadRecs
    <3>5. Distinct(m.page)
      BY <2>1, <2>3 DEF Distinct
    <3> QED BY <1>3, <2>1, <2>3, <2>4, <2>6, <3>3, <3>4, <3>5 DEF RecI, Walking
  <2> QED BY <2>5, <2>6
<1>9. CASE Searched(v)
  <2>1. /\ m.page = me.page /\ m.rows = me.rows /\ events'[v] = es /\ seen'[v].walked = walked
        /\ me.pc \in {"finding", "creating"} /\ m.pc \in {"creating", "mapping"}
    BY <1>3, <1>9 DEF Searched, SameIngest, Untouched
  <2>2. Distinct(me.page) /\ TailRecs(me, es) /\ HeadRecs(me, es, 0) /\ PastRecs(me, es, walked)
    BY <1>2, <1>3, <2>1 DEF RecI, Walking
  <2>3. Distinct(m.page) /\ TailRecs(m, es) /\ HeadRecs(m, es, 0) /\ PastRecs(m, es, walked)
    BY <2>1, <2>2 DEF TailRecs, HeadRecs, PastRecs
  <2> QED BY <1>3, <2>1, <2>3 DEF RecI, Walking
<1>10. CASE Settled(v)
  <2>1. PICK author, member : AuthorSettled(me, m, author, member)
    BY <1>3, <1>10 DEF Settled
  <2>2. /\ me \in Me /\ me.page # <<>> /\ me.pc \in {"finding", "creating", "mapping"}
        /\ seen'[v] = seen[v] /\ events'[v] = es
    BY <1>1, <1>3, <1>10 DEF Settled, Placed, Walking, Untouched
  <2>3. Distinct(me.page) /\ TailRecs(me, es) /\ HeadRecs(me, es, 0) /\ PastRecs(me, es, walked)
    BY <1>2, <1>3, <2>2 DEF RecI, Walking
  <2>4. CASE ItemOver(me, m) /\ me.rows = <<>>
    <3>1. HeadRecs(me, es, Len(me.rows))
      BY <2>3, <2>4
    <3>2. /\ Distinct(m.page) /\ TailRecs(m, es) /\ PastRecs(m, es, walked)
          /\ m.pc = "finding" => HeadRecs(m, es, 0)
      BY <2>2, <2>3, <2>4, <3>1, ItemRecs
    <3>3. m.pc \in {"finding", "fetching", "done"}
      BY <2>2, <2>4, ItemOverPage
    <3> QED BY <1>3, <2>2, <3>2, <3>3 DEF RecI, Walking
  <2>5. CASE /\ m.pc = "writing" /\ m.page = me.page /\ m.left = me.rows
             /\ SameIngest(me, m)
    <3>1. m.rows = me.rows
      BY <2>5 DEF SameIngest
    <3>2. Len(m.rows) - Len(m.left) = 0
      <4>1. PICK n : n = Len(me.rows)
        OBVIOUS
      <4>2. n \in Nat
        BY <2>2, <4>1 DEF Me
      <4> QED BY <2>5, <3>1, <4>1, <4>2
    <3>3. /\ Distinct(m.page) /\ TailRecs(m, es) /\ PastRecs(m, es, walked)
          /\ HeadRecs(m, es, 0)
      BY <2>3, <2>5, <3>1 DEF TailRecs, HeadRecs, PastRecs
    <3> QED BY <1>3, <2>2, <2>5, <3>2, <3>3 DEF RecI, Walking
  <2> QED BY <2>1, <2>2, <2>4, <2>5, AuthorSettledPage
<1>11. CASE Skipped(v)
  BY <1>2, <1>11 DEF Skipped
<1>12. CASE Wrote(v) \/ Processed(v)
  <2>1. PICK fs : fs = events'[v]
    OBVIOUS
  <2>2. /\ Distinct(me.page) /\ TailRecs(me, fs) /\ PastRecs(me, fs, walked)
        /\ HeadRecs(me, fs, Len(me.rows) - Len(me.left) + 1)
    BY <1>2, <1>3, <1>12, <2>1, WroteRecs, ProcessedRecs
  <2>3. /\ me \in Me /\ me.page # <<>> /\ Len(me.left) <= Len(me.rows) /\ seen'[v] = seen[v]
    BY <1>1, <1>3, <1>12 DEF Wrote, Processed, Placed, Walking
  <2>4. CASE ProjectOver(me, m)
    <3>1. /\ Distinct(m.page) /\ TailRecs(m, fs) /\ PastRecs(m, fs, walked)
          /\ m.pc = "finding" => HeadRecs(m, fs, 0)
          /\ m.pc = "writing" => HeadRecs(m, fs, Len(m.rows) - Len(m.left))
          /\ m.pc \in {"finding", "fetching", "done", "writing"}
      BY <2>2, <2>3, <2>4, ProjectRecs
    <3> QED BY <1>3, <2>1, <2>3, <3>1 DEF RecI, Walking
  <2>5. CASE m = [me EXCEPT !.pc = "processing"]
    <3>1. m.pc = "processing" /\ m.page = me.page /\ m.rows = me.rows /\ m.left = me.left
      BY <2>3, <2>5 DEF Me
    <3>2. /\ Distinct(m.page) /\ TailRecs(m, fs) /\ PastRecs(m, fs, walked)
          /\ HeadRecs(m, fs, Len(m.rows) - Len(m.left) + 1)
      BY <2>2, <3>1 DEF TailRecs, PastRecs, HeadRecs
    <3> QED BY <1>3, <2>1, <2>3, <3>1, <3>2 DEF RecI, Walking
  <2> QED BY <1>3, <1>12, <2>4, <2>5 DEF Wrote, Processed
<1> QED BY <1>4, <1>5, <1>6, <1>7, <1>8, <1>9, <1>10, <1>11, <1>12 DEF Acts

-----------------------------------------------------------------------------
\* The invariant.

WorkerI(w) == WalkedI(w) /\ AttribI(w) /\ ProcI(w) /\ CompI(w) /\ CursorI(w) /\ RecI(w)

IngestIInv == TypeI /\ MapI /\ \A w \in Workers : WorkerI(w)

\* The invariant holds at first.
LEMMA IngestInvInit ==
  ASSUME IngestInit PROVE IngestIInv
<1>1. TypeI
  BY TypeInit
<1>2. MapI
  BY DEF IngestInit, MapI
<1>3. ASSUME NEW w \in Workers PROVE WorkerI(w)
  <2>1. /\ work[w].pc = "idle" /\ events[w] = <<>> /\ seen[w].walked = {}
    BY DEF IngestInit, Idle
  <2>2. DOMAIN events[w] = {}
    BY <2>1
  <2>3. WalkedI(w) /\ AttribI(w) /\ ProcI(w)
    BY <2>1, <2>2 DEF WalkedI, AttribI, ProcI, Walking
  <2>4. CompI(w) /\ CursorI(w) /\ RecI(w)
    BY <2>1 DEF CompI, CursorI, RecI, Walking
  <2> QED BY <2>3, <2>4 DEF WorkerI
<1> QED BY <1>1, <1>2, <1>3 DEF IngestIInv

\* Every step keeps it.
LEMMA IngestInvStep ==
  ASSUME IngestIInv, [IngestNext]_ingestVars
  PROVE  IngestIInv'
<1>1. TypeI'
  BY TypeStep DEF IngestIInv
<1>2. CASE IngestNext
  <2>1. Grows /\ \A v \in Workers : Stays(v) \/ (Acts(v) /\ listed' = listed)
    BY <1>2, IngestSteps DEF IngestIInv
  <2>2. MapI'
    BY <1>2, MapStep DEF IngestIInv
  <2>3. ASSUME NEW v \in Workers PROVE WorkerI(v)'
    <3>1. /\ TypeI /\ MapI /\ Grows
          /\ Stays(v) \/ Acts(v)
          /\ WalkedI(v) /\ AttribI(v) /\ ProcI(v) /\ CompI(v) /\ CursorI(v) /\ RecI(v)
          /\ Stays(v) \/ listed' = listed
      BY <2>1 DEF IngestIInv, WorkerI
    <3>2. WalkedI(v)'
      BY <3>1, WalkedStep
    <3>3. AttribI(v)'
      BY <3>1, AttribStep
    <3>4. ProcI(v)'
      BY <3>1, ProcStep
    <3>5. CompI(v)'
      BY <3>1, CompStep
    <3>6. CursorI(v)'
      BY <3>1, CursorStep
    <3>7. RecI(v)'
      BY <3>1, RecStep
    <3> QED BY <3>2, <3>3, <3>4, <3>5, <3>6, <3>7 DEF WorkerI
  <2> QED BY <1>1, <2>2, <2>3 DEF IngestIInv
<1>3. CASE UNCHANGED ingestVars
  <2>1. /\ UNCHANGED <<provider, listed, identities, mapping, mapped, events, work, seen, failures>>
    BY <1>3 DEF ingestVars, tables
  <2>2. MapI'
    BY <2>1 DEF IngestIInv, MapI
  <2>3. ASSUME NEW v \in Workers PROVE WorkerI(v)'
    <3>1. WorkerI(v)
      BY DEF IngestIInv
    <3>2. WalkedI(v)' /\ AttribI(v)' /\ ProcI(v)'
      BY <2>1, <3>1 DEF WorkerI, WalkedI, AttribI, ProcI, ToProcess, NotSummarizable
    <3>3. CursorI(v)' /\ RecI(v)'
      BY <2>1, <3>1 DEF WorkerI, CursorI, RecI, Counts
    <3>4. CompI(v)'
      BY <2>1, <3>1 DEF WorkerI, CompI, Ahead, Rank
    <3> QED BY <3>2, <3>3, <3>4 DEF WorkerI
  <2> QED BY <1>1, <2>2, <2>3 DEF IngestIInv
<1> QED BY <1>2, <1>3

\* So it always holds.
LEMMA IngestInvariance == IngestSpec => []IngestIInv
<1>1. IngestInit => IngestIInv
  BY IngestInvInit
<1>2. IngestIInv /\ [IngestNext]_ingestVars => IngestIInv'
  BY IngestInvStep
<1> QED BY <1>1, <1>2, PTL DEF IngestSpec

\* An ingest that ends well has walked everything that was listed throughout: no
\* boundary of a page loses a thing while new ones arrive or others go, for any page
\* size (Jira, as long as nothing goes).
THEOREM IngestsAreComplete == IngestSpec => []IngestIsComplete
<1>1. IngestIInv => IngestIsComplete
  <2> SUFFICES ASSUME IngestIInv, NEW w \in Workers, work[w].pc = "done", provider # "github",
                      ~ (provider = "jira" /\ seen[w].shifted)
               PROVE  seen[w].steady \subseteq seen[w].walked
    BY DEF IngestIsComplete
  <2> QED BY DEF IngestIInv, WorkerI, CompI
<1> QED BY <1>1, IngestInvariance, PTL

\* What ends well has written one row per thing and connection; when no call failed it
\* has processed those that have a project, but for the pushes with changed files.
THEOREM DoneIsWritten == IngestSpec => []DoneIsRecorded
<1>1. IngestIInv => DoneIsRecorded
  <2> SUFFICES ASSUME IngestIInv, NEW w \in Workers, work[w].pc = "done"
               PROVE  /\ Counts => \A i \in seen[w].walked : \A p \in ToSet(work[w].rows) :
                           Recorded(w, i, p)
                             = Cardinality({k \in DOMAIN work[w].rows : work[w].rows[k] = p})
                      /\ failures = 0 => \A k \in DOMAIN events[w] :
                           events[w][k].processedByLLM <=>
                             events[w][k].project # Unassigned /\ ~NotSummarizable(events[w][k].item)
    BY DEF DoneIsRecorded, Counts
  <2>1. failures = 0 => \A k \in DOMAIN events[w] :
          events[w][k].processedByLLM <=>
            events[w][k].project # Unassigned /\ ~NotSummarizable(events[w][k].item)
    BY DEF IngestIInv, WorkerI, ProcI, ToProcess
  <2>2. ASSUME Counts, NEW i \in seen[w].walked, NEW p \in ToSet(work[w].rows)
        PROVE  Recorded(w, i, p)
                 = Cardinality({k \in DOMAIN work[w].rows : work[w].rows[k] = p})
    <3>1. PastRecs(work[w], events[w], seen[w].walked)
      BY <2>2 DEF IngestIInv, WorkerI, RecI
    <3>2. work[w].page = <<>> /\ work[w].rows \in Seq(Targets)
      BY DEF IngestIInv, TypeI, Placed, WorkTyped, Me
    <3>3. i \notin ToSet(work[w].page)
      BY <3>2 DEF ToSet
    <3>4. Recs(events[w], i, p) = Prefix(work[w].rows, Len(work[w].rows), p)
      BY <2>2, <3>1, <3>3 DEF PastRecs
    <3>5. DOMAIN work[w].rows = 1 .. Len(work[w].rows)
      BY <3>2
    <3> QED BY <3>4, <3>5 DEF Recs, Prefix, Recorded
  <2> QED BY <2>1, <2>2
<1> QED BY <1>1, IngestInvariance, PTL

\* A row without its author's identity was written after a failure or after the identity
\* was made, and a row is credited to a member only if its author has been mapped to it.
THEOREM AttributionsFollow == IngestSpec => []AttributionFollowsMap
<1>1. IngestIInv => AttributionFollowsMap
  <2> SUFFICES ASSUME IngestIInv, NEW w \in Workers, NEW k \in DOMAIN events[w]
               PROVE  /\ events[w][k].author # AuthorOf[events[w][k].item]
                           => /\ events[w][k].author = NoAuthor
                              /\ \/ failures > 0
                                 \/ <<work[w].integration, AuthorOf[events[w][k].item]>>
                                      \in identities
                      /\ events[w][k].member # NoMember =>
                           <<<<work[w].integration, AuthorOf[events[w][k].item]>>,
                             events[w][k].member>> \in mapped
    BY DEF AttributionFollowsMap
  <2> QED BY DEF IngestIInv, WorkerI, AttribI, Attributed
<1> QED BY <1>1, IngestInvariance, PTL

=============================================================================
