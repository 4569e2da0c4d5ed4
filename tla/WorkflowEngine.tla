---------------------------- MODULE WorkflowEngine ----------------------------
(***************************************************************************)
(* One workflow of backend/services/workflow_service.py, driven by the     *)
(* REST handlers of backend/api/workflows.py and by the three Celery tasks *)
(* of backend/tasks/workflow_tasks.py.                                     *)
(*                                                                         *)
(* API handlers run in several server processes and tasks in several       *)
(* worker processes.  Each opens its own database session, reads rows,     *)
(* computes, and commits later: between its read and its commit the rows   *)
(* may change, and nothing detects it.  A session is modelled by what it   *)
(* has read (seen) and by its next step (pc); every commit, every message  *)
(* sent and every acknowledgement is a step of its own.  The rows that one *)
(* operation reads are read in one step.                                   *)
(*                                                                         *)
(* A step is named by the position of its row, which follows from random   *)
(* ids and not from its place in the definition, and an approval step is   *)
(* executed like any other.                                                *)
(*                                                                         *)
(* The broker keeps an unordered bag of messages.  Acknowledgement is late *)
(* (task_acks_late), so a worker that dies gives its message back.         *)
(***************************************************************************)
EXTENDS Integers, FiniteSets

CONSTANTS
    Workers,          \* Celery worker processes
    ApiProcs,         \* API server processes
    NumSteps,         \* steps of the workflow definition
    Inputless,        \* steps of a type that reads its input, created without it
    ExecuteRetries,   \* max_retries of execute_workflow_step
    AdvanceRetries,   \* max_retries of advance_workflow
    FailureRetries,   \* max_retries of handle_step_failure
    OpBudget,         \* how often each API operation may take effect
    FaultKinds,       \* the faults this environment can produce
    MaxFaults         \* how many faults may happen

Rows == 0..(NumSteps - 1)
Ops == {"start", "pause", "resume", "cancel"}
AllFaults == {"step_error", "db_error", "broker_error", "crash", "time_limit",
              "api_crash", "early_start"}

ASSUME EngineAssumption ==
    /\ NumSteps \in Nat \ {0}
    /\ Workers \cap ApiProcs = {}
    /\ Inputless \subseteq Rows
    /\ ExecuteRetries \in Nat /\ AdvanceRetries \in Nat /\ FailureRetries \in Nat
    /\ OpBudget \in [Ops -> Nat]
    /\ FaultKinds \subseteq AllFaults
    /\ MaxFaults \in Nat

VARIABLES
    status,         \* Workflow.status
    current_step,   \* Workflow.current_step
    rows,           \* TRUE once create_workflow committed the step rows
    step_status,    \* WorkflowStep.status, by position in _get_steps order
    executed,       \* how often a step's side effect and output were committed
    announced,      \* workflow events published on the event bus
    queue,          \* the broker: how many copies of each message wait
    pc,             \* what each process does next
    job,            \* the unacknowledged message a worker holds
    seen,           \* the rows a process' session has loaded
    ops_left,       \* API operations still to come
    faults_left     \* faults still to come

db == <<status, current_step, rows, step_status, executed>>
sessions == <<pc, job, seen>>
bounds == <<ops_left, faults_left>>
vars == <<status, current_step, rows, step_status, executed, announced,
          queue, pc, job, seen, ops_left, faults_left>>

Procs == Workers \cup ApiProcs

WorkflowStatus == {"pending", "running", "paused", "completed", "failed"}
StepStatus == {"pending", "running", "completed", "failed"}

ExecuteMsg(r, n) == [task |-> "execute", step |-> r, tries |-> n]
AdvanceMsg(n) == [task |-> "advance", step |-> 0, tries |-> n]
FailureMsg(r, n) == [task |-> "failure", step |-> r, tries |-> n]

Retries(task) == CASE task = "execute" -> ExecuteRetries
                   [] task = "advance" -> AdvanceRetries
                   [] task = "failure" -> FailureRetries

Messages == {ExecuteMsg(r, n) : r \in Rows, n \in 0..ExecuteRetries}
       \cup {AdvanceMsg(n) : n \in 0..AdvanceRetries}
       \cup {FailureMsg(r, n) : r \in Rows, n \in 0..FailureRetries}

NoJob == [task |-> "none", step |-> 0, tries |-> 0]

\* What a session that has read nothing has seen.
Blank == [status |-> "pending", current |-> 0, steps |-> [r \in Rows |-> "pending"]]

\* The rows as they are now.
Loaded == [status |-> status, current |-> current_step, steps |-> step_status]

Init ==
    /\ status = "pending"
    /\ current_step = 0
    /\ rows = FALSE
    /\ step_status = [r \in Rows |-> "pending"]
    /\ executed = [r \in Rows |-> 0]
    /\ announced = {}
    /\ queue = [m \in Messages |-> 0]
    /\ pc = [p \in Procs |-> "idle"]
    /\ job = [p \in Procs |-> NoJob]
    /\ seen = [p \in Procs |-> Blank]
    /\ ops_left = OpBudget
    /\ faults_left = MaxFaults

-------------------------------------------------------------------------------
(* Sessions and messages. *)

\* The unit of work writes an attribute only if it differs from what was loaded.
Put(loaded, now, new) == IF loaded = new THEN now ELSE new

Send(m) == queue' = [queue EXCEPT ![m] = @ + 1]

\* Process p goes on to the step `next', keeping its session.
Goto(p, next) ==
    /\ pc' = [pc EXCEPT ![p] = next]
    /\ UNCHANGED <<job, seen>>

\* Process p has loaded the rows and goes on to the step `next'.
LoadThen(p, next) ==
    /\ seen' = [seen EXCEPT ![p] = Loaded]
    /\ pc' = [pc EXCEPT ![p] = next]
    /\ UNCHANGED job

\* Process p closes its session; a worker's message is done with.
Finish(p) ==
    /\ pc' = [pc EXCEPT ![p] = "idle"]
    /\ job' = [job EXCEPT ![p] = NoJob]
    /\ seen' = [seen EXCEPT ![p] = Blank]

\* Faulty variant: resume and start also pass the index after the current one.
TargetAfterCurrent(p) == (seen[p].current + 1) % NumSteps

\* The step row whose execution p enqueues: advance_workflow passes the index
\* after the current one, start_workflow and resume_workflow the current one.
Target(p) == IF p \in Workers THEN seen[p].current + 1 ELSE seen[p].current

\* Faulty variant: off by one.
IsLastButOne(w) == seen[w].current + 2 >= NumSteps

IsLast(w) == seen[w].current + 1 >= NumSteps

-------------------------------------------------------------------------------
(* The REST operations, each in a session of its own. *)

\* create_workflow commits the workflow row first and its step rows second.
CreateSteps ==
    /\ ~rows
    /\ rows' = TRUE
    /\ UNCHANGED <<status, current_step, step_status, executed, announced,
                   queue, sessions, bounds>>

OpGuard(op) ==
    CASE op = "start"  -> status = "pending"
      [] op = "pause"  -> status = "running"
      [] op = "resume" -> status = "paused"
      [] op = "cancel" -> status \notin {"completed", "failed"}

\* A handler loads the workflow.  One whose guard fails answers with the
\* unchanged workflow and has no effect.
ApiLoad(a, op) ==
    /\ pc[a] = "idle"
    /\ ops_left[op] > 0
    /\ OpGuard(op)
    /\ rows \/ "early_start" \in FaultKinds
    /\ ops_left' = [ops_left EXCEPT ![op] = @ - 1]
    /\ LoadThen(a, op)
    /\ UNCHANGED <<db, announced, queue, faults_left>>

\* Faulty variant: the status is left as it was.
StartWithoutStatus(a) ==
    /\ pc[a] = "start"
    /\ Goto(a, "refresh")
    /\ UNCHANGED <<db, announced, queue, bounds>>

\* start_workflow also assigns current_step = 0, the value a pending row has.
StartCommit(a) ==
    /\ pc[a] = "start"
    /\ status' = "running"
    /\ current_step' = Put(seen[a].current, current_step, 0)
    /\ Goto(a, "refresh")
    /\ UNCHANGED <<rows, step_status, executed, announced, queue, bounds>>

\* Faulty variant: the current step is not enqueued again.
ResumeWithoutEnqueue(a) ==
    /\ pc[a] = "resume"
    /\ status' = "running"
    /\ Finish(a)
    /\ UNCHANGED <<current_step, rows, step_status, executed, announced,
                   queue, ops_left, faults_left>>

ResumeCommit(a) ==
    /\ pc[a] = "resume"
    /\ status' = "running"
    /\ Goto(a, "refresh")
    /\ UNCHANGED <<current_step, rows, step_status, executed, announced,
                   queue, ops_left, faults_left>>

PauseCommit(a) ==
    /\ pc[a] = "pause"
    /\ status' = "paused"
    /\ Finish(a)
    /\ UNCHANGED <<current_step, rows, step_status, executed, announced,
                   queue, bounds>>

\* Faulty variant: a status that no other part knows.
CancelAsCancelled(a) ==
    /\ pc[a] = "cancel"
    /\ status' = "cancelled"
    /\ Finish(a)
    /\ UNCHANGED <<current_step, rows, step_status, executed, announced,
                   queue, bounds>>

CancelCommit(a) ==
    /\ pc[a] = "cancel"
    /\ status' = "failed"
    /\ Finish(a)
    /\ UNCHANGED <<current_step, rows, step_status, executed, announced,
                   queue, bounds>>

\* db.refresh and the step query of _enqueue_step; with no step row at that
\* index nothing is enqueued.
Refresh(a) ==
    /\ pc[a] = "refresh"
    /\ IF rows THEN LoadThen(a, "enqueue") ELSE Finish(a)
    /\ UNCHANGED <<db, announced, queue, bounds>>

\* Faulty variant: the step row is not marked.
EnqueueUnmarked(a) ==
    /\ pc[a] = "enqueue"
    /\ Goto(a, "send_step")
    /\ UNCHANGED <<db, announced, queue, bounds>>

EnqueueCommit(a) ==
    /\ pc[a] = "enqueue"
    /\ step_status' = [step_status EXCEPT ![Target(a)] =
                         Put(seen[a].steps[Target(a)], @, "running")]
    /\ Goto(a, "send_step")
    /\ UNCHANGED <<status, current_step, rows, executed, announced, queue,
                   bounds>>

\* The apply_async of _enqueue_step, reached by the API and by advance_workflow.
SendStep(p) ==
    /\ pc[p] = "send_step"
    /\ Send(ExecuteMsg(Target(p), 0))
    /\ IF p \in Workers THEN Goto(p, "touch") ELSE Finish(p)
    /\ UNCHANGED <<db, announced, bounds>>

ApiStep(a) ==
    \/ StartCommit(a) \/ ResumeCommit(a) \/ PauseCommit(a) \/ CancelCommit(a)
    \/ Refresh(a) \/ EnqueueCommit(a) \/ SendStep(a)

-------------------------------------------------------------------------------
(* The Celery tasks. *)

\* A free worker reserves a message; it stays unacknowledged until Ack.
Receive(w, m) ==
    /\ pc[w] = "idle"
    /\ queue[m] > 0
    /\ queue' = [queue EXCEPT ![m] = @ - 1]
    /\ job' = [job EXCEPT ![w] = m]
    /\ pc' = [pc EXCEPT ![w] = m.task]
    /\ UNCHANGED <<db, announced, seen, bounds>>

Ack(w) ==
    /\ pc[w] = "ack"
    /\ Finish(w)
    /\ UNCHANGED <<db, announced, queue, bounds>>

\* execute_workflow_step: the handler of the step's type commits its effect and
\* its output.  The workflow's status is not consulted.  Without an input the
\* stored JSON is null, and the handlers that read their input raise on it.
Dispatch(w) ==
    /\ pc[w] = "execute"
    /\ LET r == job[w].step IN
         IF r \in Inputless
         THEN /\ Goto(w, "send_failure")
              /\ UNCHANGED executed
         ELSE /\ Goto(w, "send_advance")
              /\ executed' = [executed EXCEPT ![r] = @ + 1]
    /\ UNCHANGED <<status, current_step, rows, step_status, announced,
                   queue, bounds>>

\* Faulty variant: a successful task is retried as well.
SendAdvanceAndRetry(w) ==
    /\ pc[w] = "send_advance"
    /\ Send(AdvanceMsg(0))
    /\ Goto(w, "retry")
    /\ UNCHANGED <<db, announced, bounds>>

SendAdvance(w) ==
    /\ pc[w] = "send_advance"
    /\ Send(AdvanceMsg(0))
    /\ Goto(w, "ack")
    /\ UNCHANGED <<db, announced, bounds>>

\* Faulty variant: a failed step advances the workflow all the same.
SendAdvanceOnFailure(w) ==
    /\ pc[w] = "send_failure"
    /\ Send(AdvanceMsg(0))
    /\ Goto(w, "retry")
    /\ UNCHANGED <<db, announced, bounds>>

SendFailure(w) ==
    /\ pc[w] = "send_failure"
    /\ Send(FailureMsg(job[w].step, 0))
    /\ Goto(w, "retry")
    /\ UNCHANGED <<db, announced, bounds>>

\* Faulty variant: the tries are not counted.
RetryForEver(w) ==
    /\ pc[w] = "retry"
    /\ Send(job[w])
    /\ Goto(w, "ack")
    /\ UNCHANGED <<db, announced, bounds>>

\* raise self.retry(): a new message with one more try, or none when the
\* retries are used up.  Either way the old message is acknowledged.
Retry(w) ==
    /\ pc[w] = "retry"
    /\ IF job[w].tries < Retries(job[w].task)
       THEN Send([job[w] EXCEPT !.tries = @ + 1])
       ELSE UNCHANGED queue
    /\ Goto(w, "ack")
    /\ UNCHANGED <<db, announced, bounds>>

AdvanceLoad(w) ==
    /\ pc[w] = "advance"
    /\ IF status # "running"                 THEN LoadThen(w, "ack")
       ELSE IF current_step + 1 >= NumSteps  THEN LoadThen(w, "announce_completed")
                                             ELSE LoadThen(w, "advance_commit")
    /\ UNCHANGED <<db, announced, queue, bounds>>

\* workflow.completed is published before the commit that makes it true.
AnnounceCompleted(w) ==
    /\ pc[w] = "announce_completed"
    /\ announced' = announced \cup {"completed"}
    /\ Goto(w, "advance_commit")
    /\ UNCHANGED <<db, queue, bounds>>

\* The commit of advance_workflow: its own when the workflow is done, otherwise
\* the one inside _enqueue_step, which also marks the next step running.
AdvanceCommit(w) ==
    /\ pc[w] = "advance_commit"
    /\ LET cur == seen[w].current
           done == [step_status EXCEPT ![cur] =
                      Put(seen[w].steps[cur], @, "completed")]
       IN  IF IsLast(w)
           THEN /\ status' = "completed"
                /\ step_status' = done
                /\ Goto(w, "ack")
                /\ UNCHANGED current_step
           ELSE /\ current_step' = cur + 1
                /\ step_status' = [done EXCEPT ![cur + 1] =
                                     Put(seen[w].steps[cur + 1], @, "running")]
                /\ Goto(w, "send_step")
                /\ UNCHANGED status
    /\ UNCHANGED <<rows, executed, announced, queue, bounds>>

\* After enqueueing, advance_workflow commits once more, for updated_at.
Touch(w) ==
    /\ pc[w] = "touch"
    /\ Goto(w, "ack")
    /\ UNCHANGED <<db, announced, queue, bounds>>

FailureLoad(w) ==
    /\ pc[w] = "failure"
    /\ LoadThen(w, "failure_commit")
    /\ UNCHANGED <<db, announced, queue, bounds>>

\* Faulty variant: the failure is recorded and nobody is told.
FailureUnannounced(w) ==
    /\ pc[w] = "failure_commit"
    /\ LET r == job[w].step IN
         step_status' = [step_status EXCEPT ![r] = Put(seen[w].steps[r], @, "failed")]
    /\ status' = Put(seen[w].status, status, "failed")
    /\ Goto(w, "ack")
    /\ UNCHANGED <<current_step, rows, executed, announced, queue, bounds>>

\* handle_failure has no guard on the status.
FailureCommit(w) ==
    /\ pc[w] = "failure_commit"
    /\ LET r == job[w].step IN
         step_status' = [step_status EXCEPT ![r] = Put(seen[w].steps[r], @, "failed")]
    /\ status' = Put(seen[w].status, status, "failed")
    /\ Goto(w, "announce_failed")
    /\ UNCHANGED <<current_step, rows, executed, announced, queue, bounds>>

AnnounceFailed(w) ==
    /\ pc[w] = "announce_failed"
    /\ announced' = announced \cup {"failed"}
    /\ Goto(w, "ack")
    /\ UNCHANGED <<db, queue, bounds>>

WorkerStep(w) ==
    \/ Ack(w) \/ Dispatch(w) \/ SendAdvance(w) \/ SendFailure(w) \/ Retry(w)
    \/ AdvanceLoad(w) \/ AnnounceCompleted(w) \/ AdvanceCommit(w) \/ SendStep(w)
    \/ Touch(w) \/ FailureLoad(w) \/ FailureCommit(w) \/ AnnounceFailed(w)

-------------------------------------------------------------------------------
(* Faults. *)

Fault(kind) ==
    /\ kind \in FaultKinds
    /\ faults_left > 0
    /\ faults_left' = faults_left - 1
    /\ UNCHANGED ops_left

\* Faulty variant: the exception of a step handler is swallowed.
StepErrorSwallowed(w) ==
    /\ Fault("step_error")
    /\ pc[w] = "execute"
    /\ Goto(w, "send_advance")
    /\ UNCHANGED <<db, announced, queue>>

\* The handler of the step raises, before its effect is committed or after.
StepError(w) ==
    /\ Fault("step_error")
    /\ pc[w] \in {"execute", "send_advance"}
    /\ Goto(w, "send_failure")
    /\ UNCHANGED <<db, announced, queue>>

\* A query or commit raises.  The task is retried, except that _enqueue_step
\* swallows the error of its commit; a handler answers 500 or swallows it.
DbError(p) ==
    /\ Fault("db_error")
    /\ IF p \in Workers
       THEN /\ pc[p] \in {"advance", "announce_completed", "advance_commit",
                          "touch", "failure", "failure_commit"}
            /\ \/ Goto(p, "retry")
               \/ pc[p] = "advance_commit" /\ ~IsLast(p) /\ Goto(p, "ack")
       ELSE /\ pc[p] \in Ops \cup {"refresh", "enqueue"}
            /\ Finish(p)
    /\ UNCHANGED <<db, announced, queue>>

\* apply_async raises.  _enqueue_step swallows it, execute_workflow_step takes
\* its error path, and in that path or in retry() the task is given up.
BrokerError(p) ==
    /\ Fault("broker_error")
    /\ IF p \in Workers
       THEN /\ pc[p] \in {"send_step", "send_advance", "send_failure", "retry"}
            /\ Goto(p, CASE pc[p] = "send_advance" -> "send_failure"
                         [] pc[p] = "send_step" -> "touch"
                         [] OTHER -> "ack")
       ELSE /\ pc[p] = "send_step"
            /\ Finish(p)
    /\ UNCHANGED <<db, announced, queue>>

\* Faulty variant: messages are acknowledged early.
CrashLosingMessage(w) ==
    /\ Fault("crash")
    /\ pc[w] # "idle"
    /\ Finish(w)
    /\ UNCHANGED <<db, announced, queue>>

\* A worker process dies; task_reject_on_worker_lost returns its message.
Crash(w) ==
    /\ Fault("crash")
    /\ pc[w] # "idle"
    /\ Send(job[w])
    /\ Finish(w)
    /\ UNCHANGED <<db, announced>>

\* The hard task_time_limit kills the task, which counts as acknowledged.
TimeLimit(w) ==
    /\ Fault("time_limit")
    /\ pc[w] # "idle"
    /\ Finish(w)
    /\ UNCHANGED <<db, announced, queue>>

\* A server process dies inside a handler.
ApiCrash(a) ==
    /\ Fault("api_crash")
    /\ pc[a] # "idle"
    /\ Finish(a)
    /\ UNCHANGED <<db, announced, queue>>

Next ==
    \/ CreateSteps
    \/ \E a \in ApiProcs : (\E op \in Ops : ApiLoad(a, op)) \/ ApiStep(a) \/ ApiCrash(a)
    \/ \E w \in Workers : \/ \E m \in Messages : Receive(w, m)
                          \/ WorkerStep(w)
                          \/ StepError(w) \/ Crash(w) \/ TimeLimit(w)
    \/ \E p \in Procs : DbError(p) \/ BrokerError(p)

Spec == Init /\ [][Next]_vars

\* Workers keep consuming and running, and a handler that was entered returns.
\* Nobody is obliged to call the API.
Fairness ==
    /\ \A w \in Workers : /\ WF_vars(WorkerStep(w))
                          /\ WF_vars(\E m \in Messages : Receive(w, m))
    /\ \A a \in ApiProcs : WF_vars(ApiStep(a))

FairSpec == Spec /\ Fairness
-------------------------------------------------------------------------------
(* Properties *)

TaskSteps == {"execute", "send_advance", "send_failure", "retry", "advance",
              "announce_completed", "advance_commit", "send_step", "touch",
              "failure", "failure_commit", "announce_failed", "ack"}
ApiSteps == Ops \cup {"refresh", "enqueue", "send_step"}

\* Type correctness of the rows, the broker and the sessions.
TypeOK ==
    /\ status \in WorkflowStatus
    /\ current_step \in Rows
    /\ rows \in BOOLEAN
    /\ step_status \in [Rows -> StepStatus]
    /\ executed \in [Rows -> Nat]
    /\ announced \in SUBSET {"completed", "failed"}
    /\ queue \in [Messages -> Nat]
    /\ pc \in [Procs -> {"idle"} \cup TaskSteps \cup ApiSteps]
    /\ job \in [Procs -> Messages \cup {NoJob}]
    /\ seen \in [Procs -> [status : WorkflowStatus, current : Rows,
                           steps : [Rows -> StepStatus]]]
    /\ ops_left \in [Ops -> Nat]
    /\ faults_left \in Nat

\* The message is an execution or an advance that has not taken effect yet.
Drives(m) == m.task \in {"execute", "advance"}

\* Processes that will move the workflow on: a task that drives it and has not
\* handed over yet, or a handler about to enqueue.
Drivers ==
    {w \in Workers : Drives(job[w]) /\ pc[w] \notin {"touch", "ack"}}
    \cup {a \in ApiProcs : pc[a] \in {"refresh", "enqueue", "send_step"}}

WaitingDrivers == {m \in Messages : Drives(m) /\ queue[m] > 0}

\* One thread of control: at any time at most one execution or advance of the
\* workflow waits, runs or is about to be sent.
SingleThread ==
    /\ Cardinality(Drivers) + Cardinality(WaitingDrivers) <= 1
    /\ \A m \in WaitingDrivers : queue[m] = 1

\* The workflow is called completed, in its row or in an event, only when every
\* step has been executed.
CompletedMeansExecuted ==
    status = "completed" \/ "completed" \in announced
        => \A r \in Rows : executed[r] > 0

\* Steps execute in row none ahead of the workflow's position.
ExecutedInOrder ==
    \A r \in Rows : executed[r] > 0 =>
        /\ r <= current_step
        /\ \A q \in 0..(r - 1) : executed[q] > 0

\* As long as nothing has failed, every step has executed at most once.
ExactlyOnce == faults_left = MaxFaults => \A r \in Rows : executed[r] <= 1

\* A running workflow is in someone's hands: something that will advance it or
\* fail it waits in the broker or is being processed.
RunningIsDriven ==
    status = "running" =>
        \/ Drivers # {} \/ WaitingDrivers # {}
        \/ \E m \in Messages : m.task = "failure" /\ queue[m] > 0
        \/ \E w \in Workers : job[w].task = "failure" /\ pc[w] # "announce_failed"

Executions == UNION {{r} \X (1..executed[r]) : r \in Rows}

\* Progress is earned: the workflow never passes more steps than were executed,
\* however often it is paused and resumed and whichever stale rows are written.
ProgressEarned ==
    LET passed == IF status = "completed" THEN NumSteps ELSE current_step
    IN  passed <= Cardinality(Executions)

\* Nothing happens before the start: a pending workflow has no executed step, no
\* message, no announcement, and no worker busy with it.
PendingUntouched ==
    status = "pending" =>
        /\ \A r \in Rows : executed[r] = 0 /\ step_status[r] = "pending"
        /\ \A m \in Messages : queue[m] = 0
        /\ \A w \in Workers : pc[w] = "idle"
        /\ announced = {}

\* Whatever fails, the rows keep up with the work: a step runs only after its row
\* says so, and the rows leave "pending" in order.
RowsLeadExecution ==
    \A r \in Rows :
        /\ executed[r] > 0 => step_status[r] # "pending"
        /\ step_status[r] # "pending" => \A q \in 0..r : step_status[q] # "pending"

\* A started workflow comes to rest: completed, failed, or paused by a user.
Settles == status = "running" ~> status # "running"

\* A recorded step failure is announced to the administrators.
FailureAnnounced ==
    (\E r \in Rows : step_status[r] = "failed") ~> "failed" \in announced
===============================================================================
