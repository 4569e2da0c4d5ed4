# A TLA+ development of SwarmEnterprise

SwarmEnterprise is a Python system: a FastAPI back end with a relational
database, Celery workers behind a Redis broker, and a set of asyncio agents
(self-healing, outreach, DevOps) that run beside them. This directory holds TLA+
models of the parts of it that keep protocol state, the TLC configurations that
check them, and proofs of their central properties.

Modelled and checked are the **circuit breaker** and the **workflow engine**, on
which the other parts rely, the delivery of paid orders down to the virtual
machine, self-healing, tickets, tenants, outreach with its CRM, accounts and
sessions, the rate limiter, the database schema, the company generator,
notifications, and the DevOps, planning and review agents. Every invariant that
holds in a run is also proved, for every size of the instance; the liveness
properties are checked only. Four more runs show where the code departs from
what its comments and documents say. What is left out is listed under
[Not modelled](#not-modelled).

- [The system](#the-system)
- [The models](#the-models)
- [The runs](#the-runs)
- [What the proofs establish](#what-the-proofs-establish)
- [Where code and documentation disagree](#where-code-and-documentation-disagree)
- [Known behaviour that no property excludes](#known-behaviour-that-no-property-excludes)
- [Not modelled](#not-modelled)
- [Plan](#plan)

To check: `tlc -config SelfHealing.cfg MCSelfHealing.tla`,
`tlc -config CircuitBreaker_trial.cfg MCCircuitBreaker.tla`, likewise each
`WorkflowEngine_*.cfg` with `MCWorkflowEngine.tla`, each `StripeWebhook*.cfg` with
`MCStripeWebhook.tla`, `MCRecords.cfg` with `MCRecords.tla`, `MCProcesses.cfg` with
`MCProcesses.tla` and `Outreach_retry.cfg` with `Outreach.tla`; `tlapm M.tla` for each of `CircuitBreaker_proofs`,
`WorkflowEngine_proofs`, `WorkflowThread_proofs`, `StripeWebhook_proofs`,
`Outreach_proofs`, `Tickets_proofs`, `Processes_proofs` and `Records_proofs`.

## The system

Paths are relative to the repository root.

| Component | Code | State | Operations | Interacts with | What is hard, and what makes it correct |
|---|---|---|---|---|---|
| Circuit breaker | `agents/self_healing/circuit_breaker.py` | state, opened_at, half-open count, two counters in a row, a window of outcomes | `call`, `reset` | any agent that calls a service; emits events | Calls overlap: an outcome is recorded in another state or trial than it was admitted in. A trial must stay bounded and must always be decidable. |
| Breaker manager | same file | registry of breakers | create, get, reset one or all, health check | breakers, a language model for insights | Delegates; no protocol of its own. |
| Workflow engine | `backend/services/workflow_service.py`, `backend/tasks/workflow_tasks.py`, `backend/api/workflows.py` | rows of a workflow and its steps, messages in the broker | create, start, pause, resume, cancel; execute step, advance, handle failure | REST clients, broker, workers, event bus | Read and commit are apart, in several processes; messages are redelivered; commit and send are not atomic. Steps must run in order and once, completed must mean executed, running must mean that something drives it. |
| Celery application | `backend/celery_app.py` | queues, beat schedule | deliver, acknowledge, retry, kill | every task | Late acknowledgement, return on worker loss, hard time limit. |
| Auto recovery, health monitor | `agents/self_healing/auto_recovery.py`, `health_monitor.py` | attempts, cooldowns, history, active alerts | handle alert, recover, escalate; check, raise and clear alerts | each other by callback, event loop | Check of the cooldown and its update are separated by awaits; escalation resets limits; whether anything is done depends on how many components are ill. Attempts must be bounded, and an ill component must be acted on. |
| Deployment service, VM provisioner | `backend/services/deployment_service.py`, `backend/orchestration/vm_provisioner.py` | a cached record and a row per deployment, the VM | create (background execution), start, stop, restart, delete, status | hypervisor, event bus, REST | The background execution races with delete and stop; cache and row diverge; a restart loses both the task and the cache. |
| Stripe webhook, linear engine | `backend/api/webhooks.py`, `backend/db/linear_engine.py` | processed events, subscriptions, delivery tickets | receive an event, deliver, mark processed | Stripe, factory, one shared session | Redelivery while the first delivery is still running; orders that do not name their project; partial failure after which the event is marked. Deliver at most once, and never without a row. |
| Tickets and SLA | `backend/services/ticket_service.py`, `backend/tasks/ticket_tasks.py`, `backend/db/ticket_history.py` | tickets, audit entries | create, update, transition, periodic breach check | beat, notifications | Periodic escalation repeats; multi-field updates commit field by field. |
| Outreach | `agents/outreach/sequencer_agent.py`, `reply_handler_agent.py`, `worker.py`, `tasks.py` | enrolments, next step and time, e-mail log, a queue | enrol, send due, handle reply, stop; enqueue, work | SMTP, IMAP, beat | Send before commit, overlapping periodic runs, one send that tries several servers, messages marked seen before they are handled. No step skipped, few mails after a reply. |
| Enrichment, CRM sync, reporting, e-mail | `agents/outreach/enrichment_agent.py`, `crm_sync_agent.py`, `reporting_agent.py`, `email_engine.py`, `agents/marketing/lead_discovery.py` | leads, a buffer of events, daily report rows | crawl, persist, handle events, replay, report, send | search, sites, event bus | Handlers overlap in publishing threads; check and insert of a lead are apart; a report counts while rows leave its day. |
| Tenants, box deployer | `backend/core/tenants.py`, `backend/core/deployment_service.py`, `backend/orchestration/box_deployer.py` | tenant status, VM | provision, suspend, deactivate, delete | hypervisor | A crash leaves the tenant provisioning. |
| Event bus, notifications | `backend/services/event_bus.py`, `notification_service.py`, `backend/tasks/notification_tasks.py` | handlers, notification rows | publish, subscribe, notify | every service | One commit per admin, and a task that is repeated from its start. |
| Company generator, packaging | `backend/services/company_generator.py`, `template_engine.py`, `code_packager.py`, `backend/replicator.py` | a company row, its tickets, files | generate | board, templates, language model | Several commits in sequence: a crash or a failed commit leaves what was committed before. |
| Accounts, sessions, rate limit | `backend/auth/`, `backend/api/auth.py`, `users.py` | users, tokens, revocations in Redis, counters per client | register, log in and out, refresh, administer; forward or refuse | every request | Check and insert of an address are apart; tokens and revocations expire at different precision; Redis may be down. |
| WebSockets | `backend/api/ws.py` | connected sockets | connect, disconnect, push | event bus | A push awaits each socket while others come and go. |
| Models, migrations, sessions | `backend/db/`, `alembic/` | schema, version | upgrade, downgrade, `init_db`; unit of work | every service, every container that starts | Containers migrate at the same time; SQLite makes every statement durable; `init_db` meets half-made schemas. |
| DevOps agents | `agents/devops/` | pipelines in one work directory, releases, samples and alerts | run, cancel; deploy, roll back; collect, alert, report | commands, deployment service, language model | Runs of one project overlap in one directory; loops survive a stop. |
| Planning and review agents | `agents/ticketing/`, `agents/code_review/` | scores and plans, a cache of states, a field of issues | prioritise, plan; create and move issues; review, audit, check, fix | Linear, language model | A cache goes stale; calls of one agent share a field across an await. |
| Production cycle | `backend/core/factory.py`, `agents/managers/commander.py` | tickets of a plan | run a cycle, execute a mission, process a ticket | board, tickets | The plan is committed before it is dispatched. |
| Application, configuration, routers | `backend/main.py`, `backend/config.py`, `backend/api/` | none | start, route | all | Thin. |
| Front end, monitoring, scripts | `frontend/`, compose files | user interface | - | REST | No server state. |

`PROJECT.json` lists the hazards, each at the line where it bites and with the
properties that would notice it going wrong.

## The models

| Module | Role |
|---|---|
| `CircuitBreaker` | One breaker shared by concurrent asyncio tasks |
| `BreakerGate` | What a breaker promises to the service behind it, with counters, calls and rates hidden |
| `WorkflowEngine` | One workflow with its API handlers, Celery tasks, broker, sessions and faults |
| `DeploymentService` | The deployment of one company: cached records, row, coroutines, virtual machine |
| `StripeWebhook` | Delivery of a paid order; extends `DeploymentService` with the orders it places |
| `SelfHealing` | Health monitor and auto recovery, composed |
| `Tickets`, `Tenants` | One ticket, one tenant, and everybody who changes it |
| `Outreach`, `MailWorker` | Sequences with the replies to them; the mail queue and its thread |
| `Prospects`, `CrmSync`, `OutreachReports` | How leads are found, tracked and reported |
| `Accounts`, `RateLimiter` | Sessions, roles and addresses; requests per minute |
| `SchemaMigrations` | Scripts, versions and `init_db` of containers that start together |
| `CompanyGenerator` | Generations, production cycles and missions: work that starts with a plan |
| `Notifications` | Broadcasts as handler and as task; pushes over sockets |
| `CiPipeline`, `ReleaseAgent`, `PerformanceMonitor` | The DevOps agents |
| `Backlog`, `LinearIssues`, `CodeReview` | The planning and review agents |
| `MCRecords`, `MCProcesses` | Small instances of eleven and of seven of these, one in focus at a time |
| `MCSelfHealing` | The breaker and self-healing on one small instance, one in focus at a time |
| `MCCircuitBreaker`, `MCWorkflowEngine`, `MCStripeWebhook` | Constants and symmetry for TLC |
| `CircuitBreaker_proofs`, `Outreach_proofs`, `Tickets_proofs` | Theorems about one module and their proofs |
| `WorkflowEngine_proofs`, `WorkflowThread_proofs` | About the engine: what holds under all faults; what holds while some are absent |
| `StripeWebhook_proofs` | About deployments, alone and as a delivery orders them |
| `Records_proofs`, `Processes_proofs` | About the parts of `MCRecords` and `MCProcesses`, and about each of these with all its parts; `Processes_proofs` also about `SelfHealing` |

Operators introduced as "Faulty variant" are plausible mistakes in the
definition that follows them. Nothing refers to them; `PROJECT.json` (`mutants`)
says which definition each one replaces to see that a property notices.

### CircuitBreaker

`call()` takes the lock to be admitted, releases it, runs the protected
function, and takes the lock again to record the outcome. No locked block
suspends, so admission and recording are one step each and everything else may
happen between them.

| In the model | In the code |
|---|---|
| `AdmitClosed`, `AdmitAfterTimeout`, `AdmitProbe` | the first locked block of `call()` with `_can_attempt_call()`; a rejected call changes no state but a metric and is a stutter |
| `RecordSuccess`, `RecordFailure` | the `finally` clause of `call()`, `_record_call()`; a cancelled task records a failure |
| `Remember`, `RateExceeded`, `ShouldOpen` | `recent_calls` (a `deque` with `maxlen`), `_calculate_recent_error_rate()`, the conditions of `_record_call()` |
| `Reset` | `reset()`, which takes no lock but cannot run inside a locked block, because neither suspends |
| `Tick`, `ServiceFlips` | time, and the protected service going down or coming back |
| `running`, `probes`, `trial_successes` | the calls inside the function; history variables that say which of them the current trial counted and how many succeeded in it |

Abstractions. `since_opened` is the time since `opened_at` and stops at the
timeout, the only value it is compared with. The two counters stop at their
thresholds; the code compares them with `>=` and otherwise only resets them.
Totals, durations, timestamps, events and insights are left out: no decision
reads them. `metrics.current_state` is kept as `metrics_state`.

`BreakerGate` is the abstract specification: once tripped, nothing passes before
a full timeout since *that* trip; then a trial admits a bounded number of calls
and ends in a close or in a new trip. `CircuitBreaker!GateSpec` is its instance
under the mapping `gate <- state`, `waited <- since_opened`,
`admitted <- half_open_calls`.

### WorkflowEngine

Several API server processes run the REST handlers and several Celery worker
processes run the tasks. Every handler and every task opens its own session. The
code reads rows, decides, and commits later, without row locks or versions.

| In the model | In the code |
|---|---|
| `status`, `current_step`, `rows`, `step_status` | the `Workflow` row and its `WorkflowStep` rows, in the order `_get_steps` returns them, which is that of random UUIDs: a step is a position in it |
| `executed` | how often the effect and output of a step were committed |
| `queue`, `job` | messages in the broker, and the one a worker has not acknowledged (prefetch is one) |
| `pc`, `seen` | where a process is, and the row values its session has loaded |
| `Put` | the unit of work writes an attribute only when it differs from the loaded value |
| `CreateSteps` | the second commit of `create_workflow` |
| `ApiLoad` then `StartCommit`, `PauseCommit`, `ResumeCommit`, `CancelCommit` | the four operations, from the load and its guard to the commit |
| `Refresh`, `EnqueueCommit`, `SendStep` | `db.refresh`, then `_enqueue_step`: mark the step running, commit, `apply_async` |
| `Receive`, `Ack` | delivery and late acknowledgement |
| `Dispatch`, `SendAdvance`, `SendFailure`, `Retry` | `execute_workflow_step` with `_dispatch_step`, its error path and `self.retry` |
| `AdvanceLoad`, `AnnounceCompleted`, `AdvanceCommit`, `SendStep`, `Touch` | the task and the service method `advance_workflow`; the completion event is published before its commit |
| `FailureLoad`, `FailureCommit`, `AnnounceFailed` | `handle_step_failure`, `handle_failure`, the event |
| `StepError`, `DbError`, `BrokerError` | an exception of a step, of a query or commit, of `apply_async`, each with the path the code takes: the retry, the `except` that swallows it, or giving up |
| `Crash`, `TimeLimit`, `ApiCrash` | a worker lost (its message returns: `task_reject_on_worker_lost`), a task killed by `task_time_limit` (its message is acknowledged), a server lost |

Abstractions. The rows that one operation reads are read in one step. Output,
error text, timestamps and `retry_count` are left out: nothing decides on them.
The handler of a step's type is one commit of its effect. A handler whose guard
fails answers with the unchanged workflow and is a stutter. An API process runs
one handler at a time, because the `async def` handlers work on the database
synchronously and do not await in between. A message returns to the broker only
when its worker dies: the visibility timeout of Redis (one hour) exceeds the
hard time limit of ten minutes. A soft time limit raises inside the task and is
one of the errors above.

### DeploymentService and StripeWebhook

| In the model | In the code |
|---|---|
| `row`, `record`, `cache`, `held` | the `Deployment` row, the mutable records, the cache of each `DeploymentService` object, and the record a coroutine keeps working on |
| `vm`, `app` | the Hyper-V machine and where the application answers |
| `Create`, `Begin`, `CreateVm` .. `Verify`, `MarkRunning`, `Failing` | `create_deployment` and `_execute_deployment`, await by await, with the clean-up of its `except` clause; the answer of the health check and what is written after it are two steps |
| `Operate`, `RunVm`, `StopVm`, `AwaitHealth`, `MarkHealthy`, `DeleteDeployment` | start, stop, restart and delete, which change the record and not the row |
| `RestoreBackup`, `RestoreSnapshot`, `RestoredVm`, `RestoreFails` | restore: from an image it runs the container and writes RUNNING with no health check, so that the application may not answer |
| `broken` | services whose session failed in a flush and was never rolled back |
| `Crash` | the process is lost, with every coroutine and cache in it |
| `order`, `Named`, `Drawn` | the metadata of the order: they name its project, or each delivery of the event draws a new id |
| `Receive`, `Retry`, `CreateProject`, `Deliver`, `MarkProcessed` | `stripe_webhook` with the repeated attempts at the project row, the insert whose key decides, the generated code and the processed-event row |
| `DeliveryFails`, `Restart` | a delivery that raises after the event may have been recorded; a new server |

A PowerShell script ends in `Write-Output`, so it reports success unless it
cannot be run at all: `ScriptFails` is that case. `StripeWebhook` extends
`DeploymentService`, so that a delivery and a REST request race on the same
machine. The deployment followed is that of one project, `Followed`; a delivery
that drew another id deploys elsewhere, which is counted in `delivered`.

### SelfHealing

The monitoring loop (`Poll`, `Wait`) hands an unhealthy report to the recovery
agent, which recovers the components one after the other (`TakeComponent`,
`Skip`, `BeginRecovery`, `Recover`, `ContinueRecovery`, `FinishRecovery`) or
escalates (`Escalate`, `FinishEscalation`). It does so only when the system as a
whole is unhealthy, `Alarming`: a critical component, or more than 30 percent
unhealthy ones. What an action reports and what it does to the component are
different things (`Outcome`). A caller of the public
`recover_component` runs beside the loop. Cooldowns count down.

### Tickets and Tenants

`Tickets` has the users' calls (`Updates`, `Resolve`, `DeleteTicket`), the SLA
sweep (`Sweep`, `Breached`, `Escalated`) and `process_ticket` as a Celery task
(`StartJob`, `ProductionCycle`, `ReportFailure`, `RetryJob`, `WorkerLost`). A
call becomes a sequence of `writes` planned from what it read, and `Commit`
commits one of them: updates commit field by field. `PUT` takes any strings for
priority and status, alone or together; all that the code does not know are one
value, `0` and `"other"`. The handlers that the event
bus calls in the same thread (`OnTicketResolved`, `OnTaskFailed`) are part of
the step that publishes.

`Tenants` has the calls of `TenantService` (`Register`, `Provision`,
`RefreshStatus`) on their one session; `CloseSession` detaches the rows other
calls hold, whose `CommitStatus` then writes nothing. `RemoveBox`,
`DeployDockerBox` and `BoxStatus` are the docker commands.

### Outreach, MailWorker, Prospects, CrmSync, OutreachReports

`Outreach` runs `process_due_sequence_steps` (`ListActive`, then per enrolment
`NotDue`, `CompleteSequence` or `Due`, `SendStep`, `RecordStep`) beside
`check_inbox_replies` (`SearchUnseen`, `FetchMessage`, `Dispatch`,
`PublishReply`, `MarkUidProcessed`). `listed` and `stale` are the values a run's
session holds until its first commit. `SendStep` is a whole `send_email`: it
tries several servers several times, of which one may take the mail and still
raise, so a send that meets errors may mail up to `SendTries` copies and report
either way; without an SMTP password (`mock`) it reports success and mails
nothing. `MailWorker` has the thread and its stop
event (`StartWorker`, `StopWorker`, `WorkerLoop`), the attempts inside
`send_email` (`SendEmail`) and the requeue with one attempt more.
`Prospects` crawls (`CrawlProspect`, `ExtractEntities`), then checks and inserts
apart (`QueryLead`, `PersistProspect`). `CrmSync` has one action per read and
one per write of each handler, with the buffer of events that came before their
lead. `OutreachReports` counts each metric by a query of its own
(`ComputeMetrics`), then updates or inserts the rows (`FindRows`,
`UpsertMetrics`, `Conflict`).

### Accounts, RateLimiter, SchemaMigrations, CompanyGenerator, Notifications

`Accounts` keeps tokens as records of what they say, and decides with
`DecodeToken`, `GetCurrentUser` and the role checks, which are translated name
by name; time runs in half seconds because the life of a revocation is cut to
whole seconds. `RateLimiter` is one `DispatchForward` or refusal per request.
`SchemaMigrations` holds the revisions as the sequences of tables and columns
their scripts make and drop. `Statements` is what an upgrade of an empty
database executes; a container's upgrade has `reached` one of them, first the
one its version stands for, and an operator's downgrade counts the statements
it has left. `RunMigrationsOnline`, `UpgradeFails`, `InitDb`, `Downgrade` and
`DowngradeStep` execute them, on SQLite statement by statement.
`CompanyGenerator` has one action per commit of `generate_company`, of a
production cycle and of a mission. `Notifications` has broadcasts
(`CreateNotification` per admin, `Again` when the task repeats) and pushes that
walk over a copy of the list of sockets (`StartPush`, `SendToUser`).

### DevOps, planning and review agents

`CiPipeline` runs the stages of overlapping pipelines in their one directory.
`ReleaseAgent` has the four strategies step by step; the registry
`self.deployments` is assigned nowhere, so blue-green and canary releases raise
where they first use it, and the model does so too. `PerformanceMonitor` has
loops, samples, alerts and reports. `Backlog` is two algorithms, scoring and
analysis, over batches of tickets of any mix. `LinearIssues` has the client with
its cache of states. `CodeReview` has the checkers as functions of the marks of
a line and the agents' shared field `issues`. Its fixer changes what a line holds:
tabs and trailing blanks go inside string literals too (`"altered"`), a keyword
that was followed by a tab is recognised only now, a line may become long or
ragged, and the file may parse only now or no more (`Readings`, `FixLine`,
`AutoFix`). Writing a file empties it first, so a write that breaks off leaves a
part of it (`BrokenOff`).

Lines of code whose detail is a text, a prompt or a pattern are abstracted in
these modules: a ticket is its counts of keywords, a line of a file is the kind
of statement it holds and the set of patterns that match it.

## The runs

| Run | Question | Result |
|---|---|---|
| `self_healing` | Breaker: do the accounts of a trial hold, does it implement the gate, and does it close after recovery, when calls of different episodes overlap with outages and resets? Four components, the monitoring loop and a caller: are attempts bounded, and is an ill component acted on as long as the system alarms? | holds |
| `breaker_trial` | Do `success_threshold` successes of the trial close the circuit? | violated |
| `workflow_faults` | With failing steps, a failing broker and killed tasks, but no resume and no crash: one thread of control, steps in order, completed means executed, each step once? | holds |
| `workflow_resume` | With pause, resume and cancel: is progress earned? | holds |
| `workflow_crash` | With workers that die and steps that fail: is a workflow still driven, does it settle, is a recorded failure announced? | holds |
| `workflow_chaos` | With everything at once: is a pending workflow untouched, and do the rows lead the execution? | holds |
| `workflow_pause_resume` | Does completed mean executed with a pause and a resume while a step runs? | violated |
| `delivery` | A payment event delivered twice, the deployment it starts, an operator beside it, a fault anywhere: is an order that names its project delivered once, and do record, row and machine agree? | holds |
| `delivery_unnamed` | Is an order delivered once whatever its metadata hold? | violated |
| `records` | Eleven parts that keep records, with overlapping actors and failures: is what a row, a report, a session or a schema says what happened? | holds |
| `outreach_retry` | Is a reply whose handling failed there for the next poll? | violated |
| `processes` | Seven parts that go on by themselves: do effects stay within limits, does a run say how it ended, does what was begun end? | holds |

### Properties of the breaker

- `TrialAccounting`: every call counted in `half_open_calls` still runs or
  succeeded in this trial, and all such successes are in
  `consecutive_successes`. Stale outcomes and resets must not disturb this.
- `ProbesBounded`: the service sees no more probes of one trial at a time than
  configured.
- `NotWedged`: a half-open circuit admits a call or awaits an outcome. Only an
  outcome or a reset leaves that state, so without this it would reject for ever.
- `OpenHasDeadline`: an open circuit has an `opened_at`; `_can_attempt_call()`
  rejects for ever without.
- `GateSpec`: the refinement above.
- `ClosesAfterRecovery`: if the service stays up the circuit closes for good,
  whatever stale calls return late.

### Properties of the workflow engine

- `SingleThread`: at most one execution or advance of the workflow waits, runs
  or is about to be sent. A failing step sends a failure *and* retries itself,
  so this is what keeps a workflow from forking.
- `ExecutedInOrder`, `CompletedMeansExecuted`, `ExactlyOnce`: what its clients
  rely on.
- `ProgressEarned`: the workflow passes no more steps than were executed, even
  when stale sessions overwrite each other after a pause and a resume.
- `RunningIsDriven`: whenever the row says running, something in the broker or
  in a process will advance it or fail it.
- `Settles`, `FailureAnnounced`: a started workflow completes, fails or is
  paused; a recorded failure reaches the administrators.
- `PendingUntouched`, `RowsLeadExecution`: hold under every fault and every
  operation. They say what remains true when all else is lost.

Each property is claimed under the faults that the code withstands, no more. A
crash redelivers an advance that was already committed, which then passes a step
nobody executed: `ProgressEarned` and the completion properties are not claimed
under crashes. Swallowed broker or database errors, killed tasks and lost servers
strand a running workflow: `RunningIsDriven` and `Settles` are not claimed under
those.

### Properties of a delivery

- `DeliveredOnce`: an order that names its project is delivered at most once,
  however its event is delivered, doubled, interrupted or repeated; the key of
  the projects table decides, not the check for a processed event. Of an order
  without a name it is not claimed: `Idempotent`, which claims it of all, is
  violated (`delivery_unnamed`).
- `AnsweredMeansRecorded`: Stripe stops delivering only when a project of the
  order is on record, and what is delivered is of a project on record.
- `RecordsHold`: `DeploymentTypeOK`; `RecordPersisted`, a deployment under way
  or failed is so in the database too (start, stop, restart and delete change
  the cached record only, so for their statuses it is not so);
  `RecordTellsTruth`, with operations one at a time running, stopped and deleted
  say so of the machine. A restore from an image whose container does not answer
  is excepted: nobody asks whether it does.
- `Concludes`: a deployment under way ends, unless a crash or a broken session
  takes the means.

### Properties of self-healing

- `HealTypeOK`: also that no recovery executes more actions than its strategy
  has.
- `RecoveriesBounded`: the attempt limit, checked before awaits and counted
  after them, is exceeded by no more than the recoveries under way at once.
- `KeepsTrying`: while the system as a whole alarms, an ill component with
  escalation actions is acted on again, through cooldowns, limits and
  escalations. Without the alarm nobody acts, and acting need not escalate: see
  [the disagreements](#where-code-and-documentation-disagree).

### Properties of `records`

A conjunction per question; every conjunct is stated and explained in the module
of its part.

| Property | Conjuncts | What it says |
|---|---|---|
| `NoStepSkipped` | | with a mail server, the position of an enrolment counts only steps that were mailed, although overlapping runs set it back; in mock mode it counts steps nobody mailed |
| `RepliesHold` | `OutreachTypeOK`, `SeenIsHandled`, `HaltBounded` | a message marked seen is handled, being handled, or one a fault cut off (those are lost, see `outreach_retry`): overlapping polls alone lose none; after a halt each run that had listed the enrolment calls `send_email` once more at most |
| `QualifiedHasTicket` | | the lead's status and its sales ticket stand and fall together |
| `PlanningHolds` | `SprintsAreGreedy`, `DuplicatesGrouped`, `EpicsAsUrgent`, `MovedWhereAsked`, `CacheWasMatched`, `CreatedReadsBack` | sprints, duplicate groups and epics are right for every batch and any order of scoring; issues go only to states that once matched |
| `ReviewsHold` | `ReviewsWhole`, `RepairsHold` | a result holds the issues of one text and its own score; a repair that was written leaves no tab and no trailing blank to report, whichever share a line and whatever the line turns out to be. (It does not repair all it calls fixable, and it may damage a file, see below) |
| `SessionsHold` | `SessionsEnd`, `LogoutHolds`, `AddressesUnique`, `RolesNest` | refreshing does not prolong a login for ever; a logout holds but for the last second and while Redis is down; an address names one account; roles nest |
| `LimitHolds` | `MinuteBounded`, `QuietIsServed` | fewer than twice the limit in any minute; a client that kept quiet is served |
| `SchemaHolds` | `ReferencesExist`, `VersionTellsSchema`, `ServedIsComplete` | through upgrades, downgrades and failures of either: keys refer to tables, the version promises nothing missing, a container that serves after its upgrade has the whole schema. On SQLite as long as each downgrade began with the tables of the scripts and ran to its end (`clean`) |
| `RowsTellTruth` | `CompanyTellsTruth`, `PlanSavedWhole`, `DayIsOneReport`, `NeverNewAgain` | rows that sum up others agree with them, after a crash too |
| `MessagesArrive` | `BroadcastComplete`, `PushReachesOpen` | a broadcast that ended well reached every admin, a push every socket that stayed open |

### Properties of `processes`

| Property | Conjuncts | What it says |
|---|---|---|
| `InProgressIsDriven` | | a ticket in progress has a job that goes on with it, unless a commit failed, a task was killed or an update wrote that status by hand |
| `WorkBounded` | `CrawlBounded`, `OneLeadPerAddress`, `OneWorker`, `MailsBounded`, `FalloutBounded`, `TicketTypeOK` | crawls, letters, incidents and generated tickets stay within their limits; one thread empties the queue |
| `RunsTellTruth` | `ReleasedWasTested`, `ReleaseTellsTruth`, `TenantTellsTruth`, `AlertsMatchSamples`, `ReportsAgree` | what goes to production was tested by the same pipeline; statuses, alerts and reports tell what happened |
| `OverdueReachesTop` | | an overdue open ticket is escalated to the top |
| `RunsEnd` | `LetterSettles`, `ProvisionSettles`, `CrawlEnds`, `PipelineEnds`, `ReleaseEnds`, `StopEndsLoops`, `ResolvedIsReported` | what was begun ends; the reporter hears of a resolution by `resolve` or by a job (not of one by an update) |

### Bounds

- Breaker: four calls at a time, thresholds 2, trials of 3, a window of 3, a
  timeout of 2 ticks, a rate of 3/4. Four calls allow a full trial while a call
  admitted before the trip is still running, which is the interesting overlap.
  Both ways of tripping occur: two failures in a row in a window with
  successes, and a rate over 3/4 after one failure.
  The calls are not symmetric in this run, since it checks liveness.
- Workflow: two steps, so that there is a first and a last one and a position to
  pass; two workers, so that any two tasks overlap; one or two servers; each
  operation takes effect at most once (`OpBudget`), each task is retried at most
  once, and at most `MaxFaults` faults happen: three in `workflow_faults`, two
  in `workflow_crash`, one in `workflow_resume` and in `workflow_chaos`, where all
  operations and all kinds of fault compete. The retry limit of the code is 3;
  one retry distinguishes the first try, a retry and giving up.
  `queue` is unbounded in its definition and finite because sends are.
- The workflow runs do not check deadlock: a finished workflow with no call left
  is the regular end of a run. A breaker never stops: the protected service can
  always change.

- Delivery: the event of one order, hosted or bundled, named or not, delivered
  twice beside one REST request, or three requests and no event, and one fault
  of any kind. Of two projects one is followed. Three coroutines allow one
  to overtake another and a third to act on what the two left behind. The fault
  is one because each kind (a failing commit, script, upload, name or health
  check, a crash) ends what it hits.
- `records` and `processes` put parts side by side that share no state. A
  behaviour of all of them is an interleaving of theirs, and a property of one
  is decided by its own steps; the instances let one part, `focus`, move. Each
  part has two of the actors that overlap in it, or one of each kind: two senders and
  an inbox poll, three CRM events of any kind, two reports, two servers that
  register the same address, two containers, two admins and two sockets, a user, a sweep and a job, three calls on a tenant
  (it is registered by one, so that two provisionings overlap), two worker
  threads, two searches, pipelines, releases and loops.
- Times and limits in them are the smallest that let the case happen: an access
  token of two seconds, so that the last second of a logout is a real part of
  its life; two requests a minute of two ticks over four ticks, so that windows
  meet; an attempt limit of two with a cooldown of one tick; one retry.
  A send tries twice. `MaxTokens`, `MaxNow`, `MaxTime`, `Rounds`, `UserOps`, `MaxRenames`,
  `MaxDowngrades` and the `Max...Faults` bound what the code does not.
- The texts under review are three: Python with a tab and a trailing blank on one
  line and imports out of order, Python whose only line is recognised once its tab
  is gone, and JavaScript. Reviews and
  style checks of one file move in runs of their own: neither reads what the other
  keeps, and the text is all they share.
- Healing: four components, so that one unhealthy one is below the alarm, two are
  above it and one critical one is; two have a strategy, one of these escalation
  actions; two faults, an attempt limit of two, a cooldown of one tick. The two parts of
  `MCSelfHealing` share no state; one moves, as in `records`.
- Batches of the backlog are all of three tickets, and some of four, over four
  profiles with low, middling and critical scores and titles that resemble each
  other, scored with and without an opinion of the language model.
- None of these runs checks deadlock: requests, events, runs and faults are
  finite and a run that has used them stops.

### Fairness

- Breaker: `WF(Record(c))`, because an admitted call returns or is cancelled and
  the `finally` clause records it; `WF(Tick)`, because time passes;
  `WF` of some admission, because the program keeps calling the service. Nothing
  is assumed of `reset()` or of the service; recovery is a hypothesis of
  `ClosesAfterRecovery`.
- Workflow: `WF` of each worker's next step and of its receiving some message,
  because Celery workers keep consuming; `WF` of each entered handler's next
  step, because it runs to its return. Nobody is obliged to call the API, and
  faults are never fair. Which message a worker receives is not fair either.

- Delivery: `WF` of each coroutine's next step and of each handler's, because
  the event loop runs what is ready. Requests and deliveries are not obliged to
  come.
- Healing: `WF` of the monitoring loop, of a begun recovery and of time. Nobody is
  obliged to call `recover_component`, and components need not fail.
- `processes`: `WF` of the SLA sweep, which beat starts every period, and of its steps; of the steps
  of a user's call, a Celery job, a tenant's call, a mail thread, a crawl, a
  pipeline, a release and a monitoring loop, each of which runs until it
  returns. Faults, users and new work are not fair.

## What the proofs establish

For every value of the constants that satisfies the assumptions:

| Theorem | Statement |
|---|---|
| `CircuitBreaker_proofs!TypeCorrect` | `Spec => []TypeOK` |
| `CircuitBreaker_proofs!TrialsAccounted` | `Spec => []TrialAccounting` |
| `CircuitBreaker_proofs!ProbesAreBounded` | `Spec => []ProbesBounded` |
| `CircuitBreaker_proofs!NeverWedged` | `Spec => []NotWedged` |
| `CircuitBreaker_proofs!OpenEnds` | `Spec => []OpenHasDeadline` |
| `CircuitBreaker_proofs!ImplementsGate` | `Spec => GateSpec` |
| `WorkflowEngine_proofs!TypeCorrect` | `Spec => []TypeOK` |
| `WorkflowEngine_proofs!RowsLead` | `Spec => []RowsLeadExecution` |
| `WorkflowEngine_proofs!PendingStaysUntouched` | `Spec => []PendingUntouched` |
| `WorkflowThread_proofs!OneThread`, `InOrder`, `CompletedHonest`, `StepsOnce` | `Undisturbed`: `Spec => []SingleThread`, `[]ExecutedInOrder`, `[]CompletedMeansExecuted`, `[]ExactlyOnce` |
| `WorkflowThread_proofs!RunningDriven` | `Redelivering`: `Spec => []RunningIsDriven` |
| `WorkflowThread_proofs!ProgressIsEarned` | `Unrepeated`: `Spec => []ProgressEarned` |
| `StripeWebhook_proofs!DeploymentRecords`, `HostedRecords` | `DeploySpec => []RecordsHold`, and the same under `Spec` |
| `StripeWebhook_proofs!OrderDeliveredOnce`, `AnsweredRecorded` | `Spec => []DeliveredOnce`, `[]AnsweredMeansRecorded` |
| `Outreach_proofs!NothingSkipped`, `RepliesAreKept` | `OutreachSpec => []NoStepSkipped`, `[]RepliesHold` |
| `Tickets_proofs!TicketsTyped`, `TicketDriven`, `FalloutStaysBounded` | `TicketSpec => []TicketTypeOK`, `[]InProgressIsDriven`, `[]FalloutBounded` |
| `Processes_proofs!HealTypesHold`, `RecoveriesStayBounded` | `HealSpec => []HealTypeOK`, `[]RecoveriesBounded` |
| `Processes_proofs!WorkStaysBounded`, `RunsTold` | `Spec => []WorkBounded`, `[]RunsTellTruth`, with all parts of `MCProcesses` |
| `Records_proofs!SessionsAreSound`, `MinutesAreLimited`, `RepliesHaveTickets`, `DaysAreOneReport`, `PlansAreTold`, `NotesAndPushesArrive` | `SessionsHold`, `LimitHolds`, `QualifiedHasTicket`, `DayIsOneReport`, `CompanyTellsTruth /\ PlanSavedWhole`, `BroadcastComplete /\ PushReachesOpen` always, each of its module alone |
| `Records_proofs!RowsAgree`, `MessagesGetThrough`, `ReviewsAreWhole`, `PlansHold`, `SchemaKept` | `Spec => []RowsTellTruth`, `[]MessagesArrive`, `[]ReviewsHold`, `[]PlanningHolds`, `[]SchemaHolds`, with all parts of `MCRecords` |

These are all the invariants the passing runs check, and the refinement. In `MCRecords` and `MCProcesses` the constants that say how many actors,
rows, times and faults there are stay parameters in the proofs; only the values
that a `.cfg` gives make the instance small. `PartsMove` says that a step of the
whole is for each part a step or a stutter, so that each part's own invariant
is an invariant of the whole. The theorems about one module alone are about its
own specification, whose steps are those of the part in the instance.

### Assumptions

Each is named, stands in the module that declares the constants, and TLC
evaluates it on the run that extends the module.

- `ConfigAssumption` gives the breaker's parameters their types and says that
  finitely many calls run at once. `TrialAssumption` says `success_threshold <=
  half_open_max_calls`; `CircuitConfig` does not check this, its defaults (2 and
  3) satisfy it, and only `NeverWedged` depends on it, which fails without.
- `EngineAssumption` asks for at least one step, and that a process is a worker
  or a server. The workflow theorems have a hypothesis besides:
  `Unrepeated`, there is no crash and no database error, because those send a
  task again whose effect is already committed; `Undisturbed`, in addition the
  workflow is started once and not resumed, because each of those begins another
  thread; `Redelivering`, the only faults are crashes and failing steps,
  because the code swallows the others. The runs of these properties
  satisfy them, and outside them nothing is claimed.
- `DeployAssumption`, `WebhookAssumption`: deliveries run on services of their
  own, which is how the webhook makes one per request, and the project followed
  is one of those orders may have. Two ids that are drawn differ (`Init`).
- `OutreachAssumption`: a sequence has one to ten steps
  (`sequencer_agent.py` creates no longer one), tasks that overlap are finitely
  many, and a send is not a poll. `TicketsAssumption`: users, sweeps and jobs are
  different and jobs finitely many.
- `AccountsAssumption`, `NotificationsAssumption`, `ReportsAssumption`,
  `MailAssumption`, `CiAssumption`, `LinearAssumption`, `ReviewAssumption`,
  `ProspectsAssumption`, `BacklogAssumption`: types, and that a value which
  stands for nothing is none of the others. `RateAssumption`: the limit and the
  minute are positive (`RATE_LIMIT_RPM` is 120 by default).
  `SelfHealingAssumption`: there is a component, each is registered once, and a
  strategy has an action. `ReleaseAgentAssumption`: a release has instances.
  `PerformanceAssumption`: a percentile is between 0 and 100 and warning
  thresholds are positive.

### The arguments

An invariant is seldom inductive; what was missing is the interesting part.

**Breaker.** The inductive invariant is `TypeOK /\ TrialAccounting /\
OpenHasDeadline`. `NotWedged` alone is not inductive: that a probe is still out
when all slots are used follows from counting, `half_open_calls <=
trial_successes + |probes|` and `trial_successes < SuccessThreshold`. Each
action changes `probes` by at most one call, and lemmas on adding and removing
one element of a finite set carry the count. The trial bound and the refinement
follow from the same invariant: every breaker step is a gate step or a stutter.

**Engine, under all faults.** Types first: `current_step` stays a step because an
advance past the last one completes instead, on the *session's* position, so the
proof needs the type of `seen`. `RowsLeadExecution` is not inductive: a stale
session or an old message could execute an untouched row. `Lead` adds that
whatever a session has seen, a message names, a worker holds or a process is
about to send was touched; touching is never undone, because no write sets a
step back to pending. So staleness, redelivery, duplicates and crashes preserve
it. `PendingInv` adds to `PendingUntouched` that no handler is past its first
commit, so nobody is left who could send for a pending workflow.

**Engine, as one thread.** `Sole` says that the right to execute or pass the
current step is with one process or in one message, or the workflow has not been
started; `TasksPlaced` ties a worker's line to the message it holds. `ThreadAt`
says that what this one has read or names *is* where the workflow stands, and
that an advance passes a step that was executed; `ExecutedUpTo`, that the
executed steps are those before the position and perhaps the one at it. Order,
completeness and once-ness follow.

**Engine, driven and earned.** `Carried` names who moves a running workflow on:
a message, a worker at a line before its last write, a server between its commit
and its send. A failure's commit counts only if its session has not read
`failed`, because the unit of work then writes nothing. `Earned` counts: every
position that the row has *or a session has read* plus the advances under way
is at most the number of executions. Stale sessions may then overwrite the row in
any order, because what they write is covered too.

**Deployment and delivery.** `Owned`: what a service has in its cache, or a
coroutine in hand, belongs to a coroutine of that service, so no two services
share a record. `RecordPersisted` is inductive with it. `TidyInv` follows the one
operation under way as long as operations come one at a time, and gives
`RecordTellsTruth`. It keeps what the health check found until the write that
follows it, since alone nobody else touches the machine in between. `OneOrder`:
of the deliveries of one project only one is past the insert, and nobody is
without its row; an order that names its project has one.

**Outreach.** `SentBefore` extends `NoStepSkipped` to the positions the
overlapping runs hold: what a stale session writes back counts sent steps too.
`LateBounded` pays for the late mails of one send, `SendTries` of them, with a run
that had the enrolment on its list. **Tickets.** `Planned` gives the commits a call still has; `Driven` says
which job will take the ticket out of progress, whatever updates write meanwhile; `Spent` charges each incident
and each set of tickets to an attempt, or to the fault that gave one back.

**Healing, mail, crawls.** `HealTypeOK` is inductive with `ActionsLeft`, that
who is about to act has an action left. Attempts plus recoveries under way stay below the
limit plus the number of recoverers (`HealInv`). A letter is in one place, and
one thread, the one `start_worker` asks about, is at the queue (`MailInv`); each
attempt accounts for the mails of one send. No page is read twice and every page
is of the host (`CrawlInv`); of two runs that looked for an address and have not
written yet each knows of the other (`LeadInv`).

**DevOps.** The shared directory holds the checkout of the one pipeline that got
past it, and a pipeline in a stage went through those before (`CiInv`). A release
that is to be completed has done what its strategy asks (`RelInv`). Tenant calls
that come one at a time find a row that tells the truth (`TenantInv`). A percentile
has its definition by rank: fewer samples below, enough within
(`PercentileRanked`).

**Accounts and limits.** A session is bounded because a refresh keeps the login
time (`SessionInv`), and a logout because the revocation outlives its token but
for the second that is cut off. `RateInv` holds for every interval of a minute, not
for those of the window; `Tells` says what an entry knows of the client's
requests, and two adjoining windows give the bound.

**Records.** An event is written by a handler past its query (`CrmInv`). The
interested, counted later, are at most the replies, because enrolments only leave
the day (`DayInv`). `GeneratorInv` says, per line of a job, what is committed.
A broadcast's notes are counted against its repeats (`BroadcastInv`); a push has
reached all it has passed that are open (`SocketInv`). A call's result is its own
or that of a call begun while it waited (`ReviewInv`); a repaired text is one
`FixLines` gives, and what a line may turn out to be never brings a mark back that
was removed from it. What a Linear call sends has
matched (`LinearInv`).

**Backlog.** The report is made in one step, so the work lies in its algorithms.
Sorting is by rank, which is a bijection for scores that are totally ordered with
ties broken by place; a sprint's loop keeps "what it passed over did not fit
beside what it had then", from which greediness follows for the whole sprint
(`FilledFrom`, `Greedy`); groups of duplicates stay disjoint and leave no two
similar tickets unreported; the level of an epic never falls.

**Schema.** `DoneUpTo(s, n)` says that a schema has what the first `n` statements
make, and is the link between a number and a schema: an upgrade's `reached`, the
`version` and a container's success all stand for such an `n`. No statement of an
upgrade or of `init_db` undoes it. `Keyed` is kept because scripts create a table
after those it refers to (`StatementsOrdered`) and drop it before
(`DowngradesOrdered`), which is read off the scripts statement by statement.
`UndoingInOrder` describes a downgrade under way on SQLite.

Loops in these proofs are recursive functions over `0..n`. The library's
induction rules take an operator, which no prover here instantiates;
`NaturalsReached`, `BoundReached` and `Iterated` state induction and recursion
over *sets* and functions, proved from the well-foundedness of the naturals.

The proofs corrected the models in two places. Two `CASE`s of the backlog and of
the performance monitor had arms that overlap, which TLC takes in order and the
language leaves open: they are `IF`s now. And a downgrade of SQLite that breaks
off can be followed by one more that drops a table others refer to; the
properties of the schema claimed more than the scripts give, which two mishaps in
an instance showed.

**Only model-checked.** Liveness under fairness (`ClosesAfterRecovery`,
`Settles`, `FailureAnnounced`, `Concludes`, `KeepsTrying`, `OverdueReachesTop`,
`RunsEnd`) is out of the prover's reach. The violated properties of the
disagreements below are TLC's too.

## Where code and documentation disagree

1. `breaker_trial`. "Successes to close from half-open" counts more than the
   trial: `consecutive_successes` is not reset when the trial begins, and calls
   admitted before the trip that succeed while the circuit is open add to it.
2. `workflow_pause_resume`. A resume enqueues the current step although its first
   execution is in flight. Both executions advance the workflow, the second
   past a step that nobody executed, and the workflow completes.
3. `delivery_unnamed`. "Ensures idempotency", says `webhooks.py:5`. An order without
   a `project_id` in its metadata, and the repository's own checkout sets none, gets
   a new id at each delivery; delivered again while the first one generates, it is
   delivered twice.
4. `outreach_retry`. "Do NOT store UID - allow retry on next poll": the fetch marked
   the message seen, and polls look for unseen ones.

These have no run of their own; the models do what the code does, and the
properties claim no more than that:

- Approval steps are to "wait for an external POST" to `/resume`
  (`workflow_tasks.py:169`); the execution of one advances the workflow at once.
- The "ordered list of step definitions" (`docs/api.md:584`) is executed in the
  order of random UUIDs.
- "Deployments are now persisted and survive service restarts"
  (`docs/FINAL_IMPLEMENTATION_REPORT.md:79`): start, stop, restart and delete change
  the cached record and not the row.
- "Auto-fix fixable issues" (`style_checker.py:445`): indentation, blank lines, the
  order of imports and a missing newline, in JavaScript also `var` and missing
  semicolons, are marked fixable and not repaired.
- "Notify the reporter when a ticket is resolved" (`notification_service.py:78`): an
  update that writes RESOLVED publishes nothing.
- "Detects unhealthy components" and "automatically recovers from failures"
  (`auto_recovery.py:105`): the agent is called only when the system as a whole is
  unhealthy. One unhealthy component of four, or of more, is left as it is.
- "Escalates when needed" (`auto_recovery.py:110`): an action that reports success
  makes the recovery a success although the component is as ill as before, and
  resets the attempts that escalation waits for.

## Known behaviour that no property excludes

Seen while modelling; the models include it, no document says otherwise.

- One failed call in a fresh window is an error rate of 100 percent and opens
  the circuit whatever `failure_threshold` is.
- `reset()` leaves `metrics.current_state` and the window as they were.
- Two servers that both read a pending workflow enqueue its first step twice.
- `_enqueue_step` swallows errors: the workflow stays running with nothing that
  drives it. A start between the two commits of `create_workflow` does the same,
  and so does a workflow with no steps.
- A redelivered advance, after a crash between commit and acknowledgement, passes
  a step that was not executed.
- A step created through the API without input stores JSON `null`; types that
  read their input fail on every try (`Inputless`).

Delivery and infrastructure:

- A flush that failed leaves a `DeploymentService` or the webhooks' shared
  session unusable until the server restarts.
- Between the answer of the health check and the write of RUNNING, and after a
  restore from an image, which asks for no health at all, a deployment may be
  reported as running while its application does not answer.
- An escalation resets the attempts but not the history. A component without
  escalation actions whose attempts failed is given up for ever.
- `deploy_docker_box` raises nothing, so its fallback is unreachable; a failed
  `docker rm` leaves the old box running while the status says failed. Each
  registration closes the session all tenant calls share.
- A pipeline is the only one of its project that passes checkout; cancelling it
  stops nothing and its end overwrites the cancellation. A blue-green or canary
  release always raises at the switch, no release looks at health, and a failing
  rollback raises out of `deploy`.
- Monitoring stopped and started within a sleep runs in two loops; a language
  model that fails loses the alerts of the round.
- `session.py` reads `SWARM_DB_URL` only while `env.py` reads `DATABASE_URL`,
  which is what `docker-compose.yml` sets; the model assumes `SWARM_DB_URL` is.
  A first upgrade that failed followed by `init_db` leaves tables without a
  version, on which every later upgrade fails. A downgrade on SQLite that
  breaks off keeps the version of the script it has half undone; the next one
  breaks off too, at a column or table that is gone. `seed.py` fails once `users`
  exists.

Tickets, outreach and companies:

- Concurrent escalations with stale reads can lower a priority; closing has no
  guard; an update may set any status, so that a ticket is in progress that nobody
  works on. Deleting a ticket that has history
  violates a key on PostgreSQL.
- `backend/queue.py` does not exist: a production cycle commits its tickets and
  then raises, and the outreach worker cannot be imported (its code is in
  `backend/task_queue.py`; the model takes it from there). `process_ticket` is
  sent by nobody, and the outreach tasks are not in the beat schedule although
  their documentation says every five minutes.
- `_dispatch` halts one enrolment of a lead only. `on_reply_received` and the CRM's
  `register()` are subscribed by nobody. A reply is also lost when it cannot be
  parsed or a poll dies.
- Without an SMTP password a sequence runs to its end, and the mail worker empties
  its queue, with nothing sent. A server that takes a mail and then fails is tried
  again: one step may arrive several times.
- The CRM may read that a lead is missing, let its discovery pass, and then buffer
  an event that is never replayed; replies and completions of unknown leads are
  dropped.
- The search tool the enrichment agent imports does not exist, so it finds
  nothing outside tests. Overlapping runs and every discovery cycle insert
  duplicates.
- Of two first reports of a day the second raises; a stale report may overwrite
  a newer one.
- A failed commit leaves the generator's session unusable, so FAILED is not
  recorded; a crash leaves the stage. The company router's reading endpoints
  raise `KeyError`.

Sessions, messages and reviews:

- A token logged out may be accepted in the last second of its life, and while
  Redis is down. A refresh copies role and address from the old token and does
  not look at `is_active`.
- The rate limiter counts in fixed windows: up to one less than twice the limit
  passes in some minute.
- A socket whose handler dies of anything but a disconnect stays registered
  until a push fails.
- Overlapping reviews of one agent share a field: a result may carry the issues
  of another review beside its own score.
- A repair replaces tabs and strips blanks inside string literals, which changes
  what the program does, and may leave a file that does not parse. A write that
  breaks off leaves part of a file; the error is logged.
- An issue that Linear created without an assignee or project, or in a state
  with a name of the team's own, is reported as a failure; one such issue fails
  a whole list.

## Not modelled

- The breaker manager delegates to independent breakers. (Its callbacks run as
  tasks of their own, events carry the live metrics object, and registering a
  name twice returns the first circuit.)
- Custom health checks, backups, metrics, comments, assignment, the CRM
  timeline, scores of intent: nothing that is modelled reads them.
- Hyper-V machines of tenants and `backend/core/deployment_service.py`, which
  nothing uses; `CodePackager`, template and replication code, which write files
  and keep no state.
- Password resets (stubs) and API keys; billing, GDPR and storage clients.
- The security scanner, the infrastructure agent and the agents that build
  prompts: sequential calls to commands and language models.
- Configuration, thin routers, application start-up, the front end, scripts and
  operations files.
- The Celery application is modelled as far as the tasks in the modules meet it:
  late acknowledgement, loss, kill, retry, beat. Its dead-letter handler is sent
  to by nobody.

## Plan

Everything planned to be modelled is, and every invariant of the passing runs is
a theorem. What could still be proved:

1. Step properties: what a single step may never do.
2. Refinements of abstract specifications beside `BreakerGate`: of a sequence
   that mails its steps, and of a delivery that is made once.
3. `RunningIsDriven` with failing steps, crashes *and* a failing broker, once
   the code does something about an error it swallows; as it is, the property
   does not hold there.
