--------------------------------- MODULE Tickets ---------------------------------
(***************************************************************************)
(* One ticket and everybody who changes it:                                *)
(* backend/services/ticket_service.py, tasks/ticket_tasks.py, the handlers *)
(* of api/tickets.py, core/factory.py, and the handlers of the event bus.  *)
(*                                                                         *)
(* An update commits field by field: an actor reads the ticket, plans the  *)
(* writes of its call and then commits them one by one, whatever others    *)
(* wrote meanwhile; a first field that already has its value is left out.  *)
(* Every commit also appends to the audit trail, which is left out, as are *)
(* the other fields, comments and metrics.                                 *)
(***************************************************************************)
EXTENDS Integers, FiniteSets, SequencesExt

CONSTANTS
    Users,         \* callers of the REST API
    Sweeps,        \* the periodic tasks: the SLA check and the overdue check
    TicketJobs,    \* process_ticket messages somebody may send
    UserOps,       \* how many calls the users make
    Retries,       \* max_retries of process_ticket
    TicketFaults,  \* the faults this environment can produce
    MaxTicketFaults

AllTicketFaults == {"cycle", "db", "crash", "kill", "handler"}

ASSUME TicketsAssumption ==
    /\ IsFiniteSet(TicketJobs)
    /\ Users \cap Sweeps = {} /\ (Users \cup Sweeps) \cap TicketJobs = {}
    /\ UserOps \in Nat /\ Retries \in Nat /\ MaxTicketFaults \in Nat
    /\ TicketFaults \subseteq AllTicketFaults

VARIABLES
    status,      \* Ticket.status
    priority,    \* Ticket.priority: 1 for low to 4 for critical, 0 for another string
    overdue,     \* whether the SLA deadline and the due date have passed
    writes,      \* of each actor: the commits its call still has to make
    job_at,      \* of each job: where process_ticket is
    attempt,     \* of each job: how often it has been retried
    importable,  \* whether backend.queue exists, as it does not at this commit
    incidents,   \* incident tickets created by failed processing
    generated,   \* production cycles whose tickets were saved
    reported,    \* whether the reporter was notified of a resolution
    resolved,    \* history: some resolve committed its status
    by_hand,     \* history: an update put the ticket in progress
    cut,         \* history: a call was cut off
    ops_left, ticket_faults

row == <<status, priority, overdue>>
fallout == <<incidents, generated>>
history == <<reported, resolved, by_hand, cut>>
ticketvars == <<row, fallout, history, writes, job_at, attempt, importable, ops_left, ticket_faults>>

Writers == Users \cup Sweeps \cup TicketJobs
Open == {"OPEN", "IN_PROGRESS"}
TicketStatuses == Open \cup {"RESOLVED", "CLOSED", "other", "absent"}
Critical == 4
Priorities == 0..Critical

TicketInit ==
    /\ status = "OPEN"
    /\ priority \in Priorities
    /\ overdue = FALSE
    /\ writes = [a \in Writers |-> <<>>]
    /\ job_at = [j \in TicketJobs |-> "idle"]
    /\ attempt = [j \in TicketJobs |-> 0]
    /\ importable \in BOOLEAN
    /\ incidents = 0 /\ generated = 0
    /\ reported = FALSE /\ resolved = FALSE /\ by_hand = FALSE /\ cut = FALSE
    /\ ops_left = UserOps /\ ticket_faults = MaxTicketFaults

TicketFault(kind) ==
    /\ kind \in TicketFaults
    /\ ticket_faults > 0
    /\ ticket_faults' = ticket_faults - 1

Goto(a, next) == job_at' = [job_at EXCEPT ![a] = next]

-------------------------------------------------------------------------------
(* TicketService: calls as the writes they plan. *)

SetStatus(s) == [field |-> "status", value |-> s]
SetPriority(p) == [field |-> "priority", value |-> p]
Announce == [field |-> "announce", value |-> 0]

\* update_ticket, for the field it begins with.
First(write) ==
    IF write \in {SetStatus(status), SetPriority(priority)} THEN <<>> ELSE <<write>>

\* Faulty variant: the map has no entry for "high".
RaisedBelow(p) == IF p \in 1..(Critical - 2) THEN p + 1 ELSE IF p = Critical THEN p ELSE 3

\* ESCALATION_MAP, which is "high" for a priority it does not know.
Raised(p) == IF p \in 1..(Critical - 1) THEN p + 1 ELSE IF p = Critical THEN p ELSE 3

Escalated == First(SetPriority(Raised(priority)))
Resolve == First(SetStatus("RESOLVED")) \o <<Announce>>

Call(a, plan) ==
    /\ writes' = [writes EXCEPT ![a] = plan]
    /\ UNCHANGED <<row, history>>

\* _on_ticket_resolved, in a session of its own; the bus logs what it raises.
OnTicketResolved ==
    \/ reported' = TRUE /\ UNCHANGED <<cut, ticket_faults>>
    \/ TicketFault("handler") /\ cut' = TRUE /\ UNCHANGED reported

\* One commit of a call: a field with its entry in the audit trail, or the event
\* that follows the last.
Commit(a) ==
    /\ writes[a] # <<>>
    /\ writes' = [writes EXCEPT ![a] = Tail(@)]
    /\ LET w == Head(writes[a]) IN
         \/ /\ w.field = "status" /\ status # "absent"
            /\ status' = w.value
            /\ resolved' = (resolved \/ (w.value = "RESOLVED" /\ Announce \in Range(writes[a])))
            /\ by_hand' = (a \in Users /\ w.value = "IN_PROGRESS")
            /\ UNCHANGED <<priority, reported, cut, ticket_faults>>
         \/ /\ w.field = "priority" /\ status # "absent"
            /\ priority' = w.value
            /\ UNCHANGED <<status, history, ticket_faults>>
         \/ /\ w.field = "announce"
            /\ OnTicketResolved
            /\ UNCHANGED <<status, priority, resolved, by_hand>>
    /\ UNCHANGED <<overdue, fallout, importable, attempt, ops_left>>

\* A commit that fails, or finds the row deleted, ends the call.
CommitFails(a) ==
    /\ writes[a] # <<>> /\ Head(writes[a]).field # "announce"
    /\ IF status = "absent" THEN UNCHANGED ticket_faults ELSE TicketFault("db")
    /\ writes' = [writes EXCEPT ![a] = <<>>]
    /\ cut' = TRUE
    /\ UNCHANGED <<row, fallout, reported, resolved, by_hand, importable, attempt, ops_left>>

Committing(a) == Commit(a) \/ CommitFails(a)

-------------------------------------------------------------------------------
(* The REST API. *)

\* PUT /{id} writes any strings as they come, the priority before the status; only
\* the field it begins with may be left out.
Given == TicketStatuses \ {"absent"}
Updates ==
    {First(SetPriority(p)) : p \in Priorities}
    \cup {First(SetStatus(s)) : s \in Given}
    \cup {First(SetPriority(p)) \o <<SetStatus(s)>> : p \in Priorities, s \in Given}

\* escalate, resolve, close and update: none asks what the status is.
UserCall(u) ==
    /\ writes[u] = <<>> /\ ops_left > 0 /\ status # "absent"
    /\ ops_left' = ops_left - 1
    /\ \E plan \in {Escalated, Resolve, First(SetStatus("CLOSED"))} \cup Updates : Call(u, plan)
    /\ UNCHANGED <<fallout, job_at, importable, attempt, ticket_faults>>

DeleteTicket(u) ==
    /\ writes[u] = <<>> /\ ops_left > 0 /\ status # "absent"
    /\ ops_left' = ops_left - 1
    /\ status' = "absent"
    /\ UNCHANGED <<priority, overdue, fallout, history, writes, job_at, attempt, importable,
                   ticket_faults>>

UserStep(u) == Committing(u) /\ UNCHANGED job_at

-------------------------------------------------------------------------------
(* check_sla_breaches and escalate_overdue_tickets, started by the beat schedule. *)

Breached == status \in Open /\ overdue

Sweep(s) ==
    /\ writes[s] = <<>>
    /\ Breached
    /\ Call(s, Escalated)
    /\ UNCHANGED <<fallout, job_at, importable, attempt, ops_left, ticket_faults>>

\* The record of the breach and the admins' notifications follow the commit.
SweepStep(s) == Committing(s) /\ UNCHANGED job_at

Deadline ==
    /\ ~overdue /\ overdue' = TRUE
    /\ UNCHANGED <<status, priority, fallout, history, writes, job_at, attempt, importable,
                   ops_left, ticket_faults>>

-------------------------------------------------------------------------------
(* process_ticket. *)

quiet == <<row, history, importable, ops_left>>

Send(j) ==
    /\ job_at[j] = "idle" /\ Goto(j, "queued")
    /\ UNCHANGED <<quiet, fallout, writes, attempt, ticket_faults>>

StartJob(j) ==
    /\ job_at[j] = "queued"
    /\ IF status = "absent"
       THEN Goto(j, "done") /\ UNCHANGED <<quiet, writes>>
       ELSE /\ Call(j, First(SetStatus("IN_PROGRESS"))) /\ Goto(j, "starting")
            /\ UNCHANGED <<importable, ops_left>>
    /\ UNCHANGED <<fallout, attempt, ticket_faults>>

\* The commits of a job's calls; an exception outside the cycle fails the task,
\* which is acknowledged and not retried.
JobCommits(j) ==
    \/ Commit(j) /\ UNCHANGED job_at
    \/ CommitFails(j) /\ Goto(j, "done")

\* Faulty variant: a failed cycle leaves the ticket in progress.
ProductionCycleKept(j) ==
    /\ job_at[j] = "starting" /\ writes[j] = <<>>
    /\ generated' = generated + 1
    /\ \/ importable /\ Call(j, Resolve) /\ Goto(j, "resolving")
       \/ ~importable /\ Call(j, <<>>) /\ Goto(j, "failing")
    /\ UNCHANGED <<incidents, importable, attempt, ops_left, ticket_faults>>

\* run_production_cycle saves the tickets of the plan before it imports the queue.
ProductionCycle(j) ==
    /\ job_at[j] = "starting" /\ writes[j] = <<>>
    /\ \/ /\ importable
          /\ generated' = generated + 1
          /\ Call(j, Resolve) /\ Goto(j, "resolving")
          /\ UNCHANGED ticket_faults
       \/ /\ ~importable
          /\ generated' = generated + 1
          /\ Call(j, <<SetStatus("OPEN")>>) /\ Goto(j, "failing")
          /\ UNCHANGED ticket_faults
       \/ /\ TicketFault("cycle")
          /\ Call(j, <<SetStatus("OPEN")>>) /\ Goto(j, "failing")
          /\ UNCHANGED generated
    /\ UNCHANGED <<incidents, importable, attempt, ops_left>>

MayRetry(j) == attempt[j] < Retries

\* _on_task_failed creates an incident ticket, or its error is logged; then the
\* task is sent again, or has exhausted its retries.
OnTaskFailed ==
    \/ incidents' = incidents + 1 /\ UNCHANGED ticket_faults
    \/ TicketFault("handler") /\ UNCHANGED incidents

ReportFailure(j) ==
    /\ job_at[j] = "failing" /\ writes[j] = <<>>
    /\ OnTaskFailed
    /\ Goto(j, "retrying")
    /\ UNCHANGED <<quiet, generated, writes, attempt>>

RetryJob(j) ==
    /\ job_at[j] = "retrying"
    /\ IF MayRetry(j)
       THEN Goto(j, "queued") /\ attempt' = [attempt EXCEPT ![j] = @ + 1]
       ELSE Goto(j, "done") /\ UNCHANGED attempt
    /\ UNCHANGED <<quiet, fallout, writes, ticket_faults>>

FinishJob(j) ==
    /\ job_at[j] = "resolving" /\ writes[j] = <<>>
    /\ Goto(j, "done")
    /\ UNCHANGED <<quiet, fallout, writes, attempt, ticket_faults>>

JobStep(j) ==
    \/ StartJob(j) \/ JobCommits(j) \/ ProductionCycle(j) \/ ReportFailure(j) \/ RetryJob(j) \/ FinishJob(j)

\* The worker dies and the message is delivered again, or the hard time limit
\* kills the task and the message is acknowledged.
WorkerLost(j) ==
    /\ job_at[j] \notin {"idle", "queued", "done"}
    /\ \/ TicketFault("crash") /\ Goto(j, "queued")
       \/ TicketFault("kill") /\ Goto(j, "done")
    /\ writes' = [writes EXCEPT ![j] = <<>>]
    /\ cut' = TRUE
    /\ UNCHANGED <<row, fallout, reported, resolved, by_hand, importable, attempt, ops_left>>

-------------------------------------------------------------------------------

TicketNext ==
    \/ \E u \in Users : UserCall(u) \/ DeleteTicket(u) \/ UserStep(u)
    \/ \E s \in Sweeps : Sweep(s) \/ SweepStep(s)
    \/ \E j \in TicketJobs : Send(j) \/ JobStep(j) \/ WorkerLost(j)
    \/ Deadline

\* Beat sends the periodic tasks for ever; a message sent is executed, and a call
\* that began goes on.
TicketFairness ==
    /\ \A s \in Sweeps : WF_ticketvars(Sweep(s)) /\ WF_ticketvars(SweepStep(s))
    /\ \A u \in Users : WF_ticketvars(UserStep(u))
    /\ \A j \in TicketJobs : WF_ticketvars(JobStep(j))

TicketSpec == TicketInit /\ [][TicketNext]_ticketvars /\ TicketFairness

-------------------------------------------------------------------------------
(* Properties. *)

Pcs == {"idle", "queued", "starting", "resolving", "failing", "retrying", "done"}

\* Type correctness of the ticket, its actors and what they leave behind.
TicketTypeOK ==
    /\ status \in TicketStatuses
    /\ priority \in Priorities
    /\ overdue \in BOOLEAN
    /\ DOMAIN writes = Writers /\ \A a \in Writers : Len(writes[a]) <= 2
    /\ job_at \in [TicketJobs -> Pcs]
    /\ attempt \in [TicketJobs -> 0..Retries]
    /\ incidents \in Nat /\ generated \in Nat
    /\ {importable, reported, resolved, by_hand, cut} \subseteq BOOLEAN
    /\ ops_left \in 0..UserOps /\ ticket_faults \in 0..MaxTicketFaults

\* A ticket that processing took up does not stay in progress without a job that
\* goes on with it, through failures, retries, redeliveries, updates and other jobs;
\* only a failed commit, a killed task or an update that says so leaves it so.
InProgressIsDriven ==
    status = "IN_PROGRESS" => cut \/ by_hand \/ \E j \in TicketJobs : job_at[j] \notin {"idle", "done"}

\* However jobs overlap and repeat, a ticket whose processing fails leaves one
\* incident, and one set of generated tickets, per attempt and redelivery.
FalloutBounded ==
    LET executions == Cardinality(TicketJobs) * (Retries + 1) + MaxTicketFaults
    IN  incidents <= executions /\ generated <= executions

\* A ticket that is open beyond its deadline is escalated, sweep after sweep, to
\* the top, although users lower it and writers overtake each other.
OverdueReachesTop ==
    overdue /\ status \in Open ~> priority = Critical \/ status \notin Open

\* Who calls resolve, or processes the ticket, has the reporter notified, unless the
\* call or the handler of its event was cut off.
ResolvedIsReported == resolved ~> reported \/ cut
===============================================================================
