--------------------------- MODULE DeploymentService ---------------------------
(***************************************************************************)
(* The deployment of one company: backend/services/deployment_service.py,  *)
(* the Hyper-V provisioner it drives and the handlers of                   *)
(* backend/api/deployments.py.                                             *)
(*                                                                         *)
(* Every DeploymentService object has a cache of its own and one database  *)
(* session for its whole life.  The cache holds mutable records: the       *)
(* handler of create_deployment builds one, its background execution loads *)
(* another from the row, and every operation keeps working on the record   *)
(* it found, also after the cache has been given another.  Coroutines      *)
(* interleave at their awaits.  Start, stop, restart and delete change     *)
(* only the record; create, the execution and restore save it to the row.  *)
(*                                                                         *)
(* A PowerShell script ends in Write-Output, so it raises only when it     *)
(* cannot be run; its effect and the return to its caller are one step.    *)
(* Backups, metrics and logs change none of this and are left out.         *)
(***************************************************************************)
EXTENDS Integers, FiniteSets

CONSTANTS
    Services,      \* DeploymentService objects: the router's and one per webhook
    Api,           \* the one the REST handlers use
    Tasks,         \* coroutines; each runs one operation
    Scenarios,     \* sets of coroutines that may run together; bounds the operations
    DeployFaults,  \* the faults this environment can produce
    MaxFaults      \* how many faults may happen

AllDeployFaults == {"db", "vm", "app", "dns", "health", "crash"}

ASSUME DeployAssumption ==
    /\ Api \in Services
    /\ Scenarios \subseteq SUBSET Tasks
    /\ DeployFaults \subseteq AllDeployFaults
    /\ MaxFaults \in Nat

VARIABLES
    row,          \* Deployment.status in the database, "none" without a row
    record,       \* the status each record holds
    cache,        \* self.deployments[deployment_id] of each service
    broken,       \* services whose session failed: it needs a rollback nobody issues
    vm,           \* external: the virtual machine of the tenant
    app,          \* external: where an application answers: "vm", "host" or "none"
    pc, at, held, \* of each coroutine: next step, its service, its record
    faults_left,  \* faults still to come
    writer,       \* history: the service that last wrote the row, "none" at first
    tidy,         \* history: operations came one at a time and were completed
    crashed       \* history: some service was lost in a crash

resources == <<vm, app>>
store == <<row, record, cache, broken, writer>>
dvars == <<row, record, cache, broken, vm, app, pc, at, held, faults_left, writer,
           tidy, crashed>>

Statuses == {"pending", "provisioning", "deploying", "running", "stopped",
             "failed", "deleted"}
Unsettled == {"pending", "provisioning", "deploying"}

\* The record a create builds and the one an execution (or restore) loads.
Records == Tasks \X {"created", "loaded"}
NoRecord == <<>>

DeployInit ==
    /\ row = "none"
    /\ record = [o \in Records |-> "pending"]
    /\ cache = [s \in Services |-> NoRecord]
    /\ broken = {}
    /\ vm = "absent"
    /\ app = "none"
    /\ \E scenario \in Scenarios :
         pc = [t \in Tasks |-> IF t \in scenario THEN "unused" ELSE "done"]
    /\ at = [t \in Tasks |-> Api]
    /\ held = [t \in Tasks |-> NoRecord]
    /\ faults_left = MaxFaults
    /\ writer = "none"
    /\ tidy = TRUE
    /\ crashed = FALSE

Serving == app = "host" \/ (app = "vm" /\ vm = "running")
InFlight == {t \in Tasks : pc[t] \notin {"unused", "done"}}

-------------------------------------------------------------------------------
(* Steps the operations are made of. *)

Goto(t, next) == pc' = [pc EXCEPT ![t] = next]

DeployFault(kind) ==
    /\ kind \in DeployFaults
    /\ faults_left > 0
    /\ faults_left' = faults_left - 1

\* A record's status is set and stays in memory.
Mark(o, status) ==
    /\ record' = [record EXCEPT ![o] = status]
    /\ UNCHANGED <<row, cache, broken, writer>>

\* _save_deployment_to_db: the cache first, then the row and the commit.
Saved(s, o, status) ==
    /\ s \notin broken
    /\ record' = [record EXCEPT ![o] = status]
    /\ cache' = [cache EXCEPT ![s] = o]
    /\ row' = status
    /\ writer' = s
    /\ UNCHANGED <<broken, faults_left>>

\* The query or the commit raises; from then on every use of the session does.
SaveFails(s, o, status) ==
    /\ IF s \in broken THEN UNCHANGED faults_left ELSE DeployFault("db")
    /\ record' = [record EXCEPT ![o] = status]
    /\ cache' = [cache EXCEPT ![s] = o]
    /\ broken' = broken \cup {s}
    /\ UNCHANGED <<row, writer>>

\* The effects of the provisioner's scripts on the virtual machine.
Started == IF vm = "absent" THEN vm ELSE "running"
Stopped == IF vm = "running" THEN "off" ELSE vm

\* A machine that is deleted, or put back to a snapshot, takes its application along.
WithoutVm == IF app = "vm" THEN "none" ELSE app

\* A new operation of task t on service s that works on record o.
Enter(t, s, o) ==
    /\ pc[t] = "unused"
    /\ at' = [at EXCEPT ![t] = s]
    /\ held' = [held EXCEPT ![t] = o]
    /\ UNCHANGED crashed

\* Whether an operation on s meets no other operation and no other cache.
Alone(s) == InFlight = {} /\ \A other \in Services \ {s} : cache[other] = NoRecord

-------------------------------------------------------------------------------
(* create_deployment and its background execution. *)

Create(t, s) ==
    /\ LET o == <<t, "created">> IN
         /\ Enter(t, s, o)
         /\ \/ Saved(s, o, "pending") /\ Goto(t, "begin")
            \/ SaveFails(s, o, "pending") /\ Goto(t, "done")
    /\ tidy' = (tidy /\ Alone(s))
    /\ UNCHANGED resources

Same == UNCHANGED <<at, tidy, crashed>>

\* Faulty variant: the failure is noted in the record and not saved.
FailUnsaved(t) ==
    /\ Mark(held[t], "failed")
    /\ Goto(t, "done")
    /\ UNCHANGED <<held, faults_left>>

\* The except clause of _execute_deployment.
Fail(t) ==
    /\ Saved(at[t], held[t], "failed") \/ SaveFails(at[t], held[t], "failed")
    /\ Goto(t, "done")
    /\ UNCHANGED held

\* The execution loads its record and announces the provisioning.
Begin(t) ==
    /\ pc[t] = "begin"
    /\ LET o == <<t, "loaded">> IN
         \/ /\ Saved(at[t], o, "provisioning")
            /\ held' = [held EXCEPT ![t] = o]
            /\ Goto(t, "create_vm")
         \/ /\ SaveFails(at[t], o, "failed")
            /\ at[t] \notin broken
            /\ held' = [held EXCEPT ![t] = o]
            /\ Goto(t, "done")
         \/ /\ at[t] \in broken \* the query raises before there is a record
            /\ Goto(t, "done")
            /\ UNCHANGED <<store, faults_left, held>>
    /\ Same /\ UNCHANGED resources

\* A step of provision_vm on the machine; a script that fails leads to the clean-up.
Provision(t, here, next, machine) ==
    /\ pc[t] = here
    /\ \/ Goto(t, next) /\ vm' = machine /\ UNCHANGED faults_left
       \/ Goto(t, "cleanup_vm") /\ DeployFault("vm") /\ UNCHANGED vm
    /\ Same /\ UNCHANGED <<store, app, held>>

\* New-VM is an error the script goes on after when the machine exists.
CreateVm(t) == Provision(t, "create_vm", "install_vm", IF vm = "absent" THEN "off" ELSE vm)

\* _configure_network and _install_os, which starts the machine and waits.
InstallVm(t) == Provision(t, "install_vm", "configure_vm", Started)

\* _configure_os and _install_docker change nothing seen here.
ConfigureVm(t) == Provision(t, "configure_vm", "find_vm", vm)

\* get_vm_info raises for a machine somebody deleted meanwhile.
VmMissing(t) ==
    /\ pc[t] = "find_vm"
    /\ vm = "absent"
    /\ Goto(t, "cleanup_vm")
    /\ Same /\ UNCHANGED <<store, resources, held, faults_left>>

\* _cleanup_failed_vm deletes whatever machine has the name, unless that fails
\* too, which is only logged; the execution then fails.
Cleanup(t) ==
    /\ pc[t] = "cleanup_vm"
    /\ Fail(t)
    /\ \/ vm' = "absent" /\ app' = WithoutVm
       \/ "vm" \in DeployFaults /\ UNCHANGED resources
    /\ Same

\* The rest of provision_vm, then the two saves and _deploy_application, which
\* blocks the event loop: into the machine, into a container of the host, or,
\* without docker, nowhere.  Nobody asks here whether the application answers.
Deploy(t) ==
    /\ pc[t] = "find_vm"
    /\ vm # "absent"
    /\ vm' = "running"
    /\ \/ /\ Saved(at[t], held[t], "deploying")
          /\ app' \in {"vm", "host", "none"}
          /\ Goto(t, "dns")
       \/ /\ DeployFault("app") /\ at[t] \notin broken \* both saves, then the except clause
          /\ record' = [record EXCEPT ![held[t]] = "failed"]
          /\ cache' = [cache EXCEPT ![at[t]] = held[t]]
          /\ row' = "failed"
          /\ writer' = at[t]
          /\ Goto(t, "done")
          /\ UNCHANGED <<app, broken>>
       \/ /\ SaveFails(at[t], held[t], "failed")
          /\ Goto(t, "done")
          /\ UNCHANGED app
    /\ Same /\ UNCHANGED held

ConfigureDns(t) ==
    /\ pc[t] = "dns"
    /\ \/ /\ at[t] \notin broken
          /\ Goto(t, "verify")
          /\ UNCHANGED <<store, faults_left, held>>
       \/ at[t] \in broken /\ Fail(t)
    /\ Same /\ UNCHANGED resources

DnsFails(t) ==
    /\ pc[t] = "dns"
    /\ DeployFault("dns")
    /\ Goto(t, "failing")
    /\ Same /\ UNCHANGED <<store, held, resources>>

\* _verify_deployment: of its ten polls one is answered, or none, and then it raises.
\* It opens with a query of its own.  What its caller writes comes a step later.
Healthy(t) == Serving /\ at[t] \notin broken

Verify(t) ==
    /\ pc[t] = "verify"
    /\ Goto(t, IF Healthy(t) THEN "verified" ELSE "failing")
    /\ Same /\ UNCHANGED <<store, held, resources, faults_left>>

MarkRunning(t) ==
    /\ pc[t] = "verified"
    /\ Saved(at[t], held[t], "running") \/ SaveFails(at[t], held[t], "failed")
    /\ Goto(t, "done")
    /\ Same /\ UNCHANGED <<held, resources>>

\* Faulty variant: the failed check raises past the execution.
VerifyRaises(t) ==
    /\ pc[t] = "verify"
    /\ DeployFault("health")
    /\ Goto(t, "done")
    /\ Same /\ UNCHANGED <<store, held, resources>>

VerifyFails(t) ==
    /\ pc[t] = "verify"
    /\ DeployFault("health")
    /\ Goto(t, "failing")
    /\ Same /\ UNCHANGED <<store, held, resources>>

Failing(t) == pc[t] = "failing" /\ Fail(t) /\ Same /\ UNCHANGED resources

Execute(t) ==
    \/ Begin(t) \/ CreateVm(t) \/ InstallVm(t) \/ ConfigureVm(t) \/ VmMissing(t)
    \/ Cleanup(t) \/ Deploy(t) \/ ConfigureDns(t)
    \/ DnsFails(t) \/ Verify(t) \/ VerifyFails(t) \/ MarkRunning(t) \/ Failing(t)

-------------------------------------------------------------------------------
(* The other handlers, on the record the router's service has in its cache. *)

\* An operation begins with the guard of its status and goes to its first await.
\* A careless one says less of the machine than its status claims.
Operate(t, allowed, first, careful) ==
    /\ cache[Api] # NoRecord
    /\ record[cache[Api]] \in allowed
    /\ Enter(t, Api, cache[Api])
    /\ Goto(t, first)
    /\ tidy' = (tidy /\ careful /\ Alone(Api))
    /\ UNCHANGED <<resources, faults_left>>

StartDeployment(t)   == Operate(t, {"stopped"}, "start_vm", TRUE) /\ UNCHANGED store
StopDeployment(t)    == Operate(t, {"running"}, "stop_vm", TRUE) /\ UNCHANGED store
RestartDeployment(t) == Operate(t, Statuses, "restart_vm", TRUE) /\ UNCHANGED store

\* delete_deployment stops a running deployment first.  With delete_vm = False the
\* machine is kept, and there may be nothing to await.
DeleteDeployment(t) ==
    \/ Operate(t, {"running"}, "stop_and_delete", TRUE) /\ UNCHANGED store
    \/ Operate(t, {"running"}, "stop_and_keep", FALSE) /\ UNCHANGED store
    \/ Operate(t, Statuses \ {"running"}, "delete_vm", TRUE) /\ UNCHANGED store
    \/ /\ Operate(t, Statuses \ {"running"}, "done", FALSE)
       /\ Mark(cache[Api], "deleted")

\* The script behind an await cannot be run: the handler answers 500.
ScriptFails(t) ==
    /\ pc[t] \in {"start_vm", "stop_vm", "restart_vm", "delete_vm", "stop_and_delete",
                  "stop_and_keep", "restore_stop", "restore_vm"}
    /\ DeployFault("vm")
    /\ Goto(t, "done")
    /\ tidy' = FALSE
    /\ UNCHANGED <<store, resources, at, held, crashed>>

RunVm(t) ==
    /\ pc[t] \in {"start_vm", "restart_vm"}
    /\ vm' \in {Started} \cup (IF pc[t] = "restart_vm" THEN {vm} ELSE {})
    /\ Goto(t, "health")
    /\ UNCHANGED <<store, app, held, faults_left>> /\ Same

\* The health of a started deployment; without it the handler answers 500 and the
\* status is left as it was.
AwaitHealth(t) ==
    /\ pc[t] = "health"
    /\ \/ Healthy(t) /\ Goto(t, "healthy") /\ UNCHANGED <<faults_left, tidy>>
       \/ ~Healthy(t) /\ Goto(t, "done") /\ UNCHANGED faults_left /\ tidy' = FALSE
       \/ DeployFault("health") /\ Goto(t, "done") /\ tidy' = FALSE
    /\ UNCHANGED <<store, resources, at, held, crashed>>

MarkHealthy(t) ==
    /\ pc[t] = "healthy"
    /\ Mark(held[t], "running")
    /\ Goto(t, "done")
    /\ UNCHANGED <<resources, held, faults_left>> /\ Same

\* stop_vm returned: on its own, or within a delete or a restore.
StopVm(t) ==
    /\ pc[t] \in {"stop_vm", "stop_and_delete", "stop_and_keep", "restore_stop"}
    /\ vm' = Stopped
    /\ Mark(held[t], IF pc[t] = "stop_and_keep" THEN "deleted" ELSE "stopped")
    /\ Goto(t, CASE pc[t] \in {"stop_vm", "stop_and_keep"} -> "done"
                 [] pc[t] = "stop_and_delete" -> "delete_vm"
                 [] OTHER -> "restore_vm")
    /\ UNCHANGED <<app, held, faults_left>> /\ Same

\* delete_vm returned; _remove_dns only logs.
DeleteVm(t) ==
    /\ pc[t] = "delete_vm"
    /\ vm' = "absent"
    /\ app' = WithoutVm
    /\ Mark(held[t], "deleted")
    /\ Goto(t, "done")
    /\ UNCHANGED <<held, faults_left>> /\ Same

\* restore_backup also finds a deployment in the row, as a record of its own.
Restorable(t) ==
    IF cache[Api] # NoRecord THEN {cache[Api]}
    ELSE IF row # "none" /\ Api \notin broken THEN {<<t, "loaded">>} ELSE {}

\* With docker it never waits: the container is removed and run from the image, and
\* the record says running without anybody asking whether the new one answers.
RestoreBackup(t) ==
    /\ app' \in {"host"} \cup (IF app = "host" THEN {"none"} ELSE {app})
    /\ tidy' = (tidy /\ Alone(Api) /\ app' = "host")
    /\ \E o \in Restorable(t) :
         /\ Enter(t, Api, o)
         /\ Goto(t, "done")
         /\ Saved(Api, o, "running") \/ SaveFails(Api, o, "running")
         /\ UNCHANGED vm

RestoreFails(t) ==
    /\ tidy' = FALSE
    /\ \E o \in Restorable(t) :
         /\ DeployFault("app")
         /\ Enter(t, Api, o)
         /\ Goto(t, "done")
         /\ app' \in {app} \cup (IF app = "host" THEN {"none"} ELSE {})
         /\ UNCHANGED <<store, vm>>

\* Without docker it stops the machine, restores its snapshot and starts it.
\* stop_deployment and start_deployment look into the cache again.
RestoreSnapshot(t) ==
    /\ tidy' = (tidy /\ Alone(Api))
    /\ \E o \in Restorable(t) :
         /\ cache[Api] = o \* a loaded record makes them raise: a running one at once
         /\ Enter(t, Api, o)
         /\ Goto(t, IF record[o] = "running" THEN "restore_stop" ELSE "restore_vm")
         /\ UNCHANGED <<store, resources, faults_left>>

RestoredVm(t) ==
    /\ pc[t] = "restore_vm"
    /\ app' \in {app, WithoutVm}
    /\ IF cache[Api] # NoRecord /\ record[cache[Api]] = "stopped"
       THEN Goto(t, "start_vm") /\ held' = [held EXCEPT ![t] = cache[Api]]
       ELSE Goto(t, "done") /\ UNCHANGED held
    /\ UNCHANGED <<store, vm, faults_left>> /\ Same

Handle(t) ==
    \/ StartDeployment(t) \/ StopDeployment(t) \/ RestartDeployment(t)
    \/ DeleteDeployment(t) \/ RestoreBackup(t) \/ RestoreFails(t) \/ RestoreSnapshot(t)

Resume(t) ==
    Execute(t) \/ ScriptFails(t) \/ RunVm(t) \/ AwaitHealth(t) \/ MarkHealthy(t)
    \/ StopVm(t) \/ DeleteVm(t) \/ RestoredVm(t)

\* The server process is lost with its services, their caches and coroutines.
Crash(lost) ==
    /\ DeployFault("crash")
    /\ cache' = [s \in Services |-> IF s \in lost THEN NoRecord ELSE cache[s]]
    /\ broken' = broken \ lost
    /\ pc' = [t \in Tasks |-> IF t \in InFlight /\ at[t] \in lost THEN "done" ELSE pc[t]]
    /\ crashed' = TRUE
    /\ UNCHANGED <<row, record, writer, resources, at, held, tidy>>

DeployNext ==
    \/ \E t \in Tasks : Create(t, Api) \/ Handle(t) \/ Resume(t)
    \/ Crash(Services)

\* The event loop runs every coroutine whose await is over.
DeployFairness == \A t \in Tasks : WF_dvars(Resume(t))

DeploySpec == DeployInit /\ [][DeployNext]_dvars /\ DeployFairness

-------------------------------------------------------------------------------
(* Properties. *)

Pcs == {"unused", "begin", "create_vm", "install_vm", "configure_vm", "find_vm",
        "cleanup_vm", "dns", "verify", "verified", "failing", "start_vm", "stop_vm", "restart_vm",
        "delete_vm", "stop_and_delete", "stop_and_keep", "restore_stop", "restore_vm", "health",
        "healthy", "done"}

\* Type correctness of the service, its row and its coroutines.
DeploymentTypeOK ==
    /\ row \in Statuses \cup {"none"}
    /\ record \in [Records -> Statuses]
    /\ cache \in [Services -> Records \cup {NoRecord}]
    /\ broken \subseteq Services
    /\ vm \in {"absent", "off", "running"}
    /\ app \in {"none", "vm", "host"}
    /\ pc \in [Tasks -> Pcs]
    /\ at \in [Tasks -> Services]
    /\ held \in [Tasks -> Records \cup {NoRecord}]
    /\ faults_left \in 0..MaxFaults
    /\ writer \in Services \cup {"none"}
    /\ tidy \in BOOLEAN
    /\ crashed \in BOOLEAN

\* A deployment that is under way or failed is so in the database too, whatever
\* else ran meanwhile, unless another service wrote the row or the session broke:
\* only the statuses start, stop, restart and delete set may be the cache's alone.
RecordPersisted ==
    \A s \in Services \ broken :
        (s = writer /\ cache[s] # NoRecord /\ record[cache[s]] \in Unsettled \cup {"failed"})
            => row = record[cache[s]]

\* When operations come one at a time and complete, a record that says running,
\* stopped or deleted says so of the machine.
RecordTellsTruth ==
    tidy /\ InFlight = {} =>
        \A s \in Services : cache[s] # NoRecord =>
            /\ record[cache[s]] = "running" => Serving
            /\ record[cache[s]] = "stopped" => vm # "running"
            /\ record[cache[s]] = "deleted" => vm = "absent"

\* What the rows and the cached records of deployments must tell.
RecordsHold == DeploymentTypeOK /\ RecordPersisted /\ RecordTellsTruth

\* A deployment under way comes to an end: its execution settles the row, unless
\* a crash or a broken session takes the means to do so.
Concludes ==
    row \in Unsettled ~> row \notin Unsettled \/ broken # {} \/ crashed
===============================================================================
