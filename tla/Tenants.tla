--------------------------------- MODULE Tenants ---------------------------------
(***************************************************************************)
(* One tenant and its box: backend/core/tenants.py, the docker commands of *)
(* backend/orchestration/box_deployer.py and the handlers of               *)
(* backend/api/tenants.py.                                                 *)
(*                                                                         *)
(* Handlers run in threads that share one service and its one session.     *)
(* A registration, of this tenant or of any other, closes the session when *)
(* it is done: the rows that other calls hold are then detached from it,   *)
(* and what they set on them is committed nowhere.                         *)
(*                                                                         *)
(* deploy_docker_box raises nothing, so its fallback is not reached.       *)
(***************************************************************************)
EXTENDS Integers, FiniteSets

CONSTANTS
    Calls,           \* calls of the tenants API
    MaxTenantFaults  \* docker errors, boxes that stop and crashes

VARIABLES
    tenant,     \* CompanyTenant.status, "none" without a row
    box,        \* external: the container: "absent", "running" or "exited"
    call,       \* of each call: "none", what it does next, or "done"
    attached,   \* calls whose row is still attached to the session
    outcome,    \* of each call: what docker told it
    tenant_faults,
    alone,      \* history: calls came one at a time and none was cut off
    tenant_cut  \* history: a call lost its row or its process

tenantvars == <<tenant, box, call, attached, outcome, tenant_faults, alone, tenant_cut>>

TenantInit ==
    /\ tenant = "none"
    /\ box = "absent"
    /\ call = [c \in Calls |-> "none"]
    /\ attached = {}
    /\ outcome = [c \in Calls |-> "unknown"]
    /\ tenant_faults = MaxTenantFaults
    /\ alone = TRUE
    /\ tenant_cut = FALSE

UnderWay == {c \in Calls : call[c] \notin {"none", "done"}}
Becomes(c, next) == call' = [call EXCEPT ![c] = next]
TenantFault == tenant_faults > 0 /\ tenant_faults' = tenant_faults - 1

Begins(c, first) ==
    /\ call[c] = "none" /\ Becomes(c, first)
    /\ alone' = (alone /\ UnderWay = {})

\* register finds the slug, or finds it free.
Register(c) ==
    /\ Begins(c, IF tenant = "none" THEN "insert" ELSE "close")
    /\ UNCHANGED <<tenant, box, attached, outcome, tenant_faults, tenant_cut>>

\* The slug is unique: a second insert is rolled back and the call fails.
Insert(c) ==
    /\ call[c] = "insert"
    /\ tenant' = IF tenant = "none" THEN "pending" ELSE tenant
    /\ Becomes(c, "close")
    /\ UNCHANGED <<box, attached, outcome, tenant_faults, alone, tenant_cut>>

CloseSession(c) ==
    /\ call[c] = "close"
    /\ attached' = {}
    /\ tenant_cut' = (tenant_cut \/ attached # {})
    /\ Becomes(c, "done")
    /\ UNCHANGED <<tenant, box, outcome, tenant_faults, alone>>

Provision(c) ==
    /\ tenant # "none"
    /\ Begins(c, "remove")
    /\ tenant' = "provisioning"
    /\ attached' = attached \cup {c}
    /\ UNCHANGED <<box, outcome, tenant_faults, tenant_cut>>

\* deploy_docker_box: docker rm -f, then docker run, whose name may be taken again.
RemoveBox(c) ==
    /\ call[c] = "remove"
    /\ \/ box' = "absent" /\ UNCHANGED tenant_faults
       \/ TenantFault /\ UNCHANGED box
    /\ Becomes(c, "run")
    /\ UNCHANGED <<tenant, attached, outcome, alone, tenant_cut>>

DeployDockerBox(c) ==
    /\ call[c] = "run"
    /\ \/ /\ box = "absent"
          /\ box' = "running" /\ outcome' = [outcome EXCEPT ![c] = "running"]
          /\ UNCHANGED tenant_faults
       \/ /\ IF box = "absent" THEN TenantFault ELSE UNCHANGED tenant_faults
          /\ outcome' = [outcome EXCEPT ![c] = "failed"]
          /\ UNCHANGED box
    /\ Becomes(c, "commit")
    /\ UNCHANGED <<tenant, attached, alone, tenant_cut>>

RefreshStatus(c) ==
    /\ tenant # "none"
    /\ Begins(c, "inspect")
    /\ attached' = attached \cup {c}
    /\ UNCHANGED <<tenant, box, outcome, tenant_faults, tenant_cut>>

\* box_status; a box that is not found says nothing.
BoxStatus(c) ==
    /\ call[c] = "inspect"
    /\ outcome' = [outcome EXCEPT ![c] = CASE box = "running" -> "running"
                                           [] box = "exited" -> "failed"
                                           [] OTHER -> "unknown"]
    /\ Becomes(c, "commit")
    /\ UNCHANGED <<tenant, box, attached, tenant_faults, alone, tenant_cut>>

\* What a call learned is written, if its row is still attached.
CommitStatus(c) ==
    /\ call[c] = "commit"
    /\ tenant' = IF c \in attached /\ outcome[c] # "unknown" THEN outcome[c] ELSE tenant
    /\ attached' = attached \ {c}
    /\ Becomes(c, "done")
    /\ UNCHANGED <<box, outcome, tenant_faults, alone, tenant_cut>>

TenantStep(c) ==
    Insert(c) \/ CloseSession(c) \/ RemoveBox(c) \/ DeployDockerBox(c) \/ BoxStatus(c)
    \/ CommitStatus(c)

BoxStops ==
    /\ box = "running" /\ TenantFault
    /\ box' = "exited"
    /\ UNCHANGED <<tenant, call, attached, outcome, alone, tenant_cut>>

TenantCrash ==
    /\ UnderWay # {} /\ TenantFault
    /\ call' = [c \in Calls |-> IF call[c] = "none" THEN "none" ELSE "done"]
    /\ attached' = {}
    /\ tenant_cut' = TRUE
    /\ UNCHANGED <<tenant, box, outcome, alone>>

TenantNext ==
    \/ \E c \in Calls : Register(c) \/ Provision(c) \/ RefreshStatus(c) \/ TenantStep(c)
    \/ BoxStops \/ TenantCrash

TenantFairness == \A c \in Calls : WF_tenantvars(TenantStep(c))

-------------------------------------------------------------------------------
(* Properties. *)

\* With calls one at a time a tenant said to be running has its box, running or
\* stopped by itself since, and none is left in provisioning.  (One said to have
\* failed may have its old box still running.)
TenantTellsTruth ==
    alone /\ ~tenant_cut /\ UnderWay = {} =>
        /\ tenant = "running" => box # "absent"
        /\ tenant # "provisioning"

\* A provisioning ends, however calls overlap, unless one lost its row or its process.
ProvisionSettles == tenant = "provisioning" ~> tenant # "provisioning" \/ tenant_cut
===============================================================================
