------------------------------ MODULE ReleaseAgent ------------------------------
(***************************************************************************)
(* Releases of one deployment: agents/devops/deployment_agent.py.          *)
(*                                                                         *)
(* The deployment service behind it is seen from outside: its calls return *)
(* or raise.  Polls of health and metrics end in an answer nobody uses:    *)
(* _health_check returns False and is not asked, and the error rate        *)
(* _monitor_deployment returns is the constant 0.  The registry            *)
(* self.deployments the traffic is switched in is assigned nowhere, so     *)
(* that every use of it raises: what a blue-green release does after the   *)
(* switch, and a canary after the first shift, is never reached.           *)
(* Releases of one deployment may overlap; nothing excludes each other.    *)
(***************************************************************************)
EXTENDS Integers, FiniteSets

CONSTANTS
    Releases,   \* calls of deploy for the deployment
    Instances,  \* containers docker lists for it
    Polls       \* attempts of _health_check

DeployStrategies == {"blue_green", "canary", "rolling", "recreate"}

ASSUME ReleaseAgentAssumption == IsFiniteSet(Instances) /\ Instances # {} /\ Polls \in Nat \ {0}

VARIABLES
    release,       \* of each: strategy, auto_rollback, phase, status
    release_step,  \* of each: the call it is about to make
    updated,       \* of each: instances updated
    polled,        \* of each: polls of the health endpoint made
    running,       \* external: whether the service holds the deployment as running
    standby,       \* external: releases whose green or canary environment was created
    outages        \* history: releases that stopped the deployment and did not recreate it

relvars == <<release, release_step, updated, polled, running, standby, outages>>

RelInit ==
    /\ release \in [Releases -> [strategy : DeployStrategies, auto_rollback : BOOLEAN,
                                 phase : {"preparing"}, status : {"none"}]]
    /\ release_step = [r \in Releases |-> "deploy"]
    /\ updated = [r \in Releases |-> {}]
    /\ polled = [r \in Releases |-> 0]
    /\ running \in BOOLEAN
    /\ standby = {}
    /\ outages = {}

Strategy(r) == release[r].strategy
ReleaseTo(r, next) == release_step' = [release_step EXCEPT ![r] = next]
Phase(r, phase) == release' = [release EXCEPT ![r].phase = phase]

\* deploy: the chosen strategy begins; only a rolling one starts in its first phase.
Deploy(r) ==
    /\ release_step[r] = "deploy"
    /\ Phase(r, IF Strategy(r) = "rolling" THEN "preparing" ELSE "deploying")
    /\ ReleaseTo(r, CASE Strategy(r) = "rolling" -> "instances"
               [] Strategy(r) = "recreate" -> "stop"
               [] OTHER -> "create")
    /\ UNCHANGED <<updated, polled, running, standby, outages>>

\* The except clause of deploy.
Raise(r) ==
    IF release[r].auto_rollback
    THEN Phase(r, "rolling_back") /\ ReleaseTo(r, "rollback")
    ELSE Phase(r, "failed") /\ ReleaseTo(r, "done")

-------------------------------------------------------------------------------
(* Blue-green and canary: an environment beside the deployment, then the traffic. *)

CreateBeside(r) ==
    /\ release_step[r] = "create" /\ Strategy(r) \in {"blue_green", "canary"}
    /\ \/ /\ standby' = standby \cup {r}
          /\ IF Strategy(r) = "canary"
             THEN Phase(r, "switching") /\ ReleaseTo(r, "shift")
             ELSE Phase(r, "testing") /\ ReleaseTo(r, "test")
       \/ Raise(r) /\ UNCHANGED standby
    /\ UNCHANGED <<updated, polled, running, outages>>

SwitchTraffic(r) ==
    /\ release_step[r] = "switch"
    /\ Raise(r)
    /\ UNCHANGED <<updated, polled, running, standby, outages>>

ShiftTraffic(r) ==
    /\ release_step[r] = "shift"
    /\ Raise(r)
    /\ UNCHANGED <<updated, polled, running, standby, outages>>

-------------------------------------------------------------------------------
(* Rolling: instance by instance. *)

\* Without an answer of docker the registry is asked, which raises.
GetInstances(r) ==
    /\ release_step[r] = "instances"
    /\ \/ Phase(r, "deploying") /\ ReleaseTo(r, "update")
       \/ Raise(r)
    /\ UNCHANGED <<updated, polled, running, standby, outages>>

\* Pull and restart; their errors are logged.
UpdateInstance(r) ==
    /\ release_step[r] = "update"
    /\ \E i \in Instances \ updated[r] : updated' = [updated EXCEPT ![r] = @ \cup {i}]
    /\ ReleaseTo(r, "test")
    /\ UNCHANGED <<release, polled, running, standby, outages>>

\* An error rate of 0 is above no threshold: the next instance, or none.
MonitorDeployment(r) ==
    /\ release_step[r] = "monitor"
    /\ ReleaseTo(r, IF updated[r] = Instances THEN "complete" ELSE "update")
    /\ UNCHANGED <<release, updated, polled, running, standby, outages>>

-------------------------------------------------------------------------------
(* Recreate: the deployment is stopped, then created again. *)

\* stop_deployment raises unless the deployment is running.
StopOld(r) ==
    /\ release_step[r] = "stop"
    /\ \/ /\ running
          /\ running' = FALSE /\ outages' = outages \cup {r}
          /\ ReleaseTo(r, "create") /\ UNCHANGED release
       \/ Raise(r) /\ UNCHANGED <<running, outages>>
    /\ UNCHANGED <<updated, polled, standby>>

CreateNew(r) ==
    /\ release_step[r] = "create" /\ Strategy(r) = "recreate"
    /\ \/ /\ running' = TRUE /\ outages' = outages \ {r}
          /\ Phase(r, "testing") /\ ReleaseTo(r, "test")
       \/ Raise(r) /\ UNCHANGED <<running, outages>>
    /\ UNCHANGED <<updated, polled, standby>>

-------------------------------------------------------------------------------

\* One poll of the health endpoint; the loop ends with a good answer or the last
\* attempt, and its caller goes on either way.
HealthCheck(r) ==
    /\ release_step[r] = "test"
    /\ \/ /\ polled[r] + 1 < Polls
          /\ polled' = [polled EXCEPT ![r] = @ + 1]
          /\ UNCHANGED <<release, release_step>>
       \/ /\ polled' = [polled EXCEPT ![r] = 0]
          /\ CASE Strategy(r) = "blue_green" -> Phase(r, "switching") /\ ReleaseTo(r, "switch")
               [] Strategy(r) = "rolling" -> UNCHANGED release /\ ReleaseTo(r, "monitor")
               [] OTHER -> UNCHANGED release /\ ReleaseTo(r, "complete")
    /\ UNCHANGED <<updated, running, standby, outages>>

Complete(r) ==
    /\ release_step[r] = "complete"
    /\ release' = [release EXCEPT ![r].phase = "complete", ![r].status = "success"]
    /\ ReleaseTo(r, "done")
    /\ UNCHANGED <<updated, polled, running, standby, outages>>

\* restore_backup returns, or its exception leaves deploy.
Rollback(r) ==
    /\ release_step[r] = "rollback"
    /\ \/ running' = TRUE /\ outages' = outages \ {r}
       \/ UNCHANGED <<running, outages>>
    /\ ReleaseTo(r, "done")
    /\ UNCHANGED <<release, updated, polled, standby>>

ReleaseStep(r) ==
    \/ Deploy(r) \/ CreateBeside(r) \/ SwitchTraffic(r) \/ ShiftTraffic(r)
    \/ GetInstances(r) \/ UpdateInstance(r) \/ MonitorDeployment(r)
    \/ StopOld(r) \/ CreateNew(r) \/ HealthCheck(r) \/ Complete(r) \/ Rollback(r)

RelNext == \E r \in Releases : ReleaseStep(r)

RelSpec == RelInit /\ [][RelNext]_relvars /\ \A r \in Releases : WF_relvars(ReleaseStep(r))

-------------------------------------------------------------------------------
(* Properties. *)

\* A release reported as a success did all of its strategy, in spite of releases that
\* overlap with it: every instance was updated, or it created anew what it stopped;
\* and the deployment stays down only on account of a recreation that failed.
ReleaseTellsTruth ==
    \A r \in Releases :
        /\ release[r].status = "success" =>
              \/ Strategy(r) = "rolling" /\ updated[r] = Instances
              \/ Strategy(r) = "recreate" /\ r \notin outages
        /\ r \in outages => Strategy(r) = "recreate" /\ release[r].phase # "testing"

\* A release comes to an end, through polls, instances and a rollback that raises.
ReleaseEnds ==
    \A r \in Releases : release_step[r] \notin {"deploy", "done"} ~> release_step[r] = "done"
===============================================================================
