------------------------------- MODULE CiPipeline -------------------------------
(***************************************************************************)
(* Pipelines of one project: agents/devops/ci_cd_manager.py.               *)
(*                                                                         *)
(* A pipeline runs the commands of its stages one after the other; while a *)
(* command runs, other pipelines of the project do.  All of them work in   *)
(* one directory, which the first checkout creates and nothing removes.    *)
(* Commands have no time limit.  Logs, artifacts and scores are left out.  *)
(***************************************************************************)
EXTENDS Integers, FiniteSets, Sequences

CONSTANTS
    Pipelines,  \* runs of pipelines of the project
    Configs     \* the optional stages a pipeline may ask for, and its target

VARIABLES
    config,    \* of each pipeline: [stages, target]
    stage,     \* "none", the stage it is in, "complete", "failed" or "ended"
    pstatus,   \* pipeline["status"]
    workdir,   \* whose checkout the directory holds, "none" at first
    registry,  \* pipelines found under their id, which has the second of the start
    passed,    \* history: stages each pipeline went through
    released   \* history: pipelines that were deployed to production

civars == <<config, stage, pstatus, workdir, registry, passed, released>>

NoPipeline == "none"
Order == <<"checkout", "build", "test", "quality", "security", "deploy", "verify">>
Optional == {"quality", "security", "deploy"}

ASSUME CiAssumption ==
    /\ NoPipeline \notin Pipelines
    /\ Configs # {} /\ \A c \in Configs : c.stages \subseteq Optional

CiInit ==
    /\ config = [p \in Pipelines |-> CHOOSE c \in Configs : TRUE]
    /\ stage = [p \in Pipelines |-> "none"]
    /\ pstatus = [p \in Pipelines |-> "none"]
    /\ workdir = NoPipeline
    /\ registry = {}
    /\ passed = [p \in Pipelines |-> {}]
    /\ released = {}

Asked(p) == {i \in 1..Len(Order) : Order[i] \notin Optional \ config[p].stages}
Position(p) == CHOOSE i \in 1..Len(Order) : Order[i] = stage[p]

\* run_pipeline: the stage that follows, and the status when there is none.
Advance(p) ==
    LET later == {i \in Asked(p) : i > Position(p)}
    IN  /\ stage' = [stage EXCEPT ![p] =
                       IF later = {} THEN "complete"
                       ELSE Order[CHOOSE i \in later : \A j \in later : i <= j]]
        /\ pstatus' = [pstatus EXCEPT ![p] = IF later = {} THEN "success" ELSE @]
        /\ passed' = [passed EXCEPT ![p] = @ \cup {stage[p]}]

\* Faulty variant: the stage tells the failure, the status does not.
FailUnstated(p) ==
    /\ stage' = [stage EXCEPT ![p] = "failed"]
    /\ UNCHANGED <<pstatus, workdir, passed, released>>

Fail(p) ==
    /\ stage' = [stage EXCEPT ![p] = "failed"]
    /\ pstatus' = [pstatus EXCEPT ![p] = "failed"]
    /\ UNCHANGED <<workdir, passed, released>>

\* Two pipelines that start in one second have one id, and the later keeps it.
StartPipeline(p) ==
    /\ stage[p] = "none"
    /\ \E c \in Configs : config' = [config EXCEPT ![p] = c]
    /\ stage' = [stage EXCEPT ![p] = "checkout"]
    /\ pstatus' = [pstatus EXCEPT ![p] = "running"]
    /\ \E same \in SUBSET registry :
         Cardinality(same) <= 1 /\ registry' = (registry \ same) \cup {p}
    /\ UNCHANGED <<workdir, passed, released>>

\* Faulty variant: the checkout replaces the directory of an earlier pipeline.
ClonedOver == FALSE

\* git clone refuses a directory that exists.
Cloned == workdir # NoPipeline

CheckoutCode(p) ==
    /\ stage[p] = "checkout"
    /\ \/ ~Cloned /\ workdir' = p /\ Advance(p) /\ UNCHANGED released
       \/ Fail(p)

Build(p) ==
    /\ stage[p] = "build"
    /\ \/ Advance(p) /\ UNCHANGED <<workdir, released>>
       \/ Fail(p)

\* The command succeeds and its output names no failure.
Test(p) ==
    /\ stage[p] = "test"
    /\ \/ Advance(p) /\ UNCHANGED <<workdir, released>>
       \/ Fail(p)

\* A check that fails lowers the score and nothing else.
QualityChecks(p) ==
    /\ stage[p] = "quality"
    /\ Advance(p) /\ UNCHANGED <<workdir, released>>

\* A scanner that fails, or whose output is not JSON, found no issue; only a
\* critical issue fails the pipeline.
SecurityScan(p) ==
    /\ stage[p] = "security"
    /\ \/ Advance(p) /\ UNCHANGED <<workdir, released>>
       \/ Fail(p)

DeployStage(p) ==
    /\ stage[p] = "deploy"
    /\ \/ /\ config[p].target = "production"
          /\ released' = released \cup {p} /\ Advance(p) /\ UNCHANGED workdir
       \/ /\ config[p].target = "staging"
          /\ Advance(p) /\ UNCHANGED <<workdir, released>>
       \/ config[p].target # "staging" /\ Fail(p)

\* _deploy_production, whose image was built but whose start failed.
DeployProductionFails(p) ==
    /\ stage[p] = "deploy" /\ config[p].target = "production"
    /\ stage' = [stage EXCEPT ![p] = "failed"]
    /\ pstatus' = [pstatus EXCEPT ![p] = "failed"]
    /\ released' = released \cup {p}
    /\ UNCHANGED <<workdir, passed>>

Verify(p) ==
    /\ stage[p] = "verify"
    /\ Advance(p) /\ UNCHANGED <<workdir, released>>

\* _analyze_failure, which may raise out of run_pipeline.
AnalyzeFailure(p) ==
    /\ stage[p] = "failed"
    /\ stage' = [stage EXCEPT ![p] = "ended"]
    /\ UNCHANGED <<pstatus, workdir, passed, released>>

RunPipeline(p) ==
    /\ \/ CheckoutCode(p) \/ Build(p) \/ Test(p) \/ QualityChecks(p) \/ SecurityScan(p)
       \/ DeployStage(p) \/ DeployProductionFails(p) \/ Verify(p) \/ AnalyzeFailure(p)
    /\ UNCHANGED <<config, registry>>

\* cancel_pipeline sets the status and stops nothing.
CancelPipeline(p) ==
    /\ p \in registry
    /\ pstatus[p] # "cancelled"
    /\ pstatus' = [pstatus EXCEPT ![p] = "cancelled"]
    /\ UNCHANGED <<config, stage, workdir, registry, passed, released>>

CiNext == \E p \in Pipelines : StartPipeline(p) \/ RunPipeline(p) \/ CancelPipeline(p)

\* external: a command ends.
CiFairness == \A p \in Pipelines : WF_civars(RunPipeline(p))

-------------------------------------------------------------------------------
(* Properties. *)

\* Although pipelines of the project share a directory, what goes to production is
\* the code the same pipeline checked out, built, tested and, if asked to, scanned.
ReleasedWasTested ==
    \A p \in released :
        /\ workdir = p
        /\ {"checkout", "build", "test"} \cup (config[p].stages \ {"deploy"}) \subseteq passed[p]

\* A pipeline whose run is over says how it ended, or that it was cancelled.
PipelineEnds ==
    \A p \in Pipelines :
        pstatus[p] = "running" ~> pstatus[p] \in {"success", "failed", "cancelled"}
===============================================================================
