------------------------------ MODULE SelfHealing ------------------------------
(***************************************************************************)
(* Monitoring and recovery of components:                                  *)
(* agents/self_healing/health_monitor.py and auto_recovery.py.             *)
(*                                                                         *)
(* The monitoring loop checks every component, and when the system as a    *)
(* whole is unhealthy it hands the report to the recovery agent and waits  *)
(* for it.  The agent recovers the components of the report one after the  *)
(* other, on the strength of that report.  recover_component is public: a  *)
(* caller other than the loop may recover a component at the same time.    *)
(*                                                                         *)
(* An actor waits while health is checked and while a component settles;   *)
(* actions block the event loop.  Times count down instead of growing.     *)
(* Metrics, durations, recommendations and success rates are left out.     *)
(***************************************************************************)
EXTENDS Integers, FiniteSets, SequencesExt

CONSTANTS
    Components,   \* components with a health check, in the order of registration
    Strategies,   \* those with a recovery strategy
    Escalating,   \* those whose strategy has escalation actions
    Callers,      \* callers of recover_component other than the monitoring loop
    Monitor,      \* the monitoring loop
    Actions,      \* number of actions of a strategy
    MaxAttempts,  \* max_attempts
    Cooldown,     \* cooldown_seconds, in ticks
    Outcomes,     \* what an action can do: see Outcome
    MaxFaults     \* how often a component may fail on its own

Status == {"healthy", "degraded", "unhealthy", "critical"}
Ill == {"unhealthy", "critical"}

\* What an action reports, and whether the component is well after it.
Outcome == {"repaired", "ineffective", "failed", "skipped"}

ASSUME SelfHealingAssumption ==
    /\ Components \in Seq(STRING) \ {<<>>} /\ IsInjective(Components)
    /\ Strategies \subseteq Range(Components)
    /\ Escalating \subseteq Strategies
    /\ Monitor \notin Callers /\ IsFiniteSet(Callers)
    /\ Actions \in Nat \ {0} /\ MaxAttempts \in Nat \ {0} /\ Cooldown \in Nat
    /\ Outcomes \subseteq Outcome
    /\ MaxFaults \in Nat

VARIABLES
    health,        \* of each component, as its check would find it now
    cooling,       \* what is left of the cooldown since last_recovery
    attempts,      \* attempt_counters
    reported_ill,  \* components of the report the loop still has to look at
    healer,        \* of each actor: "idle" or what it waits for
    target,        \* of each actor: the component it recovers
    executed,      \* of each actor: how many actions it has executed
    succeeded,     \* of each actor: whether an action reported success
    health_faults

tracking == <<cooling, attempts>>
healvars == <<health, cooling, attempts, reported_ill, healer, target, executed, succeeded,
          health_faults>>

Healers == {Monitor} \cup Callers
Monitored == Range(Components)

HealInit ==
    /\ health = [c \in Monitored |-> "healthy"]
    /\ cooling = [c \in Monitored |-> 0]
    /\ attempts = [c \in Monitored |-> 0]
    /\ reported_ill = {}
    /\ healer = [a \in Healers |-> "idle"]
    /\ target = [a \in Healers |-> Head(Components)]
    /\ executed = [a \in Healers |-> 0]
    /\ succeeded = [a \in Healers |-> FALSE]
    /\ health_faults = MaxFaults

-------------------------------------------------------------------------------
(* The monitor. *)

Number(statuses) == Cardinality({c \in Monitored : health[c] \in statuses})

\* _calculate_overall_status, with resources within their limits: a critical
\* component, or more than 30% unhealthy ones.
Alarming == Number({"critical"}) > 0 \/ 10 * Number({"unhealthy"}) > 3 * Len(Components)

\* One round of start_monitoring; _on_health_alert keeps the ill components that
\* have a strategy.
Poll ==
    /\ healer[Monitor] = "idle" /\ reported_ill = {}
    /\ Alarming
    /\ reported_ill' = {c \in Strategies : health[c] \in Ill}
    /\ reported_ill' # {}
    /\ UNCHANGED <<health, tracking, healer, target, executed, succeeded, health_faults>>

-------------------------------------------------------------------------------
(* recover_component. *)

Wait(a, what) == healer' = [healer EXCEPT ![a] = what]

\* Faulty variant: one attempt too many.
WithinLimitOrAt(c) == attempts[c] <= MaxAttempts

Cooled(c) == cooling[c] = 0
WithinLimit(c) == attempts[c] < MaxAttempts

\* A report lists its components in the order of their registration.
FirstReported == Components[Min({i \in DOMAIN Components : Components[i] \in reported_ill})]

\* The loop takes the next component of its report, a caller any component.
TakeComponent(a, c) ==
    IF a = Monitor
    THEN reported_ill # {} /\ c = FirstReported /\ reported_ill' = reported_ill \ {c}
    ELSE UNCHANGED reported_ill

\* Faulty variant: escalation actions are not looked at.
SkipAtLimit(a, c) ==
    /\ ~Cooled(c) \/ ~WithinLimit(c)
    /\ UNCHANGED <<healer, health, tracking, target, executed, succeeded>>

\* A report with status SKIPPED; nothing is tracked.
Skip(a, c) ==
    /\ ~Cooled(c) \/ (~WithinLimit(c) /\ c \notin Escalating)
    /\ UNCHANGED <<healer, health, tracking, target, executed, succeeded>>

\* The checks are made here, before the first await.
BeginRecovery(a, c) ==
    /\ Cooled(c) /\ WithinLimit(c)
    /\ Wait(a, "before")
    /\ target' = [target EXCEPT ![a] = c]
    /\ executed' = [executed EXCEPT ![a] = 0]
    /\ succeeded' = [succeeded EXCEPT ![a] = FALSE]
    /\ UNCHANGED <<health, tracking>>

\* What an action does to the component: its report and the health after it.
Effect(c, outcome) ==
    health' = [health EXCEPT ![c] = IF outcome = "repaired" THEN "healthy" ELSE @]

Reported(outcome) ==
    CASE outcome \in {"repaired", "ineffective"} -> "success"
      [] outcome = "failed" -> "failed"
      [] OTHER -> "skipped"

\* _escalate_recovery resets the counter and executes its actions until one
\* succeeds; the report that follows is neither tracked nor kept.
Escalate(a, c) ==
    /\ Cooled(c) /\ ~WithinLimit(c) /\ c \in Escalating
    /\ attempts' = [attempts EXCEPT ![c] = 0]
    /\ \E outcome \in Outcomes : Effect(c, outcome)
    /\ Wait(a, "escalated")
    /\ target' = [target EXCEPT ![a] = c]
    /\ UNCHANGED <<cooling, executed, succeeded>>

Recover(a) ==
    /\ healer[a] = "idle"
    /\ \E c \in Strategies :
         /\ TakeComponent(a, c)
         /\ Skip(a, c) \/ BeginRecovery(a, c) \/ Escalate(a, c)
    /\ UNCHANGED health_faults

\* Faulty variant: one action too many.
ExhaustedPast(done) == done > Actions

Exhausted(done) == done = Actions

\* The next action; a skipped one is followed by the next at once.
Act(a) ==
    \E outcome \in Outcomes :
        /\ Effect(target[a], outcome)
        /\ executed' = [executed EXCEPT ![a] = @ + 1]
        /\ succeeded' = [succeeded EXCEPT ![a] = @ \/ Reported(outcome) = "success"]
        /\ Wait(a, CASE Reported(outcome) = "success" -> "settling"
                     [] Reported(outcome) = "failed" -> "after"
                     [] OTHER -> IF Exhausted(executed'[a]) THEN "after" ELSE "before")

Before(a) ==
    /\ healer[a] = "before"
    /\ Act(a)
    /\ UNCHANGED <<tracking, reported_ill, target, health_faults>>

\* The component had time to settle and is checked: the next action, or none.
Settled(a) ==
    /\ healer[a] = "settling"
    /\ IF health[target[a]] = "healthy" \/ Exhausted(executed[a])
       THEN Wait(a, "after") /\ UNCHANGED <<health, executed, succeeded>>
       ELSE Act(a)
    /\ UNCHANGED <<tracking, reported_ill, target, health_faults>>

\* _determine_final_status: a reported success counts as one unless degraded.
FinalSuccess(a) ==
    LET now == health[target[a]]
    IN  now = "healthy" \/ (succeeded[a] /\ now # "degraded")

\* The last check, then _update_tracking.
FinishRecovery(a) ==
    /\ healer[a] = "after"
    /\ Wait(a, "idle")
    /\ cooling' = [cooling EXCEPT ![target[a]] = Cooldown]
    /\ attempts' = [attempts EXCEPT ![target[a]] = IF FinalSuccess(a) THEN 0 ELSE @ + 1]
    /\ UNCHANGED <<health, reported_ill, target, executed, succeeded, health_faults>>

FinishEscalation(a) ==
    /\ healer[a] = "escalated"
    /\ Wait(a, "idle")
    /\ UNCHANGED <<health, tracking, reported_ill, target, executed, succeeded, health_faults>>

ContinueRecovery(a) == Before(a) \/ Settled(a) \/ FinishRecovery(a) \/ FinishEscalation(a)

-------------------------------------------------------------------------------

\* A component fails, or fails worse.
Fault ==
    /\ health_faults > 0
    /\ health_faults' = health_faults - 1
    /\ \E c \in Monitored, s \in Status \ {"healthy"} :
         /\ health[c] # s
         /\ health' = [health EXCEPT ![c] = s]
    /\ UNCHANGED <<tracking, reported_ill, healer, target, executed, succeeded>>

TimePasses ==
    /\ \E c \in Monitored : cooling[c] > 0
    /\ cooling' = [c \in Monitored |-> IF cooling[c] > 0 THEN cooling[c] - 1 ELSE 0]
    /\ UNCHANGED <<health, attempts, reported_ill, healer, target, executed, succeeded,
                   health_faults>>

MonitorStep == Poll \/ Recover(Monitor) \/ ContinueRecovery(Monitor)
CallerStep(a) == Recover(a) \/ ContinueRecovery(a)

HealNext == MonitorStep \/ (\E a \in Callers : CallerStep(a)) \/ Fault \/ TimePasses

\* The loop runs and time passes; a caller that began a recovery ends it.
HealFairness ==
    /\ WF_healvars(MonitorStep)
    /\ \A a \in Callers : WF_healvars(ContinueRecovery(a))
    /\ WF_healvars(TimePasses)

HealSpec == HealInit /\ [][HealNext]_healvars /\ HealFairness

-------------------------------------------------------------------------------
(* Properties. *)

\* Type correctness of the monitor, the agent and its actors.
HealTypeOK ==
    /\ health \in [Monitored -> Status]
    /\ cooling \in [Monitored -> 0..Cooldown]
    /\ attempts \in [Monitored -> Nat]
    /\ reported_ill \subseteq Strategies
    /\ healer \in [Healers -> {"idle", "before", "settling", "after", "escalated"}]
    /\ target \in [Healers -> Monitored]
    /\ executed \in [Healers -> 0..Actions]
    /\ succeeded \in [Healers -> BOOLEAN]
    /\ health_faults \in 0..MaxFaults

Recovering(c) == {a \in Healers : healer[a] \in {"before", "settling", "after"} /\ target[a] = c}

\* The limit of attempts is checked before the awaits of a recovery and counted
\* after them: every recovery under way at once can add one attempt, no more.
RecoveriesBounded ==
    \A c \in Monitored :
        attempts[c] + Cardinality(Recovering(c)) < MaxAttempts + Cardinality(Healers)

Ailing(c) == health[c] \in Ill
TreatedNow(c) == \E a \in Healers : healer[a] # "idle" /\ target[a] = c

\* While the system as a whole alarms, an ill component is acted on again and again,
\* through cooldowns, attempt limits and escalations.  (Without escalation actions the
\* attempts that failed are never forgotten and it is given up.)
KeepsTrying ==
    \A c \in Escalating : Ailing(c) /\ Alarming ~> ~(Ailing(c) /\ Alarming) \/ TreatedNow(c)
===============================================================================
