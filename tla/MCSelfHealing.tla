----------------------------- MODULE MCSelfHealing -----------------------------
(***************************************************************************)
(* The two parts of agents/self_healing on one small instance: the circuit *)
(* breaker, and the monitor with the recovery agent.  They share no state; *)
(* one of them, `focus`, moves, with the fairness its module states.       *)
(***************************************************************************)
EXTENDS CircuitBreaker, SelfHealing

VARIABLE focus

mcvars == <<focus, vars, healvars>>

MCInit == focus \in {"breaker", "healing"} /\ Init /\ HealInit

MCNext ==
    /\ UNCHANGED focus
    /\ \/ focus = "breaker" /\ Next /\ UNCHANGED healvars
       \/ focus = "healing" /\ HealNext /\ UNCHANGED vars

MCFairness ==
    /\ \A c \in Calls : WF_vars(focus = "breaker" /\ Record(c))
    /\ WF_vars(focus = "breaker" /\ Tick)
    /\ WF_vars(focus = "breaker" /\ \E c \in Calls : Admit(c))
    /\ WF_healvars(focus = "healing" /\ MonitorStep)
    /\ \A a \in Callers : WF_healvars(focus = "healing" /\ ContinueRecovery(a))
    /\ WF_healvars(focus = "healing" /\ TimePasses)

MCSpec == MCInit /\ [][MCNext]_mcvars /\ MCFairness

\* Four components, of which one alone does not raise the alarm by being unhealthy,
\* but two together do, and one that is critical.
MCComponents == <<"api", "database", "queue", "cache">>
================================================================================
