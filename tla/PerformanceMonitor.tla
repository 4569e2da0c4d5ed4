--------------------------- MODULE PerformanceMonitor ---------------------------
(***************************************************************************)
(* Metric collection, alerts and reports:                                  *)
(* agents/devops/performance_monitor.py.                                   *)
(*                                                                         *)
(* Every call of start_monitoring is a loop of its own; all loops watch    *)
(* one flag, which stop_monitoring clears, between their sleeps.  A loop   *)
(* waits while it collects, while the language model advises on an alert   *)
(* and while it sleeps.  An error ends the round, not the loop.  Times     *)
(* count rounds; texts and identifiers are left out.                       *)
(***************************************************************************)
EXTENDS Integers, FiniteSets

CONSTANTS
    Loops,           \* calls of start_monitoring
    Watched,         \* metric types with thresholds
    Warning, Limit,  \* of each metric its two thresholds
    Values,          \* what a metric may read
    Day,             \* how long samples are kept
    Percent,         \* the percentile reports use
    Rounds           \* how many rounds are collected

ASSUME PerformanceAssumption ==
    /\ Warning \in [Watched -> Nat \ {0}] /\ Limit \in [Watched -> Nat]
    /\ Values \subseteq Nat /\ Percent \in 0..100

VARIABLES
    monitoring,   \* the flag
    loop,         \* of each loop "unused", "collect", "check", "sleep" or "ended"
    sample,       \* of each loop: what it collected, a value per metric
    taken,        \* of each loop: when it collected it
    samples,      \* of each metric: its samples, <<time, value>>; no two have one time
    alerts,       \* alerts raised: [metric, level, time, by]
    advised,      \* history: rounds whose check went through, <<loop, time, sample>>
    perf_report,  \* the last report: of each metric with samples its p95
    clock

perfvars == <<monitoring, loop, sample, taken, samples, alerts, advised, perf_report, clock>>
collected == <<sample, taken>>

PerfInit ==
    /\ monitoring = FALSE
    /\ loop = [l \in Loops |-> "unused"]
    /\ sample = [l \in Loops |-> [m \in Watched |-> 0]]
    /\ taken = [l \in Loops |-> 0]
    /\ samples = [m \in Watched |-> {}]
    /\ alerts = {} /\ advised = {}
    /\ perf_report = <<>>
    /\ clock = 0

Continue(l, what) == loop' = [loop EXCEPT ![l] = what]

StartMonitoring(l) ==
    /\ loop[l] = "unused"
    /\ monitoring' = TRUE
    /\ Continue(l, "collect")
    /\ UNCHANGED <<collected, samples, alerts, advised, perf_report, clock>>

StopMonitoring ==
    /\ monitoring /\ monitoring' = FALSE
    /\ UNCHANGED <<loop, collected, samples, alerts, advised, perf_report, clock>>

\* The metrics are read, and kept with what is left of the last day.
CollectMetrics(l) ==
    /\ loop[l] = "collect" /\ clock < Rounds
    /\ clock' = clock + 1
    /\ \E values \in [Watched -> Values] :
         /\ sample' = [sample EXCEPT ![l] = values]
         /\ samples' = [m \in Watched |->
              {s \in samples[m] \cup {<<clock', values[m]>>} : s[1] > clock' - Day}]
    /\ taken' = [taken EXCEPT ![l] = clock']
    /\ Continue(l, "check")
    /\ UNCHANGED <<monitoring, alerts, advised, perf_report>>

\* _get_network_throughput, say, raises: the round is over.
CollectFails(l) ==
    /\ loop[l] = "collect"
    /\ Continue(l, "sleep")
    /\ UNCHANGED <<monitoring, collected, samples, alerts, advised, perf_report, clock>>

Level(m, value) ==
    IF value >= Limit[m] THEN "critical" ELSE IF value >= Warning[m] THEN "warning" ELSE "none"

Exceeding(values) == {m \in Watched : Level(m, values[m]) # "none"}

CreateAlert(l, m) ==
    [metric |-> m, level |-> Level(m, sample[l][m]), time |-> taken[l], by |-> l]

\* The alerts of a round are stored together, after the advice on each.
CheckThresholds(l) ==
    /\ loop[l] = "check"
    /\ alerts' = alerts \cup {CreateAlert(l, m) : m \in Exceeding(sample[l])}
    /\ advised' = advised \cup {<<l, taken[l], sample[l]>>}
    /\ Continue(l, "sleep")
    /\ UNCHANGED <<monitoring, collected, samples, perf_report, clock>>

\* Without advice the round has no alert at all.
AdviceFails(l) ==
    /\ loop[l] = "check" /\ Exceeding(sample[l]) # {}
    /\ Continue(l, "sleep")
    /\ UNCHANGED <<monitoring, collected, samples, alerts, advised, perf_report, clock>>

Wake(l) ==
    /\ loop[l] = "sleep"
    /\ Continue(l, IF monitoring THEN "collect" ELSE "ended")
    /\ UNCHANGED <<monitoring, collected, samples, alerts, advised, perf_report, clock>>

-------------------------------------------------------------------------------
(* Reports. *)

\* The place of the percentile among n sorted values; the index is cut to the last.
Rank(n) ==
    LET index == (n * Percent) \div 100
    IN  IF index < n THEN index + 1 ELSE n

\* The value at that place: fewer lie below it, and no fewer at or below it.
Percentile(kept) ==
    CHOOSE v \in {s[2] : s \in kept} :
        /\ Cardinality({s \in kept : s[2] < v}) < Rank(Cardinality(kept))
        /\ Cardinality({s \in kept : s[2] <= v}) >= Rank(Cardinality(kept))

GenerateReport ==
    /\ \E m \in Watched : samples[m] # {}
    /\ perf_report' = [m \in {m \in Watched : samples[m] # {}} |-> Percentile(samples[m])]
    /\ UNCHANGED <<monitoring, loop, collected, samples, alerts, advised, clock>>

Bottlenecks == {m \in DOMAIN perf_report : perf_report[m] > Warning[m]}

Severity(m) == IF perf_report[m] > Limit[m] THEN "high" ELSE "medium"

\* The score of one metric, times its warning threshold.
CalculatePerformanceScore(m) ==
    LET w == Warning[m]  p == perf_report[m]
    IN  CASE 2 * p <= w -> 100 * w
          [] 2 * p > w /\ p <= w -> 100 * w - 30 * (2 * p - w)
          [] OTHER -> IF 70 * (p - w) > 70 * w THEN 0 ELSE 70 * w - 70 * (p - w)

LoopStep(l) ==
    \/ CollectMetrics(l) \/ CollectFails(l) \/ CheckThresholds(l) \/ AdviceFails(l) \/ Wake(l)

PerfNext ==
    \/ \E l \in Loops : StartMonitoring(l) \/ LoopStep(l)
    \/ StopMonitoring
    \/ GenerateReport

PerfSpec == PerfInit /\ [][PerfNext]_perfvars /\ \A l \in Loops : WF_perfvars(LoopStep(l))

-------------------------------------------------------------------------------
(* Properties. *)

\* Loops that overlap, because monitoring was stopped and started during a sleep,
\* do not disturb each other's rounds: a round that was checked raised exactly the
\* alerts its own sample calls for, although another loop sampled meanwhile.
AlertsMatchSamples ==
    /\ \A r \in advised : \A m \in Watched :
         Level(m, r[3][m]) # "none" =>
            [metric |-> m, level |-> Level(m, r[3][m]), time |-> r[2], by |-> r[1]] \in alerts
    /\ \A a \in alerts : \E r \in advised :
         r[1] = a.by /\ r[2] = a.time /\ Level(a.metric, r[3][a.metric]) = a.level

\* Reports agree with themselves and the samples: a metric is a bottleneck exactly
\* when its score is below 70, and of its samples no smaller share than the
\* percentile says lies at or below it.
ReportsAgree ==
    /\ \A m \in DOMAIN perf_report :
         m \in Bottlenecks <=> CalculatePerformanceScore(m) < 70 * Warning[m]
    /\ \A m \in Watched : samples[m] # {} =>
         100 * Cardinality({s \in samples[m] : s[2] <= Percentile(samples[m])})
           >= Percent * Cardinality(samples[m])

\* After a stop every loop ends, unless monitoring is started again.
StopEndsLoops ==
    ~monitoring ~> monitoring \/ \A l \in Loops : loop[l] \in {"unused", "ended"}
===============================================================================
