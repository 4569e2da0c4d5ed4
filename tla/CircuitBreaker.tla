---------------------------- MODULE CircuitBreaker ----------------------------
(***************************************************************************)
(* agents/self_healing/circuit_breaker.py: one CircuitBreaker shared by    *)
(* concurrent asyncio tasks.  call() takes the lock to be admitted, runs   *)
(* the protected function without the lock, and takes the lock again to    *)
(* record the outcome, so outcomes of calls admitted in one state arrive   *)
(* in another.  The lock is never held across a suspension, so admission   *)
(* and recording are each one step.                                        *)
(*                                                                         *)
(* Wall-clock time is kept as the ticks since opened_at, saturating at     *)
(* Timeout; the consecutive counters saturate at the threshold they are    *)
(* compared with.  Both lose nothing the code can observe.  The metrics    *)
(* that no decision reads (totals, timestamps, durations) are left out.    *)
(***************************************************************************)
EXTENDS Integers, Sequences, FiniteSets

CONSTANTS
    Calls,              \* the tasks that may be inside call() at one time
    FailureThreshold,   \* config.failure_threshold
    SuccessThreshold,   \* config.success_threshold
    Timeout,            \* config.timeout_seconds, in ticks
    HalfOpenMaxCalls,   \* config.half_open_max_calls
    WindowSize,         \* config.window_size
    RateNum, RateDen,   \* config.error_rate_threshold = RateNum / RateDen
    Resets              \* TRUE if an operator may call reset()

ASSUME ConfigAssumption ==
    /\ IsFiniteSet(Calls)
    /\ FailureThreshold \in Nat \ {0}
    /\ SuccessThreshold \in Nat \ {0}
    /\ Timeout \in Nat
    /\ HalfOpenMaxCalls \in Nat \ {0}
    /\ WindowSize \in Nat \ {0}
    /\ RateNum \in Nat
    /\ RateDen \in Nat \ {0}
    /\ Resets \in BOOLEAN

\* A trial admits enough calls to succeed.  CircuitConfig does not check it; its
\* defaults (2 and 3) satisfy it, and without it a trial whose calls all succeed
\* can leave the circuit half-open for ever.
ASSUME TrialAssumption == SuccessThreshold <= HalfOpenMaxCalls

VARIABLES
    state,                  \* self.state
    since_opened,           \* now - self.opened_at, Never when opened_at is None
    half_open_calls,        \* self.half_open_calls
    consecutive_failures,   \* self.consecutive_failures, saturating
    consecutive_successes,  \* self.consecutive_successes, saturating
    recent_calls,           \* self.recent_calls: the last outcomes, TRUE = success
    metrics_state,          \* self.metrics.current_state
    running,                \* tasks between admission and _record_call
    healthy,                \* external: whether the protected service answers
    probes,                 \* history: running calls counted in half_open_calls
    trial_successes         \* history: successes recorded in this half-open episode

breaker == <<state, since_opened, half_open_calls, consecutive_failures,
             consecutive_successes, recent_calls, metrics_state>>
vars == <<state, since_opened, half_open_calls, consecutive_failures,
          consecutive_successes, recent_calls, metrics_state, running,
          healthy, probes, trial_successes>>

Never == -1
CircuitStates == {"CLOSED", "OPEN", "HALF_OPEN"}

\* The smaller of two numbers: how a counter saturates at its threshold.
Capped(n, limit) == IF n < limit THEN n ELSE limit

Init ==
    /\ state = "CLOSED"
    /\ since_opened = Never
    /\ half_open_calls = 0
    /\ consecutive_failures = 0
    /\ consecutive_successes = 0
    /\ recent_calls = <<>>
    /\ metrics_state = "CLOSED"
    /\ running = {}
    /\ healthy = TRUE
    /\ probes = {}
    /\ trial_successes = 0

\* _change_state(): the reason and the event it emits are left out.
ChangeState(new) ==
    /\ state' = new
    /\ metrics_state' = new

-------------------------------------------------------------------------------
(* Admission: the first locked block of call(), with _can_attempt_call().  A
   call that none of the three actions admits is rejected: it raises
   CircuitBreakerError and changes nothing but a metric. *)

AdmitClosed(c) ==
    /\ c \notin running
    /\ state = "CLOSED"
    /\ running' = running \cup {c}
    /\ UNCHANGED <<breaker, healthy, probes, trial_successes>>

\* Faulty variant: the probes of the previous trial are not forgotten.
AdmitAfterTimeoutKeepingCount(c) ==
    /\ c \notin running
    /\ state = "OPEN"
    /\ since_opened # Never
    /\ since_opened >= Timeout
    /\ ChangeState("HALF_OPEN")
    /\ half_open_calls' = half_open_calls + 1
    /\ running' = running \cup {c}
    /\ probes' = {c}
    /\ trial_successes' = 0
    /\ UNCHANGED <<since_opened, consecutive_failures, consecutive_successes,
                   recent_calls, healthy>>

\* Faulty variant: the timeout is not consulted.
AdmitWhenOpen(c) ==
    /\ c \notin running
    /\ state = "OPEN"
    /\ since_opened # Never
    /\ ChangeState("HALF_OPEN")
    /\ half_open_calls' = 1
    /\ running' = running \cup {c}
    /\ probes' = {c}
    /\ trial_successes' = 0
    /\ UNCHANGED <<since_opened, consecutive_failures, consecutive_successes,
                   recent_calls, healthy>>

\* The first call after the timeout moves the circuit to half-open and is
\* itself counted, by call(), as the first probe.
AdmitAfterTimeout(c) ==
    /\ c \notin running
    /\ state = "OPEN"
    /\ since_opened # Never
    /\ since_opened >= Timeout
    /\ ChangeState("HALF_OPEN")
    /\ half_open_calls' = 1
    /\ running' = running \cup {c}
    /\ probes' = {c}
    /\ trial_successes' = 0
    /\ UNCHANGED <<since_opened, consecutive_failures, consecutive_successes,
                   recent_calls, healthy>>

\* Faulty variants: one probe too many, and a probe that is not counted.
AdmitOneMore(c) ==
    /\ c \notin running
    /\ state = "HALF_OPEN"
    /\ half_open_calls <= HalfOpenMaxCalls
    /\ half_open_calls' = half_open_calls + 1
    /\ running' = running \cup {c}
    /\ probes' = probes \cup {c}
    /\ UNCHANGED <<state, since_opened, consecutive_failures,
                   consecutive_successes, recent_calls, metrics_state,
                   healthy, trial_successes>>

AdmitUncounted(c) ==
    /\ c \notin running
    /\ state = "HALF_OPEN"
    /\ half_open_calls < HalfOpenMaxCalls
    /\ running' = running \cup {c}
    /\ probes' = probes \cup {c}
    /\ UNCHANGED <<breaker, healthy, trial_successes>>

AdmitProbe(c) ==
    /\ c \notin running
    /\ state = "HALF_OPEN"
    /\ half_open_calls < HalfOpenMaxCalls
    /\ half_open_calls' = half_open_calls + 1
    /\ running' = running \cup {c}
    /\ probes' = probes \cup {c}
    /\ UNCHANGED <<state, since_opened, consecutive_failures,
                   consecutive_successes, recent_calls, metrics_state,
                   healthy, trial_successes>>

Admit(c) == AdmitClosed(c) \/ AdmitAfterTimeout(c) \/ AdmitProbe(c)

-------------------------------------------------------------------------------
(* Recording: the locked block in call()'s finally clause, _record_call(). *)

\* Faulty variant: a window without a bound.
RememberAll(outcome) == Append(recent_calls, outcome)

\* deque(maxlen=window_size): the oldest outcome falls out of a full window.
Remember(outcome) ==
    IF Len(recent_calls) < WindowSize
    THEN Append(recent_calls, outcome)
    ELSE Append(Tail(recent_calls), outcome)

\* _calculate_recent_error_rate() >= error_rate_threshold, without division.
RateExceeded(window) ==
    LET failures == Cardinality({i \in DOMAIN window : ~window[i]})
    IN  /\ window # <<>>
        /\ failures * RateDen >= RateNum * Len(window)

RecordSuccess(c) ==
    /\ c \in running
    /\ healthy
    /\ consecutive_failures' = 0
    /\ consecutive_successes' = Capped(consecutive_successes + 1, SuccessThreshold)
    /\ recent_calls' = Remember(TRUE)
    /\ running' = running \ {c}
    /\ IF state = "HALF_OPEN" /\ consecutive_successes' >= SuccessThreshold
       THEN /\ ChangeState("CLOSED")
            /\ probes' = {}
            /\ trial_successes' = 0
       ELSE /\ UNCHANGED <<state, metrics_state>>
            /\ probes' = probes \ {c}
            /\ trial_successes' = IF state = "HALF_OPEN" THEN trial_successes + 1
                                                         ELSE trial_successes
    /\ UNCHANGED <<since_opened, half_open_calls, healthy>>

\* Faulty variant: a failed probe does not reopen the circuit.
OpensWhenClosed(failures, window) ==
    /\ state = "CLOSED"
    /\ failures >= FailureThreshold \/ RateExceeded(window)

\* Whether a failure opens the circuit, given the failures in a row and the window.
ShouldOpen(failures, window) ==
    \/ state = "HALF_OPEN"
    \/ /\ state = "CLOSED"
       /\ failures >= FailureThreshold \/ RateExceeded(window)

\* The function raised or its task was cancelled: either way success is False.
RecordFailure(c) ==
    /\ c \in running
    /\ ~healthy
    /\ consecutive_successes' = 0
    /\ consecutive_failures' = Capped(consecutive_failures + 1, FailureThreshold)
    /\ recent_calls' = Remember(FALSE)
    /\ running' = running \ {c}
    /\ IF ShouldOpen(consecutive_failures', recent_calls')
       THEN /\ ChangeState("OPEN")
            /\ since_opened' = 0
            /\ probes' = {}
            /\ trial_successes' = 0
       ELSE /\ UNCHANGED <<state, metrics_state, since_opened, trial_successes>>
            /\ probes' = probes \ {c}
    /\ UNCHANGED <<half_open_calls, healthy>>

Record(c) == RecordSuccess(c) \/ RecordFailure(c)

-------------------------------------------------------------------------------
\* Faulty variant: opened_at is cleared and the state forgotten.
ResetKeepingState ==
    /\ Resets
    /\ since_opened' = Never
    /\ half_open_calls' = 0
    /\ consecutive_failures' = 0
    /\ consecutive_successes' = 0
    /\ UNCHANGED <<state, recent_calls, metrics_state, running, healthy, probes,
                   trial_successes>>

\* reset() is synchronous: it runs between two steps of the tasks, takes no
\* lock, and leaves recent_calls and metrics.current_state as they were.
Reset ==
    /\ Resets
    /\ state' = "CLOSED"
    /\ since_opened' = Never
    /\ half_open_calls' = 0
    /\ consecutive_failures' = 0
    /\ consecutive_successes' = 0
    /\ probes' = {}
    /\ trial_successes' = 0
    /\ UNCHANGED <<recent_calls, metrics_state, running, healthy>>

\* External: time passes.
Tick ==
    /\ since_opened # Never
    /\ since_opened < Timeout
    /\ since_opened' = since_opened + 1
    /\ UNCHANGED <<state, half_open_calls, consecutive_failures,
                   consecutive_successes, recent_calls, metrics_state, running,
                   healthy, probes, trial_successes>>

\* External: the protected service goes down or comes back.
ServiceFlips ==
    /\ healthy' = ~healthy
    /\ UNCHANGED <<breaker, running, probes, trial_successes>>

Next ==
    \/ \E c \in Calls : Admit(c) \/ Record(c)
    \/ Reset
    \/ Tick
    \/ ServiceFlips

Spec == Init /\ [][Next]_vars

\* Every admitted call returns (the finally clause runs), time passes, and the
\* program keeps calling the service.
Fairness ==
    /\ \A c \in Calls : WF_vars(Record(c))
    /\ WF_vars(Tick)
    /\ WF_vars(\E c \in Calls : Admit(c))

FairSpec == Spec /\ Fairness

-------------------------------------------------------------------------------
(* Properties *)

\* Type correctness of the breaker's fields and of the history variables.
TypeOK ==
    /\ state \in CircuitStates
    /\ metrics_state \in CircuitStates
    /\ since_opened \in {Never} \cup (0..Timeout)
    /\ half_open_calls \in 0..HalfOpenMaxCalls
    /\ consecutive_failures \in 0..FailureThreshold
    /\ consecutive_successes \in 0..SuccessThreshold
    /\ recent_calls \in Seq(BOOLEAN)
    /\ Len(recent_calls) <= WindowSize
    /\ running \in SUBSET Calls
    /\ healthy \in BOOLEAN
    /\ probes \in SUBSET running
    /\ trial_successes \in Nat

\* The accounts of a trial.  Every call counted in half_open_calls either still
\* runs or succeeded during this half-open episode; the successes seen so far are
\* all in consecutive_successes and fewer than would have closed the circuit.
TrialAccounting ==
    /\ Cardinality(probes) <= half_open_calls
    /\ state # "HALF_OPEN" => probes = {} /\ trial_successes = 0
    /\ state = "HALF_OPEN" =>
         /\ half_open_calls >= 1
         /\ half_open_calls <= trial_successes + Cardinality(probes)
         /\ trial_successes > 0 => /\ trial_successes <= consecutive_successes
                                   /\ consecutive_successes < SuccessThreshold

\* The service under test is never hit by more probes of the current trial than
\* the configuration allows (half_open_max_calls), whatever calls of earlier
\* episodes are still running.
ProbesBounded == Cardinality(probes) <= HalfOpenMaxCalls

\* A half-open circuit can always leave that state: it will still admit a call,
\* or the outcome of a probe is yet to come.  Without this it would reject every
\* call for ever, because nothing but an outcome or reset() ends HALF_OPEN.
NotWedged ==
    state = "HALF_OPEN" => half_open_calls < HalfOpenMaxCalls \/ probes # {}

\* An open circuit knows when it opened: with opened_at = None,
\* _can_attempt_call() would reject for ever.
OpenHasDeadline == state = "OPEN" => since_opened # Never

\* The breaker implements the gate: nothing passes before the timeout of the
\* latest trip is over, and a trial admits at most half_open_max_calls.
Gate == INSTANCE BreakerGate WITH
    MaxTrial <- HalfOpenMaxCalls,
    gate <- state,
    waited <- since_opened,
    admitted <- half_open_calls

GateSpec == Gate!Spec

\* "Automatic circuit closing on success": once the service stays up and the
\* operator leaves the circuit alone, the circuit closes and stays closed.
ClosesAfterRecovery == <>[]healthy => <>[](state = "CLOSED")

-------------------------------------------------------------------------------
(* What a comment of circuit_breaker.py says and the code does not do. *)

\* "success_threshold: Successes to close from half-open": an outcome closes the
\* circuit only when the half-open episode saw that many successes.
ClosesOnTrialSuccesses ==
    [][state = "HALF_OPEN" /\ state' = "CLOSED" /\ running' # running
         => trial_successes + 1 >= SuccessThreshold]_vars
===============================================================================
