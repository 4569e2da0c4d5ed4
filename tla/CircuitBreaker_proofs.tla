------------------------ MODULE CircuitBreaker_proofs ------------------------
(***************************************************************************)
(* Proofs about CircuitBreaker for every set of calls and every            *)
(* configuration that satisfies its assumptions.  The inductive invariant  *)
(* is IInv: the types, the accounts of a trial, and the deadline of an     *)
(* open circuit.  The trial bound and the absence of a wedged half-open    *)
(* state follow from the accounts.                                         *)
(***************************************************************************)
EXTENDS CircuitBreaker, FiniteSetTheorems, TLAPS

IInv == TypeOK /\ TrialAccounting /\ OpenHasDeadline

-------------------------------------------------------------------------------
(* Lemmas about the helpers. *)

\* A saturating counter stays within its limit, and counts exactly below it.
LEMMA CappedFacts ==
    ASSUME NEW n \in Nat, NEW limit \in Nat
    PROVE  /\ Capped(n, limit) \in 0..limit
           /\ Capped(n, limit) < limit => Capped(n, limit) = n
  BY DEF Capped

\* The rolling window stays a sequence of outcomes of at most WindowSize.
LEMMA RememberFacts ==
    ASSUME recent_calls \in Seq(BOOLEAN), Len(recent_calls) <= WindowSize,
           NEW outcome \in BOOLEAN
    PROVE  /\ Remember(outcome) \in Seq(BOOLEAN)
           /\ Len(Remember(outcome)) <= WindowSize
<1>1. WindowSize \in Nat \ {0}
  BY ConfigAssumption
<1>2. CASE Len(recent_calls) < WindowSize
  <2>1. Remember(outcome) = Append(recent_calls, outcome)
    BY <1>2 DEF Remember
  <2> QED
    BY <1>1, <1>2, <2>1
<1>3. CASE ~(Len(recent_calls) < WindowSize)
  <2>1. Remember(outcome) = Append(Tail(recent_calls), outcome)
    BY <1>3 DEF Remember
  <2>2. Len(recent_calls) = WindowSize /\ recent_calls # <<>>
    BY <1>1, <1>3
  <2>3. Tail(recent_calls) \in Seq(BOOLEAN) /\ Len(Tail(recent_calls)) = WindowSize - 1
    BY <1>1, <2>2
  <2> QED
    BY <1>1, <2>1, <2>3
<1> QED
  BY <1>2, <1>3

\* Probes are finitely many, and are counted one by one as they come and go.
LEMMA ProbeCount ==
    ASSUME NEW P \in SUBSET Calls, NEW c
    PROVE  /\ Cardinality(P) \in Nat
           /\ Cardinality(P) = 0 <=> P = {}
           /\ Cardinality({}) = 0
           /\ Cardinality({c}) = 1
           /\ c \notin P => Cardinality(P \cup {c}) = Cardinality(P) + 1
           /\ Cardinality(P \ {c}) = IF c \in P THEN Cardinality(P) - 1
                                                ELSE Cardinality(P)
<1>1. IsFiniteSet(P)
  BY ConfigAssumption, FS_Subset
<1>2. Cardinality({}) = 0 /\ IsFiniteSet({})
  BY FS_EmptySet
<1>3. Cardinality({c}) = 1
  <2>1. Cardinality({} \cup {c}) = 0 + 1
    BY <1>2, FS_AddElement
  <2> QED
    BY <2>1
<1> QED
  BY <1>1, <1>2, <1>3, FS_CardinalityType, FS_EmptySet, FS_AddElement, FS_RemoveElement

-------------------------------------------------------------------------------
(* The inductive invariant. *)

LEMMA InitInv == Init => IInv
<1> SUFFICES ASSUME Init PROVE IInv
  OBVIOUS
<1>1. TypeOK
  BY ConfigAssumption DEF Init, TypeOK, CircuitStates, Never
<1>2. TrialAccounting
  BY FS_EmptySet DEF Init, TrialAccounting
<1>3. OpenHasDeadline
  BY DEF Init, OpenHasDeadline
<1> QED
  BY <1>1, <1>2, <1>3 DEF IInv

\* Admitting a call, or turning it away, keeps the invariant.
LEMMA AdmitInv ==
    ASSUME IInv, NEW c \in Calls, Admit(c)
    PROVE  IInv'
<1> USE ConfigAssumption DEF IInv, TypeOK, CircuitStates, Never
<1>0. c \notin probes
  BY DEF Admit, AdmitClosed, AdmitAfterTimeout, AdmitProbe
<1>1. CASE AdmitClosed(c)
  BY <1>1 DEF AdmitClosed, breaker, TrialAccounting, OpenHasDeadline
<1>2. CASE AdmitAfterTimeout(c)
  <2>1. TypeOK'
    BY <1>2 DEF AdmitAfterTimeout, ChangeState
  <2>2. TrialAccounting'
    BY <1>2, ProbeCount DEF AdmitAfterTimeout, ChangeState, TrialAccounting
  <2>3. OpenHasDeadline'
    BY <1>2 DEF AdmitAfterTimeout, ChangeState, OpenHasDeadline
  <2> QED
    BY <2>1, <2>2, <2>3
<1>3. CASE AdmitProbe(c)
  <2>1. TypeOK'
    BY <1>3 DEF AdmitProbe
  <2>2. Cardinality(probes') = Cardinality(probes) + 1 /\ Cardinality(probes) \in Nat
    BY <1>0, <1>3, ProbeCount DEF AdmitProbe
  <2>3. TrialAccounting'
    BY <1>3, <2>2 DEF AdmitProbe, TrialAccounting
  <2>4. OpenHasDeadline'
    BY <1>3 DEF AdmitProbe, OpenHasDeadline
  <2> QED
    BY <2>1, <2>3, <2>4
<1> QED
  BY <1>1, <1>2, <1>3 DEF Admit

\* A success that is recorded late or in time keeps the invariant.
LEMMA RecordSuccessInv ==
    ASSUME IInv, NEW c \in Calls, RecordSuccess(c)
    PROVE  IInv'
<1> USE ConfigAssumption DEF IInv, TypeOK, CircuitStates, Never
<1> DEFINE closes == state = "HALF_OPEN" /\ consecutive_successes' >= SuccessThreshold
<1>0. /\ running' = running \ {c} /\ consecutive_failures' = 0
      /\ UNCHANGED <<since_opened, half_open_calls, healthy>>
  BY DEF RecordSuccess
<1>1. /\ consecutive_successes' \in 0..SuccessThreshold
      /\ consecutive_successes' < SuccessThreshold
           => consecutive_successes' = consecutive_successes + 1
  BY CappedFacts DEF RecordSuccess
<1>2. recent_calls' \in Seq(BOOLEAN) /\ Len(recent_calls') <= WindowSize
  BY RememberFacts DEF RecordSuccess
<1>3. probes \in SUBSET Calls /\ probes \ {c} \in SUBSET Calls
  OBVIOUS
<1>4. CASE closes
  <2>1. /\ state' = "CLOSED" /\ metrics_state' = "CLOSED"
        /\ probes' = {} /\ trial_successes' = 0
    BY <1>4 DEF RecordSuccess, ChangeState
  <2>2. TypeOK'
    BY <1>0, <1>1, <1>2, <2>1
  <2>3. TrialAccounting' /\ OpenHasDeadline'
    BY <1>0, <2>1, FS_EmptySet DEF TrialAccounting, OpenHasDeadline
  <2> QED
    BY <2>2, <2>3
<1>5. CASE ~closes
  <2>1. /\ UNCHANGED <<state, metrics_state, since_opened, half_open_calls>>
        /\ probes' = probes \ {c}
        /\ trial_successes' = IF state = "HALF_OPEN" THEN trial_successes + 1
                                                     ELSE trial_successes
    BY <1>5 DEF RecordSuccess
  <2>2. TypeOK'
    BY <1>0, <1>1, <1>2, <2>1
  <2>3. /\ Cardinality(probes) \in Nat
        /\ Cardinality(probes') \in Nat
        /\ Cardinality(probes) - 1 <= Cardinality(probes')
        /\ Cardinality(probes') <= Cardinality(probes)
    <3>1. /\ Cardinality(probes) \in Nat
          /\ Cardinality(probes \ {c}) \in Nat
          /\ Cardinality(probes \ {c}) = IF c \in probes THEN Cardinality(probes) - 1
                                                        ELSE Cardinality(probes)
      BY <1>3, ProbeCount
    <3> QED
      BY <2>1, <3>1
  <2>4. TrialAccounting'
    <3>1. CASE state = "HALF_OPEN"
      <4>1. /\ consecutive_successes' = consecutive_successes + 1
            /\ consecutive_successes' < SuccessThreshold
        BY <1>1, <1>5, <3>1
      <4> QED
        BY <2>1, <2>3, <3>1, <4>1 DEF TrialAccounting
    <3>2. CASE state # "HALF_OPEN"
      BY <2>1, <2>3, <3>2 DEF TrialAccounting
    <3> QED
      BY <3>1, <3>2
  <2>5. OpenHasDeadline'
    BY <2>1 DEF OpenHasDeadline
  <2> QED
    BY <2>2, <2>4, <2>5
<1> QED
  BY <1>4, <1>5

\* So does a failure, whatever state the breaker has reached meanwhile.
LEMMA RecordFailureInv ==
    ASSUME IInv, NEW c \in Calls, RecordFailure(c)
    PROVE  IInv'
<1> USE ConfigAssumption DEF IInv, TypeOK, CircuitStates, Never
<1> DEFINE opens == ShouldOpen(consecutive_failures', recent_calls')
<1>0. /\ running' = running \ {c}
      /\ UNCHANGED <<half_open_calls, healthy>>
  BY DEF RecordFailure
<1>1. consecutive_failures' \in 0..FailureThreshold /\ consecutive_successes' = 0
  BY CappedFacts DEF RecordFailure
<1>2. recent_calls' \in Seq(BOOLEAN) /\ Len(recent_calls') <= WindowSize
  BY RememberFacts DEF RecordFailure
<1>3. CASE opens
  <2>1. /\ state' = "OPEN" /\ metrics_state' = "OPEN" /\ since_opened' = 0
        /\ probes' = {} /\ trial_successes' = 0
    BY <1>3 DEF RecordFailure, ChangeState
  <2>2. TypeOK'
    BY <1>0, <1>1, <1>2, <2>1
  <2>3. TrialAccounting' /\ OpenHasDeadline'
    BY <1>0, <2>1, FS_EmptySet DEF TrialAccounting, OpenHasDeadline
  <2> QED
    BY <2>2, <2>3
<1>4. CASE ~opens
  <2>1. /\ UNCHANGED <<state, metrics_state, since_opened, half_open_calls,
                       trial_successes>>
        /\ probes' = probes \ {c}
        /\ state # "HALF_OPEN"
    BY <1>4 DEF RecordFailure, ShouldOpen
  <2>2. TypeOK'
    BY <1>0, <1>1, <1>2, <2>1
  <2>3. TrialAccounting'
    <3>1. probes = {} /\ probes' = {}
      BY <2>1 DEF TrialAccounting
    <3> QED
      BY <2>1, <3>1, FS_EmptySet DEF TrialAccounting
  <2>4. OpenHasDeadline'
    BY <2>1 DEF OpenHasDeadline
  <2> QED
    BY <2>2, <2>3, <2>4
<1> QED
  BY <1>3, <1>4

\* The invariant is inductive.
LEMMA NextInv == IInv /\ [Next]_vars => IInv'
<1> SUFFICES ASSUME IInv, [Next]_vars PROVE IInv'
  OBVIOUS
<1> USE ConfigAssumption DEF IInv, TypeOK, CircuitStates, Never
<1>1. ASSUME NEW c \in Calls, Admit(c) PROVE IInv'
  BY <1>1, AdmitInv
<1>2. ASSUME NEW c \in Calls, Record(c) PROVE IInv'
  BY <1>2, RecordSuccessInv, RecordFailureInv DEF Record
<1>3. CASE Reset
  <2>1. TypeOK'
    BY <1>3 DEF Reset
  <2>2. TrialAccounting'
    BY <1>3, FS_EmptySet DEF Reset, TrialAccounting
  <2>3. OpenHasDeadline'
    BY <1>3 DEF Reset, OpenHasDeadline
  <2> QED
    BY <2>1, <2>2, <2>3
<1>4. CASE Tick
  BY <1>4 DEF Tick, TrialAccounting, OpenHasDeadline
<1>5. CASE ServiceFlips
  BY <1>5 DEF ServiceFlips, breaker, TrialAccounting, OpenHasDeadline
<1>6. CASE UNCHANGED vars
  BY <1>6 DEF vars, TrialAccounting, OpenHasDeadline
<1> QED
  BY <1>1, <1>2, <1>3, <1>4, <1>5, <1>6 DEF Next

-------------------------------------------------------------------------------
(* The theorems. *)

\* Every reachable state satisfies the inductive invariant.
THEOREM Invariance == Spec => []IInv
  BY InitInv, NextInv, PTL DEF Spec

\* The fields of the breaker keep their types: the window is never longer than
\* window_size and half_open_calls never exceeds half_open_max_calls.
THEOREM TypeCorrect == Spec => []TypeOK
<1>1. IInv => TypeOK
  BY DEF IInv
<1> QED
  BY <1>1, Invariance, PTL

\* Every call a trial counted still runs or succeeded.
THEOREM TrialsAccounted == Spec => []TrialAccounting
<1>1. IInv => TrialAccounting
  BY DEF IInv
<1> QED
  BY <1>1, Invariance, PTL

\* The service never sees more than half_open_max_calls probes of one trial.
THEOREM ProbesAreBounded == Spec => []ProbesBounded
<1>1. IInv => ProbesBounded
  <2> SUFFICES ASSUME IInv PROVE ProbesBounded
    OBVIOUS
  <2>1. Cardinality(probes) \in Nat
    BY ProbeCount DEF IInv, TypeOK
  <2> QED
    BY <2>1, ConfigAssumption DEF IInv, TypeOK, TrialAccounting, ProbesBounded
<1> QED
  BY <1>1, Invariance, PTL

\* A half-open circuit is never stuck: it admits a call or awaits an outcome.
THEOREM NeverWedged == Spec => []NotWedged
<1>1. IInv => NotWedged
  <2> SUFFICES ASSUME IInv, state = "HALF_OPEN", probes = {}
               PROVE  half_open_calls < HalfOpenMaxCalls
    BY DEF NotWedged
  <2>1. half_open_calls <= trial_successes /\ trial_successes > 0
    BY FS_EmptySet, ConfigAssumption DEF IInv, TypeOK, TrialAccounting
  <2>2. half_open_calls < SuccessThreshold
    BY <2>1, ConfigAssumption DEF IInv, TypeOK, TrialAccounting
  <2> QED
    BY <2>2, ConfigAssumption, TrialAssumption DEF IInv, TypeOK
<1> QED
  BY <1>1, Invariance, PTL

\* An open circuit always has the time it opened at, so that it can end.
THEOREM OpenEnds == Spec => []OpenHasDeadline
<1>1. IInv => OpenHasDeadline
  BY DEF IInv
<1> QED
  BY <1>1, Invariance, PTL

-------------------------------------------------------------------------------
(* The breaker implements the gate. *)

LEMMA GateInit == Init => Gate!Init
  BY DEF Init, Gate!Init, Never, Gate!NotTripped

\* A step of the breaker is one of the gate, or leaves the gate as it is.
LEMMA GateStep == IInv /\ [Next]_vars => [Gate!Next]_Gate!gvars
<1> SUFFICES ASSUME IInv, [Next]_vars
             PROVE  Gate!Next \/ UNCHANGED <<state, since_opened, half_open_calls>>
  BY DEF Gate!gvars
<1> USE ConfigAssumption DEF IInv, TypeOK, CircuitStates, Never, Gate!NotTripped
<1>1. ASSUME NEW c \in Calls, Admit(c)
      PROVE  Gate!BeginTrial \/ Gate!AdmitTrial
             \/ UNCHANGED <<state, since_opened, half_open_calls>>
  <2>1. CASE AdmitClosed(c)
    BY <2>1 DEF AdmitClosed, breaker
  <2>2. CASE AdmitAfterTimeout(c)
    BY <2>2 DEF AdmitAfterTimeout, ChangeState, Gate!BeginTrial
  <2>3. CASE AdmitProbe(c)
    BY <2>3 DEF AdmitProbe, Gate!AdmitTrial
  <2> QED
    BY <1>1, <2>1, <2>2, <2>3 DEF Admit
<1>2. ASSUME NEW c \in Calls, Record(c)
      PROVE  Gate!Close \/ Gate!Trip
             \/ UNCHANGED <<state, since_opened, half_open_calls>>
  <2>1. CASE RecordSuccess(c)
    BY <2>1 DEF RecordSuccess, ChangeState, Gate!Close
  <2>2. CASE RecordFailure(c)
    BY <2>2 DEF RecordFailure, ShouldOpen, ChangeState, Gate!Trip
  <2> QED
    BY <1>2, <2>1, <2>2 DEF Record
<1>3. CASE Reset
  BY <1>3 DEF Reset, Gate!Reset, Gate!Next
<1>4. CASE Tick
  BY <1>4 DEF Tick, Gate!Elapse, Gate!Next
<1>5. CASE ServiceFlips
  BY <1>5 DEF ServiceFlips, breaker
<1>6. CASE UNCHANGED vars
  BY <1>6 DEF vars
<1> QED
  BY <1>1, <1>2, <1>3, <1>4, <1>5, <1>6 DEF Next, Gate!Next

\* After a trip nothing reaches the service for a full timeout, and then a trial
\* of at most half_open_max_calls decides: CircuitBreaker implements BreakerGate.
THEOREM ImplementsGate == Spec => GateSpec
  BY GateInit, GateStep, Invariance, PTL DEF Spec, GateSpec, Gate!Spec
===============================================================================
