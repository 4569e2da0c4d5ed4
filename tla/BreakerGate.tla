----------------------------- MODULE BreakerGate -----------------------------
(***************************************************************************)
(* What a circuit breaker promises to the service behind it, with every    *)
(* call, counter and error rate hidden.  Once tripped, the gate lets       *)
(* nothing through until a full timeout has passed since that trip; then   *)
(* it runs a trial that admits a bounded number of calls and ends in a     *)
(* close or in a new trip with a new timeout.  An operator may reset the   *)
(* gate at any time.  CircuitBreaker implements this specification.        *)
(***************************************************************************)
EXTENDS Integers

CONSTANTS
    Timeout,    \* clock ticks a tripped gate stays shut, a natural number
    MaxTrial    \* calls one trial may admit, at least one

VARIABLES
    gate,       \* "CLOSED" (all pass), "OPEN" (none pass) or "HALF_OPEN"
    waited,     \* ticks since the last trip, NotTripped after a reset
    admitted    \* calls admitted by the current (or last) trial

gvars == <<gate, waited, admitted>>

NotTripped == -1

Init ==
    /\ gate = "CLOSED"
    /\ waited = NotTripped
    /\ admitted = 0

Trip ==
    /\ gate \in {"CLOSED", "HALF_OPEN"}
    /\ gate' = "OPEN"
    /\ waited' = 0
    /\ UNCHANGED admitted

Elapse ==
    /\ waited \in 0..(Timeout - 1)
    /\ waited' = waited + 1
    /\ UNCHANGED <<gate, admitted>>

BeginTrial ==
    /\ gate = "OPEN"
    /\ waited = Timeout
    /\ gate' = "HALF_OPEN"
    /\ admitted' = 1
    /\ UNCHANGED waited

AdmitTrial ==
    /\ gate = "HALF_OPEN"
    /\ admitted < MaxTrial
    /\ admitted' = admitted + 1
    /\ UNCHANGED <<gate, waited>>

Close ==
    /\ gate = "HALF_OPEN"
    /\ gate' = "CLOSED"
    /\ UNCHANGED <<waited, admitted>>

Reset ==
    /\ gate' = "CLOSED"
    /\ waited' = NotTripped
    /\ admitted' = 0

Next == Trip \/ Elapse \/ BeginTrial \/ AdmitTrial \/ Close \/ Reset

Spec == Init /\ [][Next]_gvars
==============================================================================
