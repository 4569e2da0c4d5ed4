------------------------------- MODULE RateLimiter -------------------------------
(***************************************************************************)
(* RateLimitMiddleware of backend/auth/middleware.py: a count per client   *)
(* and the start of its window.  Requests are forwarded after they were    *)
(* counted, so a dispatch is one step.                                     *)
(***************************************************************************)
EXTENDS Integers, FiniteSets, Sequences

CONSTANTS
    Clients,            \* addresses requests come from
    RequestsPerMinute,  \* the limit
    Minute,             \* length of a window, in ticks
    MaxTime             \* when the model ends

ASSUME RateAssumption == RequestsPerMinute \in Nat \ {0} /\ Minute \in Nat \ {0}

VARIABLES
    request_counts,     \* of each client <<count, start>>, or <<>> without an entry
    accepted,           \* history: of each client the times of forwarded requests
    time

ratevars == <<request_counts, accepted, time>>

RateInit ==
    /\ request_counts = [c \in Clients |-> <<>>]
    /\ accepted = [c \in Clients |-> <<>>]
    /\ time = 0

\* Every request first drops the entries whose window is over.
Expired(entry) == entry # <<>> /\ time - entry[2] >= Minute
Current == [c \in Clients |-> IF Expired(request_counts[c]) THEN <<>> ELSE request_counts[c]]

\* Faulty variant: one request more than the limit.
RefusedAbove(c) == Current[c] # <<>> /\ Current[c][1] > RequestsPerMinute

Refused(c) == Current[c] # <<>> /\ Current[c][1] >= RequestsPerMinute

\* The else branch that restarts a window in place is never reached.
Dispatch429(c) ==
    /\ Refused(c)
    /\ request_counts' = Current
    /\ UNCHANGED <<accepted, time>>

DispatchForward(c) ==
    /\ ~Refused(c)
    /\ request_counts' = [Current EXCEPT ![c] = IF @ = <<>> THEN <<1, time>> ELSE <<@[1] + 1, @[2]>>]
    /\ accepted' = [accepted EXCEPT ![c] = Append(@, time)]
    /\ UNCHANGED time

RateTick == time < MaxTime /\ time' = time + 1 /\ UNCHANGED <<request_counts, accepted>>

RateNext == (\E c \in Clients : Dispatch429(c) \/ DispatchForward(c)) \/ RateTick

RateSpec == RateInit /\ [][RateNext]_ratevars

-------------------------------------------------------------------------------

AcceptedIn(c, from) ==
    Cardinality({i \in DOMAIN accepted[c] : accepted[c][i] \in from..(from + Minute - 1)})

\* A client is limited per window, and windows follow its requests: over any minute
\* at all, two windows can meet, and it is served less than twice the limit.
MinuteBounded ==
    \A c \in Clients, from \in 0..time : AcceptedIn(c, from) < 2 * RequestsPerMinute

\* Nobody is turned away for what others do, nor for longer than a minute: after a
\* minute without a forwarded request the next is forwarded.
QuietIsServed ==
    \A c \in Clients :
        AcceptedIn(c, time - Minute + 1) = 0 => ~Refused(c)

\* No minute sees twice the limit, and a quiet client is served.
LimitHolds == MinuteBounded /\ QuietIsServed
===============================================================================
