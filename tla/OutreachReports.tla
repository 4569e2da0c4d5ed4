----------------------------- MODULE OutreachReports -----------------------------
(***************************************************************************)
(* The report of one past day: agents/outreach/reporting_agent.py.  Each   *)
(* metric has a query of its own, and the enrolments it counts are those   *)
(* whose last update was on the day: an update since takes them out.       *)
(***************************************************************************)
EXTENDS Integers, FiniteSets

CONSTANTS
    Reports,       \* calls of generate_daily_report for the day
    Enrolments     \* enrolments

Metrics == {"prospects_discovered", "emails_sent", "open_rate", "reply_rate",
            "interested_count", "bounce_rate"}
Replied == {"replied", "replied_interested", "replied_uninterested"}
Absent == "absent"

ASSUME ReportsAssumption == Absent \notin Reports /\ IsFiniteSet(Enrolments)

VARIABLES
    enrolled,      \* of each enrolment the status it has since the day, or "later"
    sent,          \* of the mails of the day: [sent, tracked, opened]
    report,        \* of each call: [at, replied, interested, failed, missing]
    rows           \* of each metric the call whose value its row has, or Absent

reportvars == <<enrolled, sent, report, rows>>

ReportInit ==
    /\ enrolled \in [Enrolments -> {"replied", "replied_interested", "failed", "later"}]
    /\ sent \in {[sent |-> 0, tracked |-> 0, opened |-> 0], [sent |-> 2, tracked |-> 1, opened |-> 1]}
    /\ report = [r \in Reports |-> [at |-> "none", replied |-> 0, interested |-> 0,
                                    failed |-> 0, missing |-> {}]]
    /\ rows = [m \in Metrics |-> Absent]

Count(set) == Cardinality({e \in Enrolments : enrolled[e] \in set})

\* _compute_metrics, a query at a time: replies, the interested, bounces.  Without
\* mails of the day replies and bounces are not queried.
ComputeMetrics(r) ==
    /\ \/ /\ report[r].at = "none"
          /\ report' = [report EXCEPT ![r].at = "interested",
                          ![r].replied = IF sent.sent > 0 THEN Count(Replied) ELSE 0]
       \/ /\ report[r].at = "interested"
          /\ report' = [report EXCEPT ![r].at = "failed", ![r].interested = Count({"replied_interested"})]
       \/ /\ report[r].at = "failed"
          /\ report' = [report EXCEPT ![r].at = "upsert",
                          ![r].failed = IF sent.sent > 0 THEN Count({"failed"}) ELSE 0]
    /\ UNCHANGED <<enrolled, sent, rows>>

\* A rate without a denominator is null.
Value(r, m) ==
    CASE m = "reply_rate" -> IF sent.sent = 0 THEN <<>> ELSE <<report[r].replied, sent.sent>>
      [] m = "bounce_rate" -> IF sent.sent = 0 THEN <<>> ELSE <<report[r].failed, sent.sent>>
      [] m = "open_rate" -> IF sent.tracked = 0 THEN <<>> ELSE <<sent.opened, sent.tracked>>
      [] m = "interested_count" -> <<report[r].interested, 1>>

\* _upsert_metrics first looks for the rows of the day.
FindRows(r) ==
    /\ report[r].at = "upsert"
    /\ report' = [report EXCEPT ![r].at = "commit", ![r].missing = {m \in Metrics : rows[m] = Absent}]
    /\ UNCHANGED <<enrolled, sent, rows>>

\* One commit for all of them; a row made meanwhile breaks the unique key.
Conflict(r) == \E m \in report[r].missing : rows[m] # Absent

UpsertMetrics(r) ==
    /\ report[r].at = "commit" /\ ~Conflict(r)
    /\ rows' = [m \in Metrics |-> r]
    /\ report' = [report EXCEPT ![r].at = "done"]
    /\ UNCHANGED <<enrolled, sent>>

\* The exception goes to the caller, as does a database's failure.
ReportRaises(r) ==
    /\ report[r].at \in {"upsert", "commit"}
    /\ report' = [report EXCEPT ![r].at = "raised"]
    /\ UNCHANGED <<enrolled, sent, rows>>

\* Outreach goes on and takes an enrolment out of the day.
EnrolmentUpdated(e) ==
    /\ enrolled[e] # "later"
    /\ enrolled' = [enrolled EXCEPT ![e] = "later"]
    /\ UNCHANGED <<sent, report, rows>>

ReportNext ==
    \/ \E r \in Reports : ComputeMetrics(r) \/ FindRows(r) \/ UpsertMetrics(r) \/ ReportRaises(r)
    \/ \E e \in Enrolments : EnrolmentUpdated(e)

-------------------------------------------------------------------------------
(* Properties. *)

\* Reports of one day overlap and conflict, and enrolments leave the day while one
\* counts: the rows of the day are of one report, and it does not say that more
\* prospects are interested than replied.
DayIsOneReport ==
    /\ \A m, n \in Metrics : rows[m] = rows[n]
    /\ \A r \in Reports :
         rows["reply_rate"] = r /\ Value(r, "reply_rate") # <<>> =>
             Value(r, "interested_count")[1] <= Value(r, "reply_rate")[1]
===============================================================================
