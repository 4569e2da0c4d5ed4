-------------------------------- MODULE CrmSync --------------------------------
(***************************************************************************)
(* One lead in the CRM: agents/outreach/crm_sync_agent.py.                 *)
(*                                                                         *)
(* The handlers of the event bus run in the threads that publish, so they  *)
(* overlap: each reads the lead and then writes what it decided.  Events   *)
(* of a lead the database does not have are buffered or discarded.  An     *)
(* error is logged and rolled back.  The timeline is left out.             *)
(***************************************************************************)
EXTENDS Integers, FiniteSets, Sequences

CONSTANTS
    Events,       \* events that may be published
    MaxBuffer,    \* _MAX_BUFFER
    MaxCrmFaults  \* how many writes may fail

EventKinds == {"discovered", "enrolled", "interested", "not_interested", "completed"}

VARIABLES
    lead,         \* Lead.status, "none" without a row
    buffer,       \* number of enrolments in _pending_buffer
    crm_tickets,  \* tickets created for the qualified lead
    kind,         \* of each event: what it says
    crm,          \* of each event: where its handler is
    replays,      \* of each discovery: buffered events it still has to handle
    crm_faults,
    crm_rows      \* history: events whose write was committed

crmvars == <<lead, buffer, crm_tickets, kind, crm, replays, crm_faults, crm_rows>>

CrmInit ==
    /\ lead = "none"
    /\ buffer = 0
    /\ crm_tickets = 0
    /\ kind = [e \in Events |-> "discovered"]
    /\ crm = [e \in Events |-> "none"]
    /\ replays = [e \in Events |-> 0]
    /\ crm_faults = MaxCrmFaults
    /\ crm_rows = {}

Crm(e, next) == crm' = [crm EXCEPT ![e] = next]

\* Of the events of an unknown lead an enrolment is buffered.
Buffers(e) == crm[e] = "unknown" /\ kind[e] = "enrolled"

CrmFails(e) ==
    /\ crm[e] \in {"known", "unknown"} /\ crm_faults > 0
    /\ ~Buffers(e)
    /\ crm_faults' = crm_faults - 1
    /\ Crm(e, "done")
    /\ UNCHANGED <<lead, buffer, crm_tickets, kind, replays, crm_rows>>

\* A handler is called and queries the lead.  A reply or an end of a sequence is
\* discarded when there is none.
HandleEvent(e) ==
    /\ crm[e] = "none"
    /\ \E k \in EventKinds : kind' = [kind EXCEPT ![e] = k]
    /\ Crm(e, IF lead # "none" THEN "known"
              ELSE IF kind'[e] \in {"discovered", "enrolled"} THEN "unknown" ELSE "done")
    /\ UNCHANGED <<lead, buffer, crm_tickets, replays, crm_faults, crm_rows>>

\* handle_prospect_discovered inserts the row if it found none, which fails if
\* another discovery did so meanwhile; then it takes the buffer.
HandleProspectDiscovered(e) ==
    /\ crm[e] \in {"known", "unknown"} /\ kind[e] = "discovered"
    /\ IF crm[e] = "unknown" /\ lead # "none"
       THEN Crm(e, "done") /\ UNCHANGED <<lead, crm_rows>>
       ELSE /\ lead' = IF lead = "none" THEN "NEW" ELSE lead
            /\ crm_rows' = crm_rows \cup {e}
            /\ Crm(e, "replay")
    /\ UNCHANGED <<buffer, crm_tickets, kind, replays, crm_faults>>

PopBuffer(e) ==
    /\ crm[e] = "replay" /\ replays[e] = 0
    /\ replays' = [replays EXCEPT ![e] = buffer]
    /\ buffer' = 0
    /\ Crm(e, IF buffer = 0 THEN "done" ELSE "replaying")
    /\ UNCHANGED <<lead, crm_tickets, kind, crm_faults, crm_rows>>

Replay(e) ==
    /\ crm[e] = "replaying"
    /\ replays' = [replays EXCEPT ![e] = @ - 1]
    /\ \/ lead' = "CONTACTED" /\ UNCHANGED crm_faults
       \/ crm_faults > 0 /\ crm_faults' = crm_faults - 1 /\ UNCHANGED lead
    /\ Crm(e, IF replays[e] = 1 THEN "done" ELSE "replaying")
    /\ UNCHANGED <<buffer, crm_tickets, kind, crm_rows>>

\* handle_sequence_enrolled, of a lead that has a row.
HandleSequenceEnrolled(e) ==
    /\ crm[e] = "known" /\ kind[e] = "enrolled"
    /\ lead' = "CONTACTED"
    /\ Crm(e, "done")
    /\ crm_rows' = crm_rows \cup {e}
    /\ UNCHANGED <<buffer, crm_tickets, kind, replays, crm_faults>>

\* The lead had no row when it was queried; a full buffer drops the event.
BufferEvent(e) ==
    /\ Buffers(e)
    /\ buffer' = IF buffer < MaxBuffer THEN buffer + 1 ELSE buffer
    /\ Crm(e, "done")
    /\ UNCHANGED <<lead, crm_tickets, kind, replays, crm_faults, crm_rows>>

\* Faulty variant: two commits, of which the second may fail.
HandleReplyApart(e) ==
    /\ crm[e] = "known" /\ kind[e] \in {"interested", "not_interested"}
    /\ IF kind[e] = "interested"
       THEN lead' = "QUALIFIED" /\ crm_tickets' \in {crm_tickets, crm_tickets + 1}
       ELSE lead' = "COLD_REJECTED" /\ UNCHANGED crm_tickets
    /\ Crm(e, "done")
    /\ crm_rows' = crm_rows \cup {e}
    /\ UNCHANGED <<buffer, kind, replays, crm_faults>>

\* handle_reply_received: create_ticket commits the lead's status with the ticket.
HandleReplyReceived(e) ==
    /\ crm[e] = "known" /\ kind[e] \in {"interested", "not_interested"}
    /\ IF kind[e] = "interested"
       THEN lead' = "QUALIFIED" /\ crm_tickets' = crm_tickets + 1
       ELSE lead' = "COLD_REJECTED" /\ UNCHANGED crm_tickets
    /\ Crm(e, "done")
    /\ crm_rows' = crm_rows \cup {e}
    /\ UNCHANGED <<buffer, kind, replays, crm_faults>>

HandleSequenceCompleted(e) ==
    /\ crm[e] = "known" /\ kind[e] = "completed"
    /\ lead' = "COLD"
    /\ Crm(e, "done")
    /\ crm_rows' = crm_rows \cup {e}
    /\ UNCHANGED <<buffer, crm_tickets, kind, replays, crm_faults>>

CrmNext ==
    \E e \in Events :
        \/ HandleEvent(e) \/ CrmFails(e) \/ HandleProspectDiscovered(e) \/ PopBuffer(e)
        \/ Replay(e) \/ HandleSequenceEnrolled(e) \/ BufferEvent(e)
        \/ HandleReplyReceived(e) \/ HandleSequenceCompleted(e)

-------------------------------------------------------------------------------
(* Properties. *)

\* The lead's status and the sales ticket stand and fall together, whatever fails
\* and however handlers overlap: each committed reply of interest has its ticket.
QualifiedHasTicket ==
    /\ lead = "QUALIFIED" => crm_tickets > 0
    /\ crm_tickets = Cardinality({e \in crm_rows : kind[e] = "interested"})

\* A lead is known to be more than new once an event about it was written, although
\* discoveries repeat and come late.
NeverNewAgain ==
    lead = "NEW" => \A e \in crm_rows : kind[e] = "discovered"
===============================================================================
