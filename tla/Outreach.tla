-------------------------------- MODULE Outreach --------------------------------
(***************************************************************************)
(* Outreach sequences and the replies to them:                             *)
(* agents/outreach/sequencer_agent.py and reply_handler_agent.py.          *)
(*                                                                         *)
(* A run of process_due_sequence_steps lists the active enrolments once    *)
(* and then sends, enrolment by enrolment, the step that is due.  A poll   *)
(* of check_inbox_replies lists the unseen messages once and handles them  *)
(* one by one.  Both are Celery tasks: executions overlap, die and repeat. *)
(* What a row says is read when a run comes to it, except that rows keep   *)
(* the values of the list until the run first commits.                     *)
(*                                                                         *)
(* Whether a step is due, how a reply is classified and which row a query  *)
(* without an order returns first are choices.  Texts are left out.  The   *)
(* number a search finds a message under is taken to be its own: nobody    *)
(* deletes mail from the mailbox meanwhile.                                *)
(***************************************************************************)
EXTENDS Integers, FiniteSets

CONSTANTS
    Leads, Sequences,
    NumSteps,        \* steps of a sequence, 1 to 10
    SendTries,       \* providers times retries: how often one send_email tries
    Senders,         \* executions of process_due_sequence_steps under way at once
    Pollers,         \* executions of check_inbox_replies under way at once
    Messages,        \* replies that may arrive; their UIDs
    OutreachFaults,  \* the faults this environment can produce
    MaxOutreachFaults

AllOutreachFaults == {"send", "db", "parse", "crash"}
Labels == {"interested", "not_interested", "auto_reply", "bounce"}

ASSUME OutreachAssumption ==
    /\ NumSteps \in 1..10
    /\ SendTries \in Nat
    /\ IsFiniteSet(Senders)
    /\ Senders \cap Pollers = {}
    /\ OutreachFaults \subseteq AllOutreachFaults
    /\ MaxOutreachFaults \in Nat

VARIABLES
    enrollment,    \* SequenceEnrollment.status, "none" without a row
    current,       \* current_step
    batch,         \* of each run and poll: what is left of its list
    doing,         \* of each run and poll: what it works on
    at,            \* of each run and poll: "idle" or its next step
    listed,        \* of each run: current_step as listed
    stale,         \* runs that have not committed yet
    index,         \* of each run: the step it sends
    mailbox,       \* external: of each message "none", "unseen" or "seen"
    sender,        \* who sent each message
    label,         \* of each message: how it was classified
    uids,          \* messages whose UID is in processed_email_uids
    bounces,       \* messages with a bounce record there
    subscribed,    \* whether on_reply_received is subscribed; the application does not
    mock,          \* whether no provider has a password: then no mail is ever sent
    mailed_steps,  \* history: the steps each enrolment has been sent
    late,          \* history: mails sent after the enrolment was halted
    lost,          \* history: messages whose handling a fault or a crash cut off
    outreach_faults

evars == <<enrollment, current, mailed_steps, late>>
rvars == <<listed, stale, index>>
mvars == <<mailbox, sender, label, uids, bounces, lost>>
settings == <<subscribed, mock>>
outreachvars == <<evars, rvars, mvars, batch, doing, at, settings, outreach_faults>>

Enrollments == Leads \X Sequences
Of(lead) == {lead} \X Sequences
EnrollmentStatuses == {"none", "active", "paused", "completed", "failed", "replied",
             "replied_interested", "replied_uninterested"}

OutreachInit ==
    /\ enrollment = [e \in Enrollments |-> "none"]
    /\ current = [e \in Enrollments |-> 0]
    /\ batch = [x \in Senders \cup Pollers |-> {}]
    /\ doing = [x \in Senders \cup Pollers |-> {}]
    /\ at = [x \in Senders \cup Pollers |-> "idle"]
    /\ listed = [r \in Senders |-> [e \in Enrollments |-> 0]]
    /\ stale = {}
    /\ index = [r \in Senders |-> 0]
    /\ mailbox = [m \in Messages |-> "none"]
    /\ sender \in [Messages -> Leads]
    /\ label = [m \in Messages |-> "interested"]
    /\ uids = {} /\ bounces = {}
    /\ subscribed \in BOOLEAN /\ mock \in BOOLEAN
    /\ mailed_steps = [e \in Enrollments |-> {}]
    /\ late = [e \in Enrollments |-> 0]
    /\ lost = {}
    /\ outreach_faults = MaxOutreachFaults

-------------------------------------------------------------------------------
(* Steps the tasks are made of. *)

OutreachFault(kind) ==
    /\ kind \in OutreachFaults
    /\ outreach_faults > 0
    /\ outreach_faults' = outreach_faults - 1

MoveTo(x, next) == at' = [at EXCEPT ![x] = next]
WorkOn(x, what) == doing' = [doing EXCEPT ![x] = what]

\* The list a task starts with; an empty one ends it.
BeginBatch(x, list) ==
    /\ at[x] = "idle" /\ list # {}
    /\ batch' = [batch EXCEPT ![x] = list]
    /\ MoveTo(x, "next")

\* The task takes the next item of its list.
TakeItem(x, item) ==
    /\ at[x] = "next" /\ item \in batch[x]
    /\ batch' = [batch EXCEPT ![x] = @ \ {item}]

AfterTake(x) == IF batch'[x] = {} THEN "idle" ELSE "next"
AfterItem(x) == IF batch[x] = {} THEN "idle" ELSE "next"

-------------------------------------------------------------------------------
(* SequencerAgent. *)

\* The unique constraint on lead and sequence admits one row for ever, whatever
\* the check for an active one found.
Unenrolled(e) == enrollment[e] = "none"

EnrollProspect(e) ==
    /\ Unenrolled(e)
    /\ enrollment' = [enrollment EXCEPT ![e] = "active"]
    /\ current' = [current EXCEPT ![e] = 0]
    /\ UNCHANGED <<mailed_steps, late, rvars, mvars, batch, doing, at, settings, outreach_faults>>

\* Faulty variant: the query does not leave out what was halted.
ActiveOrHalted == {e \in Enrollments : enrollment[e] \notin {"none", "completed"}}

Active == {e \in Enrollments : enrollment[e] = "active"}

ListActive(r) ==
    /\ BeginBatch(r, Active)
    /\ listed' = [listed EXCEPT ![r] = [e \in Enrollments |->
                                        IF e \in Active THEN current[e] ELSE 0]]
    /\ stale' = stale \cup {r}
    /\ UNCHANGED <<evars, index, mvars, doing, settings, outreach_faults>>

\* A commit makes the run read rows again; what it listed is of no more use.
Close(r) ==
    /\ stale' = stale \ {r}
    /\ listed' = [listed EXCEPT ![r] = [e \in Enrollments |-> 0]]

\* The position of the row as the run sees it.
Seen(r, e) == IF r \in stale THEN listed[r][e] ELSE current[e]

\* A step that is not due, or a lead without an address, is passed over.
NotDue(r, e) ==
    /\ TakeItem(r, e) /\ Seen(r, e) < NumSteps
    /\ MoveTo(r, AfterTake(r))
    /\ IF batch'[r] = {} THEN Close(r) ELSE UNCHANGED <<listed, stale>>
    /\ UNCHANGED <<evars, index, mvars, doing, settings, outreach_faults>>

\* The status is written whatever it has become since the list was made.
CompleteSequence(r, e) ==
    /\ TakeItem(r, e) /\ Seen(r, e) >= NumSteps
    /\ enrollment' = [enrollment EXCEPT ![e] = "completed"]
    /\ Close(r)
    /\ MoveTo(r, AfterTake(r))
    /\ UNCHANGED <<current, mailed_steps, late, index, mvars, doing, settings, outreach_faults>>

Due(r, e) ==
    /\ TakeItem(r, e) /\ Seen(r, e) < NumSteps
    /\ index' = [index EXCEPT ![r] = Seen(r, e)]
    /\ WorkOn(r, {e})
    /\ MoveTo(r, "send")
    /\ UNCHANGED <<evars, listed, stale, mvars, settings, outreach_faults>>

\* A step goes out in some copies, or in none.
Mailed(e, i, copies) ==
    /\ mailed_steps' = [mailed_steps EXCEPT ![e] = IF copies > 0 THEN @ \cup {i} ELSE @]
    /\ late' = [late EXCEPT ![e] = IF enrollment[e] = "active" THEN @ ELSE @ + copies]

\* send_email returns.  Without a password it reports success and sends nothing.
\* Otherwise a try delivers, or fails, also after the server took the mail; it then
\* tries again and reports success, or at the end an error.
SendStep(r) ==
    /\ at[r] = "send"
    /\ \E e \in doing[r] :
         \/ /\ mock
            /\ MoveTo(r, "sent") /\ UNCHANGED <<mailed_steps, late, outreach_faults>>
         \/ /\ ~mock /\ SendTries > 0
            /\ Mailed(e, index[r], 1) /\ MoveTo(r, "sent") /\ UNCHANGED outreach_faults
         \/ /\ ~mock /\ OutreachFault("send")
            /\ \E copies \in 0..SendTries :
                 /\ Mailed(e, index[r], copies)
                 /\ MoveTo(r, "error") \/ (copies > 0 /\ MoveTo(r, "sent"))
    /\ UNCHANGED <<enrollment, current, rvars, mvars, batch, doing, settings>>

\* Faulty variant: the result of the mail is not looked at.
RecordUnchecked(r) ==
    /\ at[r] \in {"sent", "error"}
    /\ \E e \in doing[r] : current' = [current EXCEPT ![e] = index[r] + 1]
    /\ Close(r)
    /\ index' = [index EXCEPT ![r] = 0]
    /\ WorkOn(r, {})
    /\ MoveTo(r, AfterItem(r))
    /\ UNCHANGED <<enrollment, mailed_steps, late, mvars, batch, settings, outreach_faults>>

\* The log entry and the enrolment, in one commit.
RecordStep(r) ==
    /\ at[r] \in {"sent", "error"}
    /\ \E e \in doing[r] :
         IF at[r] = "sent"
         THEN current' = [current EXCEPT ![e] = index[r] + 1] /\ UNCHANGED enrollment
         ELSE enrollment' = [enrollment EXCEPT ![e] = "paused"] /\ UNCHANGED current
    /\ Close(r)
    /\ index' = [index EXCEPT ![r] = 0]
    /\ WorkOn(r, {})
    /\ MoveTo(r, AfterItem(r))
    /\ UNCHANGED <<mailed_steps, late, mvars, batch, settings, outreach_faults>>

ProcessDueSteps(r) ==
    \/ \E e \in Enrollments : NotDue(r, e) \/ CompleteSequence(r, e) \/ Due(r, e)
    \/ SendStep(r) \/ RecordStep(r)

-------------------------------------------------------------------------------
(* ReplyHandlerAgent. *)

\* external: a lead writes, in answer to a mail or not.
Reply(m) ==
    /\ mailbox[m] = "none"
    /\ mailbox' = [mailbox EXCEPT ![m] = "unseen"]
    /\ \E l \in Labels : label' = [label EXCEPT ![m] = l]
    /\ UNCHANGED <<evars, rvars, sender, uids, bounces, lost, batch, doing, at,
                   settings, outreach_faults>>

Unseen == {m \in Messages : mailbox[m] = "unseen"}

SearchUnseen(p) ==
    /\ BeginBatch(p, Unseen)
    /\ UNCHANGED <<evars, rvars, mvars, doing, settings, outreach_faults>>

\* A message whose UID is recorded is passed over.  Fetching the others marks them
\* seen, also when the message cannot be parsed.
FetchMessage(p, m) ==
    /\ TakeItem(p, m)
    /\ IF m \in uids
       THEN MoveTo(p, AfterTake(p)) /\ UNCHANGED <<mailbox, doing, lost, outreach_faults>>
       ELSE /\ mailbox' = [mailbox EXCEPT ![m] = "seen"]
            /\ \/ MoveTo(p, "dispatch") /\ WorkOn(p, {m}) /\ UNCHANGED <<lost, outreach_faults>>
               \/ /\ OutreachFault("parse") /\ MoveTo(p, AfterTake(p))
                  /\ lost' = lost \cup {m} /\ UNCHANGED doing
    /\ UNCHANGED <<evars, rvars, sender, label, uids, bounces, settings>>

Pausable(m) == {e \in Of(sender[m]) : enrollment[e] \in {"active", "paused"}}

NewStatus(m) ==
    CASE label[m] = "interested" -> "replied_interested"
      [] label[m] = "not_interested" -> "replied_uninterested"
      [] label[m] = "auto_reply" -> "paused"
      [] OTHER -> "failed"

\* The handlers of a classified reply change one enrolment of the lead, if any.
Answer(m) ==
    IF Pausable(m) = {} THEN UNCHANGED enrollment
    ELSE \E e \in Pausable(m) : enrollment' = [enrollment EXCEPT ![e] = NewStatus(m)]

Announces(m) == label[m] \in {"interested", "not_interested"}

\* A second bounce record of one message violates its unique constraint.
Dispatch(p) ==
    /\ at[p] = "dispatch"
    /\ \E m \in doing[p] :
         /\ m \notin bounces
         /\ Answer(m)
         /\ bounces' = IF label[m] = "bounce" THEN bounces \cup {m} ELSE bounces
         /\ MoveTo(p, IF Announces(m) THEN "publish" ELSE "mark")
    /\ UNCHANGED <<current, mailed_steps, late, rvars, mailbox, sender, label, uids, lost, batch,
                   doing, settings, outreach_faults>>

\* The exception is logged; the UID is not stored.
DispatchFails(p) ==
    /\ at[p] = "dispatch"
    /\ \/ doing[p] \subseteq bounces /\ UNCHANGED <<lost, outreach_faults>>
       \/ OutreachFault("db") /\ lost' = lost \cup doing[p]
    /\ WorkOn(p, {})
    /\ MoveTo(p, AfterItem(p))
    /\ UNCHANGED <<evars, rvars, mailbox, sender, label, uids, bounces, batch, settings>>

\* on_reply_received, called in the publishing thread.
OnReplyReceived(lead) ==
    enrollment' = [e \in Enrollments |->
                 IF e \in Of(lead) /\ enrollment[e] = "active" THEN "replied" ELSE enrollment[e]]

PublishReply(p) ==
    /\ at[p] = "publish"
    /\ \E m \in doing[p] :
         IF subscribed THEN OnReplyReceived(sender[m]) ELSE UNCHANGED enrollment
    /\ MoveTo(p, "mark")
    /\ UNCHANGED <<current, mailed_steps, late, rvars, mvars, batch, doing, settings, outreach_faults>>

\* A second insert of the UID violates its unique constraint and is logged.
MarkUidProcessed(p) ==
    /\ at[p] = "mark"
    /\ uids' = uids \cup doing[p]
    /\ WorkOn(p, {})
    /\ MoveTo(p, AfterItem(p))
    /\ UNCHANGED <<evars, rvars, mailbox, sender, label, bounces, lost, batch, settings,
                   outreach_faults>>

PollInbox(p) ==
    \/ \E m \in Messages : FetchMessage(p, m)
    \/ Dispatch(p) \/ DispatchFails(p) \/ PublishReply(p) \/ MarkUidProcessed(p)

-------------------------------------------------------------------------------

\* A worker dies, or kills a task at its time limit.
Crash(x) ==
    /\ at[x] # "idle"
    /\ OutreachFault("crash")
    /\ lost' = IF x \in Pollers THEN lost \cup doing[x] \cup batch[x] ELSE lost
    /\ batch' = [batch EXCEPT ![x] = {}]
    /\ WorkOn(x, {})
    /\ MoveTo(x, "idle")
    /\ IF x \in Senders THEN Close(x) /\ index' = [index EXCEPT ![x] = 0] ELSE UNCHANGED rvars
    /\ UNCHANGED <<evars, mailbox, sender, label, uids, bounces, settings>>

OutreachNext ==
    \/ \E e \in Enrollments : EnrollProspect(e)
    \/ \E r \in Senders : ListActive(r) \/ ProcessDueSteps(r)
    \/ \E m \in Messages : Reply(m)
    \/ \E p \in Pollers : SearchUnseen(p) \/ PollInbox(p)
    \/ \E x \in Senders \cup Pollers : Crash(x)

OutreachSpec == OutreachInit /\ [][OutreachNext]_outreachvars

-------------------------------------------------------------------------------
(* Properties. *)

\* Type correctness of the rows, the mailbox and the tasks.
OutreachTypeOK ==
    /\ enrollment \in [Enrollments -> EnrollmentStatuses]
    /\ current \in [Enrollments -> 0..NumSteps]
    /\ batch \in [Senders \cup Pollers -> SUBSET (Enrollments \cup Messages)]
    /\ doing \in [Senders \cup Pollers -> SUBSET (Enrollments \cup Messages)]
    /\ at \in [Senders \cup Pollers ->
                 {"idle", "next", "send", "sent", "error", "dispatch", "publish", "mark"}]
    /\ listed \in [Senders -> [Enrollments -> 0..NumSteps]]
    /\ stale \subseteq Senders
    /\ index \in [Senders -> 0..(NumSteps - 1)]
    /\ mailbox \in [Messages -> {"none", "unseen", "seen"}]
    /\ sender \in [Messages -> Leads]
    /\ label \in [Messages -> Labels]
    /\ uids \subseteq Messages /\ bounces \subseteq Messages /\ lost \subseteq Messages
    /\ subscribed \in BOOLEAN /\ mock \in BOOLEAN
    /\ mailed_steps \in [Enrollments -> SUBSET (0..(NumSteps - 1))]
    /\ late \in [Enrollments -> Nat]
    /\ outreach_faults \in 0..MaxOutreachFaults

\* With a mail server configured, the position of an enrolment counts only steps that
\* were sent, and a completed one was sent them all, although overlapping runs and
\* runs cut off between the mail and its commit set the position back and send a step
\* again.  Without one the mock mode lets every step pass unsent.
NoStepSkipped ==
    ~mock => \A e \in Enrollments :
        /\ 0..(current[e] - 1) \subseteq mailed_steps[e]
        /\ enrollment[e] = "completed" => mailed_steps[e] = 0..(NumSteps - 1)

\* After an enrolment was halted, by a reply or by an error, every run that had
\* listed it may still call send_email for it once, which mails no more copies than
\* it tries, and no other does.
HaltBounded ==
    \A e \in Enrollments : late[e] <= Cardinality(Senders) * SendTries

Handled(m) == m \in uids \/ \E p \in Pollers : m \in batch[p] \cup doing[p]

\* A message that was marked seen, which no later poll finds, is handled, is being
\* handled, or a fault or a crash cut its handling off: polls that overlap alone, of
\* which one may fail on what the other wrote, leave no reply unhandled.
SeenIsHandled ==
    \A m \in Messages : mailbox[m] = "seen" => Handled(m) \/ m \in lost

\* reply_handler_agent.py says of failed deliveries that they are retried on the next
\* poll cycle: a message that is not handled would still be there to be found.
FailedIsRetried == \A m \in Messages : mailbox[m] = "seen" => Handled(m)

\* A message marked seen is handled or accounted for, and an enrolment that was
\* halted gets no more mails than runs had listed it.
RepliesHold == OutreachTypeOK /\ SeenIsHandled /\ HaltBounded
===============================================================================
