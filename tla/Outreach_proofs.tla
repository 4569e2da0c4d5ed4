--------------------------- MODULE Outreach_proofs ---------------------------
(***************************************************************************)
(* Proofs about Outreach, for every number of leads, sequences, steps,     *)
(* messages, overlapping runs, overlapping polls and faults.               *)
(***************************************************************************)
EXTENDS Outreach, FiniteSetTheorems, TLAPS

-------------------------------------------------------------------------------
(* The inductive invariant. *)

Workers == Senders \cup Pollers
RunAt == {"idle", "next", "send", "sent", "error"}
PollAt == {"idle", "next", "dispatch", "publish", "mark"}

RowsTyped ==
    /\ enrollment \in [Enrollments -> EnrollmentStatuses]
    /\ current \in [Enrollments -> 0..NumSteps]
    /\ mailed_steps \in [Enrollments -> SUBSET (0..(NumSteps - 1))]
    /\ late \in [Enrollments -> Nat]

RunsTyped ==
    /\ listed \in [Senders -> [Enrollments -> 0..NumSteps]]
    /\ stale \subseteq Senders
    /\ index \in [Senders -> 0..(NumSteps - 1)]

MailTyped ==
    /\ mailbox \in [Messages -> {"none", "unseen", "seen"}]
    /\ sender \in [Messages -> Leads]
    /\ label \in [Messages -> Labels]
    /\ uids \subseteq Messages /\ bounces \subseteq Messages /\ lost \subseteq Messages

TasksTyped ==
    /\ batch \in [Workers -> SUBSET (Enrollments \cup Messages)]
    /\ doing \in [Workers -> SUBSET (Enrollments \cup Messages)]
    /\ at \in [Workers -> RunAt \cup PollAt]
    /\ \A r \in Senders : at[r] \in RunAt /\ batch[r] \subseteq Enrollments /\ doing[r] \subseteq Enrollments
    /\ \A p \in Pollers : at[p] \in PollAt /\ batch[p] \subseteq Messages /\ doing[p] \subseteq Messages

OtherTyped == subscribed \in BOOLEAN /\ mock \in BOOLEAN /\ outreach_faults \in 0..MaxOutreachFaults

Typed == RowsTyped /\ RunsTyped /\ MailTyped /\ TasksTyped /\ OtherTyped

\* A task works on nothing between two items, and an idle one has no list; what a run
\* is about to send is no longer on its list.
Orderly ==
    /\ \A x \in Workers : at[x] = "idle" => batch[x] = {}
    /\ \A x \in Workers : at[x] \in {"idle", "next"} => doing[x] = {}
    /\ \A r \in Senders : at[r] = "send" =>
         doing[r] \cap batch[r] = {} /\ \A d, e \in doing[r] : d = e

\* Only enrolments that have a row come on a list.
Listed ==
    \A r \in Senders : \A e \in batch[r] \cup doing[r] : enrollment[e] # "none"

\* Every position a row, a list or a run holds counts only steps that were sent,
\* unless nothing is ever sent.
SentBefore ==
    ~mock => \A e \in Enrollments :
        /\ 0..(current[e] - 1) \subseteq mailed_steps[e]
        /\ enrollment[e] = "completed" => mailed_steps[e] = 0..(NumSteps - 1)
        /\ \A r \in Senders :
             /\ 0..(listed[r][e] - 1) \subseteq mailed_steps[e]
             /\ e \in doing[r] /\ at[r] \in {"send", "sent"} =>
                  0..(index[r] - 1) \subseteq mailed_steps[e]
             /\ e \in doing[r] /\ at[r] = "sent" => index[r] \in mailed_steps[e]

\* The runs that may still send an enrolment a mail.
Sending(e) == {r \in Senders : e \in batch[r] \/ (at[r] = "send" /\ e \in doing[r])}

\* A mail sent late uses up a run that had the enrolment on its list.
LateBounded ==
    \A e \in Enrollments :
        IF enrollment[e] \in {"none", "active"} THEN late[e] = 0
        ELSE late[e] + Cardinality(Sending(e)) * SendTries <= Cardinality(Senders) * SendTries

\* The poll that recorded a bounce goes on to mark the message, or was cut off.
BouncedIsHandled ==
    \A m \in bounces :
        \/ m \in uids \cup lost
        \/ \E p \in Pollers : at[p] = "mark" /\ m \in doing[p]

OutreachInv ==
    /\ Typed /\ Orderly /\ Listed /\ SentBefore /\ LateBounded
    /\ BouncedIsHandled /\ SeenIsHandled

-------------------------------------------------------------------------------
(* Types. *)

LEMMA TypedSuffices == Typed => OutreachTypeOK
  BY DEF Typed, RowsTyped, RunsTyped, MailTyped, TasksTyped, OtherTyped, OutreachTypeOK, Workers,
         RunAt, PollAt

\* Before anybody is enrolled, types and order hold.
LEMMA InitTyped == OutreachInit => Typed /\ Orderly
<1> SUFFICES ASSUME OutreachInit PROVE Typed /\ Orderly
  OBVIOUS
<1> USE OutreachAssumption DEF OutreachInit
<1>1. RowsTyped
  BY DEF RowsTyped, EnrollmentStatuses
<1>2. RunsTyped
  BY DEF RunsTyped
<1>3. MailTyped
  BY DEF MailTyped, Labels
<1>4. TasksTyped
  BY DEF TasksTyped, Workers, RunAt, PollAt
<1>5. OtherTyped /\ Orderly
  BY DEF OtherTyped, Orderly, Workers
<1> QED
  BY <1>1, <1>2, <1>3, <1>4, <1>5 DEF Typed

\* The enrolments of a lead are enrolments.
LEMMA OfEnrolled == \A l \in Leads : Of(l) \subseteq Enrollments
  BY DEF Of, Enrollments

\* What the steps of a run and of a poll do to the rows.
LEMMA RowsTypedStep ==
    ASSUME Typed, OutreachNext
    PROVE  RowsTyped'
<1> USE OutreachAssumption DEF Typed, RowsTyped, EnrollmentStatuses
<1>1. ASSUME NEW e \in Enrollments, EnrollProspect(e)
      PROVE  RowsTyped'
  BY <1>1 DEF EnrollProspect
<1>2. ASSUME NEW r \in Senders, ListActive(r) \/ \E e \in Enrollments : NotDue(r, e) \/ Due(r, e)
      PROVE  RowsTyped'
  BY <1>2 DEF ListActive, NotDue, Due, evars
<1>3. ASSUME NEW r \in Senders, NEW e \in Enrollments, CompleteSequence(r, e)
      PROVE  RowsTyped'
  BY <1>3 DEF CompleteSequence
<1>4. ASSUME NEW r \in Senders, SendStep(r)
      PROVE  RowsTyped'
  <2>1. PICK e \in doing[r], copies \in Nat :
          Mailed(e, index[r], copies) \/ UNCHANGED <<mailed_steps, late>>
    BY <1>4 DEF SendStep
  <2>2. e \in Enrollments /\ index[r] \in 0..(NumSteps - 1)
    BY DEF TasksTyped, RunsTyped
  <2>3. mailed_steps' \in [Enrollments -> SUBSET (0..(NumSteps - 1))]
    BY <2>1, <2>2 DEF Mailed
  <2>4. late' \in [Enrollments -> Nat]
    BY <2>1, <2>2 DEF Mailed
  <2> QED
    BY <1>4, <2>3, <2>4 DEF SendStep
<1>5. ASSUME NEW r \in Senders, RecordStep(r)
      PROVE  RowsTyped'
  <2>1. PICK e \in doing[r] :
          \/ current' = [current EXCEPT ![e] = index[r] + 1] /\ UNCHANGED enrollment
          \/ enrollment' = [enrollment EXCEPT ![e] = "paused"] /\ UNCHANGED current
    BY <1>5 DEF RecordStep
  <2>2. e \in Enrollments /\ index[r] + 1 \in 0..NumSteps
    BY DEF TasksTyped, RunsTyped
  <2> QED
    BY <1>5, <2>1, <2>2 DEF RecordStep
<1>6. ASSUME NEW p \in Pollers, Dispatch(p)
      PROVE  RowsTyped'
  <2>1. PICK m \in doing[p] : Answer(m)
    BY <1>6 DEF Dispatch
  <2>2. enrollment' = enrollment \/ \E e \in Enrollments : enrollment' = [enrollment EXCEPT ![e] = NewStatus(m)]
    BY <2>1, OfEnrolled DEF Answer, Pausable, MailTyped, TasksTyped
  <2>3. NewStatus(m) \in EnrollmentStatuses
    BY DEF NewStatus
  <2> QED
    BY <1>6, <2>2, <2>3 DEF Dispatch
<1>7. ASSUME NEW p \in Pollers, PublishReply(p)
      PROVE  RowsTyped'
  BY <1>7 DEF PublishReply, OnReplyReceived
<1>8. ASSUME (\E m \in Messages : Reply(m))
             \/ \E p \in Pollers : \/ SearchUnseen(p) \/ DispatchFails(p) \/ MarkUidProcessed(p)
                                   \/ \E m \in Messages : FetchMessage(p, m)
      PROVE  RowsTyped'
  BY <1>8 DEF Reply, SearchUnseen, DispatchFails, MarkUidProcessed, FetchMessage, evars
<1>9. ASSUME NEW x \in Workers, Crash(x)
      PROVE  RowsTyped'
  BY <1>9 DEF Crash, evars
<1> QED
  BY <1>1, <1>2, <1>3, <1>4, <1>5, <1>6, <1>7, <1>8, <1>9
  DEF OutreachNext, ProcessDueSteps, PollInbox, Workers

\* No step breaks the types of the runs and their enrolments,
LEMMA RunsTypedStep ==
    ASSUME Typed, OutreachNext
    PROVE  RunsTyped'
<1> USE OutreachAssumption DEF Typed, RunsTyped
<1>0. ASSUME NEW r \in Senders, Close(r)
      PROVE  listed' \in [Senders -> [Enrollments -> 0..NumSteps]] /\ stale' \subseteq Senders
  BY <1>0 DEF Close
<1>1. ASSUME NEW r \in Senders, ListActive(r)
      PROVE  RunsTyped'
  <2>1. [e \in Enrollments |-> IF e \in Active THEN current[e] ELSE 0] \in [Enrollments -> 0..NumSteps]
    BY DEF RowsTyped
  <2> QED
    BY <1>1, <2>1 DEF ListActive
<1>2. ASSUME NEW r \in Senders, NEW e \in Enrollments, Due(r, e)
      PROVE  RunsTyped'
  <2>1. Seen(r, e) \in 0..(NumSteps - 1)
    BY <1>2 DEF Due, Seen, RowsTyped
  <2> QED
    BY <1>2, <2>1 DEF Due
<1>3. ASSUME NEW r \in Senders, \E e \in Enrollments : NotDue(r, e) \/ CompleteSequence(r, e)
      PROVE  RunsTyped'
  BY <1>0, <1>3 DEF NotDue, CompleteSequence
<1>4. ASSUME NEW r \in Senders, SendStep(r) \/ RecordStep(r)
      PROVE  RunsTyped'
  BY <1>0, <1>4 DEF SendStep, RecordStep, rvars
<1>5. ASSUME NEW x \in Workers, Crash(x)
      PROVE  RunsTyped'
  BY <1>0, <1>5 DEF Crash, rvars
<1>6. ASSUME UNCHANGED rvars
      PROVE  RunsTyped'
  BY <1>6 DEF rvars
<1> QED
  BY <1>1, <1>2, <1>3, <1>4, <1>5, <1>6
  DEF OutreachNext, ProcessDueSteps, PollInbox, Workers, EnrollProspect, Reply, SearchUnseen,
      FetchMessage, Dispatch, DispatchFails, PublishReply, MarkUidProcessed

\* nor those of the mail,
LEMMA MailTypedStep ==
    ASSUME Typed, OutreachNext
    PROVE  MailTyped'
<1> USE DEF Typed, MailTyped
<1>1. ASSUME NEW m \in Messages, Reply(m)
      PROVE  MailTyped'
  BY <1>1 DEF Reply
<1>2. ASSUME NEW p \in Pollers, NEW m \in Messages, FetchMessage(p, m)
      PROVE  MailTyped'
  BY <1>2 DEF FetchMessage
<1>3. ASSUME NEW p \in Pollers, Dispatch(p) \/ DispatchFails(p) \/ MarkUidProcessed(p)
      PROVE  MailTyped'
  BY <1>3 DEF Dispatch, DispatchFails, MarkUidProcessed, TasksTyped
<1>4. ASSUME NEW x \in Workers, Crash(x)
      PROVE  MailTyped'
  BY <1>4 DEF Crash, TasksTyped
<1>5. ASSUME UNCHANGED mvars
      PROVE  MailTyped'
  BY <1>5 DEF mvars
<1> QED
  BY <1>1, <1>2, <1>3, <1>4, <1>5
  DEF OutreachNext, ProcessDueSteps, PollInbox, Workers, EnrollProspect, ListActive, NotDue,
      CompleteSequence, Due, SendStep, RecordStep, SearchUnseen, PublishReply

\* nor those of the tasks and what they have read,
LEMMA TasksTypedStep ==
    ASSUME Typed, OutreachNext
    PROVE  TasksTyped'
<1> USE DEF Typed, TasksTyped, RunAt, PollAt, Workers, MoveTo, WorkOn
<1>1. ASSUME UNCHANGED <<batch, doing, at>>
      PROVE  TasksTyped'
  BY <1>1
<1>2. ASSUME NEW r \in Senders, NEW next \in RunAt, NEW list \in SUBSET Enrollments,
             NEW work \in SUBSET Enrollments,
             at' = [at EXCEPT ![r] = next], batch' = [batch EXCEPT ![r] = list],
             doing' = [doing EXCEPT ![r] = work]
      PROVE  TasksTyped'
  BY <1>2, OutreachAssumption
<1>3. ASSUME NEW p \in Pollers, NEW next \in PollAt, NEW list \in SUBSET Messages,
             NEW work \in SUBSET Messages,
             at' = [at EXCEPT ![p] = next], batch' = [batch EXCEPT ![p] = list],
             doing' = [doing EXCEPT ![p] = work]
      PROVE  TasksTyped'
  BY <1>3, OutreachAssumption
<1>4. ASSUME NEW x \in Workers
      PROVE  batch = [batch EXCEPT ![x] = batch[x]] /\ doing = [doing EXCEPT ![x] = doing[x]]
  OBVIOUS
<1>5. ASSUME NEW r \in Senders, ListActive(r)
      PROVE  TasksTyped'
  <2>1. Active \subseteq Enrollments
    BY DEF Active
  <2> QED
    BY <1>2, <1>4, <1>5, <2>1, ZenonT(60) DEF ListActive, BeginBatch
<1>6. ASSUME NEW r \in Senders, NEW e \in Enrollments, NotDue(r, e) \/ CompleteSequence(r, e)
      PROVE  TasksTyped'
  <2>1. batch' = [batch EXCEPT ![r] = batch[r] \ {e}] /\ doing' = doing
    BY <1>6 DEF NotDue, CompleteSequence, TakeItem
  <2>2. PICK next \in {"idle", "next"} : at' = [at EXCEPT ![r] = next]
    BY <1>6 DEF NotDue, CompleteSequence, AfterTake
  <2> QED
    BY <1>2, <1>4, <2>1, <2>2
<1>7. ASSUME NEW r \in Senders, NEW e \in Enrollments, Due(r, e)
      PROVE  TasksTyped'
  <2>1. batch' = [batch EXCEPT ![r] = batch[r] \ {e}]
    BY <1>7 DEF Due, TakeItem
  <2>2. at' = [at EXCEPT ![r] = "send"] /\ doing' = [doing EXCEPT ![r] = {e}]
    BY <1>7 DEF Due
  <2>3. batch[r] \ {e} \in SUBSET Enrollments /\ {e} \in SUBSET Enrollments /\ "send" \in RunAt
    OBVIOUS
  <2> QED
    BY <1>2, <2>1, <2>2, <2>3
<1>8. ASSUME NEW r \in Senders, SendStep(r)
      PROVE  TasksTyped'
  <2>1. PICK next \in {"sent", "error"} : at' = [at EXCEPT ![r] = next]
    BY <1>8 DEF SendStep
  <2> QED
    BY <1>2, <1>4, <1>8, <2>1 DEF SendStep
<1>9. ASSUME NEW r \in Senders, RecordStep(r)
      PROVE  TasksTyped'
  <2>1. PICK next \in {"idle", "next"} : at' = [at EXCEPT ![r] = next]
    BY <1>9 DEF RecordStep, AfterItem
  <2> QED
    BY <1>2, <1>4, <1>9, <2>1 DEF RecordStep
<1>10. ASSUME NEW p \in Pollers, SearchUnseen(p)
       PROVE  TasksTyped'
  <2>1. Unseen \subseteq Messages
    BY DEF Unseen
  <2> QED
    BY <1>3, <1>4, <1>10, <2>1 DEF SearchUnseen, BeginBatch
<1>11. ASSUME NEW p \in Pollers, NEW m \in Messages, FetchMessage(p, m)
       PROVE  TasksTyped'
  <2>1. batch' = [batch EXCEPT ![p] = batch[p] \ {m}]
    BY <1>11 DEF FetchMessage, TakeItem
  <2>2. PICK next \in {"idle", "next", "dispatch"} : at' = [at EXCEPT ![p] = next]
    BY <1>11 DEF FetchMessage, AfterTake
  <2>3. PICK work \in SUBSET Messages : doing' = [doing EXCEPT ![p] = work]
    BY <1>4, <1>11 DEF FetchMessage
  <2>4. batch[p] \ {m} \in SUBSET Messages /\ next \in PollAt
    OBVIOUS
  <2> QED
    BY <1>3, <2>1, <2>2, <2>3, <2>4
<1>12. ASSUME NEW p \in Pollers, Dispatch(p) \/ PublishReply(p)
       PROVE  TasksTyped'
  <2>1. PICK next \in {"publish", "mark"} : at' = [at EXCEPT ![p] = next]
    BY <1>12 DEF Dispatch, PublishReply
  <2> QED
    BY <1>3, <1>4, <1>12, <2>1 DEF Dispatch, PublishReply
<1>13. ASSUME NEW p \in Pollers, DispatchFails(p) \/ MarkUidProcessed(p)
       PROVE  TasksTyped'
  <2>1. PICK next \in {"idle", "next"} : at' = [at EXCEPT ![p] = next]
    BY <1>13 DEF DispatchFails, MarkUidProcessed, AfterItem
  <2> QED
    BY <1>3, <1>4, <1>13, <2>1, ZenonT(60) DEF DispatchFails, MarkUidProcessed
<1>14. ASSUME NEW x \in Workers, Crash(x)
       PROVE  TasksTyped'
  BY <1>2, <1>3, <1>14 DEF Crash
<1> QED
  BY <1>1, <1>5, <1>6, <1>7, <1>8, <1>9, <1>10, <1>11, <1>12, <1>13, <1>14
  DEF OutreachNext, ProcessDueSteps, PollInbox, EnrollProspect, Reply

\* Nobody subscribes or configures a mail server while the tasks run,
LEMMA SettingsKept == OutreachNext => UNCHANGED settings
  BY DEF OutreachNext, ProcessDueSteps, PollInbox, EnrollProspect, Reply, ListActive, NotDue,
         CompleteSequence, Due, SendStep, RecordStep, SearchUnseen, FetchMessage, Dispatch,
         DispatchFails, PublishReply, MarkUidProcessed, Crash

\* nor those of the rest.
LEMMA OtherTypedStep ==
    ASSUME Typed, OutreachNext
    PROVE  OtherTyped'
<1>1. UNCHANGED settings
  BY SettingsKept
<1>2. outreach_faults' = outreach_faults
      \/ (outreach_faults > 0 /\ outreach_faults' = outreach_faults - 1)
  BY DEF OutreachNext, ProcessDueSteps, PollInbox, EnrollProspect, Reply, ListActive, NotDue,
         CompleteSequence, Due, SendStep, RecordStep, SearchUnseen, FetchMessage, Dispatch,
         DispatchFails, PublishReply, MarkUidProcessed, Crash, OutreachFault
<1> QED
  BY <1>1, <1>2, OutreachAssumption DEF Typed, OtherTyped, settings

\* A worker that rests holds no enrolment; one that sends has taken its own off its list.
LEMMA OrderlyStep ==
    ASSUME Typed, Orderly, OutreachNext
    PROVE  Orderly'
<1> USE OutreachAssumption DEF Typed, TasksTyped, RunAt, PollAt, Workers, MoveTo, WorkOn, Orderly
<1>1. ASSUME UNCHANGED <<batch, doing, at>>
      PROVE  Orderly'
  BY <1>1
<1>2. ASSUME NEW x \in Workers, SearchUnseen(x) \/ ListActive(x)
      PROVE  Orderly'
  BY <1>2 DEF SearchUnseen, ListActive, BeginBatch
<1>3. ASSUME NEW r \in Senders, NEW e \in Enrollments, NotDue(r, e) \/ CompleteSequence(r, e)
      PROVE  Orderly'
  BY <1>3 DEF NotDue, CompleteSequence, TakeItem, AfterTake
<1>4. ASSUME NEW r \in Senders, NEW e \in Enrollments, Due(r, e)
      PROVE  Orderly'
  BY <1>4 DEF Due, TakeItem
<1>5. ASSUME NEW r \in Senders, SendStep(r) \/ RecordStep(r)
      PROVE  Orderly'
  BY <1>5 DEF SendStep, RecordStep, AfterItem
<1>6. ASSUME NEW p \in Pollers, NEW m \in Messages, FetchMessage(p, m)
      PROVE  Orderly'
  BY <1>6 DEF FetchMessage, TakeItem, AfterTake
<1>7. ASSUME NEW p \in Pollers, Dispatch(p) \/ PublishReply(p)
      PROVE  Orderly'
  BY <1>7 DEF Dispatch, PublishReply
<1>8. ASSUME NEW p \in Pollers, DispatchFails(p) \/ MarkUidProcessed(p)
      PROVE  Orderly'
  BY <1>8 DEF DispatchFails, MarkUidProcessed, AfterItem
<1>9. ASSUME NEW x \in Workers, Crash(x)
      PROVE  Orderly'
  BY <1>9 DEF Crash
<1> QED
  BY <1>1, <1>2, <1>3, <1>4, <1>5, <1>6, <1>7, <1>8, <1>9
  DEF OutreachNext, ProcessDueSteps, PollInbox, EnrollProspect, Reply

\* Only enrolments that have a row come on a list.
LEMMA ListedStep ==
    ASSUME Typed, Listed, OutreachNext
    PROVE  Listed'
<1> USE OutreachAssumption DEF Typed, TasksTyped, RowsTyped, Workers, MoveTo, WorkOn, Listed
<1>1. ASSUME UNCHANGED enrollment,
             \A r \in Senders : batch'[r] \cup doing'[r] \subseteq batch[r] \cup doing[r]
      PROVE  Listed'
  BY <1>1
<1>2. ASSUME NEW r \in Senders, ListActive(r)
      PROVE  Listed'
  BY <1>2 DEF ListActive, BeginBatch, Active, evars
<1>3. ASSUME NEW r \in Senders, NEW e \in Enrollments, CompleteSequence(r, e)
      PROVE  Listed'
  BY <1>3 DEF CompleteSequence, TakeItem
<1>4. ASSUME NEW r \in Senders, NEW e \in Enrollments, NotDue(r, e) \/ Due(r, e)
      PROVE  Listed'
  BY <1>1, <1>4 DEF NotDue, Due, TakeItem, evars
<1>5. ASSUME NEW r \in Senders, SendStep(r)
      PROVE  Listed'
  BY <1>1, <1>5 DEF SendStep
<1>6. ASSUME NEW r \in Senders, RecordStep(r)
      PROVE  Listed'
  BY <1>6 DEF RecordStep
<1>7. ASSUME NEW e \in Enrollments, EnrollProspect(e)
      PROVE  Listed'
  BY <1>7 DEF EnrollProspect
<1>8. ASSUME NEW p \in Pollers, Dispatch(p)
      PROVE  Listed'
  <2>1. PICK m \in doing[p] : Answer(m)
    BY <1>8 DEF Dispatch
  <2>2. NewStatus(m) # "none"
    BY DEF NewStatus
  <2>3. \A e \in Enrollments : enrollment[e] # "none" => enrollment'[e] # "none"
    BY <2>1, <2>2 DEF Answer
  <2> QED
    BY <1>8, <2>3 DEF Dispatch
<1>9. ASSUME NEW p \in Pollers, PublishReply(p)
      PROVE  Listed'
  BY <1>9 DEF PublishReply, OnReplyReceived
<1>10. ASSUME NEW p \in Pollers, SearchUnseen(p) \/ DispatchFails(p) \/ MarkUidProcessed(p)
                                 \/ \E m \in Messages : FetchMessage(p, m)
       PROVE  Listed'
  <2>1. UNCHANGED enrollment /\ p \notin Senders
        /\ \A r \in Senders \ {p} : doing'[r] = doing[r] /\ batch'[r] = batch[r]
    BY <1>10 DEF SearchUnseen, BeginBatch, DispatchFails, MarkUidProcessed, FetchMessage,
       TakeItem, evars
  <2> QED
    BY <1>1, <2>1
<1>11. ASSUME NEW m \in Messages, Reply(m)
       PROVE  Listed'
  BY <1>1, <1>11 DEF Reply, evars
<1>12. ASSUME NEW x \in Workers, Crash(x)
       PROVE  Listed'
  BY <1>1, <1>12 DEF Crash, evars
<1> QED
  BY <1>2, <1>3, <1>4, <1>5, <1>6, <1>7, <1>8, <1>9, <1>10, <1>11, <1>12
  DEF OutreachNext, ProcessDueSteps, PollInbox

-------------------------------------------------------------------------------
(* No step is skipped. *)

\* How the history of an enrolment may go on: steps are only added.
LEMMA MailedGrows ==
    ASSUME Typed, OutreachNext, NEW e \in Enrollments
    PROVE  mailed_steps[e] \subseteq mailed_steps'[e]
<1>1. CASE mailed_steps' = mailed_steps
  BY <1>1
<1>2. ASSUME NEW r \in Senders, SendStep(r)
      PROVE  mailed_steps[e] \subseteq mailed_steps'[e]
  BY <1>2 DEF SendStep, Mailed, Typed, RowsTyped
<1> QED
  BY <1>1, <1>2
  DEF OutreachNext, ProcessDueSteps, PollInbox, EnrollProspect, Reply, ListActive, NotDue,
      CompleteSequence, Due, RecordStep, SearchUnseen, FetchMessage, Dispatch,
      DispatchFails, PublishReply, MarkUidProcessed, Crash, evars

\* Nothing is sent before anybody is enrolled.
LEMMA InitSent == OutreachInit => SentBefore
  BY DEF OutreachInit, SentBefore

\* With a mail server, the positions rows, lists and runs hold after a step come from what was there, or
\* are the first, or follow the step that was just sent.
LEMMA SentBeforeStep ==
    ASSUME Typed, Orderly, SentBefore, OutreachNext
    PROVE  SentBefore'
<1> DEFINE Ok(e, n) == 0..(n - 1) \subseteq mailed_steps'[e]
           Whole(e) == mailed_steps'[e] = 0..(NumSteps - 1)
           Rows == \A e \in Enrollments :
                     Ok(e, current'[e]) /\ (enrollment'[e] = "completed" => Whole(e))
           Lists == \A e \in Enrollments, r \in Senders : Ok(e, listed'[r][e])
           Runs == \A e \in Enrollments, r \in Senders : e \in doing'[r] =>
                     /\ at'[r] \in {"send", "sent"} => Ok(e, index'[r])
                     /\ at'[r] = "sent" => Ok(e, index'[r] + 1)
<1>1. RowsTyped' /\ RunsTyped' /\ TasksTyped'
  BY RowsTypedStep, RunsTypedStep, TasksTypedStep
<1>0. SUFFICES ASSUME ~mock PROVE SentBefore'
  BY SettingsKept DEF SentBefore, settings
<1>2. SUFFICES Rows /\ Lists /\ Runs
  <2>1. \A e \in Enrollments, r \in Senders :
          index'[r] \in Nat /\ (Ok(e, index'[r] + 1) => index'[r] \in mailed_steps'[e])
    BY <1>1, OutreachAssumption DEF RunsTyped
  <2> QED
    BY <2>1 DEF SentBefore
<1>3. /\ \A e \in Enrollments : Ok(e, current[e]) /\ (enrollment[e] = "completed" => Whole(e))
      /\ \A e \in Enrollments, r \in Senders : Ok(e, listed[r][e])
      /\ \A e \in Enrollments, r \in Senders : e \in doing[r] /\ at[r] \in {"send", "sent"} => Ok(e, index[r])
  <2>1. \A e \in Enrollments : mailed_steps[e] \subseteq mailed_steps'[e] /\ mailed_steps'[e] \subseteq 0..(NumSteps - 1)
    BY <1>1, MailedGrows DEF RowsTyped
  <2> QED
    BY <1>0, <2>1 DEF SentBefore
<1>4. \A e \in Enrollments, r \in Senders : e \in doing[r] /\ at[r] = "sent" => Ok(e, index[r] + 1)
  <2> SUFFICES ASSUME NEW e \in Enrollments, NEW r \in Senders, e \in doing[r], at[r] = "sent"
               PROVE  Ok(e, index[r] + 1)
    OBVIOUS
  <2>1. index[r] \in mailed_steps'[e] /\ Ok(e, index[r]) /\ index[r] \in Nat
    BY <1>0, <1>3, MailedGrows, OutreachAssumption DEF SentBefore, Typed, RunsTyped
  <2> QED
    BY <2>1
<1>5. \A e \in Enrollments : Ok(e, 0) /\ (Ok(e, NumSteps) => Whole(e))
  <2> SUFFICES ASSUME NEW e \in Enrollments PROVE Ok(e, 0) /\ (Ok(e, NumSteps) => Whole(e))
    OBVIOUS
  <2>1. mailed_steps'[e] \subseteq 0..(NumSteps - 1)
    BY <1>1 DEF RowsTyped
  <2>2. 0..(0 - 1) = {}
    OBVIOUS
  <2> QED
    BY <2>1, <2>2
<1>6. ASSUME NEW r \in Senders, SendStep(r), NEW e \in doing[r], at'[r] = "sent"
      PROVE  Ok(e, index[r] + 1)
  <2>1. e \in Enrollments /\ at[r] = "send"
    BY <1>6 DEF Typed, TasksTyped, SendStep
  <2>2. PICK e2 \in doing[r] : mailed_steps' = [mailed_steps EXCEPT ![e2] = @ \cup {index[r]}]
    <3>1. at'[r] # "error"
      BY <1>6
    <3>2. PICK e2 \in doing[r], copies \in Nat \ {0} : Mailed(e2, index[r], copies)
      BY <1>0, <1>6, <3>1 DEF SendStep, MoveTo, Typed, TasksTyped, Workers
    <3>3. copies > 0
      OBVIOUS
    <3>4. mailed_steps' = [mailed_steps EXCEPT ![e2] = @ \cup {index[r]}]
      BY <3>2, <3>3 DEF Mailed
    <3> QED
      BY <3>4
  <2>3. e2 = e
    BY <2>1, <2>2 DEF Orderly
  <2>4. index[r] \in mailed_steps'[e] /\ Ok(e, index[r]) /\ index[r] \in Nat
    BY <1>3, <2>1, <2>2, <2>3, OutreachAssumption DEF Typed, RunsTyped, RowsTyped
  <2> QED
    BY <2>4
<1> HIDE DEF Ok, Whole
<1> USE DEF Typed, RowsTyped, RunsTyped, TasksTyped, Workers
<1>7. ASSUME UNCHANGED <<enrollment, current>>
      PROVE  Rows
  BY <1>3, <1>7
<1>8. ASSUME UNCHANGED listed \/ \E r \in Senders : Close(r)
      PROVE  Lists
  BY <1>3, <1>5, <1>8, ZenonT(60) DEF Close
<1>9. ASSUME UNCHANGED index, NEW x \in Workers,
             \A r \in Senders \ {x} : at'[r] = at[r] /\ doing'[r] = doing[r],
             x \in Senders => at'[x] \notin {"send", "sent"}
      PROVE  Runs
  BY <1>3, <1>4, <1>9
<1>10. ASSUME NEW e \in Enrollments, EnrollProspect(e)
       PROVE  Rows /\ Lists /\ Runs
  BY <1>3, <1>4, <1>5, <1>10 DEF EnrollProspect, rvars
<1>11. ASSUME NEW r \in Senders, ListActive(r)
       PROVE  Rows /\ Lists /\ Runs
  <2>1. Lists
    BY <1>3, <1>5, <1>11 DEF ListActive
  <2> QED
    BY <1>7, <1>9, <1>11, <2>1 DEF ListActive, BeginBatch, MoveTo, evars
<1>12. ASSUME NEW r \in Senders, NEW e \in Enrollments, NotDue(r, e)
       PROVE  Rows /\ Lists /\ Runs
  BY <1>7, <1>8, <1>9, <1>12 DEF NotDue, AfterTake, MoveTo, evars
<1>13. ASSUME NEW r \in Senders, NEW e \in Enrollments, CompleteSequence(r, e)
       PROVE  Rows /\ Lists /\ Runs
  <2>1. Seen(r, e) = NumSteps
    <3>1. listed[r][e] \in 0..NumSteps /\ current[e] \in 0..NumSteps /\ NumSteps \in Nat
      BY OutreachAssumption
    <3>2. Seen(r, e) \in 0..NumSteps /\ Seen(r, e) >= NumSteps
      BY <1>13, <3>1 DEF CompleteSequence, Seen
    <3>3. \A n \in 0..NumSteps : n >= NumSteps => n = NumSteps
      BY <3>1
    <3> QED
      BY <3>2, <3>3, Zenon
  <2>2. Ok(e, NumSteps)
    BY <1>3, <2>1 DEF Seen
  <2>3. Rows
    BY <1>3, <1>5, <1>13, <2>2 DEF CompleteSequence
  <2> QED
    BY <1>8, <1>9, <1>13, <2>3 DEF CompleteSequence, AfterTake, MoveTo
<1>14. ASSUME NEW r \in Senders, NEW e \in Enrollments, Due(r, e)
       PROVE  Rows /\ Lists /\ Runs
  <2>1. Ok(e, Seen(r, e))
    BY <1>3 DEF Seen
  <2>2. Runs
    BY <1>3, <1>4, <1>14, <2>1 DEF Due, WorkOn, MoveTo
  <2> QED
    BY <1>7, <1>8, <1>14, <2>2 DEF Due, evars
<1>15. ASSUME NEW r \in Senders, SendStep(r)
       PROVE  Rows /\ Lists /\ Runs
  <2>1. Runs
    BY <1>3, <1>4, <1>6, <1>15 DEF SendStep, MoveTo, rvars
  <2> QED
    BY <1>7, <1>8, <1>15, <2>1 DEF SendStep, rvars
<1>16. ASSUME NEW r \in Senders, RecordStep(r)
       PROVE  Rows /\ Lists /\ Runs
  <2>1. Rows
    BY <1>3, <1>4, <1>16, SMTT(60) DEF RecordStep
  <2>2. Runs
    BY <1>3, <1>4, <1>16 DEF RecordStep, MoveTo, WorkOn
  <2> QED
    BY <1>8, <1>16, <2>1, <2>2 DEF RecordStep
<1>17. ASSUME NEW p \in Pollers, Dispatch(p) \/ PublishReply(p)
       PROVE  Rows /\ Lists /\ Runs
  <2>1. \A e \in Enrollments : enrollment'[e] = "completed" => enrollment[e] = "completed"
    <3>1. CASE Dispatch(p)
      <4>1. PICK m \in doing[p] : Answer(m)
        BY <3>1 DEF Dispatch
      <4>2. NewStatus(m) # "completed"
        BY DEF NewStatus
      <4> QED
        BY <4>1, <4>2 DEF Answer
    <3>2. CASE PublishReply(p)
      BY <3>2 DEF PublishReply, OnReplyReceived
    <3> QED
      BY <1>17, <3>1, <3>2
  <2>2. UNCHANGED <<current, rvars, doing>> /\ \A r \in Senders \ {p} : at'[r] = at[r]
    BY <1>17 DEF Dispatch, PublishReply, MoveTo
  <2>3. Rows
    BY <1>3, <2>1, <2>2
  <2>4. p \notin Senders
    BY OutreachAssumption
  <2> QED
    BY <1>8, <1>9, <2>2, <2>3, <2>4 DEF rvars
<1>18. ASSUME NEW p \in Pollers, SearchUnseen(p) \/ DispatchFails(p) \/ MarkUidProcessed(p)
                                 \/ \E m \in Messages : FetchMessage(p, m)
       PROVE  Rows /\ Lists /\ Runs
  <2>1. UNCHANGED <<evars, rvars>> /\ \A r \in Senders \ {p} : at'[r] = at[r] /\ doing'[r] = doing[r]
    BY <1>18 DEF SearchUnseen, BeginBatch, DispatchFails, MarkUidProcessed, FetchMessage, MoveTo,
       WorkOn
  <2>2. p \notin Senders
    BY OutreachAssumption
  <2> QED
    BY <1>7, <1>8, <1>9, <2>1, <2>2 DEF evars, rvars
<1>19. ASSUME NEW m \in Messages, Reply(m)
       PROVE  Rows /\ Lists /\ Runs
  BY <1>3, <1>4, <1>7, <1>8, <1>19 DEF Reply, evars, rvars
<1>20. ASSUME NEW x \in Workers, Crash(x)
       PROVE  Rows /\ Lists /\ Runs
  <2>1. UNCHANGED evars /\ (UNCHANGED listed \/ \E r \in Senders : Close(r))
    BY <1>20 DEF Crash, rvars
  <2>2. Runs
    BY <1>3, <1>4, <1>20 DEF Crash, MoveTo, WorkOn, rvars
  <2> QED
    BY <1>7, <1>8, <2>1, <2>2 DEF evars
<1> QED
  BY <1>10, <1>11, <1>12, <1>13, <1>14, <1>15, <1>16, <1>17, <1>18, <1>19, <1>20
  DEF OutreachNext, ProcessDueSteps, PollInbox

-------------------------------------------------------------------------------
(* Mails after a halt are bounded. *)

LEMMA FiniteSenders ==
    /\ IsFiniteSet(Senders) /\ Cardinality(Senders) \in Nat
    /\ \A S, T : S \subseteq T /\ T \subseteq Senders =>
         /\ Cardinality(S) \in Nat /\ Cardinality(T) \in Nat
         /\ Cardinality(S) <= Cardinality(T)
         /\ S # T => Cardinality(S) < Cardinality(T)
<1>1. IsFiniteSet(Senders) /\ Cardinality(Senders) \in Nat
  BY OutreachAssumption, FS_CardinalityType
<1>2. ASSUME NEW S, NEW T, S \subseteq T, T \subseteq Senders
      PROVE  /\ Cardinality(S) \in Nat /\ Cardinality(T) \in Nat
             /\ Cardinality(S) <= Cardinality(T)
             /\ S # T => Cardinality(S) < Cardinality(T)
  <2>1. IsFiniteSet(T)
    BY <1>1, <1>2, FS_Subset
  <2>2. IsFiniteSet(S)
    BY <1>2, <2>1, FS_Subset
  <2> QED
    BY <1>2, <2>1, <2>2, FS_Subset, FS_CardinalityType
<1> QED
  BY <1>1, <1>2

\* Nor is anything late.
LEMMA InitLate == OutreachInit => LateBounded
  BY DEF OutreachInit, LateBounded

\* An enrolment that is halted stays so, comes on no list, and is sent no mail but by
\* a run that has it.
LEMMA HaltedStep ==
    ASSUME Typed, Orderly, Listed, OutreachNext, NEW e \in Enrollments
    PROVE  /\ enrollment[e] \notin {"none", "active"} =>
                /\ enrollment'[e] \notin {"none", "active"}
                /\ Sending(e)' \subseteq Sending(e)
                /\ \/ late'[e] = late[e]
                   \/ late'[e] \in late[e]..(late[e] + SendTries) /\ Sending(e)' # Sending(e)
           /\ enrollment[e] \in {"none", "active"} => late'[e] = late[e]
<1> DEFINE Goal == /\ enrollment[e] \notin {"none", "active"} =>
                        /\ enrollment'[e] \notin {"none", "active"}
                        /\ Sending(e)' \subseteq Sending(e)
                        /\ \/ late'[e] = late[e]
                           \/ /\ late'[e] \in late[e]..(late[e] + SendTries)
                              /\ Sending(e)' # Sending(e)
                   /\ enrollment[e] \in {"none", "active"} => late'[e] = late[e]
<1> USE DEF Typed, RowsTyped, RunsTyped, TasksTyped, Workers, MoveTo, WorkOn, Sending
<1>1. ASSUME UNCHANGED late,
             enrollment[e] \notin {"none", "active"} => enrollment'[e] \notin {"none", "active"},
             enrollment[e] \notin {"none", "active"} =>
               \A r \in Senders : (e \in batch'[r] => e \in batch[r])
                                  /\ (at'[r] = "send" /\ e \in doing'[r] =>
                                        e \in batch[r] \/ (at[r] = "send" /\ e \in doing[r]))
      PROVE  Goal
  BY <1>1
<1>2. ASSUME NEW f \in Enrollments, EnrollProspect(f)
      PROVE  Goal
  BY <1>1, <1>2 DEF EnrollProspect, Unenrolled
<1>3. ASSUME NEW r \in Senders, ListActive(r)
      PROVE  Goal
  BY <1>1, <1>3 DEF ListActive, BeginBatch, Active, evars
<1>4. ASSUME NEW r \in Senders, NEW f \in Enrollments, NotDue(r, f) \/ CompleteSequence(r, f)
      PROVE  Goal
  BY <1>1, <1>4 DEF NotDue, CompleteSequence, TakeItem, AfterTake, evars
<1>5. ASSUME NEW r \in Senders, NEW f \in Enrollments, Due(r, f)
      PROVE  Goal
  BY <1>1, <1>5 DEF Due, TakeItem, evars
<1>6. ASSUME NEW r \in Senders, SendStep(r)
      PROVE  Goal
  <2>1. PICK f \in doing[r], copies \in 0..SendTries :
          Mailed(f, index[r], copies) \/ UNCHANGED late
    BY <1>6, OutreachAssumption DEF SendStep
  <2>2. at[r] = "send" /\ at'[r] # "send" /\ UNCHANGED <<enrollment, batch, doing>>
        /\ \A s \in Senders \ {r} : at'[s] = at[s]
    BY <1>6 DEF SendStep
  <2>3. CASE UNCHANGED late
    BY <1>1, <2>2, <2>3
  <2>4. CASE Mailed(f, index[r], copies)
    <3>1. f # e => late'[e] = late[e]
      BY <2>4 DEF Mailed
    <3>2. f = e => late'[e] = IF enrollment[e] = "active" THEN late[e] ELSE late[e] + copies
      BY <2>4 DEF Mailed
    <3>3. Sending(e)' \subseteq Sending(e)
      BY <2>2
    <3>4. f = e => r \in Sending(e) /\ r \notin Sending(e)'
      BY <2>1, <2>2 DEF Orderly
    <3>5. CASE f # e
      BY <2>2, <3>1, <3>3, <3>5
    <3>6. CASE f = e
      <4>1. Sending(e)' # Sending(e)
        BY <3>4, <3>6
      <4>2. enrollment[e] # "none"
        BY <2>1, <3>6 DEF Listed
      <4>3. enrollment[e] # "active" => late'[e] \in late[e]..(late[e] + SendTries)
        BY <3>2, <3>6, OutreachAssumption
      <4>4. enrollment[e] = "active" => late'[e] = late[e]
        BY <3>2, <3>6
      <4> HIDE DEF Sending
      <4> QED
        BY <2>2, <3>3, <4>1, <4>2, <4>3, <4>4
    <3> QED
      BY <3>5, <3>6
  <2> QED
    BY <2>1, <2>3, <2>4
<1>7. ASSUME NEW r \in Senders, RecordStep(r)
      PROVE  Goal
  BY <1>1, <1>7 DEF RecordStep, AfterItem
<1>8. ASSUME NEW p \in Pollers, Dispatch(p)
      PROVE  Goal
  <2>1. PICK m \in doing[p] : Answer(m)
    BY <1>8 DEF Dispatch
  <2>2. NewStatus(m) \notin {"none", "active"}
    BY DEF NewStatus
  <2>3. enrollment[e] \notin {"none", "active"} => enrollment'[e] \notin {"none", "active"}
    BY <2>1, <2>2 DEF Answer
  <2> QED
    BY <1>1, <1>8, <2>3, OutreachAssumption DEF Dispatch
<1>9. ASSUME NEW p \in Pollers, PublishReply(p)
      PROVE  Goal
  BY <1>1, <1>9, OutreachAssumption DEF PublishReply, OnReplyReceived
<1>10. ASSUME NEW p \in Pollers, SearchUnseen(p) \/ DispatchFails(p) \/ MarkUidProcessed(p)
                                 \/ \E m \in Messages : FetchMessage(p, m)
       PROVE  Goal
  <2>1. UNCHANGED evars
        /\ \A r \in Senders \ {p} : at'[r] = at[r] /\ doing'[r] = doing[r] /\ batch'[r] = batch[r]
    BY <1>10 DEF SearchUnseen, BeginBatch, DispatchFails, MarkUidProcessed, FetchMessage, TakeItem
  <2>2. p \notin Senders
    BY OutreachAssumption
  <2> QED
    BY <1>1, <2>1, <2>2 DEF evars
<1>11. ASSUME NEW m \in Messages, Reply(m)
       PROVE  Goal
  BY <1>1, <1>11 DEF Reply, evars
<1>12. ASSUME NEW x \in Workers, Crash(x)
       PROVE  Goal
  BY <1>1, <1>12 DEF Crash, evars
<1> QED
  BY <1>2, <1>3, <1>4, <1>5, <1>6, <1>7, <1>8, <1>9, <1>10, <1>11, <1>12
  DEF OutreachNext, ProcessDueSteps, PollInbox

\* What products of run counts with the tries of a run come to.
LEMMA Products ==
    \A a, b \in Nat :
        /\ a * SendTries \in Nat
        /\ a <= b => a * SendTries <= b * SendTries
        /\ a < b => a * SendTries + SendTries <= b * SendTries
<1> SUFFICES ASSUME NEW a \in Nat, NEW b \in Nat
             PROVE  /\ a * SendTries \in Nat
                    /\ a <= b => a * SendTries <= b * SendTries
                    /\ a < b => a * SendTries + SendTries <= b * SendTries
  OBVIOUS
<1>1. SendTries \in Nat
  BY OutreachAssumption
<1>2. ASSUME NEW c \in Nat PROVE c * SendTries \in Nat
  BY <1>1, <1>2
<1>3. ASSUME NEW c \in Nat PROVE (a + c) * SendTries = a * SendTries + c * SendTries
  BY <1>1, <1>3
<1>4. ASSUME a <= b PROVE a * SendTries <= b * SendTries
  <2> DEFINE c == b - a
  <2>1. c \in Nat /\ b = a + c
    BY <1>4
  <2> HIDE DEF c
  <2>2. (a + c) * SendTries = a * SendTries + c * SendTries
    BY <1>3, <2>1
  <2>3. a * SendTries \in Nat /\ c * SendTries \in Nat
    BY <1>2, <2>1
  <2>4. b * SendTries = a * SendTries + c * SendTries
    BY <2>1, <2>2
  <2> QED
    BY <2>3, <2>4
<1>5. ASSUME a < b PROVE a * SendTries + SendTries <= b * SendTries
  <2>1. a + 1 <= b /\ b = (a + 1) + (b - (a + 1)) /\ b - (a + 1) \in Nat
    BY <1>5
  <2>2. (a + 1) * SendTries = a * SendTries + SendTries
    BY <1>1
  <2>3. ((a + 1) + (b - (a + 1))) * SendTries = (a + 1) * SendTries + (b - (a + 1)) * SendTries
    BY <1>1, <2>1
  <2> QED
    BY <1>1, <1>2, <2>1, <2>2, <2>3
<1> QED
  BY <1>2, <1>4, <1>5

\* Once an enrolment has ended, only senders that were at it already can mail late.
LEMMA LateBoundedStep ==
    ASSUME Typed, Orderly, Listed, LateBounded, OutreachNext
    PROVE  LateBounded'
<1> SUFFICES ASSUME NEW e \in Enrollments
             PROVE  IF enrollment'[e] \in {"none", "active"} THEN late'[e] = 0
                    ELSE late'[e] + Cardinality(Sending(e)') * SendTries
                           <= Cardinality(Senders) * SendTries
  BY DEF LateBounded
<1>1. Sending(e) \subseteq Senders /\ Sending(e)' \subseteq Senders
  BY DEF Sending
<1>2. /\ late[e] \in Nat
      /\ IF enrollment[e] \in {"none", "active"} THEN late[e] = 0
         ELSE late[e] + Cardinality(Sending(e)) * SendTries
                <= Cardinality(Senders) * SendTries
  BY DEF LateBounded, Typed, RowsTyped
<1>3. /\ Cardinality(Sending(e)') \in Nat /\ Cardinality(Senders) \in Nat
      /\ Cardinality(Sending(e)') <= Cardinality(Senders)
  BY <1>1, FiniteSenders
<1>4. CASE enrollment[e] \in {"none", "active"}
  <2>1. Cardinality(Sending(e)') * SendTries \in Nat
        /\ Cardinality(Sending(e)') * SendTries <= Cardinality(Senders) * SendTries
    BY <1>3, Products
  <2> QED
    BY <1>2, <1>4, <2>1, HaltedStep
<1>5. CASE enrollment[e] \notin {"none", "active"}
  <2>1. Sending(e)' \subseteq Sending(e)
    BY <1>5, HaltedStep
  <2>2. /\ Cardinality(Sending(e)) \in Nat
        /\ Cardinality(Sending(e)') <= Cardinality(Sending(e))
        /\ Sending(e)' # Sending(e) => Cardinality(Sending(e)') < Cardinality(Sending(e))
    BY <1>1, <2>1, FiniteSenders
  <2>3. enrollment'[e] \notin {"none", "active"}
        /\ \/ late'[e] = late[e]
           \/ late'[e] \in late[e]..(late[e] + SendTries) /\ Sending(e)' # Sending(e)
    BY <1>5, HaltedStep
  <2>4. /\ Cardinality(Sending(e)') * SendTries \in Nat
        /\ Cardinality(Sending(e)) * SendTries \in Nat
        /\ Cardinality(Senders) * SendTries \in Nat
        /\ Cardinality(Sending(e)') * SendTries <= Cardinality(Sending(e)) * SendTries
        /\ Sending(e)' # Sending(e) =>
             Cardinality(Sending(e)') * SendTries + SendTries <= Cardinality(Sending(e)) * SendTries
    BY <1>3, <2>2, Products
  <2> QED
    BY <1>2, <1>5, <2>3, <2>4, OutreachAssumption
<1> QED
  BY <1>4, <1>5

-------------------------------------------------------------------------------
(* A message marked seen is accounted for. *)

LEMMA BouncedStep ==
    ASSUME Typed, BouncedIsHandled, OutreachNext
    PROVE  BouncedIsHandled'
<1> USE OutreachAssumption
    DEF Typed, MailTyped, TasksTyped, Workers, MoveTo, WorkOn, BouncedIsHandled
<1>1. ASSUME UNCHANGED <<uids, bounces, lost>>, NEW r \in Workers,
             r \in Pollers => at[r] # "mark",
             \A p \in Pollers \ {r} : at'[p] = at[p] /\ doing'[p] = doing[p]
      PROVE  BouncedIsHandled'
  BY <1>1
<1>2. ASSUME UNCHANGED <<uids, bounces, lost, at, doing>>
      PROVE  BouncedIsHandled'
  BY <1>2
<1>3. ASSUME NEW r \in Senders, ListActive(r) \/ ProcessDueSteps(r)
      PROVE  BouncedIsHandled'
  <2>1. UNCHANGED mvars
    BY <1>3 DEF ListActive, ProcessDueSteps, NotDue, CompleteSequence, Due, SendStep, RecordStep
  <2>2. \A p \in Pollers \ {r} : at'[p] = at[p] /\ doing'[p] = doing[p]
    BY <1>3 DEF ListActive, BeginBatch, ProcessDueSteps, NotDue, CompleteSequence, Due,
                SendStep, RecordStep
  <2> QED
    BY <1>1, <2>1, <2>2 DEF mvars
<1>4. ASSUME NEW m \in Messages, Reply(m)
      PROVE  BouncedIsHandled'
  BY <1>2, <1>4 DEF Reply
<1>5. ASSUME NEW p \in Pollers, SearchUnseen(p)
      PROVE  BouncedIsHandled'
  BY <1>1, <1>5 DEF SearchUnseen, BeginBatch, mvars
<1>6. ASSUME NEW p \in Pollers, NEW m \in Messages, FetchMessage(p, m)
      PROVE  BouncedIsHandled'
  BY <1>6 DEF FetchMessage, TakeItem
<1>7. ASSUME NEW p \in Pollers, Dispatch(p)
      PROVE  BouncedIsHandled'
  <2>1. PICK m \in doing[p] : /\ bounces' = IF label[m] = "bounce" THEN bounces \cup {m} ELSE bounces
                              /\ MoveTo(p, IF Announces(m) THEN "publish" ELSE "mark")
    BY <1>7 DEF Dispatch
  <2>2. label[m] = "bounce" => ~Announces(m)
    BY DEF Announces
  <2> QED
    BY <1>7, <2>1, <2>2 DEF Dispatch
<1>8. ASSUME NEW p \in Pollers, DispatchFails(p) \/ PublishReply(p) \/ MarkUidProcessed(p)
      PROVE  BouncedIsHandled'
  BY <1>8 DEF DispatchFails, PublishReply, MarkUidProcessed, mvars
<1>9. ASSUME NEW x \in Workers, Crash(x)
      PROVE  BouncedIsHandled'
  BY <1>9 DEF Crash
<1>10. ASSUME NEW e \in Enrollments, EnrollProspect(e)
       PROVE  BouncedIsHandled'
  BY <1>2, <1>10 DEF EnrollProspect, mvars
<1> QED
  BY <1>3, <1>4, <1>5, <1>6, <1>7, <1>8, <1>9, <1>10 DEF OutreachNext, PollInbox, Workers

\* So is every message marked seen.
LEMMA SeenStep ==
    ASSUME Typed, Orderly, BouncedIsHandled, SeenIsHandled, OutreachNext
    PROVE  SeenIsHandled'
<1> USE DEF Typed, MailTyped, TasksTyped, Workers, MoveTo, WorkOn, SeenIsHandled, Handled
<1>1. ASSUME UNCHANGED mvars, NEW r \in Senders,
             \A p \in Pollers \ {r} : batch'[p] = batch[p] /\ doing'[p] = doing[p]
      PROVE  SeenIsHandled'
  BY <1>1, OutreachAssumption DEF mvars
<1>2. ASSUME UNCHANGED <<mvars, batch, doing>>
      PROVE  SeenIsHandled'
  BY <1>2 DEF mvars
<1>3. ASSUME NEW r \in Senders, ListActive(r) \/ ProcessDueSteps(r)
      PROVE  SeenIsHandled'
  <2>1. UNCHANGED mvars
    BY <1>3 DEF ListActive, ProcessDueSteps, NotDue, CompleteSequence, Due, SendStep, RecordStep
  <2>2. \A p \in Pollers \ {r} : batch'[p] = batch[p] /\ doing'[p] = doing[p]
    BY <1>3 DEF ListActive, BeginBatch, ProcessDueSteps, NotDue, CompleteSequence, Due, TakeItem,
                SendStep, RecordStep
  <2> QED
    BY <1>1, <2>1, <2>2
<1>4. ASSUME NEW m \in Messages, Reply(m)
      PROVE  SeenIsHandled'
  BY <1>4 DEF Reply
<1>5. ASSUME NEW p \in Pollers, SearchUnseen(p)
      PROVE  SeenIsHandled'
  BY <1>5 DEF SearchUnseen, BeginBatch, Orderly, mvars
<1>6. ASSUME NEW p \in Pollers, NEW m \in Messages, FetchMessage(p, m)
      PROVE  SeenIsHandled'
  BY <1>6 DEF FetchMessage, TakeItem, Orderly
<1>7. ASSUME NEW p \in Pollers, Dispatch(p) \/ PublishReply(p)
      PROVE  SeenIsHandled'
  BY <1>7 DEF Dispatch, PublishReply, mvars
<1>8. ASSUME NEW p \in Pollers, DispatchFails(p) \/ MarkUidProcessed(p)
      PROVE  SeenIsHandled'
  <2>1. CASE MarkUidProcessed(p)
    BY <2>1 DEF MarkUidProcessed
  <2>2. CASE DispatchFails(p) /\ lost' = lost \cup doing[p]
    BY <2>2 DEF DispatchFails
  <2>3. CASE DispatchFails(p) /\ doing[p] \subseteq bounces /\ UNCHANGED lost
    <3>1. /\ at[p] = "dispatch" /\ doing'[p] = {} /\ UNCHANGED <<mailbox, uids, batch>>
          /\ \A q \in Pollers \ {p} : doing'[q] = doing[q]
      BY <2>3 DEF DispatchFails
    <3>2. \A m \in doing[p] : \/ m \in uids \cup lost
                             \/ \E q \in Pollers \ {p} : m \in doing[q]
      BY <2>3, <3>1 DEF BouncedIsHandled
    <3> QED
      BY <2>3, <3>1, <3>2
  <2> QED
    BY <1>8, <2>1, <2>2, <2>3 DEF DispatchFails
<1>9. ASSUME NEW x \in Workers, Crash(x)
      PROVE  SeenIsHandled'
  <2>1. CASE x \in Pollers
    BY <1>9, <2>1 DEF Crash
  <2>2. CASE x \in Senders
    BY <1>1, <1>9, <2>2, OutreachAssumption DEF Crash, mvars
  <2> QED
    BY <2>1, <2>2
<1>10. ASSUME NEW e \in Enrollments, EnrollProspect(e)
       PROVE  SeenIsHandled'
  BY <1>2, <1>10 DEF EnrollProspect
<1> QED
  BY <1>3, <1>4, <1>5, <1>6, <1>7, <1>8, <1>9, <1>10 DEF OutreachNext, PollInbox

-------------------------------------------------------------------------------
(* The theorems. *)

LEMMA InvInit == OutreachInit => OutreachInv
<1>1. OutreachInit => BouncedIsHandled /\ SeenIsHandled /\ Listed
  BY DEF OutreachInit, BouncedIsHandled, SeenIsHandled, Listed
<1> QED
  BY <1>1, InitTyped, InitSent, InitLate DEF OutreachInv

\* The invariant of outreach is inductive,
LEMMA InvStep == OutreachInv /\ [OutreachNext]_outreachvars => OutreachInv'
<1>1. ASSUME OutreachInv, OutreachNext
      PROVE  OutreachInv'
  <2>1. Typed'
    BY <1>1, RowsTypedStep, RunsTypedStep, MailTypedStep, TasksTypedStep, OtherTypedStep
    DEF OutreachInv, Typed
  <2> QED
    BY <1>1, <2>1, OrderlyStep, ListedStep, SentBeforeStep, LateBoundedStep, BouncedStep, SeenStep
       DEF OutreachInv
<1>2. ASSUME OutreachInv, UNCHANGED outreachvars
      PROVE  OutreachInv'
  <2> USE <1>2 DEF OutreachInv, outreachvars, evars, rvars, mvars, settings
  <2>1. RowsTyped' /\ RunsTyped' /\ MailTyped' /\ TasksTyped' /\ OtherTyped'
    BY DEF Typed, RowsTyped, RunsTyped, MailTyped, TasksTyped, OtherTyped
  <2>2. Orderly' /\ Listed' /\ BouncedIsHandled' /\ SeenIsHandled'
    BY DEF Orderly, Listed, BouncedIsHandled, SeenIsHandled, Handled
  <2>3. SentBefore'
    BY DEF SentBefore
  <2>4. LateBounded'
    BY DEF LateBounded, Sending
  <2> QED
    BY <2>1, <2>2, <2>3, <2>4 DEF Typed
<1> QED
  BY <1>1, <1>2

\* and so holds throughout.
LEMMA InvAlways == OutreachSpec => []OutreachInv
  BY InvInit, InvStep, PTL DEF OutreachSpec

\* process_due_sequence_steps with a mail server: executions that overlap, die and
\* repeat may send a step twice, but the position of an enrolment never passes a step
\* nobody sent, and a completed sequence was sent as a whole.
THEOREM NothingSkipped == OutreachSpec => []NoStepSkipped
<1>1. OutreachInv => NoStepSkipped
  BY DEF OutreachInv, SentBefore, NoStepSkipped
<1> QED
  BY <1>1, InvAlways, PTL

\* check_inbox_replies and the runs beside it: polls that overlap leave no reply
\* unhandled that was marked seen, unless a fault or a crash cut it off, and every run
\* calls send_email at most once more for a halted enrolment.
THEOREM RepliesAreKept == OutreachSpec => []RepliesHold
<1>1. OutreachInv => HaltBounded
  <2> SUFFICES ASSUME OutreachInv, NEW e \in Enrollments
               PROVE  late[e] <= Cardinality(Senders) * SendTries
    BY DEF HaltBounded
  <2>1. Sending(e) \subseteq Senders
    BY DEF Sending
  <2>2. Cardinality(Sending(e)) \in Nat /\ Cardinality(Senders) \in Nat
    BY <2>1, FiniteSenders
  <2>3. Cardinality(Sending(e)) * SendTries \in Nat /\ Cardinality(Senders) * SendTries \in Nat
    BY <2>2, Products
  <2> QED
    BY <2>3 DEF OutreachInv, LateBounded, Typed, RowsTyped
<1>2. OutreachInv => RepliesHold
  BY <1>1, TypedSuffices DEF OutreachInv, RepliesHold
<1> QED
  BY <1>2, InvAlways, PTL

===============================================================================
