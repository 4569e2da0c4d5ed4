------------------------ MODULE WorkflowEngine_proofs ------------------------
(***************************************************************************)
(* Proofs about WorkflowEngine for every number of workers, servers and    *)
(* steps, every budget of API operations and every set of faults.          *)
(*                                                                         *)
(* Two inductive invariants carry them.  Lead: whatever a session has      *)
(* read, a message names or a handler is about to send concerns only steps *)
(* whose rows have left "pending"; those rows are a prefix, and what has   *)
(* executed lies within it.  PendingInv: while the status is pending, no   *)
(* message is in the broker, no worker is busy, and no handler is past its *)
(* first commit.                                                           *)
(***************************************************************************)
EXTENDS WorkflowEngine, TLAPS

-------------------------------------------------------------------------------
(* Type correctness. *)

Sessions == [status : WorkflowStatus, current : Rows, steps : [Rows -> StepStatus]]
ProgramCounters == {"idle"} \cup TaskSteps \cup ApiSteps

SessionsTyped ==
    /\ pc \in [Procs -> ProgramCounters]
    /\ job \in [Procs -> Messages \cup {NoJob}]
    /\ seen \in [Procs -> Sessions]

\* What TypeOK says of everything else.
RowsTyped ==
    /\ status \in WorkflowStatus
    /\ current_step \in Rows
    /\ rows \in BOOLEAN
    /\ step_status \in [Rows -> StepStatus]
    /\ executed \in [Rows -> Nat]
    /\ announced \in SUBSET {"completed", "failed"}
    /\ queue \in [Messages -> Nat]
    /\ ops_left \in [Ops -> Nat]
    /\ faults_left \in Nat

\* The type invariant in two parts: rows and sessions.
LEMMA TypeParts == TypeOK <=> RowsTyped /\ SessionsTyped
  BY DEF TypeOK, RowsTyped, SessionsTyped, Sessions, ProgramCounters

\* The first step exists, and a job names a step of the workflow.
LEMMA JobStep ==
    /\ 0 \in Rows
    /\ \A m \in Messages \cup {NoJob} : m.step \in Rows
    /\ \A m \in Messages : m.task \in {"execute", "advance", "failure"}
  BY EngineAssumption DEF Rows, Messages, NoJob, ExecuteMsg, AdvanceMsg, FailureMsg

\* A session at rest is a session.
LEMMA BlankTyped == Blank \in Sessions
  BY JobStep DEF Blank, Sessions, WorkflowStatus, StepStatus

\* Sessions keep their type when one goes on to another line,
LEMMA GotoTyped ==
    ASSUME SessionsTyped, NEW p \in Procs, NEW next \in ProgramCounters, Goto(p, next)
    PROVE  SessionsTyped'
  BY DEF SessionsTyped, Goto

\* when it reads the rows,
LEMMA LoadTyped ==
    ASSUME SessionsTyped, RowsTyped, NEW p \in Procs, NEW next \in ProgramCounters,
           LoadThen(p, next)
    PROVE  SessionsTyped'
<1>1. Loaded \in Sessions
  BY DEF RowsTyped, Loaded, Sessions
<1> QED
  BY <1>1 DEF SessionsTyped, LoadThen

\* and when it ends.
LEMMA FinishTyped ==
    ASSUME SessionsTyped, NEW p \in Procs, Finish(p)
    PROVE  SessionsTyped'
  BY BlankTyped DEF SessionsTyped, Finish, ProgramCounters

\* Sending to the broker counts one more copy.
LEMMA SendTyped ==
    ASSUME queue \in [Messages -> Nat], NEW m, Send(m)
    PROVE  /\ queue' \in [Messages -> Nat]
           /\ \A k \in Messages : queue'[k] > 0 => k = m \/ queue[k] > 0
<1>1. queue' = [queue EXCEPT ![m] = queue[m] + 1]
  BY DEF Send
<1>2. CASE m \in Messages
  <2>1. queue[m] + 1 \in Nat
    BY <1>2
  <2> QED
    BY <1>1, <2>1
<1>3. CASE m \notin Messages
  <2>1. queue' = queue
    BY <1>1, <1>3
  <2> QED
    BY <2>1
<1> QED
  BY <1>2, <1>3

\* A session's position is a step, and so is the one its commit will mark.
LEMMA SeenTyped ==
    ASSUME SessionsTyped, NEW p \in Procs
    PROVE  /\ seen[p].status \in WorkflowStatus
           /\ seen[p].current \in Rows
           /\ seen[p].steps \in [Rows -> StepStatus]
           /\ job[p].step \in Rows
           /\ ~IsLast(p) => seen[p].current + 1 \in Rows
  BY JobStep, EngineAssumption DEF SessionsTyped, Sessions, IsLast, Rows

\* A new workflow is well-typed.
LEMMA InitTyped == Init => TypeOK
<1> SUFFICES ASSUME Init PROVE RowsTyped /\ SessionsTyped
  BY TypeParts
<1>1. RowsTyped
  BY JobStep, EngineAssumption DEF Init, RowsTyped, WorkflowStatus, StepStatus
<1>2. SessionsTyped
  BY BlankTyped DEF Init, SessionsTyped, ProgramCounters
<1> QED
  BY <1>1, <1>2

\* The REST operations keep the types.
LEMMA ApiTyped ==
    ASSUME RowsTyped, SessionsTyped, NEW a \in ApiProcs,
           (\E op \in Ops : ApiLoad(a, op)) \/ ApiStep(a)
    PROVE  RowsTyped' /\ SessionsTyped'
<1> USE DEF RowsTyped, ProgramCounters, TaskSteps, ApiSteps, WorkflowStatus, StepStatus
<1>0. a \in Procs
  BY DEF Procs
<1>1. ASSUME NEW op \in Ops, ApiLoad(a, op)
      PROVE  RowsTyped' /\ SessionsTyped'
  <2>1. SessionsTyped'
    BY <1>0, <1>1, LoadTyped DEF ApiLoad
  <2>2. RowsTyped'
    BY <1>1 DEF ApiLoad, db
  <2> QED
    BY <2>1, <2>2
<1>2. CASE StartCommit(a)
  <2>1. SessionsTyped'
    BY <1>0, <1>2, GotoTyped DEF StartCommit
  <2>2. RowsTyped'
    BY <1>2, JobStep DEF StartCommit, bounds, Put
  <2> QED
    BY <2>1, <2>2
<1>3. CASE ResumeCommit(a)
  <2>1. SessionsTyped'
    BY <1>0, <1>3, GotoTyped DEF ResumeCommit
  <2>2. RowsTyped'
    BY <1>3 DEF ResumeCommit
  <2> QED
    BY <2>1, <2>2
<1>4. CASE PauseCommit(a)
  BY <1>0, <1>4, FinishTyped DEF PauseCommit, bounds
<1>5. CASE CancelCommit(a)
  BY <1>0, <1>5, FinishTyped DEF CancelCommit, bounds
<1>6. CASE Refresh(a)
  <2>1. SessionsTyped'
    BY <1>0, <1>6, LoadTyped, FinishTyped DEF Refresh
  <2>2. RowsTyped'
    BY <1>6 DEF Refresh, db, bounds
  <2> QED
    BY <2>1, <2>2
<1>7. CASE EnqueueCommit(a)
  <2>1. SessionsTyped'
    BY <1>0, <1>7, GotoTyped DEF EnqueueCommit
  <2>2. RowsTyped'
    BY <1>7 DEF EnqueueCommit, bounds, Put
  <2> QED
    BY <2>1, <2>2
<1>8. CASE SendStep(a)
  <2>1. SessionsTyped'
    BY <1>0, <1>8, GotoTyped, FinishTyped DEF SendStep
  <2>2. queue' \in [Messages -> Nat]
    BY <1>8, SendTyped DEF SendStep
  <2>3. RowsTyped'
    BY <1>8, <2>2 DEF SendStep, db, bounds
  <2> QED
    BY <2>1, <2>3
<1> QED
  BY <1>1, <1>2, <1>3, <1>4, <1>5, <1>6, <1>7, <1>8 DEF ApiStep

\* So do the tasks.
LEMMA TaskTyped ==
    ASSUME RowsTyped, SessionsTyped, NEW w \in Workers,
           (\E m \in Messages : Receive(w, m)) \/ WorkerStep(w)
    PROVE  RowsTyped' /\ SessionsTyped'
<1> USE DEF RowsTyped, ProgramCounters, TaskSteps, ApiSteps, WorkflowStatus, StepStatus
<1>0. w \in Procs
  BY DEF Procs
<1>1. ASSUME NEW m \in Messages, Receive(w, m)
      PROVE  RowsTyped' /\ SessionsTyped'
  <2>1. m.task \in ProgramCounters
    BY JobStep
  <2>2. SessionsTyped'
    BY <1>0, <1>1, <2>1 DEF Receive, SessionsTyped
  <2>3. queue[m] - 1 \in Nat
    BY <1>1 DEF Receive
  <2>4. queue' \in [Messages -> Nat]
    BY <1>1, <2>3 DEF Receive
  <2>5. RowsTyped'
    BY <1>1, <2>4 DEF Receive, db, bounds
  <2> QED
    BY <2>2, <2>5
<1>2. CASE Ack(w)
  BY <1>0, <1>2, FinishTyped DEF Ack, db, bounds
<1>3. CASE Dispatch(w)
  <2>1. SessionsTyped'
    BY <1>0, <1>3, GotoTyped DEF Dispatch
  <2>2. executed' \in [Rows -> Nat]
    <3>1. executed[job[w].step] + 1 \in Nat
      BY <1>0, SeenTyped
    <3> QED
      BY <1>3, <3>1 DEF Dispatch
  <2>3. RowsTyped'
    BY <1>3, <2>2 DEF Dispatch, bounds
  <2> QED
    BY <2>1, <2>3
<1>4. CASE SendAdvance(w) \/ SendFailure(w)
  <2>1. SessionsTyped'
    BY <1>0, <1>4, GotoTyped DEF SendAdvance, SendFailure
  <2>2. queue' \in [Messages -> Nat]
    BY <1>4, SendTyped DEF SendAdvance, SendFailure
  <2>3. RowsTyped'
    BY <1>4, <2>2 DEF SendAdvance, SendFailure, db, bounds
  <2> QED
    BY <2>1, <2>3
<1>5. CASE Retry(w)
  <2>1. SessionsTyped'
    BY <1>0, <1>5, GotoTyped DEF Retry
  <2>2. queue' \in [Messages -> Nat]
    BY <1>5, SendTyped DEF Retry
  <2>3. RowsTyped'
    BY <1>5, <2>2 DEF Retry, db, bounds
  <2> QED
    BY <2>1, <2>3
<1>6. CASE AdvanceLoad(w) \/ FailureLoad(w)
  <2>1. SessionsTyped'
    BY <1>0, <1>6, LoadTyped DEF AdvanceLoad, FailureLoad
  <2>2. RowsTyped'
    BY <1>6 DEF AdvanceLoad, FailureLoad, db, bounds
  <2> QED
    BY <2>1, <2>2
<1>7. CASE AnnounceCompleted(w) \/ AnnounceFailed(w)
  <2>1. SessionsTyped'
    BY <1>0, <1>7, GotoTyped DEF AnnounceCompleted, AnnounceFailed
  <2>2. RowsTyped'
    BY <1>7 DEF AnnounceCompleted, AnnounceFailed, db, bounds
  <2> QED
    BY <2>1, <2>2
<1>8. CASE AdvanceCommit(w)
  <2> DEFINE cur == seen[w].current
             done == [step_status EXCEPT ![cur] =
                        Put(seen[w].steps[cur], step_status[cur], "completed")]
  <2>1. SessionsTyped'
    BY <1>0, <1>8, GotoTyped DEF AdvanceCommit
  <2>2. done \in [Rows -> StepStatus]
    BY DEF Put
  <2>3. CASE IsLast(w)
    BY <1>8, <2>1, <2>2, <2>3 DEF AdvanceCommit, bounds
  <2>4. CASE ~IsLast(w)
    <3>1. /\ current_step' = cur + 1
          /\ step_status' = [done EXCEPT ![cur + 1] =
                               Put(seen[w].steps[cur + 1], done[cur + 1], "running")]
          /\ UNCHANGED <<status, rows, executed, announced, queue, bounds>>
      BY <1>8, <2>4 DEF AdvanceCommit
    <3>2. current_step' \in Rows
      BY <1>0, <2>4, <3>1, SeenTyped
    <3>3. step_status' \in [Rows -> StepStatus]
      BY <2>2, <3>1 DEF Put
    <3> QED
      BY <2>1, <3>1, <3>2, <3>3 DEF bounds
  <2> QED
    BY <2>3, <2>4
<1>9. CASE SendStep(w)
  <2>1. SessionsTyped'
    BY <1>0, <1>9, GotoTyped, FinishTyped DEF SendStep
  <2>2. queue' \in [Messages -> Nat]
    BY <1>9, SendTyped DEF SendStep
  <2>3. RowsTyped'
    BY <1>9, <2>2 DEF SendStep, db, bounds
  <2> QED
    BY <2>1, <2>3
<1>10. CASE Touch(w)
  BY <1>0, <1>10, GotoTyped DEF Touch, db, bounds
<1>11. CASE FailureCommit(w)
  <2>1. SessionsTyped'
    BY <1>0, <1>11, GotoTyped DEF FailureCommit
  <2>2. RowsTyped'
    BY <1>11 DEF FailureCommit, bounds, Put
  <2> QED
    BY <2>1, <2>2
<1> QED
  BY <1>1, <1>2, <1>3, <1>4, <1>5, <1>6, <1>7, <1>8, <1>9, <1>10, <1>11 DEF WorkerStep

\* And so does whatever goes wrong.
LEMMA FaultTyped ==
    ASSUME RowsTyped, SessionsTyped, NEW p \in Procs,
           \/ p \in Workers /\ (StepError(p) \/ Crash(p) \/ TimeLimit(p))
           \/ p \in ApiProcs /\ ApiCrash(p)
           \/ DbError(p) \/ BrokerError(p)
    PROVE  RowsTyped' /\ SessionsTyped'
<1> USE DEF RowsTyped, ProgramCounters, TaskSteps, ApiSteps, Fault, db
<1>1. CASE StepError(p)
  BY <1>1, GotoTyped DEF StepError
<1>2. CASE DbError(p)
  <2>1. SessionsTyped'
    BY <1>2, GotoTyped, FinishTyped DEF DbError
  <2>2. RowsTyped'
    BY <1>2 DEF DbError
  <2> QED
    BY <2>1, <2>2
<1>3. CASE BrokerError(p)
  <2>1. SessionsTyped'
    BY <1>3, GotoTyped, FinishTyped DEF BrokerError
  <2>2. RowsTyped'
    BY <1>3 DEF BrokerError
  <2> QED
    BY <2>1, <2>2
<1>4. CASE Crash(p)
  <2>1. queue' \in [Messages -> Nat]
    BY <1>4, SendTyped DEF Crash
  <2> QED
    BY <1>4, <2>1, FinishTyped DEF Crash
<1>5. CASE TimeLimit(p)
  BY <1>5, FinishTyped DEF TimeLimit
<1>6. CASE ApiCrash(p)
  BY <1>6, FinishTyped DEF ApiCrash
<1> QED
  BY <1>1, <1>2, <1>3, <1>4, <1>5, <1>6

\* So it stays.
LEMMA NextTyped == TypeOK /\ [Next]_vars => TypeOK'
<1> SUFFICES ASSUME RowsTyped, SessionsTyped, [Next]_vars
             PROVE  RowsTyped' /\ SessionsTyped'
  BY TypeParts DEF TypeOK, RowsTyped, SessionsTyped, Sessions, ProgramCounters
<1>1. CASE CreateSteps
  BY <1>1 DEF CreateSteps, sessions, bounds, RowsTyped, SessionsTyped
<1>2. CASE UNCHANGED vars
  BY <1>2 DEF vars, RowsTyped, SessionsTyped
<1>3. ASSUME NEW a \in ApiProcs,
             (\E op \in Ops : ApiLoad(a, op)) \/ ApiStep(a) \/ ApiCrash(a)
      PROVE  RowsTyped' /\ SessionsTyped'
  BY <1>3, ApiTyped, FaultTyped DEF Procs
<1>4. ASSUME NEW w \in Workers,
             \/ \E m \in Messages : Receive(w, m)
             \/ WorkerStep(w)
             \/ StepError(w) \/ Crash(w) \/ TimeLimit(w)
      PROVE  RowsTyped' /\ SessionsTyped'
  BY <1>4, TaskTyped, FaultTyped DEF Procs
<1>5. ASSUME NEW p \in Procs, DbError(p) \/ BrokerError(p)
      PROVE  RowsTyped' /\ SessionsTyped'
  BY <1>5, FaultTyped
<1> QED
  BY <1>1, <1>2, <1>3, <1>4, <1>5 DEF Next

\* Every row, message, session and counter keeps its type; in particular the
\* workflow's position always names one of its steps.
THEOREM TypeCorrect == Spec => []TypeOK
  BY InitTyped, NextTyped, PTL DEF Spec

-------------------------------------------------------------------------------
(* The rows lead the execution. *)

Touched(r) == step_status[r] # "pending"

\* A task is only where the message it holds can have brought it.
JobsMatch ==
    \A p \in Procs :
        /\ pc[p] \in {"execute", "send_advance", "send_failure"}
             => job[p].task = "execute"
        /\ pc[p] \in {"failure", "failure_commit"} => job[p].task = "failure"

\* Rows are touched in order, before their execution and before the workflow's
\* position passes them.
RowsInOrder ==
    /\ RowsLeadExecution
    /\ \A q \in Rows : q < current_step => Touched(q)

\* What a session has read was true when it was read, and stays true.
SeenTouched ==
    \A p \in Procs : \A q \in Rows :
        q < seen[p].current \/ seen[p].steps[q] # "pending" => Touched(q)

\* A step is touched before it is about to be sent, while its message waits, and
\* while a worker holds it.
WorkTouched ==
    /\ \A p \in Procs : pc[p] = "send_step" => Target(p) \in Rows /\ Touched(Target(p))
    /\ \A m \in Messages : queue[m] > 0 /\ m.task # "advance" => Touched(m.step)
    /\ \A p \in Procs : job[p].task \in {"execute", "failure"} => Touched(job[p].step)

Lead == JobsMatch /\ RowsInOrder /\ SeenTouched /\ WorkTouched

\* For a new workflow the lead holds.
LEMMA LeadInit == Init => Lead
<1> SUFFICES ASSUME Init PROVE Lead
  OBVIOUS
<1> USE DEF Init, Touched
<1>1. JobsMatch
  BY DEF JobsMatch
<1>2. RowsInOrder
  BY DEF RowsInOrder, RowsLeadExecution, Rows
<1>3. SeenTouched
  <2>1. \A q \in Rows : ~(q < Blank.current) /\ Blank.steps[q] = "pending"
    BY DEF Blank, Rows
  <2> QED
    BY <2>1 DEF SeenTouched
<1>4. WorkTouched
  BY DEF WorkTouched, NoJob
<1> QED
  BY <1>1, <1>2, <1>3, <1>4 DEF Lead

\* While the rows stand still, moving on, loading and closing a session keep
\* what was read true.
LEMMA SessionMoves ==
    ASSUME RowsTyped, SessionsTyped, RowsInOrder, SeenTouched, step_status' = step_status,
           NEW p \in Procs,
           NEW next, Goto(p, next) \/ LoadThen(p, next) \/ Finish(p)
    PROVE  SeenTouched'
<1>1. CASE Goto(p, next)
  BY <1>1 DEF Goto, SeenTouched, Touched
<1>2. CASE LoadThen(p, next)
  <2>1. seen' = [seen EXCEPT ![p] = Loaded]
    BY <1>2 DEF LoadThen
  <2>2. \A q \in Rows : q < Loaded.current \/ Loaded.steps[q] # "pending" => Touched(q)
    BY DEF Loaded, RowsInOrder, Touched
  <2> QED
    BY <2>1, <2>2 DEF SessionsTyped, SeenTouched, Touched
<1>3. CASE Finish(p)
  <2>1. seen' = [seen EXCEPT ![p] = Blank]
    BY <1>3 DEF Finish
  <2>2. \A q \in Rows : ~(q < Blank.current) /\ Blank.steps[q] = "pending"
    BY DEF Blank, Rows
  <2> QED
    BY <2>1, <2>2 DEF SessionsTyped, SeenTouched, Touched
<1> QED
  BY <1>1, <1>2, <1>3

\* A step that writes no row keeps the order of the rows.
LEMMA RowsStill ==
    ASSUME RowsInOrder, UNCHANGED <<step_status, current_step, executed>>
    PROVE  RowsInOrder'
  BY DEF RowsInOrder, RowsLeadExecution, Touched

\* Nor does it disturb the work in hand, if the process that moves leaves
\* "send_step" alone, keeps or drops its job, and sends what is touched.
LEMMA WorkStill ==
    ASSUME RowsTyped, SessionsTyped, WorkTouched, step_status' = step_status,
           NEW p \in Procs, NEW next, next # "send_step",
           Goto(p, next) \/ LoadThen(p, next) \/ Finish(p),
           \A m \in Messages : queue'[m] > 0 /\ m.task # "advance"
               => queue[m] > 0 \/ Touched(m.step)
    PROVE  WorkTouched'
<1>1. \A o \in Procs : pc'[o] = "send_step" => o # p /\ pc[o] = "send_step"
  BY DEF SessionsTyped, Goto, LoadThen, Finish
<1>2. \A o \in Procs : o # p => seen'[o] = seen[o]
  BY DEF SessionsTyped, Goto, LoadThen, Finish
<1>3. \A o \in Procs : job'[o] = job[o] \/ job'[o] = NoJob
  BY DEF SessionsTyped, Goto, LoadThen, Finish
<1>4. \A o \in Procs : pc'[o] = "send_step" => Target(o)' \in Rows /\ Touched(Target(o))'
  BY <1>1, <1>2 DEF WorkTouched, Target, Touched
<1>5. \A m \in Messages : queue'[m] > 0 /\ m.task # "advance" => Touched(m.step)'
  BY DEF WorkTouched, Touched
<1>6. \A o \in Procs : job'[o].task \in {"execute", "failure"}
                         => step_status'[job'[o].step] # "pending"
  BY <1>3 DEF WorkTouched, Touched, NoJob
<1> QED
  BY <1>4, <1>5, <1>6 DEF WorkTouched, Touched

\* A process keeps to its message if it goes on to where the message allows.
LEMMA JobsStill ==
    ASSUME SessionsTyped, JobsMatch, NEW p \in Procs, NEW next,
           Goto(p, next) \/ LoadThen(p, next) \/ Finish(p),
           next \in {"execute", "send_advance", "send_failure"}
             => job[p].task = "execute",
           next \in {"failure", "failure_commit"} => job[p].task = "failure"
    PROVE  JobsMatch'
<1>1. \A o \in Procs : o # p => pc'[o] = pc[o] /\ job'[o] = job[o]
  BY DEF SessionsTyped, Goto, LoadThen, Finish
<1>2. \/ pc'[p] = next /\ job'[p] = job[p]
      \/ pc'[p] = "idle"
  BY DEF SessionsTyped, Goto, LoadThen, Finish
<1> QED
  BY <1>1, <1>2 DEF JobsMatch

\* Marking a row touches it and un-touches none, provided that what the session
\* has read as touched is.
LEMMA Marking ==
    ASSUME RowsTyped, SessionsTyped, SeenTouched, NEW p \in Procs, NEW r \in Rows,
           NEW new \in StepStatus \ {"pending"}, NEW before \in [Rows -> StepStatus],
           \A q \in Rows : Touched(q) => before[q] # "pending",
           NEW after,
           after = [before EXCEPT ![r] = Put(seen[p].steps[r], before[r], new)]
    PROVE  /\ after \in [Rows -> StepStatus]
           /\ after[r] # "pending"
           /\ \A q \in Rows : before[q] # "pending" => after[q] # "pending"
           /\ \A q \in Rows : q # r => after[q] = before[q]
<1>1. Put(seen[p].steps[r], before[r], new) \in StepStatus \ {"pending"}
  BY DEF Put, SeenTouched
<1> QED
  BY <1>1

\* What was read and what is in hand stays touched when rows are marked.
LEMMA SeenMarked ==
    ASSUME SessionsTyped, SeenTouched, NEW p \in Procs, NEW next,
           Goto(p, next) \/ Finish(p),
           \A q \in Rows : Touched(q) => step_status'[q] # "pending"
    PROVE  SeenTouched'
<1>1. CASE Goto(p, next)
  BY <1>1 DEF Goto, SeenTouched, Touched
<1>2. CASE Finish(p)
  <2>1. seen' = [seen EXCEPT ![p] = Blank]
    BY <1>2 DEF Finish
  <2>2. \A q \in Rows : ~(q < Blank.current) /\ Blank.steps[q] = "pending"
    BY DEF Blank, Rows
  <2> QED
    BY <2>1, <2>2 DEF SessionsTyped, SeenTouched, Touched
<1> QED
  BY <1>1, <1>2

\* A row that is sent or worked on is no longer pending.
LEMMA WorkMarked ==
    ASSUME SessionsTyped, WorkTouched, NEW p \in Procs, NEW next, Goto(p, next),
           UNCHANGED queue,
           \A q \in Rows : Touched(q) => step_status'[q] # "pending",
           next = "send_step" => Target(p) \in Rows /\ step_status'[Target(p)] # "pending"
    PROVE  WorkTouched'
<1>1. \A o \in Procs : pc'[o] = "send_step" => \/ pc[o] = "send_step"
                                               \/ o = p /\ next = "send_step"
  BY DEF SessionsTyped, Goto
<1>2. UNCHANGED <<job, seen, queue>>
  BY DEF Goto
<1>3. \A o \in Procs : Target(o)' = Target(o)
  BY <1>2 DEF Target
<1>4. \A o \in Procs : pc'[o] = "send_step" => Target(o)' \in Rows /\ Touched(Target(o))'
  BY <1>1, <1>3 DEF WorkTouched, Touched
<1>5. \A m \in Messages : queue'[m] > 0 /\ m.task # "advance" => Touched(m.step)'
  BY <1>2, JobStep DEF WorkTouched, Touched
<1>6. \A o \in Procs : job'[o].task \in {"execute", "failure"}
                         => step_status'[job'[o].step] # "pending"
  BY <1>2, SeenTyped DEF WorkTouched, Touched
<1> QED
  BY <1>4, <1>5, <1>6 DEF WorkTouched, Touched

\* Rows stay in order when what is newly marked follows marked rows, and the
\* position moves only past marked rows.
LEMMA RowsMarked ==
    ASSUME RowsInOrder, UNCHANGED executed,
           \A q \in Rows : Touched(q) => step_status'[q] # "pending",
           \A q \in Rows : step_status'[q] # "pending" /\ ~Touched(q)
               => \A o \in Rows : o < q => step_status'[o] # "pending",
           \A q \in Rows : q < current_step' => step_status'[q] # "pending"
    PROVE  RowsInOrder'
<1>1. \A q \in Rows : executed'[q] > 0 => Touched(q)'
  BY DEF RowsInOrder, RowsLeadExecution, Touched
<1>2. ASSUME NEW q \in Rows, step_status'[q] # "pending", NEW o \in 0..q
      PROVE  step_status'[o] # "pending"
  <2>1. o \in Rows /\ (o < q \/ o = q)
    BY EngineAssumption DEF Rows
  <2>2. CASE Touched(q)
    BY <1>2, <2>1, <2>2 DEF RowsInOrder, RowsLeadExecution, Touched
  <2>3. CASE ~Touched(q)
    BY <1>2, <2>1, <2>3
  <2> QED
    BY <2>2, <2>3
<1>3. \A q \in Rows : q < current_step' => Touched(q)'
  BY DEF Touched
<1> QED
  BY <1>1, <1>2, <1>3 DEF RowsInOrder, RowsLeadExecution, Touched

\* A call of the API keeps the lead,
LEMMA LeadApi ==
    ASSUME RowsTyped, SessionsTyped, Lead, NEW a \in ApiProcs,
           (\E op \in Ops : ApiLoad(a, op)) \/ ApiStep(a)
    PROVE  Lead'
<1> USE DEF Lead
<1>0. a \in Procs /\ a \notin Workers
  BY EngineAssumption DEF Procs
<1>1. ASSUME NEW op \in Ops, ApiLoad(a, op)
      PROVE  Lead'
  <2>1. LoadThen(a, op) /\ UNCHANGED <<status, current_step, step_status, executed, queue>>
    BY <1>1 DEF ApiLoad, db
  <2>2. op \notin {"execute", "send_advance", "send_failure", "failure",
                   "failure_commit", "send_step"}
    BY DEF Ops
  <2> QED
    BY <1>0, <2>1, <2>2, SessionMoves, RowsStill, WorkStill, JobsStill
<1>2. CASE StartCommit(a)
  <2>1. /\ Goto(a, "refresh") /\ UNCHANGED <<step_status, executed, queue>>
        /\ current_step' = Put(seen[a].current, current_step, 0)
    BY <1>2 DEF StartCommit, bounds
  <2>2. RowsInOrder'
    BY <2>1 DEF RowsInOrder, RowsLeadExecution, Touched, Put, Rows
  <2> QED
    BY <1>0, <2>1, <2>2, SessionMoves, WorkStill, JobsStill
<1>3. CASE ResumeCommit(a)
  <2>1. Goto(a, "refresh") /\ UNCHANGED <<current_step, step_status, executed, queue>>
    BY <1>3 DEF ResumeCommit
  <2> QED
    BY <1>0, <2>1, SessionMoves, RowsStill, WorkStill, JobsStill
<1>4. CASE PauseCommit(a) \/ CancelCommit(a)
  <2>1. Finish(a) /\ UNCHANGED <<current_step, step_status, executed, queue>>
    BY <1>4 DEF PauseCommit, CancelCommit
  <2> QED
    BY <1>0, <2>1, SessionMoves, RowsStill, WorkStill, JobsStill
<1>5. CASE Refresh(a)
  <2>1. /\ LoadThen(a, "enqueue") \/ Finish(a)
        /\ UNCHANGED <<current_step, step_status, executed, queue>>
    BY <1>5 DEF Refresh, db
  <2> QED
    BY <1>0, <2>1, SessionMoves, RowsStill, WorkStill, JobsStill
<1>6. CASE EnqueueCommit(a)
  <2> DEFINE r == seen[a].current
  <2>1. /\ Goto(a, "send_step") /\ Target(a) = r
        /\ UNCHANGED <<current_step, executed, queue>>
        /\ step_status' = [step_status EXCEPT ![r] =
                             Put(seen[a].steps[r], step_status[r], "running")]
    BY <1>0, <1>6 DEF EnqueueCommit, Target
  <2>2. r \in Rows
    BY <1>0, SeenTyped
  <2>3. /\ step_status'[r] # "pending"
        /\ \A q \in Rows : Touched(q) => step_status'[q] # "pending"
        /\ \A q \in Rows : q # r => step_status'[q] = step_status[q]
    BY <1>0, <2>1, <2>2, Marking DEF RowsTyped, StepStatus, Touched
  <2>4. \A q \in Rows : q < r => Touched(q)
    BY <1>0 DEF SeenTouched
  <2>5. RowsInOrder'
    <3>1. \A q \in Rows : q < current_step' => step_status'[q] # "pending"
      BY <2>1, <2>3 DEF RowsInOrder
    <3>2. \A q \in Rows : step_status'[q] # "pending" /\ ~Touched(q) => q = r
      BY <2>3 DEF Touched
    <3> QED
      BY <2>1, <2>3, <2>4, <3>1, <3>2, RowsMarked
  <2> QED
    BY <1>0, <2>1, <2>2, <2>3, <2>5, SeenMarked, WorkMarked, JobsStill
<1>7. CASE SendStep(a)
  <2>1. /\ pc[a] = "send_step" /\ Finish(a) /\ Send(ExecuteMsg(Target(a), 0))
        /\ UNCHANGED <<current_step, step_status, executed>>
    BY <1>0, <1>7 DEF SendStep, db
  <2>2. Touched(ExecuteMsg(Target(a), 0).step)
    BY <1>0, <2>1 DEF WorkTouched, ExecuteMsg
  <2>3. \A m \in Messages : queue'[m] > 0 => queue[m] > 0 \/ Touched(m.step)
    BY <2>1, <2>2, SendTyped DEF RowsTyped
  <2> QED
    BY <1>0, <2>1, <2>3, SessionMoves, RowsStill, WorkStill, JobsStill
<1> QED
  BY <1>1, <1>2, <1>3, <1>4, <1>5, <1>6, <1>7 DEF ApiStep

\* and so does a task,
LEMMA LeadTask ==
    ASSUME RowsTyped, SessionsTyped, Lead, NEW w \in Workers,
           (\E m \in Messages : Receive(w, m)) \/ WorkerStep(w)
    PROVE  Lead'
<1> USE DEF Lead
<1>0. w \in Procs
  BY DEF Procs
<1>1. ASSUME NEW m \in Messages, Receive(w, m)
      PROVE  Lead'
  <2>1. /\ queue[m] > 0 /\ queue' = [queue EXCEPT ![m] = queue[m] - 1]
        /\ job' = [job EXCEPT ![w] = m]
        /\ pc' = [pc EXCEPT ![w] = m.task]
        /\ UNCHANGED <<seen, current_step, step_status, executed>>
    BY <1>1 DEF Receive, db
  <2>2. JobsMatch'
    BY <1>0, <2>1, JobStep DEF JobsMatch, SessionsTyped
  <2>3. SeenTouched'
    BY <2>1 DEF SeenTouched, Touched
  <2>4. \A o \in Procs : pc'[o] = "send_step" => o # w /\ pc[o] = "send_step"
    BY <1>0, <2>1, JobStep DEF SessionsTyped
  <2>5. \A o \in Procs : pc'[o] = "send_step" => Target(o)' \in Rows /\ Touched(Target(o))'
    BY <2>1, <2>4 DEF WorkTouched, Target, Touched
  <2>6. \A n \in Messages : queue'[n] > 0 => queue[n] > 0
    BY <2>1 DEF RowsTyped
  <2>7. \A n \in Messages : queue'[n] > 0 /\ n.task # "advance" => Touched(n.step)'
    BY <2>1, <2>6 DEF WorkTouched, Touched
  <2>8. m.task # "advance" => Touched(m.step)
    BY <2>1 DEF WorkTouched
  <2>9. \A o \in Procs : job'[o].task \in {"execute", "failure"}
                           => step_status'[job'[o].step] # "pending"
    BY <1>0, <2>1, <2>8 DEF WorkTouched, Touched, SessionsTyped
  <2>10. WorkTouched'
    BY <2>5, <2>7, <2>9 DEF WorkTouched, Touched
  <2> QED
    BY <2>1, <2>2, <2>3, <2>10, RowsStill
<1>2. CASE Ack(w)
  <2>1. Finish(w) /\ UNCHANGED <<current_step, step_status, executed, queue>>
    BY <1>2 DEF Ack, db
  <2> QED
    BY <1>0, <2>1, SessionMoves, RowsStill, WorkStill, JobsStill
<1>3. CASE Dispatch(w)
  <2>1. /\ pc[w] = "execute" /\ UNCHANGED <<current_step, step_status, queue>>
        /\ Goto(w, "send_failure") \/ Goto(w, "send_advance")
        /\ \/ executed' = executed
           \/ executed' = [executed EXCEPT ![job[w].step] = executed[job[w].step] + 1]
    BY <1>3 DEF Dispatch
  <2>2. job[w].task = "execute" /\ Touched(job[w].step)
    BY <1>0, <2>1 DEF JobsMatch, WorkTouched
  <2>3. RowsInOrder'
    BY <2>1, <2>2 DEF RowsInOrder, RowsLeadExecution, Touched, RowsTyped
  <2> QED
    BY <1>0, <2>1, <2>2, <2>3, SessionMoves, WorkStill, JobsStill
<1>4. CASE SendAdvance(w) \/ SendFailure(w)
  <2> DEFINE sent == IF pc[w] = "send_advance" THEN AdvanceMsg(0)
                                               ELSE FailureMsg(job[w].step, 0)
  <2>1. /\ pc[w] \in {"send_advance", "send_failure"} /\ Send(sent)
        /\ Goto(w, "ack") \/ Goto(w, "retry")
        /\ UNCHANGED <<current_step, step_status, executed>>
    BY <1>4 DEF SendAdvance, SendFailure, db
  <2>2. Touched(job[w].step)
    BY <1>0, <2>1 DEF JobsMatch, WorkTouched
  <2>3. sent.task # "advance" => Touched(sent.step)
    BY <2>2 DEF AdvanceMsg, FailureMsg
  <2>4. \A m \in Messages : queue'[m] > 0 /\ m.task # "advance"
                              => queue[m] > 0 \/ Touched(m.step)
    BY <2>1, <2>3, SendTyped DEF RowsTyped
  <2> QED
    BY <1>0, <2>1, <2>4, SessionMoves, RowsStill, WorkStill, JobsStill
<1>5. CASE Retry(w)
  <2> DEFINE again == [job[w] EXCEPT !.tries = job[w].tries + 1]
  <2>1. /\ Send(again) \/ UNCHANGED queue
        /\ Goto(w, "ack") /\ UNCHANGED <<current_step, step_status, executed>>
    BY <1>5 DEF Retry, db
  <2>2. again.task = job[w].task /\ again.step = job[w].step
    <3>1. job[w] \in Messages \cup {NoJob}
      BY <1>0 DEF SessionsTyped
    <3> QED
      BY <3>1 DEF Messages, NoJob, ExecuteMsg, AdvanceMsg, FailureMsg
  <2>3. \A m \in Messages : m = again /\ m.task # "advance" => Touched(m.step)
    BY <1>0, <2>2, JobStep DEF WorkTouched
  <2>4. \A m \in Messages : queue'[m] > 0 /\ m.task # "advance"
                              => queue[m] > 0 \/ Touched(m.step)
    BY <2>1, <2>3, SendTyped DEF RowsTyped
  <2> QED
    BY <1>0, <2>1, <2>4, SessionMoves, RowsStill, WorkStill, JobsStill
<1>6. CASE AdvanceLoad(w) \/ FailureLoad(w)
  <2>1. /\ \/ LoadThen(w, "ack") \/ LoadThen(w, "announce_completed")
           \/ LoadThen(w, "advance_commit")
           \/ pc[w] = "failure" /\ LoadThen(w, "failure_commit")
        /\ UNCHANGED <<current_step, step_status, executed, queue>>
    BY <1>6 DEF AdvanceLoad, FailureLoad, db
  <2>2. pc[w] = "failure" => job[w].task = "failure"
    BY <1>0 DEF JobsMatch
  <2> QED
    BY <1>0, <2>1, <2>2, SessionMoves, RowsStill, WorkStill, JobsStill
<1>7. CASE AnnounceCompleted(w) \/ Touch(w) \/ AnnounceFailed(w)
  <2>1. /\ Goto(w, "advance_commit") \/ Goto(w, "ack")
        /\ UNCHANGED <<current_step, step_status, executed, queue>>
    BY <1>7 DEF AnnounceCompleted, Touch, AnnounceFailed, db
  <2> QED
    BY <1>0, <2>1, SessionMoves, RowsStill, WorkStill, JobsStill
<1>8. CASE AdvanceCommit(w)
  <2> DEFINE cur == seen[w].current
             done == [step_status EXCEPT ![cur] =
                        Put(seen[w].steps[cur], step_status[cur], "completed")]
  <2>1. UNCHANGED <<executed, queue>>
    BY <1>8 DEF AdvanceCommit
  <2>2. cur \in Rows /\ \A q \in Rows : q < cur => Touched(q)
    BY <1>0, SeenTyped DEF SeenTouched
  <2>3. /\ done \in [Rows -> StepStatus] /\ done[cur] # "pending"
        /\ \A q \in Rows : Touched(q) => done[q] # "pending"
        /\ \A q \in Rows : q # cur => done[q] = step_status[q]
    <3>1. "completed" \in StepStatus \ {"pending"}
      BY DEF StepStatus
    <3>2. step_status \in [Rows -> StepStatus]
      BY DEF RowsTyped
    <3>3. \A q \in Rows : Touched(q) => step_status[q] # "pending"
      BY DEF Touched
    <3>4. done = [step_status EXCEPT ![cur] =
                    Put(seen[w].steps[cur], step_status[cur], "completed")]
      OBVIOUS
    <3> HIDE DEF done
    <3> QED
      BY <1>0, <2>2, <3>1, <3>2, <3>3, <3>4, Marking DEF Touched
  <2>4. \A q \in Rows : q <= cur => done[q] # "pending"
    BY <2>2, <2>3 DEF Rows
  <2>5. CASE IsLast(w)
    <3>1. step_status' = done /\ Goto(w, "ack") /\ UNCHANGED current_step
      BY <1>8, <2>5 DEF AdvanceCommit
    <3>2. \A q \in Rows : q < current_step' => step_status'[q] # "pending"
      BY <2>3, <3>1 DEF RowsInOrder
    <3>3. \A q \in Rows : step_status'[q] # "pending" /\ ~Touched(q) => q = cur
      BY <2>3, <3>1 DEF Touched
    <3>4. RowsInOrder'
      BY <2>1, <2>2, <2>3, <3>1, <3>2, <3>3, RowsMarked
    <3> QED
      BY <1>0, <2>1, <2>3, <3>1, <3>4, SeenMarked, WorkMarked, JobsStill
  <2>6. CASE ~IsLast(w)
    <3>1. /\ current_step' = cur + 1 /\ Goto(w, "send_step") /\ Target(w) = cur + 1
          /\ step_status' = [done EXCEPT ![cur + 1] =
                               Put(seen[w].steps[cur + 1], done[cur + 1], "running")]
      BY <1>8, <2>6 DEF AdvanceCommit, Target
    <3>2. cur + 1 \in Rows
      BY <1>0, <2>6, SeenTyped
    <3>3. /\ step_status'[cur + 1] # "pending"
          /\ \A q \in Rows : done[q] # "pending" => step_status'[q] # "pending"
          /\ \A q \in Rows : q # cur + 1 => step_status'[q] = done[q]
      <4>1. "running" \in StepStatus \ {"pending"}
        BY DEF StepStatus
      <4>2. step_status' = [done EXCEPT ![cur + 1] =
                              Put(seen[w].steps[cur + 1], done[cur + 1], "running")]
        BY <3>1
      <4> HIDE DEF done
      <4> QED
        BY <1>0, <2>3, <3>2, <4>1, <4>2, Marking
    <3>4. \A q \in Rows : q < cur + 1 => step_status'[q] # "pending"
      BY <2>2, <2>4, <3>3 DEF Rows
    <3>5. \A q \in Rows : step_status'[q] # "pending" /\ ~Touched(q)
                          => q = cur \/ q = cur + 1
      BY <2>3, <3>3 DEF Touched
    <3>6. \A q \in Rows : step_status'[q] # "pending" /\ ~Touched(q)
                          => \A o \in Rows : o < q => step_status'[o] # "pending"
      BY <2>2, <3>4, <3>5 DEF Rows
    <3>7. \A q \in Rows : Touched(q) => step_status'[q] # "pending"
      BY <2>3, <3>3
    <3>8. RowsInOrder'
      BY <2>1, <3>1, <3>4, <3>6, <3>7, RowsMarked
    <3> QED
      BY <1>0, <2>1, <3>1, <3>2, <3>3, <3>7, <3>8, SeenMarked, WorkMarked, JobsStill
  <2> QED
    BY <2>5, <2>6
<1>9. CASE SendStep(w)
  <2>1. /\ pc[w] = "send_step" /\ Goto(w, "touch") /\ Send(ExecuteMsg(Target(w), 0))
        /\ UNCHANGED <<current_step, step_status, executed>>
    BY <1>9 DEF SendStep, db
  <2>2. Touched(ExecuteMsg(Target(w), 0).step)
    BY <1>0, <2>1 DEF WorkTouched, ExecuteMsg
  <2>3. \A m \in Messages : queue'[m] > 0 => queue[m] > 0 \/ Touched(m.step)
    BY <2>1, <2>2, SendTyped DEF RowsTyped
  <2> QED
    BY <1>0, <2>1, <2>3, SessionMoves, RowsStill, WorkStill, JobsStill
<1>10. CASE FailureCommit(w)
  <2> DEFINE r == job[w].step
  <2>1. /\ pc[w] = "failure_commit" /\ Goto(w, "announce_failed")
        /\ UNCHANGED <<current_step, executed, queue>>
        /\ step_status' = [step_status EXCEPT ![r] =
                             Put(seen[w].steps[r], step_status[r], "failed")]
    BY <1>10 DEF FailureCommit
  <2>2. r \in Rows /\ Touched(r)
    BY <1>0, <2>1, SeenTyped DEF JobsMatch, WorkTouched
  <2>3. /\ \A q \in Rows : Touched(q) => step_status'[q] # "pending"
        /\ \A q \in Rows : q # r => step_status'[q] = step_status[q]
    BY <1>0, <2>1, <2>2, Marking DEF RowsTyped, StepStatus, Touched
  <2>4. \A q \in Rows : step_status'[q] # "pending" => Touched(q)
    BY <2>2, <2>3 DEF Touched
  <2>5. \A q \in Rows : q < current_step' => step_status'[q] # "pending"
    BY <2>1, <2>3 DEF RowsInOrder
  <2>6. RowsInOrder'
    BY <2>1, <2>3, <2>4, <2>5, RowsMarked
  <2> QED
    BY <1>0, <2>1, <2>3, <2>6, SeenMarked, WorkMarked, JobsStill
<1> QED
  BY <1>1, <1>2, <1>3, <1>4, <1>5, <1>6, <1>7, <1>8, <1>9, <1>10 DEF WorkerStep

\* and so does a fault.
LEMMA LeadFault ==
    ASSUME RowsTyped, SessionsTyped, Lead, NEW p \in Procs,
           \/ p \in Workers /\ (StepError(p) \/ Crash(p) \/ TimeLimit(p))
           \/ p \in ApiProcs /\ ApiCrash(p)
           \/ DbError(p) \/ BrokerError(p)
    PROVE  Lead'
<1> USE DEF Lead
<1>1. CASE StepError(p)
  <2>1. /\ pc[p] \in {"execute", "send_advance"} /\ Goto(p, "send_failure")
        /\ UNCHANGED <<current_step, step_status, executed, queue>>
    BY <1>1 DEF StepError, db
  <2>2. job[p].task = "execute"
    BY <2>1 DEF JobsMatch
  <2> QED
    BY <2>1, <2>2, SessionMoves, RowsStill, WorkStill, JobsStill
<1>2. CASE DbError(p)
  <2>1. /\ Goto(p, "retry") \/ Goto(p, "ack") \/ Finish(p)
        /\ UNCHANGED <<current_step, step_status, executed, queue>>
    BY <1>2 DEF DbError, db
  <2> QED
    BY <2>1, SessionMoves, RowsStill, WorkStill, JobsStill
<1>3. CASE BrokerError(p)
  <2>1. /\ \/ pc[p] = "send_advance" /\ Goto(p, "send_failure")
           \/ Goto(p, "touch") \/ Goto(p, "ack") \/ Finish(p)
        /\ UNCHANGED <<current_step, step_status, executed, queue>>
    BY <1>3 DEF BrokerError, db
  <2>2. pc[p] = "send_advance" => job[p].task = "execute"
    BY DEF JobsMatch
  <2> QED
    BY <2>1, <2>2, SessionMoves, RowsStill, WorkStill, JobsStill
<1>4. CASE Crash(p)
  <2>1. Finish(p) /\ Send(job[p]) /\ UNCHANGED <<current_step, step_status, executed>>
    BY <1>4 DEF Crash, db
  <2>2. \A m \in Messages : m = job[p] /\ m.task # "advance" => Touched(m.step)
    BY JobStep DEF WorkTouched
  <2>3. \A m \in Messages : queue'[m] > 0 /\ m.task # "advance"
                              => queue[m] > 0 \/ Touched(m.step)
    BY <2>1, <2>2, SendTyped DEF RowsTyped
  <2> QED
    BY <2>1, <2>3, SessionMoves, RowsStill, WorkStill, JobsStill
<1>5. CASE TimeLimit(p) \/ ApiCrash(p)
  <2>1. Finish(p) /\ UNCHANGED <<current_step, step_status, executed, queue>>
    BY <1>5 DEF TimeLimit, ApiCrash, db
  <2> QED
    BY <2>1, SessionMoves, RowsStill, WorkStill, JobsStill
<1> QED
  BY <1>1, <1>2, <1>3, <1>4, <1>5

\* The lead is inductive.
LEMMA LeadNext == TypeOK /\ Lead /\ [Next]_vars => Lead'
<1> SUFFICES ASSUME RowsTyped, SessionsTyped, Lead, [Next]_vars
             PROVE  Lead'
  BY TypeParts
<1>1. CASE CreateSteps \/ UNCHANGED vars
  <2>1. UNCHANGED <<pc, job, seen, queue, current_step, step_status, executed>>
    BY <1>1 DEF CreateSteps, sessions, vars
  <2>2. JobsMatch' /\ SeenTouched'
    BY <2>1 DEF Lead, JobsMatch, SeenTouched, Touched
  <2>3. WorkTouched'
    BY <2>1 DEF Lead, WorkTouched, Target, Touched
  <2> QED
    BY <2>1, <2>2, <2>3, RowsStill DEF Lead
<1>2. ASSUME NEW a \in ApiProcs,
             (\E op \in Ops : ApiLoad(a, op)) \/ ApiStep(a) \/ ApiCrash(a)
      PROVE  Lead'
  BY <1>2, LeadApi, LeadFault DEF Procs
<1>3. ASSUME NEW w \in Workers,
             \/ \E m \in Messages : Receive(w, m)
             \/ WorkerStep(w)
             \/ StepError(w) \/ Crash(w) \/ TimeLimit(w)
      PROVE  Lead'
  BY <1>3, LeadTask, LeadFault DEF Procs
<1>4. ASSUME NEW p \in Procs, DbError(p) \/ BrokerError(p)
      PROVE  Lead'
  BY <1>4, LeadFault
<1> QED
  BY <1>1, <1>2, <1>3, <1>4 DEF Next

\* Whatever fails, crashes or is redelivered, a step runs only after its row says
\* so, and the rows leave "pending" in order.
THEOREM RowsLead == Spec => []RowsLeadExecution
<1>1. Lead => RowsLeadExecution
  BY DEF Lead, RowsInOrder
<1> QED
  BY <1>1, InitTyped, NextTyped, LeadInit, LeadNext, PTL DEF Spec

-------------------------------------------------------------------------------
(* A pending workflow is untouched. *)

\* While the workflow is pending nobody is past an API handler's first commit.
PendingInv ==
    /\ PendingUntouched
    /\ status = "pending" => \A a \in ApiProcs : pc[a] \in {"idle"} \cup Ops

\* At first the workflow is pending and nobody works on it.
LEMMA PendingInit == Init => PendingInv
  BY DEF Init, PendingInv, PendingUntouched, Procs

\* Nothing a process does makes a workflow pending, or busies a pending one.
LEMMA PendingNext == TypeOK /\ PendingInv /\ [Next]_vars => PendingInv'
<1> SUFFICES ASSUME RowsTyped, SessionsTyped, PendingInv, [Next]_vars, status' = "pending"
             PROVE  PendingInv'
  BY TypeParts DEF PendingInv, PendingUntouched
<1> DEFINE Quiet ==
        /\ status = "pending"
        /\ UNCHANGED <<executed, step_status, queue, announced>>
        /\ \A w \in Workers : pc'[w] = pc[w]
        /\ \A a \in ApiProcs : pc'[a] = pc[a] \/ pc'[a] \in {"idle"} \cup Ops
<1>0. Quiet => PendingInv'
  BY DEF PendingInv, PendingUntouched
<1> USE EngineAssumption DEF PendingInv, PendingUntouched, Procs
<1>1. CASE CreateSteps \/ UNCHANGED vars
  BY <1>0, <1>1 DEF CreateSteps, sessions, vars
<1>2. ASSUME NEW a \in ApiProcs,
             (\E op \in Ops : ApiLoad(a, op)) \/ ApiStep(a) \/ ApiCrash(a)
      PROVE  Quiet
  <2>1. ASSUME NEW op \in Ops, ApiLoad(a, op)
        PROVE  Quiet
    BY <2>1 DEF ApiLoad, LoadThen, db, SessionsTyped
  <2>2. ~(StartCommit(a) \/ ResumeCommit(a) \/ PauseCommit(a) \/ CancelCommit(a))
    BY DEF StartCommit, ResumeCommit, PauseCommit, CancelCommit
  <2>3. ~(Refresh(a) \/ EnqueueCommit(a) \/ SendStep(a))
    BY DEF Refresh, EnqueueCommit, SendStep, db, Ops
  <2>4. CASE ApiCrash(a)
    BY <2>4 DEF ApiCrash, Finish, db, SessionsTyped
  <2> QED
    BY <1>2, <2>1, <2>2, <2>3, <2>4 DEF ApiStep
<1>3. ASSUME NEW w \in Workers
      PROVE  ~(\/ \E m \in Messages : Receive(w, m)
               \/ WorkerStep(w)
               \/ StepError(w) \/ Crash(w) \/ TimeLimit(w))
  <2>1. \A m \in Messages : ~Receive(w, m)
    BY DEF Receive, db
  <2>2. ~(Ack(w) \/ Dispatch(w) \/ SendAdvance(w) \/ SendFailure(w) \/ Retry(w)
          \/ AdvanceLoad(w) \/ AnnounceCompleted(w) \/ SendStep(w) \/ Touch(w)
          \/ FailureLoad(w) \/ AnnounceFailed(w))
    BY DEF Ack, Dispatch, SendAdvance, SendFailure, Retry, AdvanceLoad,
           AnnounceCompleted, SendStep, Touch, FailureLoad, AnnounceFailed, db
  <2>3. ~AdvanceCommit(w)
    BY DEF AdvanceCommit
  <2>4. ~FailureCommit(w)
    BY DEF FailureCommit, Put
  <2>5. ~(StepError(w) \/ Crash(w) \/ TimeLimit(w))
    BY DEF StepError, Crash, TimeLimit, db
  <2> QED
    BY <2>1, <2>2, <2>3, <2>4, <2>5 DEF WorkerStep
<1>4. ASSUME NEW p \in Procs, DbError(p) \/ BrokerError(p)
      PROVE  Quiet
  <2>1. status = "pending" /\ UNCHANGED <<executed, step_status, queue, announced>>
    BY <1>4 DEF DbError, BrokerError, db
  <2>2. p \notin Workers
    BY <1>4, <2>1 DEF DbError, BrokerError
  <2>3. Finish(p)
    BY <1>4, <2>2 DEF DbError, BrokerError
  <2> QED
    BY <2>1, <2>2, <2>3 DEF Finish, SessionsTyped
<1> QED
  BY <1>0, <1>1, <1>2, <1>3, <1>4 DEF Next

\* Before a start takes effect there is no message, no busy worker, no executed
\* step and no announcement.
THEOREM PendingStaysUntouched == Spec => []PendingUntouched
<1>1. PendingInv => PendingUntouched
  BY DEF PendingInv
<1> QED
  BY <1>1, InitTyped, NextTyped, PendingInit, PendingNext, PTL DEF Spec
===============================================================================
