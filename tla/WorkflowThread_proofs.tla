------------------------ MODULE WorkflowThread_proofs ------------------------
(***************************************************************************)
(* Proofs about WorkflowEngine while no task is sent again after its       *)
(* commit (Unrepeated), and while a lost worker gives its message back     *)
(* (Redelivering).  They go on from the types and the lead proved in       *)
(* WorkflowEngine_proofs.                                                  *)
(*                                                                         *)
(* Three inductive invariants carry them.  ThreadInv: an execution or an   *)
(* advance is with one process or in one message at a time, what that      *)
(* process has read is where the workflow is, and the steps executed are   *)
(* those before its position and perhaps the one at it.  Carried: while    *)
(* the status is running, some process or message will move it on.         *)
(* Earned: every position that the row has, or that a session has read, is *)
(* covered by executions that no advance under way still needs.            *)
(***************************************************************************)
EXTENDS WorkflowEngine_proofs, FiniteSetTheorems

-------------------------------------------------------------------------------
(* One thread of control. *)

\* Where a task may be, by the message it holds, when no database error sends an
\* advance or a failure to its retry.
Places(task) ==
    CASE task = "execute" -> {"execute", "send_advance", "send_failure", "retry", "ack"}
      [] task = "advance" -> {"advance", "announce_completed", "advance_commit",
                              "send_step", "touch", "ack"}
      [] task = "failure" -> {"failure", "failure_commit", "announce_failed", "ack"}
      [] OTHER -> {"idle"}

TasksPlaced == \A w \in Workers : pc[w] \in Places(job[w].task)

\* Process p holds the thread: it will execute the current step or pass it.
Holds(p) ==
    \/ p \in Workers /\ Drives(job[p]) /\ pc[p] \notin {"touch", "ack"}
    \/ p \in ApiProcs /\ pc[p] \in {"start", "refresh", "enqueue", "send_step"}

\* The thread is with one process or in one message, or has not been started.
Sole ==
    /\ \A p, q \in Procs : Holds(p) /\ Holds(q) => p = q
    /\ \A p \in Procs, m \in Messages : Holds(p) /\ Drives(m) => queue[m] = 0
    /\ \A m, n \in Messages :
         Drives(m) /\ Drives(n) /\ queue[m] > 0 /\ queue[n] > 0 => m = n /\ queue[m] = 1
    /\ ops_left["start"] > 0 =>
         /\ ops_left["start"] = 1
         /\ \A p \in Procs : ~Holds(p)
         /\ \A m \in Messages : Drives(m) => queue[m] = 0
    /\ ops_left["resume"] = 0 /\ \A a \in ApiProcs : pc[a] # "resume"

\* Process p will have the current step executed.
Heads(p) ==
    \/ p \in Workers /\ job[p].task = "execute" /\ pc[p] \in {"execute", "send_failure", "retry"}
    \/ p \in Workers /\ pc[p] = "send_step"
    \/ p \in ApiProcs /\ pc[p] \in {"start", "refresh", "enqueue", "send_step"}

\* What the thread has read and names is the workflow's position, and an advance
\* passes a step that was executed.
ProcAt(p) ==
    /\ p \in ApiProcs =>
         /\ pc[p] = "start" => seen[p].current = 0
         /\ pc[p] \in {"enqueue", "send_step"} => seen[p].current = current_step
    /\ p \in Workers =>
         /\ job[p].task = "execute" /\ pc[p] # "ack" => job[p].step = current_step
         /\ pc[p] \in {"send_advance", "advance", "announce_completed", "advance_commit"}
              => executed[current_step] > 0
         /\ pc[p] \in {"announce_completed", "advance_commit"} => seen[p].current = current_step
         /\ pc[p] = "announce_completed" => IsLast(p)
         /\ pc[p] = "send_step" => seen[p].current + 1 = current_step
    /\ Heads(p) /\ faults_left = MaxFaults => executed[current_step] = 0

MessageAt(m) ==
    /\ m.task = "execute" =>
         /\ m.step = current_step
         /\ faults_left = MaxFaults => executed[current_step] = 0
    /\ m.task = "advance" => executed[current_step] > 0

ThreadAt ==
    /\ \A p \in Procs : ProcAt(p)
    /\ \A m \in Messages : queue[m] > 0 => MessageAt(m)

\* The executed steps are those before the position and perhaps the one at it.
ExecutedUpTo ==
    /\ \A q \in Rows : q < current_step => executed[q] > 0
    /\ \A q \in Rows : executed[q] > 0 => q <= current_step
    /\ CompletedMeansExecuted
    /\ faults_left <= MaxFaults
    /\ ExactlyOnce

ThreadInv == Sole /\ ThreadAt /\ ExecutedUpTo

\* Nothing sends a task again after its commit.
Unrepeated == FaultKinds \cap {"crash", "db_error"} = {}

\* The environment in which the thread stays one: in addition, the workflow is started
\* once and not resumed.
Undisturbed ==
    /\ Unrepeated
    /\ OpBudget["start"] <= 1 /\ OpBudget["resume"] = 0

\* Only process p moves.
Alone(p) ==
    \A q \in Procs \ {p} : pc'[q] = pc[q] /\ job'[q] = job[q] /\ seen'[q] = seen[q]

\* What Goto, LoadThen and Finish do to process p, and to no other.
LEMMA MovesAlone ==
    ASSUME SessionsTyped, NEW p \in Procs, NEW next
    PROVE  /\ Goto(p, next) =>
                Alone(p) /\ pc'[p] = next /\ job'[p] = job[p] /\ seen'[p] = seen[p]
           /\ LoadThen(p, next) =>
                Alone(p) /\ pc'[p] = next /\ job'[p] = job[p] /\ seen'[p] = Loaded
           /\ Finish(p) =>
                Alone(p) /\ pc'[p] = "idle" /\ job'[p] = NoJob /\ seen'[p] = Blank
  BY DEF SessionsTyped, Goto, LoadThen, Finish, Alone

\* Sending a message that waits already, or one that does not.
LEMMA SendCounts ==
    ASSUME RowsTyped, NEW m, Send(m)
    PROVE  \A k \in Messages : queue'[k] = IF k = m THEN queue[k] + 1 ELSE queue[k]
  BY DEF RowsTyped, Send

\* Workers are where their message says, at first and after every step.
LEMMA PlacedInit == Init => TasksPlaced
  BY DEF Init, TasksPlaced, Places, NoJob, Procs

\* A worker is always at one of the places of its task.
LEMMA PlacedNext ==
    ASSUME "db_error" \notin FaultKinds
    PROVE  TypeOK /\ TasksPlaced /\ [Next]_vars => TasksPlaced'
<1> SUFFICES ASSUME SessionsTyped, TasksPlaced, [Next]_vars
             PROVE  TasksPlaced'
  BY TypeParts
<1> USE DEF Alone
<1>1. ASSUME NEW p \in Procs, Alone(p), p \in Workers => pc'[p] \in Places(job'[p].task)
      PROVE  TasksPlaced'
  BY <1>1 DEF TasksPlaced, Procs
<1>2. CASE CreateSteps \/ UNCHANGED vars
  BY <1>2 DEF CreateSteps, sessions, vars, TasksPlaced
<1>3. ASSUME NEW a \in ApiProcs,
             \/ (\E op \in Ops : ApiLoad(a, op)) \/ ApiStep(a) \/ ApiCrash(a)
             \/ DbError(a) \/ BrokerError(a)
      PROVE  TasksPlaced'
  <2>1. a \in Procs /\ a \notin Workers
    BY EngineAssumption DEF Procs
  <2>2. (\E next : Goto(a, next) \/ LoadThen(a, next)) \/ Finish(a)
    BY <1>3, <2>1 DEF ApiStep, ApiLoad, StartCommit, ResumeCommit, PauseCommit, CancelCommit,
       Refresh, EnqueueCommit, SendStep, ApiCrash, DbError, BrokerError
  <2> QED
    BY <1>1, <2>1, <2>2, MovesAlone
<1>4. ASSUME NEW w \in Workers,
             \/ \E m \in Messages : Receive(w, m)
             \/ WorkerStep(w)
             \/ StepError(w) \/ Crash(w) \/ TimeLimit(w) \/ DbError(w) \/ BrokerError(w)
      PROVE  TasksPlaced'
  <2>1. w \in Procs /\ pc[w] \in Places(job[w].task)
    BY DEF Procs, TasksPlaced
  <2>2. ASSUME NEW m \in Messages, Receive(w, m) PROVE TasksPlaced'
    <3>1. Alone(w) /\ pc'[w] = m.task /\ job'[w] = m
      BY <2>1, <2>2 DEF Receive, SessionsTyped
    <3> QED
      BY <1>1, <2>1, <3>1, JobStep DEF Places
  <2>3. ASSUME NEW next, Goto(w, next) \/ LoadThen(w, next), next \in Places(job[w].task)
        PROVE  TasksPlaced'
    BY <1>1, <2>1, <2>3, MovesAlone
  <2>4. ASSUME Finish(w) PROVE TasksPlaced'
    <3>1. Alone(w) /\ pc'[w] = "idle" /\ job'[w] = NoJob
      BY <2>1, <2>4, MovesAlone
    <3>2. pc'[w] \in Places(job'[w].task)
      BY <3>1 DEF Places, NoJob
    <3> QED
      BY <1>1, <2>1, <3>1, <3>2
  <2>5. CASE Dispatch(w) \/ SendAdvance(w) \/ SendFailure(w) \/ Retry(w) \/ StepError(w)
    BY <2>1, <2>3, <2>5 DEF Dispatch, SendAdvance, SendFailure, Retry, StepError, Places
  <2>6. CASE AdvanceLoad(w) \/ AnnounceCompleted(w) \/ AdvanceCommit(w) \/ SendStep(w) \/ Touch(w)
    <3>1. job[w].task = "advance"
      BY <2>1, <2>6 DEF AdvanceLoad, AnnounceCompleted, AdvanceCommit, SendStep, Touch, Places
    <3>2. \E next \in Places("advance") : Goto(w, next) \/ LoadThen(w, next)
      BY <2>6 DEF AdvanceLoad, AnnounceCompleted, AdvanceCommit, SendStep, Touch, Places
    <3> QED
      BY <2>3, <3>1, <3>2
  <2>7. CASE FailureLoad(w) \/ FailureCommit(w) \/ AnnounceFailed(w)
    BY <2>1, <2>3, <2>7 DEF FailureLoad, FailureCommit, AnnounceFailed, Places
  <2>8. CASE BrokerError(w)
    BY <2>1, <2>3, <2>8 DEF BrokerError, Places
  <2>9. CASE Ack(w) \/ Crash(w) \/ TimeLimit(w)
    BY <2>4, <2>9 DEF Ack, Crash, TimeLimit
  <2>10. ~DbError(w)
    BY DEF DbError, Fault
  <2> QED
    BY <1>4, <2>2, <2>5, <2>6, <2>7, <2>8, <2>9, <2>10 DEF WorkerStep
<1> QED
  BY <1>2, <1>3, <1>4 DEF Next, Procs

\* A set without two different members has at most one.
LEMMA AtMostOne ==
    ASSUME NEW S, \A x, y \in S : x = y
    PROVE  Cardinality(S) \in {0, 1}
<1>1. CASE S = {}
  BY <1>1, FS_EmptySet
<1>2. ASSUME NEW x \in S PROVE Cardinality(S) = 1
  <2>1. S = {x}
    BY <1>2
  <2> QED
    BY <2>1, FS_Singleton
<1> QED
  BY <1>1, <1>2

\* The thread has not been started.
LEMMA ThreadInit == Undisturbed /\ Init => ThreadInv
<1> SUFFICES ASSUME Undisturbed, Init PROVE ThreadInv
  OBVIOUS
<1>0. /\ \A p \in Procs : pc[p] = "idle" /\ job[p].task = "none"
      /\ \A m \in Messages : queue[m] = 0
      /\ \A p \in Procs : p \in Workers \/ p \in ApiProcs
      /\ Workers \subseteq Procs /\ ApiProcs \subseteq Procs
  BY DEF Init, NoJob, Procs
<1>2. Sole
  <2>1. \A p \in Procs : ~Holds(p)
    BY <1>0 DEF Holds, Drives
  <2>2. ops_left["start"] \in Nat /\ ops_left["start"] <= 1 /\ ops_left["resume"] = 0
    BY EngineAssumption DEF Init, Undisturbed, Ops
  <2> QED
    BY <1>0, <2>1, <2>2 DEF Sole
<1>3. ThreadAt
  BY <1>0 DEF ThreadAt, ProcAt, Heads
<1>4. ExecutedUpTo
  BY EngineAssumption DEF Init, ExecutedUpTo, CompletedMeansExecuted, ExactlyOnce, Rows
<1> QED
  BY <1>2, <1>3, <1>4 DEF ThreadInv

\* A step of one process that executes nothing and keeps the position: who holds the
\* thread afterwards held it before, and sends it on only by letting it go.
LEMMA ThreadMoves ==
    ASSUME RowsTyped, SessionsTyped, TasksPlaced, ThreadInv, NEW p \in Procs, NEW m, Alone(p),
           UNCHANGED <<current_step, executed>>,
           \A op \in {"start", "resume"} : ops_left'[op] = ops_left[op],
           faults_left' = faults_left \/ faults_left' = faults_left - 1,
           UNCHANGED queue \/ Send(m),
           status' = "completed" \/ "completed" \in announced' =>
               \/ status = "completed" \/ "completed" \in announced
               \/ IsLast(p) /\ seen[p].current = current_step /\ executed[current_step] > 0,
           p \in ApiProcs => pc'[p] # "resume",
           Holds(p)' => Holds(p),
           ProcAt(p)',
           UNCHANGED queue \/ m \notin Messages \/ MessageAt(m),
           UNCHANGED queue \/ m \notin Messages \/ ~Drives(m) \/ (Holds(p) /\ ~Holds(p)')
    PROVE  ThreadInv'
<1> USE DEF ThreadInv
<1>0. /\ faults_left <= MaxFaults /\ faults_left' <= MaxFaults
      /\ faults_left' = MaxFaults => faults_left = MaxFaults
      /\ \A k \in Messages : queue[k] \in Nat
  BY EngineAssumption DEF RowsTyped, ExecutedUpTo
<1>2. \A q \in Procs \ {p} : Holds(q)' <=> Holds(q)
  BY DEF Holds, Alone
<1>3. \A k \in Messages : Drives(k) =>
        \/ queue'[k] = queue[k]
        \/ queue'[k] = queue[k] + 1 /\ k = m /\ Holds(p) /\ ~Holds(p)'
  BY SendCounts
<1>4. Sole'
  <2>1. \A q, o \in Procs : Holds(q)' /\ Holds(o)' => q = o
    BY <1>2 DEF Sole
  <2>2. \A q \in Procs, k \in Messages : Holds(q)' /\ Drives(k) => queue'[k] = 0
    BY <1>2, <1>3 DEF Sole
  <2>3. \A k, n \in Messages :
          Drives(k) /\ Drives(n) /\ queue'[k] > 0 /\ queue'[n] > 0 => k = n /\ queue'[k] = 1
    <3> SUFFICES ASSUME NEW k \in Messages, NEW n \in Messages, Drives(k), Drives(n),
                        queue'[k] > 0, queue'[n] > 0
                 PROVE  k = n /\ queue'[k] = 1
      OBVIOUS
    <3>1. CASE Holds(p)
      BY <1>3, <3>1 DEF Sole
    <3>2. CASE ~Holds(p)
      BY <1>3, <3>2 DEF Sole
    <3> QED
      BY <3>1, <3>2
  <2>4. ops_left'["start"] > 0 =>
          /\ ops_left'["start"] = 1
          /\ \A q \in Procs : ~Holds(q)'
          /\ \A k \in Messages : Drives(k) => queue'[k] = 0
    BY <1>2, <1>3 DEF Sole
  <2>5. ops_left'["resume"] = 0 /\ \A a \in ApiProcs : pc'[a] # "resume"
    BY DEF Sole, Alone, Procs
  <2>6. \A k : Drives(k)' <=> Drives(k)
    BY DEF Drives
  <2> QED
    BY <2>1, <2>2, <2>3, <2>4, <2>5 DEF Sole
<1>5. ThreadAt'
  <2>1. \A q \in Procs \ {p} : ProcAt(q)'
    BY <1>0 DEF ThreadAt, ProcAt, Alone, Heads, IsLast
  <2>2. \A k \in Messages : MessageAt(k) => MessageAt(k)'
    BY <1>0 DEF MessageAt
  <2>3. \A k \in Messages : queue'[k] > 0 => MessageAt(k)'
    BY <2>2, SendCounts DEF ThreadAt
  <2> QED
    BY <2>1, <2>3 DEF ThreadAt
<1>6. ExecutedUpTo'
  <2>1. CompletedMeansExecuted'
    <3>1. ASSUME IsLast(p), seen[p].current = current_step, executed[current_step] > 0
          PROVE  \A r \in Rows : executed[r] > 0
      <4>1. current_step + 1 >= NumSteps /\ current_step \in Rows
        BY <3>1 DEF IsLast, RowsTyped
      <4>2. \A r \in Rows : r < current_step \/ r = current_step
        BY <4>1, EngineAssumption DEF Rows
      <4> QED
        BY <3>1, <4>2 DEF ExecutedUpTo
    <3> QED
      BY <3>1 DEF ExecutedUpTo, CompletedMeansExecuted
  <2>2. ExactlyOnce'
    BY <1>0 DEF ExecutedUpTo, ExactlyOnce
  <2> QED
    BY <1>0, <2>1, <2>2 DEF ExecutedUpTo
<1> QED
  BY <1>4, <1>5, <1>6

\* The handlers of the API: to start the workflow is to begin its only thread.
LEMMA ThreadApi ==
    ASSUME RowsTyped, SessionsTyped, Lead, PendingInv, TasksPlaced, ThreadInv, NEW a \in ApiProcs,
           (\E op \in Ops : ApiLoad(a, op)) \/ ApiStep(a)
    PROVE  ThreadInv'
<1> USE DEF Alone
<1>0. /\ a \in Procs /\ a \notin Workers
      /\ ops_left \in [Ops -> Nat] /\ current_step \in Rows
      /\ pc[a] # "resume" /\ ops_left["resume"] = 0
  BY EngineAssumption DEF Procs, RowsTyped, ThreadInv, Sole
<1>1. ProcAt(a)
  BY <1>0 DEF ThreadInv, ThreadAt
<1>2. ASSUME NEW op \in {"pause", "cancel"}, ApiLoad(a, op)
      PROVE  ThreadInv'
  <2>1. /\ Alone(a) /\ pc'[a] = op /\ job'[a] = job[a] /\ pc[a] = "idle"
        /\ UNCHANGED <<status, current_step, executed, announced, queue, faults_left>>
        /\ \A o \in {"start", "resume"} : ops_left'[o] = ops_left[o]
    BY <1>0, <1>2, MovesAlone DEF ApiLoad, db, Ops
  <2>2. ~Holds(a)' /\ ProcAt(a)'
    BY <1>0, <2>1 DEF Holds, ProcAt, Heads
  <2> QED
    BY <1>0, <2>1, <2>2, ThreadMoves
<1>3. ASSUME ApiLoad(a, "start")
      PROVE  ThreadInv'
  <2>1. /\ Alone(a) /\ pc'[a] = "start" /\ job'[a] = job[a] /\ seen'[a] = Loaded
        /\ UNCHANGED <<status, current_step, executed, announced, queue, faults_left>>
        /\ ops_left["start"] > 0 /\ ops_left'["start"] = ops_left["start"] - 1
        /\ ops_left'["resume"] = ops_left["resume"]
        /\ status = "pending"
    BY <1>0, <1>3, MovesAlone DEF ApiLoad, db, Ops, OpGuard
  <2>2. /\ \A p \in Procs : ~Holds(p)
        /\ \A m \in Messages : Drives(m) => queue[m] = 0
        /\ ops_left["start"] = 1
    BY <2>1 DEF ThreadInv, Sole
  <2>3. current_step = 0 /\ \A r \in Rows : executed[r] = 0
    <3>1. \A r \in Rows : executed[r] = 0 /\ ~Touched(r)
      BY <2>1 DEF PendingInv, PendingUntouched, Touched
    <3>2. ~(0 < current_step)
      BY <3>1, JobStep DEF Lead, RowsInOrder
    <3> QED
      BY <1>0, <3>1, <3>2 DEF Rows
  <2>4. \A p \in Procs \ {a} : (Holds(p)' <=> Holds(p)) /\ (Heads(p)' <=> Heads(p))
    BY <2>1 DEF Holds, Heads
  <2>6. Sole'
    <3>1. \A p \in Procs : Holds(p)' => p = a
      BY <2>2, <2>4
    <3>2. ops_left'["start"] = 0 /\ ops_left'["resume"] = 0
      BY <1>0, <2>1, <2>2
    <3>3. \A o \in ApiProcs : pc'[o] # "resume"
      BY <1>0, <2>1 DEF ThreadInv, Sole, Procs
    <3>4. \A m \in Messages : Drives(m) => queue'[m] = 0
      BY <2>1, <2>2
    <3> QED
      BY <3>1, <3>2, <3>3, <3>4 DEF Sole
  <2>7. ThreadAt'
    <3>1. ProcAt(a)'
      BY <1>0, <2>1, <2>3 DEF ProcAt, Heads, Loaded
    <3>2. \A p \in Procs \ {a} : ProcAt(p)'
      BY <2>1, <2>4 DEF ThreadInv, ThreadAt, ProcAt, IsLast
    <3>3. \A m \in Messages : MessageAt(m)' <=> MessageAt(m)
      BY <2>1 DEF MessageAt
    <3> QED
      BY <2>1, <3>1, <3>2, <3>3 DEF ThreadInv, ThreadAt
  <2>8. ExecutedUpTo'
    BY <2>1 DEF ThreadInv, ExecutedUpTo, CompletedMeansExecuted, ExactlyOnce
  <2> QED
    BY <2>6, <2>7, <2>8 DEF ThreadInv
<1>4. ~ApiLoad(a, "resume") /\ ~ResumeCommit(a)
  BY <1>0 DEF ApiLoad, ResumeCommit
<1>5. CASE StartCommit(a)
  <2>1. /\ pc[a] = "start" /\ Alone(a) /\ pc'[a] = "refresh" /\ job'[a] = job[a]
        /\ seen'[a] = seen[a] /\ status' = "running"
        /\ UNCHANGED <<executed, announced, queue, ops_left, faults_left>>
        /\ current_step' = Put(seen[a].current, current_step, 0)
    BY <1>0, <1>5, MovesAlone DEF StartCommit, bounds
  <2>2. seen[a].current = 0
    BY <1>1, <2>1 DEF ProcAt
  <2>3. UNCHANGED current_step
    BY <2>1, <2>2 DEF Put
  <2>4. Holds(a) /\ ProcAt(a)'
    BY <1>0, <1>1, <2>1, <2>3 DEF Holds, ProcAt, Heads
  <2> QED
    BY <1>0, <2>1, <2>3, <2>4, ThreadMoves
<1>6. CASE PauseCommit(a) \/ CancelCommit(a)
  <2>1. /\ Alone(a) /\ pc'[a] = "idle" /\ job'[a] = NoJob
        /\ UNCHANGED <<current_step, executed, announced, queue, ops_left, faults_left>>
        /\ status' # "completed"
    BY <1>0, <1>6, MovesAlone DEF PauseCommit, CancelCommit, bounds
  <2>2. ~Holds(a)' /\ ProcAt(a)'
    BY <1>0, <2>1 DEF Holds, ProcAt, Heads
  <2> QED
    BY <1>0, <2>1, <2>2, ThreadMoves
<1>7. CASE Refresh(a)
  <2>1. /\ pc[a] = "refresh" /\ Alone(a) /\ job'[a] \in {job[a], NoJob}
        /\ pc'[a] = "idle" \/ (pc'[a] = "enqueue" /\ seen'[a] = Loaded)
        /\ UNCHANGED <<status, current_step, executed, announced, queue, ops_left, faults_left>>
    BY <1>0, <1>7, MovesAlone DEF Refresh, db, bounds
  <2>2. Holds(a) /\ ProcAt(a)'
    BY <1>0, <1>1, <2>1 DEF Holds, ProcAt, Heads, Loaded
  <2> QED
    BY <1>0, <2>1, <2>2, ThreadMoves
<1>8. CASE EnqueueCommit(a)
  <2>1. /\ pc[a] = "enqueue" /\ Alone(a) /\ job'[a] = job[a]
        /\ pc'[a] = "send_step" /\ seen'[a] = seen[a]
        /\ UNCHANGED <<status, current_step, executed, announced, queue, ops_left, faults_left>>
    BY <1>0, <1>8, MovesAlone DEF EnqueueCommit, db, bounds
  <2>2. Holds(a) /\ ProcAt(a)'
    BY <1>0, <1>1, <2>1 DEF Holds, ProcAt, Heads
  <2> QED
    BY <1>0, <2>1, <2>2, ThreadMoves
<1>9. CASE SendStep(a)
  <2> DEFINE m == ExecuteMsg(Target(a), 0)
  <2>1. /\ pc[a] = "send_step" /\ Alone(a) /\ job'[a] = NoJob
        /\ pc'[a] = "idle" /\ Send(m)
        /\ UNCHANGED <<status, current_step, executed, announced, ops_left, faults_left>>
    BY <1>0, <1>9, MovesAlone DEF SendStep, db, bounds
  <2>2. Holds(a) /\ ~Holds(a)' /\ ProcAt(a)'
    BY <1>0, <1>1, <2>1 DEF Holds, ProcAt, Heads
  <2>3. MessageAt(m)
    <3>1. seen[a].current = current_step /\ (faults_left = MaxFaults => executed[current_step] = 0)
      BY <1>0, <1>1, <2>1 DEF ProcAt, Heads
    <3> QED
      BY <1>0, <3>1 DEF MessageAt, ExecuteMsg, Target
  <2> HIDE DEF m
  <2> QED
    BY <1>0, <2>1, <2>2, <2>3, ThreadMoves
<1> QED
  BY <1>2, <1>3, <1>4, <1>5, <1>6, <1>7, <1>8, <1>9 DEF ApiStep, Ops

\* A worker takes a message: the thread goes on in it, if the message drives.
LEMMA ThreadReceive ==
    ASSUME RowsTyped, SessionsTyped, TasksPlaced, ThreadInv, NEW w \in Workers, NEW m \in Messages,
           Receive(w, m)
    PROVE  ThreadInv'
<1> USE DEF Alone
<1>0. /\ w \in Procs /\ w \notin ApiProcs
      /\ pc[w] = "idle" /\ pc[w] \in Places(job[w].task)
      /\ \A k \in Messages : queue[k] \in Nat
      /\ m.task \in {"execute", "advance", "failure"}
  BY EngineAssumption, JobStep DEF Procs, RowsTyped, ThreadInv, TasksPlaced, Receive
<1>1. /\ Alone(w) /\ pc'[w] = m.task /\ job'[w] = m /\ seen' = seen
      /\ UNCHANGED <<status, current_step, executed, announced, ops_left, faults_left>>
      /\ queue[m] > 0 /\ queue'[m] = queue[m] - 1
      /\ \A k \in Messages \ {m} : queue'[k] = queue[k]
  BY <1>0 DEF Receive, SessionsTyped, RowsTyped, db, bounds
<1>2. \A q \in Procs \ {w} : (Holds(q)' <=> Holds(q)) /\ (Heads(q)' <=> Heads(q))
  BY <1>1 DEF Holds, Heads
<1>3. ~Holds(w) /\ (Holds(w)' => Drives(m))
  <2>1. ~Drives(job[w])
    BY <1>0 DEF Places, Drives
  <2> QED
    BY <1>0, <1>1, <2>1 DEF Holds, Drives
<1>5. Sole'
  <2>1. CASE Drives(m)
    <3>1. queue[m] = 1 /\ queue'[m] = 0
      BY <1>0, <1>1, <2>1 DEF ThreadInv, Sole
    <3>2. /\ \A q \in Procs : ~Holds(q)
          /\ \A k \in Messages \ {m} : Drives(k) => queue'[k] = 0
      BY <1>0, <1>1, <2>1 DEF ThreadInv, Sole
    <3>3. /\ \A q \in Procs : Holds(q)' => q = w
          /\ \A k \in Messages : Drives(k) => queue'[k] = 0
      BY <1>2, <3>1, <3>2
    <3>4. ~(ops_left["start"] > 0)
      BY <1>1, <2>1 DEF ThreadInv, Sole
    <3> QED
      BY <1>0, <1>1, <3>3, <3>4 DEF ThreadInv, Sole, Procs
  <2>2. CASE ~Drives(m)
    <3>1. \A q \in Procs : Holds(q)' => Holds(q)
      BY <1>2, <1>3, <2>2
    <3>2. \A k \in Messages : Drives(k) => queue'[k] = queue[k]
      BY <1>1, <2>2
    <3> QED
      BY <1>0, <1>1, <3>1, <3>2 DEF ThreadInv, Sole, Procs
  <2> QED
    BY <2>1, <2>2
<1>6. ThreadAt'
  <2>1. MessageAt(m)
    BY <1>1 DEF ThreadInv, ThreadAt
  <2>2. ProcAt(w)'
    BY <1>0, <1>1, <2>1 DEF ProcAt, Heads, MessageAt
  <2>3. \A q \in Procs \ {w} : ProcAt(q)'
    BY <1>1, <1>2 DEF ThreadInv, ThreadAt, ProcAt, IsLast
  <2>4. \A k \in Messages : queue'[k] > 0 => MessageAt(k)'
    BY <1>1 DEF ThreadInv, ThreadAt, MessageAt
  <2> QED
    BY <2>2, <2>3, <2>4 DEF ThreadAt
<1>7. ExecutedUpTo'
  BY <1>1 DEF ThreadInv, ExecutedUpTo, CompletedMeansExecuted, ExactlyOnce
<1> QED
  BY <1>5, <1>6, <1>7 DEF ThreadInv

\* The step at the position executes.
LEMMA ThreadDispatch ==
    ASSUME RowsTyped, SessionsTyped, TasksPlaced, ThreadInv, NEW w \in Workers, Dispatch(w)
    PROVE  ThreadInv'
<1> USE DEF Alone
<1>0. /\ w \in Procs /\ w \notin ApiProcs
      /\ pc[w] = "execute" /\ pc[w] \in Places(job[w].task)
      /\ current_step \in Rows /\ executed \in [Rows -> Nat]
  BY EngineAssumption DEF Procs, RowsTyped, ThreadInv, TasksPlaced, Dispatch
<1>1. job[w].task = "execute" /\ Holds(w) /\ Heads(w)
  BY <1>0 DEF Places, Holds, Drives, Heads
<1>2. job[w].step = current_step /\ (faults_left = MaxFaults => executed[current_step] = 0)
  BY <1>0, <1>1 DEF ThreadInv, ThreadAt, ProcAt
<1>3. CASE job[w].step \in Inputless
  <2>1. /\ Alone(w) /\ pc'[w] = "send_failure" /\ job'[w] = job[w] /\ seen'[w] = seen[w]
        /\ UNCHANGED <<status, current_step, executed, announced, queue, ops_left, faults_left>>
    BY <1>0, <1>3, MovesAlone DEF Dispatch, bounds
  <2>2. ProcAt(w)'
    BY <1>0, <1>1, <1>2, <2>1 DEF ProcAt, Heads, Places
  <2> QED
    BY <1>0, <1>1, <2>1, <2>2, ThreadMoves
<1>4. CASE job[w].step \notin Inputless
  <2>1. /\ Alone(w) /\ pc'[w] = "send_advance" /\ job'[w] = job[w] /\ seen'[w] = seen[w]
        /\ UNCHANGED <<status, current_step, announced, queue, ops_left, faults_left>>
        /\ executed' = [executed EXCEPT ![current_step] = executed[current_step] + 1]
    BY <1>0, <1>2, <1>4, MovesAlone DEF Dispatch, bounds
  <2>2. /\ executed'[current_step] = executed[current_step] + 1
        /\ \A r \in Rows \ {current_step} : executed'[r] = executed[r]
        /\ executed[current_step] \in Nat
    BY <1>0, <2>1
  <2>3. \A q \in Procs \ {w} : (Holds(q)' <=> Holds(q)) /\ (Heads(q)' <=> Heads(q))
    BY <2>1 DEF Holds, Heads
  <2>5. Sole'
    BY <1>0, <1>1, <2>1, <2>3 DEF ThreadInv, Sole, Procs
  <2>6. \A q \in Procs \ {w} : ~Holds(q) /\ ~Heads(q)
    <3>1. \A q \in Procs : Heads(q) => Holds(q)
      BY DEF ThreadInv, TasksPlaced, Heads, Holds, Places, Drives
    <3> QED
      BY <1>0, <1>1, <3>1 DEF ThreadInv, Sole
  <2>7. \A m \in Messages : queue[m] > 0 => m.task # "execute" /\ m.task # "advance"
    BY <1>0, <1>1 DEF ThreadInv, Sole, Drives
  <2>8. ThreadAt'
    <3>1. ProcAt(w)'
      BY <1>0, <1>1, <1>2, <2>1, <2>2 DEF ProcAt, Heads
    <3>2. \A q \in Procs \ {w} : ProcAt(q)'
      BY <1>0, <2>1, <2>2, <2>3, <2>6 DEF ThreadInv, ThreadAt, ProcAt, IsLast
    <3>3. \A m \in Messages : queue'[m] > 0 => MessageAt(m)'
      BY <2>1, <2>7 DEF MessageAt
    <3> QED
      BY <3>1, <3>2, <3>3 DEF ThreadAt
  <2>9. ExecutedUpTo'
    <3>1. /\ \A q \in Rows : q < current_step => executed'[q] > 0
          /\ \A q \in Rows : executed'[q] > 0 => q <= current_step
      BY <1>0, <2>2 DEF ThreadInv, ExecutedUpTo, Rows
    <3>2. CompletedMeansExecuted'
      BY <1>0, <2>1, <2>2 DEF ThreadInv, ExecutedUpTo, CompletedMeansExecuted
    <3>3. ExactlyOnce'
      BY <1>0, <1>2, <2>1, <2>2 DEF ThreadInv, ExecutedUpTo, ExactlyOnce
    <3> QED
      BY <2>1, <3>1, <3>2, <3>3 DEF ThreadInv, ExecutedUpTo
  <2> QED
    BY <2>5, <2>8, <2>9 DEF ThreadInv
<1> QED
  BY <1>3, <1>4

\* The position passes an executed step.
LEMMA ThreadAdvance ==
    ASSUME RowsTyped, SessionsTyped, TasksPlaced, ThreadInv, NEW w \in Workers, AdvanceCommit(w)
    PROVE  ThreadInv'
<1> USE DEF Alone
<1>0. /\ w \in Procs /\ w \notin ApiProcs
      /\ pc[w] = "advance_commit" /\ pc[w] \in Places(job[w].task)
      /\ current_step \in Rows /\ executed \in [Rows -> Nat]
  BY EngineAssumption DEF Procs, RowsTyped, ThreadInv, TasksPlaced, AdvanceCommit
<1>1. job[w].task = "advance" /\ Holds(w)
  BY <1>0 DEF Places, Holds, Drives
<1>2. seen[w].current = current_step /\ executed[current_step] > 0
  BY <1>0 DEF ThreadInv, ThreadAt, ProcAt
<1>3. CASE IsLast(w)
  <2>1. /\ Alone(w) /\ pc'[w] = "ack" /\ job'[w] = job[w] /\ seen'[w] = seen[w]
        /\ UNCHANGED <<current_step, executed, announced, queue, ops_left, faults_left>>
    BY <1>0, <1>3, MovesAlone DEF AdvanceCommit, bounds
  <2>2. ProcAt(w)' /\ ~Holds(w)'
    BY <1>0, <1>1, <1>2, <2>1 DEF ProcAt, Heads, Places, Holds
  <2> QED
    BY <1>0, <1>1, <1>2, <1>3, <2>1, <2>2, ThreadMoves
<1>4. CASE ~IsLast(w)
  <2>1. /\ Alone(w) /\ pc'[w] = "send_step" /\ job'[w] = job[w] /\ seen'[w] = seen[w]
        /\ UNCHANGED <<status, executed, announced, queue, ops_left, faults_left>>
        /\ current_step' = current_step + 1
    BY <1>0, <1>2, <1>4, MovesAlone DEF AdvanceCommit, bounds
  <2>2. current_step + 1 \in Rows
    BY <1>0, <1>2, <1>4, SeenTyped
  <2>3. executed[current_step + 1] = 0
    BY <1>0, <2>2 DEF ThreadInv, ExecutedUpTo, Rows
  <2>4. \A q \in Procs \ {w} : (Holds(q)' <=> Holds(q)) /\ (Heads(q)' <=> Heads(q))
    BY <2>1 DEF Holds, Heads
  <2>6. Sole'
    BY <1>0, <1>1, <2>1, <2>4 DEF ThreadInv, Sole, Procs
  <2>7. \A q \in Procs \ {w} : ~Holds(q) /\ ~Heads(q)
    <3>1. \A q \in Procs : Heads(q) => Holds(q)
      BY DEF ThreadInv, TasksPlaced, Heads, Holds, Places, Drives
    <3> QED
      BY <1>0, <1>1, <3>1 DEF ThreadInv, Sole
  <2>8. \A m \in Messages : queue[m] > 0 => m.task # "execute" /\ m.task # "advance"
    BY <1>0, <1>1 DEF ThreadInv, Sole, Drives
  <2>9. ThreadAt'
    <3>1. ProcAt(w)'
      BY <1>0, <1>1, <1>2, <2>1, <2>3 DEF ProcAt, Heads
    <3>2. \A q \in Procs \ {w} : q \in Workers =>
            /\ ~(job[q].task = "execute" /\ pc[q] # "ack")
            /\ pc[q] \notin {"send_advance", "advance", "announce_completed",
                             "advance_commit", "send_step"}
      BY <2>7 DEF ThreadInv, TasksPlaced, Places, Holds, Drives
    <3>3. \A q \in Procs \ {w} : q \in ApiProcs =>
            pc[q] \notin {"start", "refresh", "enqueue", "send_step"}
      BY <2>7 DEF Holds
    <3>4. \A q \in Procs \ {w} : ProcAt(q)'
      BY <2>1, <2>4, <2>7, <3>2, <3>3 DEF ProcAt
    <3>5. \A m \in Messages : queue'[m] > 0 => MessageAt(m)'
      BY <2>1, <2>8 DEF MessageAt
    <3> QED
      BY <3>1, <3>4, <3>5 DEF ThreadAt
  <2>10. ExecutedUpTo'
    <3>1. /\ \A q \in Rows : q < current_step + 1 => executed[q] > 0
          /\ \A q \in Rows : executed[q] > 0 => q <= current_step + 1
      <4>1. \A q \in Rows : q < current_step + 1 => q < current_step \/ q = current_step
        BY <1>0 DEF Rows
      <4>2. \A q \in Rows : q <= current_step => q <= current_step + 1
        BY <1>0 DEF Rows
      <4> QED
        BY <1>2, <4>1, <4>2 DEF ThreadInv, ExecutedUpTo
    <3> QED
      BY <2>1, <3>1 DEF ThreadInv, ExecutedUpTo, CompletedMeansExecuted, ExactlyOnce
  <2> QED
    BY <2>6, <2>9, <2>10 DEF ThreadInv
<1> QED
  BY <1>3, <1>4

\* The other steps of a task pass the thread on, keep it or end it.
LEMMA ThreadTask ==
    ASSUME RowsTyped, SessionsTyped, TasksPlaced, ThreadInv, NEW w \in Workers,
           (\E m \in Messages : Receive(w, m)) \/ WorkerStep(w)
    PROVE  ThreadInv'
<1> USE DEF Alone
<1>0. /\ w \in Procs /\ w \notin ApiProcs /\ pc[w] \in Places(job[w].task)
      /\ ProcAt(w)
  BY EngineAssumption DEF Procs, ThreadInv, TasksPlaced, ThreadAt
<1>1. CASE Ack(w)
  <2>1. /\ Alone(w) /\ pc'[w] = "idle" /\ job'[w] = NoJob
        /\ UNCHANGED <<status, current_step, executed, announced, queue, ops_left, faults_left>>
    BY <1>0, <1>1, MovesAlone DEF Ack, db, bounds
  <2>2. ProcAt(w)' /\ ~Holds(w)'
    BY <1>0, <2>1 DEF Places, ProcAt, Heads, Holds, Drives, NoJob
  <2> QED
    BY <1>0, <2>1, <2>2, ThreadMoves
<1>2. CASE SendAdvance(w)
  <2> DEFINE m == AdvanceMsg(0)
  <2>1. /\ pc[w] = "send_advance" /\ Alone(w) /\ pc'[w] = "ack" /\ job'[w] = job[w] /\ Send(m)
        /\ UNCHANGED <<status, current_step, executed, announced, ops_left, faults_left>>
    BY <1>0, <1>2, MovesAlone DEF SendAdvance, db, bounds
  <2>2. /\ ProcAt(w)'
        /\ Holds(w) /\ ~Holds(w)'
    BY <1>0, <2>1 DEF Places, ProcAt, Heads, Holds, Drives
  <2>3. MessageAt(m)
    BY <1>0, <2>1 DEF ProcAt, MessageAt, AdvanceMsg
  <2> HIDE DEF m
  <2> QED
    BY <1>0, <2>1, <2>2, <2>3, ThreadMoves
<1>3. CASE SendFailure(w)
  <2> DEFINE m == FailureMsg(job[w].step, 0)
  <2>1. /\ pc[w] = "send_failure" /\ Alone(w) /\ pc'[w] = "retry" /\ job'[w] = job[w] /\ Send(m)
        /\ UNCHANGED <<status, current_step, executed, announced, ops_left, faults_left>>
    BY <1>0, <1>3, MovesAlone DEF SendFailure, db, bounds
  <2>2. ProcAt(w)' /\ Holds(w)
    BY <1>0, <2>1 DEF Places, ProcAt, Heads, Holds, Drives
  <2>3. MessageAt(m) /\ ~Drives(m)
    BY DEF MessageAt, FailureMsg, Drives
  <2> HIDE DEF m
  <2> QED
    BY <1>0, <2>1, <2>2, <2>3, ThreadMoves
<1>4. CASE Retry(w)
  <2> DEFINE m == [job[w] EXCEPT !.tries = @ + 1]
  <2>1. /\ pc[w] = "retry" /\ Alone(w) /\ pc'[w] = "ack" /\ job'[w] = job[w]
        /\ UNCHANGED queue \/ Send(m)
        /\ UNCHANGED <<status, current_step, executed, announced, ops_left, faults_left>>
    BY <1>0, <1>4, MovesAlone DEF Retry, db, bounds
  <2>2. /\ ProcAt(w)' /\ job[w].task = "execute"
        /\ Holds(w) /\ ~Holds(w)'
    BY <1>0, <2>1 DEF Places, ProcAt, Heads, Holds, Drives
  <2>3. m.task = "execute" /\ m.step = job[w].step
    BY <2>2, JobStep DEF SessionsTyped, Messages, NoJob, ExecuteMsg, AdvanceMsg, FailureMsg
  <2>4. MessageAt(m)
    BY <1>0, <2>1, <2>2, <2>3 DEF MessageAt, ProcAt, Heads
  <2> HIDE DEF m
  <2> QED
    BY <1>0, <2>1, <2>2, <2>4, ThreadMoves
<1>5. CASE AdvanceLoad(w)
  <2>1. /\ pc[w] = "advance" /\ Alone(w) /\ job'[w] = job[w] /\ seen'[w] = Loaded
        /\ pc'[w] \in {"ack", "announce_completed", "advance_commit"}
        /\ pc'[w] = "announce_completed" => current_step + 1 >= NumSteps
        /\ UNCHANGED <<status, current_step, executed, announced, queue, ops_left, faults_left>>
    BY <1>0, <1>5, MovesAlone DEF AdvanceLoad, db, bounds
  <2>2. /\ ProcAt(w)' /\ Holds(w)
    BY <1>0, <2>1 DEF Places, ProcAt, Heads, Holds, Drives, Loaded, IsLast
  <2> QED
    BY <1>0, <2>1, <2>2, ThreadMoves
<1>6. CASE AnnounceCompleted(w)
  <2>1. /\ pc[w] = "announce_completed" /\ Alone(w) /\ pc'[w] = "advance_commit"
        /\ job'[w] = job[w] /\ seen'[w] = seen[w]
        /\ UNCHANGED <<status, current_step, executed, queue, ops_left, faults_left>>
    BY <1>0, <1>6, MovesAlone DEF AnnounceCompleted, db, bounds
  <2>2. /\ ProcAt(w)' /\ Holds(w)
    BY <1>0, <2>1 DEF Places, ProcAt, Heads, Holds, Drives
  <2>3. IsLast(w) /\ seen[w].current = current_step /\ executed[current_step] > 0
    BY <1>0, <2>1 DEF ProcAt
  <2> QED
    BY <1>0, <2>1, <2>2, <2>3, ThreadMoves
<1>7. CASE SendStep(w)
  <2> DEFINE m == ExecuteMsg(Target(w), 0)
  <2>1. /\ pc[w] = "send_step" /\ Alone(w) /\ pc'[w] = "touch" /\ job'[w] = job[w] /\ Send(m)
        /\ UNCHANGED <<status, current_step, executed, announced, ops_left, faults_left>>
    BY <1>0, <1>7, MovesAlone DEF SendStep, db, bounds
  <2>2. /\ ProcAt(w)'
        /\ Holds(w) /\ ~Holds(w)'
    BY <1>0, <2>1 DEF Places, ProcAt, Heads, Holds, Drives
  <2>3. MessageAt(m)
    <3>1. Target(w) = current_step /\ (faults_left = MaxFaults => executed[current_step] = 0)
      BY <1>0, <2>1 DEF ProcAt, Heads, Target
    <3> QED
      BY <3>1 DEF MessageAt, ExecuteMsg
  <2> HIDE DEF m
  <2> QED
    BY <1>0, <2>1, <2>2, <2>3, ThreadMoves
<1>8. CASE Touch(w) \/ FailureLoad(w) \/ AnnounceFailed(w)
  <2>1. /\ pc[w] \in {"touch", "failure", "announce_failed"}
        /\ Alone(w) /\ pc'[w] = (IF pc[w] = "failure" THEN "failure_commit" ELSE "ack")
        /\ job'[w] = job[w] /\ announced' \in {announced, announced \cup {"failed"}}
        /\ UNCHANGED <<status, current_step, executed, queue, ops_left, faults_left>>
    BY <1>0, <1>8, MovesAlone DEF Touch, FailureLoad, AnnounceFailed, db, bounds
  <2>2. /\ ProcAt(w)' /\ ~Holds(w)'
    BY <1>0, <2>1 DEF Places, ProcAt, Heads, Holds, Drives
  <2> QED
    BY <1>0, <2>1, <2>2, ThreadMoves
<1>9. CASE FailureCommit(w)
  <2>1. /\ pc[w] = "failure_commit" /\ Alone(w) /\ pc'[w] = "announce_failed" /\ job'[w] = job[w]
        /\ status' \in {status, "failed"}
        /\ UNCHANGED <<current_step, executed, announced, queue, ops_left, faults_left>>
    BY <1>0, <1>9, MovesAlone DEF FailureCommit, Put, bounds
  <2>2. /\ ProcAt(w)' /\ ~Holds(w)'
    BY <1>0, <2>1 DEF Places, ProcAt, Heads, Holds, Drives
  <2> QED
    BY <1>0, <2>1, <2>2, ThreadMoves
<1> QED
  BY <1>1, <1>2, <1>3, <1>4, <1>5, <1>6, <1>7, <1>8, <1>9, ThreadReceive, ThreadDispatch,
     ThreadAdvance DEF WorkerStep

\* What may go wrong here ends the thread or leaves it where it was.
LEMMA ThreadFault ==
    ASSUME RowsTyped, SessionsTyped, Undisturbed, TasksPlaced, ThreadInv, NEW p \in Procs,
           \/ p \in Workers /\ (StepError(p) \/ Crash(p) \/ TimeLimit(p))
           \/ p \in ApiProcs /\ ApiCrash(p)
           \/ DbError(p) \/ BrokerError(p)
    PROVE  ThreadInv'
<1> USE DEF Alone
<1>0. /\ p \in Workers <=> p \notin ApiProcs
      /\ p \in Workers => pc[p] \in Places(job[p].task)
      /\ ProcAt(p) /\ faults_left <= MaxFaults /\ MaxFaults \in Nat
  BY EngineAssumption DEF Procs, ThreadInv, TasksPlaced, ThreadAt, ExecutedUpTo
<1>1. /\ UNCHANGED <<status, current_step, executed, announced, ops_left>>
      /\ faults_left' = faults_left - 1 /\ faults_left \in Nat
      /\ ~Crash(p) /\ ~DbError(p)
  BY DEF StepError, Crash, TimeLimit, ApiCrash, DbError, BrokerError, Fault, Undisturbed,
     Unrepeated,
         db, RowsTyped
<1>2. CASE StepError(p) /\ p \in Workers
  <2>1. /\ pc[p] \in {"execute", "send_advance"} /\ Alone(p) /\ pc'[p] = "send_failure"
        /\ job'[p] = job[p] /\ seen'[p] = seen[p] /\ UNCHANGED queue
    BY <1>0, <1>2, MovesAlone DEF StepError
  <2>2. /\ ProcAt(p)' /\ Holds(p)
    BY <1>0, <1>1, <1>2, <2>1 DEF Places, ProcAt, Heads, Holds, Drives
  <2> QED
    BY <1>0, <1>1, <1>2, <2>1, <2>2, ThreadMoves
<1>3. CASE TimeLimit(p) \/ ApiCrash(p) \/ (BrokerError(p) /\ p \in ApiProcs)
  <2>1. /\ Alone(p) /\ pc'[p] = "idle" /\ job'[p] = NoJob /\ UNCHANGED queue
    BY <1>0, <1>3, MovesAlone DEF TimeLimit, ApiCrash, BrokerError
  <2>2. ProcAt(p)' /\ ~Holds(p)'
    BY <1>0, <1>1, <2>1 DEF Places, ProcAt, Heads, Holds, Drives, NoJob
  <2> QED
    BY <1>0, <1>1, <2>1, <2>2, ThreadMoves
<1>4. CASE BrokerError(p) /\ p \in Workers
  <2>1. /\ pc[p] \in {"send_step", "send_advance", "send_failure", "retry"} /\ Alone(p)
        /\ pc'[p] = (CASE pc[p] = "send_advance" -> "send_failure"
                       [] pc[p] = "send_step" -> "touch"
                       [] OTHER -> "ack")
        /\ job'[p] = job[p] /\ seen'[p] = seen[p] /\ UNCHANGED queue
    BY <1>0, <1>4, MovesAlone DEF BrokerError
  <2>2. /\ ProcAt(p)' /\ Holds(p)
    BY <1>0, <1>1, <1>4, <2>1 DEF Places, ProcAt, Heads, Holds, Drives
  <2> QED
    BY <1>0, <1>1, <1>4, <2>1, <2>2, ThreadMoves
<1> QED
  BY <1>0, <1>1, <1>2, <1>3, <1>4

\* Every step keeps the thread one.
LEMMA ThreadNext ==
    TypeOK /\ TasksPlaced /\ Lead /\ PendingInv /\ Undisturbed /\ ThreadInv /\ [Next]_vars
        => ThreadInv'
<1> SUFFICES ASSUME RowsTyped, SessionsTyped, TasksPlaced, Lead, PendingInv, Undisturbed, ThreadInv,
                    [Next]_vars
             PROVE  ThreadInv'
  BY TypeParts
<1>1. CASE CreateSteps \/ UNCHANGED vars
  <2>1. UNCHANGED <<status, announced, pc, job, seen, queue, current_step, executed, ops_left,
                    faults_left>>
    BY <1>1 DEF CreateSteps, sessions, bounds, vars
  <2> USE <2>1 DEF ThreadInv
  <2>2. Sole'
    BY DEF Sole, Holds, Drives
  <2>3. \A p \in Procs : ProcAt(p)' <=> ProcAt(p)
    BY DEF ProcAt, Heads, IsLast
  <2>4. ThreadAt'
    BY <2>3 DEF ThreadAt, MessageAt
  <2>5. ExecutedUpTo'
    BY DEF ExecutedUpTo, CompletedMeansExecuted, ExactlyOnce
  <2> QED
    BY <2>2, <2>4, <2>5
<1>2. ASSUME NEW a \in ApiProcs,
             (\E op \in Ops : ApiLoad(a, op)) \/ ApiStep(a) \/ ApiCrash(a)
      PROVE  ThreadInv'
  BY <1>2, ThreadApi, ThreadFault DEF Procs
<1>3. ASSUME NEW w \in Workers,
             \/ \E m \in Messages : Receive(w, m)
             \/ WorkerStep(w)
             \/ StepError(w) \/ Crash(w) \/ TimeLimit(w)
      PROVE  ThreadInv'
  BY <1>3, ThreadTask, ThreadFault DEF Procs
<1>4. ASSUME NEW p \in Procs, DbError(p) \/ BrokerError(p)
      PROVE  ThreadInv'
  BY <1>4, ThreadFault
<1> QED
  BY <1>1, <1>2, <1>3, <1>4 DEF Next

\* In such an environment there is one thread throughout.
LEMMA ThreadHolds ==
    ASSUME Undisturbed
    PROVE  Spec => []ThreadInv
<1>1. Init => TasksPlaced /\ ThreadInv
  BY ThreadInit, PlacedInit
<1>2. TypeOK /\ TasksPlaced /\ [Next]_vars => TasksPlaced'
  BY PlacedNext DEF Undisturbed, Unrepeated
<1>3. TypeOK /\ TasksPlaced /\ Lead /\ PendingInv /\ ThreadInv /\ [Next]_vars => ThreadInv'
  BY ThreadNext
<1> QED
  BY <1>1, <1>2, <1>3, InitTyped, NextTyped, LeadInit, LeadNext, PendingInit, PendingNext, PTL
     DEF Spec

\* A workflow that is started once has one thread of control: at most one execution or
\* advance waits in the broker, runs in a worker or is about to be sent by a handler,
\* through failing steps, tasks, handlers and a broker that refuses messages.
THEOREM OneThread ==
    ASSUME Undisturbed
    PROVE  Spec => []SingleThread
<1>1. Sole => SingleThread
  <2> SUFFICES ASSUME Sole PROVE SingleThread
    OBVIOUS
  <2>1. \A p \in Drivers : p \in Procs /\ Holds(p)
    BY DEF Drivers, Holds, Procs
  <2>2. \A p, q \in Drivers : p = q
    BY <2>1 DEF Sole
  <2>3. \A m, n \in WaitingDrivers : m = n /\ queue[m] = 1
    BY DEF WaitingDrivers, Sole
  <2>4. Drivers = {} \/ WaitingDrivers = {}
    BY <2>1 DEF WaitingDrivers, Sole
  <2>5. Cardinality(Drivers) \in {0, 1} /\ (Drivers = {} => Cardinality(Drivers) = 0)
    BY <2>2, FS_EmptySet, AtMostOne
  <2>6. Cardinality(WaitingDrivers) \in {0, 1}
        /\ (WaitingDrivers = {} => Cardinality(WaitingDrivers) = 0)
    BY <2>3, FS_EmptySet, AtMostOne
  <2> QED
    BY <2>3, <2>4, <2>5, <2>6 DEF SingleThread
<1> QED
  BY <1>1, ThreadHolds, PTL DEF ThreadInv

\* Its steps execute in row order, none ahead of the workflow's position.
THEOREM InOrder ==
    ASSUME Undisturbed
    PROVE  Spec => []ExecutedInOrder
<1>1. TypeOK /\ ThreadInv => ExecutedInOrder
  <2> SUFFICES ASSUME TypeOK, ThreadInv, NEW r \in Rows, executed[r] > 0
               PROVE  r <= current_step /\ \A q \in 0..(r - 1) : executed[q] > 0
    BY DEF ExecutedInOrder
  <2>1. r <= current_step
    BY DEF ThreadInv, ExecutedUpTo
  <2>2. ASSUME NEW q \in 0..(r - 1) PROVE executed[q] > 0
    <3>1. q \in Rows /\ q < r /\ r \in Nat /\ current_step \in Nat
      BY EngineAssumption DEF Rows, TypeOK
    <3>2. q < current_step
      BY <2>1, <3>1 DEF Rows
    <3> QED
      BY <3>1, <3>2 DEF ThreadInv, ExecutedUpTo
  <2> QED
    BY <2>1, <2>2
<1> QED
  BY <1>1, TypeCorrect, ThreadHolds, PTL

\* It is called completed, in its row or on the event bus, only when every step was executed.
THEOREM CompletedHonest ==
    ASSUME Undisturbed
    PROVE  Spec => []CompletedMeansExecuted
<1>1. ThreadInv => CompletedMeansExecuted
  BY DEF ThreadInv, ExecutedUpTo
<1> QED
  BY <1>1, ThreadHolds, PTL

\* As long as nothing has failed, no step takes effect twice.
THEOREM StepsOnce ==
    ASSUME Undisturbed
    PROVE  Spec => []ExactlyOnce
<1>1. ThreadInv => ExactlyOnce
  BY DEF ThreadInv, ExecutedUpTo
<1> QED
  BY <1>1, ThreadHolds, PTL

-------------------------------------------------------------------------------
(* A running workflow is driven. *)

\* The environment in which nothing is lost: a worker that dies gives its message back,
\* and a step that fails leads to a failure message.
Redelivering == FaultKinds \subseteq {"crash", "step_error"}

\* Process p will move the workflow on, or take it out of "running".  A failure's
\* commit changes the status only if the session has not read "failed".
Carries(p) ==
    \/ p \in Workers /\ Drives(job[p]) /\ pc[p] \notin {"retry", "touch", "ack"}
    \/ p \in Workers /\ pc[p] = "failure"
    \/ p \in Workers /\ pc[p] = "failure_commit" /\ seen[p].status # "failed"
    \/ p \in ApiProcs /\ pc[p] \in {"refresh", "enqueue", "send_step"}

Carried ==
    status = "running" =>
        (\E p \in Procs : Carries(p)) \/ (\E m \in Messages : queue[m] > 0)

\* A handler found the step rows.
RowsFound == \A a \in ApiProcs : pc[a] # "idle" => rows

\* A step of one process that makes the workflow run, takes a message or ends its own
\* part leaves someone who carries it.
LEMMA CarriedMoves ==
    ASSUME Carried, NEW p \in Procs, Alone(p),
           status' = "running" => status = "running" \/ Carries(p)',
           \A m \in Messages : queue[m] > 0 => queue'[m] > 0 \/ Carries(p)',
           Carries(p) /\ status' = "running" =>
               Carries(p)' \/ \E m \in Messages : queue'[m] > 0
    PROVE  Carried'
<1>1. \A q \in Procs \ {p} : Carries(q) => Carries(q)'
  BY DEF Carries, Alone
<1> QED
  BY <1>1 DEF Carried

\* A message that is sent waits, and so does every other that waited.
LEMMA SentWaits ==
    ASSUME RowsTyped, NEW m \in Messages, Send(m)
    PROVE  queue'[m] > 0 /\ \A k \in Messages : queue[k] > 0 => queue'[k] > 0
<1>1. \A k \in Messages : queue[k] \in Nat
  BY DEF RowsTyped
<1> QED
  BY <1>1, SendCounts

\* What a handler sends first is a message.
LEMMA RetryMessages ==
    /\ AdvanceMsg(0) \in Messages
    /\ \A r \in Rows : ExecuteMsg(r, 0) \in Messages /\ FailureMsg(r, 0) \in Messages
<1>1. 0 \in 0..ExecuteRetries /\ 0 \in 0..AdvanceRetries /\ 0 \in 0..FailureRetries
  BY EngineAssumption
<1> QED
  BY <1>1 DEF Messages

\* A retry of a task is a message of the workflow.
LEMMA RetryTyped ==
    ASSUME NEW m \in Messages, m.tries < Retries(m.task)
    PROVE  [m EXCEPT !.tries = @ + 1] \in Messages
<1> DEFINE next == [m EXCEPT !.tries = @ + 1]
<1>1. CASE \E r \in Rows, n \in 0..ExecuteRetries : m = ExecuteMsg(r, n)
  <2>1. PICK r \in Rows, n \in 0..ExecuteRetries : m = ExecuteMsg(r, n)
    BY <1>1
  <2>2. n < ExecuteRetries
    BY <2>1 DEF ExecuteMsg, Retries
  <2>3. next = ExecuteMsg(r, n + 1) /\ n + 1 \in 0..ExecuteRetries
    BY <2>1, <2>2, EngineAssumption DEF ExecuteMsg
  <2> QED
    BY <2>3 DEF Messages
<1>2. CASE \E n \in 0..AdvanceRetries : m = AdvanceMsg(n)
  <2>1. PICK n \in 0..AdvanceRetries : m = AdvanceMsg(n)
    BY <1>2
  <2>2. n < AdvanceRetries
    BY <2>1 DEF AdvanceMsg, Retries
  <2>3. next = AdvanceMsg(n + 1) /\ n + 1 \in 0..AdvanceRetries
    BY <2>1, <2>2, EngineAssumption DEF AdvanceMsg
  <2> QED
    BY <2>3 DEF Messages
<1>3. CASE \E r \in Rows, n \in 0..FailureRetries : m = FailureMsg(r, n)
  <2>1. PICK r \in Rows, n \in 0..FailureRetries : m = FailureMsg(r, n)
    BY <1>3
  <2>2. n < FailureRetries
    BY <2>1 DEF FailureMsg, Retries
  <2>3. next = FailureMsg(r, n + 1) /\ n + 1 \in 0..FailureRetries
    BY <2>1, <2>2, EngineAssumption DEF FailureMsg
  <2> QED
    BY <2>3 DEF Messages
<1> QED
  BY <1>1, <1>2, <1>3 DEF Messages

\* The handlers of the API.
LEMMA CarriedApi ==
    ASSUME RowsTyped, SessionsTyped, Lead, Redelivering, Carried, RowsFound, NEW a \in ApiProcs,
           (\E op \in Ops : ApiLoad(a, op)) \/ ApiStep(a)
    PROVE  Carried' /\ RowsFound'
<1>0. /\ a \in Procs /\ a \notin Workers
      /\ pc[a] # "idle" => rows
  BY EngineAssumption DEF Procs, RowsFound
<1>1. RowsFound'
  <2>1. (pc[a] # "idle" \/ rows) /\ UNCHANGED rows
    BY DEF ApiLoad, ApiStep, StartCommit, ResumeCommit, PauseCommit, CancelCommit, Refresh,
           EnqueueCommit, SendStep, Redelivering, db, Ops
  <2> QED
    BY <1>0, <2>1 DEF RowsFound
<1>2. ASSUME NEW op \in Ops, ApiLoad(a, op)
      PROVE  Carried'
  <2>1. Alone(a) /\ pc[a] = "idle" /\ UNCHANGED <<status, queue>>
    BY <1>0, <1>2, MovesAlone DEF ApiLoad, db
  <2>2. ~Carries(a)
    BY <1>0, <2>1 DEF Carries
  <2> QED
    BY <1>0, <2>1, <2>2, CarriedMoves
<1>3. CASE StartCommit(a) \/ ResumeCommit(a)
  <2>1. Alone(a) /\ pc'[a] = "refresh" /\ UNCHANGED queue
    BY <1>0, <1>3, MovesAlone DEF StartCommit, ResumeCommit
  <2>2. Carries(a)'
    BY <1>0, <2>1 DEF Carries
  <2> QED
    BY <1>1, <1>0, <2>1, <2>2, CarriedMoves
<1>4. CASE PauseCommit(a) \/ CancelCommit(a)
  <2>1. status' # "running"
    BY <1>4 DEF PauseCommit, CancelCommit
  <2> QED
    BY <1>1, <2>1 DEF Carried
<1>5. CASE Refresh(a) \/ EnqueueCommit(a)
  <2>1. Alone(a) /\ pc'[a] \in {"enqueue", "send_step"} /\ UNCHANGED <<status, queue>>
    BY <1>0, <1>5, MovesAlone DEF Refresh, EnqueueCommit, db
  <2>2. Carries(a)'
    BY <1>0, <2>1 DEF Carries
  <2> QED
    BY <1>1, <1>0, <2>1, <2>2, CarriedMoves
<1>6. CASE SendStep(a)
  <2> DEFINE m == ExecuteMsg(Target(a), 0)
  <2>1. pc[a] = "send_step" /\ Alone(a) /\ UNCHANGED status /\ Send(m)
    BY <1>0, <1>6, MovesAlone DEF SendStep, db
  <2>2. m \in Messages
    BY <1>0, <2>1, RetryMessages DEF Lead, WorkTouched
  <2> HIDE DEF m
  <2>3. queue'[m] > 0 /\ \A k \in Messages : queue[k] > 0 => queue'[k] > 0
    BY <2>1, <2>2, SentWaits
  <2> QED
    BY <1>1, <1>0, <2>1, <2>2, <2>3, CarriedMoves
<1> QED
  BY <1>1, <1>2, <1>3, <1>4, <1>5, <1>6 DEF ApiStep

\* The steps of a task, a lost worker and a failed step.
LEMMA CarriedTask ==
    ASSUME RowsTyped, SessionsTyped, TasksPlaced, Lead, Redelivering, Carried, NEW w \in Workers,
           \/ \E m \in Messages : Receive(w, m)
           \/ WorkerStep(w)
           \/ StepError(w) \/ Crash(w) \/ TimeLimit(w)
    PROVE  Carried'
<1>0. /\ w \in Procs /\ w \notin ApiProcs /\ pc[w] \in Places(job[w].task)
      /\ job[w] \in Messages \cup {NoJob} /\ job[w].step \in Rows
      /\ \A k \in Messages : queue[k] \in Nat
  BY EngineAssumption, SeenTyped DEF Procs, TasksPlaced, SessionsTyped, RowsTyped
<1>1. ASSUME NEW m \in Messages, Receive(w, m)
      PROVE  Carried'
  <2>1. /\ pc[w] = "idle" /\ Alone(w) /\ pc'[w] = m.task /\ job'[w] = m /\ UNCHANGED status
        /\ \A k \in Messages \ {m} : queue'[k] = queue[k]
    BY <1>0, <1>1 DEF Receive, Alone, SessionsTyped, RowsTyped, db
  <2>2. Carries(w)'
    BY <1>0, <2>1, JobStep DEF Carries, Drives
  <2> QED
    BY <1>0, <2>1, <2>2, CarriedMoves
<1>2. ASSUME NEW next, next \notin {"retry", "touch", "ack"}, Drives(job[w]),
             Goto(w, next) \/ LoadThen(w, next), UNCHANGED <<status, queue>>
      PROVE  Carried'
  <2>1. Alone(w) /\ pc'[w] = next /\ job'[w] = job[w]
    BY <1>0, <1>2, MovesAlone
  <2>2. Carries(w)'
    BY <1>0, <1>2, <2>1 DEF Carries, Drives
  <2> QED
    BY <1>0, <1>2, <2>1, <2>2, CarriedMoves
<1>3. ASSUME NEW m \in Messages, NEW next, Goto(w, next) \/ Finish(w), UNCHANGED status, Send(m)
      PROVE  Carried'
  <2>1. Alone(w)
    BY <1>0, <1>3, MovesAlone
  <2>2. queue'[m] > 0 /\ \A k \in Messages : queue[k] > 0 => queue'[k] > 0
    BY <1>3, SentWaits
  <2> QED
    BY <1>0, <1>3, <2>1, <2>2, CarriedMoves
<1>4. ASSUME NEW next, Goto(w, next) \/ LoadThen(w, next) \/ Finish(w),
             UNCHANGED <<status, queue>>, ~Carries(w)
      PROVE  Carried'
  <2>1. Alone(w)
    BY <1>0, <1>4, MovesAlone
  <2> QED
    BY <1>0, <1>4, <2>1, CarriedMoves
<1>5. CASE Dispatch(w) \/ StepError(w)
  <2>1. pc[w] \in {"execute", "send_advance"}
    BY <1>5 DEF Dispatch, StepError
  <2>2. Drives(job[w])
    BY <1>0, <2>1 DEF Places, Drives
  <2> QED
    BY <1>2, <1>5, <2>2 DEF Dispatch, StepError, db
<1>6. CASE SendAdvance(w) \/ SendFailure(w)
  BY <1>0, <1>3, <1>6, RetryMessages DEF SendAdvance, SendFailure, db
<1>7. CASE Retry(w)
  <2>1. pc[w] = "retry" /\ Goto(w, "ack") /\ UNCHANGED status
    BY <1>7 DEF Retry, db
  <2>2. job[w].task = "execute"
    BY <1>0, <2>1 DEF Places
  <2>3. ~Carries(w)
    BY <1>0, <2>1 DEF Carries
  <2>4. CASE UNCHANGED queue
    BY <1>4, <2>1, <2>3, <2>4
  <2>5. CASE job[w].tries < Retries(job[w].task) /\ Send([job[w] EXCEPT !.tries = @ + 1])
    <3>1. job[w] \in Messages
      BY <1>0, <2>2 DEF NoJob
    <3>2. [job[w] EXCEPT !.tries = @ + 1] \in Messages
      BY <2>5, <3>1, RetryTyped
    <3> QED
      BY <1>3, <2>1, <2>5, <3>2
  <2> QED
    BY <1>7, <2>4, <2>5 DEF Retry
<1>8. CASE AdvanceLoad(w)
  <2>1. pc[w] = "advance"
    BY <1>8 DEF AdvanceLoad
  <2>2. Drives(job[w])
    BY <1>0, <2>1 DEF Places, Drives
  <2>3. CASE status # "running"
    BY <1>8, <2>3 DEF AdvanceLoad, db, Carried
  <2>4. CASE status = "running"
    BY <1>2, <1>8, <2>2, <2>4 DEF AdvanceLoad, db
  <2> QED
    BY <2>3, <2>4
<1>9. CASE AnnounceCompleted(w)
  <2>1. pc[w] = "announce_completed"
    BY <1>9 DEF AnnounceCompleted
  <2>2. Drives(job[w])
    BY <1>0, <2>1 DEF Places, Drives
  <2> QED
    BY <1>2, <1>9, <2>2 DEF AnnounceCompleted, db
<1>10. CASE AdvanceCommit(w)
  <2>1. pc[w] = "advance_commit"
    BY <1>10 DEF AdvanceCommit
  <2>2. Drives(job[w])
    BY <1>0, <2>1 DEF Places, Drives
  <2>3. CASE IsLast(w)
    <3>1. status' # "running"
      BY <1>10, <2>3 DEF AdvanceCommit
    <3> QED
      BY <3>1 DEF Carried
  <2>4. CASE ~IsLast(w)
    <3>1. Goto(w, "send_step") /\ UNCHANGED <<status, queue>>
      BY <1>10, <2>4 DEF AdvanceCommit
    <3> QED
      BY <1>2, <2>2, <3>1
  <2> QED
    BY <2>3, <2>4
<1>11. CASE SendStep(w)
  <2>1. Target(w) \in Rows
    BY <1>0, <1>11 DEF SendStep, Lead, WorkTouched
  <2> QED
    BY <1>3, <1>11, <2>1, RetryMessages DEF SendStep, db
<1>12. CASE Touch(w) \/ AnnounceFailed(w) \/ Ack(w)
  <2>1. pc[w] \in {"touch", "announce_failed", "ack"}
    BY <1>12 DEF Touch, AnnounceFailed, Ack
  <2>2. ~Carries(w)
    BY <1>0, <2>1 DEF Carries, Places, Drives
  <2> QED
    BY <1>4, <1>12, <2>2 DEF Touch, AnnounceFailed, Ack, db
<1>13. CASE FailureLoad(w)
  <2>1. Alone(w) /\ pc'[w] = "failure_commit" /\ seen'[w] = Loaded /\ UNCHANGED <<status, queue>>
    BY <1>0, <1>13, MovesAlone DEF FailureLoad, db
  <2>2. status' = "running" => Carries(w)'
    BY <1>0, <2>1 DEF Carries, Loaded
  <2> QED
    BY <1>0, <2>1, <2>2, CarriedMoves
<1>14. CASE FailureCommit(w)
  <2>1. /\ pc[w] = "failure_commit" /\ Goto(w, "announce_failed") /\ UNCHANGED queue
        /\ status' = Put(seen[w].status, status, "failed")
    BY <1>14 DEF FailureCommit
  <2>2. CASE seen[w].status = "failed"
    <3>1. UNCHANGED status
      BY <2>1, <2>2 DEF Put
    <3>2. ~Carries(w)
      BY <1>0, <2>1, <2>2 DEF Carries, Places, Drives
    <3> QED
      BY <1>4, <2>1, <3>1, <3>2
  <2>3. CASE seen[w].status # "failed"
    BY <2>1, <2>3 DEF Put, Carried
  <2> QED
    BY <2>2, <2>3
<1>15. CASE Crash(w)
  <2>1. pc[w] # "idle" /\ Send(job[w]) /\ Finish(w) /\ UNCHANGED status
    BY <1>15 DEF Crash, db
  <2>2. job[w] \in Messages
    BY <1>0, <2>1 DEF Places, NoJob
  <2> QED
    BY <1>3, <2>1, <2>2
<1>16. ~TimeLimit(w)
  BY DEF TimeLimit, Fault, Redelivering
<1> QED
  BY <1>1, <1>5, <1>6, <1>7, <1>8, <1>9, <1>10, <1>11, <1>12, <1>13, <1>14, <1>15, <1>16
     DEF WorkerStep

\* While workers may die and steps may fail, a running workflow is always in someone's
\* hands, whatever the users start, pause, resume and cancel, and however often.
THEOREM RunningDriven ==
    ASSUME Redelivering
    PROVE  Spec => []RunningIsDriven
<1>1. Init => TasksPlaced /\ Carried /\ RowsFound
  BY PlacedInit DEF Init, Carried, RowsFound, Procs
<1>2. TypeOK /\ TasksPlaced /\ [Next]_vars => TasksPlaced'
  BY PlacedNext DEF Redelivering
<1>3. TypeOK /\ Lead /\ TasksPlaced /\ Carried /\ RowsFound /\ [Next]_vars
        => Carried' /\ RowsFound'
  <2> SUFFICES ASSUME RowsTyped, SessionsTyped, Lead, TasksPlaced, Carried, RowsFound,
                      [Next]_vars
               PROVE  Carried' /\ RowsFound'
    BY TypeParts
  <2>1. CASE CreateSteps \/ UNCHANGED vars
    <3>1. UNCHANGED <<status, queue, pc, job, seen>> /\ (rows => rows')
      BY <2>1 DEF CreateSteps, sessions, vars
    <3> QED
      BY <3>1 DEF Carried, Carries, RowsFound, Drives
  <2>2. ASSUME NEW a \in ApiProcs, (\E op \in Ops : ApiLoad(a, op)) \/ ApiStep(a)
        PROVE  Carried' /\ RowsFound'
    BY <2>2, CarriedApi
  <2>3. ASSUME NEW w \in Workers,
               \/ \E m \in Messages : Receive(w, m)
               \/ WorkerStep(w)
               \/ StepError(w) \/ Crash(w) \/ TimeLimit(w)
        PROVE  Carried' /\ RowsFound'
    <3>1. UNCHANGED rows /\ \A a \in ApiProcs : pc'[a] = pc[a]
      <4>1. w \in Procs /\ w \notin ApiProcs
        BY EngineAssumption DEF Procs
      <4>2. UNCHANGED rows /\ \A a \in Procs \ {w} : pc'[a] = pc[a]
        BY <2>3, <4>1 DEF Receive, WorkerStep, Ack, Dispatch, SendAdvance, SendFailure, Retry,
           AdvanceLoad, AnnounceCompleted, AdvanceCommit, SendStep, Touch, FailureLoad,
           FailureCommit, AnnounceFailed, StepError, Crash, TimeLimit, Goto, LoadThen, Finish,
           SessionsTyped, db
      <4> QED
        BY <4>1, <4>2 DEF Procs
    <3> QED
      BY <2>3, <3>1, CarriedTask DEF RowsFound
  <2>4. \A p \in Procs : ~DbError(p) /\ ~BrokerError(p) /\ ~ApiCrash(p)
    BY DEF DbError, BrokerError, ApiCrash, Fault, Redelivering
  <2> QED
    BY <2>1, <2>2, <2>3, <2>4 DEF Next, Procs
<1>4. TypeOK /\ TasksPlaced /\ Carried => RunningIsDriven
  <2> SUFFICES ASSUME SessionsTyped, TasksPlaced, Carried, status = "running"
               PROVE  \/ Drivers # {} \/ WaitingDrivers # {}
                      \/ \E m \in Messages : m.task = "failure" /\ queue[m] > 0
                      \/ \E w \in Workers : job[w].task = "failure" /\ pc[w] # "announce_failed"
    BY TypeParts DEF RunningIsDriven
  <2>1. ASSUME NEW p \in Procs, Carries(p)
        PROVE  p \in Drivers \/ (p \in Workers /\ job[p].task = "failure" /\ pc[p] # "announce_failed")
    BY <2>1 DEF Carries, Drivers, TasksPlaced, Places
  <2>2. ASSUME NEW m \in Messages, queue[m] > 0
        PROVE  m \in WaitingDrivers \/ m.task = "failure"
    BY <2>2, JobStep DEF WaitingDrivers, Drives
  <2> QED
    BY <2>1, <2>2 DEF Carried
<1> QED
  BY <1>1, <1>2, <1>3, <1>4, InitTyped, NextTyped, LeadInit, LeadNext, PTL DEF Spec

-------------------------------------------------------------------------------
(* Progress is earned. *)

\* The advances earned by an execution and not yet used: the copies that wait and the
\* workers that are about to send or to commit one.
Advances ==
    {<<w, 0>> : w \in {w \in Workers : pc[w] \in {"send_advance", "advance", "announce_completed",
                                                  "advance_commit"}}}
    \cup UNION {{m} \X (1..queue[m]) : m \in {m \in Messages : m.task = "advance"}}

\* Every position that the row has, or that a session has read, is covered by executions
\* that are not needed for the advances under way.
Covered(position) == position + Cardinality(Advances) <= Cardinality(Executions)

Earned ==
    /\ IsFiniteSet(Advances) /\ IsFiniteSet(Executions)
    /\ Covered(current_step)
    /\ \A p \in Procs : Covered(seen[p].current)
    /\ status = "completed" => Covered(NumSteps)

\* Counting finite sets that gain or lose one member.
LEMMA OneMoreOrLess ==
    ASSUME NEW S, IsFiniteSet(S), NEW T, NEW x, NEW y
    PROVE  /\ Cardinality(S) \in Nat
           /\ T \subseteq S =>
                IsFiniteSet(T) /\ Cardinality(T) \in Nat /\ Cardinality(T) <= Cardinality(S)
           /\ x \in S /\ T \subseteq S \ {x} =>
                IsFiniteSet(T) /\ Cardinality(T) \in Nat /\ Cardinality(T) + 1 <= Cardinality(S)
           /\ T \subseteq S \cup {y} =>
                IsFiniteSet(T) /\ Cardinality(T) \in Nat /\ Cardinality(T) <= Cardinality(S) + 1
           /\ x \in S /\ T \subseteq (S \ {x}) \cup {y} =>
                IsFiniteSet(T) /\ Cardinality(T) \in Nat /\ Cardinality(T) <= Cardinality(S)
<1>1. Cardinality(S) \in Nat
  BY FS_CardinalityType
<1>2. ASSUME NEW U, IsFiniteSet(U), NEW V, V \subseteq U
      PROVE  IsFiniteSet(V) /\ Cardinality(V) \in Nat /\ Cardinality(V) <= Cardinality(U)
  BY <1>2, FS_Subset, FS_CardinalityType
<1>3. ASSUME NEW U, IsFiniteSet(U)
      PROVE  /\ IsFiniteSet(U \cup {y}) /\ Cardinality(U \cup {y}) \in Nat
             /\ Cardinality(U \cup {y}) <= Cardinality(U) + 1
  <2>1. Cardinality(U) \in Nat
    BY <1>3, FS_CardinalityType
  <2>2. CASE y \in U
    <3>1. U \cup {y} = U
      BY <2>2
    <3>2. IsFiniteSet(U \cup {y}) /\ Cardinality(U \cup {y}) = Cardinality(U)
      BY <1>3, <3>1
    <3> QED
      BY <2>1, <3>2
  <2>3. CASE y \notin U
    <3>1. IsFiniteSet(U \cup {y}) /\ Cardinality(U \cup {y}) = Cardinality(U) + 1
      BY <1>3, <2>3, FS_AddElement
    <3> QED
      BY <2>1, <3>1
  <2> QED
    BY <2>2, <2>3
<1>4. ASSUME x \in S
      PROVE  IsFiniteSet(S \ {x}) /\ Cardinality(S \ {x}) = Cardinality(S) - 1
  BY <1>4, FS_RemoveElement
<1>5. ASSUME x \in S, T \subseteq S \ {x}
      PROVE  IsFiniteSet(T) /\ Cardinality(T) \in Nat /\ Cardinality(T) + 1 <= Cardinality(S)
  <2>1. IsFiniteSet(T) /\ Cardinality(T) \in Nat /\ Cardinality(T) <= Cardinality(S \ {x})
    BY <1>2, <1>4, <1>5
  <2> QED
    BY <1>1, <1>4, <1>5, <2>1
<1>6. ASSUME T \subseteq S \cup {y}
      PROVE  IsFiniteSet(T) /\ Cardinality(T) \in Nat /\ Cardinality(T) <= Cardinality(S) + 1
  <2>1. IsFiniteSet(S \cup {y}) /\ Cardinality(S \cup {y}) \in Nat
        /\ Cardinality(S \cup {y}) <= Cardinality(S) + 1
    BY <1>3
  <2>2. IsFiniteSet(T) /\ Cardinality(T) \in Nat /\ Cardinality(T) <= Cardinality(S \cup {y})
    BY <1>2, <1>6, <2>1
  <2> QED
    BY <1>1, <2>1, <2>2
<1>7. ASSUME x \in S, T \subseteq (S \ {x}) \cup {y}
      PROVE  IsFiniteSet(T) /\ Cardinality(T) \in Nat /\ Cardinality(T) <= Cardinality(S)
  <2> DEFINE U == S \ {x}
  <2>1. IsFiniteSet(U) /\ Cardinality(U) = Cardinality(S) - 1
    BY <1>4, <1>7
  <2>2. IsFiniteSet(U \cup {y}) /\ Cardinality(U \cup {y}) \in Nat
        /\ Cardinality(U \cup {y}) <= Cardinality(U) + 1
    BY <1>3, <2>1
  <2>3. IsFiniteSet(T) /\ Cardinality(T) \in Nat /\ Cardinality(T) <= Cardinality(U \cup {y})
    BY <1>2, <1>7, <2>2
  <2> QED
    BY <1>1, <2>1, <2>2, <2>3
<1> QED
  BY <1>1, <1>2, <1>5, <1>6, <1>7

\* The advances in the hands of a worker and those that wait.
AdvancePlaces == {"send_advance", "advance", "announce_completed", "advance_commit"}

\* Which advances are under way before and after a step of one process.
LEMMA AdvancesMoved ==
    ASSUME RowsTyped, NEW p \in Procs, Alone(p)
    PROVE  /\ <<p, 0>> \in Advances <=> p \in Workers /\ pc[p] \in AdvancePlaces
           /\ <<p, 0>> \in Advances' <=> p \in Workers /\ pc'[p] \in AdvancePlaces
           /\ \A m \in Messages : m.task = "advance" =>
                \A k : <<m, k>> \in Advances /\ k # 0 <=> k \in 1..queue[m]
           /\ \A e \in Advances' : e \in Advances \/ e = <<p, 0>>
                \/ \E m \in Messages : \E k \in 1..queue'[m] :
                     m.task = "advance" /\ k \notin 1..queue[m] /\ e = <<m, k>>
           /\ \A m \in Messages : m.task = "advance" =>
                \A k : <<m, k>> \in Advances' /\ k # 0 <=> k \in 1..queue'[m]
<1> USE DEF Advances, AdvancePlaces, Alone
<1>1. /\ <<p, 0>> \in Advances <=> p \in Workers /\ pc[p] \in AdvancePlaces
      /\ <<p, 0>> \in Advances' <=> p \in Workers /\ pc'[p] \in AdvancePlaces
  OBVIOUS
<1>2. \A m \in Messages : m.task = "advance" =>
        \A k : <<m, k>> \in Advances /\ k # 0 <=> k \in 1..queue[m]
  OBVIOUS
<1>3. \A m \in Messages : m.task = "advance" =>
        \A k : <<m, k>> \in Advances' /\ k # 0 <=> k \in 1..queue'[m]
  OBVIOUS
<1>4. ASSUME NEW e \in Advances'
      PROVE  e \in Advances \/ e = <<p, 0>>
                \/ \E m \in Messages : \E k \in 1..queue'[m] :
                     m.task = "advance" /\ k \notin 1..queue[m] /\ e = <<m, k>>
  <2>1. CASE \E w \in Workers : pc'[w] \in AdvancePlaces /\ e = <<w, 0>>
    BY <2>1 DEF Procs
  <2>2. CASE \E m \in Messages : \E k \in 1..queue'[m] : m.task = "advance" /\ e = <<m, k>>
    BY <2>2
  <2> QED
    BY <1>4, <2>1, <2>2
<1> QED
  BY <1>1, <1>2, <1>3, <1>4

\* What the execution of a step adds.
LEMMA ExecutionsMoved ==
    ASSUME RowsTyped, NEW r \in Rows, executed' = [executed EXCEPT ![r] = @ + 1]
    PROVE  /\ Executions' = Executions \cup {<<r, executed[r] + 1>>}
           /\ <<r, executed[r] + 1>> \notin Executions
<1>1. executed \in [Rows -> Nat]
  BY DEF RowsTyped
<1>2. executed'[r] = executed[r] + 1 /\ \A q \in Rows \ {r} : executed'[q] = executed[q]
  BY <1>1
<1>3. 1..(executed[r] + 1) = (1..executed[r]) \cup {executed[r] + 1}
  BY <1>1
<1>4. executed[r] + 1 \notin 1..executed[r]
  BY <1>1
<1>5. <<r, executed[r] + 1>> \notin Executions
  BY <1>4 DEF Executions
<1>6. Executions' = UNION {{q} \X (1..executed'[q]) : q \in Rows}
  BY DEF Executions
<1>7. ASSUME NEW e \in Executions' PROVE e \in Executions \cup {<<r, executed[r] + 1>>}
  <2>1. PICK q \in Rows : e \in {q} \X (1..executed'[q])
    BY <1>6, <1>7
  <2>2. CASE q = r
    BY <1>2, <1>3, <2>1, <2>2 DEF Executions
  <2>3. CASE q # r
    BY <1>2, <2>1, <2>3 DEF Executions
  <2> QED
    BY <2>2, <2>3
<1>8. ASSUME NEW e \in Executions PROVE e \in Executions'
  <2>1. PICK q \in Rows : e \in {q} \X (1..executed[q])
    BY <1>8 DEF Executions
  <2>2. 1..executed[q] \subseteq 1..executed'[q]
    BY <1>2, <1>3
  <2> QED
    BY <1>6, <2>1, <2>2
<1>9. <<r, executed[r] + 1>> \in Executions'
  BY <1>2, <1>3, <1>6
<1> QED
  BY <1>5, <1>7, <1>8, <1>9

\* No position moves but to one that was covered, and advances are covered by executions.
LEMMA EarnedMoves ==
    ASSUME RowsTyped, SessionsTyped, Earned,
           IsFiniteSet(Advances'), IsFiniteSet(Executions'),
           Cardinality(Advances') + Cardinality(Executions)
             <= Cardinality(Advances) + Cardinality(Executions'),
           current_step' \in {current_step, 0},
           \A q \in Procs : seen'[q].current \in {seen[q].current, current_step, 0},
           status' = "completed" => status = "completed"
    PROVE  Earned'
<1>1. /\ Cardinality(Advances) \in Nat /\ Cardinality(Advances') \in Nat
      /\ Cardinality(Executions) \in Nat /\ Cardinality(Executions') \in Nat
  BY FS_CardinalityType DEF Earned
<1>2. current_step \in Nat /\ NumSteps \in Nat /\ \A q \in Procs : seen[q].current \in Nat
  BY EngineAssumption, SeenTyped DEF RowsTyped, Rows
<1>3. \A n \in Nat : Covered(n) => n + Cardinality(Advances') <= Cardinality(Executions')
  BY <1>1 DEF Covered
<1>4. Covered(current_step) => Covered(0)
  BY <1>1, <1>2 DEF Covered
<1>5. \A n : Covered(n)' <=> n + Cardinality(Advances') <= Cardinality(Executions')
  BY DEF Covered
<1>6. current_step' + Cardinality(Advances') <= Cardinality(Executions')
  BY <1>2, <1>3, <1>4 DEF Earned
<1>7. \A q \in Procs : seen'[q].current + Cardinality(Advances') <= Cardinality(Executions')
  BY <1>2, <1>3, <1>4 DEF Earned
<1>8. status' = "completed" => NumSteps + Cardinality(Advances') <= Cardinality(Executions')
  BY <1>2, <1>3 DEF Earned
<1> QED
  BY <1>6, <1>7, <1>8 DEF Earned, Covered

\* A step of one process that executes nothing and sends no advance.
LEMMA EarnedQuiet ==
    ASSUME RowsTyped, SessionsTyped, Earned, NEW p \in Procs, Alone(p), UNCHANGED executed,
           \A m \in Messages : m.task = "advance" => queue'[m] = queue[m],
           p \in Workers /\ pc'[p] \in AdvancePlaces => pc[p] \in AdvancePlaces,
           current_step' \in {current_step, 0},
           seen'[p].current \in {seen[p].current, current_step, 0},
           status' = "completed" => status = "completed"
    PROVE  Earned'
<1>1. Advances' \subseteq Advances
  BY AdvancesMoved
<1>2. Executions' = Executions
  BY DEF Executions
<1>3. IsFiniteSet(Advances') /\ Cardinality(Advances') <= Cardinality(Advances)
      /\ Cardinality(Advances) \in Nat /\ Cardinality(Advances') \in Nat
      /\ Cardinality(Executions) \in Nat
  BY <1>1, OneMoreOrLess, FS_CardinalityType DEF Earned
<1>4. Cardinality(Advances') + Cardinality(Executions)
        <= Cardinality(Advances) + Cardinality(Executions')
  BY <1>2, <1>3
<1>5. \A q \in Procs : seen'[q].current \in {seen[q].current, current_step, 0}
  BY DEF Alone
<1>6. IsFiniteSet(Executions')
  BY <1>2 DEF Earned
<1> QED
  BY <1>3, <1>4, <1>5, <1>6, EarnedMoves

\* An advance passes between a worker and the broker.
LEMMA EarnedPassed ==
    ASSUME RowsTyped, SessionsTyped, Earned, NEW w \in Workers, Alone(w), UNCHANGED executed,
           seen'[w].current = seen[w].current, UNCHANGED <<status, current_step>>,
           NEW m \in Messages, m.task = "advance",
           \A k \in Messages \ {m} : queue'[k] = queue[k],
           \/ /\ pc[w] \in AdvancePlaces /\ pc'[w] \notin AdvancePlaces
              /\ queue'[m] = queue[m] + 1
           \/ /\ pc[w] \notin AdvancePlaces /\ pc'[w] \in AdvancePlaces
              /\ queue[m] > 0 /\ queue'[m] = queue[m] - 1
    PROVE  Earned'
<1>0. w \in Procs /\ queue[m] \in Nat
  BY DEF Procs, RowsTyped
<1>1. Executions' = Executions
  BY DEF Executions
<1>2. PICK x, y : x \in Advances /\ Advances' \subseteq (Advances \ {x}) \cup {y}
  <2>1. CASE pc[w] \in AdvancePlaces /\ pc'[w] \notin AdvancePlaces /\ queue'[m] = queue[m] + 1
    <3>1. \A k \in 1..queue'[m] : k \notin 1..queue[m] => k = queue[m] + 1
      BY <1>0, <2>1
    <3>2. \A k \in Messages \ {m} : \A i : i \in 1..queue'[k] <=> i \in 1..queue[k]
      OBVIOUS
    <3>3. <<w, 0>> \in Advances /\ <<w, 0>> \notin Advances'
      BY <1>0, <2>1, AdvancesMoved
    <3>4. \A e \in Advances' : e \in Advances \/ e = <<w, 0>> \/ e = <<m, queue[m] + 1>>
      BY <1>0, <3>1, <3>2, AdvancesMoved
    <3>5. Advances' \subseteq (Advances \ {<<w, 0>>}) \cup {<<m, queue[m] + 1>>}
      BY <3>3, <3>4
    <3> QED
      BY <3>3, <3>5
  <2>2. CASE /\ pc[w] \notin AdvancePlaces /\ pc'[w] \in AdvancePlaces
             /\ queue[m] > 0 /\ queue'[m] = queue[m] - 1
    <3>1. /\ queue[m] \in 1..queue[m] /\ queue[m] \notin 1..queue'[m] /\ queue[m] # 0
          /\ \A k \in 1..queue'[m] : k \in 1..queue[m]
      BY <1>0, <2>2
    <3>2. \A k \in Messages \ {m} : \A i : i \in 1..queue'[k] <=> i \in 1..queue[k]
      OBVIOUS
    <3>3. <<m, queue[m]>> \in Advances /\ <<m, queue[m]>> \notin Advances'
      BY <1>0, <3>1, AdvancesMoved
    <3>4. \A e \in Advances' : e \in Advances \/ e = <<w, 0>>
      BY <1>0, <3>1, <3>2, AdvancesMoved
    <3>5. Advances' \subseteq (Advances \ {<<m, queue[m]>>}) \cup {<<w, 0>>}
      BY <3>3, <3>4
    <3> QED
      BY <3>3, <3>5
  <2> QED
    BY <2>1, <2>2
<1>3. IsFiniteSet(Advances') /\ Cardinality(Advances') <= Cardinality(Advances)
      /\ Cardinality(Advances) \in Nat /\ Cardinality(Advances') \in Nat
      /\ Cardinality(Executions) \in Nat
  BY <1>2, OneMoreOrLess, FS_CardinalityType DEF Earned
<1>4. Cardinality(Advances') + Cardinality(Executions)
        <= Cardinality(Advances) + Cardinality(Executions')
  BY <1>1, <1>3
<1>5. \A q \in Procs : seen'[q].current \in {seen[q].current, current_step, 0}
  BY <1>0 DEF Alone
<1>6. IsFiniteSet(Executions')
  BY <1>1 DEF Earned
<1> QED
  BY <1>3, <1>4, <1>5, <1>6, EarnedMoves

\* The execution of a step pays for the advance that follows it.
LEMMA EarnedDispatch ==
    ASSUME RowsTyped, SessionsTyped, Earned, NEW w \in Workers, Dispatch(w)
    PROVE  Earned'
<1>0. w \in Procs /\ w \notin ApiProcs /\ pc[w] = "execute" /\ job[w].step \in Rows
  BY EngineAssumption, SeenTyped DEF Procs, Dispatch
<1>1. CASE job[w].step \in Inputless
  <2>1. /\ Alone(w) /\ pc'[w] = "send_failure" /\ seen'[w] = seen[w]
        /\ UNCHANGED <<status, current_step, executed, queue>>
    BY <1>0, <1>1, MovesAlone DEF Dispatch
  <2> QED
    BY <1>0, <2>1, EarnedQuiet DEF AdvancePlaces
<1>2. CASE job[w].step \notin Inputless
  <2> DEFINE r == job[w].step
  <2>1. /\ Alone(w) /\ pc'[w] = "send_advance" /\ seen'[w] = seen[w]
        /\ UNCHANGED <<status, current_step, queue>>
        /\ executed' = [executed EXCEPT ![r] = @ + 1]
    BY <1>0, <1>2, MovesAlone DEF Dispatch
  <2>2. /\ Executions' = Executions \cup {<<r, executed[r] + 1>>}
        /\ <<r, executed[r] + 1>> \notin Executions
    BY <1>0, <2>1, ExecutionsMoved
  <2>3. IsFiniteSet(Executions') /\ Cardinality(Executions') = Cardinality(Executions) + 1
    BY <2>2, FS_AddElement DEF Earned
  <2>4. Advances' \subseteq Advances \cup {<<w, 0>>}
    BY <1>0, <2>1, AdvancesMoved
  <2>5. /\ IsFiniteSet(Advances') /\ Cardinality(Advances') <= Cardinality(Advances) + 1
        /\ Cardinality(Advances) \in Nat /\ Cardinality(Advances') \in Nat
    BY <2>4, OneMoreOrLess DEF Earned
  <2>6. Cardinality(Executions) \in Nat
    BY FS_CardinalityType DEF Earned
  <2>7. Cardinality(Advances') + Cardinality(Executions)
          <= Cardinality(Advances) + Cardinality(Executions')
    BY <2>3, <2>5, <2>6
  <2>8. \A q \in Procs : seen'[q].current \in {seen[q].current, current_step, 0}
    BY <1>0, <2>1 DEF Alone
  <2> QED
    BY <2>1, <2>3, <2>5, <2>7, <2>8, EarnedMoves
<1> QED
  BY <1>1, <1>2

\* A commit of an advance uses it up.
LEMMA EarnedAdvance ==
    ASSUME RowsTyped, SessionsTyped, Earned, NEW w \in Workers, AdvanceCommit(w)
    PROVE  Earned'
<1>0. /\ w \in Procs /\ w \notin ApiProcs /\ pc[w] = "advance_commit"
      /\ seen[w].current \in Nat /\ current_step \in Nat /\ NumSteps \in Nat
      /\ \A q \in Procs : seen[q].current \in Nat
  BY EngineAssumption, SeenTyped DEF Procs, AdvanceCommit, RowsTyped, Rows
<1>1. /\ Alone(w) /\ pc'[w] \in {"ack", "send_step"} /\ seen' = seen
      /\ UNCHANGED <<executed, queue>>
  BY <1>0, MovesAlone DEF AdvanceCommit, Goto
<1>2. /\ current_step' \in {current_step, seen[w].current + 1}
      /\ status' = "completed" => status = "completed" \/ seen[w].current + 1 >= NumSteps
  BY DEF AdvanceCommit, IsLast
<1>3. Executions' = Executions
  BY <1>1 DEF Executions
<1>4. <<w, 0>> \in Advances /\ Advances' \subseteq Advances \ {<<w, 0>>}
  <2>1. <<w, 0>> \in Advances /\ <<w, 0>> \notin Advances' /\ Advances' \subseteq Advances \cup {<<w, 0>>}
    BY <1>0, <1>1, AdvancesMoved DEF AdvancePlaces
  <2> QED
    BY <2>1
<1>5. /\ IsFiniteSet(Advances') /\ Cardinality(Advances') + 1 <= Cardinality(Advances)
      /\ Cardinality(Advances) \in Nat /\ Cardinality(Advances') \in Nat
      /\ Cardinality(Executions) \in Nat
  BY <1>4, OneMoreOrLess, FS_CardinalityType DEF Earned
<1>6. \A n \in Nat : Covered(n) =>
        /\ n + Cardinality(Advances') <= Cardinality(Executions')
        /\ (n + 1) + Cardinality(Advances') <= Cardinality(Executions')
  BY <1>3, <1>5 DEF Covered
<1>7. current_step' + Cardinality(Advances') <= Cardinality(Executions')
  BY <1>0, <1>2, <1>6 DEF Earned
<1>8. \A q \in Procs : seen'[q].current + Cardinality(Advances') <= Cardinality(Executions')
  BY <1>0, <1>1, <1>6 DEF Earned
<1>9. status' = "completed" => NumSteps + Cardinality(Advances') <= Cardinality(Executions')
  <2>1. CASE status = "completed"
    BY <1>0, <1>6, <2>1 DEF Earned
  <2>2. CASE seen[w].current + 1 >= NumSteps
    <3>1. (seen[w].current + 1) + Cardinality(Advances') <= Cardinality(Executions')
      BY <1>0, <1>6 DEF Earned
    <3> QED
      BY <1>0, <1>3, <1>5, <2>2, <3>1
  <2> QED
    BY <1>2, <2>1, <2>2
<1> QED
  BY <1>3, <1>5, <1>7, <1>8, <1>9 DEF Earned, Covered

\* The handlers of the API write positions they have read.
LEMMA EarnedApi ==
    ASSUME RowsTyped, SessionsTyped, Earned, NEW a \in ApiProcs,
           \/ (\E op \in Ops : ApiLoad(a, op)) \/ ApiStep(a) \/ ApiCrash(a)
           \/ DbError(a) \/ BrokerError(a)
    PROVE  Earned'
<1>0. a \in Procs /\ a \notin Workers
  BY EngineAssumption DEF Procs
<1>1. (\E next : Goto(a, next) \/ LoadThen(a, next)) \/ Finish(a)
  BY <1>0 DEF ApiStep, ApiLoad, StartCommit, ResumeCommit, PauseCommit, CancelCommit, Refresh,
     EnqueueCommit, SendStep, ApiCrash, DbError, BrokerError
<1>2. Alone(a) /\ seen'[a].current \in {seen[a].current, current_step, 0}
  BY <1>0, <1>1, MovesAlone DEF Loaded, Blank
<1>3. /\ UNCHANGED executed /\ current_step' \in {current_step, 0}
      /\ status' = "completed" => status = "completed"
      /\ UNCHANGED queue \/ Send(ExecuteMsg(Target(a), 0))
  BY DEF ApiStep, ApiLoad, StartCommit, ResumeCommit, PauseCommit, CancelCommit, Refresh,
     EnqueueCommit, SendStep, ApiCrash, DbError, BrokerError, Put, db
<1>4. ExecuteMsg(Target(a), 0).task = "execute"
  BY DEF ExecuteMsg
<1>5. \A m \in Messages : m.task = "advance" => queue'[m] = queue[m]
  BY <1>3, <1>4, SendCounts
<1> QED
  BY <1>0, <1>2, <1>3, <1>5, EarnedQuiet

\* The steps of a task.
LEMMA EarnedTask ==
    ASSUME RowsTyped, SessionsTyped, TasksPlaced, Unrepeated, Earned, NEW w \in Workers,
           \/ \E m \in Messages : Receive(w, m)
           \/ WorkerStep(w)
           \/ StepError(w) \/ Crash(w) \/ TimeLimit(w) \/ DbError(w) \/ BrokerError(w)
    PROVE  Earned'
<1>0. w \in Procs /\ pc[w] \in Places(job[w].task) /\ \A k \in Messages : queue[k] \in Nat
  BY DEF Procs, TasksPlaced, RowsTyped
<1>1. ASSUME NEW m \in Messages, Receive(w, m)
      PROVE  Earned'
  <2>1. /\ pc[w] = "idle" /\ Alone(w) /\ pc'[w] = m.task /\ seen' = seen
        /\ UNCHANGED <<status, current_step, executed>>
        /\ queue[m] > 0 /\ queue'[m] = queue[m] - 1 /\ \A k \in Messages \ {m} : queue'[k] = queue[k]
    BY <1>0, <1>1 DEF Receive, Alone, SessionsTyped, RowsTyped, db
  <2>2. CASE m.task = "advance"
    BY <1>0, <2>1, <2>2, EarnedPassed DEF AdvancePlaces
  <2>3. CASE m.task # "advance"
    BY <1>0, <2>1, <2>3, JobStep, EarnedQuiet DEF AdvancePlaces
  <2> QED
    BY <2>2, <2>3
<1>2. ASSUME NEW next, next \notin AdvancePlaces,
             Goto(w, next) \/ LoadThen(w, next) \/ Finish(w),
             UNCHANGED <<current_step, executed>>,
             status' = "completed" => status = "completed",
             \A m \in Messages : m.task = "advance" => queue'[m] = queue[m]
      PROVE  Earned'
  <2>1. /\ Alone(w) /\ pc'[w] \in {next, "idle"}
        /\ seen'[w].current \in {seen[w].current, current_step, 0}
    BY <1>0, <1>2, MovesAlone DEF Loaded, Blank
  <2>2. pc'[w] \notin AdvancePlaces
    BY <1>2, <2>1 DEF AdvancePlaces
  <2> QED
    BY <1>0, <1>2, <2>1, <2>2, EarnedQuiet
<1>3. ASSUME NEW m, m.task # "advance", Send(m) \/ UNCHANGED queue
      PROVE  \A k \in Messages : k.task = "advance" => queue'[k] = queue[k]
  BY <1>3, SendCounts
<1>4. CASE SendAdvance(w)
  <2> DEFINE m == AdvanceMsg(0)
  <2>1. /\ pc[w] = "send_advance" /\ Alone(w) /\ pc'[w] = "ack" /\ seen'[w] = seen[w] /\ Send(m)
        /\ UNCHANGED <<status, current_step, executed>>
    BY <1>0, <1>4, MovesAlone DEF SendAdvance, db
  <2>2. m \in Messages /\ m.task = "advance"
    BY RetryMessages DEF AdvanceMsg
  <2> HIDE DEF m
  <2>3. queue'[m] = queue[m] + 1 /\ \A k \in Messages \ {m} : queue'[k] = queue[k]
    BY <2>1, <2>2, SendCounts
  <2> QED
    BY <2>1, <2>2, <2>3, EarnedPassed DEF AdvancePlaces
<1>5. CASE SendFailure(w)
  <2>1. FailureMsg(job[w].step, 0).task # "advance"
    BY DEF FailureMsg
  <2>2. \A k \in Messages : k.task = "advance" => queue'[k] = queue[k]
    BY <1>3, <1>5, <2>1 DEF SendFailure
  <2> QED
    BY <1>2, <1>5, <2>2 DEF SendFailure, AdvancePlaces, db
<1>6. CASE Retry(w)
  <2> DEFINE m == [job[w] EXCEPT !.tries = @ + 1]
  <2>1. job[w].task = "execute" /\ job[w] \in Messages
    BY <1>0, <1>6 DEF Retry, Places, SessionsTyped, NoJob
  <2>2. m.task = "execute"
    BY <2>1 DEF Messages, ExecuteMsg, AdvanceMsg, FailureMsg
  <2>3. Send(m) \/ UNCHANGED queue
    BY <1>6 DEF Retry
  <2> HIDE DEF m
  <2>4. \A k \in Messages : k.task = "advance" => queue'[k] = queue[k]
    BY <1>3, <2>2, <2>3
  <2> QED
    BY <1>2, <1>6, <2>4 DEF Retry, AdvancePlaces, db
<1>7. CASE AdvanceLoad(w) \/ AnnounceCompleted(w)
  <2>1. /\ pc[w] \in AdvancePlaces /\ Alone(w)
        /\ seen'[w].current \in {seen[w].current, current_step, 0}
        /\ UNCHANGED <<status, current_step, executed, queue>>
    BY <1>0, <1>7, MovesAlone DEF AdvanceLoad, AnnounceCompleted, db, AdvancePlaces, Loaded
  <2> QED
    BY <1>0, <2>1, EarnedQuiet
<1>8. CASE SendStep(w)
  <2>1. ExecuteMsg(Target(w), 0).task # "advance"
    BY DEF ExecuteMsg
  <2>2. \A k \in Messages : k.task = "advance" => queue'[k] = queue[k]
    BY <1>3, <1>8, <2>1 DEF SendStep
  <2> QED
    BY <1>2, <1>8, <2>2 DEF SendStep, AdvancePlaces, db
<1>9. CASE Ack(w) \/ Touch(w) \/ FailureLoad(w) \/ FailureCommit(w) \/ AnnounceFailed(w)
  BY <1>2, <1>9 DEF Ack, Touch, FailureLoad, FailureCommit, AnnounceFailed, Put, AdvancePlaces, db
<1>10. CASE StepError(w) \/ TimeLimit(w) \/ BrokerError(w)
  BY <1>2, <1>10 DEF StepError, TimeLimit, BrokerError, AdvancePlaces, db
<1>11. ~Crash(w) /\ ~DbError(w)
  BY DEF Crash, DbError, Fault, Unrepeated
<1> QED
  BY <1>1, <1>4, <1>5, <1>6, <1>7, <1>8, <1>9, <1>10, <1>11, EarnedDispatch, EarnedAdvance
     DEF WorkerStep

\* At first nothing is executed and nothing passed.
LEMMA EarnedInit == Init => Earned
<1> SUFFICES ASSUME Init PROVE Earned
  OBVIOUS
<1>1. Advances = {}
  BY DEF Init, Advances, Procs
<1>2. Executions = {}
  BY DEF Init, Executions
<1>3. IsFiniteSet(Advances) /\ IsFiniteSet(Executions)
      /\ Cardinality(Advances) = 0 /\ Cardinality(Executions) = 0
  BY <1>1, <1>2, FS_EmptySet
<1>4. Covered(0)
  BY <1>3 DEF Covered
<1> QED
  BY <1>3, <1>4 DEF Init, Earned, Blank

\* The workflow never passes more steps than were executed, however often it is started,
\* paused, resumed and cancelled, and whichever stale rows the sessions write, as long as
\* no task is sent again after its commit.
THEOREM ProgressIsEarned ==
    ASSUME Unrepeated
    PROVE  Spec => []ProgressEarned
<1>1. Init => TasksPlaced /\ Earned
  BY PlacedInit, EarnedInit
<1>2. TypeOK /\ TasksPlaced /\ [Next]_vars => TasksPlaced'
  BY PlacedNext DEF Unrepeated
<1>3. TypeOK /\ TasksPlaced /\ Earned /\ [Next]_vars => Earned'
  <2> SUFFICES ASSUME RowsTyped, SessionsTyped, TasksPlaced, Earned, [Next]_vars
               PROVE  Earned'
    BY TypeParts
  <2>1. CASE CreateSteps \/ UNCHANGED vars
    <3>1. UNCHANGED <<status, current_step, executed, queue, pc, job, seen>>
      BY <2>1 DEF CreateSteps, sessions, vars
    <3>2. Advances' = Advances /\ Executions' = Executions
      BY <3>1 DEF Advances, Executions
    <3> QED
      BY <3>1, <3>2 DEF Earned, Covered
  <2>2. ASSUME NEW a \in ApiProcs,
               \/ (\E op \in Ops : ApiLoad(a, op)) \/ ApiStep(a) \/ ApiCrash(a)
               \/ DbError(a) \/ BrokerError(a)
        PROVE  Earned'
    BY <2>2, EarnedApi
  <2>3. ASSUME NEW w \in Workers,
               \/ \E m \in Messages : Receive(w, m)
               \/ WorkerStep(w)
               \/ StepError(w) \/ Crash(w) \/ TimeLimit(w) \/ DbError(w) \/ BrokerError(w)
        PROVE  Earned'
    BY <2>3, EarnedTask
  <2> QED
    BY <2>1, <2>2, <2>3 DEF Next, Procs
<1>4. TypeOK /\ Earned => ProgressEarned
  <2> SUFFICES ASSUME RowsTyped, SessionsTyped, Earned PROVE ProgressEarned
    BY TypeParts
  <2>1. Cardinality(Advances) \in Nat /\ Cardinality(Executions) \in Nat
    BY FS_CardinalityType DEF Earned
  <2>2. current_step \in Nat /\ NumSteps \in Nat
    BY EngineAssumption DEF RowsTyped, Rows
  <2>3. \A n \in Nat : Covered(n) => n <= Cardinality(Executions)
    BY <2>1 DEF Covered
  <2> QED
    BY <2>2, <2>3 DEF Earned, ProgressEarned
<1> QED
  BY <1>1, <1>2, <1>3, <1>4, InitTyped, NextTyped, PTL DEF Spec

=============================================================================
