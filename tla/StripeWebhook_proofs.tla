------------------------ MODULE StripeWebhook_proofs ------------------------
(***************************************************************************)
(* Proofs about StripeWebhook and the DeploymentService it extends, for    *)
(* every number of services, coroutines, deliveries and faults.            *)
(***************************************************************************)
EXTENDS StripeWebhook, FiniteSetTheorems, TLAPS

-------------------------------------------------------------------------------
(* The steps of a deployment, whoever starts it. *)

DeployStep ==
    \/ \E t \in Tasks, s \in Services : Create(t, s)
    \/ \E t \in Tasks : Handle(t) \/ Resume(t)
    \/ Crash(Services)

\* Who owns a record: the coroutine that built or loaded it.
Owner(o) == o[1]

\* What a service has in its cache, and what a coroutine works on, belongs to a
\* coroutine of the same service that has begun.
Owned ==
    /\ \A s \in Services : cache[s] # NoRecord =>
         pc[Owner(cache[s])] # "unused" /\ at[Owner(cache[s])] = s
    /\ \A t \in Tasks : held[t] # NoRecord =>
         pc[Owner(held[t])] # "unused" /\ at[Owner(held[t])] = at[t]
    /\ \A t \in InFlight : held[t] # NoRecord
    /\ \A t \in Tasks : pc[t] \in {"restore_stop", "restore_vm"} => at[t] = Api

\* What a record says of the machine.
Truth(o) ==
    /\ record[o] = "running" => Serving
    /\ record[o] = "stopped" => vm # "running"
    /\ record[o] = "deleted" => vm = "absent"

\* As long as operations come one at a time, the one under way works on the record
\* in the only cache that has one.
TidyInv ==
    tidy =>
        /\ \A t, u \in InFlight : t = u
        /\ \A r, s \in Services : cache[r] # NoRecord /\ cache[s] # NoRecord => r = s
        /\ \A t \in InFlight : cache[at[t]] = held[t]
        /\ \A t \in Tasks :
             /\ pc[t] # "stop_and_keep"
             /\ pc[t] = "begin" => record[held[t]] = "pending"
             /\ pc[t] = "restore_vm" => Truth(held[t]) /\ record[held[t]] # "running"
             /\ pc[t] \in {"verified", "healthy"} => Serving
        /\ InFlight = {} => \A s \in Services : cache[s] # NoRecord => Truth(cache[s])

\* A delivery that got past the row of the project, or has deployed.
Placed(d) == handler[d] = "generate" \/ d \in delivered

\* Only one delivery ever places an order with a name, and nobody placed one whose
\* project has no row.
OneOrder ==
    /\ delivered \subseteq Deliveries
    /\ DOMAIN handler = Deliveries
    /\ Named => \A d, e \in Deliveries : Placed(d) /\ Placed(e) => d = e
    /\ \A d \in Deliveries : Placed(d) => order.project_id[d] \in projects
    /\ (\E d \in Deliveries : handler[d] = "200") \/ processed => projects # {}

-------------------------------------------------------------------------------
(* What a step of a deployment can do. *)

\* An operation of t begins, on a record of its own or on the router's.
Begins(t) ==
    /\ pc[t] = "unused"
    /\ \E next \in Pcs \ {"unused"} :
         Goto(t, next) /\ (next \in {"restore_stop", "restore_vm"} => at'[t] = Api)
    /\ \E s \in Services : \E o \in Records :
         /\ at' = [at EXCEPT ![t] = s]
         /\ held' = [held EXCEPT ![t] = o]
         /\ Owner(o) = t \/ (o = cache[s] /\ s = Api)

\* An operation of t goes on, with the record it had, its own, or the router's.
GoesOn(t) ==
    /\ t \in InFlight
    /\ \E next \in Pcs \ {"unused"} :
         Goto(t, next) /\ (next \in {"restore_stop", "restore_vm"} => at'[t] = Api)
    /\ UNCHANGED at
    /\ \/ UNCHANGED held
       \/ \E o \in Records :
            /\ held' = [held EXCEPT ![t] = o]
            /\ Owner(o) = t \/ (o = cache[at[t]] /\ at[t] = Api)

Stops ==
    /\ pc' = [t \in Tasks |-> IF t \in InFlight THEN "done" ELSE pc[t]]
    /\ UNCHANGED <<at, held>>

\* Records as the operation of t leaves them, when it saves, or fails to.
Wrote(t, st) ==
    /\ at'[t] \notin broken
    /\ record' = [record EXCEPT ![held'[t]] = st]
    /\ cache' = [cache EXCEPT ![at'[t]] = held'[t]]
    /\ row' = st /\ writer' = at'[t]
    /\ UNCHANGED broken

FailedToWrite(t, st) ==
    /\ record' = [record EXCEPT ![held'[t]] = st]
    /\ cache' = [cache EXCEPT ![at'[t]] = held'[t]]
    /\ broken' = broken \cup {at'[t]}
    /\ UNCHANGED <<row, writer>>

Forgets ==
    /\ cache' = [s \in Services |-> NoRecord]
    /\ broken' = {}
    /\ UNCHANGED <<row, record, writer>>

\* What an operation of t does to the records, and to those of others nothing.
Stores(t) ==
    \/ UNCHANGED store
    \/ /\ held'[t] # NoRecord
       /\ \/ \E st \in {"running", "stopped", "deleted"} : Mark(held'[t], st)
          \/ \E st \in Statuses : Wrote(t, st) \/ FailedToWrite(t, st)

Spends == UNCHANGED faults_left \/ (faults_left > 0 /\ faults_left' = faults_left - 1)

-------------------------------------------------------------------------------
(* Type correctness of the deployment. *)

StoreTyped ==
    /\ row \in Statuses \cup {"none"}
    /\ record \in [Records -> Statuses]
    /\ cache \in [Services -> Records \cup {NoRecord}]
    /\ broken \subseteq Services
    /\ writer \in Services \cup {"none"}
    /\ faults_left \in 0..MaxFaults

MachineTyped ==
    /\ vm \in {"absent", "off", "running"}
    /\ app \in {"none", "vm", "host"}
    /\ tidy \in BOOLEAN
    /\ crashed \in BOOLEAN

CoroutinesTyped ==
    /\ pc \in [Tasks -> Pcs]
    /\ at \in [Tasks -> Services]
    /\ held \in [Tasks -> Records \cup {NoRecord}]

\* The type invariant in three parts.
LEMMA TypeParts == DeploymentTypeOK <=> StoreTyped /\ MachineTyped /\ CoroutinesTyped
  BY DEF DeploymentTypeOK, StoreTyped, MachineTyped, CoroutinesTyped

\* Each record has the task that wrote or loaded it as its owner.
LEMMA RecordsTyped ==
    /\ NoRecord \notin Records
    /\ \A o \in Records : Owner(o) \in Tasks
    /\ \A t \in Tasks : <<t, "created">> \in Records /\ <<t, "loaded">> \in Records
    /\ \A t \in Tasks : Owner(<<t, "created">>) = t /\ Owner(<<t, "loaded">>) = t
  BY DEF NoRecord, Records, Owner

\* Before the first call the types hold.
LEMMA DeployTypedInit == DeployInit => DeploymentTypeOK
<1> SUFFICES ASSUME DeployInit PROVE StoreTyped /\ MachineTyped /\ CoroutinesTyped
  BY TypeParts
<1> USE DeployAssumption, RecordsTyped DEF DeployInit, Statuses, Pcs
<1>1. StoreTyped
  BY DEF StoreTyped
<1>2. MachineTyped
  BY DEF MachineTyped
<1>3. pc \in [Tasks -> Pcs]
  OBVIOUS
<1>4. CoroutinesTyped
  BY <1>3 DEF CoroutinesTyped
<1> QED
  BY <1>1, <1>2, <1>4

-------------------------------------------------------------------------------
(* Every step has that shape. *)

Shape(t) == (Begins(t) \/ GoesOn(t)) /\ Stores(t) /\ Spends

\* Creating a deployment has the shape of a step of one task,
LEMMA CreateShape ==
    ASSUME CoroutinesTyped, NEW t \in Tasks, NEW s \in Services, Create(t, s)
    PROVE  Shape(t)
<1> DEFINE o == <<t, "created">>
<1> USE RecordsTyped DEF CoroutinesTyped
<1>1. /\ pc[t] = "unused" /\ at' = [at EXCEPT ![t] = s] /\ held' = [held EXCEPT ![t] = o]
      /\ Goto(t, "begin") \/ Goto(t, "done")
      /\ Saved(s, o, "pending") \/ SaveFails(s, o, "pending")
  BY DEF Create, Enter
<1>2. at'[t] = s /\ held'[t] = o /\ o \in Records /\ Owner(o) = t
  BY <1>1
<1>3. Begins(t)
  <2>1. PICK next \in {"begin", "done"} : Goto(t, next)
    BY <1>1
  <2>2. next \in Pcs \ {"unused"} /\ next \notin {"restore_stop", "restore_vm"}
    BY DEF Pcs
  <2> QED
    BY <1>1, <1>2, <2>1, <2>2 DEF Begins
<1>4. Stores(t) /\ Spends
  BY <1>1, <1>2 DEF Stores, Spends, Wrote, FailedToWrite, Saved, SaveFails, DeployFault, Statuses
<1> QED
  BY <1>3, <1>4 DEF Shape

\* as has failing one,
LEMMA FailShape ==
    ASSUME CoroutinesTyped, NEW t \in InFlight, held[t] # NoRecord, Fail(t), Same
    PROVE  Shape(t)
<1>1. t \in Tasks
  BY DEF InFlight
<1>2. GoesOn(t)
  BY DEF Fail, GoesOn, Same, Pcs
<1>3. Stores(t) /\ Spends
  BY DEF Fail, Same, Stores, Spends, Wrote, FailedToWrite, Saved, SaveFails, DeployFault, Statuses
<1> QED
  BY <1>2, <1>3 DEF Shape

\* and beginning any other operation.
LEMMA BeginShape ==
    ASSUME CoroutinesTyped, Owned, NEW t \in Tasks, Begin(t)
    PROVE  Shape(t)
<1> DEFINE o == <<t, "loaded">>
<1> USE RecordsTyped DEF CoroutinesTyped
<1>1. t \in InFlight /\ at' = at
  BY DEF Begin, Same, InFlight
<1>2. CASE held' = [held EXCEPT ![t] = o]
  <2>1. held'[t] = o /\ o \in Records /\ Owner(o) = t
    BY <1>2
  <2>2. PICK next \in {"create_vm", "done"} : Goto(t, next)
    BY <1>2 DEF Begin
  <2>3. next \in Pcs \ {"unused"} /\ next \notin {"restore_stop", "restore_vm"}
    BY DEF Pcs
  <2>4. GoesOn(t)
    BY <1>1, <1>2, <2>1, <2>2, <2>3 DEF GoesOn
  <2>5. Stores(t) /\ Spends
    BY <1>1, <1>2, <2>1
    DEF Begin, Stores, Spends, Wrote, FailedToWrite, Saved, SaveFails, DeployFault, Statuses, store
  <2> QED
    BY <2>4, <2>5 DEF Shape
<1>3. CASE UNCHANGED <<store, faults_left, held>> /\ Goto(t, "done")
  BY <1>1, <1>3 DEF Shape, GoesOn, Pcs, Stores, Spends
<1> QED
  BY <1>2, <1>3 DEF Begin

\* The execution.
LEMMA ExecuteShape ==
    ASSUME CoroutinesTyped, Owned, NEW t \in Tasks, Execute(t)
    PROVE  Shape(t)
<1> USE DEF Pcs
<1>0. pc[t] \notin {"unused", "done"} => t \in InFlight /\ held[t] # NoRecord
  BY DEF InFlight, Owned
<1>1. CASE Begin(t)
  BY <1>1, BeginShape
<1>2. CASE CreateVm(t) \/ InstallVm(t) \/ ConfigureVm(t)
  BY <1>0, <1>2 DEF CreateVm, InstallVm, ConfigureVm, Provision, DeployFault, Same, Shape, GoesOn,
     Stores, Spends
<1>3. CASE VmMissing(t) \/ DnsFails(t) \/ Verify(t) \/ VerifyFails(t)
  BY <1>0, <1>3 DEF VmMissing, DnsFails, Verify, VerifyFails, DeployFault, Same, Shape, GoesOn,
     Stores, Spends
<1>4. CASE Cleanup(t) \/ Failing(t)
  BY <1>0, <1>4, FailShape DEF Cleanup, Failing
<1>5. CASE Deploy(t)
  <2>1. GoesOn(t)
    BY <1>0, <1>5 DEF Deploy, GoesOn, Same
  <2>2. Stores(t) /\ Spends
    BY <1>0, <1>5 DEF Deploy, Stores, Spends, Wrote, FailedToWrite, Saved, SaveFails, DeployFault,
       Same, Statuses
  <2> QED
    BY <2>1, <2>2 DEF Shape
<1>6. CASE ConfigureDns(t)
  BY <1>0, <1>6, FailShape DEF ConfigureDns, Same, Shape, GoesOn, Stores, Spends
<1>7. CASE MarkRunning(t)
  <2>1. GoesOn(t)
    BY <1>0, <1>7 DEF MarkRunning, GoesOn, Same
  <2>2. Stores(t) /\ Spends
    BY <1>0, <1>7
    DEF MarkRunning, Stores, Spends, Wrote, FailedToWrite, Saved, SaveFails, DeployFault, Same,
       Statuses
  <2> QED
    BY <2>1, <2>2 DEF Shape
<1> QED
  BY <1>1, <1>2, <1>3, <1>4, <1>5, <1>6, <1>7 DEF Execute

\* The other handlers, up to their first await.
LEMMA HandleShape ==
    ASSUME StoreTyped, CoroutinesTyped, NEW t \in Tasks, Handle(t)
    PROVE  Shape(t)
<1> USE DeployAssumption, RecordsTyped DEF CoroutinesTyped, StoreTyped, Pcs
<1>1. ASSUME NEW allowed, NEW first \in Pcs \ {"unused"}, NEW careful,
             Operate(t, allowed, first, careful),
             UNCHANGED store \/ Mark(cache[Api], "deleted")
      PROVE  Shape(t)
  <2>1. cache[Api] \in Records
    BY <1>1 DEF Operate
  <2>2. Begins(t) /\ held'[t] = cache[Api]
    BY <1>1, <2>1 DEF Operate, Enter, Begins
  <2>3. Stores(t) /\ Spends
    BY <1>1, <2>1, <2>2 DEF Operate, Stores, Spends
  <2> QED
    BY <2>2, <2>3 DEF Shape
<1>2. CASE StartDeployment(t) \/ StopDeployment(t) \/ RestartDeployment(t) \/ DeleteDeployment(t)
  BY <1>1, <1>2 DEF StartDeployment, StopDeployment, RestartDeployment, DeleteDeployment
<1>3. ASSUME NEW o \in Restorable(t) PROVE o \in Records /\ (Owner(o) = t \/ o = cache[Api])
  BY <1>3 DEF Restorable
<1>4. ASSUME NEW o \in Restorable(t), NEW next \in Pcs \ {"unused"}, Enter(t, Api, o), Goto(t, next)
      PROVE  Begins(t) /\ held'[t] = o /\ at'[t] = Api
  BY <1>3, <1>4 DEF Enter, Begins
<1>5. CASE RestoreBackup(t)
  <2>1. PICK o \in Restorable(t) :
          /\ Enter(t, Api, o) /\ Goto(t, "done")
          /\ Saved(Api, o, "running") \/ SaveFails(Api, o, "running")
    BY <1>5 DEF RestoreBackup
  <2>2. Begins(t) /\ held'[t] = o /\ at'[t] = Api
    BY <2>1, <1>4
  <2>3. Stores(t) /\ Spends
    BY <1>3, <2>1, <2>2
    DEF Stores, Spends, Wrote, FailedToWrite, Saved, SaveFails, DeployFault, Statuses
  <2> QED
    BY <2>2, <2>3 DEF Shape
<1>6. CASE RestoreFails(t)
  BY <1>4, <1>6 DEF RestoreFails, Shape, Stores, Spends, DeployFault
<1>7. CASE RestoreSnapshot(t)
  BY <1>4, <1>7 DEF RestoreSnapshot, Shape, Stores, Spends
<1> QED
  BY <1>2, <1>5, <1>6, <1>7 DEF Handle

\* ... and beyond it.
LEMMA ResumeShape ==
    ASSUME StoreTyped, CoroutinesTyped, Owned, NEW t \in Tasks, Resume(t)
    PROVE  Shape(t)
<1> USE DEF Pcs
<1>0. pc[t] \notin {"unused", "done"} => t \in InFlight /\ held[t] # NoRecord
  BY DEF InFlight, Owned
<1>1. CASE Execute(t)
  BY <1>1, ExecuteShape
<1>2. CASE ScriptFails(t) \/ RunVm(t)
  BY <1>0, <1>2 DEF ScriptFails, RunVm, Same, DeployFault, Shape, GoesOn, Stores, Spends
<1>3. CASE AwaitHealth(t) \/ MarkHealthy(t)
  BY <1>0, <1>3 DEF AwaitHealth, MarkHealthy, DeployFault, Same, Shape, GoesOn, Stores, Spends
<1>4. CASE StopVm(t)
  <2>1. GoesOn(t)
    <3> DEFINE next == CASE pc[t] \in {"stop_vm", "stop_and_keep"} -> "done"
                         [] pc[t] = "stop_and_delete" -> "delete_vm"
                         [] OTHER -> "restore_vm"
    <3>1. next \in Pcs \ {"unused"} /\ (next = "restore_vm" => pc[t] = "restore_stop")
      BY <1>4 DEF StopVm
    <3>2. next \in {"restore_stop", "restore_vm"} => at[t] = Api
      BY <1>4, <3>1 DEF StopVm, Owned
    <3> HIDE DEF next
    <3> QED
      BY <1>0, <1>4, <3>1, <3>2 DEF StopVm, Same, GoesOn, next
  <2>2. Stores(t) /\ Spends
    BY <1>0, <1>4 DEF StopVm, Stores, Spends
  <2> QED
    BY <2>1, <2>2 DEF Shape
<1>5. CASE DeleteVm(t)
  BY <1>0, <1>5 DEF DeleteVm, Same, Shape, GoesOn, Stores, Spends
<1>6. CASE RestoredVm(t)
  <2>1. t \in InFlight /\ at[t] = Api /\ UNCHANGED <<at, store, faults_left>>
    BY <1>0, <1>6 DEF RestoredVm, Owned, Same
  <2>2. CASE cache[Api] # NoRecord /\ record[cache[Api]] = "stopped"
    <3>1. cache[Api] \in Records
      BY <2>2, DeployAssumption DEF StoreTyped
    <3> QED
      BY <1>6, <2>1, <2>2, <3>1 DEF RestoredVm, Shape, GoesOn, Stores, Spends
  <2>3. CASE ~(cache[Api] # NoRecord /\ record[cache[Api]] = "stopped")
    BY <1>6, <2>1, <2>3 DEF RestoredVm, Shape, GoesOn, Stores, Spends
  <2> QED
    BY <2>2, <2>3
<1> QED
  BY <1>1, <1>2, <1>3, <1>4, <1>5, <1>6 DEF Resume

\* A crash stops every task and forgets the cache.
LEMMA CrashShape ==
    ASSUME StoreTyped, CoroutinesTyped, Crash(Services)
    PROVE  Stops /\ Forgets /\ Spends
<1>1. \A t \in Tasks : t \in InFlight /\ at[t] \in Services <=> t \in InFlight
  BY DEF CoroutinesTyped
<1>2. Stops
  BY <1>1 DEF Crash, Stops
<1> QED
  BY <1>2 DEF Crash, StoreTyped, Forgets, Spends, DeployFault

\* Every step of the service has one of these shapes.
LEMMA StepShape ==
    ASSUME StoreTyped, CoroutinesTyped, Owned, DeployStep
    PROVE  (\E t \in Tasks : Shape(t)) \/ (Stops /\ Forgets /\ Spends)
  BY CreateShape, HandleShape, ResumeShape, CrashShape DEF DeployStep

-------------------------------------------------------------------------------
(* Types and ownership. *)

\* What a coroutine has begun is not begun again, nor moved to another service.
LEMMA Begun ==
    ASSUME CoroutinesTyped, (\E t \in Tasks : Begins(t) \/ GoesOn(t)) \/ Stops
    PROVE  \A t \in Tasks : pc[t] # "unused" => pc'[t] # "unused" /\ at'[t] = at[t]
<1>1. ASSUME NEW t \in Tasks, Begins(t)
      PROVE  \A u \in Tasks : pc[u] # "unused" => pc'[u] # "unused" /\ at'[u] = at[u]
  BY <1>1 DEF CoroutinesTyped, Begins, Goto
<1>2. ASSUME NEW t \in Tasks, GoesOn(t)
      PROVE  \A u \in Tasks : pc[u] # "unused" => pc'[u] # "unused" /\ at'[u] = at[u]
  BY <1>2 DEF CoroutinesTyped, GoesOn, Goto
<1>3. ASSUME Stops
      PROVE  \A u \in Tasks : pc[u] # "unused" => pc'[u] # "unused" /\ at'[u] = at[u]
  BY <1>3 DEF Stops
<1> QED
  BY <1>1, <1>2, <1>3

\* A step of either shape keeps the types of the tasks,
LEMMA CoroutinesStep ==
    ASSUME CoroutinesTyped, (\E t \in Tasks : Begins(t) \/ GoesOn(t)) \/ Stops
    PROVE  CoroutinesTyped'
<1>1. ASSUME NEW t \in Tasks, Begins(t)
      PROVE  CoroutinesTyped'
  BY <1>1 DEF CoroutinesTyped, Begins, Goto
<1>2. ASSUME NEW t \in Tasks, GoesOn(t)
      PROVE  CoroutinesTyped'
  BY <1>2 DEF CoroutinesTyped, GoesOn, Goto
<1>3. ASSUME Stops
      PROVE  CoroutinesTyped'
  BY <1>3 DEF CoroutinesTyped, Stops, Pcs
<1> QED
  BY <1>1, <1>2, <1>3

\* of the store,
LEMMA StoreStep ==
    ASSUME StoreTyped, CoroutinesTyped', Spends,
           (\E t \in Tasks : Stores(t)) \/ Forgets
    PROVE  StoreTyped'
<1>0. faults_left' \in 0..MaxFaults
  BY DeployAssumption DEF StoreTyped, Spends
<1>1. ASSUME NEW t \in Tasks, Stores(t)
      PROVE  StoreTyped'
  <2>1. held'[t] # NoRecord => held'[t] \in Records /\ at'[t] \in Services
    BY DEF CoroutinesTyped
  <2>2. CASE UNCHANGED store
    BY <1>0, <2>2 DEF StoreTyped, store
  <2>3. ASSUME held'[t] # NoRecord, NEW st \in {"running", "stopped", "deleted"}, Mark(held'[t], st)
        PROVE  StoreTyped'
    BY <1>0, <2>1, <2>3 DEF StoreTyped, Mark, Statuses
  <2>4. ASSUME held'[t] # NoRecord, NEW st \in Statuses, Wrote(t, st) \/ FailedToWrite(t, st)
        PROVE  StoreTyped'
    BY <1>0, <2>1, <2>4 DEF StoreTyped, Wrote, FailedToWrite
  <2> QED
    BY <1>1, <2>2, <2>3, <2>4 DEF Stores
<1>2. CASE Forgets
  BY <1>0, <1>2 DEF StoreTyped, Forgets
<1> QED
  BY <1>1, <1>2

\* and of the machine.
LEMMA MachineStep ==
    ASSUME MachineTyped, DeployStep
    PROVE  MachineTyped'
<1> USE DEF MachineTyped, resources, Same
<1>1. ASSUME NEW t \in Tasks, NEW s \in Services, Create(t, s)
      PROVE  MachineTyped'
  BY <1>1 DEF Create, Enter
<1>2. ASSUME NEW t \in Tasks, NEW allowed, NEW first, NEW careful, Operate(t, allowed, first, careful)
      PROVE  MachineTyped'
  BY <1>2 DEF Operate, Enter
<1>3. ASSUME NEW t \in Tasks, RestoreBackup(t) \/ RestoreFails(t) \/ RestoreSnapshot(t)
      PROVE  MachineTyped'
  BY <1>3 DEF RestoreBackup, RestoreFails, RestoreSnapshot, Enter
<1>4. ASSUME NEW t \in Tasks, Handle(t)
      PROVE  MachineTyped'
  BY <1>2, <1>3, <1>4
  DEF Handle, StartDeployment, StopDeployment, RestartDeployment, DeleteDeployment
<1>5. ASSUME NEW t \in Tasks, Execute(t)
      PROVE  MachineTyped'
  BY <1>5 DEF Execute, Begin, CreateVm, InstallVm, ConfigureVm, Provision, Started, VmMissing,
     Cleanup,
     WithoutVm, Deploy, ConfigureDns, DnsFails, Verify, VerifyFails, MarkRunning, Failing
<1>6. ASSUME NEW t \in Tasks, Resume(t)
      PROVE  MachineTyped'
  BY <1>5, <1>6 DEF Resume, ScriptFails, RunVm, Started, AwaitHealth, MarkHealthy, StopVm, Stopped,
     DeleteVm, RestoredVm, WithoutVm
<1>7. CASE Crash(Services)
  BY <1>7 DEF Crash
<1> QED
  BY <1>1, <1>4, <1>6, <1>7 DEF DeployStep

\* Before the first call nothing is held.
LEMMA OwnedInit == DeployInit => Owned
  BY DeployAssumption DEF DeployInit, Owned, InFlight

\* A task holds only records whose owner has begun, of the same service.
LEMMA HeldOwned ==
    ASSUME CoroutinesTyped, StoreTyped, Owned, NEW t \in Tasks, Begins(t) \/ GoesOn(t)
    PROVE  \A u \in Tasks : held'[u] # NoRecord =>
             pc'[Owner(held'[u])] # "unused" /\ at'[Owner(held'[u])] = at'[u]
<1> USE RecordsTyped DEF CoroutinesTyped
<1>1. /\ \A u \in Tasks : pc[u] # "unused" => pc'[u] # "unused" /\ at'[u] = at[u]
      /\ pc'[t] # "unused"
      /\ CoroutinesTyped'
  BY Begun, CoroutinesStep DEF Begins, GoesOn, Goto, InFlight
<1>2. \A u \in Tasks : held[u] # NoRecord =>
          pc'[Owner(held[u])] # "unused" /\ at'[Owner(held[u])] = at[u]
  BY <1>1 DEF Owned
<1>3. \A s \in Services : cache[s] # NoRecord =>
          pc'[Owner(cache[s])] # "unused" /\ at'[Owner(cache[s])] = s
  BY <1>1 DEF Owned, StoreTyped
<1>4. ASSUME NEW u \in Tasks \ {t}, held'[u] # NoRecord
      PROVE  pc'[Owner(held'[u])] # "unused" /\ at'[Owner(held'[u])] = at'[u]
  <2>1. held'[u] = held[u] /\ at'[u] = at[u]
    BY <1>4 DEF Begins, GoesOn
  <2> QED
    BY <1>2, <1>4, <2>1
<1>5. ASSUME held'[t] # NoRecord
      PROVE  pc'[Owner(held'[t])] # "unused" /\ at'[Owner(held'[t])] = at'[t]
  <2>1. CASE Owner(held'[t]) = t
    BY <1>1, <2>1
  <2>2. CASE UNCHANGED <<held, at>>
    BY <1>2, <1>5, <2>2
  <2>3. CASE held'[t] \in Records /\ held'[t] = cache[at'[t]] /\ at'[t] \in Services
    BY <1>3, <1>5, <2>3
  <2> QED
    BY <1>1, <2>1, <2>2, <2>3 DEF Begins, GoesOn
<1> QED
  BY <1>4, <1>5

\* So does the cache.
LEMMA CacheOwned ==
    ASSUME CoroutinesTyped, StoreTyped, Owned, NEW t \in Tasks, Shape(t)
    PROVE  \A s \in Services : cache'[s] # NoRecord =>
             pc'[Owner(cache'[s])] # "unused" /\ at'[Owner(cache'[s])] = s
<1> USE RecordsTyped DEF CoroutinesTyped
<1>1. \A u \in Tasks : pc[u] # "unused" => pc'[u] # "unused" /\ at'[u] = at[u]
  BY Begun DEF Shape
<1>2. \A s \in Services : cache[s] # NoRecord =>
          pc'[Owner(cache[s])] # "unused" /\ at'[Owner(cache[s])] = s
  BY <1>1 DEF Owned, StoreTyped
<1>3. held'[t] # NoRecord => pc'[Owner(held'[t])] # "unused" /\ at'[Owner(held'[t])] = at'[t]
  BY HeldOwned DEF Shape
<1>4. \/ cache' = cache
      \/ held'[t] # NoRecord /\ cache' = [cache EXCEPT ![at'[t]] = held'[t]]
  BY DEF Shape, Stores, store, Mark, Wrote, FailedToWrite
<1> QED
  BY <1>2, <1>3, <1>4 DEF StoreTyped

\* Ownership is kept by every step.
LEMMA OwnedStep ==
    ASSUME StoreTyped, CoroutinesTyped, Owned, DeployStep
    PROVE  Owned'
<1>1. ASSUME NEW t \in Tasks, Shape(t)
      PROVE  Owned'
  <2>1. \A u \in InFlight' : held'[u] # NoRecord
    BY <1>1, RecordsTyped DEF Shape, Begins, GoesOn, Owned, InFlight, Goto, CoroutinesTyped
  <2>2. \A u \in Tasks : pc'[u] \in {"restore_stop", "restore_vm"} => at'[u] = Api
    BY <1>1 DEF Shape, Begins, GoesOn, Owned, Goto, CoroutinesTyped
  <2> QED
    BY <1>1, <2>1, <2>2, HeldOwned, CacheOwned DEF Shape, Owned
<1>2. CASE Stops /\ Forgets
  <2>1. /\ \A t \in Tasks : pc'[t] \notin {"restore_stop", "restore_vm"} \/ pc'[t] = pc[t]
        /\ \A s \in Services : cache'[s] = NoRecord
        /\ InFlight' = {}
    BY <1>2 DEF Stops, Forgets, InFlight
  <2>2. \A t \in Tasks : pc[t] # "unused" => pc'[t] # "unused" /\ at'[t] = at[t]
    BY <1>2, Begun
  <2> QED
    BY <1>2, <2>1, <2>2, RecordsTyped DEF Stops, Owned, CoroutinesTyped
<1> QED
  BY <1>1, <1>2, StepShape

-------------------------------------------------------------------------------
(* A deployment under way, or failed, is so in the database. *)

LEMMA PersistedStep ==
    ASSUME StoreTyped, CoroutinesTyped, Owned, RecordPersisted, DeployStep
    PROVE  RecordPersisted'
<1> USE RecordsTyped
<1>1. CASE Stops /\ Forgets
  BY <1>1 DEF Forgets, RecordPersisted
<1>2. ASSUME NEW t \in Tasks, Shape(t)
      PROVE  RecordPersisted'
  <2>1. CASE UNCHANGED store
    BY <2>1 DEF store, RecordPersisted
  <2>2. ASSUME NEW st \in {"running", "stopped", "deleted"}, Mark(held'[t], st)
        PROVE  RecordPersisted'
    BY <2>2 DEF Mark, RecordPersisted, StoreTyped, Unsettled
  <2>3. ASSUME held'[t] # NoRecord, NEW st \in Statuses, Wrote(t, st)
        PROVE  RecordPersisted'
    BY <2>3, CoroutinesStep, <1>2 DEF Shape, CoroutinesTyped, Wrote, RecordPersisted, StoreTyped
  <2>4. ASSUME held'[t] # NoRecord, NEW st \in Statuses, FailedToWrite(t, st)
        PROVE  RecordPersisted'
    <3> SUFFICES ASSUME NEW s \in Services \ broken', s = writer', cache'[s] # NoRecord,
                        record'[cache'[s]] \in Unsettled \cup {"failed"}
                 PROVE  row' = record'[cache'[s]]
      BY DEF RecordPersisted
    <3>1. CoroutinesTyped' /\ at'[t] \in Services /\ held'[t] \in Records
      BY <1>2, <2>4, CoroutinesStep DEF Shape, CoroutinesTyped
    <3>2. s \notin broken /\ s # at'[t] /\ cache'[s] = cache[s]
      BY <2>4, <3>1 DEF FailedToWrite, StoreTyped
    <3>3. at'[Owner(cache[s])] = s /\ at'[Owner(held'[t])] = at'[t]
      BY <1>2, <2>4, <3>2, HeldOwned, CacheOwned DEF Shape
    <3>4. record'[cache[s]] = record[cache[s]]
      BY <2>4, <3>2, <3>3 DEF FailedToWrite, StoreTyped
    <3> QED
      BY <2>4, <3>2, <3>4 DEF FailedToWrite, RecordPersisted
  <2> QED
    BY <1>2, <2>1, <2>2, <2>3, <2>4 DEF Shape, Stores
<1> QED
  BY <1>1, <1>2, StepShape

-------------------------------------------------------------------------------
(* With operations one at a time a record tells the truth of the machine. *)

\* No coroutine but t is under way, and no service but that of t has a record.
Only(t) ==
    /\ \A u \in Tasks \ {t} : pc[u] \in {"unused", "done"}
    /\ \A s \in Services : cache[s] # NoRecord => s = at[t]

\* Where the operation of t has got to, its service's record is as it should be.
Consistent(t) ==
    /\ t \in InFlight => cache[at[t]] = held[t]
    /\ pc[t] # "stop_and_keep"
    /\ pc[t] = "begin" => record[held[t]] = "pending"
    /\ pc[t] = "restore_vm" => Truth(held[t]) /\ record[held[t]] # "running"
    /\ pc[t] \in {"verified", "healthy"} => Serving
    /\ pc[t] = "done" /\ cache[at[t]] # NoRecord => Truth(cache[at[t]])

\* While one task alone is under way, its consistency is all there is to show.
LEMMA OneAtATime ==
    ASSUME NEW t \in Tasks, Only(t)', Consistent(t)', pc'[t] # "unused"
    PROVE  TidyInv'
  BY DEF Only, Consistent, TidyInv, InFlight

\* In a tidy run, a task under way is the only one.
LEMMA OneUnderWay ==
    ASSUME TidyInv, Owned, StoreTyped, CoroutinesTyped, tidy, NEW t \in InFlight
    PROVE  Only(t) /\ Consistent(t)
  BY RecordsTyped DEF Only, Consistent, TidyInv, InFlight, Owned, CoroutinesTyped

\* The step of that task leaves it the only one.
LEMMA OthersStill ==
    ASSUME StoreTyped, CoroutinesTyped, NEW t \in Tasks, Shape(t),
           \A u \in Tasks \ {t} : pc[u] \in {"unused", "done"},
           \A s \in Services : cache[s] # NoRecord => s = at'[t]
    PROVE  Only(t)' /\ pc'[t] # "unused"
<1>1. \A u \in Tasks \ {t} : pc'[u] = pc[u]
  BY DEF Shape, Begins, GoesOn, Goto, CoroutinesTyped
<1>2. \A s \in Services : cache'[s] # NoRecord => s = at'[t]
  BY DEF Shape, Stores, store, Mark, Wrote, FailedToWrite, StoreTyped
<1>3. pc'[t] # "unused"
  BY DEF Shape, Begins, GoesOn, Goto, CoroutinesTyped
<1> QED
  BY <1>1, <1>2, <1>3 DEF Only

\* The steps of an execution under way.
LEMMA ExecuteConsistent ==
    ASSUME StoreTyped, CoroutinesTyped, Owned, NEW t \in Tasks, Consistent(t), Execute(t)
    PROVE  Consistent(t)'
<1> USE RecordsTyped DEF Consistent, StoreTyped, CoroutinesTyped, Goto, Same, Pcs, Statuses, resources
<1>0. pc[t] \notin {"unused", "done"} =>
        /\ t \in InFlight /\ held[t] \in Records /\ at[t] \in Services
        /\ cache[at[t]] = held[t]
  BY DEF InFlight, Owned
<1>1. ASSUME Fail(t), UNCHANGED at, pc[t] \notin {"unused", "done"}
      PROVE  Consistent(t)'
  BY <1>0, <1>1 DEF Fail, Saved, SaveFails, Truth, InFlight
<1>2. CASE Begin(t)
  <2> DEFINE o == <<t, "loaded">>
  <2>1. CASE /\ held' = [held EXCEPT ![t] = o]
             /\ \/ Saved(at[t], o, "provisioning") /\ Goto(t, "create_vm")
                \/ SaveFails(at[t], o, "failed") /\ Goto(t, "done")
    <3>1. held'[t] = o /\ o \in Records /\ at'[t] = at[t] /\ at[t] \in Services
      BY <1>2, <2>1 DEF Begin
    <3>2. /\ cache'[at[t]] = o
          /\ pc'[t] = "create_vm" \/ (pc'[t] = "done" /\ record'[o] = "failed")
      BY <1>2, <2>1, <3>1 DEF Begin, Saved, SaveFails
    <3> QED
      BY <3>1, <3>2 DEF Truth
  <2>2. CASE UNCHANGED <<store, held>> /\ Goto(t, "done")
    BY <1>0, <1>2, <2>2 DEF Begin, Truth, InFlight, store
  <2> QED
    BY <1>2, <2>1, <2>2 DEF Begin
<1>3. CASE CreateVm(t) \/ InstallVm(t) \/ ConfigureVm(t)
  BY <1>0, <1>3 DEF CreateVm, InstallVm, ConfigureVm, Provision, InFlight, store
<1>4. CASE VmMissing(t) \/ DnsFails(t) \/ VerifyFails(t)
  BY <1>0, <1>4 DEF VmMissing, DnsFails, VerifyFails, InFlight, store
<1>5. CASE Cleanup(t) \/ Failing(t)
  BY <1>1, <1>5 DEF Cleanup, Failing
<1>6. CASE Deploy(t)
  BY <1>0, <1>6 DEF Deploy, Saved, SaveFails, Truth, InFlight
<1>7. CASE ConfigureDns(t)
  BY <1>0, <1>1, <1>7 DEF ConfigureDns, InFlight, store
<1>8. CASE Verify(t)
  BY <1>0, <1>8 DEF Verify, Healthy, Serving, InFlight, store
<1>9. CASE MarkRunning(t)
  BY <1>0, <1>9 DEF MarkRunning, Serving, Saved, SaveFails, Truth, InFlight
<1> QED
  BY <1>2, <1>3, <1>4, <1>5, <1>6, <1>7, <1>8, <1>9 DEF Execute

\* The steps of the other operations under way, as long as they are tidy.
LEMMA ResumeConsistent ==
    ASSUME StoreTyped, MachineTyped, CoroutinesTyped, Owned, NEW t \in Tasks, Consistent(t),
           Resume(t), tidy'
    PROVE  Consistent(t)'
<1> USE RecordsTyped DEF Consistent, StoreTyped, MachineTyped, CoroutinesTyped, Goto, Same, Pcs,
                         Statuses, resources
<1>0. pc[t] \notin {"unused", "done"} =>
        /\ t \in InFlight /\ held[t] \in Records /\ at[t] \in Services
        /\ cache[at[t]] = held[t]
  BY DEF InFlight, Owned
<1>1. CASE Execute(t)
  BY <1>1, ExecuteConsistent
<1>2. CASE ScriptFails(t)
  BY <1>2 DEF ScriptFails
<1>3. CASE RunVm(t)
  BY <1>0, <1>3 DEF RunVm, InFlight, store
<1>4. CASE AwaitHealth(t)
  <2>1. Healthy(t) /\ UNCHANGED <<store, resources, at, held>> /\ pc'[t] = "healthy"
    BY <1>4 DEF AwaitHealth
  <2> QED
    BY <1>0, <1>4, <2>1 DEF AwaitHealth, Healthy, Serving, InFlight, store
<1>5. CASE StopVm(t)
  <2>1. /\ vm' # "running" /\ UNCHANGED <<cache, at, held>>
        /\ record'[held[t]] = "stopped" /\ pc'[t] \in {"done", "delete_vm", "restore_vm"}
    BY <1>0, <1>5 DEF StopVm, Stopped, Mark
  <2> QED
    BY <1>0, <1>5, <2>1 DEF StopVm, Truth
<1>6. CASE DeleteVm(t)
  BY <1>0, <1>6 DEF DeleteVm, Mark, Truth
<1>7. CASE RestoredVm(t)
  <2>1. /\ at[t] = Api /\ Truth(held[t]) /\ record[held[t]] # "running"
        /\ UNCHANGED <<store, vm, at>> /\ held' = held
    BY <1>0, <1>7 DEF RestoredVm, Owned
  <2>2. pc'[t] \in {"start_vm", "done"} /\ Truth(held[t])'
    BY <1>7, <2>1 DEF RestoredVm, Truth, store, Serving
  <2> QED
    BY <1>0, <1>7, <2>1, <2>2 DEF RestoredVm, store
<1>8. CASE MarkHealthy(t)
  BY <1>0, <1>8 DEF MarkHealthy, Mark, Serving, Truth
<1> QED
  BY <1>1, <1>2, <1>3, <1>4, <1>5, <1>6, <1>7, <1>8 DEF Resume

\* A tidy operation begins alone, on the record of the only cache that has one.
LEMMA EnterConsistent ==
    ASSUME StoreTyped, MachineTyped, CoroutinesTyped, Owned, TidyInv, tidy',
           NEW t \in Tasks, (\E s \in Services : Create(t, s)) \/ Handle(t)
    PROVE  tidy /\ Alone(at'[t]) /\ Consistent(t)'
<1> USE DeployAssumption, RecordsTyped
    DEF StoreTyped, MachineTyped, CoroutinesTyped, Goto, Pcs, Statuses, Consistent
<1>1. ASSUME NEW s \in Services, Create(t, s)
      PROVE  tidy /\ Alone(at'[t]) /\ Consistent(t)'
  <2> DEFINE o == <<t, "created">>
  <2>1. /\ at'[t] = s /\ held'[t] = o /\ cache'[s] = o /\ record'[o] = "pending"
        /\ pc'[t] \in {"begin", "done"}
    BY <1>1 DEF Create, Enter, Saved, SaveFails
  <2>2. tidy /\ Alone(s)
    BY <1>1 DEF Create
  <2> QED
    BY <2>1, <2>2 DEF Truth
<1>2. ASSUME NEW allowed, NEW first \in Pcs \ {"unused"}, NEW careful,
             Operate(t, allowed, first, careful),
             first \notin {"begin", "stop_and_keep", "restore_vm", "verified", "healthy", "done"}
               \/ ~careful,
             cache' = cache \/ ~careful
      PROVE  tidy /\ Alone(at'[t]) /\ Consistent(t)'
  <2>1. tidy /\ Alone(Api) /\ careful
    BY <1>2 DEF Operate
  <2>2. at'[t] = Api /\ held'[t] = cache[Api] /\ pc'[t] = first
    BY <1>2 DEF Operate, Enter
  <2> QED
    BY <1>2, <2>1, <2>2
<1>3. CASE StartDeployment(t) \/ StopDeployment(t) \/ RestartDeployment(t) \/ DeleteDeployment(t)
  <2>1. ASSUME NEW allowed, NEW first \in {"start_vm", "stop_vm", "restart_vm", "stop_and_delete", "delete_vm"},
               Operate(t, allowed, first, TRUE), UNCHANGED store
        PROVE  tidy /\ Alone(at'[t]) /\ Consistent(t)'
    BY <1>2, <2>1 DEF store
  <2>2. ASSUME NEW allowed, NEW first, Operate(t, allowed, first, FALSE)
        PROVE  FALSE
    BY <2>2 DEF Operate
  <2>3. StartDeployment(t) \/ StopDeployment(t) \/ RestartDeployment(t) =>
          tidy /\ Alone(at'[t]) /\ Consistent(t)'
    BY <2>1 DEF StartDeployment, StopDeployment, RestartDeployment
  <2>4. DeleteDeployment(t) => tidy /\ Alone(at'[t]) /\ Consistent(t)'
    BY <2>1, <2>2 DEF DeleteDeployment
  <2> QED
    BY <1>3, <2>3, <2>4
<1>4. CASE RestoreBackup(t)
  <2>1. tidy /\ Alone(Api) /\ app' = "host"
    BY <1>4 DEF RestoreBackup
  <2>2. PICK o \in Restorable(t) :
          /\ Enter(t, Api, o) /\ Goto(t, "done")
          /\ Saved(Api, o, "running") \/ SaveFails(Api, o, "running")
    BY <1>4 DEF RestoreBackup
  <2>3. o \in Records
    BY DEF Restorable
  <2>4. /\ at'[t] = Api /\ held'[t] = o /\ cache'[Api] = o /\ record'[o] = "running"
        /\ pc'[t] = "done"
    BY <2>2, <2>3 DEF Enter, Saved, SaveFails
  <2> QED
    BY <2>1, <2>2, <2>4 DEF Truth, Serving
<1>5. CASE RestoreFails(t)
  BY <1>5 DEF RestoreFails
<1>6. CASE RestoreSnapshot(t)
  <2>0. PICK o \in Restorable(t) :
          /\ cache[Api] = o /\ Enter(t, Api, o)
          /\ Goto(t, IF record[o] = "running" THEN "restore_stop" ELSE "restore_vm")
    BY <1>6 DEF RestoreSnapshot
  <2>1. /\ tidy /\ Alone(Api)
        /\ cache[Api] # NoRecord
        /\ at'[t] = Api /\ held'[t] = cache[Api]
        /\ \/ pc'[t] = "restore_stop"
           \/ pc'[t] = "restore_vm" /\ record[cache[Api]] # "running"
        /\ UNCHANGED <<store, resources>>
    <3>1. o \in Records
      BY DEF Restorable
    <3>2. tidy /\ Alone(Api) /\ UNCHANGED <<store, resources>>
      BY <1>6 DEF RestoreSnapshot
    <3>3. at'[t] = Api /\ held'[t] = cache[Api]
      BY <2>0 DEF Enter
    <3>4. pc'[t] = "restore_stop" \/ (pc'[t] = "restore_vm" /\ record[cache[Api]] # "running")
      BY <2>0
    <3> QED
      BY <2>0, <3>1, <3>2, <3>3, <3>4
  <2>2. Truth(cache[Api])
    BY <2>1 DEF TidyInv, Alone
  <2>3. Truth(held[t])'
    BY <2>1, <2>2 DEF Truth, Serving, store, resources
  <2> QED
    BY <2>1, <2>3 DEF store
<1> QED
  BY <1>1, <1>3, <1>4, <1>5, <1>6 DEF Handle

\* A tidy run stays consistent.
LEMMA TidyStep ==
    ASSUME StoreTyped, MachineTyped, CoroutinesTyped, Owned, TidyInv, DeployStep
    PROVE  TidyInv'
<1> SUFFICES ASSUME tidy' PROVE TidyInv'
  BY DEF TidyInv
<1>1. ASSUME NEW t \in Tasks, (\E s \in Services : Create(t, s)) \/ Handle(t)
      PROVE  TidyInv'
  <2>1. Shape(t) /\ tidy /\ Alone(at'[t]) /\ Consistent(t)'
    BY <1>1, CreateShape, HandleShape, EnterConsistent
  <2>2. Only(t)' /\ pc'[t] # "unused"
    BY <2>1, OthersStill DEF Alone, InFlight
  <2> QED
    BY <2>1, <2>2, OneAtATime
<1>2. ASSUME NEW t \in Tasks, Resume(t)
      PROVE  TidyInv'
  <2>1. tidy /\ t \in InFlight /\ at'[t] = at[t]
    BY <1>2 DEF Resume, Execute, Begin, CreateVm, InstallVm, ConfigureVm, Provision, VmMissing,
       Cleanup,
       Deploy, ConfigureDns, DnsFails, Verify, VerifyFails, MarkRunning, Failing, ScriptFails,
       RunVm, AwaitHealth, MarkHealthy, StopVm, DeleteVm, RestoredVm, Same, InFlight
  <2>2. Only(t) /\ Consistent(t)
    BY <2>1, OneUnderWay
  <2>3. Shape(t) /\ Consistent(t)'
    BY <1>2, <2>2, ResumeShape, ResumeConsistent
  <2>4. Only(t)' /\ pc'[t] # "unused"
    BY <2>1, <2>2, <2>3, OthersStill DEF Only
  <2> QED
    BY <2>3, <2>4, OneAtATime
<1>3. CASE Crash(Services)
  <2>1. Stops /\ Forgets
    BY <1>3, CrashShape
  <2>2. /\ \A t \in Tasks : pc'[t] \in {"unused", "done"}
        /\ \A s \in Services : cache'[s] = NoRecord
    BY <2>1 DEF Stops, Forgets, InFlight
  <2> QED
    BY <2>2 DEF TidyInv, InFlight
<1> QED
  BY <1>1, <1>2, <1>3 DEF DeployStep

\* In a consistent run the records tell what runs.
LEMMA TidyTellsTruth == TidyInv => RecordTellsTruth
  BY DEF TidyInv, RecordTellsTruth, Truth

-------------------------------------------------------------------------------
(* The theorems about a deployment: of its service alone, and under an order. *)

DeployInv == DeploymentTypeOK /\ Owned /\ RecordPersisted /\ TidyInv

\* The invariant of the service holds at first
LEMMA DeployInvInit == DeployInit => DeployInv
<1> SUFFICES ASSUME DeployInit PROVE DeployInv
  OBVIOUS
<1>1. RecordPersisted /\ TidyInv
  BY RecordsTyped DEF DeployInit, RecordPersisted, TidyInv, InFlight
<1> QED
  BY <1>1, DeployTypedInit, OwnedInit DEF DeployInv

\* and is inductive.
LEMMA DeployInvStep == DeployInv /\ (DeployStep \/ UNCHANGED dvars) => DeployInv'
<1>1. ASSUME DeployInv, DeployStep
      PROVE  DeployInv'
  <2>1. StoreTyped /\ MachineTyped /\ CoroutinesTyped /\ Owned /\ RecordPersisted /\ TidyInv
    BY <1>1, TypeParts DEF DeployInv
  <2>2. CoroutinesTyped'
    BY <1>1, <2>1, StepShape, CoroutinesStep DEF Shape
  <2>3. StoreTyped'
    BY <1>1, <2>1, <2>2, StepShape, StoreStep DEF Shape
  <2>4. DeploymentTypeOK'
    BY <1>1, <2>1, <2>2, <2>3, MachineStep
    DEF DeploymentTypeOK, StoreTyped, MachineTyped, CoroutinesTyped
  <2> QED
    BY <1>1, <2>1, <2>4, OwnedStep, PersistedStep, TidyStep DEF DeployInv
<1>2. ASSUME DeployInv, UNCHANGED dvars
      PROVE  DeployInv'
  <2>1. DeploymentTypeOK' /\ RecordPersisted'
    BY <1>2 DEF DeployInv, dvars, DeploymentTypeOK, RecordPersisted
  <2>2. Owned' /\ TidyInv'
    BY <1>2 DEF DeployInv, dvars, Owned, TidyInv, Truth, Serving, InFlight
  <2> QED
    BY <2>1, <2>2 DEF DeployInv
<1> QED
  BY <1>1, <1>2

\* A step of the service alone is one of the deployment service,
LEMMA ServiceSteps == [DeployNext]_dvars => DeployStep \/ UNCHANGED dvars
  BY DeployAssumption DEF DeployNext, DeployStep

\* and so is a step of the whole, or it leaves the service alone.
LEMMA OrderSteps == [Next]_vars => DeployStep \/ UNCHANGED dvars
<1> SUFFICES ASSUME [Next]_vars PROVE DeployStep \/ UNCHANGED dvars
  OBVIOUS
<1>1. ASSUME NEW d \in Deliveries, Webhook(d)
      PROVE  DeployStep \/ UNCHANGED dvars
  BY <1>1, WebhookAssumption DEF Webhook, Receive, Retry, Deliver, DeliveryFails, DeployStep
<1>2. CASE Rest \/ \E t \in Tasks : Coroutine(t)
  BY <1>2, DeployAssumption DEF Rest, Coroutine, DeployStep
<1>3. CASE Restart
  BY <1>3 DEF Restart, DeployStep
<1>4. CASE UNCHANGED vars
  BY <1>4 DEF vars
<1> QED
  BY <1>1, <1>2, <1>3, <1>4 DEF Next

\* The invariant says what readers of the records may rely on.
LEMMA RecordsFollow == DeployInv => RecordsHold
  BY TidyTellsTruth DEF DeployInv, RecordsHold

\* DeploymentService and its REST handlers: whatever order their awaits interleave
\* in, a deployment under way or failed is so in its row, and a record that claims
\* to be running, stopped or deleted tells the truth when operations came one at
\* a time.
THEOREM DeploymentRecords == DeploySpec => []RecordsHold
<1>1. DeployInv /\ [DeployNext]_dvars => DeployInv'
  BY ServiceSteps, DeployInvStep
<1> QED
  BY <1>1, DeployInvInit, RecordsFollow, PTL DEF DeploySpec

\* The same while Stripe's deliveries create deployments on services of their own.
THEOREM HostedRecords == Spec => []RecordsHold
<1>1. DeployInv /\ [Next]_vars => DeployInv'
  BY OrderSteps, DeployInvStep
<1>2. Init => DeployInv
  BY DeployInvInit DEF Init
<1> QED
  BY <1>1, <1>2, RecordsFollow, PTL DEF Spec

-------------------------------------------------------------------------------
(* The theorems about an order. *)

LEMMA OneOrderInit == Init => OneOrder
  BY DEF Init, OneOrder, Placed

\* The invariant of the orders is inductive,
LEMMA OneOrderStep == OneOrder /\ [Next]_vars => OneOrder'
<1> SUFFICES ASSUME OneOrder, [Next]_vars PROVE OneOrder'
  OBVIOUS
<1> USE DEF OneOrder, Placed
<1>1. ASSUME NEW d \in Deliveries, Receive(d)
      PROVE  OneOrder'
  <2>0. order' = order /\ (Named <=> Named') /\ delivered' = delivered
    BY <1>1 DEF Receive, Named
  <2>1. CASE projects' = projects /\ handler'[d] \in {"200", "500", "retry"}
    <3>1. handler'[d] = "200" => processed
      BY <1>1, <2>1 DEF Receive, Become
    <3> QED
      BY <1>1, <2>0, <2>1, <3>1 DEF Receive, Become
  <2>2. CASE /\ order.project_id[d] \notin projects
             /\ projects' = projects \cup {order.project_id[d]}
             /\ handler'[d] = "generate"
    <3>1. Named => \A e \in Deliveries : ~Placed(e)
      BY <2>2 DEF Named
    <3> QED
      BY <1>1, <2>0, <2>2, <3>1 DEF Receive, Become
  <2> QED
    BY <1>1, <2>1, <2>2 DEF Receive, Become, CreateProject
<1>2. ASSUME NEW d \in Deliveries, Retry(d)
      PROVE  OneOrder'
  BY <1>2 DEF Retry, Become, Named
<1>3. ASSUME NEW d \in Deliveries, Deliver(d) \/ DeliveryFails(d)
      PROVE  OneOrder'
  <2>1. delivered' \in {delivered, delivered \cup {d}}
    BY <1>3 DEF Deliver, DeliveryFails
  <2>2. handler[d] = "generate" /\ projects' = projects /\ order' = order
    BY <1>3 DEF Deliver, DeliveryFails
  <2>3. handler' = [handler EXCEPT ![d] = "200"]
    BY <1>3 DEF Deliver, DeliveryFails, Become
  <2>4. projects # {} /\ (Named <=> Named')
    BY <2>2 DEF Named
  <2> QED
    BY <2>1, <2>2, <2>3, <2>4
<1>4. CASE Restart
  BY <1>4 DEF Restart, Named
<1>5. CASE UNCHANGED wvars
  BY <1>5 DEF wvars, Named
<1> QED
  BY <1>1, <1>2, <1>3, <1>4, <1>5 DEF Next, Webhook, Rest, Coroutine, vars

\* and so holds throughout.
LEMMA OneOrderAlways == Spec => []OneOrder
  BY OneOrderInit, OneOrderStep, PTL DEF Spec

\* stripe_webhook: however often Stripe delivers the event of an order that names its
\* project, and at whatever step a delivery is interrupted, the order is delivered
\* at most once.
THEOREM OrderDeliveredOnce == Spec => []DeliveredOnce
<1>1. OneOrder => DeliveredOnce
  <2> SUFFICES ASSUME OneOrder, Named PROVE Cardinality(delivered) <= 1
    BY DEF DeliveredOnce
  <2>1. CASE delivered = {}
    BY <2>1, FS_EmptySet
  <2>2. CASE delivered # {}
    <3>1. PICK d \in Deliveries : delivered = {d}
      BY <2>2 DEF OneOrder, Placed
    <3> QED
      BY <3>1, FS_Singleton
  <2> QED
    BY <2>1, <2>2
<1> QED
  BY <1>1, OneOrderAlways, PTL

\* Once Stripe has its answer 200, or the event is marked, a project of the order has
\* its row, and so has the project of every delivery made: the event is not given up
\* for an order nobody has on record.
THEOREM AnsweredRecorded == Spec => []AnsweredMeansRecorded
<1>1. OneOrder => AnsweredMeansRecorded
  BY DEF OneOrder, Placed, AnsweredMeansRecorded
<1> QED
  BY <1>1, OneOrderAlways, PTL

=============================================================================
