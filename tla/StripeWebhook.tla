----------------------------- MODULE StripeWebhook -----------------------------
(***************************************************************************)
(* The delivery of a paid order: backend/api/webhooks.py, its records in   *)
(* backend/db/linear_engine.py, and the hosted deployment it starts.       *)
(*                                                                         *)
(* Stripe delivers the checkout event of one order until it is answered    *)
(* with success, and sometimes more than once.  The metadata of the order  *)
(* may name its project; without a name every delivery draws a new one     *)
(* (two draws are taken to differ).  What is delivered is a hosted         *)
(* deployment or a bundle to download.  The deployment followed here is    *)
(* that of one project.  All handlers share one database session: after a  *)
(* flush that failed, every use of it raises until the server restarts.    *)
(*                                                                         *)
(* A handler waits in two places only: between its attempts at the project *)
(* row and while the code is generated.  What lies between is one step.    *)
(* Every delivery has a DeploymentService and a coroutine of its own.      *)
(***************************************************************************)
EXTENDS DeploymentService

CONSTANTS
    Deliveries,    \* the times Stripe may deliver the event
    Projects,      \* ids of projects
    Followed,      \* the project whose deployment DeploymentService describes
    Orders,        \* the orders considered, of each its deliveries' projects and its mode
    CanFail        \* whether generating the code, or a statement, may fail

ASSUME WebhookAssumption ==
    /\ Deliveries \subseteq Services \ {Api}
    /\ Deliveries \subseteq Tasks
    /\ Followed \in Projects
    /\ Orders \subseteq [project_id : [Deliveries -> Projects], hosted : BOOLEAN]
    /\ CanFail \in BOOLEAN

VARIABLES
    order,     \* one of Orders; what its deliveries find, or draw, never changes
    handler,   \* of each delivery: "none", "retry", "generate", or its answer
    projects,  \* the ids in the projects table
    processed, \* whether processed_events has the event
    wedged,    \* whether the shared session needs a rollback
    delivered  \* history: deliveries that created the deployment or the bundle

wvars == <<order, handler, projects, processed, wedged, delivered>>
vars == <<dvars, wvars>>

\* Whether the metadata of the order name its project.
Named == \A d, e \in Deliveries : order.project_id[d] = order.project_id[e]

Drawn == \A d, e \in Deliveries : order.project_id[d] = order.project_id[e] => d = e

Init ==
    /\ DeployInit
    /\ order \in Orders
    /\ Named \/ Drawn
    /\ handler = [d \in Deliveries |-> IF pc[d] = "unused" THEN "none" ELSE "lost"]
    /\ projects = {}
    /\ processed = FALSE
    /\ wedged = FALSE
    /\ delivered = {}

Become(d, what) == handler' = [handler EXCEPT ![d] = what]

\* Faulty variant: the row is merged instead of added.
CreateProjectMerging(d) ==
    \/ projects' = projects \cup {order.project_id[d]} /\ UNCHANGED wedged
    \/ CanFail /\ wedged' = TRUE /\ UNCHANGED projects

\* create_project: the primary key refuses a second row of one project.
CreateProject(d) ==
    \/ /\ order.project_id[d] \notin projects
       /\ projects' = projects \cup {order.project_id[d]}
       /\ UNCHANGED wedged
    \/ /\ order.project_id[d] \in projects \/ CanFail
       /\ wedged' = TRUE
       /\ UNCHANGED projects

\* The duplicate check and, without an await, the first attempt at the row.
Receive(d) ==
    /\ handler[d] = "none"
    /\ \/ wedged /\ Become(d, "500") /\ UNCHANGED <<projects, wedged>>
       \/ ~wedged /\ processed /\ Become(d, "200") /\ UNCHANGED <<projects, wedged>>
       \/ /\ ~wedged /\ ~processed
          /\ CreateProject(d)
          /\ Become(d, IF wedged' THEN "retry" ELSE "generate")
    /\ UNCHANGED <<dvars, order, processed, delivered>>

\* Faulty variant: the delivery goes on without the row.
RetryGoingOn(d) ==
    /\ handler[d] = "retry"
    /\ Become(d, "generate")
    /\ UNCHANGED <<dvars, order, projects, processed, wedged, delivered>>

\* The other two attempts use the same session and raise; the answer is 500.
Retry(d) ==
    /\ handler[d] = "retry"
    /\ Become(d, "500")
    /\ UNCHANGED <<dvars, order, projects, processed, wedged, delivered>>

\* mark_event_processed, whose errors are logged.
MarkProcessed == processed' = (processed \/ ~wedged)

\* generate_company returned: the deployment is created and the event is marked.
\* create_deployment has no await of its own, so both happen in one step.  Bundles
\* and the deployments of other projects touch nothing of the followed one.
Deliver(d) ==
    /\ handler[d] = "generate"
    /\ \/ /\ order.hosted /\ order.project_id[d] = Followed
          /\ Create(d, d)
          /\ delivered' = IF pc'[d] = "begin" THEN delivered \cup {d} ELSE delivered
       \/ /\ ~order.hosted \/ order.project_id[d] # Followed
          /\ delivered' = delivered \cup {d}
          /\ UNCHANGED dvars
    /\ MarkProcessed
    /\ Become(d, "200")
    /\ UNCHANGED <<order, projects, wedged>>

\* All three attempts to generate the code failed: logged, marked, answered 200.
DeliveryFails(d) ==
    /\ handler[d] = "generate"
    /\ CanFail
    /\ MarkProcessed
    /\ Become(d, "200")
    /\ UNCHANGED <<dvars, order, projects, wedged, delivered>>

\* The restarted server has a new session; the handlers under way are gone.
Restart ==
    /\ Crash(Services)
    /\ wedged' = FALSE
    /\ handler' = [d \in Deliveries |->
                     IF handler[d] \in {"retry", "generate"} THEN "lost" ELSE handler[d]]
    /\ UNCHANGED <<order, projects, processed, delivered>>

Webhook(d) == Receive(d) \/ Retry(d) \/ Deliver(d) \/ DeliveryFails(d)

Rest ==
    /\ \E t \in Tasks \ Deliveries : Create(t, Api) \/ Handle(t)
    /\ UNCHANGED wvars

Coroutine(t) == Resume(t) /\ UNCHANGED wvars

Next ==
    \/ \E d \in Deliveries : Webhook(d)
    \/ Rest
    \/ \E t \in Tasks : Coroutine(t)
    \/ Restart

\* The event loop runs what is ready and Stripe delivers the event again.
Fairness ==
    /\ \A t \in Tasks : WF_vars(Coroutine(t))
    /\ \A d \in Deliveries : WF_vars(Webhook(d))

Spec == Init /\ [][Next]_vars /\ Fairness

-------------------------------------------------------------------------------
(* Properties. *)

\* An order whose metadata name its project is delivered at most once, however its
\* event is delivered, doubled, interrupted or repeated: the key of the projects
\* table decides.
DeliveredOnce == Named => Cardinality(delivered) <= 1

\* webhooks.py says that it ensures idempotency: whatever the metadata hold, one
\* event delivers once.
Idempotent == Cardinality(delivered) <= 1

\* Stripe stops delivering an event only when a project of the order is on record,
\* and nothing is delivered of a project that is not.
AnsweredMeansRecorded ==
    /\ (\E d \in Deliveries : handler[d] = "200") \/ processed => projects # {}
    /\ \A d \in delivered : order.project_id[d] \in projects
===============================================================================
