------------------------------ MODULE MCRecords ------------------------------
(***************************************************************************)
(* Parts of the program that keep records and never wait for each other,   *)
(* on one small instance.  They share no state: a behaviour of all of them *)
(* is an interleaving of their behaviours, and a property of one is        *)
(* decided by its own steps.  The instance therefore picks one part,       *)
(* `focus`, and lets that one move alone.                                  *)
(***************************************************************************)
EXTENDS Outreach, CrmSync, OutreachReports, Backlog, LinearIssues, CodeReview,
        Accounts, RateLimiter, SchemaMigrations, CompanyGenerator,
        Notifications, TLC

VARIABLE focus

Parts == {"outreach", "crm", "reports", "backlog", "linear", "review", "style",
          "accounts", "limiter", "schema", "generator", "notifications"}

mcvars == <<focus, outreachvars, crmvars, reportvars, backlogvars, linearvars,
            reviewvars, accvars, ratevars, migrationvars, generatorvars,
            notevars>>

\* Of the parts that do not move only one initial state is of interest.
Free(part, initial) == focus = part \/ initial

Init ==
    /\ focus \in Parts
    /\ OutreachInit /\ Free("outreach", subscribed /\ ~mock /\ sender = CHOOSE f \in [Messages -> Leads] : TRUE)
    /\ CrmInit
    /\ ReportInit /\ Free("reports", enrolled = [e \in Enrolments |-> "later"] /\ sent.sent = 0)
    /\ BacklogInit /\ Free("backlog", backlog = CHOOSE b \in Batches : TRUE)
    /\ LinearInit /\ Free("linear", states = [s \in StateIds |-> [name |-> "todo", type |-> "started"]])
    /\ ReviewInit /\ (focus = "style" \/ Free("review", text = CHOOSE t \in [Sources -> Texts] : TRUE))
    /\ AccInit
    /\ RateInit
    /\ MigrationInit /\ Free("schema", dialect = "postgresql")
    /\ GeneratorInit /\ Free("generator", \A j \in Jobs : job[j].kind = "company")
    /\ NoteInit

Still(part, v) == IF focus = part THEN TRUE ELSE UNCHANGED v

\* The step of the part in focus, beside which nothing moves.  Reviews and style checks
\* share the files alone, and a review reads its file once: they move apart.
Alone(part) ==
    /\ focus = part /\ UNCHANGED focus
    /\ Still("outreach", outreachvars)
    /\ Still("crm", crmvars)
    /\ Still("reports", reportvars)
    /\ Still("backlog", backlogvars)
    /\ Still("linear", linearvars)
    /\ focus = "style" \/ Still("review", reviewvars)
    /\ Still("accounts", accvars)
    /\ Still("limiter", ratevars)
    /\ Still("schema", migrationvars)
    /\ Still("generator", generatorvars)
    /\ Still("notifications", notevars)

Next ==
    \/ Alone("outreach") /\ OutreachNext
    \/ Alone("crm") /\ CrmNext
    \/ Alone("reports") /\ ReportNext
    \/ Alone("backlog") /\ BacklogNext
    \/ Alone("linear") /\ LinearNext
    \/ Alone("review") /\ ReviewNext /\ UNCHANGED style
    \/ Alone("style") /\ ReviewNext /\ UNCHANGED review
    \/ Alone("accounts") /\ AccNext
    \/ Alone("limiter") /\ RateNext
    \/ Alone("schema") /\ MigrationNext
    \/ Alone("generator") /\ GeneratorNext
    \/ Alone("notifications") /\ NoteNext

Spec == Init /\ [][Next]_mcvars

-------------------------------------------------------------------------------
(* Constants. *)

\* Tickets of low, critical and middling scores with resembling titles.
Profile(words, theme, high, hard, urgent, negative, simple, old, depends) ==
    [words |-> words, theme |-> theme, high |-> high, medium |-> 1, labels |-> 20,
     hard |-> hard, technical |-> 0, simple |-> simple, urgent |-> urgent, age |-> 10,
     negative |-> negative, positive |-> 0, stale |-> old, depends |-> depends]
Profiles ==
    {Profile({"a", "b", "c"}, "auth", 0, 0, 0, 0, 3, FALSE, FALSE),
     Profile({"a", "b", "c", "d"}, "auth", 6, 4, 4, 5, 0, FALSE, TRUE),
     Profile({"a", "b", "c", "d", "e"}, "auth", 2, 4, 1, 0, 0, TRUE, FALSE),
     Profile({}, "ui", 3, 2, 2, 1, 0, FALSE, FALSE)}
MCBatches == [1..3 -> Profiles] \cup {<<p, q, r, p>> : p, q, r \in Profiles}

Line(what, marks) == [what |-> what, marks |-> marks]
MCTexts ==
    {[python |-> TRUE, parses |-> TRUE,
      lines |-> <<Line("import other", {"tab", "trailing", "http"}),
                  Line("import stdlib", {"complex"})>>],
     [python |-> TRUE, parses |-> TRUE, lines |-> <<Line("code", {"tab", "todo"})>>],
     [python |-> FALSE, parses |-> TRUE, lines |-> <<Line("code", {"token"})>>]}

MCRoleOf == [p1 |-> "user", p2 |-> "admin"]

-------------------------------------------------------------------------------
(* Properties of several parts. *)

\* Planning: sprints, duplicates and epics fit the backlog, and issues move where
\* they were sent.
PlanningHolds ==
    /\ SprintsAreGreedy /\ DuplicatesGrouped /\ EpicsAsUrgent
    /\ MovedWhereAsked /\ CacheWasMatched /\ CreatedReadsBack

\* Reviews and audits report whole texts, and repairs repair.
ReviewsHold == ReviewsWhole /\ RepairsHold

\* Through upgrades, downgrades and failures of either, references exist, the
\* version tells the schema, and a container that serves has the whole of it.
SchemaHolds == ReferencesExist /\ VersionTellsSchema /\ ServedIsComplete

\* The row of a company, the rows of a daily report and the row of a lead agree with
\* what they sum up.
RowsTellTruth == CompanyTellsTruth /\ PlanSavedWhole /\ DayIsOneReport /\ NeverNewAgain

\* Broadcasts reach every admin, pushes every socket that is open.
MessagesArrive == BroadcastComplete /\ PushReachesOpen
==============================================================================
