---------------------------- MODULE SchemaMigrations ----------------------------
(***************************************************************************)
(* How the database gets its tables: the scripts in alembic/versions, run  *)
(* by the entrypoint of every container that starts, and init_db, which    *)
(* the application in it calls next.  The entrypoint goes on when the      *)
(* upgrade failed, the application when init_db failed.                    *)
(*                                                                         *)
(* On PostgreSQL the scripts of one call commit together; on SQLite every  *)
(* statement is durable at once and the version is written at the end of   *)
(* its script.  Both use one database (SWARM_DB_URL is set).  Indexes go   *)
(* with their table and the columns a script adds are one column.          *)
(***************************************************************************)
EXTENDS Integers, Sequences

CONSTANTS
    Containers,      \* containers that share the database
    MaxMishaps,      \* crashes, and upgrades that cannot connect
    MaxDowngrades    \* downgrades by an operator

VARIABLES
    dialect,         \* "postgresql" or "sqlite"
    tables,          \* tables that exist
    extended,        \* tables that have the columns added later
    version,         \* the row of alembic_version
    container,           \* of each container: "down", "upgrade", "init" or "serving"
    reached,         \* of each container: how many Statements its upgrade takes for done
    migrated,        \* containers whose upgrade succeeded
    mishaps,
    operator,        \* how many statements are left to the operator's downgrade
    downgrades,      \* downgrades begun
    clean            \* history: each of them began with the tables of the scripts only,
                     \* and none broke off where statements do not commit together

migrationvars ==
    <<dialect, tables, extended, version, container, reached, migrated, mishaps, operator,
       downgrades,
      clean>>

-------------------------------------------------------------------------------
(* The scripts. *)

\* Foreign keys, of the scripts and of the models.
References(t) ==
    CASE t \in {"api_keys", "notifications"} -> {"users"}
      [] t \in {"deployments", "workflows"} -> {"company_tenants"}
      [] t = "tickets" -> {"users"}
      [] t = "messages" -> {"message_threads", "users"}
      [] t \in {"ticket_history", "ticket_comments"} -> {"tickets", "users"}
      [] t = "workflow_steps" -> {"workflows"}
      [] t = "sequence_enrollments" -> {"leads", "sequences"}
      [] t = "sequence_step_logs" -> {"sequence_enrollments"}
      [] t = "lead_timeline" -> {"leads"}
      [] OTHER -> {}

Create(names) == [i \in DOMAIN names |-> <<"create", names[i]>>]
Drop(names) == [i \in DOMAIN names |-> <<"drop", names[i]>>]

Upgrade0001 == Create(<<"users", "api_keys", "company_tenants", "deployments", "tickets",
                        "projects", "leads", "usage_events", "processed_events">>)
Upgrade0002 == Create(<<"notifications", "message_threads", "messages", "ticket_history",
                        "ticket_comments", "workflows", "workflow_steps">>) \o << <<"extend", "tickets">> >>
Upgrade0003 == Create(<<"sequences", "sequence_enrollments", "sequence_step_logs",
                        "outreach_daily_metrics", "lead_timeline", "processed_email_uids">>)
               \o << <<"extend", "leads">> >>

Downgrade0001 == Drop(<<"processed_events", "usage_events", "leads", "projects", "tickets",
                        "deployments", "company_tenants", "api_keys", "users">>)
Downgrade0002 == << <<"shrink", "tickets">> >>
                 \o Drop(<<"workflow_steps", "workflows", "ticket_comments", "ticket_history",
                           "messages", "message_threads", "notifications">>)
Downgrade0003 == << <<"shrink", "leads">> >>
                 \o Drop(<<"processed_email_uids", "lead_timeline", "outreach_daily_metrics",
                           "sequence_step_logs", "sequence_enrollments", "sequences">>)

Upgrades == <<Upgrade0001, Upgrade0002, Upgrade0003>>
Downgrades == <<Downgrade0001, Downgrade0002, Downgrade0003>>

TablesOf(script) == {script[i][2] : i \in {i \in DOMAIN script : script[i][1] = "create"}}

\* The tables of the first scripts.
ScriptTables(r) == UNION {TablesOf(Upgrades[s]) : s \in 1..r}

\* init_db imports the models of the first two scripts; the outreach models are
\* imported where they are used.
ModelTables == TablesOf(Upgrade0001) \cup TablesOf(Upgrade0002)

\* Faulty variant: the version is written before the statements of its script.
ScriptStamping(r) == << <<"version", r>> >> \o Upgrades[r]

\* A script and the version written after it.
Script(r) == Append(Upgrades[r], <<"version", r>>)

\* What an upgrade of an empty database executes, and how much of it is behind a version.
Statements == Script(1) \o Script(2) \o Script(3)
End(r) == IF r = 0 THEN 0 ELSE IF r = 1 THEN Len(Script(1))
          ELSE IF r = 2 THEN Len(Script(1)) + Len(Script(2)) ELSE Len(Statements)

DowngradePlan(r) == Append(Downgrades[r], <<"version", r - 1>>)

-------------------------------------------------------------------------------
(* Statements, on a schema [tables, extended, version]. *)

Schema == [tables |-> tables, extended |-> extended, version |-> version]

\* PostgreSQL refuses a key to no table and the loss of a table a key points to.
Possible(schema, s) ==
    CASE s[1] = "create" ->
           s[2] \notin schema.tables /\ (dialect = "postgresql" => References(s[2]) \subseteq schema.tables)
      [] s[1] = "drop" ->
           /\ s[2] \in schema.tables
           /\ dialect = "postgresql" => \A t \in schema.tables : s[2] \notin References(t)
      [] s[1] = "extend" -> s[2] \in schema.tables \ schema.extended
      [] s[1] = "shrink" -> s[2] \in schema.tables \cap schema.extended
      [] OTHER -> TRUE

Executed(schema, s) ==
    CASE s[1] = "create" -> [schema EXCEPT !.tables = @ \cup {s[2]}]
      [] s[1] = "drop" -> [schema EXCEPT !.tables = @ \ {s[2]}, !.extended = @ \ {s[2]}]
      [] s[1] = "extend" -> [schema EXCEPT !.extended = @ \cup {s[2]}]
      [] s[1] = "shrink" -> [schema EXCEPT !.extended = @ \ {s[2]}]
      [] OTHER -> [schema EXCEPT !.version = s[2]]

\* The schema after each number of statements.
After(plan) ==
    LET after[n \in 0..Len(plan)] == IF n = 0 THEN Schema ELSE Executed(after[n - 1], plan[n])
    IN  after

AllPossible(plan) == \A n \in DOMAIN plan : Possible(After(plan)[n - 1], plan[n])

Become(schema) ==
    tables' = schema.tables /\ extended' = schema.extended /\ version' = schema.version

-------------------------------------------------------------------------------
(* Containers. *)

MigrationInit ==
    /\ dialect \in {"postgresql", "sqlite"}
    /\ tables = {} /\ extended = {} /\ version = 0
    /\ container = [c \in Containers |-> "down"]
    /\ reached = [c \in Containers |-> 0]
    /\ migrated = {}
    /\ mishaps = MaxMishaps
    /\ operator = 0
    /\ downgrades = 0
    /\ clean = TRUE

Stage(c, next) == container' = [container EXCEPT ![c] = next]

\* alembic upgrade head reads the version and takes the scripts up to it for done.
StartContainer(c) ==
    /\ container[c] = "down" /\ operator = 0
    /\ Stage(c, "upgrade")
    /\ reached' = [reached EXCEPT ![c] = End(version)]
    /\ migrated' = migrated \ {c}
    /\ UNCHANGED <<dialect, tables, extended, version, mishaps, operator, downgrades, clean>>

UpgradeDone(c) ==
    /\ container[c] = "upgrade" /\ reached[c] = Len(Statements)
    /\ Stage(c, "init")
    /\ migrated' = migrated \cup {c}
    /\ UNCHANGED <<dialect, tables, extended, version, reached, mishaps, operator, downgrades, clean>>

\* The statements left to an upgrade.
Left(c) == SubSeq(Statements, reached[c] + 1, Len(Statements))

\* Of two upgrades the second waits for the locks of the first and then fails.
RunMigrationsOnline(c) ==
    /\ container[c] = "upgrade" /\ reached[c] < Len(Statements)
    /\ IF dialect = "sqlite"
       THEN LET statement == Statements[reached[c] + 1]
            IN  /\ Possible(Schema, statement) /\ Become(Executed(Schema, statement))
                /\ reached' = [reached EXCEPT ![c] = @ + 1]
       ELSE /\ reached[c] = End(version) /\ AllPossible(Left(c))
            /\ Become(After(Left(c))[Len(Left(c))])
            /\ reached' = [reached EXCEPT ![c] = Len(Statements)]
    /\ UNCHANGED <<dialect, container, migrated, mishaps, operator, downgrades, clean>>

UpgradeRefused(c) ==
    IF dialect = "sqlite" THEN ~Possible(Schema, Statements[reached[c] + 1])
    ELSE reached[c] # End(version) \/ ~AllPossible(Left(c))

\* "continuing without migrations"; an upgrade may also fail to connect.
UpgradeFails(c) ==
    /\ container[c] = "upgrade"
    /\ \/ reached[c] < Len(Statements) /\ UpgradeRefused(c) /\ UNCHANGED mishaps
       \/ mishaps > 0 /\ mishaps' = mishaps - 1
    /\ Stage(c, "init")
    /\ reached' = [reached EXCEPT ![c] = 0]
    /\ UNCHANGED <<dialect, tables, extended, version, migrated, operator, downgrades, clean>>

\* create_all of the tables that are missing, with all columns of the models: at
\* once, or one after the other when nothing holds them together.
InitDb(c) ==
    LET missing == ModelTables \ tables
        Made(new) ==
            /\ tables' = tables \cup new
            /\ extended' = extended \cup (new \cap {"tickets", "leads"})
    IN  /\ container[c] = "init"
        /\ IF dialect = "sqlite" /\ missing # {}
           THEN /\ \E t \in missing : References(t) \cap ModelTables \subseteq tables /\ Made({t})
                /\ UNCHANGED container
           ELSE Made(missing) /\ Stage(c, "serving")
        /\ UNCHANGED <<dialect, version, reached, migrated, mishaps, operator, downgrades, clean>>

\* The exception is logged and the application starts all the same.
InitDbFails(c) ==
    /\ container[c] = "init" /\ mishaps > 0
    /\ mishaps' = mishaps - 1
    /\ Stage(c, "serving")
    /\ UNCHANGED <<dialect, tables, extended, version, reached, migrated, operator, downgrades, clean>>

ContainerStops(c) ==
    /\ container[c] = "serving" \/ (container[c] # "down" /\ mishaps > 0)
    /\ mishaps' = IF container[c] = "serving" THEN mishaps ELSE mishaps - 1
    /\ Stage(c, "down")
    /\ reached' = [reached EXCEPT ![c] = 0]
    /\ UNCHANGED <<dialect, tables, extended, version, migrated, operator, downgrades, clean>>

\* external: an operator downgrades by one script while no container runs.
Downgrade ==
    LET plan == DowngradePlan(version)
    IN  /\ operator = 0 /\ version > 0 /\ downgrades < MaxDowngrades
        /\ \A c \in Containers : container[c] = "down"
        /\ downgrades' = downgrades + 1
        /\ clean' = (clean /\ tables = ScriptTables(version))
        /\ IF dialect = "sqlite"
           THEN operator' = Len(plan) /\ UNCHANGED <<tables, extended, version>>
           ELSE /\ UNCHANGED operator
                /\ IF AllPossible(plan) THEN Become(After(plan)[Len(plan)])
                   ELSE UNCHANGED <<tables, extended, version>>
        /\ UNCHANGED <<dialect, container, reached, migrated, mishaps>>

\* It breaks off at a statement the database refuses, or before any.
DowngradeStep ==
    LET plan == DowngradePlan(version)
        statement == plan[Len(plan) - operator + 1]
    IN  /\ operator > 0
        /\ \/ /\ Possible(Schema, statement) /\ Become(Executed(Schema, statement))
              /\ operator' = operator - 1 /\ UNCHANGED <<mishaps, clean>>
           \/ /\ \/ ~Possible(Schema, statement) /\ UNCHANGED mishaps
                 \/ mishaps > 0 /\ mishaps' = mishaps - 1
              /\ operator' = 0 /\ clean' = FALSE /\ UNCHANGED <<tables, extended, version>>
        /\ UNCHANGED <<dialect, container, reached, migrated, downgrades>>

MigrationNext ==
    \/ \E c \in Containers :
         \/ StartContainer(c) \/ RunMigrationsOnline(c) \/ UpgradeDone(c) \/ UpgradeFails(c)
         \/ InitDb(c) \/ InitDbFails(c) \/ ContainerStops(c)
    \/ Downgrade \/ DowngradeStep

-------------------------------------------------------------------------------
(* Properties. *)

\* The transactions of PostgreSQL, or no more than clean downgrades.
Fine == dialect = "postgresql" \/ clean

\* Whatever crashes, fails or runs at the same time, no table has a foreign key to
\* a table that is not there, which SQLite would not notice: scripts make and drop
\* tables in the order of their keys.  A downgrade that meets tables of init_db, or
\* breaks off and leaves its script half undone, may.
ReferencesExist == Fine => \A t \in tables : References(t) \subseteq tables

\* The version never promises tables or columns that are missing, wherever an upgrade
\* breaks off and once a downgrade is through.
VersionTellsSchema ==
    Fine /\ operator = 0 =>
        /\ ScriptTables(version) \subseteq tables
        /\ version >= 2 => "tickets" \in extended
        /\ version >= 3 => "leads" \in extended

\* A container serves with every table and column the models have once its own
\* upgrade succeeded, even next to one whose upgrade failed and after downgrades.
ServedIsComplete ==
    Fine => \A c \in migrated :
        container[c] = "serving" =>
            /\ ModelTables \cup TablesOf(Upgrade0003) \subseteq tables
            /\ {"tickets", "leads"} \subseteq extended
===============================================================================
