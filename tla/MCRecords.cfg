\* Every part with two actors of each kind that may overlap.
SPECIFICATION Spec
CONSTANTS
    \* Outreach
    Leads = {lead}
    Sequences = {s1}
    NumSteps = 2
    SendTries = 2
    Senders = {t1, t2}
    Pollers = {p1, p2}
    Messages = {m1}
    OutreachFaults = {"send", "db", "parse", "crash"}
    MaxOutreachFaults = 1
    \* CrmSync
    Events = {e1, e2, e3}
    MaxBuffer = 1
    MaxCrmFaults = 1
    \* OutreachReports
    Reports = {"d1", "d2"}
    Enrolments = {"n1", "n2"}
    \* Backlog
    Batches <- MCBatches
    Opinions = {0, 101}
    Capacity = 24
    NumSprints = 2
    \* LinearIssues
    Issues = {"i1"}
    StateIds = {"z1", "z2"}
    Requests = {"u1", "u2"}
    MaxRenames = 1
    \* CodeReview
    Reviews = {"c1", "c2"}
    Sources = {"f"}
    Texts <- MCTexts
    \* Accounts
    People = {"p1", "p2"}
    Addresses = {"a", "b"}
    RoleOf <- MCRoleOf
    AccessLife = 4
    RefreshLife = 4
    MaxNow = 8
    MaxTokens = 3
    \* RateLimiter
    Clients = {"k1", "k2"}
    RequestsPerMinute = 2
    Minute = 2
    MaxTime = 4
    \* SchemaMigrations
    Containers = {"b1", "b2"}
    MaxMishaps = 1
    MaxDowngrades = 1
    \* CompanyGenerator
    Jobs = {"j1"}
    MaxPlan = 3
    \* Notifications
    Admins = {"a1", "a2"}
    Broadcasts = {"n1"}
    BroadcastRetries = 1
    Sockets = {"o1", "o2"}
    Pushes = {"h1"}
    MaxNoteFaults = 2
INVARIANTS
    NoStepSkipped
    RepliesHold
    QualifiedHasTicket
    PlanningHolds
    ReviewsHold
    SessionsHold
    LimitHolds
    SchemaHolds
    RowsTellTruth
    MessagesArrive
CHECK_DEADLOCK FALSE
