\* Every part with two actors of each kind that may overlap.
SPECIFICATION Spec
CONSTANTS
    \* Tickets
    Users = {u1}
    Sweeps = {sla}
    TicketJobs = {j1}
    UserOps = 1
    Retries = 1
    TicketFaults = {"cycle", "db", "crash", "kill", "handler"}
    MaxTicketFaults = 1
    \* Tenants
    Calls = {"c1", "c2", "c3"}
    MaxTenantFaults = 2
    \* MailWorker
    Letters = {l1, l2}
    Threads = {w1, w2}
    MaxRetries = 1
    Tries = 2
    Durable = TRUE
    MaxMailFaults = 1
    \* Prospects
    Searches = {"r1", "r2"}
    Cycles = {"y"}
    Pages <- MCPages
    Links <- MCLinks
    HostOf <- MCHostOf
    FirstPage = "a"
    MaxPages = 2
    Emails = {"e"}
    \* CiPipeline
    Pipelines = {"q1", "q2"}
    Configs <- MCConfigs
    \* ReleaseAgent
    Releases = {v1, v2}
    Instances = {x1, x2}
    Polls = 2
    \* PerformanceMonitor
    Loops = {o1, o2}
    Watched = {"cpu"}
    Warning <- MCWarning
    Limit <- MCLimit
    Values = {1, 2, 3}
    Day = 2
    Percent = 50
    Rounds = 2
INVARIANTS
    InProgressIsDriven
    WorkBounded
    RunsTellTruth
PROPERTIES
    OverdueReachesTop
    RunsEnd
CHECK_DEADLOCK FALSE
