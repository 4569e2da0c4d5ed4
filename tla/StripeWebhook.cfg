\* One order: its event delivered twice beside one REST request, or three requests.
SPECIFICATION MCSpec
CONSTANTS
    d1 = d1  d2 = d2  t1 = t1  t2 = t2  t3 = t3  p1 = p1  p2 = p2
    Services = {api, d1, d2}
    Api = api
    Tasks = {d1, d2, t1, t2, t3}
    Scenarios <- Together
    Deliveries = {d1, d2}
    Projects = {p1, p2}
    Followed = p1
    Orders <- AnyOrder
    DeployFaults = {"db", "vm", "app", "dns", "health", "crash"}
    MaxFaults = 1
    CanFail = TRUE
INVARIANTS
    RecordsHold
    DeliveredOnce
    AnsweredMeansRecorded
PROPERTIES
    Concludes
CHECK_DEADLOCK FALSE
