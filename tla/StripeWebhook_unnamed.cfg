\* An order for a bundle that does not name its project, its event delivered twice.
SPECIFICATION Spec
CONSTANTS
    d1 = d1  d2 = d2  t1 = t1  t2 = t2  t3 = t3  p1 = p1  p2 = p2
    Services = {api, d1, d2}
    Api = api
    Tasks = {d1, d2, t1, t2, t3}
    Scenarios <- Twice
    Deliveries = {d1, d2}
    Projects = {p1, p2}
    Followed = p1
    Orders <- AnyBundle
    DeployFaults = {}
    MaxFaults = 0
    CanFail = TRUE
INVARIANTS
    Idempotent
CHECK_DEADLOCK FALSE
