\* One reply whose handler meets a database error.
SPECIFICATION OutreachSpec
CONSTANTS
    Leads = {lead}
    Sequences = {s1}
    NumSteps = 1
    SendTries = 1
    Senders = {t1}
    Pollers = {p1}
    Messages = {m1}
    OutreachFaults = {"db"}
    MaxOutreachFaults = 1
INVARIANTS
    FailedIsRetried
CHECK_DEADLOCK FALSE
