SPECIFICATION FairSpec
CONSTANTS
    Invoices = {i1}
    Workers = {w1}
    NoInvoice = NoInvoice
    NoUser = NoUser
    RetryAttempts = 2
    InterruptVisible = FALSE
    Faults = {"infra", "business", "decide"}
    MaxFaults = 2
    MaxRuns = 2
    MaxReruns = 0
    Requests = {q1}
    Users = {u1}
    ManagerQueue = ManagerQueue
    MaxLedger = 20
CHECK_DEADLOCK FALSE
PROPERTIES RunningSettles DecisionSettles
INVARIANTS NoForgottenRun WorklistComplete DashboardAgrees
