SPECIFICATION Spec
CONSTANTS
    Invoices = {i1}
    Workers = {w1}
    NoInvoice = NoInvoice
    NoUser = NoUser
    RetryAttempts = 2
    InterruptVisible = FALSE
    Faults = {"persist"}
    MaxFaults = 1
    MaxRuns = 1
    MaxReruns = 0
    Requests = {}
    Users = {u1}
    ManagerQueue = ManagerQueue
    MaxLedger = 20
CHECK_DEADLOCK FALSE
INVARIANT AutoApproveOnce
