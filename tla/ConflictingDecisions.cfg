SPECIFICATION Spec
CONSTANTS
    Invoices = {i1}
    Workers = {w1}
    NoInvoice = NoInvoice
    NoUser = NoUser
    RetryAttempts = 2
    InterruptVisible = FALSE
    Faults = {}
    MaxFaults = 0
    MaxRuns = 1
    MaxReruns = 0
    Requests = {q1, q2, q3}
    Users = {u1, u2}
    ManagerQueue = ManagerQueue
    MaxLedger = 20
CHECK_DEADLOCK FALSE
INVARIANT OneResolution
