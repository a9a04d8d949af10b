SPECIFICATION Spec
CONSTANTS
    Invoices = {i1}
    Workers = {w1, w2}
    NoInvoice = NoInvoice
    NoUser = NoUser
    RetryAttempts = 2
    InterruptVisible = FALSE
    Faults = {"business", "persist"}
    MaxFaults = 1
    MaxRuns = 1
    MaxReruns = 1
    Requests = {}
    Users = {u1}
    ManagerQueue = ManagerQueue
    MaxLedger = 9
CHECK_DEADLOCK FALSE
SYMMETRY MCSymmetry
CONSTRAINT MCShortLedger
INVARIANTS SystemInv NodesGetWhatTheyNeed AutoApprovalJustified FailedRunIsReplayable
