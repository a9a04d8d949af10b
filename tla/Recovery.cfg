SPECIFICATION Spec
CONSTANTS
    Invoices = {i1}
    Workers = {w1}
    NoInvoice = NoInvoice
    NoUser = NoUser
    RetryAttempts = 2
    InterruptVisible = FALSE
    Faults = {"infra", "business", "persist", "dlq", "crash", "decide", "update"}
    MaxFaults = 1
    MaxRuns = 2
    MaxReruns = 1
    Requests = {q1}
    Users = {u1}
    ManagerQueue = ManagerQueue
    MaxLedger = 20
CHECK_DEADLOCK FALSE
INVARIANTS TypeOK OneLiveRun CheckpointBackedByLedger OnlyARerunPassesHuman TraceShowsOneRun ProvenanceComplete
