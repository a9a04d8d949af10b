SPECIFICATION LedgerFairSpec
CONSTANTS
    r1 = r1
    r2 = r2
    node = node
    triage = triage
    request = request
    other = other
    Runs <- MCRuns
    Writers <- MCWriters
    RunOf <- MCRunOf
    Appends <- MCAppends
    Attempts <- MCAttempts
CHECK_DEADLOCK FALSE
INVARIANTS NoGaps NobodyWaitsInACircle DoneIsOnRecord
PROPERTIES WritersSettle ImplementsAuditLog
