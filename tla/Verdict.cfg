SPECIFICATION Spec
CONSTANTS
    Absent = Absent
    Blank = Blank
    Cases <- MCCases
    Clock = 0
    Advice = {approve}
    Vendors <- MCVendors
    Quantities <- MCQuantities
    Prices <- MCPrices
    Ages <- MCAges
    REFERENCE = 1000
INVARIANTS
    TriageHasReason
    PrimaryIsMostSevere
    AuditRecomputes
    CleanPassesEveryCheck
PROPERTIES
    ImplementsPaymentRule
CHECK_DEADLOCK FALSE
