SPECIFICATION Spec
CONSTANTS
    Attempts = 2
    InfraRetries = 2
    SdkRetries = 2
    Absent = Absent
INVARIANTS
    
    AuditPerAnswer
    OneEntryPerExtraction
PROPERTIES
    BusinessIsFinal
    Settles
CHECK_DEADLOCK FALSE
