SPECIFICATION IngestFairSpec
CONSTANTS
    Calls = {c1, c2}
    Documents = {d1, d2}
    Keys = {k1}
    NoKey = NoKey
    Faults = {"rows", "put"}
    MaxFaults = 1
    MaxRestarts = 1
CHECK_DEADLOCK FALSE
INVARIANTS IngestInv OneRunPerDocument AnswersTrue PipelineFindsDocument
PROPERTIES ImplementsIntake CallsSettle AcceptedUploadStarts
