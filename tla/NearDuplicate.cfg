SPECIFICATION Spec
CONSTANTS
    Invoices = {i1, i2, i3}
    Similarities = {90, 91, 95}
    NEAR_DUP_SIMILARITY_THRESHOLD = 90
    TOP_K = 1
    Attempts = 2
    MaxFailures = 3
SYMMETRY MCNearDupSymmetry
CHECK_DEADLOCK FALSE
INVARIANTS EvidenceIsReal BestEvidenceIsKept
