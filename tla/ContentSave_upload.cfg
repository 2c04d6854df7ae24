SPECIFICATION Spec
CONSTANTS
    Drafts = {d1}
    Library = {l1}
    Workers = {w1, w2}
    MaxClaims = 3
    Quota = 1
    Failures = {"crash", "storage"}
    MaxAttempts = 1
    Deletable = {l1}
SYMMETRY Symmetry
INVARIANTS TypeOK PublishedIsStored NoDoubleBooking
CHECK_DEADLOCK FALSE
