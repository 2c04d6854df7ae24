SPECIFICATION Spec
CONSTANTS
    Drafts = {d1}
    Library = {l1}
    Workers = {w1}
    MaxClaims = 4
    Quota = 3
    Failures = {"crash", "schedule", "lateInit", "ackLost"}
    MaxAttempts = 2
    Deletable = {}
INVARIANTS SavedKeepsMedia AbandonedPublishesNothing RecoveredIsSettled
PROPERTY ImplementsSaga
CHECK_DEADLOCK FALSE
