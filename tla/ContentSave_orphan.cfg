SPECIFICATION Spec
CONSTANTS
    Drafts = {d1}
    Library = {}
    Workers = {w1}
    MaxClaims = 2
    Quota = 2
    Failures = {"lateInit"}
    MaxAttempts = 2
    Deletable = {}
INVARIANT AbandonedIsEmpty
CHECK_DEADLOCK FALSE
