SPECIFICATION Spec
CONSTANTS
    Drafts = {d1}
    Library = {l1}
    Workers = {w1}
    MaxClaims = 2
    Quota = 2
    Failures = {}
    MaxAttempts = 2
    Deletable = {l1}
INVARIANT UsedIsStored
CHECK_DEADLOCK FALSE
