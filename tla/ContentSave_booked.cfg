SPECIFICATION Spec
CONSTANTS
    Drafts = {d1}
    Library = {l1}
    Workers = {w1}
    MaxClaims = 2
    Quota = 2
    Failures = {}
    MaxAttempts = 2
    Deletable = {}
INVARIANT UsageIsExact
CHECK_DEADLOCK FALSE
