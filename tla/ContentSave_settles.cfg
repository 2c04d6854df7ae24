SPECIFICATION FairSpec
CONSTANTS
    Drafts = {d1}
    Library = {}
    Workers = {w1}
    MaxClaims = 2
    Quota = 2
    Failures = {}
    MaxAttempts = 3
    Deletable = {}
PROPERTY RecoverySettles
CHECK_DEADLOCK FALSE
