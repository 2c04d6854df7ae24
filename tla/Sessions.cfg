SPECIFICATION FairSpec
CONSTANTS
    SessionIds = {s1}
    Requests = {r1}
    Processes = {p1}
    Writers = {w1, w2}
    TTL = 1
    SessionTTL = 1
    TokenTTL = 1
    Skew = 0
    Buffer = 0
    MaxTime = 2
    MaxWrites = 2
INVARIANTS
    TypeOK
    BlockedStaysOut
    RevokedStaysOut
    BarredStaysBarred
    LifetimeIsAbsolute
CHECK_DEADLOCK FALSE
PROPERTY ReadmittedGetsIn
