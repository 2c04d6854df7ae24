SPECIFICATION FairSpec
CONSTANTS
    Texts = {t1, t2}
    Users = {u1}
    Processes = {p1}
    Checks = {c1, c2}
    TTL = 2
    Latency = 1
    MaxTime = 3
    MaxChanges = 3
INVARIANTS TypeOK PassedWasCompliant ConsentKeepsText
PROPERTY BlockedGetIn
CHECK_DEADLOCK FALSE
