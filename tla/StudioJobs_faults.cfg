\* Every fault at once, fair worker.  No symmetry: a liveness property is checked.
CONSTANTS
    Runs = {r1, r2}
    MaxAttempts = 2
    Crashes = 1
    Stalls = 1
    DbFaults = 1
SPECIFICATION FairSpec
CHECK_DEADLOCK FALSE
INVARIANT AcceptedIsNeverLost
PROPERTY AcceptedSettles
