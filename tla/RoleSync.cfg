SPECIFICATION FairSpec
CONSTANTS
    Operations = {s, o}
    Scheduler = s
    Names = {a, b}
    Users = {u}
    RowIds = {1, 2}
INVARIANTS
    TypeOK
    SyncedIsTrue
    RefusedIsUndone
PROPERTY
    Converges
