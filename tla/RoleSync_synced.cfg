SPECIFICATION Spec
CONSTANTS
    Operations = {s, o}
    Scheduler = s
    Names = {a, b}
    Users = {u}
    RowIds = {1, 2}
INVARIANT
    SyncedNeedsNoRepair
