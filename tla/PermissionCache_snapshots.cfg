CONSTANTS
  Processes = {p1, p2}
  Listening = {}
  Subjects = {s1}
  Requests = {r1, r2}
  Bumps = 2
  Unrevised = 1
  Faults = 1
SPECIFICATION Spec
SYMMETRY Symmetry
INVARIANTS TypeOK SnapshotsMatchRevision SeesRevisedChanges StaleNeedsTwoChanges
CHECK_DEADLOCK FALSE
