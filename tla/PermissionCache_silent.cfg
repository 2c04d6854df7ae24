CONSTANTS
  Processes = {p1}
  Listening = {}
  Subjects = {s1}
  Requests = {r1, r2}
  Bumps = 0
  Unrevised = 1
  Faults = 0
SPECIFICATION Spec
INVARIANTS SeesEveryChange
CHECK_DEADLOCK FALSE
