CONSTANTS
  Processes = {p1}
  Listening = {p1}
  Subjects = {s1}
  Requests = {r1, r2}
  Bumps = 1
  Unrevised = 0
  Faults = 1
SPECIFICATION FairSpec
PROPERTIES Answered
CHECK_DEADLOCK FALSE
