SPECIFICATION Spec
CONSTANTS
    Requests = {r1, r2, r3}
    Keys = {k1, k2}
    Emails = {e1, e2}
SYMMETRY Symmetry
INVARIANTS TypeOK KeyExecutesOnce CreatedIsUsable NoUnknownLogin
PROPERTY StoredAnswerStands
CHECK_DEADLOCK FALSE
