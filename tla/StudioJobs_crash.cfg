\* Processes die, no other fault.
CONSTANTS
    Runs = {r1, r2}
    MaxAttempts = 3
    Crashes = 2
    Stalls = 0
    DbFaults = 0
SPECIFICATION Spec
SYMMETRY Symmetry
CHECK_DEADLOCK FALSE
INVARIANTS TypeOK DequeuedIsTerminal HandlerIsVisible
PROPERTY ImplementsLifecycle
