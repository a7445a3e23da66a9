\* The timer fires while the body is read.
CONSTANTS
    StaleAfter = 90
    CapMs = 300
    Limits = {0}
    Bases = {1}
    Timeout = 10
    Status = {200, 500}
    None = None
SPECIFICATION Spec
INVARIANTS TimeoutFails
CHECK_DEADLOCK FALSE
