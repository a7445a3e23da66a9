\* The unit of delays is a second, the cap 5 minutes as in the code; the timer
\* has 2 ticks; statuses on both sides of the boundaries of 2xx.
CONSTANTS
    StaleAfter = 90
    CapMs = 300
    Limits = {0, 1, 7}
    Bases = {7}
    Timeout = 2
    Status = {200, 299, 300}
    None = None
SPECIFICATION Spec
INVARIANTS ExactlyMaxRetries FailureHasReason
PROPERTIES BackoffGrows ChainEnds CallsEnd
CHECK_DEADLOCK FALSE
