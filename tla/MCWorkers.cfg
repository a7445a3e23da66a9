\* Three workers that may crash and lose statements; one queued execution, or
\* two that were queued before the job's concurrent runs were switched off.
CONSTANTS
    Job = {j1}
    MaxExec = 4
    Worker = {w1, w2, w3}
    ClientKey = {}
    Millis = {}
    Cron = {}
    BrokenCron = {}
    MaxSlot = 0
    MaxVersion = 1
    RetryLimits = {1}
    Delay = {1}
    AgeCap = 3
    None = None
    StaleAfter = 2
    CapMs = 0
    BatchSize = 2
    CallLimit = 2
    MayCrash = {w1, w2, w3}
    DbFaults = {"claim", "query"}
    Client = {}
    ClientOps = {}
    Patches = {}
    InitJobs <- OneRetry
    InitExecs <- Queued
SPECIFICATION Spec
SYMMETRY WorkerSymmetry
INVARIANTS TypeOK OneCallPerSingleJob ClaimIsExclusive RetriedOnce
PROPERTIES NoReapDuringCall SettledIsFinal KeepsLedger
