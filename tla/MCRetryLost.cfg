\* Run Now between a failure and its retry.
CONSTANTS
    Job = {j1}
    MaxExec = 3
    Worker = {w1}
    ClientKey = {}
    Millis = {}
    Cron = {}
    BrokenCron = {}
    MaxSlot = 0
    MaxVersion = 1
    RetryLimits = {1}
    Delay = {1}
    AgeCap = 3
    None = None
    StaleAfter = 2
    CapMs = 0
    BatchSize = 2
    CallLimit = 2
    MayCrash = {}
    DbFaults = {}
    Client = {c1}
    ClientOps = {"run"}
    Patches = {}
    InitJobs <- OneRetry
    InitExecs <- OneQueued
SPECIFICATION Spec
INVARIANTS FailureIsRetried
