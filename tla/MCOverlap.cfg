\* One tick is 30 s: a call may last 120 s, the reaper waits 90 s.
CONSTANTS
    Job = {j1}
    MaxExec = 2
    Worker = {w1, w2}
    ClientKey = {}
    Millis = {}
    Cron = {}
    BrokenCron = {}
    MaxSlot = 0
    MaxVersion = 1
    RetryLimits = {1}
    Delay = {0, 1}
    AgeCap = 4
    None = None
    StaleAfter = 3
    CapMs = 0
    BatchSize = 2
    CallLimit = 4
    MayCrash = {}
    DbFaults = {}
    Client = {}
    ClientOps = {}
    Patches = {}
    InitJobs <- OneRetry
    InitExecs <- OneQueued
SPECIFICATION Spec
SYMMETRY WorkerSymmetry
INVARIANTS OneCallPerSingleJob
