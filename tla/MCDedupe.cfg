\* A key used again after its execution has ended.
CONSTANTS
    Job = {j1}
    MaxExec = 3
    Worker = {w1}
    ClientKey = {k1}
    Millis = {}
    Cron = {}
    BrokenCron = {}
    MaxSlot = 0
    MaxVersion = 1
    RetryLimits = {1}
    Delay = {1}
    AgeCap = 3
    None = None
    StaleAfter = 2
    CapMs = 0
    BatchSize = 2
    CallLimit = 2
    MayCrash = {}
    DbFaults = {}
    Client = {c1}
    ClientOps = {"run"}
    Patches = {}
    InitJobs <- EitherKind
    InitExecs <- NothingQueued
SPECIFICATION Spec
INVARIANTS DedupedReturnsOriginal
