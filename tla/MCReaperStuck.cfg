\* Concurrent runs switched off while two executions run.
CONSTANTS
    Job = {j1}
    MaxExec = 4
    Worker = {w1}
    ClientKey = {}
    Millis = {}
    Cron = {}
    BrokenCron = {}
    MaxSlot = 0
    MaxVersion = 2
    RetryLimits = {1}
    Delay = {1}
    AgeCap = 2
    None = None
    StaleAfter = 1
    CapMs = 0
    BatchSize = 2
    CallLimit = 1
    MayCrash = {}
    DbFaults = {"claim", "query"}
    Client = {c1}
    ClientOps = {"put"}
    Patches <- DisallowConcurrent
    InitJobs <- OneRetryConcurrent
    InitExecs <- TwoConcurrent
SPECIFICATION FairSpec
PROPERTIES StaleIsRecovered
