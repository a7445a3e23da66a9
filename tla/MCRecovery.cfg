\* Calls may outlive the stale threshold; one of two workers may crash, and
\* claims may be lost; fair scheduling.  One job forbids concurrent runs until
\* a PUT allows them; two executions of another wait for batches of one.
CONSTANTS
    Job = {j1, j2}
    MaxExec = 3
    Worker = {w1, w2}
    ClientKey = {}
    Millis = {}
    Cron = {}
    BrokenCron = {}
    MaxSlot = 0
    MaxVersion = 2
    RetryLimits = {0, 1}
    Delay = {1}
    AgeCap = 2
    None = None
    StaleAfter = 1
    CapMs = 0
    BatchSize = 1
    CallLimit = 2
    MayCrash = {w1}
    DbFaults = {"claim"}
    Client = {c1}
    ClientOps = {"put"}
    Patches <- AllowConcurrent
    InitJobs <- OneForbids
    InitExecs <- OneOrTwoQueued
SPECIFICATION FairSpec
INVARIANTS FailureIsRetried RetriedOnce
PROPERTIES StaleIsRecovered DueIsTaken
