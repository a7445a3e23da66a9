\* Run Now and manual retry beside a worker that may lose its claims; the job
\* allows concurrent runs or not.
CONSTANTS
    Job = {j1}
    MaxExec = 3
    Worker = {w1}
    ClientKey = {k1}
    Millis = {1}
    Cron = {}
    BrokenCron = {}
    MaxSlot = 0
    MaxVersion = 1
    RetryLimits = {1}
    Delay = {1}
    AgeCap = 1
    None = None
    StaleAfter = 0
    CapMs = 0
    BatchSize = 2
    CallLimit = 0
    MayCrash = {}
    DbFaults = {"claim"}
    Client = {c1, c2}
    ClientOps = {"run", "retry"}
    Patches = {}
    InitJobs <- EitherKind
    InitExecs <- NothingQueued
SPECIFICATION Spec
SYMMETRY Symmetry
INVARIANTS OneCallPerSingleJob OneCreatorPerKey ReaperProceeds
