\* A job scheduled in every slot or yet to be created, edited by two clients.
CONSTANTS
    Job = {j1}
    MaxExec = 2
    Worker = {}
    ClientKey = {}
    Millis = {}
    Cron = {1, 2}
    BrokenCron = {2}
    MaxSlot = 2
    MaxVersion = 3
    RetryLimits = {0}
    Delay = {1}
    AgeCap = 2
    None = None
    StaleAfter = 1
    CapMs = 0
    BatchSize = 2
    CallLimit = 1
    MayCrash = {}
    DbFaults = {}
    Client = {c1, c2}
    ClientOps = {"create", "put", "pause", "resume", "archive"}
    Patches <- ScheduleSettings
    InitJobs <- ScheduledOrNot
    InitExecs <- NothingQueued
SPECIFICATION FairSpec
INVARIANTS SlotRunsOnce
PROPERTIES NoSlotLost SlotIsHandled NoLostUpdate NextRunKept
