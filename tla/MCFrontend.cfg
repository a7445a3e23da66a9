\* One tab, two filters, a job page that needs two answers, two loads at
\* once, one handler; the data changes once and one request fails.
CONSTANTS
    Filter = {all, failed}
    NoFilter = all
    JobReads = {job, history}
    Button = {b1}
    MaxLoads = 2
    MaxRev = 1
    MaxFails = 1
SPECIFICATION FairSpec
INVARIANTS TypeOK
PROPERTIES Converges ReadYourWrites SpinnerEnds
