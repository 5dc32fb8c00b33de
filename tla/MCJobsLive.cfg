SPECIFICATION FairSpec
CONSTANTS
    j1 = j1
    j2 = j2
    r1 = r1
    JobIds = {j1}
    MaxInst = 1
    Ends = {"FAILED"}
    Readers = {r1}
    PoolMax = 2
    MaxQueries = 0
    BatchChunk = 2
    Enabled = {"cache"}
    MaxCrashes = 0
PROPERTIES
    EndedJobsAreClosed
    WrongEndHeals
