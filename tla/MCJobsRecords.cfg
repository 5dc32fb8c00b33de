SPECIFICATION Spec
CONSTANTS
    j1 = j1
    j2 = j2
    r1 = r1
    JobIds = {j1}
    MaxInst = 2
    Ends = {"FAILED"}
    Readers = {r1}
    PoolMax = 1
    MaxQueries = 0
    BatchChunk = 2
    Enabled = {"backfill"}
    MaxCrashes = 0
INVARIANTS
    UsageOfOwnIncarnation
    EndedMeansEnded
