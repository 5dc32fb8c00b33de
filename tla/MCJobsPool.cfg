SPECIFICATION Spec
CONSTANTS
    j1 = j1
    j2 = j2
    r1 = r1
    JobIds = {j1}
    MaxInst = 1
    Ends = {"FAILED"}
    Readers = {}
    PoolMax = 1
    MaxQueries = 1
    BatchChunk = 2
    Enabled = {}
    MaxCrashes = 0
INVARIANT
    FailedRowsRequeued
