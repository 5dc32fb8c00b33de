SPECIFICATION Spec
CONSTANTS
    j1 = j1
    j2 = j2
    r1 = r1
    JobIds = {j1}
    MaxInst = 1
    Ends = {"COMPLETED", "FAILED"}
    Readers = {r1}
    PoolMax = 1
    MaxQueries = 1
    BatchChunk = 1
    Enabled = {"backfill", "expiry"}
    MaxCrashes = 1
PROPERTY
    TableIsJobHistory
