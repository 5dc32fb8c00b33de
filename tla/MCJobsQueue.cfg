SPECIFICATION Spec
CONSTANTS
    j1 = j1
    j2 = j2
    r1 = r1
    JobIds = {j1, j2}
    MaxInst = 1
    Ends = {"COMPLETED"}
    Readers = {}
    PoolMax = 1
    MaxQueries = 0
    BatchChunk = 1
    Enabled = {"submit", "outage", "stop"}
    MaxCrashes = 0
INVARIANTS
    NewestRowKept
SYMMETRY Symmetry
