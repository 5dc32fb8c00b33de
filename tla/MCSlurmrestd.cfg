SPECIFICATION MCSpec
CONSTANTS
    w1 = w1
    w2 = w2
    t1 = t1
    t2 = t2
    t3 = t3
    Workers = {w1, w2}
    Operations = {"job_submit", "job_update"}
    Enabled = TRUE
    RedisFails = TRUE
    MaxVersion = 2
    Threads = {t1, t2, t3}
    Newest = 3
    Served = {1, 2}
    Flaky = TRUE
    MaxUpgrades = 1
    jobs = jobs
    nodes = nodes
    Callers = {t1, t2, t3}
    CountedKeys = {jobs, nodes}
    MaxCounts = 2
INVARIANTS
    StaleOnlyIfRaced
    SettledChain
    NewestAccepted
    TotalsAgree
PROPERTY
    RawOnlyWhileSettling
SYMMETRY Symmetry
