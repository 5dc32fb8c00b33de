SPECIFICATION MCSpec
CONSTANTS
    a = a
    b = b
    job1 = job1
    job2 = job2
    agent = agent
    script = script
    Null = Null
    Targets = {a, b}
    MaxVersion = 2
    MaxLost = 3
    Jobs = {job1, job2}
    Names <- MCNames
    Rules <- MCRules
    Rewritten = {"regr-x"}
    RewriteTool = "regr"
    Unknown = "unknown"
    NoName = Null
    Tools = {"gromacs", "regr"}
    MaxDay = 1
    Aggregators = {agent}
    Scripts = {script}
    MaxRestarts = 1
    Hour = 4
    Day = 8
    Week = 24
    ShortWindow = 16
    LongWindow = 24
    NoTime = Null
    Terminal = {"COMPLETED", "FAILED"}
    Groups <- MCGroups
    RowSets <- MCRowSets
    QueryTimes = {3, 12, 16, 29, 40}
    QueueJobs <- MCQueueJobs
    Nodes <- MCNodes
    Partitions <- MCPartitions
    Histories <- MCHistories
    PressureLimit = 1
    NoValue = Null
INVARIANTS
    DataIsOfTarget
    HiddenPageIsQuiet
    GoneMeansQuiet
    RefreshShowsWrites
    
    SeriesCountEveryJob
    PressureIsExplained
    WaitingIsShown
PROPERTIES
    KeepsPolling
    
    TodayIsCounted
