SPECIFICATION MCSpec
CONSTANTS
    r1 = r1
    r2 = r2
    admin = admin
    operator = operator
    member = member
    guest = guest
    s1 = s1
    s2 = s2
    shared = shared
    Resources <- MCResources
    Everything = "*"
    Subtree <- MCSubtree
    Actions = {}
    LegacyMap <- MCLegacyMap
    RemovedActions = {}
    ConvertedActions = {}
    Users = {admin, operator, member, guest}
    Anonymous = {guest}
    Granted <- MCGranted
    AccessControl = FALSE
    Enabled <- MCEnabled
    Requests = {r1, r2}
    Workloads <- MCWorkloads
    StatsLife = 2
    JobsLife = 2
    Patience = 1
    Streams = {s1, s2}
    Shared = shared
    Histories = {2}
    Called = {"job", "job/cancel"}
    Writes = {"job/cancel"}
    MaxRounds = 2
    HistoryLimit = 4
INVARIANTS
    SelfIsOwn
    PathsAgree
    OfferedIsPermitted
    
    
    WritesAreTraced
    QuestionInContext
    ShownIsStored
PROPERTY
    StreamsEnd
