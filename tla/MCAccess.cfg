SPECIFICATION MCSpec
CONSTANTS
    t1 = t1
    t2 = t2
    u1 = u1
    m1 = m1
    m2 = m2
    Parts = {"roles", "models"}
    Models = {m1, m2}
    MaxEdits = 2
    Threads = {t1, t2}
    Admins = {t1, t2}
    Users = {u1}
    Names = {"old", "user"}
    NoName = "none"
    Resources <- MCResources
    Everything = "*"
    Subtree <- MCSubtree
    Actions <- MCActions
    LegacyMap <- MCMap
    RemovedActions = {"manage-ai"}
    ConvertedActions = {"view-ai"}
    Catalog <- MCCatalog
    FirstRoles <- MCFirstRoles
    SeedRoles <- MCSeedRoles
    MaxRoles = 2
INVARIANTS
    AssignmentsDoNotMix
    EditsSurvive
    DefaultIsEnabled
    EditsSurviveValidation
SYMMETRY Symmetry
