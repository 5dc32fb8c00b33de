SPECIFICATION Spec
CONSTANTS
    u1 = u1
    u2 = u2
    c1 = c1
    c2 = c2
    r1 = r1
    r2 = r2
    Requests = {r1, r2}
    Urls <- MCUrls
    Rank <- MCRank
    Clusters = {c1, c2}
    ClusterOf <- MCClusterOf
    Versions <- MCVersions
    Releases <- MCReleases
    Minimum <- MCMinimum
    RacksDBVersion <- MCRacksDBVersion
    RacksDBMinimum <- MCRacksDBMinimum
    Database <- MCUrls
    Granted <- MCGranted
    HideDenied = TRUE
    Uses <- MCUses
    MaxChanges = 1
    Lifetime = 1
    Patience = 1
INVARIANTS StableAgentsAreKnown   ListingIsComplete
PROPERTY Answered
