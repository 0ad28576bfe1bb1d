CONSTANTS
    Users = {u1, u2}
    Groups = {g1}
    Rooms = {r1}
    Slots = {s1, s2}
    MaxRequests = 3
    MaxFaults = 1
    NoOne = NoOne
    Tabs = {s1, s2}
    Guardians = {p1}
    Limits = {0, 1, 2}
    Back = 1
    MaxDay = 1
    MaxTicks = 2
    MaxSaves = 2
    MaxLosses = 1
    Logins = {s1, s2}
    Keys = {k1, k2}
    FirstKey = k1
    TTL = 1
    Timeout = 1
    MaxTime = 3
    MaxLogins = 3
    Conns = {c1, c2}
    Callers = {s1, s2, s3}
    Channels = {ch}
    Shards = {d1, d2}
    Vedadb = TRUE
    Nobody = Nobody
    Lost = Lost
    MaxUses = 3
    MaxPoolFaults = 1
SYMMETRY Symmetry
SPECIFICATION ServicesSpec
INVARIANTS CommunityInv WellnessInv KeysInv PoolInv
PROPERTIES BlocksOutliveFollows
CHECK_DEADLOCK FALSE
