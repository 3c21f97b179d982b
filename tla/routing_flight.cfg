\* Two recoveries of one query known from before, or requests of other paths; the database may fail.
CONSTANTS
    r1 = r1 r2 = r2 r3 = r3 q0 = q0 b1 = b1 b2 = b2 g1 = g1 g2 = g2
    Requests = {r1, r2}
    Past = {q0}
    Backends = {b1, b2}
    Groups = {adhoc}
    Gateways = {g1}
    DefaultGroup = adhoc
    CacheSize = 1
    Kinds = {"kill", "poll", "other"}
    DBMayFail = TRUE
    MaxAdminOps = 0
    MaxRestarts = 0
    MaxCancels = 0
    None = None
SPECIFICATION FairSpec
INVARIANTS OneLookupPerQuery LeaderFollowsHistory
PROPERTIES EveryRequestFinishes
CHECK_DEADLOCK FALSE
