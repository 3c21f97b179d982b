\* Three statements or polls, a cache of one entry, one edit, one crash.
CONSTANTS
    r1 = r1 r2 = r2 r3 = r3 q0 = q0 b1 = b1 b2 = b2 g1 = g1 g2 = g2
    Requests = {r1, r2, r3}
    Past = {}
    Backends = {b1, b2}
    Groups = {adhoc}
    Gateways = {g1}
    DefaultGroup = adhoc
    CacheSize = 1
    Kinds = {"submit", "poll"}
    DBMayFail = FALSE
    MaxAdminOps = 1
    MaxRestarts = 1
    MaxCancels = 1
    None = None
SYMMETRY Symmetry
SPECIFICATION Spec
INVARIANTS PollIsSticky CacheConsistent
CHECK_DEADLOCK FALSE
