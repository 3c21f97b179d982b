\* Two KILL QUERY statements for one query; one client goes away.
CONSTANTS
    r1 = r1 r2 = r2 r3 = r3 q0 = q0 b1 = b1 b2 = b2 g1 = g1 g2 = g2
    Requests = {r1, r2}
    Past = {q0}
    Backends = {b1, b2}
    Groups = {adhoc}
    Gateways = {g1}
    DefaultGroup = adhoc
    CacheSize = 1
    Kinds = {"submit", "kill"}
    DBMayFail = FALSE
    MaxAdminOps = 0
    MaxRestarts = 0
    MaxCancels = 1
    None = None
SYMMETRY Symmetry
SPECIFICATION Spec
INVARIANT KillFollowsHistory
CHECK_DEADLOCK FALSE
