\* Two statements, polls or kills on two replicas, two edits of the backend table.
CONSTANTS
    r1 = r1 r2 = r2 r3 = r3 q0 = q0 b1 = b1 b2 = b2 g1 = g1 g2 = g2
    Requests = {r1, r2}
    Past = {q0}
    Backends = {b1, b2}
    Groups = {adhoc, etl}
    Gateways = {g1, g2}
    DefaultGroup = adhoc
    CacheSize = 1
    Kinds = {"submit", "kill", "poll"}
    DBMayFail = FALSE
    MaxAdminOps = 2
    MaxRestarts = 0
    MaxCancels = 0
    None = None
SYMMETRY Symmetry
SPECIFICATION Spec
INVARIANTS NoSpurious502 RecordsNameOwner
CHECK_DEADLOCK FALSE
