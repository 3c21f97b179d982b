\* One request in flight when the signal arrives.
CONSTANTS
    r1 = r1
    r2 = r2
    Requests = {r1}
    None = None
SPECIFICATION Spec
INVARIANT DrainInFlight
CHECK_DEADLOCK FALSE
