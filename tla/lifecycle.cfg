\* Two requests at the gateway; two Route calls, one kill-switch call and one
\* scrape at the routing service; a process that has returned stays returned.
CONSTANTS
    r1 = r1
    r2 = r2
    Requests = {r1, r2}
    None = None
    RouteCalls = {c1, c2}
    AdminCalls = {k1}
    Scrapes = {s1}
SPECIFICATION ProcessesSpec
INVARIANTS WorkersJoined ExitStatusTrue RouteCallsDrained
PROPERTIES SignalEndsRun SignalEndsService
CHECK_DEADLOCK FALSE
