\* Two kill-switch calls, two edits, and contents with one and two scripts.
CONSTANTS
    first = first
    second = second
    broken = broken
    expr = expr
    script = script
    a1 = a1
    a2 = a2
    Contents = {first, second, broken}
    Valid = {first, second}
    Methods <- MCMethods
    Types = {expr, script}
    Admins = {a1, a2}
    MaxEdits = 2
    None = None
SPECIFICATION Spec
SYMMETRY Symmetry
INVARIANT LiveIsLatestGood
INVARIANT NextRequestSkips
INVARIANT WrittenIsApplied
PROPERTY NoReloadAfterStop
CHECK_DEADLOCK FALSE
