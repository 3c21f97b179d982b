\* One kill-switch call and one reload.
CONSTANTS
    first = first
    second = second
    broken = broken
    expr = expr
    script = script
    a1 = a1
    a2 = a2
    Contents = {first, second, broken}
    Valid = {first, second}
    Methods <- MCMethods
    Types = {expr, script}
    Admins = {a1}
    MaxEdits = 1
    None = None
SPECIFICATION Spec
INVARIANT GaugeInSync
CHECK_DEADLOCK FALSE
