\* A server fails, no signal arrives, and every handler answers.
CONSTANTS
    r1 = r1
    r2 = r2
    Requests = {r1}
    None = None
SPECIFICATION AnsweringSpec
PROPERTY FatalErrorReturns
CHECK_DEADLOCK FALSE
