\* As the generic strategy, when some log entries cannot be read.
CONSTANTS
    None = None
    Callers = {c1}
    Strategies = {"generic"}
    Faults = {"unread"}
    MaxRetries = 0
    MaxTasks = 2
    MaxClock = 2
SPECIFICATION Spec
INVARIANT FreshBundle
\* The callers stop when their calls have returned.
CHECK_DEADLOCK FALSE
