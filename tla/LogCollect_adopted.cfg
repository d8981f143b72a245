\* One caller of a server without a strategy of its own, and another client.
CONSTANTS
    None = None
    Callers = {c1}
    Strategies = {"generic"}
    Faults = {}
    MaxRetries = 1
    MaxTasks = 2
    MaxClock = 2
SPECIFICATION Spec
INVARIANT AdoptedInFlight
\* The callers stop when their calls have returned.
CHECK_DEADLOCK FALSE
