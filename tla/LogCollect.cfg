\* Two callers and another client, the four ways to reuse and fetch, no failing reads.
CONSTANTS
    None = None
    Callers = {c1, c2}
    Strategies = {"generic", "smoothcompute", "ieit", "inspur"}
    Faults = {}
    MaxRetries = 1
    MaxTasks = 2
    MaxClock = 2
SPECIFICATION Spec
INVARIANTS FreshBundle HonestVerdict
PROPERTIES NoPileUp
\* The callers stop when their calls have returned.
CHECK_DEADLOCK FALSE
