\* A run that outlasts the timeout of the call.
CONSTANTS
    None = None
    Vendors = {"zte", "lenovo"}
    Step = 1
    Timeout = 2
    OneTarPath = FALSE
    MaxRetries = 1
    MaxRuns = 3
SPECIFICATION Spec
INVARIANTS FailedOnTheBmc
CHECK_DEADLOCK FALSE
