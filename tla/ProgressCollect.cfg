\* Timeout of two steps, one of them rounded up; a register as
\* far behind as the BMC likes.
CONSTANTS
    None = None
    Vendors = {"zte", "lenovo", "ieit"}
    Step = 2
    Timeout = 5
    OneTarPath = FALSE
    MaxRetries = 1
    MaxRuns = 3
SPECIFICATION Spec
INVARIANTS FreshArchive HonestFailure SuccessIsNoticed OneTimeout
PROPERTIES EveryCallReturns
\* The call has returned and the bounds are reached.
CHECK_DEADLOCK FALSE
