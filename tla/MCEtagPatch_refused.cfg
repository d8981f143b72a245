\* A generic PATCH is refused and sent again.
CONSTANTS
    t1 = t1
    t2 = t2
    None = None
    Threads <- OneThread
    Ops = {"generic"}
    OnGet <- HeaderOnly
    OnPatch = {TRUE}
    OnError = {TRUE}
    Others = TRUE
    MaxVersion = 3
    MaxOps = 3
SPECIFICATION Spec
PROPERTIES NoLostUpdate
\* The threads stop when each has made its MaxOps calls.
CHECK_DEADLOCK FALSE
