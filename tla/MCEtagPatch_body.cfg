\* A BMC that has its ETags in the body only.
CONSTANTS
    t1 = t1
    t2 = t2
    None = None
    Threads <- OneThread
    Ops = {"manager"}
    OnGet <- BodyOnly
    OnPatch = {FALSE}
    OnError = {FALSE}
    Others = TRUE
    MaxVersion = 3
    MaxOps = 1
SPECIFICATION Spec
INVARIANTS ReadsMakeConditional
\* The threads stop when each has made its MaxOps calls.
CHECK_DEADLOCK FALSE
