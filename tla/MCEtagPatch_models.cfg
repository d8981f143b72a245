\* Two threads read and patch in every way, and the BMC puts its ETags
\* into the header, the body, both or neither.
CONSTANTS
    t1 = t1
    t2 = t2
    None = None
    Threads <- TwoThreads
    Ops = {"read", "generic", "manager", "entity"}
    OnGet <- Anywhere
    OnPatch = {TRUE, FALSE}
    OnError = {TRUE, FALSE}
    Others = TRUE
    MaxVersion = 2
    MaxOps = 2
SPECIFICATION Spec
PROPERTIES ReadersKeepUpdates ReadersConflictIsReal
\* The threads stop when each has made its MaxOps calls.
CHECK_DEADLOCK FALSE
