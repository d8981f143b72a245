\* Two generic PATCHes in a row, and nobody else.
CONSTANTS
    t1 = t1
    t2 = t2
    None = None
    Threads <- OneThread
    Ops = {"generic"}
    OnGet <- HeaderOnly
    OnPatch = {FALSE}
    OnError = {FALSE}
    Others = FALSE
    MaxVersion = 3
    MaxOps = 2
SPECIFICATION Spec
PROPERTIES NoSpuriousConflict
\* The threads stop when each has made its MaxOps calls.
CHECK_DEADLOCK FALSE
