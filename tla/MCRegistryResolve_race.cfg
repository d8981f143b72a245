\* The race of two threads for the cache.
CONSTANTS
    A = A
    B = B
    Latest = Latest
    Text = Text
    Absent = Absent
    Nil = Nil
    Threads = {t1, t2}
    Registries <- TwoErrata
    References <- ToErrata
    Requests = {A, B}
    Failing = {"uri"}
    Partial = FALSE
    Limit = 1
SPECIFICATION ResolveSpec
INVARIANTS CacheNeverFails
CHECK_DEADLOCK FALSE
