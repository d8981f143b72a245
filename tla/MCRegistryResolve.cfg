\* Two threads on two errata of one name, all their documents, a cache of one.
CONSTANTS
    A = A
    B = B
    Latest = Latest
    Text = Text
    Absent = Absent
    Nil = Nil
    Threads = {t1, t2}
    Registries <- TwoErrata
    References <- ToErrata
    Requests = {A, B}
    Failing = {"uri"}
    Partial = FALSE
    Limit = 1
SPECIFICATION ResolveSpec
INVARIANTS MeansWhatItSays CacheBounded
PROPERTIES EveryResolutionEnds
CHECK_DEADLOCK FALSE
