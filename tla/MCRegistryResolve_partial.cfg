\* One thread, three registries, all their documents, listings with gaps.
CONSTANTS
    A = A
    B = B
    Latest = Latest
    Text = Text
    Absent = Absent
    Nil = Nil
    Threads = {t1}
    Registries <- MCRegistries
    References <- MCReferences
    Requests = {A}
    Failing = {"uri", "publication"}
    Partial = TRUE
    Limit = 2
SPECIFICATION ResolveSpec
INVARIANTS ResolveTypeOK MeansWhatItSays CacheBounded
PROPERTIES EveryResolutionEnds
CHECK_DEADLOCK FALSE
