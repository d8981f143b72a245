\* Two threads read and write over an existing session that may expire.
CONSTANTS
    t1 = t1
    t2 = t2
    k0 = k0
    k1 = k1
    k2 = k2
    k3 = k3
    None = None
    Threads <- TwoThreads
    Tokens <- FourKeys
    Given <- k0
    Ops <- Requests
    Starts = {"resume"}
    MaxOps = 2
SPECIFICATION FairSpec
INVARIANTS NoReplayedWrite OneLoginPerKey HeaderMatchesKey NoBasicFallback FailureIsCurrent
PROPERTIES LockoutIsFinal RefreshIsAtomic EveryCallReturns
\* The threads stop when each has made its MaxOps calls.
CHECK_DEADLOCK FALSE
