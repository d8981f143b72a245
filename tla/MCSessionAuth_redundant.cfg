\* A second thread reads while the first installs a refreshed session.
CONSTANTS
    t1 = t1
    t2 = t2
    k0 = k0
    k1 = k1
    k2 = k2
    k3 = k3
    None = None
    Threads <- TwoThreads
    Tokens <- ThreeKeys
    Given <- k0
    Ops <- Requests
    Starts = {"resume"}
    MaxOps = 1
SPECIFICATION Spec
PROPERTIES OnlyExpiredIsRefreshed
\* The threads stop when each has made its MaxOps calls.
CHECK_DEADLOCK FALSE
