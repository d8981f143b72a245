\* One thread closes the client while another one refreshes.
CONSTANTS
    t1 = t1
    t2 = t2
    k0 = k0
    k1 = k1
    k2 = k2
    k3 = k3
    None = None
    Threads <- TwoThreads
    Tokens <- ThreeKeys
    Given <- k0
    Ops <- ReadClose
    Starts = {"resume"}
    MaxOps = 1
SPECIFICATION Spec
INVARIANTS CloseClearsAuth
\* The threads stop when each has made its MaxOps calls.
CHECK_DEADLOCK FALSE
