\* One thread calls every operation, whatever the client was constructed with.
CONSTANTS
    t1 = t1
    t2 = t2
    k0 = k0
    k1 = k1
    k2 = k2
    k3 = k3
    None = None
    Threads <- OneThread
    Tokens <- FourKeys
    Given <- k0
    Ops <- AllOps
    Starts <- AnyStart
    MaxOps = 3
SPECIFICATION Spec
INVARIANTS Settled DeletedIsNotActive CloseClearsAuth
\* The threads stop when each has made its MaxOps calls.
CHECK_DEADLOCK FALSE
