\* A client is dropped and another one is given its id().
CONSTANTS
    Unset = Unset
    Collected = Collected
    Calls = {u1}
    Clients = {c1, c2}
    Ids = {i1, i2}
    Vendors = {"enginetech", "lenovo"}
    Offers <- MCOffers
    Operations = {"auto"}
SPECIFICATION UpdateSpec
INVARIANTS OwnDialect
\* Every client is dropped.
CHECK_DEADLOCK FALSE
