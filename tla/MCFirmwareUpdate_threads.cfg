\* Two threads detect the vendor of one client at a time.
CONSTANTS
    Unset = Unset
    Collected = Collected
    Calls = {u1, u2}
    Clients = {c1, c2}
    Ids = {i1, i2}
    Vendors = {"enginetech", "lenovo"}
    Offers <- MCOffers
    Operations = {"auto"}
SPECIFICATION UpdateSpec
INVARIANTS UpdateTypeOK RightDialect
\* Every client is dropped.
CHECK_DEADLOCK FALSE
