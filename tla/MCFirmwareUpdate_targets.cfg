\* Targets are given to the strategy of a vendor that takes none.
CONSTANTS
    Unset = Unset
    Collected = Collected
    Calls = {u1}
    Clients = {c1, c2}
    Ids = {i1, i2}
    Vendors = {"zte"}
    Offers <- MCOffers
    Operations = {"auto"}
SPECIFICATION UpdateSpec
INVARIANTS TargetsKept
\* Every client is dropped.
CHECK_DEADLOCK FALSE
