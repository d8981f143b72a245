\* Every operation, one after the other, on the clients of two BMCs.
CONSTANTS
    Unset = Unset
    Collected = Collected
    Calls = {u1}
    Clients = {c1, c2}
    Ids = {i1, i2}
    Vendors = {"enginetech", "zte"}
    Offers <- MCOffers
    Operations = {"auto", "override", "standard", "stage", "push", "activate", "flash", "upload"}
SYMMETRY Symmetry
SPECIFICATION UpdateSpec
INVARIANTS RightDialect AdvertisedOnly
\* Every client is dropped.
CHECK_DEADLOCK FALSE
