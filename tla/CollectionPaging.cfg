\* Three pages of up to two links to three members.
CONSTANTS
    Foreign = Foreign
    None = None
    First = p1
    Pages = {p1, p2, p3}
    Members = {m1, m2, m3}
    MaxLinks = 2
SPECIFICATION Spec
INVARIANTS ExpandedOnce CompleteUnlessPartial StrictIsComplete
PROPERTIES Terminates
