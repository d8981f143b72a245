--------------------------- MODULE MCFirmwareUpdate ---------------------------
(* A service that predates the support flags, and one that has them.       *)
EXTENDS FirmwareUpdate, TLC

MCOffers ==
    {[targets |-> Unset, stage |-> Unset, allowable |-> TRUE, staging |-> Unset,
      typed |-> FALSE],
     [targets |-> Unset, stage |-> TRUE, allowable |-> Unset, staging |-> TRUE,
      typed |-> FALSE],
     [targets |-> TRUE, stage |-> TRUE, allowable |-> FALSE, staging |-> TRUE,
      typed |-> FALSE]}

Symmetry == Permutations(Calls) \cup Permutations(Clients) \cup Permutations(Ids)
=============================================================================
