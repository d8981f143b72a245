---------------------------- MODULE MCResourceOps ----------------------------
(***************************************************************************)
(* ResourceOps over the operations of RedfishClient.                       *)
(***************************************************************************)
EXTENDS ResourceOps, ClientFacade

\* Operations that do not tell of every failure, and why: a route that moves
\* on whatever went wrong, links that are dropped without a mark, or lists
\* copied from several collections.
ForgetfulOps ==
    {"get_system_fru", "get_drives", "get_pcie_devices", "get_fru_service",
     "get_power_supplies", "get_power_supply", "get_power_supply_metrics",
     "get_network_ports", "get_memory_chunks", "get_processor_ports",
     "get_connected_pcie_ports", "get_cxl_logical_devices",
     "get_port_cxl_logical_devices", "get_baseboard_fru", "get_mainboard",
     "get_fan", "get_odata_id", "get_etag"}

(* A write to "the" system, by a call that names none, reaches the only one  *)
(* the BMC has, however much of the list of systems could be read:           *)
(* systems.get promises, "If system_id is None and there are multiple       *)
(* systems, raises an error".                                               *)
RightMember ==
    effects > 0 /\ named = None /\ recipe.levels[1] = SystemNamed => ~astray
=============================================================================
