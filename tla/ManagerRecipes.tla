--------------------------- MODULE ManagerRecipes ---------------------------
(***************************************************************************)
(* The recipes of the resource managers' operations, for ResourceOps: where *)
(* each looks, what a missing link, a 404, another failure and an empty    *)
(* list do there, how it picks a member, what it validates and how it      *)
(* writes.  A parent's identifier (system_id of an operation that also     *)
(* takes another one) is left out: Systems_get, Managers_get and           *)
(* Chassis_get are where it matters.                                       *)
(***************************************************************************)
EXTENDS Naturals, Sequences

\* A place where no answer but a good one will do.
Place(form) == [form |-> form, absent |-> "raise", gone |-> "raise",
                failed |-> "raise", empty |-> "keep"]
Fixed(place) == [place EXCEPT !.absent = "fixed"]
Optional(place) == [place EXCEPT !.absent = "end"]

\* RedfishClient._get_collection, _get_list, and a plain GET.
Collection == Place("collection")
Links == [Place("links") EXCEPT !.absent = "end"]
Resource == Place("resource")

Among(routes, pick) == [routes |-> routes, pick |-> pick, otherwise |-> "raise"]
OrNothing(lvl) == [lvl EXCEPT !.otherwise = "empty"]
One(place) == Among(<<place>>, "first")
All(place) == Among(<<place>>, "all")

\* Whatever goes wrong on the way, the next place is tried.
Anyway(place) == [place EXCEPT !.absent = "next", !.gone = "next",
                               !.failed = "next", !.empty = "next"]

FirstOf(routes) == [routes |-> routes, pick |-> "all", otherwise |-> "empty"]

Read(levels) == [levels |-> levels, write |-> <<>>, optional |-> TRUE]
ReadNamed(levels) == [Read(levels) EXCEPT !.optional = FALSE]

Request(checks) == [checks |-> checks, noop |-> FALSE, again |-> FALSE, reread |-> FALSE]
Control(levels, write) == [levels |-> levels, write |-> <<write>>, optional |-> TRUE]
ControlNamed(levels, write) == [Control(levels, write) EXCEPT !.optional = FALSE]

-----------------------------------------------------------------------------
(* managers/systems.py                                                      *)

\* Without an identifier the only system; several are ambiguous.
System == Among(<<Fixed(Collection)>>, "sole")
SystemNamed == Among(<<Fixed(Collection)>>, "key")

Systems_get == Read(<<SystemNamed>>)
Systems_processors == Read(<<System, All(Collection)>>)
Systems_memory == Read(<<System, All(Fixed(Collection))>>)
Systems_storages == Read(<<System, All(Collection)>>)
Systems_volumes ==
    ReadNamed(<<System, Among(<<Collection>>, "key"), All(Fixed(Collection))>>)
Systems_bios == Read(<<System, One(Fixed(Resource))>>)

\* resolve_log_service: the named log service, or the only one.
LogService == Among(<<Collection>>, "key")
\* fetch_log_entries: a log without an Entries link has no entries.
LogEntries == OrNothing(All(Optional(Collection)))

Systems_log_services == Read(<<System, All(Collection)>>)
Systems_log_service == Read(<<System, LogService>>)
Systems_log_entries == Read(<<System, LogService, LogEntries>>)
Systems_clear_system_log == Control(<<System, LogService>>, Request({"action"}))

Systems_drive_reset ==
    Control(<<One(Fixed(Resource))>>, Request({"action", "inline"}))

Systems_boot_options == Read(<<System, OrNothing(All(Optional(Collection)))>>)
Systems_boot_option == ReadNamed(<<System, System, Among(<<Collection>>, "key")>>)
Systems_set_boot_option_enabled ==
    ControlNamed(<<System, System, Among(<<Collection>>, "key")>>,
                 [Request({}) EXCEPT !.reread = TRUE])

\* The Enginetech layout first, whatever is wrong with it; then the OEM link.
Systems_fru_info ==
    Read(<<System,
           FirstOf(<<Anyway(Resource), Optional(Resource)>>)>>)

\* Validated against the allowable targets; nothing is sent when the target
\* is in place already, whatever the override mode and its enablement are.
Systems_change_boot_source ==
    Control(<<SystemNamed>>, [Request({"inline"}) EXCEPT !.noop = TRUE])

\* Validated against the power state that was read.
Systems_reset == Control(<<SystemNamed>>, Request({"action", "inline"}))

\* Three actions, validated alike; their ActionInfo is read in any case.
Systems_graphical_console ==
    Control(<<SystemNamed>>, Request({"action", "inline", "probe"}))

-----------------------------------------------------------------------------
(* managers/managers.py                                                     *)

\* get without an identifier: the member "1", or after a 404 the first one.
Default ==
    [routes |-> <<[Fixed(Resource) EXCEPT !.gone = "next"],
                  [Fixed(Collection) EXCEPT !.empty = "raise"]>>,
     pick |-> "first", otherwise |-> "raise"]

Managers_get == ReadNamed(<<Among(<<Fixed(Collection)>>, "key")>>)
Managers_get_default == Read(<<Default>>)
Managers_log_services == Read(<<Default, All(Collection)>>)
Managers_log_service == Read(<<Default, LogService>>)
Managers_log_entries == Read(<<Default, LogService, LogEntries>>)
Managers_reset == Control(<<Default>>, Request({"action", "inline", "info"}))
Managers_clear_log ==
    Control(<<Default, LogService>>, [Request({"action"}) EXCEPT !.again = TRUE])

Managers_network_protocol == Read(<<Default, One(Fixed(Resource))>>)
Managers_https_certificates ==
    Read(<<Default, One(Fixed(Resource)), One(Resource)>>)
Managers_ethernet_interfaces == Read(<<Default, All(Collection)>>)
Managers_host_interfaces == Read(<<Default, All(Collection)>>)
Managers_kvm_service == Read(<<Default, One(Resource)>>)
Managers_get_oem_service == Read(<<Default, One(Resource)>>)
Managers_https_cert == Read(<<Default, One(Resource), One(Resource)>>)

\* The standard link, the OEM link, or a path built from the manager's.
VirtualMedia == Among(<<Fixed(Collection)>>, "key")
Managers_virtual_media == Read(<<Default, All(Fixed(Collection))>>)
Managers_virtual_media_resource == Read(<<Default, VirtualMedia>>)
Managers_insert_virtual_media ==
    Control(<<Default, VirtualMedia>>, Request({"action", "inline", "probe"}))
Managers_eject_virtual_media ==
    Control(<<Default, VirtualMedia>>, Request({"action"}))

Managers_serial_interfaces == Read(<<Default, All(Collection)>>)
Managers_serial_interface == Read(<<Default, Among(<<Collection>>, "key")>>)
Managers_update_serial_interface ==
    Control(<<Default, Among(<<Collection>>, "key")>>, Request({"inline"}))

-----------------------------------------------------------------------------
(* managers/chassis.py                                                      *)

Chassis_get == ReadNamed(<<Among(<<Fixed(Collection)>>, "key")>>)
Chassis_get_default == Read(<<Default>>)
Chassis_thermal == Read(<<Default, One(Resource)>>)

\* Not advertised and 404 both mean that there is none.
Chassis_inlet_history_temperature ==
    Read(<<Default, One(Resource),
           OrNothing(All([Optional(Resource) EXCEPT !.gone = "end"]))>>)

Chassis_power == Read(<<Default, One(Resource)>>)
Chassis_power_subsystem == Read(<<Default, One(Resource)>>)

\* The modern PowerSubsystem with its collection, or the legacy Power when it
\* is not advertised or a 404 comes up while it is read.
PowerSupplies(pick) ==
    [routes |-> <<[Collection EXCEPT !.absent = "next", !.gone = "next"],
                  Optional(Place("embedded"))>>,
     pick |-> pick, otherwise |-> IF pick = "all" THEN "empty" ELSE "raise"]

Chassis_power_supplies == Read(<<Default, PowerSupplies("all")>>)
Chassis_power_supply ==
    Read(<<Default, PowerSupplies("key")>>)
Chassis_power_supply_metrics ==
    Read(<<Default, PowerSupplies("key"), One(Resource)>>)

\* Chassis.Drives, then the first of Links.Drives as a collection, then each
\* of these links by itself; every failure only moves on.
Chassis_drives ==
    Read(<<Default,
           FirstOf(<<Anyway(Collection), [Anyway(Collection) EXCEPT !.absent = "end"],
                     [Fixed(Links) EXCEPT !.empty = "end"]>>)>>)

Chassis_network_adapters == Read(<<Default, All(Collection)>>)

\* Chassis.PCIeDevices, and the links when it is missing or fails.
PCIeDevices(pick) ==
    [routes |-> <<[Collection EXCEPT !.absent = "next", !.gone = "next",
                                     !.failed = "next"],
                  Links>>,
     pick |-> pick, otherwise |-> IF pick = "all" THEN "empty" ELSE "raise"]

Chassis_pcie_devices == Read(<<Default, PCIeDevices("all")>>)

\* Members that cannot be read are left out; a failed collection is an empty list.
Chassis_fru_service ==
    Read(<<Default,
           OrNothing(All([form |-> "raw", absent |-> "end", gone |-> "end",
                          failed |-> "end", empty |-> "keep"]))>>)

\* The member .../0 of the same collection, or None.
Chassis_fru_service_board ==
    Read(<<Default,
           OrNothing(All([Optional(Resource) EXCEPT !.gone = "end",
                                                    !.failed = "end"]))>>)

\* The chassis, or the drive, is read for its ETag, written, and read again.
Chassis_set_indicator_led ==
    Control(<<Default>>, [Request({}) EXCEPT !.reread = TRUE])

\* Only a property the drive advertises is written.
Chassis_set_drive_indicator_led ==
    Control(<<One(Fixed(Resource))>>, [Request({"action", "inline"}) EXCEPT !.reread = TRUE])
Chassis_set_drive_location_indicator ==
    Control(<<One(Fixed(Resource))>>, [Request({"action"}) EXCEPT !.reread = TRUE])

-----------------------------------------------------------------------------
(* managers/system_resources.py, fabric.py, cooling.py                      *)

Resources_update_secure_boot ==
    Control(<<SystemNamed, One(Resource)>>, Request({"inline"}))
Resources_reset_secure_boot_keys ==
    Control(<<SystemNamed, One(Resource)>>, Request({"action", "inline", "info"}))

\* The parents' lists one after another; a parent without one is passed over.
OfEach(route) ==
    <<System, Among(<<Collection>>, "each"),
      All([route EXCEPT !.absent = "next"])>>

Resources_network_interfaces == Read(<<System, All(Collection)>>)
Resources_memory_domains == Read(<<System, All(Collection)>>)
Resources_network_ports == Read(OfEach(Collection))
Resources_memory_chunks == Read(OfEach(Collection))
Resources_memory_metrics ==
    Read(<<System, Among(<<Collection>>, "key"), One(Resource)>>)

Resources_secure_boot == Read(<<System, One(Resource)>>)

Fabric_processor_ports == Read(OfEach(Collection))
Fabric_ports == Read(<<One(Fixed(Resource)), All(Collection)>>)
Fabric_port == ReadNamed(<<One(Fixed(Resource)), Among(<<Collection>>, "key")>>)
Fabric_connected_pcie_ports ==
    ReadNamed(<<Default, PCIeDevices("key"),
                All([Links EXCEPT !.absent = "raise"])>>)
\* Of a port of a resource whose URI is given.
Fabric_port_metrics ==
    Read(<<One(Fixed(Resource)), Among(<<Collection>>, "key"), One(Resource)>>)
Fabric_reset_transceivers ==
    ControlNamed(<<One(Fixed(Resource)), Among(<<Collection>>, "key")>>,
                 Request({"action"}))
Fabric_cxl_logical_devices ==
    ReadNamed(<<Default, PCIeDevices("key"), All(Collection)>>)

\* Of a port connected to a PCIe device; its links are dropped when they fail.
Fabric_port_cxl_logical_devices ==
    Read(<<Default, PCIeDevices("key"),
           Among(<<[Links EXCEPT !.absent = "raise"]>>, "key"),
           All([Links EXCEPT !.absent = "raise"])>>)

\* Cooling reads what its links name without leaving anything out.
CoolingUnits(pick) == Among(<<Place("raising")>>, pick)
Cooling_cooling_units == Read(<<Default, CoolingUnits("all")>>)
Cooling_coolant_connectors ==
    ReadNamed(<<Default, CoolingUnits("key"), All(Place("raising"))>>)
Cooling_sensors == Read(<<Default, All(Collection)>>)
Cooling_environment_metrics ==
    ReadNamed(<<Default, CoolingUnits("key"), One(Resource)>>)

-----------------------------------------------------------------------------
(* Services under the root, and the resource aliases.                       *)

Service == One(Resource)
ServiceMember == Among(<<Collection>>, "key")

Composition_collection == Read(<<Service, All(Collection)>>)
Telemetry_collection == Read(<<Service, All(Collection)>>)
Telemetry_log == Read(<<Service, One(Resource)>>)
Telemetry_log_entries == Read(<<Service, One(Resource), LogEntries>>)

\* What is created goes to the collection the service advertises.
Accounts_accounts == Read(<<Service, All(Collection)>>)
Accounts_roles == Read(<<Service, All(Collection)>>)
Accounts_add == Control(<<Service>>, Request({"action"}))
Accounts_update == ControlNamed(<<Service, ServiceMember>>, Request({}))
Accounts_delete == ControlNamed(<<Service, ServiceMember>>, Request({}))

Events_subscriptions == Read(<<Service, All(Collection)>>)
Events_subscribe == Control(<<Service>>, Request({"action"}))
Events_delete == ControlNamed(<<Service, ServiceMember>>, Request({}))
Events_submit_test_event == Control(<<Service>>, Request({"action", "inline"}))

\* A policy is validated against the service and the resource it is about.
Policies_policies == Read(<<Service, All(Collection)>>)
Policies_create == Control(<<Service>>, Request({"action", "inline", "probe"}))
Policies_update == ControlNamed(<<Service, ServiceMember>>, Request({"inline", "probe"}))
Policies_enable == ControlNamed(<<Service, ServiceMember>>, Request({}))
Policies_delete == ControlNamed(<<Service, ServiceMember>>, Request({"inline"}))

\* The inventories and certificates of the update service; the sessions; the
\* registries, which the root links to; the tasks, under a link or a known path.
Updates_inventory == Read(<<Service, All(Collection)>>)
Updates_capabilities == Read(<<Service, One(Resource)>>)
Sessions_sessions == Read(<<Service, All(Collection)>>)
Registries_registries == Read(<<All(Collection)>>)
Tasks_tasks == Read(<<One(Fixed(Resource)), All(Collection)>>)

\* The root says whether there are aliases; without an ETag the resource is
\* read first.
Aliases_get == Read(<<One(Fixed(Resource)), One(Resource)>>)
Aliases_set == Control(<<One(Fixed(Resource))>>, Request({"inline", "probe"}))
=============================================================================
