----------------------------- MODULE ClientFacade -----------------------------
(***************************************************************************)
(* RedfishClient (redfish_sdk/client.py): the public operations, by the    *)
(* name the client gives them, and the recipe of the manager each one      *)
(* delegates to; lookups the client composes itself have a recipe here.    *)
(* Operations of sessions, tasks, log collection, firmware and registries  *)
(* that do more than read are the subject of modules of their own.         *)
(***************************************************************************)
EXTENDS ManagerRecipes, TLC

\* One member of what another operation lists (select_member).
MemberOf(recipe) ==
    [recipe EXCEPT !.levels[Len(recipe.levels)].pick = "key", !.optional = FALSE]

\* A resource whose URI the caller has.
Given == Read(<<One(Fixed(Resource))>>)

-----------------------------------------------------------------------------
(* Lookups with a fallback, the walk to each place included.                *)

\* The mainboard of the system's FRU, of the chassis' FRU board, or of the
\* chassis' OEM data.
GetMainboard ==
    Read(<<FirstOf(<<Anyway(Resource), Anyway(Resource), Anyway(Resource)>>)>>)

\* A chassis without a Thermal link is an error that nothing catches.
GetFan ==
    Read(<<FirstOf(<<Anyway(Collection),
                     [Anyway(Place("embedded")) EXCEPT !.absent = "raise"]>>)>>)

\* The root, and the first system, chassis and manager.
GetOdataId ==
    Read(<<FirstOf(<<Anyway(Resource), Anyway(Resource), Anyway(Resource),
                     Anyway(Resource)>>)>>)

\* Read unless the ETag is cached; an error is the same as no ETag.
GetEtag == Read(<<FirstOf(<<Anyway(Fixed(Resource))>>)>>)

-----------------------------------------------------------------------------
(* The sections of the client.                                              *)

FabricOperations ==
    [get_processor_ports           |-> Fabric_processor_ports,
     get_ports                     |-> Fabric_ports,
     get_port                      |-> Fabric_port,
     get_connected_pcie_ports      |-> Fabric_connected_pcie_ports,
     get_port_metrics              |-> Fabric_port_metrics,
     reset_port_transceivers       |-> Fabric_reset_transceivers,
     get_cxl_logical_devices       |-> Fabric_cxl_logical_devices,
     get_port_cxl_logical_devices  |-> Fabric_port_cxl_logical_devices]

CoolingOperations ==
    [get_cooling_units        |-> Cooling_cooling_units,
     get_coolant_connectors   |-> Cooling_coolant_connectors,
     get_sensors              |-> Cooling_sensors,
     get_sensor               |-> MemberOf(Cooling_sensors),
     get_environment_metrics  |-> Cooling_environment_metrics]

ResourceOperations ==
    [get_secure_boot         |-> Resources_secure_boot,
     update_secure_boot      |-> Resources_update_secure_boot,
     reset_secure_boot_keys  |-> Resources_reset_secure_boot_keys,
     get_network_interfaces  |-> Resources_network_interfaces,
     get_network_ports       |-> Resources_network_ports,
     get_memory_domains      |-> Resources_memory_domains,
     get_memory_domain       |-> MemberOf(Resources_memory_domains),
     get_memory_chunks       |-> Resources_memory_chunks,
     get_memory_metrics      |-> Resources_memory_metrics]

CompositionOperations ==
    [get_composition_service |-> Read(<<Service>>),
     get_resource_blocks     |-> Composition_collection,
     get_resource_block      |-> MemberOf(Composition_collection)]

PolicyOperations ==
    [get_policies   |-> Policies_policies,
     get_policy     |-> MemberOf(Policies_policies),
     create_policy  |-> Policies_create,
     update_policy  |-> Policies_update,
     enable_policy  |-> Policies_enable,
     delete_policy  |-> Policies_delete]

TelemetryOperations ==
    [get_metric_reports             |-> Telemetry_collection,
     get_metric_report              |-> MemberOf(Telemetry_collection),
     get_metric_report_log          |-> Telemetry_log,
     get_metric_report_log_entries  |-> Telemetry_log_entries]

SystemReads ==
    [get_system              |-> Systems_get,
     get_systems             |-> Read(<<All(Fixed(Collection))>>),
     get_processors          |-> Systems_processors,
     get_processor           |-> MemberOf(Systems_processors),
     get_memory              |-> Systems_memory,
     get_memory_device       |-> MemberOf(Systems_memory),
     get_storages            |-> Systems_storages,
     get_volumes             |-> Systems_volumes,
     get_bios                |-> Systems_bios]

SystemLogOperations ==
    [get_system_log_services |-> Systems_log_services,
     get_system_log_entries  |-> Systems_log_entries,
     get_system_log_service  |-> Systems_log_service,
     clear_system_log        |-> Systems_clear_system_log,
     get_boot_options        |-> Systems_boot_options,
     get_boot_option         |-> Systems_boot_option,
     set_boot_option_enabled |-> Systems_set_boot_option_enabled,
     get_system_fru          |-> Systems_fru_info,
     get_pcie_device         |-> Given]

SystemControls ==
    [change_boot_source                       |-> Systems_change_boot_source,
     reset                                    |-> Systems_reset,
     graphical_console_get_one_time_url       |-> Systems_graphical_console,
     graphical_console_set_one_time_password  |-> Systems_graphical_console,
     graphical_console_set_password           |-> Systems_graphical_console]

ChassisOperations ==
    [get_default_chassis           |-> Chassis_get_default,
     get_chassis                   |-> Chassis_get,
     get_drives                    |-> Chassis_drives,
     get_drive                     |-> Given,
     drive_reset                   |-> Systems_drive_reset,
     set_indicator_led             |-> Chassis_set_indicator_led,
     set_drive_indicator_led       |-> Chassis_set_drive_indicator_led,
     set_drive_location_indicator  |-> Chassis_set_drive_location_indicator,
     get_network_adapters          |-> Chassis_network_adapters,
     get_pcie_devices              |-> Chassis_pcie_devices]

PowerAndThermalOperations ==
    [get_power                      |-> Chassis_power,
     get_power_subsystem            |-> Chassis_power_subsystem,
     get_power_supply               |-> Chassis_power_supply,
     get_power_supply_metrics       |-> Chassis_power_supply_metrics,
     get_thermal                    |-> Chassis_thermal,
     get_inlet_history_temperature  |-> Chassis_inlet_history_temperature,
     get_fru_service                |-> Chassis_fru_service]

ManagerOperations ==
    [get_default_manager      |-> Managers_get_default,
     get_manager              |-> Managers_get,
     get_serial_interfaces    |-> Managers_serial_interfaces,
     get_serial_interface     |-> Managers_serial_interface,
     update_serial_interface  |-> Managers_update_serial_interface,
     get_manager_log_services |-> Managers_log_services,
     reset_manager            |-> Managers_reset,
     get_manager_log_service  |-> Managers_log_service,
     clear_manager_log        |-> Managers_clear_log,
     get_manager_log_entries  |-> Managers_log_entries]

ManagerNetworkReads ==
    [get_network_protocol             |-> Managers_network_protocol,
     get_manager_ethernet_interfaces  |-> Managers_ethernet_interfaces,
     get_host_interfaces              |-> Managers_host_interfaces,
     get_kvm_service                  |-> Managers_kvm_service,
     get_ntp_service                  |-> Managers_get_oem_service,
     get_syslog_service               |-> Managers_get_oem_service,
     get_snmp_service                 |-> Managers_get_oem_service,
     get_lldp_service                 |-> Managers_get_oem_service,
     get_dns_service                  |-> Managers_get_oem_service]

ManagerOemReads ==
    [get_vnc_service         |-> Managers_get_oem_service,
     get_security_service    |-> Managers_get_oem_service,
     get_https_cert          |-> Managers_https_cert,
     get_https_certificates  |-> Managers_https_certificates,
     get_firewall_rules      |-> Managers_get_oem_service,
     get_sol_source          |-> Managers_get_oem_service]

VirtualMediaOperations ==
    [get_virtual_media           |-> Managers_virtual_media,
     get_virtual_media_resource  |-> Managers_virtual_media_resource,
     insert_virtual_media        |-> Managers_insert_virtual_media,
     eject_virtual_media         |-> Managers_eject_virtual_media]

AccountOperations ==
    [get_accounts    |-> Accounts_accounts,
     get_roles       |-> Accounts_roles,
     add_account     |-> Accounts_add,
     update_account  |-> Accounts_update,
     delete_account  |-> Accounts_delete]

SessionReads ==
    [get_sessions |-> Sessions_sessions, get_session |-> MemberOf(Sessions_sessions)]

EventOperations ==
    [get_subscriptions    |-> Events_subscriptions,
     get_subscription     |-> MemberOf(Events_subscriptions),
     subscribe            |-> Events_subscribe,
     delete_subscription  |-> Events_delete,
     get_event_service    |-> Read(<<Service>>),
     submit_test_event    |-> Events_submit_test_event]

UpdateReads ==
    [get_firmware_inventory           |-> Updates_inventory,
     get_software_inventory           |-> Updates_inventory,
     get_update_service_capabilities  |-> Updates_capabilities,
     get_client_certificates          |-> Updates_inventory]

RegistryReads ==
    [get_registries |-> Registries_registries,
     get_registry   |-> MemberOf(Registries_registries)]

AliasOperations ==
    [get_resource_by_alias  |-> Aliases_get,
     set_resource_alias     |-> Aliases_set,
     clear_resource_alias   |-> Aliases_set]

LookupOperations ==
    [get_tasks           |-> Tasks_tasks,
     get_baseboard_fru   |-> Chassis_fru_service_board,
     get_mainboard       |-> GetMainboard,
     get_fan             |-> GetFan,
     get_power_supplies  |-> Chassis_power_supplies,
     get_manufacturer    |-> Systems_get,
     get_etag            |-> GetEtag,
     get_odata_id        |-> GetOdataId]

-----------------------------------------------------------------------------
ClientRecipe ==
    FabricOperations @@ CoolingOperations @@ ResourceOperations
    @@ CompositionOperations @@ PolicyOperations @@ TelemetryOperations
    @@ SystemReads @@ SystemLogOperations @@ SystemControls
    @@ ChassisOperations @@ PowerAndThermalOperations
    @@ ManagerOperations @@ ManagerNetworkReads @@ ManagerOemReads
    @@ VirtualMediaOperations @@ AccountOperations @@ SessionReads
    @@ EventOperations @@ UpdateReads @@ RegistryReads @@ AliasOperations
    @@ LookupOperations
=============================================================================
