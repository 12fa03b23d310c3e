----------------------------- MODULE Discovery -----------------------------
(***************************************************************************)
(* xvc-discover: device_manager_scan lists the supported devices on the    *)
(* bus, device_manager_generate_config makes an instance of each, and      *)
(* output_ini writes them as the lines of a configuration file.            *)
(*                                                                         *)
(* A device on the bus is [serial, supported]; a serial number may be the  *)
(* empty string.                                                           *)
(***************************************************************************)
EXTENDS Config, SequencesExt

CONSTANTS
    MAX_DEVICES,        \* 32 in the code
    bus_location(_),    \* the name made from a device's place on the bus
    stripped(_)         \* what config_load keeps of a text at the end of a line: all
                        \* before a '#' or ';', without the blanks around it

ASSUME DiscoveryAssumption == MAX_DEVICES \in Nat

\* Of the devices with an FT2232H's or FT232H's ids, the first MAX_DEVICES, each
\* with its place on the bus.
device_manager_scan(bus) ==
    LET supported == {k \in DOMAIN bus : bus[k].supported}
        place(j) == CHOOSE k \in supported : Cardinality({i \in supported : i <= k}) = j
    IN [j \in 1 .. Min({MAX_DEVICES, Cardinality(supported)}) |->
            [serial |-> bus[place(j)].serial, index |-> place(j)]]

\* Mutant: the device's place on the bus instead of its serial number.
GeneratedId_bus(d) == [type |-> "BUS", value |-> bus_location(d.index)]

\* The device id of the instance made for a device.
GeneratedId(d) == IF d.serial # Empty THEN [type |-> "SN", value |-> d.serial]
                  ELSE [type |-> "BUS", value |-> bus_location(d.index)]

Header(name) == [kind |-> "header", name |-> name]
Pair(id, sub, name, value) == [kind |-> "pair", key |-> [id |-> id, sub |-> sub, name |-> name], value |-> value]
NumberValue(n) == [type |-> "number", value |-> n]
DeviceValue(id) == [type |-> "device", value |-> id]

\* A device id that was printed into a line, as it is read back from there.
Reread(id) == [type |-> id.type, value |-> stripped(id.value)]

GeneratedBufferSize == 131088

\* The two settings of each instance, instance after instance.
SettingLine(j) ==
    IF j % 2 = 1 THEN Pair((j + 1) \div 2, TRUE, "frequency", NumberValue(DEFAULT_FREQUENCY))
    ELSE Pair(j \div 2, TRUE, "xvc_buffer_size", NumberValue(GeneratedBufferSize))

\* output_ini: one line for each mapping and two for each instance's settings.
output_ini(devices, base_port) ==
    LET n == Min({MAX_INSTANCES, Len(devices)})
        mapping(k) == Pair(k, FALSE, Empty, DeviceValue(Reread(GeneratedId(devices[k]))))
    IN <<Header("instance_management"), Pair(0, FALSE, "base_port", NumberValue(base_port)), Header("instance_mappings")>>
       \o [k \in 1 .. n |-> mapping(k)]
       \o <<Header("instance_settings")>> \o [j \in 1 .. 2 * n |-> SettingLine(j)]
       \o <<Header("instance_aliases")>>
=============================================================================
