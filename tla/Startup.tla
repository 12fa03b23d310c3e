------------------------------ MODULE Startup ------------------------------
(***************************************************************************)
(* From a configuration file to running instances: a file is written, by   *)
(* xvc-discover or by hand, config_load reads it, main applies the port    *)
(* option and decides what to run, and each instance loads its whitelist   *)
(* and opens its device.  Between discovery and start the devices may come *)
(* up in another order on the bus.                                         *)
(***************************************************************************)
EXTENDS Discovery, Whitelist

CONSTANTS
    Buses,          \* the orders in which devices may be found on the bus
    Files,          \* the files written by hand
    Ports           \* the values of --base-port and --port

ASSUME StartupAssumption ==
    /\ Ports \subseteq Nat \ {0}
    /\ Files \subseteq Seq(Line)
    /\ Buses \subseteq Seq([serial : Text, supported : BOOLEAN])
    /\ \A b \in Buses : \A k \in DOMAIN b :
         {bus_location(k), stripped(bus_location(k)), stripped(b[k].serial)} \subseteq Text
    /\ MAX_ENTRIES = MAX_WHITELIST_ENTRIES

VARIABLES
    bus,            \* the devices on the bus, in their order
    surveyed,       \* the bus as xvc-discover found it, when it wrote the file
    file, at,       \* the lines of the file, and the next one to read
    section,        \* the section selected last
    config,         \* g_config
    port_override,  \* the --port option, 0 without
    whitelist,      \* the list each running instance has loaded
    zero_shift,     \* what the build makes of a shift by the full width
    pc              \* "begin", "load", "start", "run" or "exit"

vars == <<bus, surveyed, file, at, section, config, port_override, whitelist, zero_shift, pc>>

Init ==
    /\ bus \in Buses /\ surveyed = <<>>
    /\ file = <<>> /\ at = 1 /\ section = "none" /\ config = config_init
    /\ port_override = 0 /\ whitelist = <<>> /\ zero_shift = 0
    /\ pc = "begin"

\* xvc-discover; without a device it writes no file.
Discover ==
    /\ pc = "begin" /\ device_manager_scan(bus) # <<>>
    /\ \E base_port \in Ports \cup {DEFAULT_BASE_PORT} :
         file' = output_ini(device_manager_scan(bus), base_port)
    /\ surveyed' = bus /\ pc' = "load"
    /\ UNCHANGED <<bus, at, section, config, port_override, whitelist, zero_shift>>

\* The operator writes a file.
WriteFile ==
    /\ pc = "begin"
    /\ file' \in Files /\ pc' = "load"
    /\ UNCHANGED <<bus, surveyed, at, section, config, port_override, whitelist, zero_shift>>

\* The devices are plugged in again, or found in another order after a reboot.
Replug ==
    /\ pc = "load" /\ at = 1 /\ surveyed # <<>> /\ bus = surveyed
    /\ bus' \in {b \in Buses : Range(b) = Range(bus)}
    /\ UNCHANGED <<surveyed, file, at, section, config, port_override, whitelist, zero_shift, pc>>

\* The file cannot be opened: main returns 1.
LoadFails ==
    /\ pc = "load" /\ at = 1
    /\ pc' = "exit"
    /\ UNCHANGED <<bus, surveyed, file, at, section, config, port_override, whitelist, zero_shift>>

\* Mutant: a header without its bracket ends the section.
NextSection_ends(line) == IF line.kind = "header" THEN parse_section(line.name)
                          ELSE IF line.kind = "torn" THEN "none" ELSE section

\* A header without its bracket is skipped: the section stays the one before.
NextSection(line) == IF line.kind = "header" THEN parse_section(line.name) ELSE section

\* config_load: one line.
ReadLine ==
    /\ pc = "load" /\ at <= Len(file)
    /\ at' = at + 1
    /\ section' = NextSection(file[at])
    /\ config' = IF file[at].kind = "pair" THEN Assign(config, section, file[at].key, file[at].value) ELSE config
    /\ UNCHANGED <<bus, surveyed, file, port_override, whitelist, zero_shift, pc>>

\* The --port option moves every instance up to the last one mapped.
Override(c, port) ==
    [c EXCEPT !.base_port = port,
              !.instances = [n \in DOMAIN @ |-> IF n <= c.instance_count THEN [@[n] EXCEPT !.port = port + n - 1] ELSE @[n]]]

LoadDone ==
    /\ pc = "load" /\ at > Len(file)
    /\ \E port \in Ports \cup {0} :
        /\ port_override' = port
        /\ config' = IF port = 0 THEN config ELSE Override(config, port)
    /\ pc' = "start"
    /\ UNCHANGED <<bus, surveyed, file, at, section, whitelist, zero_shift>>

\* daemon() fails: main returns 1.
DaemonFails ==
    /\ pc = "start"
    /\ pc' = "exit"
    /\ UNCHANGED <<bus, surveyed, file, at, section, config, port_override, whitelist, zero_shift>>

\* Instance 1 alone is run by main itself, others are forked in a loop.
Single(c) == c.instance_count = 1 /\ c.instances[1].enabled
Running(c) == IF Single(c) THEN {1} ELSE {n \in 1 .. c.instance_count : c.instances[n].enabled}

\* run_instance for each: the list is loaded whether or not all of it can be.
Start ==
    /\ pc = "start"
    /\ whitelist' = [n \in Running(config) |->
                        whitelist_load(config.instances[n].whitelist_mode, config.instances[n].whitelist)]
    /\ zero_shift' \in ZeroShifts
    /\ pc' = "run"
    /\ UNCHANGED <<bus, surveyed, file, at, section, config, port_override>>

\* The device an instance opens: the first on the bus when the id's value is empty,
\* else the one with that serial number, whatever the type of the id says.
NotOpened == "not opened"
Opened(n) ==
    LET value == config.instances[n].device_id.value
    IN IF value = Empty THEN (IF bus = <<>> THEN NotOpened ELSE bus[1].serial)
       ELSE IF \E k \in DOMAIN bus : bus[k].serial = value THEN value ELSE NotOpened

\* The instances run, or main has returned.
Settled == pc \in {"run", "exit"} /\ UNCHANGED vars

Next == Discover \/ WriteFile \/ Replug \/ LoadFails \/ ReadLine \/ LoadDone \/ DaemonFails \/ Start \/ Settled

Spec == Init /\ [][Next]_vars

-----------------------------------------------------------------------------
(* Properties. *)

\* What config_load hands over: ports and settings in the ranges that the server
\* and the protocol handler rely on, and no list longer than its array.
TypeOK ==
    /\ pc \in {"begin", "load", "start", "run", "exit"}
    /\ section \in Sections \cup {"none"} /\ at \in 1 .. Len(file) + 1
    /\ config.instance_count \in 0 .. MAX_INSTANCES
    /\ \A n \in DOMAIN config.instances : LET c == config.instances[n] IN
         /\ c.xvc_buffer_size \in MIN_XVC_BUFFER_SIZE .. MAX_XVC_BUFFER_SIZE
         /\ c.client_lock_timeout \in Nat /\ c.frequency \in Nat
         /\ Len(c.whitelist) <= MAX_ENTRIES

\* The file read as a whole: the section a line stands in, the pairs of a section,
\* and the lines that map an instance or give it a setting.
SectionOf(k) ==
    LET before == {j \in 1 .. k - 1 : file[j].kind = "header"}
    IN IF before = {} THEN "none" ELSE parse_section(file[Max(before)].name)
PairsIn(name) == {k \in DOMAIN file : file[k].kind = "pair" /\ SectionOf(k) = name}
Mappings(n) == {k \in PairsIn("instance_mappings") : file[k].key.id = n}
Settings(n, name) == {k \in PairsIn("instance_settings") : file[k].key = [id |-> n, sub |-> TRUE, name |-> name]}
Entries(n, names) == {k \in PairsIn("ip_whitelist_per_instance") :
                        file[k].key.sub /\ file[k].key.id = n /\ file[k].key.name \in names}
BasePorts == {k \in PairsIn("instance_management") : file[k].key = [id |-> 0, sub |-> FALSE, name |-> "base_port"]}

\* Line by line comes to the same as the file read as a whole: the last line for a
\* key wins, lines of other sections, out of range or unknown have no effect, and
\* a header without its bracket leaves the lines below to the section above.
LoadsAsWritten ==
    pc = "run" => \A n \in 1 .. MAX_INSTANCES :
        LET c == config.instances[n]
            last(lines, default) == IF lines = {} THEN default ELSE Number(file[Max(lines)].value)
        IN /\ c.enabled = (Mappings(n) # {})
           /\ c.enabled => c.device_id = config_parse_device_id(file[Max(Mappings(n))].value)
           /\ c.frequency = last(Settings(n, "frequency"), DEFAULT_FREQUENCY) % UINT_RANGE
           /\ Settings(n, "client_lock_timeout") # {} =>
                c.client_lock_timeout = Max({0, last(Settings(n, "client_lock_timeout"), 0)})
           /\ Len(c.whitelist) = Min({MAX_ENTRIES, Cardinality(Entries(n, {"allow_", "block_"}))})

\* Every instance that the file maps is run and no other, in single-instance mode
\* too, also when the ids have gaps or come in another order, and each on the port of
\* README.md's "instance_port = base_port + instance_id - 1": with the --port option,
\* or when the file gives its base_port before it maps an instance (config_load, main).
EveryMappingRuns ==
    pc = "run" =>
        /\ Running(config) = {n \in 1 .. MAX_INSTANCES : Mappings(n) # {}}
        /\ port_override # 0 \/ (\A n \in 1 .. MAX_INSTANCES : \A b \in BasePorts, m \in Mappings(n) : b < m) =>
             \A n \in Running(config) : config.instances[n].port = config.base_port + n - 1

\* An entry's network, as an interval of addresses.
Network(text) ==
    LET size == 2 ^ (AddrBits - PrefixLen(text))
        first == Net(text) - (Net(text) % size)
    IN first .. first + size - 1

\* The networks of an instance's list as the file gives them, on the list's one side.
Listed(n, name) ==
    UNION {Network(file[k].value) : k \in {j \in Entries(n, {name}) : Parses(file[j].value)}}

Admitted(n, ip) == whitelist_check(whitelist[n], ip, zero_shift) # "BLOCKED"

\* For a list of entries that all parse, none of them with a prefix of length 0, the
\* verdict is that of the README: a blocked address is never admitted, in strict mode
\* only an allowed one is, and the order of the lines does not matter.
VerdictAsListed ==
    pc = "run" => \A n \in Running(config) :
        LET lines == Entries(n, {"allow_", "block_"})
        IN /\ config.instances[n].whitelist_mode # "off" /\ Cardinality(lines) <= MAX_ENTRIES
           /\ \A k \in lines : Parses(file[k].value) /\ PrefixLen(file[k].value) # 0
           => \A ip \in Addresses :
                Admitted(n, ip) = (/\ ip \notin Listed(n, "block_")
                                   /\ config.instances[n].whitelist_mode = "strict" => ip \in Listed(n, "allow_"))

\* What goes wrong with a list later on takes nothing back: a block entry that parses,
\* has room and stands behind none that does not parse keeps its network out, all of
\* it, or with a prefix of length 0, whose mask the build decides, its own address
\* (config_load, whitelist_load).
BlocksInForce ==
    pc = "run" => \A n \in Running(config) : \A k \in Entries(n, {"block_"}) :
        LET upto == {j \in Entries(n, {"allow_", "block_"}) : j <= k}
            text == file[k].value
        IN /\ config.instances[n].whitelist_mode # "off" /\ Cardinality(upto) <= MAX_ENTRIES
           /\ \A j \in upto : Parses(file[j].value)
           => \A ip \in IF PrefixLen(text) = 0 THEN {Net(text)} ELSE Network(text) : ~Admitted(n, ip)

\* On the side of what is allowed, whatever goes wrong with a list, an entry that does
\* not parse, one too many, or a mask the build gets wrong: in strict mode no address
\* is admitted that the file does not allow.
StrictFailsClosed ==
    pc = "run" => \A n \in Running(config), ip \in Addresses :
        config.instances[n].whitelist_mode = "strict" /\ Admitted(n, ip) => ip \in Listed(n, "allow_")

\* A file that xvc-discover wrote gives each device with a serial number, as far as
\* there are instances for them, to an instance of its own, which opens that device
\* also when the bus is in another order by then.  A serial number that the file
\* cannot hold, with a comment sign in it or a blank at its end, is excepted.
DiscoveredIsOpened ==
    pc = "run" /\ surveyed # <<>> =>
        LET found == device_manager_scan(surveyed)
        IN \A k \in DOMAIN found : k <= MAX_INSTANCES /\ found[k].serial # Empty
                                      /\ stripped(found[k].serial) = found[k].serial =>
             k \in Running(config) /\ Opened(k) = found[k].serial
=============================================================================
