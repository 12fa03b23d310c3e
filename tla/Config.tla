------------------------------- MODULE Config -------------------------------
(***************************************************************************)
(* config.c: config_load reads a file line by line; a header selects the   *)
(* section, and a pair is taken as that section understands it.  A line is *)
(* a record: "skip" (blank, comment, no equals sign), "header" with the    *)
(* section's name, "torn" (a header without its bracket) or "pair".        *)
(*                                                                         *)
(* A pair's key is [id, sub, name]: what atoi reads at its start, whether  *)
(* it has a colon, and the name (after the colon, if any).  Its value is   *)
(* [type, value]: a number, a device id, a word, or an address with prefix.*)
(***************************************************************************)
EXTENDS Integers, Sequences

CONSTANTS
    MAX_INSTANCES,      \* 32 in the code
    MAX_ENTRIES,        \* MAX_WHITELIST_ENTRIES, 64 in the code
    Text,               \* what a key, a name or a word may be: any string
    UINT_RANGE          \* the numbers of 32 bits: 2^32 in the code

DEFAULT_BASE_PORT == 2542
DEFAULT_FREQUENCY == 30000000
DEFAULT_XVC_BUFFER_SIZE == 2048
MIN_XVC_BUFFER_SIZE == 64
MAX_XVC_BUFFER_SIZE == 536870912
DEFAULT_CLIENT_LOCK_TIMEOUT == 10

ASSUME ConfigAssumption ==
    /\ MAX_INSTANCES \in Nat \ {0} /\ MAX_ENTRIES \in Nat
    /\ UINT_RANGE \in Nat /\ UINT_RANGE > DEFAULT_FREQUENCY

Sections == {"instance_management", "instance_mappings", "instance_settings",
             "instance_aliases", "ip_whitelist_per_instance"}

parse_section(name) == IF name \in Sections THEN name ELSE "none"

Empty == ""

ASSUME TextAssumption == Sections \cup {Empty, "base_port", "frequency", "xvc_buffer_size"} \subseteq Text

\* What a line of the file may hold.
Key == [id : Int, sub : BOOLEAN, name : Text]
DeviceId == [type : {"none", "SN", "BUS", "CUSTOM", "auto"}, value : Text]
Value == [type : {"number"}, value : Int] \cup [type : {"word"}, value : Text]
         \cup [type : {"device"}, value : DeviceId]
         \cup [type : {"cidr"}, value : [net : Int, prefix : Int]]
Line == [kind : {"skip", "torn"}] \cup [kind : {"header"}, name : Text]
        \cup [kind : {"pair"}, key : Key, value : Value]

NoDevice == [type |-> "none", value |-> Empty]

\* The defaults.  The latency timer, the alias, async and jtag_mode are left out:
\* nothing but the log and the chip's latency depends on them.
config_init ==
    [base_port |-> DEFAULT_BASE_PORT, instance_count |-> 0,
     instances |-> [n \in 1 .. MAX_INSTANCES |->
        [port |-> DEFAULT_BASE_PORT + n - 1, device_id |-> NoDevice, enabled |-> FALSE,
         frequency |-> DEFAULT_FREQUENCY, xvc_buffer_size |-> DEFAULT_XVC_BUFFER_SIZE,
         client_lock_timeout |-> DEFAULT_CLIENT_LOCK_TIMEOUT,
         whitelist_mode |-> "off", whitelist |-> <<>>]]]

\* atoi and strtol read 0 where there is no number.
Number(value) == IF value.type = "number" THEN value.value ELSE 0

\* The device id of a text without a known prefix is the cleared one, whose value is
\* empty like that of auto.  The caller ignores the result.
config_parse_device_id(value) ==
    IF value.type = "device" THEN value.value ELSE NoDevice

IsInstance(id) == id \in 1 .. MAX_INSTANCES

\* "enabled" and "max_instances" are read as well, but used by nobody.
SetManagement(c, key, value) ==
    IF key = [id |-> 0, sub |-> FALSE, name |-> "base_port"]
    THEN [c EXCEPT !.base_port = Number(value)] ELSE c

\* Mutant: the instances are counted.
SetMapping_counts(c, key, value) ==
    IF IsInstance(key.id)
    THEN [c EXCEPT !.instances[key.id] = [@ EXCEPT !.enabled = TRUE,
                                                   !.port = c.base_port + key.id - 1,
                                                   !.device_id = config_parse_device_id(value)],
                   !.instance_count = IF c.instances[key.id].enabled THEN @ ELSE @ + 1]
    ELSE c

\* Any key that starts with an instance number maps that instance, a colon or not.
SetMapping(c, key, value) ==
    IF IsInstance(key.id)
    THEN [c EXCEPT !.instances[key.id] = [@ EXCEPT !.enabled = TRUE,
                                                   !.port = c.base_port + key.id - 1,
                                                   !.device_id = config_parse_device_id(value)],
                   !.instance_count = IF key.id > @ THEN key.id ELSE @]
    ELSE c

\* Mutant: the size is stored before it is clamped.
Clamp_none(size) == size

Clamp(size) == IF size < MIN_XVC_BUFFER_SIZE THEN MIN_XVC_BUFFER_SIZE
               ELSE IF size > MAX_XVC_BUFFER_SIZE THEN MAX_XVC_BUFFER_SIZE ELSE size

\* strtoul takes a sign as well; its result is stored in 32 bits.
strtoul(value) == Number(value) % UINT_RANGE

SetSetting(c, key, value) ==
    LET n == Number(value)
    IN IF ~key.sub \/ ~IsInstance(key.id) THEN c
       ELSE CASE key.name = "frequency" -> [c EXCEPT !.instances[key.id].frequency = strtoul(value)]
              [] key.name = "xvc_buffer_size" -> [c EXCEPT !.instances[key.id].xvc_buffer_size = Clamp(n)]
              [] key.name = "client_lock_timeout" ->
                   [c EXCEPT !.instances[key.id].client_lock_timeout = IF n < 0 THEN 0 ELSE n]
              [] OTHER -> c

\* A mode that is neither strict nor permissive is off; an entry past the limit is
\* dropped without a word.
SetWhitelist(c, key, value) ==
    IF ~key.sub \/ ~IsInstance(key.id) THEN c
    ELSE CASE key.name = "mode" ->
                [c EXCEPT !.instances[key.id].whitelist_mode =
                    IF value \in [type : {"word"}, value : {"strict", "permissive"}] THEN value.value ELSE "off"]
           [] key.name \in {"allow_", "block_"} /\ Len(c.instances[key.id].whitelist) < MAX_ENTRIES ->
                [c EXCEPT !.instances[key.id].whitelist =
                    Append(@, [text |-> value, block |-> key.name = "block_"])]
           [] OTHER -> c

\* One pair, in the section selected last.
Assign(c, section, key, value) ==
    CASE section = "instance_management" -> SetManagement(c, key, value)
      [] section = "instance_mappings" -> SetMapping(c, key, value)
      [] section = "instance_settings" -> SetSetting(c, key, value)
      [] section = "ip_whitelist_per_instance" -> SetWhitelist(c, key, value)
      [] OTHER -> c
=============================================================================
