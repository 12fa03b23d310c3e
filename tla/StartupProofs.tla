--------------------------- MODULE StartupProofs ---------------------------
(***************************************************************************)
(* Proofs about Startup: what config_load makes of any file, line by line, *)
(* is what the file says when it is read as a whole; which instances run,  *)
(* on which ports, with which lists and which devices follows from that.   *)
(***************************************************************************)
EXTENDS Startup, TLAPS, FiniteSetTheorems, SequenceTheorems, WellFoundedInduction

-----------------------------------------------------------------------------
(* The inductive invariant. *)

BufferSizes == MIN_XVC_BUFFER_SIZE .. MAX_XVC_BUFFER_SIZE
Entry == [text : Value, block : BOOLEAN]
InstanceConfig ==
    [port : Int, device_id : DeviceId, enabled : BOOLEAN, frequency : Nat, xvc_buffer_size : BufferSizes,
     client_lock_timeout : Nat, whitelist_mode : {"off", "strict", "permissive"}, whitelist : Seq(Entry)]
Configs == [base_port : Int, instance_count : 0 .. MAX_INSTANCES, instances : [1 .. MAX_INSTANCES -> InstanceConfig]]

\* The lines of a set that have been read before line k.
Upto(lines, k) == {j \in lines : j < k}

LastNumber(lines, default) == IF lines = {} THEN default ELSE Number(file[Max(lines)].value)

\* What the lines read so far say of instance n.
Mapped(n) ==
    LET read == Upto(Mappings(n), at)
    IN /\ config.instances[n].enabled = (read # {})
       /\ read # {} => /\ config.instances[n].device_id = config_parse_device_id(file[Max(read)].value)
                       /\ n <= config.instance_count

Frequency(n) ==
    config.instances[n].frequency = LastNumber(Upto(Settings(n, "frequency"), at), DEFAULT_FREQUENCY) % UINT_RANGE

LockTimeout(n) ==
    LET read == Upto(Settings(n, "client_lock_timeout"), at)
    IN read # {} => config.instances[n].client_lock_timeout = Max({0, LastNumber(read, 0)})

EntryOf(line) == [text |-> line.value, block |-> line.key.name = "block_"]
ListLines(n) == Entries(n, {"allow_", "block_"})

\* The list holds an entry for each of a set of lines, as far as there is room.
Holds(list, lines, text) ==
    /\ Len(list) = Min({MAX_ENTRIES, Cardinality(lines)})
    /\ \A i \in 1 .. Len(list) : \E k \in lines : list[i] = EntryOf(text[k])
    /\ Cardinality(lines) <= MAX_ENTRIES => \A k \in lines : \E i \in 1 .. Len(list) : list[i] = EntryOf(text[k])

Whitelisted(n) == Holds(config.instances[n].whitelist, Upto(ListLines(n), at), file)

\* The number of instances is the largest id mapped.
Counted == config.instance_count # 0 => config.instances[config.instance_count].enabled

BasePortFirst == \A n \in 1 .. MAX_INSTANCES : \A b \in BasePorts, m \in Mappings(n) : b < m

PortsFollow ==
    port_override # 0 \/ BasePortFirst =>
        \A n \in 1 .. MAX_INSTANCES : config.instances[n].enabled =>
            config.instances[n].port = config.base_port + n - 1

\* No line has been read.
AtFirst == file \in Seq(Line) /\ at = 1 /\ section = "none" /\ config = config_init /\ port_override = 0

\* The file and the place in it.
Placed ==
    /\ pc \in {"begin", "load", "start", "run", "exit"}
    /\ file \in Seq(Line) /\ at \in 1 .. Len(file) + 1 /\ section = SectionOf(at)
    /\ pc = "begin" => AtFirst
    /\ pc \in {"begin", "load"} => port_override = 0
    /\ pc \in {"start", "run"} => at = Len(file) + 1

\* The file that xvc-discover wrote, and the bus since.
Surveyed ==
    /\ bus \in Buses
    /\ pc = "begin" => surveyed = <<>>
    /\ surveyed # <<>> =>
         /\ surveyed \in Buses /\ Range(bus) = Range(surveyed)
         /\ \E p \in Ports \cup {DEFAULT_BASE_PORT} : file = output_ini(device_manager_scan(surveyed), p)

ListsLoaded ==
    pc = "run" =>
        /\ zero_shift \in ZeroShifts
        /\ whitelist = [n \in Running(config) |->
                whitelist_load(config.instances[n].whitelist_mode, config.instances[n].whitelist)]

Loaded ==
    /\ \A n \in 1 .. MAX_INSTANCES : Mapped(n) /\ Frequency(n) /\ LockTimeout(n) /\ Whitelisted(n)
    /\ Counted /\ PortsFollow

IInv == Placed /\ config \in Configs /\ Loaded /\ Surveyed /\ ListsLoaded

-----------------------------------------------------------------------------
(* Lines and the values on them. *)

\* The largest of a set of lines with a later line added is that line.
LEMMA LaterIsMax ==
    ASSUME NEW lines \in SUBSET Int, NEW k \in Int, \A j \in lines : j < k
    PROVE  Max(lines \cup {k}) = k
<1> DEFINE all == lines \cup {k}
<1>1. k \in all /\ \A y \in all : k >= y
  OBVIOUS
<1>2. \A x \in all : (\A y \in all : x >= y) => x = k
  OBVIOUS
<1> QED BY <1>1, <1>2 DEF Max

\* The lines up to the next place: the same, and the line between if it is one of them.
LEMMA UptoNext ==
    ASSUME NEW lines \in SUBSET Int, NEW k \in Int
    PROVE  /\ k \in lines => Upto(lines, k + 1) = Upto(lines, k) \cup {k}
           /\ k \notin lines => Upto(lines, k + 1) = Upto(lines, k)
<1>1. \A j \in lines : j < k + 1 <=> j < k \/ j = k
  OBVIOUS
<1>2. ASSUME NEW j, k \in lines PROVE j \in Upto(lines, k + 1) <=> j \in Upto(lines, k) \cup {k}
  BY <1>1, <1>2 DEF Upto
<1>3. ASSUME NEW j, k \notin lines PROVE j \in Upto(lines, k + 1) <=> j \in Upto(lines, k)
  BY <1>1, <1>3 DEF Upto
<1> QED BY <1>2, <1>3

LEMMA NumberType ==
    ASSUME NEW value \in Value
    PROVE  Number(value) \in Int
BY DEF Number, Value

LEMMA DeviceIdType ==
    ASSUME NEW value \in Value
    PROVE  config_parse_device_id(value) \in DeviceId
<1>1. NoDevice \in DeviceId BY TextAssumption DEF NoDevice, DeviceId
<1>2. value.type = "device" => value.value \in DeviceId BY DEF Value
<1> QED BY <1>1, <1>2 DEF config_parse_device_id

LEMMA ClampType ==
    ASSUME NEW n \in Int
    PROVE  Clamp(n) \in BufferSizes
<1>1. MIN_XVC_BUFFER_SIZE \in Int /\ MAX_XVC_BUFFER_SIZE \in Int /\ MIN_XVC_BUFFER_SIZE <= MAX_XVC_BUFFER_SIZE
  BY SMT DEF MIN_XVC_BUFFER_SIZE, MAX_XVC_BUFFER_SIZE
<1> QED BY <1>1 DEF Clamp, BufferSizes

LEMMA FrequencyType ==
    ASSUME NEW value \in Value
    PROVE  strtoul(value) \in Nat
<1> DEFINE n == Number(value)
<1>1. n \in Int BY NumberType
<1>2. UINT_RANGE \in Nat /\ UINT_RANGE > 0
  BY SMT, ConfigAssumption DEF DEFAULT_FREQUENCY
<1> HIDE DEF n
<1>3. (n % UINT_RANGE) \in Nat BY <1>1, <1>2
<1> QED BY <1>3 DEF strtoul, n

LEMMA ConfigFields ==
    ASSUME NEW c \in Configs, NEW n \in 1 .. MAX_INSTANCES
    PROVE  /\ n \in Int /\ c.base_port \in Int /\ c.instance_count \in Int /\ c.instance_count >= 0
           /\ c.instance_count <= MAX_INSTANCES /\ c.instances[n] \in InstanceConfig
           /\ c.instances[n].enabled \in BOOLEAN /\ c.instances[n].port \in Int
           /\ c.instances[n].whitelist \in Seq(Entry)
<1>1. MAX_INSTANCES \in Nat BY ConfigAssumption
<1>2. /\ c.base_port \in Int /\ c.instance_count \in 0 .. MAX_INSTANCES
      /\ c.instances[n] \in InstanceConfig
  BY DEF Configs
<1>3. /\ c.instances[n].enabled \in BOOLEAN /\ c.instances[n].port \in Int
      /\ c.instances[n].whitelist \in Seq(Entry)
  BY <1>2 DEF InstanceConfig
<1> QED BY <1>1, <1>2, <1>3

\* config_init hands out a configuration within its types.
LEMMA InitTyped == config_init \in Configs
<1>1. DEFAULT_XVC_BUFFER_SIZE \in BufferSizes
  <2>1. /\ MIN_XVC_BUFFER_SIZE \in Int /\ MAX_XVC_BUFFER_SIZE \in Int /\ DEFAULT_XVC_BUFFER_SIZE \in Int
        /\ MIN_XVC_BUFFER_SIZE <= DEFAULT_XVC_BUFFER_SIZE /\ DEFAULT_XVC_BUFFER_SIZE <= MAX_XVC_BUFFER_SIZE
    BY SMT DEF MIN_XVC_BUFFER_SIZE, MAX_XVC_BUFFER_SIZE, DEFAULT_XVC_BUFFER_SIZE
  <2> QED BY <2>1 DEF BufferSizes
<1>2. DEFAULT_FREQUENCY \in Nat /\ DEFAULT_CLIENT_LOCK_TIMEOUT \in Nat /\ DEFAULT_BASE_PORT \in Int
  BY SMT DEF DEFAULT_FREQUENCY, DEFAULT_CLIENT_LOCK_TIMEOUT, DEFAULT_BASE_PORT
<1>3. NoDevice \in DeviceId BY TextAssumption DEF NoDevice, DeviceId
<1>4. \A n \in 1 .. MAX_INSTANCES : DEFAULT_BASE_PORT + n - 1 \in Int
  BY <1>2, ConfigAssumption
<1>5. <<>> \in Seq(Entry) OBVIOUS
<1>6. 0 \in 0 .. MAX_INSTANCES BY ConfigAssumption
<1> QED BY <1>1, <1>2, <1>3, <1>4, <1>5, <1>6 DEF config_init, Configs, InstanceConfig

-----------------------------------------------------------------------------
(* What each section does to a configuration. *)

LEMMA SetManagementType ==
    ASSUME NEW c \in Configs, NEW key \in Key, NEW value \in Value
    PROVE  /\ SetManagement(c, key, value) \in Configs
           /\ SetManagement(c, key, value).instances = c.instances
           /\ SetManagement(c, key, value).instance_count = c.instance_count
           /\ key # [id |-> 0, sub |-> FALSE, name |-> "base_port"] => SetManagement(c, key, value) = c
BY NumberType DEF SetManagement, Configs

LEMMA SetMappingType ==
    ASSUME NEW c \in Configs, NEW key \in Key, NEW value \in Value,
           NEW d, d = SetMapping(c, key, value)
    PROVE  /\ d \in Configs /\ d.base_port = c.base_port
           /\ ~IsInstance(key.id) => d = c
           /\ IsInstance(key.id) =>
                /\ d.instance_count = IF key.id > c.instance_count THEN key.id ELSE c.instance_count
                /\ d.instances[key.id].enabled
                /\ d.instances[key.id].port = c.base_port + key.id - 1
                /\ d.instances[key.id].device_id = config_parse_device_id(value)
           /\ \A n \in 1 .. MAX_INSTANCES :
                /\ n # key.id => d.instances[n] = c.instances[n]
                /\ d.instances[n].frequency = c.instances[n].frequency
                /\ d.instances[n].client_lock_timeout = c.instances[n].client_lock_timeout
                /\ d.instances[n].whitelist = c.instances[n].whitelist
<1>1. CASE ~IsInstance(key.id)
  BY <1>1 DEF SetMapping, IsInstance
<1>2. CASE IsInstance(key.id)
  <2> DEFINE i == key.id
             old == c.instances[i]
             new == [old EXCEPT !.enabled = TRUE, !.port = c.base_port + i - 1,
                                !.device_id = config_parse_device_id(value)]
  <2>1. i \in 1 .. MAX_INSTANCES /\ i \in Int /\ MAX_INSTANCES \in Nat
    BY <1>2, ConfigAssumption DEF IsInstance
  <2>2. old \in InstanceConfig /\ c.base_port \in Int /\ c.instance_count \in 0 .. MAX_INSTANCES
    BY <2>1 DEF Configs
  <2>3. new \in InstanceConfig
    <3> DEFINE a == [old EXCEPT !.enabled = TRUE]
               b == [a EXCEPT !.port = c.base_port + i - 1]
    <3>1. a \in InstanceConfig
      BY <2>2 DEF InstanceConfig
    <3>2. c.base_port + i - 1 \in Int
      BY <2>1, <2>2
    <3> HIDE DEF a
    <3>3. b \in InstanceConfig
      BY <3>1, <3>2 DEF InstanceConfig
    <3> HIDE DEF b
    <3>4. [b EXCEPT !.device_id = config_parse_device_id(value)] \in InstanceConfig
      <4>1. config_parse_device_id(value) \in DeviceId BY DeviceIdType
      <4> QED BY <3>3, <4>1 DEF InstanceConfig
    <3> QED BY <3>4 DEF b, a
  <2>4. /\ new.enabled /\ new.port = c.base_port + i - 1
        /\ new.device_id = config_parse_device_id(value)
        /\ new.frequency = old.frequency /\ new.client_lock_timeout = old.client_lock_timeout
        /\ new.whitelist = old.whitelist
    BY <2>2 DEF InstanceConfig
  <2>5. d = [c EXCEPT !.instances[i] = new,
                      !.instance_count = IF i > c.instance_count THEN i ELSE c.instance_count]
    BY <1>2, <2>1 DEF SetMapping, Configs
  <2> HIDE DEF old, new
  <2>6. /\ d.base_port = c.base_port
        /\ d.instance_count = IF i > c.instance_count THEN i ELSE c.instance_count
        /\ d.instances = [c.instances EXCEPT ![i] = new]
    BY <2>5 DEF Configs
  <2>7. d \in Configs
    <3> DEFINE count == IF i > c.instance_count THEN i ELSE c.instance_count
               table == [c.instances EXCEPT ![i] = new]
    <3>1. count \in 0 .. MAX_INSTANCES
      BY <2>1, <2>2
    <3>2. table \in [1 .. MAX_INSTANCES -> InstanceConfig]
      BY <2>1, <2>3 DEF Configs
    <3>3. d = [[c EXCEPT !.instances = table] EXCEPT !.instance_count = count]
      BY <2>5 DEF Configs
    <3> HIDE DEF count, table
    <3> QED BY <3>1, <3>2, <3>3 DEF Configs
  <2>8. \A n \in 1 .. MAX_INSTANCES : d.instances[n] = IF n = i THEN new ELSE c.instances[n]
    BY <2>1, <2>6 DEF Configs
  <2> QED BY <1>2, <2>1, <2>4, <2>6, <2>7, <2>8 DEF old
<1> QED BY <1>1, <1>2

LEMMA SetSettingType ==
    ASSUME NEW c \in Configs, NEW key \in Key, NEW value \in Value,
           NEW d, d = SetSetting(c, key, value)
    PROVE  /\ d \in Configs /\ d.base_port = c.base_port /\ d.instance_count = c.instance_count
           /\ \A n \in 1 .. MAX_INSTANCES :
                /\ d.instances[n].enabled = c.instances[n].enabled
                /\ d.instances[n].port = c.instances[n].port
                /\ d.instances[n].device_id = c.instances[n].device_id
                /\ d.instances[n].whitelist = c.instances[n].whitelist
                /\ d.instances[n].frequency =
                     IF key = [id |-> n, sub |-> TRUE, name |-> "frequency"] THEN strtoul(value)
                     ELSE c.instances[n].frequency
                /\ d.instances[n].client_lock_timeout =
                     IF key = [id |-> n, sub |-> TRUE, name |-> "client_lock_timeout"]
                     THEN (IF Number(value) < 0 THEN 0 ELSE Number(value))
                     ELSE c.instances[n].client_lock_timeout
<1> DEFINE i == key.id
           old == c.instances[i]
           x == Number(value)
           lock == IF x < 0 THEN 0 ELSE x
           size == Clamp(x)
           freq == strtoul(value)
<1>0. /\ i \in Int /\ key.sub \in BOOLEAN /\ key.name \in Text
      /\ key = [id |-> i, sub |-> key.sub, name |-> key.name]
  BY DEF Key
<1>1. /\ x \in Int /\ lock \in Nat /\ size \in BufferSizes /\ freq \in Nat
  BY NumberType, ClampType, FrequencyType
<1>2. c.instances \in [1 .. MAX_INSTANCES -> InstanceConfig] BY DEF Configs
<1>3. CASE ~key.sub \/ ~IsInstance(key.id)
  BY <1>0, <1>3 DEF SetSetting, IsInstance
<1>4. CASE key.sub /\ IsInstance(key.id)
  <2>1. i \in 1 .. MAX_INSTANCES /\ old \in InstanceConfig
    BY <1>2, <1>4 DEF IsInstance
  <2>2. CASE key.name = "frequency"
    <3> DEFINE new == [old EXCEPT !.frequency = freq]
    <3>1. d = [c EXCEPT !.instances[i] = new]
      BY <1>4, <2>2 DEF SetSetting
    <3>2. /\ new \in InstanceConfig /\ new.frequency = freq
          /\ new.enabled = old.enabled /\ new.port = old.port /\ new.device_id = old.device_id
          /\ new.client_lock_timeout = old.client_lock_timeout /\ new.whitelist = old.whitelist
      BY <1>1, <2>1 DEF InstanceConfig
    <3> HIDE DEF new, freq
    <3>3. d \in Configs /\ d.base_port = c.base_port /\ d.instance_count = c.instance_count
      BY <2>1, <3>1, <3>2 DEF Configs
    <3>4. \A n \in 1 .. MAX_INSTANCES : d.instances[n] = IF n = i THEN new ELSE c.instances[n]
      BY <2>1, <3>1 DEF Configs
    <3> QED BY <1>0, <1>4, <2>2, <3>2, <3>3, <3>4 DEF freq
  <2>3. CASE key.name = "xvc_buffer_size"
    <3> DEFINE new == [old EXCEPT !.xvc_buffer_size = size]
    <3>1. d = [c EXCEPT !.instances[i] = new]
      BY <1>4, <2>3 DEF SetSetting
    <3>2. /\ new \in InstanceConfig /\ new.frequency = old.frequency
          /\ new.enabled = old.enabled /\ new.port = old.port /\ new.device_id = old.device_id
          /\ new.client_lock_timeout = old.client_lock_timeout /\ new.whitelist = old.whitelist
      BY <1>1, <2>1 DEF InstanceConfig
    <3> HIDE DEF new, size
    <3>3. d \in Configs /\ d.base_port = c.base_port /\ d.instance_count = c.instance_count
      BY <2>1, <3>1, <3>2 DEF Configs
    <3>4. \A n \in 1 .. MAX_INSTANCES : d.instances[n] = IF n = i THEN new ELSE c.instances[n]
      BY <2>1, <3>1 DEF Configs
    <3> QED BY <1>0, <1>4, <2>3, <3>2, <3>3, <3>4
  <2>4. CASE key.name = "client_lock_timeout"
    <3> DEFINE new == [old EXCEPT !.client_lock_timeout = lock]
    <3>1. d = [c EXCEPT !.instances[i] = new]
      BY <1>4, <2>4 DEF SetSetting
    <3>2. /\ new \in InstanceConfig /\ new.frequency = old.frequency
          /\ new.enabled = old.enabled /\ new.port = old.port /\ new.device_id = old.device_id
          /\ new.client_lock_timeout = lock /\ new.whitelist = old.whitelist
      BY <1>1, <2>1 DEF InstanceConfig
    <3> HIDE DEF new
    <3>3. d \in Configs /\ d.base_port = c.base_port /\ d.instance_count = c.instance_count
      BY <2>1, <3>1, <3>2 DEF Configs
    <3>4. \A n \in 1 .. MAX_INSTANCES : d.instances[n] = IF n = i THEN new ELSE c.instances[n]
      BY <2>1, <3>1 DEF Configs
    <3> QED BY <1>0, <1>4, <2>4, <3>2, <3>3, <3>4
  <2>5. CASE key.name \notin {"frequency", "xvc_buffer_size", "client_lock_timeout"}
    <3>1. d = c BY <1>4, <2>5 DEF SetSetting
    <3> QED BY <1>0, <2>5, <3>1
  <2> QED BY <2>2, <2>3, <2>4, <2>5
<1> QED BY <1>0, <1>3, <1>4

LEMMA SetWhitelistType ==
    ASSUME NEW c \in Configs, NEW key \in Key, NEW value \in Value,
           NEW d, d = SetWhitelist(c, key, value)
    PROVE  /\ d \in Configs /\ d.base_port = c.base_port /\ d.instance_count = c.instance_count
           /\ \A n \in 1 .. MAX_INSTANCES :
                /\ d.instances[n].enabled = c.instances[n].enabled
                /\ d.instances[n].port = c.instances[n].port
                /\ d.instances[n].device_id = c.instances[n].device_id
                /\ d.instances[n].frequency = c.instances[n].frequency
                /\ d.instances[n].client_lock_timeout = c.instances[n].client_lock_timeout
                /\ d.instances[n].whitelist =
                     IF /\ key.sub /\ key.id = n /\ key.name \in {"allow_", "block_"}
                        /\ Len(c.instances[n].whitelist) < MAX_ENTRIES
                     THEN Append(c.instances[n].whitelist, [text |-> value, block |-> key.name = "block_"])
                     ELSE c.instances[n].whitelist
<1> DEFINE i == key.id
           old == c.instances[i]
           entry == [text |-> value, block |-> key.name = "block_"]
           mode == IF value \in [type : {"word"}, value : {"strict", "permissive"}] THEN value.value ELSE "off"
<1>0. i \in Int /\ key.sub \in BOOLEAN BY DEF Key
<1>1. entry \in Entry BY DEF Entry
<1>2. c.instances \in [1 .. MAX_INSTANCES -> InstanceConfig] BY DEF Configs
<1>3. CASE ~key.sub \/ ~IsInstance(key.id)
  BY <1>0, <1>3 DEF SetWhitelist, IsInstance
<1>4. CASE key.sub /\ IsInstance(key.id)
  <2>1. i \in 1 .. MAX_INSTANCES /\ old \in InstanceConfig
    BY <1>2, <1>4 DEF IsInstance
  <2>2. CASE key.name = "mode"
    <3> DEFINE new == [old EXCEPT !.whitelist_mode = mode]
    <3>0. mode \in {"off", "strict", "permissive"}
      OBVIOUS
    <3>1. d = [c EXCEPT !.instances[i] = new]
      BY <1>4, <2>2 DEF SetWhitelist
    <3> HIDE DEF mode
    <3>2. /\ new \in InstanceConfig /\ new.frequency = old.frequency
          /\ new.enabled = old.enabled /\ new.port = old.port /\ new.device_id = old.device_id
          /\ new.client_lock_timeout = old.client_lock_timeout /\ new.whitelist = old.whitelist
      BY <2>1, <3>0 DEF InstanceConfig
    <3> HIDE DEF new
    <3>3. d \in Configs /\ d.base_port = c.base_port /\ d.instance_count = c.instance_count
      BY <2>1, <3>1, <3>2 DEF Configs
    <3>4. \A n \in 1 .. MAX_INSTANCES : d.instances[n] = IF n = i THEN new ELSE c.instances[n]
      BY <2>1, <3>1 DEF Configs
    <3> QED BY <1>0, <1>4, <2>2, <3>2, <3>3, <3>4
  <2>3. CASE key.name \in {"allow_", "block_"} /\ Len(old.whitelist) < MAX_ENTRIES
    <3> DEFINE list == Append(old.whitelist, entry)
               new == [old EXCEPT !.whitelist = list]
    <3>0. list \in Seq(Entry)
      BY <1>1, <2>1 DEF InstanceConfig
    <3>1. d = [c EXCEPT !.instances[i] = new]
      BY <1>4, <2>3 DEF SetWhitelist
    <3> HIDE DEF list
    <3>2. /\ new \in InstanceConfig /\ new.frequency = old.frequency
          /\ new.enabled = old.enabled /\ new.port = old.port /\ new.device_id = old.device_id
          /\ new.client_lock_timeout = old.client_lock_timeout /\ new.whitelist = list
      BY <2>1, <3>0 DEF InstanceConfig
    <3> HIDE DEF new
    <3>3. d \in Configs /\ d.base_port = c.base_port /\ d.instance_count = c.instance_count
      BY <2>1, <3>1, <3>2 DEF Configs
    <3>4. \A n \in 1 .. MAX_INSTANCES : d.instances[n] = IF n = i THEN new ELSE c.instances[n]
      BY <2>1, <3>1 DEF Configs
    <3> QED BY <1>0, <1>4, <2>3, <3>2, <3>3, <3>4 DEF list
  <2>4. CASE key.name # "mode" /\ ~(key.name \in {"allow_", "block_"} /\ Len(old.whitelist) < MAX_ENTRIES)
    <3>1. d = c BY <1>4, <2>4 DEF SetWhitelist
    <3> QED BY <1>0, <2>4, <3>1
  <2> QED BY <2>2, <2>3, <2>4
<1> QED BY <1>0, <1>3, <1>4

\* One pair: what it changes, as the section and the key decide.
Effect(c, s, key, value, d) ==
    /\ d \in Configs
    /\ ~(s = "instance_management" /\ key = [id |-> 0, sub |-> FALSE, name |-> "base_port"])
         => d.base_port = c.base_port
    /\ d.instance_count = IF s = "instance_mappings" /\ IsInstance(key.id) /\ key.id > c.instance_count
                          THEN key.id ELSE c.instance_count
    /\ \A n \in 1 .. MAX_INSTANCES :
         /\ IF s = "instance_mappings" /\ key.id = n
            THEN /\ d.instances[n].enabled
                 /\ d.instances[n].port = c.base_port + n - 1
                 /\ d.instances[n].device_id = config_parse_device_id(value)
            ELSE /\ d.instances[n].enabled = c.instances[n].enabled
                 /\ d.instances[n].port = c.instances[n].port
                 /\ d.instances[n].device_id = c.instances[n].device_id
         /\ d.instances[n].frequency =
              IF s = "instance_settings" /\ key = [id |-> n, sub |-> TRUE, name |-> "frequency"]
              THEN strtoul(value) ELSE c.instances[n].frequency
         /\ d.instances[n].client_lock_timeout =
              IF s = "instance_settings" /\ key = [id |-> n, sub |-> TRUE, name |-> "client_lock_timeout"]
              THEN (IF Number(value) < 0 THEN 0 ELSE Number(value))
              ELSE c.instances[n].client_lock_timeout
         /\ d.instances[n].whitelist =
              IF /\ s = "ip_whitelist_per_instance"
                 /\ key.sub /\ key.id = n /\ key.name \in {"allow_", "block_"}
                 /\ Len(c.instances[n].whitelist) < MAX_ENTRIES
              THEN Append(c.instances[n].whitelist, [text |-> value, block |-> key.name = "block_"])
              ELSE c.instances[n].whitelist

LEMMA AssignEffect ==
    ASSUME NEW c \in Configs, NEW s, NEW key \in Key, NEW value \in Value,
           NEW d, d = Assign(c, s, key, value)
    PROVE  Effect(c, s, key, value, d)
<1>1. CASE s = "instance_management"
  <2>1. d = SetManagement(c, key, value) BY <1>1 DEF Assign
  <2>2. d \in Configs /\ d.instances = c.instances /\ d.instance_count = c.instance_count
    BY <2>1, SetManagementType
  <2>3. key # [id |-> 0, sub |-> FALSE, name |-> "base_port"] => d = c
    BY <2>1, SetManagementType
  <2> QED BY <1>1, <2>2, <2>3 DEF Effect
<1>2. CASE s = "instance_mappings"
  <2>1. d = SetMapping(c, key, value) BY <1>2 DEF Assign
  <2>2. /\ d \in Configs /\ d.base_port = c.base_port
        /\ ~IsInstance(key.id) => d = c
        /\ IsInstance(key.id) =>
             /\ d.instance_count = IF key.id > c.instance_count THEN key.id ELSE c.instance_count
             /\ d.instances[key.id].enabled
             /\ d.instances[key.id].port = c.base_port + key.id - 1
             /\ d.instances[key.id].device_id = config_parse_device_id(value)
    BY <2>1, SetMappingType
  <2>3. \A n \in 1 .. MAX_INSTANCES :
          /\ n # key.id => d.instances[n] = c.instances[n]
          /\ d.instances[n].frequency = c.instances[n].frequency
          /\ d.instances[n].client_lock_timeout = c.instances[n].client_lock_timeout
          /\ d.instances[n].whitelist = c.instances[n].whitelist
    BY <2>1, SetMappingType
  <2>4. \A n \in 1 .. MAX_INSTANCES : key.id = n => IsInstance(key.id) BY DEF IsInstance
  <2> QED BY <1>2, <2>2, <2>3, <2>4 DEF Effect
<1>3. CASE s = "instance_settings"
  <2>1. d = SetSetting(c, key, value) BY <1>3 DEF Assign
  <2> QED BY <1>3, <2>1, SetSettingType DEF Effect
<1>4. CASE s = "ip_whitelist_per_instance"
  <2>1. d = SetWhitelist(c, key, value) BY <1>4 DEF Assign
  <2> QED BY <1>4, <2>1, SetWhitelistType DEF Effect
<1>5. CASE s \notin {"instance_management", "instance_mappings", "instance_settings", "ip_whitelist_per_instance"}
  <2>1. d = c BY <1>5 DEF Assign
  <2> QED BY <1>5, <2>1 DEF Effect
<1> QED BY <1>1, <1>2, <1>3, <1>4, <1>5

-----------------------------------------------------------------------------
(* One line read. *)

\* What the file says as a whole depends on the file alone.
LEMMA SameFile ==
    ASSUME file' = file
    PROVE  /\ \A k : SectionOf(k)' = SectionOf(k)
           /\ \A n : Mappings(n)' = Mappings(n) /\ ListLines(n)' = ListLines(n)
           /\ \A n, name : Settings(n, name)' = Settings(n, name)
           /\ BasePorts' = BasePorts
           /\ \A lines, default : LastNumber(lines, default)' = LastNumber(lines, default)
<1>1. \A k : SectionOf(k)' = SectionOf(k) BY DEF SectionOf
<1>2. \A name : PairsIn(name)' = PairsIn(name) BY <1>1 DEF PairsIn
<1> QED BY <1>1, <1>2 DEF Mappings, Settings, Entries, ListLines, BasePorts, LastNumber

\* The sets of lines are sets of places in the file.
LEMMA LinesInFile ==
    ASSUME file \in Seq(Line)
    PROVE  /\ \A n : Mappings(n) \in SUBSET Int /\ ListLines(n) \in SUBSET Int
           /\ \A n, name : Settings(n, name) \in SUBSET Int
           /\ \A n : ListLines(n) \in SUBSET (1 .. Len(file)) /\ Mappings(n) \in SUBSET (1 .. Len(file))
           /\ \A n, name : Settings(n, name) \in SUBSET (1 .. Len(file))
           /\ BasePorts \in SUBSET (1 .. Len(file))
<1>1. DOMAIN file = 1 .. Len(file) /\ Len(file) \in Nat OBVIOUS
<1>2. \A name : PairsIn(name) \in SUBSET (1 .. Len(file)) BY <1>1 DEF PairsIn
<1>3. 1 .. Len(file) \subseteq Int BY <1>1
<1> QED BY <1>2, <1>3 DEF Mappings, Settings, Entries, ListLines, BasePorts

LEMMA PairFields ==
    ASSUME NEW line \in Line
    PROVE  /\ line.kind = "pair" => line.key \in Key /\ line.value \in Value
           /\ line.kind = "header" => line.name \in Text
BY DEF Line

\* The section that line by line has been selected is the one the next line stands in.
LEMMA SectionNext ==
    ASSUME NEW k \in Int, k >= 1
    PROVE  SectionOf(k + 1) = IF file[k].kind = "header" THEN parse_section(file[k].name) ELSE SectionOf(k)
<1> DEFINE headers(j) == {i \in 1 .. j - 1 : file[i].kind = "header"}
<1>1. \A i : i \in 1 .. (k + 1) - 1 <=> i \in 1 .. k - 1 \/ i = k
  OBVIOUS
<1>2. CASE file[k].kind = "header"
  <2>1. \A i : i \in headers(k + 1) <=> i \in headers(k) \cup {k}
    BY <1>1, <1>2
  <2>2. headers(k + 1) = headers(k) \cup {k} BY <2>1
  <2>3. headers(k) \in SUBSET Int /\ \A j \in headers(k) : j < k OBVIOUS
  <2> HIDE DEF headers
  <2>4. Max(headers(k + 1)) = k BY <2>2, <2>3, LaterIsMax
  <2>5. headers(k + 1) # {} BY <2>2
  <2> QED BY <1>2, <2>4, <2>5 DEF SectionOf, headers
<1>3. CASE file[k].kind # "header"
  <2>1. \A i : i \in headers(k + 1) <=> i \in headers(k)
    BY <1>1, <1>3
  <2>2. headers(k + 1) = headers(k) BY <2>1
  <2> QED BY <1>3, <2>2 DEF SectionOf
<1> QED BY <1>2, <1>3

\* The place after a line has been read.
LEMMA ReadPlaces ==
    ASSUME Placed, ReadLine
    PROVE  /\ at \in 1 .. Len(file) /\ at \in Int /\ file[at] \in Line /\ file' = file /\ at' = at + 1
           /\ Placed'
<1>1. /\ file \in Seq(Line) /\ at \in 1 .. Len(file) + 1 /\ section = SectionOf(at) /\ pc = "load"
      /\ port_override = 0
  BY DEF Placed, ReadLine
<1>2. /\ at <= Len(file) /\ file' = file /\ at' = at + 1 /\ pc' = pc /\ port_override' = port_override
      /\ section' = NextSection(file[at])
  BY DEF ReadLine
<1>3. at \in 1 .. Len(file) /\ at \in Int /\ at >= 1 /\ file[at] \in Line BY <1>1, <1>2
<1>4. section' = SectionOf(at + 1) BY <1>1, <1>2, <1>3, SectionNext DEF NextSection
<1>5. SectionOf(at)' = SectionOf(at + 1) BY <1>2 DEF SectionOf
<1>6. section' = SectionOf(at)' BY <1>4, <1>5
<1>7. at' \in 1 .. Len(file') + 1 BY <1>1, <1>2, <1>3
<1> QED BY <1>1, <1>2, <1>3, <1>6, <1>7 DEF Placed

\* What reading the line changes, by the sets of lines it belongs to.
LEMMA ReadEffect ==
    ASSUME Placed, config \in Configs, ReadLine
    PROVE  /\ config' \in Configs
           /\ at \notin BasePorts => config'.base_port = config.base_port
           /\ config'.instance_count >= config.instance_count
           /\ \/ config'.instance_count = config.instance_count
              \/ at \in Mappings(config'.instance_count)
           /\ \A n \in 1 .. MAX_INSTANCES :
                /\ at \in Mappings(n) =>
                     /\ config'.instances[n].enabled /\ config'.instance_count >= n
                     /\ config'.instances[n].port = config.base_port + n - 1
                     /\ config'.instances[n].device_id = config_parse_device_id(file[at].value)
                     /\ at \notin BasePorts
                /\ at \notin Mappings(n) =>
                     /\ config'.instances[n].enabled = config.instances[n].enabled
                     /\ config'.instances[n].port = config.instances[n].port
                     /\ config'.instances[n].device_id = config.instances[n].device_id
                /\ config'.instances[n].frequency =
                     IF at \in Settings(n, "frequency") THEN strtoul(file[at].value)
                     ELSE config.instances[n].frequency
                /\ config'.instances[n].client_lock_timeout =
                     IF at \in Settings(n, "client_lock_timeout")
                     THEN (IF Number(file[at].value) < 0 THEN 0 ELSE Number(file[at].value))
                     ELSE config.instances[n].client_lock_timeout
                /\ config'.instances[n].whitelist =
                     IF at \in ListLines(n) /\ Len(config.instances[n].whitelist) < MAX_ENTRIES
                     THEN Append(config.instances[n].whitelist, EntryOf(file[at]))
                     ELSE config.instances[n].whitelist
<1> DEFINE line == file[at]
<1>1. at \in 1 .. Len(file) /\ at \in DOMAIN file /\ line \in Line BY ReadPlaces DEF Placed
<1>2. section = SectionOf(at) BY DEF Placed
<1>3. \A name : at \in PairsIn(name) <=> line.kind = "pair" /\ section = name
  BY <1>1, <1>2 DEF PairsIn
<1>4. /\ \A n : at \in Mappings(n) <=> line.kind = "pair" /\ section = "instance_mappings" /\ line.key.id = n
      /\ \A n, name : at \in Settings(n, name) <=>
           line.kind = "pair" /\ section = "instance_settings" /\ line.key = [id |-> n, sub |-> TRUE, name |-> name]
      /\ \A n : at \in ListLines(n) <=>
           /\ line.kind = "pair" /\ section = "ip_whitelist_per_instance"
           /\ line.key.sub /\ line.key.id = n /\ line.key.name \in {"allow_", "block_"}
      /\ at \in BasePorts <=>
           /\ line.kind = "pair" /\ section = "instance_management"
           /\ line.key = [id |-> 0, sub |-> FALSE, name |-> "base_port"]
  BY <1>3 DEF Mappings, Settings, Entries, ListLines, BasePorts
<1>5. config.instance_count \in 0 .. MAX_INSTANCES /\ MAX_INSTANCES \in Nat
  BY ConfigAssumption DEF Configs
<1>6. CASE line.kind # "pair"
  <2>1. config' = config BY <1>6 DEF ReadLine
  <2>2. /\ \A n : at \notin Mappings(n) /\ at \notin ListLines(n)
        /\ \A n, name : at \notin Settings(n, name)
    BY <1>4, <1>6
  <2>3. config.instance_count >= config.instance_count BY <1>5
  <2> QED BY <2>1, <2>2, <2>3
<1>7. CASE line.kind = "pair"
  <2> DEFINE d == Assign(config, section, line.key, line.value)
  <2>1. config' = d BY <1>7 DEF ReadLine
  <2>2. line.key \in Key /\ line.value \in Value BY <1>1, <1>7, PairFields
  <2>3. line.key.id \in Int BY <2>2 DEF Key
  <2> HIDE DEF line, d
  <2>0. Effect(config, section, line.key, line.value, d)
    BY <2>2, AssignEffect DEF d
  <2>4. /\ d \in Configs
        /\ at \notin BasePorts => d.base_port = config.base_port
    BY <1>4, <1>7, <2>0 DEF Effect
  <2>5. d.instance_count = IF section = "instance_mappings" /\ IsInstance(line.key.id) /\ line.key.id > config.instance_count
                           THEN line.key.id ELSE config.instance_count
    BY <2>0 DEF Effect
  <2>6. /\ d.instance_count >= config.instance_count
        /\ d.instance_count = config.instance_count \/ at \in Mappings(d.instance_count)
    BY <1>4, <1>5, <1>7, <2>3, <2>5
  <2>7. \A n \in 1 .. MAX_INSTANCES : at \in Mappings(n) => d.instance_count >= n /\ at \notin BasePorts
    BY <1>4, <1>5, <1>7, <2>3, <2>5 DEF IsInstance
  <2>8. ASSUME NEW n \in 1 .. MAX_INSTANCES
        PROVE  /\ at \in Mappings(n) =>
                     /\ d.instances[n].enabled
                     /\ d.instances[n].port = config.base_port + n - 1
                     /\ d.instances[n].device_id = config_parse_device_id(line.value)
               /\ at \notin Mappings(n) =>
                     /\ d.instances[n].enabled = config.instances[n].enabled
                     /\ d.instances[n].port = config.instances[n].port
                     /\ d.instances[n].device_id = config.instances[n].device_id
    BY <1>4, <1>7, <2>0 DEF Effect
  <2>9. ASSUME NEW n \in 1 .. MAX_INSTANCES
        PROVE  /\ d.instances[n].frequency =
                     IF at \in Settings(n, "frequency") THEN strtoul(line.value)
                     ELSE config.instances[n].frequency
               /\ d.instances[n].client_lock_timeout =
                     IF at \in Settings(n, "client_lock_timeout")
                     THEN (IF Number(line.value) < 0 THEN 0 ELSE Number(line.value))
                     ELSE config.instances[n].client_lock_timeout
    <3>1. \A name : at \in Settings(n, name) <=>
            section = "instance_settings" /\ line.key = [id |-> n, sub |-> TRUE, name |-> name]
      BY <1>4, <1>7
    <3>2. /\ d.instances[n].frequency =
               IF section = "instance_settings" /\ line.key = [id |-> n, sub |-> TRUE, name |-> "frequency"]
               THEN strtoul(line.value) ELSE config.instances[n].frequency
          /\ d.instances[n].client_lock_timeout =
               IF section = "instance_settings" /\ line.key = [id |-> n, sub |-> TRUE, name |-> "client_lock_timeout"]
               THEN (IF Number(line.value) < 0 THEN 0 ELSE Number(line.value))
               ELSE config.instances[n].client_lock_timeout
      BY <2>0 DEF Effect
    <3> QED BY <3>1, <3>2
  <2>10. ASSUME NEW n \in 1 .. MAX_INSTANCES
         PROVE  d.instances[n].whitelist =
                     IF at \in ListLines(n) /\ Len(config.instances[n].whitelist) < MAX_ENTRIES
                     THEN Append(config.instances[n].whitelist, EntryOf(line))
                     ELSE config.instances[n].whitelist
    BY <1>4, <1>7, <2>0 DEF Effect, EntryOf
  <2> QED BY <2>1, <2>4, <2>6, <2>7, <2>8, <2>9, <2>10 DEF line
<1> QED BY <1>6, <1>7

LEMMA ReadMapped ==
    ASSUME Placed, config \in Configs, ReadLine, NEW n \in 1 .. MAX_INSTANCES, Mapped(n)
    PROVE  Mapped(n)'
<1> DEFINE lines == Mappings(n)
           read == Upto(lines, at)
           next == Upto(lines, at + 1)
<1>1. file \in Seq(Line) BY DEF Placed
<1>2. /\ at \in Int /\ file' = file /\ at' = at + 1 BY ReadPlaces
<1>3. lines \in SUBSET Int BY <1>1, LinesInFile
<1>4. lines' = lines BY <1>2, SameFile
<1>5. Upto(Mappings(n), at)' = next BY <1>2, <1>4 DEF Upto
<1>6. Mapped(n)' <=>
        /\ config'.instances[n].enabled = (next # {})
        /\ next # {} => /\ config'.instances[n].device_id = config_parse_device_id(file[Max(next)].value)
                        /\ n <= config'.instance_count
  BY <1>2, <1>5 DEF Mapped
<1>7. /\ config.instances[n].enabled = (read # {})
      /\ read # {} => /\ config.instances[n].device_id = config_parse_device_id(file[Max(read)].value)
                      /\ n <= config.instance_count
  BY DEF Mapped
<1>8. /\ config.instance_count \in Int /\ config'.instance_count \in Int /\ n \in Int
      /\ config'.instance_count >= config.instance_count
      /\ config.instances[n].enabled \in BOOLEAN /\ config'.instances[n].enabled \in BOOLEAN
  <2>1. config' \in Configs /\ config'.instance_count >= config.instance_count BY ReadEffect
  <2> QED BY <2>1, ConfigFields
<1> HIDE DEF lines
<1>9. CASE at \in lines
  <2>1. next = read \cup {at} BY <1>2, <1>3, <1>9, UptoNext
  <2>2. read \in SUBSET Int /\ \A j \in read : j < at BY <1>3 DEF Upto
  <2>3. Max(next) = at BY <1>2, <2>1, <2>2, LaterIsMax
  <2>4. /\ config'.instances[n].enabled /\ config'.instance_count >= n
        /\ config'.instances[n].device_id = config_parse_device_id(file[at].value)
    BY <1>9, ReadEffect DEF lines
  <2> QED BY <1>6, <1>8, <2>1, <2>3, <2>4
<1>10. CASE at \notin lines
  <2>1. next = read BY <1>2, <1>3, <1>10, UptoNext
  <2>2. /\ config'.instances[n].enabled = config.instances[n].enabled
        /\ config'.instances[n].device_id = config.instances[n].device_id
    BY <1>10, ReadEffect DEF lines
  <2> QED BY <1>6, <1>7, <1>8, <2>1, <2>2
<1> QED BY <1>9, <1>10

LEMMA MaxTwo ==
    ASSUME NEW x \in Int
    PROVE  Max({0, x}) = IF x < 0 THEN 0 ELSE x
BY DEF Max

LEMMA MinTwo ==
    ASSUME NEW x \in Int, NEW y \in Int
    PROVE  Min({x, y}) = IF x <= y THEN x ELSE y
BY DEF Min

LEMMA ReadFrequency ==
    ASSUME Placed, config \in Configs, ReadLine, NEW n \in 1 .. MAX_INSTANCES, Frequency(n)
    PROVE  Frequency(n)'
<1> DEFINE lines == Settings(n, "frequency")
           read == Upto(lines, at)
           next == Upto(lines, at + 1)
<1>1. file \in Seq(Line) BY DEF Placed
<1>2. /\ at \in Int /\ file' = file /\ at' = at + 1 BY ReadPlaces
<1>3. lines \in SUBSET Int BY <1>1, LinesInFile
<1>4. lines' = lines BY <1>2, SameFile
<1>5. Upto(Settings(n, "frequency"), at)' = next BY <1>2, <1>4 DEF Upto
<1>6. Frequency(n)' <=> config'.instances[n].frequency = LastNumber(next, DEFAULT_FREQUENCY) % UINT_RANGE
  BY <1>2, <1>5 DEF Frequency, LastNumber
<1>7. config.instances[n].frequency = LastNumber(read, DEFAULT_FREQUENCY) % UINT_RANGE
  BY DEF Frequency
<1>8. config'.instances[n].frequency =
        IF at \in lines THEN strtoul(file[at].value) ELSE config.instances[n].frequency
  BY ReadEffect
<1> HIDE DEF lines
<1>9. CASE at \in lines
  <2>1. next = read \cup {at} BY <1>2, <1>3, <1>9, UptoNext
  <2>2. read \in SUBSET Int /\ \A j \in read : j < at BY <1>3 DEF Upto
  <2>3. Max(next) = at BY <1>2, <2>1, <2>2, LaterIsMax
  <2>4. next # {} BY <2>1
  <2>5. LastNumber(next, DEFAULT_FREQUENCY) = Number(file[at].value) BY <2>3, <2>4 DEF LastNumber
  <2> QED BY <1>6, <1>8, <1>9, <2>5 DEF strtoul
<1>10. CASE at \notin lines
  <2>1. next = read BY <1>2, <1>3, <1>10, UptoNext
  <2> QED BY <1>6, <1>7, <1>8, <1>10, <2>1
<1> QED BY <1>9, <1>10

LEMMA ReadLockTimeout ==
    ASSUME Placed, config \in Configs, ReadLine, NEW n \in 1 .. MAX_INSTANCES, LockTimeout(n)
    PROVE  LockTimeout(n)'
<1> DEFINE lines == Settings(n, "client_lock_timeout")
           read == Upto(lines, at)
           next == Upto(lines, at + 1)
<1>1. file \in Seq(Line) BY DEF Placed
<1>2. /\ at \in Int /\ file' = file /\ at' = at + 1 /\ file[at] \in Line BY ReadPlaces
<1>3. lines \in SUBSET Int BY <1>1, LinesInFile
<1>4. lines' = lines BY <1>2, SameFile
<1>5. Upto(Settings(n, "client_lock_timeout"), at)' = next BY <1>2, <1>4 DEF Upto
<1>6. LockTimeout(n)' <=>
        (next # {} => config'.instances[n].client_lock_timeout = Max({0, LastNumber(next, 0)}))
  BY <1>2, <1>5 DEF LockTimeout, LastNumber
<1>7. read # {} => config.instances[n].client_lock_timeout = Max({0, LastNumber(read, 0)})
  BY DEF LockTimeout
<1>8. config'.instances[n].client_lock_timeout =
        IF at \in lines THEN (IF Number(file[at].value) < 0 THEN 0 ELSE Number(file[at].value))
        ELSE config.instances[n].client_lock_timeout
  BY ReadEffect
<1>9. at \in lines => file[at].kind = "pair"
  BY DEF Settings, PairsIn
<1> HIDE DEF lines
<1>10. CASE at \in lines
  <2>1. next = read \cup {at} BY <1>2, <1>3, <1>10, UptoNext
  <2>2. read \in SUBSET Int /\ \A j \in read : j < at BY <1>3 DEF Upto
  <2>3. Max(next) = at BY <1>2, <2>1, <2>2, LaterIsMax
  <2>4. next # {} BY <2>1
  <2>5. LastNumber(next, 0) = Number(file[at].value) BY <2>3, <2>4 DEF LastNumber
  <2>6. Number(file[at].value) \in Int BY <1>2, <1>9, <1>10, PairFields, NumberType
  <2>7. Max({0, LastNumber(next, 0)}) = IF Number(file[at].value) < 0 THEN 0 ELSE Number(file[at].value)
    BY <2>5, <2>6, MaxTwo
  <2> QED BY <1>6, <1>8, <1>10, <2>7
<1>11. CASE at \notin lines
  <2>1. next = read BY <1>2, <1>3, <1>11, UptoNext
  <2> QED BY <1>6, <1>7, <1>8, <1>11, <2>1
<1> QED BY <1>10, <1>11

\* The entries of a list: one for each of its lines, until the array is full.
LEMMA ReadWhitelisted ==
    ASSUME Placed, config \in Configs, ReadLine, NEW n \in 1 .. MAX_INSTANCES, Whitelisted(n)
    PROVE  Whitelisted(n)'
<1> DEFINE lines == ListLines(n)
           read == Upto(lines, at)
           next == Upto(lines, at + 1)
           list == config.instances[n].whitelist
           entry == EntryOf(file[at])
<1>1. file \in Seq(Line) BY DEF Placed
<1>2. /\ at \in Int /\ file' = file /\ at' = at + 1 BY ReadPlaces
<1>3. lines \in SUBSET Int /\ lines \in SUBSET (1 .. Len(file)) BY <1>1, LinesInFile
<1>4. lines' = lines BY <1>2, SameFile
<1>5. Upto(ListLines(n), at)' = next BY <1>2, <1>4 DEF Upto
<1>6. PICK list1 : list1 = config'.instances[n].whitelist OBVIOUS
<1>7. Whitelisted(n)' <=> Holds(list1, next, file)
  BY <1>2, <1>5, <1>6 DEF Whitelisted
<1>8. Holds(list, read, file) BY DEF Whitelisted
<1>81. Len(list) = Min({MAX_ENTRIES, Cardinality(read)}) BY <1>8 DEF Holds
<1>82. \A i \in 1 .. Len(list) : \E k \in read : list[i] = EntryOf(file[k]) BY <1>8 DEF Holds
<1>83. Cardinality(read) <= MAX_ENTRIES => \A k \in read : \E i \in 1 .. Len(list) : list[i] = EntryOf(file[k])
  BY <1>8 DEF Holds
<1>9. list1 = IF at \in lines /\ Len(list) < MAX_ENTRIES THEN Append(list, entry) ELSE list
  BY <1>6, ReadEffect
<1>10. list \in Seq(Entry) /\ Len(list) \in Nat
  BY ConfigFields
<1>11. IsFiniteSet(read) /\ at \notin read
  <2>1. Len(file) \in Nat BY <1>1
  <2>2. IsFiniteSet(1 .. Len(file)) BY <2>1, FS_Interval
  <2>3. read \subseteq 1 .. Len(file) BY <1>3 DEF Upto
  <2>4. at \notin read BY <1>2 DEF Upto
  <2> QED BY <2>2, <2>3, <2>4, FS_Subset
<1>12. PICK r \in Nat : r = Cardinality(read) BY <1>11, FS_CardinalityType
<1>13. MAX_ENTRIES \in Nat BY ConfigAssumption
<1>14. Len(list) = IF MAX_ENTRIES <= r THEN MAX_ENTRIES ELSE r BY <1>81, <1>12, <1>13, MinTwo
<1> HIDE DEF lines, read, next, list, entry
<1>15. CASE at \notin lines
  <2>1. next = read BY <1>2, <1>3, <1>15, UptoNext DEF next, read
  <2> QED BY <1>7, <1>8, <1>9, <1>15, <2>1
<1>16. CASE at \in lines
  <2>1. next = read \cup {at} BY <1>2, <1>3, <1>16, UptoNext DEF next, read
  <2>2. Cardinality(next) = r + 1 BY <1>11, <1>12, <2>1, FS_AddElement
  <2>3. Min({MAX_ENTRIES, Cardinality(next)}) = IF MAX_ENTRIES <= r + 1 THEN MAX_ENTRIES ELSE r + 1
    BY <1>12, <1>13, <2>2, MinTwo
  <2>4. CASE r < MAX_ENTRIES
    <3>1. Len(list) = r /\ list1 = Append(list, entry) BY <1>9, <1>12, <1>13, <1>14, <1>16, <2>4
    <3>2. Len(list1) = r + 1 /\ list1[r + 1] = entry /\ \A i \in 1 .. r : list1[i] = list[i]
      BY <1>10, <1>12, <3>1
    <3>3. Len(list1) = Min({MAX_ENTRIES, Cardinality(next)}) BY <1>12, <1>13, <2>3, <2>4, <3>2
    <3>4. ASSUME NEW i \in 1 .. Len(list1) PROVE \E k \in next : list1[i] = EntryOf(file[k])
      <4>1. i \in 1 .. r \/ i = r + 1 BY <1>12, <3>2
      <4>2. CASE i \in 1 .. r
        <5>1. PICK k \in read : list[i] = EntryOf(file[k]) BY <1>82, <3>1, <4>2
        <5>2. list1[i] = list[i] BY <3>2, <4>2
        <5> QED BY <2>1, <5>1, <5>2
      <4>3. CASE i = r + 1 BY <2>1, <3>2, <4>3 DEF entry
      <4> QED BY <4>1, <4>2, <4>3
    <3>5. ASSUME NEW k \in next PROVE \E i \in 1 .. Len(list1) : list1[i] = EntryOf(file[k])
      <4>1. CASE k = at
        <5>1. r + 1 \in 1 .. Len(list1) BY <1>12, <3>2
        <5> QED BY <3>2, <4>1, <5>1 DEF entry
      <4>2. CASE k \in read
        <5>1. PICK i \in 1 .. r : list[i] = EntryOf(file[k]) BY <1>83, <1>12, <1>13, <2>4, <3>1, <4>2
        <5>2. i \in 1 .. Len(list1) BY <1>12, <3>2
        <5> QED BY <3>2, <5>1, <5>2
      <4> QED BY <2>1, <4>1, <4>2
    <3> QED BY <1>7, <3>3, <3>4, <3>5 DEF Holds
  <2>5. CASE ~(r < MAX_ENTRIES)
    <3>1. Len(list) = MAX_ENTRIES /\ list1 = list BY <1>9, <1>12, <1>13, <1>14, <2>5
    <3>2. Len(list1) = Min({MAX_ENTRIES, Cardinality(next)}) BY <1>12, <1>13, <2>3, <2>5, <3>1
    <3>3. ~(Cardinality(next) <= MAX_ENTRIES) BY <1>12, <1>13, <2>2, <2>5
    <3>4. \A i \in 1 .. Len(list1) : \E k \in next : list1[i] = EntryOf(file[k])
      BY <1>82, <2>1, <3>1
    <3> QED BY <1>7, <3>2, <3>3, <3>4 DEF Holds
  <2> QED BY <2>4, <2>5
<1> QED BY <1>15, <1>16

LEMMA ReadCounted ==
    ASSUME Placed, config \in Configs, ReadLine, Counted
    PROVE  Counted'
<1> DEFINE m == config'.instance_count
<1>1. /\ config' \in Configs
      /\ m = config.instance_count \/ at \in Mappings(m)
  BY ReadEffect
<1>2. SUFFICES ASSUME m # 0 PROVE config'.instances[m].enabled
  BY DEF Counted
<1>3. m \in 1 .. MAX_INSTANCES
  <2>1. m \in 0 .. MAX_INSTANCES /\ MAX_INSTANCES \in Nat BY <1>1, ConfigAssumption DEF Configs
  <2> QED BY <1>2, <2>1
<1> HIDE DEF m
<1>4. CASE at \in Mappings(m) BY <1>3, <1>4, ReadEffect
<1>5. CASE at \notin Mappings(m)
  <2>1. config.instances[m].enabled BY <1>1, <1>2, <1>5 DEF Counted
  <2> QED BY <1>3, <1>5, <2>1, ReadEffect
<1> QED BY <1>4, <1>5

\* A mapping takes the base port read so far: when every base_port line comes first,
\* that is the last one.
LEMMA ReadPortsFollow ==
    ASSUME Placed, config \in Configs, ReadLine, PortsFollow, \A n \in 1 .. MAX_INSTANCES : Mapped(n)
    PROVE  PortsFollow'
<1>1. /\ file' = file /\ at \in Int BY ReadPlaces
<1>2. file \in Seq(Line) BY DEF Placed
<1>3. port_override = 0 /\ port_override' = 0 BY DEF Placed, ReadLine
<1>4. BasePortFirst' = BasePortFirst BY <1>1, SameFile DEF BasePortFirst
<1>5. SUFFICES ASSUME BasePortFirst, NEW n \in 1 .. MAX_INSTANCES, config'.instances[n].enabled
               PROVE  config'.instances[n].port = config'.base_port + n - 1
  BY <1>3, <1>4 DEF PortsFollow
<1>6. CASE at \in Mappings(n)
  <2>1. config'.instances[n].port = config.base_port + n - 1 /\ at \notin BasePorts BY <1>6, ReadEffect
  <2>2. config'.base_port = config.base_port BY <2>1, ReadEffect
  <2> QED BY <2>1, <2>2
<1>7. CASE at \notin Mappings(n)
  <2>1. config'.instances[n].port = config.instances[n].port /\ config.instances[n].enabled
    BY <1>5, <1>7, ReadEffect
  <2>2. Upto(Mappings(n), at) # {} BY <2>1 DEF Mapped
  <2>3. PICK m \in Mappings(n) : m < at BY <2>2 DEF Upto
  <2>4. m \in Int BY <1>2, <2>3, LinesInFile
  <2>5. at \notin BasePorts BY <1>1, <1>5, <2>3, <2>4 DEF BasePortFirst
  <2>6. config'.base_port = config.base_port BY <2>5, ReadEffect
  <2>7. config.instances[n].port = config.base_port + n - 1 BY <1>5, <2>1 DEF PortsFollow
  <2> QED BY <2>1, <2>6, <2>7
<1> QED BY <1>6, <1>7

-----------------------------------------------------------------------------
(* Before the first line, and after the last. *)

\* No line read: the defaults.
LEMMA NothingRead == AtFirst => Loaded /\ section = SectionOf(at)
<1> SUFFICES ASSUME AtFirst PROVE Loaded /\ section = SectionOf(at)
  OBVIOUS
<1>1. file \in Seq(Line) /\ at = 1 /\ section = "none" /\ config = config_init
  BY DEF AtFirst
<1>2. section = SectionOf(at)
  <2>1. 1 .. at - 1 = {} BY <1>1
  <2> QED BY <1>1, <2>1 DEF SectionOf
<1>3. \A lines \in SUBSET (1 .. Len(file)) : Upto(lines, at) = {}
  <2>1. \A j \in 1 .. Len(file) : ~(j < at) BY <1>1
  <2> QED BY <2>1 DEF Upto
<1>4. ASSUME NEW n \in 1 .. MAX_INSTANCES
      PROVE  Mapped(n) /\ Frequency(n) /\ LockTimeout(n) /\ Whitelisted(n) /\ ~config.instances[n].enabled
  <2>1. /\ Upto(Mappings(n), at) = {} /\ Upto(ListLines(n), at) = {}
        /\ Upto(Settings(n, "frequency"), at) = {} /\ Upto(Settings(n, "client_lock_timeout"), at) = {}
    BY <1>1, <1>3, LinesInFile
  <2>2. /\ config.instances[n].enabled = FALSE /\ config.instances[n].whitelist = <<>>
        /\ config.instances[n].frequency = DEFAULT_FREQUENCY
    BY <1>1 DEF config_init
  <2>3. Mapped(n)
    BY <2>1, <2>2 DEF Mapped
  <2>4. Frequency(n)
    <3>1. DEFAULT_FREQUENCY \in Nat /\ UINT_RANGE \in Nat /\ DEFAULT_FREQUENCY < UINT_RANGE
      <4>1. DEFAULT_FREQUENCY \in Nat BY SMT DEF DEFAULT_FREQUENCY
      <4> QED BY <4>1, ConfigAssumption
    <3>2. DEFAULT_FREQUENCY % UINT_RANGE = DEFAULT_FREQUENCY BY <3>1
    <3> QED BY <2>1, <2>2, <3>2 DEF Frequency, LastNumber
  <2>5. LockTimeout(n)
    BY <2>1 DEF LockTimeout
  <2>6. Whitelisted(n)
    <3>1. Cardinality({}) = 0 BY FS_EmptySet
    <3>2. Min({MAX_ENTRIES, 0}) = 0 BY ConfigAssumption, MinTwo
    <3>3. Len(<<>>) = 0 OBVIOUS
    <3>4. Holds(<<>>, {}, file)
      BY <3>1, <3>2, <3>3 DEF Holds
    <3> QED BY <2>1, <2>2, <3>4 DEF Whitelisted
  <2> QED BY <2>2, <2>3, <2>4, <2>5, <2>6
<1>5. Counted BY <1>1 DEF Counted, config_init
<1>6. PortsFollow BY <1>4 DEF PortsFollow
<1> QED BY <1>2, <1>4, <1>5, <1>6 DEF Loaded

\* What is loaded stays so while nothing is read.
LEMMA LoadedStays ==
    ASSUME Loaded, UNCHANGED <<file, at, config, port_override>>
    PROVE  Loaded'
<1>1. \A n \in 1 .. MAX_INSTANCES : Mapped(n) /\ Frequency(n) /\ LockTimeout(n) /\ Whitelisted(n)
  BY DEF Loaded
<1>2. file' = file /\ at' = at /\ config' = config /\ port_override' = port_override OBVIOUS
<1>3. ASSUME NEW n \in 1 .. MAX_INSTANCES
      PROVE  (Mapped(n) /\ Frequency(n) /\ LockTimeout(n) /\ Whitelisted(n))'
  <2>1. Upto(Mappings(n), at)' = Upto(Mappings(n), at) BY <1>2, SameFile DEF Upto
  <2>2. Upto(ListLines(n), at)' = Upto(ListLines(n), at) BY <1>2, SameFile DEF Upto
  <2>3. Upto(Settings(n, "frequency"), at)' = Upto(Settings(n, "frequency"), at) BY <1>2, SameFile DEF Upto
  <2>4. Upto(Settings(n, "client_lock_timeout"), at)' = Upto(Settings(n, "client_lock_timeout"), at)
    BY <1>2, SameFile DEF Upto
  <2>5. Mapped(n)' BY <1>1, <1>2, <2>1 DEF Mapped
  <2>6. Frequency(n)' BY <1>1, <1>2, <2>3 DEF Frequency, LastNumber
  <2>7. LockTimeout(n)' BY <1>1, <1>2, <2>4 DEF LockTimeout, LastNumber
  <2>8. Whitelisted(n)' BY <1>1, <1>2, <2>2 DEF Whitelisted
  <2> QED BY <2>5, <2>6, <2>7, <2>8
<1>4. Counted' BY <1>2 DEF Loaded, Counted
<1>5. BasePortFirst' = BasePortFirst BY <1>2, SameFile DEF BasePortFirst
<1>6. PortsFollow' BY <1>2, <1>5 DEF Loaded, PortsFollow
<1> QED BY <1>3, <1>4, <1>6 DEF Loaded

\* The place in the file stays.
LEMMA PlaceStays ==
    ASSUME file' = file, at' = at
    PROVE  SectionOf(at)' = SectionOf(at)
BY DEF SectionOf

\* The port option changes the ports and nothing else.
Moved(c, port, d) ==
    /\ d \in Configs /\ d.base_port = port /\ d.instance_count = c.instance_count
    /\ \A n \in 1 .. MAX_INSTANCES :
         /\ d.instances[n].enabled = c.instances[n].enabled
         /\ d.instances[n].device_id = c.instances[n].device_id
         /\ d.instances[n].frequency = c.instances[n].frequency
         /\ d.instances[n].client_lock_timeout = c.instances[n].client_lock_timeout
         /\ d.instances[n].whitelist = c.instances[n].whitelist
         /\ n <= c.instance_count => d.instances[n].port = port + n - 1

LEMMA OverrideEffect ==
    ASSUME NEW c \in Configs, NEW port \in Int, NEW d, d = Override(c, port)
    PROVE  Moved(c, port, d)
<1> DEFINE moved(n) == [c.instances[n] EXCEPT !.port = port + n - 1]
           table == [n \in 1 .. MAX_INSTANCES |-> IF n <= c.instance_count THEN moved(n) ELSE c.instances[n]]
<1>1. DOMAIN c.instances = 1 .. MAX_INSTANCES BY DEF Configs
<1>2. d = [[c EXCEPT !.base_port = port] EXCEPT !.instances = table]
  BY <1>1 DEF Override, Configs
<1>3. ASSUME NEW n \in 1 .. MAX_INSTANCES
      PROVE  /\ moved(n) \in InstanceConfig /\ moved(n).port = port + n - 1
             /\ moved(n).enabled = c.instances[n].enabled
             /\ moved(n).device_id = c.instances[n].device_id
             /\ moved(n).frequency = c.instances[n].frequency
             /\ moved(n).client_lock_timeout = c.instances[n].client_lock_timeout
             /\ moved(n).whitelist = c.instances[n].whitelist
  <2>1. c.instances[n] \in InstanceConfig /\ n \in Int BY ConfigFields
  <2>2. port + n - 1 \in Int BY <2>1
  <2> QED BY <2>1, <2>2 DEF InstanceConfig
<1>4. table \in [1 .. MAX_INSTANCES -> InstanceConfig]
  BY <1>3, ConfigFields
<1>5. \A n \in 1 .. MAX_INSTANCES : table[n] = IF n <= c.instance_count THEN moved(n) ELSE c.instances[n]
  OBVIOUS
<1> HIDE DEF moved, table
<1>6. d \in Configs /\ d.base_port = port /\ d.instance_count = c.instance_count /\ d.instances = table
  BY <1>2, <1>4 DEF Configs
<1> QED BY <1>3, <1>5, <1>6 DEF Moved

\* The end of the file.
LEMMA LoadDoneLoaded ==
    ASSUME Placed, config \in Configs, Loaded, LoadDone
    PROVE  config' \in Configs /\ Loaded'
<1>1. PICK port \in Ports \cup {0} :
        /\ port_override' = port
        /\ config' = IF port = 0 THEN config ELSE Override(config, port)
  BY DEF LoadDone
<1>2. file' = file /\ at' = at BY DEF LoadDone
<1>3. port_override = 0 BY DEF LoadDone, Placed
<1>4. CASE port = 0
  <2>1. config' = config /\ port_override' = port_override BY <1>1, <1>3, <1>4
  <2> QED BY <1>2, <2>1, LoadedStays
<1>5. CASE port # 0
  <2>1. port \in Int BY StartupAssumption
  <2>2. PICK d : d = config' OBVIOUS
  <2>3. d = Override(config, port) BY <1>1, <1>5, <2>2
  <2>0. Moved(config, port, d) BY <2>1, <2>3, OverrideEffect
  <2>4. /\ d \in Configs /\ d.base_port = port /\ d.instance_count = config.instance_count
    BY <2>0 DEF Moved
  <2>5. \A n \in 1 .. MAX_INSTANCES :
            /\ d.instances[n].enabled = config.instances[n].enabled
            /\ d.instances[n].device_id = config.instances[n].device_id
            /\ d.instances[n].frequency = config.instances[n].frequency
            /\ d.instances[n].client_lock_timeout = config.instances[n].client_lock_timeout
            /\ d.instances[n].whitelist = config.instances[n].whitelist
            /\ n <= config.instance_count => d.instances[n].port = port + n - 1
    BY <2>0 DEF Moved
  <2>6. ASSUME NEW n \in 1 .. MAX_INSTANCES
        PROVE  (Mapped(n) /\ Frequency(n) /\ LockTimeout(n) /\ Whitelisted(n))'
    <3>0. Mapped(n) /\ Frequency(n) /\ LockTimeout(n) /\ Whitelisted(n) BY DEF Loaded
    <3>1. Upto(Mappings(n), at)' = Upto(Mappings(n), at) BY <1>2, SameFile DEF Upto
    <3>2. Upto(ListLines(n), at)' = Upto(ListLines(n), at) BY <1>2, SameFile DEF Upto
    <3>3. Upto(Settings(n, "frequency"), at)' = Upto(Settings(n, "frequency"), at) BY <1>2, SameFile DEF Upto
    <3>4. Upto(Settings(n, "client_lock_timeout"), at)' = Upto(Settings(n, "client_lock_timeout"), at)
      BY <1>2, SameFile DEF Upto
    <3>5. Mapped(n)' BY <1>2, <2>2, <2>4, <2>5, <3>0, <3>1 DEF Mapped
    <3>6. Frequency(n)' BY <1>2, <2>2, <2>5, <3>0, <3>3 DEF Frequency, LastNumber
    <3>7. LockTimeout(n)' BY <1>2, <2>2, <2>5, <3>0, <3>4 DEF LockTimeout, LastNumber
    <3>8. Whitelisted(n)' BY <1>2, <2>2, <2>5, <3>0, <3>2 DEF Whitelisted
    <3> QED BY <3>5, <3>6, <3>7, <3>8
  <2>7. Counted'
    <3>1. config.instance_count \in 0 .. MAX_INSTANCES /\ MAX_INSTANCES \in Nat BY ConfigAssumption DEF Configs
    <3>2. config.instance_count # 0 => config.instance_count \in 1 .. MAX_INSTANCES BY <3>1
    <3>3. config.instance_count # 0 => config.instances[config.instance_count].enabled BY DEF Loaded, Counted
    <3> QED BY <2>2, <2>4, <2>5, <3>2, <3>3 DEF Counted
  <2>8. PortsFollow'
    <3>1. \A n \in 1 .. MAX_INSTANCES : config.instances[n].enabled => n <= config.instance_count
      BY DEF Loaded, Mapped
    <3> QED BY <2>2, <2>4, <2>5, <3>1 DEF PortsFollow
  <2> QED BY <2>2, <2>4, <2>6, <2>7, <2>8 DEF Loaded
<1> QED BY <1>4, <1>5

-----------------------------------------------------------------------------
(* The file that xvc-discover writes. *)

LEMMA Least ==
    ASSUME NEW places \in SUBSET Nat, places # {}
    PROVE  \E m \in places : \A j \in places : m <= j
<1>1. PICK m \in places : \A j \in places : ~(<<j, m>> \in OpToRel(<, Nat))
  BY NatLessThanWellFounded, WFMin
<1>2. \A j \in places : ~(j < m) BY <1>1 DEF OpToRel
<1>3. \A j \in places : m <= j BY <1>2
<1> QED BY <1>3

LEMMA FiniteInRange ==
    ASSUME NEW top \in Nat, NEW chosen \in SUBSET (1 .. top)
    PROVE  IsFiniteSet(chosen) /\ Cardinality(chosen) \in Nat
<1>1. IsFiniteSet(1 .. top) BY FS_Interval
<1>2. IsFiniteSet(chosen) BY <1>1, FS_Subset
<1> QED BY <1>2, FS_CardinalityType

\* There is a j-th supported device for each j up to their number.
LEMMA PlaceExists ==
    ASSUME NEW top \in Nat, NEW chosen \in SUBSET (1 .. top), NEW j \in Nat, 1 <= j, j <= Cardinality(chosen)
    PROVE  \E k \in chosen : Cardinality({i \in chosen : i <= k}) = j
<1> DEFINE upto(m) == {i \in chosen : i <= m}
           reach == {m \in 0 .. top : Cardinality(upto(m)) >= j}
<1>1. IsFiniteSet(chosen) BY FiniteInRange
<1>2. \A m : IsFiniteSet(upto(m)) /\ Cardinality(upto(m)) \in Nat
  BY <1>1, FS_Subset, FS_CardinalityType
<1>3. upto(top) = chosen
  <2>1. \A i \in chosen : i <= top OBVIOUS
  <2> QED BY <2>1
<1>4. upto(0) = {}
  <2>1. \A i \in chosen : ~(i <= 0) OBVIOUS
  <2> QED BY <2>1
<1>5. Cardinality(upto(0)) = 0 BY <1>4, FS_EmptySet
<1>6. top \in reach /\ 0 \notin reach
  BY <1>2, <1>3, <1>5
<1>7. PICK m \in reach : \A x \in reach : m <= x
  <2>1. reach \in SUBSET Nat OBVIOUS
  <2> QED BY <1>6, <2>1, Least
<1>8. m \in 1 .. top /\ Cardinality(upto(m)) >= j
  BY <1>6, <1>7
<1>9. m - 1 \in 0 .. top /\ ~(Cardinality(upto(m - 1)) >= j)
  <2>1. m - 1 \in 0 .. top /\ ~(m <= m - 1) BY <1>8
  <2>2. m - 1 \notin reach BY <1>7, <2>1
  <2> QED BY <2>1, <2>2
<1>10. \A i \in chosen : i <= m <=> i <= m - 1 \/ i = m
  BY <1>8
<1>11. CASE m \in chosen
  <2>1. \A i : i \in upto(m) <=> i \in upto(m - 1) \cup {m} BY <1>10, <1>11
  <2>2. upto(m) = upto(m - 1) \cup {m} BY <2>1
  <2>3. m \notin upto(m - 1) BY <1>8
  <2> HIDE DEF upto, reach
  <2>4. Cardinality(upto(m)) = Cardinality(upto(m - 1)) + 1 BY <1>2, <2>2, <2>3, FS_AddElement
  <2>5. Cardinality(upto(m)) = j BY <1>2, <1>8, <1>9, <2>4
  <2> QED BY <1>11, <2>5 DEF upto
<1>12. CASE m \notin chosen
  <2>1. \A i : i \in upto(m) <=> i \in upto(m - 1) BY <1>10, <1>12
  <2>2. upto(m) = upto(m - 1) BY <2>1
  <2> QED BY <1>8, <1>9, <2>2
<1> QED BY <1>11, <1>12

\* What the scan lists is on the bus.
LEMMA ScanLists ==
    ASSUME NEW b \in Buses
    PROVE  /\ Len(device_manager_scan(b)) \in Nat
           /\ DOMAIN device_manager_scan(b) = 1 .. Len(device_manager_scan(b))
           /\ \A j \in DOMAIN device_manager_scan(b) : \E k \in DOMAIN b :
                /\ device_manager_scan(b)[j].serial = b[k].serial /\ b[k].serial \in Text
                /\ device_manager_scan(b)[j].index = k
                /\ {bus_location(k), stripped(bus_location(k)), stripped(b[k].serial)} \subseteq Text
<1> DEFINE supported == {k \in DOMAIN b : b[k].supported}
           place(j) == CHOOSE k \in supported : Cardinality({i \in supported : i <= k}) = j
           number == Min({MAX_DEVICES, Cardinality(supported)})
           found == [j \in 1 .. number |-> [serial |-> b[place(j)].serial, index |-> place(j)]]
<1>1. /\ b \in Seq([serial : Text, supported : BOOLEAN])
      /\ \A k \in DOMAIN b : {bus_location(k), stripped(bus_location(k)), stripped(b[k].serial)} \subseteq Text
  BY StartupAssumption
<1>2. DOMAIN b = 1 .. Len(b) /\ Len(b) \in Nat BY <1>1
<1>3. \A k \in DOMAIN b : b[k].serial \in Text
  <2> DEFINE Device == [serial : Text, supported : BOOLEAN]
  <2>1. b \in Seq(Device) BY <1>1
  <2> HIDE DEF Device
  <2>2. \A k \in DOMAIN b : b[k] \in Device BY <1>2, <2>1
  <2>3. \A d \in Device : d.serial \in Text BY DEF Device
  <2> QED BY <2>2, <2>3
<1>4. supported \in SUBSET (1 .. Len(b)) BY <1>2
<1> HIDE DEF supported
<1>5. IsFiniteSet(supported) /\ Cardinality(supported) \in Nat
  BY <1>2, <1>4, FiniteInRange
<1>6. number \in Nat /\ number <= Cardinality(supported)
  BY <1>5, DiscoveryAssumption, MinTwo
<1> HIDE DEF number
<1>7. ASSUME NEW j \in 1 .. number PROVE place(j) \in supported
  <2>1. j \in Nat /\ 1 <= j /\ j <= Cardinality(supported) BY <1>5, <1>6
  <2>2. \E k \in supported : Cardinality({i \in supported : i <= k}) = j BY <1>2, <1>4, <2>1, PlaceExists
  <2> QED BY <2>2
<1>8. device_manager_scan(b) = found BY DEF device_manager_scan, supported, number
<1> HIDE DEF place
<1>9. Len(found) = number /\ DOMAIN found = 1 .. number BY <1>6
<1>10. ASSUME NEW j \in 1 .. number
       PROVE  \E k \in DOMAIN b : /\ found[j].serial = b[k].serial /\ b[k].serial \in Text
                                  /\ found[j].index = k
                                  /\ {bus_location(k), stripped(bus_location(k)), stripped(b[k].serial)} \subseteq Text
  <2>1. place(j) \in DOMAIN b BY <1>2, <1>4, <1>7
  <2>2. found[j] = [serial |-> b[place(j)].serial, index |-> place(j)] OBVIOUS
  <2> HIDE DEF found
  <2> QED BY <1>1, <1>3, <2>1, <2>2
<1> QED BY <1>6, <1>8, <1>9, <1>10

LEMMA IsMax ==
    ASSUME NEW lines \in SUBSET Int, NEW k \in lines, \A j \in lines : j <= k
    PROVE  Max(lines) = k
<1>1. \A x \in lines : (\A y \in lines : x >= y) => x = k OBVIOUS
<1>2. \A y \in lines : k >= y OBVIOUS
<1> QED BY <1>1, <1>2 DEF Max

LEMMA Names ==
    /\ "instance_management" \in Text /\ "instance_mappings" \in Text /\ "instance_settings" \in Text
    /\ "instance_aliases" \in Text /\ "base_port" \in Text /\ "frequency" \in Text /\ "xvc_buffer_size" \in Text
    /\ Empty \in Text
BY TextAssumption DEF Sections

LEMMA HeaderType ==
    ASSUME NEW name \in Text
    PROVE  Header(name) \in Line /\ Header(name).kind = "header" /\ Header(name).name = name
BY DEF Header, Line

PlainPair(id, name, value) ==
    LET line == Pair(id, FALSE, name, value)
    IN line \in Line /\ line.kind = "pair" /\ line.key.id = id /\ line.value = value

LEMMA PairType ==
    ASSUME NEW id \in Int, NEW name \in Text, NEW value \in Value
    PROVE  PlainPair(id, name, value)
BY DEF PlainPair, Pair, Line, Key

LEMMA NumberValueType ==
    ASSUME NEW x \in Int
    PROVE  NumberValue(x) \in Value
BY DEF NumberValue, Value

LEMMA SettingLineType ==
    ASSUME NEW j \in Int
    PROVE  SettingLine(j) \in Line /\ SettingLine(j).kind = "pair"
<1>1. (j + 1) \div 2 \in Int /\ j \div 2 \in Int OBVIOUS
<1>2. DEFAULT_FREQUENCY \in Int BY SMT DEF DEFAULT_FREQUENCY
<1>3. GeneratedBufferSize \in Int BY SMT DEF GeneratedBufferSize
<1>4. NumberValue(DEFAULT_FREQUENCY) \in Value /\ NumberValue(GeneratedBufferSize) \in Value
  BY <1>2, <1>3, NumberValueType
<1>5. ASSUME NEW id \in Int, NEW value \in Value, NEW name \in Text
      PROVE  Pair(id, TRUE, name, value) \in Line /\ Pair(id, TRUE, name, value).kind = "pair"
  BY DEF Pair, Line, Key
<1>6. "frequency" \in Text /\ "xvc_buffer_size" \in Text BY Names
<1> QED BY <1>1, <1>4, <1>5, <1>6 DEF SettingLine

Joins(X, s, m, t, k, u) ==
    /\ u \in Seq(X) /\ Len(u) = m + k
    /\ \A i \in 1 .. m : u[i] = s[i]
    /\ \A i \in 1 .. k : u[m + i] = t[i]

LEMMA Joined ==
    ASSUME NEW X, NEW s \in Seq(X), NEW t \in Seq(X), NEW m \in Nat, m = Len(s), NEW k \in Nat, k = Len(t),
           NEW u, u = s \o t
    PROVE  Joins(X, s, m, t, k, u)
BY DEF Joins

LEMMA FunctionIsSeq ==
    ASSUME NEW X, NEW m \in Nat, NEW s \in [1 .. m -> X]
    PROVE  s \in Seq(X) /\ Len(s) = m
OBVIOUS

\* Where the lines of the five parts of the file come to stand.
Parts(n, top, mappings, middle, settings, last, a, b, c, text) ==
    /\ Joins(Line, top, 3, mappings, n, a) /\ Joins(Line, a, 3 + n, middle, 1, b)
    /\ Joins(Line, b, 3 + n + 1, settings, 2 * n, c)
    /\ Joins(Line, c, 3 + n + 1 + 2 * n, last, 1, text)

Placement(n, top, mappings, middle, settings, last, text) ==
    /\ text \in Seq(Line) /\ Len(text) = 3 * n + 5
    /\ text[1] = top[1] /\ text[2] = top[2] /\ text[3] = top[3]
    /\ \A k \in 1 .. n : text[k + 3] = mappings[k]
    /\ text[n + 4] = middle[1]
    /\ \A j \in 1 .. 2 * n : text[n + 4 + j] = settings[j]
    /\ text[3 * n + 5] = last[1]

LEMMA FiveParts ==
    ASSUME NEW n \in Nat, NEW top, NEW mappings, NEW middle, NEW settings, NEW last, NEW a, NEW b, NEW c, NEW text,
           Parts(n, top, mappings, middle, settings, last, a, b, c, text)
    PROVE  Placement(n, top, mappings, middle, settings, last, text)
<1>5. /\ \A i \in 1 .. 3 : a[i] = top[i]
      /\ \A i \in 1 .. n : a[3 + i] = mappings[i]
  BY DEF Parts, Joins
<1>6. /\ \A i \in 1 .. 3 + n : b[i] = a[i]
      /\ b[3 + n + 1] = middle[1]
  BY DEF Parts, Joins
<1>7. /\ \A i \in 1 .. 3 + n + 1 : c[i] = b[i]
      /\ \A i \in 1 .. 2 * n : c[3 + n + 1 + i] = settings[i]
  BY DEF Parts, Joins
<1>8. /\ text \in Seq(Line) /\ Len(text) = 3 + n + 1 + 2 * n + 1
      /\ \A i \in 1 .. 3 + n + 1 + 2 * n : text[i] = c[i]
      /\ text[3 + n + 1 + 2 * n + 1] = last[1]
  BY DEF Parts, Joins
<1>9. ASSUME NEW i \in 1 .. 3 + n + 1 PROVE text[i] = b[i]
  <2>1. i \in 1 .. 3 + n + 1 + 2 * n OBVIOUS
  <2> QED BY <1>7, <1>8, <2>1
<1>10. ASSUME NEW i \in 1 .. 3 + n PROVE text[i] = a[i]
  <2>1. i \in 1 .. 3 + n + 1 OBVIOUS
  <2> QED BY <1>6, <1>9, <2>1
<1>11. text[1] = top[1] /\ text[2] = top[2] /\ text[3] = top[3]
  <2>1. \A i \in 1 .. 3 : i \in 1 .. 3 + n OBVIOUS
  <2>2. \A i \in 1 .. 3 : text[i] = top[i] BY <1>5, <1>10, <2>1
  <2> QED BY <2>2
<1>12. ASSUME NEW k \in 1 .. n PROVE text[k + 3] = mappings[k]
  <2>1. k + 3 = 3 + k /\ 3 + k \in 1 .. 3 + n OBVIOUS
  <2> QED BY <1>5, <1>10, <2>1
<1>13. text[n + 4] = middle[1]
  <2>1. n + 4 = 3 + n + 1 /\ 3 + n + 1 \in 1 .. 3 + n + 1 OBVIOUS
  <2> QED BY <1>6, <1>9, <2>1
<1>14. ASSUME NEW j \in 1 .. 2 * n PROVE text[n + 4 + j] = settings[j]
  <2>1. n + 4 + j = 3 + n + 1 + j /\ 3 + n + 1 + j \in 1 .. 3 + n + 1 + 2 * n OBVIOUS
  <2> QED BY <1>7, <1>8, <2>1
<1>15. text[3 * n + 5] = last[1]
  <2>1. 3 * n + 5 = 3 + n + 1 + 2 * n + 1 OBVIOUS
  <2> QED BY <1>8, <2>1
<1>16. Len(text) = 3 * n + 5
  BY <1>8
<1> QED BY <1>8, <1>11, <1>12, <1>13, <1>14, <1>15, <1>16 DEF Placement

\* The file for n devices: the mappings stand between their header and the next.
Written(text, n, devices) ==
    /\ text \in Seq(Line) /\ Len(text) = 3 * n + 5
    /\ text[1] = Header("instance_management") /\ text[2].kind = "pair"
    /\ text[3] = Header("instance_mappings") /\ text[n + 4] = Header("instance_settings")
    /\ text[3 * n + 5].kind = "header"
    /\ \A k \in 1 .. n : text[k + 3].kind = "pair" /\ text[k + 3].key.id = k
                         /\ text[k + 3].value = DeviceValue(Reread(GeneratedId(devices[k])))
    /\ \A j \in 1 .. 2 * n : text[n + 4 + j].kind = "pair"

LEMMA OutputLines ==
    ASSUME NEW devices, NEW n \in Nat, n = Min({MAX_INSTANCES, Len(devices)}), NEW base_port \in Int,
           \A k \in 1 .. n : Reread(GeneratedId(devices[k])) \in DeviceId
    PROVE  Written(output_ini(devices, base_port), n, devices)
<1> DEFINE mapping(k) == Pair(k, FALSE, Empty, DeviceValue(Reread(GeneratedId(devices[k]))))
           first == Header("instance_management")
           second == Pair(0, FALSE, "base_port", NumberValue(base_port))
           third == Header("instance_mappings")
           fourth == Header("instance_settings")
           fifth == Header("instance_aliases")
           top == <<first, second, third>>
           mappings == [k \in 1 .. n |-> mapping(k)]
           middle == <<fourth>>
           settings == [j \in 1 .. 2 * n |-> SettingLine(j)]
           last == <<fifth>>
           a == top \o mappings
           b == a \o middle
           c == b \o settings
           text == c \o last
<1>1. output_ini(devices, base_port) = text BY DEF output_ini
<1>2. ASSUME NEW k \in 1 .. n
      PROVE  /\ mapping(k) \in Line /\ mapping(k).kind = "pair" /\ mapping(k).key.id = k
             /\ mapping(k).value = DeviceValue(Reread(GeneratedId(devices[k])))
  <2>1. k \in Int OBVIOUS
  <2>2. Reread(GeneratedId(devices[k])) \in DeviceId OBVIOUS
  <2>3. DeviceValue(Reread(GeneratedId(devices[k]))) \in Value BY <2>2 DEF DeviceValue, Value
  <2>4. PICK v \in Value : v = DeviceValue(Reread(GeneratedId(devices[k]))) BY <2>3
  <2>5. Empty \in Text BY Names
  <2>6. PlainPair(k, Empty, v) BY <2>1, <2>5, PairType
  <2> QED BY <2>4, <2>6 DEF PlainPair
<1>3. first \in Line /\ third \in Line /\ fourth \in Line /\ fifth \in Line /\ fifth.kind = "header"
  BY Names, HeaderType
<1>4. second \in Line /\ second.kind = "pair"
  <2>1. 0 \in Int OBVIOUS
  <2>2. NumberValue(base_port) \in Value BY NumberValueType
  <2>3. "base_port" \in Text BY Names
  <2>4. PlainPair(0, "base_port", NumberValue(base_port)) BY <2>1, <2>2, <2>3, PairType
  <2> QED BY <2>4 DEF PlainPair
<1>5. \A j \in 1 .. 2 * n : SettingLine(j) \in Line /\ SettingLine(j).kind = "pair"
  <2>1. \A j \in 1 .. 2 * n : j \in Int OBVIOUS
  <2> QED BY <2>1, SettingLineType
<1> HIDE DEF mapping, first, second, third, fourth, fifth
<1>6. top \in Seq(Line) /\ Len(top) = 3 /\ top[1] = first /\ top[2] = second /\ top[3] = third
  BY <1>3, <1>4
<1>7. middle \in Seq(Line) /\ Len(middle) = 1 /\ middle[1] = fourth
  BY <1>3
<1>8. last \in Seq(Line) /\ Len(last) = 1 /\ last[1] = fifth
  BY <1>3
<1>9. mappings \in Seq(Line) /\ Len(mappings) = n /\ \A k \in 1 .. n : mappings[k] = mapping(k)
  <2>1. mappings \in [1 .. n -> Line] BY <1>2
  <2>2. \A k \in 1 .. n : mappings[k] = mapping(k) OBVIOUS
  <2> QED BY <2>1, <2>2, FunctionIsSeq
<1>10. settings \in Seq(Line) /\ Len(settings) = 2 * n /\ \A j \in 1 .. 2 * n : settings[j].kind = "pair"
  <2>1. PICK m \in Nat : m = 2 * n OBVIOUS
  <2>2. settings \in [1 .. m -> Line] BY <1>5, <2>1
  <2>3. \A j \in 1 .. 2 * n : settings[j].kind = "pair" BY <1>5
  <2> QED BY <2>1, <2>2, <2>3, FunctionIsSeq
<1> HIDE DEF top, mappings, middle, settings, last
<1>11. Joins(Line, top, 3, mappings, n, a)
  <2>1. PICK m \in Nat : m = 3 OBVIOUS
  <2>2. Joins(Line, top, m, mappings, n, a) BY <1>6, <1>9, <2>1, Joined
  <2> QED BY <2>1, <2>2
<1>12. a \in Seq(Line) /\ Len(a) = 3 + n BY <1>11 DEF Joins
<1> HIDE DEF a
<1>13. Joins(Line, a, 3 + n, middle, 1, b)
  <2>1. PICK m \in Nat : m = 3 + n OBVIOUS
  <2>2. PICK k \in Nat : k = 1 OBVIOUS
  <2>3. Joins(Line, a, m, middle, k, b) BY <1>7, <1>12, <2>1, <2>2, Joined
  <2> QED BY <2>1, <2>2, <2>3
<1>14. b \in Seq(Line) /\ Len(b) = 3 + n + 1 BY <1>13 DEF Joins
<1> HIDE DEF b
<1>15. Joins(Line, b, 3 + n + 1, settings, 2 * n, c)
  <2>1. PICK m \in Nat : m = 3 + n + 1 OBVIOUS
  <2>2. PICK k \in Nat : k = 2 * n OBVIOUS
  <2>3. Joins(Line, b, m, settings, k, c) BY <1>10, <1>14, <2>1, <2>2, Joined
  <2> QED BY <2>1, <2>2, <2>3
<1>16. c \in Seq(Line) /\ Len(c) = 3 + n + 1 + 2 * n BY <1>15 DEF Joins
<1> HIDE DEF c
<1>17. Joins(Line, c, 3 + n + 1 + 2 * n, last, 1, text)
  <2>1. PICK m \in Nat : m = 3 + n + 1 + 2 * n OBVIOUS
  <2>2. PICK k \in Nat : k = 1 OBVIOUS
  <2>3. Joins(Line, c, m, last, k, text) BY <1>8, <1>16, <2>1, <2>2, Joined
  <2> QED BY <2>1, <2>2, <2>3
<1> HIDE DEF text
<1>18. Placement(n, top, mappings, middle, settings, last, text)
  <2>1. Parts(n, top, mappings, middle, settings, last, a, b, c, text)
    BY <1>11, <1>13, <1>15, <1>17 DEF Parts
  <2> QED BY <2>1, FiveParts
<1>19. Written(text, n, devices)
  <2>1. /\ text \in Seq(Line) /\ Len(text) = 3 * n + 5
        /\ text[1] = first /\ text[2] = second /\ text[3] = third /\ text[n + 4] = fourth /\ text[3 * n + 5] = fifth
    BY <1>6, <1>7, <1>8, <1>18 DEF Placement
  <2>2. ASSUME NEW k \in 1 .. n
        PROVE  text[k + 3].kind = "pair" /\ text[k + 3].key.id = k
               /\ text[k + 3].value = DeviceValue(Reread(GeneratedId(devices[k])))
    <3>1. text[k + 3] = mapping(k) BY <1>9, <1>18 DEF Placement
    <3> QED BY <1>2, <3>1
  <2>3. ASSUME NEW j \in 1 .. 2 * n PROVE text[n + 4 + j].kind = "pair"
    <3>1. text[n + 4 + j] = settings[j] BY <1>18 DEF Placement
    <3> QED BY <1>10, <3>1
  <2> QED BY <1>3, <1>4, <2>1, <2>2, <2>3 DEF Written, first, third, fourth
<1> QED BY <1>1, <1>19

\* Read as a whole, that file maps each of its instances once, to its device.
LEMMA WrittenMaps ==
    ASSUME NEW n \in Nat, NEW devices, Written(file, n, devices), NEW k \in 1 .. n
    PROVE  /\ Mappings(k) = {k + 3} /\ Max(Mappings(k)) = k + 3
           /\ file[k + 3].value = DeviceValue(Reread(GeneratedId(devices[k])))
<1> DEFINE before(i) == {j \in 1 .. i - 1 : file[j].kind = "header"}
<1>1. /\ file \in Seq(Line) /\ Len(file) = 3 * n + 5 /\ DOMAIN file = 1 .. 3 * n + 5
  BY DEF Written
<1>2. /\ file[1].kind = "header" /\ file[1].name = "instance_management"
      /\ file[3].kind = "header" /\ file[3].name = "instance_mappings"
      /\ file[n + 4].kind = "header" /\ file[n + 4].name = "instance_settings"
      /\ file[3 * n + 5].kind = "header" /\ file[2].kind = "pair"
  BY Names, HeaderType DEF Written
<1>3. /\ \A i \in 1 .. n : file[i + 3].kind = "pair" /\ file[i + 3].key.id = i
                           /\ file[i + 3].value = DeviceValue(Reread(GeneratedId(devices[i])))
      /\ \A j \in 1 .. 2 * n : file[n + 4 + j].kind = "pair"
  BY DEF Written
<1>4. \A i \in 4 .. n + 3 : file[i].kind = "pair"
  <2> SUFFICES ASSUME NEW i \in 4 .. n + 3 PROVE file[i].kind = "pair"
    OBVIOUS
  <2>1. i - 3 \in 1 .. n /\ (i - 3) + 3 = i OBVIOUS
  <2> QED BY <1>3, <2>1
<1>5. \A i \in n + 5 .. 3 * n + 4 : file[i].kind = "pair"
  <2> SUFFICES ASSUME NEW i \in n + 5 .. 3 * n + 4 PROVE file[i].kind = "pair"
    OBVIOUS
  <2>1. i - n - 4 \in 1 .. 2 * n /\ n + 4 + (i - n - 4) = i OBVIOUS
  <2> QED BY <1>3, <2>1
<1>6. \A i : before(i) \in SUBSET Int
  OBVIOUS
<1>7. ASSUME NEW i \in 4 .. n + 3 PROVE SectionOf(i) = "instance_mappings"
  <2>1. 3 \in before(i) BY <1>2
  <2>2. \A j \in before(i) : j <= 3
    <3> SUFFICES ASSUME NEW j \in before(i) PROVE j <= 3
      OBVIOUS
    <3>1. j \in 1 .. i - 1 /\ file[j].kind # "pair" OBVIOUS
    <3>2. j \notin 4 .. n + 3 BY <1>4, <3>1
    <3> QED BY <3>1, <3>2
  <2> HIDE DEF before
  <2>3. Max(before(i)) = 3 /\ before(i) # {} BY <1>6, <2>1, <2>2, IsMax
  <2> QED BY <1>2, <2>3 DEF SectionOf, before, parse_section, Sections
<1>8. ASSUME NEW i \in n + 5 .. 3 * n + 4 PROVE SectionOf(i) = "instance_settings"
  <2>1. n + 4 \in before(i) BY <1>2
  <2>2. \A j \in before(i) : j <= n + 4
    <3> SUFFICES ASSUME NEW j \in before(i) PROVE j <= n + 4
      OBVIOUS
    <3>1. j \in 1 .. i - 1 /\ file[j].kind # "pair" OBVIOUS
    <3>2. j \notin n + 5 .. 3 * n + 4 BY <1>5, <3>1
    <3> QED BY <3>1, <3>2
  <2> HIDE DEF before
  <2>3. Max(before(i)) = n + 4 /\ before(i) # {} BY <1>6, <2>1, <2>2, IsMax
  <2> QED BY <1>2, <2>3 DEF SectionOf, before, parse_section, Sections
<1>9. SectionOf(2) = "instance_management"
  <2>1. 1 \in before(2) /\ \A j \in before(2) : j <= 1 BY <1>2
  <2> HIDE DEF before
  <2>2. Max(before(2)) = 1 /\ before(2) # {} BY <1>6, <2>1, IsMax
  <2> QED BY <1>2, <2>2 DEF SectionOf, before, parse_section, Sections
<1>10. \A i \in PairsIn("instance_mappings") : i \in 4 .. n + 3
  <2> SUFFICES ASSUME NEW i \in PairsIn("instance_mappings") PROVE i \in 4 .. n + 3
    OBVIOUS
  <2>1. i \in 1 .. 3 * n + 5 /\ file[i].kind = "pair" /\ SectionOf(i) = "instance_mappings"
    BY <1>1 DEF PairsIn
  <2>2. i # 1 /\ i # 3 /\ i # n + 4 /\ i # 3 * n + 5 BY <1>2, <2>1
  <2>3. i # 2 /\ i \notin n + 5 .. 3 * n + 4 BY <1>8, <1>9, <2>1
  <2> QED BY <2>1, <2>2, <2>3
<1>11. k + 3 \in Mappings(k)
  <2>1. k + 3 \in 4 .. n + 3 /\ k + 3 \in DOMAIN file BY <1>1
  <2> QED BY <1>3, <1>7, <2>1 DEF Mappings, PairsIn
<1>12. \A i \in Mappings(k) : i = k + 3
  <2> SUFFICES ASSUME NEW i \in Mappings(k) PROVE i = k + 3
    OBVIOUS
  <2>1. i \in 4 .. n + 3 /\ file[i].key.id = k BY <1>10 DEF Mappings
  <2>2. i - 3 \in 1 .. n /\ (i - 3) + 3 = i BY <2>1
  <2>3. file[i].key.id = i - 3 BY <1>3, <2>2
  <2> QED BY <2>1, <2>3
<1>13. Mappings(k) = {k + 3} BY <1>11, <1>12
<1>14. Max(Mappings(k)) = k + 3
  <2>1. Mappings(k) \in SUBSET Int /\ \A j \in Mappings(k) : j <= k + 3 BY <1>12, <1>13
  <2> QED BY <1>11, <2>1, IsMax
<1> QED BY <1>3, <1>13, <1>14

\* The scan of a bus gives a file within its types.
LEMMA ScanWritten ==
    ASSUME NEW b \in Buses, NEW p \in Ports \cup {DEFAULT_BASE_PORT},
           NEW n, n = Min({MAX_INSTANCES, Len(device_manager_scan(b))})
    PROVE  n \in Nat /\ Written(output_ini(device_manager_scan(b), p), n, device_manager_scan(b))
<1>1. PICK devices : devices = device_manager_scan(b) OBVIOUS
<1>2. /\ Len(devices) \in Nat /\ DOMAIN devices = 1 .. Len(devices)
      /\ \A j \in DOMAIN devices : \E k \in DOMAIN b :
           /\ devices[j].serial = b[k].serial /\ b[k].serial \in Text
           /\ devices[j].index = k
           /\ {bus_location(k), stripped(bus_location(k)), stripped(b[k].serial)} \subseteq Text
  BY <1>1, ScanLists
<1>3. n \in Nat /\ n <= Len(devices)
  <2>1. MAX_INSTANCES \in Nat BY ConfigAssumption
  <2>2. n = Min({MAX_INSTANCES, Len(devices)}) BY <1>1
  <2>3. n = IF MAX_INSTANCES <= Len(devices) THEN MAX_INSTANCES ELSE Len(devices)
    BY <1>2, <2>1, <2>2, MinTwo
  <2> QED BY <1>2, <2>1, <2>3
<1>4. \A k \in 1 .. n : Reread(GeneratedId(devices[k])) \in DeviceId
  <2> SUFFICES ASSUME NEW k \in 1 .. n PROVE Reread(GeneratedId(devices[k])) \in DeviceId
    OBVIOUS
  <2>1. k \in DOMAIN devices BY <1>2, <1>3
  <2>2. stripped(devices[k].serial) \in Text /\ stripped(bus_location(devices[k].index)) \in Text
    <3>1. PICK i \in DOMAIN b :
            /\ devices[k].serial = b[i].serial /\ devices[k].index = i
            /\ {bus_location(i), stripped(bus_location(i)), stripped(b[i].serial)} \subseteq Text
      BY <1>2, <2>1
    <3> QED BY <3>1
  <2>3. Reread(GeneratedId(devices[k])).type \in {"SN", "BUS"}
        /\ Reread(GeneratedId(devices[k])).value \in Text
    BY <2>2 DEF GeneratedId, Reread
  <2> QED BY <2>3 DEF GeneratedId, Reread, DeviceId
<1>5. p \in Int
  <2>1. DEFAULT_BASE_PORT \in Int BY SMT DEF DEFAULT_BASE_PORT
  <2> QED BY <2>1, StartupAssumption
<1> QED BY <1>1, <1>3, <1>4, <1>5, OutputLines

-----------------------------------------------------------------------------
(* The invariant holds in every state. *)

LEMMA InitInv == Init => IInv
<1> SUFFICES ASSUME Init PROVE IInv
  OBVIOUS
<1>1. AtFirst BY DEF Init, AtFirst
<1>2. Loaded /\ section = SectionOf(at) BY <1>1, NothingRead
<1>3. config \in Configs BY InitTyped DEF Init
<1>4. at \in 1 .. Len(file) + 1 BY DEF Init
<1>5. Placed BY <1>1, <1>2, <1>4 DEF Placed, Init, AtFirst
<1>6. Surveyed /\ ListsLoaded BY DEF Init, Surveyed, ListsLoaded
<1> QED BY <1>2, <1>3, <1>5, <1>6 DEF IInv

\* A new file: nothing of it has been read.
LEMMA NewFile ==
    ASSUME Placed, pc = "begin", file' \in Seq(Line), pc' = "load",
           UNCHANGED <<at, section, config, port_override>>
    PROVE  Placed' /\ Loaded' /\ config' \in Configs
<1>1. AtFirst BY DEF Placed
<1>2. AtFirst' BY <1>1 DEF AtFirst
<1>3. Loaded' /\ (section = SectionOf(at))' BY <1>2, NothingRead, PTL
<1>4. config' \in Configs BY <1>2, InitTyped DEF AtFirst
<1>5. at' \in 1 .. Len(file') + 1 BY <1>2 DEF AtFirst
<1> QED BY <1>2, <1>3, <1>4, <1>5 DEF Placed, AtFirst

\* Steps that leave the file, the place in it and the configuration alone.
LEMMA PlacedStays ==
    ASSUME Placed, UNCHANGED <<file, at, section, config, port_override>>,
           \/ pc' = pc
           \/ pc' = "exit"
           \/ pc = "start" /\ pc' = "run"
           \/ pc = "load" /\ pc' = "start" /\ at > Len(file)
    PROVE  Placed'
<1>1. SectionOf(at)' = SectionOf(at) BY PlaceStays
<1>2. AtFirst => AtFirst' BY DEF AtFirst
<1>3. at > Len(file) => at = Len(file) + 1 BY DEF Placed
<1> QED BY <1>1, <1>2, <1>3 DEF Placed

LEMMA NextInv == IInv /\ [Next]_vars => IInv'
<1> SUFFICES ASSUME IInv, [Next]_vars PROVE IInv'
  OBVIOUS
<1>0. Placed /\ config \in Configs /\ Loaded /\ Surveyed /\ ListsLoaded BY DEF IInv
<1>1. CASE Discover
  <2>1. PICK p \in Ports \cup {DEFAULT_BASE_PORT} : file' = output_ini(device_manager_scan(bus), p)
    BY <1>1 DEF Discover
  <2>2. bus \in Buses BY <1>0 DEF Surveyed
  <2>3. file' \in Seq(Line) BY <2>1, <2>2, ScanWritten DEF Written
  <2>4. /\ pc = "begin" /\ pc' = "load" /\ surveyed' = bus /\ bus' = bus
        /\ UNCHANGED <<at, section, config, port_override>>
    BY <1>1 DEF Discover
  <2>5. Placed' /\ Loaded' /\ config' \in Configs BY <1>0, <2>3, <2>4, NewFile
  <2>6. Surveyed' BY <2>1, <2>2, <2>4 DEF Surveyed
  <2>7. ListsLoaded' BY <2>4 DEF ListsLoaded
  <2> QED BY <2>5, <2>6, <2>7 DEF IInv
<1>2. CASE WriteFile
  <2>1. file' \in Seq(Line) BY <1>2, StartupAssumption DEF WriteFile
  <2>2. /\ pc = "begin" /\ pc' = "load" /\ surveyed' = surveyed /\ bus' = bus
        /\ UNCHANGED <<at, section, config, port_override>>
    BY <1>2 DEF WriteFile
  <2>3. Placed' /\ Loaded' /\ config' \in Configs BY <1>0, <2>1, <2>2, NewFile
  <2>4. Surveyed' BY <1>0, <2>2 DEF Surveyed
  <2>5. ListsLoaded' BY <2>2 DEF ListsLoaded
  <2> QED BY <2>3, <2>4, <2>5 DEF IInv
<1>3. CASE Replug
  <2>1. /\ pc = "load" /\ pc' = "load" /\ surveyed # <<>> /\ bus = surveyed /\ surveyed' = surveyed
        /\ bus' \in Buses /\ Range(bus') = Range(bus)
        /\ UNCHANGED <<file, at, section, config, port_override>>
    BY <1>3 DEF Replug
  <2>2. Placed' BY <1>0, <2>1, PlacedStays
  <2>3. Loaded' BY <1>0, <2>1, LoadedStays
  <2>4. Surveyed' BY <1>0, <2>1 DEF Surveyed
  <2>5. ListsLoaded' BY <2>1 DEF ListsLoaded
  <2> QED BY <1>0, <2>1, <2>2, <2>3, <2>4, <2>5 DEF IInv
<1>4. CASE LoadFails \/ DaemonFails
  <2>1. /\ pc' = "exit" /\ UNCHANGED <<bus, surveyed, file, at, section, config, port_override>>
    BY <1>4 DEF LoadFails, DaemonFails
  <2>2. Placed' BY <1>0, <2>1, PlacedStays
  <2>3. Loaded' BY <1>0, <2>1, LoadedStays
  <2>4. Surveyed' BY <1>0, <2>1 DEF Surveyed
  <2>5. ListsLoaded' BY <2>1 DEF ListsLoaded
  <2> QED BY <1>0, <2>1, <2>2, <2>3, <2>4, <2>5 DEF IInv
<1>5. CASE ReadLine
  <2>1. Placed' /\ file' = file BY <1>0, <1>5, ReadPlaces
  <2>2. config' \in Configs BY <1>0, <1>5, ReadEffect
  <2>3. \A n \in 1 .. MAX_INSTANCES : Mapped(n) /\ Frequency(n) /\ LockTimeout(n) /\ Whitelisted(n)
    BY <1>0 DEF Loaded
  <2>4. Counted /\ PortsFollow BY <1>0 DEF Loaded
  <2>5. ASSUME NEW n \in 1 .. MAX_INSTANCES
        PROVE  (Mapped(n) /\ Frequency(n) /\ LockTimeout(n) /\ Whitelisted(n))'
    BY <1>0, <1>5, <2>3, ReadMapped, ReadFrequency, ReadLockTimeout, ReadWhitelisted
  <2>6. Counted' BY <1>0, <1>5, <2>4, ReadCounted
  <2>7. PortsFollow' BY <1>0, <1>5, <2>3, <2>4, ReadPortsFollow
  <2>8. Loaded' BY <2>5, <2>6, <2>7 DEF Loaded
  <2>9. pc = "load" /\ pc' = pc /\ UNCHANGED <<bus, surveyed>> BY <1>5 DEF ReadLine
  <2>10. Surveyed' BY <1>0, <2>1, <2>9 DEF Surveyed
  <2>11. ListsLoaded' BY <2>9 DEF ListsLoaded
  <2> QED BY <2>1, <2>2, <2>8, <2>10, <2>11 DEF IInv
<1>6. CASE LoadDone
  <2>1. config' \in Configs /\ Loaded' BY <1>0, <1>6, LoadDoneLoaded
  <2>2. /\ pc = "load" /\ pc' = "start" /\ at > Len(file)
        /\ UNCHANGED <<bus, surveyed, file, at, section>>
    BY <1>6 DEF LoadDone
  <2>3. Placed'
    <3>1. SectionOf(at)' = SectionOf(at) BY <2>2, PlaceStays
    <3>2. at = Len(file) + 1 BY <1>0, <2>2 DEF Placed
    <3> QED BY <1>0, <2>2, <3>1, <3>2 DEF Placed
  <2>4. Surveyed' BY <1>0, <2>2 DEF Surveyed
  <2>5. ListsLoaded' BY <2>2 DEF ListsLoaded
  <2> QED BY <2>1, <2>3, <2>4, <2>5 DEF IInv
<1>7. CASE Start
  <2>1. /\ pc = "start" /\ pc' = "run" /\ UNCHANGED <<bus, surveyed, file, at, section, config, port_override>>
        /\ zero_shift' \in ZeroShifts
        /\ whitelist' = [n \in Running(config) |->
                whitelist_load(config.instances[n].whitelist_mode, config.instances[n].whitelist)]
    BY <1>7 DEF Start
  <2>2. Placed' BY <1>0, <2>1, PlacedStays
  <2>3. Loaded' BY <1>0, <2>1, LoadedStays
  <2>4. Surveyed' BY <1>0, <2>1 DEF Surveyed
  <2>5. Running(config)' = Running(config) BY <2>1
  <2>6. ListsLoaded' BY <2>1, <2>5 DEF ListsLoaded
  <2> QED BY <1>0, <2>1, <2>2, <2>3, <2>4, <2>6 DEF IInv
<1>8. CASE Settled \/ UNCHANGED vars
  <2>1. UNCHANGED vars BY <1>8 DEF Settled
  <2>2. UNCHANGED <<bus, surveyed, file, at, section, config, port_override, whitelist, zero_shift, pc>>
    BY <2>1 DEF vars
  <2>3. Placed' BY <1>0, <2>2, PlacedStays
  <2>4. Loaded' BY <1>0, <2>2, LoadedStays
  <2>5. Surveyed' BY <1>0, <2>2 DEF Surveyed
  <2>6. ListsLoaded' BY <1>0, <2>2 DEF ListsLoaded
  <2> QED BY <1>0, <2>2, <2>3, <2>4, <2>5, <2>6 DEF IInv
<1> QED BY <1>1, <1>2, <1>3, <1>4, <1>5, <1>6, <1>7, <1>8 DEF Next

\* What config_load has made of the lines read so far is what they say, on every path
\* from the command line to the running instances.
THEOREM LinesTracked == Spec => []IInv
BY InitInv, NextInv, PTL DEF Spec
-----------------------------------------------------------------------------
(* What follows for a file that has been read to its end. *)

\* At the end of the file every line of it has been read.
LEMMA AllRead ==
    ASSUME file \in Seq(Line), at = Len(file) + 1, NEW lines \in SUBSET (1 .. Len(file))
    PROVE  Upto(lines, at) = lines
<1>1. \A j \in lines : j < at OBVIOUS
<1> QED BY <1>1 DEF Upto

\* The file as a whole, in a running server.
LEMMA RunLoaded ==
    ASSUME IInv, pc = "run", NEW n \in 1 .. MAX_INSTANCES
    PROVE  /\ file \in Seq(Line)
           /\ config.instances[n].enabled = (Mappings(n) # {})
           /\ Mappings(n) # {} =>
                /\ config.instances[n].device_id = config_parse_device_id(file[Max(Mappings(n))].value)
                /\ n <= config.instance_count
           /\ config.instances[n].frequency = LastNumber(Settings(n, "frequency"), DEFAULT_FREQUENCY) % UINT_RANGE
           /\ Settings(n, "client_lock_timeout") # {} =>
                config.instances[n].client_lock_timeout = Max({0, LastNumber(Settings(n, "client_lock_timeout"), 0)})
           /\ Holds(config.instances[n].whitelist, ListLines(n), file)
<1>1. file \in Seq(Line) /\ at = Len(file) + 1 BY DEF IInv, Placed
<1>2. /\ Upto(Mappings(n), at) = Mappings(n) /\ Upto(ListLines(n), at) = ListLines(n)
      /\ Upto(Settings(n, "frequency"), at) = Settings(n, "frequency")
      /\ Upto(Settings(n, "client_lock_timeout"), at) = Settings(n, "client_lock_timeout")
  BY <1>1, AllRead, LinesInFile
<1>3. Mapped(n) /\ Frequency(n) /\ LockTimeout(n) /\ Whitelisted(n) BY DEF IInv, Loaded
<1>4. /\ config.instances[n].enabled = (Mappings(n) # {})
      /\ Mappings(n) # {} =>
            /\ config.instances[n].device_id = config_parse_device_id(file[Max(Mappings(n))].value)
            /\ n <= config.instance_count
  BY <1>2, <1>3 DEF Mapped
<1>5. config.instances[n].frequency = LastNumber(Settings(n, "frequency"), DEFAULT_FREQUENCY) % UINT_RANGE
  BY <1>2, <1>3 DEF Frequency
<1>6. Settings(n, "client_lock_timeout") # {} =>
        config.instances[n].client_lock_timeout = Max({0, LastNumber(Settings(n, "client_lock_timeout"), 0)})
  BY <1>2, <1>3 DEF LockTimeout
<1>7. Holds(config.instances[n].whitelist, ListLines(n), file)
  BY <1>2, <1>3 DEF Whitelisted
<1> QED BY <1>1, <1>4, <1>5, <1>6, <1>7

\* The instances that run are the enabled ones.
LEMMA RunningEnabled ==
    ASSUME IInv
    PROVE  \A n : n \in Running(config) <=>
                    n \in 1 .. MAX_INSTANCES /\ n <= config.instance_count /\ config.instances[n].enabled
<1>1. config \in Configs /\ MAX_INSTANCES \in Nat \ {0} BY ConfigAssumption DEF IInv
<1>2. config.instance_count \in 0 .. MAX_INSTANCES BY <1>1 DEF Configs
<1>3. CASE Single(config)
  <2>1. Running(config) = {1} /\ config.instance_count = 1 /\ config.instances[1].enabled
    BY <1>3 DEF Running, Single
  <2>2. \A n : n \in 1 .. MAX_INSTANCES /\ n <= 1 <=> n = 1 BY <1>1
  <2> QED BY <2>1, <2>2
<1>4. CASE ~Single(config)
  <2>1. Running(config) = {n \in 1 .. config.instance_count : config.instances[n].enabled}
    BY <1>4 DEF Running
  <2>2. \A n : n \in 1 .. config.instance_count <=> n \in 1 .. MAX_INSTANCES /\ n <= config.instance_count
    BY <1>1, <1>2
  <2> QED BY <2>1, <2>2
<1> QED BY <1>3, <1>4

\* config_load hands over ports, sizes, times and lists within their ranges, whatever
\* the file says.
LEMMA TypedConfig == IInv => TypeOK
<1> SUFFICES ASSUME IInv PROVE TypeOK
  OBVIOUS
<1>1. /\ pc \in {"begin", "load", "start", "run", "exit"} /\ at \in 1 .. Len(file) + 1
      /\ file \in Seq(Line) /\ section = SectionOf(at) /\ config \in Configs
  BY DEF IInv, Placed
<1>2. section \in Sections \cup {"none"} BY <1>1 DEF SectionOf, parse_section
<1>3. config.instance_count \in 0 .. MAX_INSTANCES /\ DOMAIN config.instances = 1 .. MAX_INSTANCES
  BY <1>1 DEF Configs
<1>4. ASSUME NEW n \in 1 .. MAX_INSTANCES
      PROVE  /\ config.instances[n].xvc_buffer_size \in MIN_XVC_BUFFER_SIZE .. MAX_XVC_BUFFER_SIZE
             /\ config.instances[n].client_lock_timeout \in Nat /\ config.instances[n].frequency \in Nat
             /\ Len(config.instances[n].whitelist) <= MAX_ENTRIES
  <2>1. config.instances[n] \in InstanceConfig BY <1>1, ConfigFields
  <2>2. /\ config.instances[n].xvc_buffer_size \in BufferSizes
        /\ config.instances[n].client_lock_timeout \in Nat /\ config.instances[n].frequency \in Nat
    BY <2>1 DEF InstanceConfig
  <2>3. Len(config.instances[n].whitelist) = Min({MAX_ENTRIES, Cardinality(Upto(ListLines(n), at))})
    BY DEF IInv, Loaded, Whitelisted, Holds
  <2>4. Upto(ListLines(n), at) \in SUBSET (1 .. Len(file)) BY <1>1, LinesInFile DEF Upto
  <2>0. Len(file) \in Nat BY <1>1
  <2>5. Cardinality(Upto(ListLines(n), at)) \in Nat BY <2>0, <2>4, FiniteInRange
  <2>6. MAX_ENTRIES \in Nat BY ConfigAssumption
  <2>7. Len(config.instances[n].whitelist) <= MAX_ENTRIES BY <2>3, <2>5, <2>6, MinTwo
  <2> QED BY <2>2, <2>7 DEF BufferSizes
<1> QED BY <1>1, <1>2, <1>3, <1>4 DEF TypeOK

\* config_load hands over ports, sizes, times and lists within the ranges that the
\* server and the protocol handler rely on, whatever the file says.
THEOREM ConfigTypeCorrect == Spec => []TypeOK
BY LinesTracked, TypedConfig, PTL

LEMMA MappingsRun == IInv => EveryMappingRuns
<1> SUFFICES ASSUME IInv, pc = "run"
             PROVE  /\ Running(config) = {n \in 1 .. MAX_INSTANCES : Mappings(n) # {}}
                    /\ port_override # 0 \/ BasePortFirst =>
                         \A n \in Running(config) : config.instances[n].port = config.base_port + n - 1
  BY DEF EveryMappingRuns, BasePortFirst
<1>1. Running(config) = {n \in 1 .. MAX_INSTANCES : Mappings(n) # {}}
  <2>1. ASSUME NEW n \in 1 .. MAX_INSTANCES
        PROVE  Mappings(n) # {} <=> n <= config.instance_count /\ config.instances[n].enabled
    BY RunLoaded
  <2> QED BY <2>1, RunningEnabled
<1>2. ASSUME port_override # 0 \/ BasePortFirst, NEW n \in Running(config)
      PROVE  config.instances[n].port = config.base_port + n - 1
  <2>1. n \in 1 .. MAX_INSTANCES /\ config.instances[n].enabled BY RunningEnabled
  <2> QED BY <1>2, <2>1 DEF IInv, Loaded, PortsFollow
<1> QED BY <1>1, <1>2

\* Every instance that the file maps is run by main, and no other, in single-instance
\* mode too, also when the ids have gaps or come in another order; its port is
\* base_port + id - 1, with the --port option or when the file gives its base_port
\* before it maps an instance.
THEOREM MappedInstancesRun == Spec => []EveryMappingRuns
BY LinesTracked, MappingsRun, PTL

LEMMA LoadedAsWritten == IInv => LoadsAsWritten
<1> SUFFICES ASSUME IInv, pc = "run", NEW n \in 1 .. MAX_INSTANCES
             PROVE  LET c == config.instances[n]
                        last(lines, default) == IF lines = {} THEN default ELSE Number(file[Max(lines)].value)
                    IN /\ c.enabled = (Mappings(n) # {})
                       /\ c.enabled => c.device_id = config_parse_device_id(file[Max(Mappings(n))].value)
                       /\ c.frequency = last(Settings(n, "frequency"), DEFAULT_FREQUENCY) % UINT_RANGE
                       /\ Settings(n, "client_lock_timeout") # {} =>
                            c.client_lock_timeout = Max({0, last(Settings(n, "client_lock_timeout"), 0)})
                       /\ Len(c.whitelist) = Min({MAX_ENTRIES, Cardinality(Entries(n, {"allow_", "block_"}))})
  BY DEF LoadsAsWritten
<1>1. /\ config.instances[n].enabled = (Mappings(n) # {})
      /\ config.instances[n].enabled =>
            config.instances[n].device_id = config_parse_device_id(file[Max(Mappings(n))].value)
  BY RunLoaded
<1>2. config.instances[n].frequency = LastNumber(Settings(n, "frequency"), DEFAULT_FREQUENCY) % UINT_RANGE
  BY RunLoaded
<1>3. Settings(n, "client_lock_timeout") # {} =>
        config.instances[n].client_lock_timeout = Max({0, LastNumber(Settings(n, "client_lock_timeout"), 0)})
  BY RunLoaded
<1>4. Len(config.instances[n].whitelist) = Min({MAX_ENTRIES, Cardinality(Entries(n, {"allow_", "block_"}))})
  BY RunLoaded DEF Holds, ListLines
<1> QED BY <1>1, <1>2, <1>3, <1>4 DEF LastNumber

\* Whatever the file: reading it line by line comes to what it says when it is read
\* as a whole.
THEOREM FilesLoadAsWritten == Spec => []LoadsAsWritten
BY LinesTracked, LoadedAsWritten, PTL
-----------------------------------------------------------------------------
(* The devices of a file that xvc-discover wrote. *)

LEMMA DiscoveredOpened == IInv => DiscoveredIsOpened
<1> SUFFICES ASSUME IInv, pc = "run", surveyed # <<>>, NEW k \in DOMAIN device_manager_scan(surveyed),
                    k <= MAX_INSTANCES, device_manager_scan(surveyed)[k].serial # Empty,
                    stripped(device_manager_scan(surveyed)[k].serial) = device_manager_scan(surveyed)[k].serial
             PROVE  k \in Running(config) /\ Opened(k) = device_manager_scan(surveyed)[k].serial
  BY DEF DiscoveredIsOpened
<1>1. PICK found : found = device_manager_scan(surveyed) OBVIOUS
<1>2. PICK n : n = Min({MAX_INSTANCES, Len(found)}) OBVIOUS
<1>3. PICK p \in Ports \cup {DEFAULT_BASE_PORT} : file = output_ini(found, p)
  BY <1>1 DEF IInv, Surveyed
<1>4. surveyed \in Buses /\ bus \in Buses /\ Range(bus) = Range(surveyed) BY DEF IInv, Surveyed
<1>5. n \in Nat /\ Written(file, n, found) BY <1>1, <1>2, <1>3, <1>4, ScanWritten
<1>6. /\ Len(found) \in Nat /\ DOMAIN found = 1 .. Len(found)
      /\ \E j \in DOMAIN surveyed : found[k].serial = surveyed[j].serial
  BY <1>1, <1>4, ScanLists
<1>7. MAX_INSTANCES \in Nat \ {0} BY ConfigAssumption
<1>8. k \in 1 .. n /\ k \in 1 .. MAX_INSTANCES
  <2>1. n = IF MAX_INSTANCES <= Len(found) THEN MAX_INSTANCES ELSE Len(found)
    BY <1>2, <1>6, <1>7, MinTwo
  <2>2. PICK top \in Nat : top = Len(found) BY <1>6
  <2>3. k \in 1 .. top BY <1>1, <1>6, <2>2
  <2>4. n = IF MAX_INSTANCES <= top THEN MAX_INSTANCES ELSE top BY <2>1, <2>2
  <2> QED BY <1>7, <2>3, <2>4
<1>9. /\ Mappings(k) = {k + 3} /\ Max(Mappings(k)) = k + 3
      /\ file[k + 3].value = DeviceValue(Reread(GeneratedId(found[k])))
  BY <1>5, <1>8, WrittenMaps
<1>10. Mappings(k) # {} BY <1>9
<1>11. /\ config.instances[k].device_id = config_parse_device_id(file[k + 3].value)
       /\ config.instances[k].enabled = TRUE /\ k <= config.instance_count
  BY <1>8, <1>9, <1>10, RunLoaded
<1>12. config.instances[k].device_id.value = found[k].serial
  <2>1. GeneratedId(found[k]) = [type |-> "SN", value |-> found[k].serial] BY <1>1 DEF GeneratedId
  <2>2. config.instances[k].device_id = Reread(GeneratedId(found[k]))
    BY <1>9, <1>11 DEF config_parse_device_id, DeviceValue
  <2>3. stripped(found[k].serial) = found[k].serial BY <1>1
  <2> QED BY <2>1, <2>2, <2>3 DEF Reread
<1>13. \E j \in DOMAIN bus : bus[j].serial = found[k].serial
  <2>1. PICK j \in DOMAIN surveyed : found[k].serial = surveyed[j].serial BY <1>6
  <2>2. surveyed[j] \in Range(bus) BY <1>4 DEF Range
  <2>3. PICK i \in DOMAIN bus : bus[i] = surveyed[j] BY <2>2 DEF Range
  <2> QED BY <2>1, <2>3
<1>14. Opened(k) = found[k].serial BY <1>1, <1>12, <1>13 DEF Opened
<1>15. k \in Running(config) BY <1>8, <1>11, RunningEnabled
<1> QED BY <1>1, <1>14, <1>15

\* Each device with a serial number that xvc-discover found, as far as there are
\* instances for them, is opened by an instance of its own, also when the bus is in
\* another order by then.
THEOREM DiscoveredDevicesOpen == Spec => []DiscoveredIsOpened
BY LinesTracked, DiscoveredOpened, PTL

-----------------------------------------------------------------------------
(* The lists of addresses. *)

\* Two numbers agree above their last digits when they are in one block of numbers.
LEMMA SameBlock ==
    ASSUME NEW a \in Int, NEW b \in Int, NEW size \in Nat \ {0}
    PROVE  a \div size = b \div size <=> a \in b - (b % size) .. b - (b % size) + size - 1
<1>1. PICK q \in Int, r \in Int : q = b \div size /\ r = b % size OBVIOUS
<1>2. PICK u \in Int, v \in Int : u = a \div size /\ v = a % size OBVIOUS
<1>3. b = size * q + r /\ 0 <= r /\ r < size BY <1>1
<1>4. a = size * u + v /\ 0 <= v /\ v < size BY <1>2
<1>5. PICK d \in Int : d = size * (u - q) OBVIOUS
<1>6. a - (b - r) = d + v BY <1>3, <1>4, <1>5
<1>7. u = q => d = 0 BY <1>5
<1>8. u > q => d >= size BY <1>5
<1>9. u < q => d <= -size BY <1>5
<1>10. u = q <=> a \in b - r .. b - r + size - 1
  BY <1>3, <1>4, <1>6, <1>7, <1>8, <1>9
<1> QED BY <1>1, <1>2, <1>10

LEMMA TextTypes ==
    ASSUME NEW text \in Value
    PROVE  Net(text) \in Int
BY DEF Net, Value, NotAnAddress

\* A match under the mask of an entry is a match with its network; of a prefix of
\* length 0 no build makes more than the whole range of addresses.
LEMMA MatchInNetwork ==
    ASSUME NEW entry, entry.text \in Value, Parses(entry.text), NEW ip \in Int, NEW shift \in ZeroShifts
    PROVE  /\ ip_matches_entry(ip, entry, shift) => ip \in Network(entry.text)
           /\ PrefixLen(entry.text) # 0 /\ ip \in Network(entry.text) => ip_matches_entry(ip, entry, shift)
<1>1. PICK net \in Int, prefix \in 0 .. AddrBits : net = Net(entry.text) /\ prefix = PrefixLen(entry.text)
  BY TextTypes DEF Parses
<1>2. AddrBits \in Nat BY WhitelistAssumption
<1>3. AddrBits - prefix \in 0 .. AddrBits BY <1>2
<1>4. PICK size \in Nat \ {0} : size = 2 ^ (AddrBits - prefix)
  <2>1. 2 ^ (AddrBits - prefix) \in Nat \ {0} BY <1>3, PowersAssumption
  <2> QED BY <2>1
<1>5. Network(entry.text) = net - (net % size) .. net - (net % size) + size - 1
  BY <1>1, <1>4 DEF Network
<1>6. ip \in Network(entry.text) <=> ip \div size = net \div size
  <2>1. ip \div size = net \div size <=> ip \in net - (net % size) .. net - (net % size) + size - 1
    BY SameBlock
  <2> QED BY <1>5, <2>1
<1>7. CASE prefix # 0
  <2>1. ip_matches_entry(ip, entry, shift) <=> ip \div size = net \div size
    BY <1>1, <1>4, <1>7 DEF ip_matches_entry, Masked
  <2> QED BY <1>6, <2>1
<1>8. CASE prefix = 0 /\ shift = AddrBits
  <2>1. size = 2 ^ AddrBits BY <1>2, <1>4, <1>8
  <2>2. ip_matches_entry(ip, entry, shift) <=> ip \div size = net \div size
    BY <1>1, <1>8, <2>1 DEF ip_matches_entry, Masked
  <2> QED BY <1>1, <1>6, <1>8, <2>2
<1>9. CASE prefix = 0 /\ shift = 0
  <2>1. ip_matches_entry(ip, entry, shift) <=> ip \div (2 ^ 0) = net \div (2 ^ 0)
    BY <1>1, <1>9 DEF ip_matches_entry, Masked
  <2>2. ip \div 1 = ip /\ net \div 1 = net OBVIOUS
  <2>3. 2 ^ 0 = 1 OBVIOUS
  <2>4. ip_matches_entry(ip, entry, shift) => ip = net BY <2>1, <2>2, <2>3
  <2> QED BY <1>1, <1>6, <1>9, <2>4
<1> QED BY <1>7, <1>8, <1>9 DEF ZeroShifts

\* What loading keeps of a list: its first entries, which all parse, and all of it
\* when there is room and every entry parses.
Kept(wl, mode, list, m) ==
    /\ wl.mode = mode /\ m \in 0 .. Len(list) /\ DOMAIN wl.entries = 1 .. m
    /\ \A k \in 1 .. m : wl.entries[k] = list[k] /\ Parses(list[k].text)
    /\ (\A k \in 1 .. Len(list) : k <= MAX_WHITELIST_ENTRIES /\ Parses(list[k].text)) => m = Len(list)

LEMMA ListKept ==
    ASSUME NEW mode, NEW list \in Seq(Entry), NEW wl, wl = whitelist_load(mode, list)
    PROVE  \E m : Kept(wl, mode, list, m)
<1> DEFINE refused == {k \in DOMAIN list : whitelist_add_fails(list, k)}
           stops == refused \cup {Len(list) + 1}
<1>1. DOMAIN list = 1 .. Len(list) /\ Len(list) \in Nat OBVIOUS
<1>2. stops \in SUBSET Nat BY <1>1
<1>3. PICK s \in stops : \A j \in stops : s <= j BY <1>2, Least
<1>4. Min(stops) = s
  <2>1. \A x \in stops : (\A y \in stops : x <= y) => x = s BY <1>2, <1>3
  <2> QED BY <1>3, <2>1 DEF Min
<1>5. PICK m : m = s - 1 OBVIOUS
<1>6. s \in 1 .. Len(list) + 1 /\ m \in 0 .. Len(list) BY <1>1, <1>3, <1>5
<1>7. wl = [mode |-> mode, entries |-> SubSeq(list, 1, m)] BY <1>4, <1>5 DEF whitelist_load
<1>8. /\ DOMAIN SubSeq(list, 1, m) = 1 .. m
      /\ \A k \in 1 .. m : SubSeq(list, 1, m)[k] = list[k]
  BY <1>1, <1>6
<1>9. ASSUME NEW k \in 1 .. m PROVE Parses(list[k].text)
  <2>1. k \in DOMAIN list /\ k < s BY <1>1, <1>5, <1>6
  <2>2. k \notin stops BY <1>3, <1>6, <2>1
  <2>3. k \notin refused BY <2>2
  <2> QED BY <2>1, <2>3 DEF whitelist_add_fails
<1>10. ASSUME \A k \in 1 .. Len(list) : k <= MAX_WHITELIST_ENTRIES /\ Parses(list[k].text) PROVE m = Len(list)
  <2>1. \A k \in 1 .. Len(list) : ~(k > MAX_WHITELIST_ENTRIES) BY <1>10, WhitelistAssumption
  <2>2. refused = {} BY <1>1, <1>10, <2>1 DEF whitelist_add_fails
  <2>3. s = Len(list) + 1 BY <1>3, <2>2
  <2> QED BY <1>1, <1>5, <2>3
<1> HIDE DEF refused, stops
<1>11. Kept(wl, mode, list, m) BY <1>6, <1>7, <1>8, <1>9, <1>10 DEF Kept
<1> QED BY <1>11

\* Some entry of a loaded list on one side of it matches.
Hit(wl, ip, shift, block) ==
    \E k \in DOMAIN wl.entries : wl.entries[k].block = block /\ ip_matches_entry(ip, wl.entries[k], shift)

\* The blocking side decides first; in strict mode the allowing side must agree.
Decided(wl, ip, shift) ==
    whitelist_check(wl, ip, shift) # "BLOCKED" <=>
        /\ ~Hit(wl, ip, shift, TRUE)
        /\ wl.mode = "strict" => Hit(wl, ip, shift, FALSE)

LEMMA CheckMeans ==
    ASSUME NEW wl, NEW ip, NEW shift, wl.mode \in {"strict", "permissive"}
    PROVE  Decided(wl, ip, shift)
BY DEF Decided, whitelist_check, Hit

\* The lines of a list, by the side they stand on.
LEMMA Sides ==
    ASSUME file \in Seq(Line), NEW n
    PROVE  /\ \A k \in ListLines(n) : file[k].value \in Value
           /\ \A k : k \in Entries(n, {"block_"}) <=> k \in ListLines(n) /\ EntryOf(file[k]).block = TRUE
           /\ \A k : k \in Entries(n, {"allow_"}) <=> k \in ListLines(n) /\ EntryOf(file[k]).block = FALSE
           /\ \A k : EntryOf(file[k]).text = file[k].value
<1>1. \A k \in PairsIn("ip_whitelist_per_instance") : file[k] \in Line /\ file[k].kind = "pair"
  BY DEF PairsIn
<1>2. \A k \in ListLines(n) : file[k].value \in Value
  BY <1>1, PairFields DEF ListLines, Entries
<1>3. \A k : /\ EntryOf(file[k]).block = (file[k].key.name = "block_")
             /\ EntryOf(file[k]).text = file[k].value
  BY DEF EntryOf
<1>4. ASSUME NEW k PROVE k \in Entries(n, {"block_"}) <=> k \in ListLines(n) /\ file[k].key.name = "block_"
  BY DEF Entries, ListLines
<1>5. ASSUME NEW k PROVE k \in Entries(n, {"allow_"}) <=> k \in ListLines(n) /\ file[k].key.name # "block_"
  BY DEF Entries, ListLines
<1> QED BY <1>2, <1>3, <1>4, <1>5

\* The list of a running instance.
LEMMA RunningList ==
    ASSUME IInv, pc = "run", NEW n \in Running(config)
    PROVE  /\ config.instances[n].whitelist \in Seq(Entry)
           /\ config.instances[n].whitelist_mode \in {"off", "strict", "permissive"}
           /\ Holds(config.instances[n].whitelist, ListLines(n), file)
           /\ file \in Seq(Line) /\ zero_shift \in ZeroShifts
           /\ \E m : Kept(whitelist[n], config.instances[n].whitelist_mode, config.instances[n].whitelist, m)
<1>1. n \in 1 .. MAX_INSTANCES BY RunningEnabled
<1>2. config.instances[n] \in InstanceConfig BY <1>1, ConfigFields DEF IInv
<1>3. /\ config.instances[n].whitelist \in Seq(Entry)
      /\ config.instances[n].whitelist_mode \in {"off", "strict", "permissive"}
  BY <1>2 DEF InstanceConfig
<1>4. Holds(config.instances[n].whitelist, ListLines(n), file) /\ file \in Seq(Line) BY <1>1, RunLoaded
<1>5. /\ zero_shift \in ZeroShifts
      /\ whitelist[n] = whitelist_load(config.instances[n].whitelist_mode, config.instances[n].whitelist)
  BY DEF IInv, ListsLoaded
<1>6. \E m : Kept(whitelist[n], config.instances[n].whitelist_mode, config.instances[n].whitelist, m)
  BY <1>3, <1>5, ListKept
<1> QED BY <1>3, <1>4, <1>5, <1>6

\* An entry of a loaded list that matches comes from a line of the file that parses,
\* on the entry's side, and whose network holds the address.
LEMMA HitIsListed ==
    ASSUME NEW n, NEW wl, NEW mode, NEW list, NEW m, Kept(wl, mode, list, m), list \in Seq(Entry),
           Holds(list, ListLines(n), file), file \in Seq(Line), NEW ip \in Int, NEW shift \in ZeroShifts
    PROVE  /\ Hit(wl, ip, shift, TRUE) => ip \in Listed(n, "block_")
           /\ Hit(wl, ip, shift, FALSE) => ip \in Listed(n, "allow_")
<1>1. ASSUME NEW block \in BOOLEAN, Hit(wl, ip, shift, block)
      PROVE  \E j \in ListLines(n) : /\ EntryOf(file[j]).block = block /\ Parses(file[j].value)
                                     /\ ip \in Network(file[j].value)
  <2>1. PICK k \in DOMAIN wl.entries : wl.entries[k].block = block /\ ip_matches_entry(ip, wl.entries[k], shift)
    BY <1>1 DEF Hit
  <2>2. k \in 1 .. Len(list) /\ wl.entries[k] = list[k] /\ Parses(list[k].text)
    BY <2>1 DEF Kept
  <2>3. PICK j \in ListLines(n) : list[k] = EntryOf(file[j]) BY <2>2 DEF Holds
  <2>4. list[k].text = file[j].value /\ file[j].value \in Value BY <2>3, Sides
  <2>5. ip \in Network(list[k].text) BY <2>1, <2>2, <2>4, MatchInNetwork
  <2> QED BY <2>1, <2>2, <2>3, <2>4, <2>5
<1>2. ASSUME Hit(wl, ip, shift, TRUE) PROVE ip \in Listed(n, "block_")
  <2>1. PICK j \in ListLines(n) : /\ EntryOf(file[j]).block = TRUE /\ Parses(file[j].value)
                                  /\ ip \in Network(file[j].value)
    BY <1>1, <1>2
  <2>2. j \in Entries(n, {"block_"}) BY <2>1, Sides
  <2> QED BY <2>1, <2>2 DEF Listed
<1>3. ASSUME Hit(wl, ip, shift, FALSE) PROVE ip \in Listed(n, "allow_")
  <2>1. PICK j \in ListLines(n) : /\ EntryOf(file[j]).block = FALSE /\ Parses(file[j].value)
                                  /\ ip \in Network(file[j].value)
    BY <1>1, <1>3
  <2>2. j \in Entries(n, {"allow_"}) BY <2>1, Sides
  <2> QED BY <2>1, <2>2 DEF Listed
<1> QED BY <1>2, <1>3

\* The other way round: an address in the network of a line is matched by its entry,
\* when every line has an entry and no prefix is of length 0.
LEMMA ListedIsHit ==
    ASSUME NEW n, NEW wl, NEW mode, NEW list, NEW m, Kept(wl, mode, list, m), list \in Seq(Entry),
           Holds(list, ListLines(n), file), file \in Seq(Line), NEW ip \in Int, NEW shift \in ZeroShifts,
           Cardinality(ListLines(n)) <= MAX_ENTRIES,
           \A k \in ListLines(n) : Parses(file[k].value) /\ PrefixLen(file[k].value) # 0
    PROVE  /\ ip \in Listed(n, "block_") => Hit(wl, ip, shift, TRUE)
           /\ ip \in Listed(n, "allow_") => Hit(wl, ip, shift, FALSE)
<1>1. Len(list) \in Nat /\ Len(list) <= MAX_ENTRIES /\ MAX_ENTRIES = MAX_WHITELIST_ENTRIES /\ MAX_ENTRIES \in Nat
  <2>1. Len(list) = Min({MAX_ENTRIES, Cardinality(ListLines(n))}) BY DEF Holds
  <2>2. ListLines(n) \in SUBSET (1 .. Len(file)) /\ Len(file) \in Nat BY LinesInFile
  <2>3. Cardinality(ListLines(n)) \in Nat BY <2>2, FiniteInRange
  <2>4. MAX_ENTRIES \in Nat /\ MAX_ENTRIES = MAX_WHITELIST_ENTRIES BY ConfigAssumption, StartupAssumption
  <2>5. Len(list) = IF MAX_ENTRIES <= Cardinality(ListLines(n)) THEN MAX_ENTRIES ELSE Cardinality(ListLines(n))
    BY <2>1, <2>3, <2>4, MinTwo
  <2> QED BY <2>3, <2>4, <2>5
<1>2. ASSUME NEW k \in 1 .. Len(list) PROVE k <= MAX_WHITELIST_ENTRIES /\ Parses(list[k].text)
  <2>1. PICK j \in ListLines(n) : list[k] = EntryOf(file[j]) BY DEF Holds
  <2>2. list[k].text = file[j].value BY <2>1, Sides
  <2> QED BY <1>1, <2>1, <2>2
<1>3. m = Len(list) BY <1>2 DEF Kept
<1>4. DOMAIN wl.entries = 1 .. Len(list) /\ \A k \in 1 .. Len(list) : wl.entries[k] = list[k]
  BY <1>3 DEF Kept
<1>5. ASSUME NEW j \in ListLines(n), ip \in Network(file[j].value)
      PROVE  Hit(wl, ip, shift, EntryOf(file[j]).block)
  <2>1. PICK k \in 1 .. Len(list) : list[k] = EntryOf(file[j]) BY DEF Holds
  <2>2. list[k].text = file[j].value /\ file[j].value \in Value BY <2>1, Sides
  <2>3. ip_matches_entry(ip, list[k], shift) BY <1>5, <2>2, MatchInNetwork
  <2> QED BY <1>4, <2>1, <2>3 DEF Hit
<1>6. ASSUME ip \in Listed(n, "block_") PROVE Hit(wl, ip, shift, TRUE)
  <2>1. PICK j \in Entries(n, {"block_"}) : ip \in Network(file[j].value) BY <1>6 DEF Listed
  <2>2. j \in ListLines(n) /\ EntryOf(file[j]).block = TRUE BY <2>1, Sides
  <2> QED BY <1>5, <2>1, <2>2
<1>7. ASSUME ip \in Listed(n, "allow_") PROVE Hit(wl, ip, shift, FALSE)
  <2>1. PICK j \in Entries(n, {"allow_"}) : ip \in Network(file[j].value) BY <1>7 DEF Listed
  <2>2. j \in ListLines(n) /\ EntryOf(file[j]).block = FALSE BY <2>1, Sides
  <2> QED BY <1>5, <2>1, <2>2
<1> QED BY <1>6, <1>7

LEMMA AddressesAreNumbers == Addresses \subseteq Int
<1>1. AddrBits \in 0 .. AddrBits BY WhitelistAssumption
<1>2. 2 ^ AddrBits \in Nat BY <1>1, PowersAssumption
<1> QED BY <1>2 DEF Addresses

LEMMA StrictClosed == IInv => StrictFailsClosed
<1> SUFFICES ASSUME IInv, pc = "run", NEW n \in Running(config), NEW ip \in Addresses,
                    config.instances[n].whitelist_mode = "strict", Admitted(n, ip)
             PROVE  ip \in Listed(n, "allow_")
  BY DEF StrictFailsClosed
<1>1. PICK m : Kept(whitelist[n], "strict", config.instances[n].whitelist, m) BY RunningList
<1>2. whitelist[n].mode = "strict" BY <1>1 DEF Kept
<1>3. Hit(whitelist[n], ip, zero_shift, FALSE)
  <2>1. whitelist[n].mode \in {"strict", "permissive"} BY <1>2
  <2>2. Decided(whitelist[n], ip, zero_shift) BY <2>1, CheckMeans
  <2> QED BY <1>2, <2>2 DEF Admitted, Decided
<1>4. /\ config.instances[n].whitelist \in Seq(Entry) /\ file \in Seq(Line) /\ zero_shift \in ZeroShifts
      /\ Holds(config.instances[n].whitelist, ListLines(n), file)
  BY RunningList
<1>5. ip \in Int BY AddressesAreNumbers
<1> QED BY <1>1, <1>3, <1>4, <1>5, HitIsListed

\* Whatever goes wrong with a list, an entry that does not parse, one too many, or a
\* mask that the build gets wrong: in strict mode whitelist_check admits no address
\* that the file does not allow.
THEOREM StrictListsFailClosed == Spec => []StrictFailsClosed
BY LinesTracked, StrictClosed, PTL

LEMMA VerdictListed == IInv => VerdictAsListed
<1> SUFFICES ASSUME IInv, pc = "run", NEW n \in Running(config),
                    config.instances[n].whitelist_mode # "off",
                    Cardinality(ListLines(n)) <= MAX_ENTRIES,
                    \A k \in ListLines(n) : Parses(file[k].value) /\ PrefixLen(file[k].value) # 0,
                    NEW ip \in Addresses
             PROVE  Admitted(n, ip) = (/\ ip \notin Listed(n, "block_")
                                       /\ config.instances[n].whitelist_mode = "strict" => ip \in Listed(n, "allow_"))
  BY DEF VerdictAsListed, ListLines
<1>1. PICK mode : mode = config.instances[n].whitelist_mode OBVIOUS
<1>2. PICK list : list = config.instances[n].whitelist OBVIOUS
<1>3. mode \in {"strict", "permissive"} BY <1>1, RunningList
<1>4. PICK m : Kept(whitelist[n], mode, list, m) BY <1>1, <1>2, RunningList
<1>5. whitelist[n].mode = mode BY <1>4 DEF Kept
<1>6. Admitted(n, ip) <=> /\ ~Hit(whitelist[n], ip, zero_shift, TRUE)
                          /\ mode = "strict" => Hit(whitelist[n], ip, zero_shift, FALSE)
  <2>1. whitelist[n].mode \in {"strict", "permissive"} BY <1>3, <1>5
  <2>2. Decided(whitelist[n], ip, zero_shift) BY <2>1, CheckMeans
  <2> QED BY <1>5, <2>2 DEF Admitted, Decided
<1>7. list \in Seq(Entry) /\ file \in Seq(Line) /\ zero_shift \in ZeroShifts /\ Holds(list, ListLines(n), file)
  BY <1>2, RunningList
<1>8. ip \in Int BY AddressesAreNumbers
<1>9. /\ Hit(whitelist[n], ip, zero_shift, TRUE) => ip \in Listed(n, "block_")
      /\ Hit(whitelist[n], ip, zero_shift, FALSE) => ip \in Listed(n, "allow_")
  BY <1>4, <1>7, <1>8, HitIsListed
<1>10. /\ ip \in Listed(n, "block_") => Hit(whitelist[n], ip, zero_shift, TRUE)
       /\ ip \in Listed(n, "allow_") => Hit(whitelist[n], ip, zero_shift, FALSE)
  BY <1>4, <1>7, <1>8, ListedIsHit
<1>11. Admitted(n, ip) <=> /\ ip \notin Listed(n, "block_")
                           /\ mode = "strict" => ip \in Listed(n, "allow_")
  BY <1>6, <1>9, <1>10
<1>12. Admitted(n, ip) \in BOOLEAN BY DEF Admitted
<1> QED BY <1>1, <1>11, <1>12

\* For a list of entries that all parse, none of them with a prefix of length 0, the
\* verdict of whitelist_check is that of the networks in the file, whatever the order
\* of the lines: a blocked address is never admitted, in strict mode only an allowed one.
THEOREM VerdictsAsListed == Spec => []VerdictAsListed
BY LinesTracked, VerdictListed, PTL
=============================================================================
