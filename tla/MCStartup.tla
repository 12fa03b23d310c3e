----------------------------- MODULE MCStartup -----------------------------
(* Small files: lines of every section, under their own header, a torn one or none. *)
EXTENDS Startup

Device(sn) == [serial |-> sn, supported |-> TRUE]
Other == [serial |-> "X", supported |-> FALSE]

\* A board without a serial number, one whose number looks like a comment from its
\* second character on, and another FTDI chip among the boards.
MCBuses == {<<>>, <<Other, Device("A"), Device(Empty)>>, <<Device(Empty), Device("A"), Other>>,
            <<Device("A"), Other, Device("B"), Device("C")>>, <<Device("C"), Device("B"), Device("A"), Other>>,
            <<Device("A#1"), Device("B")>>, <<Device("B"), Device("A#1")>>}

MCText == STRING
MCBusLocation(k) == <<"FTDI-0", "FTDI-1", "FTDI-2", "FTDI-3">>[k]

MCStripped(text) == IF text = "A#1" THEN "A" ELSE text

Word(w) == [type |-> "word", value |-> w]
Cidr(net, prefix) == [type |-> "cidr", value |-> [net |-> net, prefix |-> prefix]]
Sn(s) == DeviceValue([type |-> "SN", value |-> s])

Torn == [kind |-> "torn"]
Blank == [kind |-> "skip"]

\* Pairs and the section each is meant for.
Meant ==
    {<<"instance_management", Pair(0, FALSE, "base_port", NumberValue(3000))>>,
     <<"instance_mappings", Pair(1, FALSE, Empty, Sn("A"))>>,
     <<"instance_mappings", Pair(3, FALSE, Empty, DeviceValue([type |-> "auto", value |-> Empty]))>>,
     <<"instance_mappings", Pair(4, FALSE, Empty, Sn("B"))>>,
     <<"instance_mappings", Pair(1, FALSE, Empty, Word("typo"))>>,
     <<"instance_settings", Pair(1, TRUE, "frequency", NumberValue(-1))>>,
     <<"instance_settings", Pair(3, TRUE, "client_lock_timeout", NumberValue(-1))>>,
     <<"instance_settings", Pair(1, TRUE, "xvc_buffer_size", NumberValue(8))>>,
     <<"ip_whitelist", Pair(0, FALSE, "mode", Word("strict"))>>}

Blocks == {<<h, m[2]>> : h \in {Torn, Blank}, m \in Meant} \cup {<<Header(m[1]), m[2]>> : m \in Meant}

\* One instance with up to four lines of a list.
ListLines ==
    {Pair(1, TRUE, "mode", Word("strict")), Pair(1, TRUE, "mode", Word("permissive")),
     Pair(1, TRUE, "allow_", Cidr(4, 1)), Pair(1, TRUE, "allow_", Cidr(3, 0)),
     Pair(1, TRUE, "block_", Cidr(5, NoSlash)), Pair(1, TRUE, "block_", Cidr(6, 2)),
     Pair(1, TRUE, "block_", Cidr(NotAnAddress, NoSlash)), Pair(1, TRUE, "allow_", Cidr(0, 9))}

MCFiles ==
    {a \o b \o c : a, b, c \in Blocks}
    \cup {<<Header("instance_mappings"), Pair(1, FALSE, Empty, Sn("A")), Header("ip_whitelist_per_instance")>> \o l :
            l \in UNION {[1 .. k -> ListLines] : k \in 0 .. 4}}
=============================================================================
