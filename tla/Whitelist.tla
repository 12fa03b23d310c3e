----------------------------- MODULE Whitelist -----------------------------
(***************************************************************************)
(* whitelist.c: the entries of an instance's list and the verdict on an    *)
(* address.  An entry's text is a value of the file; of type "cidr" it is  *)
(* [net, prefix]: an address, or NotAnAddress where inet_pton finds none,  *)
(* and what atoi reads after the slash, or NoSlash.  An address is a       *)
(* number of AddrBits bits.                                                *)
(***************************************************************************)
EXTENDS Integers, Sequences, FiniteSetsExt

CONSTANTS
    AddrBits,               \* 32 in the code
    MAX_WHITELIST_ENTRIES   \* 64 in the code

ASSUME WhitelistAssumption == AddrBits \in Nat \ {0} /\ MAX_WHITELIST_ENTRIES \in Nat

\* A fact of arithmetic that the provers lack.
ASSUME PowersAssumption == \A k \in 0 .. AddrBits : 2 ^ k \in Nat \ {0}

NotAnAddress == -1
NoSlash == -2

Addresses == 0 .. 2 ^ AddrBits - 1

\* whitelist_parse_cidr: the address, the prefix length, and whether the text parses
\* at all.
Net(text) == IF text.type = "cidr" THEN text.value.net ELSE NotAnAddress
PrefixLen(text) == IF text.type = "cidr" /\ text.value.prefix # NoSlash THEN text.value.prefix ELSE AddrBits
Parses(text) == PrefixLen(text) \in 0 .. AddrBits /\ Net(text) # NotAnAddress

\* A 32-bit value shifted by its own width is undefined: the mask of a prefix of
\* length 0 comes out as all zeros (shift of AddrBits) or as all ones (shift of 0).
ZeroShifts == {0, AddrBits}

\* Mutant: the mask is one bit short.
Masked_short(ip, prefix, zero_shift) ==
    ip \div 2 ^ (IF prefix = 0 THEN zero_shift ELSE AddrBits - prefix + 1)

\* The bits of an address under the mask of a prefix, as a number.
Masked(ip, prefix, zero_shift) ==
    ip \div 2 ^ (IF prefix = 0 THEN zero_shift ELSE AddrBits - prefix)

ip_matches_entry(ip, entry, zero_shift) ==
    Masked(ip, PrefixLen(entry.text), zero_shift) = Masked(Net(entry.text), PrefixLen(entry.text), zero_shift)

\* whitelist_add refuses the k-th entry: there is no room, or it does not parse.
whitelist_add_fails(list, k) == k > MAX_WHITELIST_ENTRIES \/ ~Parses(list[k].text)

\* Mutant: a list with an entry that is refused is not loaded at all.
whitelist_load_whole(mode, list) ==
    [mode |-> mode, entries |-> IF \E k \in DOMAIN list : whitelist_add_fails(list, k) THEN <<>> ELSE list]

\* Loading stops at an entry that is refused; run_instance goes on with those before.
whitelist_load(mode, list) ==
    LET refused == {k \in DOMAIN list : whitelist_add_fails(list, k)}
    IN [mode |-> mode, entries |-> SubSeq(list, 1, Min(refused \cup {Len(list) + 1}) - 1)]

\* Mutant: the list of allowed addresses is looked at first.
whitelist_check_allow_first(wl, ip, zero_shift) ==
    LET hit(block) == \E k \in DOMAIN wl.entries :
                        wl.entries[k].block = block /\ ip_matches_entry(ip, wl.entries[k], zero_shift)
    IN IF wl.mode = "off" \/ hit(FALSE) THEN "ALLOWED"
       ELSE IF hit(TRUE) \/ wl.mode = "strict" THEN "BLOCKED"
       ELSE "LOGGED"

\* whitelist_check_ipv4; LOGGED admits too.  The server listens on IPv4 only.
whitelist_check(wl, ip, zero_shift) ==
    LET hit(block) == \E k \in DOMAIN wl.entries :
                        wl.entries[k].block = block /\ ip_matches_entry(ip, wl.entries[k], zero_shift)
    IN IF wl.mode = "off" THEN "ALLOWED"
       ELSE IF hit(TRUE) THEN "BLOCKED"
       ELSE IF hit(FALSE) THEN "ALLOWED"
       ELSE IF wl.mode = "strict" THEN "BLOCKED"
       ELSE "LOGGED"
=============================================================================
