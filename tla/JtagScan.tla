------------------------------ MODULE JtagScan ------------------------------
(***************************************************************************)
(* What a scan promises its caller, without commands, buffers or USB: the  *)
(* vector is clocked through the TAP, once and whole, and the caller gets  *)
(* the bits that were sampled while the TAP shifted.  MpsseScan implements *)
(* it as long as no transfer fails.                                        *)
(***************************************************************************)
EXTENDS Integers, JtagTap

CONSTANTS
    Vectors,        \* the TMS vectors scanned
    Taps,           \* where the target's TAP may be at first
    Unset           \* a TDO bit that was not sampled

VARIABLES
    phase,          \* "idle", "busy" with a scan, "done" with it
    vector,         \* the TMS vector of the scan
    tap,            \* the state of the target's TAP
    believed,       \* the state the adapter takes it for
    tdo             \* bit i is i when the bit sampled at clock i was returned there

vars == <<phase, vector, tap, believed, tdo>>

Shifts(s) == s \in {"SHIFT_DR", "SHIFT_IR"}

\* The TDO vector of a scan that starts in state s.
Exact(s, v) ==
    [i \in 0 .. Len(v) - 1 |-> IF Shifts(jtag_walk(jtag_next_state, s, SubSeq(v, 1, i))) THEN i ELSE Unset]

Init ==
    /\ phase = "idle" /\ vector = <<>> /\ tdo = <<>>
    /\ tap \in Taps /\ believed = "TEST_LOGIC_RESET"

Start ==
    /\ phase = "idle" /\ phase' = "busy"
    /\ vector' \in Vectors
    /\ UNCHANGED <<tap, believed, tdo>>

\* Whether or not the adapter knows where the TAP is, both move along the vector;
\* only when it knows is the TDO vector promised.
Complete ==
    /\ phase = "busy" /\ phase' = "done"
    /\ tap' = jtag_walk(jtag_next_state, tap, vector)
    /\ believed' = jtag_walk(jtag_next_state, believed, vector)
    /\ tap = believed => tdo' = Exact(tap, vector)
    /\ UNCHANGED vector

Return ==
    /\ phase = "done" /\ phase' = "idle"
    /\ vector' = <<>> /\ tdo' = <<>>
    /\ UNCHANGED <<tap, believed>>

\* The adapter's process ends and the next one begins.  The TAP is left where a part
\* of the vector has brought it; the new process takes it for reset.
Restart ==
    /\ phase' = "idle" /\ vector' = <<>> /\ tdo' = <<>>
    /\ believed' = "TEST_LOGIC_RESET"
    /\ IF phase = "busy" THEN \E k \in 0 .. Len(vector) : tap' = jtag_walk(jtag_next_state, tap, SubSeq(vector, 1, k))
       ELSE UNCHANGED tap

Next == Start \/ Complete \/ Return \/ Restart

\* A scan that was begun comes to its end.
Spec == Init /\ [][Next]_vars /\ (phase = "busy" ~> phase # "busy")
=============================================================================
