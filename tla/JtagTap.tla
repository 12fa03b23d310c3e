------------------------------ MODULE JtagTap ------------------------------
(***************************************************************************)
(* The JTAG test access port as the server knows it.  The program holds    *)
(* two copies of the IEEE 1149.1 state graph: the table jtag_next_state of *)
(* xvc_protocol.c, which follows what a client has shifted, and the switch *)
(* next_state of mpsse_adapter.c, which decides how a vector is cut into   *)
(* MPSSE commands.  Each row gives the successor for TMS = 0 and TMS = 1.  *)
(***************************************************************************)
EXTENDS Naturals, Sequences, SequencesExt

JtagStates ==
    {"TEST_LOGIC_RESET", "RUN_TEST_IDLE",
     "SELECT_DR_SCAN", "CAPTURE_DR", "SHIFT_DR", "EXIT1_DR", "PAUSE_DR", "EXIT2_DR", "UPDATE_DR",
     "SELECT_IR_SCAN", "CAPTURE_IR", "SHIFT_IR", "EXIT1_IR", "PAUSE_IR", "EXIT2_IR", "UPDATE_IR"}

\* The adapter's switch (mpsse_adapter.c), which the code writes per state as
\* tmsHigh ? A : B.  Its default, RUN_TEST_IDLE, is no state of the enumeration.
mpsse_next_state == [s \in JtagStates |->
    LET choose(high, low) == <<low, high>>
    IN CASE s = "TEST_LOGIC_RESET" -> choose("TEST_LOGIC_RESET", "RUN_TEST_IDLE")
         [] s = "RUN_TEST_IDLE"    -> choose("SELECT_DR_SCAN", "RUN_TEST_IDLE")
         [] s = "SELECT_DR_SCAN"   -> choose("SELECT_IR_SCAN", "CAPTURE_DR")
         [] s = "SELECT_IR_SCAN"   -> choose("TEST_LOGIC_RESET", "CAPTURE_IR")
         [] s \in {"CAPTURE_DR", "SHIFT_DR"} -> choose("EXIT1_DR", "SHIFT_DR")
         [] s \in {"CAPTURE_IR", "SHIFT_IR"} -> choose("EXIT1_IR", "SHIFT_IR")
         [] s = "EXIT1_DR"         -> choose("UPDATE_DR", "PAUSE_DR")
         [] s = "EXIT1_IR"         -> choose("UPDATE_IR", "PAUSE_IR")
         [] s = "PAUSE_DR"         -> choose("EXIT2_DR", "PAUSE_DR")
         [] s = "PAUSE_IR"         -> choose("EXIT2_IR", "PAUSE_IR")
         [] s = "EXIT2_DR"         -> choose("UPDATE_DR", "SHIFT_DR")
         [] s = "EXIT2_IR"         -> choose("UPDATE_IR", "SHIFT_IR")
         [] s \in {"UPDATE_DR", "UPDATE_IR"} -> choose("SELECT_DR_SCAN", "RUN_TEST_IDLE")
         [] OTHER -> choose("RUN_TEST_IDLE", "RUN_TEST_IDLE")]

\* Mutants: the two columns of a row exchanged; a reset that leads to a DR scan.
jtag_next_state_swapped == [mpsse_next_state EXCEPT !["EXIT2_DR"] = <<"UPDATE_DR", "SHIFT_DR">>]
jtag_next_state_noreset == [mpsse_next_state EXCEPT !["SELECT_IR_SCAN"] = <<"CAPTURE_IR", "SELECT_DR_SCAN">>]

\* The tracker's table (xvc_protocol.c): row s holds <<TMS = 0, TMS = 1>>.
jtag_next_state == [s \in JtagStates |->
    CASE s = "TEST_LOGIC_RESET" -> <<"RUN_TEST_IDLE", "TEST_LOGIC_RESET">>
      [] s = "RUN_TEST_IDLE"    -> <<"RUN_TEST_IDLE", "SELECT_DR_SCAN">>
      [] s = "SELECT_DR_SCAN"   -> <<"CAPTURE_DR", "SELECT_IR_SCAN">>
      [] s = "CAPTURE_DR"       -> <<"SHIFT_DR", "EXIT1_DR">>
      [] s = "SHIFT_DR"         -> <<"SHIFT_DR", "EXIT1_DR">>
      [] s = "EXIT1_DR"         -> <<"PAUSE_DR", "UPDATE_DR">>
      [] s = "PAUSE_DR"         -> <<"PAUSE_DR", "EXIT2_DR">>
      [] s = "EXIT2_DR"         -> <<"SHIFT_DR", "UPDATE_DR">>
      [] s = "UPDATE_DR"        -> <<"RUN_TEST_IDLE", "SELECT_DR_SCAN">>
      [] s = "SELECT_IR_SCAN"   -> <<"CAPTURE_IR", "TEST_LOGIC_RESET">>
      [] s = "CAPTURE_IR"       -> <<"SHIFT_IR", "EXIT1_IR">>
      [] s = "SHIFT_IR"         -> <<"SHIFT_IR", "EXIT1_IR">>
      [] s = "EXIT1_IR"         -> <<"PAUSE_IR", "UPDATE_IR">>
      [] s = "PAUSE_IR"         -> <<"PAUSE_IR", "EXIT2_IR">>
      [] s = "EXIT2_IR"         -> <<"SHIFT_IR", "UPDATE_IR">>
      [] s = "UPDATE_IR"        -> <<"RUN_TEST_IDLE", "SELECT_DR_SCAN">>]

\* One clock with TMS = tms along either table.
jtag_step(table, s, tms) == table[s][tms + 1]

\* The states after each of the bits of a TMS vector, least significant bit first.
jtag_path(table, s, tms) ==
    LET at[k \in 0 .. Len(tms)] == IF k = 0 THEN s ELSE jtag_step(table, at[k - 1], tms[k])
    IN at

\* The state after clocking a whole TMS vector.
jtag_walk(table, s, tms) == jtag_path(table, s, tms)[Len(tms)]

\* The two state movements the server does not pass on to the adapter: the
\* TMS bytes 0x17 (5 bits) from EXIT1_IR and 0x0b (4 bits) from EXIT1_DR.
bogus(s, tms) ==
    \/ s = "EXIT1_IR" /\ tms = <<1, 1, 1, 0, 1>>
    \/ s = "EXIT1_DR" /\ tms = <<1, 1, 0, 1>>

\* The vector clocks TMS high five times in a row, which resets any TAP.
HoldsReset(tms) == \E i \in 1 .. Len(tms) : i + 4 <= Len(tms) /\ \A j \in i .. i + 4 : tms[j] = 1
=============================================================================
