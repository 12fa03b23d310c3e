--------------------------- MODULE MCXvcInstance ---------------------------
(***************************************************************************)
(* Small instances of XvcInstance.  Client p1 has the address a, p2 has b,  *)
(* and p4 has c, which the whitelist blocks.                               *)
(***************************************************************************)
EXTENDS XvcInstance, TLC

CONSTANTS p1, p2, p4, a, b, c

MCIps == {a, b, c}
MCAdmitted == {a, b}
MCIp == [p \in Peers |-> CASE p = p2 -> b [] p = p4 -> c [] OTHER -> a]

TwoFds == 4 .. 5

Reset == <<1, 1, 1, 1, 1, 0>>       \* any state to Run-Test/Idle, through reset
TooLong == <<0, 0, 0, 0, 0, 0, 0, 0, 0>>

\* From reset, <<1>> keeps the handler in its loop.
OneVector == {<<1>>}

\* Every state of the TAP, both bogus movements, a zero-length and an oversize vector.
ManyVectors == {<<>>, <<0>>, <<1>>, Reset, <<1, 1, 1, 0, 1>>, <<1, 1, 0, 1>>, TooLong}
=============================================================================
