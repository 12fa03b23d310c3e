---------------------------- MODULE MCMpsseScan ----------------------------
(* Vectors for the scan engine: zeros stay in a Shift state for as long as wanted. *)
EXTENDS MpsseScan

Zeros(n) == [k \in 1 .. n |-> 0]

Enter == {<<>>, <<1, 0, 0>>, <<0, 1, 1, 0, 0>>}
Leave == {<<>>, <<1, 1, 0>>, <<1, 0, 1, 0, 0, 0, 1, 1>>}

\* Several alignments of the first and of the last bit, up to 40 bits in a row: four
\* whole bytes, the most that one chunk takes.
OneChunk == {v \in {e \o Zeros(n) \o l : e \in Enter, n \in {0, 1, 2, 5, 13, 30, 39}, l \in Leave} : v # <<>>}
            \cup {<<1, 1, 1, 1, 1>>}

\* Runs of more than four whole bytes, with and without trailing bits.
TwoChunks == {<<0, 1, 0, 0>> \o Zeros(n) \o <<1, 1, 0>> : n \in {50, 52}}

\* With them, a scan from reset through Shift-DR and back to reset: its observers
\* always copy to the same bits, whatever scan left them.
Claimed == TwoChunks \cup {<<0, 1, 0, 0>> \o Zeros(5) \o <<1, 1, 1, 1, 1>>}

\* For failing transfers: runs of two chunks (with chunks of two bytes) and a reset.
Anything == {<<0, 1, 0, 0>> \o Zeros(n) \o <<1>> : n \in {29, 33}} \cup {<<1, 1, 1, 1, 1, 0>>}
=============================================================================
