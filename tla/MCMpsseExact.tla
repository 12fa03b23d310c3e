---------------------------- MODULE MCMpsseExact ----------------------------
(* The vectors of scan_exact are ones that the promises are made for. *)
EXTENDS MCMpsseScan

ASSUME Promised == ShortRuns /\ PoolFits
=============================================================================
