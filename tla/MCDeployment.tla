---------------------------- MODULE MCDeployment ----------------------------
(* Instance 1 names its board, instance 3 is auto and gets the first one; the
board instance 2 names is not plugged in, so it fails to start over and over. *)
EXTENDS Deployment

MCBus == <<"B", "A">>
MCDeviceId == <<"A", "C", "">>
MCPort == <<2542, 2543, 2544>>

\* Two instances that are to find a board each by themselves.
AutoDeviceId == <<"", "">>
AutoPort == <<2542, 2543>>
=============================================================================
