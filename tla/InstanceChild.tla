--------------------------- MODULE InstanceChild ---------------------------
(***************************************************************************)
(* An instance's process seen from its parent: it runs, waits for a client *)
(* that stopped half way through sending a command or taking an answer, or *)
(* has ended.  This is what InstanceManager takes a child for; XvcInstance *)
(* implements it.                                                          *)
(***************************************************************************)
VARIABLES
    status,         \* "run", "hang" or "zombie"
    running         \* the process's g_running

vars == <<status, running>>

Init == status = "run" /\ running = TRUE

\* A signal arrives.
Told == running /\ running' = FALSE /\ UNCHANGED status

Stops == status = "run" /\ ~running /\ status' = "zombie" /\ UNCHANGED running
Dies == status \in {"run", "hang"} /\ status' = "zombie" /\ UNCHANGED running
Hangs == status = "run" /\ status' = "hang" /\ UNCHANGED running
GoesOn == status = "hang" /\ status' = "run" /\ UNCHANGED running

Next == Told \/ Stops \/ Dies \/ Hangs \/ GoesOn

\* A process that was told to stop and is not held up stops.
Spec == Init /\ [][Next]_vars /\ WF_vars(Stops)
=============================================================================
