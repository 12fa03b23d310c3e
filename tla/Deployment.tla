----------------------------- MODULE Deployment -----------------------------
(***************************************************************************)
(* The instance manager together with what its children compete for: each  *)
(* child of InstanceManager runs run_instance, which opens its FTDI device *)
(* exclusively, then listens on its port, and only then looks at           *)
(* g_running.  A child that gets either of them not, or crashes, ends and  *)
(* is started again by check_children.                                     *)
(***************************************************************************)
EXTENDS InstanceManager, Sequences

CONSTANTS
    Bus,            \* the serial numbers of the devices, in the order of the bus
    DeviceId,       \* device_id.value of each instance; "" for auto
    Port,           \* the port of each instance
    MaxFaults       \* bound: crashes and failures of a device or a port

ASSUME DeploymentAssumption ==
    /\ DOMAIN DeviceId = Instances /\ DOMAIN Port = Instances
    /\ MaxFaults \in Nat

VARIABLES
    stage,          \* how far each child's run_instance is: "new", "open" or "ready"
    holds,          \* the device each child has open, 0 for none
    faults          \* faults so far

world == <<stage, holds, faults>>

DInit ==
    /\ Init
    /\ stage = [p \in Pids |-> "new"] /\ holds = [p \in Pids |-> 0] /\ faults = 0

\* Mutant: the device id is not passed on.
Wanted_first(n) == IF Bus = <<>> THEN 0 ELSE 1

\* What FT_OpenEx finds by the serial number, or FT_Open takes as the first of the
\* bus where there is none; 0 for no device.
Wanted(n) ==
    IF DeviceId[n] = "" THEN (IF Bus = <<>> THEN 0 ELSE 1)
    ELSE IF \E k \in DOMAIN Bus : Bus[k] = DeviceId[n] THEN CHOOSE k \in DOMAIN Bus : Bus[k] = DeviceId[n]
    ELSE 0

\* A device can be open in one process only, and so can a port.
DeviceFree(p) == Wanted(child[p].inst) # 0 /\ \A q \in Pids : holds[q] # Wanted(child[p].inst)
PortFree(p) == \A q \in Pids : stage[q] = "ready" => Port[child[q].inst] # Port[child[p].inst]

At(p, s) == child[p].status = "run" /\ stage[p] = s

\* The kernel closes what an ended child had open.
Release(p) == stage' = [stage EXCEPT ![p] = "new"] /\ holds' = [holds EXCEPT ![p] = 0]

\* A step that fails although nothing is in its way is one of the faults.
FailsIf(free) ==
    /\ free => faults < MaxFaults
    /\ faults' = IF free THEN faults + 1 ELSE faults

OpenDevice(p) ==
    /\ At(p, "new") /\ DeviceFree(p)
    /\ stage' = [stage EXCEPT ![p] = "open"]
    /\ holds' = [holds EXCEPT ![p] = Wanted(child[p].inst)]
    /\ UNCHANGED <<vars, faults>>

OpenFails(p) == At(p, "new") /\ FailsIf(DeviceFree(p)) /\ ChildDies(p) /\ Release(p)

\* Mutant: run_instance sets g_running before its loop and forgets a signal.
Listen_rearms(p) ==
    /\ At(p, "open") /\ PortFree(p)
    /\ stage' = [stage EXCEPT ![p] = "ready"]
    /\ child' = [child EXCEPT ![p].running = TRUE]
    /\ UNCHANGED <<g_running, g_reload, pid, pc, i, forkFailures, holds, faults>>

Listen(p) ==
    /\ At(p, "open") /\ PortFree(p)
    /\ stage' = [stage EXCEPT ![p] = "ready"]
    /\ UNCHANGED <<vars, holds, faults>>

ListenFails(p) == At(p, "open") /\ FailsIf(PortFree(p)) /\ ChildDies(p) /\ Release(p)

\* The loop of run_instance: it sees g_running, or waits for a client.
Stop(p) == At(p, "ready") /\ ChildStops(p) /\ Release(p) /\ UNCHANGED faults
Hang(p) == At(p, "ready") /\ ChildHangs(p) /\ UNCHANGED world
GoOn(p) == ChildGoesOn(p) /\ UNCHANGED world
Crash(p) == stage[p] = "ready" /\ FailsIf(TRUE) /\ ChildDies(p) /\ Release(p)

\* What a child does by itself; a fault is no such thing.
Proceed(p) ==
    \/ OpenDevice(p) \/ Listen(p) \/ Stop(p)
    \/ (OpenFails(p) /\ ~DeviceFree(p)) \/ (ListenFails(p) /\ ~PortFree(p))

ChildStep(p) ==
    \/ OpenDevice(p) \/ OpenFails(p) \/ Listen(p) \/ ListenFails(p)
    \/ Stop(p) \/ Hang(p) \/ GoOn(p) \/ Crash(p)

DNext ==
    \/ (Manager \/ Sigterm \/ Sigint \/ Sighup \/ Exited) /\ UNCHANGED world
    \/ \E p \in Pids : ChildStep(p)

\* As for the manager; a child comes to its loop and leaves it when told to.
DSpec ==
    /\ DInit /\ [][DNext]_<<vars, world>>
    /\ WF_vars(Manager /\ UNCHANGED world)
    /\ \A p \in Pids : SF_vars(Reap(p) /\ UNCHANGED world) /\ WF_<<vars, world>>(Proceed(p))

-----------------------------------------------------------------------------
(* Properties. *)

\* The children as they are, with start-up, devices and ports, behave as the manager's
\* specification assumes of them, its fairness included: a child told to stop while it
\* is still opening its device stops.
ImplementsManager == FairSpec

Ready(n) == \E p \in Pids : child[p].status \in {"run", "hang"} /\ child[p].inst = n /\ stage[p] = "ready"

\* The device the configuration means for n: its serial number, or the first there is.
Means(n, k) == IF DeviceId[n] = "" THEN k = 1 ELSE Bus[k] = DeviceId[n]

\* n has a device that is meant for no other enabled instance, and a port of its own.
Undisputed(n) ==
    /\ \E k \in DOMAIN Bus : Means(n, k) /\ \A m \in Enabled \ {n} : ~Means(m, k)
    /\ \A m \in Enabled \ {n} : Port[m] # Port[n]

\* An instance with a device and a port of its own serves sooner or later, and again
\* after it crashed, while others fail to start over and over: the restart never
\* meets a process of the same instance that still has the device open.  A fork() that
\* fails stops no instance but its own.
UndisputedServes ==
    \A n \in Enabled, f \in 0 .. MaxForkFailures : Undisputed(n) =>
        ((pc = "check" /\ pid[n] # 0 /\ forkFailures = f) ~> (Ready(n) \/ ~g_running \/ forkFailures > f))

\* README.md: "4 = auto # Instance 4 auto-detects device", "5 = auto # Instance 5
\* auto-detects device"; main.c, check_children: "Auto-restart if still running".  With a
\* device for each, every instance comes to serve, again after it has died.
EveryInstanceServes == \A n \in Enabled : (pc = "check" /\ pid[n] # 0) ~> (Ready(n) \/ ~g_running)
=============================================================================
