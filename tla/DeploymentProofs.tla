-------------------------- MODULE DeploymentProofs --------------------------
(***************************************************************************)
(* For any bus, any device ids and ports: the manager with its children's  *)
(* start-up behaves as InstanceManager says, so that what is proved there  *)
(* holds of the whole server.                                              *)
(***************************************************************************)
EXTENDS Deployment, InstanceManagerProofs

\* The system without its fairness.
Deployed == DInit /\ [][DNext]_<<vars, world>>

\* What a child does in its start-up is, for the manager, nothing, or the end, a hang
\* or a return of that child.
LEMMA ChildStepImplements ==
    ASSUME NEW p \in Pids, ChildStep(p)
    PROVE  Next \/ UNCHANGED vars
<1>1. ChildDies(p) \/ ChildStops(p) \/ ChildHangs(p) \/ ChildGoesOn(p) => Next
    BY DEF Next, Environment
<1>2. CASE OpenDevice(p) \/ Listen(p)
    BY <1>2 DEF OpenDevice, Listen
<1>3. CASE OpenFails(p) \/ ListenFails(p) \/ Crash(p)
    BY <1>1, <1>3 DEF OpenFails, ListenFails, Crash
<1>4. CASE Stop(p) \/ Hang(p) \/ GoOn(p)
    BY <1>1, <1>4 DEF Stop, Hang, GoOn
<1> QED BY <1>2, <1>3, <1>4 DEF ChildStep

\* The manager with devices and ports implements the specification of the manager:
\* opening and listening are stuttering steps, failing to is the death of a child.
THEOREM DeploymentImplementsManager == Deployed => Spec
<1>1. DInit => Init
    BY DEF DInit
<1>2. [DNext]_<<vars, world>> => [Next]_vars
    <2> SUFFICES ASSUME [DNext]_<<vars, world>> PROVE Next \/ UNCHANGED vars
        OBVIOUS
    <2>1. CASE Manager \/ Sigterm \/ Sigint \/ Sighup \/ Exited
        BY <2>1 DEF Next, Environment
    <2>2. CASE \E p \in Pids : ChildStep(p)
        BY <2>2, ChildStepImplements
    <2>3. CASE UNCHANGED <<vars, world>>
        BY <2>3
    <2> QED BY <2>1, <2>2, <2>3 DEF DNext
<1> QED BY <1>1, <1>2, PTL DEF Deployed, Spec

\* However the children's start-up goes: main knows its children, tells every one of
\* them to stop, and leaves none behind.
THEOREM DeploymentIsSafe == Deployed => [](PidTracksChild /\ StopReachesAll /\ NoOrphans)
BY DeploymentImplementsManager, ManagerKnowsItsChildren, EveryChildIsStopped, NoChildOutlives, PTL
=============================================================================
