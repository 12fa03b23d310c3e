----------------------- MODULE InstanceManagerProofs -----------------------
(***************************************************************************)
(* What holds of the instance manager for any number of instances and any  *)
(* process ids: it knows its children, none of them is missed when the     *)
(* server is told to stop, and none outlives it.                           *)
(***************************************************************************)
EXTENDS InstanceManager, TLAPS

\* The instances main has still to start have no process id; the instance that
\* check_children is about to start again has none either.
NoneYet ==
    /\ pc = "spawn" => \A n \in Instances : n >= i => pid[n] = 0
    /\ pc = "restart" => pid[i] = 0

\* The children main has signalled, or waited for, are those of the instances
\* before i.
KilledSoFar ==
    pc = "kill" => \A p \in Pids : child[p].status \in {"run", "hang"} /\ child[p].inst < i => ~child[p].running
WaitedSoFar ==
    pc = "wait" => \A p \in Pids : child[p].status # "gone" => child[p].inst >= i

IInv == TypeOK /\ PidTracksChild /\ NoneYet /\ KilledSoFar /\ WaitedSoFar /\ NoOrphans /\ StopReachesAll

\* The assumptions on the constants that the steps use.
LEMMA Constants ==
    /\ InstanceCount \in Nat /\ MaxForkFailures \in Nat
    /\ Enabled \subseteq Instances
    /\ Pids \subseteq Nat /\ 0 \notin Pids
BY ManagerAssumption

\* Every child process is either gone or a record of its instance.
LEMMA ChildType ==
    ASSUME TypeOK, NEW p \in Pids, child[p].status # "gone"
    PROVE  child[p] \in Child
BY DEF TypeOK, Gone

\* The start: no child, no process id.
LEMMA InitHolds == Init => IInv
<1> SUFFICES ASSUME Init PROVE IInv
    OBVIOUS
<1>1. TypeOK
    <2>1. 1 \in 1 .. InstanceCount + 1 /\ 0 \in 0 .. MaxForkFailures
        BY Constants
    <2> QED BY <2>1 DEF Init, TypeOK
<1>2. \A p \in Pids : child[p].status = "gone"
    BY DEF Init, Gone
<1>3. \A n \in Instances : pid[n] = 0
    BY DEF Init
<1> QED
    BY <1>1, <1>2, <1>3 DEF Init, IInv, PidTracksChild, NoneYet, KilledSoFar, WaitedSoFar, NoOrphans, StopReachesAll

\* Steps of main that only move on keep the invariant.
LEMMA MovesOn ==
    ASSUME IInv, SpawnDone \/ Loop \/ ReapNone \/ Reload \/ KillDone \/ WaitDone
    PROVE  IInv'
<1> USE DEF IInv, TypeOK, PidTracksChild, NoneYet, KilledSoFar, WaitedSoFar, NoOrphans, StopReachesAll, Instances
<1>1. CASE SpawnDone
    BY <1>1, Constants DEF SpawnDone
<1>2. CASE Loop
    <2>1. \A p \in Pids : child[p].status \in {"run", "hang"} => child[p].inst \in 1 .. InstanceCount
        BY ChildType DEF Child
    <2>2. KilledSoFar'
        BY <1>2, <2>1, Constants DEF Loop
    <2> QED BY <1>2, <2>2, Constants DEF Loop
<1>3. CASE ReapNone
    BY <1>3, Constants DEF ReapNone
<1>4. CASE Reload
    BY <1>4, Constants DEF Reload
<1>5. CASE KillDone
    <2>1. \A p \in Pids : child[p].status # "gone" => child[p].inst \in 1 .. InstanceCount
        BY ChildType DEF Child
    <2> QED BY <1>5, <2>1, Constants DEF KillDone
<1>6. CASE WaitDone
    <2>1. \A p \in Pids : child[p].status # "gone" => child[p].inst \in 1 .. InstanceCount
        BY ChildType DEF Child
    <2> QED BY <1>6, <2>1, Constants DEF WaitDone
<1> QED BY <1>1, <1>2, <1>3, <1>4, <1>5, <1>6

\* spawn_instance for an instance without a child, before the shutdown.
LEMMA SpawnHolds ==
    ASSUME IInv, NEW n \in Instances, pid[n] = 0, spawn_instance(n),
           pc \in {"spawn", "restart"}, pc' \in {"spawn", "check"}, pc = "spawn" => pc' = "spawn" /\ i' = n + 1,
           i' \in 1 .. InstanceCount + 1,
           UNCHANGED <<g_running, g_reload>>, pc = "spawn" => n = i, pc' = "spawn" => pc = "spawn"
    PROVE  IInv'
<1> USE DEF IInv
<1>1. CASE ForkFails
    BY <1>1, Constants DEF ForkFails, TypeOK, PidTracksChild, NoneYet, KilledSoFar, WaitedSoFar,
       NoOrphans, StopReachesAll, Instances
<1>2. ASSUME NEW p \in Pids, Forked(n, p) PROVE IInv'
    <2> DEFINE c == [inst |-> n, status |-> "run", running |-> g_running]
    <2>1. c \in Child /\ c.status = "run" /\ c.inst = n
        BY DEF TypeOK, Child
    <2>2. child' = [child EXCEPT ![p] = c] /\ pid' = [pid EXCEPT ![n] = p] /\ child[p].status = "gone"
          /\ forkFailures' = forkFailures
        BY <1>2 DEF Forked
    <2>3. TypeOK'
        BY <2>1, <2>2 DEF TypeOK
    <2>4. \A q \in Pids : child'[q] = IF q = p THEN c ELSE child[q]
        BY <2>2 DEF TypeOK
    <2>5. \A m \in Instances : pid'[m] = IF m = n THEN p ELSE pid[m]
        BY <2>2 DEF TypeOK
    <2>6. p # 0
        BY Constants
    <2>7. PidTracksChild'
        <3>1. ASSUME NEW q \in Pids, child'[q].status # "gone" PROVE pid'[child'[q].inst] = q
            <4>1. CASE q = p
                BY <4>1, <2>1, <2>4, <2>5
            <4>2. CASE q # p
                <5>1. child'[q] = child[q] /\ child[q].inst \in Instances /\ pid[child[q].inst] = q
                    BY <4>2, <2>4, <3>1, ChildType DEF PidTracksChild, Child
                <5>2. child[q].inst # n
                    BY <5>1, Constants
                <5> QED BY <5>1, <5>2, <2>5
            <4> QED BY <4>1, <4>2
        <3>2. ASSUME NEW m \in Instances, pid'[m] # 0
              PROVE  child'[pid'[m]].status # "gone" /\ child'[pid'[m]].inst = m
            <4>1. CASE m = n
                BY <4>1, <2>1, <2>4, <2>5
            <4>2. CASE m # n
                <5>1. pid'[m] = pid[m] /\ pid[m] \in Pids /\ child[pid[m]].status # "gone" /\ child[pid[m]].inst = m
                    BY <4>2, <2>5, <3>2 DEF PidTracksChild, TypeOK
                <5>2. pid[m] # p
                    BY <5>1, <2>2
                <5> QED BY <5>1, <5>2, <2>4
            <4> QED BY <4>1, <4>2
        <3> QED BY <3>1, <3>2 DEF PidTracksChild
    <2>8. NoneYet'
        <3>1. ASSUME pc' = "spawn", NEW m \in Instances, m >= i' PROVE pid'[m] = 0
            BY <3>1, <2>5 DEF NoneYet, Instances, TypeOK
        <3> QED BY <3>1 DEF NoneYet
    <2> QED BY <2>3, <2>7, <2>8 DEF KilledSoFar, WaitedSoFar, NoOrphans, StopReachesAll
<1> QED BY <1>1, <1>2 DEF spawn_instance

\* main's first loop.
LEMMA SpawnNextHolds ==
    ASSUME IInv, SpawnNext
    PROVE  IInv'
<1>1. i \in Instances
    BY Constants DEF IInv, TypeOK, SpawnNext, Instances
<1>2. CASE i \in Enabled
    <2>1. spawn_instance(i) /\ pid[i] = 0 /\ i' \in 1 .. InstanceCount + 1
        BY <1>1, <1>2, Constants DEF SpawnNext, IInv, NoneYet, Instances
    <2> QED BY <1>1, <2>1, SpawnHolds DEF SpawnNext
<1>3. CASE i \notin Enabled
    BY <1>1, <1>3, Constants DEF SpawnNext, IInv, TypeOK, PidTracksChild, NoneYet, KilledSoFar,
       WaitedSoFar, NoOrphans, StopReachesAll, Instances
<1> QED BY <1>2, <1>3

\* The restart in check_children.
LEMMA RestartHolds ==
    ASSUME IInv, Restart
    PROVE  IInv'
<1>1. i \in Instances /\ pid[i] = 0 /\ spawn_instance(i) /\ pc = "restart" /\ pc' = "check" /\ i' = i
    BY Constants DEF Restart, IInv, TypeOK, NoneYet
<1>2. i' \in 1 .. InstanceCount + 1 /\ UNCHANGED <<g_running, g_reload>>
    BY DEF Restart, IInv, TypeOK
<1> QED BY <1>1, <1>2, SpawnHolds

\* check_children forgets exactly the child it has waited for.
LEMMA ReapHolds ==
    ASSUME IInv, NEW p \in Pids, Reap(p)
    PROVE  IInv'
<1> DEFINE n == child[p].inst
<1> USE DEF IInv
<1>1. n \in Instances /\ pid[n] = p /\ \A m \in Instances : pid[m] = p => m = n
    BY Constants, ChildType DEF Reap, PidTracksChild, Child
<1>2. \A m \in Instances : pid'[m] = IF m = n THEN 0 ELSE pid[m]
    <2>1. \A m \in 1 .. n - 1 : pid[m] # p
        BY <1>1, Constants DEF Instances
    <2> QED BY <1>1, <2>1 DEF Reap, Forget
<1>3. \A q \in Pids : child'[q] = IF q = p THEN Gone ELSE child[q]
    BY DEF Reap, TypeOK
<1>4. pc = "check" /\ (UNCHANGED <<pc, i>> \/ (pc' = "restart" /\ i' = n /\ n \in Enabled))
    <2> DEFINE again == {m \in Enabled : g_running /\ pid[m] = p}
    <2>1. \A m \in again : m = n /\ n \in Enabled
        BY <1>1, Constants
    <2>2. IF again # {} THEN pc' = "restart" /\ i' \in again ELSE UNCHANGED <<pc, i>>
        BY DEF Reap
    <2>3. pc = "check"
        BY DEF Reap
    <2> HIDE DEF again
    <2> QED BY <2>1, <2>2, <2>3
<1>5. TypeOK'
    <2>1. child' \in [Pids -> Child \cup {Gone}]
        BY DEF Reap, TypeOK
    <2>2. pid' \in [Instances -> Pids \cup {0}]
        BY DEF Reap, Forget, TypeOK
    <2>3. i' \in 1 .. InstanceCount + 1
        BY <1>1, <1>4, Constants DEF TypeOK, Instances
    <2>4. UNCHANGED <<g_running, g_reload, forkFailures>>
        BY DEF Reap
    <2> QED BY <1>4, <2>1, <2>2, <2>3, <2>4 DEF TypeOK
<1>6. PidTracksChild'
    <2>1. ASSUME NEW q \in Pids, child'[q].status # "gone" PROVE pid'[child'[q].inst] = q
        <3>1. q # p /\ child'[q] = child[q]
            BY <2>1, <1>3 DEF Gone
        <3>2. child[q].inst \in Instances /\ pid[child[q].inst] = q
            BY <2>1, <3>1, ChildType DEF PidTracksChild, Child
        <3> QED BY <3>1, <3>2, <1>1, <1>2
    <2>2. ASSUME NEW m \in Instances, pid'[m] # 0
          PROVE  child'[pid'[m]].status # "gone" /\ child'[pid'[m]].inst = m
        <3>1. m # n /\ pid'[m] = pid[m] /\ pid[m] \in Pids /\ pid[m] # p
            BY <2>2, <1>1, <1>2 DEF TypeOK
        <3>2. child[pid[m]].status # "gone" /\ child[pid[m]].inst = m
            BY <3>1, <2>2, <1>4 DEF PidTracksChild
        <3>3. child'[pid[m]] = child[pid[m]]
            BY <3>1, <1>3
        <3> QED BY <3>1, <3>2, <3>3
    <2> QED BY <2>1, <2>2 DEF PidTracksChild
<1>7. NoneYet'
    BY <1>1, <1>2, <1>4 DEF NoneYet
<1> QED BY <1>4, <1>5, <1>6, <1>7 DEF KilledSoFar, WaitedSoFar, NoOrphans, StopReachesAll

\* main signals the child of instance i, which is the only one of that instance.
LEMMA KillHolds ==
    ASSUME IInv, KillNext
    PROVE  IInv'
<1> USE DEF IInv
<1>1. i \in Instances /\ i' = i + 1 /\ pc = "kill" /\ pc' = "kill" /\ pid' = pid
    BY Constants DEF KillNext, TypeOK, Instances
<1>2. \A q \in Pids : /\ child'[q].status = child[q].status
                      /\ child'[q].status # "gone" => child'[q].inst = child[q].inst
                      /\ child'[q] \in Child \cup {Gone}
                      /\ child[q].status \in {"run", "hang"} /\ pid[i] = q => ~child'[q].running
                      /\ ~child[q].running => ~child'[q].running
    <2> DEFINE signalled == pid[i] # 0 /\ child[pid[i]].status \in {"run", "hang"}
    <2>1. CASE signalled
        <3> DEFINE q0 == pid[i]
        <3>1. q0 \in Pids /\ child[q0] \in Child
            BY <2>1, <1>1, ChildType DEF TypeOK
        <3>2. child' = [child EXCEPT ![q0] = [child[q0] EXCEPT !.running = FALSE]]
            BY <2>1 DEF KillNext
        <3>3. \A q \in Pids : q # q0 => child'[q] = child[q]
            BY <3>1, <3>2 DEF TypeOK
        <3>4. /\ child'[q0] = [child[q0] EXCEPT !.running = FALSE]
              /\ child'[q0] \in Child /\ child'[q0].status = child[q0].status
              /\ child'[q0].inst = child[q0].inst /\ ~child'[q0].running
            BY <3>1, <3>2 DEF TypeOK, Child
        <3> HIDE DEF q0
        <3>5. \A q \in Pids : child[q] \in Child \cup {Gone}
            BY DEF TypeOK
        <3> QED BY <3>3, <3>4, <3>5 DEF q0
    <2>2. CASE ~signalled
        <3>1. child' = child
            BY <2>2 DEF KillNext
        <3>2. \A q \in Pids : child[q] \in Child \cup {Gone} /\ q # 0
            BY Constants DEF TypeOK
        <3> QED BY <2>2, <3>1, <3>2
    <2> QED BY <2>1, <2>2
<1>3. TypeOK'
    <2>1. child' \in [Pids -> Child \cup {Gone}]
        BY <1>2 DEF KillNext, TypeOK
    <2>2. i' \in 1 .. InstanceCount + 1
        BY <1>1, Constants DEF Instances
    <2> QED BY <1>1, <2>1, <2>2 DEF KillNext, TypeOK
<1>4. PidTracksChild'
    <2>1. ASSUME NEW m \in Instances, pid[m] # 0
          PROVE  child'[pid[m]].status # "gone" /\ child'[pid[m]].inst = m
        <3>1. pid[m] \in Pids /\ child[pid[m]].status # "gone" /\ child[pid[m]].inst = m
            BY <1>1, <2>1 DEF PidTracksChild, TypeOK
        <3> QED BY <3>1, <1>2
    <2>2. ASSUME NEW q \in Pids, child'[q].status # "gone" PROVE pid[child'[q].inst] = q
        BY <2>2, <1>2 DEF PidTracksChild
    <2> QED BY <1>1, <2>1, <2>2 DEF PidTracksChild
<1>5. KilledSoFar'
    <2> SUFFICES ASSUME NEW q \in Pids, child'[q].status \in {"run", "hang"}, child'[q].inst < i + 1
                 PROVE  ~child'[q].running
        BY <1>1 DEF KilledSoFar
    <2>1. child[q].status \in {"run", "hang"} /\ child'[q].inst = child[q].inst /\ child[q].inst \in Instances
          /\ pid[child[q].inst] = q
        BY <1>2, ChildType DEF PidTracksChild, Child
    <2>2. CASE child[q].inst = i
        BY <2>1, <2>2, <1>2
    <2>3. CASE child[q].inst # i
        <3>1. child[q].inst < i
            BY <2>1, <2>3, <1>1 DEF Instances
        <3> QED BY <3>1, <2>1, <1>1, <1>2 DEF KilledSoFar
    <2> QED BY <2>2, <2>3
<1> QED BY <1>1, <1>3, <1>4, <1>5 DEF NoneYet, WaitedSoFar, NoOrphans, StopReachesAll

\* main has waited for the child of instance i.
LEMMA WaitHolds ==
    ASSUME IInv, WaitNext
    PROVE  IInv'
<1> USE DEF IInv
<1>1. i \in Instances /\ i' = i + 1 /\ pc = "wait" /\ pc' = "wait" /\ pid' = pid
    BY Constants DEF WaitNext, TypeOK, Instances
<1>2. \A q \in Pids : /\ child'[q] = child[q] \/ child'[q] = Gone
                      /\ pid[i] = q => child'[q].status = "gone"
    <2>1. CASE pid[i] = 0 /\ child' = child
        BY <2>1, Constants
    <2>2. CASE pid[i] # 0 /\ child' = [child EXCEPT ![pid[i]] = Gone]
        <3>1. \A q \in Pids : child'[q] = IF q = pid[i] THEN Gone ELSE child[q]
            BY <2>2 DEF TypeOK
        <3> QED BY <3>1 DEF Gone
    <2> QED BY <2>1, <2>2 DEF WaitNext
<1>3. \A q \in Pids : child'[q].status # "gone" => child'[q] = child[q] /\ pid[i] # q
    BY <1>2 DEF Gone
<1>4. TypeOK'
    <2>1. child' \in [Pids -> Child \cup {Gone}]
        BY <1>1 DEF WaitNext, TypeOK
    <2>2. i' \in 1 .. InstanceCount + 1
        BY <1>1, Constants DEF Instances
    <2> QED BY <1>1, <2>1, <2>2 DEF WaitNext, TypeOK
<1>5. PidTracksChild'
    BY <1>1, <1>3 DEF PidTracksChild
<1>6. WaitedSoFar'
    <2> SUFFICES ASSUME NEW q \in Pids, child'[q].status # "gone" PROVE child'[q].inst >= i + 1
        BY <1>1 DEF WaitedSoFar
    <2>1. child'[q] = child[q] /\ child[q].inst \in Instances /\ pid[child[q].inst] = q /\ child[q].inst >= i
        BY <1>1, <1>3, ChildType DEF PidTracksChild, WaitedSoFar, Child
    <2>2. child[q].inst # i
        BY <2>1, <1>3
    <2> QED BY <2>1, <2>2, <1>1 DEF Instances
<1>7. StopReachesAll'
    BY <1>1, <1>3 DEF StopReachesAll
<1> QED BY <1>1, <1>4, <1>5, <1>6, <1>7 DEF NoneYet, KilledSoFar, NoOrphans

\* What a child does keeps it a child of its instance and its g_running.
LEMMA ChildHolds ==
    ASSUME IInv, NEW p \in Pids, NEW s \in {"run", "hang", "zombie"}, child[p].status \in {"run", "hang"}, SetChild(p, s)
    PROVE  IInv'
<1> USE DEF IInv
<1>1. child[p] \in Child
    BY ChildType
<1>2. UNCHANGED <<g_running, g_reload, pid, pc, i, forkFailures>>
    BY DEF SetChild
<1>3. \A q \in Pids : q # p => child'[q] = child[q]
    BY DEF SetChild, TypeOK
<1>4. child'[p] \in Child /\ child'[p].inst = child[p].inst /\ child'[p].running = child[p].running
      /\ child'[p].status # "gone"
    BY <1>1 DEF SetChild, TypeOK, Child
<1>5. TypeOK'
    <2>1. child' \in [Pids -> Child \cup {Gone}]
        BY <1>3, <1>4 DEF SetChild, TypeOK
    <2> QED BY <1>2, <2>1 DEF TypeOK
<1>6. PidTracksChild'
    BY <1>2, <1>3, <1>4 DEF PidTracksChild, TypeOK
<1> QED BY <1>2, <1>3, <1>4, <1>5, <1>6 DEF NoneYet, KilledSoFar, WaitedSoFar, NoOrphans, StopReachesAll

\* A signal changes only flags: the manager's, and for SIGINT the children's.
LEMMA SignalHolds ==
    ASSUME IInv, Sigterm \/ Sigint \/ Sighup
    PROVE  IInv'
<1> USE DEF IInv
<1>1. UNCHANGED <<pid, pc, i, forkFailures>>
      /\ g_running' \in BOOLEAN /\ g_reload' \in BOOLEAN
    BY DEF Sigterm, Sigint, Sighup, TypeOK
<1>2. \A q \in Pids : /\ child'[q].status = child[q].status
                      /\ child'[q].inst = child[q].inst
                      /\ child'[q] \in Child \cup {Gone}
                      /\ child[q].status \in {"run", "hang"} /\ ~child[q].running => ~child'[q].running
    <2>1. CASE child' = child
        BY <2>1 DEF TypeOK
    <2>2. CASE Sigint
        BY <2>2, ChildType DEF Sigint, TypeOK, Child, Gone
    <2> QED BY <2>1, <2>2 DEF Sigterm, Sighup
<1>3. child' \in [Pids -> Child \cup {Gone}]
    BY <1>2 DEF Sigterm, Sigint, Sighup, TypeOK
<1>4. TypeOK'
    BY <1>1, <1>3 DEF TypeOK
<1>5. PidTracksChild'
    BY <1>1, <1>2 DEF PidTracksChild, TypeOK
<1> QED BY <1>1, <1>2, <1>4, <1>5 DEF NoneYet, KilledSoFar, WaitedSoFar, NoOrphans, StopReachesAll

\* The invariant, of every reachable state.
THEOREM Invariance == Spec => []IInv
<1>1. IInv /\ [Next]_vars => IInv'
    <2> SUFFICES ASSUME IInv, [Next]_vars PROVE IInv'
        OBVIOUS
    <2>1. CASE Manager
        BY <2>1, MovesOn, SpawnNextHolds, RestartHolds, ReapHolds, KillHolds, WaitHolds DEF Manager
    <2>2. CASE Environment
        BY <2>2, ChildHolds, SignalHolds DEF Environment, ChildStops, ChildDies, ChildHangs, ChildGoesOn
    <2>3. CASE UNCHANGED vars
        BY <2>3 DEF vars, IInv, TypeOK, PidTracksChild, NoneYet, KilledSoFar, WaitedSoFar, NoOrphans, StopReachesAll
    <2> QED BY <2>1, <2>2, <2>3 DEF Next, Exited
<1> QED BY InitHolds, <1>1, PTL DEF Spec

\* For any number of instances: main's loop indices never run past the last instance,
\* and only an enabled instance is started again.
THEOREM ManagerTypeCorrect == Spec => []TypeOK
<1>1. IInv => TypeOK
    BY DEF IInv
<1> QED BY <1>1, Invariance, PTL

\* For any number of instances: every child is recorded by its instance, and kill
\* and waitpid in main only ever address the manager's own, unreaped children.
THEOREM ManagerKnowsItsChildren == Spec => []PidTracksChild
<1>1. IInv => PidTracksChild
    BY DEF IInv
<1> QED BY <1>1, Invariance, PTL

\* For any number of instances and any moment of the signal: every child still
\* running when main starts to wait has been told to stop.
THEOREM EveryChildIsStopped == Spec => []StopReachesAll
<1>1. IInv => StopReachesAll
    BY DEF IInv
<1> QED BY <1>1, Invariance, PTL

\* For any number of instances: main returns only when no child is left.
THEOREM NoChildOutlives == Spec => []NoOrphans
<1>1. IInv => NoOrphans
    BY DEF IInv
<1> QED BY <1>1, Invariance, PTL
=============================================================================
