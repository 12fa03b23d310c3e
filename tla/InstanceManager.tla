-------------------------- MODULE InstanceManager --------------------------
(***************************************************************************)
(* The instance manager of main.c: main forks one child process for every  *)
(* enabled instance, check_children reaps children that ended and forks    *)
(* them again, and after SIGTERM or SIGINT main signals every child and    *)
(* waits for each.  A child is what run_instance does seen from outside    *)
(* (XvcInstance.tla is its inside): it runs, may hang in a read from or    *)
(* a write to a client that stopped half way, may die, and ends by itself  *)
(* once its own copy of g_running is 0 and it is not hanging.              *)
(***************************************************************************)
EXTENDS Naturals, FiniteSets

CONSTANTS
    InstanceCount,      \* g_config.instance_count
    Enabled,            \* the instances with enabled = true
    Pids,               \* process ids the kernel hands out
    MaxForkFailures     \* bound: fork() calls that fail

Instances == 1 .. InstanceCount

\* One enabled instance alone is run by main itself, without a manager.  Two processes
\* of one instance are never needed, so the kernel always has a process id to spare.
ASSUME ManagerAssumption ==
    /\ InstanceCount \in Nat /\ MaxForkFailures \in Nat
    /\ Enabled \subseteq Instances
    /\ ~(InstanceCount = 1 /\ Enabled = {1})
    /\ Pids \subseteq Nat \ {0} /\ IsFiniteSet(Pids) /\ Cardinality(Pids) >= InstanceCount

VARIABLES
    g_running, g_reload,    \* the manager's flags, set by signal_handler
    pid,                    \* instances[i].pid, 0 for none
    child,                  \* the manager's child processes, by process id
    pc,                     \* where main is
    i,                      \* the instance main's or check_children's loop is at
    forkFailures            \* fork() calls that failed

vars == <<g_running, g_reload, pid, child, pc, i, forkFailures>>

\* A child: the instance it runs, "run", "hang" (in a read or a
\* write), "zombie" (ended, not yet waited for) or "gone", and its own g_running.
Gone == [inst |-> 0, status |-> "gone", running |-> FALSE]
Child == [inst : Instances, status : {"run", "hang", "zombie"}, running : BOOLEAN]

\* The type of the state: recorded pids, the children the kernel keeps, and the
\* loop indices of main, never past the last instance.
TypeOK ==
    /\ g_running \in BOOLEAN /\ g_reload \in BOOLEAN
    /\ pid \in [Instances -> Pids \cup {0}]
    /\ child \in [Pids -> Child \cup {Gone}]
    /\ pc \in {"spawn", "loop", "check", "restart", "reload", "kill", "wait", "exited"}
    /\ i \in 1 .. InstanceCount + 1
    /\ pc = "restart" => i \in Enabled
    /\ forkFailures \in 0 .. MaxForkFailures

Init ==
    /\ g_running = TRUE /\ g_reload = FALSE
    /\ pid = [n \in Instances |-> 0]
    /\ child = [p \in Pids |-> Gone]
    /\ pc = "spawn" /\ i = 1
    /\ forkFailures = 0

-----------------------------------------------------------------------------
(* The manager. *)

\* Mutant: the new child's process id is not recorded.
Forked_lost(n, p) ==
    /\ child[p].status = "gone"
    /\ child' = [child EXCEPT ![p] = [inst |-> n, status |-> "run", running |-> g_running]]
    /\ UNCHANGED <<pid, forkFailures>>

\* fork() succeeds: the child starts with a copy of the manager's g_running.
Forked(n, p) ==
    /\ child[p].status = "gone"
    /\ child' = [child EXCEPT ![p] = [inst |-> n, status |-> "run", running |-> g_running]]
    /\ pid' = [pid EXCEPT ![n] = p]
    /\ UNCHANGED forkFailures

\* fork() fails: an error is logged, the instance stays without a child.
ForkFails ==
    /\ forkFailures < MaxForkFailures
    /\ forkFailures' = forkFailures + 1
    /\ UNCHANGED <<child, pid>>

spawn_instance(n) == ForkFails \/ \E p \in Pids : Forked(n, p)

\* Mutant: the loop runs one instance too far.
SpawnNext_past ==
    /\ pc = "spawn" /\ i <= InstanceCount + 1
    /\ i' = i + 1
    /\ \/ i \in Enabled /\ spawn_instance(i)
       \/ i \notin Enabled /\ UNCHANGED <<child, pid, forkFailures>>
    /\ UNCHANGED <<g_running, g_reload, pc>>

\* main's loop over the instances, before the main loop.
SpawnNext ==
    /\ pc = "spawn" /\ i <= InstanceCount
    /\ i' = i + 1
    /\ \/ i \in Enabled /\ spawn_instance(i)
       \/ i \notin Enabled /\ UNCHANGED <<child, pid, forkFailures>>
    /\ UNCHANGED <<g_running, g_reload, pc>>

SpawnDone ==
    /\ pc = "spawn" /\ i > InstanceCount
    /\ pc' = "loop" /\ i' = 1
    /\ UNCHANGED <<g_running, g_reload, child, pid, forkFailures>>

\* while (g_running): once more, or on to the shutdown.
Loop ==
    /\ pc = "loop"
    /\ pc' = IF g_running THEN "check" ELSE "kill"
    /\ i' = 1
    /\ UNCHANGED <<g_running, g_reload, child, pid, forkFailures>>

\* Mutant: an instance whose child has ended keeps its process id.
Forget_keeps(p) == pid

\* inst->pid = 0 for the instance whose child has ended.
Forget(p) == [n \in Instances |-> IF pid[n] = p /\ \A m \in 1 .. n - 1 : pid[m] # p THEN 0 ELSE pid[n]]

\* check_children: one round of its waitpid loop.  The instance is found by the
\* process id; when it is to be restarted, g_running is not looked at again after
\* the sleep.
Reap(p) ==
    /\ pc = "check"
    /\ child[p].status = "zombie"
    /\ child' = [child EXCEPT ![p] = Gone]
    /\ pid' = Forget(p)
    /\ LET again == {n \in Enabled : g_running /\ pid[n] = p}
       IN IF again # {} THEN pc' = "restart" /\ i' \in again ELSE UNCHANGED <<pc, i>>
    /\ UNCHANGED <<g_running, g_reload, forkFailures>>

ReapNone ==
    /\ pc = "check"
    /\ \A p \in Pids : child[p].status # "zombie"
    /\ pc' = "reload"
    /\ UNCHANGED <<g_running, g_reload, child, pid, i, forkFailures>>

\* Mutant: the restart is logged and slept for, but no child is started.
Restart_skipped ==
    /\ pc = "restart"
    /\ pc' = "check"
    /\ UNCHANGED <<g_running, g_reload, child, pid, i, forkFailures>>

Restart ==
    /\ pc = "restart"
    /\ spawn_instance(i)
    /\ pc' = "check"
    /\ UNCHANGED <<g_running, g_reload, i>>

\* The reload request is acknowledged; reloading is not implemented.
Reload ==
    /\ pc = "reload"
    /\ g_reload' = FALSE
    /\ pc' = "loop"
    /\ UNCHANGED <<g_running, child, pid, i, forkFailures>>

\* Mutant: the loop leaves out the first entry of the table.
KillNext_second ==
    /\ pc = "kill" /\ i <= InstanceCount
    /\ i' = i + 1
    /\ child' = IF i > 1 /\ pid[i] # 0 /\ child[pid[i]].status \in {"run", "hang"}
                THEN [child EXCEPT ![pid[i]].running = FALSE] ELSE child
    /\ UNCHANGED <<g_running, g_reload, pid, pc, forkFailures>>

\* SIGTERM to every recorded child.  A child that has ended is not disturbed.
KillNext ==
    /\ pc = "kill" /\ i <= InstanceCount
    /\ i' = i + 1
    /\ child' = IF pid[i] # 0 /\ child[pid[i]].status \in {"run", "hang"}
                THEN [child EXCEPT ![pid[i]].running = FALSE] ELSE child
    /\ UNCHANGED <<g_running, g_reload, pid, pc, forkFailures>>

KillDone ==
    /\ pc = "kill" /\ i > InstanceCount
    /\ pc' = "wait" /\ i' = 1
    /\ UNCHANGED <<g_running, g_reload, child, pid, forkFailures>>

\* The blocking waitpid for each recorded child; the record is not cleared.
\* waitpid for a process that is no child any more returns at once.
WaitNext ==
    /\ pc = "wait" /\ i <= InstanceCount
    /\ i' = i + 1
    /\ \/ pid[i] = 0 /\ UNCHANGED child
       \/ pid[i] # 0 /\ child[pid[i]].status \in {"zombie", "gone"}
                     /\ child' = [child EXCEPT ![pid[i]] = Gone]
    /\ UNCHANGED <<g_running, g_reload, pid, pc, forkFailures>>

WaitDone ==
    /\ pc = "wait" /\ i > InstanceCount
    /\ pc' = "exited"
    /\ UNCHANGED <<g_running, g_reload, child, pid, i, forkFailures>>

Manager == \/ SpawnNext \/ SpawnDone \/ Loop \/ (\E p \in Pids : Reap(p)) \/ ReapNone
           \/ Restart \/ Reload \/ KillNext \/ KillDone \/ WaitNext \/ WaitDone

-----------------------------------------------------------------------------
(* The children and the operator. *)

SetChild(p, status) ==
    /\ child' = [child EXCEPT ![p].status = status]
    /\ UNCHANGED <<g_running, g_reload, pid, pc, i, forkFailures>>

\* run_instance returns because the child's g_running is 0.
ChildStops(p) == child[p].status = "run" /\ ~child[p].running /\ SetChild(p, "zombie")

\* The child fails to open its device or port, gets a fatal signal, or poll fails.
ChildDies(p) == child[p].status \in {"run", "hang"} /\ SetChild(p, "zombie")

\* A client stops half way through a command or its answer, and goes on or away again.
ChildHangs(p) == child[p].status = "run" /\ SetChild(p, "hang")
ChildGoesOn(p) == child[p].status = "hang" /\ SetChild(p, "run")

\* signal_handler in the manager: SIGTERM to it alone; SIGINT from the terminal,
\* to it and to all children; SIGHUP.
Sigterm ==
    /\ g_running /\ pc # "exited"
    /\ g_running' = FALSE
    /\ UNCHANGED <<g_reload, pid, child, pc, i, forkFailures>>

Sigint ==
    /\ g_running /\ pc # "exited"
    /\ g_running' = FALSE
    /\ child' = [p \in Pids |-> IF child[p].status = "gone" THEN Gone ELSE [child[p] EXCEPT !.running = FALSE]]
    /\ UNCHANGED <<g_reload, pid, pc, i, forkFailures>>

Sighup ==
    /\ ~g_reload /\ pc # "exited"
    /\ g_reload' = TRUE
    /\ UNCHANGED <<g_running, pid, child, pc, i, forkFailures>>

Environment == \/ \E p \in Pids : ChildStops(p) \/ ChildDies(p) \/ ChildHangs(p) \/ ChildGoesOn(p)
               \/ Sigterm \/ Sigint \/ Sighup

\* The manager has returned.
Exited == pc = "exited" /\ UNCHANGED vars

Next == Manager \/ Environment \/ Exited

Spec == Init /\ [][Next]_vars

\* The manager is scheduled and its sleeps end; the kernel reports ended children
\* in the order of their forks, so none is passed over for ever; a child that is
\* told to stop and is not hanging stops.  Nothing makes a client go on.
FairSpec ==
    /\ Spec
    /\ WF_vars(Manager)
    /\ \A p \in Pids : SF_vars(Reap(p)) /\ WF_vars(ChildStops(p))

-----------------------------------------------------------------------------
(* Properties. *)

\* Every child is recorded by its instance, and in the main phase every recorded
\* process id is a child of that instance: kill and waitpid never address a
\* process that was reaped before, whose id the kernel may have given away, and no
\* instance has two processes, which would fight for one device and one port.
PidTracksChild ==
    /\ \A p \in Pids : child[p].status # "gone" => pid[child[p].inst] = p
    /\ pc # "wait" /\ pc # "exited" =>
         \A n \in Instances : pid[n] # 0 => child[pid[n]].status # "gone" /\ child[pid[n]].inst = n

\* When main returns, all its children have ended and have been waited for.  A
\* signal may come at any moment, also between check_children's look at g_running
\* and the fork it decides on.
NoOrphans == pc = "exited" => \A p \in Pids : child[p].status = "gone"

\* A child started after the manager was told to stop is told to stop as well:
\* by the flag it inherits or by the SIGTERM that follows.
StopReachesAll ==
    pc = "wait" => \A p \in Pids : child[p].status \in {"run", "hang"} => ~child[p].running

\* SIGTERM or SIGINT ends the manager, unless clients keep a child hanging in a read or
\* a write, for ever or over and over; one that hangs for a while delays it only.
StopsOrHangs == ~g_running ~> (pc = "exited" \/ \E p \in Pids : []<>(child[p].status = "hang"))

Lives(n) == \E p \in Pids : child[p].inst = n /\ child[p].status \in {"run", "hang"}

\* An instance that died while others were being reaped or restarted comes back, also
\* after the fork() of another one has failed, unless a fork() fails meanwhile.
RestartsWhileForkWorks ==
    \A n \in Enabled, f \in 0 .. MaxForkFailures :
        (pc = "check" /\ pid[n] # 0 /\ ~Lives(n) /\ forkFailures = f) ~> (Lives(n) \/ ~g_running \/ forkFailures > f)
=============================================================================
