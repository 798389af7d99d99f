------------------------------- MODULE Policy -------------------------------
(***************************************************************************)
(* TaskExclusiveLockPolicy and PolicyRunner of                             *)
(* pkg/service/scheduler/policy.go: which tasks of a cluster may execute   *)
(* at the same time.  The restore tasks are exclusive, of every other type *)
(* one task executes at a time, and a general purpose repair shares the    *)
(* cluster with a tablet repair only when it targets vnode keyspaces.      *)
(*                                                                         *)
(* A call is one PolicyRunner.Run.  Of the JSON properties of a task the   *)
(* policy reads one thing, whether a repair is limited to vnode keyspaces; *)
(* a lock is that flag, and NoLock an absent entry of the map.  A cluster  *)
(* without an entry in the outer map is one whose map is empty.            *)
(***************************************************************************)
CONSTANTS Clusters, Calls, TaskTypes,
          Exclusive   \* NewTaskExclusiveLockPolicy(exclusiveTasks...)

VARIABLES running,    \* [Clusters -> [TaskTypes -> lock]]
          call        \* the calls of PolicyRunner.Run in progress

vars == <<running, call>>

RepairTask == "repair"
TabletRepairTask == "tablet_repair"

ASSUME TypesAssumption == /\ {RepairTask, TabletRepairTask} \subseteq TaskTypes
                          /\ Exclusive \subseteq TaskTypes

NoLock == "none"
Properties == {"vnodes", "any"}
Lock == Properties \cup {NoLock}

Request == [cluster : Clusters, type : TaskTypes, properties : Properties]
Idle == [cluster |-> "none", type |-> "none", properties |-> "none"]

Init == /\ running = [c \in Clusters |-> [tp \in TaskTypes |-> NoLock]]
        /\ call = [k \in Calls |-> Idle]

Locked(cluster, tp) == cluster[tp] # NoLock

(* canRunTaskExclusively *)
canRunTaskExclusively(cluster, tp) ==
    \/ \A other \in TaskTypes : ~Locked(cluster, other)
    \/ /\ tp \notin Exclusive
       /\ \A e \in Exclusive : ~Locked(cluster, e)
       /\ ~Locked(cluster, tp)

IsRepairCompatibleWithTabletRepair(p) == p = "vnodes"

(* A plausible bug: the newcomer's properties decide in both cases. *)
CompatibleNewcomer(cluster, tp, p) ==
    (\/ tp = RepairTask /\ Locked(cluster, TabletRepairTask)
     \/ tp = TabletRepairTask /\ Locked(cluster, RepairTask))
    => IsRepairCompatibleWithTabletRepair(p)

(* canRunRepairTask: whichever of the two repairs comes second, it is the  *)
(* general purpose one whose properties decide.                            *)
canRunRepairTask(cluster, tp, p) ==
    /\ tp = RepairTask /\ Locked(cluster, TabletRepairTask)
         => IsRepairCompatibleWithTabletRepair(p)
    /\ tp = TabletRepairTask /\ Locked(cluster, RepairTask)
         => IsRepairCompatibleWithTabletRepair(cluster[RepairTask])

CanRun(cluster, tp, p) == /\ canRunTaskExclusively(cluster, tp)
                          /\ canRunRepairTask(cluster, tp, p)

(* PreRun that grants the lock: the runner is entered. *)
PreRun(k, req) ==
    /\ call[k] = Idle
    /\ CanRun(running[req.cluster], req.type, req.properties)
    /\ running' = [running EXCEPT ![req.cluster][req.type] = req.properties]
    /\ call' = [call EXCEPT ![k] = req]

(* The deferred PostRun, after the runner returned or panicked. *)
PostRun(k) ==
    /\ call[k] # Idle
    /\ running' = [running EXCEPT ![call[k].cluster][call[k].type] = NoLock]
    /\ call' = [call EXCEPT ![k] = Idle]

(* A plausible bug: with PostRun deferred before the check, a refused task *)
(* drops the lock of the one that is running.                              *)
RefusedReleases(k, req) ==
    /\ call[k] = Idle
    /\ ~CanRun(running[req.cluster], req.type, req.properties)
    /\ running' = [running EXCEPT ![req.cluster][req.type] = NoLock]
    /\ UNCHANGED call

(* A PreRun that fails returns its error from Run and changes nothing: the *)
(* PostRun is deferred after the check.                                    *)
Refused(k, req) ==
    /\ call[k] = Idle
    /\ ~CanRun(running[req.cluster], req.type, req.properties)
    /\ UNCHANGED vars

Next == \E k \in Calls :
          \/ \E req \in Request : PreRun(k, req)
          \/ PostRun(k)
          \/ \E req \in Request : Refused(k, req)

Spec == Init /\ [][Next]_vars

-----------------------------------------------------------------------------
Inside(k) == call[k] # Idle

(* Every lock of the policy is a flag or absent, every call idle or a     *)
(* request that was granted.                                               *)
TypeOK == /\ running \in [Clusters -> [TaskTypes -> Lock]]
          /\ call \in [Calls -> Request \cup {Idle}]

(* What TaskExclusiveLockPolicy's comment promises of two tasks executing  *)
(* in one cluster, whatever the order of their PreRun and PostRun: they    *)
(* are of different types, neither is exclusive, and a general purpose     *)
(* repair beside a tablet repair targets vnode keyspaces only.             *)
MayShare(a, b) ==
    /\ a.type # b.type
    /\ a.type \notin Exclusive
    /\ a.type = RepairTask /\ b.type = TabletRepairTask
         => IsRepairCompatibleWithTabletRepair(a.properties)

SharedSafely ==
    \A j, k \in Calls : j # k /\ Inside(j) /\ Inside(k)
                          /\ call[j].cluster = call[k].cluster
                            => MayShare(call[j], call[k])

(* No lock is left behind and none is released early: the map holds an     *)
(* entry exactly for the calls between PreRun and PostRun, with the        *)
(* properties of that call.  A stale entry would refuse the type for ever. *)
LocksMatch ==
    /\ \A k \in Calls : Inside(k) =>
          running[call[k].cluster][call[k].type] = call[k].properties
    /\ \A c \in Clusters, tp \in TaskTypes : Locked(running[c], tp) =>
          \E k \in Calls : Inside(k) /\ call[k].cluster = c /\ call[k].type = tp
=============================================================================
