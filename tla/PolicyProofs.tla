---------------------------- MODULE PolicyProofs ----------------------------
(***************************************************************************)
(* TaskExclusiveLockPolicy is correct for every set of clusters, of task   *)
(* types and of concurrent calls.                                          *)
(***************************************************************************)
EXTENDS Policy, TLAPS

(* The invariant: a call's lock is in the map with the call's properties,  *)
(* so what PreRun reads there is all it needs to know of the other calls.  *)
Inv == TypeOK /\ LocksMatch /\ SharedSafely

LEMMA TypeStep ==
  ASSUME TypeOK, Next PROVE TypeOK'
<1> USE DEF TypeOK, Lock, Request, NoLock
<1>1. ASSUME NEW k \in Calls, NEW req \in Request, PreRun(k, req)
      PROVE  TypeOK'
  BY <1>1 DEF PreRun
<1>2. ASSUME NEW k \in Calls, PostRun(k)
      PROVE  TypeOK'
  BY <1>2 DEF PostRun
<1>3. ASSUME NEW k \in Calls, NEW req \in Request, Refused(k, req)
      PROVE  TypeOK'
  BY <1>3 DEF Refused, vars
<1>4. QED  BY <1>1, <1>2, <1>3 DEF Next

LEMMA RequestIsNotIdle ==
  ASSUME NEW req \in Request PROVE req # Idle
BY DEF Request, Idle, Properties

LEMMA PreRunStep ==
  ASSUME Inv, TypeOK', NEW k \in Calls, NEW req \in Request, PreRun(k, req)
  PROVE  LocksMatch' /\ SharedSafely'
<1> USE DEF Inv, TypeOK
<1>1. /\ call'[k] = req
      /\ \A j \in Calls : j # k => call'[j] = call[j]
      /\ running'[req.cluster][req.type] = req.properties
      /\ \A c \in Clusters, tp \in TaskTypes :
            c # req.cluster \/ tp # req.type => running'[c][tp] = running[c][tp]
  BY DEF PreRun, Request
<1>2. /\ req.cluster \in Clusters /\ req.type \in TaskTypes /\ req.properties \in Properties
      /\ req # Idle
  BY RequestIsNotIdle DEF Request
<1>3. \A j \in Calls : Inside(j) => /\ call[j].cluster \in Clusters
                                    /\ call[j].type \in TaskTypes
                                    /\ call[j].properties \in Properties
                                    /\ Locked(running[call[j].cluster], call[j].type)
  BY DEF LocksMatch, Inside, Request, Locked, NoLock, Properties
<1>4. \A j \in Calls : Inside(j) /\ call[j].cluster = req.cluster
                         => MayShare(call[j], req) /\ MayShare(req, call[j])
  <2>1. SUFFICES ASSUME NEW j \in Calls, Inside(j), call[j].cluster = req.cluster
                 PROVE  MayShare(call[j], req) /\ MayShare(req, call[j])
    OBVIOUS
  <2>2. CanRun(running[req.cluster], req.type, req.properties)
    BY DEF PreRun
  <2>3. /\ req.type \notin Exclusive
        /\ \A e \in Exclusive : ~Locked(running[req.cluster], e)
        /\ ~Locked(running[req.cluster], req.type)
    BY <1>3, <2>1, <2>2 DEF CanRun, canRunTaskExclusively
  <2>4. call[j].type # req.type /\ call[j].type \notin Exclusive
    BY <1>3, <2>1, <2>3
  <2>5. running[req.cluster][call[j].type] = call[j].properties
    BY <2>1 DEF LocksMatch
  <2>6. ASSUME call[j].type = RepairTask, req.type = TabletRepairTask
        PROVE  IsRepairCompatibleWithTabletRepair(call[j].properties)
    BY <1>3, <2>1, <2>2, <2>5, <2>6 DEF CanRun, canRunRepairTask
  <2>7. ASSUME req.type = RepairTask, call[j].type = TabletRepairTask
        PROVE  IsRepairCompatibleWithTabletRepair(req.properties)
    BY <1>3, <2>1, <2>2, <2>7 DEF CanRun, canRunRepairTask
  <2>8. QED  BY <2>3, <2>4, <2>6, <2>7 DEF MayShare
<1>5. SharedSafely'
  BY <1>1, <1>4 DEF SharedSafely, Inside, PreRun
<1>6. \A j \in Calls : Inside(j)' =>
         running'[call'[j].cluster][call'[j].type] = call'[j].properties
  <2>1. SUFFICES ASSUME NEW j \in Calls, call'[j] # Idle
                 PROVE  running'[call'[j].cluster][call'[j].type] = call'[j].properties
    BY DEF Inside
  <2>2. CASE j = k
    BY <1>1, <2>2
  <2>3. CASE j # k
    <3>1. call'[j] = call[j] /\ Inside(j)
      BY <1>1, <2>1, <2>3 DEF Inside
    <3>2. call[j].cluster # req.cluster \/ call[j].type # req.type
      BY <1>4, <3>1 DEF MayShare
    <3>3. QED  BY <1>1, <1>3, <3>1, <3>2 DEF LocksMatch
  <2>4. QED  BY <2>2, <2>3
<1>7. \A c \in Clusters, tp \in TaskTypes : Locked(running'[c], tp) =>
         \E j \in Calls : call'[j] # Idle /\ call'[j].cluster = c /\ call'[j].type = tp
  <2>1. SUFFICES ASSUME NEW c \in Clusters, NEW tp \in TaskTypes, running'[c][tp] # NoLock
                 PROVE  \E j \in Calls : call'[j] # Idle /\ call'[j].cluster = c /\ call'[j].type = tp
    BY DEF Locked
  <2>2. CASE c = req.cluster /\ tp = req.type
    BY <1>1, <1>2, <2>2
  <2>3. CASE c # req.cluster \/ tp # req.type
    <3>1. PICK j \in Calls : Inside(j) /\ call[j].cluster = c /\ call[j].type = tp
      BY <1>1, <2>1, <2>3 DEF LocksMatch, Locked
    <3>2. call[k] = Idle
      BY DEF PreRun
    <3>3. QED  BY <1>1, <3>1, <3>2 DEF Inside
  <2>4. QED  BY <2>2, <2>3
<1>8. QED  BY <1>5, <1>6, <1>7 DEF LocksMatch, Inside, Locked

LEMMA PostRunStep ==
  ASSUME Inv, TypeOK', NEW k \in Calls, PostRun(k)
  PROVE  LocksMatch' /\ SharedSafely'
<1> USE DEF Inv, TypeOK
<1> DEFINE req == call[k]
<1>1. /\ req \in Request
      /\ call'[k] = Idle
      /\ \A j \in Calls : j # k => call'[j] = call[j]
      /\ running'[req.cluster][req.type] = NoLock
      /\ \A c \in Clusters, tp \in TaskTypes :
            c # req.cluster \/ tp # req.type => running'[c][tp] = running[c][tp]
  BY DEF PostRun, Request
<1>2. SharedSafely'
  BY <1>1 DEF SharedSafely, Inside
<1>3. \A j \in Calls : j # k /\ Inside(j)
         => call[j].cluster # req.cluster \/ call[j].type # req.type
  BY DEF SharedSafely, MayShare, PostRun, Inside
<1>4. \A j \in Calls : call'[j] # Idle =>
         running'[call'[j].cluster][call'[j].type] = call'[j].properties
  BY <1>1, <1>3 DEF LocksMatch, Inside, Request
<1>5. \A c \in Clusters, tp \in TaskTypes : running'[c][tp] # NoLock =>
         \E j \in Calls : call'[j] # Idle /\ call'[j].cluster = c /\ call'[j].type = tp
  <2>1. SUFFICES ASSUME NEW c \in Clusters, NEW tp \in TaskTypes, running'[c][tp] # NoLock
                 PROVE  \E j \in Calls : call'[j] # Idle /\ call'[j].cluster = c /\ call'[j].type = tp
    OBVIOUS
  <2>2. c # req.cluster \/ tp # req.type
    BY <1>1, <2>1
  <2>3. PICK j \in Calls : Inside(j) /\ call[j].cluster = c /\ call[j].type = tp
    BY <1>1, <2>1, <2>2 DEF LocksMatch, Locked
  <2>4. QED  BY <1>1, <2>2, <2>3 DEF Inside
<1>6. QED  BY <1>2, <1>4, <1>5 DEF LocksMatch, Inside, Locked

(* The invariant holds in every state of every instance. *)
THEOREM PolicyInvariant == Spec => []Inv
<1>1. Init => Inv
  BY DEF Init, Inv, TypeOK, LocksMatch, SharedSafely, Inside, Locked, Lock, NoLock
<1>2. Inv /\ [Next]_vars => Inv'
  <2>1. SUFFICES ASSUME Inv, [Next]_vars PROVE Inv'
    OBVIOUS
  <2>2. CASE UNCHANGED vars
    BY <2>1, <2>2 DEF Inv, TypeOK, LocksMatch, SharedSafely, Inside, vars
  <2>3. CASE Next
    <3>1. TypeOK'
      BY <2>1, <2>3, TypeStep DEF Inv
    <3>2. ASSUME NEW k \in Calls, NEW req \in Request, PreRun(k, req) PROVE Inv'
      BY <2>1, <3>1, <3>2, PreRunStep DEF Inv
    <3>3. ASSUME NEW k \in Calls, PostRun(k) PROVE Inv'
      BY <2>1, <3>1, <3>3, PostRunStep DEF Inv
    <3>4. ASSUME NEW k \in Calls, NEW req \in Request, Refused(k, req) PROVE Inv'
      BY <2>1, <3>1, <3>4 DEF Refused, Inv, LocksMatch, SharedSafely, Inside, vars
    <3>5. QED  BY <2>3, <3>2, <3>3, <3>4 DEF Next
  <2>4. QED  BY <2>1, <2>2, <2>3
<1>3. QED  BY <1>1, <1>2, PTL DEF Spec

(* Two tasks that the policy forbids to execute together never do.         *)
THEOREM SharedSafelyCorrect == Spec => []SharedSafely
<1>1. Inv => SharedSafely  BY DEF Inv
<1>2. QED  BY <1>1, PolicyInvariant, PTL

(* The policy's map holds the locks of the calls in progress, no other.    *)
THEOREM LocksMatchCorrect == Spec => []LocksMatch
<1>1. Inv => LocksMatch  BY DEF Inv
<1>2. QED  BY <1>1, PolicyInvariant, PTL
=============================================================================
