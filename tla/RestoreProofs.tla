--------------------------- MODULE RestoreProofs ----------------------------
(***************************************************************************)
(* No host of a restore waits for ever in DispatchBatch and no sstable is  *)
(* lost between the hosts, for any number of hosts, data centers, sstables *)
(* and runs and for any batch size.                                        *)
(*                                                                         *)
(* The counters toRestore are what hosts decide by.  The invariant says    *)
(* what they count, that a batch is of one data center, so that a report   *)
(* changes the right counter, and that a host that sleeps still has        *)
(* something to wait for and nothing to take.                              *)
(***************************************************************************)
EXTENDS Restore, FiniteSetTheorems, TLAPS

DispatcherType ==
  /\ remaining \in SUBSET SSTables
  /\ held \in [Hosts -> SUBSET SSTables]
  /\ failedDC \in [Hosts -> SUBSET DCs]
  /\ toRestore \in [DCs -> Int]
  /\ asleep \in SUBSET Hosts

OneDCPerBatch == \A h \in Hosts : \A r, s \in held[h] : DC[r] = DC[s]

SleepersCannotTake ==
  \A h \in asleep : held[h] = {} /\ ~isDone(h) /\ Candidates(h) = {}

DInv == DispatcherType /\ OneDCPerBatch /\ NoneLostNoneTwice /\ SleepersCannotTake

-----------------------------------------------------------------------------
(* Sets of sstables by data center. *)

LEMMA OfIsFinite ==
  ASSUME NEW S \in SUBSET SSTables, NEW dc
  PROVE  IsFiniteSet(Of(S, dc)) /\ Cardinality(Of(S, dc)) \in Nat
BY FS_Subset, FS_CardinalityType, DispatcherAssumption DEF Of

LEMMA HeldIsTyped ==
  ASSUME DispatcherType PROVE Held \in SUBSET SSTables
BY DEF DispatcherType, Held

(* A batch that createBatch takes is not empty and comes out of its pool. *)
LEMMA BatchOfPool ==
  ASSUME NEW h, NEW method, NEW pool, NEW B \in Batches(h, method, pool)
  PROVE  B # {} /\ B \subseteq pool
BY DEF Batches

(* The data center of the batch that a report is about. *)
LEMMA BatchDCIsDC ==
  ASSUME DInv, NEW h \in Hosts, held[h] # {}
  PROVE  /\ BatchDC(h) \in DCs
         /\ \A s \in held[h] : DC[s] = BatchDC(h)
<1>1. PICK s \in held[h] : TRUE
  OBVIOUS
<1>2. s \in SSTables /\ DC[s] \in DCs
  BY <1>1, DispatcherAssumption DEF DInv, DispatcherType
<1>3. \E dc \in DCs : \E r \in held[h] : DC[r] = dc
  BY <1>1, <1>2
<1>4. BatchDC(h) \in DCs /\ \E r \in held[h] : DC[r] = BatchDC(h)
  BY <1>3 DEF BatchDC
<1>5. QED  BY <1>4 DEF DInv, OneDCPerBatch

-----------------------------------------------------------------------------
(* A sleeping host is woken up by somebody: a counter of a data center     *)
(* open to it is positive, so by what the counters count an sstable of it  *)
(* is left or in a batch, and what is left is not open to the host.        *)
LEMMA SleepersHaveWaker ==
  ASSUME DInv PROVE WaitsForSomebody
<1> SUFFICES ASSUME NEW h \in asleep
             PROVE  /\ Candidates(h) = {}
                    /\ \E g \in Hosts \ {h} : \E s \in held[g] : DC[s] \in Open(h)
  BY DEF WaitsForSomebody
<1>1. h \in Hosts /\ held[h] = {} /\ ~isDone(h) /\ Candidates(h) = {}
  BY DEF DInv, DispatcherType, SleepersCannotTake
<1>2. PICK dc \in Open(h) : toRestore[dc] # 0
  BY <1>1 DEF isDone
<1>3. dc \in DCs
  BY <1>1, <1>2, DispatcherAssumption DEF Open
<1>4. Cardinality(Of(remaining \cup Held, dc)) # 0
  BY <1>2, <1>3 DEF DInv, NoneLostNoneTwice
<1>5. Of(remaining \cup Held, dc) # {}
  BY <1>4, FS_EmptySet
<1>6. PICK s \in remaining \cup Held : DC[s] = dc
  BY <1>5 DEF Of
<1>7. s \notin remaining
  BY <1>1, <1>2, <1>6 DEF Candidates
<1>8. PICK g \in Hosts : s \in held[g]
  BY <1>6, <1>7 DEF Held
<1>9. QED  BY <1>1, <1>2, <1>6, <1>8

-----------------------------------------------------------------------------
(* Every step of the dispatcher keeps the invariant.                       *)

LEMMA NewStep ==
  ASSUME NEW W \in SUBSET SSTables, NewDispatcher(W) PROVE DInv'
<1>1. Held' = {}
  BY DEF NewDispatcher, NoBatch, Held
<1>2. \A dc \in DCs : Cardinality(Of(W, dc)) \in Nat
  BY OfIsFinite
<1>3. DispatcherType'
  BY <1>2 DEF NewDispatcher, NoBatch, DispatcherType
<1>4. NoneLostNoneTwice'
  <2>1. \A dc \in DCs : Of(remaining \cup Held, dc)' = Of(W, dc)
    BY <1>1 DEF NewDispatcher, Of
  <2>2. \A dc \in DCs : toRestore'[dc] = Cardinality(Of(W, dc))
    BY DEF NewDispatcher
  <2>3. \A dc \in DCs : (toRestore[dc] = Cardinality(Of(remaining \cup Held, dc)))'
    BY <2>1, <2>2
  <2>4. QED  BY <2>3 DEF NewDispatcher, NoBatch, NoneLostNoneTwice
<1>5. QED  BY <1>3, <1>4 DEF NewDispatcher, NoBatch, DInv, OneDCPerBatch, SleepersCannotTake

LEMMA DispatchStep ==
  ASSUME DInv, NEW h \in Hosts, DispatchBatch(h) PROVE DInv'
<1>1. PICK s \in MostBytes(h) :
        \E B \in Batches(h, BatchMethod(h, s), {r \in remaining : Dir[r] = Dir[s] /\ BatchType[r] = BatchType[s]}) :
             /\ held' = [held EXCEPT ![h] = B]
             /\ remaining' = remaining \ B
  BY DEF DispatchBatch
<1> DEFINE pool == {r \in remaining : Dir[r] = Dir[s] /\ BatchType[r] = BatchType[s]}
<1>2. PICK B \in Batches(h, BatchMethod(h, s), pool) :
             /\ held' = [held EXCEPT ![h] = B]
             /\ remaining' = remaining \ B
  BY <1>1
<1>3. B \subseteq pool
  BY <1>2, BatchOfPool
<1>4. /\ B \subseteq remaining
      /\ \A r, t \in B : Dir[r] = Dir[t]
  BY <1>3
<1>5. held[h] = {} /\ h \notin asleep
  BY DEF DispatchBatch, Awake
<1>6. /\ held' \in [Hosts -> SUBSET SSTables]
      /\ held'[h] = B
      /\ \A g \in Hosts : g # h => held'[g] = held[g]
  BY <1>2, <1>4 DEF DInv, DispatcherType
<1>7. DispatcherType'
  BY <1>2, <1>6 DEF DInv, DispatcherType, DispatchBatch
<1>8. OneDCPerBatch'
  <2>1. \A r, t \in B : DC[r] = DC[t]
    BY <1>4, DispatcherAssumption DEF DInv, DispatcherType
  <2>2. QED  BY <1>6, <2>1 DEF DInv, OneDCPerBatch
<1>9. Held' = Held \cup B
  BY <1>5, <1>6 DEF Held
<1>10. remaining' \cup Held' = remaining \cup Held
  BY <1>2, <1>4, <1>9
<1>11. NoneLostNoneTwice'
  <2>1. \A dc \in DCs : (toRestore[dc] = Cardinality(Of(remaining \cup Held, dc)))'
    BY <1>10 DEF DInv, NoneLostNoneTwice, DispatchBatch, Of
  <2>2. \A g \in Hosts : held'[g] \cap remaining' = {}
    BY <1>2, <1>6 DEF DInv, NoneLostNoneTwice
  <2>3. \A g, k \in Hosts : g # k => held'[g] \cap held'[k] = {}
    BY <1>4, <1>6 DEF DInv, NoneLostNoneTwice
  <2>4. QED  BY <2>1, <2>2, <2>3 DEF NoneLostNoneTwice
<1>12. SleepersCannotTake'
  <2>1. \A g \in asleep : g # h /\ g \in Hosts
    BY <1>5 DEF DInv, DispatcherType
  <2>2. \A g \in asleep : Candidates(g)' \subseteq Candidates(g)
    BY <1>2 DEF Candidates, Open, DispatchBatch
  <2>3. \A g \in asleep : isDone(g)' = isDone(g)
    BY DEF isDone, Open, DispatchBatch
  <2>4. asleep' = asleep
    BY DEF DispatchBatch
  <2>5. QED  BY <1>6, <2>1, <2>2, <2>3, <2>4 DEF DInv, SleepersCannotTake
<1>13. QED  BY <1>7, <1>8, <1>11, <1>12 DEF DInv

LEMMA WaitStep ==
  ASSUME DInv, NEW h \in Hosts, Wait(h) \/ StopWaiting(h) PROVE DInv'
<1>1. UNCHANGED <<remaining, toRestore, failedDC, held>>
  BY DEF Wait, StopWaiting
<1>2. asleep' \in SUBSET Hosts
  BY DEF Wait, StopWaiting, DInv, DispatcherType
<1>3. \A g \in asleep' : held[g] = {} /\ ~isDone(g) /\ Candidates(g) = {}
  BY DEF Wait, StopWaiting, Awake, DInv, SleepersCannotTake
<1>4. SleepersCannotTake'
  BY <1>1, <1>3 DEF SleepersCannotTake, isDone, Candidates, Open
<1>5. NoneLostNoneTwice'
  BY <1>1 DEF DInv, NoneLostNoneTwice, Held, Of
<1>6. QED  BY <1>1, <1>2, <1>4, <1>5 DEF DInv, DispatcherType, OneDCPerBatch

(* A report empties one batch and leaves the others alone. *)
LEMMA ReportEmpties ==
  ASSUME DInv, NEW h \in Hosts, held' = [held EXCEPT ![h] = {}]
  PROVE  /\ held' \in [Hosts -> SUBSET SSTables]
         /\ held'[h] = {}
         /\ \A g \in Hosts : g # h => held'[g] = held[g]
         /\ OneDCPerBatch'
         /\ Held' = Held \ held[h]
<1>1. /\ held' \in [Hosts -> SUBSET SSTables]
      /\ held'[h] = {}
      /\ \A g \in Hosts : g # h => held'[g] = held[g]
  BY DEF DInv, DispatcherType
<1>2. \A g \in Hosts : g # h => held[g] \cap held[h] = {}
  BY DEF DInv, NoneLostNoneTwice
<1>3. Held' = Held \ held[h]
  BY <1>1, <1>2 DEF Held
<1>4. QED  BY <1>1, <1>3 DEF DInv, OneDCPerBatch

LEMMA SuccessStep ==
  ASSUME DInv, NEW h \in Hosts, ReportSuccess(h) PROVE DInv'
<1> DEFINE dc == BatchDC(h)
           left == toRestore[dc] - Cardinality(held[h])
<1>1. /\ held[h] # {}
      /\ toRestore' = [toRestore EXCEPT ![dc] = left]
      /\ asleep' = IF left = 0 THEN {} ELSE asleep
      /\ held' = [held EXCEPT ![h] = {}]
      /\ UNCHANGED <<remaining, failedDC>>
  BY DEF ReportSuccess
<1>2. dc \in DCs /\ \A s \in held[h] : DC[s] = dc
  BY <1>1, BatchDCIsDC
<1> HIDE DEF dc
<1>3. /\ held' \in [Hosts -> SUBSET SSTables]
      /\ held'[h] = {}
      /\ \A g \in Hosts : g # h => held'[g] = held[g]
      /\ OneDCPerBatch'
      /\ Held' = Held \ held[h]
  BY <1>1, ReportEmpties
<1>4. IsFiniteSet(held[h]) /\ Cardinality(held[h]) \in Nat
  BY FS_Subset, FS_CardinalityType, DispatcherAssumption DEF DInv, DispatcherType
<1>5. DispatcherType'
  <2>1. left \in Int
    BY <1>2, <1>4 DEF DInv, DispatcherType
  <2>2. QED  BY <1>1, <1>3, <2>1 DEF DInv, DispatcherType
<1>6. \A d \in DCs : (toRestore[d] = Cardinality(Of(remaining \cup Held, d)))'
  <2> SUFFICES ASSUME NEW d \in DCs
               PROVE  toRestore'[d] = Cardinality(Of(remaining \cup Held, d)')
    OBVIOUS
  <2>1. toRestore[d] = Cardinality(Of(remaining \cup Held, d))
    BY DEF DInv, NoneLostNoneTwice
  <2>2. held[h] \cap remaining = {} /\ held[h] \subseteq Held
    BY DEF DInv, NoneLostNoneTwice, Held
  <2>3. Of(remaining \cup Held, d)' = Of(remaining \cup Held, d) \ held[h]
    BY <1>1, <1>3, <2>2 DEF Of
  <2>4. IsFiniteSet(Of(remaining \cup Held, d)) /\ Cardinality(Of(remaining \cup Held, d)) \in Nat
    BY OfIsFinite, HeldIsTyped DEF DInv, DispatcherType
  <2>5. CASE d = dc
    <3>1. Of(remaining \cup Held, d) \cap held[h] = held[h]
      BY <1>2, <2>2, <2>5 DEF Of
    <3>2. Cardinality(Of(remaining \cup Held, d) \ held[h])
            = Cardinality(Of(remaining \cup Held, d)) - Cardinality(Of(remaining \cup Held, d) \cap held[h])
      BY <2>4, FS_Difference
    <3>3. toRestore'[d] = left
      BY <1>1, <1>2, <2>5 DEF DInv, DispatcherType
    <3>4. QED  BY <2>1, <2>3, <2>5, <3>1, <3>2, <3>3
  <2>6. CASE d # dc
    <3>1. Of(remaining \cup Held, d) \ held[h] = Of(remaining \cup Held, d)
      BY <1>2, <2>6 DEF Of
    <3>2. toRestore'[d] = toRestore[d]
      BY <1>1, <1>2, <2>6 DEF DInv, DispatcherType
    <3>3. QED  BY <2>1, <2>3, <3>1, <3>2
  <2>7. QED  BY <2>5, <2>6
<1>7. NoneLostNoneTwice'
  BY <1>1, <1>3, <1>6 DEF DInv, NoneLostNoneTwice
<1>8. SleepersCannotTake'
  <2>1. CASE left = 0
    BY <1>1, <2>1 DEF SleepersCannotTake
  <2>2. CASE left # 0
    <3> SUFFICES ASSUME NEW g \in asleep
                 PROVE  held'[g] = {} /\ ~isDone(g)' /\ Candidates(g)' = {}
      BY <1>1, <2>2 DEF SleepersCannotTake
    <3>1. g \in Hosts /\ held[g] = {} /\ ~isDone(g) /\ Candidates(g) = {}
      BY DEF DInv, DispatcherType, SleepersCannotTake
    <3>2. PICK d \in Open(g) : toRestore[d] # 0
      BY <3>1 DEF isDone
    <3>3. d \in DCs
      BY <3>1, <3>2, DispatcherAssumption DEF Open
    <3>4. toRestore'[d] # 0
      BY <1>1, <1>2, <2>2, <3>2, <3>3 DEF DInv, DispatcherType
    <3>5. ~isDone(g)'
      BY <1>1, <3>2, <3>4 DEF isDone, Open
    <3>6. QED  BY <1>1, <1>3, <3>1, <3>5 DEF Candidates, Open
  <2>3. QED  BY <2>1, <2>2
<1>9. QED  BY <1>3, <1>5, <1>7, <1>8 DEF DInv

LEMMA FailureStep ==
  ASSUME DInv, NEW h \in Hosts, ReportFailure(h) PROVE DInv'
<1>1. /\ held[h] # {}
      /\ failedDC' = [failedDC EXCEPT ![h] = @ \cup {BatchDC(h)}]
      /\ remaining' = remaining \cup held[h]
      /\ asleep' = {}
      /\ held' = [held EXCEPT ![h] = {}]
      /\ UNCHANGED toRestore
  BY DEF ReportFailure
<1>2. BatchDC(h) \in DCs
  BY <1>1, BatchDCIsDC
<1>3. /\ held' \in [Hosts -> SUBSET SSTables]
      /\ held'[h] = {}
      /\ \A g \in Hosts : g # h => held'[g] = held[g]
      /\ OneDCPerBatch'
      /\ Held' = Held \ held[h]
  BY <1>1, ReportEmpties
<1>4. DispatcherType'
  BY <1>1, <1>2, <1>3 DEF DInv, DispatcherType
<1>5. held[h] \subseteq Held
  BY DEF Held
<1>6. remaining' \cup Held' = remaining \cup Held
  BY <1>1, <1>3, <1>5
<1>7. NoneLostNoneTwice'
  <2>1. \A dc \in DCs : (toRestore[dc] = Cardinality(Of(remaining \cup Held, dc)))'
    BY <1>1, <1>6 DEF DInv, NoneLostNoneTwice, Of
  <2>2. \A g \in Hosts : held'[g] \cap remaining' = {}
    BY <1>1, <1>3 DEF DInv, NoneLostNoneTwice
  <2>3. \A g, k \in Hosts : g # k => held'[g] \cap held'[k] = {}
    BY <1>3 DEF DInv, NoneLostNoneTwice
  <2>4. QED  BY <2>1, <2>2, <2>3 DEF NoneLostNoneTwice
<1>8. QED  BY <1>1, <1>3, <1>4, <1>7 DEF DInv, SleepersCannotTake
-----------------------------------------------------------------------------
LEMMA DispatcherStep ==
  ASSUME DInv, [DispatcherNext]_dvars PROVE DInv'
<1>1. ASSUME NEW W \in SUBSET SSTables, NewDispatcher(W) PROVE DInv'
  BY <1>1, NewStep
<1>2. ASSUME NEW h \in Hosts, DispatchBatch(h) PROVE DInv'
  BY <1>2, DispatchStep
<1>3. ASSUME NEW h \in Hosts, Wait(h) \/ StopWaiting(h) PROVE DInv'
  BY <1>3, WaitStep
<1>4. ASSUME NEW h \in Hosts, ReportSuccess(h) PROVE DInv'
  BY <1>4, SuccessStep
<1>5. ASSUME NEW h \in Hosts, ReportFailure(h) PROVE DInv'
  BY <1>5, FailureStep
<1>6. CASE UNCHANGED dvars
  <2>1. UNCHANGED <<remaining, toRestore, failedDC, held, asleep>>
    BY <1>6 DEF dvars
  <2>2. NoneLostNoneTwice'
    BY <2>1 DEF DInv, NoneLostNoneTwice, Held, Of
  <2>3. SleepersCannotTake'
    BY <2>1 DEF DInv, SleepersCannotTake, isDone, Candidates, Open
  <2>4. QED  BY <2>1, <2>2, <2>3 DEF DInv, DispatcherType, OneDCPerBatch
<1>7. QED  BY <1>1, <1>2, <1>3, <1>4, <1>5, <1>6 DEF DispatcherNext

LEMMA DispatcherStart == DispatcherInit => DInv
<1> SUFFICES ASSUME DispatcherInit PROVE DInv
  OBVIOUS
<1>1. DispatcherType
  BY DEF DispatcherInit, NoBatch, DispatcherType
<1>2. remaining = {} /\ Held = {}
  BY DEF DispatcherInit, NoBatch, Held
<1>3. \A dc \in DCs : Of(remaining \cup Held, dc) = {}
  BY <1>2 DEF Of
<1>4. NoneLostNoneTwice
  BY <1>3, FS_EmptySet DEF DispatcherInit, NoBatch, NoneLostNoneTwice
<1>5. QED  BY <1>1, <1>4 DEF DispatcherInit, NoBatch, DInv, OneDCPerBatch, SleepersCannotTake

(* Whatever its callers do, batchDispatcher loses no sstable, dispatches   *)
(* none twice, and lets no host wait that nobody will wake up.             *)
THEOREM DispatcherSafe == DispatcherSpec => [](WaitsForSomebody /\ NoneLostNoneTwice)
<1>1. DInv => WaitsForSomebody /\ NoneLostNoneTwice
  BY SleepersHaveWaker DEF DInv
<1>2. QED  BY <1>1, DispatcherStart, DispatcherStep, PTL DEF DispatcherSpec

-----------------------------------------------------------------------------
(* Restore uses the dispatcher as it is meant to be used. *)

LEMMA EndStep == End => DispatcherNext
BY DEF End, DispatcherNext

LEMMA HostStepImplements ==
  ASSUME NEW h \in Hosts, HostStep(h) PROVE [DispatcherNext]_dvars
<1>1. ASSUME DispatchBatch(h) \/ Wait(h) \/ StopWaiting(h) \/ ReportSuccess(h) \/ ReportFailure(h)
      PROVE  DispatcherNext
  BY <1>1 DEF DispatcherNext
<1>2. CASE StartHost(h)
  BY <1>2 DEF StartHost
<1>3. CASE CheckDisk(h)
  BY <1>3 DEF CheckDisk
<1>4. CASE Dispatch(h)
  BY <1>1, <1>4 DEF Dispatch
<1>5. CASE WaitCancelled(h)
  BY <1>1, <1>5 DEF WaitCancelled
<1>6. CASE StartBatch(h)
  BY <1>1, <1>6 DEF StartBatch
<1>7. CASE Download(h)
  BY <1>7 DEF Download
<1>8. CASE LoadAndStream(h)
  BY <1>8 DEF LoadAndStream
<1>9. CASE BatchRestored(h)
  BY <1>1, <1>9 DEF BatchRestored
<1>10. CASE ScyllaTask(h)
  BY <1>10 DEF ScyllaTask
<1>11. CASE CleanupRunProgress(h)
  BY <1>1, <1>11 DEF CleanupRunProgress
<1>12. QED  BY <1>2, <1>3, <1>4, <1>5, <1>6, <1>7, <1>8, <1>9, <1>10, <1>11 DEF HostStep

LEMMA StageStepImplements ==
  ASSUME StageStep PROVE [DispatcherNext]_dvars
<1>1. CASE Setup
  BY <1>1, EndStep DEF Setup
<1>2. CASE EnterStage \/ SkipInit \/ AllStated
  BY <1>2 DEF EnterStage, SkipInit, AllStated
<1>3. CASE Done
  BY <1>3, EndStep DEF Done
<1>4. ASSUME NEW v \in Views, DropView(v) \/ CreateView(v) PROVE [DispatcherNext]_dvars
  BY <1>4, EndStep DEF DropView, CreateView, Statement
<1>5. ASSUME NEW t \in Tables, DisableTGC(t) \/ EnableTGC(t) PROVE [DispatcherNext]_dvars
  BY <1>5, EndStep DEF DisableTGC, EnableTGC, Statement
<1>6. CASE WaitForViewBuilding
  BY <1>6, EndStep DEF WaitForViewBuilding
<1>7. CASE stageRepair
  BY <1>7, EndStep DEF stageRepair
<1>8. CASE IndexWorkload
  <2>1. filterPreviouslyRestoredSStables \in SUBSET SSTables
    BY DEF filterPreviouslyRestoredSStables
  <2>2. CASE End
    BY <2>2, EndStep
  <2>3. CASE NewDispatcher(IF run.continue THEN filterPreviouslyRestoredSStables ELSE SSTables)
    BY <2>1, <2>3 DEF DispatcherNext
  <2>4. QED  BY <1>8, <2>2, <2>3 DEF IndexWorkload
<1>9. CASE DisableAutoCompaction \/ UnpinCPU \/ HostsReturned \/ PinCPU
  BY <1>9 DEF DisableAutoCompaction, UnpinCPU, HostsReturned, PinCPU
<1>10. CASE EnableAutoCompaction
  BY <1>10, EndStep DEF EnableAutoCompaction
<1>11. QED
  BY <1>1, <1>2, <1>3, <1>4, <1>5, <1>6, <1>7, <1>8, <1>9, <1>10 DEF StageStep

LEMMA NextImplements ==
  ASSUME [Next]_vars PROVE [DispatcherNext]_dvars
<1>1. CASE Start
  BY <1>1 DEF Start
<1>2. CASE StageStep
  BY <1>2, StageStepImplements
<1>3. ASSUME NEW h \in Hosts, HostStep(h) PROVE [DispatcherNext]_dvars
  BY <1>3, HostStepImplements
<1>4. CASE Stop
  BY <1>4 DEF Stop
<1>5. CASE Crash
  BY <1>5, EndStep DEF Crash
<1>6. CASE UNCHANGED vars
  BY <1>6 DEF vars
<1>7. QED  BY <1>1, <1>2, <1>3, <1>4, <1>5, <1>6 DEF Next, Worker

(* A restore, over all its runs, stops and crashes, is a client of the     *)
(* dispatcher: it implements DispatcherSpec.                               *)
THEOREM RestoreImplementsDispatcher == Spec => DispatcherSpec
<1>1. Init => DispatcherInit
  BY DEF Init
<1>2. QED  BY <1>1, NextImplements, PTL DEF Spec, DispatcherSpec

(* In no restore does a host wait in DispatchBatch without a host that     *)
(* will wake it up, however many hosts, data centers and runs there are.   *)
THEOREM NobodyWaitsInVain == Spec => []WaitsForSomebody
BY RestoreImplementsDispatcher, DispatcherSafe, PTL

(* In no restore is an sstable lost between two hosts or given to both. *)
THEOREM EveryBatchIsAccounted == Spec => []NoneLostNoneTwice
BY RestoreImplementsDispatcher, DispatcherSafe, PTL
-----------------------------------------------------------------------------
(* What every stage can rely on, whichever run reached it. *)
Stages == {"INIT", "DROP_VIEWS", "DISABLE_TGC", "DATA", "REPAIR", "ENABLE_TGC",
           "RECREATE_VIEWS", "DONE"}
InData == {"compaction", "unpin", "hosts", "pin", "enable"}

RunRecord == [stage : Stages \cup {"NONE"}, tgc : SUBSET Tables, views : SUBSET Views,
              continue : BOOLEAN]

ReachedSchema(stage) ==
  /\ stage \in {"DISABLE_TGC", "DATA", "REPAIR", "ENABLE_TGC"} => views = {}
  /\ stage \in {"DATA", "REPAIR"} => tgc = {}
  /\ stage \in {"ENABLE_TGC", "RECREATE_VIEWS", "DONE"} => unrepaired = FALSE
  /\ stage \in {"RECREATE_VIEWS", "DONE"} => tgc = Tables
  /\ stage = "DONE" => views = Views

(* The stages of rows and runs, the schema that they have recorded and the *)
(* one they find, and how far a stage got that goes through tables or      *)
(* views.                                                                  *)
SchemaInv ==
  /\ pc \in {"off", "setup", "stage", "exec"} \cup InData
  /\ tgc \in SUBSET Tables /\ views \in SUBSET Views /\ unrepaired \in BOOLEAN
  /\ row.stage \in Stages \cup {"NONE"} /\ run \in RunRecord
  /\ row.stage = "NONE" => tgc = Tables /\ views = Views /\ ~unrepaired
  /\ row.stage # "NONE" => row.tgc = Tables /\ row.views = Views
  /\ ReachedSchema(row.stage)
  /\ pc # "off" => /\ run.stage \in Stages
                   /\ run.tgc = Tables /\ run.views = Views
                   /\ ReachedSchema(run.stage)
  /\ pc \in InData => run.stage = "DATA"
  /\ pc = "exec" \/ pc \in InData => row.stage = run.stage
  /\ unrepaired => tgc = {}
  /\ pc = "exec" => /\ run.stage = "DROP_VIEWS" => views \subseteq todo
                    /\ run.stage = "DISABLE_TGC" => tgc \subseteq todo
                    /\ run.stage = "ENABLE_TGC" => Tables \ todo \subseteq tgc
                    /\ run.stage = "RECREATE_VIEWS" => Views \ todo \subseteq views

PastData == {"REPAIR", "ENABLE_TGC", "RECREATE_VIEWS", "DONE"}

(* Compaction and pinning. *)
NodesInv ==
  logged \/ /\ row.stage \in PastData => noCompact \cup unpinned = {}
            /\ pc # "off" /\ run.stage \in PastData => noCompact \cup unpinned = {}
            /\ pc = "enable" /\ ~failed => unpinned = {}

Holding == {"batch", "download", "load", "native", "loaded", "cleanup"}
Places == {"new", "disk", "dispatch", "ok", "err"} \cup Holding

(* A host has a batch where it should.  What a completed row says is       *)
(* restored, but for a native batch that is being cleaned up.              *)
RowsInv ==
  /\ restored \in SUBSET SSTables
  /\ at \in [Hosts -> Places]
  /\ \A h \in Hosts : at[h] \in Holding <=> held[h] # {}
  /\ \A h \in Hosts : at[h] = "loaded" => held[h] \subseteq restored
  /\ \A h \in Hosts : at[h] = "native" => IsNative(h)
  /\ \A p \in progress :
       \/ ~p.completed
       \/ p.sstables \subseteq restored
       \/ \E h \in Hosts : at[h] = "cleanup" /\ IsNative(h) /\ p = Row(h, TRUE)

Covered == SSTables \subseteq restored \cup remaining \cup Held

(* What is not restored is still to come, until there is nothing. *)
CoverInv ==
  /\ pc \in {"compaction", "unpin", "hosts"} => Covered
  /\ pc \in {"pin", "enable"} /\ ~failed => restored = SSTables
  /\ row.stage \in PastData => restored = SSTables
  /\ pc # "off" /\ run.stage \in PastData => restored = SSTables

-----------------------------------------------------------------------------
(* Facts about steps that the invariants share. *)

LEMMA StageIndex ==
  /\ Index("INIT") = 1 /\ Index("DROP_VIEWS") = 2 /\ Index("DISABLE_TGC") = 3
  /\ Index("DATA") = 4 /\ Index("REPAIR") = 5 /\ Index("ENABLE_TGC") = 6
  /\ Index("RECREATE_VIEWS") = 7 /\ Index("DONE") = 8
<1>1. DOMAIN StageOrder = 1..8
  BY DEF StageOrder
<1>2. /\ StageOrder[1] = "INIT" /\ StageOrder[2] = "DROP_VIEWS"
      /\ StageOrder[3] = "DISABLE_TGC" /\ StageOrder[4] = "DATA"
      /\ StageOrder[5] = "REPAIR" /\ StageOrder[6] = "ENABLE_TGC"
      /\ StageOrder[7] = "RECREATE_VIEWS" /\ StageOrder[8] = "DONE"
  BY DEF StageOrder
<1>3. ASSUME NEW i \in 1..8, NEW s, StageOrder[i] = s PROVE StageOrder[Index(s)] = s /\ Index(s) \in 1..8
  BY <1>1, <1>3 DEF Index
<1>4. \A i \in 1..8 : i = 1 \/ i = 2 \/ i = 3 \/ i = 4 \/ i = 5 \/ i = 6 \/ i = 7 \/ i = 8
  OBVIOUS
<1>5. QED  BY <1>2, <1>3, <1>4

LEMMA Successor ==
  /\ StageOrder[Index("INIT") + 1] = "DROP_VIEWS"
  /\ StageOrder[Index("DROP_VIEWS") + 1] = "DISABLE_TGC"
  /\ StageOrder[Index("DISABLE_TGC") + 1] = "DATA"
  /\ StageOrder[Index("DATA") + 1] = "REPAIR"
  /\ StageOrder[Index("REPAIR") + 1] = "ENABLE_TGC"
  /\ StageOrder[Index("ENABLE_TGC") + 1] = "RECREATE_VIEWS"
  /\ StageOrder[Index("RECREATE_VIEWS") + 1] = "DONE"
BY StageIndex DEF StageOrder

LEMMA NextStageIs ==
  ASSUME run \in RunRecord, NextStage
  PROVE  /\ pc' = "stage"
         /\ run'.stage = StageOrder[Index(run.stage) + 1]
         /\ run'.tgc = run.tgc /\ run'.views = run.views /\ run'.continue = run.continue
         /\ run'.stage \in Stages => run' \in RunRecord
BY DEF NextStage, RunRecord

LEMMA EndIs ==
  ASSUME End
  PROVE  /\ pc' = "off" /\ run' \in RunRecord
         /\ \A h \in Hosts : at'[h] = "new" /\ held'[h] = {}
BY DEF End, NoRun, RunRecord, Stages, NewDispatcher, NoBatch

LEMMA HostFrame ==
  ASSUME NEW h \in Hosts, HostStep(h)
  PROVE  /\ pc = "hosts"
         /\ UNCHANGED <<row, schema, noCompact, unpinned, logged, pc, run, todo, failed>>
         /\ unrepaired' = unrepaired \/ unrepaired' = TRUE
BY DEF HostStep, StartHost, CheckDisk, Dispatch, WaitCancelled, StartBatch, Download,
       LoadAndStream, BatchRestored, ScyllaTask, CleanupRunProgress, Loaded, OnHost

-----------------------------------------------------------------------------
(* The schema. *)

LEMMA SchemaEnds ==
  ASSUME SchemaInv, End, UNCHANGED <<row, schema, unrepaired>> PROVE SchemaInv'
BY EndIs DEF SchemaInv, schema, ReachedSchema, InData

LEMMA SchemaStages ==
  ASSUME SchemaInv, StageStep PROVE SchemaInv'
<1> USE DEF SchemaInv, schema, nodes, database, ReachedSchema, InData
<1>1. CASE Setup
  <2>1. CASE End
    BY <1>1, <2>1, SchemaEnds DEF Setup
  <2>2. CASE ~End
    BY <1>1, <2>2 DEF Setup
  <2>3. QED  BY <2>1, <2>2
<1>2. CASE EnterStage
  BY <1>2 DEF EnterStage, Stages
<1>3. CASE SkipInit
  <2>1. run'.stage = "DROP_VIEWS" /\ run' \in RunRecord
    BY <1>3, NextStageIs, Successor DEF SkipInit, Stages
  <2>2. QED  BY <1>3, <2>1, NextStageIs DEF SkipInit, Stages
<1>4. CASE Done
  BY <1>4, SchemaEnds DEF Done
<1>5. ASSUME NEW v \in Views, DropView(v) PROVE SchemaInv'
  <2>1. pc = "exec" /\ run.stage = "DROP_VIEWS" /\ UNCHANGED <<row, tgc, unrepaired>>
        /\ (views' = views \ {v} \/ views' = views)
    BY <1>5 DEF DropView, Statement
  <2>2. CASE End
    BY <2>1, <2>2, EndIs
  <2>3. CASE ~End
    BY <1>5, <2>1, <2>3 DEF DropView, Statement
  <2>4. QED  BY <2>2, <2>3
<1>6. ASSUME NEW v \in Views, CreateView(v) PROVE SchemaInv'
  <2>1. pc = "exec" /\ run.stage = "RECREATE_VIEWS" /\ UNCHANGED <<row, tgc, unrepaired>>
        /\ (views' = views \cup {v} \/ views' = views)
    BY <1>6 DEF CreateView, Statement
  <2>2. CASE End
    BY <2>1, <2>2, EndIs
  <2>3. CASE ~End
    BY <1>6, <2>1, <2>3 DEF CreateView, Statement
  <2>4. QED  BY <2>2, <2>3
<1>7. ASSUME NEW t \in Tables, DisableTGC(t) PROVE SchemaInv'
  <2>1. pc = "exec" /\ run.stage = "DISABLE_TGC" /\ UNCHANGED <<row, views, unrepaired>>
        /\ (tgc' = tgc \ {t} \/ tgc' = tgc)
    BY <1>7 DEF DisableTGC, Statement
  <2>2. CASE End
    BY <2>1, <2>2, EndIs
  <2>3. CASE ~End
    BY <1>7, <2>1, <2>3 DEF DisableTGC, Statement
  <2>4. QED  BY <2>2, <2>3
<1>8. ASSUME NEW t \in Tables, EnableTGC(t) PROVE SchemaInv'
  <2>1. pc = "exec" /\ run.stage = "ENABLE_TGC" /\ UNCHANGED <<row, views, unrepaired>>
        /\ (tgc' = tgc \cup {t} \/ tgc' = tgc)
    BY <1>8 DEF EnableTGC, Statement
  <2>2. CASE End
    BY <2>1, <2>2, EndIs
  <2>3. CASE ~End
    BY <1>8, <2>1, <2>3 DEF EnableTGC, Statement
  <2>4. QED  BY <2>2, <2>3
<1>9. CASE AllStated
  BY <1>9, NextStageIs, Successor DEF AllStated, Stages
<1>10. CASE WaitForViewBuilding
  <2>1. CASE End
    BY <1>10, <2>1, SchemaEnds DEF WaitForViewBuilding
  <2>2. CASE ~End
    BY <1>10, <2>2, NextStageIs, Successor DEF WaitForViewBuilding, Stages
  <2>3. QED  BY <2>1, <2>2
<1>11. CASE stageRepair
  <2>1. CASE End /\ UNCHANGED unrepaired
    BY <1>11, <2>1, SchemaEnds DEF stageRepair
  <2>2. CASE ~(End /\ UNCHANGED unrepaired)
    BY <1>11, <2>2, NextStageIs, Successor DEF stageRepair, Stages
  <2>3. QED  BY <2>1, <2>2
<1>12. CASE IndexWorkload
  <2>1. CASE End
    BY <1>12, <2>1, SchemaEnds DEF IndexWorkload
  <2>2. CASE ~End
    BY <1>12, <2>2 DEF IndexWorkload
  <2>3. QED  BY <2>1, <2>2
<1>13. CASE DisableAutoCompaction \/ UnpinCPU \/ HostsReturned \/ PinCPU
  BY <1>13 DEF DisableAutoCompaction, UnpinCPU, HostsReturned, PinCPU
<1>14. CASE EnableAutoCompaction
  <2>1. CASE failed
    BY <1>14, <2>1, SchemaEnds DEF EnableAutoCompaction
  <2>2. CASE ~failed
    BY <1>14, <2>2, NextStageIs, Successor DEF EnableAutoCompaction, Stages
  <2>3. QED  BY <2>1, <2>2
<1>15. QED
  BY <1>1, <1>2, <1>3, <1>4, <1>5, <1>6, <1>7, <1>8, <1>9, <1>10, <1>11, <1>12, <1>13, <1>14
  DEF StageStep

LEMMA SchemaStep ==
  ASSUME SchemaInv, [Next]_vars PROVE SchemaInv'
<1> USE DEF SchemaInv, schema, nodes, database, ReachedSchema, InData
<1>1. CASE Start
  <2>1. PICK continue \in Continues :
          /\ run' = [stage |-> IF row.stage \notin {"NONE", "DONE"} /\ continue
                               THEN row.stage ELSE "INIT",
                     tgc |-> IF row.stage \notin {"NONE", "DONE"} THEN row.tgc ELSE tgc,
                     views |-> IF row.stage \notin {"NONE", "DONE"} THEN row.views ELSE views,
                     continue |-> continue]
          /\ row' = run'
    BY <1>1 DEF Start
  <2>2. continue \in BOOLEAN
    BY <2>1, RestoreAssumption
  <2>3. /\ run'.tgc = Tables /\ run'.views = Views
        /\ run'.stage = "INIT" \/ (run'.stage = row.stage /\ row.stage \in Stages)
        /\ run' \in RunRecord
    BY <2>1, <2>2 DEF RunRecord, Stages
  <2>4. pc' = "setup" /\ UNCHANGED <<tgc, views, unrepaired>>
    BY <1>1 DEF Start
  <2>5. QED  BY <2>1, <2>3, <2>4 DEF Stages
<1>2. CASE StageStep
  BY <1>2, SchemaStages
<1>3. ASSUME NEW h \in Hosts, HostStep(h) PROVE SchemaInv'
  BY <1>3, HostFrame
<1>4. CASE Stop
  BY <1>4 DEF Stop
<1>5. CASE Crash
  BY <1>5, SchemaEnds DEF Crash
<1>6. CASE UNCHANGED vars
  BY <1>6 DEF vars
<1>7. QED  BY <1>1, <1>2, <1>3, <1>4, <1>5, <1>6 DEF Next, Worker

-----------------------------------------------------------------------------
(* Compaction and pinning. *)

LEMMA NodesEnd ==
  ASSUME NodesInv, End, UNCHANGED <<row, noCompact, unpinned, logged>> PROVE NodesInv'
BY EndIs DEF NodesInv

LEMMA NodesStages ==
  ASSUME SchemaInv, NodesInv, StageStep PROVE NodesInv'
<1> USE DEF NodesInv, schema, nodes, database, InData, PastData
<1>1. CASE Setup \/ Done \/ WaitForViewBuilding \/ stageRepair \/ IndexWorkload
  <2>1. CASE End
    BY <1>1, <2>1, NodesEnd DEF Setup, Done, WaitForViewBuilding, stageRepair, IndexWorkload
  <2>2. CASE ~End
    BY <1>1, <2>2, NextStageIs, Successor
    DEF Setup, Done, WaitForViewBuilding, stageRepair, IndexWorkload, SchemaInv, Stages
  <2>3. QED  BY <2>1, <2>2
<1>2. CASE EnterStage
  BY <1>2 DEF EnterStage
<1>3. CASE SkipInit \/ AllStated
  BY <1>3, NextStageIs, Successor DEF SkipInit, AllStated, SchemaInv, Stages
<1>4. ASSUME NEW v \in Views, DropView(v) \/ CreateView(v) PROVE NodesInv'
  <2>1. CASE End
    BY <1>4, <2>1, NodesEnd DEF DropView, CreateView, Statement
  <2>2. CASE ~End
    BY <1>4, <2>2 DEF DropView, CreateView, Statement
  <2>3. QED  BY <2>1, <2>2
<1>5. ASSUME NEW t \in Tables, DisableTGC(t) \/ EnableTGC(t) PROVE NodesInv'
  <2>1. CASE End
    BY <1>5, <2>1, NodesEnd DEF DisableTGC, EnableTGC, Statement
  <2>2. CASE ~End
    BY <1>5, <2>2 DEF DisableTGC, EnableTGC, Statement
  <2>3. QED  BY <2>1, <2>2
<1>6. CASE DisableAutoCompaction
  BY <1>6 DEF DisableAutoCompaction, SchemaInv
<1>7. CASE UnpinCPU
  BY <1>7 DEF UnpinCPU, SchemaInv
<1>8. CASE HostsReturned
  BY <1>8 DEF HostsReturned, SchemaInv
<1>9. CASE PinCPU
  BY <1>9 DEF PinCPU, SchemaInv
<1>10. CASE EnableAutoCompaction
  <2>1. run.stage = "DATA" /\ row.stage = "DATA" /\ row' = row /\ unpinned' = unpinned
    BY <1>10 DEF EnableAutoCompaction, SchemaInv
  <2>2. CASE failed
    BY <1>10, <2>1, <2>2, EndIs DEF EnableAutoCompaction
  <2>3. CASE ~failed
    BY <1>10, <2>1, <2>3, NextStageIs DEF EnableAutoCompaction, SchemaInv
  <2>4. QED  BY <2>2, <2>3
<1>11. QED
  BY <1>1, <1>2, <1>3, <1>4, <1>5, <1>6, <1>7, <1>8, <1>9, <1>10 DEF StageStep

LEMMA NodesStep ==
  ASSUME SchemaInv, NodesInv, [Next]_vars PROVE NodesInv'
<1> USE DEF NodesInv, schema, nodes, database
<1>1. CASE Start
  <2>1. /\ row' = run' /\ pc' = "setup"
        /\ run'.stage = "INIT" \/ run'.stage = row.stage
        /\ UNCHANGED <<noCompact, unpinned, logged>>
    BY <1>1 DEF Start
  <2>2. QED  BY <2>1 DEF PastData
<1>2. CASE StageStep
  BY <1>2, NodesStages
<1>3. ASSUME NEW h \in Hosts, HostStep(h) PROVE NodesInv'
  BY <1>3, HostFrame
<1>4. CASE Stop
  BY <1>4 DEF Stop
<1>5. CASE Crash
  BY <1>5, NodesEnd DEF Crash
<1>6. CASE UNCHANGED vars
  BY <1>6 DEF vars
<1>7. QED  BY <1>1, <1>2, <1>3, <1>4, <1>5, <1>6 DEF Next, Worker

LEMMA SchemaStart == Init => SchemaInv /\ NodesInv
<1> SUFFICES ASSUME Init PROVE SchemaInv /\ NodesInv
  OBVIOUS
<1>1. run \in RunRecord
  BY DEF Init, NoRun, RunRecord
<1>2. row.stage = "NONE" /\ pc = "off" /\ tgc = Tables /\ views = Views /\ unrepaired = FALSE
  BY DEF Init, NoRow
<1>3. SchemaInv
  BY <1>1, <1>2 DEF SchemaInv, InData, ReachedSchema
<1>4. QED  BY <1>2, <1>3 DEF Init, NodesInv, PastData

(* However many runs failed, were stopped or crashed, a restore that is    *)
(* done has put tombstone_gc, the views and, but for a failed deferred     *)
(* call, the nodes back.                                                   *)
THEOREM DoneIsBack == Spec => []ClusterIsBack
<1>1. SchemaInv /\ NodesInv => ClusterIsBack
  BY DEF SchemaInv, NodesInv, ReachedSchema, PastData, ClusterIsBack
<1>2. QED  BY <1>1, SchemaStart, SchemaStep, NodesStep, PTL DEF Spec

-----------------------------------------------------------------------------
(* Hosts work in DATA only. *)
AtRest == {"new"} \cup Returned
OnlyInData == \A h \in Hosts : pc # "hosts" => at[h] \in AtRest

LEMMA OnlyInDataStages ==
  ASSUME OnlyInData, StageStep PROVE OnlyInData'
<1> USE DEF OnlyInData
<1>1. CASE End
  BY <1>1, EndIs DEF AtRest
<1>2. CASE ~End
  <2>1. at' = at /\ (pc = "hosts" => pc' = "hosts" \/ HostsReturned)
    BY <1>2 DEF StageStep, Setup, EnterStage, SkipInit, Done, DropView, CreateView, DisableTGC,
                EnableTGC, Statement, AllStated, WaitForViewBuilding, stageRepair, IndexWorkload,
                DisableAutoCompaction, UnpinCPU, HostsReturned, PinCPU, EnableAutoCompaction
  <2>2. HostsReturned => \A h \in Hosts : at[h] \in AtRest
    BY DEF HostsReturned, AtRest
  <2>3. QED  BY <2>1, <2>2
<1>3. QED  BY <1>1, <1>2

LEMMA OnlyInDataStep ==
  ASSUME OnlyInData, [Next]_vars PROVE OnlyInData'
<1>1. CASE Start
  BY <1>1 DEF Start, OnlyInData
<1>2. CASE StageStep
  BY <1>2, OnlyInDataStages
<1>3. ASSUME NEW h \in Hosts, HostStep(h) PROVE OnlyInData'
  BY <1>3, HostFrame DEF OnlyInData
<1>4. CASE Stop
  BY <1>4 DEF Stop, OnlyInData
<1>5. CASE Crash
  BY <1>5, EndIs DEF Crash, OnlyInData, AtRest
<1>6. CASE UNCHANGED vars
  BY <1>6 DEF vars, OnlyInData
<1>7. QED  BY <1>1, <1>2, <1>3, <1>4, <1>5, <1>6 DEF Next, Worker

LEMMA OnlyInDataStart == Init => OnlyInData
BY DEF Init, OnlyInData, AtRest

(* Tombstones are kept from the first sstable loaded to the repair after   *)
(* the last one, and no view is there while hosts load, for any number of  *)
(* hosts, tables and runs.                                                 *)
THEOREM LoadedIsSafe == Spec => []LoadedIsProtected
<1>1. SchemaInv /\ OnlyInData => LoadedIsProtected
  BY DEF SchemaInv, OnlyInData, AtRest, Returned, ReachedSchema, InData, LoadedIsProtected
<1>2. QED  BY <1>1, SchemaStart, SchemaStep, OnlyInDataStart, OnlyInDataStep, PTL DEF Spec

-----------------------------------------------------------------------------
(* The sstables. *)

(* A step of one host: what it has to show for itself. *)
LEMMA RowsOneHost ==
  ASSUME RowsInv, NEW h \in Hosts,
         at' \in [Hosts -> Places],
         \A g \in Hosts \ {h} : held'[g] = held[g] /\ at'[g] = at[g],
         restored \subseteq restored', restored' \in SUBSET SSTables,
         at'[h] \in Holding <=> held'[h] # {},
         at'[h] = "loaded" => held'[h] \subseteq restored',
         at'[h] = "native" => IsNative(h)',
         \A p \in progress' :
           \/ ~p.completed
           \/ p.sstables \subseteq restored'
           \/ at'[h] = "cleanup" /\ IsNative(h)' /\ p = Row(h, TRUE)'
           \/ p \in progress /\ ~(at[h] = "cleanup" /\ p = Row(h, TRUE))
  PROVE  RowsInv'
<1>1. \A g \in Hosts \ {h} : IsNative(g)' = IsNative(g) /\ Row(g, TRUE)' = Row(g, TRUE)
  BY DEF IsNative, Row, BatchMethod
<1>2. ASSUME NEW p \in progress'
      PROVE  \/ ~p.completed
             \/ p.sstables \subseteq restored'
             \/ \E g \in Hosts : at'[g] = "cleanup" /\ IsNative(g)' /\ p = Row(g, TRUE)'
  <2>1. CASE p \in progress /\ ~(at[h] = "cleanup" /\ p = Row(h, TRUE))
    <3>1. CASE ~p.completed \/ p.sstables \subseteq restored
      BY <3>1
    <3>2. ASSUME NEW g \in Hosts, at[g] = "cleanup", IsNative(g), p = Row(g, TRUE)
          PROVE  at'[g] = "cleanup" /\ IsNative(g)' /\ p = Row(g, TRUE)'
      <4>1. g # h
        BY <2>1, <3>2
      <4>2. QED  BY <1>1, <3>2, <4>1
    <3>3. QED  BY <2>1, <3>1, <3>2 DEF RowsInv
  <2>2. QED  BY <1>2, <2>1
<1>3. \A g \in Hosts : /\ at'[g] \in Holding <=> held'[g] # {}
                       /\ at'[g] = "loaded" => held'[g] \subseteq restored'
                       /\ at'[g] = "native" => IsNative(g)'
  <2> SUFFICES ASSUME NEW g \in Hosts \ {h}
               PROVE  /\ at'[g] \in Holding <=> held'[g] # {}
                      /\ at'[g] = "loaded" => held'[g] \subseteq restored'
                      /\ at'[g] = "native" => IsNative(g)'
    OBVIOUS
  <2>1. at'[g] = at[g] /\ held'[g] = held[g] /\ IsNative(g)' = IsNative(g)
    BY <1>1
  <2>2. QED  BY <2>1 DEF RowsInv
<1>4. QED  BY <1>2, <1>3 DEF RowsInv

LEMMA GotoIs ==
  ASSUME RowsInv, NEW h \in Hosts, NEW l \in Places, Goto(h, l)
  PROVE  /\ at' \in [Hosts -> Places] /\ at'[h] = l
         /\ \A g \in Hosts \ {h} : at'[g] = at[g]
BY DEF RowsInv, Goto

(* A step that moves the host alone. *)
LEMMA RowsMove ==
  ASSUME RowsInv, Covered, NEW h \in Hosts, NEW l \in Places \ {"loaded", "native"}, Goto(h, l),
         at[h] # "cleanup", l \in Holding <=> at[h] \in Holding,
         UNCHANGED <<dvars, restored, progress>>
  PROVE  RowsInv' /\ Covered'
<1>1. UNCHANGED <<held, remaining, restored, progress>>
  BY DEF dvars
<1>2. /\ at' \in [Hosts -> Places] /\ at'[h] = l
      /\ \A g \in Hosts \ {h} : held'[g] = held[g] /\ at'[g] = at[g]
  BY <1>1, GotoIs
<1>3. /\ restored \subseteq restored' /\ restored' \in SUBSET SSTables
      /\ l \in Holding <=> held'[h] # {}
  BY <1>1 DEF RowsInv
<1>4. RowsInv'
  BY <1>1, <1>2, <1>3, RowsOneHost
<1>5. QED  BY <1>1, <1>4 DEF Covered, Held

(* A batch given back. *)
LEMMA RowsFailure ==
  ASSUME RowsInv, Covered, DInv, NEW h \in Hosts, ReportFailure(h), Goto(h, "disk"),
         UNCHANGED restored, progress' \subseteq progress,
         at[h] = "cleanup" => Row(h, TRUE) \notin progress'
  PROVE  RowsInv' /\ Covered'
<1>1. /\ held'[h] = {} /\ \A g \in Hosts : g # h => held'[g] = held[g]
      /\ Held' = Held \ held[h]
  BY ReportEmpties DEF ReportFailure
<1>2. /\ at' \in [Hosts -> Places] /\ at'[h] = "disk"
      /\ \A g \in Hosts \ {h} : at'[g] = at[g]
  BY GotoIs DEF Places
<1>3. RowsInv'
  <2>1. at'[h] \notin Holding
    BY <1>2 DEF Holding
  <2>2. \A p \in progress' : p \in progress /\ ~(at[h] = "cleanup" /\ p = Row(h, TRUE))
    OBVIOUS
  <2>3. restored \subseteq restored' /\ restored' \in SUBSET SSTables
    BY DEF RowsInv
  <2>4. at'[h] = "loaded" => held'[h] \subseteq restored'
    BY <1>2
  <2>5. at'[h] = "native" => IsNative(h)'
    BY <1>2
  <2>6. \A g \in Hosts \ {h} : held'[g] = held[g] /\ at'[g] = at[g]
    BY <1>1, <1>2
  <2>7. QED  BY <1>1, <1>2, <2>1, <2>2, <2>3, <2>4, <2>5, <2>6, RowsOneHost
<1>4. remaining' = remaining \cup held[h]
  BY DEF ReportFailure
<1>5. QED  BY <1>1, <1>3, <1>4 DEF Covered

LEMMA RowsDispatch ==
  ASSUME RowsInv, Covered, DInv, NEW h \in Hosts, Dispatch(h) PROVE RowsInv' /\ Covered'
<1>0. at[h] = "dispatch" /\ UNCHANGED <<restored, progress>>
  BY DEF Dispatch, OnHost
<1>1. CASE DispatchBatch(h) /\ Goto(h, "batch")
  <2>1. PICK s \in MostBytes(h) :
        \E B \in Batches(h, BatchMethod(h, s), {r \in remaining : Dir[r] = Dir[s] /\ BatchType[r] = BatchType[s]}) :
             /\ held' = [held EXCEPT ![h] = B]
             /\ remaining' = remaining \ B
    BY <1>1 DEF DispatchBatch
  <2> DEFINE pool == {r \in remaining : Dir[r] = Dir[s] /\ BatchType[r] = BatchType[s]}
  <2>2. PICK B \in Batches(h, BatchMethod(h, s), pool) :
             /\ held' = [held EXCEPT ![h] = B]
             /\ remaining' = remaining \ B
    BY <2>1
  <2>3. B # {} /\ B \subseteq pool
    BY <2>2, BatchOfPool
  <2>4. B # {} /\ B \subseteq remaining
    BY <2>3
  <2>5. held'[h] = B /\ held[h] = {} /\ \A g \in Hosts : g # h => held'[g] = held[g]
    BY <1>1, <2>2 DEF DInv, DispatcherType, DispatchBatch, Awake
  <2>6. Held' = Held \cup B
    BY <2>5 DEF Held
  <2>7. Covered'
    BY <1>0, <2>2, <2>4, <2>6 DEF Covered
  <2>8. /\ at' \in [Hosts -> Places] /\ at'[h] = "batch"
        /\ \A g \in Hosts \ {h} : at'[g] = at[g]
    BY <1>1, GotoIs DEF Places, Holding
  <2>9. at'[h] \in Holding /\ held'[h] # {}
    BY <2>4, <2>5, <2>8 DEF Holding
  <2>10. \A g \in Hosts \ {h} : held'[g] = held[g] /\ at'[g] = at[g]
    BY <2>5, <2>8
  <2>11. restored \subseteq restored' /\ restored' \in SUBSET SSTables
    BY <1>0 DEF RowsInv
  <2>12. at'[h] # "loaded" /\ at'[h] # "native" /\ at[h] # "cleanup"
    BY <1>0, <2>8
  <2>13. RowsInv'
    BY <1>0, <2>8, <2>9, <2>10, <2>11, <2>12, RowsOneHost
  <2>14. QED  BY <2>7, <2>13
<1>2. CASE Wait(h) /\ UNCHANGED at
  <2>1. UNCHANGED <<held, remaining, restored, progress, at>>
    BY <1>0, <1>2 DEF Wait
  <2>2. QED  BY <2>1 DEF RowsInv, Covered, Held, IsNative, Row, BatchMethod
<1>3. CASE Goto(h, "ok") /\ UNCHANGED dvars
  BY <1>0, <1>3, RowsMove DEF Places, Holding
<1>4. QED  BY <1>1, <1>2, <1>3 DEF Dispatch

(* Steps with the batch of a host that neither take nor give it back. *)
LEMMA RowsBatch ==
  ASSUME RowsInv, Covered, DInv, NEW h \in Hosts, NEW l \in Holding, Goto(h, l),
         at[h] \in Holding \ {"cleanup"}, UNCHANGED dvars,
         restored' = restored \/ restored' = restored \cup held[h],
         l = "loaded" => restored' = restored \cup held[h],
         l = "native" => IsNative(h),
         progress' \subseteq progress \cup {Row(h, FALSE), Row(h, TRUE)},
         Row(h, TRUE) \in progress' =>
           Row(h, TRUE) \in progress \/ (l = "cleanup" /\ IsNative(h))
  PROVE  RowsInv' /\ Covered'
<1>1. UNCHANGED <<held, remaining>> /\ restored \subseteq restored'
  BY DEF dvars
<1>2. /\ at' \in [Hosts -> Places] /\ at'[h] = l
      /\ \A g \in Hosts \ {h} : held'[g] = held[g] /\ at'[g] = at[g]
  BY <1>1, GotoIs DEF Places
<1>3. restored' \in SUBSET SSTables
  BY DEF RowsInv, DInv, DispatcherType
<1>4. at'[h] \in Holding <=> held'[h] # {}
  BY <1>1, <1>2 DEF RowsInv
<1>5. IsNative(h)' = IsNative(h) /\ Row(h, TRUE)' = Row(h, TRUE)
  BY <1>1 DEF IsNative, Row, BatchMethod
<1>6. \A p \in progress' :
           \/ ~p.completed
           \/ p.sstables \subseteq restored'
           \/ at'[h] = "cleanup" /\ IsNative(h)' /\ p = Row(h, TRUE)'
           \/ p \in progress /\ ~(at[h] = "cleanup" /\ p = Row(h, TRUE))
  <2>1. Row(h, FALSE).completed = FALSE
    BY DEF Row
  <2>2. QED  BY <1>2, <1>5, <2>1
<1>7. at'[h] = "loaded" => held'[h] \subseteq restored'
  BY <1>1, <1>2
<1>8. at'[h] = "native" => IsNative(h)'
  BY <1>2, <1>5
<1>9. RowsInv'
  BY <1>1, <1>2, <1>3, <1>4, <1>6, <1>7, <1>8, RowsOneHost
<1>10. QED  BY <1>1, <1>9 DEF Covered, Held

(* A batch is done: its row says so, and it is. *)
LEMMA RowsSuccess ==
  ASSUME RowsInv, Covered, DInv, NEW h \in Hosts, BatchRestored(h) PROVE RowsInv' /\ Covered'
<1>1. at[h] = "loaded" /\ ReportSuccess(h) /\ Goto(h, "disk") /\ UNCHANGED restored
  BY DEF BatchRestored, OnHost
<1>2. held[h] \subseteq restored
  BY <1>1 DEF RowsInv
<1>3. /\ held'[h] = {} /\ \A g \in Hosts : g # h => held'[g] = held[g]
      /\ Held' = Held \ held[h]
  BY <1>1, ReportEmpties DEF ReportSuccess
<1>4. /\ at' \in [Hosts -> Places] /\ at'[h] = "disk"
      /\ \A g \in Hosts \ {h} : held'[g] = held[g] /\ at'[g] = at[g]
  BY <1>1, <1>3, GotoIs DEF Places
<1>5. at'[h] \notin Holding
  BY <1>4 DEF Holding
<1>6. Row(h, TRUE).sstables \subseteq restored'
  BY <1>1, <1>2 DEF Row
<1>7. \A p \in progress' : p.sstables \subseteq restored' \/ (p \in progress /\ at[h] # "cleanup")
  BY <1>1, <1>6 DEF BatchRestored
<1>8. restored \subseteq restored' /\ restored' \in SUBSET SSTables
  BY <1>1 DEF RowsInv
<1>9. at'[h] # "loaded" /\ at'[h] # "native"
  BY <1>4
<1>10. RowsInv'
  BY <1>3, <1>4, <1>5, <1>7, <1>8, <1>9, RowsOneHost
<1>11. remaining' = remaining
  BY <1>1 DEF ReportSuccess
<1>12. QED  BY <1>1, <1>2, <1>3, <1>10, <1>11 DEF Covered

LEMMA RowsHostStep ==
  ASSUME RowsInv, Covered, DInv, NEW h \in Hosts, HostStep(h) PROVE RowsInv' /\ Covered'
<1>1. CASE StartHost(h)
  BY <1>1, RowsMove DEF StartHost, OnHost, Places, Holding
<1>2. CASE CheckDisk(h)
  BY <1>2, RowsMove DEF CheckDisk, OnHost, Places, Holding
<1>3. CASE Dispatch(h)
  BY <1>3, RowsDispatch
<1>4. CASE WaitCancelled(h)
  <2>1. UNCHANGED <<held, remaining, restored, progress, at>>
    BY <1>4 DEF WaitCancelled, StopWaiting
  <2>2. QED  BY <2>1 DEF RowsInv, Covered, Held, IsNative, Row, BatchMethod
<1>5. CASE StartBatch(h)
  <2>1. at[h] = "batch" /\ UNCHANGED restored
    BY <1>5 DEF StartBatch, OnHost
  <2>2. CASE ReportFailure(h) /\ Goto(h, "disk") /\ UNCHANGED progress
    BY <2>1, <2>2, RowsFailure
  <2>3. CASE /\ progress' = progress \cup {Row(h, FALSE)}
             /\ Goto(h, IF IsNative(h) THEN "native" ELSE "download")
             /\ UNCHANGED dvars
    <3>1. Row(h, TRUE) # Row(h, FALSE)
      BY DEF Row
    <3>2. CASE IsNative(h)
      BY <2>1, <2>3, <3>1, <3>2, RowsBatch DEF Holding
    <3>3. CASE ~IsNative(h)
      BY <2>1, <2>3, <3>1, <3>3, RowsBatch DEF Holding
    <3>4. QED  BY <3>2, <3>3
  <2>4. QED  BY <1>5, <2>2, <2>3 DEF StartBatch
<1>6. CASE Download(h)
  BY <1>6, RowsMove DEF Download, OnHost, Places, Holding
<1>7. CASE LoadAndStream(h)
  <2>1. at[h] = "load" /\ UNCHANGED <<dvars, progress>>
    BY <1>7 DEF LoadAndStream, OnHost
  <2>2. CASE Loaded(h) /\ Goto(h, "loaded")
    BY <2>1, <2>2, RowsBatch DEF Loaded, Holding
  <2>3. CASE Goto(h, "cleanup") /\ UNCHANGED restored
    BY <2>1, <2>3, RowsBatch DEF Holding
  <2>4. QED  BY <1>7, <2>2, <2>3 DEF LoadAndStream
<1>8. CASE BatchRestored(h)
  BY <1>8, RowsSuccess
<1>9. CASE ScyllaTask(h)
  <2>1. at[h] = "native" /\ UNCHANGED dvars
    BY <1>9 DEF ScyllaTask, OnHost
  <2>2. IsNative(h)
    BY <2>1 DEF RowsInv
  <2>3. CASE Loaded(h) /\ Goto(h, "loaded") /\ UNCHANGED progress
    BY <2>1, <2>3, RowsBatch DEF Loaded, Holding
  <2>4. CASE Goto(h, "cleanup") /\ UNCHANGED <<restored, progress>>
    BY <2>1, <2>4, RowsBatch DEF Holding
  <2>5. CASE /\ Goto(h, "cleanup") /\ UNCHANGED restored
             /\ progress' = (progress \ {Row(h, FALSE)}) \cup {Row(h, TRUE)}
    BY <2>1, <2>2, <2>5, RowsBatch DEF Holding
  <2>6. QED  BY <1>9, <2>3, <2>4, <2>5 DEF ScyllaTask
<1>10. CASE CleanupRunProgress(h)
  BY <1>10, RowsFailure DEF CleanupRunProgress
<1>11. QED
  BY <1>1, <1>2, <1>3, <1>4, <1>5, <1>6, <1>7, <1>8, <1>9, <1>10 DEF HostStep

-----------------------------------------------------------------------------
(* Nothing is skipped. *)

DataInv == DInv /\ SchemaInv /\ OnlyInData /\ RowsInv /\ CoverInv

(* When a run ends without a native batch in cleanup, every completed row  *)
(* is of restored sstables.                                                *)
LEMMA RowsEnd ==
  ASSUME RowsInv, End, UNCHANGED <<restored, progress>>,
         \A h \in Hosts : ~(at[h] = "cleanup" /\ IsNative(h))
  PROVE  RowsInv'
<1>1. /\ at' \in [Hosts -> Places]
      /\ \A h \in Hosts : at'[h] = "new" /\ held'[h] = {}
  BY EndIs DEF End, Places
<1>2. \A h \in Hosts : at'[h] \notin Holding
  BY <1>1 DEF Holding
<1>3. QED  BY <1>1, <1>2 DEF RowsInv

LEMMA RowsStages ==
  ASSUME DataInv, StageStep PROVE RowsInv'
<1> USE DEF database, nodes
<1>1. UNCHANGED <<restored, progress>>
  BY DEF StageStep, Setup, EnterStage, SkipInit, Done, DropView, CreateView, DisableTGC,
         EnableTGC, Statement, AllStated, WaitForViewBuilding, stageRepair, IndexWorkload,
         DisableAutoCompaction, UnpinCPU, HostsReturned, PinCPU, EnableAutoCompaction
<1>2. CASE End
  <2>1. pc # "hosts"
    BY <1>2 DEF StageStep, Setup, EnterStage, SkipInit, Done, DropView, CreateView, DisableTGC,
         EnableTGC, Statement, AllStated, WaitForViewBuilding, stageRepair, IndexWorkload,
         DisableAutoCompaction, UnpinCPU, HostsReturned, PinCPU, EnableAutoCompaction, End
  <2>2. \A h \in Hosts : at[h] # "cleanup"
    BY <2>1 DEF DataInv, OnlyInData, AtRest, Returned
  <2>3. QED  BY <1>1, <1>2, <2>2, RowsEnd DEF DataInv
<1>3. CASE ~End
  <2>1. at' = at
    BY <1>3 DEF StageStep, Setup, EnterStage, SkipInit, Done, DropView, CreateView, DisableTGC,
         EnableTGC, Statement, AllStated, WaitForViewBuilding, stageRepair, IndexWorkload,
         DisableAutoCompaction, UnpinCPU, HostsReturned, PinCPU, EnableAutoCompaction
  <2>2. CASE UNCHANGED held
    BY <1>1, <2>1, <2>2 DEF DataInv, RowsInv, IsNative, Row, BatchMethod
  <2>3. CASE IndexWorkload
    <3>1. \A h \in Hosts : at[h] \in AtRest /\ held'[h] = {}
      BY <1>3, <2>3 DEF IndexWorkload, NewDispatcher, NoBatch, DataInv, OnlyInData
    <3>2. \A h \in Hosts : at[h] \notin Holding /\ at[h] # "cleanup" /\ at[h] # "native" /\ at[h] # "loaded"
      BY <3>1 DEF AtRest, Returned, Holding
    <3>3. QED  BY <1>1, <2>1, <3>1, <3>2 DEF DataInv, RowsInv
  <2>4. QED
    BY <1>3, <2>2, <2>3 DEF StageStep, Setup, EnterStage, SkipInit, Done, DropView, CreateView,
         DisableTGC, EnableTGC, Statement, AllStated, WaitForViewBuilding, stageRepair,
         DisableAutoCompaction, UnpinCPU, HostsReturned, PinCPU, EnableAutoCompaction, dvars
<1>4. QED  BY <1>2, <1>3

LEMMA CoverEnd ==
  ASSUME CoverInv, End, UNCHANGED <<restored, row>> PROVE CoverInv'
BY EndIs DEF CoverInv

LEMMA CoverStages ==
  ASSUME DataInv, StageStep PROVE CoverInv'
<1> USE DEF DataInv, CoverInv, database, nodes, PastData
<1>1. CASE Setup \/ Done \/ WaitForViewBuilding \/ stageRepair
  <2>1. CASE End
    BY <1>1, <2>1, CoverEnd DEF Setup, Done, WaitForViewBuilding, stageRepair
  <2>2. CASE ~End
    BY <1>1, <2>2, NextStageIs, Successor
    DEF Setup, Done, WaitForViewBuilding, stageRepair, SchemaInv, Stages
  <2>3. QED  BY <2>1, <2>2
<1>2. CASE EnterStage
  BY <1>2 DEF EnterStage
<1>3. CASE SkipInit \/ AllStated
  BY <1>3, NextStageIs, Successor DEF SkipInit, AllStated, SchemaInv, Stages
<1>4. ASSUME NEW v \in Views, DropView(v) \/ CreateView(v) PROVE CoverInv'
  <2>1. CASE End
    BY <1>4, <2>1, CoverEnd DEF DropView, CreateView, Statement
  <2>2. CASE ~End
    BY <1>4, <2>2 DEF DropView, CreateView, Statement
  <2>3. QED  BY <2>1, <2>2
<1>5. ASSUME NEW t \in Tables, DisableTGC(t) \/ EnableTGC(t) PROVE CoverInv'
  <2>1. CASE End
    BY <1>5, <2>1, CoverEnd DEF DisableTGC, EnableTGC, Statement
  <2>2. CASE ~End
    BY <1>5, <2>2 DEF DisableTGC, EnableTGC, Statement
  <2>3. QED  BY <2>1, <2>2
<1>6. CASE IndexWorkload
  <2>1. CASE End
    BY <1>6, <2>1, CoverEnd DEF IndexWorkload
  <2>2. CASE ~End
    <3>1. /\ pc = "exec" /\ pc' = "compaction" /\ run.stage = "DATA"
          /\ UNCHANGED <<row, run, restored, progress>>
          /\ NewDispatcher(IF run.continue THEN filterPreviouslyRestoredSStables ELSE SSTables)
      BY <1>6, <2>2 DEF IndexWorkload
    <3>2. remaining' = IF run.continue THEN filterPreviouslyRestoredSStables ELSE SSTables
      BY <3>1 DEF NewDispatcher
    <3>3. \A h \in Hosts : at[h] # "cleanup"
      BY <3>1 DEF OnlyInData, AtRest, Returned
    <3>4. \A p \in progress : p.completed => p.sstables \subseteq restored
      BY <3>3 DEF RowsInv
    <3>5. SSTables \subseteq restored \cup filterPreviouslyRestoredSStables
      BY <3>4 DEF filterPreviouslyRestoredSStables
    <3>6. Covered'
      BY <3>1, <3>2, <3>5 DEF Covered
    <3>7. QED  BY <3>1, <3>6
  <2>3. QED  BY <2>1, <2>2
<1>7. CASE DisableAutoCompaction
  BY <1>7 DEF DisableAutoCompaction, Covered, Held, dvars
<1>8. CASE UnpinCPU
  BY <1>8 DEF UnpinCPU, Covered, Held, dvars
<1>9. CASE HostsReturned
  <2>1. \A h \in Hosts : held[h] = {}
    <3>1. \A h \in Hosts : at[h] \notin Holding
      BY <1>9 DEF HostsReturned, Returned, Holding
    <3>2. QED  BY <3>1 DEF RowsInv
  <2>2. Held = {}
    BY <2>1 DEF Held
  <2>3. ~failed' => remaining = {}
    BY <1>9 DEF HostsReturned
  <2>4. ~failed' => restored = SSTables
    BY <1>9, <2>2, <2>3 DEF HostsReturned, Covered, RowsInv
  <2>5. pc = "hosts" /\ pc' = "pin" /\ UNCHANGED <<row, run, restored>>
    BY <1>9 DEF HostsReturned
  <2>6. QED  BY <2>4, <2>5
<1>10. CASE PinCPU
  BY <1>10 DEF PinCPU
<1>11. CASE EnableAutoCompaction
  <2>1. CASE failed
    BY <1>11, <2>1, CoverEnd DEF EnableAutoCompaction
  <2>2. CASE ~failed
    BY <1>11, <2>2, NextStageIs DEF EnableAutoCompaction, SchemaInv, InData
  <2>3. QED  BY <2>1, <2>2
<1>12. QED
  BY <1>1, <1>2, <1>3, <1>4, <1>5, <1>6, <1>7, <1>8, <1>9, <1>10, <1>11 DEF StageStep

LEMMA DataStep ==
  ASSUME ~CrashInCleanup, DataInv, [Next]_vars PROVE DataInv'
<1>1. DInv'
  BY NextImplements, DispatcherStep DEF DataInv
<1>2. SchemaInv' /\ OnlyInData'
  BY SchemaStep, OnlyInDataStep DEF DataInv
<1>3. CASE Start
  <2>1. /\ UNCHANGED <<held, at, restored>> /\ progress' \subseteq progress
        /\ pc' = "setup" /\ row' = run'
        /\ run'.stage = "INIT" \/ run'.stage = row.stage
    BY <1>3 DEF Start, clonePrevProgress, dvars, nodes
  <2>2. RowsInv'
    BY <2>1 DEF DataInv, RowsInv, IsNative, Row, BatchMethod
  <2>3. CoverInv'
    BY <2>1 DEF DataInv, CoverInv, PastData
  <2>4. QED  BY <1>1, <1>2, <2>2, <2>3 DEF DataInv
<1>4. CASE StageStep
  BY <1>1, <1>2, <1>4, RowsStages, CoverStages DEF DataInv
<1>5. ASSUME NEW h \in Hosts, HostStep(h) PROVE DataInv'
  <2>1. /\ pc = "hosts" /\ UNCHANGED <<row, run, pc>>
        /\ row.stage = "DATA" /\ run.stage = "DATA"
    BY <1>5, HostFrame DEF DataInv, SchemaInv, InData
  <2>2. Covered
    BY <2>1 DEF DataInv, CoverInv
  <2>3. RowsInv' /\ Covered'
    BY <1>5, <2>2, RowsHostStep DEF DataInv
  <2>4. CoverInv'
    BY <2>1, <2>3 DEF CoverInv, PastData
  <2>5. QED  BY <1>1, <1>2, <2>3, <2>4 DEF DataInv
<1>6. CASE Stop \/ UNCHANGED vars
  <2>1. UNCHANGED <<held, remaining, at, restored, progress, pc, row, run, failed>>
    BY <1>6 DEF Stop, vars, dvars, database, nodes
  <2>2. RowsInv'
    BY <2>1 DEF DataInv, RowsInv, IsNative, Row, BatchMethod
  <2>3. CoverInv'
    BY <2>1 DEF DataInv, CoverInv, Covered, Held
  <2>4. QED  BY <1>1, <1>2, <2>2, <2>3 DEF DataInv
<1>7. CASE Crash
  <2>1. \A h \in Hosts : ~(at[h] = "cleanup" /\ IsNative(h))
    BY <1>7 DEF Crash
  <2>2. End /\ UNCHANGED <<restored, progress, row>>
    BY <1>7 DEF Crash, database, nodes
  <2>3. RowsInv' /\ CoverInv'
    BY <2>1, <2>2, RowsEnd, CoverEnd DEF DataInv
  <2>4. QED  BY <1>1, <1>2, <2>3 DEF DataInv
<1>8. QED  BY <1>3, <1>4, <1>5, <1>6, <1>7 DEF Next, Worker

LEMMA DataStart == Init => DataInv
<1> SUFFICES ASSUME Init PROVE DataInv
  OBVIOUS
<1>1. DInv /\ SchemaInv /\ OnlyInData
  BY DispatcherStart, SchemaStart, OnlyInDataStart DEF Init
<1>2. /\ at \in [Hosts -> Places]
      /\ \A h \in Hosts : at[h] = "new" /\ held[h] = {}
      /\ progress = {} /\ restored = {} /\ pc = "off" /\ row.stage = "NONE"
  BY DEF Init, DispatcherInit, NoBatch, NoRow, Places
<1>3. RowsInv
  BY <1>2 DEF RowsInv, Holding
<1>4. CoverInv
  BY <1>2 DEF CoverInv, PastData
<1>5. QED  BY <1>1, <1>3, <1>4 DEF DataInv

(* Past DATA every sstable is restored, whatever the runs were that got    *)
(* there, as long as no crash hits a failed native batch before its row is *)
(* deleted; that case is a run of its own.                                 *)
THEOREM NothingIsSkipped ==
  ASSUME ~CrashInCleanup PROVE Spec => []NothingSkipped
<1>1. ASSUME DataInv PROVE NothingSkipped
  <2>1. row.stage # "NONE" /\ IsAfter(row.stage, "DATA") => row.stage \in PastData
    BY <1>1, StageIndex DEF DataInv, SchemaInv, Stages, IsAfter, PastData
  <2>2. QED  BY <1>1, <2>1 DEF DataInv, CoverInv, NothingSkipped
<1>2. DataInv /\ [Next]_vars => DataInv'
  BY DataStep
<1>3. QED  BY <1>1, <1>2, DataStart, PTL DEF Spec
=============================================================================
