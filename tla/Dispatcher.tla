----------------------------- MODULE Dispatcher -----------------------------
(***************************************************************************)
(* batchDispatcher of pkg/service/restore/batch.go: it hands batches of    *)
(* the sstables to restore to the hosts, takes failed ones back, and lets  *)
(* idle hosts wait for what others may give back.                          *)
(*                                                                         *)
(* The mutex makes every method one step.  A host that found nothing holds *)
(* the channel it read under the mutex: it is in asleep until that channel *)
(* is closed, which replaces the channel, or until its context ends.       *)
(*                                                                         *)
(* remaining has the sstables of all RemainingSSTables, whose order, by    *)
(* size until a batch is given back, is dropped: a batch may get any       *)
(* sstables of its pool, in the number that the limits ask for.            *)
(***************************************************************************)
EXTENDS Integers, FiniteSetsExt

CONSTANTS
  Hosts,
  DCs,          \* data centers of the backed up cluster
  SSTables,
  Dir, DC,      \* RemoteSSTableDir and data center of an sstable
  BatchType,    \* [id, versioned], of an sstable
  Size, Files,  \* bytes and number of files of an sstable
  Access,       \* data centers whose backup a host can read
  Shards,       \* shards of a host
  NativeHosts,  \* hosts with the native restore API
  Method,       \* of the target: rclone, native or auto
  BatchSize,    \* of the target, 0 for as much as possible
  FileLimit     \* rcloneBatchFileCountLimit

ASSUME DispatcherAssumption ==
  /\ IsFiniteSet(SSTables)
  /\ DC \in [SSTables -> DCs]
  /\ \A r, s \in SSTables : Dir[r] = Dir[s] => DC[r] = DC[s]
  /\ Size \in [SSTables -> Nat]
  /\ Access \in [Hosts -> SUBSET DCs]

VARIABLES
  workload,    \* what there was to restore
  remaining,   \* sstables not in a batch
  toRestore,   \* dcSSTableToBeRestored
  failedDC,    \* hostFailedDC
  assigned,    \* hostAssignedBytes
  held,        \* the batch of each host, {} if none
  asleep       \* hosts that wait on the present channel

dvars == <<workload, remaining, toRestore, failedDC, assigned, held, asleep>>

Of(S, dc) == {s \in S : DC[s] = dc}
Held == UNION {held[h] : h \in Hosts}
Bytes(S) == MapThenSumSet(LAMBDA s : Size[s], S)

NoBatch == [h \in Hosts |-> {}]

NewDispatcher(W) ==
  /\ workload' = W
  /\ remaining' = W
  /\ toRestore' = [dc \in DCs |-> Cardinality(Of(W, dc))]
  /\ failedDC' = [h \in Hosts |-> {}]
  /\ assigned' = [h \in Hosts |-> 0]
  /\ held' = NoBatch
  /\ asleep' = {}

DispatcherInit ==
  /\ workload = {}
  /\ remaining = {}
  /\ toRestore = [dc \in DCs |-> 0]
  /\ failedDC = [h \in Hosts |-> {}]
  /\ assigned = [h \in Hosts |-> 0]
  /\ held = NoBatch
  /\ asleep = {}

-----------------------------------------------------------------------------
(* The data centers from which a host may still take something. *)
Open(h) == Access[h] \ failedDC[h]

isDone(h) == \A dc \in Open(h) : toRestore[dc] = 0

(* The sstables that dispatchBatch goes through. *)
Candidates(h) == {s \in remaining : DC[s] \in Open(h)}

MostBytes(h) ==
  LET Left(s) == Bytes({r \in remaining : Dir[r] = Dir[s]})
  IN  {s \in Candidates(h) : \A r \in Candidates(h) : Left(r) <= Left(s)}

BatchMethod(h, s) ==
  IF /\ Method \in {"auto", "native"}
     /\ h \in NativeHosts
     /\ ~BatchType[s].versioned
     /\ BatchType[s].id = "uuid"
  THEN "native" ELSE "rclone"

getSizeBasedLimit(h, percent) ==
  LET shards == MapThenSumSet(LAMBDA g : Shards[g], Hosts)
      expected == (Bytes(workload) \div shards) * Shards[h]
      left == Max({expected - assigned[h], 0})
  IN  Max({(expected * 5) \div 100, Min({left, (expected * percent) \div 100})})

InLimits(h, method, B) ==
  LET size == getSizeBasedLimit(h, IF method = "native" THEN 100 ELSE 5)
  IN  /\ method = "rclone" /\ FileLimit > 0
           => MapThenSumSet(LAMBDA s : Files[s], B) <= FileLimit
      /\ IF method = "native" \/ BatchSize = 0
         THEN size > 0 => Bytes(B) <= size
         ELSE Cardinality(B) <= BatchSize * Shards[h]

(* What createBatch may take out of pool: one sstable per shard at a time  *)
(* as long as the limits hold, the first ones whatever the limits are, and *)
(* all if fewer than one per shard would be left.                          *)
Batches(h, method, pool) ==
  LET Step(B) == Min({Shards[h], Cardinality(pool \ B)})
      Fits(B) == /\ Cardinality(B) % Shards[h] = 0 \/ B = pool
                 /\ Cardinality(B) <= Shards[h] \/ InLimits(h, method, B)
      Full(B) == \/ B = pool
                 \/ \E C \in kSubset(Step(B), pool \ B) : ~InLimits(h, method, B \cup C)
      Extended(B) == IF Cardinality(pool \ B) < Shards[h] THEN pool ELSE B
  IN  {Extended(B) : B \in {B \in (SUBSET pool) \ {{}} : Fits(B) /\ Full(B)}}

-----------------------------------------------------------------------------
Awake(h) == held[h] = {} /\ h \notin asleep

(* A plausible bug: one sstable of the batch stays among the remaining ones. *)
DispatchKeepsOne(h) ==
  /\ Awake(h)
  /\ ~isDone(h)
  /\ \E s \in MostBytes(h) :
       /\ held' = [held EXCEPT ![h] = {s}]
       /\ assigned' = [assigned EXCEPT ![h] = @ + Size[s]]
  /\ UNCHANGED <<workload, remaining, toRestore, failedDC, asleep>>

(* dispatchBatch and createBatch: a batch of one type out of the directory *)
(* with the most bytes left.                                               *)
DispatchBatch(h) ==
  /\ Awake(h)
  /\ ~isDone(h)
  /\ \E s \in MostBytes(h) :
       LET pool == {r \in remaining : Dir[r] = Dir[s] /\ BatchType[r] = BatchType[s]}
       IN  \E B \in Batches(h, BatchMethod(h, s), pool) :
             /\ held' = [held EXCEPT ![h] = B]
             /\ remaining' = remaining \ B
             /\ assigned' = [assigned EXCEPT ![h] = @ + Bytes(B)]
  /\ UNCHANGED <<workload, toRestore, failedDC, asleep>>

(* Nothing to dispatch: wait for what other hosts may give back. *)
Wait(h) ==
  /\ Awake(h)
  /\ ~isDone(h)
  /\ Candidates(h) = {}
  /\ asleep' = asleep \cup {h}
  /\ UNCHANGED <<workload, remaining, toRestore, failedDC, assigned, held>>

(* The context ends the wait. *)
StopWaiting(h) ==
  /\ asleep' = asleep \ {h}
  /\ UNCHANGED <<workload, remaining, toRestore, failedDC, assigned, held>>

(* All sstables of a batch are of one directory, so of one data center. *)
BatchDC(h) == CHOOSE dc \in DCs : \E s \in held[h] : DC[s] = dc

(* A plausible bug: the last success of a data center wakes nobody up. *)
SuccessIsQuiet(h) ==
  /\ held[h] # {}
  /\ toRestore' = [toRestore EXCEPT ![BatchDC(h)] = @ - Cardinality(held[h])]
  /\ held' = [held EXCEPT ![h] = {}]
  /\ UNCHANGED <<workload, remaining, failedDC, assigned, asleep>>

ReportSuccess(h) ==
  LET dc == BatchDC(h)
      left == toRestore[dc] - Cardinality(held[h])
  IN  /\ held[h] # {}
      /\ toRestore' = [toRestore EXCEPT ![dc] = left]
      /\ asleep' = IF left = 0 THEN {} ELSE asleep
      /\ held' = [held EXCEPT ![h] = {}]
      /\ UNCHANGED <<workload, remaining, failedDC, assigned>>

ReportFailure(h) ==
  /\ held[h] # {}
  /\ failedDC' = [failedDC EXCEPT ![h] = @ \cup {BatchDC(h)}]
  /\ assigned' = [assigned EXCEPT ![h] = @ - Bytes(held[h])]
  /\ remaining' = remaining \cup held[h]
  /\ asleep' = {}
  /\ held' = [held EXCEPT ![h] = {}]
  /\ UNCHANGED <<workload, toRestore>>

DispatcherNext ==
  \/ \E W \in SUBSET SSTables : NewDispatcher(W)
  \/ \E h \in Hosts :
       DispatchBatch(h) \/ Wait(h) \/ StopWaiting(h) \/ ReportSuccess(h) \/ ReportFailure(h)

(* What the dispatcher promises, whatever the hosts do with their batches. *)
DispatcherSpec == DispatcherInit /\ [][DispatcherNext]_dvars

-----------------------------------------------------------------------------
(* A host that waits in DispatchBatch waits for somebody: another host has *)
(* a batch of a data center that the waiting one may restore from, and     *)
(* nothing it could take is left undispatched.  So its report, the last    *)
(* success of the data center or any failure, wakes it up.                 *)
WaitsForSomebody ==
  \A h \in asleep :
    /\ Candidates(h) = {}
    /\ \E g \in Hosts \ {h} : \E s \in held[g] : DC[s] \in Open(h)

(* Every sstable that is not restored is either left or in one batch, and  *)
(* the counters by which hosts decide that they are done count just them.  *)
NoneLostNoneTwice ==
  /\ \A h \in Hosts : held[h] \cap remaining = {}
  /\ \A h, g \in Hosts : h # g => held[h] \cap held[g] = {}
  /\ \A dc \in DCs : toRestore[dc] = Cardinality(Of(remaining \cup Held, dc))
=============================================================================
