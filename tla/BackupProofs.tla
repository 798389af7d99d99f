---------------------------- MODULE BackupProofs ----------------------------
(***************************************************************************)
(* The backup task and what shares its location, for any nodes, tasks and  *)
(* files, and any number of runs that stop, fail or crash and are          *)
(* continued, of faults and of calls.                                      *)
(***************************************************************************)
EXTENDS Backup, FiniteSetTheorems, SequenceTheorems, WellFoundedInduction, TLAPS

RowState == [tag : Tags, stage : Stages]
RunState ==
  [task : Tasks, tag : Tags, prev : Resumable \cup {"none"}, only : BOOLEAN, stage : Stages,
   todo : SUBSET Nodes, wait : SUBSET Nodes, err : BOOLEAN, stop : BOOLEAN, rollback : BOOLEAN,
   schema : BOOLEAN, index : [Nodes -> SUBSET Names]]

LocationTypes ==
  /\ remote \subseteq FileType /\ manifests \subseteq ManifestType /\ schemas \subseteq Tags
  /\ \A a, b \in remote : a.node = b.node /\ a.name = b.name /\ a.ver = b.ver => a = b
  /\ \A a, b \in manifests : SamePath(a, b) => a = b

AgentTypes ==
  /\ local \in [Nodes -> SUBSET (Tags \X Names)] /\ dirs \in [Nodes -> SUBSET Tags]
  /\ jobs \in [Nodes -> SUBSET Tags]
  /\ snap = [n \in Nodes |-> [t \in Tags |-> snap[n][t]]]

RunTypes ==
  /\ rows \in [Tasks -> Seq(RowState)]
  /\ run = NoRun \/ run \in RunState
  /\ ~Idle => Len(rows[run.task]) > 0
  /\ purges = [c \in {"run", "delete"} |-> purges[c]]
  /\ purges["run"] # NoPurge => run.stage = "PURGE"
  /\ clock \in 0 .. MaxTime /\ doomed \subseteq Tags /\ lost \subseteq Tags /\ completed \subseteq Tags

(* No tag is of the future. *)
TagsInTime ==
  /\ \A k \in Tasks : \A i \in DOMAIN rows[k] : rows[k][i].tag <= clock
  /\ \A n \in Nodes : \A t \in jobs[n] : t <= clock
  /\ \A n \in Nodes : \A f \in local[n] : f[1] <= clock
  /\ \A f \in remote : f.ver <= clock
  /\ \A m \in manifests : m.tag <= clock
  /\ ~Idle => run.tag <= clock

(* The tag of a new run is new on a node until the node has taken the snapshot, and at the location until all have. *)
Beginning == run.stage \in {"INIT", "SNAPSHOT"} /\ run.prev = "none"
TagIsNew ==
  /\ run.stage = "SNAPSHOT" => run.prev = "none"
  /\ Beginning => /\ run.tag = clock
                  /\ \A f \in remote : f.ver < run.tag
                  /\ \A m \in manifests : m.tag < run.tag
                  /\ \A n \in Nodes : \A t \in jobs[n] : t < run.tag
                  /\ \A n \in Nodes : run.stage = "INIT" \/ n \in run.todo => \A f \in local[n] : f[1] < run.tag

(* What is left on a node the snapshot held. *)
LocalIsHeld ==
  \A n \in Nodes : \A f \in local[n] : f[2] \in DOMAIN snap[n][f[1]] /\ snap[n][f[1]][f[2]] \in Contents

TypeInv == LocationTypes /\ AgentTypes /\ RunTypes /\ TagsInTime /\ TagIsNew /\ LocalIsHeld

-----------------------------------------------------------------------------
LEMMA LeastNat == ASSUME NEW T \in SUBSET Nat, T # {} PROVE \E x \in T : \A y \in T : x <= y
<1> DEFINE R == OpToRel(<, Nat)
<1>1. IsWellFoundedOn(R, Nat)
  BY NatLessThanWellFounded, Zenon
<1>2. \A x, y \in Nat : x < y => <<x, y>> \in R
  BY DEF OpToRel
<1> HIDE DEF R
<1>3. PICK x \in T : \A y \in T : ~(<<y, x>> \in R)
  BY <1>1, WFMin
<1>4. ASSUME NEW y \in T PROVE x <= y
  <2>1. y \in Nat /\ x \in Nat
    OBVIOUS
  <2>2. <<y, x>> \notin R
    BY <1>3
  <2>3. ~(y < x)
    BY <1>2, <2>1, <2>2, Zenon
  <2>4. QED  BY <2>1, <2>3
<1>5. QED  BY <1>4

LEMMA GreatestNat ==
  ASSUME NEW k \in Nat, NEW T \in SUBSET Nat, T # {}, \A x \in T : x <= k
  PROVE  \E x \in T : \A y \in T : y <= x
<1> DEFINE U == {k - x : x \in T}
<1>1. U \in SUBSET Nat /\ U # {}
  <2>1. \A x \in T : k - x \in Nat
    OBVIOUS
  <2>2. PICK x \in T : TRUE
    OBVIOUS
  <2>3. k - x \in U
    OBVIOUS
  <2>4. QED  BY <2>1, <2>3
<1>2. PICK m \in U : \A y \in U : m <= y
  BY <1>1, LeastNat
<1>3. PICK x \in T : m = k - x
  BY <1>2
<1>4. ASSUME NEW y \in T PROVE y <= x
  <2>1. m <= k - y
    BY <1>2
  <2>2. QED  BY <1>3, <2>1
<1>5. QED  BY <1>4

(* The stages by their number. *)
LEMMA StageNumbers ==
  /\ Stages = {"INIT", "SNAPSHOT", "AWAIT_SCHEMA", "INDEX", "MANIFEST", "SCHEMA", "DEDUPLICATE", "UPLOAD",
               "MOVE_MANIFEST", "RETENTION_LOCK", "MIGRATE", "PURGE", "DONE"}
  /\ Index("INIT") = 1 /\ Index("SNAPSHOT") = 2 /\ Index("AWAIT_SCHEMA") = 3 /\ Index("INDEX") = 4
  /\ Index("MANIFEST") = 5 /\ Index("SCHEMA") = 6 /\ Index("DEDUPLICATE") = 7 /\ Index("UPLOAD") = 8
  /\ Index("MOVE_MANIFEST") = 9 /\ Index("RETENTION_LOCK") = 10 /\ Index("MIGRATE") = 11
  /\ Index("PURGE") = 12 /\ Index("DONE") = 13
<1>1. DOMAIN StageOrder = 1 .. 13
  BY DEF StageOrder
<1>2. \A i \in 1 .. 13 : i = 1 \/ i = 2 \/ i = 3 \/ i = 4 \/ i = 5 \/ i = 6 \/ i = 7 \/ i = 8 \/ i = 9
                         \/ i = 10 \/ i = 11 \/ i = 12 \/ i = 13
  OBVIOUS
<1>3. ASSUME NEW i \in 1 .. 13 PROVE Index(StageOrder[i]) = i
  <2>1. \A j \in 1 .. 13 : StageOrder[j] = StageOrder[i] => j = i
    BY <1>2 DEF StageOrder
  <2>2. QED  BY <1>1, <2>1 DEF Index
<1>4. Stages = {StageOrder[1], StageOrder[2], StageOrder[3], StageOrder[4], StageOrder[5], StageOrder[6], StageOrder[7],
                StageOrder[8], StageOrder[9], StageOrder[10], StageOrder[11], StageOrder[12], StageOrder[13]}
  BY <1>1, <1>2 DEF Stages
<1>5. /\ StageOrder[1] = "INIT" /\ StageOrder[2] = "SNAPSHOT" /\ StageOrder[3] = "AWAIT_SCHEMA" /\ StageOrder[4] = "INDEX"
      /\ StageOrder[5] = "MANIFEST" /\ StageOrder[6] = "SCHEMA" /\ StageOrder[7] = "DEDUPLICATE" /\ StageOrder[8] = "UPLOAD"
      /\ StageOrder[9] = "MOVE_MANIFEST" /\ StageOrder[10] = "RETENTION_LOCK" /\ StageOrder[11] = "MIGRATE"
      /\ StageOrder[12] = "PURGE" /\ StageOrder[13] = "DONE"
  BY DEF StageOrder
<1>6. QED  BY <1>3, <1>4, <1>5

(* The next stage is the first one that follows and is not skipped; DONE always does. *)
LEMMA FollowingStage ==
  ASSUME run \in RunState, run.stage # "DONE",
         NEW s, s = CHOOSE x \in Following : \A y \in Following : Index(x) <= Index(y)
  PROVE  s \in Stages /\ s \in Following /\ \A y \in Following : Index(s) <= Index(y)
<1>1. run.stage \in Stages /\ run.prev \in Resumable \cup {"none"}
  BY DEF RunState
<1>2. \A x \in Stages : Index(x) \in 1 .. 13
  BY StageNumbers
<1>3. Index(run.stage) < 13
  BY <1>1, StageNumbers
<1>4. run.prev = "none" \/ Index(run.prev) <= 13
  BY <1>1, StageNumbers DEF Resumable
<1>5. "DONE" \in Following
  <2>1. ~Skipped("DONE")
    BY <1>1, <1>4, StageNumbers DEF Skipped, Resumable
  <2>2. QED  BY <1>3, <2>1, StageNumbers DEF Following
<1> DEFINE T == {Index(x) : x \in Following}
<1>6. T \in SUBSET Nat /\ T # {}
  BY <1>2, <1>5 DEF Following
<1>7. PICK i \in T : \A j \in T : i <= j
  BY <1>6, LeastNat
<1>8. \E x \in Following : \A y \in Following : Index(x) <= Index(y)
  BY <1>7
<1>9. QED  BY <1>8 DEF Following

-----------------------------------------------------------------------------
LEMMA RunIs ==
  ASSUME RunTypes
  PROVE  /\ ~Idle => run \in RunState
         /\ Idle => run = NoRun
         /\ run.stage \in Stages \/ run.stage = "none"
         /\ run.stage \in Stages => ~Idle
<1>1. "none" \notin Stages
  BY StageNumbers
<1>2. CASE run = NoRun
  BY <1>1, <1>2 DEF Idle, NoRun
<1>3. CASE run \in RunState
  <2>1. run.stage \in Stages
    BY <1>3 DEF RunState
  <2>2. QED  BY <1>1, <1>3, <2>1 DEF Idle
<1>4. QED  BY <1>2, <1>3 DEF RunTypes

(* The part of a node in a stage is over. *)
LEMMA NodeDone ==
  ASSUME run \in RunState, NEW n \in Nodes, Ok(n) \/ Err(n)
  PROVE  /\ run' \in RunState
         /\ run'.todo = run.todo \ {n} /\ run'.wait = run.wait \ {n}
         /\ run'.task = run.task /\ run'.tag = run.tag /\ run'.prev = run.prev /\ run'.only = run.only
         /\ run'.stage = run.stage /\ run'.stop = run.stop /\ run'.rollback = run.rollback
         /\ run'.schema = run.schema /\ run'.index = run.index
         /\ Err(n) => run'.err = TRUE
         /\ Ok(n) => run'.err = run.err
<1>1. Ok(n) => run'.err = run.err
  BY DEF RunState, Ok
<1>2. Err(n) => run'.err = TRUE
  BY DEF RunState, Err
<1>3. run' \in RunState
  BY DEF RunState, Ok, Err
<1>4. /\ run'.todo = run.todo \ {n} /\ run'.wait = run.wait \ {n}
      /\ run'.task = run.task /\ run'.tag = run.tag /\ run'.prev = run.prev /\ run'.stage = run.stage
      /\ run'.index = run.index
  BY DEF RunState, Ok, Err
<1>5. run'.only = run.only /\ run'.stop = run.stop /\ run'.rollback = run.rollback /\ run'.schema = run.schema
  BY DEF RunState, Ok, Err
<1>6. QED  BY <1>1, <1>2, <1>3, <1>4, <1>5, Zenon

(* The run goes on in its stage, is over, or there is none. *)
RunStays ==
  \/ run' = run
  \/ run' = NoRun
  \/ /\ run \in RunState /\ run' \in RunState
     /\ run'.task = run.task /\ run'.tag = run.tag /\ run'.prev = run.prev /\ run'.only = run.only /\ run'.stage = run.stage
     /\ run'.todo \subseteq run.todo \/ run.stage = "MOVE_MANIFEST"

(* Nothing but decisions is added. *)
Shrinks ==
  /\ remote' \subseteq remote /\ manifests' \subseteq manifests /\ schemas' \subseteq schemas /\ snap' = snap
  /\ local' = [n \in Nodes |-> local'[n]] /\ \A n \in Nodes : local'[n] \subseteq local[n]
  /\ dirs' = [n \in Nodes |-> dirs'[n]] /\ \A n \in Nodes : dirs'[n] \subseteq dirs[n]
  /\ jobs' = [n \in Nodes |-> jobs'[n]] /\ \A n \in Nodes : jobs'[n] \subseteq jobs[n]
  /\ rows' = rows /\ clock' = clock /\ RunStays
  /\ purges' = [c \in {"run", "delete"} |-> purges'[c]]
  /\ purges'["run"] # NoPurge => run'.stage = "PURGE"
  /\ doomed' \subseteq Tags /\ lost' \subseteq Tags /\ completed' \subseteq Tags

LEMMA ShrinkType == ASSUME TypeInv, Shrinks PROVE TypeInv'
<1> USE DEF TypeInv
<1>1. LocationTypes'
  BY DEF LocationTypes, Shrinks
<1>2. AgentTypes'
  <2>1. local' \in [Nodes -> SUBSET (Tags \X Names)]
    BY DEF AgentTypes, Shrinks
  <2>2. dirs' \in [Nodes -> SUBSET Tags] /\ jobs' \in [Nodes -> SUBSET Tags]
    BY DEF AgentTypes, Shrinks
  <2>3. QED  BY <2>1, <2>2 DEF AgentTypes, Shrinks
<1>3. RunTypes'
  <2>1. run' = NoRun \/ run' \in RunState
    BY DEF RunTypes, Shrinks, RunStays
  <2>2. ~Idle' => Len(rows'[run'.task]) > 0
    BY RunIs DEF RunTypes, Shrinks, RunStays, Idle, NoRun
  <2>3. QED  BY <2>1, <2>2 DEF RunTypes, Shrinks
<1>4. TagsInTime'
  <2>1. ~Idle' => run'.tag <= clock'
    BY RunIs DEF TagsInTime, Shrinks, RunStays, Idle, NoRun
  <2>2. QED  BY <2>1 DEF TagsInTime, Shrinks
<1>5. TagIsNew'
  <2>1. CASE run' = NoRun
    BY <2>1 DEF TagIsNew, Beginning, NoRun
  <2>2. CASE run' # NoRun
    <3>1. run'.tag = run.tag /\ run'.prev = run.prev /\ run'.stage = run.stage
          /\ (run.stage = "SNAPSHOT" => run'.todo \subseteq run.todo)
      BY <2>2 DEF Shrinks, RunStays
    <3>2. QED  BY <3>1 DEF TagIsNew, Beginning, Shrinks
  <2>3. QED  BY <2>1, <2>2
<1>6. LocalIsHeld'
  BY DEF LocalIsHeld, Shrinks
<1>7. QED  BY <1>1, <1>2, <1>3, <1>4, <1>5, <1>6

LEMMA AgentsStay ==
  ASSUME TypeInv
  PROVE  /\ UNCHANGED local => local' = [n \in Nodes |-> local'[n]] /\ \A n \in Nodes : local'[n] \subseteq local[n]
         /\ UNCHANGED dirs => dirs' = [n \in Nodes |-> dirs'[n]] /\ \A n \in Nodes : dirs'[n] \subseteq dirs[n]
         /\ UNCHANGED jobs => jobs' = [n \in Nodes |-> jobs'[n]] /\ \A n \in Nodes : jobs'[n] \subseteq jobs[n]
  BY DEF TypeInv, AgentTypes

LEMMA PurgesStay ==
  ASSUME TypeInv, UNCHANGED purges, run'.stage = run.stage
  PROVE  /\ purges' = [c \in {"run", "delete"} |-> purges'[c]]
         /\ purges'["run"] # NoPurge => run'.stage = "PURGE"
  BY DEF TypeInv, RunTypes

LEMMA HistoryStays ==
  ASSUME TypeInv
  PROVE  /\ UNCHANGED doomed => doomed' \subseteq Tags
         /\ UNCHANGED lost => lost' \subseteq Tags
         /\ UNCHANGED completed => completed' \subseteq Tags
  BY DEF TypeInv, RunTypes

(* The steps of the run that add nothing. *)
LEMMA QuietRun ==
  ASSUME TypeInv, NEW n \in Nodes,
         \/ NodeFails(n) \/ AwaitSchema(n) \/ IndexNode(n) \/ DeduplicateNode(n) \/ UploadDone(n) \/ UploadFails(n)
         \/ RollbackMoveManifest \/ End \/ Interrupt \/ Crash
  PROVE  Shrinks
<1> USE DEF location, agents, bounds
<1>0. RunTypes /\ AgentTypes
  BY DEF TypeInv
<1>1. CASE NodeFails(n)
  <2>1. run.stage \in Stages
    BY <1>1, StageNumbers DEF NodeFails, At, NodeStages, HostStages
  <2>2. run \in RunState
    BY <1>0, <2>1, RunIs
  <2>3. RunStays /\ run'.stage = run.stage
    BY <1>1, <2>2, NodeDone DEF NodeFails, RunStays
  <2>4. QED  BY <1>1, <2>3, AgentsStay, PurgesStay, HistoryStays DEF NodeFails, Shrinks
<1>2. CASE AwaitSchema(n)
  <2>1. run \in RunState
    BY <1>0, <1>2, RunIs, StageNumbers DEF AwaitSchema, At
  <2>2. run' \in RunState /\ run'.task = run.task /\ run'.tag = run.tag /\ run'.prev = run.prev /\ run'.only = run.only
        /\ run'.stage = run.stage /\ run'.todo = {}
    BY <1>2, <2>1 DEF AwaitSchema, RunState
  <2>3. QED  BY <1>2, <2>1, <2>2, AgentsStay, PurgesStay, HistoryStays DEF AwaitSchema, Shrinks, RunStays
<1>3. CASE IndexNode(n)
  <2>1. run \in RunState
    BY <1>0, <1>3, RunIs, StageNumbers DEF IndexNode, At
  <2>2. PICK v \in SUBSET Names : v = Left(n, run.tag)
    BY DEF Left
  <2>3. PICK e \in BOOLEAN : run' = [run EXCEPT !.todo = @ \ {n}, !.err = e, !.index[n] = v]
    <3>1. PICK e \in BOOLEAN : e = (run.err \/ ~(run.tag \in dirs[n] \/ run.prev = "UPLOAD"))
      OBVIOUS
    <3>2. QED  BY <1>3, <2>2, <3>1 DEF IndexNode
  <2>4. run' \in RunState /\ run'.task = run.task /\ run'.tag = run.tag /\ run'.prev = run.prev
        /\ run'.stage = run.stage /\ run'.todo = run.todo \ {n}
    BY <2>1, <2>3 DEF RunState
  <2>5. run'.only = run.only
    BY <2>1, <2>3 DEF RunState
  <2>6. QED  BY <1>3, <2>1, <2>4, <2>5, AgentsStay, PurgesStay, HistoryStays DEF IndexNode, Shrinks, RunStays
<1>4. CASE DeduplicateNode(n)
  <2>1. run \in RunState
    BY <1>0, <1>4, RunIs, StageNumbers DEF DeduplicateNode, At
  <2>2. RunStays /\ run'.stage = run.stage
    BY <1>4, <2>1, NodeDone DEF DeduplicateNode, RunStays
  <2>3. local' = [m \in Nodes |-> local'[m]] /\ \A m \in Nodes : local'[m] \subseteq local[m]
    BY <1>0, <1>4 DEF DeduplicateNode, AgentTypes
  <2>4. QED  BY <1>4, <2>2, <2>3, AgentsStay, PurgesStay, HistoryStays DEF DeduplicateNode, Shrinks
<1>5. CASE UploadDone(n)
  <2>1. run \in RunState
    BY <1>0, <1>5, RunIs, StageNumbers DEF UploadDone, At
  <2>2. RunStays /\ run'.stage = run.stage
    BY <1>5, <2>1, NodeDone DEF UploadDone, RunStays
  <2>3. /\ jobs' = [m \in Nodes |-> jobs'[m]] /\ \A m \in Nodes : jobs'[m] \subseteq jobs[m]
        /\ dirs' = [m \in Nodes |-> dirs'[m]] /\ \A m \in Nodes : dirs'[m] \subseteq dirs[m]
    BY <1>0, <1>5 DEF UploadDone, AgentTypes
  <2>4. QED  BY <1>5, <2>2, <2>3, AgentsStay, PurgesStay, HistoryStays DEF UploadDone, Shrinks
<1>6. CASE UploadFails(n)
  <2>1. run \in RunState
    BY <1>0, <1>6, RunIs, StageNumbers DEF UploadFails, At
  <2>2. RunStays /\ run'.stage = run.stage
    BY <1>6, <2>1, NodeDone DEF UploadFails, RunStays
  <2>3. jobs' = [m \in Nodes |-> jobs'[m]] /\ \A m \in Nodes : jobs'[m] \subseteq jobs[m]
    BY <1>0, <1>6 DEF UploadFails, AgentTypes
  <2>4. QED  BY <1>6, <2>2, <2>3, AgentsStay, PurgesStay, HistoryStays DEF UploadFails, Shrinks
<1>7. CASE RollbackMoveManifest
  <2>1. run \in RunState
    BY <1>0, <1>7, RunIs, StageNumbers DEF RollbackMoveManifest
  <2>2. run' \in RunState /\ run'.task = run.task /\ run'.tag = run.tag /\ run'.prev = run.prev /\ run'.only = run.only
        /\ run'.stage = run.stage
    BY <1>7, <2>1 DEF RollbackMoveManifest, RunState
  <2>3. QED  BY <1>7, <2>1, <2>2, AgentsStay, PurgesStay, HistoryStays DEF RollbackMoveManifest, Shrinks, RunStays
<1>8. CASE End
  <2>1. purges' = [c \in {"run", "delete"} |-> purges'[c]] /\ purges'["run"] = NoPurge
    BY <1>0, <1>8 DEF End, RunTypes
  <2>2. QED  BY <1>8, <2>1, AgentsStay, HistoryStays DEF End, Shrinks, RunStays
<1>9. CASE Interrupt
  <2>1. run \in RunState
    BY <1>0, <1>9, RunIs DEF Interrupt
  <2>2. run' \in RunState /\ run'.task = run.task /\ run'.tag = run.tag /\ run'.prev = run.prev
        /\ run'.stage = run.stage /\ run'.todo = run.todo
    BY <1>9, <2>1 DEF Interrupt, RunState
  <2>3. run'.only = run.only
    BY <1>9, <2>1 DEF Interrupt, RunState
  <2>4. QED  BY <1>9, <2>1, <2>2, <2>3, AgentsStay, PurgesStay, HistoryStays DEF Interrupt, Shrinks, RunStays
<1>10. CASE Crash
  <2>1. purges' = [c \in {"run", "delete"} |-> purges'[c]] /\ purges'["run"] = NoPurge
    BY <1>10 DEF Crash
  <2>2. QED  BY <1>10, <2>1, AgentsStay, HistoryStays DEF Crash, Shrinks, RunStays
<1>11. QED  BY <1>1, <1>2, <1>3, <1>4, <1>5, <1>6, <1>7, <1>8, <1>9, <1>10

LEMMA StaleTagsAreListed ==
  ASSUME NEW ms, NEW r, NEW now PROVE StaleTags(ms, r, now) \subseteq TagsOf(ms)
  BY DEF StaleTags, TagsOf

LEMMA TagsOfTypes ==
  ASSUME NEW ms, ms \subseteq ManifestType PROVE TagsOf(ms) \subseteq Tags
  BY DEF TagsOf, ManifestType

LEMMA FilterIsSubset ==
  ASSUME NEW ms PROVE FilterShadowedTemporaryManifests(ms) \subseteq ms
  BY DEF FilterShadowedTemporaryManifests

(* A purge under way, of the run or of a call. *)
LEMMA PurgeStep ==
  ASSUME TypeInv, NEW c \in {"run", "delete"}, NEW g, g \in {Nodes} \cup {{n} : n \in Nodes},
         PurgeFiles(c, g) \/ PurgeManifests(c, g)
  PROVE  Shrinks
<1> USE DEF location, agents, bounds
<1>0. RunTypes /\ AgentTypes /\ LocationTypes
  BY DEF TypeInv
<1>1. CASE PurgeFiles(c, g)
  <2>1. c = "run" => run \in RunState /\ run.stage = "PURGE"
    BY <1>0, <1>1, RunIs, StageNumbers DEF PurgeFiles, RunTypes
  <2>2. RunStays /\ run'.stage = run.stage
    <3>1. CASE run' = run
      BY <3>1 DEF RunStays
    <3>2. CASE run' # run
      <4>1. c = "run" /\ run' = [run EXCEPT !.todo = @ \ g, !.err = TRUE]
        BY <1>1, <3>2 DEF PurgeFiles
      <4>2. run' \in RunState /\ run'.task = run.task /\ run'.tag = run.tag /\ run'.prev = run.prev
            /\ run'.stage = run.stage /\ run'.todo \subseteq run.todo
        BY <2>1, <4>1 DEF RunState
      <4>3. run'.only = run.only
        BY <2>1, <4>1 DEF RunState
      <4>4. QED  BY <2>1, <4>1, <4>2, <4>3 DEF RunStays
    <3>3. QED  BY <3>1, <3>2
  <2>3. remote' \subseteq remote /\ manifests' = manifests /\ schemas' = schemas
    BY <1>1 DEF PurgeFiles
  <2>4. /\ local' = [m \in Nodes |-> local'[m]] /\ \A m \in Nodes : local'[m] \subseteq local[m]
        /\ dirs' = [m \in Nodes |-> dirs'[m]] /\ \A m \in Nodes : dirs'[m] \subseteq dirs[m]
        /\ lost' \subseteq Tags
    <3>1. CASE c = "run"
      <4>1. run.tag \in Tags /\ lost \subseteq Tags
        BY <1>0, <2>1, <3>1 DEF RunState, RunTypes
      <4>2. QED  BY <1>1, <3>1, <4>1 DEF PurgeFiles, DeleteOwnSnapshot
    <3>2. CASE c # "run"
      BY <1>1, <3>2, AgentsStay, HistoryStays DEF PurgeFiles, DeleteOwnSnapshot
    <3>3. QED  BY <3>1, <3>2
  <2>5. purges' = [x \in {"run", "delete"} |-> purges'[x]] /\ (purges'["run"] # NoPurge => run.stage = "PURGE")
    <3>1. \A x \in {"run", "delete"} : x # c => purges'[x] = purges[x]
      BY <1>0, <1>1 DEF PurgeFiles, RunTypes
    <3>2. purges[c] # NoPurge
      BY <1>1 DEF PurgeFiles
    <3>3. purges' = [x \in {"run", "delete"} |-> purges'[x]]
      BY <1>0, <1>1 DEF PurgeFiles, RunTypes
    <3>4. QED  BY <1>0, <3>1, <3>2, <3>3 DEF RunTypes
  <2>6. QED  BY <1>1, <2>2, <2>3, <2>4, <2>5, AgentsStay, HistoryStays DEF PurgeFiles, Shrinks
<1>2. CASE PurgeManifests(c, g)
  <2>1. c = "run" => run \in RunState /\ run.stage = "PURGE"
    BY <1>0, <1>2, RunIs, StageNumbers DEF PurgeManifests, RunTypes
  <2>2. RunStays /\ run'.stage = run.stage
    <3>1. CASE c # "run"
      BY <1>2, <3>1 DEF PurgeManifests, RunStays
    <3>2. CASE c = "run"
      <4>1. run' = [run EXCEPT !.todo = @ \ g]
        BY <1>2, <3>2 DEF PurgeManifests
      <4>2. run' \in RunState /\ run'.task = run.task /\ run'.tag = run.tag /\ run'.prev = run.prev
            /\ run'.stage = run.stage /\ run'.todo \subseteq run.todo
        BY <2>1, <3>2, <4>1 DEF RunState
      <4>3. run'.only = run.only
        BY <2>1, <3>2, <4>1 DEF RunState
      <4>4. QED  BY <2>1, <3>2, <4>2, <4>3 DEF RunStays
    <3>3. QED  BY <3>1, <3>2
  <2>3. remote' = remote /\ manifests' \subseteq manifests /\ schemas' \subseteq schemas
    BY <1>2 DEF PurgeManifests
  <2>4. purges' = [x \in {"run", "delete"} |-> purges'[x]] /\ (purges'["run"] # NoPurge => run.stage = "PURGE")
    <3>1. \A x \in {"run", "delete"} : x # c => purges'[x] = purges[x]
      BY <1>0, <1>2 DEF PurgeManifests, RunTypes
    <3>2. purges[c] # NoPurge
      BY <1>2 DEF PurgeManifests
    <3>3. purges' = [x \in {"run", "delete"} |-> purges'[x]]
      BY <1>0, <1>2 DEF PurgeManifests, RunTypes
    <3>4. QED  BY <1>0, <3>1, <3>2, <3>3 DEF RunTypes
  <2>5. QED  BY <1>2, <2>2, <2>3, <2>4, AgentsStay, HistoryStays DEF PurgeManifests, Shrinks
<1>3. QED  BY <1>1, <1>2

(* The steps beside the run that add nothing. *)
LEMMA QuietOther ==
  ASSUME TypeInv,
         \/ \E n \in Nodes : \/ \E t \in jobs[n] : JobEnds(n, t)
                             \/ AgentRestart(n) \/ ValidateStart(n) \/ DeleteLocalSnapshots(n)
         \/ PurgeDecide \/ DeleteSnapshot \/ DeleteEnds \/ ValidateRead \/ ValidateScan \/ ValidateDelete
  PROVE  Shrinks
<1> USE DEF location, agents, bounds
<1>0. RunTypes /\ AgentTypes /\ LocationTypes
  BY DEF TypeInv
<1>1. ASSUME NEW n \in Nodes, NEW t \in jobs[n], JobEnds(n, t) PROVE Shrinks
  <2>1. jobs' = [m \in Nodes |-> jobs'[m]] /\ \A m \in Nodes : jobs'[m] \subseteq jobs[m]
    BY <1>0, <1>1 DEF JobEnds, AgentTypes
  <2>2. QED  BY <1>1, <2>1, AgentsStay, PurgesStay, HistoryStays DEF JobEnds, Shrinks, RunStays
<1>2. ASSUME NEW n \in Nodes, AgentRestart(n) PROVE Shrinks
  <2>1. jobs' = [m \in Nodes |-> jobs'[m]] /\ \A m \in Nodes : jobs'[m] \subseteq jobs[m]
    BY <1>0, <1>2 DEF AgentRestart, AgentTypes
  <2>2. RunStays /\ run'.stage = run.stage
    <3>1. CASE Idle
      BY <1>2, <3>1 DEF AgentRestart, RunStays
    <3>2. CASE ~Idle
      <4>1. run \in RunState /\ run' = [run EXCEPT !.wait = @ \ {n}]
        BY <1>0, <1>2, <3>2, RunIs DEF AgentRestart
      <4>2. run' \in RunState /\ run'.task = run.task /\ run'.tag = run.tag /\ run'.prev = run.prev
            /\ run'.stage = run.stage /\ run'.todo = run.todo
        BY <4>1 DEF RunState
      <4>3. run'.only = run.only
        BY <4>1 DEF RunState
      <4>4. QED  BY <4>1, <4>2, <4>3 DEF RunStays
    <3>3. QED  BY <3>1, <3>2
  <2>3. QED  BY <1>2, <2>1, <2>2, AgentsStay, PurgesStay, HistoryStays DEF AgentRestart, Shrinks
<1>3. ASSUME NEW n \in Nodes, ValidateStart(n) PROVE Shrinks
  BY <1>3, AgentsStay, PurgesStay, HistoryStays DEF ValidateStart, Shrinks, RunStays
<1>4. ASSUME NEW n \in Nodes, DeleteLocalSnapshots(n) PROVE Shrinks
  <2>1. /\ local' = [m \in Nodes |-> local'[m]] /\ \A m \in Nodes : local'[m] \subseteq local[m]
        /\ dirs' = [m \in Nodes |-> dirs'[m]] /\ \A m \in Nodes : dirs'[m] \subseteq dirs[m]
    BY <1>0, <1>4 DEF DeleteLocalSnapshots, AgentTypes
  <2>2. lost' \subseteq Tags
    BY <1>0, <1>4 DEF DeleteLocalSnapshots, Unsent, AgentTypes, RunTypes
  <2>3. QED  BY <1>4, <2>1, <2>2, AgentsStay, PurgesStay, HistoryStays DEF DeleteLocalSnapshots, Shrinks, RunStays
<1>5. CASE PurgeDecide
  <2>1. purges' = [x \in {"run", "delete"} |-> purges'[x]] /\ run' = run /\ run.stage = "PURGE"
    BY <1>0, <1>5 DEF PurgeDecide, RunTypes
  <2>2. doomed' \subseteq Tags
    <3>1. FilterShadowedTemporaryManifests(manifests) \subseteq ManifestType
      BY <1>0, FilterIsSubset DEF LocationTypes
    <3>2. StaleTags(FilterShadowedTemporaryManifests(manifests), Retention, clock) \subseteq Tags
      BY <3>1, StaleTagsAreListed, TagsOfTypes
    <3>3. QED  BY <1>0, <1>5, <3>2 DEF PurgeDecide, RunTypes
  <2>3. QED  BY <1>5, <2>1, <2>2, AgentsStay, HistoryStays DEF PurgeDecide, Shrinks, RunStays
<1>6. CASE DeleteSnapshot
  <2>1. purges' = [x \in {"run", "delete"} |-> purges'[x]] /\ purges'["run"] = purges["run"] /\ run' = run
    BY <1>0, <1>6 DEF DeleteSnapshot, RunTypes
  <2>2. TagsOf(manifests) \subseteq Tags
    BY <1>0, TagsOfTypes DEF LocationTypes
  <2>3. doomed' \subseteq Tags
    BY <1>0, <1>6, <2>2 DEF DeleteSnapshot, RunTypes
  <2>4. QED  BY <1>0, <1>6, <2>1, <2>3, AgentsStay, HistoryStays DEF DeleteSnapshot, Shrinks, RunStays, RunTypes
<1>7. CASE DeleteEnds
  <2>1. purges' = [x \in {"run", "delete"} |-> purges'[x]] /\ purges'["run"] = purges["run"] /\ run' = run
    BY <1>0, <1>7 DEF DeleteEnds, RunTypes
  <2>2. QED  BY <1>0, <1>7, <2>1, AgentsStay, HistoryStays DEF DeleteEnds, Shrinks, RunStays, RunTypes
<1>8. CASE ValidateRead \/ ValidateScan
  BY <1>8, AgentsStay, PurgesStay, HistoryStays DEF ValidateRead, ValidateScan, Shrinks, RunStays
<1>9. CASE ValidateDelete
  <2>1. remote' \subseteq remote
    BY <1>9 DEF ValidateDelete
  <2>2. QED  BY <1>9, <2>1, AgentsStay, PurgesStay, HistoryStays DEF ValidateDelete, Shrinks, RunStays
<1>10. QED  BY <1>1, <1>2, <1>3, <1>4, <1>5, <1>6, <1>7, <1>8, <1>9

(* The run that is continued is the last one that can be, and none after it is done. *)
LEMMA LastResumable ==
  ASSUME RunTypes, NEW k \in Tasks, NEW i, i = GetLastResumableRun(k), i # 0
  PROVE  /\ i \in 1 .. Len(rows[k]) /\ rows[k][i] \in RowState /\ rows[k][i].stage \in Resumable
         /\ \A j \in i .. Len(rows[k]) : rows[k][j].stage # "DONE"
         /\ \A j \in (i + 1) .. Len(rows[k]) : rows[k][j].stage \notin Resumable
<1> DEFINE found == {x \in DOMAIN rows[k] : /\ rows[k][x].stage \in Resumable
                                            /\ \A j \in x .. Len(rows[k]) : rows[k][j].stage # "DONE"}
<1>1. rows[k] \in Seq(RowState) /\ Len(rows[k]) \in Nat /\ DOMAIN rows[k] = 1 .. Len(rows[k])
  BY LenProperties DEF RunTypes
<1>2. found # {} /\ i = Max(found)
  BY DEF GetLastResumableRun
<1>3. found \in SUBSET Nat /\ \A x \in found : x <= Len(rows[k])
  BY <1>1
<1>4. \E x \in found : \A y \in found : y <= x
  <2> HIDE DEF found
  <2>1. QED  BY <1>1, <1>2, <1>3, GreatestNat
<1>5. i \in found /\ \A y \in found : y <= i
  <2> HIDE DEF found
  <2>1. \E x \in found : \A y \in found : x >= y
    BY <1>3, <1>4
  <2>2. i \in found /\ \A y \in found : i >= y
    BY <1>2, <2>1 DEF Max
  <2>3. QED  BY <1>3, <2>2
<1>6. i \in 1 .. Len(rows[k]) /\ rows[k][i].stage \in Resumable /\ \A j \in i .. Len(rows[k]) : rows[k][j].stage # "DONE"
  BY <1>1, <1>5
<1>7. rows[k][i] \in RowState
  BY <1>1, <1>6, ElementOfSeq
<1>8. ASSUME NEW j \in (i + 1) .. Len(rows[k]), rows[k][j].stage \in Resumable PROVE FALSE
  <2>1. j \in DOMAIN rows[k] /\ j > i /\ \A x \in j .. Len(rows[k]) : x \in i .. Len(rows[k])
    BY <1>1, <1>6
  <2>2. j \in found
    BY <1>6, <1>8, <2>1
  <2>3. QED  BY <1>5, <1>6, <2>1, <2>2
<1>9. QED  BY <1>6, <1>7, <1>8

(* A run that starts continues an earlier one, or has a tag of its own. *)
LEMMA StartFacts ==
  ASSUME TypeInv, NEW k \in Tasks, Start(k)
  PROVE  \E tag \in Tags, prev \in Resumable \cup {"none"}, only \in BOOLEAN, stage \in Stages :
           /\ run' = NewRun(k, tag, prev, only)
           /\ rows' = [rows EXCEPT ![k] = Append(rows[k], [tag |-> tag, stage |-> stage])]
           /\ \/ /\ prev = "none" /\ stage = "INIT" /\ clock' = clock + 1 /\ tag = clock + 1
              \/ /\ prev # "none" /\ stage = prev /\ clock' = clock
                 /\ \E i \in 1 .. Len(rows[k]) :
                      /\ rows[k][i].tag = tag /\ rows[k][i].stage = prev
                      /\ \A j \in i .. Len(rows[k]) : rows[k][j].stage # "DONE"
                      /\ \A j \in (i + 1) .. Len(rows[k]) : rows[k][j].stage \notin Resumable
<1> DEFINE i == GetLastResumableRun(k)
           resume(c) == c /\ i # 0 /\ clock - rows[k][i].tag <= AgeMax
<1> HIDE DEF i
<1>1. RunTypes
  BY DEF TypeInv
<1>2. PICK c \in Continues, only \in Only :
        /\ resume(c) \/ clock < MaxTime
        /\ clock' = IF resume(c) THEN clock ELSE clock + 1
        /\ rows' = [rows EXCEPT ![k] = Append(@, [tag |-> IF resume(c) THEN rows[k][i].tag ELSE clock + 1,
                        stage |-> IF resume(c) THEN IF resume(c) THEN rows[k][i].stage ELSE "none" ELSE "INIT"])]
        /\ run' = NewRun(k, IF resume(c) THEN rows[k][i].tag ELSE clock + 1,
                            IF resume(c) THEN rows[k][i].stage ELSE "none", only)
  BY DEF Start, i
<1>3. only \in BOOLEAN
  BY BackupAssumption
<1>4. CASE resume(c)
  <2>1. i # 0
    BY <1>4
  <2>2. /\ i \in 1 .. Len(rows[k]) /\ rows[k][i] \in RowState /\ rows[k][i].stage \in Resumable
        /\ \A j \in i .. Len(rows[k]) : rows[k][j].stage # "DONE"
        /\ \A j \in (i + 1) .. Len(rows[k]) : rows[k][j].stage \notin Resumable
    BY <1>1, <2>1, LastResumable DEF i
  <2>3. rows[k][i].tag \in Tags /\ rows[k][i].stage \in Stages /\ rows[k][i].stage # "none"
    BY <2>2 DEF RowState, Resumable
  <2>4. PICK tag \in Tags, prev \in Stages : tag = rows[k][i].tag /\ prev = rows[k][i].stage
    BY <2>3
  <2>5. /\ run' = NewRun(k, tag, prev, only) /\ clock' = clock
        /\ rows' = [rows EXCEPT ![k] = Append(rows[k], [tag |-> tag, stage |-> prev])]
    BY <1>2, <1>4, <2>4
  <2>6. QED  BY <1>3, <2>2, <2>3, <2>4, <2>5
<1>5. CASE ~resume(c)
  <2>1. clock + 1 \in Tags
    BY <1>1, <1>2, <1>5, BackupAssumption DEF RunTypes, Tags
  <2>2. PICK tag \in Tags : tag = clock + 1
    BY <2>1
  <2>3. /\ run' = NewRun(k, tag, "none", only) /\ clock' = clock + 1
        /\ rows' = [rows EXCEPT ![k] = Append(rows[k], [tag |-> tag, stage |-> "INIT"])]
    BY <1>2, <1>5, <2>2
  <2>4. "INIT" \in Stages
    BY StageNumbers
  <2>5. QED  BY <1>3, <2>2, <2>3, <2>4
<1>6. QED  BY <1>4, <1>5

(* A row is added, or has its stage set. *)
LEMMA RowAdded ==
  ASSUME rows \in [Tasks -> Seq(RowState)], NEW k \in Tasks, NEW r \in RowState,
         rows' = [rows EXCEPT ![k] = Append(rows[k], r)]
  PROVE  /\ rows' \in [Tasks -> Seq(RowState)]
         /\ Len(rows[k]) \in Nat /\ DOMAIN rows[k] = 1 .. Len(rows[k])
         /\ Len(rows'[k]) = Len(rows[k]) + 1 /\ DOMAIN rows'[k] = 1 .. (Len(rows[k]) + 1)
         /\ \A i \in 1 .. Len(rows[k]) : rows'[k][i] = rows[k][i]
         /\ rows'[k][Len(rows[k]) + 1] = r
         /\ \A x \in Tasks : x # k => rows'[x] = rows[x]
<1>1. rows[k] \in Seq(RowState) /\ rows'[k] = Append(rows[k], r)
  OBVIOUS
<1>2. /\ Append(rows[k], r) \in Seq(RowState)
      /\ Len(Append(rows[k], r)) = Len(rows[k]) + 1
      /\ \A i \in 1 .. Len(rows[k]) : Append(rows[k], r)[i] = rows[k][i]
      /\ Append(rows[k], r)[Len(rows[k]) + 1] = r
  BY <1>1, AppendProperties
<1>3. Len(rows[k]) \in Nat /\ DOMAIN rows[k] = 1 .. Len(rows[k])
  BY <1>1, LenProperties
<1>4. DOMAIN rows'[k] = 1 .. Len(rows'[k])
  BY <1>1, <1>2, LenProperties
<1>5. \A x \in Tasks : x # k => rows'[x] = rows[x]
  OBVIOUS
<1>6. rows' \in [Tasks -> Seq(RowState)]
  BY <1>1, <1>2
<1>7. QED  BY <1>1, <1>2, <1>3, <1>4, <1>5, <1>6

LEMMA StageSet ==
  ASSUME rows \in [Tasks -> Seq(RowState)], NEW k \in Tasks, Len(rows[k]) > 0, NEW s \in Stages,
         rows' = [rows EXCEPT ![k][Len(rows[k])].stage = s]
  PROVE  /\ rows' \in [Tasks -> Seq(RowState)]
         /\ Len(rows[k]) \in Nat \ {0} /\ DOMAIN rows[k] = 1 .. Len(rows[k])
         /\ Len(rows'[k]) = Len(rows[k]) /\ DOMAIN rows'[k] = 1 .. Len(rows[k])
         /\ \A i \in 1 .. (Len(rows[k]) - 1) : rows'[k][i] = rows[k][i]
         /\ rows'[k][Len(rows[k])].stage = s /\ rows'[k][Len(rows[k])].tag = rows[k][Len(rows[k])].tag
         /\ \A x \in Tasks : x # k => rows'[x] = rows[x]
<1>1. rows[k] \in Seq(RowState) /\ Len(rows[k]) \in Nat /\ DOMAIN rows[k] = 1 .. Len(rows[k])
  BY LenProperties
<1>2. Len(rows[k]) \in 1 .. Len(rows[k])
  BY <1>1
<1>3. rows[k][Len(rows[k])] \in RowState
  BY <1>1, <1>2, ElementOfSeq
<1>4. PICK r \in RowState : r = [rows[k][Len(rows[k])] EXCEPT !.stage = s]
  BY <1>3 DEF RowState
<1>5. r.stage = s /\ r.tag = rows[k][Len(rows[k])].tag
  BY <1>3, <1>4 DEF RowState
<1>6. rows' = [rows EXCEPT ![k] = [rows[k] EXCEPT ![Len(rows[k])] = r]]
  BY <1>4
<1>7. /\ [rows[k] EXCEPT ![Len(rows[k])] = r] \in Seq(RowState)
      /\ Len([rows[k] EXCEPT ![Len(rows[k])] = r]) = Len(rows[k])
      /\ \A j \in 1 .. Len(rows[k]) : [rows[k] EXCEPT ![Len(rows[k])] = r][j] = IF j = Len(rows[k]) THEN r ELSE rows[k][j]
  BY <1>1, <1>2, ExceptSeq
<1>8. rows'[k] = [rows[k] EXCEPT ![Len(rows[k])] = r]
  BY <1>6
<1>9. DOMAIN rows'[k] = 1 .. Len(rows'[k])
  BY <1>7, <1>8, LenProperties
<1>10. \A x \in Tasks : x # k => rows'[x] = rows[x]
  BY <1>6
<1>11. rows' \in [Tasks -> Seq(RowState)]
  BY <1>6, <1>7
<1>12. \A i \in 1 .. (Len(rows[k]) - 1) : rows'[k][i] = rows[k][i]
  BY <1>1, <1>7, <1>8
<1>13. rows'[k][Len(rows[k])] = r
  BY <1>2, <1>7, <1>8
<1>14. QED  BY <1>1, <1>5, <1>7, <1>8, <1>9, <1>10, <1>11, <1>12, <1>13

LEMMA NewRunFacts ==
  ASSUME NEW k \in Tasks, NEW tag \in Tags, NEW prev \in Resumable \cup {"none"}, NEW only \in BOOLEAN,
         run' = NewRun(k, tag, prev, only)
  PROVE  /\ run' \in RunState
         /\ run'.task = k /\ run'.tag = tag /\ run'.prev = prev /\ run'.only = only /\ run'.stage = "INIT"
         /\ run'.todo = {} /\ run'.wait = {} /\ ~run'.err /\ ~run'.stop /\ ~run'.rollback /\ ~run'.schema
         /\ run'.index = NoFiles
<1>1. "INIT" \in Stages
  BY StageNumbers
<1>2. NoFiles \in [Nodes -> SUBSET Names]
  BY DEF NoFiles
<1>3. QED  BY <1>1, <1>2 DEF NewRun, RunState

LEMMA StartType == ASSUME TypeInv, NEW k \in Tasks, Start(k) PROVE TypeInv'
<1> USE DEF location, agents, bounds
<1>0. RunTypes /\ AgentTypes /\ LocationTypes /\ TagsInTime /\ LocalIsHeld
  BY DEF TypeInv
<1>1. UNCHANGED <<location, agents, purges, val, completed, doomed, lost, bounds>> /\ Idle
  BY DEF Start
<1>2. PICK tag \in Tags, prev \in Resumable \cup {"none"}, only \in BOOLEAN, stage \in Stages :
           /\ run' = NewRun(k, tag, prev, only)
           /\ rows' = [rows EXCEPT ![k] = Append(rows[k], [tag |-> tag, stage |-> stage])]
           /\ \/ /\ prev = "none" /\ stage = "INIT" /\ clock' = clock + 1 /\ tag = clock + 1
              \/ /\ prev # "none" /\ stage = prev /\ clock' = clock
                 /\ \E i \in 1 .. Len(rows[k]) :
                      /\ rows[k][i].tag = tag /\ rows[k][i].stage = prev
                      /\ \A j \in i .. Len(rows[k]) : rows[k][j].stage # "DONE"
                      /\ \A j \in (i + 1) .. Len(rows[k]) : rows[k][j].stage \notin Resumable
  BY StartFacts
<1>3. [tag |-> tag, stage |-> stage] \in RowState
  BY DEF RowState
<1>4. rows \in [Tasks -> Seq(RowState)]
  BY <1>0 DEF RunTypes
<1>5. /\ rows' \in [Tasks -> Seq(RowState)]
      /\ Len(rows[k]) \in Nat /\ DOMAIN rows[k] = 1 .. Len(rows[k])
      /\ Len(rows'[k]) = Len(rows[k]) + 1 /\ DOMAIN rows'[k] = 1 .. (Len(rows[k]) + 1)
      /\ \A i \in 1 .. Len(rows[k]) : rows'[k][i] = rows[k][i]
      /\ rows'[k][Len(rows[k]) + 1] = [tag |-> tag, stage |-> stage]
      /\ \A x \in Tasks : x # k => rows'[x] = rows[x]
  BY <1>2, <1>3, <1>4, RowAdded
<1>6. run' \in RunState /\ run'.task = k /\ run'.tag = tag /\ run'.prev = prev /\ run'.stage = "INIT"
  BY <1>2, NewRunFacts
<1>7. tag \in Nat /\ clock \in Nat /\ clock' \in 0 .. MaxTime /\ clock <= clock' /\ tag <= clock'
  <2>1. CASE prev = "none"
    BY <1>0, <1>2, <2>1, BackupAssumption DEF Tags, RunTypes
  <2>2. CASE prev # "none"
    BY <1>0, <1>2, <1>5, <2>2, BackupAssumption DEF Tags, RunTypes, TagsInTime
  <2>3. QED  BY <2>1, <2>2
<1>8. LocationTypes' /\ AgentTypes' /\ LocalIsHeld'
  BY <1>0, <1>1 DEF LocationTypes, AgentTypes, LocalIsHeld, SamePath
<1>9. RunTypes'
  <2>1. purges'["run"] = NoPurge
    BY <1>0, <1>1 DEF RunTypes, Idle
  <2>2. Len(rows'[run'.task]) > 0
    BY <1>5, <1>6
  <2>3. QED  BY <1>0, <1>1, <1>5, <1>6, <1>7, <2>1, <2>2 DEF RunTypes
<1>10. TagsInTime'
  <2>1. ASSUME NEW x \in Tasks, NEW i \in DOMAIN rows'[x] PROVE rows'[x][i].tag <= clock'
    <3>1. CASE x = k /\ i = Len(rows[k]) + 1
      BY <1>5, <1>7, <3>1
    <3>2. CASE ~(x = k /\ i = Len(rows[k]) + 1)
      <4>1. i \in DOMAIN rows[x] /\ rows'[x][i] = rows[x][i]
        BY <1>5, <2>1, <3>2
      <4>2. rows[x][i].tag <= clock /\ rows[x][i].tag \in Nat
        <5>1. rows[x][i] \in RowState
          BY <1>4, <4>1, ElementOfSeq, LenProperties
        <5>2. QED  BY <1>0, <4>1, <5>1, BackupAssumption DEF TagsInTime, RowState, Tags
      <4>3. QED  BY <1>7, <4>1, <4>2
    <3>3. QED  BY <3>1, <3>2
  <2>2. /\ \A n \in Nodes : \A t \in jobs[n] : t <= clock'
        /\ \A n \in Nodes : \A f \in local[n] : f[1] <= clock'
        /\ \A f \in remote : f.ver <= clock'
        /\ \A m \in manifests : m.tag <= clock'
    BY <1>0, <1>7, BackupAssumption DEF TagsInTime, AgentTypes, LocationTypes, FileType, ManifestType, Tags, RunTypes
  <2>3. QED  BY <1>1, <1>6, <1>7, <2>1, <2>2 DEF TagsInTime
<1>11. TagIsNew'
  <2>1. CASE prev # "none"
    BY <1>6, <2>1 DEF TagIsNew, Beginning
  <2>2. CASE prev = "none"
    <3>1. tag = clock + 1
      BY <1>2, <2>2
    <3>2. /\ \A n \in Nodes : \A t \in jobs[n] : t < tag
          /\ \A n \in Nodes : \A f \in local[n] : f[1] < tag
          /\ \A f \in remote : f.ver < tag
          /\ \A m \in manifests : m.tag < tag
      BY <1>0, <1>7, <3>1, BackupAssumption DEF TagsInTime, AgentTypes, LocationTypes, FileType, ManifestType, Tags, RunTypes
    <3>3. clock' = tag
      BY <1>2, <2>2
    <3>4. QED  BY <1>1, <1>6, <3>2, <3>3 DEF TagIsNew, Beginning
  <2>3. QED  BY <2>1, <2>2
<1>12. QED  BY <1>8, <1>9, <1>10, <1>11 DEF TypeInv

LEMMA NextStageFacts ==
  ASSUME TypeInv, NextStage
  PROVE  \E s \in Stages :
           /\ s \in Following /\ \A y \in Following : Index(s) <= Index(y)
           /\ run \in RunState /\ run' \in RunState /\ run'.stage = s /\ run'.todo \subseteq Nodes
           /\ s \in NodeStages => run'.todo = Nodes
           /\ s \in HostStages => run'.todo # {}
           /\ run'.task = run.task /\ run'.tag = run.tag /\ run'.prev = run.prev /\ run'.only = run.only
           /\ run'.wait = run.wait /\ run'.err = run.err /\ run'.stop = run.stop /\ run'.rollback = run.rollback
           /\ run'.schema = run.schema /\ run'.index = run.index
           /\ rows' = [rows EXCEPT ![run.task][Len(rows[run.task])].stage = s]
<1>1. run \in RunState /\ run.stage # "DONE"
  BY RunIs DEF NextStage, TypeInv
<1>2. PICK s : s = CHOOSE x \in Following : \A y \in Following : Index(x) <= Index(y)
  OBVIOUS
<1>3. s \in Stages /\ s \in Following /\ \A y \in Following : Index(s) <= Index(y)
  BY <1>1, <1>2, FollowingStage
<1>4. (CHOOSE n \in Nodes : TRUE) \in Nodes
  BY BackupAssumption
<1>5. PICK todo \in SUBSET Nodes : todo = IF s \in NodeStages THEN Nodes
                                          ELSE IF s \in HostStages THEN {CHOOSE n \in Nodes : TRUE} ELSE {}
  BY <1>4
<1>6. run' = [run EXCEPT !.stage = s, !.todo = todo] /\ rows' = [rows EXCEPT ![run.task][Len(rows[run.task])].stage = s]
  BY <1>2, <1>5 DEF NextStage
<1>7. run' \in RunState
  BY <1>1, <1>3, <1>5, <1>6 DEF RunState
<1>8. /\ run'.stage = s /\ run'.todo = todo /\ run'.task = run.task /\ run'.tag = run.tag /\ run'.prev = run.prev
      /\ run'.wait = run.wait /\ run'.index = run.index
  BY <1>1, <1>3, <1>5, <1>6 DEF RunState
<1>9. /\ run'.only = run.only /\ run'.err = run.err /\ run'.stop = run.stop /\ run'.rollback = run.rollback
      /\ run'.schema = run.schema
  BY <1>1, <1>3, <1>5, <1>6 DEF RunState
<1>10. (s \in NodeStages => todo = Nodes) /\ (s \in HostStages => todo # {})
  BY <1>5, BackupAssumption
<1>11. QED  BY <1>1, <1>3, <1>6, <1>7, <1>8, <1>9, <1>10

(* The stage of a run that continues is not before INDEX. *)
LEMMA EarlyIsNew ==
  ASSUME run \in RunState, NEW s \in Following, s = "SNAPSHOT" \/ s = "AWAIT_SCHEMA" PROVE run.prev = "none"
<1>1. run.prev \in Resumable \cup {"none"}
  BY DEF RunState
<1>2. \A x \in Resumable : Index(x) > Index("AWAIT_SCHEMA") /\ Index(x) > Index("SNAPSHOT")
  BY StageNumbers DEF Resumable
<1>3. QED  BY <1>1, <1>2 DEF Following, Skipped

LEMMA NextStageType == ASSUME TypeInv, NextStage PROVE TypeInv'
<1> USE DEF location, agents, bounds
<1>0. RunTypes /\ AgentTypes /\ LocationTypes /\ TagsInTime /\ LocalIsHeld /\ TagIsNew
  BY DEF TypeInv
<1>1. UNCHANGED <<location, agents, val, clock, doomed, lost, bounds>>
  BY DEF NextStage
<1>2. PICK s \in Stages :
           /\ s \in Following
           /\ run \in RunState /\ run' \in RunState /\ run'.stage = s
           /\ s \in NodeStages => run'.todo = Nodes
           /\ run'.task = run.task /\ run'.tag = run.tag /\ run'.prev = run.prev
           /\ rows' = [rows EXCEPT ![run.task][Len(rows[run.task])].stage = s]
  BY NextStageFacts
<1>3. run.task \in Tasks /\ run.tag \in Tags /\ ~Idle /\ run.stage \in Stages
  BY <1>2 DEF RunState, NextStage
<1>4. Len(rows[run.task]) > 0 /\ rows \in [Tasks -> Seq(RowState)]
  BY <1>0, <1>3 DEF RunTypes
<1>5. /\ rows' \in [Tasks -> Seq(RowState)]
      /\ Len(rows[run.task]) \in Nat \ {0} /\ DOMAIN rows[run.task] = 1 .. Len(rows[run.task])
      /\ Len(rows'[run.task]) = Len(rows[run.task]) /\ DOMAIN rows'[run.task] = 1 .. Len(rows[run.task])
      /\ \A i \in 1 .. (Len(rows[run.task]) - 1) : rows'[run.task][i] = rows[run.task][i]
      /\ rows'[run.task][Len(rows[run.task])].tag = rows[run.task][Len(rows[run.task])].tag
      /\ \A x \in Tasks : x # run.task => rows'[x] = rows[x]
  <2>1. PICK k \in Tasks : k = run.task
    BY <1>3
  <2>2. QED  BY <1>2, <1>4, <2>1, StageSet
<1>6. RunTypes'
  <2>1. purges' = [c \in {"run", "delete"} |-> purges'[c]] /\ purges'["run"] = NoPurge
    BY <1>0 DEF NextStage, RunTypes
  <2>2. completed' \subseteq Tags
    BY <1>0, <1>3 DEF NextStage, RunTypes
  <2>3. Len(rows'[run'.task]) > 0
    BY <1>2, <1>4, <1>5
  <2>4. QED  BY <1>0, <1>1, <1>2, <1>5, <2>1, <2>2, <2>3 DEF RunTypes
<1>7. TagsInTime'
  <2>1. ASSUME NEW x \in Tasks, NEW i \in DOMAIN rows'[x] PROVE rows'[x][i].tag = rows[x][i].tag /\ i \in DOMAIN rows[x]
    <3>1. CASE x = run.task
      BY <1>5, <2>1, <3>1
    <3>2. CASE x # run.task
      BY <1>5, <2>1, <3>2
    <3>3. QED  BY <3>1, <3>2
  <2>2. \A x \in Tasks : \A i \in DOMAIN rows'[x] : rows'[x][i].tag <= clock
    BY <1>0, <2>1 DEF TagsInTime
  <2>3. QED  BY <1>0, <1>1, <1>2, <1>3, <2>2 DEF TagsInTime
<1>8. TagIsNew'
  <2>1. s = "SNAPSHOT" => run.prev = "none" /\ run.stage = "INIT"
    <3>1. s = "SNAPSHOT" => run.prev = "none"
      BY <1>2, EarlyIsNew
    <3>2. s = "SNAPSHOT" => Index(run.stage) < 2
      BY <1>2, StageNumbers DEF Following
    <3>3. QED  BY <1>3, <3>1, <3>2, StageNumbers
  <2>2. s # "INIT"
    BY <1>2, <1>3, StageNumbers DEF Following
  <2>3. QED  BY <1>0, <1>1, <1>2, <2>1, <2>2 DEF TagIsNew, Beginning
<1>9. QED  BY <1>0, <1>1, <1>6, <1>7, <1>8 DEF TypeInv, LocationTypes, AgentTypes, LocalIsHeld, SamePath

LEMMA SnapshotType == ASSUME TypeInv, NEW n \in Nodes, SnapshotNode(n) PROVE TypeInv'
<1> USE DEF location, agents, bounds
<1>0. RunTypes /\ AgentTypes /\ LocationTypes /\ TagsInTime /\ LocalIsHeld /\ TagIsNew
  BY DEF TypeInv
<1>1. UNCHANGED <<location, jobs, rows, purges, val, clock, completed, doomed, calls>>
  BY DEF SnapshotNode
<1>2. run \in RunState /\ run.stage = "SNAPSHOT" /\ n \in run.todo
  BY <1>0, RunIs, StageNumbers DEF SnapshotNode, At
<1>3. run.tag \in Tags /\ run.prev = "none" /\ Beginning
  BY <1>0, <1>2 DEF RunState, TagIsNew, Beginning
<1>4. PICK ts \in SUBSET (dirs[n] \ {run.tag}), s \in Snapshots[n], ok \in BOOLEAN :
        /\ dirs' = [dirs EXCEPT ![n] = (@ \ ts) \cup (IF ok THEN {run.tag} ELSE {})]
        /\ local' = [local EXCEPT ![n] = {f \in @ : f[1] \notin ts}
                       \cup (IF ok THEN {run.tag} \X DOMAIN s ELSE {})]
        /\ snap' = IF ok THEN [snap EXCEPT ![n][run.tag] = s] ELSE snap
        /\ lost' = lost \cup Unsent(n, ts)
        /\ IF ok THEN Ok(n) /\ ~run.stop /\ UNCHANGED events ELSE Err(n) /\ Fault
  BY DEF SnapshotNode
<1>5. /\ run' \in RunState /\ run'.task = run.task /\ run'.tag = run.tag /\ run'.prev = run.prev
      /\ run'.stage = run.stage /\ run'.todo = run.todo \ {n}
  BY <1>2, <1>4, NodeDone
<1>6. DOMAIN s \in SUBSET Names /\ \A x \in DOMAIN s : s[x] \in Contents
  <2>1. s \in UNION {[S -> Contents] : S \in SUBSET Names}
    BY BackupAssumption
  <2>2. PICK S \in SUBSET Names : s \in [S -> Contents]
    BY <2>1
  <2>3. QED  BY <2>2
<1>7. /\ local' \in [Nodes -> SUBSET (Tags \X Names)]
      /\ \A f \in local'[n] : f \in local[n] \/ (ok /\ f[1] = run.tag /\ f[2] \in DOMAIN s)
      /\ \A m \in Nodes : m # n => local'[m] = local[m]
  BY <1>0, <1>3, <1>4, <1>6 DEF AgentTypes
<1>8. AgentTypes'
  <2>1. dirs' \in [Nodes -> SUBSET Tags]
    BY <1>0, <1>3, <1>4 DEF AgentTypes
  <2>2. snap' = [m \in Nodes |-> [t \in Tags |-> snap'[m][t]]]
    BY <1>0, <1>3, <1>4 DEF AgentTypes
  <2>3. QED  BY <1>0, <1>1, <1>7, <2>1, <2>2 DEF AgentTypes
<1>9. RunTypes'
  <2>1. lost' \subseteq Tags
    BY <1>0, <1>4 DEF RunTypes, Unsent, AgentTypes
  <2>2. ~Idle
    BY <1>0, <1>2, RunIs, StageNumbers
  <2>3. Len(rows'[run'.task]) > 0
    BY <1>0, <1>1, <1>5, <2>2 DEF RunTypes
  <2>4. QED  BY <1>0, <1>1, <1>2, <1>5, <2>1, <2>3 DEF RunTypes
<1>10. TagsInTime'
  <2>1. run.tag <= clock
    BY <1>0, <1>2, RunIs, StageNumbers DEF TagsInTime
  <2>2. \A m \in Nodes : \A f \in local'[m] : f[1] <= clock
    BY <1>0, <1>7, <2>1 DEF TagsInTime
  <2>3. QED  BY <1>0, <1>1, <1>5, <2>1, <2>2 DEF TagsInTime
<1>11. TagIsNew'
  <2>1. \A m \in Nodes : m \in run'.todo => local'[m] = local[m] /\ m \in run.todo
    BY <1>5, <1>7
  <2>2. QED  BY <1>0, <1>1, <1>2, <1>3, <1>5, <2>1 DEF TagIsNew, Beginning
<1>12. LocalIsHeld'
  <2>1. \A f \in local[n] : f[1] # run.tag /\ f[1] \in Tags
    BY <1>0, <1>2, <1>3, BackupAssumption DEF TagIsNew, Tags, AgentTypes
  <2>2. /\ \A m \in Nodes : m # n => snap'[m] = snap[m]
        /\ \A t \in Tags : t # run.tag => snap'[n][t] = snap[n][t]
        /\ ok => snap'[n][run.tag] = s
    BY <1>0, <1>3, <1>4 DEF AgentTypes
  <2>3. ASSUME NEW m \in Nodes, NEW f \in local'[m]
        PROVE f[2] \in DOMAIN snap'[m][f[1]] /\ snap'[m][f[1]][f[2]] \in Contents
    <3>1. CASE m # n
      BY <1>0, <1>7, <2>2, <3>1 DEF LocalIsHeld
    <3>2. CASE m = n /\ f \in local[n]
      BY <1>0, <2>1, <2>2, <3>2 DEF LocalIsHeld
    <3>3. CASE m = n /\ f \notin local[n]
      BY <1>6, <1>7, <2>2, <3>3
    <3>4. QED  BY <3>1, <3>2, <3>3
  <2>4. QED  BY <2>3 DEF LocalIsHeld
<1>13. LocationTypes'
  BY <1>0, <1>1 DEF LocationTypes, SamePath
<1>14. QED  BY <1>8, <1>9, <1>10, <1>11, <1>12, <1>13 DEF TypeInv

(* What a manifest is after those of the run were renamed on a node. *)
LEMMA MovedFacts ==
  ASSUME LocationTypes, run \in RunState, NEW n \in Nodes, NEW from \in BOOLEAN, NEW to \in BOOLEAN, from # to,
         manifests' = Moved(n, from, to)
  PROVE  \A m \in manifests' :
           \/ /\ m \in manifests
              /\ m.node = n /\ m.task = run.task /\ m.tag = run.tag => manifests' = manifests
           \/ /\ m.node = n /\ m.task = run.task /\ m.tag = run.tag /\ m.temp = to /\ m \in ManifestType
              /\ \E o \in manifests : /\ o.node = n /\ o.task = run.task /\ o.tag = run.tag /\ o.temp = from
                                      /\ m = [o EXCEPT !.temp = to] /\ m.files = o.files /\ m.schema = o.schema
<1> SUFFICES ASSUME NEW m \in manifests'
             PROVE  \/ /\ m \in manifests
                       /\ m.node = n /\ m.task = run.task /\ m.tag = run.tag => manifests' = manifests
                    \/ /\ m.node = n /\ m.task = run.task /\ m.tag = run.tag /\ m.temp = to /\ m \in ManifestType
                       /\ \E o \in manifests : /\ o.node = n /\ o.task = run.task /\ o.tag = run.tag /\ o.temp = from
                                               /\ m = [o EXCEPT !.temp = to] /\ m.files = o.files /\ m.schema = o.schema
  OBVIOUS
<1>1. CASE Path(n, from) = {}
  BY <1>1 DEF Moved
<1>2. CASE Path(n, from) # {}
  <2>1. manifests' = (manifests \ (Path(n, from) \cup Path(n, to))) \cup {[o EXCEPT !.temp = to] : o \in Path(n, from)}
    BY <1>2 DEF Moved
  <2>2. \A o \in manifests, b \in BOOLEAN : o \in Path(n, b) <=> o.node = n /\ o.task = run.task /\ o.tag = run.tag /\ o.temp = b
    BY DEF Path, SamePath, Manifest
  <2>3. CASE m \in manifests \ (Path(n, from) \cup Path(n, to))
    <3>1. m \in ManifestType
      BY <2>3 DEF LocationTypes
    <3>2. m.temp = from \/ m.temp = to
      BY <3>1 DEF ManifestType
    <3>3. ~(m.node = n /\ m.task = run.task /\ m.tag = run.tag)
      BY <2>2, <2>3, <3>2
    <3>4. QED  BY <2>3, <3>3
  <2>4. CASE m \in {[o EXCEPT !.temp = to] : o \in Path(n, from)}
    <3>1. PICK o \in Path(n, from) : m = [o EXCEPT !.temp = to]
      BY <2>4
    <3>2. o \in manifests /\ o \in ManifestType
      BY DEF Path, LocationTypes
    <3>3. m \in ManifestType /\ m.temp = to /\ m.node = o.node /\ m.task = o.task /\ m.tag = o.tag /\ m.files = o.files
      BY <3>1, <3>2 DEF ManifestType
    <3>4. m.schema = o.schema
      BY <3>1, <3>2 DEF ManifestType
    <3>5. QED  BY <2>2, <3>1, <3>2, <3>3, <3>4
  <2>5. QED  BY <2>1, <2>3, <2>4
<1>3. QED  BY <1>1, <1>2

(* The steps that add a manifest or a schema, or rename manifests. *)
LEMMA ManifestsType ==
  ASSUME TypeInv, NEW n \in Nodes, ManifestNode(n) \/ Schema(n) \/ MoveManifestNode(n) \/ RollbackNode(n)
  PROVE  TypeInv'
<1> USE DEF location, agents, bounds
<1>0. RunTypes /\ AgentTypes /\ LocationTypes /\ TagsInTime /\ LocalIsHeld /\ TagIsNew
  BY DEF TypeInv
<1>1. UNCHANGED <<remote, agents, rows, purges, val, clock, completed, doomed, lost>>
  BY DEF ManifestNode, Schema, MoveManifestNode, RollbackNode
<1>2. run \in RunState /\ ~Idle
  BY <1>0, RunIs, StageNumbers DEF ManifestNode, Schema, MoveManifestNode, RollbackNode, At
<1>3. run.tag \in Tags /\ run.task \in Tasks
  BY <1>2 DEF RunState
<1>4. /\ run' \in RunState /\ run'.task = run.task /\ run'.tag = run.tag /\ run'.prev = run.prev
      /\ run'.stage = run.stage /\ run'.todo = run.todo \ {n}
  <2>1. Ok(n) \/ Err(n)
    BY DEF ManifestNode, Schema, MoveManifestNode, RollbackNode
  <2>2. QED  BY <1>2, <2>1, NodeDone
<1>5. run.stage # "INIT" /\ run.stage # "SNAPSHOT"
  BY DEF ManifestNode, Schema, MoveManifestNode, RollbackNode, At
<1>6. /\ manifests' \subseteq ManifestType /\ schemas' \subseteq Tags
      /\ \A a, b \in manifests' : SamePath(a, b) => a = b
      /\ \A m \in manifests' : m \in manifests \/ m.tag = run.tag
  <2>1. CASE UNCHANGED manifests
    BY <1>0, <1>3, <2>1 DEF LocationTypes, Schema, ManifestNode, MoveManifestNode, RollbackNode, SamePath
  <2>2. CASE ManifestNode(n)
    <3>1. PICK w \in ManifestType : w = Manifest(n, TRUE)
      BY <1>2 DEF Manifest, ManifestType, RunState
    <3>2. w.tag = run.tag
      BY <3>1 DEF Manifest
    <3>3. manifests' = {m \in manifests : ~SamePath(m, w)} \cup {w} /\ schemas' = schemas
      BY <2>2, <3>1 DEF ManifestNode
    <3>4. \A a, b \in manifests' : SamePath(a, b) => a = b
      BY <1>0, <3>3 DEF LocationTypes, SamePath
    <3>5. QED  BY <1>0, <3>2, <3>3, <3>4 DEF LocationTypes
  <2>3. CASE \E from, to \in BOOLEAN : from # to /\ manifests' = Moved(n, from, to) /\ schemas' = schemas
    <3>1. PICK from \in BOOLEAN, to \in BOOLEAN : from # to /\ manifests' = Moved(n, from, to) /\ schemas' = schemas
      BY <2>3
    <3>2. \A m \in manifests' :
           \/ /\ m \in manifests
              /\ m.node = n /\ m.task = run.task /\ m.tag = run.tag => manifests' = manifests
           \/ /\ m.node = n /\ m.task = run.task /\ m.tag = run.tag /\ m.temp = to /\ m \in ManifestType
              /\ \E o \in manifests : /\ o.node = n /\ o.task = run.task /\ o.tag = run.tag /\ o.temp = from
                                      /\ m = [o EXCEPT !.temp = to] /\ m.files = o.files /\ m.schema = o.schema
      BY <1>0, <1>2, <3>1, MovedFacts
    <3>3. ASSUME manifests' # manifests, NEW a \in manifests', NEW b \in manifests', SamePath(a, b) PROVE a = b
      <4>1. CASE a.node = n /\ a.task = run.task /\ a.tag = run.tag
        <5>1. PICK o \in manifests : /\ o.node = n /\ o.task = run.task /\ o.tag = run.tag /\ o.temp = from
                                     /\ a = [o EXCEPT !.temp = to]
          BY <3>2, <3>3, <4>1
        <5>2. PICK p \in manifests : /\ p.node = n /\ p.task = run.task /\ p.tag = run.tag /\ p.temp = from
                                     /\ b = [p EXCEPT !.temp = to]
          BY <3>2, <3>3, <4>1 DEF SamePath
        <5>3. o = p
          BY <1>0, <5>1, <5>2 DEF LocationTypes, SamePath
        <5>4. QED  BY <5>1, <5>2, <5>3
      <4>2. CASE ~(a.node = n /\ a.task = run.task /\ a.tag = run.tag)
        <5>1. a \in manifests /\ b \in manifests
          BY <3>2, <3>3, <4>2 DEF SamePath
        <5>2. QED  BY <1>0, <3>3, <5>1 DEF LocationTypes
      <4>3. QED  BY <4>1, <4>2
    <3>4. QED  BY <1>0, <3>1, <3>2, <3>3 DEF LocationTypes
  <2>4. QED
    <3>1. MoveManifestNode(n) => schemas' = schemas /\ (manifests' = Moved(n, TRUE, FALSE) \/ UNCHANGED manifests)
      BY DEF MoveManifestNode
    <3>2. RollbackNode(n) => schemas' = schemas /\ (manifests' = Moved(n, FALSE, TRUE) \/ UNCHANGED manifests)
      BY DEF RollbackNode
    <3>3. Schema(n) => UNCHANGED manifests
      BY DEF Schema
    <3>4. TRUE \in BOOLEAN /\ FALSE \in BOOLEAN /\ TRUE # FALSE
      OBVIOUS
    <3>5. QED  BY <2>1, <2>2, <2>3, <3>1, <3>2, <3>3, <3>4, Zenon
<1>7. LocationTypes'
  BY <1>0, <1>1, <1>6 DEF LocationTypes
<1>8. RunTypes'
  BY <1>0, <1>1, <1>2, <1>4 DEF RunTypes
<1>9. TagsInTime'
  BY <1>0, <1>1, <1>2, <1>4, <1>6 DEF TagsInTime
<1>10. TagIsNew'
  BY <1>4, <1>5 DEF TagIsNew, Beginning
<1>11. QED  BY <1>0, <1>1, <1>7, <1>8, <1>9, <1>10 DEF TypeInv, AgentTypes, LocalIsHeld

(* The steps of the agents' jobs, and the start of one. *)
LEMMA JobsType ==
  ASSUME TypeInv, NEW n \in Nodes,
         UploadNode(n) \/ \E t \in jobs[n], x \in Names : RenameFile(n, t, x) \/ MoveFile(n, t, x)
  PROVE  TypeInv'
<1> USE DEF location, agents, bounds
<1>0. RunTypes /\ AgentTypes /\ LocationTypes /\ TagsInTime /\ LocalIsHeld /\ TagIsNew
  BY DEF TypeInv
<1>1. CASE UploadNode(n)
  <2>1. run \in RunState /\ ~Idle /\ run.stage = "UPLOAD"
    BY <1>0, <1>1, RunIs, StageNumbers DEF UploadNode, At
  <2>2. run.tag \in Tags
    BY <2>1 DEF RunState
  <2>3. run' \in RunState /\ run'.task = run.task /\ run'.tag = run.tag /\ run'.stage = run.stage
    <3>1. CASE Ok(n)
      BY <2>1, <3>1, NodeDone
    <3>2. CASE ~Ok(n)
      <4>1. run' = [run EXCEPT !.wait = @ \cup {n}]
        BY <1>1, <3>2 DEF UploadNode
      <4>2. QED  BY <2>1, <4>1 DEF RunState
    <3>3. QED  BY <3>1, <3>2
  <2>4. jobs' \in [Nodes -> SUBSET Tags] /\ \A m \in Nodes : jobs'[m] \subseteq jobs[m] \cup {run.tag}
    <3>1. jobs' = jobs \/ jobs' = [jobs EXCEPT ![n] = @ \cup {run.tag}]
      BY <1>1 DEF UploadNode
    <3>2. jobs \in [Nodes -> SUBSET Tags]
      BY <1>0 DEF AgentTypes
    <3>3. QED  BY <2>2, <3>1, <3>2
  <2>5. UNCHANGED <<location, snap, local, dirs, rows, purges, clock, completed, doomed, lost>>
    BY <1>1 DEF UploadNode
  <2>6. RunTypes'
    BY <1>0, <2>1, <2>3, <2>5 DEF RunTypes
  <2>7. TagsInTime'
    BY <1>0, <2>1, <2>3, <2>4, <2>5 DEF TagsInTime
  <2>8. TagIsNew'
    BY <2>1, <2>3 DEF TagIsNew, Beginning
  <2>9. QED  BY <1>0, <2>4, <2>5, <2>6, <2>7, <2>8 DEF TypeInv, AgentTypes, LocalIsHeld, LocationTypes, SamePath
<1>2. ASSUME NEW t \in jobs[n], NEW x \in Names, RenameFile(n, t, x) PROVE TypeInv'
  <2>1. UNCHANGED <<manifests, schemas, agents, rows, run, purges, clock, completed, doomed, lost>>
    BY <1>2 DEF RenameFile
  <2>2. PICK f \in remote : f.node = n /\ f.name = x /\ f.ver = 0
          /\ remote' = {g \in remote : ~(g.node = n /\ g.name = x /\ g.ver \in {0, t})} \cup {[f EXCEPT !.ver = t]}
    BY <1>2 DEF RenameFile, Newest
  <2>3. t \in Tags /\ t \in 0 .. MaxTime /\ f \in FileType
    BY <1>0, BackupAssumption DEF AgentTypes, Tags, LocationTypes
  <2>4. PICK w \in FileType : w = [f EXCEPT !.ver = t] /\ w.node = n /\ w.name = x /\ w.ver = t
    <3>1. [f EXCEPT !.ver = t] \in FileType
      BY <2>3 DEF FileType
    <3>2. [f EXCEPT !.ver = t].node = f.node /\ [f EXCEPT !.ver = t].name = f.name /\ [f EXCEPT !.ver = t].ver = t
      BY <2>3 DEF FileType
    <3>3. QED  BY <2>2, <3>1, <3>2
  <2>5. remote' = {g \in remote : ~(g.node = n /\ g.name = x /\ g.ver \in {0, t})} \cup {w}
    BY <2>2, <2>4
  <2>6. remote' \subseteq FileType /\ \A a, b \in remote' : a.node = b.node /\ a.name = b.name /\ a.ver = b.ver => a = b
    <3>1. \A g \in remote' : g = w \/ (g \in remote /\ ~(g.node = n /\ g.name = x /\ g.ver = t))
      BY <2>5
    <3>2. \A a, b \in remote' : a.node = b.node /\ a.name = b.name /\ a.ver = b.ver => a = b
      BY <1>0, <2>4, <3>1 DEF LocationTypes
    <3>3. QED  BY <1>0, <2>4, <3>1, <3>2 DEF LocationTypes
  <2>7. TagsInTime'
    BY <1>0, <2>1, <2>4, <2>5 DEF TagsInTime, Idle
  <2>8. TagIsNew'
    BY <1>0, <2>1, <2>4, <2>5 DEF TagIsNew, Beginning
  <2>9. QED  BY <1>0, <2>1, <2>6, <2>7, <2>8 DEF TypeInv, RunTypes, AgentTypes, LocalIsHeld, LocationTypes, SamePath, Idle
<1>3. ASSUME NEW t \in jobs[n], NEW x \in Names, MoveFile(n, t, x) PROVE TypeInv'
  <2>1. UNCHANGED <<manifests, schemas, snap, dirs, jobs, rows, run, purges, clock, completed, doomed, lost>>
    BY <1>3 DEF MoveFile
  <2>2. <<t, x>> \in local[n] /\ \A f \in remote : f.node = n /\ f.name = x /\ f.ver = 0 => f.content = snap[n][t][x]
    BY <1>3 DEF MoveFile, Moving, Newest
  <2>3. snap[n][t][x] \in Contents
    BY <1>0, <2>2 DEF LocalIsHeld
  <2>4. PICK w \in FileType : w = [node |-> n, name |-> x, ver |-> 0, content |-> snap[n][t][x]]
    <3>1. 0 \in 0 .. MaxTime
      BY BackupAssumption
    <3>2. [node |-> n, name |-> x, ver |-> 0, content |-> snap[n][t][x]] \in FileType
      BY <2>3, <3>1 DEF FileType
    <3>3. QED  BY <3>2
  <2>5. remote' = remote \cup {w} /\ local' = [local EXCEPT ![n] = @ \ {<<t, x>>}]
    BY <1>3, <2>4 DEF MoveFile
  <2>6. \A f \in remote : f.node = w.node /\ f.name = w.name /\ f.ver = w.ver => f = w
    BY <1>0, <2>2, <2>4 DEF LocationTypes, FileType
  <2>7. remote' \subseteq FileType /\ \A a, b \in remote' : a.node = b.node /\ a.name = b.name /\ a.ver = b.ver => a = b
    BY <1>0, <2>5, <2>6 DEF LocationTypes
  <2>8. local' \in [Nodes -> SUBSET (Tags \X Names)] /\ \A m \in Nodes : local'[m] \subseteq local[m]
    BY <1>0, <2>5 DEF AgentTypes
  <2>9. w.ver = 0 /\ clock >= 0
    BY <1>0, <2>4 DEF RunTypes
  <2>10. TagsInTime'
    BY <1>0, <2>1, <2>5, <2>8, <2>9 DEF TagsInTime, Idle
  <2>11. TagIsNew'
    <3>1. Beginning => 0 < run.tag
      <4>1. Beginning => run \in RunState
        BY <1>0, RunIs, StageNumbers DEF Beginning
      <4>2. QED  BY <4>1, BackupAssumption DEF RunState, Tags
    <3>2. QED  BY <1>0, <2>1, <2>5, <2>8, <2>9, <3>1 DEF TagIsNew, Beginning
  <2>12. QED  BY <1>0, <2>1, <2>7, <2>8, <2>10, <2>11 DEF TypeInv, RunTypes, AgentTypes, LocalIsHeld, LocationTypes, SamePath, Idle
<1>4. QED  BY <1>1, <1>2, <1>3

LEMMA TickType == ASSUME TypeInv, Tick PROVE TypeInv'
<1> USE DEF location, agents, bounds
<1>0. RunTypes /\ AgentTypes /\ LocationTypes /\ TagsInTime /\ LocalIsHeld /\ TagIsNew
  BY DEF TypeInv
<1>1. UNCHANGED <<location, agents, rows, run, purges, completed, doomed, lost>> /\ clock' = clock + 1 /\ clock < MaxTime /\ Idle
  BY DEF Tick
<1>2. clock \in Nat /\ clock' \in 0 .. MaxTime
  BY <1>0, <1>1, BackupAssumption DEF RunTypes
<1>3. \A k \in Tasks : \A i \in DOMAIN rows[k] : rows[k][i].tag \in Nat
  <2>1. ASSUME NEW k \in Tasks, NEW i \in DOMAIN rows[k] PROVE rows[k][i].tag \in Nat
    <3>1. rows[k] \in Seq(RowState)
      BY <1>0 DEF RunTypes
    <3>2. rows[k][i] \in RowState
      BY <3>1, ElementOfSeq, LenProperties
    <3>3. QED  BY <3>2, BackupAssumption DEF RowState, Tags
  <2>2. QED  BY <2>1
<1>4. \A k \in Tasks : \A i \in DOMAIN rows[k] : rows[k][i].tag <= clock'
  BY <1>0, <1>1, <1>2, <1>3 DEF TagsInTime
<1>5. /\ \A n \in Nodes : \A t \in jobs[n] : t <= clock'
      /\ \A n \in Nodes : \A f \in local[n] : f[1] <= clock'
      /\ \A f \in remote : f.ver <= clock'
      /\ \A m \in manifests : m.tag <= clock'
  BY <1>0, <1>1, <1>2, BackupAssumption DEF TagsInTime, AgentTypes, LocationTypes, FileType, ManifestType, Tags
<1>6. TagsInTime'
  BY <1>1, <1>4, <1>5 DEF TagsInTime, Idle
<1>7. QED  BY <1>0, <1>1, <1>2, <1>6 DEF TypeInv, RunTypes, AgentTypes, LocalIsHeld, LocationTypes, SamePath, TagIsNew, Beginning, Idle

LEMMA TypeInit == ASSUME Init PROVE TypeInv
<1> USE DEF Init
<1>1. LocationTypes
  BY DEF LocationTypes
<1>2. AgentTypes
  BY DEF AgentTypes, NoFiles
<1>3. RunTypes
  <2>1. rows \in [Tasks -> Seq(RowState)]
    BY EmptySeq
  <2>2. clock \in 0 .. MaxTime
    BY BackupAssumption
  <2>3. Idle /\ purges["run"] = NoPurge
    BY DEF Idle, NoRun
  <2>4. QED  BY <2>1, <2>2, <2>3 DEF RunTypes
<1>4. TagsInTime
  <2>1. \A k \in Tasks : DOMAIN rows[k] = {}
    OBVIOUS
  <2>2. Idle
    BY DEF Idle, NoRun
  <2>3. QED  BY <2>1, <2>2 DEF TagsInTime, NoFiles
<1>5. TagIsNew
  BY DEF TagIsNew, Beginning, NoRun
<1>6. LocalIsHeld
  BY DEF LocalIsHeld, NoFiles
<1>7. QED  BY <1>1, <1>2, <1>3, <1>4, <1>5, <1>6 DEF TypeInv

LEMMA TypeStep == ASSUME TypeInv, [Next]_vars PROVE TypeInv'
<1>1. CASE UNCHANGED vars
  BY <1>1 DEF vars, location, agents, bounds, TypeInv, LocationTypes, AgentTypes, RunTypes, TagsInTime, TagIsNew, Beginning,
              LocalIsHeld, Idle, SamePath
<1>2. ASSUME NEW k \in Tasks, Start(k) PROVE TypeInv'
  BY <1>2, StartType
<1>3. CASE NextStage
  BY <1>3, NextStageType
<1>4. CASE RollbackMoveManifest \/ End \/ Interrupt \/ Crash
  <2>1. PICK n \in Nodes : TRUE
    BY BackupAssumption
  <2>2. QED  BY <1>4, <2>1, QuietRun, ShrinkType
<1>5. ASSUME NEW n \in Nodes, Worker(n) PROVE TypeInv'
  <2>1. CASE \/ NodeFails(n) \/ AwaitSchema(n) \/ IndexNode(n) \/ DeduplicateNode(n) \/ UploadDone(n) \/ UploadFails(n)
    BY <2>1, QuietRun, ShrinkType
  <2>2. CASE SnapshotNode(n)
    BY <2>2, SnapshotType
  <2>3. CASE ManifestNode(n) \/ Schema(n) \/ MoveManifestNode(n) \/ RollbackNode(n)
    BY <2>3, ManifestsType
  <2>4. CASE UploadNode(n)
    BY <2>4, JobsType
  <2>5. QED  BY <1>5, <2>1, <2>2, <2>3, <2>4 DEF Worker
<1>6. ASSUME NEW n \in Nodes, Agent(n) PROVE TypeInv'
  <2>1. CASE (\E t \in jobs[n] : JobEnds(n, t)) \/ AgentRestart(n)
    BY <2>1, QuietOther, ShrinkType
  <2>2. CASE \E t \in jobs[n], x \in Names : RenameFile(n, t, x) \/ MoveFile(n, t, x)
    BY <2>2, JobsType
  <2>3. QED  BY <1>6, <2>1, <2>2 DEF Agent
<1>7. ASSUME NEW n \in Nodes, ValidateStart(n) \/ DeleteLocalSnapshots(n) PROVE TypeInv'
  BY <1>7, QuietOther, ShrinkType
<1>8. CASE Purging
  <2>1. PICK c \in {"run", "delete"}, g \in {Nodes} \cup {{n} : n \in Nodes} : PurgeFiles(c, g) \/ PurgeManifests(c, g)
    BY <1>8 DEF Purging
  <2>2. QED  BY <2>1, PurgeStep, ShrinkType
<1>9. CASE PurgeDecide \/ DeleteSnapshot \/ DeleteEnds \/ ValidateRead \/ ValidateScan \/ ValidateDelete
  BY <1>9, QuietOther, ShrinkType
<1>10. CASE Tick
  BY <1>10, TickType
<1>11. QED  BY <1>1, <1>2, <1>3, <1>4, <1>5, <1>6, <1>7, <1>8, <1>9, <1>10 DEF Next

(* What the location, the nodes, the rows and the run are at all times, and that the tag of a new run is new. *)
THEOREM TypeInvCorrect == Spec => []TypeInv
  BY TypeInit, TypeStep, PTL DEF Spec

(* At all times the location, the nodes, the rows and the history are what they are meant to be: among others, no two files *)
(* of a location have the same path and suffix, and no two manifests the same path, whatever was renamed and moved.          *)
THEOREM TypeCorrect == Spec => []TypeOK
<1>1. TypeInv => TypeOK
  BY DEF TypeInv, TypeOK, LocationTypes, AgentTypes, RunTypes, RowState
<1>2. QED  BY <1>1, TypeInvCorrect, PTL

-----------------------------------------------------------------------------
(* A tag is of one task: the manifests that have it are of one retention. *)
TagsOfTasks ==
  /\ \A k, l \in Tasks : \A i \in DOMAIN rows[k], j \in DOMAIN rows[l] : rows[k][i].tag = rows[l][j].tag => k = l
  /\ \A m \in manifests : \E i \in DOMAIN rows[m.task] : rows[m.task][i].tag = m.tag
  /\ ~Idle => \E i \in DOMAIN rows[run.task] : rows[run.task][i].tag = run.tag

LEMMA TagsOfTasksKept ==
  ASSUME TypeInv, TagsOfTasks, rows' = rows,
         \/ run' = run \/ run' = NoRun
         \/ ~Idle /\ run'.task = run.task /\ run'.tag = run.tag,
         \A m \in manifests' : m \in manifests \/ (~Idle /\ m.task = run.task /\ m.tag = run.tag)
  PROVE  TagsOfTasks'
<1>1. ~Idle' => \E i \in DOMAIN rows[run'.task] : rows[run'.task][i].tag = run'.tag
  <2>1. CASE run' = NoRun
    BY <2>1 DEF Idle, NoRun
  <2>2. CASE run' # NoRun
    BY <2>2 DEF TagsOfTasks, Idle
  <2>3. QED  BY <2>1, <2>2
<1>2. \A m \in manifests' : \E i \in DOMAIN rows[m.task] : rows[m.task][i].tag = m.tag
  BY DEF TagsOfTasks
<1>3. QED  BY <1>1, <1>2 DEF TagsOfTasks

LEMMA ShrinkTags == ASSUME TypeInv, TagsOfTasks, Shrinks PROVE TagsOfTasks'
<1>1. run' = run \/ run' = NoRun \/ (~Idle /\ run'.task = run.task /\ run'.tag = run.tag)
  <2>1. run \in RunState => ~Idle
    BY StageNumbers DEF RunState, Idle
  <2>2. QED  BY <2>1 DEF Shrinks, RunStays
<1>2. QED  BY <1>1, TagsOfTasksKept DEF Shrinks

LEMMA TagsOfTasksStep == ASSUME TypeInv, TagsOfTasks, [Next]_vars PROVE TagsOfTasks'
<1> USE DEF location, agents, bounds
<1>0. RunTypes /\ AgentTypes /\ LocationTypes /\ TagsInTime /\ rows \in [Tasks -> Seq(RowState)]
  BY DEF TypeInv, RunTypes
<1>1. CASE UNCHANGED vars
  BY <1>1, TagsOfTasksKept DEF vars
<1>2. ASSUME NEW k \in Tasks, Start(k) PROVE TagsOfTasks'
  <2>1. PICK tag \in Tags, prev \in Resumable \cup {"none"}, only \in BOOLEAN, stage \in Stages :
           /\ run' = NewRun(k, tag, prev, only)
           /\ rows' = [rows EXCEPT ![k] = Append(rows[k], [tag |-> tag, stage |-> stage])]
           /\ tag = clock + 1 \/ \E i \in 1 .. Len(rows[k]) : rows[k][i].tag = tag
    <3>1. PICK tag \in Tags, prev \in Resumable \cup {"none"}, only \in BOOLEAN, stage \in Stages :
             /\ run' = NewRun(k, tag, prev, only)
             /\ rows' = [rows EXCEPT ![k] = Append(rows[k], [tag |-> tag, stage |-> stage])]
             /\ \/ /\ prev = "none" /\ stage = "INIT" /\ clock' = clock + 1 /\ tag = clock + 1
                \/ /\ prev # "none" /\ stage = prev /\ clock' = clock
                   /\ \E i \in 1 .. Len(rows[k]) :
                        /\ rows[k][i].tag = tag /\ rows[k][i].stage = prev
                        /\ \A j \in i .. Len(rows[k]) : rows[k][j].stage # "DONE"
                        /\ \A j \in (i + 1) .. Len(rows[k]) : rows[k][j].stage \notin Resumable
      BY <1>2, StartFacts
    <3>2. QED  BY <3>1
  <2>2. [tag |-> tag, stage |-> stage] \in RowState /\ [tag |-> tag, stage |-> stage].tag = tag
    BY DEF RowState
  <2>3. /\ Len(rows[k]) \in Nat /\ DOMAIN rows[k] = 1 .. Len(rows[k]) /\ DOMAIN rows'[k] = 1 .. (Len(rows[k]) + 1)
        /\ \A i \in 1 .. Len(rows[k]) : rows'[k][i] = rows[k][i]
        /\ rows'[k][Len(rows[k]) + 1] = [tag |-> tag, stage |-> stage]
        /\ \A x \in Tasks : x # k => rows'[x] = rows[x]
    BY <1>0, <2>1, <2>2, RowAdded
  <2>4. run'.task = k /\ run'.tag = tag
    BY <2>1, NewRunFacts
  <2>5. ASSUME NEW l \in Tasks, l # k, NEW j \in DOMAIN rows[l] PROVE rows[l][j].tag # tag
    <3>1. rows[l][j].tag <= clock /\ clock \in Nat
      BY <1>0, BackupAssumption DEF TagsInTime, RunTypes
    <3>2. rows[l][j].tag \in Nat
      <4>1. rows[l][j] \in RowState
        BY <1>0, ElementOfSeq, LenProperties
      <4>2. QED  BY <4>1, BackupAssumption DEF RowState, Tags
    <3>3. CASE tag = clock + 1
      BY <3>1, <3>2, <3>3
    <3>4. CASE \E i \in 1 .. Len(rows[k]) : rows[k][i].tag = tag
      BY <2>3, <2>5, <3>4 DEF TagsOfTasks
    <3>5. QED  BY <2>1, <3>3, <3>4
  <2>6. \A x, l \in Tasks : \A i \in DOMAIN rows'[x], j \in DOMAIN rows'[l] : rows'[x][i].tag = rows'[l][j].tag => x = l
    <3>1. SUFFICES ASSUME NEW x \in Tasks, NEW l \in Tasks, NEW i \in DOMAIN rows'[x], NEW j \in DOMAIN rows'[l],
                          rows'[x][i].tag = rows'[l][j].tag, x # l
                   PROVE  FALSE
      OBVIOUS
    <3>2. CASE x # k /\ l # k
      BY <2>3, <3>1, <3>2 DEF TagsOfTasks
    <3>3. CASE x = k
      <4>1. rows'[l] = rows[l]
        BY <2>3, <3>1, <3>3
      <4>2. i \in 1 .. Len(rows[k]) \/ i = Len(rows[k]) + 1
        BY <2>3, <3>3
      <4>3. CASE i \in 1 .. Len(rows[k])
        BY <2>3, <3>1, <3>3, <4>1, <4>3 DEF TagsOfTasks
      <4>4. CASE i = Len(rows[k]) + 1
        BY <2>2, <2>3, <2>5, <3>1, <3>3, <4>1, <4>4
      <4>5. QED  BY <4>2, <4>3, <4>4
    <3>4. CASE l = k
      <4>1. rows'[x] = rows[x]
        BY <2>3, <3>1, <3>4
      <4>2. j \in 1 .. Len(rows[k]) \/ j = Len(rows[k]) + 1
        BY <2>3, <3>4
      <4>3. CASE j \in 1 .. Len(rows[k])
        BY <2>3, <3>1, <3>4, <4>1, <4>3 DEF TagsOfTasks
      <4>4. CASE j = Len(rows[k]) + 1
        BY <2>2, <2>3, <2>5, <3>1, <3>4, <4>1, <4>4
      <4>5. QED  BY <4>2, <4>3, <4>4
    <3>5. QED  BY <3>2, <3>3, <3>4
  <2>7. \A m \in manifests' : \E i \in DOMAIN rows'[m.task] : rows'[m.task][i].tag = m.tag
    <3>1. SUFFICES ASSUME NEW m \in manifests PROVE \E i \in DOMAIN rows'[m.task] : rows'[m.task][i].tag = m.tag
      BY <1>2 DEF Start
    <3>2. m.task \in Tasks
      BY <1>0 DEF LocationTypes, ManifestType
    <3>3. PICK i \in DOMAIN rows[m.task] : rows[m.task][i].tag = m.tag
      BY DEF TagsOfTasks
    <3>4. i \in DOMAIN rows'[m.task] /\ rows'[m.task][i] = rows[m.task][i]
      BY <2>3, <3>2, <3>3
    <3>5. QED  BY <3>3, <3>4
  <2>8. Len(rows[k]) + 1 \in DOMAIN rows'[run'.task] /\ rows'[run'.task][Len(rows[k]) + 1].tag = run'.tag
    BY <2>2, <2>3, <2>4
  <2>9. QED  BY <2>6, <2>7, <2>8 DEF TagsOfTasks
<1>3. CASE NextStage
  <2>1. PICK s \in Stages :
           /\ run \in RunState /\ run' \in RunState /\ run'.task = run.task /\ run'.tag = run.tag
           /\ rows' = [rows EXCEPT ![run.task][Len(rows[run.task])].stage = s]
    BY <1>3, NextStageFacts
  <2>2. PICK k \in Tasks : k = run.task
    BY <2>1 DEF RunState
  <2>3. Len(rows[k]) > 0
    BY <1>0, <1>3, <2>2 DEF RunTypes, NextStage
  <2>4. /\ Len(rows[k]) \in Nat \ {0} /\ DOMAIN rows[k] = 1 .. Len(rows[k]) /\ DOMAIN rows'[k] = 1 .. Len(rows[k])
        /\ \A i \in 1 .. (Len(rows[k]) - 1) : rows'[k][i] = rows[k][i]
        /\ rows'[k][Len(rows[k])].tag = rows[k][Len(rows[k])].tag
        /\ \A x \in Tasks : x # k => rows'[x] = rows[x]
    BY <1>0, <2>1, <2>2, <2>3, StageSet
  <2>5. \A x \in Tasks : DOMAIN rows'[x] = DOMAIN rows[x] /\ \A i \in DOMAIN rows[x] : rows'[x][i].tag = rows[x][i].tag
    <3>1. SUFFICES ASSUME NEW x \in Tasks
                   PROVE  DOMAIN rows'[x] = DOMAIN rows[x] /\ \A i \in DOMAIN rows[x] : rows'[x][i].tag = rows[x][i].tag
      OBVIOUS
    <3>2. CASE x = k
      <4>1. \A i \in 1 .. Len(rows[k]) : i = Len(rows[k]) \/ i \in 1 .. (Len(rows[k]) - 1)
        BY <2>4
      <4>2. QED  BY <2>4, <3>2, <4>1
    <3>3. CASE x # k
      BY <2>4, <3>3
    <3>4. QED  BY <3>2, <3>3
  <2>6. \A m \in manifests : m.task \in Tasks
    BY <1>0 DEF LocationTypes, ManifestType
  <2>7. manifests' = manifests /\ ~Idle
    BY <1>3 DEF NextStage
  <2>8. QED  BY <2>1, <2>2, <2>5, <2>6, <2>7 DEF TagsOfTasks
<1>4. CASE RollbackMoveManifest \/ End \/ Interrupt \/ Crash
  <2>1. PICK n \in Nodes : TRUE
    BY BackupAssumption
  <2>2. QED  BY <1>4, <2>1, QuietRun, ShrinkTags
<1>5. ASSUME NEW n \in Nodes, Worker(n) PROVE TagsOfTasks'
  <2>1. CASE \/ NodeFails(n) \/ AwaitSchema(n) \/ IndexNode(n) \/ DeduplicateNode(n) \/ UploadDone(n) \/ UploadFails(n)
    BY <2>1, QuietRun, ShrinkTags
  <2>2. CASE SnapshotNode(n) \/ ManifestNode(n) \/ Schema(n) \/ MoveManifestNode(n) \/ RollbackNode(n)
    <3>1. run \in RunState /\ ~Idle
      BY <1>0, <2>2, RunIs, StageNumbers DEF SnapshotNode, ManifestNode, Schema, MoveManifestNode, RollbackNode, At
    <3>2. run'.task = run.task /\ run'.tag = run.tag /\ rows' = rows
      <4>1. (Ok(n) \/ Err(n)) /\ rows' = rows
        BY <2>2 DEF SnapshotNode, ManifestNode, Schema, MoveManifestNode, RollbackNode
      <4>2. QED  BY <3>1, <4>1, NodeDone
    <3>3. \A m \in manifests' : m \in manifests \/ (m.task = run.task /\ m.tag = run.tag)
      <4>1. CASE SnapshotNode(n) \/ Schema(n)
        BY <4>1 DEF SnapshotNode, Schema
      <4>2. CASE ManifestNode(n)
        <5>1. Manifest(n, TRUE).task = run.task /\ Manifest(n, TRUE).tag = run.tag
          BY DEF Manifest
        <5>2. QED  BY <4>2, <5>1 DEF ManifestNode
      <4>3. CASE MoveManifestNode(n)
        <5>1. manifests' = Moved(n, TRUE, FALSE) \/ manifests' = manifests
          BY <4>3 DEF MoveManifestNode
        <5>2. CASE manifests' = Moved(n, TRUE, FALSE)
          <6>1. \A m \in manifests' : m \in manifests \/ (m.task = run.task /\ m.tag = run.tag)
            BY <1>0, <3>1, <5>2, MovedFacts
          <6>2. QED  BY <6>1
        <5>3. QED  BY <5>1, <5>2
      <4>4. CASE RollbackNode(n)
        <5>1. manifests' = Moved(n, FALSE, TRUE) \/ manifests' = manifests
          BY <4>4 DEF RollbackNode
        <5>2. CASE manifests' = Moved(n, FALSE, TRUE)
          <6>1. \A m \in manifests' : m \in manifests \/ (m.task = run.task /\ m.tag = run.tag)
            BY <1>0, <3>1, <5>2, MovedFacts
          <6>2. QED  BY <6>1
        <5>3. QED  BY <5>1, <5>2
      <4>5. QED  BY <2>2, <4>1, <4>2, <4>3, <4>4
    <3>4. QED  BY <3>1, <3>2, <3>3, TagsOfTasksKept
  <2>3. CASE UploadNode(n)
    <3>1. run \in RunState /\ ~Idle
      BY <1>0, <2>3, RunIs, StageNumbers DEF UploadNode, At
    <3>2. run'.task = run.task /\ run'.tag = run.tag
      BY <2>3, <3>1, NodeDone DEF UploadNode, RunState
    <3>3. QED  BY <2>3, <3>1, <3>2, TagsOfTasksKept DEF UploadNode
  <2>4. QED  BY <1>5, <2>1, <2>2, <2>3 DEF Worker
<1>6. ASSUME NEW n \in Nodes, Agent(n) PROVE TagsOfTasks'
  <2>1. CASE (\E t \in jobs[n] : JobEnds(n, t)) \/ AgentRestart(n)
    BY <2>1, QuietOther, ShrinkTags
  <2>2. CASE \E t \in jobs[n], x \in Names : RenameFile(n, t, x) \/ MoveFile(n, t, x)
    BY <2>2, TagsOfTasksKept DEF RenameFile, MoveFile
  <2>3. QED  BY <1>6, <2>1, <2>2 DEF Agent
<1>7. ASSUME NEW n \in Nodes, ValidateStart(n) \/ DeleteLocalSnapshots(n) PROVE TagsOfTasks'
  BY <1>7, QuietOther, ShrinkTags
<1>8. CASE Purging
  <2>1. PICK c \in {"run", "delete"}, g \in {Nodes} \cup {{n} : n \in Nodes} : PurgeFiles(c, g) \/ PurgeManifests(c, g)
    BY <1>8 DEF Purging
  <2>2. QED  BY <2>1, PurgeStep, ShrinkTags
<1>9. CASE PurgeDecide \/ DeleteSnapshot \/ DeleteEnds \/ ValidateRead \/ ValidateScan \/ ValidateDelete
  BY <1>9, QuietOther, ShrinkTags
<1>10. CASE Tick
  BY <1>10, TagsOfTasksKept DEF Tick
<1>11. QED  BY <1>1, <1>2, <1>3, <1>4, <1>5, <1>6, <1>7, <1>8, <1>9, <1>10 DEF Next

(* A run that purges decides by the age of a backup, or by as many later ones as are to be kept. *)
LEMMA PurgeKeepsRetention ==
  ASSUME TypeInv, TagsOfTasks, NEW ms, ms = FilterShadowedTemporaryManifests(manifests),
         NEW t \in StaleTags(ms, Retention, clock), NEW m \in manifests, m.tag = t
  PROVE  LET p == Retention[m.task]
             later == {o \in manifests : o.task = m.task /\ ~o.temp /\ o.tag > t}
         IN \/ p.days > 0 /\ t < clock - p.days
            \/ p.retention > 0 /\ Cardinality(TagsOf(later)) >= p.retention
            \/ \E o \in manifests : o.tag = t /\ o.temp
<1> DEFINE Old(x) == Retention[x.task].days > 0 /\ x.tag < clock - Retention[x.task].days
           counted == {x \in ms : ~x.temp /\ ~Old(x) /\ Retention[x.task].retention > 0}
           After(x) == {o \in counted : o.task = x.task /\ o.tag > x.tag}
           later == {o \in manifests : o.task = m.task /\ ~o.temp /\ o.tag > t}
<1>1. ms \subseteq manifests /\ manifests \subseteq ManifestType
  BY FilterIsSubset DEF TypeInv, LocationTypes
<1>2. PICK x \in ms : x.tag = t /\ (x.temp \/ Old(x) \/ (x \in counted /\ Cardinality(TagsOf(After(x))) >= Retention[x.task].retention))
  BY DEF StaleTags, TagsOf
<1>3. x.task = m.task
  <2>1. x \in manifests /\ x.task \in Tasks /\ m.task \in Tasks
    BY <1>1 DEF ManifestType
  <2>2. QED  BY <1>2, <2>1 DEF TagsOfTasks
<1>4. CASE x.temp
  BY <1>1, <1>2, <1>4
<1>5. CASE Old(x)
  BY <1>2, <1>3, <1>5
<1>6. CASE x \in counted /\ Cardinality(TagsOf(After(x))) >= Retention[x.task].retention
  <2>1. TagsOf(After(x)) \subseteq TagsOf(later)
    BY <1>1, <1>2, <1>3 DEF TagsOf
  <2>2. IsFiniteSet(TagsOf(later))
    <3>1. TagsOf(later) \subseteq Tags
      BY <1>1, TagsOfTypes
    <3>2. IsFiniteSet(Tags)
      BY FS_Interval, BackupAssumption DEF Tags
    <3>3. QED  BY <3>1, <3>2, FS_Subset
  <2>3. Cardinality(TagsOf(After(x))) <= Cardinality(TagsOf(later))
    BY <2>1, <2>2, FS_Subset
  <2>4. IsFiniteSet(TagsOf(After(x)))
    BY <2>1, <2>2, FS_Subset
  <2>5. Cardinality(TagsOf(After(x))) \in Nat /\ Cardinality(TagsOf(later)) \in Nat
    BY <2>2, <2>4, FS_CardinalityType
  <2>6. Retention[m.task].retention \in Nat
    <3>1. m.task \in Tasks
      BY <1>1 DEF ManifestType
    <3>2. QED  BY <3>1, BackupAssumption
  <2>7. Cardinality(TagsOf(later)) >= Retention[m.task].retention /\ Retention[m.task].retention > 0
    BY <1>3, <1>6, <2>3, <2>5, <2>6
  <2>8. QED  BY <2>7
<1>7. QED  BY <1>2, <1>4, <1>5, <1>6

(* Tags are doomed by a run that purges, or by DeleteSnapshot, which there is then. *)
LEMMA Dooming ==
  ASSUME TypeInv, [Next]_vars, doomed' # doomed, purges["delete"]' = purges["delete"]
  PROVE  PurgeDecide
<1>1. ~ UNCHANGED doomed
  OBVIOUS
<1>2. ASSUME NEW n \in Nodes, Worker(n) PROVE UNCHANGED doomed
  BY <1>2 DEF Worker, SnapshotNode, AwaitSchema, IndexNode, ManifestNode, Schema, DeduplicateNode, UploadNode, UploadDone,
              UploadFails, MoveManifestNode, RollbackNode, NodeFails
<1>3. ASSUME NEW n \in Nodes, Agent(n) PROVE UNCHANGED doomed
  BY <1>3 DEF Agent, JobEnds, RenameFile, MoveFile, AgentRestart
<1>4. Purging => UNCHANGED doomed
  BY DEF Purging, PurgeFiles, PurgeManifests
<1>5. ~DeleteSnapshot
  <2>1. SUFFICES ASSUME DeleteSnapshot PROVE FALSE
    OBVIOUS
  <2>2. purges["delete"] = NoPurge
    BY <2>1 DEF DeleteSnapshot, InCall, Calls
  <2>3. PICK tag \in TagsOf(manifests) :
          purges' = [purges EXCEPT !["delete"] = Decision(FilterShadowedTemporaryManifests(manifests), {tag}, {Nodes})]
    BY <2>1 DEF DeleteSnapshot
  <2>4. purges'["delete"] = Decision(FilterShadowedTemporaryManifests(manifests), {tag}, {Nodes})
    BY <2>3 DEF TypeInv, RunTypes
  <2>5. purges'["delete"].state = "purging"
    BY <2>4 DEF Decision
  <2>6. QED  BY <2>2, <2>5 DEF NoPurge
<1>6. ~ UNCHANGED vars
  BY <1>1 DEF vars
<1>7. ASSUME NEW n \in Nodes, ValidateStart(n) \/ DeleteLocalSnapshots(n) PROVE UNCHANGED doomed
  BY <1>7 DEF ValidateStart, DeleteLocalSnapshots
<1>8. ASSUME NEW k \in Tasks, Start(k) PROVE UNCHANGED doomed
  BY <1>8 DEF Start
<1>9. NextStage \/ End \/ RollbackMoveManifest \/ DeleteEnds \/ ValidateRead \/ ValidateScan \/ ValidateDelete
        \/ Interrupt \/ Crash \/ Tick => UNCHANGED doomed
  BY DEF NextStage, End, RollbackMoveManifest, DeleteEnds, ValidateRead, ValidateScan, ValidateDelete, Interrupt, Crash, Tick
<1>10. QED  BY <1>1, <1>2, <1>3, <1>4, <1>5, <1>6, <1>7, <1>8, <1>9 DEF Next

(* Retention: a run that purges decides to remove a completed backup of a task only when it is older than the task's retention  *)
(* days, when as many later backups of the task are listed as it is to keep, or when a manifest of it is temporary again.       *)
THEOREM RetentionKeptCorrect == Spec => RetentionKept
<1>1. Init => TypeInv /\ TagsOfTasks
  <2>1. ASSUME Init PROVE TagsOfTasks
    <3>1. Idle /\ manifests = {} /\ \A k \in Tasks : DOMAIN rows[k] = {}
      BY <2>1 DEF Init, Idle, NoRun
    <3>2. QED  BY <3>1 DEF TagsOfTasks
  <2>2. QED  BY <2>1, TypeInit
<1>2. TypeInv /\ TagsOfTasks /\ [Next]_vars => TypeInv' /\ TagsOfTasks'
  BY TypeStep, TagsOfTasksStep
<1>3. ASSUME TypeInv, TagsOfTasks, [Next]_vars, NEW t \in (completed \cap doomed') \ doomed,
             purges["delete"]' = purges["delete"], NEW m \in manifests, m.tag = t
      PROVE  LET p == Retention[m.task]
                 later == {o \in manifests : o.task = m.task /\ ~o.temp /\ o.tag > t}
             IN \/ p.days > 0 /\ t < clock - p.days
                \/ p.retention > 0 /\ Cardinality(TagsOf(later)) >= p.retention
                \/ \E o \in manifests : o.tag = t /\ o.temp
  <2>1. PurgeDecide
    BY <1>3, Dooming
  <2>2. t \in StaleTags(FilterShadowedTemporaryManifests(manifests), Retention, clock)
    <3>1. doomed' = doomed \cup StaleTags(FilterShadowedTemporaryManifests(manifests), Retention, clock)
      BY <2>1 DEF PurgeDecide
    <3>2. QED  BY <3>1
  <2>3. QED  BY <1>3, <2>2, PurgeKeepsRetention
<1>4. TypeInv /\ TagsOfTasks /\ [Next]_vars =>
  [\A t \in (completed \cap doomed') \ doomed : purges["delete"]' = purges["delete"] =>
       \A m \in manifests : m.tag = t =>
         LET p == Retention[m.task]
             later == {o \in manifests : o.task = m.task /\ ~o.temp /\ o.tag > t}
         IN \/ p.days > 0 /\ t < clock - p.days
            \/ p.retention > 0 /\ Cardinality(TagsOf(later)) >= p.retention
            \/ \E o \in manifests : o.tag = t /\ o.temp]_vars
  BY <1>3
<1>5. QED  BY <1>1, <1>2, <1>4, PTL DEF Spec, RetentionKept
=============================================================================
