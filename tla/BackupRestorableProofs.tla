----------------------- MODULE BackupRestorableProofs -----------------------
(***************************************************************************)
(* What the location lists can be restored, for any nodes, tasks and       *)
(* files, and any number of runs that stop, fail or crash and are          *)
(* continued: if deletion of a snapshot and validation do not overlap a    *)
(* backup.                                                                 *)
(*                                                                         *)
(* The invariant has one part per thing the code relies on without saying  *)
(* so: which row a run continues (ControlInv), that one snapshot is left   *)
(* on a node (LeftInv), that the index has what is left (UploadInv), that  *)
(* a path has one manifest (ManifestInv), what a purge and a validation    *)
(* know (CallsInv), the schema (SchemaInv), and where each file is that a  *)
(* manifest lists (FilesInv).                                              *)
(*                                                                         *)
(* Then, that without faults no file is left that no manifest lists: with  *)
(* the parts of QuietInv, which hold until the first fault.                *)
(***************************************************************************)
EXTENDS BackupProofs

(* The rows and the run.  A tag whose manifests may have been moved is not continued from before. *)
Late == {"MOVE_MANIFEST", "RETENTION_LOCK", "MIGRATE", "PURGE", "DONE"}
LastRow(k) == rows[k][Len(rows[k])]
RowsLate ==
  \A k \in Tasks : \A i \in DOMAIN rows[k] : rows[k][i].stage \in Late =>
    \A j \in i .. Len(rows[k]) : rows[k][j].tag = rows[k][i].tag => rows[k][j].stage \in Late

(* The last row of its task is the run's, and the only one with the tag of a new run. *)
RowOfRun ==
  ~Idle =>
    /\ LastRow(run.task).tag = run.tag
    /\ run.stage # "INIT" => LastRow(run.task).stage = run.stage
    /\ run.stage = "INIT" => LastRow(run.task).stage = IF run.prev = "none" THEN "INIT" ELSE run.prev
    /\ run.prev = "none" => \A i \in 1 .. (Len(rows[run.task]) - 1) : rows[run.task][i].tag # run.tag

(* The stage is not one to skip, and only a new run has the schema. *)
NotSkipped == ~Idle /\ run.stage # "INIT" => ~Skipped(run.stage)
SchemaIsNew == ~Idle /\ run.schema => run.prev = "none"

ControlInv == RowsLate /\ RowOfRun /\ NotSkipped /\ SchemaIsNew

(* The files of one snapshot are left on a node; no later one came to the location; a file that was replaced by the *)
(* snapshot's own is not back.                                                                                       *)
OneSnapshotLeft ==
  \A n \in Nodes : \A f \in local[n] :
    /\ f[1] \in dirs[n]
    /\ \A g \in local[n] : g[1] = f[1]
    /\ \A r \in remote : r.node = n => r.ver <= f[1]
    /\ \A r, s \in remote : r.node = n /\ r.name = f[2] /\ r.ver = f[1] => ~(s.node = n /\ s.name = f[2] /\ s.ver = 0)

(* The snapshot that is left on a node is the last one of which there is a manifest, or that may be continued. *)
Middle == {"AWAIT_SCHEMA", "INDEX", "MANIFEST", "SCHEMA", "DEDUPLICATE", "UPLOAD", "MOVE_MANIFEST"}
NoneLater(files, t) == \A f \in files : t <= f[1]
Snapped(n) == \/ run.stage \in Middle \/ run.prev \in Middle
              \/ (run.stage = "SNAPSHOT" /\ n \notin run.todo /\ ~run.err)
LastIsLeft ==
  /\ \A m \in manifests : NoneLater(local[m.node], m.tag)
  /\ \A k \in Tasks : \A i \in DOMAIN rows[k] : rows[k][i].stage \in Middle => \A n \in Nodes : NoneLater(local[n], rows[k][i].tag)
  /\ ~Idle => \A n \in Nodes : Snapped(n) => NoneLater(local[n], run.tag)

LeftInv == OneSnapshotLeft /\ LastIsLeft

(* The part of a node in a stage, and the stages, are over. *)
After(stages, stage, n) == run.stage \in stages \/ (run.stage = stage /\ n \notin run.todo /\ ~run.err)
(* The run is in one of the stages, or continues one that was. *)
Reached(stages) == ~Idle /\ (run.stage \in stages \/ run.prev \in stages)

(* The files of a snapshot among those on a node. *)
Remains(files, t) == {x \in Names : <<t, x>> \in files}

(* The index has what is left; nothing is left after the upload. *)
IndexInv ==
  ~Idle => \A n \in Nodes :
    /\ run.stage \in {"INIT", "SNAPSHOT", "AWAIT_SCHEMA"} => run.index[n] = {}
    /\ After({"MANIFEST", "SCHEMA", "DEDUPLICATE", "UPLOAD"}, "INDEX", n) => Remains(local[n], run.tag) \subseteq run.index[n]
    /\ After({}, "UPLOAD", n) => Remains(local[n], run.tag) = {}
NothingLeft ==
  /\ Reached({"MOVE_MANIFEST"}) => \A n \in Nodes : Remains(local[n], run.tag) = {}
  /\ \A k \in Tasks : \A i \in DOMAIN rows[k] : rows[k][i].stage = "MOVE_MANIFEST" => \A n \in Nodes : Remains(local[n], rows[k][i].tag) = {}
  /\ \A m \in manifests : ~m.temp => Remains(local[m.node], m.tag) = {}

UploadInv == IndexInv /\ NothingLeft

(* A path has its regular or its temporary manifest; a regular one is of a run that got to moving it. *)
NotShadowed ==
  \A a, b \in manifests : a.node = b.node /\ a.task = b.task /\ a.tag = b.tag => a = b
RegularIsLate ==
  \A m \in manifests : ~m.temp => \E i \in DOMAIN rows[m.task] : rows[m.task][i].tag = m.tag /\ rows[m.task][i].stage \in Late

ManifestInv == NotShadowed /\ RegularIsLate

(* A purge has all manifests in its list but those that are to go. *)
PurgeState ==
  [state : {"purging"}, list : SUBSET ManifestType, tags : SUBSET Tags, oldest : Nat,
   groups : SUBSET (SUBSET Nodes), meta : SUBSET (SUBSET Nodes)]
PurgeOk(p) ==
  /\ p \in PurgeState /\ p.tags \subseteq doomed
  /\ \A m \in manifests : m.tag \notin doomed =>
       (\E l \in p.list : SamePath(m, l)) /\ (p.oldest # 0 => p.oldest <= m.tag)
PurgeInv ==
  \A c \in {"run", "delete"} : purges[c] # NoPurge => PurgeOk(purges[c]) /\ (c = "delete" => Idle)

(* A validation knows the files of all manifests. *)
ValidateState ==
  [state : {"read", "scan", "delete"}, node : Nodes, list : SUBSET ManifestType, files : SUBSET Names,
   fresh : SUBSET Names, orphans : SUBSET Names]
ValidateOk(v) ==
  /\ v \in ValidateState
  /\ v.state = "read" => \A m \in manifests : m.node = v.node => \E l \in v.list : SamePath(m, l)
  /\ v.state \in {"scan", "delete"} => \A m \in manifests : m.node = v.node => m.files \subseteq v.files
  /\ v.state = "delete" => v.orphans \cap v.files = {}
ValidateInv == val # NoValidation => ValidateOk(val) /\ Idle

CallsInv == PurgeInv /\ ValidateInv

(* From deduplication on the schema is there that a manifest names. *)
SchemaThere(ms, there, k, t) == \A m \in ms : m.task = k /\ m.tag = t /\ m.schema => t \in there
WithSchema == {"DEDUPLICATE", "UPLOAD", "MOVE_MANIFEST"}
SchemaInv ==
  /\ Reached(WithSchema) => SchemaThere(manifests, schemas \cup doomed, run.task, run.tag)
  /\ \A k \in Tasks : \A i \in DOMAIN rows[k] : rows[k][i].stage \in WithSchema =>
       SchemaThere(manifests, schemas \cup doomed, k, rows[k][i].tag)
  /\ run.stage = "SCHEMA" /\ run.todo = {} /\ ~run.err => (run.schema => run.tag \in schemas \cup doomed)
  /\ ~Idle => \A n \in Nodes : After({"SCHEMA"}, "MANIFEST", n) =>
                \A m \in manifests : m.node = n /\ m.task = run.task /\ m.tag = run.tag => m.schema = run.schema
  /\ \A m \in manifests : ~m.temp /\ m.schema => m.tag \in schemas \cup doomed

(* A lookup of file x for snapshot t takes w, and finds content c. *)
Takes(files, w, n, x, t) ==
  /\ w.node = n /\ w.name = x
  /\ \/ w.ver = 0 /\ \A g \in files : g.node = n /\ g.name = x => g.ver <= t
     \/ w.ver > t /\ \A g \in files : g.node = n /\ g.name = x /\ g.ver > t => w.ver <= g.ver
Found(files, n, x, t, c) == \E w \in files : Takes(files, w, n, x, t) /\ w.content = c

(* A file of a snapshot is on the node, or is found. *)
Held(left, files, held, n, t, x) ==
  /\ x \in DOMAIN held
  /\ <<t, x>> \in left \/ Found(files, n, x, t, held[x])

FilesInv ==
  /\ \A m \in manifests : m.tag \notin doomed \cup lost =>
       \A x \in m.files : Held(local[m.node], remote, snap[m.node][m.tag], m.node, m.tag, x)
  /\ run.stage \in {"INDEX", "MANIFEST"} /\ run.tag \notin doomed \cup lost =>
       \A n \in Nodes : \A x \in run.index[n] : Held(local[n], remote, snap[n][run.tag], n, run.tag, x)

SafeInv ==
  TypeInv /\ TagsOfTasks /\ ControlInv /\ LeftInv /\ UploadInv /\ ManifestInv /\ CallsInv /\ SchemaInv /\ FilesInv

-----------------------------------------------------------------------------
(* What a step does to the run. *)

(* The part of a node is over, without an error. *)
PartDone(n) ==
  /\ run.stage = "SNAPSHOT" => SnapshotNode(n)
  /\ run.stage = "INDEX" => IndexNode(n) /\ run'.index[n] = Remains(local[n], run.tag)
  /\ run.stage = "MANIFEST" => ManifestNode(n)
  /\ run.stage = "SCHEMA" => Schema(n)
  /\ run.stage = "UPLOAD" => Remains(local[n], run.tag) = {} \/ run.index[n] = {}
SameStage ==
  /\ run \in RunState /\ run' \in RunState
  /\ run'.task = run.task /\ run'.tag = run.tag /\ run'.prev = run.prev /\ run'.only = run.only /\ run'.stage = run.stage
  /\ run.stage = "AWAIT_SCHEMA" \/ run'.schema = run.schema
  /\ run'.index = run.index \/ run.stage = "INDEX"
  /\ \A n \in Nodes : run'.index[n] = run.index[n] \/ run'.index[n] = Remains(local[n], run.tag)
  /\ run.err => run'.err
  /\ \A n \in run.todo \ run'.todo : ~run'.err => PartDone(n)
RunGoesOn == rows' = rows /\ (run' = run \/ run' = NoRun \/ SameStage)

LEMMA SameStageByNode ==
  ASSUME run \in RunState, NEW n \in Nodes, Err(n) \/ (Ok(n) /\ PartDone(n))
  PROVE  SameStage
<1>1. /\ run' \in RunState /\ run'.todo = run.todo \ {n}
      /\ run'.task = run.task /\ run'.tag = run.tag /\ run'.prev = run.prev /\ run'.stage = run.stage
      /\ run'.index = run.index
  BY NodeDone
<1>2. run'.only = run.only /\ run'.schema = run.schema
  BY NodeDone
<1>3. (Err(n) => run'.err = TRUE) /\ (Ok(n) => run'.err = run.err)
  BY NodeDone, Zenon
<1>4. run.err => run'.err
  BY <1>3, Zenon
<1>5. ~run'.err => PartDone(n)
  BY <1>3, Zenon
<1>6. \A x \in run.todo \ run'.todo : ~run'.err => PartDone(x)
  <2>1. SUFFICES ASSUME NEW x \in run.todo \ run'.todo, ~run'.err PROVE PartDone(x)
    BY Zenon
  <2>2. x = n
    BY <1>1
  <2>3. QED  BY <1>5, <2>1, <2>2, Zenon
<1>7. QED  BY <1>1, <1>2, <1>4, <1>6 DEF SameStage

(* The part of a node in a stage. *)
LEMMA WorkerEffect ==
  ASSUME TypeInv, NEW n \in Nodes, Worker(n) PROVE RunGoesOn /\ SameStage
<1>1. CASE NodeFails(n)
  <2>1. run \in RunState /\ Err(n) /\ rows' = rows
    BY <1>1, RunIs, StageNumbers DEF NodeFails, At, NodeStages, HostStages, TypeInv
  <2>2. QED  BY <2>1, SameStageByNode DEF RunGoesOn
<1>2. CASE SnapshotNode(n)
  <2>1. run \in RunState /\ rows' = rows /\ run.stage = "SNAPSHOT"
    BY <1>2, RunIs, StageNumbers DEF SnapshotNode, At, TypeInv
  <2>2. Ok(n) \/ Err(n)
    BY <1>2 DEF SnapshotNode
  <2>3. PartDone(n)
    BY <1>2, <2>1 DEF PartDone
  <2>4. QED  BY <2>1, <2>2, <2>3, SameStageByNode DEF RunGoesOn
<1>3. CASE AwaitSchema(n)
  <2>1. run \in RunState /\ rows' = rows /\ run.stage = "AWAIT_SCHEMA" /\ run' = [run EXCEPT !.todo = {}, !.schema = TRUE]
    BY <1>3, RunIs, StageNumbers DEF AwaitSchema, At, TypeInv
  <2>2. /\ run' \in RunState /\ run'.task = run.task /\ run'.tag = run.tag /\ run'.prev = run.prev
        /\ run'.stage = run.stage /\ run'.index = run.index
    BY <2>1 DEF RunState
  <2>3. run'.only = run.only /\ run'.err = run.err
    BY <2>1 DEF RunState
  <2>4. run.err => run'.err
    BY <2>3, Zenon
  <2>5. QED  BY <2>1, <2>2, <2>3, <2>4 DEF SameStage, RunGoesOn, PartDone
<1>4. CASE IndexNode(n)
  <2>1. run \in RunState /\ rows' = rows /\ run.stage = "INDEX"
    BY <1>4, RunIs, StageNumbers DEF IndexNode, At, TypeInv
  <2>2. PICK v \in SUBSET Names : v = Remains(local[n], run.tag)
    BY DEF Remains
  <2>3. PICK e \in BOOLEAN : e = (run.err \/ ~(run.tag \in dirs[n] \/ run.prev = "UPLOAD"))
    OBVIOUS
  <2>4. run' = [run EXCEPT !.todo = @ \ {n}, !.err = e, !.index[n] = v]
    BY <1>4, <2>2, <2>3 DEF IndexNode, Left, Remains
  <2>5. /\ run' \in RunState /\ run'.task = run.task /\ run'.tag = run.tag /\ run'.prev = run.prev
        /\ run'.stage = run.stage /\ run'.todo = run.todo \ {n}
        /\ run'.index = [run.index EXCEPT ![n] = v]
    BY <2>1, <2>4 DEF RunState
  <2>6. run'.only = run.only /\ run'.schema = run.schema /\ run'.err = e
    BY <2>1, <2>4 DEF RunState
  <2>7. run.err => run'.err
    BY <2>3, <2>6, Zenon
  <2>8. run.index \in [Nodes -> SUBSET Names]
    BY <2>1 DEF RunState
  <2>9. \A m \in Nodes : run'.index[m] = IF m = n THEN Remains(local[n], run.tag) ELSE run.index[m]
    BY <2>2, <2>5, <2>8
  <2>10. \A m \in run.todo \ run'.todo : ~run'.err => PartDone(m)
    <3>1. SUFFICES ASSUME NEW m \in run.todo \ run'.todo PROVE PartDone(m)
      BY Zenon
    <3>2. m = n
      BY <2>5
    <3>3. QED  BY <1>4, <2>1, <2>9, <3>2 DEF PartDone
  <2>11. QED  BY <2>1, <2>5, <2>6, <2>7, <2>9, <2>10 DEF SameStage, RunGoesOn
<1>5. CASE ManifestNode(n)
  <2>1. run \in RunState /\ rows' = rows /\ run.stage = "MANIFEST"
    BY <1>5, RunIs, StageNumbers DEF ManifestNode, At, TypeInv
  <2>2. Ok(n) \/ Err(n)
    BY <1>5 DEF ManifestNode
  <2>3. PartDone(n)
    BY <1>5, <2>1 DEF PartDone
  <2>4. QED  BY <2>1, <2>2, <2>3, SameStageByNode DEF RunGoesOn
<1>6. CASE Schema(n)
  <2>1. run \in RunState /\ rows' = rows /\ run.stage = "SCHEMA" /\ Ok(n)
    BY <1>6, RunIs, StageNumbers DEF Schema, At, TypeInv
  <2>2. PartDone(n)
    BY <1>6, <2>1 DEF PartDone
  <2>3. QED  BY <2>1, <2>2, SameStageByNode DEF RunGoesOn
<1>7. CASE DeduplicateNode(n)
  <2>1. run \in RunState /\ rows' = rows /\ run.stage = "DEDUPLICATE"
    BY <1>7, RunIs, StageNumbers DEF DeduplicateNode, At, TypeInv
  <2>2. Ok(n) \/ Err(n)
    BY <1>7 DEF DeduplicateNode
  <2>3. PartDone(n)
    BY <2>1 DEF PartDone
  <2>4. QED  BY <2>1, <2>2, <2>3, SameStageByNode DEF RunGoesOn
<1>8. CASE UploadNode(n)
  <2>1. run \in RunState /\ rows' = rows /\ run.stage = "UPLOAD"
    BY <1>8, RunIs, StageNumbers DEF UploadNode, At, TypeInv
  <2>2. CASE run.index[n] = {}
    <3>1. Ok(n)
      BY <1>8, <2>2 DEF UploadNode
    <3>2. PartDone(n)
      BY <2>1, <2>2 DEF PartDone
    <3>3. QED  BY <2>1, <3>1, <3>2, SameStageByNode DEF RunGoesOn
  <2>3. CASE run.index[n] # {}
    <3>1. run' = [run EXCEPT !.wait = @ \cup {n}]
      BY <1>8, <2>3 DEF UploadNode
    <3>2. /\ run' \in RunState /\ run'.task = run.task /\ run'.tag = run.tag /\ run'.prev = run.prev
          /\ run'.stage = run.stage /\ run'.index = run.index /\ run'.todo = run.todo
      BY <2>1, <3>1 DEF RunState
    <3>3. run'.only = run.only /\ run'.err = run.err /\ run'.schema = run.schema
      BY <2>1, <3>1 DEF RunState
    <3>4. run.err => run'.err
      BY <3>3, Zenon
    <3>5. QED  BY <2>1, <3>2, <3>3, <3>4 DEF SameStage, RunGoesOn
  <2>4. QED  BY <2>2, <2>3
<1>9. CASE UploadDone(n)
  <2>1. run \in RunState /\ rows' = rows /\ run.stage = "UPLOAD" /\ Remains(local[n], run.tag) = {}
    BY <1>9, RunIs, StageNumbers DEF UploadDone, At, TypeInv, Left, Remains
  <2>2. Ok(n) \/ Err(n)
    BY <1>9 DEF UploadDone
  <2>3. PartDone(n)
    BY <2>1 DEF PartDone
  <2>4. QED  BY <2>1, <2>2, <2>3, SameStageByNode DEF RunGoesOn
<1>10. CASE UploadFails(n)
  <2>1. run \in RunState /\ Err(n) /\ rows' = rows
    BY <1>10, RunIs, StageNumbers DEF UploadFails, At, TypeInv
  <2>2. QED  BY <2>1, SameStageByNode DEF RunGoesOn
<1>11. CASE MoveManifestNode(n) \/ RollbackNode(n)
  <2>1. run \in RunState /\ rows' = rows /\ run.stage = "MOVE_MANIFEST"
    BY <1>11, RunIs, StageNumbers DEF MoveManifestNode, RollbackNode, At, TypeInv
  <2>2. Ok(n) \/ Err(n)
    BY <1>11 DEF MoveManifestNode, RollbackNode
  <2>3. PartDone(n)
    BY <2>1 DEF PartDone
  <2>4. QED  BY <2>1, <2>2, <2>3, SameStageByNode DEF RunGoesOn
<1>12. QED  BY <1>1, <1>2, <1>3, <1>4, <1>5, <1>6, <1>7, <1>8, <1>9, <1>10, <1>11 DEF Worker

LEMMA PurgingEffect ==
  ASSUME TypeInv, Purging PROVE RunGoesOn
<1>1. PICK c \in {"run", "delete"}, g \in {Nodes} \cup {{n} : n \in Nodes} : PurgeFiles(c, g) \/ PurgeManifests(c, g)
  BY DEF Purging
<1>2. rows' = rows
  BY <1>1 DEF PurgeFiles, PurgeManifests
<1>3. CASE c = "delete"
  <2>1. CASE PurgeFiles(c, g)
    <3>1. run' = run
      BY <1>3, <2>1 DEF PurgeFiles
    <3>2. QED  BY <1>2, <3>1 DEF RunGoesOn
  <2>2. CASE PurgeManifests(c, g)
    BY <1>2, <1>3, <2>2 DEF PurgeManifests, RunGoesOn
  <2>3. QED  BY <1>1, <2>1, <2>2
<1>4. CASE c = "run"
  <2>1. run.stage = "PURGE" /\ run \in RunState
    BY <1>1, <1>4, RunIs, StageNumbers DEF PurgeFiles, PurgeManifests, TypeInv, RunTypes
  <2>2. run' = run \/ run' = [run EXCEPT !.todo = @ \ g, !.err = TRUE] \/ run' = [run EXCEPT !.todo = @ \ g]
    <3>1. CASE PurgeFiles(c, g)
      BY <1>4, <3>1 DEF PurgeFiles
    <3>2. CASE PurgeManifests(c, g)
      BY <1>4, <3>2 DEF PurgeManifests
    <3>3. QED  BY <1>1, <3>1, <3>2
  <2>3. CASE run' = run
    BY <1>2, <2>3 DEF RunGoesOn
  <2>4. CASE run' = [run EXCEPT !.todo = @ \ g, !.err = TRUE]
    <3>1. /\ run' \in RunState /\ run'.task = run.task /\ run'.tag = run.tag /\ run'.prev = run.prev
          /\ run'.stage = run.stage /\ run'.index = run.index
      BY <2>1, <2>4 DEF RunState
    <3>2. run'.only = run.only /\ run'.err = TRUE /\ run'.schema = run.schema
      BY <2>1, <2>4 DEF RunState
    <3>3. QED  BY <1>2, <2>1, <3>1, <3>2 DEF SameStage, RunGoesOn, PartDone
  <2>5. CASE run' = [run EXCEPT !.todo = @ \ g]
    <3>1. /\ run' \in RunState /\ run'.task = run.task /\ run'.tag = run.tag /\ run'.prev = run.prev
          /\ run'.stage = run.stage /\ run'.index = run.index
      BY <2>1, <2>5 DEF RunState
    <3>2. run'.only = run.only /\ run'.err = run.err /\ run'.schema = run.schema
      BY <2>1, <2>5 DEF RunState
    <3>3. run.err => run'.err
      BY <3>2, Zenon
    <3>4. QED  BY <1>2, <2>1, <3>1, <3>2, <3>3 DEF SameStage, RunGoesOn, PartDone
  <2>6. QED  BY <2>2, <2>3, <2>4, <2>5
<1>5. QED  BY <1>1, <1>3, <1>4

(* A step that leaves the rows alone, and the run in its stage, or ends it. *)
LEMMA RunEffect ==
  ASSUME TypeInv, [Next]_vars
  PROVE  RunGoesOn \/ NextStage \/ \E k \in Tasks : Start(k)
<1>1. CASE \E n \in Nodes : Worker(n)
  BY <1>1, WorkerEffect
<1>2. CASE Purging
  BY <1>2, PurgingEffect
<1>3. CASE RollbackMoveManifest
  <2>1. run \in RunState /\ rows' = rows /\ run.todo = {} /\ run' = [run EXCEPT !.rollback = TRUE, !.todo = Nodes]
    BY <1>3, RunIs, StageNumbers DEF RollbackMoveManifest, TypeInv
  <2>2. /\ run' \in RunState /\ run'.task = run.task /\ run'.tag = run.tag /\ run'.prev = run.prev
        /\ run'.stage = run.stage /\ run'.index = run.index
    BY <2>1 DEF RunState
  <2>3. run'.only = run.only /\ run'.err = run.err /\ run'.schema = run.schema
    BY <2>1 DEF RunState
  <2>4. run.err => run'.err
    BY <2>3, Zenon
  <2>5. QED  BY <2>1, <2>2, <2>3, <2>4 DEF SameStage, RunGoesOn
<1>4. CASE Interrupt
  <2>1. run \in RunState /\ rows' = rows /\ run' = [run EXCEPT !.stop = TRUE]
    BY <1>4, RunIs DEF Interrupt, TypeInv
  <2>2. /\ run' \in RunState /\ run'.task = run.task /\ run'.tag = run.tag /\ run'.prev = run.prev
        /\ run'.stage = run.stage /\ run'.index = run.index /\ run'.todo = run.todo
    BY <2>1 DEF RunState
  <2>3. run'.only = run.only /\ run'.err = run.err /\ run'.schema = run.schema
    BY <2>1 DEF RunState
  <2>4. run.err => run'.err
    BY <2>3, Zenon
  <2>5. QED  BY <2>1, <2>2, <2>3, <2>4 DEF SameStage, RunGoesOn
<1>5. CASE \E n \in Nodes : Agent(n)
  <2>1. PICK n \in Nodes : Agent(n)
    BY <1>5
  <2>2. CASE AgentRestart(n) /\ ~Idle
    <3>1. run \in RunState /\ rows' = rows /\ run' = [run EXCEPT !.wait = @ \ {n}]
      BY <2>2, RunIs DEF AgentRestart, TypeInv
    <3>2. /\ run' \in RunState /\ run'.task = run.task /\ run'.tag = run.tag /\ run'.prev = run.prev
          /\ run'.stage = run.stage /\ run'.index = run.index /\ run'.todo = run.todo
      BY <3>1 DEF RunState
    <3>3. run'.only = run.only /\ run'.err = run.err /\ run'.schema = run.schema
      BY <3>1 DEF RunState
    <3>4. run.err => run'.err
      BY <3>3, Zenon
    <3>5. QED  BY <3>1, <3>2, <3>3, <3>4 DEF SameStage, RunGoesOn
  <2>3. CASE ~(AgentRestart(n) /\ ~Idle)
    BY <2>1, <2>3 DEF Agent, JobEnds, RenameFile, MoveFile, AgentRestart, RunGoesOn
  <2>4. QED  BY <2>2, <2>3
<1>6. CASE \/ End \/ PurgeDecide \/ DeleteSnapshot \/ DeleteEnds \/ ValidateRead \/ ValidateScan \/ ValidateDelete \/ Crash \/ Tick
           \/ (\E n \in Nodes : ValidateStart(n) \/ DeleteLocalSnapshots(n)) \/ UNCHANGED vars
  BY <1>6 DEF End, PurgeDecide, DeleteSnapshot, DeleteEnds, ValidateRead, ValidateScan, ValidateDelete, Crash, Tick, ValidateStart,
              DeleteLocalSnapshots, vars, RunGoesOn
<1>7. QED  BY <1>1, <1>2, <1>3, <1>4, <1>5, <1>6 DEF Next

(* Which stages may follow one another. *)
NextOf(s) ==
  /\ s \in Middle => run.stage = "SNAPSHOT" \/ run.stage \in Middle \/ run.prev \in Middle
  /\ s = "INDEX" => run.stage \in {"INIT", "SNAPSHOT", "AWAIT_SCHEMA"}
  /\ s = "MANIFEST" => run.stage = "INDEX"
  /\ s = "SCHEMA" => run.stage = "MANIFEST"
  /\ s = "DEDUPLICATE" => run.stage = "SCHEMA" \/ run.prev = "DEDUPLICATE"
  /\ s = "UPLOAD" => run.stage = "DEDUPLICATE" \/ run.prev = "UPLOAD"
  /\ s = "MOVE_MANIFEST" => run.stage = "UPLOAD" \/ run.prev = "MOVE_MANIFEST"
  /\ s \in {"DEDUPLICATE", "UPLOAD"} => run.stage \in {"INDEX", "SCHEMA", "DEDUPLICATE"}
  /\ s \in {"SNAPSHOT", "AWAIT_SCHEMA"} => run.stage \in {"INIT", "SNAPSHOT"}
  /\ s = "SNAPSHOT" => run.stage = "INIT"
  /\ run.stage \in Late \/ (run.stage = "INIT" /\ run.prev \in Late) => s \in Late
  /\ s # "INIT"

LEMMA NextOrder ==
  ASSUME run \in RunState, NotSkipped, NEW s, s \in Following, \A y \in Following : Index(s) <= Index(y)
  PROVE  NextOf(s)
<1>1. run.stage \in Stages /\ run.prev \in Resumable \cup {"none"} /\ ~Idle
  BY StageNumbers DEF RunState, Idle
<1>2. s \in Stages /\ Index(s) > Index(run.stage) /\ ~Skipped(s)
  BY DEF Following
<1>3. \A y \in Stages : Index(y) > Index(run.stage) /\ ~Skipped(y) => Index(s) <= Index(y)
  BY DEF Following
<1>4. run.stage # "INIT" => ~Skipped(run.stage)
  BY <1>1 DEF NotSkipped
<1> DEFINE From(y) == Index(y) > Index(run.stage) /\ ~Skipped(y) => Index(s) <= Index(y)
<1>5. /\ From("SNAPSHOT") /\ From("AWAIT_SCHEMA") /\ From("INDEX") /\ From("MANIFEST") /\ From("SCHEMA")
      /\ From("DEDUPLICATE") /\ From("UPLOAD") /\ From("MOVE_MANIFEST")
  BY <1>3, StageNumbers
<1>6. s \in Middle => run.stage = "SNAPSHOT" \/ run.stage \in Middle \/ run.prev \in Middle
  BY <1>1, <1>2, <1>4, <1>5, StageNumbers DEF Skipped, Middle, Resumable, AllowReindex
<1>7. s = "INDEX" => run.stage \in {"INIT", "SNAPSHOT", "AWAIT_SCHEMA"}
  BY <1>1, <1>2, StageNumbers
<1>8. (s = "MANIFEST" => run.stage = "INDEX") /\ (s = "SCHEMA" => run.stage = "MANIFEST")
  BY <1>1, <1>2, <1>4, <1>5, StageNumbers DEF Skipped, Resumable, AllowReindex
<1>9. /\ s = "DEDUPLICATE" => run.stage = "SCHEMA" \/ run.prev = "DEDUPLICATE"
      /\ s = "UPLOAD" => run.stage = "DEDUPLICATE" \/ run.prev = "UPLOAD"
      /\ s = "MOVE_MANIFEST" => run.stage = "UPLOAD" \/ run.prev = "MOVE_MANIFEST"
  BY <1>1, <1>2, <1>4, <1>5, StageNumbers DEF Skipped, Resumable, AllowReindex
<1>10. s \in {"DEDUPLICATE", "UPLOAD"} => run.stage \in {"INDEX", "SCHEMA", "DEDUPLICATE"}
  BY <1>1, <1>2, <1>4, <1>5, StageNumbers DEF Skipped, Resumable, AllowReindex
<1>11. /\ s \in {"SNAPSHOT", "AWAIT_SCHEMA"} => run.stage \in {"INIT", "SNAPSHOT"}
       /\ s = "SNAPSHOT" => run.stage = "INIT"
       /\ s # "INIT"
  BY <1>1, <1>2, StageNumbers
<1>12. run.stage \in Late \/ (run.stage = "INIT" /\ run.prev \in Late) => s \in Late
  BY <1>1, <1>2, StageNumbers DEF Late, Skipped, AllowReindex, Resumable
<1>13. QED  BY <1>6, <1>7, <1>8, <1>9, <1>10, <1>11, <1>12 DEF NextOf

(* A new stage, and what it does to the row. *)
Advances(s, k) ==
  /\ NextOf(s) /\ s \in Following
  /\ run \in RunState /\ run' \in RunState /\ ~Idle /\ ~Idle' /\ run'.stage = s
  /\ s \in NodeStages => run'.todo = Nodes
  /\ s \in HostStages => run'.todo # {}
  /\ run.todo = {} /\ ~run.err
  /\ k = run.task /\ run'.task = k /\ run'.tag = run.tag /\ run'.prev = run.prev /\ run'.only = run.only
  /\ run'.schema = run.schema /\ run'.index = run.index
  /\ rows' \in [Tasks -> Seq(RowState)]
  /\ Len(rows[k]) \in Nat \ {0} /\ DOMAIN rows[k] = 1 .. Len(rows[k])
  /\ Len(rows'[k]) = Len(rows[k]) /\ DOMAIN rows'[k] = 1 .. Len(rows[k])
  /\ \A i \in 1 .. (Len(rows[k]) - 1) : rows'[k][i] = rows[k][i]
  /\ rows'[k][Len(rows[k])].stage = s /\ rows'[k][Len(rows[k])].tag = rows[k][Len(rows[k])].tag
  /\ \A x \in Tasks : x # k => rows'[x] = rows[x]

LEMMA StageFacts ==
  ASSUME TypeInv, NotSkipped, NextStage
  PROVE  \E s \in Stages, k \in Tasks : Advances(s, k)
<1>1. PICK s \in Stages :
           /\ s \in Following /\ \A y \in Following : Index(s) <= Index(y)
           /\ run \in RunState /\ run' \in RunState /\ run'.stage = s /\ run'.todo \subseteq Nodes
           /\ s \in NodeStages => run'.todo = Nodes
           /\ s \in HostStages => run'.todo # {}
           /\ run'.task = run.task /\ run'.tag = run.tag /\ run'.prev = run.prev /\ run'.only = run.only
           /\ run'.wait = run.wait /\ run'.err = run.err /\ run'.stop = run.stop /\ run'.rollback = run.rollback
           /\ run'.schema = run.schema /\ run'.index = run.index
           /\ rows' = [rows EXCEPT ![run.task][Len(rows[run.task])].stage = s]
  BY NextStageFacts
<1>2. run.todo = {} /\ ~run.err /\ ~Idle
  BY DEF NextStage
<1>3. PICK k \in Tasks : k = run.task
  BY <1>1 DEF RunState
<1>4. Len(rows[k]) > 0 /\ rows \in [Tasks -> Seq(RowState)]
  BY <1>2, <1>3 DEF TypeInv, RunTypes
<1>5. rows' = [rows EXCEPT ![k][Len(rows[k])].stage = s]
  BY <1>1, <1>3
<1>6. /\ rows' \in [Tasks -> Seq(RowState)]
      /\ Len(rows[k]) \in Nat \ {0} /\ DOMAIN rows[k] = 1 .. Len(rows[k])
      /\ Len(rows'[k]) = Len(rows[k]) /\ DOMAIN rows'[k] = 1 .. Len(rows[k])
      /\ \A i \in 1 .. (Len(rows[k]) - 1) : rows'[k][i] = rows[k][i]
      /\ rows'[k][Len(rows[k])].stage = s /\ rows'[k][Len(rows[k])].tag = rows[k][Len(rows[k])].tag
      /\ \A x \in Tasks : x # k => rows'[x] = rows[x]
  BY <1>4, <1>5, StageSet
<1>7. NextOf(s)
  BY <1>1, NextOrder
<1>8. ~Idle'
  BY <1>1, StageNumbers DEF Idle
<1>9. s \in NodeStages => run'.todo = Nodes
  BY <1>1
<1>10. s \in HostStages => run'.todo # {}
  BY <1>1
<1>11. run'.task = k /\ run'.tag = run.tag /\ run'.prev = run.prev /\ run'.index = run.index
  BY <1>1, <1>3
<1>12. run'.only = run.only /\ run'.schema = run.schema
  BY <1>1
<1>13. Advances(s, k)
  BY <1>1, <1>2, <1>3, <1>6, <1>7, <1>8, <1>9, <1>10, <1>11, <1>12 DEF Advances
<1>14. QED  BY <1>13

LEMMA RowElement ==
  ASSUME rows \in [Tasks -> Seq(RowState)], NEW k \in Tasks, NEW i \in 1 .. Len(rows[k])
  PROVE  rows[k][i] \in RowState /\ rows[k][i].tag \in Tags /\ rows[k][i].tag \in Nat /\ rows[k][i].stage \in Stages
<1>1. rows[k] \in Seq(RowState)
  OBVIOUS
<1>2. rows[k][i] \in RowState
  BY <1>1, ElementOfSeq
<1>3. QED  BY <1>2 DEF RowState, Tags

(* A new run has a new tag, or continues the last run that can be, after which none is done. *)
Begins(k, tag, prev, only, stage) ==
  /\ Idle /\ run' = NewRun(k, tag, prev, only) /\ run' \in RunState /\ ~Idle'
  /\ run'.task = k /\ run'.tag = tag /\ run'.prev = prev /\ run'.stage = "INIT" /\ run'.todo = {}
  /\ ~run'.err /\ ~run'.schema /\ run'.index = NoFiles
  /\ rows \in [Tasks -> Seq(RowState)] /\ rows' \in [Tasks -> Seq(RowState)]
  /\ Len(rows[k]) \in Nat /\ DOMAIN rows[k] = 1 .. Len(rows[k])
  /\ Len(rows'[k]) = Len(rows[k]) + 1 /\ DOMAIN rows'[k] = 1 .. (Len(rows[k]) + 1)
  /\ \A i \in 1 .. Len(rows[k]) : rows'[k][i] = rows[k][i]
  /\ rows'[k][Len(rows[k]) + 1].tag = tag /\ rows'[k][Len(rows[k]) + 1].stage = stage
  /\ \A x \in Tasks : x # k => rows'[x] = rows[x]
  /\ \/ /\ prev = "none" /\ stage = "INIT"
        /\ \A i \in 1 .. Len(rows[k]) : rows[k][i].tag < tag
     \/ /\ prev # "none" /\ stage = prev
        /\ \E i \in 1 .. Len(rows[k]) :
             /\ rows[k][i].tag = tag /\ rows[k][i].stage = prev
             /\ \A j \in i .. Len(rows[k]) : rows[k][j].stage # "DONE"
             /\ \A j \in (i + 1) .. Len(rows[k]) : rows[k][j].stage \notin Resumable

LEMMA BeginFacts ==
  ASSUME TypeInv, NEW k \in Tasks, Start(k)
  PROVE  \E tag \in Tags, prev \in Resumable \cup {"none"}, only \in BOOLEAN, stage \in Stages : Begins(k, tag, prev, only, stage)
<1>1. PICK tag \in Tags, prev \in Resumable \cup {"none"}, only \in BOOLEAN, stage \in Stages :
           /\ run' = NewRun(k, tag, prev, only)
           /\ rows' = [rows EXCEPT ![k] = Append(rows[k], [tag |-> tag, stage |-> stage])]
           /\ \/ /\ prev = "none" /\ stage = "INIT" /\ clock' = clock + 1 /\ tag = clock + 1
              \/ /\ prev # "none" /\ stage = prev /\ clock' = clock
                 /\ \E i \in 1 .. Len(rows[k]) :
                      /\ rows[k][i].tag = tag /\ rows[k][i].stage = prev
                      /\ \A j \in i .. Len(rows[k]) : rows[k][j].stage # "DONE"
                      /\ \A j \in (i + 1) .. Len(rows[k]) : rows[k][j].stage \notin Resumable
  BY StartFacts
<1>2. PICK r \in RowState : r = [tag |-> tag, stage |-> stage]
  BY DEF RowState
<1>3. rows \in [Tasks -> Seq(RowState)] /\ rows' = [rows EXCEPT ![k] = Append(rows[k], r)] /\ clock \in Nat
  BY <1>1, <1>2 DEF TypeInv, RunTypes
<1>4. /\ rows' \in [Tasks -> Seq(RowState)]
      /\ Len(rows[k]) \in Nat /\ DOMAIN rows[k] = 1 .. Len(rows[k])
      /\ Len(rows'[k]) = Len(rows[k]) + 1 /\ DOMAIN rows'[k] = 1 .. (Len(rows[k]) + 1)
      /\ \A i \in 1 .. Len(rows[k]) : rows'[k][i] = rows[k][i]
      /\ rows'[k][Len(rows[k]) + 1] = r
      /\ \A x \in Tasks : x # k => rows'[x] = rows[x]
  BY <1>3, RowAdded
<1>5. /\ run' \in RunState
      /\ run'.task = k /\ run'.tag = tag /\ run'.prev = prev /\ run'.stage = "INIT" /\ run'.todo = {}
      /\ ~run'.err /\ ~run'.schema /\ run'.index = NoFiles
  BY <1>1, NewRunFacts
<1>6. Idle /\ ~Idle'
  BY <1>5 DEF Start, Idle
<1>7. prev = "none" => \A i \in 1 .. Len(rows[k]) : rows[k][i].tag < tag
  <2>1. SUFFICES ASSUME prev = "none", NEW i \in 1 .. Len(rows[k]) PROVE rows[k][i].tag < tag
    OBVIOUS
  <2>2. tag = clock + 1
    BY <1>1, <2>1
  <2>3. i \in DOMAIN rows[k]
    BY <1>4
  <2>4. rows[k][i].tag <= clock
    BY <2>3 DEF TypeInv, TagsInTime
  <2>5. rows[k][i].tag \in Nat
    BY <1>3, RowElement
  <2>6. QED  BY <1>3, <2>2, <2>4, <2>5
<1>8. r.tag = tag /\ r.stage = stage
  BY <1>2
<1>9. \/ /\ prev = "none" /\ stage = "INIT"
         /\ \A i \in 1 .. Len(rows[k]) : rows[k][i].tag < tag
      \/ /\ prev # "none" /\ stage = prev
         /\ \E i \in 1 .. Len(rows[k]) :
              /\ rows[k][i].tag = tag /\ rows[k][i].stage = prev
              /\ \A j \in i .. Len(rows[k]) : rows[k][j].stage # "DONE"
              /\ \A j \in (i + 1) .. Len(rows[k]) : rows[k][j].stage \notin Resumable
  BY <1>1, <1>7
<1>10. /\ Idle /\ run' = NewRun(k, tag, prev, only) /\ run' \in RunState /\ ~Idle'
       /\ run'.task = k /\ run'.tag = tag /\ run'.prev = prev /\ run'.stage = "INIT" /\ run'.todo = {}
       /\ ~run'.err /\ ~run'.schema /\ run'.index = NoFiles
       /\ rows \in [Tasks -> Seq(RowState)]
  BY <1>1, <1>3, <1>5, <1>6
<1>11. rows'[k][Len(rows[k]) + 1].tag = tag /\ rows'[k][Len(rows[k]) + 1].stage = stage
  BY <1>4, <1>8
<1>12. Begins(k, tag, prev, only, stage)
  BY <1>4, <1>9, <1>10, <1>11, Zenon DEF Begins
<1>13. QED  BY <1>12

-----------------------------------------------------------------------------
LEMMA ControlStep ==
  ASSUME TypeInv, ControlInv, [Next]_vars PROVE ControlInv'
<1> USE DEF ControlInv, Advances, Begins
<1>1. CASE RunGoesOn
  <2>1. rows' = rows
    BY <1>1 DEF RunGoesOn
  <2>2. RowsLate'
    BY <2>1 DEF RowsLate
  <2>3. CASE run' = run
    <3>1. RowOfRun' /\ NotSkipped' /\ SchemaIsNew'
      BY <2>1, <2>3 DEF RowOfRun, LastRow, NotSkipped, Skipped, SchemaIsNew, Idle
    <3>2. QED  BY <2>2, <3>1
  <2>4. CASE run' = NoRun
    <3>1. Idle'
      BY <2>4 DEF Idle, NoRun
    <3>2. RowOfRun' /\ NotSkipped' /\ SchemaIsNew'
      BY <3>1 DEF RowOfRun, NotSkipped, SchemaIsNew
    <3>3. QED  BY <2>2, <3>2
  <2>5. CASE SameStage
    <3>1. /\ run'.task = run.task /\ run'.tag = run.tag /\ run'.prev = run.prev /\ run'.only = run.only /\ run'.stage = run.stage
          /\ run.stage = "AWAIT_SCHEMA" \/ run'.schema = run.schema
      BY <2>5 DEF SameStage
    <3>2. RowOfRun'
      BY <2>1, <3>1 DEF RowOfRun, LastRow, Idle
    <3>3. NotSkipped'
      BY <3>1 DEF NotSkipped, Skipped, Idle
    <3>4. CASE run.stage = "AWAIT_SCHEMA"
      <4>1. ~Skipped("AWAIT_SCHEMA") /\ run.prev \in Resumable \cup {"none"}
        BY <2>5, <3>4 DEF NotSkipped, SameStage, RunState, Idle
      <4>2. run.prev = "none"
        BY <4>1, StageNumbers DEF Skipped, Resumable
      <4>3. QED  BY <2>2, <3>1, <3>2, <3>3, <4>2 DEF SchemaIsNew
    <3>5. CASE run'.schema = run.schema
      <4>1. SchemaIsNew'
        BY <3>1, <3>5 DEF SchemaIsNew, Idle
      <4>2. QED  BY <2>2, <3>2, <3>3, <4>1
    <3>6. QED  BY <3>1, <3>4, <3>5
  <2>6. QED  BY <1>1, <2>3, <2>4, <2>5 DEF RunGoesOn
<1>2. CASE NextStage
  <2>1. PICK s \in Stages, k \in Tasks : Advances(s, k)
    BY <1>2, StageFacts
  <2>2. /\ LastRow(k).tag = run.tag
        /\ run.stage # "INIT" => LastRow(k).stage = run.stage
        /\ run.stage = "INIT" => LastRow(k).stage = IF run.prev = "none" THEN "INIT" ELSE run.prev
        /\ run.prev = "none" => \A i \in 1 .. (Len(rows[k]) - 1) : rows[k][i].tag # run.tag
    BY <2>1 DEF RowOfRun
  <2>3. RowOfRun'
    BY <2>1, <2>2 DEF RowOfRun, LastRow, NextOf
  <2>4. LastRow(k).stage \in Late => s \in Late
    BY <2>1, <2>2 DEF NextOf, Late
  <2>5. RowsLate'
    <3>1. SUFFICES ASSUME NEW x \in Tasks, NEW i \in DOMAIN rows'[x], rows'[x][i].stage \in Late, NEW j \in i .. Len(rows'[x]),
                          rows'[x][j].tag = rows'[x][i].tag
                   PROVE  rows'[x][j].stage \in Late
      BY DEF RowsLate
    <3>2. CASE x # k
      BY <2>1, <3>1, <3>2 DEF RowsLate
    <3>3. CASE x = k
      <4>1. i \in 1 .. Len(rows[k]) /\ j \in i .. Len(rows[k]) /\ i \in DOMAIN rows[k] /\ j \in 1 .. Len(rows[k])
        BY <2>1, <3>1, <3>3
      <4>2. CASE j # Len(rows[k])
        <5>1. rows'[k][j] = rows[k][j] /\ rows'[k][i] = rows[k][i]
          BY <2>1, <4>1, <4>2
        <5>2. QED  BY <3>1, <3>3, <4>1, <5>1 DEF RowsLate
      <4>3. CASE j = Len(rows[k]) /\ i # j
        <5>1. rows'[k][i] = rows[k][i] /\ rows'[k][j].tag = LastRow(k).tag /\ rows'[k][j].stage = s
          BY <2>1, <4>1, <4>3 DEF LastRow
        <5>2. rows[k][i].stage \in Late /\ rows[k][j].tag = rows[k][i].tag
          BY <3>1, <3>3, <4>3, <5>1 DEF LastRow
        <5>3. LastRow(k).stage \in Late
          BY <4>1, <4>3, <5>2 DEF RowsLate, LastRow
        <5>4. QED  BY <2>4, <3>3, <5>1, <5>3
      <4>4. CASE j = Len(rows[k]) /\ i = j
        BY <3>1, <3>3, <4>4
      <4>5. QED  BY <4>2, <4>3, <4>4
    <3>4. QED  BY <3>2, <3>3
  <2>6. NotSkipped'
    BY <2>1 DEF NotSkipped, Following, Skipped
  <2>7. SchemaIsNew'
    BY <2>1 DEF SchemaIsNew
  <2>8. QED  BY <2>3, <2>5, <2>6, <2>7
<1>3. CASE \E k \in Tasks : Start(k)
  <2>0. PICK k \in Tasks : Start(k)
    BY <1>3
  <2>1. PICK tag \in Tags, prev \in Resumable \cup {"none"}, only \in BOOLEAN, stage \in Stages : Begins(k, tag, prev, only, stage)
    BY <2>0, BeginFacts
  <2>2. \A i \in 1 .. Len(rows[k]) : rows[k][i].tag \in Nat
    BY <2>1, RowElement
  <2>3. RowOfRun'
    <3>1. LastRow(k)'.tag = tag /\ LastRow(k)'.stage = IF prev = "none" THEN "INIT" ELSE prev
      BY <2>1 DEF LastRow
    <3>2. prev = "none" => \A i \in 1 .. (Len(rows'[k]) - 1) : rows'[k][i].tag # tag
      <4>1. SUFFICES ASSUME prev = "none", NEW i \in 1 .. (Len(rows'[k]) - 1) PROVE rows'[k][i].tag # tag
        OBVIOUS
      <4>2. i \in 1 .. Len(rows[k])
        BY <2>1
      <4>3. rows[k][i].tag < tag
        BY <2>1, <4>1, <4>2
      <4>4. QED  BY <2>1, <2>2, <4>2, <4>3 DEF Tags
    <3>3. QED  BY <2>1, <3>1, <3>2 DEF RowOfRun, LastRow
  <2>4. RowsLate'
    <3>1. SUFFICES ASSUME NEW x \in Tasks, NEW i \in DOMAIN rows'[x], rows'[x][i].stage \in Late, NEW j \in i .. Len(rows'[x]),
                          rows'[x][j].tag = rows'[x][i].tag
                   PROVE  rows'[x][j].stage \in Late
      BY DEF RowsLate
    <3>2. CASE x # k
      BY <2>1, <3>1, <3>2 DEF RowsLate
    <3>3. CASE x = k
      <4>1. i \in 1 .. (Len(rows[k]) + 1) /\ j \in i .. (Len(rows[k]) + 1)
        BY <2>1, <3>1, <3>3
      <4>2. CASE j # Len(rows[k]) + 1
        <5>1. i \in 1 .. Len(rows[k]) /\ j \in i .. Len(rows[k]) /\ j \in 1 .. Len(rows[k])
          BY <2>1, <4>1, <4>2
        <5>2. rows'[k][j] = rows[k][j] /\ rows'[k][i] = rows[k][i]
          BY <2>1, <5>1
        <5>3. QED  BY <2>1, <3>1, <3>3, <5>1, <5>2 DEF RowsLate
      <4>3. CASE j = Len(rows[k]) + 1 /\ i # j
        <5>1. i \in 1 .. Len(rows[k])
          BY <2>1, <4>1, <4>3
        <5>2. rows'[k][i] = rows[k][i] /\ rows'[k][j].tag = tag /\ rows'[k][j].stage = stage
          BY <2>1, <4>3, <5>1
        <5>3. rows[k][i].stage \in Late /\ rows[k][i].tag = tag
          BY <3>1, <3>3, <5>2
        <5>4. prev # "none" /\ stage = prev
          BY <2>1, <2>2, <5>1, <5>3 DEF Tags
        <5>5. PICK z \in 1 .. Len(rows[k]) :
                      /\ rows[k][z].tag = tag /\ rows[k][z].stage = prev
                      /\ \A w \in z .. Len(rows[k]) : rows[k][w].stage # "DONE"
                      /\ \A w \in (z + 1) .. Len(rows[k]) : rows[k][w].stage \notin Resumable
          BY <2>1, <5>4
        <5>6. i <= z
          <6>1. rows[k][i].stage = "DONE" \/ rows[k][i].stage \in Resumable
            BY <5>3 DEF Late, Resumable
          <6>2. i \in Nat /\ z \in Nat /\ i <= Len(rows[k]) /\ z >= 1
            BY <2>1, <5>1
          <6>3. ~(i > z)
            <7>1. SUFFICES ASSUME i > z PROVE FALSE
              OBVIOUS
            <7>2. i \in z .. Len(rows[k]) /\ i \in (z + 1) .. Len(rows[k])
              BY <2>1, <6>2, <7>1
            <7>3. QED  BY <5>5, <6>1, <7>2
          <6>4. QED  BY <6>2, <6>3
        <5>7. z \in i .. Len(rows[k]) /\ i \in DOMAIN rows[k]
          BY <2>1, <5>1, <5>6
        <5>8. rows[k][z].stage \in Late
          BY <5>3, <5>5, <5>7 DEF RowsLate
        <5>9. QED  BY <3>3, <5>2, <5>4, <5>5, <5>8
      <4>4. CASE i = j
        BY <3>1, <3>3, <4>4
      <4>5. QED  BY <4>2, <4>3, <4>4
    <3>4. QED  BY <3>2, <3>3
  <2>5. NotSkipped' /\ SchemaIsNew'
    BY <2>1 DEF NotSkipped, SchemaIsNew
  <2>6. QED  BY <2>3, <2>4, <2>5
<1>4. QED  BY <1>1, <1>2, <1>3, RunEffect

-----------------------------------------------------------------------------
(* Which steps change what. *)
Snapshotting == \E n \in Nodes : SnapshotNode(n)
Renaming == \E n \in Nodes, x \in Names : \E t \in jobs[n] : RenameFile(n, t, x)
Uploading == \E n \in Nodes, x \in Names : \E t \in jobs[n] : MoveFile(n, t, x)
Manifesting == \E n \in Nodes : ManifestNode(n) \/ MoveManifestNode(n) \/ RollbackNode(n)

LEMMA WhoChanges ==
  ASSUME [Next]_vars
  PROVE  /\ remote' \subseteq remote \/ Renaming \/ Uploading
         /\ manifests' \subseteq manifests \/ Manifesting
         /\ snap' = snap \/ Snapshotting
         /\ doomed \subseteq doomed' /\ lost \subseteq lost'
         /\ schemas' = schemas \/ (\E n \in Nodes : Schema(n)) \/ Purging
<1> USE DEF location, agents, bounds
<1>1. ASSUME NEW n \in Nodes, SnapshotNode(n)
      PROVE  remote' = remote /\ manifests' = manifests /\ schemas' = schemas /\ doomed' = doomed /\ lost \subseteq lost'
  BY <1>1 DEF SnapshotNode
<1>2. ASSUME NEW n \in Nodes, NodeFails(n) \/ AwaitSchema(n) \/ IndexNode(n) \/ DeduplicateNode(n) \/ UploadNode(n) \/ UploadDone(n) \/ UploadFails(n)
      PROVE  remote' = remote /\ manifests' = manifests /\ schemas' = schemas /\ snap' = snap /\ doomed' = doomed /\ lost' = lost
  BY <1>2 DEF NodeFails, AwaitSchema, IndexNode, DeduplicateNode, UploadNode, UploadDone, UploadFails
<1>3. ASSUME NEW n \in Nodes, ManifestNode(n) \/ MoveManifestNode(n) \/ RollbackNode(n)
      PROVE  remote' = remote /\ schemas' = schemas /\ snap' = snap /\ doomed' = doomed /\ lost' = lost
  BY <1>3 DEF ManifestNode, MoveManifestNode, RollbackNode
<1>4. ASSUME NEW n \in Nodes, Schema(n)
      PROVE  remote' = remote /\ manifests' = manifests /\ snap' = snap /\ doomed' = doomed /\ lost' = lost
  BY <1>4 DEF Schema
<1>5. ASSUME NEW n \in Nodes, NEW t, NEW x, RenameFile(n, t, x) \/ MoveFile(n, t, x)
      PROVE  manifests' = manifests /\ schemas' = schemas /\ snap' = snap /\ doomed' = doomed /\ lost' = lost
  BY <1>5 DEF RenameFile, MoveFile
<1>6. ASSUME NEW n \in Nodes, (\E t \in jobs[n] : JobEnds(n, t)) \/ AgentRestart(n) \/ ValidateStart(n) \/ DeleteLocalSnapshots(n)
      PROVE  remote' = remote /\ manifests' = manifests /\ schemas' = schemas /\ snap' = snap /\ doomed' = doomed /\ lost \subseteq lost'
  BY <1>6 DEF JobEnds, AgentRestart, ValidateStart, DeleteLocalSnapshots
<1>7. ASSUME NEW c, NEW g, PurgeFiles(c, g)
      PROVE  remote' \subseteq remote /\ manifests' = manifests /\ schemas' = schemas /\ snap' = snap /\ doomed' = doomed /\ lost \subseteq lost'
  BY <1>7 DEF PurgeFiles, DeleteOwnSnapshot
<1>8. ASSUME NEW c, NEW g, PurgeManifests(c, g)
      PROVE  remote' = remote /\ manifests' \subseteq manifests /\ snap' = snap /\ doomed' = doomed /\ lost' = lost
  BY <1>8 DEF PurgeManifests
<1>9. ASSUME \/ NextStage \/ End \/ RollbackMoveManifest \/ PurgeDecide \/ DeleteSnapshot \/ DeleteEnds \/ (\E k \in Tasks : Start(k))
             \/ ValidateRead \/ ValidateScan \/ ValidateDelete \/ Interrupt \/ Crash \/ Tick \/ UNCHANGED vars
      PROVE  remote' \subseteq remote /\ manifests' = manifests /\ schemas' = schemas /\ snap' = snap /\ doomed \subseteq doomed' /\ lost' = lost
  BY <1>9 DEF NextStage, End, RollbackMoveManifest, PurgeDecide, DeleteSnapshot, DeleteEnds, Start, ValidateRead, ValidateScan, ValidateDelete,
              Interrupt, Crash, Tick, vars
<1>10. CASE \E n \in Nodes : Worker(n)
  BY <1>1, <1>2, <1>3, <1>4, <1>10 DEF Worker, Snapshotting, Manifesting
<1>11. CASE \E n \in Nodes : Agent(n) \/ ValidateStart(n) \/ DeleteLocalSnapshots(n)
  BY <1>5, <1>6, <1>11 DEF Agent, Renaming, Uploading
<1>12. CASE Purging
  BY <1>7, <1>8, <1>12 DEF Purging
<1>13. QED  BY <1>9, <1>10, <1>11, <1>12 DEF Next

(* What is in a list that a step adds to is of the run. *)
LEMMA ManifestsOfRun ==
  ASSUME TypeInv, Manifesting
  PROVE  /\ run \in RunState /\ ~Idle /\ run.stage \in {"MANIFEST", "MOVE_MANIFEST"}
         /\ UNCHANGED <<remote, schemas, snap, local, dirs, jobs, rows, purges, val, clock, completed, doomed, lost>>
         /\ \A m \in manifests' : m \in manifests \/ (m.node \in Nodes /\ m.task = run.task /\ m.tag = run.tag)
<1>0. LocationTypes
  BY DEF TypeInv
<1>1. PICK n \in Nodes : ManifestNode(n) \/ MoveManifestNode(n) \/ RollbackNode(n)
  BY DEF Manifesting
<1>2. run \in RunState /\ ~Idle /\ run.stage \in {"MANIFEST", "MOVE_MANIFEST"}
  BY <1>1, RunIs, StageNumbers DEF ManifestNode, MoveManifestNode, RollbackNode, At, TypeInv
<1>3. UNCHANGED <<remote, schemas, snap, local, dirs, jobs, rows, purges, val, clock, completed, doomed, lost>>
  BY <1>1 DEF ManifestNode, MoveManifestNode, RollbackNode, agents
<1>4. CASE ManifestNode(n)
  BY <1>2, <1>3, <1>4 DEF ManifestNode, Manifest
<1>5. CASE \E from, to \in BOOLEAN : from # to /\ manifests' = Moved(n, from, to)
  <2>1. PICK from \in BOOLEAN, to \in BOOLEAN : from # to /\ manifests' = Moved(n, from, to)
    BY <1>5
  <2>2. \A m \in manifests' :
           \/ /\ m \in manifests
              /\ m.node = n /\ m.task = run.task /\ m.tag = run.tag => manifests' = manifests
           \/ /\ m.node = n /\ m.task = run.task /\ m.tag = run.tag /\ m.temp = to /\ m \in ManifestType
              /\ \E o \in manifests : /\ o.node = n /\ o.task = run.task /\ o.tag = run.tag /\ o.temp = from
                                      /\ m = [o EXCEPT !.temp = to] /\ m.files = o.files /\ m.schema = o.schema
    BY <1>0, <1>2, <2>1, MovedFacts
  <2>3. QED  BY <1>2, <1>3, <2>2
<1>6. CASE UNCHANGED manifests
  BY <1>2, <1>3, <1>6
<1>7. QED
  <2>1. MoveManifestNode(n) => manifests' = Moved(n, TRUE, FALSE) \/ UNCHANGED manifests
    BY DEF MoveManifestNode
  <2>2. RollbackNode(n) => manifests' = Moved(n, FALSE, TRUE) \/ UNCHANGED manifests
    BY DEF RollbackNode
  <2>3. TRUE \in BOOLEAN /\ FALSE \in BOOLEAN /\ TRUE # FALSE
    OBVIOUS
  <2>4. QED  BY <1>1, <1>4, <1>5, <1>6, <2>1, <2>2, <2>3, Zenon

(* Only a snapshot adds files to a node; whose directory is gone has none left. *)
LEMMA LocalShrinks ==
  ASSUME TypeInv, OneSnapshotLeft, [Next]_vars, ~Snapshotting
  PROVE  \A n \in Nodes : local'[n] \subseteq local[n] /\ \A f \in local'[n] : f[1] \in dirs'[n]
<1> USE DEF location, agents, bounds
<1>0. \A n \in Nodes : \A f \in local[n] : f[1] \in dirs[n]
  BY DEF OneSnapshotLeft
<1>a. local \in [Nodes -> SUBSET (Tags \X Names)] /\ dirs \in [Nodes -> SUBSET Tags]
  BY DEF TypeInv, AgentTypes
<1>1. CASE UNCHANGED <<local, dirs>>
  BY <1>0, <1>1
<1>2. ASSUME NEW n \in Nodes, DeduplicateNode(n)
      PROVE  \A m \in Nodes : local'[m] \subseteq local[m] /\ \A f \in local'[m] : f[1] \in dirs'[m]
  BY <1>0, <1>a, <1>2 DEF DeduplicateNode
<1>3. ASSUME NEW n \in Nodes, UploadDone(n)
      PROVE  \A m \in Nodes : local'[m] \subseteq local[m] /\ \A f \in local'[m] : f[1] \in dirs'[m]
  <2>1. \A f \in local[n] : f[1] # run.tag
    BY <1>3, <1>a DEF UploadDone, Left
  <2>2. local' = local /\ (dirs' = dirs \/ dirs' = [dirs EXCEPT ![n] = @ \ {run.tag}])
    BY <1>3 DEF UploadDone
  <2>3. QED  BY <1>0, <1>a, <2>1, <2>2
<1>4. ASSUME NEW n \in Nodes, NEW t, NEW x, MoveFile(n, t, x)
      PROVE  \A m \in Nodes : local'[m] \subseteq local[m] /\ \A f \in local'[m] : f[1] \in dirs'[m]
  BY <1>0, <1>a, <1>4 DEF MoveFile
<1>5. ASSUME NEW n \in Nodes, DeleteLocalSnapshots(n)
      PROVE  \A m \in Nodes : local'[m] \subseteq local[m] /\ \A f \in local'[m] : f[1] \in dirs'[m]
  BY <1>0, <1>a, <1>5 DEF DeleteLocalSnapshots
<1>6. ASSUME NEW c, NEW g, PurgeFiles(c, g)
      PROVE  \A m \in Nodes : local'[m] \subseteq local[m] /\ \A f \in local'[m] : f[1] \in dirs'[m]
  <2>1. CASE c = "run"
    BY <1>0, <1>6, <2>1 DEF PurgeFiles, DeleteOwnSnapshot
  <2>2. CASE c # "run"
    BY <1>0, <1>6, <2>2 DEF PurgeFiles, DeleteOwnSnapshot
  <2>3. QED  BY <2>1, <2>2
<1>7. ASSUME NEW n \in Nodes, Worker(n)
      PROVE  \A m \in Nodes : local'[m] \subseteq local[m] /\ \A f \in local'[m] : f[1] \in dirs'[m]
  <2>1. CASE \/ NodeFails(n) \/ AwaitSchema(n) \/ IndexNode(n) \/ UploadNode(n) \/ UploadFails(n) \/ ManifestNode(n) \/ Schema(n)
             \/ MoveManifestNode(n) \/ RollbackNode(n)
    <3>1. UNCHANGED <<local, dirs>>
      BY <2>1 DEF NodeFails, AwaitSchema, IndexNode, UploadNode, UploadFails, ManifestNode, Schema, MoveManifestNode, RollbackNode
    <3>2. QED  BY <1>1, <3>1
  <2>2. ~SnapshotNode(n)
    BY DEF Snapshotting
  <2>3. QED  BY <1>2, <1>3, <1>7, <2>1, <2>2 DEF Worker
<1>8. ASSUME NEW n \in Nodes, Agent(n)
      PROVE  \A m \in Nodes : local'[m] \subseteq local[m] /\ \A f \in local'[m] : f[1] \in dirs'[m]
  <2>1. CASE (\E t \in jobs[n] : JobEnds(n, t)) \/ AgentRestart(n) \/ \E t \in jobs[n], x \in Names : RenameFile(n, t, x)
    <3>1. UNCHANGED <<local, dirs>>
      BY <2>1 DEF JobEnds, AgentRestart, RenameFile
    <3>2. QED  BY <1>1, <3>1
  <2>2. QED  BY <1>4, <1>8, <2>1 DEF Agent
<1>9. CASE Purging
  <2>1. PICK c \in {"run", "delete"}, g \in {Nodes} \cup {{n} : n \in Nodes} : PurgeFiles(c, g) \/ PurgeManifests(c, g)
    BY <1>9 DEF Purging
  <2>2. CASE PurgeManifests(c, g)
    <3>1. UNCHANGED <<local, dirs>>
      BY <2>2 DEF PurgeManifests
    <3>2. QED  BY <1>1, <3>1
  <2>3. QED  BY <1>6, <2>1, <2>2
<1>10. CASE \/ NextStage \/ End \/ RollbackMoveManifest \/ PurgeDecide \/ DeleteSnapshot \/ DeleteEnds \/ (\E k \in Tasks : Start(k))
            \/ ValidateRead \/ ValidateScan \/ ValidateDelete \/ Interrupt \/ Crash \/ Tick \/ (\E n \in Nodes : ValidateStart(n)) \/ UNCHANGED vars
  <2>1. UNCHANGED <<local, dirs>>
    BY <1>10 DEF NextStage, End, RollbackMoveManifest, PurgeDecide, DeleteSnapshot, DeleteEnds, Start, ValidateRead, ValidateScan, ValidateDelete,
              Interrupt, Crash, Tick, ValidateStart, vars
  <2>2. QED  BY <1>1, <2>1
<1>11. QED  BY <1>5, <1>7, <1>8, <1>9, <1>10 DEF Next

(* Who has snapshotted has done so, unless a node has just now. *)
LEMMA SnappedBefore ==
  ASSUME TypeInv, RunGoesOn, ~Snapshotting, ~Idle'
  PROVE  ~Idle /\ run'.tag = run.tag /\ run'.task = run.task /\ \A n \in Nodes : Snapped(n)' => Snapped(n)
<1>1. CASE run' = run
  BY <1>1 DEF Idle, Snapped
<1>2. CASE SameStage
  <2>1. run'.prev = run.prev /\ run'.stage = run.stage /\ run'.tag = run.tag /\ run'.task = run.task
    BY <1>2 DEF SameStage
  <2>2. ASSUME NEW n \in Nodes, Snapped(n)' PROVE Snapped(n)
    <3>1. CASE run.stage = "SNAPSHOT" /\ n \notin run'.todo /\ ~run'.err
      <4>1. ~run.err
        BY <1>2, <3>1 DEF SameStage
      <4>2. n \notin run.todo
        <5>1. ~SnapshotNode(n)
          BY DEF Snapshotting
        <5>2. QED  BY <1>2, <3>1, <5>1 DEF SameStage, PartDone
      <4>3. QED  BY <3>1, <4>1, <4>2 DEF Snapped
    <3>2. QED  BY <2>1, <2>2, <3>1 DEF Snapped
  <2>3. QED  BY <2>1, <2>2 DEF Idle
<1>3. run' # NoRun
  BY DEF Idle, NoRun
<1>4. QED  BY <1>1, <1>2, <1>3 DEF RunGoesOn

LEMMA LastKept ==
  ASSUME TypeInv, LastIsLeft, RunGoesOn, ~Snapshotting,
         \A n \in Nodes : local'[n] \subseteq local[n],
         \A m \in manifests' : m \in manifests \/ (~Idle /\ run.stage \in Middle /\ m.node \in Nodes /\ m.tag = run.tag)
  PROVE  LastIsLeft'
<1>0. \A n \in Nodes : \A t : NoneLater(local[n], t) => NoneLater(local'[n], t)
  BY DEF NoneLater
<1>a. manifests \subseteq ManifestType
  BY DEF TypeInv, LocationTypes
<1>1. \A m \in manifests' : NoneLater(local'[m.node], m.tag)
  <2>1. TAKE m \in manifests'
  <2>2. CASE m \in manifests
    BY <1>0, <1>a, <2>2 DEF LastIsLeft, ManifestType
  <2>3. CASE ~Idle /\ run.stage \in Middle /\ m.node \in Nodes /\ m.tag = run.tag
    BY <1>0, <2>3 DEF LastIsLeft, Snapped
  <2>4. QED  BY <2>2, <2>3
<1>2. \A k \in Tasks : \A i \in DOMAIN rows'[k] : rows'[k][i].stage \in Middle => \A n \in Nodes : NoneLater(local'[n], rows'[k][i].tag)
  BY <1>0 DEF LastIsLeft, RunGoesOn
<1>3. ~Idle' => \A n \in Nodes : Snapped(n)' => NoneLater(local'[n], run'.tag)
  BY <1>0, SnappedBefore DEF LastIsLeft
<1>4. QED  BY <1>1, <1>2, <1>3 DEF LastIsLeft, NoneLater

LEMMA LeftStep ==
  ASSUME TypeInv, ControlInv, LeftInv, [Next]_vars PROVE LeftInv'
<1> USE DEF LeftInv, Advances, Begins
<1>0. /\ local \in [Nodes -> SUBSET (Tags \X Names)] /\ dirs \in [Nodes -> SUBSET Tags]
      /\ remote \subseteq FileType /\ manifests \subseteq ManifestType /\ clock \in Nat
  BY DEF TypeInv, AgentTypes, LocationTypes, RunTypes
<1>a. ASSUME NEW n \in Nodes, NEW f \in local[n] PROVE f[1] \in Tags /\ f[2] \in Names /\ f = <<f[1], f[2]>> /\ f[1] \in Nat
  BY <1>0, <1>a DEF Tags
<1>1. CASE Snapshotting
  <2>1. PICK n \in Nodes : SnapshotNode(n)
    BY <1>1 DEF Snapshotting
  <2>2. run.stage = "SNAPSHOT" /\ n \in run.todo /\ run \in RunState /\ ~Idle
    BY <2>1, RunIs, StageNumbers DEF SnapshotNode, At, TypeInv
  <2>3. PICK ts \in SUBSET (dirs[n] \ {run.tag}), s \in Snapshots[n], ok \in BOOLEAN :
       /\ ok => ts = dirs[n] \ {run.tag}
       /\ dirs' = [dirs EXCEPT ![n] = (@ \ ts) \cup (IF ok THEN {run.tag} ELSE {})]
       /\ local' = [local EXCEPT ![n] = {f \in @ : f[1] \notin ts}
                      \cup (IF ok THEN {run.tag} \X DOMAIN s ELSE {})]
       /\ IF ok THEN Ok(n) ELSE Err(n)
    BY <2>1 DEF SnapshotNode
  <2>4. UNCHANGED <<remote, manifests, rows>>
    BY <2>1 DEF SnapshotNode, location
  <2>5. /\ run.prev = "none" /\ run.tag = clock /\ run.tag \in Tags /\ run.tag \in Nat
        /\ \A f \in remote : f.ver < run.tag
        /\ \A m \in manifests : m.tag < run.tag
        /\ \A f \in local[n] : f[1] < run.tag
    BY <2>2 DEF TypeInv, TagIsNew, Beginning, RunState, Tags
  <2>6. \A k \in Tasks : \A i \in DOMAIN rows[k] : rows[k][i].tag <= run.tag
    BY <2>5 DEF TypeInv, TagsInTime
  <2>7. /\ run'.todo = run.todo \ {n} /\ run'.tag = run.tag /\ run'.task = run.task /\ run'.prev = run.prev /\ run'.stage = run.stage
        /\ Err(n) => run'.err = TRUE
        /\ Ok(n) => run'.err = run.err
    <3>1. Ok(n) \/ Err(n)
      BY <2>3
    <3>2. run'.todo = run.todo \ {n} /\ run'.tag = run.tag /\ run'.task = run.task /\ run'.prev = run.prev /\ run'.stage = run.stage
      BY <2>2, <3>1, NodeDone
    <3>3. (Err(n) => run'.err = TRUE) /\ (Ok(n) => run'.err = run.err)
      BY <2>2, <3>1, NodeDone, Zenon
    <3>4. QED  BY <3>2, <3>3, Zenon
  <2>8. \A m \in Nodes : m # n => local'[m] = local[m] /\ dirs'[m] = dirs[m]
    BY <1>0, <2>3
  <2>9. \A x \in Nodes : x # n /\ Snapped(x)' => Snapped(x)
    <3>1. SUFFICES ASSUME NEW x \in Nodes, x # n, Snapped(x)' PROVE Snapped(x)
      BY Zenon
    <3>2. run.prev \notin Middle /\ run.stage \notin Middle
      BY <2>2, <2>5 DEF Middle
    <3>3. x \notin run'.todo /\ ~run'.err
      BY <2>7, <3>1, <3>2 DEF Snapped
    <3>4. ~run.err
      BY <2>3, <2>7, <3>3, Zenon
    <3>5. QED  BY <2>2, <2>7, <3>1, <3>3, <3>4 DEF Snapped
  <2>10. CASE ok
    <3>1. ts = dirs[n] \ {run.tag} /\ local'[n] = {f \in local[n] : f[1] \notin ts} \cup ({run.tag} \X DOMAIN s)
          /\ dirs'[n] = (dirs[n] \ ts) \cup {run.tag}
      BY <1>0, <2>3, <2>10
    <3>2. \A f \in local[n] : f[1] \in ts
      BY <2>5, <3>1, <1>a DEF OneSnapshotLeft
    <3>3. local'[n] = {run.tag} \X DOMAIN s
      BY <3>1, <3>2
    <3>4. \A f \in local'[n] : f[1] = run.tag /\ f[1] \in dirs'[n]
      BY <3>1, <3>3
    <3>5. OneSnapshotLeft'
      <4>1. SUFFICES ASSUME NEW m \in Nodes, NEW f \in local'[m]
                     PROVE  /\ f[1] \in dirs'[m]
                            /\ \A g \in local'[m] : g[1] = f[1]
                            /\ \A r \in remote : r.node = m => r.ver <= f[1]
                            /\ \A r, x \in remote : r.node = m /\ r.name = f[2] /\ r.ver = f[1]
                                                      => ~(x.node = m /\ x.name = f[2] /\ x.ver = 0)
        BY <2>4 DEF OneSnapshotLeft
      <4>2. CASE m # n
        BY <2>8, <4>1, <4>2 DEF OneSnapshotLeft
      <4>3. CASE m = n
        <5>1. f[1] = run.tag /\ f[1] \in dirs'[n] /\ \A g \in local'[n] : g[1] = f[1]
          BY <3>4, <4>1, <4>3
        <5>2. \A r \in remote : r.ver \in Nat /\ r.ver < f[1]
          BY <1>0, <2>5, <5>1 DEF FileType
        <5>3. QED  BY <2>5, <4>3, <5>1, <5>2
      <4>4. QED  BY <4>2, <4>3
    <3>6. \A t : t \in Nat /\ t <= run.tag => NoneLater(local'[n], t)
      BY <3>4 DEF NoneLater
    <3>7. \A x \in Nodes : \A t : x # n => (NoneLater(local[x], t) => NoneLater(local'[x], t))
      BY <2>8 DEF NoneLater
    <3>8. \A m \in manifests' : NoneLater(local'[m.node], m.tag)
      <4>1. TAKE m \in manifests'
      <4>2. m \in manifests /\ m.tag \in Nat /\ m.tag <= run.tag /\ m.node \in Nodes
        BY <1>0, <2>4, <2>5 DEF ManifestType, Tags
      <4>3. CASE m.node = n
        BY <3>6, <4>2, <4>3
      <4>4. CASE m.node # n
        BY <3>7, <4>2, <4>4 DEF LastIsLeft
      <4>5. QED  BY <4>3, <4>4
    <3>9. \A k \in Tasks : \A i \in DOMAIN rows'[k] : rows'[k][i].stage \in Middle => \A x \in Nodes : NoneLater(local'[x], rows'[k][i].tag)
      <4>1. SUFFICES ASSUME NEW k \in Tasks, NEW i \in DOMAIN rows[k], rows[k][i].stage \in Middle, NEW x \in Nodes
                     PROVE  NoneLater(local'[x], rows[k][i].tag)
        BY <2>4
      <4>2. rows[k][i].tag \in Nat /\ rows[k][i].tag <= run.tag
        <5>1. rows \in [Tasks -> Seq(RowState)] /\ DOMAIN rows[k] = 1 .. Len(rows[k])
          BY LenProperties DEF TypeInv, RunTypes
        <5>2. i \in 1 .. Len(rows[k])
          BY <5>1
        <5>3. QED  BY <2>6, <5>1, <5>2, RowElement
      <4>3. PICK t : t = rows[k][i].tag
        OBVIOUS
      <4>4. CASE x = n
        <5>1. NoneLater(local'[n], t)
          BY <3>6, <4>2, <4>3
        <5>2. QED  BY <2>4, <4>3, <4>4, <5>1 DEF NoneLater
      <4>5. CASE x # n
        <5>1. NoneLater(local[x], t)
          BY <4>1, <4>3 DEF LastIsLeft
        <5>2. NoneLater(local'[x], t)
          BY <3>7, <4>5, <5>1
        <5>3. QED  BY <2>4, <4>3, <5>2 DEF NoneLater
      <4>6. QED  BY <4>4, <4>5
    <3>10. ASSUME NEW x \in Nodes, Snapped(x)' PROVE NoneLater(local'[x], run'.tag)
      <4>1. PICK t : t = run.tag
        OBVIOUS
      <4>2. NoneLater(local'[x], t)
        <5>1. CASE x = n
          BY <2>5, <3>6, <4>1, <5>1
        <5>2. CASE x # n
          <6>1. NoneLater(local[x], t)
            BY <2>2, <2>9, <3>10, <4>1, <5>2 DEF LastIsLeft
          <6>2. QED  BY <3>7, <5>2, <6>1
        <5>3. QED  BY <5>1, <5>2
      <4>3. QED  BY <2>7, <4>1, <4>2 DEF NoneLater
    <3>11. QED  BY <3>5, <3>8, <3>9, <3>10 DEF LastIsLeft, NoneLater
  <2>11. CASE ~ok
    <3>1. local'[n] = {f \in local[n] : f[1] \notin ts} /\ dirs'[n] = dirs[n] \ ts
      BY <1>0, <2>3, <2>11
    <3>2. \A m \in Nodes : local'[m] \subseteq local[m] /\ \A f \in local'[m] : f[1] \in dirs'[m]
      BY <2>8, <3>1 DEF OneSnapshotLeft
    <3>3. OneSnapshotLeft'
      BY <2>4, <3>2 DEF OneSnapshotLeft
    <3>4. \A x \in Nodes : \A t : NoneLater(local[x], t) => NoneLater(local'[x], t)
      BY <3>2 DEF NoneLater
    <3>5. \A x \in Nodes : Snapped(x)' => Snapped(x)
      <4>1. run'.err = TRUE
        BY <2>3, <2>7, <2>11, Zenon
      <4>2. QED  BY <2>7, <4>1 DEF Snapped
    <3>6. \A m \in manifests' : NoneLater(local'[m.node], m.tag)
      BY <1>0, <2>4, <3>4 DEF LastIsLeft, ManifestType
    <3>7. \A k \in Tasks : \A i \in DOMAIN rows'[k] : rows'[k][i].stage \in Middle => \A x \in Nodes : NoneLater(local'[x], rows'[k][i].tag)
      BY <2>4, <3>4 DEF LastIsLeft
    <3>8. \A x \in Nodes : Snapped(x)' => NoneLater(local'[x], run'.tag)
      BY <2>2, <2>7, <3>4, <3>5 DEF LastIsLeft
    <3>9. QED  BY <3>3, <3>6, <3>7, <3>8 DEF LastIsLeft, NoneLater
  <2>12. QED  BY <2>10, <2>11

<1>2. CASE ~Snapshotting
  <2>1. \A n \in Nodes : local'[n] \subseteq local[n] /\ \A f \in local'[n] : f[1] \in dirs'[n]
    BY <1>2, LocalShrinks
  <2>2. OneSnapshotLeft'
    <3>1. CASE remote' \subseteq remote
      BY <2>1, <3>1 DEF OneSnapshotLeft
    <3>2. CASE Renaming
      <4>1. PICK n \in Nodes, x \in Names : \E t \in jobs[n] : RenameFile(n, t, x)
        BY <3>2 DEF Renaming
      <4>2. PICK t \in jobs[n] : RenameFile(n, t, x)
        BY <4>1
      <4>3. PICK f \in Newest(remote, n) :
              /\ f.name = x
              /\ remote' = {g \in remote : ~(g.node = n /\ g.name = x /\ g.ver \in {0, t})} \cup {[f EXCEPT !.ver = t]}
        BY <4>2 DEF RenameFile
      <4>4. f \in FileType /\ f.node = n /\ t \in Tags /\ <<t, x>> \in local[n]
        BY <1>0, <4>2, <4>3 DEF Newest, RenameFile, Moving, TypeInv, AgentTypes
      <4>5. PICK h : h = [f EXCEPT !.ver = t]
        OBVIOUS
      <4>6. h.node = n /\ h.name = x /\ h.ver = t
        BY <4>3, <4>4, <4>5 DEF FileType
      <4>7. \A g \in remote' : g = h \/ (g \in remote /\ ~(g.node = n /\ g.name = x /\ g.ver \in {0, t}))
        BY <4>3, <4>5
      <4>8. \A g \in local[n] : g[1] = t
        <5>1. \A a \in local[n] : \A g \in local[n] : g[1] = a[1]
          BY DEF OneSnapshotLeft
        <5>2. <<t, x>>[1] = t
          OBVIOUS
        <5>3. QED  BY <4>4, <5>1, <5>2
      <4>9. SUFFICES ASSUME NEW m \in Nodes, NEW e \in local'[m]
                     PROVE  /\ e[1] \in dirs'[m]
                            /\ \A g \in local'[m] : g[1] = e[1]
                            /\ \A r \in remote' : r.node = m => r.ver <= e[1]
                            /\ \A r, s \in remote' : r.node = m /\ r.name = e[2] /\ r.ver = e[1]
                                                      => ~(s.node = m /\ s.name = e[2] /\ s.ver = 0)
        BY DEF OneSnapshotLeft
      <4>10. e \in local[m] /\ e[1] \in dirs'[m] /\ (\A g \in local'[m] : g[1] = e[1]) /\ e[1] \in Nat /\ t \in Nat /\ t # 0
        BY <1>a, <2>1, <4>4 DEF OneSnapshotLeft, Tags
      <4>11. ASSUME NEW r \in remote', r.node = m PROVE r.ver <= e[1]
        <5>1. CASE r = h
          BY <4>6, <4>8, <4>10, <4>11, <5>1
        <5>2. CASE r \in remote
          BY <4>10, <4>11, <5>2 DEF OneSnapshotLeft
        <5>3. QED  BY <4>7, <5>1, <5>2
      <4>12. ASSUME NEW r \in remote', NEW s \in remote', r.node = m, r.name = e[2], r.ver = e[1], s.node = m, s.name = e[2], s.ver = 0
             PROVE  FALSE
        <5>1. s # h
          BY <4>6, <4>10, <4>12
        <5>2. s \in remote /\ ~(m = n /\ e[2] = x)
          BY <4>7, <4>12, <5>1
        <5>3. r \in remote
          BY <4>6, <4>7, <4>12, <5>2
        <5>4. QED  BY <4>10, <4>12, <5>2, <5>3 DEF OneSnapshotLeft
      <4>13. QED  BY <4>10, <4>11, <4>12
    <3>3. CASE Uploading
      <4>1. PICK n \in Nodes, x \in Names : \E t \in jobs[n] : MoveFile(n, t, x)
        BY <3>3 DEF Uploading
      <4>2. PICK t \in jobs[n] : MoveFile(n, t, x)
        BY <4>1
      <4>3. PICK h : h = [node |-> n, name |-> x, ver |-> 0, content |-> snap[n][t][x]]
        OBVIOUS
      <4>4. remote' = remote \cup {h} /\ local' = [local EXCEPT ![n] = @ \ {<<t, x>>}] /\ <<t, x>> \in local[n] /\ t \in Tags
        BY <4>2, <4>3 DEF MoveFile, Moving, TypeInv, AgentTypes
      <4>5. h.node = n /\ h.name = x /\ h.ver = 0
        BY <4>3
      <4>6. \A g \in local[n] : g[1] = t
        <5>1. \A a \in local[n] : \A g \in local[n] : g[1] = a[1]
          BY DEF OneSnapshotLeft
        <5>2. <<t, x>>[1] = t
          OBVIOUS
        <5>3. QED  BY <4>4, <5>1, <5>2
      <4>7. SUFFICES ASSUME NEW m \in Nodes, NEW e \in local'[m]
                     PROVE  /\ e[1] \in dirs'[m]
                            /\ \A g \in local'[m] : g[1] = e[1]
                            /\ \A r \in remote' : r.node = m => r.ver <= e[1]
                            /\ \A r, s \in remote' : r.node = m /\ r.name = e[2] /\ r.ver = e[1]
                                                      => ~(s.node = m /\ s.name = e[2] /\ s.ver = 0)
        BY DEF OneSnapshotLeft
      <4>8. e \in local[m] /\ e[1] \in dirs'[m] /\ (\A g \in local'[m] : g[1] = e[1]) /\ e[1] \in Nat /\ e[1] # 0 /\ e = <<e[1], e[2]>>
        BY <1>a, <2>1 DEF OneSnapshotLeft, Tags
      <4>9. ~(m = n /\ e[2] = x)
        <5>1. SUFFICES ASSUME m = n, e[2] = x PROVE FALSE
          OBVIOUS
        <5>2. e = <<t, x>>
          BY <4>6, <4>8, <5>1
        <5>3. <<t, x>> \notin local'[n]
          BY <1>0, <4>4
        <5>4. QED  BY <4>7, <5>1, <5>2, <5>3
      <4>10. ASSUME NEW r \in remote', r.node = m PROVE r.ver <= e[1]
        BY <4>4, <4>5, <4>8, <4>10 DEF OneSnapshotLeft
      <4>11. ASSUME NEW r \in remote', NEW s \in remote', r.node = m, r.name = e[2], r.ver = e[1], s.node = m, s.name = e[2], s.ver = 0
             PROVE  FALSE
        <5>1. r # h /\ s # h
          BY <4>5, <4>9, <4>11
        <5>2. r \in remote /\ s \in remote
          BY <4>4, <5>1
        <5>3. QED  BY <4>8, <4>11, <5>2 DEF OneSnapshotLeft
      <4>12. QED  BY <4>8, <4>10, <4>11
    <3>4. QED  BY <3>1, <3>2, <3>3, WhoChanges
  <2>3. LastIsLeft'
    <3>1. CASE RunGoesOn
      <4>1. \A m \in manifests' : m \in manifests \/ (~Idle /\ run.stage \in Middle /\ m.node \in Nodes /\ m.tag = run.tag)
        <5>1. CASE manifests' \subseteq manifests
          BY <5>1
        <5>2. CASE Manifesting
          BY <5>2, ManifestsOfRun DEF Middle
        <5>3. QED  BY <5>1, <5>2, WhoChanges
      <4>2. QED  BY <1>2, <2>1, <3>1, <4>1, LastKept
    <3>2. CASE NextStage
      <4>1. PICK s \in Stages, k \in Tasks : Advances(s, k)
        BY <3>2, StageFacts DEF ControlInv
      <4>2. UNCHANGED <<local, manifests>>
        BY <3>2 DEF NextStage, location, agents
      <4>3. s \in Middle => \A n \in Nodes : NoneLater(local[n], run.tag)
        BY <4>1 DEF NextOf, Snapped, LastIsLeft
      <4>4. run.prev \in Middle => \A n \in Nodes : NoneLater(local[n], run.tag)
        BY <4>1 DEF Snapped, LastIsLeft
      <4>5. \A n \in Nodes : Snapped(n)' => NoneLater(local[n], run.tag)
        <5>1. SUFFICES ASSUME NEW n \in Nodes, Snapped(n)' PROVE s \in Middle \/ run.prev \in Middle
          BY <4>3, <4>4, Zenon
        <5>2. s = "SNAPSHOT" => run'.todo = Nodes
          BY <4>1 DEF NodeStages
        <5>3. QED  BY <4>1, <5>1, <5>2 DEF Snapped
      <4>6. ASSUME NEW x \in Tasks, NEW i \in DOMAIN rows'[x], rows'[x][i].stage \in Middle, NEW n \in Nodes
            PROVE  NoneLater(local[n], rows'[x][i].tag)
        <5>1. CASE x = k /\ i = Len(rows[k])
          <6>1. rows'[x][i].tag = run.tag /\ s \in Middle
            BY <4>1, <4>6, <5>1 DEF ControlInv, RowOfRun, LastRow
          <6>2. QED  BY <4>3, <6>1
        <5>2. CASE ~(x = k /\ i = Len(rows[k]))
          <6>1. rows'[x][i] = rows[x][i] /\ i \in DOMAIN rows[x]
            BY <4>1, <4>6, <5>2
          <6>2. QED  BY <4>6, <6>1 DEF LastIsLeft
        <5>3. QED  BY <5>1, <5>2
      <4>7. QED  BY <4>1, <4>2, <4>5, <4>6 DEF LastIsLeft
    <3>3. CASE \E k \in Tasks : Start(k)
      <4>0. PICK k \in Tasks : Start(k)
        BY <3>3
      <4>1. PICK tag \in Tags, prev \in Resumable \cup {"none"}, only \in BOOLEAN, stage \in Stages : Begins(k, tag, prev, only, stage)
        BY <4>0, BeginFacts
      <4>2. UNCHANGED <<local, manifests>>
        BY <4>0 DEF Start, location, agents
      <4>3. prev \in Middle \/ stage \in Middle => \A n \in Nodes : NoneLater(local[n], tag)
        <5>1. SUFFICES ASSUME prev \in Middle \/ stage \in Middle PROVE \A n \in Nodes : NoneLater(local[n], tag)
          OBVIOUS
        <5>2. prev # "none" /\ prev \in Middle
          BY <4>1, <5>1 DEF Middle
        <5>3. PICK i \in 1 .. Len(rows[k]) : rows[k][i].tag = tag /\ rows[k][i].stage = prev
          BY <4>1, <5>2
        <5>4. i \in DOMAIN rows[k]
          BY <4>1
        <5>5. QED  BY <5>2, <5>3, <5>4 DEF LastIsLeft
      <4>4. \A n \in Nodes : Snapped(n)' => NoneLater(local[n], tag)
        BY <4>1, <4>3 DEF Snapped, Middle
      <4>5. ASSUME NEW x \in Tasks, NEW i \in DOMAIN rows'[x], rows'[x][i].stage \in Middle, NEW n \in Nodes
            PROVE  NoneLater(local[n], rows'[x][i].tag)
        <5>1. CASE x = k /\ i = Len(rows[k]) + 1
          BY <4>1, <4>3, <4>5, <5>1
        <5>2. CASE ~(x = k /\ i = Len(rows[k]) + 1)
          <6>1. rows'[x][i] = rows[x][i] /\ i \in DOMAIN rows[x]
            BY <4>1, <4>5, <5>2
          <6>2. QED  BY <4>5, <6>1 DEF LastIsLeft
        <5>3. QED  BY <5>1, <5>2
      <4>6. run'.tag = tag
        BY <4>1
      <4>7. \A n \in Nodes : Snapped(n)' => NoneLater(local[n], run'.tag)
        BY <4>4, <4>6
      <4>8. QED  BY <4>2, <4>5, <4>7 DEF LastIsLeft
    <3>4. QED  BY <3>1, <3>2, <3>3, RunEffect
  <2>4. QED  BY <2>2, <2>3
<1>3. QED  BY <1>1, <1>2

-----------------------------------------------------------------------------
(* The rows after a new stage, and after the start of a run. *)
LEMMA AdvancedRows ==
  ASSUME RowOfRun, NEW s, NEW k \in Tasks, Advances(s, k)
  PROVE  /\ \A x \in Tasks : \A i \in DOMAIN rows'[x] :
              \/ x = run.task /\ i = Len(rows[k]) /\ rows'[x][i].stage = s /\ rows'[x][i].tag = run.tag
              \/ i \in DOMAIN rows[x] /\ rows'[x][i] = rows[x][i]
         /\ \A x \in Tasks : \A i \in DOMAIN rows[x] : i \in DOMAIN rows'[x] /\ (rows'[x][i] = rows[x][i] \/ (x = k /\ i = Len(rows[k])))
<1>1. ASSUME NEW x \in Tasks, NEW i \in DOMAIN rows'[x]
      PROVE  \/ x = run.task /\ i = Len(rows[k]) /\ rows'[x][i].stage = s /\ rows'[x][i].tag = run.tag
             \/ i \in DOMAIN rows[x] /\ rows'[x][i] = rows[x][i]
  <2>1. CASE x = k /\ i = Len(rows[k])
    BY <2>1 DEF Advances, RowOfRun, LastRow
  <2>2. CASE ~(x = k /\ i = Len(rows[k]))
    BY <1>1, <2>2 DEF Advances
  <2>3. QED  BY <2>1, <2>2
<1>2. ASSUME NEW x \in Tasks, NEW i \in DOMAIN rows[x]
      PROVE  i \in DOMAIN rows'[x] /\ (rows'[x][i] = rows[x][i] \/ (x = k /\ i = Len(rows[k])))
  <2>1. CASE x = k
    BY <1>2, <2>1 DEF Advances
  <2>2. CASE x # k
    BY <1>2, <2>2 DEF Advances
  <2>3. QED  BY <2>1, <2>2
<1>3. QED  BY <1>1, <1>2

LEMMA BegunRows ==
  ASSUME NEW k \in Tasks, NEW tag \in Tags, NEW prev \in Resumable \cup {"none"}, NEW only, NEW stage, Begins(k, tag, prev, only, stage)
  PROVE  /\ prev # "none" => \E i \in DOMAIN rows[k] : rows[k][i].tag = tag /\ rows[k][i].stage = prev
         /\ \A x \in Tasks : \A i \in DOMAIN rows'[x] :
              \/ x = k /\ rows'[x][i].tag = tag /\ rows'[x][i].stage = IF prev = "none" THEN "INIT" ELSE prev
              \/ i \in DOMAIN rows[x] /\ rows'[x][i] = rows[x][i]
         /\ \A x \in Tasks : \A i \in DOMAIN rows[x] : i \in DOMAIN rows'[x] /\ rows'[x][i] = rows[x][i]
<1>1. prev # "none" => \E i \in DOMAIN rows[k] : rows[k][i].tag = tag /\ rows[k][i].stage = prev
  BY DEF Begins
<1>2. ASSUME NEW x \in Tasks, NEW i \in DOMAIN rows'[x]
      PROVE  \/ x = k /\ rows'[x][i].tag = tag /\ rows'[x][i].stage = IF prev = "none" THEN "INIT" ELSE prev
             \/ i \in DOMAIN rows[x] /\ rows'[x][i] = rows[x][i]
  <2>1. CASE x = k /\ i = Len(rows[k]) + 1
    BY <2>1 DEF Begins
  <2>2. CASE ~(x = k /\ i = Len(rows[k]) + 1)
    BY <2>2 DEF Begins
  <2>3. QED  BY <2>1, <2>2
<1>3. ASSUME NEW x \in Tasks, NEW i \in DOMAIN rows[x] PROVE i \in DOMAIN rows'[x] /\ rows'[x][i] = rows[x][i]
  <2>1. CASE x = k
    BY <1>3, <2>1 DEF Begins
  <2>2. CASE x # k
    BY <1>3, <2>2 DEF Begins
  <2>3. QED  BY <2>1, <2>2
<1>4. QED  BY <1>1, <1>2, <1>3

(* A manifest is temporary at first, and regular when the run moves it. *)
Comes(m) ==
  /\ run \in RunState /\ ~Idle /\ m.node \in Nodes /\ m.task = run.task /\ m.tag = run.tag
  /\ \/ run.stage = "MANIFEST" /\ m.temp = TRUE /\ m.schema = run.schema /\ m.files = run.index[m.node]
     \/ /\ run.stage = "MOVE_MANIFEST"
        /\ \E o \in manifests : /\ o.node = m.node /\ o.task = m.task /\ o.tag = m.tag
                                /\ o.files = m.files /\ o.schema = m.schema
LEMMA NewManifests ==
  ASSUME TypeInv, [Next]_vars PROVE \A m \in manifests' : m \in manifests \/ (Manifesting /\ Comes(m))
<1>0. LocationTypes
  BY DEF TypeInv
<1>1. CASE manifests' \subseteq manifests
  BY <1>1
<1>2. CASE Manifesting
  <2>1. PICK n \in Nodes : ManifestNode(n) \/ MoveManifestNode(n) \/ RollbackNode(n)
    BY <1>2 DEF Manifesting
  <2>2. run \in RunState /\ ~Idle
    BY <1>2, ManifestsOfRun
  <2>3. CASE ManifestNode(n)
    <3>1. run.stage = "MANIFEST" /\ \A m \in manifests' : m \in manifests \/ m = Manifest(n, TRUE)
      BY <2>3 DEF ManifestNode, At
    <3>2. PICK h : h = Manifest(n, TRUE)
      OBVIOUS
    <3>3. h.node = n /\ h.task = run.task /\ h.tag = run.tag /\ h.temp = TRUE /\ h.files = run.index[n]
      BY <3>2 DEF Manifest
    <3>4. h.schema = run.schema
      BY <3>2 DEF Manifest
    <3>5. Comes(h)
      BY <2>2, <3>1, <3>3, <3>4 DEF Comes
    <3>6. QED  BY <1>2, <3>1, <3>2, <3>5, Zenon
  <2>4. ASSUME NEW from \in BOOLEAN, NEW to \in BOOLEAN, from # to, run.stage = "MOVE_MANIFEST", manifests' = Moved(n, from, to)
        PROVE  \A m \in manifests' : m \in manifests \/ (Manifesting /\ Comes(m))
    <3>1. \A m \in manifests' :
           \/ /\ m \in manifests
              /\ m.node = n /\ m.task = run.task /\ m.tag = run.tag => manifests' = manifests
           \/ /\ m.node = n /\ m.task = run.task /\ m.tag = run.tag /\ m.temp = to /\ m \in ManifestType
              /\ \E o \in manifests : /\ o.node = n /\ o.task = run.task /\ o.tag = run.tag /\ o.temp = from
                                      /\ m = [o EXCEPT !.temp = to] /\ m.files = o.files /\ m.schema = o.schema
      BY <1>0, <2>2, <2>4, MovedFacts
    <3>2. TAKE m \in manifests'
    <3>3. CASE m \in manifests
      BY <3>3
    <3>4. CASE m \notin manifests
      <4>1. PICK o \in manifests : /\ o.node = n /\ o.task = run.task /\ o.tag = run.tag
                                   /\ m.files = o.files /\ m.schema = o.schema
        BY <3>1, <3>4, Zenon
      <4>2. m.node = n /\ m.task = run.task /\ m.tag = run.tag
        BY <3>1, <3>4, Zenon
      <4>3. Comes(m)
        BY <2>2, <2>4, <4>1, <4>2, Zenon DEF Comes
      <4>4. QED  BY <1>2, <4>3
    <3>5. QED  BY <3>3, <3>4
  <2>5. CASE MoveManifestNode(n) \/ RollbackNode(n)
    <3>1. run.stage = "MOVE_MANIFEST"
      BY <2>5 DEF MoveManifestNode, RollbackNode, At
    <3>2. manifests' = Moved(n, TRUE, FALSE) \/ manifests' = Moved(n, FALSE, TRUE) \/ manifests' = manifests
      BY <2>5 DEF MoveManifestNode, RollbackNode
    <3>3. QED  BY <2>4, <3>1, <3>2
  <2>6. QED  BY <2>1, <2>3, <2>5
<1>3. QED  BY <1>1, <1>2, WhoChanges

LEMMA UploadKept ==
  ASSUME TypeInv, UploadInv, RunGoesOn, [Next]_vars, \A n \in Nodes : local'[n] \subseteq local[n]
  PROVE  UploadInv'
<1> USE DEF UploadInv
<1>0. \A n \in Nodes : \A t : Remains(local'[n], t) \subseteq Remains(local[n], t)
  BY DEF Remains
<1>1. \A m \in manifests' : ~m.temp => Remains(local'[m.node], m.tag) = {}
  <2>1. SUFFICES ASSUME NEW m \in manifests', ~m.temp PROVE Remains(local'[m.node], m.tag) = {}
    OBVIOUS
  <2>2. m.node \in Nodes
    BY NewManifests DEF Comes, TypeInv, LocationTypes, ManifestType
  <2>3. CASE m \in manifests
    BY <1>0, <2>1, <2>2, <2>3 DEF NothingLeft
  <2>4. CASE Comes(m)
    <3>1. run.stage = "MOVE_MANIFEST" /\ ~Idle /\ m.tag = run.tag
      BY <2>1, <2>4, Zenon DEF Comes
    <3>2. Remains(local[m.node], m.tag) = {}
      BY <2>2, <3>1 DEF NothingLeft, Reached
    <3>3. QED  BY <1>0, <2>2, <3>2
  <2>5. QED  BY <2>3, <2>4, NewManifests
<1>2. \A k \in Tasks : \A i \in DOMAIN rows'[k] : rows'[k][i].stage = "MOVE_MANIFEST" => \A n \in Nodes : Remains(local'[n], rows'[k][i].tag) = {}
  BY <1>0 DEF NothingLeft, RunGoesOn
<1>3. CASE run' = run
  <2>1. IndexInv'
    BY <1>0, <1>3 DEF IndexInv, After, Idle
  <2>2. Reached({"MOVE_MANIFEST"})' => \A n \in Nodes : Remains(local'[n], run'.tag) = {}
    BY <1>0, <1>3 DEF NothingLeft, Reached, Idle
  <2>3. QED  BY <1>1, <1>2, <2>1, <2>2 DEF NothingLeft
<1>4. CASE run' = NoRun
  <2>1. Idle'
    BY <1>4 DEF Idle, NoRun
  <2>2. QED  BY <1>1, <1>2, <2>1 DEF NothingLeft, IndexInv, Reached
<1>5. CASE SameStage
  <2>1. /\ run \in RunState /\ run' \in RunState /\ ~Idle
        /\ run'.tag = run.tag /\ run'.prev = run.prev /\ run'.stage = run.stage
    BY <1>5, RunIs DEF SameStage, TypeInv, RunState
  <2>2. Reached({"MOVE_MANIFEST"})' => \A n \in Nodes : Remains(local'[n], run'.tag) = {}
    <3>1. Reached({"MOVE_MANIFEST"})' => Reached({"MOVE_MANIFEST"})
      BY <2>1 DEF Reached
    <3>2. QED  BY <1>0, <2>1, <3>1 DEF NothingLeft
  <2>3. ASSUME NEW n \in Nodes
        PROVE  /\ run.stage \in {"INIT", "SNAPSHOT", "AWAIT_SCHEMA"} => run'.index[n] = {}
               /\ After({"MANIFEST", "SCHEMA", "DEDUPLICATE", "UPLOAD"}, "INDEX", n)' => Remains(local'[n], run.tag) \subseteq run'.index[n]
               /\ After({}, "UPLOAD", n)' => Remains(local'[n], run.tag) = {}
    <3>1. run.stage \in {"INIT", "SNAPSHOT", "AWAIT_SCHEMA"} => run'.index[n] = {}
      BY <1>5, <2>1 DEF SameStage, IndexInv
    <3>2. run.stage \in {"MANIFEST", "SCHEMA", "DEDUPLICATE", "UPLOAD"} => Remains(local'[n], run.tag) \subseteq run'.index[n]
      BY <1>0, <1>5, <2>1 DEF SameStage, IndexInv, After
    <3>3. ASSUME run.stage \in {"INDEX", "UPLOAD"}, n \notin run'.todo, ~run'.err
          PROVE  n \in run.todo => PartDone(n)
      BY <1>5, <3>3 DEF SameStage
    <3>4. ASSUME run.stage = "INDEX", n \notin run'.todo, ~run'.err
          PROVE  Remains(local'[n], run.tag) \subseteq run'.index[n]
      <4>1. CASE n \in run.todo
        BY <1>0, <3>3, <3>4, <4>1 DEF PartDone
      <4>2. CASE n \notin run.todo
        <5>1. ~run.err
          BY <1>5, <3>4 DEF SameStage
        <5>2. Remains(local[n], run.tag) \subseteq run.index[n]
          BY <2>1, <3>4, <4>2, <5>1 DEF IndexInv, After
        <5>3. run'.index[n] = run.index[n] \/ run'.index[n] = Remains(local[n], run.tag)
          BY <1>5 DEF SameStage
        <5>4. QED  BY <1>0, <5>2, <5>3
      <4>3. QED  BY <4>1, <4>2
    <3>5. ASSUME run.stage = "UPLOAD", n \notin run'.todo, ~run'.err
          PROVE  Remains(local'[n], run.tag) = {}
      <4>1. Remains(local[n], run.tag) \subseteq run.index[n]
        BY <2>1, <3>5 DEF IndexInv, After
      <4>2. CASE n \in run.todo
        BY <1>0, <3>3, <3>5, <4>1, <4>2 DEF PartDone
      <4>3. CASE n \notin run.todo
        <5>1. ~run.err
          BY <1>5, <3>5 DEF SameStage
        <5>2. Remains(local[n], run.tag) = {}
          BY <2>1, <3>5, <4>3, <5>1 DEF IndexInv, After
        <5>3. QED  BY <1>0, <5>2
      <4>4. QED  BY <4>2, <4>3
    <3>6. After({"MANIFEST", "SCHEMA", "DEDUPLICATE", "UPLOAD"}, "INDEX", n)' => Remains(local'[n], run.tag) \subseteq run'.index[n]
      BY <2>1, <3>2, <3>4 DEF After
    <3>7. After({}, "UPLOAD", n)' => Remains(local'[n], run.tag) = {}
      BY <2>1, <3>5 DEF After
    <3>8. QED  BY <3>1, <3>6, <3>7
  <2>4. IndexInv'
    BY <2>1, <2>3 DEF IndexInv
  <2>5. QED  BY <1>1, <1>2, <2>2, <2>4 DEF NothingLeft
<1>6. QED  BY <1>3, <1>4, <1>5 DEF RunGoesOn

LEMMA UploadStep ==
  ASSUME TypeInv, TagsOfTasks, ControlInv, LeftInv, UploadInv, [Next]_vars PROVE UploadInv'
<1> USE DEF UploadInv
<1>0. /\ local \in [Nodes -> SUBSET (Tags \X Names)] /\ manifests \subseteq ManifestType
  BY DEF TypeInv, AgentTypes, LocationTypes
<1>1. CASE Snapshotting
  <2>1. PICK n \in Nodes : SnapshotNode(n)
    BY <1>1 DEF Snapshotting
  <2>2. run.stage = "SNAPSHOT" /\ n \in run.todo /\ run \in RunState /\ ~Idle
    BY <2>1, RunIs, StageNumbers DEF SnapshotNode, At, TypeInv
  <2>3. (\A x \in Nodes : \A f \in local'[x] : f \in local[x] \/ f[1] = run.tag) /\ (Ok(n) \/ Err(n))
    BY <1>0, <2>1 DEF SnapshotNode
  <2>4. UNCHANGED <<manifests, rows>>
    BY <2>1 DEF SnapshotNode, location
  <2>5. run.prev = "none" /\ run.tag \in Nat /\ \A m \in manifests : m.tag < run.tag
    BY <2>2 DEF TypeInv, TagIsNew, Beginning, RunState, Tags
  <2>6. run'.tag = run.tag /\ run'.prev = run.prev /\ run'.stage = run.stage /\ run'.index = run.index
    BY <2>2, <2>3, NodeDone
  <2>7. \A x \in Nodes : \A t : t # run.tag => Remains(local'[x], t) \subseteq Remains(local[x], t)
    BY <2>3 DEF Remains
  <2>8. IndexInv'
    BY <2>2, <2>6 DEF IndexInv, After
  <2>9. \A m \in manifests : ~m.temp => Remains(local'[m.node], m.tag) = {}
    <3>1. \A m \in manifests : m.node \in Nodes /\ m.tag # run.tag
      BY <1>0, <2>5 DEF ManifestType, Tags
    <3>2. QED  BY <2>7, <3>1 DEF NothingLeft
  <2>10. ASSUME NEW k \in Tasks, NEW i \in DOMAIN rows[k], rows[k][i].stage = "MOVE_MANIFEST", NEW x \in Nodes
         PROVE  Remains(local'[x], rows[k][i].tag) = {}
    <3>1. rows[k][i].tag # run.tag
      <4>1. SUFFICES ASSUME rows[k][i].tag = run.tag PROVE FALSE
        OBVIOUS
      <4>2. run.task \in Tasks
        BY <2>2 DEF RunState
      <4>3. k = run.task
        BY <2>2, <2>10, <4>1, <4>2 DEF TagsOfTasks
      <4>4. DOMAIN rows[k] = 1 .. Len(rows[k]) /\ Len(rows[k]) \in Nat
        BY LenProperties DEF TypeInv, RunTypes
      <4>5. i = Len(rows[k])
        BY <2>2, <2>5, <4>1, <4>3, <4>4 DEF ControlInv, RowOfRun
      <4>6. QED  BY <2>2, <2>10, <4>3, <4>5 DEF ControlInv, RowOfRun, LastRow
    <3>2. PICK t : t = rows[k][i].tag
      OBVIOUS
    <3>3. Remains(local[x], t) = {}
      BY <2>10, <3>2 DEF NothingLeft
    <3>4. Remains(local'[x], t) = {}
      BY <2>7, <3>1, <3>2, <3>3
    <3>5. QED  BY <2>4, <3>2, <3>4 DEF Left
  <2>11. ~Reached({"MOVE_MANIFEST"})'
    BY <2>2, <2>5, <2>6 DEF Reached
  <2>12. QED  BY <2>4, <2>8, <2>9, <2>10, <2>11 DEF NothingLeft
<1>2. CASE ~Snapshotting
  <2>1. \A n \in Nodes : local'[n] \subseteq local[n]
    BY <1>2, LocalShrinks DEF LeftInv
  <2>2. CASE RunGoesOn
    BY <2>1, <2>2, UploadKept
  <2>3. CASE NextStage
    <3>1. PICK s \in Stages, k \in Tasks : Advances(s, k)
      BY <2>3, StageFacts DEF ControlInv
    <3>2. UNCHANGED <<local, manifests>>
      BY <2>3 DEF NextStage, location, agents
    <3>3. /\ NextOf(s) /\ ~Idle /\ ~Idle' /\ run.todo = {} /\ ~run.err
          /\ run'.stage = s /\ run'.prev = run.prev /\ run'.tag = run.tag /\ run'.index = run.index
          /\ s \in NodeStages => run'.todo = Nodes
      BY <3>1 DEF Advances
    <3>4. s = "MOVE_MANIFEST" \/ run.prev = "MOVE_MANIFEST" => \A n \in Nodes : Remains(local[n], run.tag) = {}
      <4>1. CASE run.stage = "UPLOAD"
        BY <3>3, <4>1 DEF IndexInv, After
      <4>2. CASE run.prev = "MOVE_MANIFEST"
        BY <3>3, <4>2 DEF NothingLeft, Reached
      <4>3. QED  BY <3>3, <4>1, <4>2 DEF NextOf
    <3>5. ASSUME NEW n \in Nodes
          PROVE  /\ s \in {"INIT", "SNAPSHOT", "AWAIT_SCHEMA"} => run.index[n] = {}
                 /\ After({"MANIFEST", "SCHEMA", "DEDUPLICATE", "UPLOAD"}, "INDEX", n)' => Remains(local[n], run.tag) \subseteq run.index[n]
                 /\ ~After({}, "UPLOAD", n)'
      <4>1. s \in {"INIT", "SNAPSHOT", "AWAIT_SCHEMA"} => run.index[n] = {}
        BY <3>3 DEF IndexInv, NextOf
      <4>2. s \in {"MANIFEST", "SCHEMA", "DEDUPLICATE", "UPLOAD"} => run.stage \in {"INDEX", "MANIFEST", "SCHEMA", "DEDUPLICATE"}
        BY <3>3 DEF NextOf
      <4>3. run.stage \in {"INDEX", "MANIFEST", "SCHEMA", "DEDUPLICATE"} => Remains(local[n], run.tag) \subseteq run.index[n]
        BY <3>3 DEF IndexInv, After
      <4>4. s \in {"INDEX", "UPLOAD"} => n \in run'.todo
        BY <3>3 DEF NodeStages
      <4>5. QED  BY <3>3, <4>1, <4>2, <4>3, <4>4 DEF After
    <3>6. IndexInv'
      BY <3>2, <3>3, <3>5 DEF IndexInv
    <3>7. ASSUME NEW x \in Tasks, NEW i \in DOMAIN rows'[x], rows'[x][i].stage = "MOVE_MANIFEST", NEW n \in Nodes
          PROVE  Remains(local[n], rows'[x][i].tag) = {}
      <4>1. \/ rows'[x][i].stage = s /\ rows'[x][i].tag = run.tag
            \/ i \in DOMAIN rows[x] /\ rows'[x][i] = rows[x][i]
        BY <3>1, AdvancedRows DEF ControlInv
      <4>2. CASE rows'[x][i].stage = s /\ rows'[x][i].tag = run.tag
        BY <3>4, <3>7, <4>2
      <4>3. CASE i \in DOMAIN rows[x] /\ rows'[x][i] = rows[x][i]
        BY <3>7, <4>3 DEF NothingLeft
      <4>4. QED  BY <4>1, <4>2, <4>3
    <3>8. Reached({"MOVE_MANIFEST"})' => \A n \in Nodes : Remains(local[n], run.tag) = {}
      BY <3>3, <3>4 DEF Reached
    <3>9. QED  BY <3>2, <3>3, <3>6, <3>7, <3>8 DEF NothingLeft
  <2>4. CASE \E k \in Tasks : Start(k)
    <3>0. PICK k \in Tasks : Start(k)
      BY <2>4
    <3>1. PICK tag \in Tags, prev \in Resumable \cup {"none"}, only \in BOOLEAN, stage \in Stages : Begins(k, tag, prev, only, stage)
      BY <3>0, BeginFacts
    <3>2. UNCHANGED <<local, manifests>>
      BY <3>0 DEF Start, location, agents
    <3>3. run'.stage = "INIT" /\ run'.prev = prev /\ run'.tag = tag /\ run'.index = NoFiles
      BY <3>1 DEF Begins
    <3>4. prev = "MOVE_MANIFEST" => \A n \in Nodes : Remains(local[n], tag) = {}
      BY <3>1, BegunRows DEF NothingLeft
    <3>5. IndexInv'
      BY <3>3 DEF IndexInv, After, NoFiles
    <3>6. ASSUME NEW x \in Tasks, NEW i \in DOMAIN rows'[x], rows'[x][i].stage = "MOVE_MANIFEST", NEW n \in Nodes
          PROVE  Remains(local[n], rows'[x][i].tag) = {}
      <4>1. \/ rows'[x][i].tag = tag /\ (prev # "none" => rows'[x][i].stage = prev) /\ (prev = "none" => rows'[x][i].stage = "INIT")
            \/ i \in DOMAIN rows[x] /\ rows'[x][i] = rows[x][i]
        BY <3>1, BegunRows
      <4>2. CASE rows'[x][i].tag = tag /\ (prev # "none" => rows'[x][i].stage = prev) /\ (prev = "none" => rows'[x][i].stage = "INIT")
        BY <3>4, <3>6, <4>2
      <4>3. CASE i \in DOMAIN rows[x] /\ rows'[x][i] = rows[x][i]
        BY <3>6, <4>3 DEF NothingLeft
      <4>4. QED  BY <4>1, <4>2, <4>3
    <3>7. Reached({"MOVE_MANIFEST"})' => \A n \in Nodes : Remains(local[n], tag) = {}
      BY <3>3, <3>4 DEF Reached
    <3>8. QED  BY <3>2, <3>3, <3>5, <3>6, <3>7 DEF NothingLeft
  <2>5. QED  BY <2>2, <2>3, <2>4, RunEffect
<1>3. QED  BY <1>1, <1>2

-----------------------------------------------------------------------------
(* The run that uploads a temporary manifest of its tag has not moved any. *)
LEMMA NoRegularYet ==
  ASSUME TypeInv, ControlInv, ManifestInv, run.stage = "MANIFEST", NEW m \in manifests, m.task = run.task, m.tag = run.tag
  PROVE  m.temp
<1>1. SUFFICES ASSUME ~m.temp PROVE FALSE
  OBVIOUS
<1>2. ~Idle /\ run \in RunState
  BY RunIs, StageNumbers DEF TypeInv
<1>3. run.task \in Tasks
  BY <1>2 DEF RunState
<1>4. PICK i \in DOMAIN rows[run.task] : rows[run.task][i].tag = run.tag /\ rows[run.task][i].stage \in Late
  BY <1>1 DEF ManifestInv, RegularIsLate
<1>5. DOMAIN rows[run.task] = 1 .. Len(rows[run.task]) /\ Len(rows[run.task]) \in Nat
  BY <1>3, LenProperties DEF TypeInv, RunTypes
<1>6. Len(rows[run.task]) \in i .. Len(rows[run.task])
  BY <1>4, <1>5
<1>7. LastRow(run.task).tag = run.tag /\ LastRow(run.task).stage = "MANIFEST"
  BY <1>2 DEF ControlInv, RowOfRun
<1>8. LastRow(run.task).stage \in Late
  BY <1>3, <1>4, <1>6, <1>7 DEF ControlInv, RowsLate, LastRow
<1>9. QED  BY <1>7, <1>8 DEF Late

(* The last row of the run that moves manifests is late. *)
LEMMA LateRow ==
  ASSUME TypeInv, ControlInv, run.stage = "MOVE_MANIFEST"
  PROVE  \E i \in DOMAIN rows[run.task] : rows[run.task][i].tag = run.tag /\ rows[run.task][i].stage \in Late
<1>1. ~Idle /\ run \in RunState
  BY RunIs, StageNumbers DEF TypeInv
<1>2. run.task \in Tasks /\ Len(rows[run.task]) > 0
  BY <1>1 DEF RunState, TypeInv, RunTypes
<1>3. DOMAIN rows[run.task] = 1 .. Len(rows[run.task]) /\ Len(rows[run.task]) \in Nat
  BY <1>2, LenProperties DEF TypeInv, RunTypes
<1>4. Len(rows[run.task]) \in DOMAIN rows[run.task]
  BY <1>2, <1>3
<1>5. LastRow(run.task).tag = run.tag /\ LastRow(run.task).stage = "MOVE_MANIFEST"
  BY <1>1 DEF ControlInv, RowOfRun
<1>6. QED  BY <1>4, <1>5 DEF LastRow, Late

LEMMA ManifestStep ==
  ASSUME TypeInv, ControlInv, ManifestInv, [Next]_vars PROVE ManifestInv'
<1> USE DEF ManifestInv
<1>0. LocationTypes
  BY DEF TypeInv
<1>1. NotShadowed'
  <2>1. CASE manifests' \subseteq manifests
    BY <2>1 DEF NotShadowed
  <2>2. CASE Manifesting
    <3>1. PICK n \in Nodes : ManifestNode(n) \/ MoveManifestNode(n) \/ RollbackNode(n)
      BY <2>2 DEF Manifesting
    <3>2. run \in RunState
      BY <2>2, ManifestsOfRun
    <3>3. CASE ManifestNode(n)
      <4>1. PICK h : h = Manifest(n, TRUE)
        OBVIOUS
      <4>2. run.stage = "MANIFEST" /\ manifests' = {m \in manifests : ~SamePath(m, h)} \cup {h}
        BY <3>3, <4>1 DEF ManifestNode, At
      <4>3. h.node = n /\ h.task = run.task /\ h.tag = run.tag /\ h.temp = TRUE
        BY <4>1 DEF Manifest
      <4>4. ASSUME NEW a \in manifests, ~SamePath(a, h), a.node = h.node, a.task = h.task, a.tag = h.tag PROVE FALSE
        <5>1. a.temp
          BY <4>2, <4>3, <4>4, NoRegularYet
        <5>2. a.temp = TRUE
          BY <1>0, <5>1 DEF LocationTypes, ManifestType
        <5>3. QED  BY <4>3, <4>4, <5>2 DEF SamePath
      <4>5. QED  BY <4>2, <4>4 DEF NotShadowed
    <3>4. ASSUME NEW from \in BOOLEAN, NEW to \in BOOLEAN, from # to, manifests' = Moved(n, from, to) PROVE NotShadowed'
      <4>1. \A m \in manifests' :
             \/ /\ m \in manifests
                /\ m.node = n /\ m.task = run.task /\ m.tag = run.tag => manifests' = manifests
             \/ /\ m.node = n /\ m.task = run.task /\ m.tag = run.tag /\ m.temp = to /\ m \in ManifestType
                /\ \E o \in manifests : /\ o.node = n /\ o.task = run.task /\ o.tag = run.tag /\ o.temp = from
                                        /\ m = [o EXCEPT !.temp = to] /\ m.files = o.files /\ m.schema = o.schema
        BY <1>0, <3>2, <3>4, MovedFacts
      <4>2. SUFFICES ASSUME NEW a \in manifests', NEW b \in manifests', a.node = b.node, a.task = b.task, a.tag = b.tag PROVE a = b
        BY DEF NotShadowed
      <4>3. CASE manifests' = manifests
        BY <4>2, <4>3 DEF NotShadowed
      <4>4. CASE manifests' # manifests
        <5>1. CASE a.node = n /\ a.task = run.task /\ a.tag = run.tag
          <6>1. PICK o \in manifests : o.node = n /\ o.task = run.task /\ o.tag = run.tag /\ a = [o EXCEPT !.temp = to]
            BY <4>1, <4>4, <5>1, Zenon
          <6>2. PICK p \in manifests : p.node = n /\ p.task = run.task /\ p.tag = run.tag /\ b = [p EXCEPT !.temp = to]
            BY <4>1, <4>2, <4>4, <5>1, Zenon
          <6>3. o = p
            BY <6>1, <6>2 DEF NotShadowed
          <6>4. QED  BY <6>1, <6>2, <6>3
        <5>2. CASE ~(a.node = n /\ a.task = run.task /\ a.tag = run.tag)
          <6>1. a \in manifests /\ b \in manifests
            BY <4>1, <4>2, <5>2, Zenon
          <6>2. QED  BY <4>2, <6>1 DEF NotShadowed
        <5>3. QED  BY <5>1, <5>2
      <4>5. QED  BY <4>3, <4>4
    <3>5. CASE MoveManifestNode(n) \/ RollbackNode(n)
      <4>1. manifests' = Moved(n, TRUE, FALSE) \/ manifests' = Moved(n, FALSE, TRUE) \/ manifests' = manifests
        BY <3>5 DEF MoveManifestNode, RollbackNode
      <4>2. QED  BY <2>1, <3>4, <4>1
    <3>6. QED  BY <3>1, <3>3, <3>5
  <2>3. QED  BY <2>1, <2>2, WhoChanges
<1>2. RegularIsLate'
  <2>1. SUFFICES ASSUME NEW m \in manifests', ~m.temp
                 PROVE  \E i \in DOMAIN rows'[m.task] : rows'[m.task][i].tag = m.tag /\ rows'[m.task][i].stage \in Late
    BY DEF RegularIsLate
  <2>2. m.task \in Tasks /\ \E i \in DOMAIN rows[m.task] : rows[m.task][i].tag = m.tag /\ rows[m.task][i].stage \in Late
    <3>1. CASE m \in manifests
      BY <1>0, <2>1, <3>1 DEF RegularIsLate, LocationTypes, ManifestType
    <3>2. CASE Comes(m)
      <4>1. m.task = run.task /\ m.tag = run.tag /\ run \in RunState
        BY <3>2 DEF Comes
      <4>2. run.stage = "MOVE_MANIFEST"
        BY <2>1, <3>2, Zenon DEF Comes
      <4>3. QED  BY <4>1, <4>2, LateRow DEF RunState
    <3>3. QED  BY <3>1, <3>2, NewManifests
  <2>3. PICK i \in DOMAIN rows[m.task] : rows[m.task][i].tag = m.tag /\ rows[m.task][i].stage \in Late
    BY <2>2
  <2>4. CASE RunGoesOn
    BY <2>2, <2>4 DEF RunGoesOn
  <2>5. CASE NextStage
    <3>1. PICK s \in Stages, k \in Tasks : Advances(s, k)
      BY <2>5, StageFacts DEF ControlInv
    <3>2. CASE m.task = k /\ i = Len(rows[k])
      <4>1. run.stage \in Late \/ (run.stage = "INIT" /\ run.prev \in Late)
        <5>1. run.stage # "INIT" => LastRow(k).stage = run.stage
          BY <3>1 DEF Advances, ControlInv, RowOfRun
        <5>2. run.stage = "INIT" => LastRow(k).stage = IF run.prev = "none" THEN "INIT" ELSE run.prev
          BY <3>1 DEF Advances, ControlInv, RowOfRun
        <5>3. QED  BY <2>3, <3>2, <5>1, <5>2 DEF LastRow, Late
      <4>2. s \in Late
        BY <3>1, <4>1 DEF Advances, NextOf
      <4>3. i \in DOMAIN rows'[k] /\ rows'[k][i].stage = s /\ rows'[k][i].tag = rows[k][i].tag
        BY <2>3, <3>1, <3>2 DEF Advances
      <4>4. QED  BY <2>3, <3>2, <4>2, <4>3
    <3>3. CASE ~(m.task = k /\ i = Len(rows[k]))
      <4>1. i \in DOMAIN rows'[m.task] /\ rows'[m.task][i] = rows[m.task][i]
        BY <2>2, <2>3, <3>1, <3>3, AdvancedRows DEF ControlInv
      <4>2. QED  BY <2>3, <4>1
    <3>4. QED  BY <3>2, <3>3
  <2>6. CASE \E k \in Tasks : Start(k)
    <3>0. PICK k \in Tasks : Start(k)
      BY <2>6
    <3>1. PICK tag \in Tags, prev \in Resumable \cup {"none"}, only \in BOOLEAN, stage \in Stages : Begins(k, tag, prev, only, stage)
      BY <3>0, BeginFacts
    <3>2. i \in DOMAIN rows'[m.task] /\ rows'[m.task][i] = rows[m.task][i]
      BY <2>2, <2>3, <3>1, BegunRows
    <3>3. QED  BY <2>3, <3>2
  <2>7. QED  BY <2>4, <2>5, <2>6, RunEffect
<1>3. QED  BY <1>1, <1>2

-----------------------------------------------------------------------------
(* No run starts under a call. *)
LEMMA IdleInCall ==
  ASSUME Beside = {}, TypeInv, Idle, purges["delete"] # NoPurge \/ val # NoValidation, [Next]_vars
  PROVE  Idle'
<1>1. CASE RunGoesOn
  BY <1>1, RunIs DEF RunGoesOn, SameStage, TypeInv, Idle, NoRun, RunState
<1>2. CASE NextStage
  BY <1>2 DEF NextStage
<1>3. CASE \E k \in Tasks : Start(k)
  <2>1. InCall = {}
    BY <1>3 DEF Start
  <2>2. QED  BY <2>1 DEF InCall, Calls
<1>4. QED  BY <1>1, <1>2, <1>3, RunEffect

(* Which steps change the purges under way. *)
LEMMA PurgesEffect ==
  ASSUME TypeInv, [Next]_vars
  PROVE  \/ PurgeDecide \/ DeleteSnapshot \/ Purging
         \/ \A c \in {"run", "delete"} : purges'[c] = purges[c] \/ purges'[c] = NoPurge
<1>0. purges = [c \in {"run", "delete"} |-> purges[c]]
  BY DEF TypeInv, RunTypes
<1>1. ASSUME NEW n \in Nodes, Worker(n) PROVE UNCHANGED purges
  BY <1>1 DEF Worker, SnapshotNode, AwaitSchema, IndexNode, ManifestNode, Schema, DeduplicateNode, UploadNode, UploadDone,
              UploadFails, MoveManifestNode, RollbackNode, NodeFails
<1>2. ASSUME NEW n \in Nodes, Agent(n) \/ ValidateStart(n) \/ DeleteLocalSnapshots(n) PROVE UNCHANGED purges
  BY <1>2 DEF Agent, JobEnds, RenameFile, MoveFile, AgentRestart, ValidateStart, DeleteLocalSnapshots
<1>3. RollbackMoveManifest \/ ValidateRead \/ ValidateScan \/ ValidateDelete \/ Interrupt \/ Tick \/ (\E k \in Tasks : Start(k))
        \/ UNCHANGED vars => UNCHANGED purges
  BY DEF RollbackMoveManifest, ValidateRead, ValidateScan, ValidateDelete, Interrupt, Tick, Start, vars
<1>4. NextStage \/ End \/ DeleteEnds \/ Crash => \A c \in {"run", "delete"} : purges'[c] = purges[c] \/ purges'[c] = NoPurge
  BY <1>0 DEF NextStage, End, DeleteEnds, Crash
<1>5. QED  BY <1>1, <1>2, <1>3, <1>4 DEF Next

(* No path has both its manifests, so none is left out. *)
LEMMA FilterIsAll ==
  ASSUME TypeInv, NotShadowed PROVE FilterShadowedTemporaryManifests(manifests) = manifests
<1>0. manifests \subseteq ManifestType
  BY DEF TypeInv, LocationTypes
<1>1. SUFFICES ASSUME NEW m \in manifests, m.temp, NEW r \in manifests, SamePath(r, [m EXCEPT !.temp = FALSE]) PROVE FALSE
  BY DEF FilterShadowedTemporaryManifests
<1>2. r.node = m.node /\ r.task = m.task /\ r.tag = m.tag /\ r.temp = FALSE
  BY <1>0, <1>1 DEF SamePath, ManifestType
<1>3. r = m
  BY <1>2 DEF NotShadowed
<1>4. QED  BY <1>1, <1>2, <1>3

(* A decision on all the manifests that are listed. *)
LEMMA DecisionFacts ==
  ASSUME TypeInv, NotShadowed, NEW tags \in SUBSET Tags, NEW groups \in SUBSET (SUBSET Nodes),
         doomed' = doomed \cup tags, manifests' = manifests
  PROVE  PurgeOk(Decision(FilterShadowedTemporaryManifests(manifests), tags, groups))'
<1>0. manifests \subseteq ManifestType
  BY DEF TypeInv, LocationTypes
<1>1. PICK ms : ms = FilterShadowedTemporaryManifests(manifests)
  OBVIOUS
<1>2. ms = manifests
  BY <1>1, FilterIsAll
<1>3. PICK kept : kept = TagsOf(ms) \ tags
  OBVIOUS
<1>4. kept \in SUBSET Nat
  BY <1>0, <1>2, <1>3, TagsOfTypes DEF Tags
<1>5. PICK oldest : oldest = OldestKeptTag(ms, tags)
  OBVIOUS
<1>6. oldest = IF kept = {} THEN 0 ELSE Min(kept)
  BY <1>3, <1>5 DEF OldestKeptTag
<1>7. oldest \in Nat /\ \A t \in kept : oldest <= t
  <2>1. CASE kept = {}
    BY <1>6, <2>1
  <2>2. CASE kept # {}
    <3>1. \E x \in kept : \A y \in kept : x <= y
      BY <1>4, <2>2, LeastNat
    <3>2. oldest = CHOOSE x \in kept : \A y \in kept : x <= y
      BY <1>6, <2>2 DEF Min
    <3>3. oldest \in kept /\ \A y \in kept : oldest <= y
      BY <3>1, <3>2
    <3>4. QED  BY <1>4, <3>3
  <2>3. QED  BY <2>1, <2>2
<1>8. PICK p : p = Decision(ms, tags, groups)
  OBVIOUS
<1>9. /\ p.list = ms /\ p.tags = tags /\ p.oldest = oldest
      /\ p \in PurgeState
  BY <1>0, <1>2, <1>5, <1>7, <1>8 DEF Decision, PurgeState
<1>10. ASSUME NEW m \in manifests, m.tag \notin doomed \cup tags
       PROVE  (\E l \in p.list : SamePath(m, l)) /\ (p.oldest # 0 => p.oldest <= m.tag)
  <2>1. m.tag \in kept
    BY <1>2, <1>3, <1>10 DEF TagsOf
  <2>2. SamePath(m, m)
    BY DEF SamePath
  <2>3. QED  BY <1>2, <1>7, <1>9, <2>1, <2>2
<1>11. p.tags \subseteq doomed'
  BY <1>9
<1>12. QED  BY <1>1, <1>8, <1>9, <1>10, <1>11 DEF PurgeOk

LEMMA PurgeInvStep ==
  ASSUME Beside = {}, TypeInv, NotShadowed, PurgeInv, [Next]_vars PROVE PurgeInv'
<1> USE DEF location, agents, bounds
<1>0. /\ manifests \subseteq ManifestType /\ purges = [c \in {"run", "delete"} |-> purges[c]]
      /\ (purges["run"] # NoPurge => run.stage = "PURGE") /\ doomed \subseteq doomed'
  BY WhoChanges DEF TypeInv, LocationTypes, RunTypes
<1>1. ASSUME NEW p, PurgeOk(p), manifests' \subseteq manifests PROVE PurgeOk(p)'
  BY <1>0, <1>1 DEF PurgeOk
<1>2. CASE PurgeDecide
  <2>1. PICK tags : tags = StaleTags(FilterShadowedTemporaryManifests(manifests), Retention, clock)
    OBVIOUS
  <2>2. tags \in SUBSET Tags
    <3>1. FilterShadowedTemporaryManifests(manifests) \subseteq ManifestType
      BY <1>0, FilterIsSubset
    <3>2. QED  BY <2>1, <3>1, StaleTagsAreListed, TagsOfTypes
  <2>3. PICK groups : groups = {{n} : n \in run.todo}
    OBVIOUS
  <2>4. groups \in SUBSET (SUBSET Nodes)
    <3>1. run.todo \subseteq Nodes
      BY <1>2, RunIs, StageNumbers DEF PurgeDecide, TypeInv, RunState
    <3>2. QED  BY <2>3, <3>1
  <2>5. /\ purges' = [purges EXCEPT !["run"] = Decision(FilterShadowedTemporaryManifests(manifests), tags, groups)]
        /\ doomed' = doomed \cup tags /\ UNCHANGED <<manifests, run>>
    BY <1>2, <2>1, <2>3 DEF PurgeDecide
  <2>6. PICK p : p = Decision(FilterShadowedTemporaryManifests(manifests), tags, groups)
    OBVIOUS
  <2>7. PurgeOk(p)'
    <3>1. PurgeOk(Decision(FilterShadowedTemporaryManifests(manifests), tags, groups))'
      BY <2>2, <2>4, <2>5, DecisionFacts
    <3>2. QED  BY <2>5, <2>6, <3>1
  <2>8. purges'["run"] = p /\ purges'["delete"] = purges["delete"]
    BY <1>0, <2>5, <2>6
  <2>9. purges["delete"] # NoPurge => PurgeOk(purges["delete"])' /\ Idle'
    <3>1. SUFFICES ASSUME purges["delete"] # NoPurge PROVE Idle
      BY <1>2, RunIs, StageNumbers DEF PurgeDecide, TypeInv
    <3>2. QED  BY <3>1 DEF PurgeInv
  <2>10. QED
    <3>1. ~Idle /\ (purges["delete"] # NoPurge => Idle)
      BY <1>2, RunIs, StageNumbers DEF PurgeDecide, TypeInv, PurgeInv
    <3>2. purges'["delete"] = NoPurge
      BY <2>8, <3>1
    <3>3. PICK q : q = purges'["run"]
      OBVIOUS
    <3>4. PurgeOk(q)'
      BY <2>7, <2>8, <3>3
    <3>5. QED  BY <3>2, <3>3, <3>4 DEF PurgeInv, PurgeOk
<1>3. CASE DeleteSnapshot
  <2>1. PICK tag \in TagsOf(manifests) :
          /\ purges' = [purges EXCEPT !["delete"] = Decision(FilterShadowedTemporaryManifests(manifests), {tag}, {Nodes})]
          /\ doomed' = doomed \cup {tag}
    BY <1>3 DEF DeleteSnapshot
  <2>2. UNCHANGED <<manifests, run>> /\ Idle
    BY <1>3 DEF DeleteSnapshot
  <2>3. {tag} \in SUBSET Tags /\ {Nodes} \in SUBSET (SUBSET Nodes)
    BY <1>0, <2>1, TagsOfTypes
  <2>4. PICK p : p = Decision(FilterShadowedTemporaryManifests(manifests), {tag}, {Nodes})
    OBVIOUS
  <2>5. PurgeOk(Decision(FilterShadowedTemporaryManifests(manifests), {tag}, {Nodes}))'
    BY <2>1, <2>2, <2>3, DecisionFacts
  <2>6. PurgeOk(p)'
    BY <2>2, <2>4, <2>5
  <2>7. purges'["delete"] = p /\ purges'["run"] = purges["run"] /\ Idle'
    BY <1>0, <2>1, <2>2, <2>4 DEF Idle
  <2>8. purges["run"] = NoPurge
    BY <1>0, <2>2 DEF Idle
  <2>9. QED  BY <2>6, <2>7, <2>8 DEF PurgeInv, PurgeOk
<1>4. CASE Purging
  <2>1. PICK c \in {"run", "delete"}, g \in {Nodes} \cup {{n} : n \in Nodes} : PurgeFiles(c, g) \/ PurgeManifests(c, g)
    BY <1>4 DEF Purging
  <2>2. purges[c] # NoPurge /\ manifests' \subseteq manifests /\ g \in SUBSET Nodes
    BY <2>1 DEF PurgeFiles, PurgeManifests
  <2>3. PICK p : p = purges[c]
    OBVIOUS
  <2>4. PurgeOk(p)'
    BY <1>1, <2>2, <2>3 DEF PurgeInv, PurgeOk
  <2>5. PICK q : q = purges'[c]
    OBVIOUS
  <2>6. q \in PurgeState /\ q.tags = p.tags /\ q.list = p.list /\ q.oldest = p.oldest
    <3>1. p \in PurgeState
      BY <2>4 DEF PurgeOk
    <3>2. CASE PurgeFiles(c, g)
      <4>1. PICK ok \in BOOLEAN : purges' = [purges EXCEPT ![c].groups = @ \ {g}, ![c].meta = IF ok THEN @ \cup {g} ELSE @]
        BY <3>2 DEF PurgeFiles
      <4>2. q = [p EXCEPT !.groups = @ \ {g}, !.meta = IF ok THEN @ \cup {g} ELSE @]
        BY <1>0, <2>3, <2>5, <4>1
      <4>3. QED  BY <2>2, <3>1, <4>2 DEF PurgeState
    <3>3. CASE PurgeManifests(c, g)
      <4>1. purges' = [purges EXCEPT ![c].meta = @ \ {g}]
        BY <3>3 DEF PurgeManifests
      <4>2. q = [p EXCEPT !.meta = @ \ {g}]
        BY <1>0, <2>3, <2>5, <4>1
      <4>3. QED  BY <2>2, <3>1, <4>2 DEF PurgeState
    <3>4. QED  BY <2>1, <3>2, <3>3
  <2>7. PurgeOk(q)'
    BY <2>4, <2>6 DEF PurgeOk
  <2>8. \A x \in {"run", "delete"} : x # c => purges'[x] = purges[x]
    BY <1>0, <2>1 DEF PurgeFiles, PurgeManifests
  <2>9. c = "delete" \/ purges["delete"] # NoPurge => Idle'
    BY <2>2, IdleInCall DEF PurgeInv
  <2>10. ASSUME NEW x \in {"run", "delete"}, purges'[x] # NoPurge PROVE \E r : r = purges'[x] /\ PurgeOk(r)'
    <3>1. CASE x = c
      BY <2>5, <2>7, <3>1
    <3>2. CASE x # c
      <4>1. PICK r : r = purges[x]
        OBVIOUS
      <4>2. PurgeOk(r)'
        BY <1>1, <2>2, <2>8, <2>10, <3>2, <4>1 DEF PurgeInv, PurgeOk
      <4>3. QED  BY <2>8, <3>2, <4>1, <4>2
    <3>3. QED  BY <3>1, <3>2
  <2>11. purges'["delete"] # NoPurge => Idle'
    BY <2>8, <2>9
  <2>12. QED  BY <2>10, <2>11 DEF PurgeInv, PurgeOk
<1>5. CASE \A c \in {"run", "delete"} : purges'[c] = purges[c] \/ purges'[c] = NoPurge
  <2>1. SUFFICES ASSUME NEW c \in {"run", "delete"}, purges'[c] # NoPurge
                 PROVE  (\E r : r = purges'[c] /\ PurgeOk(r)') /\ (c = "delete" => Idle')
    BY DEF PurgeInv, PurgeOk
  <2>2. purges'[c] = purges[c] /\ purges[c] # NoPurge
    BY <1>5, <2>1
  <2>3. manifests' \subseteq manifests
    <3>1. SUFFICES ASSUME Manifesting PROVE FALSE
      BY WhoChanges
    <3>2. ~Idle /\ run.stage # "PURGE"
      BY <3>1, ManifestsOfRun
    <3>3. QED  BY <1>0, <2>2, <3>2 DEF PurgeInv
  <2>4. PICK r : r = purges[c]
    OBVIOUS
  <2>5. PurgeOk(r)'
    BY <1>1, <2>2, <2>3, <2>4 DEF PurgeInv, PurgeOk
  <2>6. c = "delete" => Idle'
    BY <2>2, IdleInCall DEF PurgeInv
  <2>7. QED  BY <2>2, <2>4, <2>5, <2>6
<1>6. QED  BY <1>2, <1>3, <1>4, <1>5, PurgesEffect

(* Which steps change the validation under way. *)
LEMMA ValidateEffect ==
  ASSUME [Next]_vars
  PROVE  \/ UNCHANGED val \/ val' = NoValidation \/ Uploading \/ (\E n \in Nodes : ValidateStart(n)) \/ ValidateRead \/ ValidateScan
<1>1. ASSUME NEW n \in Nodes, Worker(n) PROVE UNCHANGED val
  BY <1>1 DEF Worker, SnapshotNode, AwaitSchema, IndexNode, ManifestNode, Schema, DeduplicateNode, UploadNode, UploadDone,
              UploadFails, MoveManifestNode, RollbackNode, NodeFails
<1>2. ASSUME NEW n \in Nodes, Agent(n) PROVE UNCHANGED val \/ Uploading
  BY <1>2 DEF Agent, JobEnds, RenameFile, AgentRestart, Uploading
<1>3. Purging => UNCHANGED val
  BY DEF Purging, PurgeFiles, PurgeManifests
<1>4. NextStage \/ End \/ RollbackMoveManifest \/ PurgeDecide \/ DeleteSnapshot \/ DeleteEnds \/ Interrupt \/ Tick \/ UNCHANGED vars
        \/ (\E k \in Tasks : Start(k)) \/ (\E n \in Nodes : DeleteLocalSnapshots(n)) => UNCHANGED val
  BY DEF NextStage, End, RollbackMoveManifest, PurgeDecide, DeleteSnapshot, DeleteEnds, Interrupt, Tick, Start, DeleteLocalSnapshots, vars
<1>5. ValidateDelete \/ Crash => val' = NoValidation
  BY DEF ValidateDelete, Crash
<1>6. QED  BY <1>1, <1>2, <1>3, <1>4, <1>5 DEF Next

LEMMA ValidateInvStep ==
  ASSUME Beside = {}, TypeInv, NotShadowed, ValidateInv, [Next]_vars PROVE ValidateInv'
<1> USE DEF location, agents, bounds
<1>0. manifests \subseteq ManifestType
  BY DEF TypeInv, LocationTypes
<1>1. val = NoValidation \/ (ValidateOk(val) /\ Idle /\ Idle' /\ manifests' \subseteq manifests)
  <2>1. SUFFICES ASSUME val # NoValidation PROVE ValidateOk(val) /\ Idle /\ Idle' /\ manifests' \subseteq manifests
    OBVIOUS
  <2>2. ValidateOk(val) /\ Idle
    BY <2>1 DEF ValidateInv
  <2>3. Idle'
    BY <2>1, <2>2, IdleInCall
  <2>4. manifests' \subseteq manifests
    BY <2>2, WhoChanges, ManifestsOfRun
  <2>5. QED  BY <2>2, <2>3, <2>4
<1>2. ASSUME NEW v, ValidateOk(v), manifests' \subseteq manifests PROVE ValidateOk(v)'
  BY <1>2 DEF ValidateOk
<1>3. SUFFICES ASSUME val' # NoValidation PROVE (\E w : w = val' /\ ValidateOk(w)') /\ Idle'
  BY DEF ValidateInv, ValidateOk
<1>4. PICK v : v = val
  OBVIOUS
<1>5. CASE UNCHANGED val
  <2>1. ValidateOk(v)'
    BY <1>1, <1>2, <1>3, <1>4, <1>5 DEF ValidateOk
  <2>2. QED  BY <1>1, <1>3, <1>4, <1>5, <2>1
<1>6. CASE Uploading
  <2>1. PICK n \in Nodes, x \in Names : \E t \in jobs[n] : MoveFile(n, t, x)
    BY <1>6 DEF Uploading
  <2>2. CASE val' = val
    BY <1>5, <2>2
  <2>3. CASE val' = [val EXCEPT !.fresh = @ \cup {x}] /\ val.state \in {"read", "scan"}
    <3>1. val # NoValidation
      BY <2>3 DEF NoValidation
    <3>2. ValidateOk(v)'
      BY <1>1, <1>2, <1>4, <3>1 DEF ValidateOk
    <3>3. PICK w : w = [v EXCEPT !.fresh = @ \cup {x}]
      OBVIOUS
    <3>4. /\ w \in ValidateState /\ w.state = v.state /\ w.node = v.node /\ w.list = v.list /\ w.files = v.files
          /\ w.orphans = v.orphans
      BY <3>2, <3>3 DEF ValidateOk, ValidateState
    <3>5. ValidateOk(w)'
      BY <3>2, <3>4 DEF ValidateOk
    <3>6. QED  BY <1>1, <1>4, <2>3, <3>1, <3>3, <3>5
  <2>4. PICK t \in jobs[n] : MoveFile(n, t, x)
    BY <2>1
  <2>5. QED  BY <2>2, <2>3, <2>4 DEF MoveFile
<1>7. CASE \E n \in Nodes : ValidateStart(n)
  <2>1. PICK n \in Nodes : ValidateStart(n)
    BY <1>7
  <2>2. PICK ms : ms = {m \in FilterShadowedTemporaryManifests(manifests) : m.node = n}
    OBVIOUS
  <2>3. val' = [state |-> "read", node |-> n, list |-> ms, files |-> {}, fresh |-> {}, orphans |-> {}]
    BY <2>1, <2>2 DEF ValidateStart
  <2>4. UNCHANGED <<manifests, run>> /\ Idle
    BY <2>1 DEF ValidateStart
  <2>5. ms \subseteq manifests
    BY <2>2 DEF FilterShadowedTemporaryManifests
  <2>6. ASSUME NEW m \in manifests, m.node = n PROVE m \in ms
    <3>1. ASSUME m.temp, NEW r \in manifests, SamePath(r, [m EXCEPT !.temp = FALSE]) PROVE FALSE
      <4>1. r.node = m.node /\ r.task = m.task /\ r.tag = m.tag /\ r.temp = FALSE
        BY <1>0, <3>1 DEF SamePath, ManifestType
      <4>2. r = m
        BY <4>1 DEF NotShadowed
      <4>3. QED  BY <3>1, <4>1, <4>2
    <3>2. QED  BY <2>2, <2>6, <3>1 DEF FilterShadowedTemporaryManifests
  <2>7. PICK w : w = [state |-> "read", node |-> n, list |-> ms, files |-> {}, fresh |-> {}, orphans |-> {}]
    OBVIOUS
  <2>8. w \in ValidateState /\ w.state = "read" /\ w.node = n /\ w.list = ms
    BY <1>0, <2>5, <2>7 DEF ValidateState
  <2>9. ValidateOk(w)'
    <3>1. \A m \in manifests : m.node = n => \E l \in ms : SamePath(m, l)
      BY <2>6 DEF SamePath
    <3>2. QED  BY <2>4, <2>8, <3>1 DEF ValidateOk
  <2>10. QED  BY <2>3, <2>4, <2>7, <2>9 DEF Idle
<1>8. CASE ValidateRead
  <2>1. val # NoValidation /\ UNCHANGED manifests /\ v.state = "read"
    BY <1>4, <1>8 DEF ValidateRead, NoValidation
  <2>2. PICK ms : ms = {m \in manifests : \E l \in v.list : SamePath(m, l)}
    OBVIOUS
  <2>3. PICK files : files = UNION {m.files : m \in ms}
    OBVIOUS
  <2>4. val' = [v EXCEPT !.state = "scan", !.files = files]
    BY <1>3, <1>4, <1>8, <2>2, <2>3 DEF ValidateRead
  <2>5. PICK w : w = [v EXCEPT !.state = "scan", !.files = files]
    OBVIOUS
  <2>6. files \subseteq Names
    BY <1>0, <2>2, <2>3 DEF ManifestType
  <2>7. v \in ValidateState /\ \A m \in manifests : m.node = v.node => \E l \in v.list : SamePath(m, l)
    BY <1>1, <1>4, <2>1 DEF ValidateOk
  <2>8. w \in ValidateState /\ w.state = "scan" /\ w.node = v.node /\ w.files = files
    BY <2>5, <2>6, <2>7 DEF ValidateState
  <2>9. \A m \in manifests : m.node = v.node => m.files \subseteq files
    BY <2>2, <2>3, <2>7
  <2>10. ValidateOk(w)'
    BY <2>1, <2>8, <2>9 DEF ValidateOk
  <2>11. QED  BY <1>1, <2>1, <2>4, <2>5, <2>10
<1>9. CASE ValidateScan
  <2>1. val # NoValidation /\ UNCHANGED manifests /\ v.state = "scan"
    BY <1>4, <1>9 DEF ValidateScan, NoValidation
  <2>2. PICK orphans : orphans = {f.name : f \in Newest(remote, v.node)} \ (v.files \cup v.fresh)
    OBVIOUS
  <2>3. val' = [v EXCEPT !.state = "delete", !.orphans = orphans]
    BY <1>4, <1>9, <2>2 DEF ValidateScan
  <2>4. PICK w : w = [v EXCEPT !.state = "delete", !.orphans = orphans]
    OBVIOUS
  <2>5. orphans \subseteq Names /\ orphans \cap v.files = {}
    <3>1. remote \subseteq FileType
      BY DEF TypeInv, LocationTypes
    <3>2. QED  BY <2>2, <3>1 DEF Newest, FileType
  <2>6. v \in ValidateState /\ \A m \in manifests : m.node = v.node => m.files \subseteq v.files
    BY <1>1, <1>4, <2>1 DEF ValidateOk
  <2>7. w \in ValidateState /\ w.state = "delete" /\ w.node = v.node /\ w.files = v.files /\ w.orphans = orphans
    BY <2>4, <2>5, <2>6 DEF ValidateState
  <2>8. ValidateOk(w)'
    BY <2>1, <2>5, <2>6, <2>7 DEF ValidateOk
  <2>9. QED  BY <1>1, <2>1, <2>3, <2>4, <2>8
<1>10. QED  BY <1>3, <1>5, <1>6, <1>7, <1>8, <1>9, ValidateEffect

LEMMA CallsStep ==
  ASSUME Beside = {}, TypeInv, NotShadowed, CallsInv, [Next]_vars PROVE CallsInv'
  BY PurgeInvStep, ValidateInvStep DEF CallsInv

-----------------------------------------------------------------------------
LEMMA SameStageUnlessOver ==
  ASSUME TypeInv, RunGoesOn, ~Idle' PROVE SameStage /\ ~Idle
<1>1. CASE run' = run
  <2>1. ~Idle /\ run \in RunState
    BY <1>1, RunIs DEF Idle, TypeInv
  <2>2. run.stage = "AWAIT_SCHEMA" \/ run'.schema = run.schema
    BY <1>1
  <2>3. run.err => run'.err
    BY <1>1
  <2>4. \A n \in run.todo \ run'.todo : ~run'.err => PartDone(n)
    BY <1>1
  <2>5. QED  BY <1>1, <2>1, <2>2, <2>3, <2>4 DEF SameStage
<1>2. CASE SameStage
  BY <1>2, RunIs DEF SameStage, RunState, TypeInv
<1>3. run' # NoRun
  BY DEF Idle, NoRun
<1>4. QED  BY <1>1, <1>2, <1>3 DEF RunGoesOn

(* A schema goes only with a snapshot that is to go. *)
LEMMA SchemasKept ==
  ASSUME PurgeInv, [Next]_vars PROVE schemas \cup doomed \subseteq schemas' \cup doomed'
<1>1. doomed \subseteq doomed'
  BY WhoChanges
<1>2. CASE schemas' = schemas \/ \E n \in Nodes : Schema(n)
  BY <1>1, <1>2 DEF Schema
<1>3. CASE Purging
  <2>1. PICK c \in {"run", "delete"}, g \in {Nodes} \cup {{n} : n \in Nodes} : PurgeFiles(c, g) \/ PurgeManifests(c, g)
    BY <1>3 DEF Purging
  <2>2. CASE PurgeFiles(c, g)
    BY <1>1, <2>2 DEF PurgeFiles
  <2>3. CASE PurgeManifests(c, g)
    <3>1. PICK stale : /\ stale \subseteq {m \in manifests : m.tag \in purges[c].tags}
                       /\ schemas' = schemas \ TagsOf(stale)
      <4>1. PICK stale : stale = {m \in manifests : m.node \in g /\ m.tag \in purges[c].tags
                     /\ \E l \in purges[c].list : m.task = l.task /\ m.tag = l.tag /\ m.node = l.node}
        OBVIOUS
      <4>2. QED  BY <2>3, <4>1 DEF PurgeManifests
    <3>2. purges[c].tags \subseteq doomed
      BY <2>3 DEF PurgeManifests, PurgeInv, PurgeOk
    <3>3. TagsOf(stale) \subseteq doomed
      BY <3>1, <3>2 DEF TagsOf
    <3>4. QED  BY <1>1, <3>1, <3>3
  <2>4. QED  BY <2>1, <2>2, <2>3
<1>4. QED  BY <1>2, <1>3, WhoChanges

(* The schema of a manifest stays there; a run that uploads manifests that name a schema is new. *)
LEMMA SchemaThereKept ==
  ASSUME TypeInv, [Next]_vars, PurgeInv, NEW k, NEW t,
         ~(run.stage = "MANIFEST" /\ run.schema /\ k = run.task /\ t = run.tag),
         SchemaThere(manifests, schemas \cup doomed, k, t)
  PROVE  SchemaThere(manifests', schemas' \cup doomed', k, t)
<1>1. SUFFICES ASSUME NEW m \in manifests', m.task = k, m.tag = t, m.schema PROVE t \in schemas \cup doomed
  BY SchemasKept DEF SchemaThere
<1>2. CASE m \in manifests
  BY <1>1, <1>2 DEF SchemaThere
<1>3. CASE Comes(m)
  <2>1. CASE run.stage = "MANIFEST"
    <3>1. m.schema = run.schema /\ m.task = run.task /\ m.tag = run.tag
      BY <1>3, <2>1 DEF Comes
    <3>2. run.schema
      BY <1>1, <3>1, Zenon
    <3>3. QED  BY <1>1, <2>1, <3>1, <3>2
  <2>2. CASE run.stage # "MANIFEST"
    <3>1. PICK o \in manifests : o.task = m.task /\ o.tag = m.tag /\ o.schema = m.schema
      BY <1>3, <2>2 DEF Comes
    <3>2. o.schema
      BY <1>1, <3>1, Zenon
    <3>3. QED  BY <1>1, <3>1, <3>2 DEF SchemaThere
  <2>3. QED  BY <2>1, <2>2
<1>4. QED  BY <1>2, <1>3, NewManifests

LEMMA SchemaKept ==
  ASSUME TypeInv, ControlInv, NotShadowed', PurgeInv, SchemaInv, RunGoesOn, [Next]_vars PROVE SchemaInv'
<1>0. manifests \subseteq ManifestType
  BY DEF TypeInv, LocationTypes
<1>1. ASSUME NEW k \in Tasks, NEW i \in DOMAIN rows[k], rows[k][i].stage \in WithSchema
      PROVE  SchemaThere(manifests', schemas' \cup doomed', k, rows[k][i].tag)
  <2>1. PICK t : t = rows[k][i].tag
    OBVIOUS
  <2>2. ~(run.stage = "MANIFEST" /\ run.schema /\ k = run.task /\ t = run.tag)
    <3>1. SUFFICES ASSUME run.stage = "MANIFEST", run.schema, k = run.task, t = run.tag PROVE FALSE
      OBVIOUS
    <3>2. ~Idle
      BY <3>1, RunIs, StageNumbers DEF TypeInv
    <3>3. run.prev = "none"
      BY <3>1, <3>2 DEF ControlInv, SchemaIsNew
    <3>4. DOMAIN rows[k] = 1 .. Len(rows[k]) /\ Len(rows[k]) \in Nat
      BY LenProperties DEF TypeInv, RunTypes
    <3>5. i = Len(rows[k])
      BY <2>1, <3>1, <3>2, <3>3, <3>4 DEF ControlInv, RowOfRun
    <3>6. rows[k][i].stage = "MANIFEST"
      BY <3>1, <3>2, <3>5 DEF ControlInv, RowOfRun, LastRow
    <3>7. QED  BY <1>1, <3>6 DEF WithSchema
  <2>3. SchemaThere(manifests, schemas \cup doomed, k, t)
    BY <1>1, <2>1 DEF SchemaInv
  <2>4. QED  BY <2>1, <2>2, <2>3, SchemaThereKept
<1>2. ASSUME NEW m \in manifests', ~m.temp, m.schema PROVE m.tag \in schemas' \cup doomed'
  <2>1. CASE m \in manifests
    BY <1>2, <2>1, SchemasKept DEF SchemaInv
  <2>2. CASE Comes(m)
    <3>1. run.stage = "MOVE_MANIFEST" /\ ~Idle /\ m.task = run.task /\ m.tag = run.tag
      BY <1>2, <2>2, Zenon DEF Comes
    <3>2. PICK o \in manifests : o.task = m.task /\ o.tag = m.tag /\ o.schema = m.schema
      BY <2>2, <3>1 DEF Comes
    <3>3. o.schema
      BY <1>2, <3>2, Zenon
    <3>4. SchemaThere(manifests, schemas \cup doomed, run.task, run.tag)
      BY <3>1 DEF SchemaInv, Reached, WithSchema
    <3>5. QED  BY <3>1, <3>2, <3>3, <3>4, SchemasKept DEF SchemaThere
  <2>3. QED  BY <2>1, <2>2, NewManifests
<1>3. rows' = rows
  BY DEF RunGoesOn
<1>4. CASE Idle'
  <2>1. ~Reached(WithSchema)' /\ run'.stage # "SCHEMA"
    BY <1>4 DEF Reached, Idle
  <2>2. QED  BY <1>1, <1>2, <1>3, <1>4, <2>1 DEF SchemaInv
<1>5. CASE ~Idle'
  <2>1. SameStage /\ ~Idle
    BY <1>5, SameStageUnlessOver
  <2>2. /\ run \in RunState /\ run' \in RunState
        /\ run'.task = run.task /\ run'.tag = run.tag /\ run'.prev = run.prev /\ run'.stage = run.stage
    BY <2>1 DEF SameStage
  <2>3. run.stage = "AWAIT_SCHEMA" \/ run'.schema = run.schema
    BY <2>1 DEF SameStage
  <2>4. Reached(WithSchema)' => SchemaThere(manifests', schemas' \cup doomed', run.task, run.tag)
    <3>1. SUFFICES ASSUME Reached(WithSchema)' PROVE SchemaThere(manifests', schemas' \cup doomed', run.task, run.tag)
      OBVIOUS
    <3>2. Reached(WithSchema)
      BY <2>1, <2>2, <3>1 DEF Reached
    <3>3. PICK k, t : k = run.task /\ t = run.tag
      OBVIOUS
    <3>4. ~(run.stage = "MANIFEST" /\ run.schema /\ k = run.task /\ t = run.tag)
      BY <2>1, <3>2 DEF Reached, ControlInv, SchemaIsNew, WithSchema
    <3>5. SchemaThere(manifests, schemas \cup doomed, k, t)
      BY <3>2, <3>3 DEF SchemaInv
    <3>6. QED  BY <3>3, <3>4, <3>5, SchemaThereKept
  <2>5. ASSUME run.stage = "SCHEMA", run'.todo = {}, ~run'.err, run'.schema PROVE run.tag \in schemas' \cup doomed'
    <3>1. run.schema
      BY <2>3, <2>5, Zenon
    <3>2. ~run.err
      BY <2>1, <2>5 DEF SameStage
    <3>3. CASE run.todo = {}
      BY <2>5, <3>1, <3>2, <3>3, SchemasKept DEF SchemaInv
    <3>4. CASE run.todo # {}
      <4>1. PICK n \in run.todo : TRUE
        BY <3>4
      <4>2. PartDone(n)
        BY <2>1, <2>5 DEF SameStage
      <4>3. Schema(n)
        BY <2>5, <4>2 DEF PartDone
      <4>4. QED  BY <3>1, <4>3 DEF Schema
    <3>5. QED  BY <3>3, <3>4
  <2>6. ASSUME NEW n \in Nodes, After({"SCHEMA"}, "MANIFEST", n)', NEW m \in manifests',
               m.node = n, m.task = run.task, m.tag = run.tag
        PROVE  m.schema = run'.schema
    <3>1. run'.schema = run.schema
      BY <2>2, <2>3, <2>6 DEF After
    <3>2. CASE Comes(m)
      <4>1. run.stage = "MANIFEST"
        BY <2>2, <2>6, <3>2 DEF After, Comes
      <4>2. QED  BY <3>1, <3>2, <4>1 DEF Comes
    <3>3. CASE m \in manifests
      <4>1. CASE After({"SCHEMA"}, "MANIFEST", n)
        BY <2>1, <2>6, <3>1, <3>3, <4>1 DEF SchemaInv
      <4>2. CASE ~After({"SCHEMA"}, "MANIFEST", n)
        <5>1. run.stage = "MANIFEST" /\ n \notin run'.todo /\ ~run'.err
          BY <2>2, <2>6, <4>2 DEF After
        <5>2. ~run.err
          BY <2>1, <5>1 DEF SameStage
        <5>3. n \in run.todo
          BY <4>2, <5>1, <5>2 DEF After
        <5>4. ManifestNode(n)
          BY <2>1, <5>1, <5>3 DEF SameStage, PartDone
        <5>5. PICK h : h = Manifest(n, TRUE)
          OBVIOUS
        <5>6. h \in manifests' /\ h.node = n /\ h.task = run.task /\ h.tag = run.tag
          BY <5>4, <5>5 DEF ManifestNode, Manifest
        <5>7. h.schema = run.schema
          BY <5>5 DEF Manifest
        <5>8. h = m
          BY <2>6, <5>6 DEF NotShadowed
        <5>9. QED  BY <3>1, <5>7, <5>8
      <4>3. QED  BY <4>1, <4>2
    <3>4. QED  BY <3>2, <3>3, NewManifests
  <2>7. /\ Reached(WithSchema)' => SchemaThere(manifests', schemas' \cup doomed', run'.task, run'.tag)
        /\ \A n \in Nodes : After({"SCHEMA"}, "MANIFEST", n)' =>
                \A m \in manifests' : m.node = n /\ m.task = run'.task /\ m.tag = run'.tag => m.schema = run'.schema
    BY <2>2, <2>4, <2>6
  <2>8. run'.stage = "SCHEMA" /\ run'.todo = {} /\ ~run'.err => (run'.schema => run'.tag \in schemas' \cup doomed')
    BY <2>2, <2>5
  <2>9. QED  BY <1>1, <1>2, <1>3, <2>7, <2>8 DEF SchemaInv
<1>6. QED  BY <1>4, <1>5

LEMMA SchemaStep ==
  ASSUME TypeInv, ControlInv, NotShadowed', PurgeInv, SchemaInv, [Next]_vars PROVE SchemaInv'
<1>0. manifests \subseteq ManifestType
  BY DEF TypeInv, LocationTypes
<1>1. CASE RunGoesOn
  BY <1>1, SchemaKept
<1>2. CASE NextStage
  <2>1. PICK s \in Stages, k \in Tasks : Advances(s, k)
    BY <1>2, StageFacts DEF ControlInv
  <2>2. UNCHANGED <<manifests, schemas, doomed>>
    BY <1>2 DEF NextStage, location
  <2>3. PICK there : there = schemas \cup doomed
    OBVIOUS
  <2>4. /\ NextOf(s) /\ ~Idle /\ ~Idle' /\ run.todo = {} /\ ~run.err
        /\ run'.stage = s /\ run'.prev = run.prev /\ run'.tag = run.tag /\ run'.task = run.task
        /\ s \in NodeStages => run'.todo = Nodes
        /\ s \in HostStages => run'.todo # {}
    BY <2>1 DEF Advances
  <2>5. run'.schema = run.schema
    BY <2>1 DEF Advances
  <2>6. s \in WithSchema \/ run.prev \in WithSchema => SchemaThere(manifests, there, run.task, run.tag)
    <3>1. CASE Reached(WithSchema)
      BY <2>3, <3>1 DEF SchemaInv
    <3>2. CASE run.stage = "SCHEMA"
      <4>1. run.schema => run.tag \in there
        BY <2>3, <2>4, <3>2 DEF SchemaInv
      <4>2. SUFFICES ASSUME NEW m \in manifests, m.task = run.task, m.tag = run.tag, m.schema PROVE run.tag \in there
        BY DEF SchemaThere
      <4>3. m.node \in Nodes
        BY <1>0 DEF ManifestType
      <4>4. m.schema = run.schema
        BY <2>4, <3>2, <4>2, <4>3 DEF SchemaInv, After
      <4>5. QED  BY <4>1, <4>2, <4>4, Zenon
    <3>3. s \in WithSchema /\ run.prev \notin WithSchema => run.stage \in WithSchema \cup {"SCHEMA"}
      BY <2>4 DEF NextOf, WithSchema
    <3>4. QED  BY <2>4, <3>1, <3>2, <3>3 DEF Reached
  <2>7. ASSUME NEW x \in Tasks, NEW i \in DOMAIN rows'[x], rows'[x][i].stage \in WithSchema
        PROVE  SchemaThere(manifests, there, x, rows'[x][i].tag)
    <3>1. \/ x = run.task /\ rows'[x][i].stage = s /\ rows'[x][i].tag = run.tag
          \/ i \in DOMAIN rows[x] /\ rows'[x][i] = rows[x][i]
      BY <2>1, AdvancedRows DEF ControlInv
    <3>2. CASE x = run.task /\ rows'[x][i].stage = s /\ rows'[x][i].tag = run.tag
      BY <2>6, <2>7, <3>2
    <3>3. CASE i \in DOMAIN rows[x] /\ rows'[x][i] = rows[x][i]
      BY <2>3, <2>7, <3>3 DEF SchemaInv
    <3>4. QED  BY <3>1, <3>2, <3>3
  <2>8. Reached(WithSchema)' => SchemaThere(manifests, there, run.task, run.tag)
    BY <2>4, <2>6 DEF Reached
  <2>9. ~(run'.stage = "SCHEMA" /\ run'.todo = {})
    BY <2>4 DEF HostStages
  <2>10. ASSUME NEW n \in Nodes, After({"SCHEMA"}, "MANIFEST", n)', NEW m \in manifests, m.node = n, m.task = run.task, m.tag = run.tag
         PROVE  m.schema = run.schema
    <3>1. s = "SCHEMA"
      BY <2>4, <2>10 DEF After, NodeStages
    <3>2. run.stage = "MANIFEST"
      BY <2>4, <3>1 DEF NextOf
    <3>3. QED  BY <2>4, <2>10, <3>2 DEF SchemaInv, After
  <2>11. \A m \in manifests : ~m.temp /\ m.schema => m.tag \in there
    BY <2>3 DEF SchemaInv
  <2>12. \A n \in Nodes : After({"SCHEMA"}, "MANIFEST", n)' =>
                \A m \in manifests' : m.node = n /\ m.task = run'.task /\ m.tag = run'.tag => m.schema = run'.schema
    BY <2>2, <2>4, <2>5, <2>10, Zenon
  <2>13. manifests' = manifests /\ schemas' \cup doomed' = there
    BY <2>2, <2>3
  <2>14. QED  BY <2>4, <2>7, <2>8, <2>9, <2>11, <2>12, <2>13 DEF SchemaInv
<1>3. CASE \E k \in Tasks : Start(k)
  <2>0. PICK k \in Tasks : Start(k)
    BY <1>3
  <2>1. PICK tag \in Tags, prev \in Resumable \cup {"none"}, only \in BOOLEAN, stage \in Stages : Begins(k, tag, prev, only, stage)
    BY <2>0, BeginFacts
  <2>2. UNCHANGED <<manifests, schemas, doomed>>
    BY <2>0 DEF Start, location
  <2>3. PICK there : there = schemas \cup doomed
    OBVIOUS
  <2>4. run'.stage = "INIT" /\ run'.prev = prev /\ run'.tag = tag /\ run'.task = k
    BY <2>1 DEF Begins
  <2>5. prev \in WithSchema => SchemaThere(manifests, there, k, tag)
    <3>1. SUFFICES ASSUME prev \in WithSchema PROVE SchemaThere(manifests, there, k, tag)
      OBVIOUS
    <3>2. PICK i \in DOMAIN rows[k] : rows[k][i].tag = tag /\ rows[k][i].stage = prev
      BY <2>1, <3>1, BegunRows DEF WithSchema
    <3>3. QED  BY <2>3, <3>1, <3>2 DEF SchemaInv
  <2>6. ASSUME NEW x \in Tasks, NEW i \in DOMAIN rows'[x], rows'[x][i].stage \in WithSchema
        PROVE  SchemaThere(manifests, there, x, rows'[x][i].tag)
    <3>1. \/ x = k /\ rows'[x][i].tag = tag /\ rows'[x][i].stage = IF prev = "none" THEN "INIT" ELSE prev
          \/ i \in DOMAIN rows[x] /\ rows'[x][i] = rows[x][i]
      BY <2>1, BegunRows
    <3>2. CASE x = k /\ rows'[x][i].tag = tag /\ rows'[x][i].stage = IF prev = "none" THEN "INIT" ELSE prev
      BY <2>5, <2>6, <3>2 DEF WithSchema
    <3>3. CASE i \in DOMAIN rows[x] /\ rows'[x][i] = rows[x][i]
      BY <2>3, <2>6, <3>3 DEF SchemaInv
    <3>4. QED  BY <3>1, <3>2, <3>3
  <2>7. Reached(WithSchema)' => SchemaThere(manifests, there, k, tag)
    BY <2>4, <2>5 DEF Reached, WithSchema
  <2>8. run'.stage # "SCHEMA" /\ \A n \in Nodes : ~After({"SCHEMA"}, "MANIFEST", n)'
    BY <2>4 DEF After
  <2>9. \A m \in manifests : ~m.temp /\ m.schema => m.tag \in there
    BY <2>3 DEF SchemaInv
  <2>10. manifests' = manifests /\ schemas' \cup doomed' = there
    BY <2>2, <2>3
  <2>11. QED  BY <2>4, <2>6, <2>7, <2>8, <2>9, <2>10 DEF SchemaInv
<1>4. QED  BY <1>1, <1>2, <1>3, RunEffect

-----------------------------------------------------------------------------
(* What a lookup finds. *)

LEMMA FoundIsListed ==
  ASSUME TypeInv, NEW n \in Nodes, NEW x \in Names, NEW t \in Tags, NEW c, Found(remote, n, x, t, c)
  PROVE  ListVersionedFiles(remote, n, x, t) = {c}
<1>0. /\ remote \subseteq FileType /\ t \in Nat /\ \A f \in remote : f.ver \in Nat
      /\ \A a, b \in remote : a.node = b.node /\ a.name = b.name /\ a.ver = b.ver => a = b
  BY DEF TypeInv, LocationTypes, FileType, Tags
<1>1. PICK w \in remote : Takes(remote, w, n, x, t) /\ w.content = c
  BY DEF Found
<1>2. PICK vers : vers = {f.ver : f \in {g \in remote : g.node = n /\ g.name = x /\ g.ver > t}}
  OBVIOUS
<1>3. \A v : v \in vers <=> \E g \in remote : g.node = n /\ g.name = x /\ g.ver > t /\ g.ver = v
  BY <1>2
<1>4. w.ver = IF vers = {} THEN 0 ELSE Min(vers)
  <2>1. CASE w.ver = 0 /\ \A g \in remote : g.node = n /\ g.name = x => g.ver <= t
    <3>1. vers = {}
      BY <1>0, <1>3, <2>1
    <3>2. QED  BY <2>1, <3>1
  <2>2. CASE w.ver > t /\ \A g \in remote : g.node = n /\ g.name = x /\ g.ver > t => w.ver <= g.ver
    <3>1. w.ver \in vers /\ \A v \in vers : w.ver <= v /\ v \in Nat
      BY <1>0, <1>1, <1>3, <2>2 DEF Takes
    <3>2. Min(vers) = CHOOSE v \in vers : \A u \in vers : v <= u
      BY DEF Min
    <3>3. Min(vers) \in vers /\ \A u \in vers : Min(vers) <= u
      BY <3>1, <3>2
    <3>4. w.ver = Min(vers)
      BY <1>0, <3>1, <3>3
    <3>5. QED  BY <3>1, <3>4
  <2>3. QED  BY <1>1, <2>1, <2>2 DEF Takes
<1>5. ListVersionedFiles(remote, n, x, t) = {f.content : f \in {g \in remote : g.node = n /\ g.name = x /\ g.ver = w.ver}}
  BY <1>2, <1>4 DEF ListVersionedFiles
<1>6. {g \in remote : g.node = n /\ g.name = x /\ g.ver = w.ver} = {w}
  BY <1>0, <1>1 DEF Takes
<1>7. QED  BY <1>1, <1>5, <1>6

(* A file that a snapshot replaces, or that is found under its name, is no later one. *)
LEMMA FoundAfterRename ==
  ASSUME TypeInv, OneSnapshotLeft, NEW n \in Nodes, NEW t \in Tags, NEW x \in Names, NEW c,
         <<t, x>> \notin local[n], NoneLater(local[n], t), Found(remote, n, x, t, c),
         NEW n0 \in Nodes, NEW t0, NEW x0 \in Names, RenameFile(n0, t0, x0)
  PROVE  Found(remote', n, x, t, c)
<1>0. /\ remote \subseteq FileType /\ t \in Nat /\ \A f \in remote : f.ver \in Nat
      /\ \A a, b \in remote : a.node = b.node /\ a.name = b.name /\ a.ver = b.ver => a = b
      /\ local \in [Nodes -> SUBSET (Tags \X Names)]
  BY DEF TypeInv, LocationTypes, AgentTypes, FileType, Tags
<1>1. PICK f \in Newest(remote, n0) :
        /\ f.name = x0
        /\ remote' = {g \in remote : ~(g.node = n0 /\ g.name = x0 /\ g.ver \in {0, t0})} \cup {[f EXCEPT !.ver = t0]}
  BY DEF RenameFile
<1>2. <<t0, x0>> \in local[n0] /\ t0 \in Tags /\ t0 \in Nat
  BY <1>0 DEF RenameFile, Moving, Tags
<1>3. f \in remote /\ f \in FileType /\ f.node = n0 /\ f.ver = 0
  BY <1>0, <1>1 DEF Newest
<1>4. PICK h : h = [f EXCEPT !.ver = t0]
  OBVIOUS
<1>5. h.node = n0 /\ h.name = x0 /\ h.ver = t0 /\ h.content = f.content
  BY <1>1, <1>3, <1>4 DEF FileType
<1>6. \A g : g \in remote' <=> g = h \/ (g \in remote /\ ~(g.node = n0 /\ g.name = x0 /\ g.ver \in {0, t0}))
  BY <1>1, <1>4
<1>7. PICK w \in remote : Takes(remote, w, n, x, t) /\ w.content = c
  BY DEF Found
<1>8. CASE ~(n = n0 /\ x = x0)
  <2>1. w \in remote'
    BY <1>6, <1>7, <1>8 DEF Takes
  <2>2. \A g \in remote' : g.node = n /\ g.name = x => g \in remote
    BY <1>5, <1>6, <1>8
  <2>3. Takes(remote', w, n, x, t)
    BY <1>7, <2>2 DEF Takes
  <2>4. QED  BY <1>7, <2>1, <2>3 DEF Found
<1>9. CASE n = n0 /\ x = x0
  <2>1. t < t0
    <3>1. <<t0, x0>>[1] = t0
      OBVIOUS
    <3>2. t <= t0
      BY <1>2, <1>9, <3>1 DEF NoneLater
    <3>3. t # t0
      BY <1>2, <1>9
    <3>4. QED  BY <1>0, <1>2, <3>2, <3>3
  <2>2. CASE w.ver = 0 /\ \A g \in remote : g.node = n /\ g.name = x => g.ver <= t
    <3>1. w = f
      BY <1>0, <1>1, <1>3, <1>7, <1>9, <2>2 DEF Takes
    <3>2. \A g \in remote' : g.node = n /\ g.name = x /\ g.ver > t => h.ver <= g.ver
      BY <1>0, <1>2, <1>5, <1>6, <2>2
    <3>3. Takes(remote', h, n, x, t)
      BY <1>5, <1>9, <2>1, <3>2 DEF Takes
    <3>4. QED  BY <1>5, <1>6, <1>7, <3>1, <3>3 DEF Found
  <2>3. CASE w.ver > t /\ \A g \in remote : g.node = n /\ g.name = x /\ g.ver > t => w.ver <= g.ver
    <3>1. <<t0, x0>>[1] = t0 /\ <<t0, x0>>[2] = x0
      OBVIOUS
    <3>2. w.ver <= t0 /\ w.ver # t0
      <4>1. PICK e \in local[n0] : e[1] = t0 /\ e[2] = x0
        BY <1>2, <3>1
      <4>2. w.node = n0 /\ w.name = x0
        BY <1>7, <1>9 DEF Takes
      <4>3. w.ver <= t0
        BY <4>1, <4>2 DEF OneSnapshotLeft
      <4>4. \A r, s \in remote : r.node = n0 /\ r.name = e[2] /\ r.ver = e[1] => ~(s.node = n0 /\ s.name = e[2] /\ s.ver = 0)
        BY <4>1 DEF OneSnapshotLeft
      <4>5. w.ver # t0
        BY <1>1, <1>3, <4>1, <4>2, <4>4
      <4>6. QED  BY <4>3, <4>5
    <3>3. w \in remote'
      BY <1>0, <1>6, <2>3, <3>2
    <3>4. \A g \in remote' : g.node = n /\ g.name = x /\ g.ver > t => w.ver <= g.ver
      BY <1>5, <1>6, <2>3, <3>2
    <3>5. Takes(remote', w, n, x, t)
      BY <1>7, <2>3, <3>4 DEF Takes
    <3>6. QED  BY <1>7, <3>3, <3>5 DEF Found
  <2>4. QED  BY <1>7, <2>2, <2>3 DEF Takes
<1>10. QED  BY <1>8, <1>9

LEMMA FoundAfterMove ==
  ASSUME TypeInv, OneSnapshotLeft, NEW n0 \in Nodes, NEW t0, NEW x0 \in Names, MoveFile(n0, t0, x0)
  PROVE  /\ \A n, x, c : \A t \in Nat : Found(remote, n, x, t, c) => Found(remote', n, x, t, c)
         /\ Found(remote', n0, x0, t0, snap[n0][t0][x0])
<1>0. local \in [Nodes -> SUBSET (Tags \X Names)] /\ \A f \in remote : f.ver \in Nat
  BY DEF TypeInv, AgentTypes, LocationTypes, FileType
<1>1. PICK h : h = [node |-> n0, name |-> x0, ver |-> 0, content |-> snap[n0][t0][x0]]
  OBVIOUS
<1>2. remote' = remote \cup {h} /\ <<t0, x0>> \in local[n0] /\ t0 \in Nat
  BY <1>0, <1>1 DEF MoveFile, Moving, Tags
<1>3. h.node = n0 /\ h.name = x0 /\ h.ver = 0 /\ h.content = snap[n0][t0][x0]
  BY <1>1
<1>4. ASSUME NEW n, NEW x, NEW c, NEW t \in Nat, Found(remote, n, x, t, c) PROVE Found(remote', n, x, t, c)
  <2>1. PICK w \in remote : Takes(remote, w, n, x, t) /\ w.content = c
    BY <1>4 DEF Found
  <2>2. Takes(remote', w, n, x, t)
    BY <1>2, <1>3, <2>1 DEF Takes
  <2>3. QED  BY <1>2, <2>1, <2>2 DEF Found
<1>5. Found(remote', n0, x0, t0, snap[n0][t0][x0])
  <2>1. PICK e \in local[n0] : e[1] = t0
    BY <1>2
  <2>2. \A r \in remote : r.node = n0 => r.ver <= t0
    BY <2>1 DEF OneSnapshotLeft
  <2>3. Takes(remote', h, n0, x0, t0)
    BY <1>2, <1>3, <2>2 DEF Takes
  <2>4. QED  BY <1>2, <1>3, <2>3 DEF Found
<1>6. QED  BY <1>4, <1>5

(* The files that a purge removes are those of no manifest that stays. *)
LEMMA FoundAfterPurge ==
  ASSUME TypeInv, PurgeInv, NEW c \in {"run", "delete"}, NEW g, PurgeFiles(c, g),
         NEW m \in manifests, m.tag \notin doomed, NEW x \in m.files, NEW k, Found(remote, m.node, x, m.tag, k)
  PROVE  Found(remote', m.node, x, m.tag, k)
<1>0. /\ manifests \subseteq ManifestType /\ \A f \in remote : f.ver \in Nat
  BY DEF TypeInv, LocationTypes, FileType
<1>1. PICK p : p = purges[c]
  OBVIOUS
<1>2. PurgeOk(p)
  BY <1>1 DEF PurgeFiles, PurgeInv
<1>3. PICK ms : ms = ReadManifests(p, g)
  OBVIOUS
<1>4. PICK first, del : del \subseteq FilesToPurge(remote, ms, p.tags, p.oldest, first) /\ remote' = remote \ del
  BY <1>1, <1>3 DEF PurgeFiles
<1>5. PICK w \in remote : Takes(remote, w, m.node, x, m.tag) /\ w.content = k
  BY DEF Found
<1>6. m.tag \in Nat /\ m.tag # 0 /\ m.tag \notin p.tags
  BY <1>0, <1>2 DEF PurgeOk, ManifestType, Tags
<1>7. w \notin del
  <2>1. SUFFICES ASSUME w \in FilesToPurge(remote, ms, p.tags, p.oldest, first) PROVE FALSE
    BY <1>4
  <2>2. PICK stale : stale = {o \in ms : o.tag \in p.tags}
    OBVIOUS
  <2>3. \/ /\ w.ver = 0 /\ \E o \in stale : o.node = w.node /\ w.name \in o.files
           /\ ~ \E o \in ms \ stale : o.node = w.node /\ w.name \in o.files
        \/ w.ver # 0 /\ p.oldest # 0 /\ w.ver <= p.oldest
    BY <2>1, <2>2 DEF FilesToPurge, IsVersionedFileRemovable
  <2>4. CASE w.ver = 0
    <3>1. PICK o \in stale : o.node = w.node
      BY <2>3, <2>4
    <3>2. m.node \in g
      BY <1>3, <1>5, <2>2, <3>1 DEF ReadManifests, Takes
    <3>3. m \in ms
      BY <1>2, <1>3, <3>2 DEF ReadManifests, PurgeOk
    <3>4. m \in ms \ stale
      BY <1>6, <2>2, <3>3
    <3>5. QED  BY <1>5, <2>3, <2>4, <3>4 DEF Takes
  <2>5. CASE w.ver # 0
    <3>1. w.ver > m.tag
      BY <1>5, <2>5 DEF Takes
    <3>2. p.oldest # 0 /\ w.ver <= p.oldest /\ p.oldest \in Nat
      BY <1>2, <2>3, <2>5 DEF PurgeOk, PurgeState
    <3>3. p.oldest <= m.tag
      BY <1>2, <3>2 DEF PurgeOk
    <3>4. QED  BY <1>0, <1>6, <3>1, <3>2, <3>3
  <2>6. QED  BY <2>4, <2>5
<1>8. Takes(remote', w, m.node, x, m.tag)
  BY <1>4, <1>5 DEF Takes
<1>9. QED  BY <1>4, <1>5, <1>7, <1>8 DEF Found

(* The orphans are files of no manifest. *)
LEMMA FoundAfterValidate ==
  ASSUME TypeInv, ValidateInv, ValidateDelete, NEW m \in manifests, NEW x \in m.files, NEW k, Found(remote, m.node, x, m.tag, k)
  PROVE  Found(remote', m.node, x, m.tag, k)
<1>1. val # NoValidation /\ val.state = "delete"
  BY DEF ValidateDelete, NoValidation
<1>2. PICK del \in SUBSET val.orphans : remote' = {f \in remote : ~(f.node = val.node /\ f.ver = 0 /\ f.name \in del)}
  BY DEF ValidateDelete
<1>3. PICK w \in remote : Takes(remote, w, m.node, x, m.tag) /\ w.content = k
  BY DEF Found
<1>4. w \in remote'
  <2>1. SUFFICES ASSUME w.node = val.node, w.name \in val.orphans PROVE FALSE
    BY <1>2
  <2>2. m.files \subseteq val.files /\ val.orphans \cap val.files = {}
    BY <1>1, <1>3, <2>1 DEF ValidateInv, ValidateOk, Takes
  <2>3. QED  BY <1>3, <2>1, <2>2 DEF Takes
<1>5. Takes(remote', w, m.node, x, m.tag)
  BY <1>2, <1>3 DEF Takes
<1>6. QED  BY <1>3, <1>4, <1>5 DEF Found

(* A duplicate is found. *)
LEMMA DuplicateIsFound ==
  ASSUME TypeInv, NEW n \in Nodes, NEW t \in Tags, NEW x \in Duplicates(n, t)
  PROVE  Found(remote, n, x, t, snap[n][t][x])
<1>1. PICK f \in Newest(remote, n) : f.name = x /\ f.content = snap[n][t][x]
  BY DEF Duplicates, IsNewest
<1>2. f \in remote /\ f.node = n /\ f.ver = 0
  BY <1>1 DEF Newest
<1>3. \A g \in remote : g.node = n /\ g.name = x => g.ver <= t
  BY DEF Duplicates, Tags
<1>4. Takes(remote, f, n, x, t)
  BY <1>1, <1>2, <1>3 DEF Takes
<1>5. QED  BY <1>1, <1>2, <1>4 DEF Found

-----------------------------------------------------------------------------

(* A file leaves a node as it is uploaded, as a duplicate, or with its snapshot. *)
LEMMA LeavesNode ==
  ASSUME TypeInv, OneSnapshotLeft, [Next]_vars, NEW n \in Nodes, NEW t \in Tags, NEW x \in Names,
         <<t, x>> \in local[n], <<t, x>> \notin local'[n], t \notin lost'
  PROVE  \/ MoveFile(n, t, x)
         \/ DeduplicateNode(n) /\ t = run.tag /\ x \in Duplicates(n, t)
<1> USE DEF location, agents, bounds
<1>0. local \in [Nodes -> SUBSET (Tags \X Names)]
  BY DEF TypeInv, AgentTypes
<1>1. <<t, x>>[1] = t /\ <<t, x>>[2] = x
  OBVIOUS
<1>2. t \in dirs[n]
  BY <1>1 DEF OneSnapshotLeft
<1>3. x \in Left(n, t) /\ Left(n, t) # {}
  BY DEF Left
<1>4. ~UNCHANGED local
  OBVIOUS
<1>5. ASSUME NEW k \in Nodes, SnapshotNode(k) PROVE FALSE
  <2>1. PICK ts \in SUBSET (dirs[k] \ {run.tag}), s \in Snapshots[k], ok \in BOOLEAN :
          /\ local' = [local EXCEPT ![k] = {f \in @ : f[1] \notin ts} \cup (IF ok THEN {run.tag} \X DOMAIN s ELSE {})]
          /\ lost' = lost \cup Unsent(k, ts)
    BY <1>5 DEF SnapshotNode
  <2>2. k = n /\ t \in ts
    BY <1>0, <1>1, <2>1
  <2>3. t \in Unsent(k, ts)
    BY <1>3, <2>2 DEF Unsent
  <2>4. QED  BY <2>1, <2>3
<1>6. ASSUME NEW k \in Nodes, DeduplicateNode(k) PROVE k = n /\ t = run.tag /\ x \in Duplicates(n, t)
  <2>1. PICK del \in SUBSET (Duplicates(k, run.tag) \cap run.index[k]) : local' = [local EXCEPT ![k] = @ \ ({run.tag} \X del)]
    BY <1>6 DEF DeduplicateNode
  <2>2. k = n /\ <<t, x>> \in {run.tag} \X del
    BY <1>0, <2>1
  <2>3. QED  BY <2>1, <2>2
<1>7. ASSUME NEW k \in Nodes, Worker(k)
      PROVE  DeduplicateNode(n) /\ t = run.tag /\ x \in Duplicates(n, t)
  <2>1. ~ \/ NodeFails(k) \/ AwaitSchema(k) \/ IndexNode(k) \/ UploadNode(k) \/ UploadFails(k) \/ UploadDone(k)
          \/ ManifestNode(k) \/ Schema(k) \/ MoveManifestNode(k) \/ RollbackNode(k)
    BY <1>4 DEF NodeFails, AwaitSchema, IndexNode, UploadNode, UploadFails, UploadDone, ManifestNode, Schema, MoveManifestNode, RollbackNode
  <2>2. DeduplicateNode(k)
    BY <1>5, <1>7, <2>1 DEF Worker
  <2>3. QED  BY <1>6, <2>2
<1>8. ASSUME NEW k \in Nodes, NEW u, NEW y, MoveFile(k, u, y) PROVE MoveFile(n, t, x)
  <2>1. local' = [local EXCEPT ![k] = @ \ {<<u, y>>}]
    BY <1>8 DEF MoveFile
  <2>2. k = n /\ u = t /\ y = x
    BY <1>0, <2>1
  <2>3. QED  BY <1>8, <2>2
<1>9. ASSUME NEW k \in Nodes, Agent(k) PROVE MoveFile(n, t, x)
  <2>1. ~((\E u \in jobs[k] : JobEnds(k, u)) \/ AgentRestart(k) \/ \E u \in jobs[k], y \in Names : RenameFile(k, u, y))
    BY <1>4 DEF JobEnds, AgentRestart, RenameFile
  <2>2. QED  BY <1>8, <1>9, <2>1 DEF Agent
<1>10. ASSUME NEW k \in Nodes, DeleteLocalSnapshots(k) PROVE FALSE
  <2>1. k = n
    BY <1>0, <1>10 DEF DeleteLocalSnapshots
  <2>2. t \in Unsent(k, dirs[k])
    BY <1>2, <1>3, <2>1 DEF Unsent
  <2>3. QED  BY <1>10, <2>2 DEF DeleteLocalSnapshots
<1>11. ASSUME NEW c, NEW g, PurgeFiles(c, g) PROVE FALSE
  <2>1. c = "run" /\ DeleteOwnSnapshot(c, g)
    BY <1>4, <1>11 DEF PurgeFiles, DeleteOwnSnapshot
  <2>2. /\ local' = [k \in Nodes |-> IF k \in g THEN {f \in local[k] : f[1] # run.tag} ELSE local[k]]
        /\ lost' = lost \cup {u \in {run.tag} : \E k \in g : Left(k, u) # {}}
    BY <2>1 DEF DeleteOwnSnapshot
  <2>3. n \in g /\ t = run.tag
    BY <1>1, <2>2
  <2>4. QED  BY <1>3, <2>2, <2>3
<1>12. CASE Purging
  <2>1. PICK c \in {"run", "delete"}, g \in {Nodes} \cup {{k} : k \in Nodes} : PurgeFiles(c, g) \/ PurgeManifests(c, g)
    BY <1>12 DEF Purging
  <2>2. ~PurgeManifests(c, g)
    BY <1>4 DEF PurgeManifests
  <2>3. QED  BY <1>11, <2>1, <2>2
<1>13. ~ \/ NextStage \/ End \/ RollbackMoveManifest \/ PurgeDecide \/ DeleteSnapshot \/ DeleteEnds \/ (\E k \in Tasks : Start(k))
         \/ ValidateRead \/ ValidateScan \/ ValidateDelete \/ Interrupt \/ Crash \/ Tick \/ (\E k \in Nodes : ValidateStart(k)) \/ UNCHANGED vars
  BY <1>4 DEF NextStage, End, RollbackMoveManifest, PurgeDecide, DeleteSnapshot, DeleteEnds, Start, ValidateRead, ValidateScan, ValidateDelete,
              Interrupt, Crash, Tick, ValidateStart, vars
<1>14. QED  BY <1>7, <1>9, <1>10, <1>12, <1>13 DEF Next

(* Who changes the files of the location. *)
LEMMA RemoteEffect ==
  ASSUME [Next]_vars
  PROVE  remote' = remote \/ Renaming \/ Uploading \/ (\E c \in {"run", "delete"} : \E g : PurgeFiles(c, g)) \/ ValidateDelete
<1> USE DEF location, agents, bounds
<1>1. ASSUME NEW n \in Nodes, Worker(n) PROVE remote' = remote
  BY <1>1 DEF Worker, SnapshotNode, AwaitSchema, IndexNode, ManifestNode, Schema, DeduplicateNode, UploadNode, UploadDone, UploadFails,
              MoveManifestNode, RollbackNode, NodeFails
<1>2. ASSUME NEW n \in Nodes, Agent(n) PROVE remote' = remote \/ Renaming \/ Uploading
  <2>1. CASE (\E t \in jobs[n] : JobEnds(n, t)) \/ AgentRestart(n)
    BY <2>1 DEF JobEnds, AgentRestart
  <2>2. QED  BY <1>2, <2>1 DEF Agent, Renaming, Uploading
<1>3. CASE Purging
  <2>1. PICK c \in {"run", "delete"}, g \in {Nodes} \cup {{n} : n \in Nodes} : PurgeFiles(c, g) \/ PurgeManifests(c, g)
    BY <1>3 DEF Purging
  <2>2. PurgeManifests(c, g) => remote' = remote
    BY DEF PurgeManifests
  <2>3. QED  BY <2>1, <2>2
<1>4. CASE \/ NextStage \/ End \/ RollbackMoveManifest \/ PurgeDecide \/ DeleteSnapshot \/ DeleteEnds \/ (\E k \in Tasks : Start(k))
           \/ ValidateRead \/ ValidateScan \/ Interrupt \/ Crash \/ Tick
           \/ (\E n \in Nodes : ValidateStart(n) \/ DeleteLocalSnapshots(n)) \/ UNCHANGED vars
  BY <1>4 DEF NextStage, End, RollbackMoveManifest, PurgeDecide, DeleteSnapshot, DeleteEnds, Start, ValidateRead, ValidateScan,
              Interrupt, Crash, Tick, ValidateStart, DeleteLocalSnapshots, vars
<1>5. QED  BY <1>1, <1>2, <1>3, <1>4 DEF Next

(* A snapshot stays what it was: only that of a new tag is taken. *)
LEMMA SnapKept ==
  ASSUME TypeInv, [Next]_vars, NEW n \in Nodes, NEW t \in Tags, ~Snapshotting \/ t # run.tag
  PROVE  snap'[n][t] = snap[n][t]
<1>1. CASE snap' = snap
  BY <1>1
<1>2. CASE Snapshotting
  <2>1. PICK k \in Nodes : SnapshotNode(k)
    BY <1>2 DEF Snapshotting
  <2>2. PICK s : snap' = [snap EXCEPT ![k][run.tag] = s] \/ snap' = snap
    BY <2>1 DEF SnapshotNode
  <2>3. snap = [m \in Nodes |-> [u \in Tags |-> snap[m][u]]] /\ t # run.tag
    BY <1>2 DEF TypeInv, AgentTypes
  <2>4. QED  BY <2>2, <2>3
<1>3. QED  BY <1>1, <1>2, WhoChanges

(* What must be found stays so: by a manifest that is to stay, or by a run that is about to write one. *)
Needed(n, t, x) ==
  \/ \E m \in manifests : m.node = n /\ m.tag = t /\ x \in m.files
  \/ run.stage \in {"INDEX", "MANIFEST"}

LEMMA FoundKept ==
  ASSUME TypeInv, OneSnapshotLeft, CallsInv, [Next]_vars, NEW n \in Nodes, NEW t \in Tags, NEW x \in Names, NEW c,
         t \notin doomed, NoneLater(local[n], t), Needed(n, t, x), <<t, x>> \notin local[n], Found(remote, n, x, t, c)
  PROVE  Found(remote', n, x, t, c)
<1>0. t \in Nat
  BY DEF Tags
<1>1. CASE remote' = remote
  BY <1>1
<1>2. CASE Renaming
  <2>1. PICK n0 \in Nodes, x0 \in Names : \E t0 \in jobs[n0] : RenameFile(n0, t0, x0)
    BY <1>2 DEF Renaming
  <2>2. QED  BY <2>1, FoundAfterRename
<1>3. CASE Uploading
  <2>1. PICK n0 \in Nodes, x0 \in Names : \E t0 \in jobs[n0] : MoveFile(n0, t0, x0)
    BY <1>3 DEF Uploading
  <2>2. QED  BY <1>0, <2>1, FoundAfterMove
<1>4. ASSUME NEW b \in {"run", "delete"}, NEW g, PurgeFiles(b, g) PROVE Found(remote', n, x, t, c)
  <2>1. run.stage \notin {"INDEX", "MANIFEST"}
    <3>1. purges[b] # NoPurge
      BY <1>4 DEF PurgeFiles
    <3>2. b = "run" => run.stage = "PURGE"
      BY <3>1 DEF TypeInv, RunTypes
    <3>3. b = "delete" => run.stage = "none"
      BY <3>1 DEF CallsInv, PurgeInv, Idle
    <3>4. QED  BY <3>2, <3>3
  <2>2. PICK m \in manifests : m.node = n /\ m.tag = t /\ x \in m.files
    BY <2>1 DEF Needed
  <2>3. QED  BY <1>4, <2>2, FoundAfterPurge DEF CallsInv
<1>5. CASE ValidateDelete
  <2>1. val # NoValidation
    BY <1>5 DEF ValidateDelete, NoValidation
  <2>2. run.stage = "none"
    BY <2>1 DEF CallsInv, ValidateInv, Idle
  <2>3. PICK m \in manifests : m.node = n /\ m.tag = t /\ x \in m.files
    BY <2>2 DEF Needed
  <2>4. QED  BY <1>5, <2>3, FoundAfterValidate DEF CallsInv
<1>6. QED  BY <1>1, <1>2, <1>3, <1>4, <1>5, RemoteEffect

(* A file of a snapshot is on its node or found until the snapshot is to go. *)
LEMMA HeldKept ==
  ASSUME TypeInv, OneSnapshotLeft, CallsInv, [Next]_vars, NEW n \in Nodes, NEW t \in Tags, NEW x \in Names,
         t \notin doomed', t \notin lost', NoneLater(local[n], t), Needed(n, t, x), ~Snapshotting \/ t # run.tag,
         Held(local[n], remote, snap[n][t], n, t, x)
  PROVE  Held(local'[n], remote', snap'[n][t], n, t, x)
<1>0. snap'[n][t] = snap[n][t] /\ t \notin doomed /\ t \in Nat
  BY SnapKept, WhoChanges DEF Tags
<1>1. x \in DOMAIN snap[n][t]
  BY DEF Held
<1>2. CASE <<t, x>> \in local'[n]
  BY <1>0, <1>1, <1>2 DEF Held
<1>3. CASE <<t, x>> \in local[n] /\ <<t, x>> \notin local'[n]
  <2>1. CASE MoveFile(n, t, x)
    <3>1. Found(remote', n, x, t, snap[n][t][x])
      BY <2>1, FoundAfterMove
    <3>2. QED  BY <1>0, <1>1, <3>1 DEF Held
  <2>2. CASE DeduplicateNode(n) /\ t = run.tag /\ x \in Duplicates(n, t)
    <3>1. Found(remote, n, x, t, snap[n][t][x])
      BY <2>2, DuplicateIsFound
    <3>2. remote' = remote
      BY <2>2 DEF DeduplicateNode, location
    <3>3. QED  BY <1>0, <1>1, <3>1, <3>2 DEF Held
  <2>3. QED  BY <1>3, <2>1, <2>2, LeavesNode
<1>4. CASE <<t, x>> \notin local[n]
  <2>1. Found(remote, n, x, t, snap[n][t][x])
    BY <1>4 DEF Held
  <2>2. PICK c : c = snap[n][t][x]
    OBVIOUS
  <2>3. Found(remote', n, x, t, c)
    BY <1>0, <1>4, <2>1, <2>2, FoundKept
  <2>4. QED  BY <1>0, <1>1, <2>2, <2>3 DEF Held
<1>5. QED  BY <1>2, <1>3, <1>4

LEMMA FilesStep ==
  ASSUME TypeInv, TypeInv', ControlInv, LeftInv, UploadInv, CallsInv, FilesInv, [Next]_vars PROVE FilesInv'
<1>0. /\ manifests \subseteq ManifestType /\ manifests' \subseteq ManifestType /\ OneSnapshotLeft /\ LastIsLeft
      /\ doomed \subseteq doomed' /\ lost \subseteq lost'
  BY WhoChanges DEF TypeInv, LocationTypes, LeftInv
<1>1. ASSUME NEW o \in manifests, o.tag \notin doomed' \cup lost', NEW x \in o.files
      PROVE  Held(local'[o.node], remote', snap'[o.node][o.tag], o.node, o.tag, x)
  <2>1. o.node \in Nodes /\ o.tag \in Tags /\ x \in Names
    BY <1>0, <1>1 DEF ManifestType
  <2>2. PICK n \in Nodes, t \in Tags : n = o.node /\ t = o.tag
    BY <2>1
  <2>3. NoneLater(local[n], t) /\ Needed(n, t, x)
    BY <1>0, <1>1, <2>2 DEF LastIsLeft, Needed
  <2>4. ~Snapshotting \/ t # run.tag
    <3>1. SUFFICES ASSUME Snapshotting PROVE t # run.tag
      OBVIOUS
    <3>2. run.stage = "SNAPSHOT"
      BY <3>1 DEF Snapshotting, SnapshotNode, At
    <3>3. o.tag < run.tag
      BY <1>1, <3>2 DEF TypeInv, TagIsNew, Beginning
    <3>4. QED  BY <2>1, <2>2, <3>3 DEF Tags
  <2>5. Held(local[n], remote, snap[n][t], n, t, x)
    BY <1>0, <1>1, <2>2 DEF FilesInv
  <2>6. Held(local'[n], remote', snap'[n][t], n, t, x)
    BY <1>0, <1>1, <2>1, <2>2, <2>3, <2>4, <2>5, HeldKept
  <2>7. QED  BY <2>2, <2>6
<1>2. ASSUME run.stage \in {"INDEX", "MANIFEST"}, run.tag \notin doomed' \cup lost', NEW n \in Nodes, NEW x \in run.index[n]
      PROVE  Held(local'[n], remote', snap'[n][run.tag], n, run.tag, x)
  <2>1. run \in RunState /\ ~Idle
    BY <1>2, RunIs DEF TypeInv, Idle
  <2>2. PICK t \in Tags : t = run.tag
    BY <2>1 DEF RunState
  <2>3. x \in Names
    BY <2>1 DEF RunState
  <2>4. NoneLater(local[n], t) /\ Needed(n, t, x) /\ ~Snapshotting
    BY <1>0, <1>2, <2>1, <2>2 DEF LastIsLeft, Needed, Snapped, Middle, Snapshotting, SnapshotNode, At
  <2>5. Held(local[n], remote, snap[n][t], n, t, x)
    BY <1>0, <1>2, <2>2 DEF FilesInv
  <2>6. Held(local'[n], remote', snap'[n][t], n, t, x)
    BY <1>0, <1>2, <2>2, <2>3, <2>4, <2>5, HeldKept
  <2>7. QED  BY <2>2, <2>6
<1>3. ASSUME NEW m \in manifests', m.tag \notin doomed' \cup lost', NEW x \in m.files
      PROVE  Held(local'[m.node], remote', snap'[m.node][m.tag], m.node, m.tag, x)
  <2>1. CASE m \in manifests
    BY <1>1, <1>3, <2>1
  <2>2. CASE Comes(m)
    <3>1. CASE run.stage = "MANIFEST" /\ m.files = run.index[m.node]
      <4>1. PICK n \in Nodes : n = m.node
        BY <2>2 DEF Comes
      <4>2. m.tag = run.tag /\ x \in run.index[n]
        BY <1>3, <2>2, <3>1, <4>1 DEF Comes
      <4>3. Held(local'[n], remote', snap'[n][run.tag], n, run.tag, x)
        BY <1>2, <1>3, <3>1, <4>2
      <4>4. QED  BY <4>1, <4>2, <4>3
    <3>2. CASE \E o \in manifests : o.node = m.node /\ o.tag = m.tag /\ o.files = m.files
      <4>1. PICK o \in manifests : o.node = m.node /\ o.tag = m.tag /\ o.files = m.files
        BY <3>2
      <4>2. Held(local'[o.node], remote', snap'[o.node][o.tag], o.node, o.tag, x)
        BY <1>1, <1>3, <4>1
      <4>3. QED  BY <4>1, <4>2
    <3>3. QED  BY <2>2, <3>1, <3>2, Zenon DEF Comes
  <2>3. QED  BY <2>1, <2>2, NewManifests
<1>4. ASSUME run'.stage \in {"INDEX", "MANIFEST"}, run'.tag \notin doomed' \cup lost', NEW n \in Nodes, NEW x \in run'.index[n]
      PROVE  Held(local'[n], remote', snap'[n][run'.tag], n, run'.tag, x)
  <2>0. ~Idle'
    BY <1>4 DEF Idle
  <2>1. CASE RunGoesOn
    <3>1. SameStage /\ ~Idle
      BY <2>0, <2>1, SameStageUnlessOver
    <3>2. run.stage \in {"INDEX", "MANIFEST"} /\ run'.tag = run.tag /\ run \in RunState
      BY <1>4, <3>1 DEF SameStage
    <3>3. CASE x \in run.index[n]
      BY <1>2, <1>4, <3>2, <3>3
    <3>4. CASE x \notin run.index[n]
      <4>1. x \in Remains(local[n], run.tag)
        BY <1>4, <3>1, <3>4 DEF SameStage
      <4>2. run.stage = "INDEX" /\ run'.index # run.index
        BY <1>4, <3>1, <3>2, <3>4 DEF SameStage
      <4>3. PICK t \in Tags : t = run.tag
        BY <3>2 DEF RunState
      <4>4. <<t, x>> \in local[n] /\ x \in Names
        BY <4>1, <4>3 DEF Remains
      <4>5. x \in DOMAIN snap[n][t]
        <5>1. <<t, x>>[1] = t /\ <<t, x>>[2] = x
          OBVIOUS
        <5>2. QED  BY <4>4, <5>1 DEF TypeInv, LocalIsHeld
      <4>6. Held(local[n], remote, snap[n][t], n, t, x)
        BY <4>4, <4>5 DEF Held
      <4>7. NoneLater(local[n], t) /\ Needed(n, t, x) /\ ~Snapshotting
        BY <1>0, <3>1, <3>2, <4>3 DEF LastIsLeft, Needed, Snapped, Middle, Snapshotting, SnapshotNode, At
      <4>8. Held(local'[n], remote', snap'[n][t], n, t, x)
        BY <1>0, <1>4, <3>2, <4>3, <4>4, <4>6, <4>7, HeldKept
      <4>9. QED  BY <3>2, <4>3, <4>8
    <3>5. QED  BY <3>3, <3>4
  <2>2. CASE NextStage
    <3>1. PICK s \in Stages, k \in Tasks : Advances(s, k)
      BY <2>2, StageFacts DEF ControlInv
    <3>2. /\ run' \in RunState /\ ~Idle /\ run'.stage = s /\ run'.tag = run.tag /\ run'.index = run.index /\ NextOf(s)
      BY <3>1 DEF Advances
    <3>3. CASE s = "INDEX"
      <4>1. run.stage \in {"INIT", "SNAPSHOT", "AWAIT_SCHEMA"}
        BY <3>2, <3>3 DEF NextOf
      <4>2. run.index[n] = {}
        BY <3>2, <4>1 DEF UploadInv, IndexInv
      <4>3. QED  BY <1>4, <3>2, <4>2
    <3>4. CASE s = "MANIFEST"
      <4>1. run.stage = "INDEX"
        BY <3>2, <3>4 DEF NextOf
      <4>2. QED  BY <1>2, <1>4, <3>2, <4>1
    <3>5. QED  BY <1>4, <3>2, <3>3, <3>4
  <2>3. ASSUME NEW k \in Tasks, Start(k) PROVE FALSE
    <3>1. PICK tag \in Tags, prev \in Resumable \cup {"none"}, only \in BOOLEAN, stage \in Stages : Begins(k, tag, prev, only, stage)
      BY <2>3, BeginFacts
    <3>2. run'.stage = "INIT"
      BY <3>1 DEF Begins
    <3>3. QED  BY <1>4, <3>2
  <2>4. QED  BY <2>1, <2>2, <2>3, RunEffect
<1>5. QED  BY <1>3, <1>4 DEF FilesInv

-----------------------------------------------------------------------------
LEMMA SafeInit == ASSUME Init PROVE SafeInv
<1> USE DEF Init
<1>0. /\ TypeInv /\ Idle /\ manifests = {} /\ (\A n \in Nodes : local[n] = {}) /\ \A k \in Tasks : DOMAIN rows[k] = {}
      /\ run.stage = "none" /\ val = NoValidation /\ \A c \in {"run", "delete"} : purges[c] = NoPurge
  BY TypeInit DEF Idle, NoRun, NoFiles
<1>1. TagsOfTasks
  BY <1>0 DEF TagsOfTasks, Idle
<1>2. ControlInv
  BY <1>0 DEF ControlInv, RowsLate, RowOfRun, NotSkipped, SchemaIsNew
<1>3. LeftInv
  BY <1>0 DEF LeftInv, OneSnapshotLeft, LastIsLeft
<1>4. UploadInv
  BY <1>0 DEF UploadInv, IndexInv, NothingLeft, Reached
<1>5. ManifestInv
  BY <1>0 DEF ManifestInv, NotShadowed, RegularIsLate
<1>6. CallsInv
  BY <1>0 DEF CallsInv, PurgeInv, ValidateInv
<1>7. SchemaInv
  BY <1>0 DEF SchemaInv, Reached, Idle
<1>8. FilesInv
  BY <1>0 DEF FilesInv
<1>9. QED  BY <1>0, <1>1, <1>2, <1>3, <1>4, <1>5, <1>6, <1>7, <1>8 DEF SafeInv

LEMMA SafeStep == ASSUME Beside = {}, SafeInv, [Next]_vars PROVE SafeInv'
<1>1. /\ TypeInv /\ TagsOfTasks /\ ControlInv /\ LeftInv /\ UploadInv /\ ManifestInv /\ NotShadowed /\ CallsInv /\ PurgeInv
      /\ SchemaInv /\ FilesInv
  BY DEF SafeInv, ManifestInv, CallsInv
<1>2. TypeInv'
  BY <1>1, TypeStep
<1>3. TagsOfTasks'
  BY <1>1, TagsOfTasksStep
<1>4. ControlInv'
  BY <1>1, ControlStep
<1>5. LeftInv'
  BY <1>1, LeftStep
<1>6. UploadInv'
  BY <1>1, UploadStep
<1>7. ManifestInv' /\ NotShadowed'
  BY <1>1, ManifestStep DEF ManifestInv
<1>8. CallsInv'
  BY <1>1, CallsStep
<1>9. SchemaInv'
  BY <1>1, <1>7, SchemaStep
<1>10. FilesInv'
  BY <1>1, <1>2, FilesStep
<1>11. QED  BY <1>2, <1>3, <1>4, <1>5, <1>6, <1>7, <1>8, <1>9, <1>10 DEF SafeInv

(* A listed backup can be restored with what its nodes had, and with its schema, whatever was deduplicated against, renamed *)
(* and purged since and however often its run failed and was continued, as long as nobody decided to remove it and its local *)
(* files were not deleted before they were uploaded: if deletion and validation do not overlap a backup.                     *)
THEOREM ListedIsRestorableCorrect == ASSUME Beside = {} PROVE Spec => []ListedIsRestorable
<1>1. SafeInv => ListedIsRestorable
  <2>1. SUFFICES ASSUME SafeInv, NEW m \in manifests, ~m.temp, m.tag \notin doomed \cup lost PROVE Restorable(m)
    BY DEF ListedIsRestorable
  <2>2. /\ TypeInv /\ FilesInv /\ NothingLeft /\ SchemaInv /\ m \in ManifestType
    BY <2>1 DEF SafeInv, UploadInv, TypeInv, LocationTypes
  <2>3. PICK n \in Nodes, t \in Tags : n = m.node /\ t = m.tag
    BY <2>2 DEF ManifestType
  <2>4. m.schema => m.tag \in schemas
    BY <2>1, <2>2 DEF SchemaInv
  <2>5. ASSUME NEW x \in m.files
        PROVE  x \in DOMAIN snap[n][t] /\ ListVersionedFiles(remote, n, x, t) = {snap[n][t][x]}
    <3>1. x \in Names
      BY <2>2 DEF ManifestType
    <3>2. Held(local[n], remote, snap[n][t], n, t, x)
      BY <2>1, <2>2, <2>3 DEF FilesInv
    <3>3. Remains(local[n], t) = {}
      BY <2>1, <2>2, <2>3 DEF NothingLeft
    <3>4. <<t, x>> \notin local[n]
      BY <3>1, <3>3 DEF Remains
    <3>5. x \in DOMAIN snap[n][t] /\ Found(remote, n, x, t, snap[n][t][x])
      BY <3>2, <3>4 DEF Held
    <3>6. QED  BY <2>2, <3>1, <3>5, FoundIsListed
  <2>6. QED  BY <2>3, <2>4, <2>5 DEF Restorable
<1>2. Init => SafeInv
  BY SafeInit
<1>3. SafeInv /\ [Next]_vars => SafeInv'
  BY SafeStep
<1>4. QED  BY <1>1, <1>2, <1>3, PTL DEF Spec

-----------------------------------------------------------------------------
(* What holds as long as nothing failed, was stopped or restarted: a run then ends with an error only in these stages. *)
Failing == {"INDEX", "UPLOAD", "MOVE_MANIFEST", "PURGE"}

RunQuiet == 
  ~Idle =>
    /\ ~run.stop
    /\ run.err => run.stage \in Failing
    /\ run.prev \in Failing \cup {"none"}
    /\ run.prev = "UPLOAD" /\ run.stage \in {"INIT", "INDEX"} => ~run.err
    /\ run.wait \subseteq run.todo
    /\ run.stage # "UPLOAD" => run.wait = {}

(* A tag of which nothing was uploaded: there is no manifest that the run could write over. *)
NoManifestOf(k, t, S) == \A m \in manifests : m.task = k /\ m.tag = t => m.node \notin S
Fresh ==
  ~Idle =>
    /\ run.prev \in {"none", "INDEX"} /\ run.stage \in {"INIT", "SNAPSHOT", "AWAIT_SCHEMA", "INDEX"} => NoManifestOf(run.task, run.tag, Nodes)
    /\ run.stage = "MANIFEST" => NoManifestOf(run.task, run.tag, run.todo)

(* After an upload nothing is left, also when it failed, since it failed for lack of the directory. *)
LeftNothing(t) == \A n \in Nodes : Remains(local[n], t) = {}
Emptied ==
  ~Idle =>
    /\ run.prev = "UPLOAD" => LeftNothing(run.tag)
    /\ run.stage = "UPLOAD" => \A n \in Nodes \ run.todo : Remains(local[n], run.tag) = {}

(* The last row of a task that is not running. *)
QuietRows ==
  \A k \in Tasks : rows[k] # <<>> /\ (Idle \/ run.task # k) =>
    /\ LastRow(k).stage \in Failing \cup {"DONE"}
    /\ LastRow(k).stage = "INDEX" => NoManifestOf(k, LastRow(k).tag, Nodes)
    /\ LastRow(k).stage = "UPLOAD" => LeftNothing(LastRow(k).tag)

(* Only the run's own jobs have something to move, and that is listed. *)
ListedAs(n, x) == \E m \in manifests : m.node = n /\ x \in m.files
OwnJobs ==
  \A n \in Nodes : \A t \in jobs[n] : Remains(local[n], t) # {} => run.stage = "UPLOAD" /\ run.tag = t /\ n \in run.wait
LeftIsListed ==
  ~Idle => \A n \in Nodes : After({"SCHEMA", "DEDUPLICATE", "UPLOAD"}, "MANIFEST", n) =>
    \A x \in Remains(local[n], run.tag) : ListedAs(n, x)

(* So all files are listed, and those of nodes where a purge deleted files by manifests that stay. *)
Staying(n, x, tags) == \E m \in manifests : m.node = n /\ x \in m.files /\ m.tag \notin tags
FilesListed == \A f \in remote : f.ver = 0 => ListedAs(f.node, f.name)
PurgesLeave ==
  \A c \in {"run", "delete"} : purges[c] # NoPurge =>
    /\ \A m \in manifests : \E l \in purges[c].list : SamePath(m, l)
    /\ \A g \in purges[c].meta : \A f \in remote : f.ver = 0 /\ f.node \in g => Staying(f.node, f.name, purges[c].tags)

QuietParts == RunQuiet /\ Fresh /\ Emptied /\ QuietRows /\ OwnJobs /\ LeftIsListed /\ FilesListed /\ PurgesLeave
QuietInv == events \in Nat /\ (events = 0 => QuietParts)

(* Events are only counted up. *)
LEMMA EventsCounted ==
  ASSUME events \in Nat, [Next]_vars PROVE events' \in Nat /\ (events' = 0 => events = 0)
<1> USE DEF bounds, Fault
<1>1. ASSUME NEW n \in Nodes, Worker(n) PROVE events' = events \/ events' = events + 1
  BY <1>1 DEF Worker, SnapshotNode, AwaitSchema, IndexNode, ManifestNode, Schema, DeduplicateNode, UploadNode, UploadDone,
              UploadFails, MoveManifestNode, RollbackNode, NodeFails, FaultOrStop
<1>2. ASSUME NEW n \in Nodes, Agent(n) \/ ValidateStart(n) \/ DeleteLocalSnapshots(n) PROVE events' = events \/ events' = events + 1
  BY <1>2 DEF Agent, JobEnds, RenameFile, MoveFile, AgentRestart, ValidateStart, DeleteLocalSnapshots
<1>3. CASE Purging
  <2>1. PICK c \in {"run", "delete"}, g \in {Nodes} \cup {{n} : n \in Nodes} : PurgeFiles(c, g) \/ PurgeManifests(c, g)
    BY <1>3 DEF Purging
  <2>2. PurgeFiles(c, g) => events' = events \/ events' = events + 1
    BY DEF PurgeFiles, PurgeFault, FaultOrStop
  <2>3. PurgeManifests(c, g) => events' = events \/ events' = events + 1
    BY DEF PurgeManifests, PurgeFault, FaultOrStop
  <2>4. QED  BY <2>1, <2>2, <2>3
<1>4. CASE \/ NextStage \/ End \/ RollbackMoveManifest \/ PurgeDecide \/ DeleteSnapshot \/ DeleteEnds \/ (\E k \in Tasks : Start(k))
           \/ ValidateRead \/ ValidateScan \/ ValidateDelete \/ Interrupt \/ Crash \/ Tick \/ UNCHANGED vars
  BY <1>4 DEF NextStage, End, RollbackMoveManifest, PurgeDecide, DeleteSnapshot, DeleteEnds, Start, ValidateRead, ValidateScan,
              ValidateDelete, Interrupt, Crash, Tick, vars
<1>5. QED  BY <1>1, <1>2, <1>3, <1>4 DEF Next

(* A step of the run in its stage, when nothing fails. *)
Calm ==
  /\ run'.stop = run.stop
  /\ run'.err => run.err \/ run.stage \in {"UPLOAD", "MOVE_MANIFEST", "PURGE"} \/ (run.stage = "INDEX" /\ run.prev # "UPLOAD")
  /\ run'.wait \subseteq run'.todo
  /\ run.stage # "UPLOAD" => run'.wait = {}
  /\ \A n \in run.wait \ run'.wait : Remains(local[n], run.tag) = {}
  /\ run.stage = "UPLOAD" => \A n \in run.todo \ run'.todo : Remains(local[n], run.tag) = {} \/ run.index[n] = {}
  /\ run'.todo \subseteq run.todo \/ run.stage = "MOVE_MANIFEST"

LEMMA CalmByNode ==
  ASSUME run \in RunState, RunQuiet, ~Idle, NEW n \in Nodes, n \in run.todo,
         Ok(n) \/ (Err(n) /\ run.stage \in {"UPLOAD", "MOVE_MANIFEST"}),
         run.stage = "UPLOAD" => Remains(local[n], run.tag) = {} \/ (run.index[n] = {} /\ n \notin run.wait)
  PROVE  Calm
<1>1. run'.todo = run.todo \ {n} /\ run'.wait = run.wait \ {n} /\ run'.stop = run.stop
  BY NodeDone
<1>2. Ok(n) => run'.err = run.err
  BY NodeDone, Zenon
<1>3. run'.err => run.err \/ run.stage \in {"UPLOAD", "MOVE_MANIFEST"}
  BY <1>2, Zenon
<1>4. /\ run.wait \subseteq run.todo
      /\ run.stage # "UPLOAD" => run.wait = {}
  BY DEF RunQuiet
<1>5. QED  BY <1>1, <1>3, <1>4 DEF Calm

LEMMA CalmWorker ==
  ASSUME TypeInv, OneSnapshotLeft, RunQuiet, NEW n \in Nodes, Worker(n), events = 0, events' = 0
  PROVE  ~Idle /\ run \in RunState /\ Calm
<1> USE DEF Fault
<1>0. run.stage \in Stages => ~Idle /\ run \in RunState
  BY RunIs DEF TypeInv
<1>1. NodeFails(n) => FALSE
  <2>1. SUFFICES ASSUME NodeFails(n) PROVE FALSE
    OBVIOUS
  <2>2. run.stage \in Stages
    BY <2>1, StageNumbers DEF NodeFails, At, NodeStages, HostStages
  <2>3. QED  BY <1>0, <2>1, <2>2 DEF NodeFails, FaultOrStop, RunQuiet
<1>2. ASSUME SnapshotNode(n) \/ ManifestNode(n) \/ Schema(n) \/ DeduplicateNode(n) \/ MoveManifestNode(n) \/ RollbackNode(n)
      PROVE  ~Idle /\ run \in RunState /\ Calm
  <2>1. /\ run.stage \in Stages \ {"UPLOAD"} /\ n \in run.todo
        /\ Ok(n) \/ (Err(n) /\ run.stage = "MOVE_MANIFEST")
    <3>1. SnapshotNode(n) => run.stage = "SNAPSHOT" /\ n \in run.todo /\ Ok(n)
      BY DEF SnapshotNode, At
    <3>2. ManifestNode(n) => run.stage = "MANIFEST" /\ n \in run.todo /\ Ok(n)
      BY DEF ManifestNode, At
    <3>3. Schema(n) => run.stage = "SCHEMA" /\ n \in run.todo /\ Ok(n)
      BY DEF Schema, At
    <3>4. DeduplicateNode(n) => run.stage = "DEDUPLICATE" /\ n \in run.todo /\ Ok(n)
      BY DEF DeduplicateNode, At
    <3>5. MoveManifestNode(n) \/ RollbackNode(n) => run.stage = "MOVE_MANIFEST" /\ n \in run.todo /\ (Ok(n) \/ Err(n))
      BY DEF MoveManifestNode, RollbackNode, At
    <3>6. QED  BY <1>2, <3>1, <3>2, <3>3, <3>4, <3>5, StageNumbers
  <2>2. QED  BY <1>0, <2>1, CalmByNode
<1>3. CASE AwaitSchema(n)
  <2>1. run.stage = "AWAIT_SCHEMA" /\ run' = [run EXCEPT !.todo = {}, !.schema = TRUE]
    BY <1>3 DEF AwaitSchema, At
  <2>2. ~Idle /\ run \in RunState
    BY <1>0, <2>1, StageNumbers
  <2>3. run'.stop = run.stop /\ run'.wait = run.wait /\ run'.todo = {} /\ run'.err = run.err
    BY <2>1, <2>2 DEF RunState
  <2>4. run'.err => run.err
    BY <2>3, Zenon
  <2>5. run.wait = {}
    BY <2>1, <2>2 DEF RunQuiet
  <2>6. QED  BY <2>1, <2>2, <2>3, <2>4, <2>5 DEF Calm
<1>4. CASE IndexNode(n)
  <2>1. run.stage = "INDEX" /\ n \in run.todo
    BY <1>4 DEF IndexNode, At
  <2>2. ~Idle /\ run \in RunState
    BY <1>0, <2>1, StageNumbers
  <2>3. PICK e \in BOOLEAN : e = (run.err \/ ~(run.tag \in dirs[n] \/ run.prev = "UPLOAD"))
    OBVIOUS
  <2>9. PICK v : v = Left(n, run.tag)
    OBVIOUS
  <2>10. run' = [run EXCEPT !.todo = @ \ {n}, !.err = e, !.index[n] = v]
    BY <1>4, <2>3, <2>9 DEF IndexNode
  <2>4. run'.stop = run.stop /\ run'.wait = run.wait /\ run'.todo = run.todo \ {n}
    BY <2>2, <2>10 DEF RunState
  <2>5. run'.err = e
    BY <2>2, <2>10 DEF RunState
  <2>6. run'.err => run.err \/ run.prev # "UPLOAD"
    BY <2>3, <2>5, Zenon
  <2>7. run.wait = {}
    BY <2>1, <2>2 DEF RunQuiet
  <2>8. QED  BY <2>1, <2>2, <2>4, <2>6, <2>7 DEF Calm
<1>5. CASE UploadNode(n)
  <2>1. run.stage = "UPLOAD" /\ n \in run.todo /\ n \notin run.wait
    BY <1>5 DEF UploadNode, At
  <2>2. ~Idle /\ run \in RunState
    BY <1>0, <2>1, StageNumbers
  <2>3. CASE run.index[n] = {}
    <3>1. Ok(n)
      BY <1>5, <2>3 DEF UploadNode
    <3>2. QED  BY <2>1, <2>2, <2>3, <3>1, CalmByNode
  <2>4. CASE run.index[n] # {}
    <3>1. run' = [run EXCEPT !.wait = @ \cup {n}]
      BY <1>5, <2>4 DEF UploadNode
    <3>2. run'.stop = run.stop /\ run'.wait = run.wait \cup {n} /\ run'.todo = run.todo /\ run'.err = run.err
      BY <2>2, <3>1 DEF RunState
    <3>3. run'.err => run.err
      BY <3>2, Zenon
    <3>4. run.wait \subseteq run.todo
      BY <2>2 DEF RunQuiet
    <3>5. QED  BY <2>1, <2>2, <3>2, <3>3, <3>4 DEF Calm
  <2>5. QED  BY <2>3, <2>4
<1>6. CASE UploadDone(n)
  <2>1. run.stage = "UPLOAD" /\ n \in run.todo /\ (Ok(n) \/ Err(n)) /\ Remains(local[n], run.tag) = {}
    BY <1>6 DEF UploadDone, At, Left, Remains
  <2>2. QED  BY <1>0, <2>1, StageNumbers, CalmByNode
<1>7. CASE UploadFails(n)
  <2>1. run.stage = "UPLOAD" /\ n \in run.todo /\ Err(n)
    BY <1>7 DEF UploadFails, At
  <2>2. ~Idle /\ run \in RunState
    BY <1>0, <2>1, StageNumbers
  <2>3. run.tag \notin dirs[n]
    BY <1>7, <2>2 DEF UploadFails, FaultOrStop, RunQuiet
  <2>4. Remains(local[n], run.tag) = {}
    BY <2>3 DEF OneSnapshotLeft, Remains
  <2>5. QED  BY <2>1, <2>2, <2>4, CalmByNode
<1>8. QED  BY <1>1, <1>2, <1>3, <1>4, <1>5, <1>6, <1>7 DEF Worker

LEMMA CalmPurging ==
  ASSUME TypeInv, RunQuiet, Purging
  PROVE  rows' = rows /\ (run' = run \/ (~Idle /\ run \in RunState /\ Calm /\ SameStage))
<1>1. PICK c \in {"run", "delete"}, g \in {Nodes} \cup {{n} : n \in Nodes} : PurgeFiles(c, g) \/ PurgeManifests(c, g)
  BY DEF Purging
<1>2. rows' = rows
  BY <1>1 DEF PurgeFiles, PurgeManifests
<1>3. CASE c = "delete"
  <2>1. PurgeFiles(c, g) => run' = run
    BY <1>3 DEF PurgeFiles
  <2>2. PurgeManifests(c, g) => run' = run
    BY <1>3 DEF PurgeManifests
  <2>3. QED  BY <1>1, <1>2, <2>1, <2>2
<1>4. CASE c = "run"
  <2>1. run.stage = "PURGE" /\ run \in RunState /\ ~Idle
    BY <1>1, <1>4, RunIs, StageNumbers DEF PurgeFiles, PurgeManifests, TypeInv, RunTypes
  <2>2. PICK e \in BOOLEAN : run' = run \/ run' = [run EXCEPT !.todo = @ \ g, !.err = e]
    <3>1. CASE PurgeFiles(c, g)
      BY <1>4, <3>1 DEF PurgeFiles
    <3>2. CASE PurgeManifests(c, g)
      <4>1. run' = [run EXCEPT !.todo = @ \ g] /\ run.err \in BOOLEAN
        BY <1>4, <2>1, <3>2 DEF PurgeManifests, RunState
      <4>2. run' = [run EXCEPT !.todo = @ \ g, !.err = run.err]
        BY <2>1, <4>1 DEF RunState
      <4>3. QED  BY <4>1, <4>2
    <3>3. QED  BY <1>1, <3>1, <3>2
  <2>3. CASE run' # run
    <3>1. run' \in RunState /\ run'.stop = run.stop /\ run'.wait = run.wait /\ run'.todo = run.todo \ g
      BY <2>1, <2>2, <2>3 DEF RunState
    <3>2. run.wait = {}
      BY <2>1 DEF RunQuiet
    <3>3. Calm
      BY <2>1, <3>1, <3>2 DEF Calm
    <3>4. run' # NoRun
      BY <3>1, StageNumbers DEF RunState, NoRun
    <3>5. SameStage
      BY <2>3, <3>4, PurgingEffect DEF RunGoesOn
    <3>6. QED  BY <1>2, <2>1, <3>3, <3>5
  <2>4. QED  BY <1>2, <2>3
<1>5. QED  BY <1>1, <1>3, <1>4

(* What a step does to the run, when nothing fails. *)
LEMMA CalmRun ==
  ASSUME TypeInv, OneSnapshotLeft, RunQuiet, events = 0, events' = 0, [Next]_vars
  PROVE  \/ NextStage
         \/ \E k \in Tasks : Start(k)
         \/ End
         \/ UNCHANGED <<run, rows>>
         \/ ~Idle /\ run \in RunState /\ Calm /\ SameStage /\ UNCHANGED rows
<1> USE DEF Fault, location, agents, bounds
<1>1. CASE \E n \in Nodes : Worker(n)
  BY <1>1, CalmWorker, WorkerEffect DEF RunGoesOn
<1>2. CASE Purging
  BY <1>2, CalmPurging
<1>3. CASE RollbackMoveManifest
  <2>1. run.stage = "MOVE_MANIFEST" /\ ~Idle /\ run \in RunState /\ run' = [run EXCEPT !.rollback = TRUE, !.todo = Nodes]
    BY <1>3, RunIs, StageNumbers DEF RollbackMoveManifest, TypeInv
  <2>2. /\ run'.stop = run.stop /\ run'.wait = run.wait /\ run'.todo = Nodes
        /\ run' \in RunState
    BY <2>1 DEF RunState
  <2>3. run'.err => run.err
    <3>1. run'.err = run.err
      BY <2>1 DEF RunState
    <3>2. QED  BY <3>1, Zenon
  <2>4. run.wait = {}
    BY <2>1 DEF RunQuiet
  <2>5. Calm
    BY <2>1, <2>2, <2>3, <2>4 DEF Calm
  <2>6. run' # NoRun
    BY <2>2, StageNumbers DEF RunState, NoRun
  <2>7. UNCHANGED rows
    BY <1>3 DEF RollbackMoveManifest
  <2>8. run' = run \/ SameStage
    <3>1. run'.task = run.task /\ run'.tag = run.tag /\ run'.prev = run.prev /\ run'.stage = run.stage /\ run'.index = run.index
      BY <2>1 DEF RunState
    <3>2. run'.only = run.only /\ run'.schema = run.schema
      BY <2>1 DEF RunState
    <3>3. \A n \in run.todo \ run'.todo : ~run'.err => PartDone(n)
      BY <2>1, <2>2 DEF RunState
    <3>4. run.err => run'.err
      <4>1. run'.err = run.err
        BY <2>1 DEF RunState
      <4>2. QED  BY <4>1, Zenon
    <3>5. QED  BY <2>1, <2>2, <3>1, <3>2, <3>3, <3>4 DEF SameStage
  <2>9. QED  BY <2>1, <2>5, <2>7, <2>8
<1>4. CASE \/ (\E n \in Nodes : Agent(n) \/ ValidateStart(n) \/ DeleteLocalSnapshots(n))
           \/ PurgeDecide \/ DeleteSnapshot \/ DeleteEnds \/ ValidateRead \/ ValidateScan \/ ValidateDelete \/ Tick \/ UNCHANGED vars
  <2>1. ASSUME NEW n \in Nodes, Agent(n) PROVE UNCHANGED <<run, rows>>
    BY <2>1 DEF Agent, JobEnds, RenameFile, MoveFile, AgentRestart
  <2>2. ASSUME NEW n \in Nodes, ValidateStart(n) \/ DeleteLocalSnapshots(n) PROVE UNCHANGED <<run, rows>>
    BY <2>2 DEF ValidateStart, DeleteLocalSnapshots
  <2>3. CASE PurgeDecide \/ DeleteSnapshot \/ DeleteEnds \/ ValidateRead \/ ValidateScan \/ ValidateDelete \/ Tick \/ UNCHANGED vars
    BY <2>3 DEF PurgeDecide, DeleteSnapshot, DeleteEnds, ValidateRead, ValidateScan, ValidateDelete, Tick, vars
  <2>4. QED  BY <1>4, <2>1, <2>2, <2>3
<1>5. CASE Interrupt \/ Crash
  BY <1>5 DEF Interrupt, Crash
<1>6. QED  BY <1>1, <1>2, <1>3, <1>4, <1>5 DEF Next

-----------------------------------------------------------------------------
LEMMA LeftShrinks ==
  ASSUME TypeInv, OneSnapshotLeft, [Next]_vars, NEW t, ~Snapshotting \/ t # run.tag
  PROVE  \A n \in Nodes : Remains(local'[n], t) \subseteq Remains(local[n], t)
<1>1. CASE ~Snapshotting
  BY <1>1, LocalShrinks DEF Remains
<1>2. CASE Snapshotting
  <2>1. PICK n \in Nodes : SnapshotNode(n)
    BY <1>2 DEF Snapshotting
  <2>2. \A x \in Nodes : \A f \in local'[x] : f \in local[x] \/ f[1] = run.tag
    BY <2>1 DEF SnapshotNode, TypeInv, AgentTypes
  <2>3. t # run.tag
    BY <1>2
  <2>4. QED  BY <2>2, <2>3 DEF Remains
<1>3. QED  BY <1>1, <1>2

(* Which row a run continues, when nothing fails: the last one. *)
LEMMA ContinuesLast ==
  ASSUME QuietRows, NEW k \in Tasks, NEW tag, NEW prev, NEW only, NEW stage, Begins(k, tag, prev, only, stage), prev # "none"
  PROVE  /\ prev \in Failing /\ rows[k] # <<>> /\ LastRow(k).tag = tag /\ LastRow(k).stage = prev
         /\ prev = "INDEX" => NoManifestOf(k, tag, Nodes)
         /\ prev = "UPLOAD" => LeftNothing(tag)
<1>1. PICK i \in 1 .. Len(rows[k]) :
           /\ rows[k][i].tag = tag /\ rows[k][i].stage = prev
           /\ \A j \in i .. Len(rows[k]) : rows[k][j].stage # "DONE"
           /\ \A j \in (i + 1) .. Len(rows[k]) : rows[k][j].stage \notin Resumable
  BY DEF Begins
<1>2. Len(rows[k]) \in Nat /\ rows[k] # <<>> /\ Idle
  <2>1. Len(rows[k]) \in Nat /\ DOMAIN rows[k] = 1 .. Len(rows[k]) /\ Idle
    BY DEF Begins
  <2>2. rows[k] # <<>>
    BY <1>1, <2>1
  <2>3. QED  BY <2>1, <2>2
<1>3. LastRow(k).stage \in Failing \cup {"DONE"}
  BY <1>2 DEF QuietRows
<1>4. i = Len(rows[k])
  <2>1. SUFFICES ASSUME i # Len(rows[k]) PROVE FALSE
    OBVIOUS
  <2>2. Len(rows[k]) \in (i + 1) .. Len(rows[k]) /\ Len(rows[k]) \in i .. Len(rows[k])
    BY <1>1, <1>2, <2>1
  <2>3. QED  BY <1>1, <1>3, <2>2 DEF LastRow, Failing, Resumable
<1>5. LastRow(k).tag = tag /\ LastRow(k).stage = prev /\ prev # "DONE"
  BY <1>1, <1>2, <1>4 DEF LastRow
<1>6. QED  BY <1>2, <1>3, <1>5 DEF QuietRows

LEMMA RunQuietStep ==
  ASSUME TypeInv, OneSnapshotLeft, ControlInv, RunQuiet, QuietRows, events = 0, events' = 0, [Next]_vars
  PROVE  RunQuiet'
<1>1. CASE NextStage
  <2>1. PICK s \in Stages, k \in Tasks : Advances(s, k)
    BY <1>1, StageFacts DEF ControlInv
  <2>2. run'.wait = run.wait /\ run'.err = run.err /\ run'.stop = run.stop
    BY <1>1, NextStageFacts
  <2>3. ~Idle /\ run.todo = {} /\ ~run.err /\ run'.prev = run.prev
    BY <2>1 DEF Advances
  <2>4. ~run'.err
    BY <2>2, <2>3, Zenon
  <2>5. ~run'.stop
    BY <2>2, <2>3, Zenon DEF RunQuiet
  <2>6. run'.wait = {} /\ run'.prev \in Failing \cup {"none"}
    BY <2>2, <2>3 DEF RunQuiet
  <2>7. QED  BY <2>4, <2>5, <2>6 DEF RunQuiet
<1>2. CASE \E k \in Tasks : Start(k)
  <2>1. PICK k \in Tasks : Start(k)
    BY <1>2
  <2>2. PICK tag \in Tags, prev \in Resumable \cup {"none"}, only \in BOOLEAN, stage \in Stages : Begins(k, tag, prev, only, stage)
    BY <2>1, BeginFacts
  <2>3. run' = NewRun(k, tag, prev, only) /\ run'.prev = prev
    BY <2>2 DEF Begins
  <2>4. run'.err = FALSE /\ run'.stop = FALSE /\ run'.wait = {}
    BY <2>3 DEF NewRun
  <2>5. prev \in Failing \cup {"none"}
    BY <2>2, ContinuesLast
  <2>6. QED  BY <2>3, <2>4, <2>5 DEF RunQuiet
<1>3. CASE End
  BY <1>3 DEF End, RunQuiet, Idle, NoRun
<1>4. CASE UNCHANGED <<run, rows>>
  BY <1>4 DEF RunQuiet, Idle
<1>5. CASE ~Idle /\ run \in RunState /\ Calm /\ SameStage
  <2>1. run'.stage = run.stage /\ run'.prev = run.prev
    BY <1>5 DEF SameStage
  <2>2. ~run'.stop
    <3>1. run'.stop = run.stop /\ ~run.stop
      BY <1>5 DEF Calm, RunQuiet
    <3>2. QED  BY <3>1, Zenon
  <2>3. run'.err => run.stage \in Failing
    BY <1>5 DEF Calm, RunQuiet, Failing
  <2>4. run.prev = "UPLOAD" /\ run.stage \in {"INIT", "INDEX"} => ~run'.err
    BY <1>5 DEF Calm, RunQuiet
  <2>5. QED  BY <1>5, <2>1, <2>2, <2>3, <2>4 DEF RunQuiet, Calm
<1>6. QED  BY <1>1, <1>2, <1>3, <1>4, <1>5, CalmRun

LEMMA FreshStep ==
  ASSUME TypeInv, TagsOfTasks, OneSnapshotLeft, ControlInv, RunQuiet, Fresh, QuietRows, events = 0, events' = 0, [Next]_vars
  PROVE  Fresh'
<1> DEFINE Early == {"INIT", "SNAPSHOT", "AWAIT_SCHEMA", "INDEX"}
<1>1. CASE NextStage
  <2>1. PICK s \in Stages, k \in Tasks : Advances(s, k)
    BY <1>1, StageFacts DEF ControlInv
  <2>2. /\ manifests' = manifests /\ ~Idle /\ run'.task = run.task /\ run'.tag = run.tag /\ run'.prev = run.prev /\ run'.stage = s
        /\ run'.todo \subseteq Nodes
    BY <1>1, <2>1 DEF NextStage, location, Advances, RunState
  <2>3. s \in Early => run.stage \in Early
    BY <2>1 DEF Advances, NextOf
  <2>4. s = "MANIFEST" => run.stage = "INDEX" /\ run.prev \in {"none", "INDEX"}
    <3>1. SUFFICES ASSUME s = "MANIFEST" PROVE run.stage = "INDEX" /\ run.prev \in {"none", "INDEX"}
      OBVIOUS
    <3>2. run.stage = "INDEX" /\ ~Skipped("MANIFEST") /\ run.prev \in Failing \cup {"none"}
      BY <2>1, <2>2, <3>1 DEF Advances, NextOf, Following, RunQuiet
    <3>3. QED  BY <3>2, StageNumbers DEF Skipped, Failing, AllowReindex
  <2>5. QED  BY <2>2, <2>3, <2>4 DEF Fresh, NoManifestOf
<1>2. CASE \E k \in Tasks : Start(k)
  <2>1. PICK k \in Tasks : Start(k)
    BY <1>2
  <2>2. PICK tag \in Tags, prev \in Resumable \cup {"none"}, only \in BOOLEAN, stage \in Stages : Begins(k, tag, prev, only, stage)
    BY <2>1, BeginFacts
  <2>3. manifests' = manifests /\ run'.task = k /\ run'.tag = tag /\ run'.prev = prev /\ run'.stage = "INIT"
    BY <2>1, <2>2 DEF Start, location, Begins
  <2>4. prev = "none" => NoManifestOf(k, tag, Nodes)
    <3>1. SUFFICES ASSUME prev = "none", NEW m \in manifests, m.task = k, m.tag = tag PROVE FALSE
      BY DEF NoManifestOf
    <3>2. PICK i \in DOMAIN rows[k] : rows[k][i].tag = tag
      BY <3>1 DEF TagsOfTasks
    <3>3. i \in 1 .. Len(rows[k]) /\ rows[k][i].tag < tag
      BY <2>2, <3>1, <3>2 DEF Begins
    <3>4. QED  BY <3>2, <3>3 DEF Tags
  <2>5. prev = "INDEX" => NoManifestOf(k, tag, Nodes)
    BY <2>2, ContinuesLast
  <2>6. QED  BY <2>3, <2>4, <2>5 DEF Fresh, NoManifestOf
<1>3. CASE End
  BY <1>3 DEF End, Fresh, Idle, NoRun
<1>4. CASE UNCHANGED run \/ (~Idle /\ run \in RunState /\ Calm /\ SameStage)
  <2>1. SUFFICES ASSUME ~Idle'
                 PROVE  /\ run'.prev \in {"none", "INDEX"} /\ run'.stage \in Early => \A m \in manifests' : m.task = run'.task /\ m.tag = run'.tag => m.node \notin Nodes
                        /\ run'.stage = "MANIFEST" => \A m \in manifests' : m.task = run'.task /\ m.tag = run'.tag => m.node \notin run'.todo
    BY DEF Fresh, NoManifestOf
  <2>2. /\ ~Idle /\ run'.task = run.task /\ run'.tag = run.tag /\ run'.prev = run.prev /\ run'.stage = run.stage
        /\ run'.todo \subseteq run.todo \/ run.stage = "MOVE_MANIFEST"
    BY <1>4, <2>1 DEF SameStage, Calm, Idle
  <2>3. ASSUME run.prev \in {"none", "INDEX"}, run.stage \in Early, NEW m \in manifests', m.task = run.task, m.tag = run.tag,
               m.node \in Nodes
        PROVE  FALSE
    <3>1. m \in manifests
      BY <2>3, NewManifests DEF Comes
    <3>2. QED  BY <2>2, <2>3, <3>1 DEF Fresh, NoManifestOf
  <2>4. ASSUME run.stage = "MANIFEST", NEW m \in manifests', m.task = run.task, m.tag = run.tag, m.node \in run'.todo
        PROVE  FALSE
    <3>1. CASE m \in manifests
      BY <2>2, <2>4, <3>1 DEF Fresh, NoManifestOf
    <3>2. CASE m \notin manifests
      <4>1. Manifesting
        BY <3>2, NewManifests
      <4>2. PICK n \in Nodes : ManifestNode(n) \/ MoveManifestNode(n) \/ RollbackNode(n)
        BY <4>1 DEF Manifesting
      <4>3. ManifestNode(n)
        BY <2>4, <4>2 DEF MoveManifestNode, RollbackNode, At
      <4>4. m = Manifest(n, TRUE) /\ (Ok(n) \/ Err(n))
        BY <3>2, <4>3 DEF ManifestNode
      <4>5. m.node = n
        BY <4>4 DEF Manifest
      <4>6. run'.todo = run.todo \ {n}
        BY <2>2, <4>4, NodeDone, RunIs DEF TypeInv
      <4>7. QED  BY <2>4, <4>5, <4>6
    <3>3. QED  BY <3>1, <3>2
  <2>5. QED  BY <2>2, <2>3, <2>4
<1>5. QED  BY <1>1, <1>2, <1>3, <1>4, CalmRun

LEMMA EmptiedStep ==
  ASSUME TypeInv, OneSnapshotLeft, ControlInv, UploadInv, RunQuiet, QuietRows, Emptied, events = 0, events' = 0, [Next]_vars
  PROVE  Emptied'
<1>1. CASE NextStage
  <2>1. PICK s \in Stages, k \in Tasks : Advances(s, k)
    BY <1>1, StageFacts DEF ControlInv
  <2>2. local' = local /\ ~Idle /\ run'.tag = run.tag /\ run'.prev = run.prev /\ run'.stage = s /\ (s = "UPLOAD" => run'.todo = Nodes)
    BY <1>1, <2>1 DEF NextStage, agents, Advances, NodeStages
  <2>3. QED  BY <2>2 DEF Emptied, LeftNothing
<1>2. CASE \E k \in Tasks : Start(k)
  <2>1. PICK k \in Tasks : Start(k)
    BY <1>2
  <2>2. PICK tag \in Tags, prev \in Resumable \cup {"none"}, only \in BOOLEAN, stage \in Stages : Begins(k, tag, prev, only, stage)
    BY <2>1, BeginFacts
  <2>3. local' = local /\ run'.tag = tag /\ run'.prev = prev /\ run'.stage = "INIT"
    BY <2>1, <2>2 DEF Start, agents, Begins
  <2>4. prev = "UPLOAD" => LeftNothing(tag)
    BY <2>2, ContinuesLast
  <2>5. QED  BY <2>3, <2>4 DEF Emptied, LeftNothing
<1>3. CASE End
  BY <1>3 DEF End, Emptied, Idle, NoRun
<1>4. CASE UNCHANGED run \/ (~Idle /\ run \in RunState /\ Calm /\ SameStage)
  <2>1. SUFFICES ASSUME ~Idle'
                 PROVE  /\ run'.prev = "UPLOAD" => \A n \in Nodes : Remains(local'[n], run'.tag) = {}
                        /\ run'.stage = "UPLOAD" => \A n \in Nodes \ run'.todo : Remains(local'[n], run'.tag) = {}
    BY DEF Emptied, LeftNothing
  <2>2. ~Idle /\ run'.tag = run.tag /\ run'.prev = run.prev /\ run'.stage = run.stage
    BY <1>4, <2>1 DEF SameStage, Idle
  <2>3. PICK t : t = run.tag
    OBVIOUS
  <2>4. ASSUME run.prev = "UPLOAD" \/ run.stage = "UPLOAD" PROVE \A n \in Nodes : Remains(local'[n], t) \subseteq Remains(local[n], t)
    <3>1. ~Snapshotting
      BY <2>4 DEF Snapshotting, SnapshotNode, At, TypeInv, TagIsNew
    <3>2. QED  BY <3>1, LeftShrinks
  <2>5. run.prev = "UPLOAD" => \A n \in Nodes : Remains(local'[n], t) = {}
    BY <2>2, <2>3, <2>4 DEF Emptied, LeftNothing
  <2>6. ASSUME run.stage = "UPLOAD", NEW n \in Nodes \ run'.todo PROVE Remains(local'[n], t) = {}
    <3>1. CASE n \notin run.todo
      BY <2>2, <2>3, <2>4, <2>6, <3>1 DEF Emptied
    <3>2. CASE n \in run.todo
      <4>1. Remains(local[n], run.tag) = {} \/ run.index[n] = {}
        BY <1>4, <2>6, <3>2 DEF Calm
      <4>2. Remains(local[n], run.tag) \subseteq run.index[n]
        BY <2>2, <2>6 DEF UploadInv, IndexInv, After
      <4>3. QED  BY <2>3, <2>4, <2>6, <4>1, <4>2
    <3>3. QED  BY <3>1, <3>2
  <2>7. QED  BY <2>2, <2>3, <2>5, <2>6
<1>5. QED  BY <1>1, <1>2, <1>3, <1>4, CalmRun

LEMMA QuietRowsStep ==
  ASSUME TypeInv, TagsOfTasks, OneSnapshotLeft, ControlInv, RunQuiet, Fresh, Emptied, QuietRows, events = 0, events' = 0, [Next]_vars
  PROVE  QuietRows'
<1>1. ASSUME NEW k \in Tasks, Idle \/ run.task # k, rows'[k] = rows[k], rows[k] # <<>>
      PROVE  /\ LastRow(k)'.stage \in Failing \cup {"DONE"}
             /\ LastRow(k)'.stage = "INDEX" => NoManifestOf(k, LastRow(k).tag, Nodes)'
             /\ LastRow(k)'.stage = "UPLOAD" => LeftNothing(LastRow(k).tag)'
  <2>1. PICK r : r = LastRow(k)
    OBVIOUS
  <2>2. r.stage \in Failing \cup {"DONE"} /\ LastRow(k)' = r
    BY <1>1, <2>1 DEF QuietRows, LastRow
  <2>3. ASSUME r.stage = "INDEX" PROVE NoManifestOf(k, r.tag, Nodes)'
    <3>1. SUFFICES ASSUME NEW m \in manifests', m.task = k, m.tag = r.tag, m.node \in Nodes PROVE FALSE
      BY DEF NoManifestOf
    <3>2. m \in manifests
      BY <1>1, <3>1, NewManifests DEF Comes
    <3>3. QED  BY <1>1, <2>1, <2>3, <3>1, <3>2 DEF QuietRows, NoManifestOf
  <2>4. ASSUME r.stage = "UPLOAD" PROVE LeftNothing(r.tag)'
    <3>1. ~Snapshotting \/ r.tag # run.tag
      <4>1. SUFFICES ASSUME Snapshotting, r.tag = run.tag PROVE FALSE
        OBVIOUS
      <4>2. ~Idle /\ run \in RunState
        BY <4>1, RunIs, StageNumbers DEF Snapshotting, SnapshotNode, At, TypeInv
      <4>3. rows[k] \in Seq(RowState)
        BY DEF TypeInv, RunTypes
      <4>4. Len(rows[k]) \in Nat /\ DOMAIN rows[k] = 1 .. Len(rows[k]) /\ Len(rows[k]) # 0
        BY <1>1, <4>3, LenProperties, EmptySeq
      <4>5. Len(rows[k]) \in DOMAIN rows[k]
        BY <4>4
      <4>6. PICK j \in DOMAIN rows[run.task] : rows[run.task][j].tag = run.tag
        BY <4>2 DEF TagsOfTasks
      <4>7. k = run.task
        BY <2>1, <4>1, <4>2, <4>5, <4>6 DEF TagsOfTasks, LastRow, RunState
      <4>8. QED  BY <1>1, <4>2, <4>7
    <3>2. \A n \in Nodes : Remains(local[n], r.tag) = {}
      BY <1>1, <2>1, <2>4 DEF QuietRows, LeftNothing
    <3>3. PICK t : t = r.tag
      OBVIOUS
    <3>4. \A n \in Nodes : Remains(local'[n], t) \subseteq Remains(local[n], t)
      BY <3>1, <3>3, LeftShrinks
    <3>5. QED  BY <3>2, <3>3, <3>4 DEF LeftNothing
  <2>5. QED  BY <2>1, <2>2, <2>3, <2>4
<1>2. CASE NextStage
  <2>1. PICK s \in Stages, k \in Tasks : Advances(s, k)
    BY <1>2, StageFacts DEF ControlInv
  <2>2. ~Idle /\ ~Idle' /\ run'.task = k /\ run.task = k /\ \A x \in Tasks : x # k => rows'[x] = rows[x]
    BY <2>1 DEF Advances
  <2>3. QED  BY <1>1, <2>2 DEF QuietRows
<1>3. CASE \E k \in Tasks : Start(k)
  <2>1. PICK k \in Tasks : Start(k)
    BY <1>3
  <2>2. PICK tag \in Tags, prev \in Resumable \cup {"none"}, only \in BOOLEAN, stage \in Stages : Begins(k, tag, prev, only, stage)
    BY <2>1, BeginFacts
  <2>3. Idle /\ ~Idle' /\ run'.task = k /\ \A x \in Tasks : x # k => rows'[x] = rows[x]
    BY <2>2 DEF Begins
  <2>4. QED  BY <1>1, <2>3 DEF QuietRows
<1>4. CASE End
  <2>1. SUFFICES ASSUME ~Idle, NEW k, k = run.task
                 PROVE  /\ LastRow(k)'.stage \in Failing \cup {"DONE"}
                        /\ LastRow(k)'.stage = "INDEX" => NoManifestOf(k, LastRow(k).tag, Nodes)'
                        /\ LastRow(k)'.stage = "UPLOAD" => LeftNothing(LastRow(k).tag)'
    <3>1. rows' = rows
      BY <1>4 DEF End
    <3>2. QED  BY <1>1, <2>1, <3>1 DEF QuietRows
  <2>2. /\ rows' = rows /\ manifests' = manifests /\ local' = local /\ run.todo = {}
        /\ run.stage = "DONE" \/ run.err
    BY <1>4 DEF End, location, agents
  <2>3. run.stage \in Failing \cup {"DONE"}
    BY <2>1, <2>2 DEF RunQuiet
  <2>4. LastRow(k)' = LastRow(k) /\ LastRow(k).stage = run.stage /\ LastRow(k).tag = run.tag
    BY <2>1, <2>2, <2>3 DEF ControlInv, RowOfRun, LastRow, Failing
  <2>5. run.stage = "INDEX" => NoManifestOf(k, run.tag, Nodes)
    <3>1. SUFFICES ASSUME run.stage = "INDEX" PROVE run.prev \in {"none", "INDEX"}
      BY <2>1 DEF Fresh
    <3>2. run.prev \in Failing \cup {"none"} /\ run.prev # "UPLOAD" /\ ~Skipped("INDEX")
      BY <2>1, <2>2, <3>1 DEF RunQuiet, ControlInv, NotSkipped
    <3>3. QED  BY <3>2, StageNumbers DEF Skipped, Failing, AllowReindex
  <2>6. run.stage = "UPLOAD" => LeftNothing(run.tag)
    BY <2>1, <2>2 DEF Emptied, LeftNothing
  <2>7. QED  BY <2>2, <2>3, <2>4, <2>5, <2>6 DEF NoManifestOf, LeftNothing
<1>5. CASE UNCHANGED <<run, rows>> \/ (~Idle /\ run \in RunState /\ Calm /\ SameStage /\ UNCHANGED rows)
  <2>1. Idle' = Idle /\ (~Idle => run'.task = run.task) /\ rows' = rows
    BY <1>5 DEF SameStage, Idle
  <2>2. QED  BY <1>1, <2>1 DEF QuietRows
<1>6. QED  BY <1>2, <1>3, <1>4, <1>5, CalmRun

(* Only an upload gives the agent a job. *)
LEMMA JobsEffect ==
  ASSUME TypeInv, [Next]_vars, NEW n \in Nodes, NEW t, t \in jobs'[n], t \notin jobs[n]
  PROVE  UploadNode(n) /\ t = run.tag /\ run' = [run EXCEPT !.wait = @ \cup {n}]
<1> USE DEF location, agents, bounds
<1>0. jobs \in [Nodes -> SUBSET Tags]
  BY DEF TypeInv, AgentTypes
<1>1. ~UNCHANGED jobs
  OBVIOUS
<1>2. ASSUME NEW k \in Nodes, Worker(k) PROVE UploadNode(k) /\ k = n /\ t = run.tag /\ run' = [run EXCEPT !.wait = @ \cup {n}]
  <2>1. ~ \/ NodeFails(k) \/ SnapshotNode(k) \/ AwaitSchema(k) \/ IndexNode(k) \/ DeduplicateNode(k)
          \/ ManifestNode(k) \/ Schema(k) \/ MoveManifestNode(k) \/ RollbackNode(k)
    BY <1>1 DEF NodeFails, SnapshotNode, AwaitSchema, IndexNode, DeduplicateNode, ManifestNode, Schema, MoveManifestNode, RollbackNode
  <2>2. ~(UploadDone(k) \/ UploadFails(k))
    BY <1>0 DEF UploadDone, UploadFails
  <2>3. UploadNode(k)
    BY <1>2, <2>1, <2>2 DEF Worker
  <2>4. run.index[k] # {} /\ run' = [run EXCEPT !.wait = @ \cup {k}] /\ jobs' = [jobs EXCEPT ![k] = @ \cup {run.tag}]
    BY <1>1, <2>3 DEF UploadNode
  <2>5. k = n /\ t = run.tag
    BY <1>0, <2>4
  <2>6. QED  BY <2>3, <2>4, <2>5
<1>3. ASSUME NEW k \in Nodes, Agent(k) PROVE FALSE
  <2>1. ASSUME NEW u, JobEnds(k, u) PROVE FALSE
    BY <1>0, <2>1 DEF JobEnds
  <2>2. ~AgentRestart(k)
    BY <1>0 DEF AgentRestart
  <2>3. ASSUME NEW u, NEW x, RenameFile(k, u, x) \/ MoveFile(k, u, x) PROVE FALSE
    BY <1>1, <2>3 DEF RenameFile, MoveFile
  <2>4. QED  BY <1>3, <2>1, <2>2, <2>3 DEF Agent
<1>4. CASE Purging
  <2>1. PICK c \in {"run", "delete"}, g \in {Nodes} \cup {{k} : k \in Nodes} : PurgeFiles(c, g) \/ PurgeManifests(c, g)
    BY <1>4 DEF Purging
  <2>2. QED  BY <1>1, <2>1 DEF PurgeFiles, PurgeManifests
<1>5. ~ \/ NextStage \/ End \/ RollbackMoveManifest \/ PurgeDecide \/ DeleteSnapshot \/ DeleteEnds \/ (\E k \in Tasks : Start(k))
        \/ ValidateRead \/ ValidateScan \/ ValidateDelete \/ Interrupt \/ Crash \/ Tick
        \/ (\E k \in Nodes : ValidateStart(k) \/ DeleteLocalSnapshots(k)) \/ UNCHANGED vars
  BY <1>1 DEF NextStage, End, RollbackMoveManifest, PurgeDecide, DeleteSnapshot, DeleteEnds, Start, ValidateRead, ValidateScan, ValidateDelete,
              Interrupt, Crash, Tick, ValidateStart, DeleteLocalSnapshots, vars
<1>6. QED  BY <1>2, <1>3, <1>4, <1>5 DEF Next

LEMMA OwnJobsStep ==
  ASSUME TypeInv, OneSnapshotLeft, RunQuiet, OwnJobs, events = 0, events' = 0, [Next]_vars PROVE OwnJobs'
<1>1. SUFFICES ASSUME NEW n \in Nodes, NEW t, t \in jobs'[n], Remains(local'[n], t) # {}
               PROVE  run'.stage = "UPLOAD" /\ run'.tag = t /\ n \in run'.wait
  BY DEF OwnJobs
<1>2. CASE t \notin jobs[n]
  <2>1. UploadNode(n) /\ t = run.tag /\ run' = [run EXCEPT !.wait = @ \cup {n}]
    BY <1>1, <1>2, JobsEffect
  <2>2. run.stage = "UPLOAD" /\ run \in RunState
    BY <2>1, RunIs, StageNumbers DEF UploadNode, At, TypeInv
  <2>3. QED  BY <2>1, <2>2 DEF RunState
<1>3. CASE t \in jobs[n]
  <2>1. ~Snapshotting \/ t # run.tag
    <3>1. SUFFICES ASSUME Snapshotting, t = run.tag PROVE FALSE
      OBVIOUS
    <3>2. run.stage = "SNAPSHOT" /\ run \in RunState
      BY <3>1, RunIs, StageNumbers DEF Snapshotting, SnapshotNode, At, TypeInv
    <3>3. t < run.tag
      BY <1>3, <3>2 DEF TypeInv, TagIsNew, Beginning
    <3>4. QED  BY <3>1, <3>2, <3>3 DEF RunState, Tags
  <2>2. Remains(local'[n], t) \subseteq Remains(local[n], t)
    BY <2>1, LeftShrinks
  <2>3. Remains(local[n], t) # {}
    BY <1>1, <2>2
  <2>4. run.stage = "UPLOAD" /\ run.tag = t /\ n \in run.wait
    BY <1>3, <2>3 DEF OwnJobs
  <2>5. ~Idle /\ n \in run.todo
    BY <2>4, RunIs, StageNumbers DEF RunQuiet, TypeInv
  <2>6. ~(NextStage \/ End \/ \E k \in Tasks : Start(k))
    BY <2>5 DEF NextStage, End, Start
  <2>7. CASE Calm /\ SameStage
    BY <2>3, <2>4, <2>7 DEF Calm, SameStage
  <2>8. QED  BY <2>4, <2>6, <2>7, CalmRun
<1>4. QED  BY <1>2, <1>3

(* Manifests go with a purge only, and those of a run are moved. *)
LEMMA ManifestsEffect ==
  ASSUME [Next]_vars
  PROVE  manifests' = manifests \/ Manifesting \/ (\E c \in {"run", "delete"} : \E g : PurgeManifests(c, g))
<1> USE DEF location, agents, bounds
<1>1. ASSUME NEW n \in Nodes, Worker(n) PROVE manifests' = manifests \/ Manifesting
  <2>1. SUFFICES ASSUME ~(ManifestNode(n) \/ MoveManifestNode(n) \/ RollbackNode(n)) PROVE manifests' = manifests
    BY DEF Manifesting
  <2>2. QED  BY <1>1, <2>1 DEF Worker, SnapshotNode, AwaitSchema, IndexNode, Schema, DeduplicateNode, UploadNode, UploadDone, UploadFails, NodeFails
<1>2. ASSUME NEW n \in Nodes, Agent(n) \/ ValidateStart(n) \/ DeleteLocalSnapshots(n) PROVE manifests' = manifests
  BY <1>2 DEF Agent, JobEnds, RenameFile, MoveFile, AgentRestart, ValidateStart, DeleteLocalSnapshots
<1>3. CASE Purging
  <2>1. PICK c \in {"run", "delete"}, g \in {Nodes} \cup {{n} : n \in Nodes} : PurgeFiles(c, g) \/ PurgeManifests(c, g)
    BY <1>3 DEF Purging
  <2>2. PurgeFiles(c, g) => manifests' = manifests
    BY DEF PurgeFiles
  <2>3. QED  BY <2>1, <2>2
<1>4. CASE \/ NextStage \/ End \/ RollbackMoveManifest \/ PurgeDecide \/ DeleteSnapshot \/ DeleteEnds \/ (\E k \in Tasks : Start(k))
           \/ ValidateRead \/ ValidateScan \/ ValidateDelete \/ Interrupt \/ Crash \/ Tick \/ UNCHANGED vars
  BY <1>4 DEF NextStage, End, RollbackMoveManifest, PurgeDecide, DeleteSnapshot, DeleteEnds, Start, ValidateRead, ValidateScan,
              ValidateDelete, Interrupt, Crash, Tick, vars
<1>5. QED  BY <1>1, <1>2, <1>3, <1>4 DEF Next

(* What a manifest lists stays listed: no run writes over a manifest, and a moved one lists what it did. *)
LEMMA ListedKept ==
  ASSUME TypeInv, NotShadowed, Fresh, manifests' = manifests \/ Manifesting
  PROVE  \A m \in manifests : \E o \in manifests' : o.node = m.node /\ o.files = m.files /\ o.tag = m.tag
<1>0. manifests \subseteq ManifestType
  BY DEF TypeInv, LocationTypes
<1>1. SUFFICES ASSUME NEW m \in manifests, Manifesting PROVE \E o \in manifests' : o.node = m.node /\ o.files = m.files /\ o.tag = m.tag
  OBVIOUS
<1>2. PICK n \in Nodes : ManifestNode(n) \/ MoveManifestNode(n) \/ RollbackNode(n)
  BY <1>1 DEF Manifesting
<1>3. ~Idle
  BY <1>1, ManifestsOfRun
<1>4. CASE ManifestNode(n)
  <2>1. /\ run.stage = "MANIFEST" /\ n \in run.todo
        /\ manifests' = {o \in manifests : ~SamePath(o, Manifest(n, TRUE))} \cup {Manifest(n, TRUE)}
    BY <1>4 DEF ManifestNode, At
  <2>2. ~(m.task = run.task /\ m.tag = run.tag /\ m.node = n)
    BY <1>3, <2>1 DEF Fresh, NoManifestOf
  <2>3. ~SamePath(m, Manifest(n, TRUE))
    BY <2>2 DEF SamePath, Manifest
  <2>4. QED  BY <2>1, <2>3
<1>5. ASSUME NEW from \in BOOLEAN, NEW to \in BOOLEAN, from # to, manifests' = Moved(n, from, to)
      PROVE  \E o \in manifests' : o.node = m.node /\ o.files = m.files /\ o.tag = m.tag
  <2>1. CASE Path(n, from) = {}
    BY <1>5, <2>1 DEF Moved
  <2>2. CASE Path(n, from) # {}
    <3>1. manifests' = (manifests \ (Path(n, from) \cup Path(n, to))) \cup {[o EXCEPT !.temp = to] : o \in Path(n, from)}
      BY <1>5, <2>2 DEF Moved
    <3>2. \A o \in manifests, b \in BOOLEAN : o \in Path(n, b) <=> o.node = n /\ o.task = run.task /\ o.tag = run.tag /\ o.temp = b
      BY DEF Path, SamePath, Manifest
    <3>3. PICK p \in manifests : p \in Path(n, from)
      BY <2>2 DEF Path
    <3>4. p.node = n /\ p.task = run.task /\ p.tag = run.tag /\ p.temp = from
      BY <3>2, <3>3
    <3>5. CASE m = p
      <4>1. PICK o : o = [m EXCEPT !.temp = to]
        OBVIOUS
      <4>2. o \in manifests'
        BY <3>1, <3>3, <3>5, <4>1
      <4>3. o.node = m.node /\ o.files = m.files /\ o.tag = m.tag
        BY <1>0, <4>1 DEF ManifestType
      <4>4. QED  BY <4>2, <4>3
    <3>6. CASE m # p
      <4>1. ~(m.node = n /\ m.task = run.task /\ m.tag = run.tag)
        BY <3>4, <3>6 DEF NotShadowed
      <4>2. m \notin Path(n, from) /\ m \notin Path(n, to)
        BY <3>2, <4>1
      <4>3. QED  BY <3>1, <4>2
    <3>7. QED  BY <3>5, <3>6
  <2>3. QED  BY <2>1, <2>2
<1>6. CASE manifests' = manifests
  BY <1>6
<1>7. QED
  <2>1. MoveManifestNode(n) => manifests' = Moved(n, TRUE, FALSE) \/ manifests' = manifests
    BY DEF MoveManifestNode
  <2>2. RollbackNode(n) => manifests' = Moved(n, FALSE, TRUE) \/ manifests' = manifests
    BY DEF RollbackNode
  <2>3. TRUE \in BOOLEAN /\ FALSE \in BOOLEAN /\ TRUE # FALSE
    OBVIOUS
  <2>4. QED  BY <1>2, <1>4, <1>5, <1>6, <2>1, <2>2, <2>3, Zenon

LEMMA LeftIsListedStep ==
  ASSUME TypeInv, NotShadowed, OneSnapshotLeft, ControlInv, UploadInv, PurgeInv, RunQuiet, Fresh, Emptied, LeftIsListed,
         events = 0, events' = 0, [Next]_vars
  PROVE  LeftIsListed'
<1>0. ASSUME ~Idle, run.stage # "PURGE"
      PROVE  \A m \in manifests : \E o \in manifests' : o.node = m.node /\ o.files = m.files /\ o.tag = m.tag
  <2>1. ASSUME NEW c \in {"run", "delete"}, NEW g, PurgeManifests(c, g) PROVE FALSE
    <3>1. purges[c] # NoPurge
      BY <2>1 DEF PurgeManifests
    <3>2. QED  BY <1>0, <3>1 DEF TypeInv, RunTypes, PurgeInv
  <2>2. QED  BY <2>1, ManifestsEffect, ListedKept
<1>1. CASE NextStage
  <2>1. PICK s \in Stages, k \in Tasks : Advances(s, k)
    BY <1>1, StageFacts DEF ControlInv
  <2>2. /\ local' = local /\ manifests' = manifests /\ ~Idle /\ run'.tag = run.tag /\ run'.stage = s /\ (s = "MANIFEST" => run'.todo = Nodes)
        /\ run.todo = {} /\ ~run.err
    BY <1>1, <2>1 DEF NextStage, location, agents, Advances, NodeStages
  <2>3. SUFFICES ASSUME NEW n \in Nodes, s \in {"SCHEMA", "DEDUPLICATE", "UPLOAD"}, NEW x \in Remains(local[n], run.tag)
                 PROVE  ListedAs(n, x)
    BY <2>2 DEF LeftIsListed, After, ListedAs
  <2>4. run.stage \in {"MANIFEST", "SCHEMA", "DEDUPLICATE"} \/ run.prev = "UPLOAD"
    <3>1. run.prev # "DEDUPLICATE"
      BY <2>2 DEF RunQuiet, Failing
    <3>2. QED  BY <2>1, <2>3, <3>1 DEF Advances, NextOf
  <2>5. CASE run.prev = "UPLOAD"
    BY <2>2, <2>3, <2>5 DEF Emptied, LeftNothing
  <2>6. CASE run.stage \in {"MANIFEST", "SCHEMA", "DEDUPLICATE"}
    BY <2>2, <2>3, <2>6 DEF LeftIsListed, After
  <2>7. QED  BY <2>4, <2>5, <2>6
<1>2. CASE \E k \in Tasks : Start(k)
  <2>1. PICK k \in Tasks : Start(k)
    BY <1>2
  <2>2. run'.stage = "INIT"
    BY <2>1, BeginFacts DEF Begins
  <2>3. QED  BY <2>2 DEF LeftIsListed, After
<1>3. CASE End
  BY <1>3 DEF End, LeftIsListed, Idle, NoRun
<1>4. CASE UNCHANGED run \/ (~Idle /\ run \in RunState /\ Calm /\ SameStage)
  <2>1. SUFFICES ASSUME ~Idle', NEW n \in Nodes, After({"SCHEMA", "DEDUPLICATE", "UPLOAD"}, "MANIFEST", n)', NEW x \in Remains(local'[n], run'.tag)
                 PROVE  \E m \in manifests' : m.node = n /\ x \in m.files
    BY DEF LeftIsListed, ListedAs
  <2>2. /\ ~Idle /\ run'.tag = run.tag /\ run'.stage = run.stage /\ run.stage \in {"MANIFEST", "SCHEMA", "DEDUPLICATE", "UPLOAD"}
    BY <1>4, <2>1 DEF SameStage, Idle, After
  <2>3. x \in Remains(local[n], run.tag)
    <3>1. ~Snapshotting
      BY <2>2 DEF Snapshotting, SnapshotNode, At
    <3>2. PICK t : t = run.tag
      OBVIOUS
    <3>3. Remains(local'[n], t) \subseteq Remains(local[n], t)
      BY <3>1, LeftShrinks
    <3>4. QED  BY <2>1, <2>2, <3>2, <3>3
  <2>4. CASE After({"SCHEMA", "DEDUPLICATE", "UPLOAD"}, "MANIFEST", n)
    <3>1. ListedAs(n, x)
      BY <2>2, <2>3, <2>4 DEF LeftIsListed
    <3>2. QED  BY <1>0, <2>2, <3>1 DEF ListedAs
  <2>5. CASE ~After({"SCHEMA", "DEDUPLICATE", "UPLOAD"}, "MANIFEST", n)
    <3>1. run.stage = "MANIFEST" /\ n \notin run'.todo /\ ~run'.err
      BY <2>1, <2>2, <2>5 DEF After
    <3>2. Calm /\ SameStage /\ n \in run.todo
      <4>1. ~UNCHANGED run
        <5>1. SUFFICES ASSUME run' = run PROVE FALSE
          OBVIOUS
        <5>2. n \notin run.todo /\ ~run.err
          BY <3>1, <5>1, Zenon
        <5>3. QED  BY <2>5, <3>1, <5>2 DEF After
      <4>2. Calm /\ SameStage
        BY <1>4, <4>1
      <4>3. ~run.err
        BY <3>1, <4>2, Zenon DEF SameStage
      <4>4. QED  BY <2>5, <3>1, <4>2, <4>3 DEF After
    <3>3. ManifestNode(n)
      BY <3>1, <3>2 DEF SameStage, PartDone
    <3>4. Manifest(n, TRUE) \in manifests'
      BY <3>3 DEF ManifestNode
    <3>5. Remains(local[n], run.tag) \subseteq run.index[n]
      BY <2>2, <3>1 DEF UploadInv, IndexInv, After
    <3>6. Manifest(n, TRUE).node = n /\ Manifest(n, TRUE).files = run.index[n]
      BY DEF Manifest
    <3>7. QED  BY <2>3, <3>4, <3>5, <3>6
  <2>6. QED  BY <2>4, <2>5
<1>5. QED  BY <1>1, <1>2, <1>3, <1>4, CalmRun

(* No file is moved that the run does not wait for. *)
LEMMA UploadsOfRun ==
  ASSUME TypeInv, OwnJobs, NEW n \in Nodes, NEW x \in Names, NEW t \in jobs[n], MoveFile(n, t, x)
  PROVE  ~Idle /\ run.stage = "UPLOAD" /\ run.tag = t /\ x \in Remains(local[n], run.tag)
<1>1. <<t, x>> \in local[n]
  BY DEF MoveFile, Moving
<1>2. x \in Remains(local[n], t)
  BY <1>1 DEF Remains
<1>3. run.stage = "UPLOAD" /\ run.tag = t
  BY <1>2 DEF OwnJobs
<1>4. QED  BY <1>2, <1>3, RunIs, StageNumbers DEF TypeInv

(* Files of their plain name come with an upload only. *)
LEMMA NewestEffect ==
  ASSUME TypeInv, [Next]_vars, NEW f \in remote', f.ver = 0, f \notin remote
  PROVE  \E n \in Nodes, x \in Names : \E t \in jobs[n] : MoveFile(n, t, x) /\ f.node = n /\ f.name = x
<1>0. remote \subseteq FileType /\ jobs \in [Nodes -> SUBSET Tags]
  BY DEF TypeInv, LocationTypes, AgentTypes
<1>1. ASSUME NEW n \in Nodes, NEW x, NEW t \in jobs[n], RenameFile(n, t, x) PROVE FALSE
  <2>1. PICK g \in Newest(remote, n) : remote' = {h \in remote : ~(h.node = n /\ h.name = x /\ h.ver \in {0, t})} \cup {[g EXCEPT !.ver = t]}
    BY <1>1 DEF RenameFile
  <2>2. g \in FileType /\ t \in Tags
    BY <1>0 DEF Newest
  <2>3. f = [g EXCEPT !.ver = t]
    BY <2>1
  <2>4. f.ver = t
    BY <2>2, <2>3 DEF FileType
  <2>5. QED  BY <2>2, <2>4 DEF Tags
<1>2. CASE Uploading
  <2>1. PICK n \in Nodes, x \in Names : \E t \in jobs[n] : MoveFile(n, t, x)
    BY <1>2 DEF Uploading
  <2>2. PICK t \in jobs[n] : MoveFile(n, t, x)
    BY <2>1
  <2>3. f = [node |-> n, name |-> x, ver |-> 0, content |-> snap[n][t][x]]
    BY <2>2 DEF MoveFile
  <2>4. f.node = n /\ f.name = x
    BY <2>3
  <2>5. QED  BY <2>2, <2>4
<1>3. QED  BY <1>1, <1>2, WhoChanges DEF Renaming

(* At most one purge is under way, which takes only manifests that it decided to remove. *)
LEMMA PurgedManifests ==
  ASSUME PurgeInv, TypeInv, NEW c \in {"run", "delete"}, NEW g, PurgeManifests(c, g)
  PROVE  /\ remote' = remote /\ purges[c] # NoPurge /\ g \in purges[c].meta
         /\ \A m \in manifests : m.node \notin g \/ m.tag \notin purges[c].tags => m \in manifests'
         /\ \A b \in {"run", "delete"} : purges[b] # NoPurge => b = c
<1>1. remote' = remote /\ purges[c] # NoPurge /\ g \in purges[c].meta
  BY DEF PurgeManifests
<1>2. \A m \in manifests : m.node \notin g \/ m.tag \notin purges[c].tags => m \in manifests'
  BY DEF PurgeManifests
<1>3. \A b \in {"run", "delete"} : purges[b] # NoPurge => b = c
  BY <1>1, RunIs, StageNumbers DEF PurgeInv, TypeInv, RunTypes
<1>4. QED  BY <1>1, <1>2, <1>3

LEMMA FilesListedStep ==
  ASSUME TypeInv, NotShadowed, PurgeInv, Fresh, OwnJobs, LeftIsListed, FilesListed, PurgesLeave, [Next]_vars PROVE FilesListed'
<1>1. SUFFICES ASSUME NEW f \in remote', f.ver = 0 PROVE \E m \in manifests' : m.node = f.node /\ f.name \in m.files
  BY DEF FilesListed, ListedAs
<1>2. CASE f \notin remote
  <2>1. PICK n \in Nodes, x \in Names : \E t \in jobs[n] : MoveFile(n, t, x) /\ f.node = n /\ f.name = x
    BY <1>1, <1>2, NewestEffect
  <2>2. PICK t \in jobs[n] : MoveFile(n, t, x)
    BY <2>1
  <2>3. ~Idle /\ run.stage = "UPLOAD" /\ x \in Remains(local[n], run.tag)
    BY <2>2, UploadsOfRun
  <2>4. ListedAs(n, x)
    BY <2>3 DEF LeftIsListed, After
  <2>5. manifests' = manifests
    BY <2>2 DEF MoveFile
  <2>6. QED  BY <2>1, <2>4, <2>5 DEF ListedAs
<1>3. ASSUME f \in remote, NEW c \in {"run", "delete"}, NEW g, PurgeManifests(c, g) PROVE \E m \in manifests' : m.node = f.node /\ f.name \in m.files
  <2>1. /\ purges[c] # NoPurge /\ g \in purges[c].meta
        /\ \A m \in manifests : m.node \notin g \/ m.tag \notin purges[c].tags => m \in manifests'
    BY <1>3, PurgedManifests
  <2>2. CASE f.node \in g
    <3>1. Staying(f.node, f.name, purges[c].tags)
      BY <1>1, <1>3, <2>1, <2>2 DEF PurgesLeave
    <3>2. QED  BY <2>1, <3>1 DEF Staying
  <2>3. CASE f.node \notin g
    <3>1. ListedAs(f.node, f.name)
      BY <1>1, <1>3 DEF FilesListed
    <3>2. QED  BY <2>1, <2>3, <3>1 DEF ListedAs
  <2>4. QED  BY <2>2, <2>3
<1>4. CASE f \in remote /\ (manifests' = manifests \/ Manifesting)
  <2>1. PICK m \in manifests : m.node = f.node /\ f.name \in m.files
    BY <1>1, <1>4 DEF FilesListed, ListedAs
  <2>2. \E o \in manifests' : o.node = m.node /\ o.files = m.files
    BY <1>4, ListedKept
  <2>3. QED  BY <2>1, <2>2
<1>5. QED  BY <1>2, <1>3, <1>4, ManifestsEffect

LEMMA PurgesLeaveStep ==
  ASSUME TypeInv, NotShadowed, PurgeInv, OwnJobs, FilesListed, PurgesLeave, [Next]_vars PROVE PurgesLeave'
<1> USE DEF location, agents, bounds
<1>0. purges = [c \in {"run", "delete"} |-> purges[c]] /\ manifests \subseteq ManifestType
  BY DEF TypeInv, RunTypes, LocationTypes
<1>1. SUFFICES ASSUME NEW c \in {"run", "delete"}, purges'[c] # NoPurge
               PROVE  /\ \A m \in manifests' : \E l \in purges'[c].list : SamePath(m, l)
                      /\ \A g \in purges'[c].meta : \A f \in remote' : f.ver = 0 /\ f.node \in g =>
                           \E m \in manifests' : m.node = f.node /\ f.name \in m.files /\ m.tag \notin purges'[c].tags
  BY DEF PurgesLeave, Staying
(* A purge that is under way has what it lists, and spares what it spared. *)
<1>2. ASSUME purges[c] # NoPurge
      PROVE  /\ manifests' \subseteq manifests
             /\ \A f \in remote' : f.ver = 0 => f \in remote
             /\ \A m \in manifests : m.tag \notin purges[c].tags => m \in manifests'
  <2>1. Idle \/ run.stage = "PURGE"
    BY <1>2 DEF TypeInv, RunTypes, PurgeInv
  <2>2. ~Manifesting
    BY <2>1, ManifestsOfRun
  <2>3. manifests' \subseteq manifests
    BY <2>2, WhoChanges
  <2>4. ASSUME NEW f \in remote', f.ver = 0 PROVE f \in remote
    BY <2>1, <2>4, NewestEffect, UploadsOfRun
  <2>5. ASSUME NEW m \in manifests, m.tag \notin purges[c].tags PROVE m \in manifests'
    <3>1. CASE manifests' = manifests
      BY <3>1
    <3>2. ASSUME NEW b \in {"run", "delete"}, NEW g, PurgeManifests(b, g) PROVE m \in manifests'
      BY <1>2, <2>5, <3>2, PurgedManifests
    <3>3. QED  BY <2>2, <3>1, <3>2, ManifestsEffect
  <2>6. QED  BY <2>3, <2>4, <2>5
<1>3. ASSUME purges[c] # NoPurge, purges'[c].list = purges[c].list, purges'[c].tags = purges[c].tags
      PROVE  /\ \A m \in manifests' : \E l \in purges'[c].list : SamePath(m, l)
             /\ \A g \in purges[c].meta : \A f \in remote' : f.ver = 0 /\ f.node \in g =>
                  \E m \in manifests' : m.node = f.node /\ f.name \in m.files /\ m.tag \notin purges'[c].tags
  BY <1>2, <1>3 DEF PurgesLeave, Staying
<1>4. CASE purges'[c] = purges[c]
  BY <1>1, <1>3, <1>4
<1>5. ASSUME NEW tags, NEW groups, UNCHANGED manifests, purges'[c] = Decision(FilterShadowedTemporaryManifests(manifests), tags, groups)
      PROVE  (\A m \in manifests' : \E l \in purges'[c].list : SamePath(m, l)) /\ purges'[c].meta = {}
  <2>1. PICK ms : ms = FilterShadowedTemporaryManifests(manifests)
    OBVIOUS
  <2>2. ms = manifests
    BY <2>1, FilterIsAll
  <2>3. purges'[c].list = ms /\ purges'[c].meta = {}
    BY <1>5, <2>1 DEF Decision
  <2>4. QED  BY <1>5, <2>2, <2>3 DEF SamePath
<1>6. CASE PurgeDecide
  <2>1. UNCHANGED manifests /\ \E tags, groups : purges' = [purges EXCEPT !["run"] = Decision(FilterShadowedTemporaryManifests(manifests), tags, groups)]
    BY <1>6 DEF PurgeDecide
  <2>2. purges'[c] = purges[c] \/ \E tags, groups : purges'[c] = Decision(FilterShadowedTemporaryManifests(manifests), tags, groups)
    BY <1>0, <2>1
  <2>3. QED  BY <1>4, <1>5, <2>1, <2>2
<1>7. CASE DeleteSnapshot
  <2>1. UNCHANGED manifests /\ \E tags, groups : purges' = [purges EXCEPT !["delete"] = Decision(FilterShadowedTemporaryManifests(manifests), tags, groups)]
    BY <1>7 DEF DeleteSnapshot
  <2>2. purges'[c] = purges[c] \/ \E tags, groups : purges'[c] = Decision(FilterShadowedTemporaryManifests(manifests), tags, groups)
    BY <1>0, <2>1
  <2>3. QED  BY <1>4, <1>5, <2>1, <2>2
<1>8. ASSUME NEW h, PurgeFiles(c, h)
      PROVE  /\ \A m \in manifests' : \E l \in purges'[c].list : SamePath(m, l)
             /\ \A g \in purges'[c].meta : \A f \in remote' : f.ver = 0 /\ f.node \in g =>
                  \E m \in manifests' : m.node = f.node /\ f.name \in m.files /\ m.tag \notin purges'[c].tags
  <2>1. PICK p, ms : p = purges[c] /\ ms = ReadManifests(p, h)
    OBVIOUS
  <2>2. PICK first, del, ok :
          /\ ok => del = FilesToPurge(remote, ms, p.tags, p.oldest, first)
          /\ remote' = remote \ del
          /\ purges' = [purges EXCEPT ![c].groups = @ \ {h}, ![c].meta = IF ok THEN @ \cup {h} ELSE @]
    BY <1>8, <2>1, Zenon DEF PurgeFiles
  <2>3. purges[c] # NoPurge /\ manifests' = manifests
    BY <1>8 DEF PurgeFiles
  <2>4. p \in PurgeState
    BY <2>1, <2>3 DEF PurgeInv, PurgeOk
  <2>5. purges'[c] = [p EXCEPT !.groups = @ \ {h}, !.meta = IF ok THEN @ \cup {h} ELSE @]
    BY <1>0, <2>1, <2>2
  <2>6. purges'[c].list = p.list /\ purges'[c].tags = p.tags /\ purges'[c].meta = IF ok THEN p.meta \cup {h} ELSE p.meta
    BY <2>4, <2>5 DEF PurgeState
  <2>7. ASSUME ok, NEW f \in remote', f.ver = 0, f.node \in h
        PROVE  \E m \in manifests : m.node = f.node /\ f.name \in m.files /\ m.tag \notin p.tags
    <3>1. f \in remote /\ f \notin FilesToPurge(remote, ms, p.tags, p.oldest, first)
      BY <2>2, <2>7
    <3>2. PICK m \in manifests : m.node = f.node /\ f.name \in m.files
      BY <2>7, <3>1 DEF FilesListed, ListedAs
    <3>3. m \in ms
      BY <2>1, <2>3, <2>7, <3>2 DEF PurgesLeave, ReadManifests
    <3>4. CASE m.tag \notin p.tags
      BY <3>2, <3>4
    <3>5. CASE m.tag \in p.tags
      <4>1. PICK o \in ms : o.tag \notin p.tags /\ o.node = f.node /\ f.name \in o.files
        BY <2>7, <3>1, <3>2, <3>3, <3>5 DEF FilesToPurge
      <4>2. o \in manifests
        BY <2>1, <4>1 DEF ReadManifests
      <4>3. QED  BY <4>1, <4>2
    <3>6. QED  BY <3>4, <3>5
  <2>8. QED  BY <1>3, <2>1, <2>3, <2>6, <2>7
<1>9. ASSUME NEW h, PurgeManifests(c, h)
      PROVE  /\ \A m \in manifests' : \E l \in purges'[c].list : SamePath(m, l)
             /\ \A g \in purges'[c].meta : \A f \in remote' : f.ver = 0 /\ f.node \in g =>
                  \E m \in manifests' : m.node = f.node /\ f.name \in m.files /\ m.tag \notin purges'[c].tags
  <2>1. purges[c] # NoPurge /\ purges' = [purges EXCEPT ![c].meta = @ \ {h}]
    BY <1>9 DEF PurgeManifests
  <2>2. PICK p \in PurgeState : p = purges[c]
    BY <2>1 DEF PurgeInv, PurgeOk
  <2>3. purges'[c] = [p EXCEPT !.meta = @ \ {h}]
    BY <1>0, <2>1, <2>2
  <2>4. purges'[c].list = p.list /\ purges'[c].tags = p.tags /\ purges'[c].meta \subseteq p.meta
    BY <2>2, <2>3 DEF PurgeState
  <2>5. QED  BY <1>3, <2>1, <2>2, <2>4
<1>10. CASE Purging
  <2>1. PICK b \in {"run", "delete"}, h \in {Nodes} \cup {{n} : n \in Nodes} : PurgeFiles(b, h) \/ PurgeManifests(b, h)
    BY <1>10 DEF Purging
  <2>2. CASE b = c
    BY <1>8, <1>9, <2>1, <2>2
  <2>3. CASE b # c
    <3>1. purges'[c] = purges[c]
      BY <1>0, <2>1, <2>3 DEF PurgeFiles, PurgeManifests
    <3>2. QED  BY <1>4, <3>1
  <2>4. QED  BY <2>2, <2>3
<1>11. QED  BY <1>1, <1>4, <1>6, <1>7, <1>10, PurgesEffect

LEMMA QuietInit == ASSUME Init PROVE QuietInv
<1> USE DEF Init
<1>1. Idle /\ (\A k \in Tasks : rows[k] = <<>>) /\ (\A n \in Nodes : jobs[n] = {}) /\ \A c \in {"run", "delete"} : purges[c] = NoPurge
  BY DEF Idle, NoRun, NoFiles
<1>2. RunQuiet /\ Fresh /\ Emptied /\ LeftIsListed
  BY <1>1 DEF RunQuiet, Fresh, Emptied, LeftIsListed
<1>3. QuietRows /\ OwnJobs /\ FilesListed /\ PurgesLeave
  BY <1>1 DEF QuietRows, OwnJobs, FilesListed, PurgesLeave
<1>4. QED  BY <1>2, <1>3 DEF QuietInv, QuietParts

LEMMA QuietStep == ASSUME SafeInv, QuietInv, [Next]_vars PROVE QuietInv'
<1>1. events' \in Nat /\ (events' = 0 => events = 0)
  BY EventsCounted DEF QuietInv
<1>2. SUFFICES ASSUME events = 0, events' = 0 PROVE QuietParts'
  BY <1>1 DEF QuietInv
<1>3. /\ TypeInv /\ TagsOfTasks /\ ControlInv /\ OneSnapshotLeft /\ UploadInv /\ NotShadowed /\ PurgeInv
      /\ RunQuiet /\ Fresh /\ Emptied /\ QuietRows /\ OwnJobs /\ LeftIsListed /\ FilesListed /\ PurgesLeave
  BY <1>2 DEF SafeInv, LeftInv, ManifestInv, CallsInv, QuietInv, QuietParts
<1>4. RunQuiet'
  BY <1>2, <1>3, RunQuietStep
<1>5. Fresh'
  BY <1>2, <1>3, FreshStep
<1>6. Emptied'
  BY <1>2, <1>3, EmptiedStep
<1>7. QuietRows'
  BY <1>2, <1>3, QuietRowsStep
<1>8. OwnJobs'
  BY <1>2, <1>3, OwnJobsStep
<1>9. LeftIsListed'
  BY <1>2, <1>3, LeftIsListedStep
<1>10. FilesListed'
  BY <1>3, FilesListedStep
<1>11. PurgesLeave'
  BY <1>3, PurgesLeaveStep
<1>12. QED  BY <1>4, <1>5, <1>6, <1>7, <1>8, <1>9, <1>10, <1>11 DEF QuietParts

(* Without faults, between runs and calls, every file of the location that was not replaced is listed by a manifest of its     *)
(* node: however many runs uploaded, deduplicated, failed for a lost snapshot, were continued and purged each other's backups, *)
(* and however many snapshots the user deleted: if deletion and validation do not overlap a backup.                            *)
THEOREM NoOrphansCorrect == ASSUME Beside = {} PROVE Spec => []NoOrphans
<1>1. QuietInv => NoOrphans
  BY DEF QuietInv, QuietParts, FilesListed, ListedAs, NoOrphans
<1>2. Init => SafeInv /\ QuietInv
  BY SafeInit, QuietInit
<1>3. SafeInv /\ QuietInv /\ [Next]_vars => SafeInv' /\ QuietInv'
  BY SafeStep, QuietStep
<1>4. QED  BY <1>1, <1>2, <1>3, PTL DEF Spec
=============================================================================
