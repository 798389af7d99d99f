------------------------------- MODULE Backup -------------------------------
(***************************************************************************)
(* The backup task of pkg/service/backup: Service.Backup and the stages of *)
(* its worker, over several runs of several tasks that stop, fail or crash *)
(* and are continued; the upload jobs of the agents, which live on when    *)
(* the manager is gone; and the calls that share the location: deletion of *)
(* snapshots, validation, deletion of local snapshots.                     *)
(*                                                                         *)
(* One location and one table per node.  A file stands for the files of an *)
(* sstable, equal content for an equal digest.  Uploads use rclone; the    *)
(* retention lock is disabled, so RETENTION_LOCK does nothing, as MIGRATE. *)
(* The rows of progress only tell a resumed run what local does.           *)
(***************************************************************************)
EXTENDS Purger, Sequences

CONSTANTS
  Nodes,
  Tasks,
  Names,        \* file names
  Contents,
  Snapshots,    \* [Nodes -> sets of functions from a subset of Names to Contents]
  Retention,    \* [Tasks -> [retention, days : Nat]], the retention map
  AgeMax,       \* config.AgeMax
  Only,         \* values of --purge-only
  Continues,    \* values of --continue: FALSE also when a task is started from scratch
  Beside,       \* calls that may overlap a backup, of "delete" and "validate"
  MaxTime,      \* bound on the clock, and so on the tags
  MaxRuns,      \* [Tasks -> Nat], bounds on their runs
  MaxEvents,    \* bound on failures, crashes, restarts, stops
  MaxCalls      \* bound on calls

Tags == 1..MaxTime
Calls == {"delete", "validate"}

ASSUME BackupAssumption ==
  /\ IsFiniteSet(Nodes) /\ Nodes # {}
  /\ \A n \in Nodes : Snapshots[n] \subseteq UNION {[S -> Contents] : S \in SUBSET Names}
  /\ \A k \in Tasks : Retention[k] \in [retention : Nat, days : Nat]
  /\ AgeMax \in Nat /\ MaxTime \in Nat /\ MaxRuns \in [Tasks -> Nat]
  /\ MaxEvents \in Nat /\ MaxCalls \in Nat
  /\ Beside \subseteq Calls /\ Only \subseteq BOOLEAN /\ Continues \subseteq BOOLEAN
  /\ MaxEvents < 10   \* uploadSnapshotDir gives up, reporting success, at the 10th lost job

VARIABLES
  remote, manifests, schemas,  \* the location: files, manifests, tags with a schema file
  snap,      \* history: what each node's snapshot held
  local,     \* files left in the snapshot directories of a node, as <<tag, name>>
  dirs,      \* tags whose snapshot directory exists on the node
  jobs,      \* tags whose directory an agent job is moving
  rows,      \* table backup_run, per task, oldest first
  run,       \* the worker of the running backup
  purges,    \* PurgeSnapshotTags under way for the run and for DeleteSnapshot
  val,       \* Validate under way
  clock,
  completed, \* history: tags whose manifests were moved, as their run was told
  doomed,    \* history: tags a purge or a call decided to remove
  lost,      \* history: tags whose local files were deleted before they were uploaded
  events, calls

location == <<remote, manifests, schemas>>
agents == <<snap, local, dirs, jobs>>
bounds == <<events, calls>>
vars == <<location, agents, rows, run, purges, val, clock, completed, doomed, lost, bounds>>

StageOrder == <<"INIT", "SNAPSHOT", "AWAIT_SCHEMA", "INDEX", "MANIFEST", "SCHEMA",
                "DEDUPLICATE", "UPLOAD", "MOVE_MANIFEST", "RETENTION_LOCK", "MIGRATE",
                "PURGE", "DONE">>
Stages == {StageOrder[i] : i \in DOMAIN StageOrder}
Index(stage) == CHOOSE i \in DOMAIN StageOrder : StageOrder[i] = stage
Resumable == {"INDEX", "MANIFEST", "UPLOAD", "DEDUPLICATE", "MOVE_MANIFEST",
              "RETENTION_LOCK", "MIGRATE", "PURGE"}
(* Stages done by every node; those of a single host; the others. *)
NodeStages == {"SNAPSHOT", "INDEX", "MANIFEST", "DEDUPLICATE", "UPLOAD", "MOVE_MANIFEST", "PURGE"}
HostStages == {"AWAIT_SCHEMA", "SCHEMA"}
AllowReindex == {"MANIFEST", "UPLOAD", "DEDUPLICATE", "SCHEMA"}

NoFiles == [n \in Nodes |-> {}]
NoRun == [stage |-> "none", todo |-> {}]
NoPurge == [state |-> "none"]
NoValidation == [state |-> "none"]

Init ==
  /\ remote = {} /\ manifests = {} /\ schemas = {}
  /\ snap = [n \in Nodes |-> [t \in Tags |-> <<>>]]
  /\ local = NoFiles /\ dirs = NoFiles /\ jobs = NoFiles
  /\ rows = [k \in Tasks |-> <<>>]
  /\ run = NoRun /\ purges = [c \in {"run", "delete"} |-> NoPurge] /\ val = NoValidation
  /\ clock = 0 /\ completed = {} /\ doomed = {} /\ lost = {} /\ events = 0 /\ calls = 0

Idle == run.stage = "none"
InCall == {c \in Calls : (c = "delete" /\ purges["delete"] # NoPurge)
                      \/ (c = "validate" /\ val # NoValidation)}

(* A call, node or process fails, is stopped or restarted. *)
Fault == events < MaxEvents /\ events' = events + 1
(* Why a step of the run fails: by a fault, or because it was interrupted. *)
FaultOrStop == (run.stop /\ events' = events) \/ Fault

(* The files of a snapshot that are still on the node. *)
Left(n, t) == {x \in Names : <<t, x>> \in local[n]}
Unsent(n, ts) == {t \in ts : Left(n, t) # {}}

-----------------------------------------------------------------------------
(* Service.Backup *)

(* The newest run that can be continued, unless a later one is done. *)
GetLastResumableRun(k) ==
  LET found == {i \in DOMAIN rows[k] : /\ rows[k][i].stage \in Resumable
                                       /\ \A j \in i..Len(rows[k]) : rows[k][j].stage # "DONE"}
  IN IF found = {} THEN 0 ELSE Max(found)

NewRun(k, tag, prev, only) ==
  [task |-> k, tag |-> tag, prev |-> prev, only |-> only, stage |-> "INIT", todo |-> {},
   wait |-> {}, err |-> FALSE, stop |-> FALSE, rollback |-> FALSE, schema |-> FALSE,
   index |-> NoFiles]

(* decorateWithPrevRun, NewSnapshotTag, putRun.  The policy lets one       *)
(* backup run at a time.                                                   *)
Start(k) ==
  /\ Idle /\ InCall \subseteq Beside /\ Len(rows[k]) < MaxRuns[k]
  /\ \E continue \in Continues, only \in Only :
       LET i == GetLastResumableRun(k)
           resume == continue /\ i # 0 /\ clock - rows[k][i].tag <= AgeMax
           tag == IF resume THEN rows[k][i].tag ELSE clock + 1
           prev == IF resume THEN rows[k][i].stage ELSE "none"
       IN /\ resume \/ clock < MaxTime
          /\ clock' = IF resume THEN clock ELSE clock + 1
          /\ rows' = [rows EXCEPT ![k] = Append(@, [tag |-> tag,
                        stage |-> IF resume THEN prev ELSE "INIT"])]
          /\ run' = NewRun(k, tag, prev, only)
  /\ UNCHANGED <<location, agents, purges, val, completed, doomed, lost, bounds>>

(* Stages before the one the previous run was in are skipped, but for      *)
(* INDEX when a later stage needs what it found.                           *)
Skipped(stage) ==
  \/ run.only /\ Index(stage) < Index("PURGE")
  \/ run.prev # "none" /\ Index(run.prev) > Index(stage)
       /\ ~(run.prev \in AllowReindex /\ stage = "INDEX")

Following == {s \in Stages : Index(s) > Index(run.stage) /\ ~Skipped(s)}

(* execStage: the stage is written to the row of the run, also when the    *)
(* run goes back to INDEX, and whether or not it is interrupted.           *)
NextStage ==
  /\ ~Idle /\ run.todo = {} /\ ~run.err /\ run.stage # "DONE"
  /\ LET s == CHOOSE x \in Following : \A y \in Following : Index(x) <= Index(y)
         todo == IF s \in NodeStages THEN Nodes
                 ELSE IF s \in HostStages THEN {CHOOSE n \in Nodes : TRUE} ELSE {}
     IN /\ run' = [run EXCEPT !.stage = s, !.todo = todo]
        /\ rows' = [rows EXCEPT ![run.task][Len(rows[run.task])].stage = s]
  /\ completed' = IF run.stage = "MOVE_MANIFEST" THEN completed \cup {run.tag} ELSE completed
  /\ purges' = [purges EXCEPT !["run"] = NoPurge]
  /\ UNCHANGED <<location, agents, val, clock, doomed, lost, bounds>>

(* The run is over, with an error or at DONE. *)
End ==
  /\ ~Idle /\ run.todo = {}
  /\ run.stage = "DONE" \/ (run.err /\ (run.stage = "MOVE_MANIFEST" => run.rollback))
  /\ run' = NoRun /\ purges' = [purges EXCEPT !["run"] = NoPurge]
  /\ UNCHANGED <<location, agents, rows, val, clock, completed, doomed, lost, bounds>>

(* At(stage, n): node n is to do its part of the stage. *)
At(stage, n) == run.stage = stage /\ n \in run.todo /\ ~run.rollback

(* hostsInParallel: an error of a node leaves the others going. *)
Ok(n) == run' = [run EXCEPT !.todo = @ \ {n}, !.wait = @ \ {n}]
Err(n) == run' = [run EXCEPT !.todo = @ \ {n}, !.wait = @ \ {n}, !.err = TRUE]

(* The part of a node fails before it changed anything. *)
NodeFails(n) ==
  /\ \E s \in NodeStages \cup HostStages : At(s, n) /\ (s = "UPLOAD" => n \notin run.wait)
  /\ run.stage = "PURGE" =>
       IF purges["run"] = NoPurge THEN TRUE ELSE {n} \in purges["run"].groups
  /\ Err(n) /\ FaultOrStop
  /\ UNCHANGED <<location, agents, rows, purges, val, clock, completed, doomed, lost, calls>>

-----------------------------------------------------------------------------
(* worker_snapshot.go, worker_schema.go, worker_index.go, worker_manifest.go *)

(* deleteOldSnapshots deletes every other snapshot of the manager on the   *)
(* node, of whichever task; then there may be no space.                    *)
SnapshotNode(n) ==
  /\ At("SNAPSHOT", n)
  /\ LET old == dirs[n] \ {run.tag} IN
     \E ts \in SUBSET old, s \in Snapshots[n], ok \in BOOLEAN :
       /\ ok => ts = old
       /\ dirs' = [dirs EXCEPT ![n] = (@ \ ts) \cup (IF ok THEN {run.tag} ELSE {})]
       /\ local' = [local EXCEPT ![n] = {f \in @ : f[1] \notin ts}
                      \cup (IF ok THEN {run.tag} \X DOMAIN s ELSE {})]
       /\ snap' = IF ok THEN [snap EXCEPT ![n][run.tag] = s] ELSE snap
       /\ lost' = lost \cup Unsent(n, ts)
       /\ IF ok THEN Ok(n) /\ ~run.stop /\ UNCHANGED events ELSE Err(n) /\ Fault
  /\ UNCHANGED <<location, jobs, rows, purges, val, clock, completed, doomed, calls>>

(* The schema stays in the memory of the run until SCHEMA. *)
AwaitSchema(n) ==
  /\ At("AWAIT_SCHEMA", n) /\ ~run.stop
  /\ run' = [run EXCEPT !.todo = {}, !.schema = TRUE]
  /\ UNCHANGED <<location, agents, rows, purges, val, clock, completed, doomed, lost, bounds>>

(* No directory is an error, unless the previous run was uploading. *)
IndexNode(n) ==
  /\ At("INDEX", n) /\ ~run.stop
  /\ LET found == run.tag \in dirs[n] \/ run.prev = "UPLOAD" IN
     run' = [run EXCEPT !.todo = @ \ {n}, !.err = @ \/ ~found, !.index[n] = Left(n, run.tag)]
  /\ UNCHANGED <<location, agents, rows, purges, val, clock, completed, doomed, lost, bounds>>

Manifest(n, temp) ==
  [node |-> n, task |-> run.task, tag |-> run.tag, temp |-> temp,
   files |-> run.index[n], schema |-> run.schema]

(* A plausible bug: the temporary manifest of an earlier run stays. *)
AddManifest(n) ==
  /\ At("MANIFEST", n) /\ ~run.stop
  /\ manifests' = manifests \cup {Manifest(n, TRUE)}
  /\ Ok(n)
  /\ UNCHANGED <<remote, schemas, agents, rows, purges, val, clock, completed, doomed, lost, bounds>>

(* The temporary manifest is uploaded, over one of an earlier run. *)
ManifestNode(n) ==
  /\ At("MANIFEST", n)
  /\ manifests' = {m \in manifests : ~SamePath(m, Manifest(n, TRUE))} \cup {Manifest(n, TRUE)}
  /\ (Ok(n) /\ ~run.stop /\ UNCHANGED events) \/ (Err(n) /\ Fault)
  /\ UNCHANGED <<remote, schemas, agents, rows, purges, val, clock, completed, doomed, lost, calls>>

(* UploadSchema does nothing in a run that has not dumped the schema. *)
Schema(n) ==
  /\ At("SCHEMA", n) /\ ~run.stop
  /\ schemas' = IF run.schema THEN schemas \cup {run.tag} ELSE schemas
  /\ Ok(n)
  /\ UNCHANGED <<remote, manifests, agents, rows, purges, val, clock, completed, doomed, lost, bounds>>

(* Is the file of snapshot t what the location has under its name? *)
IsNewest(n, t, x) == \E f \in Newest(remote, n) : f.name = x /\ f.content = snap[n][t][x]

(* deduplicateIntSSTables, deduplicateUUIDSStables: an sstable of the      *)
(* location that has other versions has more files than the local one.     *)
Duplicates(n, t) ==
  {x \in Left(n, t) : IsNewest(n, t, x)
                      /\ ~\E f \in remote : f.node = n /\ f.name = x /\ f.ver # 0}

(* Duplicates are deleted from the local snapshot, in batches that may     *)
(* fail.                                                                   *)
DeduplicateNode(n) ==
  /\ At("DEDUPLICATE", n) /\ ~run.stop
  /\ LET all == Duplicates(n, run.tag) \cap run.index[n] IN
     \E del \in SUBSET all :
       /\ local' = [local EXCEPT ![n] = @ \ ({run.tag} \X del)]
       /\ \/ del = all /\ Ok(n) /\ UNCHANGED events
          \/ del # {} /\ Err(n) /\ Fault
  /\ UNCHANGED <<location, snap, dirs, jobs, rows, purges, val, clock, completed, doomed, lost, calls>>

-----------------------------------------------------------------------------
(* worker_upload.go, and the agents' jobs: move every file of the directory *)
(* to the location, where a file with the name and other content is first   *)
(* renamed with the tag as its suffix.                                      *)

(* rcloneBackup starts a job; a job an earlier run left is never found, as *)
(* its ID is not copied to the new run's progress.  Empty directories are  *)
(* skipped.                                                                *)
UploadNode(n) ==
  /\ At("UPLOAD", n) /\ n \notin run.wait /\ ~run.stop
  /\ IF run.index[n] = {} THEN Ok(n) /\ UNCHANGED jobs
     ELSE /\ run' = [run EXCEPT !.wait = @ \cup {n}]
          /\ jobs' = [jobs EXCEPT ![n] = @ \cup {run.tag}]
  /\ UNCHANGED <<location, snap, local, dirs, rows, purges, val, clock, completed, doomed, lost, bounds>>

Moving(n, t, x) == t \in jobs[n] /\ <<t, x>> \in local[n]

RenameFile(n, t, x) ==
  /\ Moving(n, t, x)
  /\ \E f \in Newest(remote, n) :
       /\ f.name = x /\ f.content # snap[n][t][x]
       /\ remote' = {g \in remote : ~(g.node = n /\ g.name = x /\ g.ver \in {0, t})}
                      \cup {[f EXCEPT !.ver = t]}
  /\ UNCHANGED <<manifests, schemas, agents, rows, run, purges, val, clock, completed, doomed, lost, bounds>>

(* A file that the location has keeps its time. *)
MoveFile(n, t, x) ==
  /\ Moving(n, t, x)
  /\ \A f \in Newest(remote, n) : f.name = x => f.content = snap[n][t][x]
  /\ remote' = remote \cup {[node |-> n, name |-> x, ver |-> 0, content |-> snap[n][t][x]]}
  /\ local' = [local EXCEPT ![n] = @ \ {<<t, x>>}]
  /\ val' = IF val.state \in {"read", "scan"} /\ val.node = n /\ ~IsNewest(n, t, x)
            THEN [val EXCEPT !.fresh = @ \cup {x}] ELSE val
  /\ UNCHANGED <<manifests, schemas, snap, dirs, jobs, rows, run, purges, clock,
                 completed, doomed, lost, bounds>>

(* The job of the run succeeds and the snapshot of the table is deleted. *)
UploadDone(n) ==
  /\ At("UPLOAD", n) /\ n \in run.wait
  /\ run.tag \in jobs[n] /\ run.tag \in dirs[n] /\ Left(n, run.tag) = {}
  /\ jobs' = [jobs EXCEPT ![n] = @ \ {run.tag}]
  /\ \/ Ok(n) /\ ~run.stop /\ UNCHANGED events /\ dirs' = [dirs EXCEPT ![n] = @ \ {run.tag}]
     \/ Err(n) /\ FaultOrStop /\ UNCHANGED dirs
  /\ UNCHANGED <<location, snap, local, rows, purges, val, clock, completed, doomed, lost, calls>>

(* A plausible bug: the failure of the job is not noticed. *)
WaitsForEver(n) ==
  /\ At("UPLOAD", n) /\ n \in run.wait
  /\ Err(n) /\ FaultOrStop
  /\ jobs' = [jobs EXCEPT ![n] = @ \ {run.tag}]
  /\ UNCHANGED <<location, snap, local, dirs, rows, purges, val, clock, completed, doomed, lost, calls>>

(* waitJob returns an error: the job failed, as its directory is gone or   *)
(* by a fault, or the run was interrupted; stopping the job may fail too.  *)
UploadFails(n) ==
  /\ At("UPLOAD", n) /\ n \in run.wait
  /\ Err(n)
  /\ IF run.tag \in dirs[n] THEN FaultOrStop ELSE UNCHANGED events
  /\ jobs' \in {jobs, [jobs EXCEPT ![n] = @ \ {run.tag}]}
  /\ UNCHANGED <<location, snap, local, dirs, rows, purges, val, clock, completed, doomed, lost, calls>>

(* A job that no run waits for comes to its end. *)
JobEnds(n, t) ==
  /\ t \in jobs[n] /\ ~(~Idle /\ run.tag = t /\ n \in run.wait)
  /\ Left(n, t) = {}
  /\ jobs' = [jobs EXCEPT ![n] = @ \ {t}]
  /\ UNCHANGED <<location, snap, local, dirs, rows, run, purges, val, clock, completed, doomed,
                 lost, bounds>>

(* The agent restarts without its jobs; a run that waits is told that its  *)
(* job is not found and starts it again.                                   *)
AgentRestart(n) ==
  /\ jobs[n] # {} /\ Fault
  /\ jobs' = [jobs EXCEPT ![n] = {}]
  /\ run' = IF Idle THEN run ELSE [run EXCEPT !.wait = @ \ {n}]
  /\ UNCHANGED <<location, snap, local, dirs, rows, purges, val, clock, completed, doomed, lost, calls>>

-----------------------------------------------------------------------------
(* MoveManifest *)

Path(n, temp) == {m \in manifests : SamePath(m, Manifest(n, temp))}
Moved(n, from, to) ==
  IF Path(n, from) = {} THEN manifests
  ELSE (manifests \ (Path(n, from) \cup Path(n, to)))
         \cup {[m EXCEPT !.temp = to] : m \in Path(n, from)}

(* When there is no temporary manifest, finding the regular one is an      *)
(* error, and not finding it is taken for it being in place.               *)
MoveManifestNode(n) ==
  /\ At("MOVE_MANIFEST", n)
  /\ IF Path(n, TRUE) # {}
     THEN manifests' = Moved(n, TRUE, FALSE) /\ ((Ok(n) /\ ~run.stop /\ UNCHANGED events) \/ (Err(n) /\ Fault))
     ELSE /\ ~run.stop /\ UNCHANGED <<manifests, events>>
          /\ IF Path(n, FALSE) = {} THEN Ok(n) ELSE Err(n)
  /\ UNCHANGED <<remote, schemas, agents, rows, purges, val, clock, completed, doomed, lost, calls>>

RollbackMoveManifest ==
  /\ run.stage = "MOVE_MANIFEST" /\ run.todo = {} /\ run.err /\ ~run.rollback
  /\ run' = [run EXCEPT !.rollback = TRUE, !.todo = Nodes]
  /\ UNCHANGED <<location, agents, rows, purges, val, clock, completed, doomed, lost, bounds>>

(* A failing rollback is logged only; it is not subject to interruption. *)
RollbackNode(n) ==
  /\ run.stage = "MOVE_MANIFEST" /\ n \in run.todo /\ run.rollback
  /\ Ok(n)
  /\ \/ manifests' = Moved(n, FALSE, TRUE) /\ UNCHANGED events
     \/ UNCHANGED manifests /\ Fault
  /\ UNCHANGED <<remote, schemas, agents, rows, purges, val, clock, completed, doomed, lost, calls>>

-----------------------------------------------------------------------------
(* Purge, DeleteSnapshot: both decide on the manifests they list, then go  *)
(* through the nodes, one by one or together.                              *)

Decision(ms, tags, groups) ==
  [state |-> "purging", list |-> ms, tags |-> tags, oldest |-> OldestKeptTag(ms, tags),
   groups |-> groups, meta |-> {}]

PurgeDecide ==
  /\ run.stage = "PURGE" /\ run.todo # {} /\ purges["run"] = NoPurge /\ ~run.stop
  /\ LET ms == FilterShadowedTemporaryManifests(manifests)
         tags == StaleTags(ms, Retention, clock)
     IN /\ purges' = [purges EXCEPT !["run"] = Decision(ms, tags, {{n} : n \in run.todo})]
        /\ doomed' = doomed \cup tags
  /\ UNCHANGED <<location, agents, rows, run, val, clock, completed, lost, bounds>>

(* DeleteSnapshot is one call of the user. *)
DeleteSnapshot ==
  /\ Idle \/ "delete" \in Beside
  /\ InCall = {} /\ calls < MaxCalls /\ calls' = calls + 1
  /\ \E tag \in TagsOf(manifests) :
       /\ purges' = [purges EXCEPT !["delete"] =
                       Decision(FilterShadowedTemporaryManifests(manifests), {tag}, {Nodes})]
       /\ doomed' = doomed \cup {tag}
  /\ UNCHANGED <<location, agents, rows, run, val, clock, completed, lost, events>>

(* Why a purge may fail: DeleteSnapshot is not interrupted with the run. *)
PurgeFault(c) == IF c = "run" THEN FaultOrStop ELSE Fault
(* The listed manifests of a group of nodes, as they are when read. *)
ReadManifests(p, g) == {m \in manifests : m.node \in g /\ \E l \in p.list : SamePath(m, l)}
(* PurgeSnapshotTags removes the versions of the node of the first manifest. *)
FirstNodes(p, g) == {m.node : m \in {l \in p.list : l.node \in g}}

(* The run deletes its local snapshot on the node before anything else.    *)
(* That this may fail, which is logged, is left out: the next SNAPSHOT     *)
(* stage deletes what is left.                                             *)
DeleteOwnSnapshot(c, g) ==
  IF c = "run"
  THEN /\ dirs' = [n \in Nodes |-> IF n \in g THEN dirs[n] \ {run.tag} ELSE dirs[n]]
       /\ local' = [n \in Nodes |-> IF n \in g THEN {f \in local[n] : f[1] # run.tag} ELSE local[n]]
       /\ lost' = lost \cup {t \in {run.tag} : \E n \in g : Left(n, t) # {}}
  ELSE UNCHANGED <<dirs, local, lost>>

(* The files are deleted before the manifests that list them; a failure in *)
(* between leaves the manifests.                                           *)
PurgeFiles(c, g) ==
  /\ purges[c] # NoPurge /\ g \in purges[c].groups
  /\ LET p == purges[c]
         ms == ReadManifests(p, g)
         read == \A l \in p.list : l.node \in g => \E m \in ms : SamePath(m, l)
     IN \E first \in FirstNodes(p, g) \cup (IF FirstNodes(p, g) = {} THEN g ELSE {}) :
        LET all == FilesToPurge(remote, ms, p.tags, p.oldest, first) IN
        \E del \in SUBSET all, ok \in BOOLEAN :
          /\ ok => read /\ del = all
          /\ remote' = remote \ del
          /\ purges' = [purges EXCEPT ![c].groups = @ \ {g},
                                      ![c].meta = IF ok THEN @ \cup {g} ELSE @]
          /\ IF ok THEN UNCHANGED <<run, events>> /\ (c = "run" => ~run.stop)
             ELSE /\ (~read /\ events' = events) \/ PurgeFault(c)
                  /\ run' = IF c = "run" THEN [run EXCEPT !.todo = @ \ g, !.err = TRUE] ELSE run
  /\ DeleteOwnSnapshot(c, g)
  /\ UNCHANGED <<manifests, schemas, snap, jobs, rows, val, clock, completed, doomed, calls>>

(* Failures to delete a schema or a manifest are logged only. *)
PurgeManifests(c, g) ==
  /\ purges[c] # NoPurge /\ g \in purges[c].meta
  /\ LET stale == {m \in manifests : m.node \in g /\ m.tag \in purges[c].tags
                     /\ \E l \in purges[c].list : m.task = l.task /\ m.tag = l.tag /\ m.node = l.node}
     IN \E kept \in SUBSET stale :
          /\ IF kept = {} THEN UNCHANGED events ELSE PurgeFault(c)
          /\ manifests' = (manifests \ stale) \cup kept
          /\ schemas' = schemas \ TagsOf(stale)
  /\ purges' = [purges EXCEPT ![c].meta = @ \ {g}]
  /\ run' = IF c = "run" THEN [run EXCEPT !.todo = @ \ g] ELSE run
  /\ UNCHANGED <<remote, agents, rows, val, clock, completed, doomed, lost, calls>>

DeleteEnds ==
  /\ purges["delete"] # NoPurge /\ purges["delete"].groups = {} /\ purges["delete"].meta = {}
  /\ purges' = [purges EXCEPT !["delete"] = NoPurge]
  /\ UNCHANGED <<location, agents, rows, run, val, clock, completed, doomed, lost, bounds>>

-----------------------------------------------------------------------------
(* Validate with --delete-orphaned-files, seen from one node: the nodes    *)
(* have no files or manifests in common.                                   *)

(* The manifests are listed.  On the node's own host only a row is written  *)
(* between the listing and the start that times are compared with.         *)
ValidateStart(n) ==
  /\ Idle \/ "validate" \in Beside
  /\ InCall = {} /\ calls < MaxCalls /\ calls' = calls + 1
  /\ LET ms == {m \in FilterShadowedTemporaryManifests(manifests) : m.node = n}
     IN ms # {} /\ val' = [state |-> "read", node |-> n, list |-> ms, files |-> {},
                           fresh |-> {}, orphans |-> {}]
  /\ UNCHANGED <<location, agents, rows, run, purges, clock, completed, doomed, lost, events>>

(* A manifest that is gone is an error. *)
ValidateRead ==
  /\ val.state = "read"
  /\ LET ms == {m \in manifests : \E l \in val.list : SamePath(m, l)} IN
     val' = IF Cardinality(ms) = Cardinality(val.list)
            THEN [val EXCEPT !.state = "scan", !.files = UNION {m.files : m \in ms}]
            ELSE NoValidation
  /\ UNCHANGED <<location, agents, rows, run, purges, clock, completed, doomed, lost, bounds>>

ValidateScan ==
  /\ val.state = "scan"
  /\ val' = [val EXCEPT !.state = "delete", !.orphans =
               {f.name : f \in Newest(remote, val.node)} \ (val.files \cup val.fresh)]
  /\ UNCHANGED <<location, agents, rows, run, purges, clock, completed, doomed, lost, bounds>>

(* The orphans, or some of them when it fails. *)
ValidateDelete ==
  /\ val.state = "delete"
  /\ \E del \in SUBSET val.orphans :
       /\ IF del = val.orphans THEN UNCHANGED events ELSE Fault
       /\ remote' = {f \in remote : ~(f.node = val.node /\ f.ver = 0 /\ f.name \in del)}
  /\ val' = NoValidation
  /\ UNCHANGED <<manifests, schemas, agents, rows, run, purges, clock, completed, doomed, lost, calls>>

(* DeleteLocalSnapshots, a call of the user, on one node. *)
DeleteLocalSnapshots(n) ==
  /\ dirs[n] # {} /\ calls < MaxCalls /\ calls' = calls + 1
  /\ dirs' = [dirs EXCEPT ![n] = {}] /\ local' = [local EXCEPT ![n] = {}]
  /\ lost' = lost \cup Unsent(n, dirs[n])
  /\ UNCHANGED <<location, snap, jobs, rows, run, purges, val, clock, completed, doomed, events>>

-----------------------------------------------------------------------------
(* Stop, suspension or the end of the maintenance window. *)
Interrupt ==
  /\ ~Idle /\ ~run.stop /\ Fault
  /\ run' = [run EXCEPT !.stop = TRUE]
  /\ UNCHANGED <<location, agents, rows, purges, val, clock, completed, doomed, lost, calls>>

(* The manager's process ends; the agents' jobs go on. *)
Crash ==
  /\ ~Idle \/ InCall # {} 
  /\ Fault
  /\ run' = NoRun /\ purges' = [c \in {"run", "delete"} |-> NoPurge] /\ val' = NoValidation
  /\ UNCHANGED <<location, agents, rows, clock, completed, doomed, lost, calls>>

Tick ==
  /\ Idle /\ clock < MaxTime /\ clock' = clock + 1
  /\ UNCHANGED <<location, agents, rows, run, purges, val, completed, doomed, lost, bounds>>

Worker(n) ==
  \/ SnapshotNode(n) \/ AwaitSchema(n) \/ IndexNode(n) \/ ManifestNode(n) \/ Schema(n)
  \/ DeduplicateNode(n) \/ UploadNode(n) \/ UploadDone(n) \/ UploadFails(n)
  \/ MoveManifestNode(n) \/ RollbackNode(n) \/ NodeFails(n)

Agent(n) ==
  \/ \E t \in jobs[n] : JobEnds(n, t)
  \/ \E t \in jobs[n], x \in Names : RenameFile(n, t, x) \/ MoveFile(n, t, x)
  \/ AgentRestart(n)

Purging == \E c \in {"run", "delete"} :
  \E g \in {Nodes} \cup {{n} : n \in Nodes} : PurgeFiles(c, g) \/ PurgeManifests(c, g)

Next ==
  \/ \E k \in Tasks : Start(k)
  \/ NextStage \/ End \/ RollbackMoveManifest \/ PurgeDecide
  \/ \E n \in Nodes : Worker(n) \/ Agent(n) \/ ValidateStart(n) \/ DeleteLocalSnapshots(n)
  \/ Purging \/ DeleteSnapshot \/ DeleteEnds
  \/ ValidateRead \/ ValidateScan \/ ValidateDelete
  \/ Interrupt \/ Crash \/ Tick

Spec == Init /\ [][Next]_vars

-----------------------------------------------------------------------------
FileType == [node : Nodes, name : Names, ver : 0..MaxTime, content : Contents]
ManifestType == [node : Nodes, task : Tasks, tag : Tags, temp : BOOLEAN,
                 files : SUBSET Names, schema : BOOLEAN]

TypeOK ==
  /\ remote \subseteq FileType /\ manifests \subseteq ManifestType /\ schemas \subseteq Tags
  /\ \A a, b \in remote : a.node = b.node /\ a.name = b.name /\ a.ver = b.ver => a = b
  /\ \A a, b \in manifests : SamePath(a, b) => a = b
  /\ local \in [Nodes -> SUBSET (Tags \X Names)] /\ dirs \in [Nodes -> SUBSET Tags]
  /\ jobs \in [Nodes -> SUBSET Tags]
  /\ \A k \in Tasks : rows[k] \in Seq([tag : Tags, stage : Stages])
  /\ clock \in 0..MaxTime /\ doomed \cup lost \cup completed \subseteq Tags

(* What the manifest lists can be restored as it was at the time *)
(* of the snapshot, and so can the schema it names.                        *)
Restorable(m) ==
  /\ \A x \in m.files :
       x \in DOMAIN snap[m.node][m.tag]
       /\ ListVersionedFiles(remote, m.node, x, m.tag) = {snap[m.node][m.tag][x]}
  /\ m.schema => m.tag \in schemas

(* A listed backup (a manifest that is not temporary) can be restored with *)
(* the content its node had, whatever was deduplicated against, replaced   *)
(* and purged since: unless its removal was decided, or its local files    *)
(* were deleted before they were uploaded.                                 *)
ListedIsRestorable ==
  \A m \in manifests : ~m.temp /\ m.tag \notin doomed \cup lost => Restorable(m)

(* Without faults, purges leave no file behind that no manifest lists.     *)
NoOrphans ==
  events = 0 /\ Idle /\ InCall = {} =>
    \A f \in remote : f.ver = 0 =>
      \E m \in manifests : m.node = f.node /\ f.name \in m.files

(* A purge removes a completed backup of a task only for its age, or when  *)
(* as many later backups of the task as it is to keep are listed.          *)
RetentionKept ==
  [][\A t \in (completed \cap doomed') \ doomed : purges["delete"]' = purges["delete"] =>
       \A m \in manifests : m.tag = t =>
         LET p == Retention[m.task]
             later == {o \in manifests : o.task = m.task /\ ~o.temp /\ o.tag > t}
         IN \/ p.days > 0 /\ t < clock - p.days
            \/ p.retention > 0 /\ Cardinality(TagsOf(later)) >= p.retention
            \/ \E o \in manifests : o.tag = t /\ o.temp]_vars

RunStep ==
  \/ NextStage \/ End \/ RollbackMoveManifest \/ PurgeDecide
  \/ \E n \in run.todo : Worker(n) \/ PurgeFiles("run", {n}) \/ PurgeManifests("run", {n})
JobStep ==
  \E n \in Nodes : \E t \in jobs[n], x \in Names : RenameFile(n, t, x) \/ MoveFile(n, t, x)

(* A run that waits for the upload of a node is never stuck: it, or the    *)
(* job it waits for, has a step to take that is no failure, also after     *)
(* interruptions, agents that restart and snapshots that were deleted.     *)
NeverStuck == ~Idle /\ run.wait # {} => ENABLED (UNCHANGED events /\ (RunStep \/ JobStep))

(* A backup whose run got past moving the manifests has, as long as nobody *)
(* decided to remove it, a manifest of every node, which lists all files   *)
(* of the snapshot, and these can be restored.                             *)
CompletedIsWhole ==
  \A t \in completed \ doomed : \A n \in Nodes :
    \E m \in manifests : /\ m.node = n /\ m.tag = t /\ ~m.temp
                         /\ m.files = DOMAIN snap[n][t] /\ Restorable(m)
=============================================================================
