------------------------------- MODULE Purger -------------------------------
(***************************************************************************)
(* The decisions of pkg/service/backup/purger.go, versioning.go and        *)
(* list.go on the contents of one backup location: which snapshots are     *)
(* stale, which files go with them, and which version of a file belongs to *)
(* a snapshot.                                                             *)
(*                                                                         *)
(* A remote file is [node, name, ver, content]: ver is 0 for the newest    *)
(* version of the file, or the tag of the snapshot whose upload replaced   *)
(* it (the suffix of its name).  A manifest is [node, task, tag, temp,     *)
(* files, schema].  Tags are their times.                                  *)
(***************************************************************************)
EXTENDS Integers, FiniteSets, FiniteSetsExt

(* The files of a snapshot directory that have the plain name. *)
Newest(remote, n) == {f \in remote : f.node = n /\ f.ver = 0}

(* What a restore of snapshot t takes for file x: the oldest version that  *)
(* was replaced after t, otherwise the newest one.                         *)
ListVersionedFiles(remote, n, x, t) ==
  LET vers == {f.ver : f \in {g \in remote : g.node = n /\ g.name = x /\ g.ver > t}}
      ver == IF vers = {} THEN 0 ELSE Min(vers)
  IN {f.content : f \in {g \in remote : g.node = n /\ g.name = x /\ g.ver = ver}}

(* Two manifests with the same path. *)
SamePath(a, b) == a.node = b.node /\ a.task = b.task /\ a.tag = b.tag /\ a.temp = b.temp

(* Temporary manifests that have their regular counterpart are left out. *)
FilterShadowedTemporaryManifests(ms) ==
  {m \in ms : ~(m.temp /\ \E r \in ms : SamePath(r, [m EXCEPT !.temp = FALSE]))}

TagsOf(ms) == {m.tag : m \in ms}

(* A plausible bug: one backup too many is purged. *)
StaleTagsOneMore(ms, retention, now) ==
  LET Old(m) == retention[m.task].days > 0 /\ m.tag < now - retention[m.task].days
      counted == {m \in ms : ~m.temp /\ ~Old(m) /\ retention[m.task].retention > 0}
      Over(m) == Cardinality(TagsOf({o \in counted : o.task = m.task /\ o.tag > m.tag}))
                   >= retention[m.task].retention - 1
  IN TagsOf({m \in ms : m.temp \/ Old(m)} \cup {m \in counted : Over(m)})

(* Temporary manifests, those over the retention days of their task, and,  *)
(* among the others of a task, all but the last Retention tags.            *)
StaleTags(ms, retention, now) ==
  LET Old(m) == retention[m.task].days > 0 /\ m.tag < now - retention[m.task].days
      counted == {m \in ms : ~m.temp /\ ~Old(m) /\ retention[m.task].retention > 0}
      Over(m) == Cardinality(TagsOf({o \in counted : o.task = m.task /\ o.tag > m.tag}))
                   >= retention[m.task].retention
  IN TagsOf({m \in ms : m.temp \/ Old(m)} \cup {m \in counted : Over(m)})

(* The time of the oldest snapshot that stays, 0 if none does. *)
OldestKeptTag(ms, tags) ==
  LET kept == TagsOf(ms) \ tags IN IF kept = {} THEN 0 ELSE Min(kept)

(* A plausible bug: versions that a kept snapshot still needs are removed. *)
IsRemovableNoLater(oldest, ver) == ver <= oldest + 1

(* A version belongs to snapshots strictly older than the one that         *)
(* replaced it.                                                            *)
IsVersionedFileRemovable(oldest, ver) == ver <= oldest

(* A plausible bug: a file that two stale manifests list is spared. *)
SparesShared(remote, ms, tags, oldest, first) ==
  LET Lists(m, f) == m.node = f.node /\ f.name \in m.files
  IN {f \in remote : f.ver = 0 /\ \E m \in ms : m.tag \in tags /\ Lists(m, f)
                                    /\ ~\E o \in ms \ {m} : Lists(o, f)}

(* PurgeSnapshotTags: the files listed by stale manifests and by none that *)
(* stays, and the removable versions in the directory of node first.       *)
FilesToPurge(remote, ms, tags, oldest, first) ==
  LET Lists(m, f) == m.node = f.node /\ f.name \in m.files
      stale == {m \in ms : m.tag \in tags}
  IN IF stale = {} THEN {}
     ELSE {f \in remote : f.ver = 0 /\ (\E m \in stale : Lists(m, f))
                                    /\ ~\E m \in ms \ stale : Lists(m, f)}
          \cup {f \in remote : /\ f.ver # 0 /\ f.node = first
                               /\ oldest # 0 /\ IsVersionedFileRemovable(oldest, f.ver)}
=============================================================================
