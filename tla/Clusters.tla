------------------------------ MODULE Clusters ------------------------------
(***************************************************************************)
(* One cluster as the manager knows it: its row, its secrets and its       *)
(* automatic tasks in the database (pkg/service/cluster), the cached       *)
(* client (pkg/scyllaclient/provider.go) and the cached configuration of   *)
(* its nodes (pkg/service/configcache), with the listener that keeps the   *)
(* tasks and the configuration in step (pkg/cmd/scylla-manager).           *)
(*                                                                         *)
(* A step is one statement, one access to a shared map, or one call of the *)
(* cluster's nodes.  A call of the REST API makes its steps in order; the  *)
(* other calls, the callers of Client, the periodic update of the          *)
(* configuration and the updates that nobody waits for come in between.    *)
(*                                                                         *)
(* stamp counts the writes of the whole row, and the row is the stamp of   *)
(* its write: what it says, host, port and token, is not told apart        *)
(* further.  Known hosts alone are written without reading the row: a      *)
(* deleted row comes back with nothing else in it (Bare).                  *)
(***************************************************************************)
EXTENDS Integers, Sequences, FiniteSetsExt, Functions

CONSTANTS
  None,
  KindOrder,    \* kinds of secrets, in the order PutCluster saves them
  AutoTasks,    \* tasks added with a cluster, in their order
  Hosts,
  Rings,        \* the sets of hosts that the cluster may have
  Given,        \* which kinds of secrets a put may come with
  RequireAuth,  \* do the nodes ask for a client certificate
  MaxReads,     \* calls of Client
  MaxCalls,     \* calls of the REST API
  MaxEvents,    \* failures, crashes, changes of the nodes
  Scenes,       \* what a behaviour has: the number of its calls, the hosts at first, and, of "clients",
                \* "updates" and "secrets", what there is besides calls without secrets
  MaxBusy       \* calls, callers of Client and updates that may be on when another one comes

Bare == 0
NoSecret == 0
OldSecret == MaxCalls + 1
Kinds == Range(KindOrder)
Calls == 1 .. MaxCalls
Readers == 1 .. MaxReads
Ticker == 0
Backup == MaxCalls + 1
Updates == 0 .. Backup     \* the ticker's, one for each call, a backup's
Callers == {<<"call", n>> : n \in Calls} \cup {<<"reader", r>> : r \in Readers}
             \cup {<<"update", x>> : x \in Updates}
Objects == 0 .. MaxReads + 1

ASSUME ClustersAssumption ==
  /\ None \notin Int
  /\ MaxReads \in Nat /\ MaxCalls \in Nat /\ MaxEvents \in Nat
  /\ KindOrder \in Seq(Kinds) /\ "tls" \in Kinds /\ Given \subseteq SUBSET Kinds
  /\ \A s \in Scenes : s.ring \in Rings /\ s.calls \in 0 .. MaxCalls
  /\ \A R \in Rings : R \subseteq Hosts /\ R # {}

VARIABLES
  row, stamp, secrets, tasks,  \* the database
  ring,                        \* the hosts of the cluster
  call,                        \* REST calls
  job,                         \* CreateClientNoCache of each caller
  object, client, mutex,       \* CachedProvider: present object; client and mutex of objects
  reader,                      \* callers of Client
  config, update,              \* configuration cache, its updates
  scene,                       \* one of Scenes
  acked,                       \* history: newest write whose update or delete returned
  events

db == <<row, stamp, secrets, tasks>>
cache == <<object, client, mutex>>
nodes == <<ring, scene>>
vars == <<db, nodes, call, job, cache, reader, config, update, acked, events>>

Has(what) == what \in scene.has

(* What is first in an order.  todo is what is left to do, kinds or tasks; undo, by kind, the value that a put replaced. *)
FirstOf(order, S) == {k \in S : \E i \in DOMAIN order : order[i] = k /\ \A j \in DOMAIN order : j < i => order[j] \notin S}
Nothing == [k \in {} |-> NoSecret]

NoJob == [at |-> "idle", asOf |-> 0, bare |-> FALSE, hosts |-> {}]
NoCall == [at |-> "new", op |-> "put", type |-> "create", todo |-> {}, undo |-> Nothing, err |-> FALSE,
           mine |-> 0, alone |-> FALSE, before |-> [k \in Kinds |-> NoSecret]]
NoReader == [at |-> "new", object |-> 0, need |-> 0, got |-> None]
NoUpdate == [at |-> "idle", row |-> Bare, hosts |-> {}, found |-> <<>>]

(* The manager starts with a cluster that was added before; when secrets are put, without it, too. *)
Init ==
  /\ scene \in Scenes
  /\ \/ Has("secrets") /\ row = None /\ stamp = 0 /\ tasks = {} /\ secrets = [k \in Kinds |-> NoSecret]
     \/ row = 1 /\ stamp = 1 /\ tasks = Range(AutoTasks) /\ secrets = [k \in Kinds |-> OldSecret]
  /\ ring = scene.ring
  /\ call = [n \in Calls |-> NoCall]
  /\ job = [p \in Callers |-> NoJob]
  /\ object = 0
  /\ client = [o \in Objects |-> None]
  /\ mutex = [o \in Objects |-> None]
  /\ reader = [r \in Readers |-> NoReader]
  /\ config = None
  /\ update = [x \in Updates |-> NoUpdate]
  /\ acked = 0 /\ events = 0

Fault == events < MaxEvents /\ events' = events + 1

Going(n) == call[n].at \notin {"new", "ok", "failed", "lost"}
Reading(r) == reader[r].at \notin {"new", "done"}
Busy == Cardinality({n \in Calls : Going(n)}) + Cardinality({r \in Readers : Reading(r)})
          + Cardinality({x \in Updates : update[x].at # "idle"})

-----------------------------------------------------------------------------
(* CreateClientNoCache: read the row, discover the hosts, save them. *)

NewJob(p) == [job EXCEPT ![p] = [NoJob EXCEPT !.at = "row"]]
JobEnded(p) == job[p].at \in {"done", "failed"}
JobFails(p) ==
  /\ job' = [job EXCEPT ![p].at = "failed"]
  /\ UNCHANGED <<db, nodes, call, cache, reader, config, update, acked>>

GetClusterByID(p) ==
  /\ job[p].at = "row"
  /\ \/ row = None /\ JobFails(p) /\ UNCHANGED events
     \/ Fault /\ JobFails(p)
     \/ /\ row # None
        /\ job' = [job EXCEPT ![p] = [@ EXCEPT !.at = "discover", !.asOf = stamp, !.bare = (row = Bare)]]
        /\ UNCHANGED <<db, nodes, call, cache, reader, config, update, acked, events>>

(* discoverAndSetClusterHosts.  The nodes are asked at the time the answer is saved: who uses the     *)
(* answer may do so at any time later.  Without host and token of the row they may refuse to answer. *)
setKnownHosts(p) ==
  /\ job[p].at = "discover"
  /\ \/ job[p].bare /\ JobFails(p) /\ UNCHANGED events
     \/ Fault /\ JobFails(p)
     \/ /\ row' = IF row = None THEN Bare ELSE row
        /\ job' = [job EXCEPT ![p] = [@ EXCEPT !.at = "done", !.hosts = ring]]
        /\ UNCHANGED <<stamp, secrets, tasks, nodes, call, cache, reader, config, update, acked, events>>

CreateClientNoCache(p) == GetClusterByID(p) \/ setKnownHosts(p)

-----------------------------------------------------------------------------
(* CachedProvider.Client. *)

getClientTTL(r) ==
  /\ Has("clients") /\ Busy < MaxBusy /\ reader[r].at = "new"
  /\ \A q \in Readers : q < r => reader[q].at # "new"
  /\ reader' = [reader EXCEPT ![r] = [@ EXCEPT !.at = "lock", !.object = object, !.need = acked]]
  /\ UNCHANGED <<db, nodes, call, job, cache, config, update, acked, events>>

Lock(r) ==
  LET o == reader[r].object
  IN /\ reader[r].at = "lock" /\ mutex[o] = None
     /\ mutex' = [mutex EXCEPT ![o] = r]
     /\ reader' = [reader EXCEPT ![r].at = "check"]
     /\ UNCHANGED <<db, nodes, call, job, object, client, config, update, acked, events>>

Returns(r, c) ==
  /\ reader' = [reader EXCEPT ![r] = [@ EXCEPT !.at = "done", !.got = c]]
  /\ mutex' = [mutex EXCEPT ![reader[r].object] = None]

(* The client is in its time, and its hosts are the cluster's or were a moment ago. *)
isValid(r) ==
  /\ reader[r].at = "check" /\ client[reader[r].object] # None
  /\ Returns(r, client[reader[r].object])
  /\ UNCHANGED <<db, nodes, call, job, object, client, config, update, acked, events>>

(* There is none, it is too old, or its hosts changed or could not be checked. *)
isInvalid(r) ==
  /\ reader[r].at = "check"
  /\ reader' = [reader EXCEPT ![r].at = "create"]
  /\ job' = NewJob(<<"reader", r>>)
  /\ UNCHANGED <<db, nodes, call, cache, config, update, acked, events>>

Created(r) ==
  LET p == <<"reader", r>>
  IN /\ reader[r].at = "create" /\ JobEnded(p)
     /\ \/ /\ job[p].at = "done"
           /\ client' = [client EXCEPT ![reader[r].object] = job[p].asOf]
           /\ Returns(r, job[p].asOf)
        \/ job[p].at = "failed" /\ Returns(r, None) /\ UNCHANGED client
     /\ job' = [job EXCEPT ![p] = NoJob]
     /\ UNCHANGED <<db, nodes, call, object, config, update, acked, events>>

Client(r) == getClientTTL(r) \/ Lock(r) \/ isValid(r) \/ isInvalid(r) \/ Created(r)

(* A plausible bug: the object stays and only its client is dropped. *)
InvalidateInPlace ==
  /\ client' = [client EXCEPT ![object] = None]
  /\ UNCHANGED <<object, mutex>>

(* The map forgets the object, the next caller gets a new one; who has the old one goes on with it. *)
Invalidate ==
  LET Kept == {reader[r].object : r \in {q \in Readers : Reading(q)}}
  IN /\ object' = CHOOSE o \in Objects : o \notin Kept \cup {object}
     /\ client' = [o \in Objects |-> IF o \in Kept THEN client[o] ELSE None]
     /\ UNCHANGED mutex

-----------------------------------------------------------------------------
(* The configuration cache. *)

UpdateFails(x) ==
  /\ update' = [update EXCEPT ![x] = NoUpdate]
  /\ UNCHANGED <<db, nodes, call, cache, reader, config, acked>>

UpdateClient(x, hosts) ==
  /\ update' = [update EXCEPT ![x] = [NoUpdate EXCEPT !.at = "client", !.row = row, !.hosts = hosts]]
  /\ job' = NewJob(<<"update", x>>)
  /\ UNCHANGED <<db, nodes, call, cache, reader, config, acked>>

ForceUpdateCluster(x) ==
  /\ update[x].at = "get"
  /\ \/ row # None /\ UpdateClient(x, {}) /\ UNCHANGED events
     \/ row = None /\ UpdateFails(x) /\ UNCHANGED <<job, events>>
     \/ Fault /\ UpdateFails(x) /\ UNCHANGED job

(* A backup updates the nodes that are up, here while one is not. *)
ForceUpdateHosts ==
  /\ Has("updates") /\ Busy < MaxBusy /\ update[Backup].at = "idle" /\ row # None
  /\ Fault
  /\ \E live \in SUBSET ring \ {{}, ring} : UpdateClient(Backup, live)

(* The ticker's updateAll: the cluster as ListClusters has it. *)
updateAll ==
  /\ Has("updates") /\ Busy < MaxBusy /\ update[Ticker].at = "idle" /\ row # None
  /\ UpdateClient(Ticker, {})
  /\ UNCHANGED events

updateSingle(x) ==
  LET p == <<"update", x>>
  IN /\ update[x].at = "client" /\ JobEnded(p)
     /\ job' = [job EXCEPT ![p] = NoJob]
     /\ \/ /\ job[p].at = "done"
           /\ update' = [update EXCEPT ![x].at = "retrieve",
                                            ![x].hosts = IF @ = {} THEN job[p].hosts ELSE @]
           /\ UNCHANGED <<db, nodes, call, cache, reader, config, acked>>
        \/ job[p].at = "failed" /\ UpdateFails(x)
     /\ UNCHANGED events

(* One host: its configuration has the secrets of the moment, or it is left out. *)
retrieveNodeConfig(x, h) ==
  LET With(S) == update' = [update EXCEPT ![x].hosts = @ \ {h},
                   ![x].found = [g \in DOMAIN @ \cup S |-> IF g \in S THEN [row |-> update[x].row, tls |-> secrets["tls"]]
                                                                     ELSE @[g]]]
  IN /\ update[x].at = "retrieve" /\ h \in update[x].hosts
     /\ \/ With(IF RequireAuth /\ secrets["tls"] = NoSecret THEN {} ELSE {h}) /\ UNCHANGED events
        \/ Fault /\ With({})
     /\ UNCHANGED <<db, nodes, call, job, cache, reader, config, acked>>

(* A plausible bug: what is there is kept (LoadOrStore). *)
StoreFirst(x) ==
  /\ update[x].at = "retrieve" /\ update[x].hosts = {}
  /\ config' = IF config = None THEN update[x].found ELSE config
  /\ update' = [update EXCEPT ![x] = NoUpdate]
  /\ UNCHANGED <<db, nodes, call, job, cache, reader, acked, events>>

Store(x) ==
  /\ update[x].at = "retrieve" /\ update[x].hosts = {}
  /\ config' = update[x].found
  /\ update' = [update EXCEPT ![x] = NoUpdate]
  /\ UNCHANGED <<db, nodes, call, job, cache, reader, acked, events>>

Update(x) ==
  \/ ForceUpdateCluster(x) \/ updateSingle(x) \/ Store(x)
  \/ \E h \in Hosts : retrieveNodeConfig(x, h)

-----------------------------------------------------------------------------
(* Calls of the REST API.  A call is alone when no other one is on between *)
(* its start and its end.                                                  *)

At(n, at) == call[n].at = at
Goto(n, at) == call' = [call EXCEPT ![n].at = at]
Ends(n, at) == call' = [call EXCEPT ![n] = [NoCall EXCEPT !.at = at]]

Start(n, c) ==
  /\ Busy < MaxBusy /\ n <= scene.calls /\ At(n, "new") /\ \A m \in Calls : m < n => ~At(m, "new")
  /\ call' = [m \in Calls |-> IF m = n THEN [c EXCEPT !.alone = \A l \in Calls : ~Going(l), !.before = secrets]
                              ELSE IF Going(m) THEN [call[m] EXCEPT !.alone = FALSE]
                              ELSE call[m]]
  /\ UNCHANGED <<db, nodes, job, cache, reader, config, update, acked, events>>

(* choosePutClusterChangeType of a cluster with an ID; given are the kinds of secrets that come with it. *)
PutCluster(n, given) ==
  Start(n, [NoCall EXCEPT !.at = "check", !.type = IF row = None THEN "create" ELSE "update",
                          !.todo = given])

(* Validation, the name, on an update the old row, connectivity: nothing is written. *)
Check(n) ==
  /\ At(n, "check")
  /\ \/ Ends(n, "failed")
     \/ /\ call[n].type = "update" => row # None
        /\ Goto(n, IF call[n].todo = {} THEN "insert" ELSE "secret")
  /\ UNCHANGED <<db, nodes, job, cache, reader, config, update, acked, events>>

PutFails(n) ==
  /\ Fault
  /\ Goto(n, "rollback")
  /\ UNCHANGED <<db, nodes, job, cache, reader, config, update, acked>>

(* PutWithRollback: get the old value, then put. *)
GetSecret(n) ==
  /\ At(n, "secret")
  /\ \/ PutFails(n)
     \/ /\ \E k \in FirstOf(KindOrder, call[n].todo) :
             call' = [call EXCEPT ![n].at = "put", ![n].undo = [j \in DOMAIN @ \cup {k} |-> IF j = k THEN secrets[k] ELSE @[j]]]
        /\ UNCHANGED <<db, nodes, job, cache, reader, config, update, acked, events>>

PutSecret(n) ==
  /\ At(n, "put")
  /\ \E k \in FirstOf(KindOrder, call[n].todo) :
       \/ /\ Fault
          /\ call' = [call EXCEPT ![n].at = "rollback", ![n].undo = Restrict(@, DOMAIN @ \ {k})]
          /\ UNCHANGED secrets
       \/ /\ secrets' = [secrets EXCEPT ![k] = n]
          /\ call' = [call EXCEPT ![n].at = IF call[n].todo = {k} THEN "insert" ELSE "secret", ![n].todo = @ \ {k}]
          /\ UNCHANGED events
  /\ UNCHANGED <<row, stamp, tasks, nodes, job, cache, reader, config, update, acked>>

(* A plausible bug: a rollback deletes what was put, whatever was there before. *)
RollbackDeletes(n) ==
  /\ At(n, "rollback")
  /\ \/ DOMAIN call[n].undo = {} /\ Ends(n, "failed") /\ UNCHANGED secrets
     \/ \E k \in FirstOf(KindOrder, DOMAIN call[n].undo) :
          /\ secrets' = [secrets EXCEPT ![k] = NoSecret]
          /\ call' = [call EXCEPT ![n].undo = Restrict(@, DOMAIN @ \ {k})]
  /\ UNCHANGED <<row, stamp, tasks, nodes, job, cache, reader, config, update, acked, events>>

(* Errors of a rollback are ignored. *)
Rollback(n) ==
  /\ At(n, "rollback")
  /\ \/ DOMAIN call[n].undo = {} /\ Ends(n, "failed") /\ UNCHANGED <<secrets, events>>
     \/ \E k \in FirstOf(KindOrder, DOMAIN call[n].undo) :
          /\ \/ secrets' = [secrets EXCEPT ![k] = call[n].undo[k]] /\ UNCHANGED events
             \/ Fault /\ UNCHANGED secrets
          /\ call' = [call EXCEPT ![n].undo = Restrict(@, DOMAIN @ \ {k}), ![n].err = @ \/ events' # events]
  /\ UNCHANGED <<row, stamp, tasks, nodes, job, cache, reader, config, update, acked>>

(* The row, then GetSession, which only logs when it fails. *)
Insert(n) ==
  /\ At(n, "insert")
  /\ \/ PutFails(n)
     \/ /\ stamp' = stamp + 1 /\ row' = stamp + 1
        /\ call' = [call EXCEPT ![n].at = "session", ![n].mine = stamp + 1]
        /\ job' = NewJob(<<"call", n>>)
        /\ UNCHANGED <<secrets, tasks, nodes, cache, reader, config, update, acked, events>>

GetSession(n) ==
  /\ At(n, "session") /\ JobEnded(<<"call", n>>)
  /\ job' = [job EXCEPT ![<<"call", n>>] = NoJob]
  /\ Goto(n, IF call[n].type = "update" THEN "invalidate" ELSE "notify")
  /\ UNCHANGED <<db, nodes, cache, reader, config, update, acked, events>>

InvalidateClient(n) ==
  /\ At(n, "invalidate")
  /\ Invalidate
  /\ Goto(n, IF call[n].op = "delete" THEN "remove" ELSE "notify")
  /\ UNCHANGED <<db, nodes, job, reader, config, update, acked, events>>

(* An update returns at once, a new cluster waits for its configuration and gets its tasks. *)
onClusterChange(n) ==
  /\ At(n, "notify")
  /\ update' = [update EXCEPT ![n].at = "get"]
  /\ \/ call[n].type = "update" /\ Ends(n, "ok") /\ acked' = Max({acked, call[n].mine})
     \/ /\ call[n].type = "create"
        /\ call' = [call EXCEPT ![n].at = "tasks", ![n].todo = Range(AutoTasks)]
        /\ UNCHANGED acked
  /\ UNCHANGED <<db, nodes, job, cache, reader, config, events>>

PutTasks(n) ==
  /\ At(n, "tasks") /\ update[n].at = "idle"
  /\ \/ call[n].todo # {} /\ PutFails(n)
     \/ \E t \in FirstOf(AutoTasks, call[n].todo) :
          /\ tasks' = tasks \cup {t}
          /\ call' = [call EXCEPT ![n].todo = @ \ {t}]
          /\ UNCHANGED <<row, stamp, secrets, nodes, job, cache, reader, config, update, acked, events>>
     \/ /\ call[n].todo = {}
        /\ Ends(n, "ok")
        /\ UNCHANGED <<db, nodes, job, cache, reader, config, update, acked, events>>

(* The cluster was loaded for the handler. *)
DeleteCluster(n) == row # None /\ Start(n, [NoCall EXCEPT !.op = "delete", !.at = "row"])

DeleteRow(n) ==
  /\ At(n, "row")
  /\ \/ Fault /\ Ends(n, "failed") /\ UNCHANGED <<row, stamp>>
     \/ /\ stamp' = stamp + 1 /\ row' = None
        /\ call' = [call EXCEPT ![n].at = "secrets", ![n].mine = stamp + 1]
        /\ UNCHANGED events
  /\ UNCHANGED <<secrets, tasks, nodes, job, cache, reader, config, update, acked>>

(* A plausible bug: a failure is only logged. *)
DeleteAllLogs(n) ==
  /\ At(n, "secrets")
  /\ \/ Fault /\ UNCHANGED secrets
     \/ secrets' = [k \in Kinds |-> NoSecret] /\ UNCHANGED events
  /\ Goto(n, "invalidate")
  /\ UNCHANGED <<row, stamp, tasks, nodes, job, cache, reader, config, update, acked>>

(* A failure ends the call, before the cached client and the listener. *)
DeleteAll(n) ==
  /\ At(n, "secrets")
  /\ \/ Fault /\ Ends(n, "failed") /\ UNCHANGED secrets
     \/ /\ secrets' = [k \in Kinds |-> NoSecret]
        /\ Goto(n, "invalidate")
        /\ UNCHANGED events
  /\ UNCHANGED <<row, stamp, tasks, nodes, job, cache, reader, config, update, acked>>

RemoveCluster(n) ==
  /\ At(n, "remove")
  /\ config' = None
  /\ Goto(n, "list")
  /\ UNCHANGED <<db, nodes, job, cache, reader, update, acked, events>>

ListTasks(n) ==
  /\ At(n, "list")
  /\ \/ Fault /\ Ends(n, "failed")
     \/ /\ call' = [call EXCEPT ![n].at = "clean", ![n].todo = tasks]
        /\ UNCHANGED events
  /\ UNCHANGED <<db, nodes, job, cache, reader, config, update, acked>>

(* One by one; a task that cannot be deleted is left, the others go. *)
DeleteTasks(n) ==
  /\ At(n, "clean")
  /\ \/ \E t \in call[n].todo :
          /\ \/ tasks' = tasks \ {t} /\ UNCHANGED events
             \/ Fault /\ UNCHANGED tasks
          /\ call' = [call EXCEPT ![n].todo = @ \ {t}, ![n].err = @ \/ events' # events]
          /\ UNCHANGED acked
     \/ /\ call[n].todo = {}
        /\ Ends(n, IF call[n].err THEN "failed" ELSE "ok")
        /\ acked' = IF call[n].err THEN acked ELSE Max({acked, call[n].mine})
        /\ UNCHANGED <<tasks, events>>
  /\ UNCHANGED <<row, stamp, secrets, nodes, job, cache, reader, config, update>>

(* DeleteCQLCredentials, DeleteAlternatorCredentials and DeleteSSLUserCert, those that the call asks *)
(* for, the certificate last.                                                                         *)
DeleteSecrets(n, S) ==
  /\ row # None
  /\ Start(n, [NoCall EXCEPT !.op = "forget", !.at = "forget", !.todo = S])

NextForgotten(n) == IF call[n].todo = {"tls"} THEN {"tls"} ELSE FirstOf(KindOrder, call[n].todo \ {"tls"})

Forgotten(n, k) ==
  IF call[n].todo = {k} THEN Ends(n, "ok") ELSE call' = [call EXCEPT ![n].todo = @ \ {k}]

(* A plausible bug: an empty value is put instead of a delete. *)
ForgetValue(n) ==
  /\ At(n, "forget")
  /\ \E k \in NextForgotten(n) : secrets' = [secrets EXCEPT ![k] = None] /\ Forgotten(n, k)
  /\ UNCHANGED <<row, stamp, tasks, nodes, job, cache, reader, config, update, acked, events>>

Forget(n) ==
  /\ At(n, "forget")
  /\ \/ Fault /\ Ends(n, "failed") /\ UNCHANGED secrets
     \/ \E k \in NextForgotten(n) : secrets' = [secrets EXCEPT ![k] = NoSecret] /\ Forgotten(n, k) /\ UNCHANGED events
  /\ UNCHANGED <<row, stamp, tasks, nodes, job, cache, reader, config, update, acked>>

NewCall(n) ==
  \/ \E given \in Given : (given # {} => Has("secrets")) /\ PutCluster(n, given)
  \/ DeleteCluster(n)
  \/ Has("secrets") /\ \E S \in SUBSET Kinds \ {{}} : DeleteSecrets(n, S)

Step(n) ==
  \/ Check(n) \/ GetSecret(n) \/ PutSecret(n) \/ Insert(n) \/ Rollback(n) \/ GetSession(n)
  \/ InvalidateClient(n) \/ onClusterChange(n) \/ PutTasks(n)
  \/ DeleteRow(n) \/ DeleteAll(n) \/ RemoveCluster(n) \/ ListTasks(n) \/ DeleteTasks(n)
  \/ Forget(n)

-----------------------------------------------------------------------------
(* A node joins or leaves. *)
NodesChange ==
  /\ Has("updates") /\ Fault
  /\ ring' \in Rings \ {ring}
  /\ UNCHANGED <<db, scene, call, job, cache, reader, config, update, acked>>

(* The server is restarted: the database is all that is left. *)
Crash ==
  /\ Fault
  /\ call' = [n \in Calls |-> IF Going(n) THEN [NoCall EXCEPT !.at = "lost"] ELSE call[n]]
  /\ reader' = [r \in Readers |-> IF Reading(r) THEN NoReader ELSE reader[r]]
  /\ job' = [p \in Callers |-> NoJob]
  /\ client' = [o \in Objects |-> None]
  /\ mutex' = [o \in Objects |-> None]
  /\ config' = None
  /\ update' = [x \in Updates |-> NoUpdate]
  /\ UNCHANGED <<db, nodes, object, acked>>

Next ==
  \/ \E n \in Calls : NewCall(n) \/ Step(n)
  \/ \E p \in Callers : CreateClientNoCache(p)
  \/ \E r \in Readers : Client(r)
  \/ \E x \in Updates : Update(x)
  \/ ForceUpdateHosts \/ updateAll \/ NodesChange \/ Crash

(* What the server began goes on, and the ticker ticks; nobody has to call it. *)
Fairness ==
  /\ \A n \in Calls : WF_vars(Step(n))
  /\ \A p \in Callers : WF_vars(CreateClientNoCache(p))
  /\ \A r \in Readers : WF_vars(Client(r))
  /\ \A x \in Updates : WF_vars(Update(x))
  /\ WF_vars(updateAll)

Spec == Init /\ [][Next]_vars /\ Fairness

-----------------------------------------------------------------------------
TypeOK ==
  /\ row \in {None} \cup 0 .. stamp
  /\ stamp \in 0 .. MaxCalls + 1 /\ acked \in 0 .. stamp
  /\ secrets \in [Kinds -> 0 .. OldSecret]
  /\ tasks \subseteq Range(AutoTasks)
  /\ ring \in Rings
  /\ \A n \in Calls :
       /\ call[n].at \in {"new", "check", "secret", "put", "rollback", "insert", "session", "invalidate", "notify",
                          "tasks", "row", "secrets", "remove", "list", "clean", "forget", "ok", "failed", "lost"}
       /\ call[n].mine \in 0 .. stamp
  /\ \A p \in Callers :
       /\ job[p].at \in {"idle", "row", "discover", "done", "failed"}
       /\ job[p].asOf \in 0 .. stamp /\ job[p].hosts \subseteq Hosts
  /\ object \in Objects
  /\ client \in [Objects -> {None} \cup 0 .. stamp]
  /\ mutex \in [Objects -> {None} \cup Readers]
  /\ \A r \in Readers : reader[r].at \in {"new", "lock", "check", "create", "done"}
  /\ config = None \/ DOMAIN config \subseteq Hosts
  /\ \A x \in Updates : update[x].at \in {"idle", "get", "client", "retrieve"}
  /\ events \in 0 .. MaxEvents

(* Who asks for a client after an update or delete of the cluster returned does not get one made   *)
(* from the row before it, though the row is read, and the hosts are discovered, while the cluster *)
(* changes: Client stores what it made in the object it took, which Invalidate leaves to it.       *)
ClientIsCurrent ==
  \A r \in Readers : reader[r].got # None => reader[r].got >= reader[r].need

(* A put of a cluster that failed before its row was written leaves the secrets as they were,      *)
(* whichever of its statements failed, unless another call came in or the rollback failed itself.  *)
SecretsRolledBack ==
  [][\A n \in Calls :
       (call[n].op = "put" /\ Going(n) /\ call'[n].at = "failed" /\ call[n].alone /\ call[n].mine = 0 /\ ~call[n].err)
         => secrets' = call[n].before]_vars

(* "DeleteCluster removes cluster and it's secrets": a delete that returned and met no other call leaves *)
(* no secret and no task, whatever failed or was lost before it, and no row but one of known hosts that  *)
(* a client in the making wrote.                                                                         *)
DeletedIsGone ==
  [][\A n \in Calls :
       (call[n].op = "delete" /\ Going(n) /\ call'[n].at = "ok" /\ call[n].alone)
         => /\ secrets' = [k \in Kinds |-> NoSecret]
            /\ tasks' = {}
            /\ row' \in {None, Bare}]_vars

Current ==
  LET S == IF RequireAuth /\ secrets["tls"] = NoSecret THEN {} ELSE ring
  IN config = [h \in S |-> [row |-> row, tls |-> secrets["tls"]]]

(* When calls, failures and changes of the nodes end, the cached configuration becomes and stays   *)
(* that of the row, the secrets and the nodes of the cluster, though updates of the ticker, of     *)
(* calls and of backups overwrite each other in any order.                                         *)
ConfigCatchesUp == <>[](Has("updates") /\ row \notin {None, Bare} => Current)
=============================================================================
