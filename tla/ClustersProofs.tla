--------------------------- MODULE ClustersProofs ---------------------------
(***************************************************************************)
(* The types and the safety of Clusters, for any number of callers of      *)
(* Client, of calls that change the cluster, of updates of its             *)
(* configuration, of kinds of secrets and tasks, and of failures and       *)
(* crashes: who asks for a client of a cluster after it changed gets a     *)
(* current one, the secrets of a put that failed are rolled back, and a    *)
(* deleted cluster is gone.                                                *)
(***************************************************************************)
EXTENDS Clusters, FiniteSetTheorems, TLAPS

JobState == [at : {"idle", "row", "discover", "done", "failed"}, asOf : Nat, bare : BOOLEAN, hosts : SUBSET Hosts]
ReaderState == [at : {"new", "lock", "check", "create", "done"}, object : Objects, need : Nat, got : Nat \cup {None}]
CallFields(v) ==
  v \in [at : {v.at}, op : {v.op}, type : {v.type}, todo : {v.todo}, undo : {v.undo}, err : {v.err},
         mine : {v.mine}, alone : {v.alone}, before : {v.before}]

ClientType ==
  /\ row \in Nat \cup {None} /\ stamp \in Nat /\ acked \in Nat
  /\ ring \in SUBSET Hosts /\ scene \in Scenes
  /\ call = [n \in Calls |-> call[n]]
  /\ \A n \in Calls : CallFields(call[n]) /\ call[n].mine \in Nat
  /\ job \in [Callers -> JobState]
  /\ object \in Objects /\ client \in [Objects -> Nat \cup {None}]
  /\ reader \in [Readers -> ReaderState]

(* Which write a call, a reader and a client know of is one that was made. *)
StampsInOrder ==
  /\ acked <= stamp
  /\ \A n \in Calls : call[n].mine <= stamp
  /\ \A r \in Readers : reader[r].need <= acked

(* Only who creates a client has a job, only who is done has a client. *)
JobsOfCreators ==
  \A r \in Readers : /\ reader[r].at # "create" => job[<<"reader", r>>].at = "idle"
                     /\ reader[r].at # "done" => reader[r].got = None

(* The client of an object, and those that are being made for it, are no older than k. *)
HasRead(r) == job[<<"reader", r>>].at \in {"discover", "done"}
Fresh(o, k) ==
  /\ client[o] # None => client[o] >= k
  /\ \A r \in Readers : Reading(r) /\ reader[r].object = o /\ HasRead(r) => job[<<"reader", r>>].asOf >= k

(* A call that drops the client of a cluster has done so. *)
PastInvalidate(n) == call[n].at \in {"remove", "list", "clean"} \/ (call[n].at = "notify" /\ call[n].type = "update")

FreshInv ==
  /\ Fresh(object, acked)
  /\ \A n \in Calls : PastInvalidate(n) => Fresh(object, call[n].mine)
  /\ \A r \in Readers : Reading(r) => Fresh(reader[r].object, reader[r].need)

ClientInv == ClientType /\ StampsInOrder /\ JobsOfCreators /\ FreshInv /\ ClientIsCurrent

-----------------------------------------------------------------------------
(* Objects do not run out. *)
Kept == {reader[r].object : r \in {q \in Readers : Reading(q)}}

LEMMA ObjectIsLeft ==
  ASSUME NEW f, \A r \in Readers : f[r] \in Objects, NEW S \in SUBSET {f[r] : r \in Readers}, NEW x
  PROVE  \E o \in Objects : o \notin S \cup {x}
<1> DEFINE T == {f[r] : r \in Readers}
           g == [r \in Readers |-> f[r]]
<1>1. IsFiniteSet(Readers) /\ Cardinality(Readers) = MaxReads /\ IsFiniteSet(Objects) /\ Cardinality(Objects) = MaxReads + 2
  <2>1. MaxReads \in Nat /\ 1 \in Int /\ 0 \in Int /\ MaxReads + 1 \in Int /\ MaxReads \in Int
    BY ClustersAssumption
  <2>2. IsFiniteSet(1 .. MaxReads) /\ Cardinality(1 .. MaxReads) = IF 1 > MaxReads THEN 0 ELSE MaxReads - 1 + 1
    BY <2>1, FS_Interval
  <2>3. IsFiniteSet(0 .. MaxReads + 1) /\ Cardinality(0 .. MaxReads + 1) = IF 0 > MaxReads + 1 THEN 0 ELSE MaxReads + 1 - 0 + 1
    BY <2>1, FS_Interval
  <2>4. QED  BY <2>1, <2>2, <2>3 DEF Readers, Objects
<1>2. g \in Surjection(Readers, T)
  BY DEF Surjection
<1>3. IsFiniteSet(T) /\ Cardinality(T) <= MaxReads /\ Cardinality(T) \in Nat
  <2>1. IsFiniteSet(T) /\ Cardinality(T) <= Cardinality(Readers)
    BY <1>1, <1>2, FS_Surjection
  <2>2. QED  BY <1>1, <2>1, FS_CardinalityType
<1>4. IsFiniteSet(T \cup {x}) /\ Cardinality(T \cup {x}) <= MaxReads + 1
  <2>1. IsFiniteSet(T \cup {x}) /\ Cardinality(T \cup {x}) = IF x \in T THEN Cardinality(T) ELSE Cardinality(T) + 1
    BY <1>3, FS_AddElement
  <2>2. QED  BY <1>3, <2>1, ClustersAssumption
<1>5. ASSUME Objects \subseteq T \cup {x} PROVE FALSE
  <2>1. Cardinality(Objects) <= Cardinality(T \cup {x})
    BY <1>4, <1>5, FS_Subset
  <2>2. Cardinality(T \cup {x}) \in Nat
    BY <1>4, FS_CardinalityType
  <2>3. QED  BY <1>1, <1>4, <2>1, <2>2, ClustersAssumption
<1>6. QED  BY <1>5

(* What Invalidate leaves: the object is nobody's and has no client, who has another one keeps it. *)
LEMMA InvalidateIs ==
  ASSUME ClientType, Invalidate
  PROVE  /\ object' \in Objects /\ client' \in [Objects -> Nat \cup {None}]
         /\ client'[object'] = None
         /\ \A r \in Readers : Reading(r) => reader[r].object # object' /\ client'[reader[r].object] = client[reader[r].object]
<1>1. \A r \in Readers : reader[r].object \in Objects
  BY DEF ClientType, ReaderState
<1>2. \E o \in Objects : o \notin Kept \cup {object}
  <2>1. \A r \in Readers : [q \in Readers |-> reader[q].object][r] \in Objects
    BY <1>1
  <2>2. Kept \in SUBSET {[q \in Readers |-> reader[q].object][r] : r \in Readers}
    BY DEF Kept
  <2>3. QED  BY <2>1, <2>2, ObjectIsLeft
<1>3. object' \in Objects /\ object' \notin Kept
  BY <1>2 DEF Invalidate, Kept
<1>4. client' = [o \in Objects |-> IF o \in Kept THEN client[o] ELSE None]
  BY DEF Invalidate, Kept
<1>5. \A r \in Readers : Reading(r) => reader[r].object \in Kept
  BY DEF Kept
<1>6. QED  BY <1>1, <1>3, <1>4, <1>5 DEF ClientType

-----------------------------------------------------------------------------
(* What the steps of a call do to what clients depend on. *)
CallsOk == call = [n \in Calls |-> call[n]] /\ \A n \in Calls : CallFields(call[n]) /\ call[n].mine \in Nat

CallEffect(n) ==
  /\ CallsOk'
  /\ stamp' \in {stamp, stamp + 1} /\ row' \in Nat \cup {None}
  /\ UNCHANGED <<ring, scene, reader>>
  /\ job' \in [Callers -> JobState] /\ \A r \in Readers : job'[<<"reader", r>>] = job[<<"reader", r>>]
  /\ \A m \in Calls : call'[m].mine \in {call[m].mine, 0, stamp'}
  /\ \/ Invalidate
     \/ /\ UNCHANGED <<object, client>>
        /\ \A m \in Calls : PastInvalidate(m)' => PastInvalidate(m) /\ call'[m].mine = call[m].mine
  /\ UNCHANGED acked \/ (PastInvalidate(n) /\ acked' = Max({acked, call[n].mine}))

(* A call that goes to at, with what else changes. *)
Moves(n, at, mine) ==
  /\ \A m \in Calls : m # n => call'[m] = call[m]
  /\ call'[n].at = at /\ call'[n].mine = mine /\ call'[n].type = call[n].type
  /\ CallsOk'

LEMMA RecordMoves ==
  ASSUME CallsOk, NEW n \in Calls, NEW v, CallFields(v), v.mine \in Nat, call' = [call EXCEPT ![n] = v]
  PROVE  CallsOk' /\ call'[n] = v /\ \A m \in Calls : m # n => call'[m] = call[m]
<1>1. DOMAIN call = Calls
  BY DEF CallsOk
<1>2. call'[n] = v /\ \A m \in Calls : m # n => call'[m] = call[m]
  BY <1>1
<1>3. call' = [m \in Calls |-> call'[m]]
  BY <1>1
<1>4. \A m \in Calls : CallFields(call[m])' /\ call'[m].mine \in Nat
  BY <1>2 DEF CallsOk, CallFields
<1>5. QED  BY <1>2, <1>3, <1>4 DEF CallsOk

LEMMA GotoMoves ==
  ASSUME CallsOk, NEW n \in Calls, NEW at, Goto(n, at) PROVE Moves(n, at, call[n].mine)
<1>0. PICK c : c = call[n]
  OBVIOUS
<1>1. PICK v : v = [c EXCEPT !.at = at]
  OBVIOUS
<1>2. CallFields(v) /\ v.at = at /\ v.mine = c.mine /\ v.type = c.type /\ v.mine \in Nat
  BY <1>0, <1>1 DEF CallsOk, CallFields
<1>3. call' = [call EXCEPT ![n] = v]
  BY <1>0, <1>1 DEF Goto, CallsOk
<1>4. QED  BY <1>0, <1>2, <1>3, RecordMoves DEF Moves

LEMMA TodoMoves ==
  ASSUME CallsOk, NEW n \in Calls, NEW todo, call' = [call EXCEPT ![n].todo = todo]
  PROVE  Moves(n, call[n].at, call[n].mine)
<1>0. PICK c : c = call[n]
  OBVIOUS
<1>1. PICK v : v = [c EXCEPT !.todo = todo]
  OBVIOUS
<1>2. CallFields(v) /\ v.at = c.at /\ v.mine = c.mine /\ v.type = c.type /\ v.mine \in Nat
  BY <1>0, <1>1 DEF CallsOk, CallFields
<1>3. call' = [call EXCEPT ![n] = v]
  BY <1>0, <1>1 DEF CallsOk
<1>4. QED  BY <1>0, <1>2, <1>3, RecordMoves DEF Moves

LEMMA NoCallMoves ==
  ASSUME NEW at PROVE LET v == [NoCall EXCEPT !.at = at] IN CallFields(v) /\ v.at = at /\ v.mine = 0
<1>1. PICK c : c = NoCall
  OBVIOUS
<1>2. CallFields(c) /\ c.mine = 0
  BY <1>1 DEF NoCall, CallFields
<1>3. PICK v : v = [c EXCEPT !.at = at]
  OBVIOUS
<1>4. CallFields(v) /\ v.at = at /\ v.mine = 0
  BY <1>2, <1>3 DEF CallFields
<1>5. QED  BY <1>1, <1>3, <1>4

LEMMA EndsMoves ==
  ASSUME CallsOk, NEW n \in Calls, NEW at, Ends(n, at)
  PROVE  /\ \A m \in Calls : m # n => call'[m] = call[m]
         /\ call'[n].at = at /\ call'[n].mine = 0 /\ CallsOk'
<1>1. PICK v : v = [NoCall EXCEPT !.at = at]
  OBVIOUS
<1>2. CallFields(v) /\ v.at = at /\ v.mine = 0 /\ v.mine \in Nat
  BY <1>1, NoCallMoves
<1>3. call' = [call EXCEPT ![n] = v]
  BY <1>1 DEF Ends
<1>4. QED  BY <1>2, <1>3, RecordMoves

LEMMA AtTodoMoves ==
  ASSUME CallsOk, NEW n \in Calls, NEW at, NEW todo, call' = [call EXCEPT ![n].at = at, ![n].todo = todo]
  PROVE  Moves(n, at, call[n].mine)
<1>0. PICK c : c = call[n]
  OBVIOUS
<1>1. PICK v : v = [c EXCEPT !.at = at, !.todo = todo]
  OBVIOUS
<1>2. CallFields(v) /\ v.at = at /\ v.mine = c.mine /\ v.type = c.type /\ v.mine \in Nat
  BY <1>0, <1>1 DEF CallsOk, CallFields
<1>3. call' = [call EXCEPT ![n] = v]
  BY <1>0, <1>1 DEF CallsOk
<1>4. QED  BY <1>0, <1>2, <1>3, RecordMoves DEF Moves

LEMMA AtUndoMoves ==
  ASSUME CallsOk, NEW n \in Calls, NEW at, NEW undo, call' = [call EXCEPT ![n].at = at, ![n].undo = undo]
  PROVE  Moves(n, at, call[n].mine)
<1>0. PICK c : c = call[n]
  OBVIOUS
<1>1. PICK v : v = [c EXCEPT !.at = at, !.undo = undo]
  OBVIOUS
<1>2. CallFields(v) /\ v.at = at /\ v.mine = c.mine /\ v.type = c.type /\ v.mine \in Nat
  BY <1>0, <1>1 DEF CallsOk, CallFields
<1>3. call' = [call EXCEPT ![n] = v]
  BY <1>0, <1>1 DEF CallsOk
<1>4. QED  BY <1>0, <1>2, <1>3, RecordMoves DEF Moves

LEMMA UndoErrMoves ==
  ASSUME CallsOk, NEW n \in Calls, NEW undo, NEW err, call' = [call EXCEPT ![n].undo = undo, ![n].err = err]
  PROVE  Moves(n, call[n].at, call[n].mine)
<1>0. PICK c : c = call[n]
  OBVIOUS
<1>1. PICK v : v = [c EXCEPT !.undo = undo, !.err = err]
  OBVIOUS
<1>2. CallFields(v) /\ v.at = c.at /\ v.mine = c.mine /\ v.type = c.type /\ v.mine \in Nat
  BY <1>0, <1>1 DEF CallsOk, CallFields
<1>3. call' = [call EXCEPT ![n] = v]
  BY <1>0, <1>1 DEF CallsOk
<1>4. QED  BY <1>0, <1>2, <1>3, RecordMoves DEF Moves

LEMMA TodoErrMoves ==
  ASSUME CallsOk, NEW n \in Calls, NEW todo, NEW err, call' = [call EXCEPT ![n].todo = todo, ![n].err = err]
  PROVE  Moves(n, call[n].at, call[n].mine)
<1>0. PICK c : c = call[n]
  OBVIOUS
<1>1. PICK v : v = [c EXCEPT !.todo = todo, !.err = err]
  OBVIOUS
<1>2. CallFields(v) /\ v.at = c.at /\ v.mine = c.mine /\ v.type = c.type /\ v.mine \in Nat
  BY <1>0, <1>1 DEF CallsOk, CallFields
<1>3. call' = [call EXCEPT ![n] = v]
  BY <1>0, <1>1 DEF CallsOk
<1>4. QED  BY <1>0, <1>2, <1>3, RecordMoves DEF Moves

LEMMA AtMineMoves ==
  ASSUME CallsOk, NEW n \in Calls, NEW at, NEW mine \in Nat, call' = [call EXCEPT ![n].at = at, ![n].mine = mine]
  PROVE  Moves(n, at, mine)
<1>0. PICK c : c = call[n]
  OBVIOUS
<1>1. PICK v : v = [c EXCEPT !.at = at, !.mine = mine]
  OBVIOUS
<1>2. CallFields(v) /\ v.at = at /\ v.mine = mine /\ v.type = c.type /\ v.mine \in Nat
  BY <1>0, <1>1 DEF CallsOk, CallFields
<1>3. call' = [call EXCEPT ![n] = v]
  BY <1>0, <1>1 DEF CallsOk
<1>4. QED  BY <1>0, <1>2, <1>3, RecordMoves DEF Moves

LEMMA CallerNames ==
  /\ \A n \in Calls : <<"call", n>> \in Callers
  /\ \A r \in Readers : <<"reader", r>> \in Callers
  /\ \A x \in Updates : <<"update", x>> \in Callers
  /\ \A r \in Readers : \A n : <<"reader", r>> # <<"call", n>> /\ <<"reader", r>> # <<"update", n>>
  /\ \A r, q \in Readers : <<"reader", r>> = <<"reader", q>> => r = q
BY DEF Callers

LEMMA JobSet ==
  ASSUME job \in [Callers -> JobState], NEW p \in Callers, job' = NewJob(p) \/ job' = [job EXCEPT ![p] = NoJob]
  PROVE  /\ job' \in [Callers -> JobState] /\ \A q \in Callers : q # p => job'[q] = job[q]
         /\ job'[p].at = IF job' = NewJob(p) THEN "row" ELSE "idle"
         /\ job'[p].asOf = 0
<1>1. NoJob \in JobState /\ NoJob.at = "idle" /\ NoJob.asOf = 0
  BY DEF NoJob, JobState
<1>2. PICK v : v = [NoJob EXCEPT !.at = "row"]
  OBVIOUS
<1>3. v \in JobState /\ v.at = "row" /\ v.asOf = 0
  BY <1>2 DEF NoJob, JobState
<1>4. job' = [job EXCEPT ![p] = v] \/ job' = [job EXCEPT ![p] = NoJob]
  BY <1>2 DEF NewJob
<1>5. QED  BY <1>1, <1>2, <1>3, <1>4 DEF NewJob

(* Steps of a call that write no row and drop no client. *)
SamePlace == UNCHANGED <<row, stamp, ring, scene, reader, object, client, acked>>
SameReaderJobs == job' \in [Callers -> JobState] /\ \A r \in Readers : job'[<<"reader", r>>] = job[<<"reader", r>>]
Past == {"remove", "list", "clean"}

LEMMA QuietCall ==
  ASSUME ClientType, NEW n \in Calls, NEW at, Moves(n, at, call[n].mine), SamePlace, SameReaderJobs,
         at \notin Past \cup {"notify"} \/ (call[n].at \in Past /\ at \in Past) \/ at = call[n].at \/ (at = "notify" /\ call[n].type # "update")
  PROVE  CallEffect(n)
<1>1. \A m \in Calls : PastInvalidate(m)' => PastInvalidate(m)
  BY DEF Moves, PastInvalidate, Past
<1>2. \A m \in Calls : call'[m].mine = call[m].mine
  BY DEF Moves
<1>3. QED  BY <1>1, <1>2 DEF SamePlace, SameReaderJobs, CallEffect, Moves, ClientType

LEMMA EndedCall ==
  ASSUME ClientType, NEW n \in Calls, NEW at \in {"ok", "failed"}, Ends(n, at), SameReaderJobs,
         UNCHANGED <<row, stamp, ring, scene, reader, object, client>>,
         UNCHANGED acked \/ (PastInvalidate(n) /\ acked' = Max({acked, call[n].mine}))
  PROVE  CallEffect(n)
<1>1. /\ \A m \in Calls : m # n => call'[m] = call[m]
      /\ call'[n].at = at /\ call'[n].mine = 0 /\ CallsOk'
  BY EndsMoves DEF ClientType, CallsOk
<1>2. \A m \in Calls : PastInvalidate(m)' => PastInvalidate(m) /\ call'[m].mine = call[m].mine
  BY <1>1 DEF PastInvalidate
<1>3. \A m \in Calls : call'[m].mine \in {call[m].mine, 0}
  BY <1>1
<1>4. QED  BY <1>1, <1>2, <1>3 DEF SameReaderJobs, CallEffect, ClientType

LEMMA SameJobs == ASSUME ClientType, UNCHANGED job PROVE SameReaderJobs
BY DEF ClientType, SameReaderJobs

LEMMA CallJob ==
  ASSUME ClientType, NEW n \in Calls, job' = NewJob(<<"call", n>>) \/ job' = [job EXCEPT ![<<"call", n>>] = NoJob]
  PROVE  SameReaderJobs
<1>1. PICK p \in Callers : p = <<"call", n>>
  BY CallerNames
<1>2. job' \in [Callers -> JobState] /\ \A q \in Callers : q # p => job'[q] = job[q]
  BY <1>1, JobSet DEF ClientType
<1>3. QED  BY <1>1, <1>2, CallerNames DEF SameReaderJobs

LEMMA StepEffect ==
  ASSUME ClientType, NEW n \in Calls, Step(n) PROVE CallEffect(n)
<1>0. CallsOk
  BY DEF ClientType, CallsOk
<1>1. ASSUME PutFails(n) PROVE CallEffect(n)
  <2>1. Goto(n, "rollback") /\ SamePlace /\ UNCHANGED job
    BY <1>1 DEF PutFails, SamePlace, db, nodes, cache
  <2>2. QED  BY <1>0, <2>1, GotoMoves, QuietCall, SameJobs DEF Past
<1>2. CASE Check(n)
  <2>1. SamePlace /\ UNCHANGED job
    BY <1>2 DEF Check, SamePlace, db, nodes, cache
  <2>2. CASE Ends(n, "failed")
    BY <2>1, <2>2, EndedCall, SameJobs DEF SamePlace
  <2>3. CASE Goto(n, "insert") \/ Goto(n, "secret")
    BY <1>0, <2>1, <2>3, GotoMoves, QuietCall, SameJobs DEF Past
  <2>4. QED  BY <1>2, <2>2, <2>3 DEF Check
<1>3. CASE GetSecret(n) /\ ~PutFails(n)
  <2>1. SamePlace /\ UNCHANGED job /\ \E undo : call' = [call EXCEPT ![n].at = "put", ![n].undo = undo]
    BY <1>3 DEF GetSecret, SamePlace, db, nodes, cache
  <2>2. Moves(n, "put", call[n].mine)
    BY <1>0, <2>1, AtUndoMoves
  <2>3. QED  BY <2>1, <2>2, QuietCall, SameJobs DEF Past
<1>4. CASE PutSecret(n)
  <2>1. SamePlace /\ UNCHANGED job
    BY <1>4 DEF PutSecret, SamePlace, nodes, cache
  <2>2. CASE \E undo : call' = [call EXCEPT ![n].at = "rollback", ![n].undo = undo]
    <3>1. Moves(n, "rollback", call[n].mine)
      BY <1>0, <2>2, AtUndoMoves
    <3>2. QED  BY <2>1, <3>1, QuietCall, SameJobs DEF Past
  <2>3. CASE \E at \in {"insert", "secret"} : \E todo : call' = [call EXCEPT ![n].at = at, ![n].todo = todo]
    BY <1>0, <2>1, <2>3, AtTodoMoves, QuietCall, SameJobs DEF Past
  <2>4. QED  BY <1>4, <2>2, <2>3 DEF PutSecret
<1>5. CASE Insert(n) /\ ~PutFails(n)
  <2>1. /\ stamp' = stamp + 1 /\ row' = stamp + 1 /\ job' = NewJob(<<"call", n>>)
        /\ call' = [call EXCEPT ![n].at = "session", ![n].mine = stamp + 1]
        /\ UNCHANGED <<ring, scene, reader, object, client, acked>>
    BY <1>5 DEF Insert, nodes, cache
  <2>2. Moves(n, "session", stamp') /\ row' \in Nat
    <3>1. PICK k \in Nat : k = stamp + 1
      BY DEF ClientType
    <3>2. QED  BY <1>0, <2>1, <3>1, AtMineMoves
  <2>3. SameReaderJobs
    BY <2>1, CallJob
  <2>4. \A m \in Calls : PastInvalidate(m)' => PastInvalidate(m) /\ call'[m].mine = call[m].mine
    BY <2>2 DEF Moves, PastInvalidate
  <2>5. QED  BY <2>1, <2>2, <2>3, <2>4 DEF CallEffect, Moves, SameReaderJobs
<1>6. CASE Rollback(n)
  <2>1. SamePlace /\ UNCHANGED job
    BY <1>6 DEF Rollback, SamePlace, nodes, cache
  <2>2. CASE Ends(n, "failed")
    BY <2>1, <2>2, EndedCall, SameJobs DEF SamePlace
  <2>3. CASE \E undo, err : call' = [call EXCEPT ![n].undo = undo, ![n].err = err]
    BY <1>0, <2>1, <2>3, UndoErrMoves, QuietCall, SameJobs
  <2>4. QED  BY <1>6, <2>2, <2>3 DEF Rollback
<1>7. CASE GetSession(n)
  <2>1. SamePlace /\ job' = [job EXCEPT ![<<"call", n>>] = NoJob] /\ Goto(n, IF call[n].type = "update" THEN "invalidate" ELSE "notify")
    BY <1>7 DEF GetSession, SamePlace, db, nodes, cache
  <2>2. SameReaderJobs
    BY <2>1, CallJob
  <2>3. QED  BY <1>0, <2>1, <2>2, GotoMoves, QuietCall DEF Past
<1>8. CASE InvalidateClient(n)
  <2>1. UNCHANGED <<row, stamp, ring, scene, reader, job, acked>> /\ Invalidate /\ \E at : Goto(n, at)
    BY <1>8 DEF InvalidateClient, db, nodes
  <2>2. CallsOk' /\ \A m \in Calls : call'[m].mine = call[m].mine
    BY <1>0, <2>1, GotoMoves DEF Moves
  <2>3. QED  BY <2>1, <2>2, SameJobs DEF CallEffect, ClientType, SameReaderJobs
<1>9. CASE onClusterChange(n)
  <2>1. UNCHANGED <<row, stamp, ring, scene, reader, object, client, job>> /\ call[n].at = "notify"
    BY <1>9 DEF onClusterChange, db, nodes, cache, At
  <2>2. CASE call[n].type = "update" /\ Ends(n, "ok") /\ acked' = Max({acked, call[n].mine})
    BY <2>1, <2>2, EndedCall, SameJobs DEF PastInvalidate
  <2>3. CASE UNCHANGED acked /\ \E todo : call' = [call EXCEPT ![n].at = "tasks", ![n].todo = todo]
    BY <1>0, <2>1, <2>3, AtTodoMoves, QuietCall, SameJobs DEF SamePlace, Past
  <2>4. QED  BY <1>9, <2>2, <2>3 DEF onClusterChange
<1>10. CASE PutTasks(n) /\ ~PutFails(n)
  <2>1. SamePlace /\ UNCHANGED job
    BY <1>10 DEF PutTasks, SamePlace, db, nodes, cache
  <2>2. CASE Ends(n, "ok")
    BY <2>1, <2>2, EndedCall, SameJobs DEF SamePlace
  <2>3. CASE \E todo : call' = [call EXCEPT ![n].todo = todo]
    BY <1>0, <2>1, <2>3, TodoMoves, QuietCall, SameJobs
  <2>4. QED  BY <1>10, <2>2, <2>3 DEF PutTasks
<1>11. CASE DeleteRow(n)
  <2>1. UNCHANGED <<ring, scene, reader, object, client, acked, job>>
    BY <1>11 DEF DeleteRow, nodes, cache
  <2>2. CASE Ends(n, "failed") /\ UNCHANGED <<row, stamp>>
    BY <2>1, <2>2, EndedCall, SameJobs
  <2>3. CASE stamp' = stamp + 1 /\ row' = None /\ call' = [call EXCEPT ![n].at = "secrets", ![n].mine = stamp + 1]
    <3>1. PICK k \in Nat : k = stamp + 1
      BY DEF ClientType
    <3>2. Moves(n, "secrets", stamp')
      BY <1>0, <2>3, <3>1, AtMineMoves
    <3>3. \A m \in Calls : PastInvalidate(m)' => PastInvalidate(m) /\ call'[m].mine = call[m].mine
      BY <3>2 DEF Moves, PastInvalidate
    <3>4. QED  BY <2>1, <2>3, <3>2, <3>3, SameJobs DEF CallEffect, Moves, SameReaderJobs
  <2>4. QED  BY <1>11, <2>2, <2>3 DEF DeleteRow
<1>12. CASE DeleteAll(n)
  <2>1. SamePlace /\ UNCHANGED job
    BY <1>12 DEF DeleteAll, SamePlace, nodes, cache
  <2>2. CASE Ends(n, "failed")
    BY <2>1, <2>2, EndedCall, SameJobs DEF SamePlace
  <2>3. CASE Goto(n, "invalidate")
    BY <1>0, <2>1, <2>3, GotoMoves, QuietCall, SameJobs DEF Past
  <2>4. QED  BY <1>12, <2>2, <2>3 DEF DeleteAll
<1>13. CASE RemoveCluster(n)
  <2>1. SamePlace /\ UNCHANGED job /\ Goto(n, "list") /\ call[n].at = "remove"
    BY <1>13 DEF RemoveCluster, SamePlace, db, nodes, cache, At
  <2>2. QED  BY <1>0, <2>1, GotoMoves, QuietCall, SameJobs DEF Past
<1>14. CASE ListTasks(n)
  <2>1. SamePlace /\ UNCHANGED job /\ call[n].at = "list"
    BY <1>14 DEF ListTasks, SamePlace, db, nodes, cache, At
  <2>2. CASE Ends(n, "failed")
    BY <2>1, <2>2, EndedCall, SameJobs DEF SamePlace
  <2>3. CASE \E todo : call' = [call EXCEPT ![n].at = "clean", ![n].todo = todo]
    BY <1>0, <2>1, <2>3, AtTodoMoves, QuietCall, SameJobs DEF Past
  <2>4. QED  BY <1>14, <2>2, <2>3 DEF ListTasks
<1>15. CASE DeleteTasks(n)
  <2>1. UNCHANGED <<row, stamp, ring, scene, reader, object, client, job>> /\ call[n].at = "clean"
    BY <1>15 DEF DeleteTasks, nodes, cache, At
  <2>2. CASE UNCHANGED acked /\ \E todo, err : call' = [call EXCEPT ![n].todo = todo, ![n].err = err]
    BY <1>0, <2>1, <2>2, TodoErrMoves, QuietCall, SameJobs DEF SamePlace
  <2>3. CASE \E at \in {"failed", "ok"} : Ends(n, at) /\ (acked' = acked \/ acked' = Max({acked, call[n].mine}))
    BY <2>1, <2>3, EndedCall, SameJobs DEF PastInvalidate
  <2>4. QED  BY <1>15, <2>2, <2>3 DEF DeleteTasks
<1>16. CASE Forget(n)
  <2>1. SamePlace /\ UNCHANGED job
    BY <1>16 DEF Forget, SamePlace, nodes, cache
  <2>2. CASE Ends(n, "failed") \/ Ends(n, "ok")
    BY <2>1, <2>2, EndedCall, SameJobs DEF SamePlace
  <2>3. CASE \E todo : call' = [call EXCEPT ![n].todo = todo]
    BY <1>0, <2>1, <2>3, TodoMoves, QuietCall, SameJobs
  <2>4. QED  BY <1>16, <2>2, <2>3 DEF Forget, Forgotten
<1>17. QED
  BY <1>1, <1>2, <1>3, <1>4, <1>5, <1>6, <1>7, <1>8, <1>9, <1>10, <1>11, <1>12, <1>13, <1>14, <1>15, <1>16 DEF Step

LEMMA StartEffect ==
  ASSUME ClientType, NEW n \in Calls, NEW c, CallFields(c), c.mine = 0, c.at \notin Past \cup {"notify"}, Start(n, c)
  PROVE  CallEffect(n)
<1>1. UNCHANGED <<row, stamp, ring, scene, reader, object, client, acked, job>>
  BY DEF Start, db, nodes, cache
<1>2. PICK a : a = \A l \in Calls : ~Going(l)
  OBVIOUS
<1>3. PICK v : v = [c EXCEPT !.alone = a, !.before = secrets]
  OBVIOUS
<1>4. CallFields(v) /\ v.at = c.at /\ v.mine = 0
  BY <1>3 DEF CallFields
<1>5. call'[n] = v /\ call' = [m \in Calls |-> call'[m]]
  BY <1>2, <1>3 DEF Start
<1>6. ASSUME NEW m \in Calls, m # n
      PROVE  CallFields(call[m])' /\ call'[m].at = call[m].at /\ call'[m].mine = call[m].mine /\ call'[m].type = call[m].type
  <2>1. PICK d : d = call[m]
    OBVIOUS
  <2>2. CallFields(d)
    BY <2>1 DEF ClientType
  <2>3. PICK w : w = [d EXCEPT !.alone = FALSE]
    OBVIOUS
  <2>4. CallFields(w) /\ w.at = d.at /\ w.mine = d.mine /\ w.type = d.type
    BY <2>2, <2>3 DEF CallFields
  <2>5. call'[m] = w \/ call'[m] = d
    BY <1>6, <2>1, <2>3 DEF Start
  <2>6. QED  BY <2>1, <2>2, <2>4, <2>5 DEF CallFields
<1>7. \A m \in Calls : CallFields(call[m])' /\ call'[m].mine \in Nat
  BY <1>4, <1>5, <1>6 DEF ClientType, CallFields
<1>8. \A m \in Calls : PastInvalidate(m)' => PastInvalidate(m) /\ call'[m].mine = call[m].mine
  BY <1>4, <1>5, <1>6 DEF PastInvalidate, Past
<1>9. \A m \in Calls : call'[m].mine \in {call[m].mine, 0, stamp'}
  BY <1>4, <1>5, <1>6
<1>10. CallsOk'
  BY <1>5, <1>7 DEF CallsOk
<1>11. QED  BY <1>1, <1>8, <1>9, <1>10 DEF CallEffect, ClientType

LEMMA NewCallEffect ==
  ASSUME ClientType, NEW n \in Calls, NewCall(n) PROVE CallEffect(n)
<1>0. PICK c : c = NoCall
  OBVIOUS
<1>1. CallFields(c) /\ c.mine = 0
  BY <1>0 DEF NoCall, CallFields
<1>2. ASSUME NEW given, PutCluster(n, given) PROVE CallEffect(n)
  <2>1. PICK type, todo : Start(n, [c EXCEPT !.at = "check", !.type = type, !.todo = todo])
    BY <1>0, <1>2 DEF PutCluster
  <2>2. PICK v : v = [c EXCEPT !.at = "check", !.type = type, !.todo = todo]
    OBVIOUS
  <2>3. CallFields(v) /\ v.mine = 0 /\ v.at = "check"
    BY <1>1, <2>2 DEF CallFields
  <2>4. QED  BY <2>1, <2>2, <2>3, StartEffect DEF Past
<1>3. CASE DeleteCluster(n)
  <2>1. PICK v : v = [c EXCEPT !.op = "delete", !.at = "row"]
    OBVIOUS
  <2>2. CallFields(v) /\ v.mine = 0 /\ v.at = "row"
    BY <1>1, <2>1 DEF CallFields
  <2>3. Start(n, v)
    BY <1>0, <1>3, <2>1 DEF DeleteCluster
  <2>4. QED  BY <2>2, <2>3, StartEffect DEF Past
<1>4. ASSUME NEW S, DeleteSecrets(n, S) PROVE CallEffect(n)
  <2>1. PICK todo : Start(n, [c EXCEPT !.op = "forget", !.at = "forget", !.todo = todo])
    BY <1>0, <1>4 DEF DeleteSecrets
  <2>2. PICK v : v = [c EXCEPT !.op = "forget", !.at = "forget", !.todo = todo]
    OBVIOUS
  <2>3. CallFields(v) /\ v.mine = 0 /\ v.at = "forget"
    BY <1>1, <2>2 DEF CallFields
  <2>4. QED  BY <2>1, <2>2, <2>3, StartEffect DEF Past
<1>5. QED  BY <1>2, <1>3, <1>4 DEF NewCall

-----------------------------------------------------------------------------
(* The invariant. *)
LEMMA MaxIs ==
  ASSUME NEW a \in Nat, NEW b \in Nat PROVE Max({a, b}) \in {a, b} /\ Max({a, b}) >= a /\ Max({a, b}) >= b
<1>1. \E x \in {a, b} : \A y \in {a, b} : x >= y
  OBVIOUS
<1>2. QED  BY <1>1 DEF Max

LEMMA ReaderRecord ==
  ASSUME ClientType, NEW r \in Readers
  PROVE  /\ reader[r].at \in {"new", "lock", "check", "create", "done"} /\ reader[r].object \in Objects
         /\ reader[r].need \in Nat /\ reader[r].got \in Nat \cup {None}
         /\ <<"reader", r>> \in Callers /\ job[<<"reader", r>>] \in JobState
         /\ job[<<"reader", r>>].asOf \in Nat
         /\ client[reader[r].object] \in Nat \cup {None}
BY CallerNames DEF ClientType, ReaderState, JobState

LEMMA CallKeepsInv ==
  ASSUME ClientInv, NEW n \in Calls, CallEffect(n) PROVE ClientInv'
<1> USE DEF ClientInv
<1>0. stamp \in Nat /\ acked \in Nat /\ \A m \in Calls : call[m].mine \in Nat /\ call[m].mine <= stamp
  BY DEF ClientType, StampsInOrder
<1>1. acked' \in Nat /\ acked' >= acked /\ acked' <= stamp' /\ stamp' \in Nat /\ stamp' >= stamp
  <2>1. stamp' \in Nat /\ stamp' >= stamp /\ acked <= stamp'
    BY <1>0 DEF CallEffect, StampsInOrder
  <2>2. CASE UNCHANGED acked
    BY <1>0, <2>1, <2>2
  <2>3. CASE n \in Calls /\ acked' = Max({acked, call[n].mine})
    BY <1>0, <2>1, <2>3, MaxIs
  <2>4. QED  BY <2>1, <2>2, <2>3 DEF CallEffect
<1>2. object' \in Objects /\ client' \in [Objects -> Nat \cup {None}]
  BY InvalidateIs DEF CallEffect, ClientType
<1>3. ClientType'
  BY <1>1, <1>2 DEF CallEffect, ClientType, CallsOk
<1>4. StampsInOrder'
  <2>1. ASSUME NEW m \in Calls PROVE call'[m].mine <= stamp'
    BY <1>0, <1>1 DEF CallEffect
  <2>2. ASSUME NEW r \in Readers PROVE reader'[r].need <= acked'
    <3>1. reader'[r] = reader[r]
      BY DEF CallEffect
    <3>2. reader[r].need \in Nat /\ reader[r].need <= acked
      BY ReaderRecord DEF StampsInOrder
    <3>3. QED  BY <1>0, <1>1, <3>1, <3>2
  <2>3. QED  BY <1>1, <2>1, <2>2 DEF StampsInOrder
<1>5. JobsOfCreators' /\ ClientIsCurrent'
  BY DEF CallEffect, JobsOfCreators, ClientIsCurrent
<1>6. \A r \in Readers : (Reading(r)' <=> Reading(r)) /\ (HasRead(r)' <=> HasRead(r)) /\ reader'[r] = reader[r]
                          /\ job'[<<"reader", r>>] = job[<<"reader", r>>]
  BY DEF CallEffect, Reading, HasRead
<1>7. FreshInv'
  <2>1. CASE /\ UNCHANGED <<object, client>>
             /\ \A m \in Calls : PastInvalidate(m)' => PastInvalidate(m) /\ call'[m].mine = call[m].mine
    <3>1. ASSUME NEW o, NEW k, Fresh(o, k) PROVE Fresh(o, k)'
      BY <1>6, <2>1, <3>1 DEF Fresh
    <3>2. Fresh(object, acked)'
      <4>1. Fresh(object, acked)
        BY DEF FreshInv
      <4>2. CASE UNCHANGED acked
        BY <1>6, <2>1, <4>1, <4>2 DEF Fresh
      <4>3. CASE n \in Calls /\ PastInvalidate(n) /\ acked' = Max({acked, call[n].mine})
        <5>1. Fresh(object, call[n].mine)
          BY <4>3 DEF FreshInv
        <5>2. acked' \in {acked, call[n].mine}
          BY <1>0, <4>3, MaxIs
        <5>3. QED  BY <1>6, <2>1, <4>1, <5>1, <5>2 DEF Fresh
      <4>4. QED  BY <4>2, <4>3 DEF CallEffect
    <3>3. ASSUME NEW m \in Calls, PastInvalidate(m)' PROVE Fresh(object, call[m].mine)'
      <4>1. Fresh(object, call[m].mine) /\ call'[m].mine = call[m].mine
        BY <2>1, <3>3 DEF FreshInv
      <4>2. QED  BY <1>6, <2>1, <4>1 DEF Fresh
    <3>4. ASSUME NEW r \in Readers, Reading(r)' PROVE Fresh(reader[r].object, reader[r].need)'
      <4>1. Fresh(reader[r].object, reader[r].need) /\ reader'[r] = reader[r]
        BY <1>6, <3>4 DEF FreshInv
      <4>2. QED  BY <1>6, <2>1, <4>1 DEF Fresh
    <3>5. QED  BY <3>2, <3>3, <3>4 DEF FreshInv
  <2>2. CASE Invalidate
    <3>1. /\ client'[object'] = None
          /\ \A r \in Readers : Reading(r) => reader[r].object # object' /\ client'[reader[r].object] = client[reader[r].object]
      BY <2>2, InvalidateIs
    <3>3. Fresh(object, acked)' /\ \A m \in Calls : Fresh(object, call[m].mine)'
      BY <1>6, <3>1 DEF Fresh
    <3>4. ASSUME NEW r \in Readers, Reading(r)' PROVE Fresh(reader[r].object, reader[r].need)'
      <4>1. Fresh(reader[r].object, reader[r].need) /\ reader'[r] = reader[r] /\ client'[reader[r].object] = client[reader[r].object]
        BY <1>6, <3>1, <3>4 DEF FreshInv
      <4>2. QED  BY <1>6, <4>1 DEF Fresh
    <3>5. QED  BY <3>3, <3>4 DEF FreshInv
  <2>3. QED  BY <2>1, <2>2 DEF CallEffect
<1>8. QED  BY <1>3, <1>4, <1>5, <1>7

(* Steps that do not touch the clients and their callers. *)
Elsewhere ==
  /\ UNCHANGED <<row, stamp, scene, call, object, client, reader, acked>>
  /\ ring' \in SUBSET Hosts
  /\ job' \in [Callers -> JobState] /\ \A r \in Readers : job'[<<"reader", r>>] = job[<<"reader", r>>]

LEMMA ElsewhereKeepsInv == ASSUME ClientInv, Elsewhere PROVE ClientInv'
<1> USE DEF ClientInv
<1>1. ClientType'
  BY DEF ClientType, Elsewhere, CallFields
<1>2. StampsInOrder' /\ JobsOfCreators' /\ ClientIsCurrent'
  BY DEF StampsInOrder, JobsOfCreators, ClientIsCurrent, Elsewhere
<1>3. \A r \in Readers : /\ Reading(r)' <=> Reading(r)
                         /\ HasRead(r)' <=> HasRead(r)
                         /\ reader'[r] = reader[r]
                         /\ job'[<<"reader", r>>] = job[<<"reader", r>>]
  BY DEF Elsewhere, Reading, HasRead
<1>4. Fresh(object, acked)'
  BY <1>3 DEF FreshInv, Fresh, Elsewhere
<1>5. ASSUME NEW n \in Calls, PastInvalidate(n)' PROVE Fresh(object, call[n].mine)'
  BY <1>3, <1>5 DEF FreshInv, Fresh, Elsewhere, PastInvalidate
<1>6. ASSUME NEW r \in Readers, Reading(r)' PROVE Fresh(reader[r].object, reader[r].need)'
  BY <1>3, <1>6 DEF FreshInv, Fresh, Elsewhere
<1>7. QED  BY <1>1, <1>2, <1>4, <1>5, <1>6 DEF FreshInv

LEMMA UpdateJob ==
  ASSUME ClientType, NEW x \in Updates,
         job' = job \/ job' = NewJob(<<"update", x>>) \/ job' = [job EXCEPT ![<<"update", x>>] = NoJob]
  PROVE  job' \in [Callers -> JobState] /\ \A r \in Readers : job'[<<"reader", r>>] = job[<<"reader", r>>]
<1>1. <<"update", x>> \in Callers /\ \A r \in Readers : <<"reader", r>> \in Callers /\ <<"reader", r>> # <<"update", x>>
  BY DEF Callers
<1>2. NoJob \in JobState /\ [NoJob EXCEPT !.at = "row"] \in JobState
  BY DEF NoJob, JobState
<1>3. QED  BY <1>1, <1>2 DEF ClientType, NewJob

LEMMA UpdateKeepsInv ==
  ASSUME ClientInv, \/ \E x \in Updates : Update(x)
                    \/ ForceUpdateHosts
                    \/ updateAll
                    \/ NodesChange
  PROVE  ClientInv'
<1> USE DEF ClientInv
<1>0. ring \in SUBSET Hosts
  BY DEF ClientType
<1>1. Ticker \in Updates /\ Backup \in Updates
  BY ClustersAssumption DEF Ticker, Backup, Updates
<1>2. ASSUME NEW x \in Updates, UNCHANGED <<row, stamp, ring, scene, call, object, client, reader, acked>>,
             job' = job \/ job' = NewJob(<<"update", x>>) \/ job' = [job EXCEPT ![<<"update", x>>] = NoJob]
      PROVE  Elsewhere
  BY <1>0, <1>2, UpdateJob DEF Elsewhere
<1>3. ASSUME NEW x \in Updates, ForceUpdateCluster(x) PROVE Elsewhere
  <2>1. UNCHANGED <<row, stamp, ring, scene, call, object, client, reader, acked>>
    BY <1>3 DEF ForceUpdateCluster, UpdateClient, UpdateFails, db, nodes, cache
  <2>2. job' = job \/ job' = NewJob(<<"update", x>>)
    BY <1>3 DEF ForceUpdateCluster, UpdateClient
  <2>3. QED  BY <1>2, <2>1, <2>2
<1>4. ASSUME NEW x \in Updates, updateSingle(x) PROVE Elsewhere
  <2>1. UNCHANGED <<row, stamp, ring, scene, call, object, client, reader, acked>>
    BY <1>4 DEF updateSingle, UpdateFails, db, nodes, cache
  <2>2. job' = [job EXCEPT ![<<"update", x>>] = NoJob]
    BY <1>4 DEF updateSingle
  <2>3. QED  BY <1>2, <2>1, <2>2
<1>5. ASSUME NEW x \in Updates, Store(x) \/ \E h \in Hosts : retrieveNodeConfig(x, h) PROVE Elsewhere
  <2>1. UNCHANGED <<row, stamp, ring, scene, call, object, client, reader, acked, job>>
    BY <1>5 DEF Store, retrieveNodeConfig, db, nodes, cache
  <2>2. QED  BY <1>2, <2>1
<1>6. CASE ForceUpdateHosts
  <2>1. UNCHANGED <<row, stamp, ring, scene, call, object, client, reader, acked>>
    BY <1>6 DEF ForceUpdateHosts, UpdateClient, db, nodes, cache
  <2>2. job' = NewJob(<<"update", Backup>>)
    BY <1>6 DEF ForceUpdateHosts, UpdateClient
  <2>3. PICK x \in Updates : x = Backup
    BY <1>1
  <2>4. QED  BY <1>2, <2>1, <2>2, <2>3, ElsewhereKeepsInv
<1>7. CASE updateAll
  <2>1. UNCHANGED <<row, stamp, ring, scene, call, object, client, reader, acked>>
    BY <1>7 DEF updateAll, UpdateClient, db, nodes, cache
  <2>2. job' = NewJob(<<"update", Ticker>>)
    BY <1>7 DEF updateAll, UpdateClient
  <2>3. PICK x \in Updates : x = Ticker
    BY <1>1
  <2>4. QED  BY <1>2, <2>1, <2>2, <2>3, ElsewhereKeepsInv
<1>8. CASE NodesChange
  <2>1. UNCHANGED <<row, stamp, scene, call, object, client, reader, acked, job>>
    BY <1>8 DEF NodesChange, db, cache
  <2>2. ring' \in SUBSET Hosts
    BY <1>8, ClustersAssumption DEF NodesChange
  <2>3. Elsewhere
    BY <2>1, <2>2 DEF Elsewhere, ClientType
  <2>4. QED  BY <2>3, ElsewhereKeepsInv
<1>9. CASE \E x \in Updates : Update(x)
  BY <1>3, <1>4, <1>5, <1>9, ElsewhereKeepsInv DEF Update
<1>10. QED  BY <1>6, <1>7, <1>8, <1>9

-----------------------------------------------------------------------------
(* A client in the making: it knows the row of the time it read it. *)
JobEffect(p, v) ==
  /\ UNCHANGED <<stamp, ring, scene, call, object, client, reader, acked>>
  /\ row' \in {row, Bare}
  /\ v \in JobState /\ job' = [job EXCEPT ![p] = v] /\ v.asOf \in {job[p].asOf, stamp}
  /\ job[p].at # "idle"
  /\ v.at \in {"discover", "done"} => v.asOf = stamp \/ (job[p].at \in {"discover", "done"} /\ v.asOf = job[p].asOf)

LEMMA JobStepEffect ==
  ASSUME ClientType, NEW p \in Callers, CreateClientNoCache(p) PROVE \E v : JobEffect(p, v)
<1>0. PICK d : d = job[p]
  OBVIOUS
<1>1. d \in JobState
  BY <1>0 DEF ClientType
<1>2. ASSUME JobFails(p), d.at # "idle" PROVE \E v : JobEffect(p, v)
  <2>1. PICK v : v = [d EXCEPT !.at = "failed"]
    OBVIOUS
  <2>2. v \in JobState /\ v.at = "failed" /\ v.asOf = d.asOf
    BY <1>1, <2>1 DEF JobState
  <2>3. job' = [job EXCEPT ![p] = v]
    BY <1>0, <1>2, <2>1 DEF JobFails, ClientType
  <2>4. UNCHANGED <<row, stamp, ring, scene, call, object, client, reader, acked>>
    BY <1>2 DEF JobFails, db, nodes, cache
  <2>5. JobEffect(p, v)
    BY <1>0, <1>2, <2>2, <2>3, <2>4 DEF JobEffect, ClientType
  <2>6. QED  BY <2>5
<1>3. CASE GetClusterByID(p) /\ ~JobFails(p)
  <2>1. PICK b \in BOOLEAN : b = (row = Bare)
    OBVIOUS
  <2>2. PICK v : v = [d EXCEPT !.at = "discover", !.asOf = stamp, !.bare = b]
    OBVIOUS
  <2>3. v \in JobState /\ v.asOf = stamp
    BY <1>1, <2>1, <2>2 DEF JobState, ClientType
  <2>4. job' = [job EXCEPT ![p] = v]
    BY <1>0, <1>3, <2>1, <2>2 DEF GetClusterByID, ClientType
  <2>5. UNCHANGED <<row, stamp, ring, scene, call, object, client, reader, acked>> /\ d.at = "row"
    BY <1>0, <1>3 DEF GetClusterByID, db, nodes, cache
  <2>6. JobEffect(p, v)
    BY <1>0, <2>3, <2>4, <2>5 DEF JobEffect, ClientType
  <2>7. QED  BY <2>6
<1>4. CASE setKnownHosts(p) /\ ~JobFails(p)
  <2>1. PICK h : h = ring
    OBVIOUS
  <2>2. PICK v : v = [d EXCEPT !.at = "done", !.hosts = h]
    OBVIOUS
  <2>3. v \in JobState /\ v.asOf = d.asOf
    BY <1>1, <2>1, <2>2 DEF JobState, ClientType
  <2>4. job' = [job EXCEPT ![p] = v]
    BY <1>0, <1>4, <2>1, <2>2 DEF setKnownHosts, ClientType
  <2>5. UNCHANGED <<stamp, ring, scene, call, object, client, reader, acked>> /\ d.at = "discover"
    BY <1>0, <1>4 DEF setKnownHosts, nodes, cache
  <2>6. row' \in {row, Bare}
    BY <1>4 DEF setKnownHosts
  <2>7. JobEffect(p, v)
    BY <1>0, <2>3, <2>4, <2>5, <2>6 DEF JobEffect
  <2>8. QED  BY <2>7
<1>5. CASE JobFails(p)
  <2>1. d.at # "idle"
    BY <1>0 DEF CreateClientNoCache, GetClusterByID, setKnownHosts
  <2>2. QED  BY <1>2, <1>5, <2>1
<1>6. QED  BY <1>3, <1>4, <1>5 DEF CreateClientNoCache

LEMMA JobKeepsInv ==
  ASSUME ClientInv, NEW p \in Callers, CreateClientNoCache(p) PROVE ClientInv'
<1> USE DEF ClientInv
<1>1. PICK v : JobEffect(p, v)
  BY JobStepEffect
<1>2. job' \in [Callers -> JobState] /\ job'[p] = v /\ \A q \in Callers : q # p => job'[q] = job[q]
  BY <1>1 DEF JobEffect, ClientType
<1>3. ClientType'
  BY <1>1, <1>2 DEF JobEffect, ClientType, CallFields, Bare
<1>4. StampsInOrder' /\ ClientIsCurrent'
  BY <1>1 DEF JobEffect, StampsInOrder, ClientIsCurrent
<1>5. JobsOfCreators'
  BY <1>1, <1>2, CallerNames DEF JobEffect, JobsOfCreators
<1>6. \A r \in Readers : (Reading(r)' <=> Reading(r)) /\ reader'[r] = reader[r]
  BY <1>1 DEF JobEffect, Reading
<1>7. ASSUME NEW k \in Nat, k <= stamp, NEW o, Fresh(o, k)
      PROVE  /\ client[o] # None => client[o] >= k
             /\ \A r \in Readers : Reading(r) /\ reader[r].object = o /\ HasRead(r)' => job'[<<"reader", r>>].asOf >= k
  <2>1. ASSUME NEW r \in Readers, Reading(r), reader[r].object = o, HasRead(r)' PROVE job'[<<"reader", r>>].asOf >= k
    <3>1. CASE p # <<"reader", r>>
      BY <1>2, <1>7, <2>1, <3>1, CallerNames DEF Fresh, HasRead
    <3>2. CASE p = <<"reader", r>> /\ v.asOf = stamp
      BY <1>2, <1>7, <3>2 DEF ClientType
    <3>3. CASE p = <<"reader", r>> /\ job[p].at \in {"discover", "done"} /\ v.asOf = job[p].asOf
      BY <1>2, <1>7, <2>1, <3>3 DEF Fresh, HasRead
    <3>4. QED  BY <1>1, <1>2, <2>1, <3>1, <3>2, <3>3 DEF JobEffect, HasRead
  <2>2. QED  BY <1>7, <2>1 DEF Fresh
<1>8. acked \in Nat /\ acked <= stamp /\ stamp \in Nat
  BY DEF ClientType, StampsInOrder
<1>9. Fresh(object, acked)'
  <2>1. PICK k \in Nat : k = acked
    BY <1>8
  <2>2. PICK o : o = object
    OBVIOUS
  <2>3. Fresh(o, k)
    BY <2>1, <2>2 DEF FreshInv
  <2>4. QED  BY <1>1, <1>6, <1>7, <1>8, <2>1, <2>2, <2>3 DEF Fresh, JobEffect
<1>10. ASSUME NEW n \in Calls, PastInvalidate(n)' PROVE Fresh(object, call[n].mine)'
  <2>1. PICK k \in Nat : k = call[n].mine
    BY DEF ClientType
  <2>2. PICK o : o = object
    OBVIOUS
  <2>3. Fresh(o, k) /\ k <= stamp
    BY <1>1, <1>10, <2>1, <2>2 DEF FreshInv, PastInvalidate, JobEffect, StampsInOrder
  <2>4. QED  BY <1>1, <1>6, <1>7, <2>1, <2>2, <2>3 DEF Fresh, JobEffect
<1>11. ASSUME NEW r \in Readers, Reading(r)' PROVE Fresh(reader[r].object, reader[r].need)'
  <2>1. PICK k \in Nat : k = reader[r].need
    BY ReaderRecord
  <2>2. PICK o : o = reader[r].object
    OBVIOUS
  <2>3. Fresh(o, k)
    BY <1>6, <1>11, <2>1, <2>2 DEF FreshInv
  <2>4. k <= stamp
    BY <1>8, <2>1 DEF StampsInOrder
  <2>5. QED  BY <1>1, <1>6, <1>7, <2>1, <2>2, <2>3, <2>4 DEF Fresh, JobEffect
<1>12. QED  BY <1>3, <1>4, <1>5, <1>9, <1>10, <1>11 DEF FreshInv

-----------------------------------------------------------------------------
(* Callers of Client. *)
ReaderMoves(r, v) ==
  /\ UNCHANGED <<row, stamp, ring, scene, call, object, acked>>
  /\ v \in ReaderState /\ reader' = [reader EXCEPT ![r] = v]
  /\ job' \in [Callers -> JobState] /\ \A q \in Readers \ {r} : job'[<<"reader", q>>] = job[<<"reader", q>>]

LEMMA ReaderMoved ==
  ASSUME ClientInv, NEW r \in Readers, NEW v, ReaderMoves(r, v)
  PROVE  /\ reader' \in [Readers -> ReaderState]
         /\ reader'[r] = v /\ \A q \in Readers \ {r} : reader'[q] = reader[q]
         /\ \A q \in Readers \ {r} : (Reading(q)' <=> Reading(q)) /\ (HasRead(q)' <=> HasRead(q))
         /\ client' \in [Objects -> Nat \cup {None}] => ClientType'
<1>1. reader' \in [Readers -> ReaderState] /\ reader'[r] = v /\ \A q \in Readers \ {r} : reader'[q] = reader[q]
  BY DEF ReaderMoves, ClientInv, ClientType
<1>2. \A q \in Readers \ {r} : (Reading(q)' <=> Reading(q)) /\ (HasRead(q)' <=> HasRead(q))
  BY <1>1 DEF ReaderMoves, Reading, HasRead
<1>3. ASSUME client' \in [Objects -> Nat \cup {None}] PROVE ClientType'
  BY <1>1, <1>3 DEF ReaderMoves, ClientInv, ClientType, CallFields
<1>4. QED  BY <1>1, <1>2, <1>3

LEMMA ReaderKeepsOrder ==
  ASSUME ClientInv, NEW r \in Readers, NEW v, ReaderMoves(r, v), v.need \in {reader[r].need, acked},
         v.at # "create" => job'[<<"reader", r>>].at = "idle",
         v.at # "done" => v.got = None,
         v.got # None => v.got >= v.need
  PROVE  StampsInOrder' /\ JobsOfCreators' /\ ClientIsCurrent'
<1> USE DEF ClientInv
<1>1. reader'[r] = v /\ \A q \in Readers \ {r} : reader'[q] = reader[q]
  BY ReaderMoved
<1>2. acked \in Nat /\ reader[r].need <= acked
  BY DEF ClientType, StampsInOrder
<1>3. StampsInOrder'
  BY <1>1, <1>2 DEF ReaderMoves, StampsInOrder
<1>4. JobsOfCreators'
  BY <1>1 DEF ReaderMoves, JobsOfCreators
<1>5. ClientIsCurrent'
  BY <1>1 DEF ClientIsCurrent
<1>6. QED  BY <1>3, <1>4, <1>5

(* A step that makes no client and no part of one. *)
LEMMA ReaderKeepsFresh ==
  ASSUME ClientInv, NEW r \in Readers, NEW v, ReaderMoves(r, v), UNCHANGED client,
         v.at \in {"new", "done"} \/ ~HasRead(r)',
         v.at \notin {"new", "done"} => Fresh(v.object, v.need)
  PROVE  FreshInv'
<1> USE DEF ClientInv
<1>1. /\ reader'[r] = v
      /\ \A q \in Readers \ {r} : /\ reader'[q] = reader[q]
                                  /\ Reading(q)' <=> Reading(q)
                                  /\ HasRead(q)' <=> HasRead(q)
                                  /\ job'[<<"reader", q>>] = job[<<"reader", q>>]
  BY ReaderMoved DEF ReaderMoves
<1>2. Reading(r)' => v.at \notin {"new", "done"} /\ ~HasRead(r)'
  BY <1>1 DEF Reading
<1>3. \A o, k : Fresh(o, k) =>
        \A q \in Readers : Reading(q)' /\ reader'[q].object = o /\ HasRead(q)' => job'[<<"reader", q>>].asOf >= k
  BY <1>1, <1>2 DEF Fresh
<1>4. Fresh(object, acked)'
  <2>1. Fresh(object, acked)
    BY DEF FreshInv
  <2>2. QED  BY <1>3, <2>1 DEF Fresh, ReaderMoves
<1>5. ASSUME NEW n \in Calls, PastInvalidate(n)' PROVE Fresh(object, call[n].mine)'
  <2>1. Fresh(object, call[n].mine)
    BY <1>5 DEF FreshInv, ReaderMoves, PastInvalidate
  <2>2. QED  BY <1>3, <2>1 DEF Fresh, ReaderMoves
<1>6. ASSUME NEW q \in Readers, Reading(q)' PROVE Fresh(reader[q].object, reader[q].need)'
  <2>1. Fresh(reader'[q].object, reader'[q].need)
    BY <1>1, <1>2, <1>6 DEF FreshInv
  <2>2. QED  BY <1>3, <2>1 DEF Fresh
<1>7. QED  BY <1>4, <1>5, <1>6 DEF FreshInv

LEMMA QuietReaderKeepsInv ==
  ASSUME ClientInv, NEW r \in Readers, NEW v, ReaderMoves(r, v), UNCHANGED client,
         v.need \in {reader[r].need, acked},
         v.at # "create" => job'[<<"reader", r>>].at = "idle",
         v.at # "done" => v.got = None,
         v.got # None => v.got >= v.need,
         v.at \in {"new", "done"} \/ ~HasRead(r)',
         v.at \notin {"new", "done"} => Fresh(v.object, v.need)
  PROVE  ClientInv'
<1>1. ClientType'
  BY ReaderMoved DEF ClientInv, ClientType
<1>2. StampsInOrder' /\ JobsOfCreators' /\ ClientIsCurrent'
  BY ReaderKeepsOrder
<1>3. FreshInv'
  BY ReaderKeepsFresh
<1>4. QED  BY <1>1, <1>2, <1>3 DEF ClientInv

(* The client that a caller made is no older than whoever has the object needs. *)
LEMMA CreatedKeepsFresh ==
  ASSUME ClientInv, NEW r \in Readers, NEW v, ReaderMoves(r, v), v.at = "done", Reading(r), HasRead(r),
         client' = [client EXCEPT ![reader[r].object] = job[<<"reader", r>>].asOf]
  PROVE  FreshInv'
<1> USE DEF ClientInv
<1>1. /\ reader'[r] = v
      /\ \A q \in Readers \ {r} : /\ reader'[q] = reader[q]
                                  /\ Reading(q)' <=> Reading(q)
                                  /\ HasRead(q)' <=> HasRead(q)
                                  /\ job'[<<"reader", q>>] = job[<<"reader", q>>]
  BY ReaderMoved DEF ReaderMoves
<1>2. ~Reading(r)'
  BY <1>1 DEF Reading
<1>3. ASSUME NEW o \in Objects, NEW k, Fresh(o, k)
      PROVE  /\ client'[o] # None => client'[o] >= k
             /\ \A q \in Readers : Reading(q)' /\ reader'[q].object = o /\ HasRead(q)' => job'[<<"reader", q>>].asOf >= k
  <2>1. CASE o = reader[r].object
    BY <1>1, <1>2, <1>3, <2>1 DEF Fresh, ClientType
  <2>2. CASE o # reader[r].object
    BY <1>1, <1>2, <1>3, <2>2 DEF Fresh, ClientType
  <2>3. QED  BY <2>1, <2>2
<1>4. Fresh(object, acked)'
  <2>1. PICK o \in Objects : o = object
    BY DEF ClientType
  <2>2. PICK k : k = acked
    OBVIOUS
  <2>3. Fresh(o, k)
    BY <2>1, <2>2 DEF FreshInv
  <2>4. QED  BY <1>3, <2>1, <2>2, <2>3 DEF Fresh, ReaderMoves
<1>5. ASSUME NEW n \in Calls, PastInvalidate(n)' PROVE Fresh(object, call[n].mine)'
  <2>1. PICK o \in Objects : o = object
    BY DEF ClientType
  <2>2. PICK k : k = call[n].mine
    OBVIOUS
  <2>3. Fresh(o, k)
    BY <1>5, <2>1, <2>2 DEF FreshInv, ReaderMoves, PastInvalidate
  <2>4. QED  BY <1>3, <2>1, <2>2, <2>3 DEF Fresh, ReaderMoves
<1>6. ASSUME NEW q \in Readers, Reading(q)' PROVE Fresh(reader[q].object, reader[q].need)'
  <2>1. q # r /\ reader'[q] = reader[q] /\ Reading(q)
    BY <1>1, <1>2, <1>6
  <2>2. PICK o \in Objects : o = reader[q].object
    BY ReaderRecord
  <2>3. PICK k : k = reader[q].need
    OBVIOUS
  <2>4. Fresh(o, k)
    BY <2>1, <2>2, <2>3 DEF FreshInv
  <2>5. QED  BY <1>3, <2>1, <2>2, <2>3, <2>4 DEF Fresh
<1>7. QED  BY <1>4, <1>5, <1>6 DEF FreshInv

LEMMA ReaderKeepsInv ==
  ASSUME ClientInv, NEW r \in Readers, Client(r) PROVE ClientInv'
<1> USE DEF ClientInv
<1>0. PICK d : d = reader[r]
  OBVIOUS
<1>1. PICK p \in Callers : p = <<"reader", r>>
  BY CallerNames
<1>2. /\ d \in ReaderState /\ d.at \in {"new", "lock", "check", "create", "done"} /\ d.object \in Objects /\ d.need \in Nat
      /\ d.got \in Nat \cup {None} /\ client[d.object] \in Nat \cup {None} /\ job[p].asOf \in Nat
      /\ job \in [Callers -> JobState] /\ acked \in Nat /\ object \in Objects
  BY <1>0, <1>1, ReaderRecord DEF ClientType
<1>3. d.at \notin {"new", "done"} => Fresh(d.object, d.need) /\ Reading(r)
  BY <1>0 DEF FreshInv, Reading
<1>4. (d.at # "create" => job[p].at = "idle") /\ (d.at # "done" => d.got = None)
  BY <1>0, <1>1 DEF JobsOfCreators
<1>5. CASE getClientTTL(r)
  <2>1. PICK o, k : o = object /\ k = acked
    OBVIOUS
  <2>2. PICK v : v = [d EXCEPT !.at = "lock", !.object = o, !.need = k]
    OBVIOUS
  <2>3. v \in ReaderState /\ v.at = "lock" /\ v.object = o /\ v.need = k /\ v.got = d.got
    BY <1>2, <2>1, <2>2 DEF ReaderState
  <2>4. UNCHANGED <<row, stamp, ring, scene, call, object, acked, job, client>> /\ d.at = "new"
    BY <1>0, <1>5 DEF getClientTTL, db, nodes, cache
  <2>5. reader' = [reader EXCEPT ![r] = v]
    BY <1>0, <1>5, <2>1, <2>2 DEF getClientTTL
  <2>6. ReaderMoves(r, v)
    BY <1>2, <2>3, <2>4, <2>5 DEF ReaderMoves
  <2>7. Fresh(v.object, v.need)
    BY <2>1, <2>3 DEF FreshInv
  <2>8. job'[<<"reader", r>>].at = "idle" /\ ~HasRead(r)' /\ v.got = None
    BY <1>1, <1>4, <2>3, <2>4 DEF HasRead
  <2>9. QED  BY <2>1, <2>3, <2>4, <2>6, <2>7, <2>8, QuietReaderKeepsInv
<1>6. CASE Lock(r)
  <2>1. PICK v : v = [d EXCEPT !.at = "check"]
    OBVIOUS
  <2>2. v \in ReaderState /\ v.at = "check" /\ v.object = d.object /\ v.need = d.need /\ v.got = d.got
    BY <1>2, <2>1 DEF ReaderState
  <2>3. UNCHANGED <<row, stamp, ring, scene, call, object, acked, job, client>> /\ d.at = "lock"
    BY <1>0, <1>6 DEF Lock, db, nodes
  <2>4. reader' = [reader EXCEPT ![r] = v]
    BY <1>0, <1>6, <2>1 DEF Lock, ClientType
  <2>5. ReaderMoves(r, v)
    BY <1>2, <2>2, <2>3, <2>4 DEF ReaderMoves
  <2>6. job'[<<"reader", r>>].at = "idle" /\ ~HasRead(r)' /\ v.got = None
    BY <1>1, <1>4, <2>2, <2>3 DEF HasRead
  <2>7. Fresh(v.object, v.need)
    BY <1>3, <2>2, <2>3
  <2>8. QED  BY <1>0, <2>2, <2>3, <2>5, <2>6, <2>7, QuietReaderKeepsInv
<1>7. CASE isValid(r)
  <2>1. PICK c : c = client[d.object]
    OBVIOUS
  <2>2. PICK v : v = [d EXCEPT !.at = "done", !.got = c]
    OBVIOUS
  <2>3. v \in ReaderState /\ v.at = "done" /\ v.need = d.need /\ v.got = c
    BY <1>2, <2>1, <2>2 DEF ReaderState
  <2>4. UNCHANGED <<row, stamp, ring, scene, call, object, acked, job, client>> /\ d.at = "check"
    BY <1>0, <1>7 DEF isValid, db, nodes
  <2>5. reader' = [reader EXCEPT ![r] = v]
    BY <1>0, <1>7, <2>1, <2>2 DEF isValid, Returns
  <2>6. ReaderMoves(r, v)
    BY <1>2, <2>3, <2>4, <2>5 DEF ReaderMoves
  <2>7. job'[<<"reader", r>>].at = "idle"
    BY <1>1, <1>4, <2>4
  <2>8. v.got # None => v.got >= v.need
    BY <1>3, <2>1, <2>3, <2>4 DEF Fresh
  <2>9. QED  BY <1>0, <2>3, <2>4, <2>6, <2>7, <2>8, QuietReaderKeepsInv
<1>8. CASE isInvalid(r)
  <2>1. PICK v : v = [d EXCEPT !.at = "create"]
    OBVIOUS
  <2>2. v \in ReaderState /\ v.at = "create" /\ v.object = d.object /\ v.need = d.need /\ v.got = d.got
    BY <1>2, <2>1 DEF ReaderState
  <2>3. UNCHANGED <<row, stamp, ring, scene, call, object, acked, client>> /\ d.at = "check" /\ job' = NewJob(p)
    BY <1>0, <1>1, <1>8 DEF isInvalid, db, nodes, cache
  <2>4. reader' = [reader EXCEPT ![r] = v]
    BY <1>0, <1>8, <2>1 DEF isInvalid, ClientType
  <2>5. job' \in [Callers -> JobState] /\ (\A q \in Callers : q # p => job'[q] = job[q]) /\ job'[p].at = "row"
    BY <1>2, <2>3, JobSet
  <2>6. ReaderMoves(r, v)
    BY <1>1, <2>2, <2>3, <2>4, <2>5, CallerNames DEF ReaderMoves
  <2>7. ~HasRead(r)' /\ v.got = None
    BY <1>1, <1>4, <2>2, <2>3, <2>5 DEF HasRead
  <2>8. Fresh(v.object, v.need)
    BY <1>3, <2>2, <2>3
  <2>9. QED  BY <1>0, <2>2, <2>3, <2>6, <2>7, <2>8, QuietReaderKeepsInv
<1>9. CASE Created(r)
  <2>0. UNCHANGED <<row, stamp, ring, scene, call, object, acked>> /\ d.at = "create"
    BY <1>0, <1>9 DEF Created, db, nodes
  <2>1. job' = [job EXCEPT ![p] = NoJob]
    BY <1>1, <1>9 DEF Created
  <2>2. job' \in [Callers -> JobState] /\ (\A q \in Callers : q # p => job'[q] = job[q]) /\ job'[p].at = "idle"
    <3>1. NoJob \in JobState /\ NoJob.at = "idle"
      BY DEF NoJob, JobState
    <3>2. QED  BY <1>2, <2>1, <3>1
  <2>3. ASSUME NEW c \in Nat \cup {None}, Returns(r, c)
        PROVE  \E v : ReaderMoves(r, v) /\ v.at = "done" /\ v.need = d.need /\ v.got = c
    <3>1. PICK v : v = [d EXCEPT !.at = "done", !.got = c]
      OBVIOUS
    <3>2. v \in ReaderState /\ v.at = "done" /\ v.need = d.need /\ v.got = c
      BY <1>2, <3>1 DEF ReaderState
    <3>3. reader' = [reader EXCEPT ![r] = v]
      BY <1>0, <2>3, <3>1 DEF Returns
    <3>4. ReaderMoves(r, v)
      BY <1>1, <2>0, <2>2, <3>2, <3>3, CallerNames DEF ReaderMoves
    <3>5. QED  BY <3>2, <3>4
  <2>4. CASE UNCHANGED client /\ Returns(r, None)
    <3>1. PICK v : ReaderMoves(r, v) /\ v.at = "done" /\ v.need = d.need /\ v.got = None
      BY <2>3, <2>4
    <3>2. QED  BY <1>0, <1>1, <2>2, <2>4, <3>1, QuietReaderKeepsInv
  <2>5. CASE job[p].at = "done" /\ client' = [client EXCEPT ![reader[r].object] = job[p].asOf] /\ Returns(r, job[p].asOf)
    <3>1. PICK c \in Nat : c = job[p].asOf
      BY <1>2
    <3>2. PICK v : ReaderMoves(r, v) /\ v.at = "done" /\ v.need = d.need /\ v.got = c
      BY <2>3, <2>5, <3>1
    <3>3. HasRead(r) /\ Reading(r)
      BY <1>1, <1>3, <2>0, <2>5 DEF HasRead
    <3>4. client' \in [Objects -> Nat \cup {None}]
      BY <1>0, <1>2, <2>5 DEF ClientType
    <3>5. ClientType'
      BY <3>2, <3>4, ReaderMoved
    <3>6. c >= d.need
      BY <1>0, <1>1, <1>3, <2>0, <3>1, <3>3 DEF Fresh
    <3>7. StampsInOrder' /\ JobsOfCreators' /\ ClientIsCurrent'
      BY <1>0, <1>1, <2>2, <3>2, <3>6, ReaderKeepsOrder
    <3>8. FreshInv'
      BY <1>1, <2>5, <3>2, <3>3, CreatedKeepsFresh
    <3>9. QED  BY <3>5, <3>7, <3>8
  <2>6. QED  BY <1>1, <1>9, <2>4, <2>5 DEF Created
<1>10. QED  BY <1>5, <1>6, <1>7, <1>8, <1>9 DEF Client

-----------------------------------------------------------------------------
(* A restart, and the start. *)
LEMMA BareIsFresh ==
  ASSUME object' \in Objects, client' = [o \in Objects |-> None], \A r \in Readers : ~Reading(r)'
  PROVE  FreshInv'
<1>1. \A r \in Readers : ~Reading(r)'
  OBVIOUS
<1>2. client'[object'] = None
  OBVIOUS
<1>3. QED  BY <1>1, <1>2 DEF FreshInv, Fresh

LEMMA CrashKeepsInv == ASSUME ClientInv, Crash PROVE ClientInv'
<1> USE DEF ClientInv
<1>0. UNCHANGED <<row, stamp, ring, scene, object, acked>>
  BY DEF Crash, db, nodes
<1>1. NoReader \in ReaderState /\ NoReader.at = "new" /\ NoReader.got = None /\ NoReader.need = 0
  BY ClustersAssumption DEF NoReader, ReaderState, Objects
<1>2. NoJob \in JobState /\ NoJob.at = "idle"
  BY DEF NoJob, JobState
<1>3. \A r \in Readers : reader'[r] = IF Reading(r) THEN NoReader ELSE reader[r]
  BY DEF Crash
<1>4. reader' \in [Readers -> ReaderState] /\ \A r \in Readers : reader'[r].at \in {"new", "done"}
  <2>1. ASSUME NEW r \in Readers PROVE reader'[r] \in ReaderState /\ reader'[r].at \in {"new", "done"}
    BY <1>1, <1>3 DEF ClientType, Reading
  <2>2. QED  BY <2>1 DEF Crash
<1>5. job' \in [Callers -> JobState] /\ \A p \in Callers : job'[p].at = "idle"
  BY <1>2 DEF Crash
<1>6. ASSUME NEW n \in Calls
      PROVE  CallFields(call[n])' /\ call'[n].mine \in Nat /\ call'[n].mine <= stamp
  <2>1. PICK c : c = NoCall
    OBVIOUS
  <2>2. PICK v : v = [c EXCEPT !.at = "lost"]
    OBVIOUS
  <2>3. CallFields(v) /\ v.mine = 0
    BY <2>1, <2>2 DEF NoCall, CallFields
  <2>4. call'[n] = v \/ call'[n] = call[n]
    BY <2>1, <2>2 DEF Crash
  <2>5. CallFields(call[n]) /\ call[n].mine \in Nat /\ call[n].mine <= stamp /\ stamp \in Nat
    BY DEF ClientType, StampsInOrder
  <2>6. QED  BY <2>3, <2>4, <2>5 DEF CallFields
<1>7. ClientType'
  <2>1. call' = [n \in Calls |-> call'[n]]
    BY DEF Crash
  <2>2. client' \in [Objects -> Nat \cup {None}]
    BY DEF Crash
  <2>3. QED  BY <1>0, <1>4, <1>5, <1>6, <2>1, <2>2 DEF ClientType
<1>8. StampsInOrder'
  <2>1. ASSUME NEW r \in Readers PROVE reader'[r].need <= acked
    <3>1. reader[r].need <= acked /\ acked \in Nat
      BY DEF ClientType, StampsInOrder
    <3>2. QED  BY <1>1, <1>3, <3>1
  <2>2. QED  BY <1>0, <1>6, <2>1 DEF StampsInOrder
<1>9. JobsOfCreators'
  <2>1. ASSUME NEW r \in Readers, reader'[r].at # "done" PROVE reader'[r].got = None
    BY <1>1, <1>3, <2>1 DEF JobsOfCreators, Reading
  <2>2. QED  BY <1>5, <2>1, CallerNames DEF JobsOfCreators
<1>10. ClientIsCurrent'
  BY <1>1, <1>3 DEF ClientIsCurrent
<1>11. FreshInv'
  <2>1. \A r \in Readers : ~Reading(r)'
    BY <1>4 DEF Reading
  <2>2. object' \in Objects /\ client' = [o \in Objects |-> None]
    BY <1>0 DEF ClientType, Crash
  <2>3. QED  BY <2>1, <2>2, BareIsFresh
<1>12. QED  BY <1>7, <1>8, <1>9, <1>10, <1>11

LEMMA InitClient == ASSUME Init PROVE ClientInv
<1>1. NoReader \in ReaderState /\ NoReader.at = "new" /\ NoReader.got = None /\ NoReader.need = 0
  BY ClustersAssumption DEF NoReader, ReaderState, Objects
<1>2. NoJob \in JobState /\ NoJob.at = "idle"
  BY DEF NoJob, JobState
<1>3. CallFields(NoCall) /\ NoCall.mine = 0
  BY DEF NoCall, CallFields
<1>4. stamp \in Nat /\ row \in Nat \cup {None} /\ acked = 0 /\ object \in Objects
  BY ClustersAssumption DEF Init, Objects
<1>5. ring \in SUBSET Hosts /\ scene \in Scenes
  BY ClustersAssumption DEF Init
<1>6. /\ \A n \in Calls : call[n] = NoCall
      /\ \A r \in Readers : reader[r] = NoReader
      /\ \A o \in Objects : client[o] = None
      /\ \A p \in Callers : job[p] = NoJob
  BY DEF Init
<1>7. ClientType
  <2>1. call = [n \in Calls |-> call[n]]
    BY DEF Init
  <2>2. \A n \in Calls : CallFields(call[n]) /\ call[n].mine \in Nat
    BY <1>3, <1>6
  <2>3. job \in [Callers -> JobState] /\ reader \in [Readers -> ReaderState]
    BY <1>1, <1>2 DEF Init
  <2>4. client \in [Objects -> Nat \cup {None}]
    BY DEF Init
  <2>5. QED  BY <1>4, <1>5, <2>1, <2>2, <2>3, <2>4 DEF ClientType
<1>8. StampsInOrder /\ JobsOfCreators /\ ClientIsCurrent
  BY <1>1, <1>2, <1>3, <1>4, <1>6, CallerNames DEF StampsInOrder, JobsOfCreators, ClientIsCurrent
<1>9. FreshInv
  <2>1. \A r \in Readers : ~Reading(r)
    BY <1>1, <1>6 DEF Reading
  <2>2. client[object] = None
    BY <1>4, <1>6
  <2>3. QED  BY <2>1, <2>2 DEF FreshInv, Fresh
<1>10. QED  BY <1>7, <1>8, <1>9 DEF ClientInv

LEMMA ClientKept == ASSUME ClientInv, [Next]_vars PROVE ClientInv'
<1>1. ASSUME NEW n \in Calls, NewCall(n) \/ Step(n) PROVE ClientInv'
  <2>1. ClientType
    BY DEF ClientInv
  <2>2. CallEffect(n)
    BY <1>1, <2>1, StepEffect, NewCallEffect
  <2>3. QED  BY <2>2, CallKeepsInv
<1>2. ASSUME NEW p \in Callers, CreateClientNoCache(p) PROVE ClientInv'
  BY <1>2, JobKeepsInv
<1>3. ASSUME NEW r \in Readers, Client(r) PROVE ClientInv'
  BY <1>3, ReaderKeepsInv
<1>4. CASE (\E x \in Updates : Update(x)) \/ ForceUpdateHosts \/ updateAll \/ NodesChange
  BY <1>4, UpdateKeepsInv
<1>5. CASE Crash
  BY <1>5, CrashKeepsInv
<1>6. CASE UNCHANGED vars
  <2>1. Elsewhere
    BY <1>6 DEF vars, db, nodes, cache, Elsewhere, ClientInv, ClientType
  <2>2. QED  BY <2>1, ElsewhereKeepsInv
<1>7. QED  BY <1>1, <1>2, <1>3, <1>4, <1>5, <1>6 DEF Next

(* Whoever calls Client after an update or delete of the cluster returned gets no client made from *)
(* the row before it (CachedProvider.Client and Invalidate): however the calls, the callers, the   *)
(* clients in the making, failures and crashes interleave, and however many of each there are.     *)
THEOREM ClientIsCurrentCorrect == Spec => []ClientIsCurrent
<1>1. Init => ClientInv
  BY InitClient
<1>2. ClientInv /\ [Next]_vars => ClientInv'
  BY ClientKept
<1>3. ClientInv => ClientIsCurrent
  BY DEF ClientInv
<1>4. QED  BY <1>1, <1>2, <1>3, PTL DEF Spec

-----------------------------------------------------------------------------
(* Secrets that are rolled back, clusters that are deleted.                *)
(*                                                                         *)
(* What a call has to do and to undo at each of its places; the last two   *)
(* conjuncts: a value is saved before it is replaced, and once.            *)
PutPlaces == {"check", "secret", "put", "insert", "rollback"}
AddPlaces == {"session", "notify", "tasks"}
DeletePlaces == {"row", "secrets", "remove", "list", "clean"}
Ats == {"new", "invalidate", "forget", "ok", "failed", "lost"} \cup PutPlaces \cup AddPlaces \cup DeletePlaces
Secrets == 0 .. OldSecret
IsGoing(v) == v.at \notin {"new", "ok", "failed", "lost"}

CallState(v) ==
  /\ CallFields(v)
  /\ v.at \in Ats /\ v.err \in BOOLEAN /\ v.alone \in BOOLEAN /\ v.mine \in Nat
  /\ v.before \in [Kinds -> Secrets]
  /\ DOMAIN v.undo \subseteq Kinds /\ v.undo \in [DOMAIN v.undo -> Secrets]
  /\ v.at \in PutPlaces \cup AddPlaces => v.op = "put"
  /\ v.at = "invalidate" => v.op \in {"put", "delete"}
  /\ v.at \in DeletePlaces => v.op = "delete"
  /\ v.at = "forget" => v.op = "forget"
  /\ v.at \in {"check", "secret", "put", "insert"} => v.mine = 0
  /\ v.at \in AddPlaces \/ (v.at = "invalidate" /\ v.op = "put") => v.mine # 0
  /\ v.at \in {"check", "secret", "put", "forget"} => v.todo \subseteq Kinds
  /\ v.at = "check" => DOMAIN v.undo = {}
  /\ v.at = "secret" => v.todo \cap DOMAIN v.undo = {}
  /\ v.at = "put" => v.todo \cap DOMAIN v.undo = FirstOf(KindOrder, v.todo)

(* As long as a put met no other call and its rollback did not fail, what it does not undo is as it was. *)
PutIsUndone(v, sec) ==
  v.at \in PutPlaces /\ v.mine = 0 /\ v.alone /\ ~v.err =>
    /\ \A k \in DOMAIN v.undo : v.undo[k] = v.before[k]
    /\ \A k \in Kinds : k \notin DOMAIN v.undo \/ (v.at = "put" /\ k \in v.todo) => sec[k] = v.before[k]

(* As long as a delete met no other call, what it removed stays removed. *)
DeleteStays(v, r, sec, ts) ==
  IsGoing(v) /\ v.op = "delete" /\ v.alone =>
    /\ v.at # "row" => r \in {None, Bare}
    /\ v.at \notin {"row", "secrets"} => \A k \in Kinds : sec[k] = NoSecret
    /\ v.at = "clean" /\ ~v.err => ts \subseteq v.todo

Alone == \A n, m \in Calls : n # m /\ Going(n) /\ call[n].alone => ~Going(m)

CallsInv ==
  /\ events \in Nat /\ stamp \in Nat /\ row \in Nat \cup {None}
  /\ secrets \in [Kinds -> Secrets]
  /\ call = [n \in Calls |-> call[n]]
  /\ \A n \in Calls : CallState(call[n])
  /\ Alone
  /\ \A n \in Calls : PutIsUndone(call[n], secrets) /\ DeleteStays(call[n], row, secrets, tasks)

(* One call goes on; no other one that is on is alone. *)
LEMMA OneCallGoes ==
  ASSUME CallsInv, NEW n \in Calls, Going(n), NEW v, call' = [call EXCEPT ![n] = v],
         CallState(v), v.alone => call[n].alone,
         events' \in Nat, stamp' \in Nat, row' \in Nat \cup {None}, secrets' \in [Kinds -> Secrets],
         PutIsUndone(v, secrets'), DeleteStays(v, row', secrets', tasks')
  PROVE  CallsInv'
<1>1. /\ call'[n] = v
      /\ \A m \in Calls : m # n => call'[m] = call[m]
      /\ call' = [m \in Calls |-> call'[m]]
  BY DEF CallsInv
<1>2. \A m \in Calls : m # n /\ Going(m) => ~call[m].alone
  BY DEF CallsInv, Alone
<1>3. Alone'
  BY <1>1, <1>2 DEF CallsInv, Alone, Going
<1>4. \A m \in Calls : CallState(call'[m])
  BY <1>1 DEF CallsInv
<1>5. ASSUME NEW m \in Calls PROVE PutIsUndone(call'[m], secrets') /\ DeleteStays(call'[m], row', secrets', tasks')
  <2>1. CASE m = n
    BY <1>1, <2>1
  <2>2. CASE m # n
    <3>1. call'[m] = call[m] /\ (Going(m) => ~call[m].alone)
      BY <1>1, <1>2, <2>2
    <3>2. ~IsGoing(call[m]) \/ ~call[m].alone
      BY <3>1 DEF Going, IsGoing
    <3>3. call[m].at \in PutPlaces => IsGoing(call[m])
      BY DEF PutPlaces, IsGoing
    <3>4. PutIsUndone(call[m], secrets')
      BY <3>2, <3>3 DEF PutIsUndone
    <3>5. DeleteStays(call[m], row', secrets', tasks')
      BY <3>2 DEF DeleteStays
    <3>6. QED  BY <3>1, <3>4, <3>5
  <2>3. QED  BY <2>1, <2>2
<1>6. \A m \in Calls : CallState(call[m])'
  BY <1>4 DEF CallState, CallFields
<1>7. QED  BY <1>1, <1>3, <1>5, <1>6 DEF CallsInv, PutIsUndone, DeleteStays, IsGoing

(* A call that is not on any more. *)
LEMMA EndedIs ==
  ASSUME NEW at \in {"ok", "failed", "lost"}, NEW v, v = [NoCall EXCEPT !.at = at]
  PROVE  CallState(v) /\ ~v.alone /\ ~IsGoing(v)
         /\ \A sec, r, ts : PutIsUndone(v, sec) /\ DeleteStays(v, r, sec, ts)
<1>1. PICK c : c = NoCall
  OBVIOUS
<1>2. CallFields(c) /\ c.undo = Nothing /\ c.err = FALSE /\ c.alone = FALSE /\ c.mine = 0 /\ c.before = [k \in Kinds |-> NoSecret]
  BY <1>1 DEF NoCall, CallFields
<1>3. CallFields(v) /\ v.at = at /\ v.undo = c.undo /\ v.err = c.err /\ v.alone = c.alone /\ v.mine = c.mine /\ v.before = c.before
  BY <1>1, <1>2 DEF CallFields
<1>4. DOMAIN v.undo = {} /\ v.undo \in [DOMAIN v.undo -> Secrets]
  BY <1>2, <1>3 DEF Nothing
<1>5. v.before \in [Kinds -> Secrets]
  BY <1>2, <1>3, ClustersAssumption DEF NoSecret, Secrets, OldSecret
<1>6. ~IsGoing(v) /\ v.at \notin PutPlaces \cup AddPlaces \cup DeletePlaces \cup {"invalidate", "forget"} /\ v.at \in Ats
  BY <1>3 DEF IsGoing, PutPlaces, AddPlaces, DeletePlaces, Ats
<1>7. v.err \in BOOLEAN /\ v.alone \in BOOLEAN /\ ~v.alone
  BY <1>2, <1>3
<1>8. CallState(v)
  BY <1>2, <1>3, <1>4, <1>5, <1>6, <1>7 DEF CallState, PutPlaces, AddPlaces
<1>9. QED  BY <1>6, <1>7, <1>8 DEF PutIsUndone, DeleteStays

LEMMA EndKeepsCalls ==
  ASSUME CallsInv, NEW n \in Calls, Going(n), NEW at \in {"ok", "failed"}, Ends(n, at),
         events' \in Nat, stamp' \in Nat, row' \in Nat \cup {None}, secrets' \in [Kinds -> Secrets]
  PROVE  CallsInv'
<1>1. PICK v : v = [NoCall EXCEPT !.at = at]
  OBVIOUS
<1>2. call' = [call EXCEPT ![n] = v]
  BY <1>1 DEF Ends
<1>3. QED  BY <1>1, <1>2, EndedIs, OneCallGoes

(* A record of a call with some fields replaced. *)
Is(v, c, at, todo, undo, err, mine) ==
  /\ CallFields(v)
  /\ v.at = at /\ v.todo = todo /\ v.undo = undo /\ v.err = err /\ v.mine = mine
  /\ v.op = c.op /\ v.type = c.type /\ v.alone = c.alone /\ v.before = c.before

LEMMA Updated ==
  ASSUME NEW c, CallFields(c), NEW at, NEW todo, NEW undo, NEW err, NEW mine
  PROVE  /\ Is([c EXCEPT !.at = at], c, at, c.todo, c.undo, c.err, c.mine)
         /\ Is([c EXCEPT !.todo = todo], c, c.at, todo, c.undo, c.err, c.mine)
         /\ Is([c EXCEPT !.at = at, !.todo = todo], c, at, todo, c.undo, c.err, c.mine)
         /\ Is([c EXCEPT !.at = at, !.undo = undo], c, at, c.todo, undo, c.err, c.mine)
         /\ Is([c EXCEPT !.undo = undo, !.err = err], c, c.at, c.todo, undo, err, c.mine)
         /\ Is([c EXCEPT !.todo = todo, !.err = err], c, c.at, todo, c.undo, err, c.mine)
         /\ Is([c EXCEPT !.at = at, !.mine = mine], c, at, c.todo, c.undo, c.err, mine)
<1>1. Is([c EXCEPT !.at = at], c, at, c.todo, c.undo, c.err, c.mine)
  BY DEF CallFields, Is
<1>2. Is([c EXCEPT !.todo = todo], c, c.at, todo, c.undo, c.err, c.mine)
  BY DEF CallFields, Is
<1>3. Is([c EXCEPT !.at = at, !.todo = todo], c, at, todo, c.undo, c.err, c.mine)
  BY DEF CallFields, Is
<1>4. Is([c EXCEPT !.at = at, !.undo = undo], c, at, c.todo, undo, c.err, c.mine)
  BY DEF CallFields, Is
<1>5. Is([c EXCEPT !.undo = undo, !.err = err], c, c.at, c.todo, undo, err, c.mine)
  BY DEF CallFields, Is
<1>6. Is([c EXCEPT !.todo = todo, !.err = err], c, c.at, todo, c.undo, err, c.mine)
  BY DEF CallFields, Is
<1>7. Is([c EXCEPT !.at = at, !.mine = mine], c, at, c.todo, c.undo, c.err, mine)
  BY DEF CallFields, Is
<1>8. QED  BY <1>1, <1>2, <1>3, <1>4, <1>5, <1>6, <1>7

(* A call whose place changes, and nothing else that it keeps. *)
LEMMA GotoIs ==
  ASSUME CallsInv, NEW n \in Calls, NEW at, Goto(n, at)
  PROVE  \E v : call' = [call EXCEPT ![n] = v]
                /\ Is(v, call[n], at, call[n].todo, call[n].undo, call[n].err, call[n].mine)
<1>1. PICK c : c = call[n]
  OBVIOUS
<1>2. CallFields(c)
  BY <1>1 DEF CallsInv, CallState
<1>3. call' = [call EXCEPT ![n] = [c EXCEPT !.at = at]]
  BY <1>1 DEF Goto, CallsInv
<1>4. QED  BY <1>1, <1>2, <1>3, Updated

(* No value is replaced, no row, secret and task is written: what holds of a call is a matter of its record. *)
LEMMA QuietStep ==
  ASSUME CallsInv, NEW n \in Calls, Going(n), NEW v, NEW at \in Ats, NEW todo, at # "clean",
         call' = [call EXCEPT ![n] = v], Is(v, call[n], at, todo, call[n].undo, call[n].err, call[n].mine),
         UNCHANGED <<row, stamp, secrets, tasks>>, events' \in Nat,
         at # "put", call[n].at = "put" => at = "rollback",
         at \in PutPlaces => call[n].at \in PutPlaces,
         at \in PutPlaces \cup AddPlaces => call[n].op = "put",
         at = "invalidate" => call[n].op \in {"put", "delete"},
         at \in DeletePlaces => call[n].op = "delete" /\ (at # "row" => call[n].at # "row")
                                /\ (at # "secrets" => call[n].at # "secrets"),
         call[n].at = "row" => at = "row", call[n].at = "secrets" => at = "secrets",
         at = "forget" => call[n].op = "forget",
         at \in {"check", "secret"} => call[n].mine = 0 /\ at # "check" /\ todo \cap DOMAIN call[n].undo = {},
         at = "insert" => call[n].mine = 0,
         at \in AddPlaces \/ (at = "invalidate" /\ call[n].op = "put") => call[n].mine # 0,
         at \in {"secret", "forget"} => todo \subseteq Kinds
  PROVE  CallsInv'
<1>1. PICK c : c = call[n]
  OBVIOUS
<1>2. CallState(c) /\ PutIsUndone(c, secrets) /\ DeleteStays(c, row, secrets, tasks) /\ IsGoing(c)
  BY <1>1 DEF CallsInv, Going, IsGoing
<1>3. Is(v, c, at, todo, c.undo, c.err, c.mine)
  BY <1>1
<1>4. CallState(v)
  BY <1>1, <1>2, <1>3 DEF CallState, Is, PutPlaces, AddPlaces, DeletePlaces
<1>5. PutIsUndone(v, secrets)
  <2>1. SUFFICES ASSUME v.at \in PutPlaces, v.mine = 0, v.alone, ~v.err
                 PROVE  /\ \A k \in DOMAIN v.undo : v.undo[k] = v.before[k]
                        /\ \A k \in Kinds : k \notin DOMAIN v.undo \/ (v.at = "put" /\ k \in v.todo) => secrets[k] = v.before[k]
    BY DEF PutIsUndone
  <2>2. c.at \in PutPlaces /\ c.mine = 0 /\ c.alone /\ ~c.err
    BY <1>1, <1>3, <2>1 DEF Is
  <2>3. QED  BY <1>2, <1>3, <2>2 DEF PutIsUndone, Is
<1>6. DeleteStays(v, row, secrets, tasks)
  <2>1. SUFFICES ASSUME IsGoing(v), v.op = "delete", v.alone
                 PROVE  /\ v.at # "row" => row \in {None, Bare}
                        /\ v.at \notin {"row", "secrets"} => \A k \in Kinds : secrets[k] = NoSecret
                        /\ v.at = "clean" /\ ~v.err => tasks \subseteq v.todo
    BY DEF DeleteStays
  <2>2. c.op = "delete" /\ c.alone
    BY <1>3, <2>1 DEF Is
  <2>3. v.at # "clean" /\ (v.at # "row" => c.at # "row") /\ (v.at \notin {"row", "secrets"} => c.at \notin {"row", "secrets"})
    BY <1>1, <1>3 DEF Is
  <2>4. QED  BY <1>2, <2>2, <2>3 DEF DeleteStays
<1>7. v.alone => call[n].alone
  BY <1>1, <1>3 DEF Is
<1>8. /\ stamp' \in Nat /\ row' \in Nat \cup {None} /\ secrets' \in [Kinds -> Secrets]
      /\ PutIsUndone(v, secrets') /\ DeleteStays(v, row', secrets', tasks')
  BY <1>5, <1>6 DEF CallsInv
<1>9. QED  BY <1>4, <1>7, <1>8, OneCallGoes

(* What is known of a call at a place. *)
LEMMA CallAt ==
  ASSUME CallsInv, NEW n \in Calls
  PROVE  /\ CallState(call[n]) /\ PutIsUndone(call[n], secrets) /\ DeleteStays(call[n], row, secrets, tasks)
         /\ \A at : At(n, at) => call[n].at = at /\ (at \notin {"new", "ok", "failed", "lost"} => Going(n))
         /\ events \in Nat /\ (Fault => events' \in Nat /\ events' # events)
BY DEF CallsInv, At, Going, Fault

LEMMA FirstIs ==
  ASSUME NEW order, DOMAIN order \subseteq Int, NEW S, NEW k \in FirstOf(order, S)
  PROVE  k \in S /\ \A j \in FirstOf(order, S) : j = k
BY DEF FirstOf

LEMMA PutFailsCalls ==
  ASSUME CallsInv, NEW n \in Calls, PutFails(n), call[n].op = "put", Going(n), call[n].mine # 0 \/ call[n].at \in PutPlaces
  PROVE  CallsInv'
<1>1. UNCHANGED <<row, stamp, secrets, tasks>> /\ events' \in Nat /\ Goto(n, "rollback")
  BY CallAt DEF PutFails, db
<1>2. PICK c : c = call[n]
  OBVIOUS
<1>3. PICK v : call' = [call EXCEPT ![n] = v] /\ Is(v, call[n], "rollback", c.todo, c.undo, c.err, c.mine)
  BY <1>1, <1>2, GotoIs
<1>4. CallState(c) /\ PutIsUndone(c, secrets) /\ "rollback" \in Ats
  BY <1>2, CallAt DEF Ats, PutPlaces
<1>5. CallState(v)
  BY <1>2, <1>3, <1>4 DEF CallState, Is, PutPlaces, AddPlaces, DeletePlaces
<1>6. PutIsUndone(v, secrets)
  BY <1>2, <1>3, <1>4 DEF PutIsUndone, Is, PutPlaces
<1>7. DeleteStays(v, row, secrets, tasks)
  BY <1>2, <1>3 DEF DeleteStays, Is
<1>8. /\ stamp' \in Nat /\ row' \in Nat \cup {None} /\ secrets' \in [Kinds -> Secrets]
      /\ PutIsUndone(v, secrets') /\ DeleteStays(v, row', secrets', tasks')
  BY <1>1, <1>6, <1>7 DEF CallsInv
<1>9. QED  BY <1>1, <1>2, <1>3, <1>5, <1>8, OneCallGoes DEF Is

LEMMA CheckCalls == ASSUME CallsInv, NEW n \in Calls, Check(n) PROVE CallsInv'
<1>1. PICK c : c = call[n]
  OBVIOUS
<1>2. CallState(c) /\ c.at = "check" /\ Going(n) /\ UNCHANGED <<row, stamp, secrets, tasks>> /\ events' \in Nat
  BY <1>1, CallAt DEF Check, db
<1>3. CASE Ends(n, "failed")
  BY <1>2, <1>3, EndKeepsCalls DEF CallsInv
<1>4. ASSUME NEW at \in {"insert", "secret"}, Goto(n, at) PROVE CallsInv'
  <2>1. PICK v : call' = [call EXCEPT ![n] = v] /\ Is(v, call[n], at, c.todo, c.undo, c.err, c.mine)
    BY <1>1, <1>4, GotoIs
  <2>2. c.op = "put" /\ c.mine = 0 /\ c.todo \cap DOMAIN c.undo = {} /\ c.todo \subseteq Kinds
    BY <1>2 DEF CallState, PutPlaces
  <2>3. at \in Ats /\ at \in PutPlaces /\ c.at \in PutPlaces /\ at \notin AddPlaces \cup DeletePlaces
    BY <1>2 DEF Ats, PutPlaces, AddPlaces, DeletePlaces
  <2>4. QED  BY <1>1, <1>2, <2>1, <2>2, <2>3, QuietStep
<1>5. QED  BY <1>3, <1>4 DEF Check

LEMMA GetSecretCalls == ASSUME CallsInv, NEW n \in Calls, GetSecret(n) PROVE CallsInv'
<1>1. PICK c : c = call[n]
  OBVIOUS
<1>2. CallState(c) /\ PutIsUndone(c, secrets) /\ c.at = "secret" /\ Going(n) /\ c.op = "put" /\ c.at \in PutPlaces
  BY <1>1, CallAt DEF GetSecret, CallState, PutPlaces
<1>3. CASE PutFails(n)
  BY <1>1, <1>2, <1>3, PutFailsCalls
<1>4. CASE ~PutFails(n)
  <2>1. UNCHANGED <<row, stamp, secrets, tasks, events>>
    BY <1>4 DEF GetSecret, db
  <2>2. PICK k \in FirstOf(KindOrder, call[n].todo) :
          call' = [call EXCEPT ![n].at = "put", ![n].undo = [j \in DOMAIN @ \cup {k} |-> IF j = k THEN secrets[k] ELSE @[j]]]
    BY <1>4 DEF GetSecret
  <2>3. PICK u : u = [j \in DOMAIN c.undo \cup {k} |-> IF j = k THEN secrets[k] ELSE c.undo[j]]
    OBVIOUS
  <2>4. PICK v : v = [c EXCEPT !.at = "put", !.undo = u]
    OBVIOUS
  <2>5. call' = [call EXCEPT ![n] = v]
    BY <1>1, <2>2, <2>3, <2>4 DEF CallsInv
  <2>6. Is(v, c, "put", c.todo, u, c.err, c.mine)
    BY <1>2, <2>4, Updated DEF CallState
  <2>7. k \in c.todo /\ FirstOf(KindOrder, c.todo) = {k} /\ k \in Kinds
    <3>1. k \in c.todo /\ \A j \in FirstOf(KindOrder, c.todo) : j = k
      BY <1>1, <2>2, FirstIs, ClustersAssumption
    <3>2. QED  BY <1>1, <1>2, <2>2, <3>1 DEF CallState
  <2>8. secrets \in [Kinds -> Secrets] /\ DOMAIN c.undo \subseteq Kinds /\ c.undo \in [DOMAIN c.undo -> Secrets] /\ c.todo \cap DOMAIN c.undo = {}
    BY <1>2 DEF CallsInv, CallState
  <2>9. /\ DOMAIN u = DOMAIN c.undo \cup {k} /\ u \in [DOMAIN u -> Secrets] /\ DOMAIN u \subseteq Kinds
        /\ u[k] = secrets[k] /\ \A j \in DOMAIN c.undo : u[j] = c.undo[j]
    BY <2>3, <2>7, <2>8
  <2>10. c.todo \cap DOMAIN u = FirstOf(KindOrder, c.todo)
    BY <2>7, <2>8, <2>9
  <2>11. CallState(v)
    BY <1>2, <2>6, <2>9, <2>10 DEF CallState, Is, Ats, PutPlaces, AddPlaces, DeletePlaces
  <2>12. PutIsUndone(v, secrets)
    <3>1. SUFFICES ASSUME v.mine = 0, v.alone, ~v.err
                   PROVE  /\ \A j \in DOMAIN v.undo : v.undo[j] = v.before[j]
                          /\ \A j \in Kinds : j \notin DOMAIN v.undo \/ (v.at = "put" /\ j \in v.todo) => secrets[j] = v.before[j]
      BY DEF PutIsUndone
    <3>2. /\ \A j \in DOMAIN c.undo : c.undo[j] = c.before[j]
          /\ \A j \in Kinds : j \notin DOMAIN c.undo => secrets[j] = c.before[j]
      BY <1>2, <2>6, <3>1 DEF PutIsUndone, Is
    <3>3. v.undo = u /\ v.before = c.before /\ v.todo = c.todo
      BY <2>6 DEF Is
    <3>4. QED  BY <2>7, <2>8, <2>9, <3>2, <3>3
  <2>13. DeleteStays(v, row', secrets', tasks')
    BY <1>2, <2>6 DEF DeleteStays, Is
  <2>14. v.alone => call[n].alone
    BY <1>1, <2>6 DEF Is
  <2>15. /\ events' \in Nat /\ stamp' \in Nat /\ row' \in Nat \cup {None} /\ secrets' \in [Kinds -> Secrets] /\ PutIsUndone(v, secrets')
    BY <2>1, <2>12 DEF CallsInv
  <2>16. QED  BY <1>2, <2>5, <2>11, <2>13, <2>14, <2>15, OneCallGoes
<1>5. QED  BY <1>3, <1>4

LEMMA PutSecretCalls == ASSUME CallsInv, NEW n \in Calls, PutSecret(n) PROVE CallsInv'
<1>1. PICK c : c = call[n]
  OBVIOUS
<1>2. /\ CallState(c) /\ PutIsUndone(c, secrets) /\ c.at = "put" /\ Going(n) /\ c.op = "put" /\ c.at \in PutPlaces
      /\ UNCHANGED <<row, stamp, tasks>>
  BY <1>1, CallAt DEF PutSecret, CallState, PutPlaces
<1>3. PICK k \in FirstOf(KindOrder, call[n].todo) :
       \/ /\ Fault
          /\ call' = [call EXCEPT ![n].at = "rollback", ![n].undo = Restrict(@, DOMAIN @ \ {k})]
          /\ UNCHANGED secrets
       \/ /\ secrets' = [secrets EXCEPT ![k] = n]
          /\ call' = [call EXCEPT ![n].at = IF call[n].todo = {k} THEN "insert" ELSE "secret", ![n].todo = @ \ {k}]
          /\ UNCHANGED events
  BY DEF PutSecret
<1>4. /\ k \in c.todo /\ FirstOf(KindOrder, c.todo) = {k} /\ k \in Kinds /\ c.todo \cap DOMAIN c.undo = {k}
      /\ c.todo \subseteq Kinds /\ secrets \in [Kinds -> Secrets] /\ c.undo \in [DOMAIN c.undo -> Secrets] /\ DOMAIN c.undo \subseteq Kinds
  <2>1. k \in c.todo /\ \A j \in FirstOf(KindOrder, c.todo) : j = k
    BY <1>1, <1>3, FirstIs, ClustersAssumption
  <2>2. QED  BY <1>1, <1>2, <1>3, <2>1 DEF CallState, CallsInv
<1>5. CASE Fault /\ call' = [call EXCEPT ![n].at = "rollback", ![n].undo = Restrict(@, DOMAIN @ \ {k})] /\ UNCHANGED secrets
  <2>1. PICK u : u = Restrict(c.undo, DOMAIN c.undo \ {k})
    OBVIOUS
  <2>2. PICK v : v = [c EXCEPT !.at = "rollback", !.undo = u]
    OBVIOUS
  <2>3. call' = [call EXCEPT ![n] = v]
    BY <1>1, <1>5, <2>1, <2>2 DEF CallsInv
  <2>4. Is(v, c, "rollback", c.todo, u, c.err, c.mine)
    BY <1>2, <2>2, Updated DEF CallState
  <2>5. DOMAIN u = DOMAIN c.undo \ {k} /\ u \in [DOMAIN u -> Secrets] /\ \A j \in DOMAIN u : u[j] = c.undo[j]
    BY <1>4, <2>1 DEF Restrict
  <2>6. CallState(v)
    BY <1>2, <1>4, <2>4, <2>5 DEF CallState, Is, Ats, PutPlaces, AddPlaces, DeletePlaces
  <2>7. PutIsUndone(v, secrets)
    <3>1. SUFFICES ASSUME v.mine = 0, v.alone, ~v.err
                   PROVE  /\ \A j \in DOMAIN v.undo : v.undo[j] = v.before[j]
                          /\ \A j \in Kinds : j \notin DOMAIN v.undo \/ (v.at = "put" /\ j \in v.todo) => secrets[j] = v.before[j]
      BY DEF PutIsUndone
    <3>2. /\ \A j \in DOMAIN c.undo : c.undo[j] = c.before[j]
          /\ \A j \in Kinds : j \notin DOMAIN c.undo \/ j \in c.todo => secrets[j] = c.before[j]
      BY <1>2, <2>4, <3>1 DEF PutIsUndone, Is
    <3>3. v.undo = u /\ v.before = c.before /\ v.at = "rollback"
      BY <2>4 DEF Is
    <3>4. QED  BY <1>4, <2>5, <3>2, <3>3
  <2>8. DeleteStays(v, row', secrets', tasks') /\ (v.alone => call[n].alone)
    BY <1>1, <1>2, <2>4 DEF DeleteStays, Is
  <2>9. /\ events' \in Nat /\ stamp' \in Nat /\ row' \in Nat \cup {None} /\ secrets' \in [Kinds -> Secrets] /\ PutIsUndone(v, secrets')
    BY <1>2, <1>5, <2>7, CallAt DEF CallsInv
  <2>10. QED  BY <1>2, <2>3, <2>6, <2>8, <2>9, OneCallGoes
<1>6. CASE /\ secrets' = [secrets EXCEPT ![k] = n] /\ UNCHANGED events
           /\ call' = [call EXCEPT ![n].at = IF call[n].todo = {k} THEN "insert" ELSE "secret", ![n].todo = @ \ {k}]
  <2>1. PICK at \in {"insert", "secret"} : at = IF c.todo = {k} THEN "insert" ELSE "secret"
    OBVIOUS
  <2>2. PICK t : t = c.todo \ {k}
    OBVIOUS
  <2>3. PICK v : v = [c EXCEPT !.at = at, !.todo = t]
    OBVIOUS
  <2>4. call' = [call EXCEPT ![n] = v]
    BY <1>1, <1>6, <2>1, <2>2, <2>3 DEF CallsInv
  <2>5. Is(v, c, at, t, c.undo, c.err, c.mine)
    BY <1>2, <2>3, Updated DEF CallState
  <2>6. t \cap DOMAIN c.undo = {} /\ t \subseteq Kinds
    BY <1>4, <2>2
  <2>7. CallState(v)
    BY <1>2, <1>4, <2>5, <2>6 DEF CallState, Is, Ats, PutPlaces, AddPlaces, DeletePlaces
  <2>8. secrets' \in [Kinds -> Secrets] /\ \A j \in Kinds : j # k => secrets'[j] = secrets[j]
    <3>1. n \in Secrets
      BY ClustersAssumption DEF Calls, Secrets, OldSecret
    <3>2. QED  BY <1>4, <1>6, <3>1
  <2>9. PutIsUndone(v, secrets')
    <3>1. SUFFICES ASSUME v.mine = 0, v.alone, ~v.err
                   PROVE  /\ \A j \in DOMAIN v.undo : v.undo[j] = v.before[j]
                          /\ \A j \in Kinds : j \notin DOMAIN v.undo \/ (v.at = "put" /\ j \in v.todo) => secrets'[j] = v.before[j]
      BY DEF PutIsUndone
    <3>2. /\ \A j \in DOMAIN c.undo : c.undo[j] = c.before[j]
          /\ \A j \in Kinds : j \notin DOMAIN c.undo => secrets[j] = c.before[j]
      BY <1>2, <2>5, <3>1 DEF PutIsUndone, Is
    <3>3. v.undo = c.undo /\ v.before = c.before /\ v.at # "put" /\ k \in DOMAIN c.undo
      BY <1>4, <2>5 DEF Is
    <3>4. QED  BY <2>8, <3>2, <3>3
  <2>10. DeleteStays(v, row', secrets', tasks') /\ (v.alone => call[n].alone)
    BY <1>1, <1>2, <2>5 DEF DeleteStays, Is
  <2>11. events' \in Nat /\ stamp' \in Nat /\ row' \in Nat \cup {None}
    BY <1>2, <1>6 DEF CallsInv
  <2>12. QED  BY <1>2, <2>4, <2>7, <2>8, <2>9, <2>10, <2>11, OneCallGoes
<1>7. QED  BY <1>3, <1>5, <1>6

LEMMA RollbackCalls == ASSUME CallsInv, NEW n \in Calls, Rollback(n) PROVE CallsInv'
<1>1. PICK c : c = call[n]
  OBVIOUS
<1>2. /\ CallState(c) /\ PutIsUndone(c, secrets) /\ c.at = "rollback" /\ Going(n) /\ c.op = "put" /\ c.at \in PutPlaces
      /\ UNCHANGED <<row, stamp, tasks>>
  BY <1>1, CallAt DEF Rollback, CallState, PutPlaces
<1>3. CASE Ends(n, "failed") /\ UNCHANGED <<secrets, events>>
  BY <1>2, <1>3, EndKeepsCalls DEF CallsInv
<1>4. ASSUME NEW k \in FirstOf(KindOrder, DOMAIN call[n].undo),
             (secrets' = [secrets EXCEPT ![k] = call[n].undo[k]] /\ UNCHANGED events) \/ (Fault /\ UNCHANGED secrets),
             call' = [call EXCEPT ![n].undo = Restrict(@, DOMAIN @ \ {k}), ![n].err = @ \/ events' # events]
      PROVE  CallsInv'
  <2>1. PICK u : u = Restrict(c.undo, DOMAIN c.undo \ {k})
    OBVIOUS
  <2>2. PICK e : e = (c.err \/ events' # events)
    OBVIOUS
  <2>3. e \in BOOLEAN /\ (~e => ~c.err /\ events' = events)
    BY <2>2, Zenon
  <2>4. PICK v : v = [c EXCEPT !.undo = u, !.err = e]
    OBVIOUS
  <2>5. call' = [call EXCEPT ![n] = v]
    BY <1>1, <1>4, <2>1, <2>2, <2>4, Zenon DEF CallsInv
  <2>6. Is(v, c, c.at, c.todo, u, e, c.mine)
    BY <1>2, <2>4, Updated DEF CallState
  <2>7. k \in DOMAIN c.undo /\ k \in Kinds /\ c.undo[k] \in Secrets /\ secrets \in [Kinds -> Secrets]
        /\ c.undo \in [DOMAIN c.undo -> Secrets] /\ DOMAIN c.undo \subseteq Kinds
    BY <1>1, <1>2, <1>4 DEF FirstOf, CallState, CallsInv
  <2>8. DOMAIN u = DOMAIN c.undo \ {k} /\ u \in [DOMAIN u -> Secrets] /\ \A j \in DOMAIN u : u[j] = c.undo[j]
    BY <2>1, <2>7 DEF Restrict
  <2>9. CallState(v)
    BY <1>2, <2>3, <2>6, <2>7, <2>8 DEF CallState, Is, Ats, PutPlaces, AddPlaces, DeletePlaces
  <2>10. secrets' \in [Kinds -> Secrets] /\ (\A j \in Kinds : j # k => secrets'[j] = secrets[j])
         /\ (events' = events => secrets'[k] = c.undo[k]) /\ events' \in Nat
    BY <1>1, <1>4, <2>7, CallAt
  <2>11. PutIsUndone(v, secrets')
    <3>1. SUFFICES ASSUME v.mine = 0, v.alone, ~v.err
                   PROVE  /\ \A j \in DOMAIN v.undo : v.undo[j] = v.before[j]
                          /\ \A j \in Kinds : j \notin DOMAIN v.undo \/ (v.at = "put" /\ j \in v.todo) => secrets'[j] = v.before[j]
      BY DEF PutIsUndone
    <3>2. ~e /\ c.mine = 0 /\ c.alone
      BY <2>6, <3>1 DEF Is
    <3>3. /\ \A j \in DOMAIN c.undo : c.undo[j] = c.before[j]
          /\ \A j \in Kinds : j \notin DOMAIN c.undo => secrets[j] = c.before[j]
      BY <1>2, <2>3, <3>2 DEF PutIsUndone
    <3>4. v.undo = u /\ v.before = c.before /\ v.at # "put"
      BY <1>2, <2>6 DEF Is
    <3>5. secrets'[k] = c.before[k]
      BY <2>3, <2>7, <2>10, <3>2, <3>3
    <3>6. QED  BY <2>8, <2>10, <3>3, <3>4, <3>5
  <2>12. DeleteStays(v, row', secrets', tasks') /\ (v.alone => call[n].alone)
    BY <1>1, <1>2, <2>6 DEF DeleteStays, Is
  <2>13. stamp' \in Nat /\ row' \in Nat \cup {None}
    BY <1>2 DEF CallsInv
  <2>14. QED  BY <1>2, <2>5, <2>9, <2>10, <2>11, <2>12, <2>13, OneCallGoes
<1>5. QED  BY <1>3, <1>4 DEF Rollback

LEMMA InsertCalls == ASSUME CallsInv, NEW n \in Calls, Insert(n) PROVE CallsInv'
<1>1. PICK c : c = call[n]
  OBVIOUS
<1>2. CallState(c) /\ c.at = "insert" /\ Going(n) /\ c.op = "put" /\ c.at \in PutPlaces
  BY <1>1, CallAt DEF Insert, CallState, PutPlaces
<1>3. CASE PutFails(n)
  BY <1>1, <1>2, <1>3, PutFailsCalls
<1>4. CASE ~PutFails(n)
  <2>1. /\ stamp' = stamp + 1 /\ row' = stamp + 1 /\ UNCHANGED <<secrets, tasks, events>>
        /\ call' = [call EXCEPT ![n].at = "session", ![n].mine = stamp + 1]
    BY <1>4 DEF Insert
  <2>2. PICK k \in Nat : k = stamp + 1 /\ k # 0
    BY DEF CallsInv
  <2>3. PICK v : v = [c EXCEPT !.at = "session", !.mine = k]
    OBVIOUS
  <2>4. call' = [call EXCEPT ![n] = v]
    BY <1>1, <2>1, <2>2, <2>3 DEF CallsInv
  <2>5. Is(v, c, "session", c.todo, c.undo, c.err, k)
    BY <1>2, <2>3, Updated DEF CallState
  <2>6. CallState(v)
    BY <1>2, <2>2, <2>5 DEF CallState, Is, Ats, PutPlaces, AddPlaces, DeletePlaces
  <2>7. PutIsUndone(v, secrets') /\ DeleteStays(v, row', secrets', tasks') /\ (v.alone => call[n].alone)
    BY <1>1, <1>2, <2>5 DEF PutIsUndone, DeleteStays, Is, PutPlaces
  <2>8. events' \in Nat /\ stamp' \in Nat /\ row' \in Nat \cup {None} /\ secrets' \in [Kinds -> Secrets]
    BY <2>1, <2>2 DEF CallsInv
  <2>9. QED  BY <1>2, <2>4, <2>6, <2>7, <2>8, OneCallGoes
<1>5. QED  BY <1>3, <1>4

LEMMA GetSessionCalls == ASSUME CallsInv, NEW n \in Calls, GetSession(n) PROVE CallsInv'
<1>1. PICK c : c = call[n]
  OBVIOUS
<1>2. /\ CallState(c) /\ c.at = "session" /\ Going(n) /\ c.op = "put" /\ c.mine # 0
      /\ UNCHANGED <<row, stamp, secrets, tasks>> /\ events' \in Nat
  BY <1>1, CallAt DEF GetSession, db, CallState, AddPlaces
<1>3. PICK at \in {"invalidate", "notify"} : Goto(n, at)
  BY DEF GetSession
<1>4. PICK v : call' = [call EXCEPT ![n] = v] /\ Is(v, call[n], at, c.todo, c.undo, c.err, c.mine)
  BY <1>1, <1>3, GotoIs
<1>5. at \in Ats /\ at \notin PutPlaces \cup DeletePlaces
  BY DEF Ats, PutPlaces, AddPlaces, DeletePlaces
<1>6. QED  BY <1>1, <1>2, <1>4, <1>5, QuietStep

LEMMA InvalidateCalls == ASSUME CallsInv, NEW n \in Calls, InvalidateClient(n) PROVE CallsInv'
<1>1. PICK c : c = call[n]
  OBVIOUS
<1>2. /\ CallState(c) /\ c.at = "invalidate" /\ Going(n) /\ c.op \in {"put", "delete"} /\ (c.op = "put" => c.mine # 0)
      /\ UNCHANGED <<row, stamp, secrets, tasks>> /\ events' \in Nat
  BY <1>1, CallAt DEF InvalidateClient, db, CallState
<1>3. PICK at : at = IF c.op = "delete" THEN "remove" ELSE "notify"
  OBVIOUS
<1>4. PICK v : call' = [call EXCEPT ![n] = v] /\ Is(v, call[n], at, c.todo, c.undo, c.err, c.mine)
  BY <1>1, <1>3, GotoIs DEF InvalidateClient
<1>5. /\ at \in {"remove", "notify"} /\ (at = "remove" => c.op = "delete") /\ (at = "notify" => c.op = "put")
      /\ at \in Ats /\ at \notin PutPlaces
  BY <1>2, <1>3 DEF Ats, PutPlaces, AddPlaces, DeletePlaces
<1>6. (at \in DeletePlaces => at = "remove") /\ (at \in AddPlaces => at = "notify")
  BY <1>5 DEF DeletePlaces, AddPlaces
<1>7. QED  BY <1>1, <1>2, <1>4, <1>5, <1>6, QuietStep

LEMMA ClusterChangeCalls == ASSUME CallsInv, NEW n \in Calls, onClusterChange(n) PROVE CallsInv'
<1>1. PICK c : c = call[n]
  OBVIOUS
<1>2. /\ CallState(c) /\ c.at = "notify" /\ Going(n) /\ c.op = "put" /\ c.mine # 0
      /\ UNCHANGED <<row, stamp, secrets, tasks>> /\ events' \in Nat
  BY <1>1, CallAt DEF onClusterChange, db, CallState, AddPlaces
<1>3. CASE Ends(n, "ok")
  BY <1>2, <1>3, EndKeepsCalls DEF CallsInv
<1>4. CASE call' = [call EXCEPT ![n].at = "tasks", ![n].todo = Range(AutoTasks)]
  <2>1. PICK t : t = Range(AutoTasks)
    OBVIOUS
  <2>2. PICK v : v = [c EXCEPT !.at = "tasks", !.todo = t]
    OBVIOUS
  <2>3. call' = [call EXCEPT ![n] = v]
    BY <1>1, <1>4, <2>1, <2>2 DEF CallsInv
  <2>4. Is(v, c, "tasks", t, c.undo, c.err, c.mine)
    BY <1>2, <2>2, Updated DEF CallState
  <2>5. "tasks" \in Ats /\ "tasks" \notin PutPlaces \cup DeletePlaces
    BY DEF Ats, PutPlaces, AddPlaces, DeletePlaces
  <2>6. QED  BY <1>1, <1>2, <2>3, <2>4, <2>5, QuietStep
<1>5. QED  BY <1>3, <1>4 DEF onClusterChange

LEMMA PutTasksCalls == ASSUME CallsInv, NEW n \in Calls, PutTasks(n) PROVE CallsInv'
<1>1. PICK c : c = call[n]
  OBVIOUS
<1>2. CallState(c) /\ c.at = "tasks" /\ Going(n) /\ c.op = "put" /\ c.mine # 0
  BY <1>1, CallAt DEF PutTasks, CallState, AddPlaces
<1>3. CASE PutFails(n)
  BY <1>1, <1>2, <1>3, PutFailsCalls
<1>4. CASE Ends(n, "ok") /\ UNCHANGED <<row, stamp, secrets, tasks, events>>
  BY <1>2, <1>4, EndKeepsCalls DEF CallsInv
<1>5. ASSUME NEW t, call' = [call EXCEPT ![n].todo = @ \ {t}], UNCHANGED <<row, stamp, secrets, events>>
      PROVE  CallsInv'
  <2>1. PICK todo : todo = c.todo \ {t}
    OBVIOUS
  <2>2. PICK v : v = [c EXCEPT !.todo = todo]
    OBVIOUS
  <2>3. call' = [call EXCEPT ![n] = v]
    BY <1>1, <1>5, <2>1, <2>2 DEF CallsInv
  <2>4. Is(v, c, "tasks", todo, c.undo, c.err, c.mine)
    BY <1>2, <2>2, Updated DEF CallState
  <2>5. CallState(v)
    BY <1>2, <2>4 DEF CallState, Is, Ats, PutPlaces, AddPlaces, DeletePlaces
  <2>6. PutIsUndone(v, secrets') /\ DeleteStays(v, row', secrets', tasks') /\ (v.alone => call[n].alone)
    BY <1>1, <1>2, <2>4 DEF PutIsUndone, DeleteStays, Is, PutPlaces
  <2>7. events' \in Nat /\ stamp' \in Nat /\ row' \in Nat \cup {None} /\ secrets' \in [Kinds -> Secrets]
    BY <1>5 DEF CallsInv
  <2>8. QED  BY <1>2, <2>3, <2>5, <2>6, <2>7, OneCallGoes
<1>6. QED  BY <1>3, <1>4, <1>5 DEF PutTasks, db

LEMMA DeleteRowCalls == ASSUME CallsInv, NEW n \in Calls, DeleteRow(n) PROVE CallsInv'
<1>1. PICK c : c = call[n]
  OBVIOUS
<1>2. CallState(c) /\ c.at = "row" /\ Going(n) /\ c.op = "delete" /\ UNCHANGED <<secrets, tasks>>
  BY <1>1, CallAt DEF DeleteRow, CallState, DeletePlaces
<1>3. CASE Fault /\ Ends(n, "failed") /\ UNCHANGED <<row, stamp>>
  BY <1>2, <1>3, EndKeepsCalls, CallAt DEF CallsInv
<1>4. CASE /\ stamp' = stamp + 1 /\ row' = None /\ UNCHANGED events
           /\ call' = [call EXCEPT ![n].at = "secrets", ![n].mine = stamp + 1]
  <2>1. PICK k \in Nat : k = stamp + 1 /\ k # 0
    BY DEF CallsInv
  <2>2. PICK v : v = [c EXCEPT !.at = "secrets", !.mine = k]
    OBVIOUS
  <2>3. call' = [call EXCEPT ![n] = v]
    BY <1>1, <1>4, <2>1, <2>2 DEF CallsInv
  <2>4. Is(v, c, "secrets", c.todo, c.undo, c.err, k)
    BY <1>2, <2>2, Updated DEF CallState
  <2>5. CallState(v)
    BY <1>2, <2>1, <2>4 DEF CallState, Is, Ats, PutPlaces, AddPlaces, DeletePlaces
  <2>6. PutIsUndone(v, secrets') /\ DeleteStays(v, row', secrets', tasks') /\ (v.alone => call[n].alone)
    BY <1>1, <1>4, <2>4 DEF PutIsUndone, DeleteStays, Is, PutPlaces
  <2>7. events' \in Nat /\ stamp' \in Nat /\ row' \in Nat \cup {None} /\ secrets' \in [Kinds -> Secrets]
    BY <1>2, <1>4, <2>1 DEF CallsInv
  <2>8. QED  BY <1>2, <2>3, <2>5, <2>6, <2>7, OneCallGoes
<1>5. QED  BY <1>3, <1>4 DEF DeleteRow

LEMMA DeleteAllCalls == ASSUME CallsInv, NEW n \in Calls, DeleteAll(n) PROVE CallsInv'
<1>1. PICK c : c = call[n]
  OBVIOUS
<1>2. /\ CallState(c) /\ DeleteStays(c, row, secrets, tasks) /\ c.at = "secrets" /\ Going(n) /\ c.op = "delete"
      /\ UNCHANGED <<row, stamp, tasks>>
  BY <1>1, CallAt DEF DeleteAll, CallState, DeletePlaces
<1>3. CASE Fault /\ Ends(n, "failed") /\ UNCHANGED secrets
  BY <1>2, <1>3, EndKeepsCalls, CallAt DEF CallsInv
<1>4. CASE secrets' = [k \in Kinds |-> NoSecret] /\ Goto(n, "invalidate") /\ UNCHANGED events
  <2>1. PICK v : call' = [call EXCEPT ![n] = v] /\ Is(v, call[n], "invalidate", c.todo, c.undo, c.err, c.mine)
    BY <1>1, <1>4, GotoIs
  <2>2. secrets' \in [Kinds -> Secrets] /\ \A k \in Kinds : secrets'[k] = NoSecret
    BY <1>4, ClustersAssumption DEF Secrets, OldSecret, NoSecret
  <2>3. CallState(v)
    BY <1>1, <1>2, <2>1 DEF CallState, Is, Ats, PutPlaces, AddPlaces, DeletePlaces
  <2>4. PutIsUndone(v, secrets')
    BY <2>1 DEF PutIsUndone, Is, PutPlaces
  <2>5. DeleteStays(v, row, secrets', tasks)
    <3>1. SUFFICES ASSUME v.alone PROVE row \in {None, Bare}
      BY <2>1, <2>2 DEF DeleteStays, Is
    <3>2. QED  BY <1>1, <1>2, <2>1, <3>1 DEF DeleteStays, Is, IsGoing
  <2>6. events' \in Nat /\ stamp' \in Nat /\ row' \in Nat \cup {None} /\ DeleteStays(v, row', secrets', tasks')
    BY <1>2, <1>4, <2>5 DEF CallsInv
  <2>7. v.alone => call[n].alone
    BY <1>1, <2>1 DEF Is
  <2>8. QED  BY <1>2, <2>1, <2>2, <2>3, <2>4, <2>6, <2>7, OneCallGoes
<1>5. QED  BY <1>3, <1>4 DEF DeleteAll

LEMMA RemoveCalls == ASSUME CallsInv, NEW n \in Calls, RemoveCluster(n) PROVE CallsInv'
<1>1. PICK c : c = call[n]
  OBVIOUS
<1>2. /\ CallState(c) /\ c.at = "remove" /\ Going(n) /\ c.op = "delete"
      /\ UNCHANGED <<row, stamp, secrets, tasks>> /\ events' \in Nat
  BY <1>1, CallAt DEF RemoveCluster, db, CallState, DeletePlaces
<1>3. PICK v : call' = [call EXCEPT ![n] = v] /\ Is(v, call[n], "list", c.todo, c.undo, c.err, c.mine)
  BY <1>1, GotoIs DEF RemoveCluster
<1>4. "list" \in Ats /\ "list" \notin PutPlaces \cup AddPlaces
  BY DEF Ats, PutPlaces, AddPlaces, DeletePlaces
<1>5. QED  BY <1>1, <1>2, <1>3, <1>4, QuietStep

LEMMA ListTasksCalls == ASSUME CallsInv, NEW n \in Calls, ListTasks(n) PROVE CallsInv'
<1>1. PICK c : c = call[n]
  OBVIOUS
<1>2. /\ CallState(c) /\ DeleteStays(c, row, secrets, tasks) /\ c.at = "list" /\ Going(n) /\ c.op = "delete"
      /\ UNCHANGED <<row, stamp, secrets, tasks>>
  BY <1>1, CallAt DEF ListTasks, db, CallState, DeletePlaces
<1>3. CASE Fault /\ Ends(n, "failed")
  BY <1>2, <1>3, EndKeepsCalls, CallAt DEF CallsInv
<1>4. CASE call' = [call EXCEPT ![n].at = "clean", ![n].todo = tasks] /\ UNCHANGED events
  <2>1. PICK t : t = tasks
    OBVIOUS
  <2>2. PICK v : v = [c EXCEPT !.at = "clean", !.todo = t]
    OBVIOUS
  <2>3. call' = [call EXCEPT ![n] = v]
    BY <1>1, <1>4, <2>1, <2>2 DEF CallsInv
  <2>4. Is(v, c, "clean", t, c.undo, c.err, c.mine)
    BY <1>2, <2>2, Updated DEF CallState
  <2>5. CallState(v)
    BY <1>2, <2>4 DEF CallState, Is, Ats, PutPlaces, AddPlaces, DeletePlaces
  <2>6. PutIsUndone(v, secrets) /\ (v.alone => call[n].alone)
    BY <1>1, <2>4 DEF PutIsUndone, Is, PutPlaces
  <2>7. DeleteStays(v, row, secrets, tasks)
    BY <1>2, <2>1, <2>4 DEF DeleteStays, Is, IsGoing
  <2>8. /\ events' \in Nat /\ stamp' \in Nat /\ row' \in Nat \cup {None} /\ secrets' \in [Kinds -> Secrets]
        /\ PutIsUndone(v, secrets') /\ DeleteStays(v, row', secrets', tasks')
    BY <1>2, <1>4, <2>6, <2>7 DEF CallsInv
  <2>9. QED  BY <1>2, <2>3, <2>5, <2>6, <2>8, OneCallGoes
<1>5. QED  BY <1>3, <1>4 DEF ListTasks

LEMMA DeleteTasksCalls == ASSUME CallsInv, NEW n \in Calls, DeleteTasks(n) PROVE CallsInv'
<1>1. PICK c : c = call[n]
  OBVIOUS
<1>2. /\ CallState(c) /\ DeleteStays(c, row, secrets, tasks) /\ c.at = "clean" /\ Going(n) /\ c.op = "delete"
      /\ UNCHANGED <<row, stamp, secrets>>
  BY <1>1, CallAt DEF DeleteTasks, CallState, DeletePlaces
<1>3. ASSUME NEW at \in {"ok", "failed"}, Ends(n, at), UNCHANGED events PROVE CallsInv'
  BY <1>2, <1>3, EndKeepsCalls DEF CallsInv
<1>4. ASSUME NEW t, (tasks' = tasks \ {t} /\ UNCHANGED events) \/ (Fault /\ UNCHANGED tasks),
             call' = [call EXCEPT ![n].todo = @ \ {t}, ![n].err = @ \/ events' # events]
      PROVE  CallsInv'
  <2>1. PICK todo : todo = c.todo \ {t}
    OBVIOUS
  <2>2. PICK e : e = (c.err \/ events' # events)
    OBVIOUS
  <2>3. e \in BOOLEAN /\ (~e => ~c.err /\ events' = events)
    BY <2>2, Zenon
  <2>4. PICK v : v = [c EXCEPT !.todo = todo, !.err = e]
    OBVIOUS
  <2>5. call' = [call EXCEPT ![n] = v]
    BY <1>1, <1>4, <2>1, <2>2, <2>4, Zenon DEF CallsInv
  <2>6. Is(v, c, c.at, todo, c.undo, e, c.mine)
    BY <1>2, <2>4, Updated DEF CallState
  <2>7. CallState(v)
    BY <1>2, <2>3, <2>6 DEF CallState, Is, PutPlaces, AddPlaces, DeletePlaces
  <2>8. PutIsUndone(v, secrets') /\ (v.alone => call[n].alone)
    BY <1>1, <1>2, <2>6 DEF PutIsUndone, Is, PutPlaces
  <2>9. ~e => tasks' = tasks \ {t}
    BY <1>4, <2>3, CallAt
  <2>10. DeleteStays(v, row, secrets, tasks')
    <3>1. SUFFICES ASSUME v.alone
                   PROVE  row \in {None, Bare} /\ (\A k \in Kinds : secrets[k] = NoSecret) /\ (~v.err => tasks' \subseteq v.todo)
      BY DEF DeleteStays
    <3>2. row \in {None, Bare} /\ (\A k \in Kinds : secrets[k] = NoSecret) /\ (~c.err => tasks \subseteq c.todo)
      BY <1>2, <2>6, <3>1 DEF DeleteStays, Is, IsGoing
    <3>3. v.err = e /\ v.todo = c.todo \ {t}
      BY <2>1, <2>6 DEF Is
    <3>4. QED  BY <2>3, <2>9, <3>2, <3>3
  <2>11. /\ events' \in Nat /\ stamp' \in Nat /\ row' \in Nat \cup {None} /\ secrets' \in [Kinds -> Secrets]
         /\ DeleteStays(v, row', secrets', tasks')
    BY <1>2, <1>4, <2>10, CallAt DEF CallsInv
  <2>12. QED  BY <1>2, <2>5, <2>7, <2>8, <2>11, OneCallGoes
<1>5. QED  BY <1>3, <1>4 DEF DeleteTasks

LEMMA ForgetCalls == ASSUME CallsInv, NEW n \in Calls, Forget(n) PROVE CallsInv'
<1>1. PICK c : c = call[n]
  OBVIOUS
<1>2. /\ CallState(c) /\ c.at = "forget" /\ Going(n) /\ c.op = "forget" /\ c.todo \subseteq Kinds
      /\ UNCHANGED <<row, stamp, tasks>>
  BY <1>1, CallAt DEF Forget, CallState
<1>3. CASE Fault /\ Ends(n, "failed") /\ UNCHANGED secrets
  BY <1>2, <1>3, EndKeepsCalls, CallAt DEF CallsInv
<1>4. ASSUME NEW k, secrets' = [secrets EXCEPT ![k] = NoSecret], Forgotten(n, k), UNCHANGED events
      PROVE  CallsInv'
  <2>1. secrets' \in [Kinds -> Secrets]
    <3>1. NoSecret \in Secrets
      BY ClustersAssumption DEF Secrets, OldSecret, NoSecret
    <3>2. QED  BY <1>4, <3>1 DEF CallsInv
  <2>2. CASE Ends(n, "ok")
    BY <1>2, <1>4, <2>1, <2>2, EndKeepsCalls DEF CallsInv
  <2>3. CASE call' = [call EXCEPT ![n].todo = @ \ {k}]
    <3>1. PICK todo : todo = c.todo \ {k}
      OBVIOUS
    <3>2. PICK v : v = [c EXCEPT !.todo = todo]
      OBVIOUS
    <3>3. call' = [call EXCEPT ![n] = v]
      BY <1>1, <2>3, <3>1, <3>2 DEF CallsInv
    <3>4. Is(v, c, c.at, todo, c.undo, c.err, c.mine)
      BY <1>2, <3>2, Updated DEF CallState
    <3>5. CallState(v)
      BY <1>2, <3>1, <3>4 DEF CallState, Is, PutPlaces, AddPlaces, DeletePlaces
    <3>6. PutIsUndone(v, secrets') /\ DeleteStays(v, row', secrets', tasks') /\ (v.alone => call[n].alone)
      BY <1>1, <1>2, <3>4 DEF PutIsUndone, DeleteStays, Is, PutPlaces
    <3>7. events' \in Nat /\ stamp' \in Nat /\ row' \in Nat \cup {None}
      BY <1>2, <1>4 DEF CallsInv
    <3>8. QED  BY <1>2, <2>1, <3>3, <3>5, <3>6, <3>7, OneCallGoes
  <2>4. QED  BY <1>4, <2>2, <2>3 DEF Forgotten
<1>5. QED  BY <1>3, <1>4 DEF Forget

LEMMA StepKeepsCalls == ASSUME CallsInv, NEW n \in Calls, Step(n) PROVE CallsInv'
BY CheckCalls, GetSecretCalls, PutSecretCalls, RollbackCalls, InsertCalls, GetSessionCalls, InvalidateCalls,
   ClusterChangeCalls, PutTasksCalls, DeleteRowCalls, DeleteAllCalls, RemoveCalls, ListTasksCalls, DeleteTasksCalls,
   ForgetCalls DEF Step

(* A call that begins: nothing is undone, it is alone if no other is on, and no other one is any more. *)
LEMMA StartKeepsCalls ==
  ASSUME CallsInv, NEW n \in Calls, NEW at \in {"check", "row", "forget"}, NEW op,
         NEW c, CallFields(c), c.at = at, c.op = op, c.undo = Nothing, c.err = FALSE, c.mine = 0,
         at = "check" => op = "put", at = "row" => op = "delete", at = "forget" => op = "forget",
         at \in {"check", "forget"} => c.todo \subseteq Kinds, Start(n, c)
  PROVE  CallsInv'
<1>1. PICK b : b = \A l \in Calls : ~Going(l)
  OBVIOUS
<1>2. b \in BOOLEAN /\ (b => \A l \in Calls : ~Going(l))
  BY <1>1, Zenon
<1>3. PICK s : s = secrets
  OBVIOUS
<1>4. PICK v : v = [c EXCEPT !.alone = b, !.before = s]
  OBVIOUS
<1>5. UNCHANGED <<row, stamp, secrets, tasks, events>> /\ s \in [Kinds -> Secrets]
  BY <1>3 DEF Start, db, CallsInv
<1>6. call' = [m \in Calls |-> IF m = n THEN v ELSE IF Going(m) THEN [call[m] EXCEPT !.alone = FALSE] ELSE call[m]]
  <2>1. v = [c EXCEPT !.alone = \A l \in Calls : ~Going(l), !.before = secrets]
    BY <1>1, <1>3, <1>4, Zenon
  <2>2. call' = [m \in Calls |-> IF m = n THEN [c EXCEPT !.alone = \A l \in Calls : ~Going(l), !.before = secrets]
                                 ELSE IF Going(m) THEN [call[m] EXCEPT !.alone = FALSE]
                                 ELSE call[m]]
    BY DEF Start
  <2>3. QED  BY <2>1, <2>2, Zenon
<1>7. CallFields(v) /\ v.at = at /\ v.op = op /\ v.undo = Nothing /\ v.err = FALSE /\ v.mine = 0 /\ v.todo = c.todo
      /\ v.alone = b /\ v.before = s
  BY <1>4 DEF CallFields
<1>8. DOMAIN v.undo = {} /\ v.undo \in [DOMAIN v.undo -> Secrets]
  BY <1>7 DEF Nothing
<1>9. CallState(v)
  <2>1. v.err \in BOOLEAN /\ v.alone \in BOOLEAN
    BY <1>2, <1>7, Zenon
  <2>2. /\ v.at \in Ats /\ v.at \notin AddPlaces \cup {"invalidate", "secret", "put"}
        /\ (v.at \in PutPlaces => v.at = "check") /\ (v.at \in DeletePlaces => v.at = "row")
    BY <1>7 DEF Ats, PutPlaces, AddPlaces, DeletePlaces
  <2>3. v.todo \subseteq Kinds \/ v.at = "row"
    BY <1>7
  <2>4. QED  BY <1>5, <1>7, <1>8, <2>1, <2>2, <2>3 DEF CallState
<1>10. PutIsUndone(v, secrets) /\ DeleteStays(v, row, secrets, tasks)
  BY <1>3, <1>7, <1>8 DEF PutIsUndone, DeleteStays
<1>11. ASSUME NEW m \in Calls, m # n
       PROVE  /\ CallState(call'[m]) /\ PutIsUndone(call'[m], secrets) /\ DeleteStays(call'[m], row, secrets, tasks)
              /\ call'[m].at = call[m].at /\ (Going(m) => ~call'[m].alone)
  <2>1. PICK d : d = call[m]
    OBVIOUS
  <2>2. CallState(d) /\ PutIsUndone(d, secrets) /\ DeleteStays(d, row, secrets, tasks)
    BY <2>1, CallAt
  <2>3. CASE ~Going(m)
    BY <1>6, <1>11, <2>1, <2>2, <2>3
  <2>4. CASE Going(m)
    <3>1. PICK w : w = [d EXCEPT !.alone = FALSE]
      OBVIOUS
    <3>2. call'[m] = w
      BY <1>6, <1>11, <2>1, <2>4, <3>1
    <3>3. /\ CallFields(w) /\ w.at = d.at /\ w.op = d.op /\ w.undo = d.undo /\ w.err = d.err /\ w.mine = d.mine
          /\ w.todo = d.todo /\ w.before = d.before /\ w.alone = FALSE
      BY <2>2, <3>1 DEF CallState, CallFields
    <3>4. CallState(w)
      BY <2>2, <3>3 DEF CallState
    <3>5. PutIsUndone(w, secrets) /\ DeleteStays(w, row, secrets, tasks)
      BY <3>3 DEF PutIsUndone, DeleteStays
    <3>6. QED  BY <2>1, <3>2, <3>3, <3>4, <3>5
  <2>5. QED  BY <2>3, <2>4
<1>12. Alone'
  <2>1. call'[n] = v
    BY <1>6
  <2>2. \A m \in Calls : m # n => (Going(m)' <=> Going(m))
    BY <1>11 DEF Going
  <2>3. QED  BY <1>2, <1>7, <1>11, <2>1, <2>2 DEF Alone
<1>13. \A m \in Calls : CallState(call'[m]) /\ PutIsUndone(call'[m], secrets) /\ DeleteStays(call'[m], row, secrets, tasks)
  BY <1>6, <1>9, <1>10, <1>11
<1>14. \A m \in Calls : CallState(call[m])'
  BY <1>13 DEF CallState, CallFields
<1>15. \A m \in Calls : PutIsUndone(call[m], secrets)' /\ DeleteStays(call[m], row, secrets, tasks)'
  BY <1>5, <1>13 DEF PutIsUndone, DeleteStays, IsGoing
<1>16. call' = [m \in Calls |-> call'[m]]
  BY <1>6
<1>17. QED  BY <1>5, <1>12, <1>14, <1>15, <1>16 DEF CallsInv

LEMMA NewCallKeepsCalls == ASSUME CallsInv, NEW n \in Calls, NewCall(n) PROVE CallsInv'
<1>1. PICK c : c = NoCall
  OBVIOUS
<1>2. CallFields(c) /\ c.op = "put" /\ c.undo = Nothing /\ c.err = FALSE /\ c.mine = 0 /\ c.todo = {}
  BY <1>1 DEF NoCall, CallFields
<1>3. ASSUME NEW given \in Given, PutCluster(n, given) PROVE CallsInv'
  <2>1. PICK y : y = IF row = None THEN "create" ELSE "update"
    OBVIOUS
  <2>2. PICK v : v = [c EXCEPT !.at = "check", !.type = y, !.todo = given]
    OBVIOUS
  <2>3. Start(n, v)
    BY <1>1, <1>3, <2>1, <2>2 DEF PutCluster
  <2>4. CallFields(v) /\ v.at = "check" /\ v.op = "put" /\ v.undo = Nothing /\ v.err = FALSE /\ v.mine = 0 /\ v.todo = given
    BY <1>2, <2>2 DEF CallFields
  <2>5. v.todo \subseteq Kinds
    BY <2>4, ClustersAssumption
  <2>6. QED  BY <2>3, <2>4, <2>5, StartKeepsCalls
<1>4. CASE DeleteCluster(n)
  <2>1. PICK v : v = [c EXCEPT !.op = "delete", !.at = "row"]
    OBVIOUS
  <2>2. Start(n, v)
    BY <1>1, <1>4, <2>1 DEF DeleteCluster
  <2>3. CallFields(v) /\ v.at = "row" /\ v.op = "delete" /\ v.undo = Nothing /\ v.err = FALSE /\ v.mine = 0
    BY <1>2, <2>1 DEF CallFields
  <2>4. QED  BY <2>2, <2>3, StartKeepsCalls
<1>5. ASSUME NEW S \in SUBSET Kinds, DeleteSecrets(n, S) PROVE CallsInv'
  <2>1. PICK v : v = [c EXCEPT !.op = "forget", !.at = "forget", !.todo = S]
    OBVIOUS
  <2>2. Start(n, v)
    BY <1>1, <1>5, <2>1 DEF DeleteSecrets
  <2>3. CallFields(v) /\ v.at = "forget" /\ v.op = "forget" /\ v.undo = Nothing /\ v.err = FALSE /\ v.mine = 0 /\ v.todo = S
    BY <1>2, <2>1 DEF CallFields
  <2>4. QED  BY <1>5, <2>2, <2>3, StartKeepsCalls
<1>6. QED  BY <1>3, <1>4, <1>5 DEF NewCall

(* What others do to the database: the hosts of a deleted row are written. *)
LEMMA OthersKeepCalls ==
  ASSUME CallsInv, UNCHANGED <<call, stamp, secrets, tasks>>, events' \in Nat,
         row' = row \/ (row = None /\ row' = Bare)
  PROVE  CallsInv'
<1>1. row' \in Nat \cup {None} /\ (row \in {None, Bare} => row' \in {None, Bare})
  BY DEF CallsInv, Bare
<1>2. \A n \in Calls : CallState(call[n])'
  BY DEF CallsInv, CallState, CallFields
<1>3. Alone'
  BY DEF CallsInv, Alone, Going
<1>4. ASSUME NEW n \in Calls PROVE PutIsUndone(call[n], secrets)' /\ DeleteStays(call[n], row, secrets, tasks)'
  <2>1. PutIsUndone(call[n], secrets) /\ DeleteStays(call[n], row, secrets, tasks)
    BY DEF CallsInv
  <2>2. QED  BY <1>1, <2>1 DEF PutIsUndone, DeleteStays, IsGoing
<1>5. QED  BY <1>1, <1>2, <1>3, <1>4 DEF CallsInv

LEMMA JobsKeepCalls == ASSUME CallsInv, NEW p \in Callers, CreateClientNoCache(p) PROVE CallsInv'
<1>1. UNCHANGED <<call, stamp, secrets, tasks>> /\ (row' = row \/ (row = None /\ row' = Bare))
  BY DEF CreateClientNoCache, GetClusterByID, setKnownHosts, JobFails, db
<1>2. events' \in Nat
  BY DEF CreateClientNoCache, GetClusterByID, setKnownHosts, Fault, CallsInv
<1>3. QED  BY <1>1, <1>2, OthersKeepCalls

LEMMA ReadersKeepCalls == ASSUME CallsInv, NEW r \in Readers, Client(r) PROVE CallsInv'
<1>1. UNCHANGED <<call, stamp, secrets, tasks, row, events>>
  BY DEF Client, getClientTTL, Lock, isValid, isInvalid, Created, db
<1>2. events' \in Nat
  BY <1>1 DEF CallsInv
<1>3. QED  BY <1>1, <1>2, OthersKeepCalls

LEMMA UpdatesKeepCalls ==
  ASSUME CallsInv, (\E x \in Updates : Update(x)) \/ ForceUpdateHosts \/ updateAll \/ NodesChange
  PROVE  CallsInv'
<1>1. ASSUME NEW x \in Updates, Update(x) PROVE UNCHANGED <<call, db>> /\ events' \in Nat
  <2>1. CASE ForceUpdateCluster(x)
    BY <2>1 DEF ForceUpdateCluster, UpdateClient, UpdateFails, Fault, CallsInv
  <2>2. CASE updateSingle(x)
    BY <2>2 DEF updateSingle, UpdateFails, CallsInv
  <2>3. CASE Store(x)
    BY <2>3 DEF Store, CallsInv
  <2>4. ASSUME NEW h, retrieveNodeConfig(x, h) PROVE UNCHANGED <<call, db>> /\ events' \in Nat
    BY <2>4 DEF retrieveNodeConfig, Fault, CallsInv
  <2>5. QED  BY <1>1, <2>1, <2>2, <2>3, <2>4 DEF Update
<1>2. ASSUME NEW hosts, UpdateClient(Backup, hosts), Fault PROVE UNCHANGED <<call, db>> /\ events' \in Nat
  BY <1>2 DEF UpdateClient, Fault, CallsInv
<1>3. CASE updateAll
  BY <1>3, OthersKeepCalls DEF updateAll, UpdateClient, CallsInv, db
<1>4. CASE NodesChange
  BY <1>4, OthersKeepCalls DEF NodesChange, Fault, CallsInv, db
<1>5. QED  BY <1>1, <1>2, <1>3, <1>4, OthersKeepCalls DEF db, ForceUpdateHosts

LEMMA CrashKeepsCalls == ASSUME CallsInv, Crash PROVE CallsInv'
<1>1. UNCHANGED <<row, stamp, secrets, tasks>> /\ events' \in Nat
  BY DEF Crash, db, Fault, CallsInv
<1>2. PICK v : v = [NoCall EXCEPT !.at = "lost"]
  OBVIOUS
<1>3. CallState(v) /\ ~v.alone /\ \A sec, r, ts : PutIsUndone(v, sec) /\ DeleteStays(v, r, sec, ts)
  BY <1>2, EndedIs
<1>4. ~IsGoing(v)
  BY <1>2, EndedIs
<1>5. call' = [n \in Calls |-> IF Going(n) THEN v ELSE call[n]]
  BY <1>2 DEF Crash
<1>6. ASSUME NEW n \in Calls
      PROVE  CallState(call'[n]) /\ ~IsGoing(call'[n]) /\ PutIsUndone(call'[n], secrets) /\ DeleteStays(call'[n], row, secrets, tasks)
  <2>1. CallState(call[n]) /\ PutIsUndone(call[n], secrets) /\ DeleteStays(call[n], row, secrets, tasks)
    BY CallAt
  <2>2. CASE Going(n)
    BY <1>3, <1>4, <1>5, <2>2
  <2>3. CASE ~Going(n)
    BY <1>5, <2>1, <2>3 DEF Going, IsGoing
  <2>4. QED  BY <2>2, <2>3
<1>7. Alone'
  BY <1>6 DEF Alone, Going, IsGoing
<1>8. \A n \in Calls : CallState(call[n])' /\ PutIsUndone(call[n], secrets)' /\ DeleteStays(call[n], row, secrets, tasks)'
  BY <1>1, <1>6 DEF CallState, CallFields, PutIsUndone, DeleteStays, IsGoing
<1>9. call' = [n \in Calls |-> call'[n]]
  BY <1>5
<1>10. QED  BY <1>1, <1>7, <1>8, <1>9 DEF CallsInv

LEMMA InitCalls == ASSUME Init PROVE CallsInv
<1>1. PICK c : c = NoCall
  OBVIOUS
<1>2. CallFields(c) /\ c.at = "new" /\ c.undo = Nothing /\ c.err = FALSE /\ c.alone = FALSE /\ c.mine = 0
      /\ c.before = [k \in Kinds |-> NoSecret]
  BY <1>1 DEF NoCall, CallFields
<1>3. NoSecret \in Secrets /\ OldSecret \in Secrets
  BY ClustersAssumption DEF Secrets, OldSecret, NoSecret
<1>4. /\ events = 0 /\ stamp \in Nat /\ row \in Nat \cup {None} /\ secrets \in [Kinds -> Secrets]
      /\ call = [n \in Calls |-> c]
  BY <1>1, <1>3 DEF Init
<1>5. DOMAIN c.undo = {} /\ c.undo \in [DOMAIN c.undo -> Secrets]
  BY <1>2 DEF Nothing
<1>6. c.err \in BOOLEAN /\ c.alone \in BOOLEAN /\ ~c.alone
  BY <1>2
<1>7. c.at \in Ats /\ c.at \notin PutPlaces \cup AddPlaces \cup DeletePlaces \cup {"invalidate", "forget"}
  BY <1>2 DEF Ats, PutPlaces, AddPlaces, DeletePlaces
<1>8. CallState(c)
  BY <1>2, <1>3, <1>5, <1>6, <1>7 DEF CallState, PutPlaces, AddPlaces
<1>9. PutIsUndone(c, secrets) /\ DeleteStays(c, row, secrets, tasks)
  BY <1>2, <1>7 DEF PutIsUndone, DeleteStays
<1>10. QED  BY <1>2, <1>4, <1>6, <1>8, <1>9 DEF CallsInv, Alone

LEMMA NextKeepsCalls == ASSUME CallsInv, [Next]_vars PROVE CallsInv'
<1>1. CASE UNCHANGED vars
  BY <1>1, OthersKeepCalls DEF vars, db, CallsInv
<1>2. QED  BY <1>1, NewCallKeepsCalls, StepKeepsCalls, JobsKeepCalls, ReadersKeepCalls, UpdatesKeepCalls, CrashKeepsCalls
           DEF Next

-----------------------------------------------------------------------------
(* The place that a call is at after a step of it. *)
Gets(n, at) == (\A m \in Calls : m # n => call'[m] = call[m]) /\ call'[n].at = at

LEMMA PlaceAfter ==
  ASSUME CallsInv, NEW n \in Calls
  PROVE  /\ \A at : Goto(n, at) \/ Ends(n, at) => Gets(n, at)
         /\ \A at, x : call' = [call EXCEPT ![n].at = at, ![n].todo = x] => Gets(n, at)
         /\ \A at, x : call' = [call EXCEPT ![n].at = at, ![n].undo = x] => Gets(n, at)
         /\ \A at : \A k \in Nat : call' = [call EXCEPT ![n].at = at, ![n].mine = k] => Gets(n, at)
         /\ \A x : call' = [call EXCEPT ![n].todo = x] => Gets(n, call[n].at)
         /\ \A x, e : call' = [call EXCEPT ![n].todo = x, ![n].err = e] => Gets(n, call[n].at)
         /\ \A x, e : call' = [call EXCEPT ![n].undo = x, ![n].err = e] => Gets(n, call[n].at)
<1>1. CallsOk
  BY DEF CallsInv, CallState, CallsOk
<1>2. ASSUME NEW at, Goto(n, at) PROVE Gets(n, at)
  BY <1>1, <1>2, GotoMoves DEF Moves, Gets
<1>3. ASSUME NEW at, Ends(n, at) PROVE Gets(n, at)
  BY <1>1, <1>3, EndsMoves DEF Gets
<1>4. ASSUME NEW at, NEW x, call' = [call EXCEPT ![n].at = at, ![n].todo = x] PROVE Gets(n, at)
  BY <1>1, <1>4, AtTodoMoves DEF Moves, Gets
<1>5. ASSUME NEW at, NEW x, call' = [call EXCEPT ![n].at = at, ![n].undo = x] PROVE Gets(n, at)
  BY <1>1, <1>5, AtUndoMoves DEF Moves, Gets
<1>6. ASSUME NEW at, NEW k \in Nat, call' = [call EXCEPT ![n].at = at, ![n].mine = k] PROVE Gets(n, at)
  BY <1>1, <1>6, AtMineMoves DEF Moves, Gets
<1>7. ASSUME NEW x, call' = [call EXCEPT ![n].todo = x] PROVE Gets(n, call[n].at)
  BY <1>1, <1>7, TodoMoves DEF Moves, Gets
<1>8. ASSUME NEW x, NEW e, call' = [call EXCEPT ![n].todo = x, ![n].err = e] PROVE Gets(n, call[n].at)
  BY <1>1, <1>8, TodoErrMoves DEF Moves, Gets
<1>9. ASSUME NEW x, NEW e, call' = [call EXCEPT ![n].undo = x, ![n].err = e] PROVE Gets(n, call[n].at)
  BY <1>1, <1>9, UndoErrMoves DEF Moves, Gets
<1>10. QED  BY <1>2, <1>3, <1>4, <1>5, <1>6, <1>7, <1>8, <1>9

(* Who ends a call, and how; who writes the row. *)
Before == {"new", "check", "secret", "put", "insert", "row"}
Writes(from, at) ==
  \/ UNCHANGED <<row, stamp>> /\ (at \in Before => from \in Before)
  \/ stamp' = stamp + 1 /\ row' \in {stamp', None} /\ from \in Before /\ at \notin Before
EndsAfter(n, from, at) ==
  /\ at = "failed" => \/ from \in DeletePlaces \cup {"forget"}
                      \/ from = "check" /\ UNCHANGED secrets
                      \/ from = "rollback" /\ DOMAIN call[n].undo = {} /\ UNCHANGED secrets
  /\ at = "ok" => \/ from \in AddPlaces \cup {"forget"}
                  \/ from = "clean" /\ call[n].todo = {} /\ ~call[n].err /\ UNCHANGED <<row, secrets, tasks>>

LEMMA StepEnds ==
  ASSUME CallsInv, NEW n \in Calls, Step(n)
  PROVE  \E at : Gets(n, at) /\ Writes(call[n].at, at) /\ EndsAfter(n, call[n].at, at)
<1> DEFINE Goal(at) == Gets(n, at) /\ Writes(call[n].at, at) /\ EndsAfter(n, call[n].at, at)
<1>1. \A at : At(n, at) => call[n].at = at
  BY DEF At
<1>2. ASSUME PutFails(n) PROVE Goal("rollback")
  BY <1>2, PlaceAfter DEF PutFails, db, Before, Writes, EndsAfter
<1>3. CASE Check(n)
  <2>1. UNCHANGED <<row, stamp, secrets>> /\ call[n].at = "check"
    BY <1>1, <1>3 DEF Check, db
  <2>2. CASE Ends(n, "failed")
    <3>1. Goal("failed")
      BY <2>1, <2>2, PlaceAfter DEF Before, Writes, EndsAfter
    <3>2. QED  BY <3>1
  <2>3. ASSUME NEW at \in {"insert", "secret"}, Goto(n, at) PROVE Goal(at)
    BY <2>1, <2>3, PlaceAfter DEF Before, Writes, EndsAfter
  <2>4. QED  BY <1>3, <2>2, <2>3 DEF Check
<1>4. CASE GetSecret(n) /\ ~PutFails(n)
  <2>1. Goal("put")
    BY <1>1, <1>4, PlaceAfter DEF GetSecret, db, Before, Writes, EndsAfter
  <2>2. QED  BY <2>1
<1>5. CASE PutSecret(n)
  <2>1. UNCHANGED <<row, stamp>> /\ call[n].at = "put"
    BY <1>1, <1>5 DEF PutSecret
  <2>2. ASSUME NEW at \in {"rollback", "insert", "secret"},
               \/ \E x : call' = [call EXCEPT ![n].at = at, ![n].todo = x]
               \/ \E x : call' = [call EXCEPT ![n].at = at, ![n].undo = x]
        PROVE  Goal(at)
    BY <2>1, <2>2, PlaceAfter DEF Before, Writes, EndsAfter
  <2>3. QED  BY <1>5, <2>2 DEF PutSecret
<1>6. CASE Insert(n) /\ ~PutFails(n)
  <2>1. PICK k \in Nat : k = stamp + 1
    BY DEF CallsInv
  <2>2. Goal("session")
    BY <1>1, <1>6, <2>1, PlaceAfter DEF Insert, Before, Writes, EndsAfter
  <2>3. QED  BY <2>2
<1>7. CASE Rollback(n)
  <2>1. UNCHANGED <<row, stamp>> /\ call[n].at = "rollback"
    BY <1>1, <1>7 DEF Rollback
  <2>2. CASE DOMAIN call[n].undo = {} /\ Ends(n, "failed") /\ UNCHANGED <<secrets, events>>
    <3>1. Goal("failed")
      BY <2>1, <2>2, PlaceAfter DEF Before, Writes, EndsAfter
    <3>2. QED  BY <3>1
  <2>3. CASE \E x, e : call' = [call EXCEPT ![n].undo = x, ![n].err = e]
    <3>1. Goal("rollback")
      BY <2>1, <2>3, PlaceAfter DEF Before, Writes, EndsAfter
    <3>2. QED  BY <3>1
  <2>4. QED  BY <1>7, <2>2, <2>3 DEF Rollback
<1>8. CASE GetSession(n) \/ InvalidateClient(n) \/ RemoveCluster(n)
  <2>1. UNCHANGED <<row, stamp>>
    BY <1>8 DEF GetSession, InvalidateClient, RemoveCluster, db
  <2>2. PICK at \in {"invalidate", "notify", "remove", "list"} : Goto(n, at)
    BY <1>8 DEF GetSession, InvalidateClient, RemoveCluster
  <2>3. Goal(at)
    BY <2>1, <2>2, PlaceAfter DEF Before, Writes, EndsAfter
  <2>4. QED  BY <2>3
<1>9. CASE onClusterChange(n)
  <2>1. UNCHANGED <<row, stamp>> /\ call[n].at = "notify" /\ call[n].at \in AddPlaces
    BY <1>1, <1>9 DEF onClusterChange, db, AddPlaces
  <2>2. PICK at \in {"ok", "tasks"} : Ends(n, at) \/ \E x : call' = [call EXCEPT ![n].at = at, ![n].todo = x]
    BY <1>9 DEF onClusterChange
  <2>3. Goal(at)
    BY <2>1, <2>2, PlaceAfter DEF Before, Writes, EndsAfter
  <2>4. QED  BY <2>3
<1>10. CASE PutTasks(n) /\ ~PutFails(n)
  <2>1. UNCHANGED <<row, stamp>> /\ call[n].at = "tasks" /\ call[n].at \in AddPlaces
    BY <1>1, <1>10 DEF PutTasks, db, AddPlaces
  <2>2. CASE Ends(n, "ok")
    <3>1. Goal("ok")
      BY <2>1, <2>2, PlaceAfter DEF Before, Writes, EndsAfter
    <3>2. QED  BY <3>1
  <2>3. CASE \E x : call' = [call EXCEPT ![n].todo = x]
    <3>1. Goal("tasks")
      BY <2>1, <2>3, PlaceAfter DEF Before, Writes, EndsAfter
    <3>2. QED  BY <3>1
  <2>4. QED  BY <1>10, <2>2, <2>3 DEF PutTasks
<1>11. CASE DeleteRow(n)
  <2>1. call[n].at = "row" /\ call[n].at \in DeletePlaces
    BY <1>1, <1>11 DEF DeleteRow, DeletePlaces
  <2>2. CASE Ends(n, "failed") /\ UNCHANGED <<row, stamp>>
    <3>1. Goal("failed")
      BY <2>1, <2>2, PlaceAfter DEF Before, Writes, EndsAfter
    <3>2. QED  BY <3>1
  <2>3. CASE stamp' = stamp + 1 /\ row' = None /\ call' = [call EXCEPT ![n].at = "secrets", ![n].mine = stamp + 1]
    <3>1. PICK k \in Nat : k = stamp + 1
      BY DEF CallsInv
    <3>2. Goal("secrets")
      BY <2>1, <2>3, <3>1, PlaceAfter DEF Before, Writes, EndsAfter
    <3>3. QED  BY <3>2
  <2>4. QED  BY <1>11, <2>2, <2>3 DEF DeleteRow
<1>12. CASE DeleteAll(n)
  <2>1. UNCHANGED <<row, stamp>> /\ call[n].at \in DeletePlaces
    BY <1>1, <1>12 DEF DeleteAll, DeletePlaces
  <2>2. PICK at \in {"failed", "invalidate"} : Ends(n, at) \/ Goto(n, at)
    BY <1>12 DEF DeleteAll
  <2>3. Goal(at)
    BY <2>1, <2>2, PlaceAfter DEF Before, Writes, EndsAfter
  <2>4. QED  BY <2>3
<1>13. CASE ListTasks(n)
  <2>1. UNCHANGED <<row, stamp>> /\ call[n].at \in DeletePlaces
    BY <1>1, <1>13 DEF ListTasks, db, DeletePlaces
  <2>2. PICK at \in {"failed", "clean"} : Ends(n, at) \/ \E x : call' = [call EXCEPT ![n].at = at, ![n].todo = x]
    BY <1>13 DEF ListTasks
  <2>3. Goal(at)
    BY <2>1, <2>2, PlaceAfter DEF Before, Writes, EndsAfter
  <2>4. QED  BY <2>3
<1>14. CASE DeleteTasks(n)
  <2>1. UNCHANGED <<row, stamp, secrets>> /\ call[n].at = "clean" /\ call[n].at \in DeletePlaces
    BY <1>1, <1>14 DEF DeleteTasks, DeletePlaces
  <2>2. CASE \E x, e : call' = [call EXCEPT ![n].todo = x, ![n].err = e]
    <3>1. Goal("clean")
      BY <2>1, <2>2, PlaceAfter DEF Before, Writes, EndsAfter
    <3>2. QED  BY <3>1
  <2>3. CASE call[n].todo = {} /\ Ends(n, IF call[n].err THEN "failed" ELSE "ok") /\ UNCHANGED tasks
    <3>1. PICK at : at = IF call[n].err THEN "failed" ELSE "ok"
      OBVIOUS
    <3>2. at \in {"failed", "ok"} /\ (at = "ok" => ~call[n].err) /\ Ends(n, at)
      BY <2>3, <3>1
    <3>3. Goal(at)
      BY <2>1, <2>3, <3>2, PlaceAfter DEF Before, Writes, EndsAfter
    <3>4. QED  BY <3>3
  <2>4. QED  BY <1>14, <2>2, <2>3 DEF DeleteTasks
<1>15. CASE Forget(n)
  <2>1. UNCHANGED <<row, stamp>> /\ call[n].at = "forget"
    BY <1>1, <1>15 DEF Forget
  <2>2. ASSUME NEW at \in {"failed", "ok"}, Ends(n, at) PROVE Goal(at)
    BY <2>1, <2>2, PlaceAfter DEF Before, Writes, EndsAfter
  <2>3. CASE \E x : call' = [call EXCEPT ![n].todo = x]
    <3>1. Goal("forget")
      BY <2>1, <2>3, PlaceAfter DEF Before, Writes, EndsAfter
    <3>2. QED  BY <3>1
  <2>4. QED  BY <1>15, <2>2, <2>3 DEF Forget, Forgotten
<1>16. QED
  BY <1>2, <1>3, <1>4, <1>5, <1>6, <1>7, <1>8, <1>9, <1>10, <1>11, <1>12, <1>13, <1>14, <1>15
  DEF Step, GetSecret, Insert, PutTasks

(* Nothing else ends a call as done or as failed. *)
LEMMA OnlyStepsEnd ==
  ASSUME CallsInv, [Next]_vars, NEW n \in Calls, Going(n), call'[n].at \in {"ok", "failed"}
  PROVE  Step(n)
<1>1. SUFFICES ASSUME ~Step(n) PROVE FALSE
  OBVIOUS
<1>2. call[n].at \notin {"new", "ok", "failed", "lost"}
  BY DEF Going
<1>3. ASSUME call'[n] = call[n] PROVE FALSE
  BY <1>2, <1>3
<1>4. ASSUME NEW m \in Calls, Step(m) PROVE FALSE
  <2>1. m = n \/ call'[n] = call[n]
    BY <1>4, StepEnds DEF Gets
  <2>2. QED  BY <1>1, <1>3, <1>4, <2>1
<1>5. ASSUME NEW m \in Calls, NewCall(m) PROVE FALSE
  <2>1. PICK c : Start(m, c)
    BY <1>5 DEF NewCall, PutCluster, DeleteCluster, DeleteSecrets
  <2>2. n # m
    BY <1>2, <2>1 DEF Start, At
  <2>3. call'[n] = [call[n] EXCEPT !.alone = FALSE]
    BY <2>1, <2>2 DEF Start
  <2>4. PICK d : d = call[n]
    OBVIOUS
  <2>5. CallFields(d)
    BY <2>4 DEF CallsInv, CallState
  <2>6. [d EXCEPT !.alone = FALSE].at = d.at
    BY <2>5 DEF CallFields
  <2>7. QED  BY <1>2, <2>3, <2>4, <2>6
<1>6. CASE Crash
  <2>1. PICK v : v = [NoCall EXCEPT !.at = "lost"]
    OBVIOUS
  <2>2. call'[n] = v
    BY <1>6, <2>1 DEF Crash
  <2>3. v.at = "lost"
    BY <2>1, NoCallMoves
  <2>4. QED  BY <2>2, <2>3
<1>7. ASSUME NEW p \in Callers, CreateClientNoCache(p) PROVE FALSE
  BY <1>3, <1>7 DEF CreateClientNoCache, GetClusterByID, setKnownHosts, JobFails
<1>8. ASSUME NEW r \in Readers, Client(r) PROVE FALSE
  BY <1>3, <1>8 DEF Client, getClientTTL, Lock, isValid, isInvalid, Created
<1>9. ASSUME NEW x \in Updates, Update(x) PROVE FALSE
  <2>1. ASSUME NEW h, retrieveNodeConfig(x, h) PROVE FALSE
    BY <1>3, <2>1 DEF retrieveNodeConfig
  <2>2. QED  BY <1>3, <1>9, <2>1 DEF Update, ForceUpdateCluster, updateSingle, Store, UpdateClient, UpdateFails
<1>10. CASE ForceUpdateHosts \/ updateAll \/ NodesChange
  BY <1>3, <1>10 DEF ForceUpdateHosts, updateAll, NodesChange, UpdateClient
<1>11. CASE UNCHANGED vars
  BY <1>3, <1>11 DEF vars
<1>12. QED  BY <1>4, <1>5, <1>6, <1>7, <1>8, <1>9, <1>10, <1>11 DEF Next

(* A put of a cluster that failed before its row was written leaves the secrets as they were         *)
(* (Service.PutCluster, PutWithRollback and the deferred rollback): whichever kinds of secrets it    *)
(* came with, whichever statement failed and whatever else the server did, unless another call came  *)
(* in or the rollback failed itself.                                                                 *)
THEOREM SecretsRolledBackCorrect == Spec => SecretsRolledBack
<1>1. Init => CallsInv
  BY InitCalls
<1>2. CallsInv /\ [Next]_vars => CallsInv'
  BY NextKeepsCalls
<1>3. CallsInv /\ [Next]_vars =>
        [\A n \in Calls :
           (call[n].op = "put" /\ Going(n) /\ call'[n].at = "failed" /\ call[n].alone /\ call[n].mine = 0 /\ ~call[n].err)
             => secrets' = call[n].before]_vars
  <2>1. SUFFICES ASSUME CallsInv, [Next]_vars, NEW n \in Calls, call[n].op = "put", Going(n), call'[n].at = "failed",
                        call[n].alone, call[n].mine = 0, ~call[n].err
                 PROVE  secrets' = call[n].before
    OBVIOUS
  <2>2. CallState(call[n]) /\ PutIsUndone(call[n], secrets) /\ secrets \in [Kinds -> Secrets]
    BY <2>1 DEF CallsInv
  <2>3. \/ call[n].at \in DeletePlaces \cup {"forget"}
        \/ call[n].at = "check" /\ UNCHANGED secrets
        \/ call[n].at = "rollback" /\ DOMAIN call[n].undo = {} /\ UNCHANGED secrets
    BY <2>1, OnlyStepsEnd, StepEnds DEF Gets, EndsAfter
  <2>4. call[n].at \in {"check", "rollback"} /\ DOMAIN call[n].undo = {} /\ UNCHANGED secrets
    BY <2>1, <2>2, <2>3 DEF CallState
  <2>5. \A k \in Kinds : secrets[k] = call[n].before[k]
    BY <2>1, <2>2, <2>4 DEF PutIsUndone, PutPlaces
  <2>6. call[n].before \in [Kinds -> Secrets]
    BY <2>2 DEF CallState
  <2>7. QED  BY <2>2, <2>4, <2>5, <2>6
<1>4. QED  BY <1>1, <1>2, <1>3, PTL DEF Spec, SecretsRolledBack

(* "DeleteCluster removes cluster and it's secrets": a delete that returned and met no other call     *)
(* leaves no secret, no task and no row but one of known hosts (Service.DeleteCluster and the         *)
(* listener of the manager), whatever was put, lost or half done before it.                           *)
THEOREM DeletedIsGoneCorrect == Spec => DeletedIsGone
<1>1. Init => CallsInv
  BY InitCalls
<1>2. CallsInv /\ [Next]_vars => CallsInv'
  BY NextKeepsCalls
<1>3. CallsInv /\ [Next]_vars =>
        [\A n \in Calls :
           (call[n].op = "delete" /\ Going(n) /\ call'[n].at = "ok" /\ call[n].alone)
             => /\ secrets' = [k \in Kinds |-> NoSecret]
                /\ tasks' = {}
                /\ row' \in {None, Bare}]_vars
  <2>1. SUFFICES ASSUME CallsInv, [Next]_vars, NEW n \in Calls, call[n].op = "delete", Going(n), call'[n].at = "ok", call[n].alone
                 PROVE  secrets' = [k \in Kinds |-> NoSecret] /\ tasks' = {} /\ row' \in {None, Bare}
    OBVIOUS
  <2>2. CallState(call[n]) /\ DeleteStays(call[n], row, secrets, tasks) /\ secrets \in [Kinds -> Secrets]
    BY <2>1 DEF CallsInv
  <2>3. \/ call[n].at \in AddPlaces \cup {"forget"}
        \/ call[n].at = "clean" /\ call[n].todo = {} /\ ~call[n].err /\ UNCHANGED <<row, secrets, tasks>>
    BY <2>1, OnlyStepsEnd, StepEnds DEF Gets, EndsAfter
  <2>4. call[n].at = "clean" /\ call[n].todo = {} /\ ~call[n].err /\ UNCHANGED <<row, secrets, tasks>>
    BY <2>1, <2>2, <2>3 DEF CallState
  <2>5. row \in {None, Bare} /\ (\A k \in Kinds : secrets[k] = NoSecret) /\ tasks \subseteq {}
    BY <2>1, <2>2, <2>4 DEF DeleteStays, IsGoing
  <2>6. QED  BY <2>2, <2>4, <2>5
<1>4. QED  BY <1>1, <1>2, <1>3, PTL DEF Spec, DeletedIsGone

-----------------------------------------------------------------------------
(* The types of the rest.  A call writes the row once: the calls that have *)
(* done so bound the stamp.                                                *)
Written == {n \in Calls : call[n].at \notin Before}

StampInv ==
  /\ stamp <= 1 + Cardinality(Written)
  /\ row # None => row <= stamp
  /\ \A p \in Callers : job[p].asOf <= stamp
  /\ \A o \in Objects : client[o] # None => client[o] <= stamp

UpdateFields(u) ==
  /\ u \in [at : {"idle", "get", "client", "retrieve"}, row : {u.row}, hosts : {u.hosts}, found : {u.found}]
  /\ DOMAIN u.found \subseteq Hosts

UpdateInv ==
  /\ update = [x \in Updates |-> update[x]]
  /\ \A x \in Updates : UpdateFields(update[x])
  /\ config = None \/ DOMAIN config \subseteq Hosts

PlainInv ==
  /\ tasks \subseteq Range(AutoTasks) /\ ring \in Rings
  /\ mutex \in [Objects -> {None} \cup Readers]
  /\ events \in 0 .. MaxEvents

LEMMA WrittenIsBounded ==
  /\ Written \subseteq Calls /\ IsFiniteSet(Written)
  /\ Cardinality(Written) \in Nat /\ Cardinality(Written) <= MaxCalls
<1>1. IsFiniteSet(Calls) /\ Cardinality(Calls) = MaxCalls
  <2>1. MaxCalls \in Nat /\ MaxCalls \in Int /\ 1 \in Int
    BY ClustersAssumption
  <2>2. IsFiniteSet(1 .. MaxCalls) /\ Cardinality(1 .. MaxCalls) = IF 1 > MaxCalls THEN 0 ELSE MaxCalls - 1 + 1
    BY <2>1, FS_Interval
  <2>3. QED  BY <2>1, <2>2 DEF Calls
<1>2. Written \subseteq Calls
  BY DEF Written
<1>3. IsFiniteSet(Written) /\ Cardinality(Written) <= Cardinality(Calls)
  BY <1>1, <1>2, FS_Subset
<1>4. QED  BY <1>1, <1>2, <1>3, FS_CardinalityType

(* No call forgets that it wrote the row; who writes it did not before. *)
LEMMA WrittenGrows ==
  ASSUME NEW S \in SUBSET Calls, NEW T \in SUBSET Calls, S \subseteq T
  PROVE  Cardinality(S) <= Cardinality(T) /\ Cardinality(S) \in Nat /\ Cardinality(T) \in Nat
         /\ ((\E n \in T : n \notin S) => Cardinality(S) + 1 <= Cardinality(T))
<1>1. IsFiniteSet(Calls)
  BY ClustersAssumption, FS_Interval DEF Calls
<1>2. IsFiniteSet(S) /\ IsFiniteSet(T)
  BY <1>1, FS_Subset
<1>3. Cardinality(S) <= Cardinality(T) /\ Cardinality(S) \in Nat /\ Cardinality(T) \in Nat
  BY <1>2, FS_Subset, FS_CardinalityType
<1>4. ASSUME NEW n \in T, n \notin S PROVE Cardinality(S) + 1 <= Cardinality(T)
  <2>1. IsFiniteSet(S \cup {n}) /\ Cardinality(S \cup {n}) = Cardinality(S) + 1
    BY <1>2, <1>4, FS_AddElement
  <2>2. S \cup {n} \subseteq T
    BY <1>4
  <2>3. Cardinality(S \cup {n}) <= Cardinality(T)
    BY <1>2, <2>1, <2>2, FS_Subset
  <2>4. QED  BY <2>1, <2>3
<1>5. QED  BY <1>3, <1>4

LEMMA StampKept ==
  ASSUME ClientType, StampInv, Written \subseteq Written',
         stamp' \in Nat, stamp <= stamp', stamp' = stamp \/ (stamp' = stamp + 1 /\ \E n \in Written' : n \notin Written),
         row' \in {row, None, stamp', Bare},
         \A p \in Callers : job'[p].asOf \in {job[p].asOf, 0, stamp},
         \A o \in Objects : client'[o] \in {client[o], None} \/ \E p \in Callers : client'[o] = job[p].asOf
  PROVE  StampInv'
<1>1. /\ Cardinality(Written) <= Cardinality(Written') /\ Cardinality(Written) \in Nat /\ Cardinality(Written') \in Nat
      /\ (\E n \in Written' : n \notin Written) => Cardinality(Written) + 1 <= Cardinality(Written')
  <2>1. Written \in SUBSET Calls /\ Written' \in SUBSET Calls
    BY DEF Written
  <2>2. PICK S, T : S = Written /\ T = Written'
    OBVIOUS
  <2>3. S \in SUBSET Calls /\ T \in SUBSET Calls /\ S \subseteq T
    BY <2>1, <2>2
  <2>4. QED  BY <2>2, <2>3, WrittenGrows
<1>2. stamp \in Nat
  BY DEF ClientType
<1>3. stamp' <= 1 + Cardinality(Written')
  BY <1>1, <1>2 DEF StampInv
<1>4. row' # None => row' <= stamp'
  BY <1>2 DEF StampInv, ClientType, Bare
<1>5. ASSUME NEW p \in Callers PROVE job'[p].asOf <= stamp'
  <2>1. job[p].asOf \in Nat /\ job[p].asOf <= stamp
    BY DEF ClientType, JobState, StampInv
  <2>2. QED  BY <1>2, <2>1
<1>6. ASSUME NEW o \in Objects, client'[o] # None PROVE client'[o] <= stamp'
  <2>1. \A p \in Callers : job[p].asOf \in Nat /\ job[p].asOf <= stamp
    BY DEF ClientType, JobState, StampInv
  <2>2. client[o] \in Nat \cup {None} /\ (client[o] # None => client[o] <= stamp)
    BY DEF ClientType, StampInv
  <2>3. QED  BY <1>2, <1>6, <2>1, <2>2
<1>7. QED  BY <1>3, <1>4, <1>5, <1>6 DEF StampInv

(* What the steps of a call do to the rest. *)
StepElse(n) ==
  /\ UNCHANGED <<ring, mutex>> /\ (UNCHANGED events \/ Fault)
  /\ config' \in {config, None}
  /\ UNCHANGED update \/ update' = [update EXCEPT ![n].at = "get"]
  /\ tasks' \subseteq tasks \cup Range(AutoTasks)
  /\ UNCHANGED client \/ Invalidate
  /\ UNCHANGED job \/ job' = NewJob(<<"call", n>>) \/ job' = [job EXCEPT ![<<"call", n>>] = NoJob]

LEMMA StepLeaves == ASSUME NEW n \in Calls, Step(n) PROVE StepElse(n)
<1>1. ASSUME PutFails(n) PROVE StepElse(n)
  BY <1>1 DEF PutFails, StepElse, db, nodes, cache
<1>2. CASE Check(n)
  BY <1>2 DEF Check, StepElse, db, nodes, cache
<1>3. CASE GetSecret(n)
  BY <1>1, <1>3 DEF GetSecret, StepElse, db, nodes, cache
<1>4. CASE PutSecret(n)
  BY <1>4 DEF PutSecret, StepElse, nodes, cache
<1>5. CASE Insert(n)
  BY <1>1, <1>5 DEF Insert, StepElse, nodes, cache
<1>6. CASE Rollback(n)
  BY <1>6 DEF Rollback, StepElse, nodes, cache
<1>7. CASE GetSession(n)
  BY <1>7 DEF GetSession, StepElse, db, nodes, cache
<1>8. CASE InvalidateClient(n)
  <2>1. UNCHANGED mutex
    BY <1>8 DEF InvalidateClient, Invalidate
  <2>2. QED  BY <1>8, <2>1 DEF InvalidateClient, StepElse, db, nodes
<1>9. CASE onClusterChange(n)
  BY <1>9 DEF onClusterChange, StepElse, db, nodes, cache
<1>10. CASE PutTasks(n)
  <2>1. ASSUME NEW t \in FirstOf(AutoTasks, call[n].todo) PROVE t \in Range(AutoTasks)
    BY DEF FirstOf, Range
  <2>2. CASE UNCHANGED <<db, nodes, job, cache, reader, config, update, acked, events>>
    BY <2>2 DEF StepElse, db, nodes, cache
  <2>3. CASE \E t \in FirstOf(AutoTasks, call[n].todo) :
               tasks' = tasks \cup {t} /\ UNCHANGED <<row, stamp, secrets, nodes, job, cache, reader, config, update, acked, events>>
    BY <2>1, <2>3 DEF StepElse, nodes, cache
  <2>4. QED  BY <1>1, <1>10, <2>2, <2>3 DEF PutTasks
<1>11. CASE DeleteRow(n)
  BY <1>11 DEF DeleteRow, StepElse, nodes, cache
<1>12. CASE DeleteAll(n)
  BY <1>12 DEF DeleteAll, StepElse, nodes, cache
<1>13. CASE RemoveCluster(n)
  BY <1>13 DEF RemoveCluster, StepElse, db, nodes, cache
<1>14. CASE ListTasks(n)
  BY <1>14 DEF ListTasks, StepElse, db, nodes, cache
<1>15. CASE DeleteTasks(n)
  BY <1>15 DEF DeleteTasks, StepElse, nodes, cache
<1>16. CASE Forget(n)
  BY <1>16 DEF Forget, StepElse, nodes, cache
<1>17. QED
  BY <1>2, <1>3, <1>4, <1>5, <1>6, <1>7, <1>8, <1>9, <1>10, <1>11, <1>12, <1>13, <1>14, <1>15, <1>16 DEF Step

LEMMA StampAgain == ASSUME ClientType, NEW p \in Callers,
                           UNCHANGED job \/ job' = NewJob(p) \/ job' = [job EXCEPT ![p] = NoJob]
                    PROVE  \A q \in Callers : job'[q].asOf \in {job[q].asOf, 0, stamp}
<1>1. CASE UNCHANGED job
  BY <1>1
<1>2. CASE job' = NewJob(p) \/ job' = [job EXCEPT ![p] = NoJob]
  BY <1>2, JobSet DEF ClientType
<1>3. QED  BY <1>1, <1>2

(* The same calls have written the row, and it is not written. *)
LEMMA QuietStamp ==
  ASSUME ClientType, StampInv, Written \subseteq Written', UNCHANGED stamp, row' \in {row, Bare},
         \A p \in Callers : job'[p].asOf \in {job[p].asOf, 0, stamp},
         \A o \in Objects : client'[o] \in {client[o], None} \/ \E p \in Callers : client'[o] = job[p].asOf
  PROVE  StampInv'
<1>1. stamp' \in Nat /\ stamp <= stamp'
  BY DEF ClientType
<1>2. QED  BY <1>1, StampKept

LEMMA SameCallsWritten == ASSUME UNCHANGED call PROVE Written' = Written
BY DEF Written

LEMMA StepKeepsStamp == ASSUME ClientType, CallsInv, StampInv, NEW n \in Calls, Step(n) PROVE StampInv'
<1>1. PICK at : Gets(n, at) /\ Writes(call[n].at, at)
  BY StepEnds
<1>2. n \in Written => at \notin Before
  BY <1>1 DEF Writes, Written
<1>3. Written \subseteq Written'
  BY <1>1, <1>2 DEF Written, Gets
<1>4. \A p \in Callers : job'[p].asOf \in {job[p].asOf, 0, stamp}
  BY StepLeaves, StampAgain, CallerNames DEF StepElse
<1>5. ASSUME NEW o \in Objects PROVE client'[o] \in {client[o], None}
  <2>1. CASE UNCHANGED client
    BY <2>1
  <2>2. CASE Invalidate
    BY <2>2 DEF Invalidate
  <2>3. QED  BY <2>1, <2>2, StepLeaves DEF StepElse
<1>6. CASE UNCHANGED <<row, stamp>>
  BY <1>3, <1>4, <1>5, <1>6, QuietStamp
<1>7. CASE stamp' = stamp + 1 /\ row' \in {stamp', None} /\ call[n].at \in Before /\ at \notin Before
  <2>1. n \in Written' /\ n \notin Written
    BY <1>1, <1>7 DEF Written, Gets
  <2>2. stamp' \in Nat /\ stamp <= stamp'
    BY <1>7 DEF ClientType
  <2>3. QED  BY <1>3, <1>4, <1>5, <1>7, <2>1, <2>2, StampKept
<1>8. QED  BY <1>1, <1>6, <1>7 DEF Writes

LEMMA NewCallIs ==
  ASSUME CallsInv, NEW n \in Calls, NewCall(n)
  PROVE  /\ UNCHANGED <<db, nodes, job, cache, reader, config, update, acked, events>>
         /\ Written \subseteq Written'
<1>1. PICK c : Start(n, c)
  BY DEF NewCall, PutCluster, DeleteCluster, DeleteSecrets
<1>2. n \notin Written
  BY <1>1 DEF Start, At, Written, Before
<1>3. ASSUME NEW m \in Calls, m # n PROVE call'[m].at = call[m].at
  <2>1. PICK d : d = call[m]
    OBVIOUS
  <2>2. CallFields(d)
    BY <2>1 DEF CallsInv, CallState
  <2>3. [d EXCEPT !.alone = FALSE].at = d.at
    BY <2>2 DEF CallFields
  <2>4. call'[m] = [d EXCEPT !.alone = FALSE] \/ call'[m] = d
    BY <1>1, <1>3, <2>1 DEF Start
  <2>5. QED  BY <2>1, <2>3, <2>4
<1>4. Written \subseteq Written'
  BY <1>2, <1>3 DEF Written
<1>5. QED  BY <1>1, <1>4 DEF Start

LEMMA NextKeepsStamp == ASSUME ClientType, CallsInv, StampInv, [Next]_vars PROVE StampInv'
<1> DEFINE Same == UNCHANGED <<call, stamp, row>>
           Jobs == \A p \in Callers : job'[p].asOf \in {job[p].asOf, 0, stamp}
<1>1. ASSUME Same, Jobs, \A o \in Objects : client'[o] \in {client[o], None} \/ \E p \in Callers : client'[o] = job[p].asOf
      PROVE  StampInv'
  BY <1>1, SameCallsWritten, QuietStamp
<1>2. ASSUME NEW n \in Calls, NewCall(n) PROVE StampInv'
  BY <1>2, NewCallIs, QuietStamp DEF db, cache
<1>3. ASSUME NEW p \in Callers, CreateClientNoCache(p) PROVE StampInv'
  <2>1. PICK v : JobEffect(p, v)
    BY <1>3, JobStepEffect
  <2>2. UNCHANGED <<call, stamp, client>> /\ row' \in {row, Bare}
    BY <2>1 DEF JobEffect
  <2>3. Jobs
    BY <2>1 DEF JobEffect, ClientType
  <2>4. QED  BY <2>2, <2>3, SameCallsWritten, QuietStamp
<1>4. ASSUME NEW r \in Readers, Client(r) PROVE StampInv'
  <2>1. Same
    BY <1>4 DEF Client, getClientTTL, Lock, isValid, isInvalid, Created, db
  <2>2. PICK p \in Callers : p = <<"reader", r>>
    BY CallerNames
  <2>3. UNCHANGED job \/ job' = NewJob(p) \/ job' = [job EXCEPT ![p] = NoJob]
    BY <1>4, <2>2 DEF Client, getClientTTL, Lock, isValid, isInvalid, Created
  <2>4. Jobs
    BY <2>3, StampAgain
  <2>5. UNCHANGED client \/ client' = [client EXCEPT ![reader[r].object] = job[p].asOf]
    BY <1>4, <2>2 DEF Client, getClientTTL, Lock, isValid, isInvalid, Created, cache
  <2>6. \A o \in Objects : client'[o] = client[o] \/ client'[o] = job[p].asOf
    BY <2>5 DEF ClientType
  <2>7. QED  BY <1>1, <2>1, <2>4, <2>6
<1>5. ASSUME NEW x \in Updates, Same, UNCHANGED client,
             UNCHANGED job \/ job' = NewJob(<<"update", x>>) \/ job' = [job EXCEPT ![<<"update", x>>] = NoJob]
      PROVE  StampInv'
  <2>1. Jobs
    BY <1>5, StampAgain, CallerNames
  <2>2. QED  BY <1>1, <1>5, <2>1
<1>6. ASSUME NEW x \in Updates, Update(x) PROVE StampInv'
  <2>1. CASE ForceUpdateCluster(x)
    BY <1>5, <2>1 DEF ForceUpdateCluster, UpdateClient, UpdateFails, db, cache
  <2>2. CASE updateSingle(x)
    BY <1>5, <2>2 DEF updateSingle, UpdateFails, db, cache
  <2>3. CASE Store(x) \/ \E h \in Hosts : retrieveNodeConfig(x, h)
    BY <1>5, <2>3 DEF Store, retrieveNodeConfig, db, cache
  <2>4. QED  BY <1>6, <2>1, <2>2, <2>3 DEF Update
<1>7. CASE ForceUpdateHosts \/ updateAll
  <2>1. PICK x \in Updates : \E hosts : UpdateClient(x, hosts)
    <3>1. Ticker \in Updates /\ Backup \in Updates
      BY ClustersAssumption DEF Ticker, Backup, Updates
    <3>2. QED  BY <1>7, <3>1 DEF ForceUpdateHosts, updateAll
  <2>2. QED  BY <1>5, <2>1 DEF UpdateClient, db, cache
<1>8. CASE NodesChange \/ UNCHANGED vars
  <2>1. Same /\ UNCHANGED <<job, client>>
    BY <1>8 DEF NodesChange, vars, db, cache
  <2>2. QED  BY <1>1, <2>1
<1>9. CASE Crash
  <2>1. Written \subseteq Written'
    <3>1. PICK v : v = [NoCall EXCEPT !.at = "lost"]
      OBVIOUS
    <3>2. v.at = "lost"
      BY <3>1, NoCallMoves
    <3>3. \A n \in Calls : call'[n] = v \/ call'[n] = call[n]
      BY <1>9, <3>1 DEF Crash
    <3>4. QED  BY <3>2, <3>3 DEF Written, Before
  <2>2. Jobs /\ (\A o \in Objects : client'[o] = None) /\ UNCHANGED <<row, stamp>>
    BY <1>9 DEF Crash, NoJob, db
  <2>3. QED  BY <2>1, <2>2, QuietStamp
<1>10. QED  BY <1>2, <1>3, <1>4, <1>6, <1>7, <1>8, <1>9, StepKeepsStamp DEF Next

LEMMA PlainKept ==
  ASSUME PlainInv, tasks' \subseteq tasks \cup Range(AutoTasks), ring' \in Rings,
         mutex' \in [Objects -> {None} \cup Readers], UNCHANGED events \/ Fault
  PROVE  PlainInv'
<1>1. events' \in 0 .. MaxEvents
  BY ClustersAssumption DEF PlainInv, Fault
<1>2. QED  BY <1>1 DEF PlainInv

LEMMA NextKeepsPlain == ASSUME ClientType, CallsInv, PlainInv, [Next]_vars PROVE PlainInv'
<1>1. ASSUME UNCHANGED <<tasks, ring>>, mutex' \in [Objects -> {None} \cup Readers], UNCHANGED events \/ Fault
      PROVE  PlainInv'
  BY <1>1, PlainKept DEF PlainInv
<1>2. mutex \in [Objects -> {None} \cup Readers]
  BY DEF PlainInv
<1>3. ASSUME NEW n \in Calls, NewCall(n) PROVE PlainInv'
  BY <1>1, <1>2, <1>3, NewCallIs DEF db, nodes, cache
<1>4. ASSUME NEW n \in Calls, Step(n) PROVE PlainInv'
  BY <1>4, StepLeaves, PlainKept DEF StepElse, PlainInv
<1>5. ASSUME NEW p \in Callers, CreateClientNoCache(p) PROVE PlainInv'
  BY <1>1, <1>2, <1>5 DEF CreateClientNoCache, GetClusterByID, setKnownHosts, JobFails, db, nodes, cache
<1>6. ASSUME NEW r \in Readers, Client(r) PROVE PlainInv'
  <2>1. UNCHANGED <<tasks, ring, events>>
    BY <1>6 DEF Client, getClientTTL, Lock, isValid, isInvalid, Created, db, nodes
  <2>2. UNCHANGED mutex \/ \E v \in {None, r} : mutex' = [mutex EXCEPT ![reader[r].object] = v]
    BY <1>6 DEF Client, getClientTTL, Lock, isValid, isInvalid, Created, Returns, cache
  <2>3. QED  BY <1>1, <1>2, <2>1, <2>2
<1>7. ASSUME NEW x \in Updates, Update(x) PROVE PlainInv'
  <2>1. CASE ForceUpdateCluster(x)
    BY <1>1, <1>2, <2>1 DEF ForceUpdateCluster, UpdateClient, UpdateFails, db, nodes, cache
  <2>2. CASE updateSingle(x)
    BY <1>1, <1>2, <2>2 DEF updateSingle, UpdateFails, db, nodes, cache
  <2>3. CASE Store(x) \/ \E h \in Hosts : retrieveNodeConfig(x, h)
    BY <1>1, <1>2, <2>3 DEF Store, retrieveNodeConfig, db, nodes, cache
  <2>4. QED  BY <1>7, <2>1, <2>2, <2>3 DEF Update
<1>8. CASE ForceUpdateHosts \/ updateAll
  BY <1>1, <1>2, <1>8 DEF ForceUpdateHosts, updateAll, UpdateClient, db, nodes, cache
<1>9. CASE NodesChange
  BY <1>2, <1>9, PlainKept DEF NodesChange, db, cache
<1>10. CASE Crash
  BY <1>1, <1>10 DEF Crash, db, nodes
<1>11. CASE UNCHANGED vars
  BY <1>1, <1>2, <1>11 DEF vars, db, nodes, cache
<1>12. QED  BY <1>3, <1>4, <1>5, <1>6, <1>7, <1>8, <1>9, <1>10, <1>11 DEF Next

LEMMA NoUpdateFields == UpdateFields(NoUpdate) /\ NoUpdate.found = <<>> /\ DOMAIN <<>> = {}
BY DEF UpdateFields, NoUpdate

(* One update goes on. *)
LEMMA UpdateSet ==
  ASSUME UpdateInv, NEW x \in Updates, NEW u, UpdateFields(u), update' = [update EXCEPT ![x] = u],
         config' = None \/ DOMAIN config' \subseteq Hosts
  PROVE  UpdateInv'
<1>1. update' = [y \in Updates |-> update'[y]]
  BY DEF UpdateInv
<1>2. \A y \in Updates : UpdateFields(update'[y])
  BY DEF UpdateInv
<1>3. QED  BY <1>1, <1>2 DEF UpdateInv, UpdateFields

LEMMA UpdatesSame == ASSUME UpdateInv, UNCHANGED update, config' \in {config, None} PROVE UpdateInv'
BY DEF UpdateInv, UpdateFields

LEMMA UpdateClientIs ==
  ASSUME UpdateInv, NEW x \in Updates, NEW hosts, UpdateClient(x, hosts) \/ UpdateFails(x) PROVE UpdateInv'
<1>1. PICK z : z = NoUpdate
  OBVIOUS
<1>2. UpdateFields(z)
  BY <1>1, NoUpdateFields
<1>3. PICK r, h : r = row /\ h = hosts
  OBVIOUS
<1>4. PICK u : u = [z EXCEPT !.at = "client", !.row = r, !.hosts = h]
  OBVIOUS
<1>5. UpdateFields(u)
  BY <1>2, <1>4 DEF UpdateFields
<1>6. update' = [update EXCEPT ![x] = u] \/ update' = [update EXCEPT ![x] = z]
  BY <1>1, <1>3, <1>4 DEF UpdateClient, UpdateFails
<1>7. config' = None \/ DOMAIN config' \subseteq Hosts
  BY DEF UpdateClient, UpdateFails, UpdateInv
<1>8. QED  BY <1>2, <1>5, <1>6, <1>7, UpdateSet

LEMMA NextKeepsUpdates == ASSUME ClientType, CallsInv, UpdateInv, [Next]_vars PROVE UpdateInv'
<1>1. \A x \in Updates : UpdateFields(update[x]) /\ DOMAIN update = Updates
  BY DEF UpdateInv
<1>2. ASSUME NEW n \in Calls, NewCall(n) PROVE UpdateInv'
  BY <1>2, NewCallIs, UpdatesSame
<1>3. ASSUME NEW n \in Calls, Step(n) PROVE UpdateInv'
  <2>1. config' \in {config, None} /\ (UNCHANGED update \/ update' = [update EXCEPT ![n].at = "get"])
    BY <1>3, StepLeaves DEF StepElse
  <2>2. CASE update' = [update EXCEPT ![n].at = "get"]
    <3>1. n \in Updates
      BY ClustersAssumption DEF Calls, Updates, Backup
    <3>2. PICK d : d = update[n]
      OBVIOUS
    <3>3. PICK u : u = [d EXCEPT !.at = "get"]
      OBVIOUS
    <3>4. UpdateFields(u)
      BY <1>1, <3>1, <3>2, <3>3 DEF UpdateFields
    <3>5. update' = [update EXCEPT ![n] = u]
      BY <1>1, <2>2, <3>1, <3>2, <3>3
    <3>6. QED  BY <2>1, <3>1, <3>4, <3>5, UpdateSet DEF UpdateInv
  <2>3. QED  BY <2>1, <2>2, UpdatesSame
<1>4. ASSUME NEW p \in Callers, CreateClientNoCache(p) PROVE UpdateInv'
  BY <1>4, UpdatesSame DEF CreateClientNoCache, GetClusterByID, setKnownHosts, JobFails
<1>5. ASSUME NEW r \in Readers, Client(r) PROVE UpdateInv'
  BY <1>5, UpdatesSame DEF Client, getClientTTL, Lock, isValid, isInvalid, Created
<1>6. ASSUME NEW x \in Updates, Update(x) PROVE UpdateInv'
  <2>1. PICK d : d = update[x]
    OBVIOUS
  <2>2. UpdateFields(d)
    BY <1>1, <2>1
  <2>3. CASE ForceUpdateCluster(x)
    BY <2>3, UpdateClientIs DEF ForceUpdateCluster
  <2>4. CASE updateSingle(x)
    <3>1. CASE UpdateFails(x)
      BY <3>1, UpdateClientIs
    <3>2. CASE /\ update' = [update EXCEPT ![x].at = "retrieve",
                                                 ![x].hosts = IF @ = {} THEN job[<<"update", x>>].hosts ELSE @]
               /\ UNCHANGED config
      <4>1. PICK h : h = IF d.hosts = {} THEN job[<<"update", x>>].hosts ELSE d.hosts
        OBVIOUS
      <4>2. PICK u : u = [d EXCEPT !.at = "retrieve", !.hosts = h]
        OBVIOUS
      <4>3. UpdateFields(u)
        BY <2>2, <4>2 DEF UpdateFields
      <4>4. update' = [update EXCEPT ![x] = u]
        BY <1>1, <2>1, <3>2, <4>1, <4>2
      <4>5. QED  BY <3>2, <4>3, <4>4, UpdateSet DEF UpdateInv
    <3>3. QED  BY <2>4, <3>1, <3>2 DEF updateSingle
  <2>5. CASE Store(x)
    <3>1. update' = [update EXCEPT ![x] = NoUpdate] /\ config' = d.found
      BY <2>1, <2>5 DEF Store
    <3>2. DOMAIN config' \subseteq Hosts
      BY <2>2, <3>1 DEF UpdateFields
    <3>3. PICK u : u = NoUpdate
      OBVIOUS
    <3>4. QED  BY <3>1, <3>2, <3>3, NoUpdateFields, UpdateSet
  <2>6. ASSUME NEW h \in Hosts, retrieveNodeConfig(x, h) PROVE UpdateInv'
    <3>1. PICK S \in {{}, {h}} :
             update' = [update EXCEPT ![x].hosts = @ \ {h},
                   ![x].found = [g \in DOMAIN @ \cup S |-> IF g \in S THEN [row |-> update[x].row, tls |-> secrets["tls"]]
                                                                     ELSE @[g]]]
      BY <2>6 DEF retrieveNodeConfig
    <3>2. PICK f : f = [g \in DOMAIN d.found \cup S |-> IF g \in S THEN [row |-> update[x].row, tls |-> secrets["tls"]] ELSE d.found[g]]
      OBVIOUS
    <3>3. PICK u : u = [d EXCEPT !.hosts = @ \ {h}, !.found = f]
      OBVIOUS
    <3>4. UpdateFields(u)
      <4>1. DOMAIN f \subseteq Hosts
        BY <2>2, <3>2 DEF UpdateFields
      <4>2. QED  BY <2>2, <3>3, <4>1 DEF UpdateFields
    <3>5. update' = [update EXCEPT ![x] = u]
      BY <1>1, <2>1, <3>1, <3>2, <3>3
    <3>6. UNCHANGED config
      BY <2>6 DEF retrieveNodeConfig
    <3>7. QED  BY <3>4, <3>5, <3>6, UpdateSet DEF UpdateInv
  <2>7. QED  BY <1>6, <2>3, <2>4, <2>5, <2>6 DEF Update
<1>7. CASE ForceUpdateHosts \/ updateAll
  <2>1. Ticker \in Updates /\ Backup \in Updates
    BY ClustersAssumption DEF Ticker, Backup, Updates
  <2>2. QED  BY <1>7, <2>1, UpdateClientIs DEF ForceUpdateHosts, updateAll
<1>8. CASE NodesChange \/ UNCHANGED vars
  BY <1>8, UpdatesSame DEF NodesChange, vars
<1>9. CASE Crash
  <2>1. update' = [x \in Updates |-> NoUpdate] /\ config' = None
    BY <1>9 DEF Crash
  <2>2. \A x \in Updates : UpdateFields(update'[x])
    BY <2>1, NoUpdateFields
  <2>3. QED  BY <2>1, <2>2 DEF UpdateInv, UpdateFields
<1>10. QED  BY <1>2, <1>3, <1>4, <1>5, <1>6, <1>7, <1>8, <1>9 DEF Next

LEMMA InitTypes == ASSUME Init PROVE StampInv /\ UpdateInv /\ PlainInv
<1>1. \A p \in Callers : job[p].asOf = 0
  BY DEF Init, NoJob
<1>2. stamp \in {0, 1} /\ (row # None => row = 1 /\ stamp = 1) /\ \A o \in Objects : client[o] = None
  BY DEF Init
<1>3. Cardinality(Written) \in Nat
  BY WrittenIsBounded
<1>4. StampInv
  BY <1>1, <1>2, <1>3 DEF StampInv
<1>5. UpdateInv
  <2>1. update = [x \in Updates |-> NoUpdate] /\ config = None
    BY DEF Init
  <2>2. \A x \in Updates : UpdateFields(update[x])
    BY <2>1, NoUpdateFields
  <2>3. QED  BY <2>1, <2>2 DEF UpdateInv
<1>6. PlainInv
  <2>1. ring \in Rings /\ events \in 0 .. MaxEvents
    BY ClustersAssumption DEF Init
  <2>2. tasks \subseteq Range(AutoTasks) /\ mutex \in [Objects -> {None} \cup Readers]
    BY DEF Init
  <2>3. QED  BY <2>1, <2>2 DEF PlainInv
<1>7. QED  BY <1>4, <1>5, <1>6

LEMMA TypesTogether ==
  ASSUME ClientInv, CallsInv, StampInv, UpdateInv, PlainInv PROVE TypeOK
<1> USE DEF ClientInv
<1>1. stamp \in 0 .. MaxCalls + 1
  <2>1. Cardinality(Written) \in Nat /\ Cardinality(Written) <= MaxCalls
    BY WrittenIsBounded
  <2>2. QED  BY <2>1, ClustersAssumption DEF ClientType, StampInv
<1>2. row \in {None} \cup 0 .. stamp /\ acked \in 0 .. stamp
  BY DEF ClientType, StampInv, StampsInOrder
<1>3. secrets \in [Kinds -> 0 .. OldSecret]
  BY DEF CallsInv, Secrets
<1>4. ASSUME NEW n \in Calls
      PROVE  /\ call[n].at \in {"new", "check", "secret", "put", "rollback", "insert", "session", "invalidate", "notify",
                               "tasks", "row", "secrets", "remove", "list", "clean", "forget", "ok", "failed", "lost"}
             /\ call[n].mine \in 0 .. stamp
  <2>1. call[n].at \in Ats
    BY DEF CallsInv, CallState
  <2>2. call[n].mine \in Nat /\ call[n].mine <= stamp /\ stamp \in Nat
    BY DEF ClientType, StampsInOrder
  <2>3. QED  BY <2>1, <2>2 DEF Ats, PutPlaces, AddPlaces, DeletePlaces
<1>5. ASSUME NEW p \in Callers
      PROVE  /\ job[p].at \in {"idle", "row", "discover", "done", "failed"}
             /\ job[p].asOf \in 0 .. stamp /\ job[p].hosts \subseteq Hosts
  <2>1. job[p] \in JobState /\ job[p].asOf <= stamp /\ stamp \in Nat
    BY DEF ClientType, StampInv
  <2>2. QED  BY <2>1 DEF JobState
<1>6. client \in [Objects -> {None} \cup 0 .. stamp]
  <2>1. ASSUME NEW o \in Objects PROVE client[o] \in {None} \cup 0 .. stamp
    BY DEF ClientType, StampInv
  <2>2. QED  BY <2>1 DEF ClientType
<1>7. ASSUME NEW r \in Readers PROVE reader[r].at \in {"new", "lock", "check", "create", "done"}
  BY DEF ClientType, ReaderState
<1>8. ASSUME NEW x \in Updates PROVE update[x].at \in {"idle", "get", "client", "retrieve"}
  BY DEF UpdateInv, UpdateFields
<1>9. config = None \/ DOMAIN config \subseteq Hosts
  BY DEF UpdateInv
<1>10. object \in Objects
  BY DEF ClientType
<1>11. QED  BY <1>1, <1>2, <1>3, <1>4, <1>5, <1>6, <1>7, <1>8, <1>9, <1>10 DEF TypeOK, PlainInv

(* Every variable keeps its type (Service of pkg/service/cluster, CachedProvider and the configuration *)
(* cache).  That the stamp stays within one write for each call of the REST API is the part that is    *)
(* not immediate: a call writes the row once, and no call that did so forgets it.                      *)
THEOREM ClustersTypeCorrect == Spec => []TypeOK
<1>1. Init => ClientInv /\ CallsInv /\ StampInv /\ UpdateInv /\ PlainInv
  BY InitClient, InitCalls, InitTypes
<1>2. ClientInv /\ [Next]_vars => ClientInv'
  BY ClientKept
<1>3. CallsInv /\ [Next]_vars => CallsInv'
  BY NextKeepsCalls
<1>4. ClientInv /\ CallsInv /\ StampInv /\ UpdateInv /\ PlainInv /\ [Next]_vars => StampInv' /\ UpdateInv' /\ PlainInv'
  BY NextKeepsStamp, NextKeepsUpdates, NextKeepsPlain DEF ClientInv
<1>5. ClientInv /\ CallsInv /\ StampInv /\ UpdateInv /\ PlainInv => TypeOK
  BY TypesTogether
<1>6. QED  BY <1>1, <1>2, <1>3, <1>4, <1>5, PTL DEF Spec
=============================================================================
