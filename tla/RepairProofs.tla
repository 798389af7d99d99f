---------------------------- MODULE RepairProofs ----------------------------
(***************************************************************************)
(* The repair task, for any tables, replica sets and ranges, any number of *)
(* runs that stop, fail, crash or leave workers behind, and any size of    *)
(* the pool.                                                               *)
(***************************************************************************)
EXTENDS Repair, FiniteSetTheorems, WellFoundedInduction, TLAPS

JobTypes == {"normal", "small", "tablet", "skip"}
States == [TableSet -> SUBSET Ranges]
JobState == [run : Nat, table : TableSet, nodes : SUBSET Nodes, ranges : SUBSET Ranges, type : JobTypes,
             stage : {"queued", "handled", "answered", "result"}, err : {"nil", "deleted", "error"}]
RowState == [put : BOOLEAN, parallel : Nat, initialized : BOOLEAN, ended : BOOLEAN, state : States]
TableState == [i : Nat, todo : SUBSET Ranges, type : JobTypes]

RunTypes ==
  /\ rows \in [RunIds -> RowState] /\ mem \in [RunIds -> States]
  /\ cur \in Nat /\ cur <= MaxRuns
  /\ pc \in {"idle", "plan", "state", "progress", "tables", "generate", "wait", "closing"}
  /\ pc # "idle" => cur \in RunIds
  /\ tg \in TableState
  /\ pc \in {"generate", "wait"} => tg.i \in DOMAIN Tables

JobTypesOk ==
  /\ jobs \in SUBSET JobState /\ IsFiniteSet(jobs)
  /\ \A j \in jobs : j.ranges # {} /\ j.nodes # {} /\ j.run \in 1 .. cur

PoolTypes ==
  /\ jobsCnt \in Nat /\ nodeJobs \in [Nodes -> Nat]
  /\ parallel \in Nat /\ size \in Nat /\ idle \in Nat /\ kills \in Nat

(* The jobs of the run that is on. *)
Current == {j \in jobs : j.run = cur}

(* The controller knows the jobs between Submit and processResult: it counts them, each has its nodes. *)
Controlled ==
  Running => /\ jobsCnt = Cardinality(Current)
             /\ \A j \in Current : \A n \in j.nodes : nodeJobs[n] = 1
             /\ \A j, k \in Current : j # k => j.nodes \cap k.nodes = {}

(* Jobs of a run there are from the generator on; one left behind by its run is in the hands of a worker. *)
JobsInTime ==
  /\ pc \in {"plan", "state", "progress"} => Current = {}
  /\ \A j \in jobs : j.stage \in {"queued", "result"} => Running /\ j.run = cur

ControlInv == RunTypes /\ JobTypesOk /\ PoolTypes /\ Controlled /\ JobsInTime

-----------------------------------------------------------------------------
(* Continued runs, as long as no worker outlived its run. *)
HasState == pc \in {"state", "progress"} \/ Running
Unbroken(r, s) == \A x \in r .. (s - 1) : ~rows[x].ended /\ x + 1 \notin scratch

(* No run is initialized before its time. *)
InitializedInTime ==
  /\ \A r \in RunIds : rows[r].initialized => r <= cur
  /\ pc = "plan" => ~rows[cur].initialized

(* What an earlier run recorded the later ones have recorded, too. *)
Chained ==
  \A r, s \in 1 .. cur :
    r <= s /\ rows[r].initialized /\ (rows[s].initialized \/ (s = cur /\ HasState)) /\ Unbroken(r, s)
      => \A t \in TableSet : rows[r].state[t] \subseteq rows[s].state[t]

(* What is in the row of the run is in its memory. *)
RowBehind == HasState => \A t \in TableSet : rows[cur].state[t] \subseteq mem[cur][t]

(* A job is of the table that the generator is at, unless that one stopped. *)
JobsOfTable ==
  /\ Running /\ grace # "none" => stop
  /\ Running /\ ~stop => /\ pc = "tables" => Current = {}
                         /\ pc \in {"generate", "wait"} => \A j \in Current : j.table = Tables[tg.i] /\ j.ranges \cap tg.todo = {}

(* Two jobs have no range in common, a queued one and what is left to do none that was recorded. *)
RangesApart ==
  /\ \A j, k \in Current : j # k /\ j.table = k.table => j.ranges \cap k.ranges = {}
  /\ Running => \A j \in Current : j.type = "normal" /\ j.stage = "queued" => j.ranges \cap mem[cur][j.table] = {}
  /\ pc \in {"generate", "wait"} /\ ~stop /\ tg.type = "normal" => tg.todo \cap mem[cur][Tables[tg.i]] = {}

NoStranger == \A j \in jobs : Running /\ j.run = cur
ContinueSafe == NoStranger /\ Chained /\ RowBehind /\ RangesApart

ContinueInv == ControlInv /\ InitializedInTime /\ JobsOfTable /\ (~leaked => ContinueSafe)

-----------------------------------------------------------------------------
(* A set of natural numbers has a least one, a bounded set of integers a greatest one. *)
LEMMA LeastNat == ASSUME NEW T \in SUBSET Nat, T # {} PROVE \E x \in T : \A y \in T : x <= y
<1> DEFINE R == OpToRel(<, Nat)
<1>1. IsWellFoundedOn(R, Nat)
  BY NatLessThanWellFounded, Zenon
<1>2. \A x, y \in Nat : x < y => <<x, y>> \in R
  BY DEF OpToRel
<1> HIDE DEF R
<1>3. PICK x \in T : \A y \in T : ~(<<y, x>> \in R)
  BY <1>1, WFMin
<1>4. ASSUME NEW y \in T PROVE x <= y
  <2>1. y \in Nat /\ x \in Nat
    OBVIOUS
  <2>2. <<y, x>> \notin R
    BY <1>3
  <2>3. ~(y < x)
    BY <1>2, <2>1, <2>2, Zenon
  <2>4. QED  BY <2>1, <2>3
<1>5. QED  BY <1>4

LEMMA GreatestInt ==
  ASSUME NEW k \in Int, NEW T \in SUBSET Int, T # {}, \A x \in T : x <= k
  PROVE  \E x \in T : \A y \in T : y <= x
<1> DEFINE U == {k - x : x \in T}
<1>1. U \in SUBSET Nat
  BY DEF U
<1>2. PICK t \in T : TRUE
  OBVIOUS
<1>3. k - t \in U /\ \A x \in T : k - x \in U
  BY DEF U
<1> HIDE DEF U
<1>4. PICK m \in U : \A y \in U : m <= y
  BY <1>1, <1>3, LeastNat
<1>5. PICK x \in T : m = k - x
  BY <1>4 DEF U
<1>6. ASSUME NEW y \in T PROVE y <= x
  <2>1. m <= k - y
    BY <1>3, <1>4
  <2>2. QED  BY <1>5, <2>1
<1>7. QED  BY <1>6

(* The run that a continuing one takes over is the newest initialized one before it, and not ended. *)
LEMMA PrevRun ==
  ASSUME RunTypes, NEW g, g = GetPrevRun
  PROVE  \/ g = 0 /\ \/ \A r \in 1 .. (cur - 1) : ~rows[r].initialized
                     \/ \E p \in 1 .. (cur - 1) : /\ rows[p].initialized /\ rows[p].ended
                                                   /\ \A r \in 1 .. (cur - 1) : rows[r].initialized => r <= p
         \/ /\ g \in 1 .. (cur - 1) /\ rows[g].initialized /\ ~rows[g].ended
            /\ \A r \in 1 .. (cur - 1) : rows[r].initialized => r <= g
<1> DEFINE known == {r \in 1 .. (cur - 1) : rows[r].initialized}
           prev == CHOOSE r \in known : \A x \in known : x <= r
<1>1. g = IF known = {} \/ rows[prev].ended THEN 0 ELSE prev
  BY DEF GetPrevRun
<1>2. CASE known = {}
  BY <1>1, <1>2
<1>3. CASE known # {}
  <2>1. known \in SUBSET Int /\ cur \in Int /\ \A x \in known : x <= cur
    BY DEF RunTypes
  <2>2. \E r \in known : \A x \in known : x <= r
    BY <1>3, <2>1, GreatestInt
  <2>3. prev \in known /\ \A x \in known : x <= prev
    BY <2>2
  <2> HIDE DEF prev
  <2>4. CASE rows[prev].ended
    BY <1>1, <2>3, <2>4
  <2>5. CASE ~rows[prev].ended
    BY <1>1, <1>3, <2>3, <2>5
  <2>6. QED  BY <2>4, <2>5
<1>4. QED  BY <1>2, <1>3

LEMMA NoRangesOk == NoRanges \in States /\ NoRow \in RowState /\ NoTable \in TableState
<1>1. NoRanges \in States
  BY DEF NoRanges, States
<1>2. NoRow \in RowState
  BY <1>1 DEF NoRow, RowState
<1>3. NoTable \in TableState
  BY DEF NoTable, TableState, JobTypes
<1>4. QED  BY <1>1, <1>2, <1>3

(* What InitState takes over. *)
LEMMA TakenOver ==
  ASSUME RunTypes, pc # "idle", NEW continue, NEW g, g = IF continue THEN GetPrevRun ELSE 0
  PROVE  /\ g \in 0 .. (cur - 1)
         /\ g # 0 => g \in RunIds /\ rows[g].state \in States /\ rows[g].parallel \in Nat
         /\ (IF g = 0 THEN NoRanges ELSE rows[g].state) \in States
<1>1. g \in 0 .. (cur - 1) /\ cur \in RunIds
  <2>1. PICK h : h = GetPrevRun
    OBVIOUS
  <2>2. cur \in 1 .. MaxRuns /\ MaxRuns \in Nat /\ cur \in Nat
    BY RepairAssumption DEF RunTypes, RunIds
  <2>3. h \in 0 .. (cur - 1)
    BY <2>1, <2>2, PrevRun
  <2>4. QED  BY <2>1, <2>2, <2>3 DEF RunIds
<1>2. g # 0 => g \in RunIds
  BY <1>1, RepairAssumption DEF RunIds
<1>3. QED  BY <1>1, <1>2, NoRangesOk DEF RunTypes, RowState

-----------------------------------------------------------------------------
(* Types of the rows, of the memory and of the generator. *)
RunVars == <<rows, mem, cur, pc, tg>>

LEMMA RowSet ==
  ASSUME RunTypes, NEW r \in RunIds, NEW v \in RowState, rows' = [rows EXCEPT ![r] = v]
  PROVE  rows' \in [RunIds -> RowState] /\ rows'[r] = v /\ \A x \in RunIds : x # r => rows'[x] = rows[x]
BY DEF RunTypes

(* How the fields of a row are set. *)
LEMMA StateSet ==
  ASSUME RunTypes, NEW r \in RunIds, NEW st \in States, rows' = [rows EXCEPT ![r].state = st]
  PROVE  /\ rows' \in [RunIds -> RowState] /\ \A x \in RunIds : x # r => rows'[x] = rows[x]
         /\ rows'[r].state = st /\ rows'[r].initialized = rows[r].initialized /\ rows'[r].ended = rows[r].ended
<1>1. PICK d : d = rows[r]
  OBVIOUS
<1>2. d \in RowState
  BY <1>1 DEF RunTypes
<1>3. PICK v : v = [d EXCEPT !.state = st]
  OBVIOUS
<1>4. v \in RowState /\ v.state = st /\ v.initialized = d.initialized /\ v.ended = d.ended
  BY <1>2, <1>3 DEF RowState
<1>5. rows' = [rows EXCEPT ![r] = v]
  BY <1>1, <1>3 DEF RunTypes
<1>6. QED  BY <1>1, <1>4, <1>5, RowSet

LEMMA ParallelSet ==
  ASSUME RunTypes, NEW r \in RunIds, NEW p \in Nat, rows' = [rows EXCEPT ![r].parallel = p]
  PROVE  /\ rows' \in [RunIds -> RowState] /\ \A x \in RunIds : x # r => rows'[x] = rows[x]
         /\ rows'[r].state = rows[r].state /\ rows'[r].initialized = rows[r].initialized /\ rows'[r].ended = rows[r].ended
<1>1. PICK d : d = rows[r]
  OBVIOUS
<1>2. d \in RowState
  BY <1>1 DEF RunTypes
<1>3. PICK v : v = [d EXCEPT !.parallel = p]
  OBVIOUS
<1>4. v \in RowState /\ v.state = d.state /\ v.initialized = d.initialized /\ v.ended = d.ended
  BY <1>2, <1>3 DEF RowState
<1>5. rows' = [rows EXCEPT ![r] = v]
  BY <1>1, <1>3 DEF RunTypes
<1>6. QED  BY <1>1, <1>4, <1>5, RowSet

LEMMA EndedSet ==
  ASSUME RunTypes, NEW r \in RunIds, NEW b \in BOOLEAN, rows' = [rows EXCEPT ![r].ended = b]
  PROVE  /\ rows' \in [RunIds -> RowState] /\ \A x \in RunIds : x # r => rows'[x] = rows[x]
         /\ rows'[r].state = rows[r].state /\ rows'[r].initialized = rows[r].initialized /\ rows'[r].ended = b
<1>1. PICK d : d = rows[r]
  OBVIOUS
<1>2. d \in RowState
  BY <1>1 DEF RunTypes
<1>3. PICK v : v = [d EXCEPT !.ended = b]
  OBVIOUS
<1>4. v \in RowState /\ v.state = d.state /\ v.initialized = d.initialized /\ v.ended = b
  BY <1>2, <1>3 DEF RowState
<1>5. rows' = [rows EXCEPT ![r] = v]
  BY <1>1, <1>3 DEF RunTypes
<1>6. QED  BY <1>1, <1>4, <1>5, RowSet

LEMMA InitializedSet ==
  ASSUME RunTypes, NEW r \in RunIds, NEW b \in BOOLEAN, rows' = [rows EXCEPT ![r].initialized = b]
  PROVE  /\ rows' \in [RunIds -> RowState] /\ \A x \in RunIds : x # r => rows'[x] = rows[x]
         /\ rows'[r].state = rows[r].state /\ rows'[r].initialized = b /\ rows'[r].ended = rows[r].ended
<1>1. PICK d : d = rows[r]
  OBVIOUS
<1>2. d \in RowState
  BY <1>1 DEF RunTypes
<1>3. PICK v : v = [d EXCEPT !.initialized = b]
  OBVIOUS
<1>4. v \in RowState /\ v.state = d.state /\ v.initialized = b /\ v.ended = d.ended
  BY <1>2, <1>3 DEF RowState
<1>5. rows' = [rows EXCEPT ![r] = v]
  BY <1>1, <1>3 DEF RunTypes
<1>6. QED  BY <1>1, <1>4, <1>5, RowSet

(* What the steps that write rows do to them. *)
LEMMA StartRows ==
  ASSUME RunTypes, Start
  PROVE  /\ cur + 1 \in RunIds
         /\ rows' \in [RunIds -> RowState] /\ \A x \in RunIds : x # cur + 1 => rows'[x] = rows[x]
         /\ rows'[cur + 1].state = rows[cur + 1].state
         /\ rows'[cur + 1].initialized = rows[cur + 1].initialized /\ rows'[cur + 1].ended = rows[cur + 1].ended
<1>1. PICK r : r = cur + 1
  OBVIOUS
<1>2. r \in RunIds
  BY <1>1, RepairAssumption DEF Start, RunTypes, RunIds
<1>3. PICK p \in Parallels : rows' = [rows EXCEPT ![r].put = TRUE, ![r].parallel = p]
  BY <1>1 DEF Start
<1>4. PICK d : d = rows[r]
  OBVIOUS
<1>5. d \in RowState /\ p \in Nat
  BY <1>2, <1>4, RepairAssumption DEF RunTypes
<1>6. PICK v : v = [d EXCEPT !.put = TRUE, !.parallel = p]
  OBVIOUS
<1>7. v \in RowState /\ v.state = d.state /\ v.initialized = d.initialized /\ v.ended = d.ended
  BY <1>5, <1>6 DEF RowState
<1>8. rows' = [rows EXCEPT ![r] = v]
  BY <1>2, <1>3, <1>4, <1>6 DEF RunTypes
<1>9. QED  BY <1>1, <1>2, <1>4, <1>7, <1>8, RowSet

LEMMA InitStateRows ==
  ASSUME RunTypes, InitState
  PROVE  \E continue \in Continues, g \in 0 .. (cur - 1), st \in States :
           /\ g = IF continue THEN GetPrevRun ELSE 0
           /\ st = IF g = 0 THEN NoRanges ELSE rows[g].state
           /\ mem' = [mem EXCEPT ![cur] = st]
           /\ rows' \in [RunIds -> RowState] /\ \A x \in RunIds : x # cur => rows'[x] = rows[x]
           /\ rows'[cur].state = st /\ rows'[cur].initialized = rows[cur].initialized /\ rows'[cur].ended = rows[cur].ended
           /\ since' = [since EXCEPT ![cur] = IF g = 0 THEN cur ELSE since[g]]
           /\ scratch' = IF continue THEN scratch ELSE scratch \cup {cur}
<1>1. cur \in RunIds
  BY DEF RunTypes, InitState
<1>2. PICK continue \in Continues :
        LET prev == IF continue THEN GetPrevRun ELSE 0
            state == IF prev = 0 THEN NoRanges ELSE rows[prev].state
        IN /\ mem' = [mem EXCEPT ![cur] = state]
           /\ rows' = [rows EXCEPT ![cur].state = state,
                                   ![cur].parallel = IF prev = 0 THEN @ ELSE rows[prev].parallel]
           /\ since' = [since EXCEPT ![cur] = IF prev = 0 THEN cur ELSE since[prev]]
           /\ scratch' = IF continue THEN scratch ELSE scratch \cup {cur}
  BY DEF InitState
<1>3. PICK g : g = IF continue THEN GetPrevRun ELSE 0
  OBVIOUS
<1>4. PICK st : st = IF g = 0 THEN NoRanges ELSE rows[g].state
  OBVIOUS
<1>5. /\ g \in 0 .. (cur - 1) /\ st \in States
      /\ g # 0 => rows[g].parallel \in Nat
  BY <1>3, <1>4, TakenOver DEF InitState
<1>6. PICK d : d = rows[cur]
  OBVIOUS
<1>7. d \in RowState
  BY <1>1, <1>6 DEF RunTypes
<1>8. PICK p : p = IF g = 0 THEN d.parallel ELSE rows[g].parallel
  OBVIOUS
<1>9. p \in Nat
  BY <1>5, <1>7, <1>8 DEF RowState
<1>10. PICK v : v = [d EXCEPT !.state = st, !.parallel = p]
  OBVIOUS
<1>11. v \in RowState /\ v.state = st /\ v.initialized = d.initialized /\ v.ended = d.ended
  BY <1>5, <1>7, <1>9, <1>10 DEF RowState
<1>12. rows' = [rows EXCEPT ![cur].state = st, ![cur].parallel = IF g = 0 THEN @ ELSE rows[g].parallel]
  BY <1>2, <1>3, <1>4
<1>13. rows' = [rows EXCEPT ![cur] = v]
  BY <1>1, <1>6, <1>8, <1>10, <1>12 DEF RunTypes
<1>14. rows' \in [RunIds -> RowState] /\ rows'[cur] = v /\ \A x \in RunIds : x # cur => rows'[x] = rows[x]
  BY <1>1, <1>11, <1>13 DEF RunTypes
<1>15. /\ mem' = [mem EXCEPT ![cur] = st]
       /\ since' = [since EXCEPT ![cur] = IF g = 0 THEN cur ELSE since[g]]
       /\ scratch' = IF continue THEN scratch ELSE scratch \cup {cur}
  BY <1>2, <1>3, <1>4
<1>16. QED  BY <1>3, <1>4, <1>5, <1>6, <1>11, <1>14, <1>15

LEMMA InitializedRows ==
  ASSUME RunTypes, InitProgress \/ SetupFails
  PROVE  /\ cur \in RunIds
         /\ rows' \in [RunIds -> RowState] /\ \A x \in RunIds : x # cur => rows'[x] = rows[x]
         /\ rows'[cur].state = rows[cur].state /\ rows'[cur].ended = rows[cur].ended
         /\ rows'[cur].initialized => rows[cur].initialized \/ pc = "state"
<1>1. cur \in RunIds /\ (InitProgress => pc = "state")
  BY DEF RunTypes, InitProgress, SetupFails
<1>2. \E b \in BOOLEAN : rows' = [rows EXCEPT ![cur].initialized = b] /\ (b => rows[cur].initialized \/ pc = "state")
  <2>1. CASE InitProgress
    BY <1>1, <2>1 DEF InitProgress
  <2>2. CASE SetupFails
    <3>1. PICK b \in BOOLEAN : rows' = [rows EXCEPT ![cur].initialized = @ \/ (b /\ pc = "state")]
      BY <2>2 DEF SetupFails
    <3>2. PICK c \in BOOLEAN : c = (rows[cur].initialized \/ (b /\ pc = "state"))
      OBVIOUS
    <3>3. rows' = [rows EXCEPT ![cur].initialized = c]
      BY <1>1, <3>1, <3>2 DEF RunTypes
    <3>4. QED  BY <3>2, <3>3
  <2>3. QED  BY <2>1, <2>2
<1>3. PICK b \in BOOLEAN : rows' = [rows EXCEPT ![cur].initialized = b] /\ (b => rows[cur].initialized \/ pc = "state")
  BY <1>2
<1>4. PICK r \in RunIds : r = cur
  BY <1>1
<1>5. QED  BY <1>1, <1>3, <1>4, InitializedSet

(* OnJobEnd adds the ranges of the job to what the run has, in its memory and perhaps in its row. *)
LEMMA OnJobEndRows ==
  ASSUME RunTypes, JobTypesOk, NEW j \in jobs, OnJobEnd(j)
  PROVE  /\ j.run \in RunIds /\ j.table \in TableSet
         /\ mem' \in [RunIds -> States] /\ \A x \in RunIds : x # j.run => mem'[x] = mem[x]
         /\ \A t \in TableSet : mem'[j.run][t] = IF t = j.table /\ j.err # "error" THEN mem[j.run][t] \cup j.ranges ELSE mem[j.run][t]
         /\ rows' \in [RunIds -> RowState] /\ \A x \in RunIds : x # j.run => rows'[x] = rows[x]
         /\ rows'[j.run].state \in {rows[j.run].state, mem'[j.run]}
         /\ rows'[j.run].initialized = rows[j.run].initialized /\ rows'[j.run].ended = rows[j.run].ended
<1>1. PICK r : r = j.run
  OBVIOUS
<1>2. r \in RunIds /\ j.table \in TableSet /\ j.ranges \in SUBSET Ranges
  BY <1>1, RepairAssumption DEF JobTypesOk, JobState, RunTypes, RunIds
<1>3. mem' \in [RunIds -> States] /\ \A x \in RunIds : x # r => mem'[x] = mem[x]
  BY <1>1, <1>2 DEF OnJobEnd, Recorded, RunTypes, States
<1>4. \A t \in TableSet : mem'[r][t] = IF t = j.table /\ j.err # "error" THEN mem[r][t] \cup j.ranges ELSE mem[r][t]
  BY <1>1, <1>2 DEF OnJobEnd, Recorded, RunTypes, States
<1>5. PICK st \in States : st = mem'[r]
  BY <1>2, <1>3
<1>6. CASE UNCHANGED rows
  BY <1>1, <1>2, <1>3, <1>4, <1>6 DEF RunTypes
<1>7. CASE rows' = [rows EXCEPT ![r].state = st]
  BY <1>1, <1>2, <1>3, <1>4, <1>5, <1>7, StateSet
<1>8. QED  BY <1>1, <1>5, <1>6, <1>7 DEF OnJobEnd

LEMMA FinishRows ==
  ASSUME RunTypes, Finish
  PROVE  /\ cur \in RunIds
         /\ rows' \in [RunIds -> RowState] /\ \A x \in RunIds : x # cur => rows'[x] = rows[x]
         /\ rows'[cur].state = rows[cur].state /\ rows'[cur].initialized = rows[cur].initialized
         /\ rows'[cur].ended => rows[cur].ended \/ (~err /\ ctx = "live")
<1>1. PICK r \in RunIds : r = cur
  BY DEF RunTypes, Finish
<1>2. PICK b \in BOOLEAN : b = (~err /\ ctx = "live")
  OBVIOUS
<1>3. CASE UNCHANGED rows
  BY <1>1, <1>3 DEF RunTypes
<1>4. CASE rows' = [rows EXCEPT ![r].ended = b]
  BY <1>1, <1>2, <1>4, EndedSet
<1>5. QED  BY <1>1, <1>2, <1>3, <1>4 DEF Finish

LEMMA SetParallelRows ==
  ASSUME RunTypes, NEW p \in Controls, SetParallel(p)
  PROVE  /\ cur \in RunIds
         /\ rows' \in [RunIds -> RowState] /\ \A x \in RunIds : x # cur => rows'[x] = rows[x]
         /\ rows'[cur].state = rows[cur].state /\ rows'[cur].initialized = rows[cur].initialized
         /\ rows'[cur].ended = rows[cur].ended
<1>1. PICK r \in RunIds : r = cur
  BY DEF RunTypes, SetParallel, Running
<1>2. p \in Nat
  BY RepairAssumption
<1>3. rows' = [rows EXCEPT ![r].parallel = p]
  BY <1>1 DEF SetParallel
<1>4. QED  BY <1>1, <1>2, <1>3, ParallelSet

LEMMA RunTypesKept ==
  ASSUME RunTypes, JobTypesOk, [Next]_vars PROVE RunTypes'
<1>0. /\ rows \in [RunIds -> RowState] /\ mem \in [RunIds -> States] /\ cur \in Nat /\ cur <= MaxRuns /\ tg \in TableState
      /\ pc # "idle" => cur \in RunIds
  BY DEF RunTypes
<1>a. ASSUME UNCHANGED RunVars PROVE RunTypes'
  BY <1>a DEF RunVars, RunTypes
<1>1. CASE Start
  <2>1. cur' \in Nat /\ cur' <= MaxRuns /\ cur' \in RunIds
    <3>1. cur + 1 \in RunIds /\ cur' = cur + 1
      BY <1>1, StartRows DEF Start
    <3>2. QED  BY <1>0, <3>1, RepairAssumption DEF RunIds
  <2>2. QED  BY <1>0, <1>1, <2>1, StartRows DEF Start, RunTypes
<1>2. CASE InitState
  <2>1. rows' \in [RunIds -> RowState] /\ mem' \in [RunIds -> States]
    BY <1>0, <1>2, InitStateRows
  <2>2. QED  BY <1>0, <1>2, <2>1 DEF InitState, RunTypes
<1>3. CASE InitProgress
  BY <1>0, <1>3, InitializedRows DEF InitProgress, RunTypes
<1>4. CASE SetupFails
  <2>1. mem' \in [RunIds -> States]
    BY <1>0, <1>4, NoRangesOk DEF SetupFails
  <2>2. QED  BY <1>0, <1>4, <2>1, InitializedRows DEF SetupFails, RunTypes
<1>5. CASE Setup
  BY <1>0, <1>5, NoRangesOk DEF Setup, database, RunTypes
<1>6. CASE NextTable
  <2>1. PICK t : t = Tables[tg.i]
    OBVIOUS
  <2>2. t \in TableSet /\ cur \in RunIds
    BY <1>6, <2>1 DEF NextTable, TableSet, RunTypes
  <2>3. TodoRanges(t) \in SUBSET Ranges /\ NewJobType(t) \in JobTypes
    BY DEF TodoRanges, NewJobType, JobTypes
  <2>4. tg' \in TableState /\ (pc' = "generate" => tg'.i \in DOMAIN Tables)
    BY <1>0, <1>6, <2>1, <2>3 DEF NextTable, TableState, RunTypes
  <2>5. QED  BY <1>0, <1>6, <2>4 DEF NextTable, database, RunTypes
<1>7. CASE DescribeFails \/ Close
  BY <1>0, <1>7 DEF DescribeFails, Close, database, RunTypes
<1>8. CASE Generate
  <2>1. tg' \in TableState /\ tg'.i = tg.i
    <3>1. PICK ranges, ty : tg' = [tg EXCEPT !.todo = @ \ ranges, !.type = ty] /\ ty \in {tg.type, "skip"}
      BY <1>0, <1>8 DEF Generate, TableState
    <3>2. QED  BY <1>0, <3>1 DEF TableState, JobTypes
  <2>2. QED  BY <1>0, <1>8, <2>1 DEF Generate, database, RunTypes
<1>9. CASE GenerateNoMore
  <2>1. tg' \in TableState /\ tg'.i = tg.i
    BY <1>0, <1>9 DEF GenerateNoMore, TableState
  <2>2. QED  BY <1>0, <1>9, <2>1 DEF GenerateNoMore, database, RunTypes
<1>10. ASSUME NEW j \in jobs, ProcessResult(j) PROVE RunTypes'
  <2>1. tg' \in TableState /\ tg'.i = tg.i
    BY <1>0, <1>10 DEF ProcessResult, TableState, JobTypes
  <2>2. QED  BY <1>0, <1>10, <2>1 DEF ProcessResult, database, RunTypes
<1>11. CASE TableDone
  <2>1. tg' \in TableState
    BY <1>0, <1>11 DEF TableDone, TableState, NoTable, JobTypes
  <2>2. QED  BY <1>0, <1>11, <2>1 DEF TableDone, database, RunTypes
<1>12. ASSUME NEW j \in jobs, Take(j) \/ RepairOk(j) \/ RepairFails(j) PROVE RunTypes'
  BY <1>a, <1>12 DEF Take, RepairOk, RepairFails, database, RunVars
<1>13. ASSUME NEW j \in jobs, OnJobEnd(j) PROVE RunTypes'
  <2>1. rows' \in [RunIds -> RowState] /\ mem' \in [RunIds -> States]
    BY <1>13, OnJobEndRows
  <2>2. QED  BY <1>0, <1>13, <2>1 DEF OnJobEnd, RunTypes
<1>14. CASE WorkerExits \/ Cancel \/ StopGenerating \/ GracefulStopTimeout
  BY <1>a, <1>14 DEF WorkerExits, Cancel, StopGenerating, GracefulStopTimeout, database, RunVars
<1>15. ASSUME NEW p \in Controls, SetParallel(p) PROVE RunTypes'
  BY <1>0, <1>15, SetParallelRows DEF SetParallel, RunTypes
<1>16. CASE Finish
  <2>1. mem' \in [RunIds -> States]
    BY <1>0, <1>16, NoRangesOk DEF Finish
  <2>2. QED  BY <1>0, <1>16, <2>1, FinishRows, NoRangesOk DEF Finish, RunTypes
<1>17. CASE Crash
  BY <1>0, <1>17, NoRangesOk DEF Crash, database, RunTypes
<1>18. ASSUME NEW t \in MayDelete, DeleteTable(t) PROVE RunTypes'
  BY <1>a, <1>18 DEF DeleteTable, RunVars
<1>19. CASE UNCHANGED vars
  BY <1>a, <1>19 DEF vars, database, RunVars
<1>20. QED
  BY <1>1, <1>2, <1>3, <1>4, <1>5, <1>6, <1>7, <1>8, <1>9, <1>10, <1>11, <1>12, <1>13, <1>14, <1>15, <1>16, <1>17, <1>18, <1>19
  DEF Next, Repair, Generator, Workers

-----------------------------------------------------------------------------
(* Jobs and the controller. *)
LEMMA RangesToRepair ==
  ASSUME NEW rs \in ReplicaSets, NEW i \in Intensities, RangesOf[rs] \cap tg.todo # {}
  PROVE  /\ getRangesToRepair(rs, i) \subseteq RangesOf[rs] \cap tg.todo
         /\ getRangesToRepair(rs, i) # {} /\ getRangesToRepair(rs, i) \subseteq Ranges
<1>1. PICK own : own = RangesOf[rs] \cap tg.todo
  OBVIOUS
<1>2. RangesOf[rs] \subseteq Ranges
  BY DEF Ranges
<1>3. own \in SUBSET Nat /\ own # {} /\ own \subseteq Ranges
  BY <1>1, <1>2, RepairAssumption
<1>4. getRangesToRepair(rs, i) = IF tg.type # "normal" THEN own
                                 ELSE {x \in own : Cardinality({y \in own : y <= x}) <= i}
  BY <1>1 DEF getRangesToRepair
<1>5. PICK x \in own : \A y \in own : x <= y
  BY <1>3, LeastNat
<1>6. {y \in own : y <= x} = {x}
  BY <1>3, <1>5
<1>7. Cardinality({y \in own : y <= x}) = 1
  BY <1>6, FS_Singleton
<1>8. i \in Nat /\ i # 0
  BY RepairAssumption
<1>9. x \in getRangesToRepair(rs, i)
  BY <1>4, <1>7, <1>8
<1>10. QED  BY <1>1, <1>3, <1>4, <1>9

SameJob(j, k) == k.run = j.run /\ k.table = j.table /\ k.nodes = j.nodes /\ k.ranges = j.ranges /\ k.type = j.type

JobControl == JobTypesOk /\ Controlled /\ JobsInTime

LEMMA MovedKeepsControl ==
  ASSUME JobControl, NEW j \in jobs, NEW k \in JobState, SameJob(j, k), Moved(j, k), UNCHANGED <<cur, pc, jobsCnt, nodeJobs>>,
         k.stage \in {"queued", "result"} => Running /\ k.run = cur
  PROVE  JobControl'
<1> USE DEF JobControl
<1>1. jobs' = (jobs \ {j}) \cup {k} /\ (Running' <=> Running)
  BY DEF Moved, Running
<1>2. JobTypesOk'
  <2>1. IsFiniteSet(jobs \ {j})
    BY FS_RemoveElement DEF JobTypesOk
  <2>2. IsFiniteSet(jobs')
    BY <1>1, <2>1, FS_AddElement
  <2>3. QED  BY <1>1, <2>2 DEF JobTypesOk, SameJob
<1>3. Controlled'
  <2>1. SUFFICES ASSUME Running PROVE Controlled'
    BY <1>1 DEF Controlled
  <2>2. IsFiniteSet(Current)
    BY FS_Subset DEF Current, JobTypesOk
  <2>3. CASE j.run # cur
    <3>1. Current' = Current
      BY <1>1, <2>3 DEF Current, SameJob
    <3>2. QED  BY <2>1, <3>1 DEF Controlled
  <2>4. CASE j.run = cur
    <3>1. Current' = (Current \ {j}) \cup {k} /\ j \in Current
      BY <1>1, <2>4 DEF Current, SameJob
    <3>2. k \notin Current \ {j}
      BY <2>1, <3>1 DEF Controlled, SameJob, JobTypesOk
    <3>3. IsFiniteSet(Current \ {j}) /\ Cardinality(Current \ {j}) = Cardinality(Current) - 1
      BY <2>2, <3>1, FS_RemoveElement
    <3>4. Cardinality(Current') = Cardinality(Current \ {j}) + 1
      BY <3>1, <3>2, <3>3, FS_AddElement
    <3>5. Cardinality(Current') = Cardinality(Current)
      <4>1. Cardinality(Current) \in Nat
        BY <2>2, FS_CardinalityType
      <4>2. QED  BY <3>3, <3>4, <4>1
    <3>6. \A l \in Current' : \A n \in l.nodes : nodeJobs[n] = 1
      BY <2>1, <3>1 DEF Controlled, SameJob
    <3>7. \A l, m \in Current' : l # m => l.nodes \cap m.nodes = {}
      BY <2>1, <3>1 DEF Controlled, SameJob
    <3>8. QED  BY <2>1, <3>5, <3>6, <3>7 DEF Controlled
  <2>5. QED  BY <2>3, <2>4
<1>4. JobsInTime'
  <2>1. pc \in {"plan", "state", "progress"} => Current' = {}
    BY <1>1 DEF JobsInTime, Current, SameJob
  <2>2. QED  BY <1>1, <2>1 DEF JobsInTime
<1>5. QED  BY <1>2, <1>3, <1>4

LEMMA RemovedKeepsTypes ==
  ASSUME JobTypesOk, NEW j \in jobs, jobs' = jobs \ {j}, UNCHANGED cur
  PROVE  JobTypesOk'
<1>1. IsFiniteSet(jobs')
  BY FS_RemoveElement DEF JobTypesOk
<1>2. QED  BY <1>1 DEF JobTypesOk

(* A job of an earlier run goes. *)
LEMMA StrangerLeaves ==
  ASSUME JobControl, NEW j \in jobs, jobs' = jobs \ {j}, ~Mine(j), UNCHANGED <<cur, pc, jobsCnt, nodeJobs>>
  PROVE  JobControl'
<1> USE DEF JobControl
<1>1. JobTypesOk' /\ (Running' <=> Running)
  BY RemovedKeepsTypes DEF Running
<1>2. Running => Current' = Current
  BY DEF Current, Mine
<1>3. Controlled'
  BY <1>1, <1>2 DEF Controlled
<1>4. Current' \subseteq Current
  BY DEF Current
<1>5. JobsInTime'
  BY <1>1, <1>4 DEF JobsInTime
<1>6. QED  BY <1>1, <1>3, <1>5

LEMMA GenerateKeepsControl ==
  ASSUME RunTypes, PoolTypes, JobControl, Generate
  PROVE  JobControl' /\ PoolTypes'
<1> USE DEF JobControl
<1>1. PICK rs \in ReplicaSets, i \in Intensities :
        LET ranges == getRangesToRepair(rs, i)
        IN /\ CanTake(rs)
           /\ block(Replicas[rs])
           /\ jobs' = jobs \cup {[run |-> cur, table |-> Tables[tg.i], nodes |-> Replicas[rs],
                                  ranges |-> ranges, type |-> tg.type, stage |-> "queued", err |-> "nil"]}
  BY DEF Generate
<1>2. PICK ranges : ranges = getRangesToRepair(rs, i)
  OBVIOUS
<1>3. PICK k : k = [run |-> cur, table |-> Tables[tg.i], nodes |-> Replicas[rs],
                    ranges |-> ranges, type |-> tg.type, stage |-> "queued", err |-> "nil"]
  OBVIOUS
<1>4. UNCHANGED <<cur, pc>> /\ Running /\ Running' /\ pc = "generate"
  BY DEF Generate, Running
<1>5. ranges # {} /\ ranges \subseteq Ranges /\ Replicas[rs] # {} /\ Replicas[rs] \subseteq Nodes
  BY <1>1, <1>2, RangesToRepair, RepairAssumption DEF CanTake
<1>6. /\ k \in JobState /\ k.run = cur /\ k.nodes = Replicas[rs] /\ k.ranges = ranges /\ k.stage = "queued"
      /\ cur \in 1 .. cur
  <2>1. Tables[tg.i] \in TableSet /\ tg.type \in JobTypes /\ cur \in RunIds /\ cur \in Nat
    BY <1>4 DEF RunTypes, TableSet, TableState
  <2>2. QED  BY <1>3, <1>5, <2>1 DEF JobState, RunIds
<1>7. jobs' = jobs \cup {k} /\ Current' = Current \cup {k}
  BY <1>1, <1>2, <1>3, <1>4, <1>6 DEF Current
<1>8. JobTypesOk'
  <2>1. IsFiniteSet(jobs')
    BY <1>7, FS_AddElement DEF JobTypesOk
  <2>2. QED  BY <1>4, <1>5, <1>6, <1>7, <2>1 DEF JobTypesOk
<1>9. /\ jobsCnt' = jobsCnt + 1
      /\ \A n \in Nodes : nodeJobs'[n] = IF n \in k.nodes THEN nodeJobs[n] + 1 ELSE nodeJobs[n]
      /\ nodeJobs' \in [Nodes -> Nat]
      /\ \A n \in k.nodes : n \in Nodes /\ nodeJobs[n] = 0
  BY <1>1, <1>5, <1>6 DEF block, CanTake, shouldBlock, PoolTypes
<1>10. PoolTypes'
  BY <1>9 DEF PoolTypes, Generate, pool
<1>11. \A j \in Current : j.nodes \cap k.nodes = {} /\ j.nodes \subseteq Nodes
  <2>1. ASSUME NEW j \in Current PROVE j.nodes \cap k.nodes = {} /\ j.nodes \subseteq Nodes
    <3>1. \A n \in j.nodes : nodeJobs[n] = 1
      BY <1>4 DEF Controlled
    <3>2. j.nodes \subseteq Nodes
      BY DEF Current, JobTypesOk, JobState
    <3>3. QED  BY <1>9, <3>1, <3>2
  <2>2. QED  BY <2>1
<1>12. k \notin Current
  BY <1>5, <1>6, <1>11
<1>13. Controlled'
  <2>1. IsFiniteSet(Current)
    BY FS_Subset DEF Current, JobTypesOk
  <2>2. Cardinality(Current') = jobsCnt'
    BY <1>4, <1>7, <1>9, <1>12, <2>1, FS_AddElement DEF Controlled
  <2>3. ASSUME NEW j \in Current', NEW n \in j.nodes PROVE nodeJobs'[n] = 1
    <3>1. CASE j = k
      BY <1>9, <2>3, <3>1
    <3>2. CASE j \in Current
      <4>1. nodeJobs[n] = 1 /\ n \in Nodes /\ n \notin k.nodes
        BY <1>4, <1>11, <2>3, <3>2 DEF Controlled
      <4>2. QED  BY <1>9, <4>1
    <3>3. QED  BY <1>7, <3>1, <3>2
  <2>4. \A j, l \in Current' : j # l => j.nodes \cap l.nodes = {}
    BY <1>4, <1>7, <1>11 DEF Controlled
  <2>5. QED  BY <2>2, <2>3, <2>4 DEF Controlled
<1>14. JobsInTime'
  BY <1>4, <1>6, <1>7 DEF JobsInTime
<1>15. QED  BY <1>8, <1>10, <1>13, <1>14

LEMMA ProcessResultKeepsControl ==
  ASSUME RunTypes, PoolTypes, JobControl, NEW j \in jobs, ProcessResult(j)
  PROVE  JobControl' /\ PoolTypes'
<1> USE DEF JobControl
<1>1. jobs' = jobs \ {j} /\ UNCHANGED cur /\ Running /\ Running' /\ pc' = "generate"
  BY DEF ProcessResult, Running
<1>2. j \in Current /\ Current' = Current \ {j}
  BY <1>1 DEF ProcessResult, JobsInTime, Current
<1>3. IsFiniteSet(Current)
  BY FS_Subset DEF Current, JobTypesOk
<1>4. Cardinality(Current \ {j}) = Cardinality(Current) - 1 /\ Cardinality(Current) \in Nat /\ Cardinality(Current \ {j}) \in Nat
  <2>1. IsFiniteSet(Current \ {j}) /\ Cardinality(Current \ {j}) = Cardinality(Current) - 1
    BY <1>2, <1>3, FS_RemoveElement
  <2>2. QED  BY <1>3, <2>1, FS_CardinalityType
<1>5. jobsCnt = Cardinality(Current)
  BY <1>1 DEF Controlled
<1>6. /\ jobsCnt' = jobsCnt - 1
      /\ \A n \in Nodes : nodeJobs'[n] = IF n \in j.nodes THEN nodeJobs[n] - 1 ELSE nodeJobs[n]
      /\ nodeJobs' = [n \in Nodes |-> nodeJobs'[n]]
  BY DEF ProcessResult, Unblock
<1>7. \A n \in j.nodes : nodeJobs[n] = 1
  BY <1>1, <1>2 DEF Controlled
<1>8. PoolTypes'
  <2>1. \A n \in Nodes : nodeJobs'[n] \in Nat
    BY <1>6, <1>7 DEF PoolTypes
  <2>2. jobsCnt' \in Nat
    BY <1>4, <1>5, <1>6
  <2>3. QED  BY <1>6, <2>1, <2>2 DEF PoolTypes, ProcessResult, pool
<1>9. Controlled'
  <2>1. jobsCnt' = Cardinality(Current')
    BY <1>2, <1>4, <1>5, <1>6
  <2>2. ASSUME NEW k \in Current', NEW n \in k.nodes PROVE nodeJobs'[n] = 1
    <3>1. k \in Current /\ k # j
      BY <1>2
    <3>2. n \in Nodes
      BY <3>1 DEF Current, JobTypesOk, JobState
    <3>3. nodeJobs[n] = 1 /\ n \notin j.nodes
      BY <1>1, <1>2, <2>2, <3>1 DEF Controlled
    <3>4. QED  BY <1>6, <3>2, <3>3
  <2>3. QED  BY <1>1, <1>2, <2>1, <2>2 DEF Controlled
<1>10. JobTypesOk' /\ JobsInTime'
  BY <1>1, RemovedKeepsTypes DEF JobsInTime
<1>11. QED  BY <1>8, <1>9, <1>10

(* The next stage of a job. *)
LEMMA NextStage ==
  ASSUME NEW j \in JobState, NEW stage \in {"queued", "handled", "answered", "result"}, NEW e \in {"nil", "deleted", "error"}
  PROVE  /\ [j EXCEPT !.stage = stage] \in JobState /\ SameJob(j, [j EXCEPT !.stage = stage])
         /\ [j EXCEPT !.stage = stage].stage = stage /\ [j EXCEPT !.stage = stage].err = j.err
         /\ [j EXCEPT !.stage = stage, !.err = e] \in JobState /\ SameJob(j, [j EXCEPT !.stage = stage, !.err = e])
         /\ [j EXCEPT !.stage = stage, !.err = e].stage = stage /\ [j EXCEPT !.stage = stage, !.err = e].err = e
BY DEF JobState, SameJob

LEMMA WorkerMoves ==
  ASSUME JobTypesOk, NEW j \in jobs,
         Take(j) \/ RepairOk(j) \/ RepairFails(j) \/ (OnJobEnd(j) /\ Mine(j))
  PROVE  \E k \in JobState :
           /\ SameJob(j, k) /\ Moved(j, k)
           /\ \/ Take(j) /\ j.stage = "queued" /\ k.stage = "handled" /\ k.err = j.err
              \/ RepairOk(j) /\ j.stage = "handled" /\ k.stage = "answered" /\ k.err = j.err
              \/ RepairFails(j) /\ j.stage = "handled" /\ k.stage = "answered" /\ k.err = "deleted" /\ j.table \in deleted
              \/ RepairFails(j) /\ j.stage = "handled" /\ k.stage = "answered" /\ k.err = "error"
              \/ OnJobEnd(j) /\ Mine(j) /\ j.stage = "answered" /\ k.stage = "result" /\ k.err = j.err
<1>0. j \in JobState
  BY DEF JobTypesOk
<1>1. CASE Take(j)
  <2>1. PICK k : k = [j EXCEPT !.stage = "handled"]
    OBVIOUS
  <2>2. k \in JobState /\ SameJob(j, k) /\ k.stage = "handled" /\ k.err = j.err
    BY <1>0, <2>1, NextStage
  <2>3. QED  BY <1>1, <2>1, <2>2 DEF Take
<1>2. CASE RepairOk(j)
  <2>1. PICK k : k = [j EXCEPT !.stage = "answered"]
    OBVIOUS
  <2>2. k \in JobState /\ SameJob(j, k) /\ k.stage = "answered" /\ k.err = j.err
    BY <1>0, <2>1, NextStage
  <2>3. QED  BY <1>2, <2>1, <2>2 DEF RepairOk
<1>3. CASE RepairFails(j)
  <2>1. PICK k, l : k = [j EXCEPT !.stage = "answered", !.err = "deleted"] /\ l = [j EXCEPT !.stage = "answered", !.err = "error"]
    OBVIOUS
  <2>2. k \in JobState /\ SameJob(j, k) /\ k.stage = "answered" /\ k.err = "deleted"
    BY <1>0, <2>1, NextStage
  <2>3. l \in JobState /\ SameJob(j, l) /\ l.stage = "answered" /\ l.err = "error"
    BY <1>0, <2>1, NextStage
  <2>4. j.stage = "handled" /\ ((Moved(j, k) /\ j.table \in deleted) \/ Moved(j, l))
    BY <1>3, <2>1 DEF RepairFails
  <2>5. QED  BY <1>3, <2>2, <2>3, <2>4
<1>4. CASE OnJobEnd(j) /\ Mine(j)
  <2>1. PICK k : k = [j EXCEPT !.stage = "result"]
    OBVIOUS
  <2>2. k \in JobState /\ SameJob(j, k) /\ k.stage = "result" /\ k.err = j.err
    BY <1>0, <2>1, NextStage
  <2>3. QED  BY <1>4, <2>1, <2>2 DEF OnJobEnd
<1>5. QED  BY <1>1, <1>2, <1>3, <1>4

LEMMA WorkerKeepsControl ==
  ASSUME PoolTypes, JobControl, NEW j \in jobs, Take(j) \/ RepairOk(j) \/ RepairFails(j) \/ OnJobEnd(j)
  PROVE  JobControl' /\ PoolTypes'
<1>1. UNCHANGED <<cur, pc, jobsCnt, nodeJobs>>
  BY DEF Take, RepairOk, RepairFails, OnJobEnd, controller
<1>2. PoolTypes'
  BY DEF PoolTypes, Take, RepairOk, RepairFails, OnJobEnd, controller, pool
<1>3. CASE OnJobEnd(j) /\ ~Mine(j)
  <2>1. jobs' = jobs \ {j}
    BY <1>3 DEF OnJobEnd
  <2>2. QED  BY <1>1, <1>2, <1>3, <2>1, StrangerLeaves
<1>4. CASE ~(OnJobEnd(j) /\ ~Mine(j))
  <2>1. JobTypesOk
    BY DEF JobControl
  <2>2. PICK k \in JobState : SameJob(j, k) /\ Moved(j, k) /\ (k.stage \in {"queued", "result"} => Mine(j))
    BY <1>4, <2>1, WorkerMoves
  <2>3. k.stage \in {"queued", "result"} => Running /\ k.run = cur
    BY <2>2 DEF Mine, SameJob
  <2>4. QED  BY <1>1, <1>2, <2>2, <2>3, MovedKeepsControl
<1>5. QED  BY <1>3, <1>4

(* Steps that leave jobs and controller alone, and the generator in its loop or the run outside it. *)
LEMMA QuietKeepsControl ==
  ASSUME JobControl, UNCHANGED <<jobs, cur, jobsCnt, nodeJobs>>, Running' <=> Running,
         pc' \in {"plan", "state", "progress"} => pc \in {"plan", "state", "progress"}
  PROVE  JobControl'
<1> USE DEF JobControl
<1>1. Current' = Current
  BY DEF Current
<1>2. JobTypesOk' /\ Controlled' /\ JobsInTime'
  BY <1>1 DEF JobTypesOk, Controlled, JobsInTime
<1>3. QED  BY <1>2

LEMMA ControlInvKept == ASSUME ControlInv, [Next]_vars PROVE ControlInv'
<1>0. RunTypes /\ PoolTypes /\ JobControl
  BY DEF ControlInv, JobControl
<1>a. SUFFICES JobControl' /\ PoolTypes'
  BY <1>0, RunTypesKept DEF ControlInv, JobControl
<1>1. CASE Start
  <2>1. cur' = cur + 1 /\ cur \in Nat /\ UNCHANGED <<jobs, jobsCnt, nodeJobs>> /\ ~Running /\ ~Running' /\ PoolTypes'
    BY <1>0, <1>1 DEF Start, controller, pool, Running, RunTypes, PoolTypes
  <2>2. JobTypesOk'
    BY <1>0, <2>1 DEF JobControl, JobTypesOk
  <2>3. Current' = {}
    BY <1>0, <2>1 DEF Current, JobControl, JobTypesOk
  <2>4. Controlled' /\ JobsInTime'
    BY <1>0, <2>1, <2>3 DEF JobControl, Controlled, JobsInTime
  <2>5. QED  BY <2>1, <2>2, <2>4 DEF JobControl
<1>2. CASE InitState \/ InitProgress \/ SetupFails
  <2>1. PoolTypes'
    BY <1>0, <1>2 DEF InitState, InitProgress, SetupFails, controller, pool, PoolTypes
  <2>2. UNCHANGED <<jobs, cur, jobsCnt, nodeJobs>> /\ ~Running /\ ~Running' /\ pc \in {"plan", "state", "progress"}
    BY <1>2 DEF InitState, InitProgress, SetupFails, controller, Running
  <2>3. QED  BY <1>0, <2>1, <2>2, QuietKeepsControl
<1>3. CASE Setup
  <2>1. UNCHANGED <<jobs, cur>> /\ jobsCnt' = 0 /\ nodeJobs' \in [Nodes -> Nat] /\ pc = "progress" /\ pc' = "tables" /\ ~Running
    BY <1>3 DEF Setup, Running
  <2>2. parallel' \in Nat /\ size' \in Nat /\ idle' \in Nat /\ kills' \in Nat
    BY <1>0, <1>3, RepairAssumption DEF Setup, PoolSize, RunTypes, RowState
  <2>3. Current' = {} /\ \A j \in jobs : j.stage \notin {"queued", "result"}
    BY <1>0, <2>1 DEF JobControl, JobsInTime, Current
  <2>4. Cardinality(Current') = 0
    BY <2>3, FS_EmptySet
  <2>5. JobTypesOk' /\ Controlled' /\ JobsInTime'
    BY <1>0, <2>1, <2>3, <2>4 DEF JobControl, JobTypesOk, Controlled, JobsInTime
  <2>6. QED  BY <2>1, <2>2, <2>5 DEF JobControl, PoolTypes
<1>4. CASE NextTable \/ DescribeFails \/ Close \/ GenerateNoMore \/ TableDone
  <2>1. PoolTypes'
    BY <1>0, <1>4 DEF NextTable, DescribeFails, Close, GenerateNoMore, TableDone, controller, pool, PoolTypes
  <2>2. UNCHANGED <<jobs, cur, jobsCnt, nodeJobs>> /\ Running /\ Running' /\ pc' \notin {"plan", "state", "progress"}
    BY <1>4 DEF NextTable, DescribeFails, Close, GenerateNoMore, TableDone, controller, Running
  <2>3. QED  BY <1>0, <2>1, <2>2, QuietKeepsControl
<1>5. CASE Generate
  BY <1>0, <1>5, GenerateKeepsControl
<1>6. CASE \E j \in jobs : ProcessResult(j)
  BY <1>0, <1>6, ProcessResultKeepsControl
<1>7. CASE \E j \in jobs : Take(j) \/ RepairOk(j) \/ RepairFails(j) \/ OnJobEnd(j)
  BY <1>0, <1>7, WorkerKeepsControl
<1>8. CASE WorkerExits \/ Cancel \/ StopGenerating \/ GracefulStopTimeout \/ (\E t \in MayDelete : DeleteTable(t)) \/ UNCHANGED vars
  <2>1. PoolTypes'
    BY <1>0, <1>8 DEF WorkerExits, Cancel, StopGenerating, GracefulStopTimeout, DeleteTable, vars, controller, pool, PoolTypes
  <2>2. UNCHANGED <<jobs, cur, pc, jobsCnt, nodeJobs>>
    BY <1>8 DEF WorkerExits, Cancel, StopGenerating, GracefulStopTimeout, DeleteTable, vars, controller
  <2>3. QED  BY <1>0, <2>1, <2>2, QuietKeepsControl DEF Running
<1>9. ASSUME NEW p \in Controls, SetParallel(p) PROVE JobControl' /\ PoolTypes'
  <2>1. UNCHANGED <<jobs, cur, pc, jobsCnt, nodeJobs>>
    BY <1>9 DEF SetParallel, controller
  <2>2. p \in Nat /\ PoolSize(p) \in Nat
    BY RepairAssumption DEF PoolSize
  <2>3. PoolTypes'
    BY <1>0, <1>9, <2>1, <2>2 DEF SetParallel, PoolTypes
  <2>4. QED  BY <1>0, <2>1, <2>3, QuietKeepsControl DEF Running
<1>10. CASE Finish
  <2>1. jobs' = {j \in jobs : AtWork(j)} /\ UNCHANGED cur /\ pc' = "idle" /\ ~Running'
    BY <1>10 DEF Finish, Running
  <2>2. PoolTypes'
    BY <1>10 DEF Finish, PoolTypes
  <2>3. JobTypesOk'
    <3>1. IsFiniteSet(jobs')
      BY <1>0, <2>1, FS_Subset DEF JobControl, JobTypesOk
    <3>2. QED  BY <1>0, <2>1, <3>1 DEF JobControl, JobTypesOk
  <2>4. Controlled' /\ JobsInTime'
    BY <2>1 DEF Controlled, JobsInTime, AtWork
  <2>5. QED  BY <2>2, <2>3, <2>4 DEF JobControl
<1>11. CASE Crash
  <2>1. jobs' = {} /\ UNCHANGED cur /\ pc' = "idle" /\ ~Running'
    BY <1>11 DEF Crash, Running
  <2>2. PoolTypes'
    BY <1>11 DEF Crash, PoolTypes
  <2>3. JobTypesOk' /\ Controlled' /\ JobsInTime'
    BY <2>1, FS_EmptySet DEF JobTypesOk, Controlled, JobsInTime
  <2>4. QED  BY <2>2, <2>3 DEF JobControl
<1>12. QED
  BY <1>1, <1>2, <1>3, <1>4, <1>5, <1>6, <1>7, <1>8, <1>9, <1>10, <1>11 DEF Next, Repair, Generator, Workers

LEMMA InitControl == ASSUME Init PROVE ControlInv
<1>1. RunTypes
  BY NoRangesOk, RepairAssumption DEF Init, RunTypes
<1>2. JobTypesOk /\ JobsInTime /\ Controlled
  BY FS_EmptySet DEF Init, JobTypesOk, JobsInTime, Controlled, Running
<1>3. PoolTypes
  BY DEF Init, PoolTypes
<1>4. QED  BY <1>1, <1>2, <1>3 DEF ControlInv

(* What the controller counts is what is between Submit and processResult, in every reachable state. *)
THEOREM ControlCorrect == Spec => []ControlInv
<1>1. QED  BY InitControl, ControlInvKept, PTL DEF Spec

(* The counters of the controller and of the pool (controller.go, pool.go) never go below zero, and  *)
(* every job has ranges of its table, whatever SetParallel, failing jobs, dropped tables and workers *)
(* that outlive their run do.                                                                        *)
THEOREM TypeCorrect == Spec => []TypeOK
<1>1. ASSUME ControlInv PROVE TypeOK
  <2>1. \A r \in RunIds : rows[r].state \in [TableSet -> SUBSET Ranges]
    BY <1>1 DEF ControlInv, RunTypes, RowState, States
  <2>2. \A j \in jobs : j.ranges \subseteq Ranges /\ j.ranges # {} /\ j.run \in 1..cur
    BY <1>1 DEF ControlInv, JobTypesOk, JobState
  <2>3. QED  BY <1>1, <2>1, <2>2 DEF ControlInv, PoolTypes, TypeOK
<1>2. QED  BY <1>1, ControlCorrect, PTL

(* The rule of controller.go: jobs of a run share no node from Submit until processResult unblocked  *)
(* it, for any replica sets, any parallel and any order of workers and results.                      *)
THEOREM OneJobPerNodeCorrect == Spec => []OneJobPerNode
<1>1. ASSUME ControlInv PROVE OneJobPerNode
  BY <1>1 DEF ControlInv, Controlled, Current, OneJobPerNode, Mine
<1>2. QED  BY <1>1, ControlCorrect, PTL

-----------------------------------------------------------------------------
(* Continued runs. *)
LEMMA InitializedKept ==
  ASSUME RunTypes, JobTypesOk, InitializedInTime, [Next]_vars PROVE InitializedInTime'
<1>0. cur \in Nat /\ (pc # "idle" => cur \in RunIds)
  BY DEF RunTypes
<1>a. ASSUME UNCHANGED cur, \A r \in RunIds : rows'[r].initialized = rows[r].initialized, pc' = "plan" => pc = "plan"
      PROVE  InitializedInTime'
  BY <1>0, <1>a DEF InitializedInTime
<1>1. CASE Start
  <2>1. cur' = cur + 1 /\ cur + 1 \in RunIds /\ \A r \in RunIds : rows'[r].initialized = rows[r].initialized
    BY <1>1, StartRows DEF Start
  <2>2. QED  BY <1>0, <2>1, RepairAssumption DEF InitializedInTime, RunIds
<1>2. CASE InitState
  <2>1. \A r \in RunIds : rows'[r].initialized = rows[r].initialized
    BY <1>2, InitStateRows
  <2>2. QED  BY <1>2, <1>a, <2>1 DEF InitState
<1>3. CASE InitProgress \/ SetupFails
  <2>1. UNCHANGED cur /\ pc' # "plan"
    BY <1>3 DEF InitProgress, SetupFails
  <2>2. QED  BY <1>0, <1>3, <2>1, InitializedRows DEF InitializedInTime
<1>4. ASSUME NEW j \in jobs, OnJobEnd(j) PROVE InitializedInTime'
  <2>1. \A r \in RunIds : rows'[r].initialized = rows[r].initialized
    BY <1>4, OnJobEndRows
  <2>2. QED  BY <1>4, <1>a, <2>1 DEF OnJobEnd
<1>5. CASE Finish
  <2>1. \A r \in RunIds : rows'[r].initialized = rows[r].initialized
    BY <1>5, FinishRows
  <2>2. QED  BY <1>5, <1>a, <2>1 DEF Finish
<1>6. ASSUME NEW p \in Controls, SetParallel(p) PROVE InitializedInTime'
  <2>1. \A r \in RunIds : rows'[r].initialized = rows[r].initialized
    BY <1>6, SetParallelRows
  <2>2. QED  BY <1>6, <1>a, <2>1 DEF SetParallel
<1>7. CASE Setup \/ NextTable \/ DescribeFails \/ Close \/ Generate \/ GenerateNoMore \/ TableDone
  BY <1>7, <1>a DEF Setup, NextTable, DescribeFails, Close, Generate, GenerateNoMore, TableDone, database
<1>8. CASE \E j \in jobs : ProcessResult(j) \/ Take(j) \/ RepairOk(j) \/ RepairFails(j)
  BY <1>8, <1>a DEF ProcessResult, Take, RepairOk, RepairFails, database
<1>9. CASE WorkerExits \/ Cancel \/ StopGenerating \/ GracefulStopTimeout \/ Crash \/ (\E t \in MayDelete : DeleteTable(t)) \/ UNCHANGED vars
  BY <1>9, <1>a DEF WorkerExits, Cancel, StopGenerating, GracefulStopTimeout, Crash, DeleteTable, vars, database
<1>10. QED
  BY <1>1, <1>2, <1>3, <1>4, <1>5, <1>6, <1>7, <1>8, <1>9 DEF Next, Repair, Generator, Workers

(* With no job counted there is none. *)
LEMMA NotBusy == ASSUME ControlInv, Running, ~Busy PROVE Current = {}
<1>1. IsFiniteSet(Current) /\ jobsCnt = Cardinality(Current) /\ jobsCnt \in Nat
  BY FS_Subset DEF Current, ControlInv, JobTypesOk, Controlled, PoolTypes
<1>2. Cardinality(Current) = 0
  BY <1>1 DEF Busy
<1>3. QED  BY <1>1, <1>2, FS_EmptySet

LEMMA JobsOfTableKept ==
  ASSUME ControlInv, JobsOfTable, [Next]_vars PROVE JobsOfTable'
<1>0. RunTypes /\ JobTypesOk /\ JobsInTime
  BY DEF ControlInv
<1>1. CASE ~Running'
  BY <1>1 DEF JobsOfTable
<1>2. CASE Setup
  <2>1. Current' = {} /\ grace' = "none" /\ pc' = "tables"
    BY <1>0, <1>2 DEF Setup, JobsInTime, Current
  <2>2. QED  BY <2>1 DEF JobsOfTable
<1>3. CASE NextTable
  <2>1. Running /\ ~stop /\ pc = "tables" /\ UNCHANGED <<jobs, cur, stop, grace>>
    BY <1>3 DEF NextTable, Running
  <2>2. Current = {} /\ Current' = Current
    BY <2>1 DEF JobsOfTable, Current
  <2>3. QED  BY <2>1, <2>2 DEF JobsOfTable
<1>4. CASE DescribeFails \/ Close
  <2>1. Running /\ pc' = "closing" /\ UNCHANGED <<stop, grace>>
    BY <1>4 DEF DescribeFails, Close, Running
  <2>2. QED  BY <2>1 DEF JobsOfTable
<1>5. CASE Generate
  <2>1. Running /\ ~stop /\ pc = "generate" /\ pc' = "generate" /\ UNCHANGED <<cur, stop, grace>>
    BY <1>5 DEF Generate, Running, shouldGenerate
  <2>2. PICK ranges, k : /\ k.table = Tables[tg.i] /\ k.ranges = ranges
                         /\ jobs' = jobs \cup {k}
                         /\ tg'.i = tg.i /\ tg'.todo = tg.todo \ ranges
    <3>1. PICK rs \in ReplicaSets, i \in Intensities :
            /\ jobs' = jobs \cup {[run |-> cur, table |-> Tables[tg.i], nodes |-> Replicas[rs],
                                   ranges |-> getRangesToRepair(rs, i), type |-> tg.type, stage |-> "queued", err |-> "nil"]}
            /\ tg' = [tg EXCEPT !.todo = @ \ getRangesToRepair(rs, i), !.type = IF @ \in {"small", "tablet"} THEN "skip" ELSE @]
      BY <1>5 DEF Generate
    <3>2. PICK ranges : ranges = getRangesToRepair(rs, i)
      OBVIOUS
    <3>3. PICK k : k = [run |-> cur, table |-> Tables[tg.i], nodes |-> Replicas[rs],
                        ranges |-> ranges, type |-> tg.type, stage |-> "queued", err |-> "nil"]
      OBVIOUS
    <3>4. tg'.i = tg.i /\ tg'.todo = tg.todo \ ranges
      BY <1>0, <3>1, <3>2 DEF RunTypes, TableState
    <3>5. QED  BY <3>1, <3>2, <3>3, <3>4
  <2>3. \A j \in Current' : j \in Current \/ j = k
    BY <2>1, <2>2 DEF Current
  <2>4. \A j \in Current' : j.table = Tables[tg'.i] /\ j.ranges \cap tg'.todo = {}
    BY <2>1, <2>2, <2>3 DEF JobsOfTable
  <2>5. QED  BY <2>1, <2>4 DEF JobsOfTable
<1>6. CASE GenerateNoMore
  <2>1. Running /\ pc = "generate" /\ UNCHANGED <<jobs, cur, stop, grace>> /\ pc' = "wait" /\ tg'.i = tg.i /\ tg'.todo \subseteq tg.todo
    BY <1>0, <1>6 DEF GenerateNoMore, Running, RunTypes, TableState
  <2>2. Current' = Current
    BY <2>1 DEF Current
  <2>3. QED  BY <2>1, <2>2 DEF JobsOfTable
<1>7. ASSUME NEW j \in jobs, ProcessResult(j) PROVE JobsOfTable'
  <2>1. /\ Running /\ pc = "wait" /\ pc' = "generate" /\ UNCHANGED <<cur, grace>> /\ (stop => stop')
        /\ tg'.i = tg.i /\ tg'.todo = tg.todo
    BY <1>0, <1>7 DEF ProcessResult, Running, RunTypes, TableState
  <2>2. Current' \subseteq Current
    BY <1>7, <2>1 DEF ProcessResult, Current
  <2>3. QED  BY <2>1, <2>2 DEF JobsOfTable
<1>8. CASE TableDone
  <2>1. Running /\ pc' = "tables" /\ UNCHANGED <<jobs, cur, stop, grace>>
    BY <1>8 DEF TableDone, Running
  <2>2. CASE grace = "over"
    BY <2>1, <2>2 DEF JobsOfTable
  <2>3. CASE shouldExit
    <3>1. Current = {} /\ Current' = Current
      BY <2>1, <2>3, NotBusy DEF shouldExit, Current
    <3>2. QED  BY <2>1, <3>1 DEF JobsOfTable
  <2>4. QED  BY <1>8, <2>2, <2>3 DEF TableDone
<1>9. ASSUME NEW j \in jobs, Take(j) \/ RepairOk(j) \/ RepairFails(j) \/ OnJobEnd(j) PROVE JobsOfTable'
  <2>1. UNCHANGED <<cur, pc, tg, stop, grace>> /\ (Running' <=> Running)
    BY <1>9 DEF Take, RepairOk, RepairFails, OnJobEnd, Running
  <2>2. CASE OnJobEnd(j) /\ ~Mine(j)
    <3>1. Current' \subseteq Current
      BY <2>1, <2>2 DEF OnJobEnd, Current
    <3>2. QED  BY <2>1, <3>1 DEF JobsOfTable
  <2>3. CASE ~(OnJobEnd(j) /\ ~Mine(j))
    <3>1. PICK k \in JobState : SameJob(j, k) /\ Moved(j, k)
      BY <1>0, <1>9, <2>3, WorkerMoves
    <3>2. ASSUME NEW l \in Current' PROVE \E m \in Current : m.table = l.table /\ m.ranges = l.ranges
      BY <2>1, <3>1, <3>2 DEF Current, SameJob, Moved
    <3>3. QED  BY <2>1, <3>2 DEF JobsOfTable
  <2>4. QED  BY <2>2, <2>3
<1>10. CASE StopGenerating
  BY <1>10 DEF StopGenerating, JobsOfTable
<1>11. CASE GracefulStopTimeout
  <2>1. Running /\ grace # "none" /\ UNCHANGED stop
    BY <1>11 DEF GracefulStopTimeout
  <2>2. QED  BY <2>1 DEF JobsOfTable
<1>12. CASE WorkerExits \/ Cancel \/ (\E p \in Controls : SetParallel(p)) \/ (\E t \in MayDelete : DeleteTable(t)) \/ UNCHANGED vars
  <2>1. UNCHANGED <<jobs, cur, pc, tg, stop, grace>>
    BY <1>12 DEF WorkerExits, Cancel, SetParallel, DeleteTable, vars
  <2>2. Current' = Current /\ (Running' <=> Running)
    BY <2>1 DEF Current, Running
  <2>3. QED  BY <2>1, <2>2 DEF JobsOfTable
<1>13. CASE Start \/ InitState \/ InitProgress \/ SetupFails \/ Finish \/ Crash
  <2>1. ~Running'
    BY <1>13 DEF Start, InitState, InitProgress, SetupFails, Finish, Crash, Running
  <2>2. QED  BY <1>1, <2>1
<1>14. QED
  BY <1>2, <1>3, <1>4, <1>5, <1>6, <1>7, <1>8, <1>9, <1>10, <1>11, <1>12, <1>13 DEF Next, Repair, Generator, Workers

(* A step changes at most the row of the present run: what is to be shown of the others is there. *)
LEMMA ChainedStep ==
  ASSUME RunTypes, Chained, UNCHANGED cur, scratch \subseteq scratch',
         \A x \in RunIds : x # cur => rows'[x] = rows[x],
         \A r \in 1 .. (cur - 1) :
           rows[r].initialized /\ (rows'[cur].initialized \/ HasState') /\ Unbroken(r, cur)'
             => \A t \in TableSet : rows[r].state[t] \subseteq rows'[cur].state[t]
  PROVE  Chained'
<1>0. cur \in Nat /\ cur <= MaxRuns /\ MaxRuns \in Nat
  BY RepairAssumption DEF RunTypes
<1>1. SUFFICES ASSUME NEW r \in 1 .. cur, NEW s \in 1 .. cur, r <= s, rows'[r].initialized,
                      rows'[s].initialized \/ (s = cur /\ HasState'), Unbroken(r, s)', NEW t \in TableSet
               PROVE  rows'[r].state[t] \subseteq rows'[s].state[t]
  BY DEF Chained
<1>2. r \in RunIds /\ s \in RunIds
  BY <1>0 DEF RunIds
<1>3. CASE s # cur
  <2>1. r # cur /\ rows'[r] = rows[r] /\ rows'[s] = rows[s]
    BY <1>0, <1>1, <1>2, <1>3
  <2>2. Unbroken(r, s)
    <3>1. ASSUME NEW x \in r .. (s - 1) PROVE ~rows[x].ended /\ x + 1 \notin scratch
      <4>1. x \in RunIds /\ x # cur
        BY <1>0, <1>1, <1>3 DEF RunIds
      <4>2. ~rows'[x].ended /\ x + 1 \notin scratch'
        BY <1>1 DEF Unbroken
      <4>3. QED  BY <4>1, <4>2
    <3>2. QED  BY <3>1 DEF Unbroken
  <2>3. QED  BY <1>1, <1>3, <2>1, <2>2 DEF Chained
<1>4. CASE s = cur /\ r # cur
  <2>1. r \in 1 .. (cur - 1) /\ rows'[r] = rows[r]
    BY <1>0, <1>1, <1>2, <1>4
  <2>2. QED  BY <1>1, <1>4, <2>1
<1>5. CASE s = cur /\ r = cur
  BY <1>5
<1>6. QED  BY <1>3, <1>4, <1>5

(* The same for a step that leaves the row of the run as it is, but for its end. *)
LEMMA ChainedStays ==
  ASSUME RunTypes, Chained, UNCHANGED cur, UNCHANGED scratch, HasState' => HasState,
         \A x \in RunIds : x # cur => rows'[x] = rows[x],
         cur \in RunIds => rows'[cur].state = rows[cur].state /\ rows'[cur].initialized = rows[cur].initialized
  PROVE  Chained'
<1>0. cur \in Nat /\ cur <= MaxRuns /\ MaxRuns \in Nat
  BY RepairAssumption DEF RunTypes
<1>1. ASSUME NEW r \in 1 .. (cur - 1), rows[r].initialized, rows'[cur].initialized \/ HasState', Unbroken(r, cur)',
             NEW t \in TableSet
      PROVE  rows[r].state[t] \subseteq rows'[cur].state[t]
  <2>1. r \in 1 .. cur /\ cur \in 1 .. cur /\ r <= cur /\ cur \in RunIds
    BY <1>0 DEF RunIds
  <2>2. Unbroken(r, cur)
    <3>1. ASSUME NEW x \in r .. (cur - 1) PROVE ~rows[x].ended /\ x + 1 \notin scratch
      <4>1. x \in RunIds /\ x # cur
        BY <1>0 DEF RunIds
      <4>2. ~rows'[x].ended /\ x + 1 \notin scratch'
        BY <1>1 DEF Unbroken
      <4>3. QED  BY <4>1, <4>2
    <3>2. QED  BY <3>1 DEF Unbroken
  <2>3. QED  BY <1>1, <2>1, <2>2 DEF Chained
<1>2. QED  BY <1>1, ChainedStep

LEMMA InitStateChained ==
  ASSUME ContinueInv, ~leaked, InitState PROVE Chained' /\ RowBehind'
<1>0. RunTypes /\ cur \in Nat /\ cur \in RunIds /\ pc = "plan" /\ UNCHANGED cur /\ MaxRuns \in Nat /\ Chained
  BY RepairAssumption DEF ContinueInv, ContinueSafe, ControlInv, RunTypes, InitState
<1>1. PICK continue \in Continues, g \in 0 .. (cur - 1), st \in States :
           /\ g = IF continue THEN GetPrevRun ELSE 0
           /\ st = IF g = 0 THEN NoRanges ELSE rows[g].state
           /\ mem' = [mem EXCEPT ![cur] = st]
           /\ rows' \in [RunIds -> RowState] /\ \A x \in RunIds : x # cur => rows'[x] = rows[x]
           /\ rows'[cur].state = st /\ rows'[cur].initialized = rows[cur].initialized /\ rows'[cur].ended = rows[cur].ended
           /\ scratch' = IF continue THEN scratch ELSE scratch \cup {cur}
  BY <1>0, InitStateRows
<1>2. RowBehind'
  BY <1>0, <1>1 DEF RowBehind, RunTypes
<1>3. ASSUME NEW r \in 1 .. (cur - 1), rows[r].initialized, Unbroken(r, cur)', NEW t \in TableSet
      PROVE  rows[r].state[t] \subseteq rows'[cur].state[t]
  <2>1. \A x \in r .. (cur - 1) : x \in RunIds /\ ~rows[x].ended /\ x + 1 \notin scratch'
    <3>1. ASSUME NEW x \in r .. (cur - 1) PROVE x \in RunIds /\ ~rows[x].ended /\ x + 1 \notin scratch'
      <4>1. x \in RunIds /\ x # cur
        BY <1>0 DEF RunIds
      <4>2. ~rows'[x].ended /\ x + 1 \notin scratch'
        BY <1>0, <1>3 DEF Unbroken
      <4>3. QED  BY <1>1, <4>1, <4>2
    <3>2. QED  BY <3>1
  <2>2. cur - 1 \in r .. (cur - 1) /\ cur \notin scratch' /\ continue
    BY <1>0, <1>1, <2>1
  <2>3. g = GetPrevRun
    BY <1>1, <2>2
  <2>4. CASE g = 0
    <3>1. \/ \A x \in 1 .. (cur - 1) : ~rows[x].initialized
          \/ \E p \in 1 .. (cur - 1) : /\ rows[p].initialized /\ rows[p].ended
                                        /\ \A x \in 1 .. (cur - 1) : rows[x].initialized => x <= p
      BY <1>0, <2>3, <2>4, PrevRun
    <3>2. QED  BY <1>0, <1>3, <2>1, <3>1
  <2>5. CASE g # 0
    <3>1. g \in 1 .. (cur - 1) /\ rows[g].initialized /\ r <= g
      BY <1>0, <1>3, <2>3, <2>5, PrevRun
    <3>2. Unbroken(r, g)
      <4>1. ASSUME NEW x \in r .. (g - 1) PROVE ~rows[x].ended /\ x + 1 \notin scratch
        BY <1>0, <1>1, <2>1, <2>2, <3>1
      <4>2. QED  BY <4>1 DEF Unbroken
    <3>3. rows[r].state[t] \subseteq rows[g].state[t]
      BY <1>0, <1>3, <3>1, <3>2 DEF Chained
    <3>4. QED  BY <1>1, <2>5, <3>3
  <2>6. QED  BY <2>4, <2>5
<1>4. scratch \subseteq scratch'
  BY <1>1
<1>5. Chained'
  BY <1>0, <1>1, <1>3, <1>4, ChainedStep
<1>6. QED  BY <1>2, <1>5

LEMMA NoJobsApart ==
  ASSUME jobs' = {}, pc' \notin {"generate", "wait"} PROVE NoStranger' /\ RangesApart'
BY DEF NoStranger, RangesApart, Current

(* Before the generator, and after the run. *)
LEMMA OutsideKeepsSafe ==
  ASSUME ContinueInv, ~leaked, Start \/ InitState \/ InitProgress \/ SetupFails PROVE ContinueSafe'
<1>0. RunTypes /\ ContinueSafe /\ cur \in Nat /\ InitializedInTime
  BY DEF ContinueInv, ControlInv, RunTypes
<1>1. ~Running /\ UNCHANGED jobs /\ pc' \notin {"generate", "wait"}
  BY DEF Start, InitState, InitProgress, SetupFails, Running
<1>2. jobs = {}
  BY <1>0, <1>1 DEF ContinueSafe, NoStranger
<1>3. NoStranger' /\ RangesApart'
  BY <1>1, <1>2, NoJobsApart
<1>4. CASE Start
  <2>1. /\ cur' = cur + 1 /\ cur + 1 \in RunIds /\ ~HasState' /\ UNCHANGED scratch
        /\ \A x \in RunIds : x # cur + 1 => rows'[x] = rows[x]
        /\ rows'[cur + 1].initialized = rows[cur + 1].initialized
    BY <1>4, <1>0, StartRows DEF Start, HasState, Running, history
  <2>2. ~rows'[cur + 1].initialized
    BY <1>0, <2>1 DEF InitializedInTime
  <2>3. Chained'
    <3>1. SUFFICES ASSUME NEW r \in 1 .. (cur + 1), NEW s \in 1 .. (cur + 1), r <= s, rows'[r].initialized,
                          rows'[s].initialized, Unbroken(r, s)', NEW t \in TableSet
                   PROVE  rows'[r].state[t] \subseteq rows'[s].state[t]
      BY <2>1 DEF Chained
    <3>2. r \in 1 .. cur /\ s \in 1 .. cur /\ r \in RunIds /\ s \in RunIds /\ rows'[r] = rows[r] /\ rows'[s] = rows[s]
      BY <1>0, <2>1, <2>2, <3>1, RepairAssumption DEF RunIds
    <3>3. Unbroken(r, s)
      <4>1. ASSUME NEW x \in r .. (s - 1) PROVE ~rows[x].ended /\ x + 1 \notin scratch
        <5>1. x \in RunIds /\ x # cur + 1
          BY <1>0, <2>1, <3>2, RepairAssumption DEF RunIds
        <5>2. ~rows'[x].ended /\ x + 1 \notin scratch'
          BY <3>1 DEF Unbroken
        <5>3. QED  BY <2>1, <5>1, <5>2
      <4>2. QED  BY <4>1 DEF Unbroken
    <3>4. QED  BY <1>0, <3>1, <3>2, <3>3 DEF ContinueSafe, Chained
  <2>4. RowBehind'
    BY <2>1 DEF RowBehind
  <2>5. QED  BY <1>3, <2>3, <2>4 DEF ContinueSafe
<1>5. CASE InitState
  BY <1>3, <1>5, InitStateChained DEF ContinueSafe
<1>6. CASE InitProgress \/ SetupFails
  <2>1. /\ UNCHANGED <<cur, scratch>> /\ cur \in RunIds
        /\ \A x \in RunIds : x # cur => rows'[x] = rows[x]
        /\ rows'[cur].state = rows[cur].state
        /\ rows'[cur].initialized => rows[cur].initialized \/ pc = "state"
        /\ HasState' => pc = "state" /\ UNCHANGED mem
    BY <1>0, <1>6, InitializedRows DEF InitProgress, SetupFails, HasState, Running, history
  <2>2. ASSUME NEW r \in 1 .. (cur - 1), rows[r].initialized, rows'[cur].initialized \/ HasState', Unbroken(r, cur)',
               NEW t \in TableSet
        PROVE  rows[r].state[t] \subseteq rows'[cur].state[t]
    <3>1. rows[cur].initialized \/ HasState
      BY <2>1, <2>2 DEF HasState
    <3>2. Unbroken(r, cur)
      <4>1. ASSUME NEW x \in r .. (cur - 1) PROVE ~rows[x].ended /\ x + 1 \notin scratch
        <5>1. x \in RunIds /\ x # cur
          BY <1>0, <2>1, RepairAssumption DEF RunIds
        <5>2. ~rows'[x].ended /\ x + 1 \notin scratch'
          BY <2>1, <2>2 DEF Unbroken
        <5>3. QED  BY <2>1, <5>1, <5>2
      <4>2. QED  BY <4>1 DEF Unbroken
    <3>3. r \in 1 .. cur /\ cur \in 1 .. cur /\ r <= cur
      BY <1>0
    <3>4. QED  BY <1>0, <2>1, <2>2, <3>1, <3>2, <3>3 DEF ContinueSafe, Chained
  <2>3. Chained'
    BY <1>0, <2>1, <2>2, ChainedStep DEF ContinueSafe
  <2>4. RowBehind'
    BY <1>0, <2>1 DEF ContinueSafe, RowBehind, HasState
  <2>5. QED  BY <1>3, <2>3, <2>4 DEF ContinueSafe
<1>7. QED  BY <1>4, <1>5, <1>6

LEMMA RowsStay ==
  ASSUME RunTypes, Chained, RowBehind, UNCHANGED <<cur, mem, scratch>>, HasState' => HasState,
         \A x \in RunIds : x # cur => rows'[x] = rows[x],
         cur \in RunIds => rows'[cur].state = rows[cur].state /\ rows'[cur].initialized = rows[cur].initialized
  PROVE  Chained' /\ RowBehind'
<1>1. Chained'
  BY ChainedStays
<1>2. HasState' => cur \in RunIds
  BY DEF HasState, Running, RunTypes
<1>3. RowBehind'
  BY <1>2 DEF RowBehind
<1>4. QED  BY <1>1, <1>3

(* The generator goes on with no new job and no range added to what is to do. *)
LEMMA ApartLess ==
  ASSUME NoStranger, RangesApart, Running' <=> Running, UNCHANGED <<cur, mem>>, jobs' \subseteq jobs,
         pc' \in {"generate", "wait"} /\ ~stop' /\ tg'.type = "normal"
           => pc \in {"generate", "wait"} /\ ~stop /\ tg.type = "normal" /\ tg'.i = tg.i /\ tg'.todo \subseteq tg.todo
  PROVE  NoStranger' /\ RangesApart'
<1>1. Current' \subseteq Current
  BY DEF Current
<1>2. NoStranger'
  BY DEF NoStranger
<1>3. QED  BY <1>1, <1>2 DEF RangesApart

(* A worker brings a job to its next stage, and may record its ranges. *)
LEMMA MovedKeepsApart ==
  ASSUME JobTypesOk, JobsOfTable, NoStranger, RangesApart, NEW j \in jobs, NEW k, SameJob(j, k), Moved(j, k),
         k.stage # "queued", UNCHANGED <<cur, pc, tg, stop>>, pc \in {"generate", "wait"} => tg.i \in DOMAIN Tables,
         \A t \in TableSet : mem'[cur][t] \subseteq mem[cur][t] \cup j.ranges,
         \A t \in TableSet : t # j.table => mem'[cur][t] = mem[cur][t]
  PROVE  NoStranger' /\ RangesApart'
<1>0. Running /\ j.run = cur /\ j \in Current /\ Running' /\ jobs' = (jobs \ {j}) \cup {k}
  BY DEF NoStranger, Current, Running, Moved
<1>1. Current' = (Current \ {j}) \cup {k}
  BY <1>0 DEF Current, SameJob
<1>2. NoStranger'
  BY <1>0 DEF NoStranger, SameJob
<1>3. \A l \in Current \ {j} : l.table = j.table => l.ranges \cap j.ranges = {}
  BY <1>0 DEF RangesApart
<1>4. \A l, m \in Current' : l # m /\ l.table = m.table => l.ranges \cap m.ranges = {}
  BY <1>1, <1>3 DEF RangesApart, SameJob
<1>5. ASSUME NEW l \in Current', l.type = "normal", l.stage = "queued" PROVE l.ranges \cap mem'[cur][l.table] = {}
  <2>1. l \in Current \ {j} /\ l.table \in TableSet
    BY <1>1, <1>5 DEF Current, JobTypesOk, JobState
  <2>2. l.ranges \cap mem[cur][l.table] = {}
    BY <1>0, <1>5, <2>1 DEF RangesApart
  <2>3. QED  BY <1>3, <2>1, <2>2
<1>6. ASSUME pc \in {"generate", "wait"}, ~stop, tg.type = "normal" PROVE tg.todo \cap mem'[cur][Tables[tg.i]] = {}
  <2>1. Tables[tg.i] \in TableSet /\ tg.todo \cap mem[cur][Tables[tg.i]] = {}
    BY <1>6 DEF TableSet, RangesApart
  <2>2. j.table = Tables[tg.i] /\ j.ranges \cap tg.todo = {}
    BY <1>0, <1>6 DEF JobsOfTable
  <2>3. QED  BY <2>1, <2>2
<1>7. QED  BY <1>0, <1>2, <1>4, <1>5, <1>6 DEF RangesApart

LEMMA UnbrokenBefore ==
  ASSUME RunTypes, UNCHANGED cur, scratch \subseteq scratch', \A x \in RunIds : x # cur => rows'[x] = rows[x],
         NEW r \in 1 .. (cur - 1), Unbroken(r, cur)'
  PROVE  Unbroken(r, cur)
<1>1. ASSUME NEW x \in r .. (cur - 1) PROVE ~rows[x].ended /\ x + 1 \notin scratch
  <2>1. x \in RunIds /\ x # cur
    BY RepairAssumption DEF RunTypes, RunIds
  <2>2. ~rows'[x].ended /\ x + 1 \notin scratch'
    BY DEF Unbroken
  <2>3. QED  BY <2>1, <2>2
<1>2. QED  BY <1>1 DEF Unbroken

LEMMA OnJobEndKeepsSafe ==
  ASSUME ContinueInv, ~leaked, NEW j \in jobs, OnJobEnd(j) PROVE ContinueSafe'
<1>0. RunTypes /\ JobTypesOk /\ JobsOfTable /\ ContinueSafe /\ NoStranger /\ RangesApart /\ Chained /\ RowBehind
  BY DEF ContinueInv, ControlInv, ContinueSafe
<1>1. Mine(j) /\ Running /\ j.run = cur /\ HasState /\ UNCHANGED <<cur, pc, tg, stop, scratch>>
  BY <1>0 DEF NoStranger, Mine, HasState, OnJobEnd, history
<1>2. PICK k \in JobState : SameJob(j, k) /\ Moved(j, k) /\ k.stage # "queued"
  BY <1>0, <1>1, WorkerMoves
<1>3. /\ cur \in RunIds
      /\ \A t \in TableSet : mem'[cur][t] = IF t = j.table /\ j.err # "error" THEN mem[cur][t] \cup j.ranges ELSE mem[cur][t]
      /\ \A x \in RunIds : x # cur => rows'[x] = rows[x]
      /\ rows'[cur].state \in {rows[cur].state, mem'[cur]}
  BY <1>0, <1>1, OnJobEndRows
<1>4. NoStranger' /\ RangesApart'
  BY <1>0, <1>1, <1>2, <1>3, MovedKeepsApart DEF RunTypes
<1>5. \A t \in TableSet : rows[cur].state[t] \subseteq rows'[cur].state[t] /\ rows'[cur].state[t] \subseteq mem'[cur][t]
  BY <1>0, <1>1, <1>3 DEF RowBehind
<1>6. RowBehind'
  BY <1>1, <1>5 DEF RowBehind
<1>7. ASSUME NEW r \in 1 .. (cur - 1), rows[r].initialized, Unbroken(r, cur)', NEW t \in TableSet
      PROVE  rows[r].state[t] \subseteq rows'[cur].state[t]
  <2>1. Unbroken(r, cur)
    BY <1>0, <1>1, <1>3, <1>7, UnbrokenBefore
  <2>2. r \in 1 .. cur /\ cur \in 1 .. cur /\ r <= cur
    BY <1>0 DEF RunTypes
  <2>3. rows[r].state[t] \subseteq rows[cur].state[t]
    BY <1>0, <1>1, <1>7, <2>1, <2>2 DEF Chained
  <2>4. QED  BY <1>5, <2>3
<1>8. Chained'
  BY <1>0, <1>1, <1>3, <1>7, ChainedStep
<1>9. QED  BY <1>4, <1>6, <1>8 DEF ContinueSafe

LEMMA GenerateKeepsApart ==
  ASSUME ContinueInv, ~leaked, Generate PROVE NoStranger' /\ RangesApart'
<1>0. RunTypes /\ JobTypesOk /\ JobsOfTable /\ NoStranger /\ RangesApart
  BY DEF ContinueInv, ControlInv, ContinueSafe
<1>1. Running /\ Running' /\ ~stop /\ pc = "generate" /\ UNCHANGED <<cur, pc, mem, stop>>
  BY DEF Generate, Running, shouldGenerate
<1>2. PICK rs \in ReplicaSets, i \in Intensities :
        /\ CanTake(rs)
        /\ jobs' = jobs \cup {[run |-> cur, table |-> Tables[tg.i], nodes |-> Replicas[rs],
                               ranges |-> getRangesToRepair(rs, i), type |-> tg.type, stage |-> "queued", err |-> "nil"]}
        /\ tg' = [tg EXCEPT !.todo = @ \ getRangesToRepair(rs, i), !.type = IF @ \in {"small", "tablet"} THEN "skip" ELSE @]
  BY DEF Generate
<1>3. PICK ranges : ranges = getRangesToRepair(rs, i)
  OBVIOUS
<1>4. ranges \subseteq tg.todo
  BY <1>2, <1>3, RangesToRepair DEF CanTake
<1>5. PICK k : k = [run |-> cur, table |-> Tables[tg.i], nodes |-> Replicas[rs],
                    ranges |-> ranges, type |-> tg.type, stage |-> "queued", err |-> "nil"]
  OBVIOUS
<1>6. k.run = cur /\ k.table = Tables[tg.i] /\ k.ranges = ranges /\ k.type = tg.type
  BY <1>5
<1>7. jobs' = jobs \cup {k} /\ Current' = Current \cup {k}
  BY <1>1, <1>2, <1>3, <1>5, <1>6 DEF Current
<1>8. tg'.i = tg.i /\ tg'.todo \subseteq tg.todo /\ (tg'.type = "normal" => tg.type = "normal")
  BY <1>0, <1>2 DEF RunTypes, TableState
<1>9. NoStranger'
  BY <1>0, <1>1, <1>6, <1>7 DEF NoStranger
<1>10. \A j \in Current : j.ranges \cap k.ranges = {}
  BY <1>0, <1>1, <1>4, <1>6 DEF JobsOfTable
<1>11. \A j, l \in Current' : j # l /\ j.table = l.table => j.ranges \cap l.ranges = {}
  BY <1>0, <1>7, <1>10 DEF RangesApart
<1>12. tg.type = "normal" => tg.todo \cap mem[cur][Tables[tg.i]] = {}
  BY <1>0, <1>1 DEF RangesApart
<1>13. ASSUME NEW j \in Current', j.type = "normal", j.stage = "queued" PROVE j.ranges \cap mem[cur][j.table] = {}
  <2>1. CASE j = k
    BY <1>4, <1>6, <1>12, <1>13, <2>1
  <2>2. CASE j \in Current
    BY <1>0, <1>1, <1>13, <2>2 DEF RangesApart
  <2>3. QED  BY <1>7, <2>1, <2>2
<1>14. tg'.type = "normal" => tg'.todo \cap mem[cur][Tables[tg'.i]] = {}
  BY <1>8, <1>12
<1>15. QED  BY <1>1, <1>9, <1>11, <1>13, <1>14 DEF RangesApart

LEMMA NextTableKeepsApart ==
  ASSUME ContinueInv, ~leaked, NextTable PROVE NoStranger' /\ RangesApart'
<1>0. RunTypes /\ JobsOfTable /\ NoStranger
  BY DEF ContinueInv, ControlInv, ContinueSafe
<1>1. Running /\ Running' /\ ~stop /\ pc = "tables" /\ UNCHANGED <<cur, mem, stop, jobs>>
  BY DEF NextTable, Running
<1>2. Current = {} /\ Current' = {}
  BY <1>0, <1>1 DEF JobsOfTable, Current
<1>3. NoStranger'
  BY <1>0, <1>1 DEF NoStranger
<1>4. ASSUME pc' \in {"generate", "wait"}, tg'.type = "normal" PROVE tg'.todo \cap mem[cur][Tables[tg'.i]] = {}
  <2>1. PICK t : t = Tables[tg.i]
    OBVIOUS
  <2>2. tg' = [i |-> tg.i, todo |-> TodoRanges(t), type |-> NewJobType(t)]
    BY <1>1, <1>4, <2>1 DEF NextTable
  <2>3. t \notin Tablet /\ Tables[tg'.i] = t /\ tg'.todo = TodoRanges(t)
    BY <1>4, <2>1, <2>2 DEF NewJobType
  <2>4. QED  BY <2>3 DEF TodoRanges
<1>5. QED  BY <1>1, <1>2, <1>3, <1>4 DEF RangesApart

LEMMA SafeKept ==
  ASSUME ContinueInv, [Next]_vars, ~leaked' PROVE ContinueSafe'
<1>0. ~leaked
  BY DEF Next, Repair, Generator, Workers, Start, InitState, InitProgress, SetupFails, Setup, NextTable, DescribeFails, Close,
         Generate, GenerateNoMore, ProcessResult, TableDone, Take, RepairOk, RepairFails, OnJobEnd, WorkerExits, SetParallel,
         Cancel, StopGenerating, GracefulStopTimeout, Finish, Crash, DeleteTable, history, vars
<1>1. RunTypes /\ JobTypesOk /\ JobsOfTable /\ ContinueSafe /\ NoStranger /\ RangesApart /\ Chained /\ RowBehind
  BY <1>0 DEF ContinueInv, ControlInv, ContinueSafe
<1>a. ASSUME UNCHANGED <<rows, cur, mem, scratch>>, HasState' => HasState, NoStranger' /\ RangesApart' PROVE ContinueSafe'
  <2>1. Chained' /\ RowBehind'
    BY <1>1, <1>a, RowsStay
  <2>2. QED  BY <1>a, <2>1 DEF ContinueSafe
<1>2. CASE Start \/ InitState \/ InitProgress \/ SetupFails
  BY <1>0, <1>2, OutsideKeepsSafe
<1>3. CASE Setup
  <2>1. ~Running /\ UNCHANGED <<rows, cur, mem, scratch, jobs>> /\ pc' = "tables" /\ HasState
    BY <1>3 DEF Setup, Running, HasState, database, history
  <2>2. jobs' = {}
    BY <1>1, <2>1 DEF NoStranger
  <2>3. NoStranger' /\ RangesApart'
    BY <2>1, <2>2, NoJobsApart
  <2>4. QED  BY <1>a, <2>1, <2>3
<1>4. CASE NextTable
  <2>1. UNCHANGED <<rows, cur, mem, scratch>> /\ HasState
    BY <1>4 DEF NextTable, Running, HasState, database, history
  <2>2. QED  BY <1>0, <1>4, <1>a, <2>1, NextTableKeepsApart
<1>5. CASE Generate
  <2>1. UNCHANGED <<rows, cur, mem, scratch>> /\ HasState
    BY <1>5 DEF Generate, Running, HasState, database, history
  <2>2. QED  BY <1>0, <1>5, <1>a, <2>1, GenerateKeepsApart
<1>6. CASE DescribeFails \/ Close \/ GenerateNoMore \/ TableDone \/ \E j \in jobs : ProcessResult(j)
  <2>1. UNCHANGED <<rows, cur, mem, scratch>> /\ Running /\ Running' /\ HasState /\ jobs' \subseteq jobs
    BY <1>6 DEF DescribeFails, Close, GenerateNoMore, TableDone, ProcessResult, Running, HasState, database, history
  <2>2. pc' \in {"generate", "wait"} /\ ~stop' /\ tg'.type = "normal"
          => pc \in {"generate", "wait"} /\ ~stop /\ tg.type = "normal" /\ tg'.i = tg.i /\ tg'.todo \subseteq tg.todo
    <3>1. CASE DescribeFails \/ Close \/ TableDone
      BY <3>1 DEF DescribeFails, Close, TableDone
    <3>2. CASE GenerateNoMore
      BY <1>1, <3>2 DEF GenerateNoMore, RunTypes, TableState
    <3>3. CASE \E j \in jobs : ProcessResult(j)
      BY <1>1, <3>3 DEF ProcessResult, RunTypes, TableState
    <3>4. QED  BY <1>6, <3>1, <3>2, <3>3
  <2>3. NoStranger' /\ RangesApart'
    BY <1>1, <2>1, <2>2, ApartLess
  <2>4. QED  BY <1>a, <2>1, <2>3
<1>7. ASSUME NEW j \in jobs, Take(j) \/ RepairOk(j) \/ RepairFails(j) PROVE ContinueSafe'
  <2>1. UNCHANGED <<rows, cur, mem, scratch, pc, tg, stop>>
    BY <1>7 DEF Take, RepairOk, RepairFails, database, history
  <2>2. PICK k \in JobState : SameJob(j, k) /\ Moved(j, k) /\ k.stage # "queued"
    BY <1>1, <1>7, WorkerMoves
  <2>3. NoStranger' /\ RangesApart'
    BY <1>1, <2>1, <2>2, MovedKeepsApart DEF RunTypes
  <2>4. QED  BY <1>a, <2>1, <2>3 DEF HasState, Running
<1>8. ASSUME NEW j \in jobs, OnJobEnd(j) PROVE ContinueSafe'
  BY <1>0, <1>8, OnJobEndKeepsSafe
<1>9. CASE WorkerExits \/ Cancel \/ StopGenerating \/ GracefulStopTimeout \/ (\E t \in MayDelete : DeleteTable(t)) \/ UNCHANGED vars
  <2>1. UNCHANGED <<rows, cur, mem, scratch, pc, tg, jobs>> /\ (stop => stop')
    BY <1>9 DEF WorkerExits, Cancel, StopGenerating, GracefulStopTimeout, DeleteTable, vars, database, history
  <2>2. NoStranger' /\ RangesApart'
    BY <1>1, <2>1, ApartLess DEF Running
  <2>3. QED  BY <1>a, <2>1, <2>2 DEF HasState, Running
<1>10. ASSUME NEW p \in Controls, SetParallel(p) PROVE ContinueSafe'
  <2>1. UNCHANGED <<cur, mem, scratch, pc, tg, jobs, stop>>
    BY <1>10 DEF SetParallel, history
  <2>2. NoStranger' /\ RangesApart'
    BY <1>1, <2>1, ApartLess DEF Running
  <2>3. Chained' /\ RowBehind'
    BY <1>1, <1>10, <2>1, SetParallelRows, RowsStay DEF HasState, Running
  <2>4. QED  BY <2>2, <2>3 DEF ContinueSafe
<1>11. CASE Finish
  <2>1. UNCHANGED <<cur, scratch>> /\ pc' = "idle" /\ ~HasState' /\ jobs' = {}
    BY <1>11 DEF Finish, HasState, Running
  <2>2. Chained'
    BY <1>1, <1>11, <2>1, FinishRows, ChainedStays
  <2>3. QED  BY <2>1, <2>2, NoJobsApart DEF ContinueSafe, RowBehind
<1>12. CASE Crash
  <2>1. UNCHANGED <<rows, cur, scratch>> /\ pc' = "idle" /\ ~HasState' /\ jobs' = {}
    BY <1>12 DEF Crash, HasState, Running, database, history
  <2>2. Chained'
    BY <1>1, <2>1, ChainedStays
  <2>3. QED  BY <2>1, <2>2, NoJobsApart DEF ContinueSafe, RowBehind
<1>13. QED
  BY <1>2, <1>3, <1>4, <1>5, <1>6, <1>7, <1>8, <1>9, <1>10, <1>11, <1>12 DEF Next, Repair, Generator, Workers

(* ContinueInv is inductive: what a run that others continue has recorded is in the row and in the   *)
(* memory of each of them, across crashes between the statements of pm.Init and onJobEndState.       *)
THEOREM ContinueCorrect == Spec => []ContinueInv
<1>1. ASSUME Init PROVE ContinueInv
  <2>1. ControlInv
    BY <1>1, InitControl
  <2>2. InitializedInTime /\ JobsOfTable
    BY <1>1 DEF Init, InitializedInTime, JobsOfTable, Running, NoRow
  <2>3. ContinueSafe
    BY <1>1 DEF Init, ContinueSafe, NoStranger, Chained, RowBehind, HasState, Running, RangesApart, Current
  <2>4. QED  BY <2>1, <2>2, <2>3 DEF ContinueInv
<1>2. ASSUME ContinueInv, [Next]_vars PROVE ContinueInv'
  <2>1. ControlInv' /\ InitializedInTime' /\ JobsOfTable'
    BY <1>2, ControlInvKept, InitializedKept, JobsOfTableKept DEF ContinueInv, ControlInv
  <2>2. QED  BY <1>2, <2>1, SafeKept DEF ContinueInv
<1>3. QED  BY <1>1, <1>2, PTL DEF Spec

(* What onJobEndState recorded is not repaired again until the repair is completed or started from   *)
(* scratch: GetPrevRun and the order of the writes of pm.Init hand it on, for any number of runs     *)
(* that crash, fail or never get initialized in between, unless a worker outlived its run.           *)
THEOREM ContinuedNotRepeatedCorrect == Spec => []ContinuedNotRepeated
<1>1. ASSUME ContinueInv PROVE ContinuedNotRepeated
  <2>1. SUFFICES ASSUME ~leaked, NEW j \in jobs, j.type = "normal", j.stage = "queued", NEW r \in 1 .. cur,
                        rows[r].initialized, \A x \in r .. (cur - 1) : ~rows[x].ended /\ x + 1 \notin scratch
                 PROVE  rows[r].state[j.table] \cap j.ranges = {}
    BY DEF ContinuedNotRepeated
  <2>2. ContinueSafe /\ cur \in Nat /\ j.table \in TableSet
    BY <1>1, <2>1 DEF ContinueInv, ControlInv, RunTypes, JobTypesOk, JobState
  <2>3. Running /\ HasState /\ j \in Current
    BY <2>2 DEF ContinueSafe, NoStranger, HasState, Current
  <2>4. rows[r].state[j.table] \subseteq rows[cur].state[j.table]
    <3>1. Unbroken(r, cur) /\ r <= cur /\ cur \in 1 .. cur
      BY <2>1, <2>2 DEF Unbroken
    <3>2. QED  BY <2>1, <2>2, <2>3, <3>1 DEF ContinueSafe, Chained
  <2>5. rows[cur].state[j.table] \subseteq mem[cur][j.table]
    BY <2>2, <2>3 DEF ContinueSafe, RowBehind
  <2>6. j.ranges \cap mem[cur][j.table] = {}
    BY <2>1, <2>2, <2>3 DEF ContinueSafe, RangesApart
  <2>7. QED  BY <2>4, <2>5, <2>6
<1>2. QED  BY <1>1, ContinueCorrect, PTL

-----------------------------------------------------------------------------
(***************************************************************************)
(* A completed repair repaired everything, for any tables, replica sets,   *)
(* runs, failures, crashes, dropped tables and workers left behind, in a   *)
(* cluster of vnode keyspaces whose plans find the same small tables.      *)
(***************************************************************************)

Small == UNION SmallSets

(* The plans of all runs are of vnode keyspaces and find the same small tables. *)
SamePlans == Tablet = {} /\ \A s, u \in SmallSets : s = u

HistTypes == since \in [RunIds -> RunIds] /\ repaired \in [RunIds -> States]
PlanKnown == pc # "idle" => target.small = Small

(* Unless something failed or was stopped, the tables the generator is past are recorded, and what   *)
(* is missing of the present one is still to do or in the hands of a job.                            *)
StopHasCause == Running /\ stop => err \/ ctx = "cancelled"
PastTables ==
  /\ Running => tg.i # 0
  /\ pc = "closing" /\ ~stop /\ ~err => tg.i \notin DOMAIN Tables
  /\ Running /\ ~stop /\ ~err => \A i \in DOMAIN Tables : i < tg.i => Planned(Tables[i]) \subseteq mem[cur][Tables[i]]
PresentTable ==
  pc \in {"generate", "wait"} /\ ~stop /\ ~err =>
    \A x \in Planned(Tables[tg.i]) : x \in mem[cur][Tables[tg.i]] \/ x \in tg.todo \/ \E j \in Current : x \in j.ranges
ResultsRecorded ==
  Running => \A j \in Current : j.stage = "result" /\ j.err # "error" => j.ranges \subseteq mem[cur][j.table]
NothingSkipped == StopHasCause /\ PastTables /\ PresentTable /\ ResultsRecorded

(* A job that answered without an error repaired what it stands for. *)
Honest(j) ==
  /\ j.err = "deleted" => j.table \in deleted
  /\ j.table \notin deleted => (j.type = "normal" <=> j.table \notin Small)
  /\ j.table \notin deleted /\ j.type # "skip" /\ j.stage \in {"answered", "result"} /\ j.err = "nil"
       => Effect(j) \subseteq repaired[since[j.run]][j.table]
JobsHonest == \A j \in jobs : Honest(j)

(* The whole of a small table is repaired by the first job of it. *)
TypeOfJobs ==
  pc \in {"generate", "wait"} /\ ~stop /\ Tables[tg.i] \notin deleted =>
    /\ tg.type # "tablet" /\ (tg.type = "normal" <=> Tables[tg.i] \notin Small)
    /\ tg.type = "small" => Current = {} /\ tg.todo \cap mem[cur][Tables[tg.i]] = {}

(* What is recorded of a normal table is repaired. *)
NormalKept ==
  \A t \in TableSet \ (Small \cup deleted), r \in RunIds :
    mem[r][t] \subseteq repaired[since[r]][t] /\ rows[r].state[t] \subseteq repaired[since[r]][t]

(* As long as a small table is not repaired, a range of it is missing in the memory and in the row   *)
(* of the run, and no job that repairs nothing has it or may get it.                                 *)
Hole(r, t, x) ==
  /\ x \notin mem[r][t] /\ x \notin rows[r].state[t]
  /\ \A j \in jobs : j.run = r /\ j.table = t /\ j.type # "small" => x \notin j.ranges
  /\ r = cur /\ pc \in {"generate", "wait"} /\ ~stop /\ Tables[tg.i] = t /\ tg.type = "skip" => x \notin tg.todo

SmallKept ==
  \A t \in TableSet \ deleted, r \in RunIds :
    t \in Small => Planned(t) \subseteq repaired[since[r]][t] \/ \E x \in Planned(t) : Hole(r, t, x)

CompletionInv ==
  /\ ControlInv /\ JobsOfTable /\ RowBehind /\ HistTypes /\ PlanKnown
  /\ NothingSkipped /\ JobsHonest /\ TypeOfJobs /\ NormalKept /\ SmallKept

-----------------------------------------------------------------------------
(* What the steps do to memory, rows and history. *)
LEMMA RepairOkHist ==
  ASSUME RunTypes, JobTypesOk, HistTypes, NEW j \in jobs, RepairOk(j)
  PROVE  /\ HistTypes' /\ UNCHANGED <<since, deleted>>
         /\ \A r \in RunIds, t \in TableSet : repaired[r][t] \subseteq repaired'[r][t]
         /\ j.type # "skip" => Effect(j) \subseteq repaired'[since[j.run]][j.table]
<1>0. since \in [RunIds -> RunIds] /\ repaired \in [RunIds -> States] /\ UNCHANGED <<since, deleted>>
  BY DEF HistTypes, RepairOk, database
<1>1. j.table \in TableSet /\ j.ranges \subseteq Ranges /\ j.run \in RunIds
  BY RepairAssumption DEF JobTypesOk, JobState, RunTypes, RunIds
<1>2. CASE j.type = "skip"
  BY <1>0, <1>2 DEF RepairOk, HistTypes
<1>3. CASE j.type # "skip"
  <2>1. PICK s \in RunIds : s = since[j.run]
    BY <1>0, <1>1
  <2>2. PICK e : e = Effect(j)
    OBVIOUS
  <2>3. e \subseteq Ranges
    BY <1>1, <2>2 DEF Effect
  <2>4. repaired' = [repaired EXCEPT ![s][j.table] = @ \cup e]
    BY <1>3, <2>1, <2>2 DEF RepairOk
  <2>5. repaired[s] \in States
    BY <1>0
  <2>6. repaired' \in [RunIds -> States]
    BY <1>0, <1>1, <2>3, <2>4, <2>5 DEF States
  <2>7. \A r \in RunIds, t \in TableSet : repaired'[r][t] = IF r = s /\ t = j.table THEN repaired[r][t] \cup e ELSE repaired[r][t]
    BY <1>0, <1>1, <2>4, <2>5 DEF States
  <2>8. QED  BY <1>0, <1>1, <2>1, <2>2, <2>6, <2>7 DEF HistTypes
<1>4. QED  BY <1>2, <1>3

(* Nothing that was repaired is forgotten, and only InitState says what a run continues. *)
LEMMA HistKept ==
  ASSUME RunTypes, JobTypesOk, HistTypes, [Next]_vars
  PROVE  /\ HistTypes' /\ deleted \subseteq deleted'
         /\ \A r \in RunIds, t \in TableSet : repaired[r][t] \subseteq repaired'[r][t]
         /\ \A r \in RunIds : since'[r] = since[r] \/ (InitState /\ r = cur)
<1>1. CASE \E j \in jobs : RepairOk(j)
  <2>1. PICK j \in jobs : RepairOk(j)
    BY <1>1
  <2>2. QED  BY <2>1, RepairOkHist
<1>2. CASE InitState
  <2>1. cur \in RunIds /\ UNCHANGED <<repaired, deleted>>
    BY <1>2 DEF InitState, RunTypes
  <2>2. PICK g \in 0 .. (cur - 1) : since' = [since EXCEPT ![cur] = IF g = 0 THEN cur ELSE since[g]]
    BY <1>2, InitStateRows
  <2>3. g # 0 => g \in RunIds
    BY <2>1, RepairAssumption DEF RunIds
  <2>4. QED  BY <1>2, <2>1, <2>2, <2>3 DEF HistTypes
<1>3. CASE \E t \in MayDelete : DeleteTable(t)
  BY <1>3 DEF DeleteTable, history, HistTypes
<1>4. CASE Start \/ InitProgress \/ SetupFails \/ Setup \/ Finish \/ StopGenerating \/ GracefulStopTimeout \/ Cancel \/ Crash \/ WorkerExits
           \/ (\E p \in Controls : SetParallel(p)) \/ UNCHANGED vars
  <2>1. UNCHANGED <<repaired, since, deleted>>
    BY <1>4 DEF Start, InitProgress, SetupFails, Setup, Finish, StopGenerating, GracefulStopTimeout, Cancel, Crash, WorkerExits, SetParallel,
                vars, database, history
  <2>2. QED  BY <2>1 DEF HistTypes
<1>5. CASE Generator \/ \E j \in jobs : Take(j) \/ RepairFails(j) \/ OnJobEnd(j)
  <2>1. UNCHANGED <<repaired, since, deleted>>
    BY <1>5 DEF Generator, NextTable, DescribeFails, Close, Generate, GenerateNoMore, TableDone, ProcessResult, Take, RepairFails, OnJobEnd,
                database, history
  <2>2. QED  BY <2>1 DEF HistTypes
<1>6. QED  BY <1>1, <1>2, <1>3, <1>4, <1>5 DEF Next, Repair, Workers

(* Only InitState and OnJobEnd record ranges. *)
LEMMA MemShrinks ==
  ASSUME RunTypes, JobTypesOk, [Next]_vars, ~InitState, \A j \in jobs : ~OnJobEnd(j)
  PROVE  /\ mem' = mem \/ pc' = "idle"
         /\ \A r \in RunIds, t \in TableSet : mem'[r][t] \subseteq mem[r][t] /\ rows'[r].state = rows[r].state
<1>1. ASSUME UNCHANGED rows PROVE \A r \in RunIds : rows'[r].state = rows[r].state
  BY <1>1
<1>a. ASSUME NEW b, b \in RunIds, mem' = [mem EXCEPT ![b] = NoRanges] PROVE \A r \in RunIds, t \in TableSet : mem'[r][t] \subseteq mem[r][t]
  BY <1>a DEF RunTypes, NoRanges
<1>2. CASE Start
  <2>1. UNCHANGED mem /\ \A r \in RunIds : rows'[r].state = rows[r].state
    BY <1>2, StartRows DEF Start
  <2>2. QED  BY <2>1
<1>3. CASE InitProgress
  <2>1. UNCHANGED mem /\ \A r \in RunIds : rows'[r].state = rows[r].state
    BY <1>3, InitializedRows DEF InitProgress
  <2>2. QED  BY <2>1
<1>4. CASE SetupFails
  <2>1. \A r \in RunIds : rows'[r].state = rows[r].state
    BY <1>4, InitializedRows
  <2>2. cur \in RunIds /\ mem' = [mem EXCEPT ![cur] = NoRanges] /\ pc' = "idle"
    BY <1>4 DEF SetupFails, RunTypes
  <2>3. QED  BY <1>a, <2>1, <2>2
<1>5. CASE Finish
  <2>1. \A r \in RunIds : rows'[r].state = rows[r].state
    BY <1>5, FinishRows
  <2>2. cur \in RunIds /\ (mem' = mem \/ mem' = [mem EXCEPT ![cur] = NoRanges]) /\ pc' = "idle"
    BY <1>5 DEF Finish, RunTypes
  <2>3. \A r \in RunIds, t \in TableSet : mem'[r][t] \subseteq mem[r][t]
    BY <1>a, <2>2
  <2>4. QED  BY <2>1, <2>2, <2>3
<1>6. CASE Crash
  <2>1. UNCHANGED rows /\ mem' = [r \in RunIds |-> NoRanges] /\ pc' = "idle"
    BY <1>6 DEF Crash, database
  <2>2. QED  BY <2>1 DEF NoRanges
<1>7. ASSUME NEW p \in Controls, SetParallel(p)
      PROVE  mem' = mem /\ \A r \in RunIds, t \in TableSet : mem'[r][t] \subseteq mem[r][t] /\ rows'[r].state = rows[r].state
  <2>1. UNCHANGED mem /\ \A r \in RunIds : rows'[r].state = rows[r].state
    BY <1>7, SetParallelRows DEF SetParallel
  <2>2. QED  BY <2>1
<1>8. CASE Setup \/ StopGenerating \/ GracefulStopTimeout \/ Cancel \/ WorkerExits \/ (\E t \in MayDelete : DeleteTable(t)) \/ UNCHANGED vars
  <2>1. UNCHANGED <<rows, mem>>
    BY <1>8 DEF Setup, StopGenerating, GracefulStopTimeout, Cancel, WorkerExits, DeleteTable, vars, database
  <2>2. QED  BY <2>1
<1>9. CASE Generator \/ \E j \in jobs : Take(j) \/ RepairOk(j) \/ RepairFails(j)
  <2>1. UNCHANGED <<rows, mem>>
    BY <1>9 DEF Generator, NextTable, DescribeFails, Close, Generate, GenerateNoMore, TableDone, ProcessResult, Take, RepairOk, RepairFails, database
  <2>2. QED  BY <2>1
<1>10. QED  BY <1>2, <1>3, <1>4, <1>5, <1>6, <1>7, <1>8, <1>9 DEF Next, Repair, Workers

LEMMA RowBehindKept ==
  ASSUME RunTypes, JobTypesOk, RowBehind, [Next]_vars PROVE RowBehind'
<1>1. SUFFICES ASSUME HasState', NEW t \in TableSet PROVE rows'[cur'].state[t] \subseteq mem'[cur'][t]
  BY DEF RowBehind
<1>2. CASE InitState
  <2>1. cur \in RunIds /\ UNCHANGED cur
    BY <1>2 DEF InitState, RunTypes
  <2>2. rows'[cur].state = mem'[cur]
    BY <1>2, <2>1, InitStateRows DEF RunTypes
  <2>3. QED  BY <2>1, <2>2
<1>3. ASSUME NEW j \in jobs, OnJobEnd(j) PROVE rows'[cur'].state[t] \subseteq mem'[cur'][t]
  <2>1. UNCHANGED <<cur, pc>> /\ cur \in RunIds /\ HasState
    BY <1>1, <1>3 DEF OnJobEnd, HasState, Running, RunTypes
  <2>2. rows[cur].state[t] \subseteq mem[cur][t]
    BY <2>1 DEF RowBehind
  <2>3. rows'[cur].state[t] \subseteq mem'[cur][t]
    <3>1. CASE j.run = cur
      BY <1>3, <2>1, <2>2, <3>1, OnJobEndRows
    <3>2. CASE j.run # cur
      BY <1>3, <2>1, <2>2, <3>2, OnJobEndRows
    <3>3. QED  BY <3>1, <3>2
  <2>4. QED  BY <2>1, <2>3
<1>4. CASE ~InitState /\ \A j \in jobs : ~OnJobEnd(j)
  <2>1. /\ mem' = mem
        /\ \A r \in RunIds : rows'[r].state = rows[r].state
    BY <1>1, <1>4, MemShrinks DEF HasState, Running
  <2>2. UNCHANGED cur /\ HasState
    BY <1>1, <1>4 DEF HasState, Running, Next, Repair, Generator, Workers, Start, InitProgress, SetupFails, Setup, NextTable, DescribeFails, Close,
         Generate, GenerateNoMore, ProcessResult, TableDone, Take, RepairOk, RepairFails, WorkerExits, SetParallel,
         Cancel, StopGenerating, GracefulStopTimeout, Finish, Crash, DeleteTable, vars
  <2>3. cur \in RunIds
    BY <2>2 DEF HasState, Running, RunTypes
  <2>4. QED  BY <2>1, <2>2, <2>3 DEF RowBehind
<1>5. QED  BY <1>2, <1>3, <1>4

LEMMA PlanKnownKept ==
  ASSUME SamePlans, PlanKnown, [Next]_vars PROVE PlanKnown'
<1>1. CASE Start
  <2>1. PICK f \in FailFasts, s \in SmallSets : target' = [failFast |-> f, small |-> s]
    BY <1>1 DEF Start
  <2>2. s = Small
    BY DEF SamePlans, Small
  <2>3. QED  BY <2>1, <2>2 DEF PlanKnown
<1>2. CASE ~Start
  <2>1. pc' = "idle" \/ (pc # "idle" /\ UNCHANGED target) \/ (UNCHANGED <<pc, target>>)
    BY <1>2 DEF Next, Repair, Generator, Workers, InitState, InitProgress, SetupFails, Setup, NextTable, DescribeFails, Close,
         Generate, GenerateNoMore, ProcessResult, TableDone, Take, RepairOk, RepairFails, OnJobEnd, WorkerExits, SetParallel,
         Cancel, StopGenerating, GracefulStopTimeout, Finish, Crash, DeleteTable, vars
  <2>2. QED  BY <2>1 DEF PlanKnown
<1>3. QED  BY <1>1, <1>2

-----------------------------------------------------------------------------
(* The generator skips nothing. *)
QuietAction ==
  \/ WorkerExits \/ Cancel \/ StopGenerating \/ GracefulStopTimeout
  \/ (\E p \in Controls : SetParallel(p)) \/ (\E t \in MayDelete : DeleteTable(t)) \/ UNCHANGED vars
OutsideAction == Start \/ InitState \/ InitProgress \/ SetupFails \/ Finish \/ Crash
WorkerAction == \E j \in jobs : Take(j) \/ RepairOk(j) \/ RepairFails(j) \/ OnJobEnd(j)

LEMMA Kinds ==
  ASSUME [Next]_vars
  PROVE  QuietAction \/ OutsideAction \/ WorkerAction \/ Generator \/ Setup
BY DEF Next, Repair, Workers, QuietAction, OutsideAction, WorkerAction

LEMMA Quiet ==
  ASSUME QuietAction
  PROVE  /\ UNCHANGED <<cur, pc, mem, tg, jobs, err, target>> /\ Current' = Current /\ (Running' <=> Running)
         /\ (stop => stop') /\ (stop' => stop \/ ctx = "cancelled") /\ (ctx = "cancelled" => ctx' = "cancelled")
<1>1. /\ UNCHANGED <<cur, pc, mem, tg, jobs, err, target>>
      /\ (stop => stop') /\ (stop' => stop \/ ctx = "cancelled") /\ (ctx = "cancelled" => ctx' = "cancelled")
  BY DEF QuietAction, WorkerExits, Cancel, StopGenerating, GracefulStopTimeout, SetParallel, DeleteTable, vars
<1>2. QED  BY <1>1 DEF Current, Running

LEMMA Outside == ASSUME OutsideAction PROVE ~Running'
BY DEF OutsideAction, Start, InitState, InitProgress, SetupFails, Finish, Crash, Running

(* A worker moves a job of the run, or ends one of an earlier run; memory only grows. *)
LEMMA WorkerStep ==
  ASSUME RunTypes, JobTypesOk, WorkerAction
  PROVE  /\ UNCHANGED <<cur, pc, tg, err, stop, ctx, target>> /\ (Running' <=> Running)
         /\ \A r \in RunIds, t \in TableSet : mem[r][t] \subseteq mem'[r][t]
         /\ \A l \in jobs' : \E m \in jobs : SameJob(m, l)
         /\ Running => \A l \in Current : \E m \in Current' : SameJob(l, m)
<1>1. PICK j \in jobs : Take(j) \/ RepairOk(j) \/ RepairFails(j) \/ OnJobEnd(j)
  BY DEF WorkerAction
<1>2. UNCHANGED <<cur, pc, tg, err, stop, ctx, target>> /\ (Running' <=> Running)
  BY <1>1 DEF Take, RepairOk, RepairFails, OnJobEnd, Running
<1>3. \A r \in RunIds, t \in TableSet : mem[r][t] \subseteq mem'[r][t]
  <2>1. CASE OnJobEnd(j)
    BY <2>1, OnJobEndRows
  <2>2. CASE Take(j) \/ RepairOk(j) \/ RepairFails(j)
    BY <2>2 DEF Take, RepairOk, RepairFails
  <2>3. QED  BY <1>1, <2>1, <2>2
<1>4. CASE OnJobEnd(j) /\ ~Mine(j)
  <2>1. jobs' = jobs \ {j}
    BY <1>4 DEF OnJobEnd
  <2>2. Running => Current' = Current
    BY <1>2, <1>4, <2>1 DEF Current, Mine
  <2>3. QED  BY <1>2, <1>3, <2>1, <2>2 DEF SameJob
<1>5. CASE ~(OnJobEnd(j) /\ ~Mine(j))
  <2>1. PICK k \in JobState : SameJob(j, k) /\ Moved(j, k)
    BY <1>1, <1>5, WorkerMoves
  <2>2. \A l \in jobs' : \E m \in jobs : SameJob(m, l)
    BY <2>1 DEF Moved, SameJob
  <2>3. \A l \in Current : \E m \in Current' : SameJob(l, m)
    BY <1>2, <2>1 DEF Current, Moved, SameJob
  <2>4. QED  BY <1>2, <1>3, <2>2, <2>3
<1>6. QED  BY <1>4, <1>5

LEMMA StopHasCauseKept == ASSUME RunTypes, JobTypesOk, StopHasCause, [Next]_vars PROVE StopHasCause'
<1>1. CASE QuietAction
  BY <1>1, Quiet DEF StopHasCause
<1>2. CASE OutsideAction
  BY <1>2, Outside DEF StopHasCause
<1>3. CASE WorkerAction
  BY <1>3, WorkerStep DEF StopHasCause
<1>4. CASE Setup
  BY <1>4 DEF StopHasCause, Setup
<1>5. CASE Generator
  <2>1. Running /\ UNCHANGED ctx
    BY <1>5 DEF Generator, NextTable, DescribeFails, Close, Generate, GenerateNoMore, TableDone, ProcessResult, Running
  <2>2. (stop' => stop \/ err') /\ (err => err')
    <3>1. CASE NextTable \/ DescribeFails \/ Close \/ Generate \/ GenerateNoMore \/ TableDone
      <4>1. UNCHANGED stop /\ (UNCHANGED err \/ err' = TRUE)
        BY <3>1 DEF NextTable, DescribeFails, Close, Generate, GenerateNoMore, TableDone
      <4>2. QED  BY <4>1
    <3>2. ASSUME NEW j \in jobs, ProcessResult(j) PROVE (stop' => stop \/ err') /\ (err => err')
      <4>1. err' = (err \/ j.err = "error") /\ stop' = (stop \/ (j.err = "error" /\ target.failFast))
        BY <3>2 DEF ProcessResult
      <4>2. (err \/ j.err = "error") => err'
        BY <4>1, Zenon
      <4>3. stop' => stop \/ j.err = "error"
        BY <4>1, Zenon
      <4>4. QED  BY <4>2, <4>3
    <3>3. QED  BY <1>5, <3>1, <3>2 DEF Generator
  <2>3. QED  BY <2>1, <2>2 DEF StopHasCause
<1>6. QED  BY <1>1, <1>2, <1>3, <1>4, <1>5, Kinds

LEMMA GenerateJob ==
  ASSUME RunTypes, Generate
  PROVE  \E rs \in ReplicaSets, k \in JobState :
           /\ Replicas[rs] # {} /\ jobs' = jobs \cup {k} /\ Current' = Current \cup {k}
           /\ k.run = cur /\ k.table = Tables[tg.i] /\ k.type = tg.type /\ k.stage = "queued" /\ k.err = "nil"
           /\ k.ranges # {} /\ k.ranges \subseteq RangesOf[rs] \cap tg.todo
           /\ tg'.i = tg.i /\ tg'.todo = tg.todo \ k.ranges
           /\ tg'.type = IF tg.type \in {"small", "tablet"} THEN "skip" ELSE tg.type
<1>1. PICK rs \in ReplicaSets, i \in Intensities :
        /\ CanTake(rs)
        /\ jobs' = jobs \cup {[run |-> cur, table |-> Tables[tg.i], nodes |-> Replicas[rs],
                               ranges |-> getRangesToRepair(rs, i), type |-> tg.type, stage |-> "queued", err |-> "nil"]}
        /\ tg' = [tg EXCEPT !.todo = @ \ getRangesToRepair(rs, i), !.type = IF @ \in {"small", "tablet"} THEN "skip" ELSE @]
  BY DEF Generate
<1>2. PICK ranges : ranges = getRangesToRepair(rs, i)
  OBVIOUS
<1>3. ranges # {} /\ ranges \subseteq RangesOf[rs] \cap tg.todo /\ ranges \subseteq Ranges /\ Replicas[rs] # {} /\ Replicas[rs] \subseteq Nodes
  BY <1>1, <1>2, RangesToRepair, RepairAssumption DEF CanTake
<1>4. PICK k : k = [run |-> cur, table |-> Tables[tg.i], nodes |-> Replicas[rs],
                    ranges |-> ranges, type |-> tg.type, stage |-> "queued", err |-> "nil"]
  OBVIOUS
<1>5. /\ k.run = cur /\ k.table = Tables[tg.i] /\ k.type = tg.type /\ k.stage = "queued" /\ k.err = "nil" /\ k.ranges = ranges
  BY <1>4
<1>6. k \in JobState
  <2>1. Tables[tg.i] \in TableSet /\ tg.type \in JobTypes /\ cur \in Nat
    BY DEF RunTypes, TableSet, TableState, Generate
  <2>2. QED  BY <1>3, <1>4, <2>1 DEF JobState
<1>7. jobs' = jobs \cup {k} /\ Current' = Current \cup {k}
  BY <1>1, <1>2, <1>4, <1>5 DEF Current, Generate
<1>8. /\ tg'.i = tg.i /\ tg'.todo = tg.todo \ ranges
      /\ tg'.type = IF tg.type \in {"small", "tablet"} THEN "skip" ELSE tg.type
  BY <1>1, <1>2 DEF RunTypes, TableState
<1>9. QED  BY <1>3, <1>5, <1>6, <1>7, <1>8

LEMMA ResultsRecordedKept == ASSUME ControlInv, ResultsRecorded, [Next]_vars PROVE ResultsRecorded'
<1>0. RunTypes /\ JobTypesOk /\ JobsInTime
  BY DEF ControlInv
<1>1. CASE QuietAction
  BY <1>1, Quiet DEF ResultsRecorded
<1>2. CASE OutsideAction
  BY <1>2, Outside DEF ResultsRecorded
<1>3. CASE WorkerAction
  <2>1. PICK j \in jobs : Take(j) \/ RepairOk(j) \/ RepairFails(j) \/ OnJobEnd(j)
    BY <1>3 DEF WorkerAction
  <2>2. SUFFICES ASSUME Running, NEW l \in Current', l.stage = "result", l.err # "error" PROVE l.ranges \subseteq mem'[cur][l.table]
    BY <1>0, <1>3, WorkerStep DEF ResultsRecorded
  <2>3. UNCHANGED cur /\ cur \in RunIds
    BY <1>0, <1>3, <2>2, WorkerStep DEF Running, RunTypes
  <2>4. ASSUME l \in Current PROVE l.ranges \subseteq mem'[cur][l.table]
    <3>1. l.ranges \subseteq mem[cur][l.table] /\ l.table \in TableSet
      BY <1>0, <2>2, <2>4 DEF ResultsRecorded, Current, JobTypesOk, JobState
    <3>2. QED  BY <1>0, <1>3, <2>3, <3>1, WorkerStep
  <2>5. CASE OnJobEnd(j) /\ ~Mine(j)
    BY <2>2, <2>3, <2>4, <2>5 DEF OnJobEnd, Current
  <2>6. CASE ~(OnJobEnd(j) /\ ~Mine(j))
    <3>1. PICK k \in JobState : /\ SameJob(j, k) /\ Moved(j, k)
                                /\ k.stage = "result" => OnJobEnd(j) /\ Mine(j) /\ k.err = j.err
      BY <1>0, <2>1, <2>6, WorkerMoves
    <3>2. CASE l = k
      <4>1. OnJobEnd(j) /\ j.run = cur /\ j.err # "error" /\ l.ranges = j.ranges /\ l.table = j.table
        BY <2>2, <3>1, <3>2 DEF Mine, SameJob
      <4>2. QED  BY <1>0, <4>1, OnJobEndRows
    <3>3. CASE l # k
      BY <2>2, <2>3, <2>4, <3>1, <3>3 DEF Moved, Current
    <3>4. QED  BY <3>2, <3>3
  <2>7. QED  BY <2>5, <2>6
<1>4. CASE Setup
  <2>1. Current' = {}
    BY <1>0, <1>4 DEF Setup, JobsInTime, Current
  <2>2. QED  BY <2>1 DEF ResultsRecorded
<1>5. CASE Generator
  <2>1. Running /\ UNCHANGED <<cur, mem>>
    BY <1>5 DEF Generator, NextTable, DescribeFails, Close, Generate, GenerateNoMore, TableDone, ProcessResult, Running
  <2>2. CASE Generate
    <3>1. \A l \in Current' : l \in Current \/ l.stage = "queued"
      BY <1>0, <2>2, GenerateJob
    <3>2. QED  BY <2>1, <3>1 DEF ResultsRecorded
  <2>3. CASE ~Generate
    <3>1. Current' \subseteq Current
      BY <1>5, <2>3 DEF Generator, NextTable, DescribeFails, Close, GenerateNoMore, TableDone, ProcessResult, Current
    <3>2. QED  BY <2>1, <3>1 DEF ResultsRecorded
  <2>4. QED  BY <2>2, <2>3
<1>6. QED  BY <1>1, <1>2, <1>3, <1>4, <1>5, Kinds

LEMMA PlannedRanges ==
  ASSUME NEW t PROVE Planned(t) \subseteq Ranges /\ Planned(t) \cap FilteredOut = {}
<1>1. Planned(t) \subseteq Ranges
  BY DEF Planned, Ranges
<1>2. ASSUME NEW x \in Planned(t), x \in FilteredOut PROVE FALSE
  <2>1. PICK a \in ReplicaSets : Replicas[a] # {} /\ x \in RangesOf[a]
    BY DEF Planned
  <2>2. PICK b \in ReplicaSets : Replicas[b] = {} /\ x \in RangesOf[b]
    BY <1>2 DEF FilteredOut
  <2>3. QED  BY <2>1, <2>2, RepairAssumption
<1>3. QED  BY <1>1, <1>2

LEMMA PresentTableKept ==
  ASSUME SamePlans, ControlInv, JobsOfTable, PresentTable, ResultsRecorded, [Next]_vars PROVE PresentTable'
<1>0. RunTypes /\ JobTypesOk /\ JobsInTime
  BY DEF ControlInv
<1>a. SUFFICES ASSUME pc' \in {"generate", "wait"}, ~stop', ~err', NEW x \in Planned(Tables[tg'.i])
               PROVE  x \in mem'[cur'][Tables[tg'.i]] \/ x \in tg'.todo \/ \E j \in Current' : x \in j.ranges
  BY DEF PresentTable, Planned
<1>1. CASE QuietAction
  BY <1>1, <1>a, Quiet DEF PresentTable
<1>2. CASE OutsideAction
  BY <1>2, <1>a, Outside DEF Running
<1>3. CASE WorkerAction
  <2>1. UNCHANGED <<cur, pc, tg, err, stop>> /\ Running /\ cur \in RunIds /\ Tables[tg.i] \in TableSet
    BY <1>0, <1>3, <1>a, WorkerStep DEF Running, RunTypes, TableSet
  <2>2. x \in mem[cur][Tables[tg.i]] \/ x \in tg.todo \/ \E j \in Current : x \in j.ranges
    BY <1>a, <2>1 DEF PresentTable
  <2>3. ASSUME NEW j \in Current, x \in j.ranges PROVE \E l \in Current' : x \in l.ranges
    BY <1>0, <1>3, <2>1, <2>3, WorkerStep DEF SameJob
  <2>4. mem[cur][Tables[tg.i]] \subseteq mem'[cur][Tables[tg.i]]
    BY <1>0, <1>3, <2>1, WorkerStep
  <2>5. QED  BY <2>1, <2>2, <2>3, <2>4
<1>4. CASE Setup \/ DescribeFails \/ Close \/ TableDone
  BY <1>4, <1>a DEF Setup, DescribeFails, Close, TableDone
<1>5. CASE NextTable
  <2>1. PICK t : t = Tables[tg.i]
    OBVIOUS
  <2>2. tg' = [i |-> tg.i, todo |-> TodoRanges(t), type |-> NewJobType(t)] /\ UNCHANGED <<mem, cur>>
    BY <1>5, <1>a, <2>1 DEF NextTable
  <2>3. tg'.i = tg.i /\ tg'.todo = Ranges \ mem[cur][t]
    BY <2>2 DEF TodoRanges, SamePlans
  <2>4. x \in Ranges
    BY PlannedRanges
  <2>5. QED  BY <2>1, <2>2, <2>3, <2>4
<1>6. CASE Generate
  <2>1. UNCHANGED <<mem, cur, err, stop>> /\ pc = "generate"
    BY <1>6 DEF Generate
  <2>2. PICK k \in JobState : Current' = Current \cup {k} /\ tg'.i = tg.i /\ tg'.todo = tg.todo \ k.ranges
    BY <1>0, <1>6, GenerateJob
  <2>3. x \in mem[cur][Tables[tg.i]] \/ x \in tg.todo \/ \E j \in Current : x \in j.ranges
    BY <1>a, <2>1, <2>2 DEF PresentTable
  <2>4. QED  BY <2>1, <2>2, <2>3
<1>7. CASE GenerateNoMore
  <2>1. UNCHANGED <<mem, cur, err, stop, jobs>> /\ pc = "generate" /\ tg'.i = tg.i /\ tg'.todo = tg.todo \ FilteredOut
    BY <1>0, <1>7, <1>a DEF GenerateNoMore, RunTypes, TableState
  <2>2. x \in mem[cur][Tables[tg.i]] \/ x \in tg.todo \/ \E j \in Current : x \in j.ranges
    BY <1>a, <2>1 DEF PresentTable
  <2>3. Current' = Current /\ x \notin FilteredOut
    BY <2>1, PlannedRanges DEF Current
  <2>4. QED  BY <2>1, <2>2, <2>3
<1>8. ASSUME NEW j \in jobs, ProcessResult(j)
      PROVE  x \in mem'[cur'][Tables[tg'.i]] \/ x \in tg'.todo \/ \E l \in Current' : x \in l.ranges
  <2>1. UNCHANGED <<mem, cur>> /\ pc = "wait" /\ jobs' = jobs \ {j} /\ j.stage = "result" /\ Running
    BY <1>8 DEF ProcessResult, Running
  <2>2. ~stop /\ ~err /\ j.err # "error"
    BY <1>8, <1>a, Zenon DEF ProcessResult
  <2>3. tg'.i = tg.i /\ tg'.todo = tg.todo
    BY <1>0, <1>8 DEF ProcessResult, RunTypes, TableState
  <2>4. x \in mem[cur][Tables[tg.i]] \/ x \in tg.todo \/ \E l \in Current : x \in l.ranges
    BY <1>a, <2>1, <2>2, <2>3 DEF PresentTable
  <2>5. j \in Current /\ j.table = Tables[tg.i]
    BY <1>0, <2>1, <2>2 DEF JobsInTime, Current, JobsOfTable
  <2>6. j.ranges \subseteq mem[cur][Tables[tg.i]]
    BY <2>1, <2>2, <2>5 DEF ResultsRecorded
  <2>7. Current' = Current \ {j}
    BY <2>1 DEF Current
  <2>8. QED  BY <2>1, <2>3, <2>4, <2>6, <2>7
<1>9. QED  BY <1>1, <1>2, <1>3, <1>4, <1>5, <1>6, <1>7, <1>8, Kinds DEF Generator

LEMMA PastTablesKept ==
  ASSUME SamePlans, ControlInv, JobsOfTable, PresentTable, PastTables, [Next]_vars PROVE PastTables'
<1>0. RunTypes /\ JobTypesOk /\ JobsInTime /\ Tables \in Seq(TableSet)
  BY RepairAssumption DEF ControlInv
<1>1. CASE QuietAction
  BY <1>1, Quiet DEF PastTables
<1>2. CASE OutsideAction
  BY <1>2, Outside DEF PastTables, Running
<1>3. CASE WorkerAction
  <2>1. UNCHANGED <<cur, pc, tg, err, stop>> /\ (Running' <=> Running) /\ (Running => cur \in RunIds)
    BY <1>0, <1>3, WorkerStep DEF Running, RunTypes
  <2>2. \A i \in DOMAIN Tables : Tables[i] \in TableSet
    BY DEF TableSet
  <2>3. Running => \A i \in DOMAIN Tables : mem[cur][Tables[i]] \subseteq mem'[cur][Tables[i]]
    BY <1>0, <1>3, <2>1, <2>2, WorkerStep
  <2>4. \A i : Planned(Tables[i])' = Planned(Tables[i])
    BY DEF Planned
  <2>5. QED  BY <2>1, <2>3, <2>4 DEF PastTables
<1>4. CASE Setup
  <2>1. pc' = "tables" /\ tg'.i = 1
    BY <1>4 DEF Setup, NoTable
  <2>2. \A i \in DOMAIN Tables : i \in Nat /\ ~(i < 1)
    BY <1>0
  <2>3. QED  BY <2>1, <2>2 DEF PastTables
<1>5. CASE NextTable
  <2>1. UNCHANGED <<cur, mem, err, stop>> /\ pc = "tables" /\ pc' \in {"tables", "generate"} /\ Running
    BY <1>5 DEF NextTable, Running
  <2>2. CASE tg'.i = tg.i
    BY <2>1, <2>2 DEF PastTables
  <2>3. CASE tg'.i # tg.i
    <3>1. PICK t : t = Tables[tg.i]
      OBVIOUS
    <3>2. TodoRanges(t) = {} /\ tg' = [tg EXCEPT !.i = @ + 1]
      BY <1>5, <2>3, <3>1 DEF NextTable
    <3>3. Planned(t) \subseteq mem[cur][t]
      BY <3>2, PlannedRanges DEF TodoRanges, SamePlans
    <3>4. tg.i \in Nat /\ tg'.i = tg.i + 1
      BY <1>0, <3>2 DEF RunTypes, TableState
    <3>5. \A i \in DOMAIN Tables : i < tg'.i => i < tg.i \/ i = tg.i
      BY <1>0, <3>4
    <3>6. QED  BY <2>1, <3>1, <3>3, <3>4, <3>5 DEF PastTables
  <2>4. QED  BY <2>2, <2>3
<1>6. CASE DescribeFails
  BY <1>6 DEF DescribeFails, PastTables, Running
<1>7. CASE Close
  BY <1>7 DEF Close, PastTables, Running
<1>8. CASE TableDone
  <2>1. /\ UNCHANGED <<cur, mem, err, stop>> /\ pc = "wait" /\ pc' = "tables" /\ Running /\ tg'.i = tg.i + 1 /\ tg.i \in Nat
        /\ tg.i \in DOMAIN Tables
    BY <1>0, <1>8 DEF TableDone, Running, NoTable, RunTypes, TableState
  <2>2. SUFFICES ASSUME ~stop, ~err PROVE Planned(Tables[tg.i]) \subseteq mem[cur][Tables[tg.i]]
    <3>1. \A i \in DOMAIN Tables : i < tg'.i => i < tg.i \/ i = tg.i
      BY <1>0, <2>1
    <3>2. QED  BY <2>1, <2>2, <3>1 DEF PastTables
  <2>3. shouldExit
    BY <1>8, <2>1, <2>2 DEF TableDone, JobsOfTable
  <2>4. Current = {} /\ tg.todo = {}
    BY <2>1, <2>2, <2>3, NotBusy DEF shouldExit, shouldGenerate
  <2>5. QED  BY <2>1, <2>2, <2>4 DEF PresentTable
<1>9. CASE Generate \/ GenerateNoMore
  <2>1. UNCHANGED <<cur, mem, err, stop>> /\ pc' \in {"generate", "wait"} /\ Running
    BY <1>9 DEF Generate, GenerateNoMore, Running
  <2>2. tg'.i = tg.i
    BY <1>0, <1>9, GenerateJob DEF GenerateNoMore, RunTypes, TableState
  <2>3. QED  BY <2>1, <2>2 DEF PastTables
<1>10. ASSUME NEW j \in jobs, ProcessResult(j) PROVE PastTables'
  <2>1. UNCHANGED <<cur, mem>> /\ pc' = "generate" /\ Running /\ tg'.i = tg.i
    BY <1>0, <1>10 DEF ProcessResult, Running, RunTypes, TableState
  <2>2. ~stop' /\ ~err' => ~stop /\ ~err
    BY <1>10, Zenon DEF ProcessResult
  <2>3. QED  BY <2>1, <2>2 DEF PastTables
<1>11. QED  BY <1>1, <1>2, <1>3, <1>4, <1>5, <1>6, <1>7, <1>8, <1>9, <1>10, Kinds DEF Generator

-----------------------------------------------------------------------------
(* What is recorded is repaired. *)
LEMMA RunOfJob == ASSUME RunTypes, JobTypesOk, NEW j \in jobs PROVE j.run \in RunIds /\ j.table \in TableSet /\ j \in JobState
BY RepairAssumption DEF JobTypesOk, JobState, RunTypes, RunIds

LEMMA StaysHonest ==
  ASSUME ControlInv, HistTypes, JobsHonest, [Next]_vars, NEW j \in jobs PROVE Honest(j)'
<1>0. RunTypes /\ JobTypesOk /\ JobsInTime /\ j.run \in RunIds /\ j.table \in TableSet
  BY RunOfJob DEF ControlInv
<1>1. since'[j.run] = since[j.run]
  <2>1. InitState => j.run # cur
    BY <1>0 DEF InitState, JobsInTime, Current
  <2>2. QED  BY <1>0, <2>1, HistKept
<1>2. since[j.run] \in RunIds
  BY <1>0 DEF HistTypes
<1>3. deleted \subseteq deleted' /\ repaired[since[j.run]][j.table] \subseteq repaired'[since'[j.run]][j.table]
  BY <1>0, <1>1, <1>2, HistKept
<1>4. QED  BY <1>3 DEF JobsHonest, Honest, Effect

LEMMA JobsHonestKept ==
  ASSUME ControlInv, HistTypes, JobsHonest, TypeOfJobs, [Next]_vars PROVE JobsHonest'
<1>0. RunTypes /\ JobTypesOk /\ JobsInTime
  BY DEF ControlInv
<1>1. CASE WorkerAction
  <2>1. PICK j \in jobs : Take(j) \/ RepairOk(j) \/ RepairFails(j) \/ OnJobEnd(j)
    BY <1>1 DEF WorkerAction
  <2>2. CASE OnJobEnd(j) /\ ~Mine(j)
    BY <2>2, StaysHonest DEF OnJobEnd, JobsHonest
  <2>3. CASE ~(OnJobEnd(j) /\ ~Mine(j))
    <3>1. PICK k \in JobState :
            /\ SameJob(j, k) /\ Moved(j, k)
            /\ \/ Take(j) /\ j.stage = "queued" /\ k.stage = "handled" /\ k.err = j.err
               \/ RepairOk(j) /\ j.stage = "handled" /\ k.stage = "answered" /\ k.err = j.err
               \/ RepairFails(j) /\ j.stage = "handled" /\ k.stage = "answered" /\ k.err = "deleted" /\ j.table \in deleted
               \/ RepairFails(j) /\ j.stage = "handled" /\ k.stage = "answered" /\ k.err = "error"
               \/ OnJobEnd(j) /\ Mine(j) /\ j.stage = "answered" /\ k.stage = "result" /\ k.err = j.err
      BY <1>0, <2>1, <2>3, WorkerMoves
    <3>2. Honest(j)' /\ Honest(j) /\ deleted \subseteq deleted'
      BY <1>0, StaysHonest, HistKept DEF JobsHonest
    <3>3. RepairOk(j) /\ j.type # "skip" => Effect(j) \subseteq repaired'[since'[j.run]][j.table]
      BY <1>0, RepairOkHist
    <3>4. Honest(k)'
      BY <3>1, <3>2, <3>3 DEF Honest, SameJob, Effect
    <3>5. QED  BY <3>1, <3>4, StaysHonest DEF Moved, JobsHonest
  <2>4. QED  BY <2>2, <2>3
<1>2. CASE Generate
  <2>1. PICK k \in JobState : /\ jobs' = jobs \cup {k} /\ k.table = Tables[tg.i] /\ k.type = tg.type
                              /\ k.stage = "queued" /\ k.err = "nil"
    BY <1>0, <1>2, GenerateJob
  <2>2. pc = "generate" /\ ~stop /\ UNCHANGED deleted
    BY <1>2 DEF Generate, shouldGenerate, database
  <2>3. Honest(k)'
    BY <2>1, <2>2 DEF TypeOfJobs, Honest
  <2>4. QED  BY <2>1, <2>3, StaysHonest DEF JobsHonest
<1>3. CASE ~WorkerAction /\ ~Generate
  <2>1. jobs' \subseteq jobs
    BY <1>3 DEF Next, Repair, Generator, Workers, WorkerAction, Start, InitState, InitProgress, SetupFails, Setup, NextTable, DescribeFails, Close,
         GenerateNoMore, ProcessResult, TableDone, WorkerExits, SetParallel,
         Cancel, StopGenerating, GracefulStopTimeout, Finish, Crash, DeleteTable, vars
  <2>2. QED  BY <2>1, StaysHonest DEF JobsHonest
<1>4. QED  BY <1>1, <1>2, <1>3

(* The table the generator is at exists: none of its jobs found it dropped. *)
LEMMA NotDropped ==
  ASSUME ControlInv, JobsOfTable, JobsHonest, NEW j \in jobs, ProcessResult(j), ~stop', Tables[tg.i] \notin deleted PROVE tg' = tg
<1>1. ~stop /\ Running /\ pc = "wait" /\ j.stage = "result"
  <2>1. stop' = (stop \/ (j.err = "error" /\ target.failFast))
    BY DEF ProcessResult
  <2>2. ~stop
    BY <2>1, Zenon
  <2>3. QED  BY <2>2 DEF ProcessResult, Running
<1>2. j \in Current
  BY <1>1 DEF ControlInv, JobsInTime, Current
<1>3. j.table = Tables[tg.i]
  BY <1>1, <1>2 DEF JobsOfTable
<1>4. j.err # "deleted"
  BY <1>3 DEF JobsHonest, Honest
<1>5. QED  BY <1>4 DEF ProcessResult

LEMMA TypeOfJobsKept ==
  ASSUME SamePlans, ControlInv, HistTypes, JobsOfTable, PlanKnown, JobsHonest, TypeOfJobs, [Next]_vars PROVE TypeOfJobs'
<1>0. RunTypes /\ JobTypesOk /\ JobsInTime /\ deleted \subseteq deleted'
  BY HistKept DEF ControlInv
<1>a. SUFFICES ASSUME pc' \in {"generate", "wait"}, ~stop', Tables[tg'.i] \notin deleted' PROVE TypeOfJobs'
  BY DEF TypeOfJobs
<1>1. CASE QuietAction
  BY <1>0, <1>1, <1>a, Quiet DEF TypeOfJobs
<1>2. CASE OutsideAction
  BY <1>2, <1>a, Outside DEF Running
<1>3. CASE WorkerAction
  <2>1. UNCHANGED <<cur, pc, tg, stop>> /\ cur \in RunIds /\ Tables[tg.i] \in TableSet /\ Tables[tg.i] \notin deleted
    BY <1>0, <1>3, <1>a, WorkerStep DEF RunTypes, TableSet
  <2>2. ASSUME tg.type = "small" PROVE Current' = {} /\ tg.todo \cap mem'[cur][Tables[tg.i]] = {}
    <3>1. Current = {} /\ tg.todo \cap mem[cur][Tables[tg.i]] = {}
      BY <1>a, <2>1, <2>2 DEF TypeOfJobs
    <3>2. Current' = {}
      BY <1>0, <1>3, <2>1, <3>1, WorkerStep DEF Current, SameJob
    <3>3. PICK j \in jobs : Take(j) \/ RepairOk(j) \/ RepairFails(j) \/ OnJobEnd(j)
      BY <1>3 DEF WorkerAction
    <3>4. j.run # cur
      BY <3>1 DEF Current
    <3>5. mem'[cur] = mem[cur]
      <4>1. CASE OnJobEnd(j)
        BY <1>0, <2>1, <3>4, <4>1, OnJobEndRows
      <4>2. CASE ~OnJobEnd(j)
        BY <3>3, <4>2 DEF Take, RepairOk, RepairFails
      <4>3. QED  BY <4>1, <4>2
    <3>6. QED  BY <3>1, <3>2, <3>5
  <2>3. QED  BY <1>a, <2>1, <2>2 DEF TypeOfJobs
<1>4. CASE Setup \/ DescribeFails \/ Close \/ TableDone
  BY <1>4, <1>a DEF Setup, DescribeFails, Close, TableDone
<1>5. CASE NextTable
  <2>1. PICK t : t = Tables[tg.i]
    OBVIOUS
  <2>2. /\ tg' = [i |-> tg.i, todo |-> TodoRanges(t), type |-> NewJobType(t)] /\ UNCHANGED <<mem, cur, jobs>>
        /\ pc = "tables" /\ ~stop /\ Running
    BY <1>5, <1>a, <2>1 DEF NextTable, Running
  <2>3. tg'.i = tg.i /\ tg'.todo = Ranges \ mem[cur][t] /\ tg'.type = IF t \in Small THEN "small" ELSE "normal"
    BY <2>2 DEF TodoRanges, NewJobType, SamePlans, PlanKnown
  <2>4. Current' = {}
    BY <2>2 DEF JobsOfTable, Current
  <2>5. QED  BY <2>1, <2>2, <2>3, <2>4 DEF TypeOfJobs
<1>6. CASE Generate
  <2>1. tg'.i = tg.i /\ tg'.type = IF tg.type \in {"small", "tablet"} THEN "skip" ELSE tg.type
    BY <1>0, <1>6, GenerateJob
  <2>2. pc = "generate" /\ ~stop /\ UNCHANGED deleted
    BY <1>6 DEF Generate, shouldGenerate, database
  <2>3. QED  BY <1>a, <2>1, <2>2 DEF TypeOfJobs
<1>7. CASE GenerateNoMore
  <2>1. /\ UNCHANGED <<mem, cur, stop, jobs, deleted>> /\ pc = "generate"
        /\ tg'.i = tg.i /\ tg'.type = tg.type /\ tg'.todo \subseteq tg.todo
    BY <1>0, <1>7 DEF GenerateNoMore, RunTypes, TableState, database
  <2>2. Current' = Current
    BY <2>1 DEF Current
  <2>3. QED  BY <1>a, <2>1, <2>2 DEF TypeOfJobs
<1>8. ASSUME NEW j \in jobs, ProcessResult(j) PROVE TypeOfJobs'
  <2>1. UNCHANGED <<mem, cur, deleted>> /\ pc = "wait" /\ Current' \subseteq Current /\ tg'.i = tg.i
    BY <1>0, <1>8 DEF ProcessResult, Current, database, RunTypes, TableState
  <2>2. tg' = tg
    BY <1>8, <1>a, <2>1, NotDropped
  <2>3. ~stop
    <3>1. stop' = (stop \/ (j.err = "error" /\ target.failFast))
      BY <1>8 DEF ProcessResult
    <3>2. QED  BY <1>a, <3>1, Zenon
  <2>4. QED  BY <1>a, <2>1, <2>2, <2>3 DEF TypeOfJobs
<1>9. QED  BY <1>1, <1>2, <1>3, <1>4, <1>5, <1>6, <1>7, <1>8, Kinds DEF Generator

LEMMA NormalKeptKept ==
  ASSUME ControlInv, HistTypes, JobsHonest, NormalKept, [Next]_vars PROVE NormalKept'
<1>0. RunTypes /\ JobTypesOk /\ deleted \subseteq deleted'
  BY HistKept DEF ControlInv
<1>1. SUFFICES ASSUME NEW t \in TableSet \ (Small \cup deleted'), NEW r \in RunIds
               PROVE  mem'[r][t] \subseteq repaired'[since'[r]][t] /\ rows'[r].state[t] \subseteq repaired'[since'[r]][t]
  BY DEF NormalKept
<1>2. /\ t \in TableSet \ (Small \cup deleted) /\ since[r] \in RunIds
      /\ mem[r][t] \subseteq repaired[since[r]][t] /\ rows[r].state[t] \subseteq repaired[since[r]][t]
  BY <1>0 DEF NormalKept, HistTypes
<1>3. since'[r] = since[r] => repaired[since[r]][t] \subseteq repaired'[since'[r]][t]
  BY <1>0, <1>2, HistKept
<1>4. CASE InitState
  <2>1. cur \in RunIds /\ UNCHANGED repaired
    BY <1>0, <1>4 DEF InitState, RunTypes
  <2>2. PICK g \in 0 .. (cur - 1), st \in States :
           /\ st = IF g = 0 THEN NoRanges ELSE rows[g].state
           /\ mem' = [mem EXCEPT ![cur] = st]
           /\ \A x \in RunIds : x # cur => rows'[x] = rows[x]
           /\ rows'[cur].state = st
           /\ since' = [since EXCEPT ![cur] = IF g = 0 THEN cur ELSE since[g]]
    BY <1>0, <1>4, InitStateRows
  <2>3. CASE r # cur
    BY <1>0, <1>2, <2>1, <2>2, <2>3 DEF RunTypes, HistTypes
  <2>4. CASE r = cur
    <3>1. mem'[r] = st /\ rows'[r].state = st /\ since'[r] = IF g = 0 THEN cur ELSE since[g]
      BY <1>0, <2>1, <2>2, <2>4 DEF RunTypes, HistTypes
    <3>2. CASE g = 0
      <4>1. st[t] = {}
        BY <2>2, <3>2 DEF NoRanges
      <4>2. QED  BY <3>1, <4>1
    <3>3. CASE g # 0
      <4>1. g \in RunIds
        BY <2>1, <3>3, RepairAssumption DEF RunIds
      <4>2. QED  BY <1>2, <2>1, <2>2, <3>1, <3>3, <4>1 DEF NormalKept
    <3>4. QED  BY <3>2, <3>3
  <2>5. QED  BY <2>3, <2>4
<1>5. ASSUME NEW j \in jobs, OnJobEnd(j)
      PROVE  mem'[r][t] \subseteq repaired'[since'[r]][t] /\ rows'[r].state[t] \subseteq repaired'[since'[r]][t]
  <2>1. UNCHANGED <<repaired, since, deleted>> /\ j.stage = "answered"
    BY <1>5 DEF OnJobEnd, history
  <2>2. CASE r # j.run
    BY <1>0, <1>2, <1>5, <2>1, <2>2, OnJobEndRows
  <2>3. CASE r = j.run
    <3>1. ASSUME j.table = t, j.err # "error" PROVE j.ranges \subseteq repaired[since[r]][t]
      <4>1. j.err = "nil" /\ j.type = "normal"
        BY <1>0, <1>2, <3>1, RunOfJob DEF JobsHonest, Honest, JobState
      <4>2. QED  BY <1>2, <2>1, <2>3, <3>1, <4>1 DEF JobsHonest, Honest, Effect
    <3>2. mem'[r][t] \subseteq repaired[since[r]][t]
      BY <1>0, <1>2, <1>5, <2>3, <3>1, OnJobEndRows
    <3>3. QED  BY <1>0, <1>2, <1>5, <2>1, <2>3, <3>2, OnJobEndRows
  <2>4. QED  BY <2>2, <2>3
<1>6. CASE ~InitState /\ \A j \in jobs : ~OnJobEnd(j)
  <2>1. since'[r] = since[r]
    BY <1>0, <1>6, HistKept
  <2>2. mem'[r][t] \subseteq mem[r][t] /\ rows'[r].state = rows[r].state
    BY <1>0, <1>2, <1>6, MemShrinks
  <2>3. QED  BY <1>2, <1>3, <2>1, <2>2
<1>7. QED  BY <1>4, <1>5, <1>6

LEMMA HoleStays ==
  ASSUME NEW r \in RunIds, NEW t \in TableSet, NEW x, Hole(r, t, x), x \notin mem'[r][t], x \notin rows'[r].state[t],
         \A l \in jobs' : l.run = r /\ l.table = t /\ l.type # "small" /\ x \in l.ranges => \E m \in jobs : SameJob(m, l),
         r = cur' /\ pc' \in {"generate", "wait"} /\ ~stop' /\ Tables[tg'.i] = t /\ tg'.type = "skip" /\ x \in tg'.todo
           => r = cur /\ pc \in {"generate", "wait"} /\ ~stop /\ Tables[tg.i] = t /\ tg.type = "skip" /\ tg'.todo \subseteq tg.todo
  PROVE  Hole(r, t, x)'
BY DEF Hole, SameJob

(* A run that starts from scratch has nothing of a table. *)
LEMMA InitStateSmall ==
  ASSUME ControlInv, HistTypes, SmallKept, InitState, NEW t \in TableSet, t \notin deleted, t \in Small, NEW r \in RunIds
  PROVE  Planned(t) \subseteq repaired'[since'[r]][t] \/ \E x \in Planned(t) : Hole(r, t, x)'
<1>0. RunTypes /\ JobTypesOk /\ JobsInTime
  BY DEF ControlInv
<1>1. cur \in RunIds /\ UNCHANGED <<repaired, cur, jobs>> /\ pc' = "state" /\ pc = "plan"
  BY <1>0 DEF InitState, RunTypes
<1>2. PICK g \in 0 .. (cur - 1), st \in States :
         /\ st = IF g = 0 THEN NoRanges ELSE rows[g].state
         /\ mem' = [mem EXCEPT ![cur] = st]
         /\ \A x \in RunIds : x # cur => rows'[x] = rows[x]
         /\ rows'[cur].state = st
         /\ since' = [since EXCEPT ![cur] = IF g = 0 THEN cur ELSE since[g]]
  BY <1>0, InitStateRows
<1>3. CASE r # cur
  <2>1. mem'[r] = mem[r] /\ rows'[r] = rows[r] /\ since'[r] = since[r]
    BY <1>0, <1>1, <1>2, <1>3 DEF RunTypes, HistTypes
  <2>2. \A x : Hole(r, t, x) => Hole(r, t, x)'
    BY <1>1, <1>3, <2>1 DEF Hole
  <2>3. QED  BY <1>1, <2>1, <2>2 DEF SmallKept
<1>4. CASE r = cur
  <2>1. mem'[r] = st /\ rows'[r].state = st /\ since'[r] = IF g = 0 THEN cur ELSE since[g]
    BY <1>0, <1>1, <1>2, <1>4 DEF RunTypes, HistTypes
  <2>2. \A j \in jobs : j.run # cur
    BY <1>0, <1>1 DEF JobsInTime, Current
  <2>3. \A x : x \notin st[t] => Hole(r, t, x)'
    BY <1>1, <1>4, <2>1, <2>2 DEF Hole
  <2>4. CASE g = 0
    <3>1. st[t] = {}
      BY <1>2, <2>4 DEF NoRanges
    <3>2. QED  BY <2>3, <3>1
  <2>5. CASE g # 0
    <3>1. g \in RunIds
      BY <1>1, <2>5, RepairAssumption DEF RunIds
    <3>2. \A x : Hole(g, t, x) => x \notin st[t]
      BY <1>2, <2>5 DEF Hole
    <3>3. Planned(t) \subseteq repaired[since[g]][t] \/ \E x \in Planned(t) : Hole(g, t, x)
      BY <3>1 DEF SmallKept
    <3>4. QED  BY <1>1, <2>1, <2>3, <2>5, <3>2, <3>3
  <2>6. QED  BY <2>4, <2>5
<1>5. QED  BY <1>3, <1>4

LEMMA OnJobEndSmall ==
  ASSUME ControlInv, HistTypes, JobsHonest, SmallKept, NEW j \in jobs, OnJobEnd(j),
         NEW t \in TableSet, t \notin deleted, t \in Small, NEW r \in RunIds
  PROVE  Planned(t) \subseteq repaired'[since'[r]][t] \/ \E x \in Planned(t) : Hole(r, t, x)'
<1>0. RunTypes /\ JobTypesOk /\ j \in JobState
  BY RunOfJob DEF ControlInv
<1>1. UNCHANGED <<repaired, since, cur, pc, tg, stop>> /\ j.stage = "answered"
  BY DEF OnJobEnd, history
<1>2. CASE Planned(t) \subseteq repaired[since[r]][t]
  BY <1>1, <1>2
<1>3. CASE ~(Planned(t) \subseteq repaired[since[r]][t])
  <2>1. PICK x \in Planned(t) : Hole(r, t, x)
    BY <1>3 DEF SmallKept
  <2>2. ASSUME r = j.run, t = j.table, j.err # "error" PROVE x \notin j.ranges
    <3>1. j.err = "nil" /\ j.type # "normal"
      BY <1>0, <2>2 DEF JobsHonest, Honest, JobState
    <3>2. CASE j.type = "small"
      <4>1. Effect(j) = Ranges /\ Effect(j) \subseteq repaired[since[r]][t]
        BY <1>1, <2>2, <3>1, <3>2 DEF JobsHonest, Honest, Effect
      <4>2. QED  BY <1>3, <4>1, PlannedRanges
    <3>3. CASE j.type # "small"
      BY <2>1, <2>2, <3>3 DEF Hole
    <3>4. QED  BY <3>2, <3>3
  <2>3. x \notin mem[r][t] /\ x \notin rows[r].state[t]
    BY <2>1 DEF Hole
  <2>4. x \notin mem'[r][t]
    <3>1. CASE r = j.run
      <4>1. mem'[r][t] = IF t = j.table /\ j.err # "error" THEN mem[r][t] \cup j.ranges ELSE mem[r][t]
        BY <1>0, <3>1, OnJobEndRows
      <4>2. QED  BY <2>2, <2>3, <3>1, <4>1
    <3>2. CASE r # j.run
      BY <1>0, <2>3, <3>2, OnJobEndRows
    <3>3. QED  BY <3>1, <3>2
  <2>5. x \notin rows'[r].state[t]
    BY <1>0, <2>3, <2>4, OnJobEndRows
  <2>6. \A l \in jobs' : \E m \in jobs : SameJob(m, l)
    BY <1>0, WorkerStep DEF WorkerAction
  <2>7. Hole(r, t, x)'
    BY <1>1, <2>1, <2>4, <2>5, <2>6, HoleStays
  <2>8. QED  BY <2>7
<1>4. QED  BY <1>2, <1>3

LEMMA GenerateSmall ==
  ASSUME ControlInv, HistTypes, JobsOfTable, RowBehind, TypeOfJobs, SmallKept, Generate,
         NEW t \in TableSet, t \notin deleted, t \in Small, NEW r \in RunIds
  PROVE  Planned(t) \subseteq repaired'[since'[r]][t] \/ \E x \in Planned(t) : Hole(r, t, x)'
<1>0. RunTypes /\ JobTypesOk
  BY DEF ControlInv
<1>1. UNCHANGED <<repaired, since, cur, pc, stop, mem, rows>> /\ pc = "generate" /\ ~stop /\ Running /\ HasState
  BY DEF Generate, history, database, shouldGenerate, Running, HasState
<1>2. PICK rs \in ReplicaSets, k \in JobState :
           /\ Replicas[rs] # {} /\ jobs' = jobs \cup {k}
           /\ k.run = cur /\ k.table = Tables[tg.i] /\ k.type = tg.type
           /\ k.ranges # {} /\ k.ranges \subseteq RangesOf[rs] \cap tg.todo
           /\ tg'.i = tg.i /\ tg'.todo = tg.todo \ k.ranges
           /\ tg'.type = IF tg.type \in {"small", "tablet"} THEN "skip" ELSE tg.type
  BY <1>0, GenerateJob
<1>3. CASE Planned(t) \subseteq repaired[since[r]][t]
  BY <1>1, <1>3
<1>4. CASE r = cur /\ Tables[tg.i] = t /\ tg.type = "small"
  <2>1. Current = {} /\ tg.todo \cap mem[cur][t] = {}
    BY <1>1, <1>4 DEF TypeOfJobs
  <2>2. PICK x \in k.ranges : TRUE
    BY <1>2
  <2>3. x \in Planned(t)
    BY <1>2, <2>2 DEF Planned
  <2>4. x \notin mem[cur][t] /\ x \notin rows[cur].state[t]
    BY <1>1, <1>2, <2>1, <2>2 DEF RowBehind
  <2>5. \A l \in jobs' : l.run = cur => l.type = "small"
    BY <1>2, <1>4, <2>1 DEF Current
  <2>6. x \notin tg'.todo
    BY <1>2, <2>2
  <2>7. Hole(r, t, x)'
    BY <1>1, <1>4, <2>4, <2>5, <2>6 DEF Hole
  <2>8. QED  BY <2>3, <2>7
<1>5. CASE ~(Planned(t) \subseteq repaired[since[r]][t]) /\ ~(r = cur /\ Tables[tg.i] = t /\ tg.type = "small")
  <2>1. PICK x \in Planned(t) : Hole(r, t, x)
    BY <1>5 DEF SmallKept
  <2>2. r = cur /\ Tables[tg.i] = t => tg.type = "skip"
    <3>1. tg.type \in JobTypes
      BY <1>0 DEF RunTypes, TableState
    <3>2. QED  BY <1>1, <1>5, <3>1 DEF TypeOfJobs, JobTypes
  <2>3. r = cur /\ Tables[tg.i] = t => x \notin tg.todo /\ x \notin k.ranges
    BY <1>1, <1>2, <2>1, <2>2 DEF Hole
  <2>4. x \notin mem[r][t] /\ x \notin rows[r].state[t]
    BY <2>1 DEF Hole
  <2>5. \A l \in jobs' : l.run = r /\ l.table = t /\ l.type # "small" => x \notin l.ranges
    BY <1>2, <2>1, <2>3 DEF Hole
  <2>6. Hole(r, t, x)'
    BY <1>1, <1>2, <2>3, <2>4, <2>5 DEF Hole
  <2>7. QED  BY <2>6
<1>6. QED  BY <1>3, <1>4, <1>5

LEMMA SmallKeptKept ==
  ASSUME SamePlans, ControlInv, HistTypes, JobsOfTable, RowBehind, PlanKnown, JobsHonest, TypeOfJobs, SmallKept, [Next]_vars
  PROVE  SmallKept'
<1>0. RunTypes /\ JobTypesOk /\ JobsInTime /\ deleted \subseteq deleted'
  BY HistKept DEF ControlInv
<1>1. SUFFICES ASSUME NEW t \in TableSet \ deleted', NEW r \in RunIds, t \in Small
               PROVE  Planned(t) \subseteq repaired'[since'[r]][t] \/ \E x \in Planned(t) : Hole(r, t, x)'
  BY DEF SmallKept, Planned
<1>2. t \in TableSet /\ t \notin deleted /\ since[r] \in RunIds
  BY <1>0 DEF HistTypes
<1>3. CASE InitState
  BY <1>1, <1>2, <1>3, InitStateSmall
<1>4. CASE \E j \in jobs : OnJobEnd(j)
  BY <1>1, <1>2, <1>4, OnJobEndSmall
<1>5. CASE Generate
  BY <1>1, <1>2, <1>5, GenerateSmall
<1>6. CASE ~InitState /\ (\A j \in jobs : ~OnJobEnd(j)) /\ ~Generate
  <2>1. CASE Planned(t) \subseteq repaired[since[r]][t]
    <3>1. since'[r] = since[r] /\ repaired[since[r]][t] \subseteq repaired'[since[r]][t]
      BY <1>0, <1>2, <1>6, HistKept
    <3>2. QED  BY <2>1, <3>1
  <2>2. CASE ~(Planned(t) \subseteq repaired[since[r]][t])
    <3>1. PICK x \in Planned(t) : Hole(r, t, x)
      BY <1>1, <1>2, <2>2 DEF SmallKept
    <3>2. x \notin mem'[r][t] /\ x \notin rows'[r].state[t]
      BY <1>0, <1>2, <1>6, <3>1, MemShrinks DEF Hole
    <3>3. ASSUME NEW l \in jobs' PROVE \E m \in jobs : SameJob(m, l)
      <4>1. CASE WorkerAction
        BY <1>0, <4>1, WorkerStep
      <4>2. CASE ~WorkerAction
        <5>1. jobs' \subseteq jobs
          BY <1>6, <4>2 DEF Next, Repair, Generator, Workers, WorkerAction, Start, InitProgress, SetupFails, Setup, NextTable, DescribeFails,
             Close, GenerateNoMore, ProcessResult, TableDone, WorkerExits, SetParallel,
             Cancel, StopGenerating, GracefulStopTimeout, Finish, Crash, DeleteTable, vars
        <5>2. QED  BY <5>1 DEF SameJob
      <4>3. QED  BY <4>1, <4>2
    <3>4. ASSUME r = cur', pc' \in {"generate", "wait"}, ~stop', Tables[tg'.i] = t, tg'.type = "skip"
          PROVE  r = cur /\ pc \in {"generate", "wait"} /\ ~stop /\ Tables[tg.i] = t /\ tg.type = "skip" /\ tg'.todo \subseteq tg.todo
      <4>1. CASE QuietAction
        BY <3>4, <4>1, Quiet
      <4>2. CASE OutsideAction
        BY <3>4, <4>2, Outside DEF Running
      <4>3. CASE WorkerAction
        BY <1>0, <3>4, <4>3, WorkerStep
      <4>4. CASE Setup \/ DescribeFails \/ Close \/ TableDone
        BY <3>4, <4>4 DEF Setup, DescribeFails, Close, TableDone
      <4>5. CASE NextTable
        <5>1. tg'.type = NewJobType(Tables[tg.i])
          BY <3>4, <4>5 DEF NextTable
        <5>2. QED  BY <3>4, <5>1 DEF NewJobType
      <4>6. CASE GenerateNoMore
        BY <1>0, <3>4, <4>6 DEF GenerateNoMore, RunTypes, TableState
      <4>7. ASSUME NEW j \in jobs, ProcessResult(j)
            PROVE  r = cur /\ pc \in {"generate", "wait"} /\ ~stop /\ Tables[tg.i] = t /\ tg.type = "skip" /\ tg'.todo \subseteq tg.todo
        <5>1. UNCHANGED cur /\ pc = "wait" /\ tg'.i = tg.i /\ stop' = (stop \/ (j.err = "error" /\ target.failFast))
          BY <1>0, <4>7 DEF ProcessResult, RunTypes, TableState
        <5>2. ~stop
          BY <3>4, <5>1, Zenon
        <5>3. tg' = tg
          BY <1>2, <3>4, <4>7, <5>1, NotDropped
        <5>4. QED  BY <3>4, <5>1, <5>2, <5>3
      <4>8. QED  BY <1>6, <4>1, <4>2, <4>3, <4>4, <4>5, <4>6, <4>7, Kinds DEF Generator
    <3>5. Hole(r, t, x)'
      BY <1>2, <3>1, <3>2, <3>3, <3>4, HoleStays
    <3>6. QED  BY <3>5
  <2>3. QED  BY <2>1, <2>2
<1>7. QED  BY <1>3, <1>4, <1>5, <1>6

-----------------------------------------------------------------------------
LEMMA CompletionKept == ASSUME SamePlans, CompletionInv, [Next]_vars PROVE CompletionInv'
<1> USE DEF CompletionInv, NothingSkipped
<1>0. RunTypes /\ JobTypesOk
  BY DEF ControlInv
<1>1. ControlInv' /\ JobsOfTable' /\ RowBehind' /\ HistTypes' /\ PlanKnown'
  BY <1>0, ControlInvKept, JobsOfTableKept, RowBehindKept, HistKept, PlanKnownKept
<1>2. NothingSkipped'
  BY <1>0, StopHasCauseKept, PastTablesKept, PresentTableKept, ResultsRecordedKept
<1>3. JobsHonest' /\ TypeOfJobs' /\ NormalKept' /\ SmallKept'
  BY JobsHonestKept, TypeOfJobsKept, NormalKeptKept, SmallKeptKept
<1>4. QED  BY <1>1, <1>2, <1>3

LEMMA InitCompletion == ASSUME Init PROVE CompletionInv
<1>1. ControlInv /\ ~Running /\ jobs = {} /\ pc = "idle" /\ Current = {}
  BY InitControl DEF Init, Running, Current
<1>2. JobsOfTable /\ RowBehind /\ PlanKnown /\ NothingSkipped /\ JobsHonest /\ TypeOfJobs
  BY <1>1 DEF JobsOfTable, RowBehind, HasState, PlanKnown, NothingSkipped, StopHasCause, PastTables, PresentTable, ResultsRecorded,
              JobsHonest, TypeOfJobs
<1>3. HistTypes
  BY NoRangesOk DEF Init, HistTypes
<1>4. \A r \in RunIds, t \in TableSet : mem[r][t] = {} /\ rows[r].state[t] = {}
  BY DEF Init, NoRow, NoRanges
<1>5. NormalKept
  BY <1>4 DEF NormalKept
<1>6. \A r \in RunIds, t \in TableSet : \A x \in Planned(t) : Hole(r, t, x)
  BY <1>1, <1>4 DEF Hole
<1>7. SmallKept
  BY <1>6 DEF SmallKept
<1>8. QED  BY <1>1, <1>2, <1>3, <1>5, <1>7 DEF CompletionInv

(* CompletionInv is inductive: as long as the generator of repair (generator.go) neither failed nor  *)
(* stopped it is past recorded tables only, and what onJobEndState recorded of a table was repaired, *)
(* or a range is missing that the next run will find.                                                *)
THEOREM CompletionCorrect == ASSUME SamePlans PROVE Spec => []CompletionInv
<1>1. Init => CompletionInv
  BY InitCompletion
<1>2. CompletionInv /\ [Next]_vars => CompletionInv'
  BY CompletionKept
<1>3. QED  BY <1>1, <1>2, PTL DEF Spec

(* When Service.Repair sets EndTime, every planned range of every table that is left was repaired,   *)
(* by that run or by those it continued, whatever failed, crashed, was dropped or outlived its run   *)
(* before; of vnode keyspaces, when the plans of the continued runs agree on the small tables.       *)
THEOREM CompletedIsRepairedCorrect == ASSUME SamePlans PROVE Spec => CompletedIsRepaired
<1> DEFINE Done == \A r \in RunIds : ~rows[r].ended /\ rows'[r].ended =>
                     \A t \in TableSet \ deleted : Planned(t) \subseteq repaired[since[r]][t]
<1>1. CompletionInv /\ [Next]_vars => [Done]_vars
  <2>1. SUFFICES ASSUME CompletionInv, Next, NEW r \in RunIds, ~rows[r].ended, rows'[r].ended, NEW t \in TableSet \ deleted
                 PROVE  Planned(t) \subseteq repaired[since[r]][t]
    OBVIOUS
  <2>2. /\ ControlInv /\ RunTypes /\ JobTypesOk /\ StopHasCause /\ PastTables /\ NormalKept /\ SmallKept
        /\ tg.i \in Nat /\ Tables \in Seq(TableSet)
    BY <2>1, RepairAssumption DEF CompletionInv, NothingSkipped, ControlInv, RunTypes, TableState
  <2>3. Finish /\ r = cur /\ ~err /\ ctx = "live"
    <3>1. CASE Start
      BY <2>1, <2>2, <3>1, StartRows
    <3>2. CASE InitState
      BY <2>1, <2>2, <3>2, InitStateRows
    <3>3. CASE InitProgress \/ SetupFails
      BY <2>1, <2>2, <3>3, InitializedRows
    <3>4. CASE \E j \in jobs : OnJobEnd(j)
      BY <2>1, <2>2, <3>4, OnJobEndRows
    <3>5. CASE Finish
      BY <2>1, <2>2, <3>5, FinishRows
    <3>6. CASE \E p \in Controls : SetParallel(p)
      BY <2>1, <2>2, <3>6, SetParallelRows
    <3>7. CASE UNCHANGED rows
      BY <2>1, <3>7
    <3>8. QED
      BY <2>1, <3>1, <3>2, <3>3, <3>4, <3>5, <3>6, <3>7 DEF Next, Repair, Generator, Workers, Setup, NextTable, DescribeFails, Close,
         Generate, GenerateNoMore, ProcessResult, TableDone, Take, RepairOk, RepairFails, WorkerExits,
         Cancel, StopGenerating, GracefulStopTimeout, Crash, DeleteTable, database
  <2>4. Running /\ pc = "closing" /\ ~stop
    BY <2>2, <2>3 DEF Finish, Running, StopHasCause
  <2>5. tg.i \notin DOMAIN Tables /\ tg.i # 0
    BY <2>2, <2>3, <2>4 DEF PastTables
  <2>6. Planned(t) \subseteq mem[r][t]
    <3>1. PICK i \in DOMAIN Tables : t = Tables[i]
      BY DEF TableSet
    <3>2. i < tg.i
      BY <2>2, <2>5
    <3>3. QED  BY <2>2, <2>3, <2>4, <3>1, <3>2 DEF PastTables
  <2>7. CASE t \notin Small
    BY <2>2, <2>6, <2>7 DEF NormalKept
  <2>8. CASE t \in Small
    BY <2>2, <2>6, <2>8 DEF SmallKept, Hole
  <2>9. QED  BY <2>7, <2>8
<1>2. QED  BY <1>1, CompletionCorrect, PTL DEF Spec, CompletedIsRepaired, Done
=============================================================================
