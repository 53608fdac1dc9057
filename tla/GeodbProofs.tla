---------------------------- MODULE GeodbProofs -----------------------------
(***************************************************************************)
(* Geodb for any number of variables, scenes, steps, generations, failures  *)
(* and plans: a reader's scenes are whole; the scenes of the tile are a log *)
(* that implements SceneLog; the steps of the weather source are another,   *)
(* several at a time; and so both logs of the database; where no plan tears *)
(* them, the statistics that are read are of their scenes, and the samples  *)
(* of their steps, an append that failed can be done again, and a reader of *)
(* the parcels before the last misses nothing; and all of the state keeps   *)
(* its type.                                                                *)
(***************************************************************************)
EXTENDS Geodb, SequenceTheorems, TLAPS

(* Rows that begin with the times there are.                                *)
Begins(rows, with) ==
  /\ rows \in Seq(Time) /\ with \in Seq(Time)
  /\ Len(with) <= Len(rows)
  /\ \A i \in 1 .. Len(with) : rows[i] = with[i]

(* Every array has what was committed.                                      *)
Whole == \A v \in Vars : Begins(scenes[v], times)

(* The arrays of a snapshot are as long as its times.                       *)
LongEnough(snap) == \A v \in Vars : snap.shape[v] \in Nat /\ Len(snap.times) <= snap.shape[v]

Snapshots ==
  /\ Begins(times, state.times) /\ LongEnough(state)
  /\ Begins(times, tileSnap.times) /\ LongEnough(tileSnap)

(* What Refresh has read so far.                                            *)
Refreshing ==
  /\ DOMAIN refresh = {"pc", "set", "found", "parcels"}
  /\ DOMAIN tileNew = DOMAIN NoTile
  /\ Begins(times, tileNew.times)
  /\ refresh.pc \in {"arrays", "index", "stats"} => Len(tileSnap.times) <= Len(tileNew.times)
  /\ refresh.pc \in {"index", "stats"} => LongEnough(tileNew)

(* The goroutine that appends scenes: where a scene that is appended comes  *)
(* from, and that what it knows of the times is what there is.              *)
Job ==
  LET j == job["scenes"] IN
  /\ DOMAIN job = Threads /\ DOMAIN j = DOMAIN Idle
  /\ j.k \in Vars /\ j.next \in {"end", "behind", "check"}
  /\ j.pc = "idle" => j = Idle
  /\ j.next = "check" => j.row \in Time
  /\ j.pc \in {"check", "cut", "put", "cutStats", "putStats", "commit"} => j.row \in Time
  /\ j.row \in Time \cup {0}
  /\ j.pc \notin {"idle", "filled", "end"} => state.times = times

(* The row of the scene that is appended follows the times in an array.     *)
HasRow(v) == Len(times) < Len(scenes[v]) /\ scenes[v][Len(times) + 1] = job["scenes"].row

Appending ==
  LET j == job["scenes"] IN
  /\ j.pc \in {"cut", "put", "cutStats", "putStats"} => \A v \in Vars : v < j.k => HasRow(v)
  /\ j.pc = "put" => Len(scenes[j.k]) = Len(times)
  /\ j.pc \in {"cutStats", "putStats"} => HasRow(j.k)
  /\ j.pc = "commit" => \A v \in Vars : HasRow(v)

TileInv == (scenes \in [Vars -> Seq(Time)]) /\ Whole /\ Snapshots /\ Refreshing /\ Job /\ Appending
-----------------------------------------------------------------------------
(* What begins with the times does so cut back to them, with a row more,    *)
(* and, if that row is the next time, with the time more.                   *)
LEMMA BeginsItself ==
  ASSUME NEW rows \in Seq(Time)
  PROVE  Begins(rows, rows)
BY LenProperties DEF Begins

LEMMA BeginsTogether ==
  ASSUME NEW rows, NEW mid, NEW with, Begins(rows, mid), Begins(mid, with)
  PROVE  Begins(rows, with)
BY LenProperties DEF Begins

LEMMA BeginsCut ==
  ASSUME NEW rows, NEW with, Begins(rows, with)
  PROVE  /\ Begins(SubSeq(rows, 1, Len(with)), with)
         /\ Len(SubSeq(rows, 1, Len(with))) = Len(with)
BY LenProperties, ElementOfSeq, SubSeqProperties DEF Begins

LEMMA BeginsAppended ==
  ASSUME NEW rows, NEW with, Begins(rows, with), NEW x \in Time
  PROVE  Begins(Append(rows, x), with)
BY AppendProperties, LenProperties DEF Begins

LEMMA BeginsCommitted ==
  ASSUME NEW rows, NEW with, Begins(rows, with), NEW x \in Time,
         Len(with) < Len(rows), rows[Len(with) + 1] = x
  PROVE  Begins(rows, Append(with, x))
BY AppendProperties, LenProperties DEF Begins

(* reload in the process that writes.                                       *)
LEMMA LoadedIsSound ==
  ASSUME Whole, times \in Seq(Time), NEW set, NEW s, s = Loaded(set)
  PROVE  s.times = times /\ Begins(times, s.times) /\ LongEnough(s)
BY BeginsItself, LenProperties DEF Loaded, Whole, Begins, LongEnough, Shape

LEMMA NoTileIsSound ==
  ASSUME times \in Seq(Time)
  PROVE  Begins(times, NoTile.times) /\ LongEnough(NoTile)
BY EmptySeq, LenProperties DEF NoTile, Begins, LongEnough

LEMMA TimesTyped ==
  ASSUME TileInv
  PROVE  /\ times \in Seq(Time) /\ Len(times) \in Nat
         /\ 1 \in Vars /\ NVars \in Nat
BY LenProperties, GeodbAssumption DEF TileInv, Snapshots, Begins, Vars

LEMMA InitTileInv == Init => TileInv
<1> SUFFICES ASSUME Init PROVE TileInv
  OBVIOUS
<1>1. times = <<>> /\ scenes = NoRows /\ times \in Seq(Time) /\ Len(times) = 0
  BY EmptySeq DEF Init, InitTile
<1>2. scenes \in [Vars -> Seq(Time)] /\ Whole
  BY <1>1, EmptySeq DEF NoRows, Whole, Begins
<1>3. Snapshots
  BY <1>1, NoTileIsSound DEF Init, InitTile, NoTile, Snapshots, LongEnough
<1>4. Refreshing
  BY <1>1, NoTileIsSound DEF Init, InitTile, InitParcels, Refreshing
<1>5. Job /\ Appending
  BY GeodbAssumption DEF Init, InitParcels, Job, Appending, Idle, Threads, Vars
<1> QED
  BY <1>2, <1>3, <1>4, <1>5 DEF TileInv
-----------------------------------------------------------------------------
(* What the reader sees does not change: the arrays stay.                   *)
ArraysStay == UNCHANGED <<scenes, times, tileSnap, tileNew, refresh>>

(* A step of another goroutine, which may have loaded the tile.             *)
LEMMA StepBeside ==
  ASSUME TileInv, ArraysStay,
         DOMAIN job' = Threads, job'["scenes"] = job["scenes"],
         state' = state \/ \E set : state' = Loaded(set)
  PROVE  TileInv'
<1> USE DEF ArraysStay
<1>1. times \in Seq(Time)
  BY TimesTyped
<1>2. Begins(times, state'.times) /\ LongEnough(state') /\ (state.times = times => state'.times = times)
  BY <1>1, LoadedIsSound DEF TileInv, Snapshots
<1>3. Snapshots'
  BY <1>2 DEF TileInv, Snapshots, LongEnough, Begins
<1>4. (scenes \in [Vars -> Seq(Time)])' /\ Whole' /\ Refreshing'
  BY DEF TileInv, Whole, Refreshing, LongEnough
<1>5. Job'
  BY <1>2 DEF TileInv, Job
<1>6. Appending'
  BY DEF TileInv, Appending, HasRow
<1> QED
  BY <1>3, <1>4, <1>5, <1>6 DEF TileInv

(* A step of the goroutine itself, to where no row is in place yet.         *)
LEMMA StepAlong ==
  ASSUME TileInv, ArraysStay, Job',
         state' \in {state, NoTile} \/ \E set : state' = Loaded(set),
         job'["scenes"].pc \notin {"put", "cutStats", "putStats", "commit"},
         job'["scenes"].pc = "cut" => job'["scenes"].k = 1
  PROVE  TileInv'
<1> USE DEF ArraysStay
<1>1. times \in Seq(Time)
  BY TimesTyped
<1>2. Begins(times, state'.times) /\ LongEnough(state')
  BY <1>1, LoadedIsSound, NoTileIsSound DEF TileInv, Snapshots
<1>3. Snapshots'
  BY <1>2 DEF TileInv, Snapshots, LongEnough, Begins
<1>4. (scenes \in [Vars -> Seq(Time)])' /\ Whole' /\ Refreshing'
  BY DEF TileInv, Whole, Refreshing, LongEnough
<1>5. Appending'
  BY DEF Appending, Vars
<1> QED
  BY <1>3, <1>4, <1>5 DEF TileInv

(* The goroutine is put back where it may begin again.                      *)
LEMMA IdleIsSound ==
  ASSUME TileInv, DOMAIN job' = Threads, job'["scenes"] = Idle
  PROVE  Job'
BY TimesTyped DEF Job, Idle

LEMMA IdleStep ==
  ASSUME TileInv, ArraysStay, DOMAIN job' = Threads, job'["scenes"] = Idle,
         state' \in {state, NoTile} \/ \E set : state' = Loaded(set)
  PROVE  TileInv'
BY IdleIsSound, StepAlong DEF Idle
-----------------------------------------------------------------------------
(* What fails, ends or is restarted, and the parcels.                       *)
LEMMA ReturnStep ==
  ASSUME TileInv, ArraysStay, NEW t \in Threads, Return(t), state' = state
  PROVE  TileInv'
BY IdleStep, StepBeside DEF Return, TileInv, Job, Threads

LEMMA ParcelsStep ==
  ASSUME TileInv, ParcelsNext
  PROVE  TileInv'
<1>1. UNCHANGED <<scenes, times, tileSnap, tileNew, state>>
  BY DEF ParcelsNext, tileVars, tileStore, tileRead
<1>2. CASE PutParcels \/ MakeCurrent \/ LoadParcels \/ DropParcels
  BY <1>2, <1>1, StepBeside DEF PutParcels, MakeCurrent, LoadParcels, DropParcels, Goto, TileInv, Job, Threads,
     ArraysStay
<1>3. CASE \E t \in Threads : End(t) \/ Fail(t)
  BY <1>1, <1>3, ReturnStep DEF End, Fail, ArraysStay
<1>4. ASSUME job' = job, DOMAIN refresh' = DOMAIN refresh,
             refresh'.pc \notin {"arrays", "index", "stats"}
      PROVE  TileInv'
  BY <1>1, <1>4 DEF TileInv, Whole, Snapshots, LongEnough, Refreshing, Job, Appending, HasRow
<1>5. CASE RefreshParcels \/ RefreshFails
  BY <1>4, <1>5 DEF Found, RefreshParcels, RefreshFails, TileInv, Refreshing
<1>6. CASE \E found : RefreshBegins(found)
  BY <1>4, <1>6 DEF RefreshBegins, TileInv, Refreshing
<1> QED
  BY <1>2, <1>3, <1>5, <1>6 DEF ParcelsNext

LEMMA RestartStep ==
  ASSUME TileInv, Restart
  PROVE  TileInv'
BY IdleStep DEF Restart, RestartParcels, RestartTile, tileStore, tileRead, ArraysStay, Threads
-----------------------------------------------------------------------------
(* The subroutines that a put of parcels has in common with an append.      *)
Subroutine(t) ==
  \/ DeleteIndex(t) \/ MakeIndex(t) \/ FinishIndex(t) \/ DropStats(t)
  \/ Reload(t) \/ NothingToFill(t) \/ Backfill(t)

LEMMA SubroutineStays ==
  ASSUME NEW t \in {"scenes", "admin"}, Subroutine(t)
  PROVE  ArraysStay
BY DEF Subroutine, DeleteIndex, MakeIndex, FinishIndex, DropStats, Reload, Filled,
       NothingToFill, Backfill, ArraysStay, tileVars, tileStore, tileRead

LEMMA SubroutineLoads ==
  ASSUME NEW t \in {"scenes", "admin"}, Subroutine(t)
  PROVE  state' = state \/ \E set : state' = Loaded(set)
BY DEF Subroutine, DeleteIndex, MakeIndex, FinishIndex, DropStats, Reload,
       NothingToFill, Backfill, tileVars

LEMMA SubroutineBeside ==
  ASSUME TileInv, Subroutine("admin")
  PROVE  TileInv'
BY SubroutineStays, SubroutineLoads, StepBeside DEF Subroutine, DeleteIndex, MakeIndex, FinishIndex, DropStats,
   Reload, Filled, NothingToFill, Backfill, Goto, TileInv, Job, Threads

(* Where it goes within a subroutine, and after it.                         *)
LEMMA SubroutineGoes ==
  ASSUME TileInv, Subroutine("scenes")
  PROVE  /\ DOMAIN job' = Threads /\ DOMAIN job'["scenes"] = DOMAIN Idle
         /\ job'["scenes"].next = job["scenes"].next /\ job'["scenes"].row = job["scenes"].row
         /\ job'["scenes"].k \in Vars
         /\ \/ /\ job["scenes"].pc \in {"index", "make", "finish", "drop", "reload", "fill"}
               /\ job'["scenes"].pc \in {"make", "finish", "drop", "reload", "fill", "filled"}
            \/ /\ job["scenes"].pc \in {"fill", "filled"}
               /\ job'["scenes"].pc = job["scenes"].next
               /\ job["scenes"].pc = "filled" => state' = Loaded(parcels)
<1> USE TimesTyped DEF TileInv, Job, Threads, Idle
<1>1. CASE DeleteIndex("scenes") \/ MakeIndex("scenes") \/ FinishIndex("scenes") \/ DropStats("scenes")
  BY <1>1 DEF DeleteIndex, MakeIndex, FinishIndex, DropStats, Goto, At
<1>2. CASE Reload("scenes")
  BY <1>2 DEF Reload, Filled, Goto, At
<1>3. CASE NothingToFill("scenes")
  BY <1>3 DEF NothingToFill, Filled, Goto, At
<1>4. CASE Backfill("scenes")
  BY <1>4 DEF Backfill, Vars, Goto, At
<1> QED
  BY <1>1, <1>2, <1>3, <1>4 DEF Subroutine

LEMMA SubroutineAlong ==
  ASSUME TileInv, Subroutine("scenes")
  PROVE  TileInv'
BY SubroutineStays, SubroutineLoads, SubroutineGoes, StepAlong DEF Loaded, Job, ArraysStay, TileInv, Idle
-----------------------------------------------------------------------------
(* AppendScene up to where it writes.                                       *)
LEMMA BeginTileStep ==
  ASSUME TileInv, NEW s \in Time \cup {0}, BeginTile(s)
  PROVE  TileInv'
<1>1. ArraysStay /\ state' = Loaded(parcels)
  BY DEF BeginTile, ArraysStay, tileStore, tileRead
<1>2. state'.times = times'
  BY <1>1 DEF Loaded, ArraysStay
<1>3. /\ DOMAIN job' = Threads /\ DOMAIN job'["scenes"] = DOMAIN Idle
      /\ job'["scenes"].pc = "stale" /\ job'["scenes"].row = s
      /\ job'["scenes"].k = 1 /\ job'["scenes"].next = "end"
  BY DEF BeginTile, TileInv, Job, At, Idle, Threads
<1>4. Job'
  BY <1>2, <1>3, TimesTyped DEF Job
<1> QED
  BY <1>1, <1>3, <1>4, StepAlong

LEMMA CheckingStep ==
  ASSUME TileInv, IndexIfStale \/ CatchUp \/ Check
  PROVE  TileInv'
<1>1. ArraysStay /\ state' = state
  BY DEF IndexIfStale, CatchUp, Check, ArraysStay, tileVars, tileStore, tileRead
<1>2. /\ DOMAIN job' = Threads /\ DOMAIN job'["scenes"] = DOMAIN Idle
      /\ job'["scenes"].row = job["scenes"].row /\ job'["scenes"].k = 1
  BY DEF IndexIfStale, CatchUp, Check, Call, Goto, TileInv, Job, Idle, Threads
<1>3. CASE IndexIfStale
  BY <1>3, <1>1, <1>2, TimesTyped, StepAlong DEF IndexIfStale, Call, Goto, TileInv, Job, Idle, Threads, At,
     ArraysStay
<1>4. CASE CatchUp
  BY <1>4, <1>1, <1>2, TimesTyped, StepAlong DEF CatchUp, Call, Goto, TileInv, Job, Idle, Threads, At,
     ArraysStay
<1>5. CASE Check
  BY <1>5, <1>1, <1>2, TimesTyped, StepAlong DEF Check, Goto, TileInv, Job, Idle, Threads, At, ArraysStay
<1> QED
  BY <1>3, <1>4, <1>5
-----------------------------------------------------------------------------
(* AppendScene where it writes: the reader's snapshots and what Refresh has *)
(* read hold whatever the arrays become, as long as they begin with the     *)
(* times.                                                                   *)
LEMMA WritingStays ==
  ASSUME TileInv, UNCHANGED <<state, tileSnap, tileNew, refresh, times>>
  PROVE  Snapshots' /\ Refreshing'
BY DEF TileInv, Snapshots, Refreshing, LongEnough, Begins

LEMMA NextVariableGoes ==
  ASSUME TileInv, NextVariable
  PROVE  LET j == job["scenes"] IN
         /\ DOMAIN job' = Threads /\ DOMAIN job'["scenes"] = DOMAIN Idle
         /\ job'["scenes"].row = j.row /\ job'["scenes"].next = j.next
         /\ job'["scenes"].k \in Vars
         /\ \/ j.k < NVars /\ job'["scenes"].pc = "cut" /\ job'["scenes"].k = j.k + 1
            \/ j.k = NVars /\ job'["scenes"].pc = "commit"
<1> USE DEF TileInv, Job, Threads, Idle
<1>1. CASE job["scenes"].k < NVars
  BY <1>1, TimesTyped DEF Vars, NextVariable
<1>2. CASE ~(job["scenes"].k < NVars)
  BY <1>2, TimesTyped DEF Vars, NextVariable, Goto
<1> QED
  BY <1>1, <1>2

LEMMA CutScenesStep ==
  ASSUME TileInv, CutScenes
  PROVE  TileInv'
<1> DEFINE k == job["scenes"].k
           n == Len(times)
<1>1. /\ UNCHANGED <<state, tileSnap, tileNew, refresh, times>>
      /\ job["scenes"].pc = "cut" /\ state.times = times
    BY DEF CutScenes, tileRead, At, TileInv, Job
<1>2. k \in Vars
  BY DEF TileInv, Job
<1>3. scenes' = [scenes EXCEPT ![k] = SubSeq(scenes[k], 1, n)]
  BY <1>1 DEF CutScenes
<1>4. Begins(SubSeq(scenes[k], 1, n), times) /\ Len(SubSeq(scenes[k], 1, n)) = n
  BY <1>2, BeginsCut DEF TileInv, Whole
<1>5. /\ scenes' \in [Vars -> Seq(Time)]
      /\ scenes'[k] = SubSeq(scenes[k], 1, n)
      /\ \A v \in Vars : v # k => scenes'[v] = scenes[v]
  BY <1>2, <1>3, <1>4 DEF TileInv, Begins
<1>6. Whole'
  BY <1>4, <1>5, <1>1 DEF TileInv, Whole
<1>7. /\ DOMAIN job' = Threads /\ DOMAIN job'["scenes"] = DOMAIN Idle
      /\ job'["scenes"].pc = "put" /\ job'["scenes"].k = k
      /\ job'["scenes"].row = job["scenes"].row /\ job'["scenes"].next = job["scenes"].next
  BY DEF CutScenes, TileInv, Job, Threads, Idle
<1>8. Job'
  BY <1>1, <1>7 DEF TileInv, Job
<1>9. \A v \in Vars : v < k => HasRow(v)
  BY <1>1 DEF TileInv, Appending
<1>10. \A v \in Vars : v < k => HasRow(v)'
  BY <1>1, <1>2, <1>5, <1>7, <1>9 DEF HasRow, Vars
<1>11. Len(scenes'[k]) = Len(times')
  BY <1>1, <1>4, <1>5
<1>12. Appending'
  BY <1>7, <1>10, <1>11 DEF Appending
<1> QED
  BY <1>1, <1>5, <1>6, <1>8, <1>12, WritingStays DEF TileInv

(* A row is in place in another variable, and the next is turned to, or     *)
(* first the statistics of it.                                              *)
LEMMA PutSceneStep ==
  ASSUME TileInv, PutScene
  PROVE  TileInv'
<1>0. PICK k, x : k = job["scenes"].k /\ x = job["scenes"].row
  OBVIOUS
<1>1. /\ UNCHANGED <<state, tileSnap, tileNew, refresh, times>>
      /\ job["scenes"].pc = "put" /\ state.times = times /\ x \in Time /\ k \in Vars
    BY <1>0 DEF PutScene, tileRead, At, TileInv, Job
<1>2. scenes' = [scenes EXCEPT ![k] = Append(scenes[k], x)]
  BY <1>0 DEF PutScene
<1>3. Begins(scenes[k], times) /\ Len(scenes[k]) = Len(times) /\ scenes[k] \in Seq(Time)
  BY <1>0, <1>1 DEF TileInv, Whole, Appending, Begins
<1>4. /\ Begins(Append(scenes[k], x), times)
      /\ Len(Append(scenes[k], x)) = Len(times) + 1 /\ Append(scenes[k], x)[Len(times) + 1] = x
  BY <1>1, <1>3, BeginsAppended, AppendProperties
<1>5. /\ scenes' \in [Vars -> Seq(Time)]
      /\ scenes'[k] = Append(scenes[k], x)
      /\ \A v \in Vars : v # k => scenes'[v] = scenes[v]
  BY <1>1, <1>2, <1>4 DEF TileInv, Begins
<1>6. Whole'
  BY <1>4, <1>5, <1>1 DEF TileInv, Whole
<1>7. \/ NextVariable
      \/ job' = [job EXCEPT !["scenes"].pc = "cutStats"]
  BY DEF PutScene
<1>8. /\ DOMAIN job' = Threads /\ DOMAIN job'["scenes"] = DOMAIN Idle
      /\ job'["scenes"].row = x /\ job'["scenes"].next = job["scenes"].next
      /\ job'["scenes"].k \in Vars
      /\ \/ k < NVars /\ job'["scenes"].pc = "cut" /\ job'["scenes"].k = k + 1
         \/ k = NVars /\ job'["scenes"].pc = "commit"
         \/ job'["scenes"].pc = "cutStats" /\ job'["scenes"].k = k
  <2>1. CASE NextVariable
    BY <1>0, <2>1, NextVariableGoes
  <2>2. CASE job' = [job EXCEPT !["scenes"].pc = "cutStats"]
    BY <2>2, <1>0, <1>1 DEF TileInv, Job, Threads, Idle
  <2> QED
    BY <1>7, <2>1, <2>2
<1>9. Job'
  BY <1>0, <1>1, <1>8 DEF TileInv, Job
<1>10. \A v \in Vars : v < k => HasRow(v)
  BY <1>0, <1>1 DEF TileInv, Appending
<1>11. HasRow(k)'
  BY <1>1, <1>4, <1>5, <1>8, TimesTyped DEF HasRow
<1>12. \A v \in Vars : v < k => HasRow(v)'
  BY <1>0, <1>1, <1>5, <1>8, <1>10 DEF HasRow, Vars
<1>13. \A v \in Vars : v < k + 1 => HasRow(v)'
  BY <1>1, <1>11, <1>12, TimesTyped DEF Vars
<1>14. k = NVars => \A v \in Vars : HasRow(v)'
  BY <1>13, TimesTyped DEF Vars
<1>15. Appending'
  BY <1>8, <1>11, <1>12, <1>13, <1>14 DEF Appending
<1> QED
  BY <1>1, <1>5, <1>6, <1>9, <1>15, WritingStays DEF TileInv

LEMMA CutStatsStep ==
  ASSUME TileInv, CutStats
  PROVE  TileInv'
BY WritingStays DEF CutStats, tileRead, At, TileInv, Job, Threads, Idle, Appending, HasRow, Whole

LEMMA PutStatsStep ==
  ASSUME TileInv, PutStats
  PROVE  TileInv'
<1> DEFINE k == job["scenes"].k
<1>1. /\ UNCHANGED <<state, tileSnap, tileNew, refresh, times, scenes>>
      /\ job["scenes"].pc = "putStats" /\ k \in Vars /\ state.times = times
    BY DEF PutStats, tileRead, At, TileInv, Job
<1>2. /\ DOMAIN job' = Threads /\ DOMAIN job'["scenes"] = DOMAIN Idle
      /\ job'["scenes"].row = job["scenes"].row /\ job'["scenes"].next = job["scenes"].next
      /\ job'["scenes"].k \in Vars
      /\ \/ k < NVars /\ job'["scenes"].pc = "cut" /\ job'["scenes"].k = k + 1
         \/ k = NVars /\ job'["scenes"].pc = "commit"
  BY NextVariableGoes DEF PutStats
<1>3. Job'
  BY <1>1, <1>2 DEF TileInv, Job
<1>4. \A v \in Vars : v < k + 1 => HasRow(v)
  BY <1>1, TimesTyped DEF TileInv, Appending, Vars
<1>5. \A v \in Vars : v < k + 1 => HasRow(v)'
  BY <1>1, <1>2, <1>4 DEF HasRow
<1>6. k = NVars => \A v \in Vars : HasRow(v)'
  BY <1>5, TimesTyped DEF Vars
<1>7. Appending'
  BY <1>2, <1>5, <1>6 DEF Appending
<1>8. (scenes \in [Vars -> Seq(Time)])' /\ Whole'
  BY <1>1 DEF TileInv, Whole
<1> QED
  BY <1>1, <1>3, <1>7, <1>8, WritingStays DEF TileInv

(* The commit: every array has the row that the time is of.                 *)
LEMMA CommitSceneStep ==
  ASSUME TileInv, CommitScene
  PROVE  /\ TileInv'
         /\ job["scenes"].row \in Time /\ times' = Append(times, job["scenes"].row)
         /\ UNCHANGED <<scenes, tileSnap>>
<1> DEFINE x == job["scenes"].row
<1>1. /\ UNCHANGED <<state, tileSnap, tileNew, refresh, scenes>>
      /\ job["scenes"].pc = "commit" /\ x \in Time /\ times' = Append(times, x)
    BY DEF CommitScene, tileRead, At, TileInv, Job
<1>2. times \in Seq(Time) /\ times' \in Seq(Time)
  BY <1>1, TimesTyped, AppendProperties
<1>3. Whole'
  <2>1. SUFFICES ASSUME NEW v \in Vars PROVE Begins(scenes[v], times')
    BY <1>1 DEF Whole
  <2>2. Begins(scenes[v], times) /\ HasRow(v)
    BY <1>1 DEF TileInv, Whole, Appending
  <2> QED
    BY <1>1, <2>2, BeginsCommitted DEF HasRow
<1>4. \A with : Begins(times, with) => Begins(times', with)
  BY <1>1, BeginsAppended
<1>5. Snapshots' /\ Refreshing'
  BY <1>1, <1>4 DEF TileInv, Snapshots, Refreshing, LongEnough
<1>6. /\ DOMAIN job' = Threads /\ DOMAIN job'["scenes"] = DOMAIN Idle
      /\ job'["scenes"].pc = "filled" /\ job'["scenes"].k = 1
      /\ job'["scenes"].row = x /\ job'["scenes"].next = "end"
  BY DEF CommitScene, Call, TileInv, Job, Threads, Idle
<1>7. Job' /\ Appending'
  BY <1>1, <1>6, TimesTyped DEF Job, Appending
<1>8. (scenes \in [Vars -> Seq(Time)])'
  BY <1>1 DEF TileInv
<1> QED
  BY <1>1, <1>3, <1>5, <1>7, <1>8 DEF TileInv
-----------------------------------------------------------------------------
(* CreateTile, and the tile's part in PutParcels.                           *)
LEMMA AdminStep ==
  ASSUME TileInv, CreateTile \/ DescribeTile \/ RegisterTile \/ OpenTile \/ IndexParcels
  PROVE  TileInv'
BY StepBeside DEF CreateTile, DescribeTile, RegisterTile, OpenTile, IndexParcels, ArraysStay, tileVars,
   tileStore, tileRead, Goto, Call, TileInv, Job, Threads

(* The weather source: its goroutine and the admin's are others.            *)
LEMMA TileSourceStep ==
  ASSUME TileInv, SourceNext, UNCHANGED tileVars
  PROVE  TileInv'
<1> USE DEF tileVars, tileStore, tileRead
<1>1. UNCHANGED <<scenes, times, tileSnap, tileNew, state>>
  OBVIOUS
<1>2. ASSUME NEW t \in {"steps", "admin"},
             \/ CutSamples(t) \/ PutSamples(t) \/ MarkSamples(t) \/ Sample(t) \/ Sampling(t)
             \/ SamplingEnds(t) \/ DeleteSamples(t) \/ MakeSamples(t) \/ ReadySamples(t)
             \/ DropSamples(t) \/ SetUpDone(t)
      PROVE  refresh' = refresh /\ DOMAIN job' = Threads /\ job'["scenes"] = job["scenes"]
  <2>1. CASE CutSamples(t) \/ PutSamples(t) \/ MarkSamples(t) \/ Sample(t)
    BY <1>2, <2>1 DEF CutSamples, PutSamples, MarkSamples, Sample, NextArray, Goto, TileInv, Job, Threads
  <2>2. CASE Sampling(t) \/ SamplingEnds(t) \/ DeleteSamples(t) \/ MakeSamples(t)
    BY <1>2, <2>2 DEF Sampling, SamplingEnds, DeleteSamples, MakeSamples, Goto, TileInv, Job, Threads
  <2>3. CASE ReadySamples(t) \/ DropSamples(t) \/ SetUpDone(t)
    BY <1>2, <2>3 DEF ReadySamples, DropSamples, SetUpDone, Goto, TileInv, Job, Threads
  <2> QED
    BY <1>2, <2>1, <2>2, <2>3
<1>3. ASSUME AppendSteps \/ CutValues \/ PutValues \/ CommitSteps
      PROVE  refresh' = refresh /\ DOMAIN job' = Threads /\ job'["scenes"] = job["scenes"]
  <2>1. CASE AppendSteps
    BY <2>1 DEF AppendSteps, TileInv, Job, Threads
  <2>2. CASE CutValues \/ PutValues \/ CommitSteps
    BY <2>2 DEF CutValues, PutValues, CommitSteps, NextArray, Goto, TileInv, Job, Threads
  <2> QED
    BY <1>3, <2>1, <2>2
<1>4. ASSUME CreateWeather \/ DescribeSource \/ RegisterSource \/ OpenSource \/ SampleParcels
      PROVE  refresh' = refresh /\ DOMAIN job' = Threads /\ job'["scenes"] = job["scenes"]
  BY <1>4 DEF CreateWeather, DescribeSource, RegisterSource, OpenSource, SampleParcels, Goto,
              TileInv, Job, Threads
<1>5. CASE refresh' = refresh /\ DOMAIN job' = Threads /\ job'["scenes"] = job["scenes"]
  BY <1>1, <1>5, StepBeside DEF ArraysStay
<1>6. CASE RefreshSource \/ RefreshValues \/ RefreshSamples \/ RefreshSampleArrays
  <2>1. job' = job
    BY <1>6 DEF RefreshSource, RefreshValues, RefreshSamples, RefreshSampleArrays
  <2>2. \E pc \in {"values", "idle", "samples", "sampleArrays"} : RefreshGoes(pc)
    BY <1>6 DEF RefreshSource, RefreshValues, RefreshSamples, RefreshSampleArrays
  <2>3. DOMAIN refresh' = DOMAIN refresh /\ refresh'.pc \notin {"arrays", "index", "stats"}
    BY <2>2 DEF RefreshGoes, Found, TileInv, Refreshing
  <2> QED
    BY <1>1, <2>1, <2>3
       DEF TileInv, Whole, Snapshots, LongEnough, Refreshing, Job, Appending, HasRow
<1> QED
  BY <1>2, <1>3, <1>4, <1>5, <1>6 DEF SourceNext
-----------------------------------------------------------------------------
(* Refresh.  What it read of the times it read before the arrays, and what  *)
(* there is begins with it whatever was committed since; nor does the       *)
(* snapshot that it replaces have more.                                     *)
LEMMA RefreshStays ==
  ASSUME TileInv, UNCHANGED <<scenes, times, state, job>>
  PROVE  (scenes \in [Vars -> Seq(Time)])' /\ Whole' /\ Job' /\ Appending'
BY DEF TileInv, Whole, Job, Appending, HasRow

LEMMA RefreshStep ==
  ASSUME TileInv, RefreshTile \/ RefreshTimes \/ RefreshArrays \/ RefreshIndex \/ RefreshStats
  PROVE  /\ TileInv' /\ UNCHANGED <<scenes, times>>
         /\ Len(tileSnap.times) <= Len(tileSnap'.times)
<1>1. UNCHANGED <<scenes, times, state, job>>
  BY DEF RefreshTile, RefreshTimes, RefreshArrays, RefreshIndex, RefreshStats, tileVars, tileStore
<1>2. Len(tileSnap.times) \in Nat /\ times \in Seq(Time)
  BY LenProperties DEF TileInv, Snapshots, Begins
<1>3. ASSUME NEW pc \in {"source", "idle"}, RefreshGoes(pc)
      PROVE  DOMAIN refresh' = DOMAIN refresh /\ refresh'.pc \notin {"arrays", "index", "stats"}
  BY <1>3 DEF RefreshGoes, Found, TileInv, Refreshing
<1>4. CASE RefreshTile
  BY <1>4, <1>1, <1>2, RefreshStays DEF RefreshTile, tileVars, tileRead, RefreshGoes, Found, TileInv,
     Refreshing, Snapshots, LongEnough
<1>5. CASE RefreshTimes
  BY <1>5, <1>2, BeginsItself, <1>1, RefreshStays DEF RefreshTimes, NoTile, RefreshGoes, Found, TileInv,
     Refreshing, Snapshots, Begins, LongEnough
<1>6. CASE RefreshArrays
  <2>1. /\ tileSnap' = tileSnap /\ tileNew' = [tileNew EXCEPT !.shape = Shape(scenes)]
        /\ RefreshGoes("index") /\ refresh.pc = "arrays"
    BY <1>6 DEF RefreshArrays
  <2>2. /\ tileNew'.times = tileNew.times /\ tileNew'.shape = Shape(scenes)
        /\ DOMAIN tileNew' = DOMAIN NoTile
    BY <2>1 DEF NoTile, TileInv, Refreshing
  <2>3. DOMAIN refresh' = DOMAIN refresh /\ refresh'.pc = "index"
    BY <2>1 DEF RefreshGoes, Found, TileInv, Refreshing
  <2>4. LongEnough(tileNew)'
    <3>1. SUFFICES ASSUME NEW v \in Vars
                   PROVE  Len(scenes[v]) \in Nat /\ Len(tileNew.times) <= Len(scenes[v])
      BY <2>2 DEF LongEnough, Shape
    <3>2. Begins(scenes[v], tileNew.times)
      BY BeginsTogether DEF TileInv, Whole, Refreshing
    <3> QED
      BY <3>2, LenProperties DEF Begins
  <2> QED
    BY <1>1, <1>2, <2>1, <2>2, <2>3, <2>4, RefreshStays DEF TileInv, Snapshots, Refreshing, LongEnough
<1>7. CASE RefreshIndex
  <2>1. PICK g : /\ refresh.pc = "index" /\ RefreshGoes(IF g = 0 THEN "source" ELSE "stats")
                 /\ tileNew' = IF g = 0 THEN NoTile ELSE [tileNew EXCEPT !.gen = g]
                 /\ tileSnap' = IF g = 0 THEN tileNew ELSE tileSnap
    BY <1>7 DEF RefreshIndex
  <2>2. Len(tileSnap.times) <= Len(tileNew.times) /\ LongEnough(tileNew) /\ Begins(times, tileNew.times)
    BY <2>1 DEF TileInv, Refreshing
  <2>3. CASE g = 0
    BY <2>1, <2>3, <1>3, <1>1, <1>2, <2>2, NoTileIsSound, RefreshStays DEF TileInv, Snapshots, Refreshing,
       LongEnough
  <2>4. CASE g # 0
    BY <2>1, <2>4, <1>1, <1>2, <2>2, RefreshStays DEF TileInv, Refreshing, NoTile, RefreshGoes, Found,
       Snapshots, LongEnough
  <2> QED
    BY <2>3, <2>4
<1>8. CASE RefreshStats
  BY <1>8, <1>3, <1>1, <1>2, NoTileIsSound, RefreshStays DEF RefreshStats, TileInv, Refreshing, NoTile,
     Snapshots, LongEnough
<1> QED
  BY <1>4, <1>5, <1>6, <1>7, <1>8
-----------------------------------------------------------------------------
(* A step of Next either leaves the times and the reader's, commits a       *)
(* scene, or gives the reader a snapshot that has as many or more.          *)
LEMMA StutterStep ==
  ASSUME TileInv, UNCHANGED vars
  PROVE  TileInv' /\ UNCHANGED <<scenes, times, tileSnap>>
BY DEF vars, tileVars, tileStore, tileRead, parcelVars, TileInv, Whole, Snapshots, LongEnough,
       Refreshing, Job, Appending, HasRow

LEMMA TileStep ==
  ASSUME TileInv, TileNext
  PROVE  /\ TileInv'
         /\ \/ UNCHANGED <<times, tileSnap>>
            \/ \E x \in Time : times' = Append(times, x) /\ UNCHANGED tileSnap
            \/ times' = times /\ Len(tileSnap.times) <= Len(tileSnap'.times)
<1>1. CASE \E t \in {"scenes", "admin"} : Subroutine(t)
  BY <1>1, SubroutineAlong, SubroutineBeside, SubroutineStays DEF ArraysStay
<1>2. CASE AppendScene \/ BackfillStats
  <2>1. PICK s \in Time \cup {0} : BeginTile(s)
    BY <1>2 DEF AppendScene, BackfillStats
  <2> QED
    BY <2>1, BeginTileStep DEF BeginTile, tileStore, tileRead
<1>3. CASE IndexIfStale \/ CatchUp \/ Check
  BY <1>3, CheckingStep DEF IndexIfStale, CatchUp, Check, tileVars, tileStore, tileRead
<1>4. CASE CutScenes
  BY <1>4, CutScenesStep DEF CutScenes, tileRead
<1>5. CASE PutScene
  BY <1>5, PutSceneStep DEF PutScene, tileRead
<1>6. CASE CutStats
  BY <1>6, CutStatsStep DEF CutStats, tileRead
<1>7. CASE PutStats
  BY <1>7, PutStatsStep DEF PutStats, tileRead
<1>8. CASE CommitScene
  BY <1>8, CommitSceneStep
<1>9. CASE CreateTile \/ DescribeTile \/ RegisterTile \/ OpenTile \/ IndexParcels
  BY <1>9, AdminStep
     DEF CreateTile, DescribeTile, RegisterTile, OpenTile, IndexParcels, tileVars, tileStore, tileRead
<1>10. CASE RefreshTile \/ RefreshTimes \/ RefreshArrays \/ RefreshIndex \/ RefreshStats
  BY <1>10, RefreshStep
<1> QED
  BY <1>1, <1>2, <1>3, <1>4, <1>5, <1>6, <1>7, <1>8, <1>9, <1>10 DEF TileNext, Subroutine

LEMMA NextStep ==
  ASSUME TileInv, [Next]_vars
  PROVE  /\ TileInv'
         /\ \/ UNCHANGED <<times, tileSnap>>
            \/ \E x \in Time : times' = Append(times, x) /\ UNCHANGED tileSnap
            \/ times' = times /\ Len(tileSnap.times) <= Len(tileSnap'.times)
<1>1. CASE TileNext /\ UNCHANGED sourceVars
  BY <1>1, TileStep
<1>2. CASE SourceNext /\ UNCHANGED tileVars
  BY <1>2, TileSourceStep DEF tileVars, tileStore, tileRead
<1>3. CASE ParcelsNext
  BY <1>3, ParcelsStep DEF ParcelsNext, tileVars, tileStore, tileRead
<1>4. CASE Restart
  BY <1>4, RestartStep DEF Restart, RestartTile, tileStore, tileRead
<1>5. CASE UNCHANGED vars
  BY <1>5, StutterStep
<1> QED
  BY <1>1, <1>2, <1>3, <1>4, <1>5 DEF Next

(* What is stored and known of a tile stays in step: the inductive          *)
(* invariant (tile.go:251-287, 568-664).                                    *)
THEOREM TileInStep == Spec => []TileInv
<1>1. Init => TileInv
  BY InitTileInv
<1>2. TileInv /\ [Next]_vars => TileInv'
  BY NextStep
<1> QED
  BY <1>1, <1>2, PTL DEF Spec
-----------------------------------------------------------------------------
LEMMA SnapshotIsWhole ==
  ASSUME TileInv, NEW snap, Begins(times, snap.times), LongEnough(snap)
  PROVE  ReadsWholeScenes(snap)
<1>1. SUFFICES ASSUME NEW v \in Vars, NEW i \in DOMAIN snap.times
               PROVE  SceneWindow(snap, v, i) = snap.times[i]
  BY DEF ReadsWholeScenes, PixelHistory
<1>2. /\ Begins(scenes[v], times) /\ Begins(scenes[v], snap.times)
      /\ snap.shape[v] \in Nat /\ Len(snap.times) <= snap.shape[v]
  BY BeginsTogether DEF TileInv, Whole, LongEnough
<1>3. i \in 1 .. Len(snap.times) /\ Len(snap.times) \in Nat /\ Len(scenes[v]) \in Nat
  BY <1>2, LenProperties DEF Begins
<1>4. i <= snap.shape[v] /\ i <= Len(scenes[v]) /\ scenes[v][i] = snap.times[i]
  BY <1>2, <1>3 DEF Begins
<1> QED
  BY <1>4 DEF SceneWindow, Row

(* A scene that a snapshot has is read whole in every variable, though      *)
(* appends fail part way and are done again and Refresh reads the arrays    *)
(* one after the other (tile.go:251-287, 568-664, 708-750).                 *)
THEOREM WholeScenes == Spec => []ScenesAreWhole
<1>1. TileInv => ScenesAreWhole
  BY SnapshotIsWhole DEF ScenesAreWhole, TileInv, Snapshots
<1> QED
  BY <1>1, TileInStep, PTL
-----------------------------------------------------------------------------
(* What was committed is what the times say.                                *)
LEMMA CommittedIsTimes ==
  TileInv => /\ Committed(Len(times)) = times
             /\ Committed(Len(tileSnap.times)) = tileSnap.times
<1> SUFFICES ASSUME TileInv
             PROVE  /\ Committed(Len(times)) = times
                    /\ Committed(Len(tileSnap.times)) = tileSnap.times
  OBVIOUS
<1>1. \A v \in Vars : Begins(scenes[v], times)
  BY DEF TileInv, Whole
<1>2. SUFFICES ASSUME NEW part, Begins(times, part)
               PROVE  Committed(Len(part)) = part
  BY TimesTyped, BeginsItself DEF TileInv, Snapshots
<1>3. /\ Len(part) \in Nat /\ Len(part) <= Len(times) /\ Len(times) \in Nat
      /\ part = [i \in 1 .. Len(part) |-> part[i]]
  BY <1>2, LenProperties DEF Begins
<1>4. ASSUME NEW i \in 1 .. Len(part)
      PROVE  /\ times[i] = part[i]
             /\ \A v \in Vars : i <= Len(scenes[v]) /\ scenes[v][i] = times[i]
  BY <1>1, <1>2, <1>3, <1>4, LenProperties DEF Begins
<1> QED
  BY <1>3, <1>4 DEF Committed

(* The scenes of a tile are a log of them, and a reader's a prefix of it    *)
(* that only grows (doc.go:57-73, tile.go:251-304, 568-647).                *)
THEOREM TileImplementsLog == Spec => TileLog!Spec
<1>1. Init => TileLog!Init
  <2> SUFFICES ASSUME Init PROVE TileLog!Init
    OBVIOUS
  <2>1. TileInv /\ times = <<>> /\ tileSnap.times = <<>>
    BY InitTileInv DEF Init, InitTile, NoTile
  <2> QED
    BY <2>1, CommittedIsTimes DEF TileLog!Init
<1>2. (TileInv => /\ Committed(Len(times)) = times
                  /\ Committed(Len(tileSnap.times)) = tileSnap.times)'
  BY CommittedIsTimes, PTL
<1>3. TileInv /\ [Next]_vars => [TileLog!Next]_<<Committed(Len(times)), Committed(Len(tileSnap.times))>>
  <2> SUFFICES ASSUME TileInv, [Next]_vars
               PROVE  [TileLog!Next]_<<Committed(Len(times)), Committed(Len(tileSnap.times))>>
    OBVIOUS
  <2>1. /\ Committed(Len(times)) = times
        /\ Committed(Len(tileSnap.times)) = tileSnap.times
    BY CommittedIsTimes
  <2>2. TileInv'
    BY NextStep
  <2>3. /\ Committed(Len(times))' = times'
        /\ Committed(Len(tileSnap.times))' = tileSnap'.times
    BY <1>2, <2>2
  <2>4. CASE UNCHANGED <<times, tileSnap>>
    BY <2>1, <2>3, <2>4
  <2>5. ASSUME NEW x \in Time, times' = Append(times, x), UNCHANGED tileSnap
        PROVE  TileLog!Commit
    <3>1. times' = times \o <<x>>
      BY <2>5, TimesTyped, AppendIsConcat
    <3>2. 1 \in 1 .. 1 /\ <<x>> \in [1 .. 1 -> Time]
      OBVIOUS
    <3>3. \E n \in 1 .. 1 : \E new \in [1 .. n -> Time] : times' = times \o new
      BY <3>1, <3>2
    <3> QED
      BY <2>1, <2>3, <2>5, <3>3 DEF TileLog!Commit
  <2>6. CASE times' = times /\ Len(tileSnap.times) <= Len(tileSnap'.times)
    <3> DEFINE n == Len(tileSnap'.times)
    <3>1. Begins(times', tileSnap'.times) /\ Begins(times, tileSnap.times)
      BY <2>2 DEF TileInv, Snapshots
    <3>2. /\ n \in Nat /\ n <= Len(times) /\ Len(tileSnap.times) \in Nat
          /\ times \in Seq(Time) /\ tileSnap'.times \in Seq(Time) /\ Len(times) \in Nat
      BY <2>6, <3>1, LenProperties DEF Begins
    <3>3. Begins(times, tileSnap'.times)
      BY <2>6, <3>1
    <3>4. /\ SubSeq(times, 1, n) \in Seq(Time) /\ Len(SubSeq(times, 1, n)) = n
          /\ \A i \in 1 .. n : SubSeq(times, 1, n)[i] = tileSnap'.times[i]
      BY <3>2, <3>3, BeginsCut DEF Begins
    <3>5. tileSnap'.times = SubSeq(times, 1, n)
      BY <3>2, <3>4, SeqEqual
    <3>6. n \in Len(tileSnap.times) .. Len(times)
      BY <2>6, <3>2
    <3>7. TileLog!Refresh
      BY <2>1, <2>3, <2>6, <3>5, <3>6 DEF TileLog!Refresh
    <3> QED
      BY <3>7 DEF TileLog!Next
  <2> QED
    BY <2>4, <2>5, <2>6, NextStep DEF TileLog!Next
<1> QED
  BY <1>1, <1>3, TileInStep, PTL DEF Spec, TileLog!Spec
-----------------------------------------------------------------------------
(* The arrays have the n first steps, and they are of the same.             *)
Agree(n) ==
  \A v \in Vars : n <= Len(values[v]) /\ \A i \in 1 .. n : values[v][i] = values[1][i]

Stored == values \in [Vars -> Seq(Values)] /\ steps \in Nat /\ Agree(steps)

(* What the reader knows, and what its Refresh has read so far.             *)
Reading ==
  /\ DOMAIN refresh = {"pc", "set", "found", "parcels"}
  /\ DOMAIN sourceNew = DOMAIN NoSource
  /\ sourceSnap.steps \in 0 .. steps /\ sourceNew.steps \in 0 .. steps
  /\ refresh.pc \in {"values", "samples", "sampleArrays"} => sourceSnap.steps <= sourceNew.steps

(* The goroutine that appends steps: those it adds come after the ones      *)
(* there are, and it is another thing to sample what was read back.         *)
Adding(j) ==
  \/ j.pc \in {"cutValues", "putValues", "commit"}
  \/ j.pc \in {"cutSamples", "putSamples", "markSamples"} /\ j.row # 0

Stepping ==
  LET j == job["steps"] IN
  /\ DOMAIN job = Threads /\ DOMAIN j = DOMAIN Idle
  /\ Adding(j) => j.n = steps /\ j.count \in 1 .. MaxAppend /\ j.row \in Values
  /\ j.pc \in {"cutValues", "putValues"} => j.k \in Vars
  /\ j.pc \in {"sampling", "setUp", "makeSamples", "readySamples", "dropSamples", "setUpDone"} =>
       j.row = 0

(* The rows of an append follow the steps in an array.                      *)
HasRows(v) ==
  LET j == job["steps"] IN
  /\ steps + j.count <= Len(values[v])
  /\ \A i \in steps + 1 .. steps + j.count : values[v][i] = j.row

Placed ==
  LET j == job["steps"] IN
  /\ j.pc \in {"cutValues", "putValues"} => \A v \in Vars : v < j.k => HasRows(v)
  /\ j.pc = "putValues" => Len(values[j.k]) = steps
  /\ Adding(j) /\ j.pc \notin {"cutValues", "putValues"} => \A v \in Vars : HasRows(v)

SourceInv == Stored /\ Reading /\ Stepping /\ Placed
-----------------------------------------------------------------------------
LEMMA SourceTypes ==
  ASSUME SourceInv
  PROVE  /\ steps \in Nat /\ 1 \in Vars /\ NVars \in Nat /\ 0 \notin Values /\ MaxAppend \in Nat
         /\ \A v \in Vars : values[v] \in Seq(Values) /\ Len(values[v]) \in Nat
BY GeodbAssumption, LenProperties DEF SourceInv, Stored, Vars

(* The shortest array that counts is of as many as there are.               *)
LEMMA ShortestIsAll ==
  ASSUME SourceInv, NEW n \in 0 .. steps
  PROVE  Shortest(n) = n
BY SourceTypes DEF SourceInv, Stored, Agree, Shortest

LEMMA InitSourceInv == Init => SourceInv
<1> SUFFICES ASSUME Init PROVE SourceInv
  OBVIOUS
<1>1. steps = 0 /\ values = NoRows /\ sourceSnap = NoSource /\ sourceNew = NoSource
  BY DEF Init, InitSource
<1>2. Stored
  BY <1>1, EmptySeq DEF Stored, NoRows, Agree
<1>3. Reading
  BY <1>1 DEF Reading, NoSource, Init, InitParcels
<1>4. Stepping /\ Placed
  BY DEF Init, InitParcels, Stepping, Placed, Adding, Idle, Threads
<1> QED
  BY <1>2, <1>3, <1>4 DEF SourceInv
-----------------------------------------------------------------------------
(* What the reader sees does not change.                                    *)
SourceStays == UNCHANGED <<values, steps, sourceSnap, sourceNew, refresh>>

(* A step of another goroutine.                                             *)
LEMMA SourceBeside ==
  ASSUME SourceInv, SourceStays, DOMAIN job' = Threads, job'["steps"] = job["steps"]
  PROVE  SourceInv'
BY DEF SourceInv, SourceStays, Stored, Agree, Reading, Stepping, Placed, HasRows, Adding

(* A step of the goroutine itself, to where nothing is added.               *)
LEMMA SourceAlong ==
  ASSUME SourceInv, SourceStays, Stepping', ~Adding(job'["steps"])
  PROVE  SourceInv'
BY DEF Adding, Placed, SourceInv, SourceStays, Stored, Agree, Reading

LEMMA SourceIdle ==
  ASSUME SourceInv, SourceStays, DOMAIN job' = Threads, job'["steps"] = Idle
  PROVE  SourceInv'
BY SourceAlong DEF Adding, Idle, Stepping

(* Refresh, where it does not read the source.                              *)
LEMMA SourceUnread ==
  ASSUME SourceInv, UNCHANGED <<values, steps, sourceSnap, sourceNew, job>>,
         DOMAIN refresh' = DOMAIN refresh, refresh'.pc \notin {"values", "samples", "sampleArrays"}
  PROVE  SourceInv'
BY DEF SourceInv, Stored, Agree, Reading, Stepping, Placed, HasRows, Adding
-----------------------------------------------------------------------------
LEMMA SourceParcelsStep ==
  ASSUME SourceInv, ParcelsNext
  PROVE  SourceInv'
<1>1. UNCHANGED <<values, steps, sourceSnap, sourceNew>>
  BY DEF ParcelsNext, sourceVars, sourceStore, sourceRead
<1>2. CASE PutParcels \/ MakeCurrent \/ LoadParcels \/ DropParcels
  BY <1>2, <1>1, SourceBeside DEF PutParcels, MakeCurrent, LoadParcels, DropParcels, Goto, SourceInv, Stepping,
     Threads, SourceStays
<1>3. CASE \E t \in Threads : End(t) \/ Fail(t)
  BY <1>3, <1>1, SourceBeside, SourceIdle DEF End, Fail, Return, SourceInv, Stepping, Threads, SourceStays
<1>4. CASE RefreshParcels \/ RefreshFails
  BY <1>1, <1>4, SourceUnread DEF Found, RefreshParcels, RefreshFails, SourceInv, Reading
<1>5. CASE \E found : RefreshBegins(found)
  BY <1>1, <1>5, SourceUnread DEF RefreshBegins, SourceInv, Reading
<1> QED
  BY <1>2, <1>3, <1>4, <1>5 DEF ParcelsNext

LEMMA SourceRestartStep ==
  ASSUME SourceInv, Restart
  PROVE  SourceInv'
BY SourceIdle DEF Restart, RestartParcels, RestartSource, sourceStore, sourceRead, SourceStays, Threads

(* The tile: its goroutine and the admin's are others.                      *)
LEMMA SourceTileStep ==
  ASSUME SourceInv, TileNext, UNCHANGED sourceVars
  PROVE  SourceInv'
<1> DEFINE Beside == refresh' = refresh /\ DOMAIN job' = Threads /\ job'["steps"] = job["steps"]
<1>1. UNCHANGED <<values, steps, sourceSnap, sourceNew>>
  BY DEF sourceVars, sourceStore, sourceRead
<1>2. ASSUME NEW t \in {"scenes", "admin"},
             \/ DeleteIndex(t) \/ MakeIndex(t) \/ FinishIndex(t) \/ DropStats(t)
             \/ Reload(t) \/ NothingToFill(t) \/ Backfill(t)
      PROVE  Beside
  BY <1>2 DEF DeleteIndex, MakeIndex, FinishIndex, DropStats, Reload, Filled, NothingToFill, Backfill, Goto,
     SourceInv, Stepping, Threads
<1>3. ASSUME AppendScene \/ BackfillStats \/ IndexIfStale \/ CatchUp \/ Check
      PROVE  Beside
  BY <1>3 DEF AppendScene, BackfillStats, BeginTile, IndexIfStale, CatchUp, Check, Call, Goto,
              SourceInv, Stepping, Threads
<1>4. ASSUME CutScenes \/ PutScene \/ CutStats \/ PutStats \/ CommitScene
      PROVE  Beside
  BY <1>4 DEF CutScenes, PutScene, CutStats, PutStats, CommitScene, NextVariable, Call, Goto,
              SourceInv, Stepping, Threads
<1>5. ASSUME CreateTile \/ DescribeTile \/ RegisterTile \/ OpenTile \/ IndexParcels
      PROVE  Beside
  BY <1>5 DEF CreateTile, DescribeTile, RegisterTile, OpenTile, IndexParcels, Call, Goto,
              SourceInv, Stepping, Threads
<1>6. CASE Beside
  BY <1>1, <1>6, SourceBeside DEF SourceStays
<1>7. CASE RefreshTile \/ RefreshTimes \/ RefreshArrays \/ RefreshIndex \/ RefreshStats
  BY <1>7, <1>1, SourceUnread DEF RefreshTile, RefreshTimes, RefreshArrays, RefreshIndex, RefreshStats,
     RefreshGoes, Found, SourceInv, Reading
<1> QED
  BY <1>2, <1>3, <1>4, <1>5, <1>6, <1>7 DEF TileNext
-----------------------------------------------------------------------------
(* Sampling, of steps that are there or of those that are added.            *)
SamplingNext(t) ==
  \/ CutSamples(t) \/ PutSamples(t) \/ MarkSamples(t) \/ Sample(t) \/ Sampling(t)
  \/ SamplingEnds(t) \/ DeleteSamples(t) \/ MakeSamples(t) \/ ReadySamples(t)
  \/ DropSamples(t) \/ SetUpDone(t)

LEMMA SamplingStays ==
  ASSUME NEW t \in {"steps", "admin"}, SamplingNext(t)
  PROVE  SourceStays
BY DEF SamplingNext, CutSamples, PutSamples, MarkSamples, Sample, Sampling, SamplingEnds,
       DeleteSamples, MakeSamples, ReadySamples, DropSamples, SetUpDone,
       SourceStays, sourceVars, sourceStore, sourceRead

LEMMA SamplingBeside ==
  ASSUME SourceInv, SamplingNext("admin")
  PROVE  SourceInv'
<1> USE DEF SourceInv, Stepping, Threads
<1>1. CASE CutSamples("admin") \/ PutSamples("admin") \/ MarkSamples("admin") \/ Sample("admin")
  BY <1>1, SamplingStays, SourceBeside DEF CutSamples, PutSamples, MarkSamples, Sample, NextArray, Goto
<1>2. CASE \/ Sampling("admin") \/ SamplingEnds("admin") \/ DeleteSamples("admin")
           \/ MakeSamples("admin") \/ ReadySamples("admin") \/ DropSamples("admin") \/ SetUpDone("admin")
  BY <1>2, SamplingStays, SourceBeside DEF Sampling, SamplingEnds, DeleteSamples, MakeSamples, ReadySamples,
     DropSamples, SetUpDone, Goto
<1> QED
  BY <1>1, <1>2 DEF SamplingNext

LEMMA SamplingAlong ==
  ASSUME SourceInv, SamplingNext("steps")
  PROVE  SourceInv'
<1>1. SourceStays
  BY SamplingStays
<1>2. CASE CutSamples("steps") \/ PutSamples("steps") \/ MarkSamples("steps")
  <2>1. /\ DOMAIN job' = Threads /\ DOMAIN job'["steps"] = DOMAIN Idle
        /\ job["steps"].pc \in {"cutSamples", "putSamples", "markSamples"}
        /\ job'["steps"].row = job["steps"].row
        /\ \/ /\ job'["steps"].pc \in {"cutSamples", "putSamples", "markSamples", "commit"}
              /\ job'["steps"].n = job["steps"].n /\ job'["steps"].count = job["steps"].count
              /\ job'["steps"].pc = "commit" => job["steps"].row # 0
           \/ job'["steps"].pc = "sampling" /\ job["steps"].row = 0
    <3>1. /\ "steps" \in DOMAIN job /\ DOMAIN job = Threads /\ DOMAIN job["steps"] = DOMAIN Idle
          /\ {"pc", "k", "n", "row", "count"} \subseteq DOMAIN job["steps"]
      BY DEF SourceInv, Stepping, Threads, Idle
    <3>2. CASE CutSamples("steps")
      BY <3>2, <3>1 DEF CutSamples, At
    <3>3. CASE PutSamples("steps")
      BY <3>3, <3>1 DEF PutSamples, NextArray, Goto, At
    <3>4. CASE MarkSamples("steps") /\ job["steps"].row # 0
      BY <3>4, <3>1 DEF MarkSamples, Goto, At
    <3>5. CASE MarkSamples("steps") /\ job["steps"].row = 0
      BY <3>1, <3>5 DEF MarkSamples, At
    <3> QED
      BY <1>2, <3>2, <3>3, <3>4, <3>5
  <2>2. Stepping'
    BY <1>1, <2>1 DEF Stepping, Adding, SourceInv, SourceStays
  <2>3. Placed'
    BY <1>1, <2>1 DEF Placed, Adding, HasRows, SourceInv, SourceStays
  <2> QED
    BY <1>1, <2>2, <2>3 DEF SourceInv, SourceStays, Stored, Agree, Reading
<1>3. ASSUME DOMAIN job' = Threads, DOMAIN job'["steps"] = DOMAIN Idle, ~Adding(job'["steps"]),
             \/ job'["steps"].row = 0
             \/ job'["steps"].pc \in {"sampled", "end"}
      PROVE  SourceInv'
  BY <1>3, <1>1, SourceAlong DEF Stepping, Adding
<1>4. CASE Sample("steps")
  BY <1>4, <1>3 DEF Sample, SourceInv, Stepping, Threads, Idle, Adding
<1>5. CASE Sampling("steps")
  BY <1>5, <1>3 DEF Sampling, Goto, At, SourceInv, Stepping, Threads, Idle, Adding
<1>6. CASE SamplingEnds("steps")
  BY <1>6, <1>3 DEF SamplingEnds, Goto, SourceInv, Stepping, Threads, Idle, Adding
<1>7. CASE \/ DeleteSamples("steps") \/ MakeSamples("steps") \/ ReadySamples("steps")
           \/ DropSamples("steps") \/ SetUpDone("steps")
  BY <1>7, <1>3 DEF DeleteSamples, MakeSamples, ReadySamples, DropSamples, SetUpDone, Goto, At, SourceInv,
     Stepping, Threads, Idle, Adding
<1> QED
  BY <1>2, <1>4, <1>5, <1>6, <1>7 DEF SamplingNext
-----------------------------------------------------------------------------
(* Append, which cuts every array back to the steps and adds to it, and     *)
(* commits what it added.                                                   *)
LEMMA AppendStepsStep ==
  ASSUME SourceInv, AppendSteps
  PROVE  SourceInv' /\ SourceStays
<1>1. SourceStays
  BY DEF AppendSteps, SourceStays, sourceStore, sourceRead
<1>2. wstate'.steps = steps
  BY ShortestIsAll, SourceTypes DEF AppendSteps, LoadedSource
<1>3. PICK x \in Values, n \in 1 .. MaxAppend :
        job' = [job EXCEPT !["steps"] = [Idle EXCEPT !.pc = "cutValues", !.n = wstate'.steps,
                                                     !.row = x, !.count = n]]
  BY DEF AppendSteps
<1>4. /\ DOMAIN job' = Threads /\ DOMAIN job'["steps"] = DOMAIN Idle
      /\ job'["steps"].pc = "cutValues" /\ job'["steps"].n = steps /\ job'["steps"].k = 1
      /\ job'["steps"].row \in Values /\ job'["steps"].count \in 1 .. MaxAppend
  BY <1>2, <1>3 DEF SourceInv, Stepping, Idle, Threads
<1>5. Stepping'
  BY <1>1, <1>4, SourceTypes DEF Stepping, SourceStays
<1>6. Placed'
  BY <1>4 DEF Placed, Adding, Vars
<1> QED
  BY <1>1, <1>5, <1>6 DEF SourceInv, SourceStays, Stored, Agree, Reading

(* A step that puts other rows than the committed into one array.           *)
LEMMA OneArray ==
  ASSUME SourceInv, UNCHANGED <<steps, sourceSnap, sourceNew, refresh>>,
         NEW k \in Vars, NEW rows \in Seq(Values), values' = [values EXCEPT ![k] = rows],
         steps <= Len(rows), \A i \in 1 .. steps : rows[i] = values[k][i]
  PROVE  /\ Stored' /\ Reading'
         /\ \A i \in 1 .. steps : values'[1][i] = values[1][i]
BY SourceTypes DEF SourceInv, Stored, Agree, Reading

LEMMA CutValuesStep ==
  ASSUME SourceInv, CutValues
  PROVE  /\ SourceInv' /\ UNCHANGED <<steps, sourceSnap>>
         /\ \A i \in 1 .. steps : values'[1][i] = values[1][i]
<1>0. PICK k, n : k = job["steps"].k /\ n = job["steps"].n
  OBVIOUS
<1>1. /\ UNCHANGED <<steps, sourceSnap, sourceNew, refresh>>
      /\ job["steps"].pc = "cutValues" /\ values' = [values EXCEPT ![k] = SubSeq(values[k], 1, n)]
      /\ job' = [job EXCEPT !["steps"].pc = "putValues"]
  BY <1>0 DEF CutValues, CutTo, sourceRead, At
<1>2. n = steps /\ k \in Vars
  BY <1>0, <1>1 DEF SourceInv, Stepping, Adding
<1>3. steps <= Len(values[k]) /\ steps \in Nat /\ Len(values[k]) \in Nat /\ values[k] \in Seq(Values)
  BY <1>2, SourceTypes DEF SourceInv, Stored, Agree
<1>4. \A i \in 1 .. steps : values[k][i] \in Values
  BY <1>3, ElementOfSeq
<1>5. /\ SubSeq(values[k], 1, n) \in Seq(Values)
      /\ Len(SubSeq(values[k], 1, n)) = IF 1 <= n THEN n - 1 + 1 ELSE 0
      /\ \A i \in 1 .. n - 1 + 1 : SubSeq(values[k], 1, n)[i] = values[k][1 + i - 1]
  BY <1>2, <1>3, <1>4, SubSeqProperties
<1>6. /\ Len(SubSeq(values[k], 1, n)) = steps
      /\ \A i \in 1 .. steps : SubSeq(values[k], 1, n)[i] = values[k][i]
  BY <1>2, <1>3, <1>5
<1>7. Stored' /\ Reading' /\ \A i \in 1 .. steps : values'[1][i] = values[1][i]
  <2>1. PICK rows : rows = SubSeq(values[k], 1, n)
    OBVIOUS
  <2>2. /\ rows \in Seq(Values) /\ steps <= Len(rows) /\ values' = [values EXCEPT ![k] = rows]
        /\ \A i \in 1 .. steps : rows[i] = values[k][i]
    BY <1>1, <1>3, <1>5, <1>6, <2>1
  <2> QED
    BY <1>1, <1>2, <2>2, OneArray
<1>8. /\ values'[k] = SubSeq(values[k], 1, n) /\ \A v \in Vars : v # k => values'[v] = values[v]
  BY <1>1, <1>2 DEF SourceInv, Stored
<1>9. /\ DOMAIN job' = Threads /\ DOMAIN job'["steps"] = DOMAIN Idle
      /\ job'["steps"].pc = "putValues" /\ job'["steps"].k = k /\ job'["steps"].n = n
      /\ job'["steps"].row = job["steps"].row /\ job'["steps"].count = job["steps"].count
  BY <1>0, <1>1 DEF SourceInv, Stepping, Idle, Threads
<1>10. Stepping'
  BY <1>1, <1>2, <1>9 DEF SourceInv, Stepping, Adding
<1>11. \A v \in Vars : v < k => HasRows(v)
  BY <1>0, <1>1 DEF SourceInv, Placed
<1>12. \A v \in Vars : v < k => HasRows(v)'
  BY <1>1, <1>2, <1>8, <1>9, <1>11 DEF HasRows, Vars
<1>13. Placed'
  BY <1>1, <1>6, <1>8, <1>9, <1>12 DEF Placed
<1> QED
  BY <1>1, <1>7, <1>10, <1>13 DEF SourceInv

LEMMA PutValuesStep ==
  ASSUME SourceInv, PutValues
  PROVE  /\ SourceInv' /\ UNCHANGED <<steps, sourceSnap>>
         /\ \A i \in 1 .. steps : values'[1][i] = values[1][i]
<1>0. PICK k, x, c : k = job["steps"].k /\ x = job["steps"].row /\ c = job["steps"].count
  OBVIOUS
<1>1. /\ UNCHANGED <<steps, sourceSnap, sourceNew, refresh>>
      /\ job["steps"].pc = "putValues" /\ values' = [values EXCEPT ![k] = values[k] \o Rows(x, c)]
      /\ \E done \in {"cutSamples", "commit"} : NextArray("steps", "cutValues", done)
  BY <1>0 DEF PutValues, sourceRead, At
<1>2. /\ k \in Vars /\ x \in Values /\ c \in 1 .. MaxAppend /\ job["steps"].n = steps
      /\ Len(values[k]) = steps /\ values[k] \in Seq(Values) /\ steps \in Nat
      /\ MaxAppend \in Nat /\ 0 \notin Values /\ NVars \in Nat
  BY <1>0, <1>1, SourceTypes DEF SourceInv, Stepping, Placed, Adding
<1>3. c \in Nat /\ x # 0
  BY <1>2
<1>4. /\ Rows(x, c) \in Seq(Values) /\ Len(Rows(x, c)) = c
      /\ \A i \in 1 .. c : Rows(x, c)[i] = x
  BY <1>2, <1>3 DEF Rows
<1>5. PICK rows : rows = values[k] \o Rows(x, c)
  OBVIOUS
<1>6. /\ rows \in Seq(Values) /\ Len(rows) = steps + c
      /\ \A i \in 1 .. steps + c :
           rows[i] = IF i <= steps THEN values[k][i] ELSE Rows(x, c)[i - steps]
  <2>1. PICK before, new : before = values[k] /\ new = Rows(x, c)
    OBVIOUS
  <2>2. before \in Seq(Values) /\ new \in Seq(Values) /\ Len(before) = steps /\ Len(new) = c
    BY <1>2, <1>4, <2>1
  <2>3. /\ before \o new \in Seq(Values)
        /\ Len(before \o new) = Len(before) + Len(new)
        /\ \A i \in 1 .. Len(before) + Len(new) :
             (before \o new)[i] = IF i <= Len(before) THEN before[i] ELSE new[i - Len(before)]
    BY <2>2, ConcatProperties
  <2> QED
    BY <1>5, <2>1, <2>2, <2>3
<1>7. /\ \A i \in 1 .. steps : rows[i] = values[k][i]
      /\ \A i \in steps + 1 .. steps + c : rows[i] = x
  <2>1. ASSUME NEW i \in steps + 1 .. steps + c
        PROVE  i \in 1 .. steps + c /\ ~(i <= steps) /\ i - steps \in 1 .. c
    BY <1>2, <1>3
  <2>2. ASSUME NEW i \in 1 .. steps
        PROVE  i \in 1 .. steps + c /\ i <= steps
    BY <1>2, <1>3
  <2> QED
    BY <1>4, <1>6, <2>1, <2>2
<1>8. Stored' /\ Reading' /\ \A i \in 1 .. steps : values'[1][i] = values[1][i]
  <2>1. steps <= Len(rows) /\ values' = [values EXCEPT ![k] = rows]
    BY <1>1, <1>2, <1>3, <1>5, <1>6
  <2> QED
    BY <1>1, <1>2, <1>6, <1>7, <2>1, OneArray
<1>9. values'[k] = rows /\ \A v \in Vars : v # k => values'[v] = values[v]
  BY <1>1, <1>2, <1>5 DEF SourceInv, Stored
<1>10. /\ DOMAIN job' = Threads /\ DOMAIN job'["steps"] = DOMAIN Idle
       /\ job'["steps"].n = steps /\ job'["steps"].row = x /\ job'["steps"].count = c
       /\ \/ k < NVars /\ job'["steps"].pc = "cutValues" /\ job'["steps"].k = k + 1
          \/ ~(k < NVars) /\ job'["steps"].pc \in {"cutSamples", "commit"}
  BY <1>0, <1>1, <1>2 DEF NextArray, Goto, SourceInv, Stepping, Idle, Threads
<1>11. Stepping'
  BY <1>1, <1>2, <1>3, <1>10 DEF Stepping, Adding, Vars
<1>12. \A v \in Vars : v < k => HasRows(v)
  BY <1>0, <1>1 DEF SourceInv, Placed
<1>13. ASSUME NEW v \in Vars, v < k PROVE HasRows(v)'
  <2>1. HasRows(v) /\ values'[v] = values[v]
    BY <1>2, <1>9, <1>12, <1>13 DEF Vars
  <2> QED
    BY <1>0, <1>1, <1>10, <2>1 DEF HasRows
<1>14. \A v \in Vars : v = k => HasRows(v)'
  BY <1>1, <1>2, <1>3, <1>6, <1>7, <1>9, <1>10 DEF HasRows
<1>15. \A v \in Vars : v < k + 1 => HasRows(v)'
  BY <1>2, <1>13, <1>14 DEF Vars
<1>16. ~(k < NVars) => \A v \in Vars : HasRows(v)'
  BY <1>2, <1>15 DEF Vars
<1>17. Placed'
  BY <1>10, <1>15, <1>16 DEF Placed
<1> QED
  BY <1>1, <1>8, <1>11, <1>17 DEF SourceInv

LEMMA CommitStepsStep ==
  ASSUME SourceInv, CommitSteps
  PROVE  /\ SourceInv' /\ UNCHANGED <<values, sourceSnap>>
         /\ \E x \in Values, n \in 1 .. MaxAppend :
              /\ steps' = steps + n
              /\ \A i \in steps + 1 .. steps + n : values[1][i] = x
<1>0. PICK x, c : x = job["steps"].row /\ c = job["steps"].count
  OBVIOUS
<1>1. /\ UNCHANGED <<values, sourceSnap, sourceNew, refresh>>
      /\ job["steps"].pc = "commit" /\ steps' = job["steps"].n + c
  BY <1>0 DEF CommitSteps, sourceRead, At
<1>2. /\ x \in Values /\ c \in 1 .. MaxAppend /\ job["steps"].n = steps /\ steps' = steps + c
      /\ steps \in Nat /\ MaxAppend \in Nat /\ 1 \in Vars
  BY <1>0, <1>1, SourceTypes DEF SourceInv, Stepping, Adding
<1>3. ASSUME NEW v \in Vars
      PROVE  steps + c <= Len(values[v]) /\ \A i \in steps + 1 .. steps + c : values[v][i] = x
  BY <1>0, <1>1, <1>3 DEF SourceInv, Placed, Adding, HasRows
<1>4. \A i \in 1 .. steps + c : i \in 1 .. steps \/ i \in steps + 1 .. steps + c
  BY <1>2
<1>5. \A v \in Vars : \A i \in 1 .. steps + c : values[v][i] = values[1][i]
  BY <1>2, <1>3, <1>4 DEF SourceInv, Stored, Agree
<1>6. Stored'
  BY <1>1, <1>2, <1>3, <1>5 DEF SourceInv, Stored, Agree
<1>7. Reading'
  BY <1>1, <1>2 DEF SourceInv, Reading
<1>8. /\ DOMAIN job' = Threads /\ DOMAIN job'["steps"] = DOMAIN Idle
      /\ job'["steps"].pc \in {"sample", "sampled"}
  BY DEF CommitSteps, SourceInv, Stepping, Idle, Threads
<1>9. Stepping' /\ Placed'
  BY <1>8 DEF Stepping, Placed, Adding
<1> QED
  BY <1>1, <1>2, <1>3, <1>6, <1>7, <1>9 DEF SourceInv
-----------------------------------------------------------------------------
(* CreateWeather, and the source's part in PutParcels.                      *)
LEMMA SourceAdminStep ==
  ASSUME SourceInv, CreateWeather \/ DescribeSource \/ RegisterSource \/ OpenSource \/ SampleParcels
  PROVE  SourceInv' /\ SourceStays
BY SourceBeside DEF CreateWeather, DescribeSource, RegisterSource, OpenSource, SampleParcels, SourceStays,
   sourceVars, sourceStore, sourceRead, Goto, SourceInv, Stepping, Threads

(* Refresh: it read the steps before the arrays, which have as many.        *)
LEMMA SourceRefreshStep ==
  ASSUME SourceInv, RefreshSource \/ RefreshValues \/ RefreshSamples \/ RefreshSampleArrays
  PROVE  SourceInv' /\ UNCHANGED <<values, steps>> /\ sourceSnap.steps <= sourceSnap'.steps
<1>1. UNCHANGED <<values, steps, job>>
  BY DEF RefreshSource, RefreshValues, RefreshSamples, RefreshSampleArrays, sourceStore
<1>2. Stored' /\ Stepping' /\ Placed'
  BY <1>1 DEF SourceInv, Stored, Agree, Stepping, Placed, Adding, HasRows
<1>3. steps \in Nat /\ sourceSnap.steps \in 0 .. steps /\ sourceNew.steps \in 0 .. steps
  BY SourceTypes DEF SourceInv, Reading
<1>4. ASSUME NEW pc \in {"values", "samples", "sampleArrays", "idle"}, RefreshGoes(pc)
      PROVE  DOMAIN refresh' = DOMAIN refresh /\ refresh'.pc = pc
  BY <1>4 DEF RefreshGoes, Found, SourceInv, Reading
<1>5. NoSource.steps = 0
  BY DEF NoSource
<1>6. CASE RefreshSource
  <2>1. /\ sourceSnap' = sourceSnap
        /\ \/ sourceNew' = [NoSource EXCEPT !.open = TRUE, !.steps = steps] /\ RefreshGoes("values")
           \/ sourceNew' = sourceNew /\ RefreshGoes("idle")
    BY <1>6 DEF RefreshSource
  <2>2. CASE sourceNew' = [NoSource EXCEPT !.open = TRUE, !.steps = steps] /\ RefreshGoes("values")
    BY <2>2, <1>1, <1>2, <1>3, <1>4, <2>1 DEF NoSource, SourceInv, Reading
  <2>3. CASE sourceNew' = sourceNew /\ RefreshGoes("idle")
    BY <1>1, <1>2, <1>3, <1>4, <2>1, <2>3 DEF SourceInv, Reading
  <2> QED
    BY <2>1, <2>2, <2>3
<1>7. CASE RefreshValues
  BY <1>7, <1>3, ShortestIsAll, <1>1, <1>2, <1>4 DEF RefreshValues, SourceInv, Reading, NoSource
<1>8. CASE RefreshSamples
  <2>1. PICK g, n : /\ refresh.pc = "samples"
                    /\ sourceNew' = IF g = 0 THEN NoSource
                                    ELSE [sourceNew EXCEPT !.gen = g, !.pwSteps = n]
                    /\ sourceSnap' = IF g = 0 THEN sourceNew ELSE sourceSnap
                    /\ RefreshGoes(IF g = 0 THEN "idle" ELSE "sampleArrays")
    BY <1>8 DEF RefreshSamples
  <2>2. sourceSnap.steps <= sourceNew.steps
    BY <2>1 DEF SourceInv, Reading
  <2>3. CASE g = 0
    BY <1>1, <1>2, <1>3, <1>4, <1>5, <2>1, <2>2, <2>3 DEF SourceInv, Reading
  <2>4. CASE g # 0
    BY <2>1, <2>4, <1>1, <1>2, <1>3, <1>4, <2>2 DEF SourceInv, Reading, NoSource
  <2> QED
    BY <2>3, <2>4
<1>9. CASE RefreshSampleArrays
  BY <1>9, <1>1, <1>2, <1>3, <1>4, <1>5 DEF RefreshSampleArrays, SourceInv, Reading
<1> QED
  BY <1>6, <1>7, <1>8, <1>9
-----------------------------------------------------------------------------
(* A step of Next keeps the steps and the reader's, commits some more, or   *)
(* gives the reader a snapshot of as many or more.                          *)
StepsStay ==
  UNCHANGED <<steps, sourceSnap>> /\ \A i \in 1 .. steps : values'[1][i] = values[1][i]
StepsAdded ==
  /\ UNCHANGED <<values, sourceSnap>>
  /\ \E x \in Values, n \in 1 .. MaxAppend :
       steps' = steps + n /\ \A i \in steps + 1 .. steps + n : values[1][i] = x
StepsRead == UNCHANGED <<values, steps>> /\ sourceSnap.steps <= sourceSnap'.steps

LEMMA SourceStep ==
  ASSUME SourceInv, SourceNext
  PROVE  SourceInv' /\ (StepsStay \/ StepsAdded \/ StepsRead)
<1>1. CASE \E t \in {"steps", "admin"} : SamplingNext(t)
  BY <1>1, SamplingAlong, SamplingBeside, SamplingStays DEF StepsStay, SourceStays
<1>2. CASE AppendSteps
  BY <1>2, AppendStepsStep DEF StepsStay, SourceStays
<1>3. CASE CutValues
  BY <1>3, CutValuesStep DEF StepsStay
<1>4. CASE PutValues
  BY <1>4, PutValuesStep DEF StepsStay
<1>5. CASE CommitSteps
  BY <1>5, CommitStepsStep DEF StepsAdded
<1>6. CASE CreateWeather \/ DescribeSource \/ RegisterSource \/ OpenSource \/ SampleParcels
  BY <1>6, SourceAdminStep DEF StepsStay, SourceStays
<1>7. CASE RefreshSource \/ RefreshValues \/ RefreshSamples \/ RefreshSampleArrays
  BY <1>7, SourceRefreshStep DEF StepsRead
<1> QED
  BY <1>1, <1>2, <1>3, <1>4, <1>5, <1>6, <1>7 DEF SourceNext, SamplingNext

LEMMA SourceNextStep ==
  ASSUME SourceInv, [Next]_vars
  PROVE  SourceInv' /\ (StepsStay \/ StepsAdded \/ StepsRead)
<1>1. CASE SourceNext
  BY <1>1, SourceStep
<1>2. CASE TileNext /\ UNCHANGED sourceVars
  BY <1>2, SourceTileStep DEF StepsStay, sourceVars, sourceStore, sourceRead
<1>3. CASE ParcelsNext
  BY <1>3, SourceParcelsStep DEF ParcelsNext, StepsStay, sourceVars, sourceStore, sourceRead
<1>4. CASE Restart
  BY <1>4, SourceRestartStep DEF Restart, RestartSource, StepsStay, sourceStore, sourceRead
<1>5. CASE UNCHANGED vars
  BY <1>5, SourceBeside DEF vars, sourceVars, sourceStore, sourceRead, parcelVars, SourceStays, SourceInv,
     Stepping, StepsStay
<1> QED
  BY <1>1, <1>2, <1>3, <1>4, <1>5 DEF Next

(* What is stored and known of a source stays in step: the inductive        *)
(* invariant (weather.go:161-218, 252-305).                                 *)
THEOREM SourceInStep == Spec => []SourceInv
<1>1. Init => SourceInv
  BY InitSourceInv
<1>2. SourceInv /\ [Next]_vars => SourceInv'
  BY SourceNextStep
<1> QED
  BY <1>1, <1>2, PTL DEF Spec
-----------------------------------------------------------------------------
(* What was committed is what any of the arrays says.                       *)
FirstRows(n) == [i \in 1 .. n |-> values[1][i]]

LEMMA EntriesAreRows ==
  SourceInv => /\ Entries(values, steps) = FirstRows(steps)
               /\ Entries(values, sourceSnap.steps) = FirstRows(sourceSnap.steps)
<1> SUFFICES ASSUME SourceInv, NEW n \in 0 .. steps
             PROVE  Entries(values, n) = FirstRows(n)
  BY SourceTypes DEF SourceInv, Reading
<1>1. ASSUME NEW i \in 1 .. n, NEW v \in Vars
      PROVE  i <= Len(values[v]) /\ values[v][i] = values[1][i]
  BY SourceTypes DEF SourceInv, Stored, Agree
<1> QED
  BY <1>1 DEF Entries, FirstRows

LEMMA FirstRowsAre ==
  ASSUME SourceInv, NEW n \in 0 .. steps
  PROVE  /\ FirstRows(n) \in Seq(Values) /\ Len(FirstRows(n)) = n
         /\ \A i \in 1 .. n : FirstRows(n)[i] = values[1][i]
BY SourceTypes, ElementOfSeq DEF SourceInv, Stored, Agree, FirstRows

(* The steps of a source are a log of them, and a reader's a prefix of it   *)
(* that only grows (weather.go:161-218, 252-305).                           *)
THEOREM SourceImplementsLog == Spec => SourceLog!Spec
<1> DEFINE log == Entries(values, steps)
           view == Entries(values, sourceSnap.steps)
<1>1. Init => SourceLog!Init
  <2> SUFFICES ASSUME Init PROVE SourceLog!Init
    OBVIOUS
  <2>1. steps = 0 /\ sourceSnap.steps = 0
    BY DEF Init, InitSource, NoSource
  <2>2. log = <<>> /\ view = <<>>
    BY <2>1 DEF Entries
  <2> QED
    BY <2>2 DEF SourceLog!Init
<1>2. (SourceInv => /\ Entries(values, steps) = FirstRows(steps)
                    /\ Entries(values, sourceSnap.steps) = FirstRows(sourceSnap.steps))'
  BY EntriesAreRows, PTL
<1>3. SourceInv /\ [Next]_vars => [SourceLog!Next]_<<log, view>>
  <2> SUFFICES ASSUME SourceInv, [Next]_vars
               PROVE  [SourceLog!Next]_<<log, view>>
    OBVIOUS
  <2>1. log = FirstRows(steps) /\ view = FirstRows(sourceSnap.steps)
    BY EntriesAreRows
  <2>2. SourceInv'
    BY SourceNextStep
  <2>3. /\ log' = [i \in 1 .. steps' |-> values'[1][i]]
        /\ view' = [i \in 1 .. sourceSnap'.steps |-> values'[1][i]]
    BY <1>2, <2>2 DEF FirstRows
  <2>4. steps \in Nat /\ sourceSnap.steps \in 0 .. steps /\ steps' \in Nat /\ sourceSnap'.steps \in 0 .. steps'
    BY <2>2 DEF SourceInv, Stored, Reading
  <2>5. CASE StepsStay
    BY <2>4, <2>1, <2>3, <2>5 DEF StepsStay, FirstRows
  <2>6. ASSUME StepsAdded
        PROVE  SourceLog!Next
    <3>1. PICK x \in Values, n \in 1 .. MaxAppend :
            steps' = steps + n /\ \A i \in steps + 1 .. steps + n : values[1][i] = x
      BY <2>6 DEF StepsAdded
    <3>2. n \in Nat
      BY <3>1
    <3>3. PICK new : new = [i \in 1 .. n |-> x]
      OBVIOUS
    <3>4. new \in [1 .. n -> Values] /\ new \in Seq(Values) /\ Len(new) = n
      BY <3>2, <3>3
    <3>5. PICK before : before = FirstRows(steps)
      OBVIOUS
    <3>6. /\ before \in Seq(Values) /\ Len(before) = steps
          /\ \A i \in 1 .. steps : before[i] = values[1][i]
      BY <2>4, <3>5, FirstRowsAre
    <3>7. /\ before \o new \in Seq(Values) /\ Len(before \o new) = steps + n
          /\ \A i \in 1 .. steps + n :
               (before \o new)[i] = IF i <= steps THEN before[i] ELSE new[i - steps]
      BY <3>4, <3>6, ConcatProperties
    <3>8. before \o new = [i \in 1 .. steps + n |-> (before \o new)[i]]
      BY <3>7, LenProperties
    <3>9. ASSUME NEW i \in 1 .. steps + n
          PROVE  (before \o new)[i] = values[1][i]
      <4>1. CASE i <= steps
        BY <2>4, <3>6, <3>7, <4>1
      <4>2. CASE ~(i <= steps)
        BY <2>4, <3>2, <4>2, <3>1, <3>3, <3>7
      <4> QED
        BY <4>1, <4>2
    <3>10. log' = log \o new
      <4>1. log' = [i \in 1 .. steps + n |-> values[1][i]]
        BY <2>3, <2>6, <3>1 DEF StepsAdded
      <4>2. before \o new = [i \in 1 .. steps + n |-> values[1][i]]
        BY <3>8, <3>9
      <4>3. log = before
        BY <2>1, <3>5
      <4> HIDE DEF log
      <4> QED
        BY <4>1, <4>2, <4>3
    <3>11. view' = view
      BY <2>1, <2>3, <2>6 DEF StepsAdded, FirstRows
    <3>12. SourceLog!Commit
      BY <3>4, <3>10, <3>11 DEF SourceLog!Commit
    <3> QED
      BY <3>12 DEF SourceLog!Next
  <2>7. ASSUME StepsRead
        PROVE  SourceLog!Next
    <3>1. PICK m, n : m = sourceSnap.steps /\ n = sourceSnap'.steps
      OBVIOUS
    <3>2. m \in Nat /\ n \in Nat /\ m <= n /\ n <= steps
      BY <2>4, <2>7, <3>1 DEF StepsRead
    <3>3. PICK rows : rows = FirstRows(steps)
      OBVIOUS
    <3>4. /\ rows \in Seq(Values) /\ Len(rows) = steps
          /\ \A i \in 1 .. steps : rows[i] = values[1][i]
      BY <2>4, <3>3, FirstRowsAre
    <3>5. \A i \in 1 .. n : rows[i] \in Values /\ rows[i] = values[1][i]
      BY <2>4, <3>2, <3>4, ElementOfSeq
    <3>6. /\ SubSeq(rows, 1, n) \in Seq(Values)
          /\ Len(SubSeq(rows, 1, n)) = IF 1 <= n THEN n - 1 + 1 ELSE 0
          /\ \A i \in 1 .. n - 1 + 1 : SubSeq(rows, 1, n)[i] = rows[1 + i - 1]
      BY <3>2, <3>5, SubSeqProperties
    <3>7. Len(SubSeq(rows, 1, n)) = n /\ \A i \in 1 .. n : SubSeq(rows, 1, n)[i] = values[1][i]
      BY <3>2, <3>5, <3>6
    <3>8. SubSeq(rows, 1, n) = [i \in 1 .. n |-> SubSeq(rows, 1, n)[i]]
      BY <3>6, <3>7, LenProperties
    <3>9. view' = SubSeq(log, 1, n) /\ log' = log
      <4>1. view' = [i \in 1 .. n |-> values[1][i]] /\ log' = [i \in 1 .. steps |-> values[1][i]]
        BY <2>3, <2>7, <3>1 DEF StepsRead
      <4>2. SubSeq(rows, 1, n) = [i \in 1 .. n |-> values[1][i]]
        BY <3>7, <3>8
      <4>3. log = rows /\ log = [i \in 1 .. steps |-> values[1][i]]
        BY <2>1, <3>3 DEF FirstRows
      <4> HIDE DEF log, view
      <4> QED
        BY <4>1, <4>2, <4>3
    <3>10. Len(view) = m /\ Len(log) = steps
      BY <2>1, <2>4, <3>1, FirstRowsAre
    <3>11. n \in Len(view) .. Len(log)
      BY <2>4, <3>2, <3>10
    <3>12. SourceLog!Refresh
      BY <3>9, <3>11 DEF SourceLog!Refresh
    <3> QED
      BY <3>12 DEF SourceLog!Next
  <2> QED
    BY <2>5, <2>6, <2>7, SourceNextStep
<1> QED
  BY <1>1, <1>3, SourceInStep, PTL DEF Spec, SourceLog!Spec
-----------------------------------------------------------------------------
(* The scenes of a tile and the steps of a source are logs of what was      *)
(* committed whole, and their readers' snapshots prefixes of them that only *)
(* grow (doc.go:57-73).                                                     *)
THEOREM LogsImplemented == Spec => ImplementsLogs
BY TileImplementsLog, SourceImplementsLog DEF ImplementsLogs
-----------------------------------------------------------------------------
(* The types of the state that the tile and the parcels have.               *)
Sets == [gen : Gens \cup {0}, prev : Gens \cup {0}]
IsState(s) ==
  /\ DOMAIN s = DOMAIN NoTile /\ s.open \in BOOLEAN /\ s.gen \in Gens \cup {0}
  /\ DOMAIN s.statsN = Vars /\ \A v \in Vars : s.statsN[v] \in Nat /\ s.statsN[v] <= Len(s.times)
  /\ \A v \in Vars : s.shape[v] \in Nat /\ (s.gen = 0 => s.statsN[v] = 0)

Shared ==
  /\ current \in Sets /\ parcels \in Sets /\ refresh.set \in Sets /\ refresh.parcels \in Sets
  /\ kept \subseteq Gens
  /\ \A t \in Threads : job[t].set \in Sets /\ job[t].k \in Vars /\ DOMAIN job[t] = DOMAIN Idle
  /\ job["admin"].next \in {"end", "sources"}
  /\ lock \in [{"tile", "source"} -> Threads \cup {"free"}]
  /\ left \in [create : SUBSET {"tile", "source"}, made : BOOLEAN, fails : Nat, puts : Nat, rows : Nat]
  /\ left.puts <= (IF left.made THEN MaxGens - 1 ELSE MaxGens)
OfTile ==
  /\ tile \in {"none", "begun", "described", "registered"}
  /\ index \in [Gens -> {"none", "begun", "done"}] /\ stats \in [Gens -> [Vars -> Seq(Time)]]
  /\ IsState(state) /\ IsState(tileSnap) /\ IsState(tileNew)
TileTyped == Shared /\ OfTile

(* Only who holds the lock is at what changes the state, once there is one. *)
Subroutines == {"index", "make", "finish", "drop", "reload", "fill", "filled"}
Alone ==
  /\ job["scenes"].pc # "idle" => lock["tile"] = "scenes" /\ state.open
  /\ job["admin"].pc \in Subroutines => lock["tile"] = "admin" /\ state.open
  /\ state.open => tile = "registered"
  /\ job["admin"].pc \in {"describe", "register", "open"} => ~state.open
  /\ job["admin"].pc = "open" => tile = "registered"
-----------------------------------------------------------------------------
(* What the steps of a goroutine leave alone, and where they lead.          *)
LEMMA GotoIs ==
  ASSUME DOMAIN job = Threads, NEW t \in Threads, DOMAIN job[t] = DOMAIN Idle, NEW pc, Goto(t, pc)
  PROVE  /\ DOMAIN job' = Threads /\ DOMAIN job'[t] = DOMAIN Idle
         /\ job'[t].pc = pc /\ job'[t].k = 1 /\ job'[t].next = job[t].next
         /\ job'[t].set = job[t].set /\ job'[t].row = job[t].row
         /\ \A u \in Threads : u # t => job'[u] = job[u]
BY DEF Goto, Idle

LEMMA CallIs ==
  ASSUME DOMAIN job = Threads, NEW t \in Threads, DOMAIN job[t] = DOMAIN Idle, NEW pc, NEW next, Call(t, pc, next)
  PROVE  /\ DOMAIN job' = Threads /\ DOMAIN job'[t] = DOMAIN Idle
         /\ job'[t].pc = pc /\ job'[t].k = 1 /\ job'[t].next = next
         /\ job'[t].set = parcels /\ job'[t].row = job[t].row
         /\ \A u \in Threads : u # t => job'[u] = job[u]
BY DEF Call, Idle

LEMMA ReturnIs ==
  ASSUME DOMAIN job = Threads, NEW t \in Threads, lock \in [{"tile", "source"} -> Threads \cup {"free"}], Return(t)
  PROVE  /\ DOMAIN job' = Threads /\ job'[t] = Idle /\ \A u \in Threads : u # t => job'[u] = job[u]
         /\ lock' \in [{"tile", "source"} -> Threads \cup {"free"}]
         /\ lock["tile"] # t => lock'["tile"] = lock["tile"]
BY DEF Return, Unlocked

(* A state that was loaded is typed.                                        *)
LEMMA NoTileTyped == IsState(NoTile)
BY EmptySeq DEF IsState, NoTile

LEMMA StatsNIs ==
  ASSUME TileTyped, NEW g \in Gens \cup {0}, NEW n \in Nat
  PROVE  /\ DOMAIN StatsN(g, n) = Vars
         /\ \A v \in Vars : /\ StatsN(g, n)[v] = IF g = 0 THEN 0 ELSE Min(n, Len(stats[g][v]))
                            /\ StatsN(g, n)[v] \in Nat /\ StatsN(g, n)[v] <= n
BY LenProperties DEF TileTyped, OfTile, StatsN, Min

LEMMA LoadedIs ==
  ASSUME TileInv, TileTyped, NEW set \in Sets
  PROVE  /\ IsState(Loaded(set)) /\ Loaded(set).open /\ Loaded(set).gen \in {0, set.gen}
         /\ Loaded(set).times = times
         /\ Loaded(set).gen # 0 => \A v \in Vars : Loaded(set).statsN[v] = Min(Len(times), Len(stats[Loaded(set).gen][v]))
<1> DEFINE g == IndexedFor(set)
<1>1. g \in {0, set.gen} /\ g \in Gens \cup {0}
  BY DEF IndexedFor, Sets
<1>2. /\ Loaded(set).open /\ Loaded(set).gen = g /\ Loaded(set).statsN = StatsN(g, Len(times))
      /\ Loaded(set).times = times /\ DOMAIN Loaded(set) = DOMAIN NoTile /\ Loaded(set).shape = Shape(scenes)
  BY DEF Loaded, NoTile
<1> HIDE DEF g
<1>3. \A v \in Vars : Shape(scenes)[v] \in Nat
  BY LenProperties DEF Shape, TileInv
<1> QED
  BY <1>1, <1>2, <1>3, StatsNIs, TimesTyped DEF IsState
-----------------------------------------------------------------------------
(* The types of what begins.                                                *)
LEMMA InitTyped ==
  ASSUME Init
  PROVE  TileTyped /\ Alone
<1>1. /\ left \in Plans /\ times = <<>> /\ stats = [g \in Gens |-> NoRows] /\ tileSnap = NoTile /\ tileNew = NoTile
      /\ job = [t \in Threads |-> Idle] /\ current = FirstSet /\ parcels = FirstSet /\ kept = IF Made THEN {1} ELSE {}
      /\ refresh = [pc |-> "idle", set |-> NoSet, found |-> {}, parcels |-> NoSet]
      /\ lock = [n \in {"tile", "source"} |-> "free"]
      /\ index = [g \in Gens |-> IF MadeTile /\ g = 1 THEN "done" ELSE "none"]
      /\ state = IF MadeTile THEN [NoTile EXCEPT !.open = TRUE, !.gen = 1] ELSE NoTile
      /\ tile = IF MadeTile THEN "registered" ELSE "none"
  BY DEF Init, InitParcels, InitTile
<1>2. /\ left \in [create : SUBSET {"tile", "source"}, made : BOOLEAN, fails : Nat, puts : Nat, rows : Nat]
      /\ left.puts <= (IF left.made THEN MaxGens - 1 ELSE MaxGens) /\ MaxGens \in Nat
      /\ left.made => 1 \in Gens
  BY <1>1, GeodbAssumption DEF Gens
<1>3. stats \in [Gens -> [Vars -> Seq(Time)]]
  BY <1>1 DEF NoRows
<1>4. FirstSet \in Sets /\ NoSet \in Sets /\ (Made => FirstSet.gen = 1)
  BY <1>2 DEF FirstSet, NoSet, Sets, Made
<1>5. IsState(state) /\ (state.open => MadeTile)
  <2>1. CASE MadeTile
    BY <1>1, <1>2, <2>1, NoTileTyped DEF MadeTile, Made, NoTile, IsState
  <2>2. CASE ~MadeTile
    BY <1>1, <2>2, NoTileTyped DEF NoTile
  <2> QED
    BY <2>1, <2>2
<1>6. \A t \in Threads : job[t] = Idle
  BY <1>1
<1>7. Shared
  BY GeodbAssumption, <1>1, <1>2, <1>4, <1>6 DEF Vars, Made, Shared, Threads, Idle
<1>8. OfTile
  BY <1>1, <1>3, <1>5, NoTileTyped DEF OfTile
<1>9. Alone
  BY <1>1, <1>5, <1>6 DEF Alone, Threads, Idle, Subroutines
<1> QED
  BY <1>7, <1>8, <1>9 DEF TileTyped
-----------------------------------------------------------------------------
(* A step of the goroutine t, and one of it that has not to do with a tile. *)
Moves(t) ==
  /\ DOMAIN job' = Threads /\ \A u \in Threads : u # t => job'[u] = job[u]
  /\ DOMAIN job'[t] = DOMAIN Idle /\ job'[t].k \in Vars
  /\ job'[t].set \in {job[t].set, parcels, NoSet}
  /\ t = "admin" => job'[t].next \in {job[t].next, "end"}
Apart(t) == t = "admin" => job'[t].pc \notin Subroutines \cup {"describe", "register", "open", "current"}

LEMMA GotoMoves ==
  ASSUME TileInv, TileTyped, NEW t \in Threads, NEW pc, Goto(t, pc)
  PROVE  Moves(t) /\ job'[t].pc = pc
BY GotoIs, TimesTyped DEF TileInv, Job, TileTyped, Shared, Moves

LEMMA NextArrayMoves ==
  ASSUME TileInv, TileTyped, NEW t \in Threads, NEW pc, NEW done, NextArray(t, pc, done)
  PROVE  Moves(t) /\ job'[t].pc \in {pc, done}
<1>1. DOMAIN job = Threads /\ DOMAIN job[t] = DOMAIN Idle /\ job[t].k \in Vars
  BY DEF TileInv, Job, TileTyped, Shared
<1>2. CASE job[t].k < NVars
  BY <1>2, <1>1, TimesTyped DEF NextArray, Idle, Vars, Moves
<1>3. CASE ~(job[t].k < NVars)
  BY <1>3, GotoMoves DEF NextArray
<1> QED
  BY <1>2, <1>3

LEMMA SamplingMoves ==
  ASSUME TileInv, TileTyped, NEW t \in {"steps", "admin"}, SamplingNext(t)
  PROVE  Moves(t) /\ Apart(t) /\ UNCHANGED <<current, kept, parcels, lock, refresh, left>>
<1>1. DOMAIN job = Threads /\ DOMAIN job[t] = DOMAIN Idle /\ job[t].k \in Vars /\ t \in Threads /\ 1 \in Vars
  BY TimesTyped DEF TileInv, Job, TileTyped, Shared, Threads
<1>2. UNCHANGED <<current, kept, parcels, lock, refresh, left>>
  BY DEF SamplingNext, CutSamples, PutSamples, MarkSamples, Sample, Sampling, SamplingEnds,
         DeleteSamples, MakeSamples, ReadySamples, DropSamples, SetUpDone
<1>3. CASE CutSamples(t)
  BY <1>3, <1>1, <1>2 DEF CutSamples, Moves, Apart, Subroutines, Idle
<1>4. CASE PutSamples(t)
  BY <1>4, <1>1, <1>2, NextArrayMoves DEF PutSamples, Apart, Subroutines
<1>5. CASE MarkSamples(t)
  <2>1. CASE Goto(t, "commit")
    BY <1>1, <1>2, <2>1, GotoMoves DEF Apart, Subroutines
  <2>2. CASE job' = [job EXCEPT ![t].pc = "sampling", ![t].n = job[t].n + job[t].count, ![t].k = 1]
    BY <1>1, <1>2, <2>2 DEF Moves, Apart, Subroutines, Idle
  <2> QED
    BY <1>5, <2>1, <2>2 DEF MarkSamples
<1>6. CASE Sample(t)
  <2>1. PICK pc \in {"sampling", "setUp"} :
          job' = [job EXCEPT ![t].set = parcels, ![t].n = wstate'.pwSteps, ![t].row = 0, ![t].k = 1, ![t].pc = pc]
    BY <1>6 DEF Sample
  <2>2. /\ DOMAIN job' = Threads /\ DOMAIN job'[t] = DOMAIN Idle /\ \A u \in Threads : u # t => job'[u] = job[u]
        /\ job'[t].pc = pc /\ job'[t].k = 1 /\ job'[t].set = parcels /\ job'[t].next = job[t].next
    BY <1>1, <2>1 DEF Idle
  <2> QED
    BY <1>1, <1>2, <2>2 DEF Moves, Apart, Subroutines
<1>7. CASE Sampling(t)
  <2>1. CASE Goto(t, "sampled")
    BY <1>1, <1>2, <2>1, GotoMoves DEF Apart, Subroutines
  <2>2. CASE \E n : job' = [job EXCEPT ![t].pc = "cutSamples", ![t].count = n]
    <3>1. PICK n : job' = [job EXCEPT ![t].pc = "cutSamples", ![t].count = n]
      BY <2>2
    <3> QED
      BY <1>1, <1>2, <3>1 DEF Moves, Apart, Subroutines, Idle
  <2> QED
    BY <1>7, <2>1, <2>2 DEF Sampling
<1>8. CASE SamplingEnds(t) \/ DeleteSamples(t) \/ MakeSamples(t) \/ ReadySamples(t) \/ DropSamples(t)
  <2>1. PICK pc \in {"end", "makeSamples", "readySamples", "dropSamples", "setUpDone"} : Goto(t, pc)
    BY <1>8 DEF SamplingEnds, DeleteSamples, MakeSamples, ReadySamples, DropSamples
  <2> QED
    BY <1>1, <1>2, <2>1, GotoMoves DEF Apart, Subroutines
<1>9. CASE SetUpDone(t)
  BY <1>9, <1>1, <1>2 DEF SetUpDone, Moves, Apart, Subroutines, Idle
<1> QED
  BY <1>3, <1>4, <1>5, <1>6, <1>7, <1>8, <1>9 DEF SamplingNext

(* The source's steps.                                                      *)
LEMMA SourceMoves ==
  ASSUME TileInv, TileTyped, SourceNext
  PROVE  /\ \E t \in {"steps", "admin"} : Moves(t) /\ (job' # job => Apart(t))
         /\ UNCHANGED <<current, kept, parcels, left>> /\ lock'["tile"] = lock["tile"]
         /\ lock' \in [{"tile", "source"} -> Threads \cup {"free"}]
         /\ refresh'.set = refresh.set /\ refresh'.parcels = refresh.parcels
<1>1. /\ DOMAIN job = Threads /\ \A t \in Threads : DOMAIN job[t] = DOMAIN Idle /\ job[t].k \in Vars
      /\ {"steps", "admin"} \subseteq Threads /\ 1 \in Vars
      /\ lock \in [{"tile", "source"} -> Threads \cup {"free"}]
  BY TimesTyped DEF TileInv, Job, TileTyped, Shared, Threads
<1>2. CASE \E t \in {"steps", "admin"} : SamplingNext(t)
  BY <1>1, <1>2, SamplingMoves
<1>3. CASE AppendSteps
  <2>1. PICK x, n, m : job' = [job EXCEPT !["steps"] = [Idle EXCEPT !.pc = "cutValues", !.n = m, !.row = x, !.count = n]]
    BY <1>3 DEF AppendSteps
  <2>2. Moves("steps")
    BY <1>1, <2>1 DEF Moves, Idle, NoSet
  <2>3. UNCHANGED <<current, kept, parcels, left, refresh>> /\ lock' = [lock EXCEPT !["source"] = "steps"]
    BY <1>3 DEF AppendSteps
  <2> QED
    BY <1>1, <2>2, <2>3 DEF Apart
<1>4. CASE CutValues
  BY <1>4, <1>1 DEF CutValues, Moves, Apart, Idle
<1>5. CASE PutValues
  BY <1>5, <1>1, NextArrayMoves DEF PutValues, Apart
<1>6. CASE CommitSteps
  BY <1>6, <1>1 DEF CommitSteps, Moves, Apart, Idle, NoSet
<1>7. CASE CreateWeather \/ DescribeSource \/ RegisterSource \/ OpenSource
  BY <1>7, <1>1, GotoMoves DEF CreateWeather, DescribeSource, RegisterSource, OpenSource, Apart, Subroutines
<1>8. CASE SampleParcels
  BY <1>8, <1>1, GotoMoves DEF SampleParcels, Apart, Subroutines
<1>9. CASE RefreshSource \/ RefreshValues \/ RefreshSamples \/ RefreshSampleArrays
  BY <1>9, <1>1 DEF RefreshSource, RefreshValues, RefreshSamples, RefreshSampleArrays, Moves, RefreshGoes,
     TileInv, Refreshing
<1> QED
  BY <1>2, <1>3, <1>4, <1>5, <1>6, <1>7, <1>8, <1>9 DEF SourceNext, SamplingNext
-----------------------------------------------------------------------------
(* The types after a step, and that who is at a tile holds its lock.        *)
LEMMA SharedMoves ==
  ASSUME Shared, NEW t \in Threads, Moves(t), UNCHANGED <<current, kept, parcels, left>>,
         lock' \in [{"tile", "source"} -> Threads \cup {"free"}], refresh'.set \in Sets, refresh'.parcels \in Sets
  PROVE  Shared'
BY DEF NoSet, Sets, Shared, Moves, Threads

LEMMA TileStays ==
  ASSUME OfTile, UNCHANGED <<tile, index, stats, state, tileSnap, tileNew>>
  PROVE  OfTile'
BY DEF OfTile, IsState

LEMMA AloneApart ==
  ASSUME Alone, NEW t \in {"steps", "admin"}, Moves(t), job' # job => Apart(t), UNCHANGED <<tile, state>>,
         lock'["tile"] = lock["tile"]
  PROVE  Alone'
BY DEF Alone, Moves, Apart, Threads

LEMMA SourceTyped ==
  ASSUME TileInv, TileTyped, Alone, SourceNext, UNCHANGED tileVars
  PROVE  TileTyped' /\ Alone'
<1>1. UNCHANGED <<tile, index, stats, state, tileSnap, tileNew>>
  BY DEF tileVars, tileStore, tileRead
<1>2. PICK t \in {"steps", "admin"} : Moves(t) /\ (job' # job => Apart(t))
  BY SourceMoves
<1>3. Shared'
  BY <1>2, SourceMoves, SharedMoves DEF TileTyped, Shared, Threads
<1> QED
  BY <1>1, <1>2, <1>3, SourceMoves, TileStays, AloneApart DEF TileTyped

(* Refresh, of the parcels.                                                 *)
LEMMA ReaderTyped ==
  ASSUME TileInv, Shared, UNCHANGED <<current, kept, parcels, job, lock, left>>,
         refresh'.set \in Sets, refresh'.parcels \in Sets
  PROVE  Shared'
BY DEF Shared

LEMMA ParcelsTyped ==
  ASSUME TileInv, TileTyped, Alone, ParcelsNext
  PROVE  TileTyped' /\ Alone'
<1>1. UNCHANGED <<tile, index, stats, state, tileSnap, tileNew>>
  BY DEF ParcelsNext, tileVars, tileStore, tileRead
<1>2. OfTile'
  BY <1>1, TileStays DEF TileTyped
<1>3. /\ Shared /\ DOMAIN job = Threads /\ \A t \in Threads : DOMAIN job[t] = DOMAIN Idle /\ job[t].k \in Vars
      /\ 1 \in Vars /\ "admin" \in Threads
  BY TimesTyped DEF TileInv, Job, TileTyped, Shared, Threads
<1>4. NoSet \in Sets
  BY DEF NoSet, Sets
<1>5. CASE PutParcels
  <2> DEFINE gen == MaxGens - left.puts + 1
             set == [gen |-> gen, prev |-> parcels.gen]
  <2>1. /\ left.puts > 0 /\ kept' = kept \cup {gen} /\ UNCHANGED <<current, parcels, lock, refresh>>
        /\ job' = [job EXCEPT !["admin"].pc = "current", !["admin"].next = "sources", !["admin"].set = set]
        /\ left' = [left EXCEPT !.puts = left.puts - 1]
    BY <1>5 DEF PutParcels
  <2>2. gen \in Gens /\ set \in Sets
    BY <1>3, <2>1, GeodbAssumption DEF Shared, Gens, Sets
  <2> HIDE DEF gen, set
  <2>3. /\ DOMAIN job' = Threads /\ DOMAIN job'["admin"] = DOMAIN Idle /\ job'["admin"].k = job["admin"].k
        /\ job'["admin"].pc = "current" /\ job'["admin"].next = "sources" /\ job'["admin"].set = set
        /\ \A u \in Threads : u # "admin" => job'[u] = job[u]
    BY <1>3, <2>1 DEF Idle
  <2>4. /\ left' \in [create : SUBSET {"tile", "source"}, made : BOOLEAN, fails : Nat, puts : Nat, rows : Nat]
        /\ left'.puts <= left.puts /\ left'.made = left.made
    BY <1>3, <2>1 DEF Shared
  <2>5. left'.puts <= (IF left'.made THEN MaxGens - 1 ELSE MaxGens)
    BY <1>3, <2>4, GeodbAssumption DEF Shared
  <2>6. \A t \in Threads : job'[t].set \in Sets /\ job'[t].k \in Vars /\ DOMAIN job'[t] = DOMAIN Idle
    BY <1>3, <2>2, <2>3 DEF Shared
  <2>7. kept' \subseteq Gens
    BY <1>3, <2>1, <2>2 DEF Shared
  <2>8. Shared'
    BY <1>3, <2>1, <2>3, <2>4, <2>5, <2>6, <2>7 DEF Shared
  <2>9. Alone'
    BY <1>1, <2>1, <2>3 DEF Alone, Subroutines, Threads
  <2> QED
    BY <1>2, <2>8, <2>9 DEF TileTyped
<1>6. CASE MakeCurrent \/ LoadParcels \/ DropParcels
  <2>1. /\ current' \in Sets /\ parcels' \in Sets /\ kept' \subseteq Gens /\ UNCHANGED <<lock, refresh, left>>
        /\ \E pc \in {"load", "dropParcels", "tiles"} : Goto("admin", pc)
    BY <1>3, <1>6 DEF MakeCurrent, LoadParcels, DropParcels, Shared
  <2>2. PICK pc \in {"load", "dropParcels", "tiles"} : Goto("admin", pc)
    BY <2>1
  <2>3. /\ DOMAIN job' = Threads /\ DOMAIN job'["admin"] = DOMAIN Idle
        /\ job'["admin"].pc = pc /\ job'["admin"].k = 1 /\ job'["admin"].next = job["admin"].next
        /\ job'["admin"].set = job["admin"].set
        /\ \A u \in Threads : u # "admin" => job'[u] = job[u]
    BY <1>3, <2>2, GotoIs
  <2>4. \A t \in Threads : job'[t].set \in Sets /\ job'[t].k \in Vars /\ DOMAIN job'[t] = DOMAIN Idle
    BY <1>3, <2>3 DEF Shared
  <2>5. Shared'
    BY <1>3, <2>1, <2>3, <2>4 DEF Shared
  <2>6. Alone'
    BY <1>1, <2>1, <2>3 DEF Alone, Subroutines, Threads
  <2> QED
    BY <1>2, <2>5, <2>6 DEF TileTyped
<1>7. CASE \E t \in Threads : End(t) \/ Fail(t)
  <2>1. PICK t \in Threads : /\ Return(t) /\ UNCHANGED <<current, kept, parcels, refresh>>
                             /\ left' = left \/ (left.fails > 0 /\ left' = [left EXCEPT !.fails = left.fails - 1])
    BY <1>7 DEF End, Fail
  <2>2. /\ DOMAIN job' = Threads /\ job'[t] = Idle /\ \A u \in Threads : u # t => job'[u] = job[u]
        /\ lock' \in [{"tile", "source"} -> Threads \cup {"free"}]
        /\ lock["tile"] # t => lock'["tile"] = lock["tile"]
    BY <1>3, <2>1, ReturnIs DEF Shared
  <2>3. Idle.pc = "idle" /\ Idle.set = NoSet /\ Idle.k = 1 /\ Idle.next = "end"
    BY DEF Idle
  <2>4. \A u \in Threads : job'[u].set \in Sets /\ job'[u].k \in Vars /\ DOMAIN job'[u] = DOMAIN Idle
    BY <1>3, <1>4, <2>2, <2>3 DEF Shared
  <2>5. job'["admin"].next \in {"end", "sources"}
    BY <1>3, <2>2, <2>3 DEF Shared
  <2>6. /\ left' \in [create : SUBSET {"tile", "source"}, made : BOOLEAN, fails : Nat, puts : Nat, rows : Nat]
        /\ left'.puts <= (IF left'.made THEN MaxGens - 1 ELSE MaxGens)
    BY <1>3, <2>1 DEF Shared
  <2>7. Shared'
    BY <1>3, <2>1, <2>2, <2>4, <2>5, <2>6 DEF Shared
  <2>8. Alone'
    BY <1>1, <2>2, <2>3 DEF Alone, Subroutines, Threads
  <2> QED
    BY <1>2, <2>7, <2>8 DEF TileTyped
<1>8. CASE RefreshParcels \/ RefreshFails \/ \E found : RefreshBegins(found)
  BY <1>3, <1>4, <1>8, <1>1, <1>2, ReaderTyped DEF RefreshParcels, RefreshFails, RefreshBegins, TileInv,
     Refreshing, Shared, Alone, TileTyped
<1> QED
  BY <1>5, <1>6, <1>7, <1>8 DEF ParcelsNext

LEMMA RestartTyped ==
  ASSUME TileInv, TileTyped, Restart
  PROVE  TileTyped' /\ Alone'
<1>1. /\ job' = [t \in Threads |-> Idle] /\ lock' = [n \in DOMAIN lock |-> "free"] /\ parcels' = current
      /\ left.fails > 0 /\ left' = [left EXCEPT !.fails = left.fails - 1] /\ UNCHANGED <<current, kept, refresh>>
      /\ state' = (IF tile = "registered" THEN Loaded(current) ELSE NoTile)
      /\ UNCHANGED <<tile, index, stats, tileSnap, tileNew>>
  BY DEF Restart, RestartParcels, RestartTile, tileStore, tileRead
<1>2. /\ left' \in [create : SUBSET {"tile", "source"}, made : BOOLEAN, fails : Nat, puts : Nat, rows : Nat]
      /\ left'.puts <= (IF left'.made THEN MaxGens - 1 ELSE MaxGens)
  BY <1>1 DEF TileTyped, Shared
<1>3. NoSet \in Sets /\ 1 \in Vars
  BY TimesTyped DEF NoSet, Sets
<1>4. Shared'
  BY <1>1, <1>2, <1>3 DEF TileTyped, Shared, Idle, Threads
<1>5. IsState(state)'
  BY LoadedIs, NoTileTyped, <1>1 DEF TileTyped, Shared, IsState
<1>6. OfTile'
  BY <1>1, <1>5 DEF TileTyped, OfTile, IsState
<1>7. Alone'
  BY <1>1 DEF Alone, Idle, Threads, Subroutines, NoTile
<1> QED
  BY <1>4, <1>6, <1>7 DEF TileTyped
-----------------------------------------------------------------------------
(* A subroutine, of either goroutine.                                       *)
LEMMA SubroutineMoves ==
  ASSUME TileInv, TileTyped, NEW t \in {"scenes", "admin"}, Subroutine(t)
  PROVE  /\ Moves(t) /\ UNCHANGED <<current, kept, parcels, refresh, left, tile, tileSnap, tileNew>>
         /\ lock' \in [{"tile", "source"} -> Threads \cup {"free"}]
         /\ job[t].pc \in Subroutines /\ job'[t].next = job[t].next /\ job'[t].row = job[t].row
         /\ job'[t].set = job[t].set
         /\ \/ job'[t].pc \in Subroutines /\ lock' = lock
            \/ job'[t].pc = job[t].next /\ (t = "scenes" => lock' = lock)
         /\ state' = state \/ state' = Loaded(parcels)
<1>1. /\ DOMAIN job = Threads /\ DOMAIN job[t] = DOMAIN Idle /\ job[t].k \in Vars /\ t \in Threads /\ 1 \in Vars
      /\ lock \in [{"tile", "source"} -> Threads \cup {"free"}]
  BY TimesTyped DEF TileInv, Job, TileTyped, Shared, Threads
<1>2. /\ UNCHANGED <<current, kept, parcels, refresh, left, tile, tileSnap, tileNew>>
      /\ state' = state \/ state' = Loaded(parcels)
      /\ job[t].pc \in Subroutines
  BY DEF Subroutine, DeleteIndex, MakeIndex, FinishIndex, DropStats, Reload, Filled,
         NothingToFill, Backfill, tileVars, tileStore, tileRead, At, Subroutines
<1>3. ASSUME NEW pc, Goto(t, pc)
      PROVE  /\ Moves(t) /\ job'[t].pc = pc /\ job'[t].next = job[t].next /\ job'[t].row = job[t].row
             /\ job'[t].set = job[t].set
  BY <1>1, <1>3, GotoIs, GotoMoves
<1>4. CASE (\E pc \in Subroutines : Goto(t, pc)) /\ lock' = lock
  BY <1>1, <1>2, <1>3, <1>4
<1>5. CASE Filled(t)
  BY <1>5, <1>1, <1>2, <1>3 DEF Filled, Unlocked
<1>6. CASE Backfill(t)
  <2>1. /\ lock' = lock /\ job[t].pc = "fill"
        /\ \/ job' = job
           \/ job[t].k < NVars /\ job' = [job EXCEPT ![t].k = job[t].k + 1]
           \/ Goto(t, "filled")
    BY <1>6 DEF Backfill, At
  <2>2. CASE job' = job
    BY <1>1, <1>2, <2>1, <2>2 DEF Moves
  <2>3. CASE job[t].k < NVars /\ job' = [job EXCEPT ![t].k = job[t].k + 1]
    BY <1>1, <2>3, TimesTyped, <1>2, <2>1 DEF Vars, Moves, Idle
  <2>4. CASE Goto(t, "filled")
    BY <1>4, <2>1, <2>4 DEF Subroutines
  <2> QED
    BY <2>1, <2>2, <2>3, <2>4
<1>7. CASE \/ DeleteIndex(t) \/ MakeIndex(t) \/ FinishIndex(t) \/ DropStats(t)
           \/ (At(t, "reload") /\ Goto(t, "fill") /\ lock' = lock)
  BY <1>4, <1>7 DEF DeleteIndex, MakeIndex, FinishIndex, DropStats, Subroutines
<1> QED
  BY <1>5, <1>6, <1>7 DEF Subroutine, Reload, NothingToFill

(* What there is of a scene that is committed.                              *)
LEMMA CommittedRow ==
  ASSUME TileInv, NEW v \in Vars, NEW i \in 1 .. Len(times)
  PROVE  scenes[v][i] = times[i] /\ times[i] \in Time
BY TimesTyped, ElementOfSeq DEF TileInv, Whole, Begins

(* The statistics that a subroutine leaves.                                 *)
LEMMA BackfillIs ==
  ASSUME TileInv, TileTyped, NEW t \in {"scenes", "admin"}, Backfill(t)
  PROVE  LET g == state.gen
             k == job[t].k
             n == Len(state.times)
             h == Len(stats[g][k])
         IN  /\ g \in Gens /\ k \in Vars /\ UNCHANGED <<index, state>> /\ n \in Nat /\ n <= Len(times) /\ h \in Nat
             /\ \A f \in Gens, v \in Vars : f # g \/ v # k => stats'[f][v] = stats[f][v]
             /\ stats' \in [Gens -> [Vars -> Seq(Time)]]
             /\ \/ /\ job' = job /\ h > n /\ Len(stats'[g][k]) = n
                   /\ \A i \in 1 .. n : stats'[g][k][i] = stats[g][k][i]
                \/ /\ job' = job /\ h < n /\ Len(stats'[g][k]) = h + 1 /\ stats'[g][k][h + 1] = times[h + 1]
                   /\ \A i \in 1 .. h : stats'[g][k][i] = stats[g][k][i]
                \/ /\ h = n /\ stats' = stats
                   /\ IF k < NVars THEN job' = [job EXCEPT ![t].k = k + 1] ELSE Goto(t, "filled")
<1> DEFINE g == state.gen
           k == job[t].k
           n == Len(state.times)
           h == Len(stats[g][k])
<1>1. /\ g # 0 /\ UNCHANGED <<index, state>>
      /\ \/ h > n /\ stats' = [stats EXCEPT ![g][k] = SubSeq(stats[g][k], 1, n)] /\ job' = job
         \/ h < n /\ stats' = [stats EXCEPT ![g][k] = Append(stats[g][k], scenes[k][h + 1])] /\ job' = job
         \/ h = n /\ stats' = stats /\ IF k < NVars THEN job' = [job EXCEPT ![t].k = k + 1] ELSE Goto(t, "filled")
  BY DEF Backfill
<1>2. g \in Gens /\ k \in Vars /\ stats \in [Gens -> [Vars -> Seq(Time)]] /\ stats[g][k] \in Seq(Time)
  BY <1>1 DEF TileTyped, OfTile, Shared, IsState, Threads
<1>3. n \in Nat /\ n <= Len(times) /\ h \in Nat /\ Len(times) \in Nat
  BY <1>2, TimesTyped, LenProperties DEF TileInv, Snapshots, Begins
<1> HIDE DEF g, k, n, h
<1>8. Len(stats[g][k]) = h
  BY DEF h
<1>4. ASSUME NEW rows \in Seq(Time), stats' = [stats EXCEPT ![g][k] = rows]
      PROVE  /\ stats' \in [Gens -> [Vars -> Seq(Time)]] /\ stats'[g][k] = rows
             /\ \A f \in Gens, v \in Vars : f # g \/ v # k => stats'[f][v] = stats[f][v]
  BY <1>2, <1>4
<1>5. CASE h > n /\ stats' = [stats EXCEPT ![g][k] = SubSeq(stats[g][k], 1, n)] /\ job' = job
  <2>1. /\ SubSeq(stats[g][k], 1, n) \in Seq(Time) /\ Len(SubSeq(stats[g][k], 1, n)) = n
        /\ \A i \in 1 .. n : SubSeq(stats[g][k], 1, n)[i] = stats[g][k][i]
    BY <1>2, <1>3, <1>5, <1>8, SubSeqProperties
  <2>2. /\ stats' \in [Gens -> [Vars -> Seq(Time)]] /\ Len(stats'[g][k]) = n
        /\ \A i \in 1 .. n : stats'[g][k][i] = stats[g][k][i]
        /\ \A f \in Gens, v \in Vars : f # g \/ v # k => stats'[f][v] = stats[f][v]
    BY <1>4, <1>5, <2>1
  <2> QED
    BY <1>1, <1>2, <1>3, <1>5, <2>2 DEF g, k, n, h
<1>6. CASE h < n /\ stats' = [stats EXCEPT ![g][k] = Append(stats[g][k], scenes[k][h + 1])] /\ job' = job
  <2>1. h + 1 \in 1 .. Len(times)
    BY <1>3, <1>6
  <2>2. scenes[k][h + 1] = times[h + 1] /\ times[h + 1] \in Time
    BY <1>2, <2>1, CommittedRow
  <2>3. /\ Append(stats[g][k], scenes[k][h + 1]) \in Seq(Time)
        /\ Len(Append(stats[g][k], scenes[k][h + 1])) = h + 1
        /\ Append(stats[g][k], scenes[k][h + 1])[h + 1] = times[h + 1]
        /\ \A i \in 1 .. h : Append(stats[g][k], scenes[k][h + 1])[i] = stats[g][k][i]
    BY <1>2, <1>8, <2>2, AppendProperties
  <2>4. /\ stats' \in [Gens -> [Vars -> Seq(Time)]] /\ Len(stats'[g][k]) = h + 1 /\ stats'[g][k][h + 1] = times[h + 1]
        /\ \A i \in 1 .. h : stats'[g][k][i] = stats[g][k][i]
        /\ \A f \in Gens, v \in Vars : f # g \/ v # k => stats'[f][v] = stats[f][v]
    BY <1>4, <1>6, <2>3
  <2> QED
    BY <1>1, <1>2, <1>3, <1>6, <2>4 DEF g, k, n, h
<1>7. CASE h = n /\ stats' = stats /\ IF k < NVars THEN job' = [job EXCEPT ![t].k = k + 1] ELSE Goto(t, "filled")
  BY <1>1, <1>2, <1>3, <1>7 DEF g, k, n, h
<1> QED
  BY <1>1, <1>5, <1>6, <1>7 DEF g, k, n, h

LEMMA SubroutineTyped ==
  ASSUME TileInv, TileTyped, Alone, NEW t \in {"scenes", "admin"}, Subroutine(t)
  PROVE  TileTyped' /\ Alone'
<1>1. t \in Threads /\ Shared'
  BY SubroutineMoves, SharedMoves DEF TileTyped, Shared, Threads
<1>2. IsState(state') /\ (state.open => state'.open)
  BY SubroutineMoves, LoadedIs DEF TileTyped, Shared, OfTile
<1>3. stats' \in [Gens -> [Vars -> Seq(Time)]] /\ index' \in [Gens -> {"none", "begun", "done"}]
  <2>1. NoRows \in [Vars -> Seq(Time)]
    BY DEF NoRows
  <2>2. CASE Backfill(t)
    BY <2>2, BackfillIs DEF TileTyped, OfTile
  <2>3. CASE DropStats(t)
    BY <2>3, <2>1 DEF DropStats, TileTyped, OfTile
  <2>4. CASE DeleteIndex(t) \/ MakeIndex(t) \/ FinishIndex(t)
    BY <2>1, <2>4 DEF DeleteIndex, MakeIndex, FinishIndex, TileTyped, OfTile
  <2>5. CASE Reload(t) \/ NothingToFill(t)
    BY <2>5 DEF Reload, NothingToFill, tileVars, tileStore, TileTyped, OfTile
  <2> QED
    BY <2>2, <2>3, <2>4, <2>5 DEF Subroutine
<1>4. OfTile'
  BY <1>2, <1>3, SubroutineMoves DEF TileTyped, OfTile, IsState
<1>5. Alone'
  <2>1. state.open /\ tile = "registered" /\ lock["tile"] = t
    BY SubroutineMoves DEF Alone, Subroutines
  <2>2. CASE t = "scenes"
    BY <2>2, SubroutineMoves, <1>2, <2>1 DEF Moves, Threads, Alone
  <2>3. CASE t = "admin"
    BY <2>1, <2>3, SubroutineMoves, <1>2 DEF Alone, Moves, Threads, TileTyped, Shared, Subroutines
  <2> QED
    BY <2>2, <2>3
<1> QED
  BY <1>1, <1>4, <1>5 DEF TileTyped
-----------------------------------------------------------------------------
(* The goroutine that appends.                                              *)
Appends ==
  IndexIfStale \/ CatchUp \/ Check \/ CutScenes \/ PutScene \/ CutStats \/ PutStats \/ CommitScene

LEMMA CallMoves ==
  ASSUME TileInv, TileTyped, NEW t \in Threads, NEW pc, NEW next, Call(t, pc, next),
         t = "admin" => next \in {job[t].next, "end"}
  PROVE  Moves(t) /\ job'[t].pc = pc
BY CallIs, TimesTyped DEF TileInv, Job, TileTyped, Shared, Moves

LEMMA NextVariableMoves ==
  ASSUME TileInv, TileTyped, NextVariable
  PROVE  Moves("scenes")
<1>1. DOMAIN job = Threads /\ DOMAIN job["scenes"] = DOMAIN Idle /\ job["scenes"].k \in Vars /\ "scenes" \in Threads
  BY DEF TileInv, Job, Threads
<1>2. CASE job["scenes"].k < NVars
  BY <1>2, <1>1, TimesTyped DEF NextVariable, Vars, Moves, Idle
<1>3. CASE ~(job["scenes"].k < NVars)
  BY <1>1, <1>3, GotoMoves DEF NextVariable
<1> QED
  BY <1>2, <1>3

LEMMA AppendsMoves ==
  ASSUME TileInv, TileTyped, Appends
  PROVE  /\ Moves("scenes") /\ job["scenes"].pc # "idle"
         /\ UNCHANGED <<current, kept, parcels, lock, refresh, left, tile, index, state, tileSnap, tileNew>>
<1>1. DOMAIN job = Threads /\ DOMAIN job["scenes"] = DOMAIN Idle /\ job["scenes"].k \in Vars /\ "scenes" \in Threads
  BY DEF TileInv, Job, Threads
<1>2. /\ UNCHANGED <<current, kept, parcels, lock, refresh, left, tile, index, state, tileSnap, tileNew>>
      /\ job["scenes"].pc # "idle"
  BY DEF Appends, IndexIfStale, CatchUp, Check, CutScenes, PutScene, CutStats, PutStats, CommitScene,
         tileVars, tileStore, tileRead, At
<1>3. CASE (\E pc : Goto("scenes", pc)) \/ (\E pc, next : Call("scenes", pc, next))
  BY <1>1, <1>2, <1>3, GotoMoves, CallMoves
<1>4. CASE \E pc : job' = [job EXCEPT !["scenes"].pc = pc]
  BY <1>1, <1>2, <1>4 DEF Moves, Idle
<1>5. CASE NextVariable
  BY <1>2, <1>5, NextVariableMoves
<1>6. CASE IndexIfStale \/ CatchUp \/ Check \/ CommitScene
  BY <1>3, <1>6 DEF IndexIfStale, CatchUp, Check, CommitScene
<1>7. CASE CutScenes \/ PutScene \/ CutStats \/ PutStats
  BY <1>4, <1>5, <1>7 DEF CutScenes, PutScene, CutStats, PutStats
<1> QED
  BY <1>6, <1>7 DEF Appends

(* What appendAt does of the statistics.                                    *)
LEMMA CutStatsIs ==
  ASSUME TileInv, TileTyped, CutStats, state.gen # 0
  PROVE  LET g == state.gen
             k == job["scenes"].k
             n == Len(times)
         IN  /\ g \in Gens /\ k \in Vars /\ n <= Len(stats[g][k]) /\ Len(stats'[g][k]) = n
             /\ stats' \in [Gens -> [Vars -> Seq(Time)]]
             /\ \A f \in Gens, v \in Vars : f # g \/ v # k => stats'[f][v] = stats[f][v]
             /\ \A i \in 1 .. n : stats'[g][k][i] = stats[g][k][i]
<1> DEFINE g == state.gen
           k == job["scenes"].k
           n == Len(times)
<1>1. /\ n <= Len(stats[g][k]) /\ stats' = [stats EXCEPT ![g][k] = SubSeq(stats[g][k], 1, n)]
  BY DEF CutStats, At, TileInv, Job
<1>2. g \in Gens /\ k \in Vars /\ stats \in [Gens -> [Vars -> Seq(Time)]] /\ stats[g][k] \in Seq(Time)
  BY DEF TileInv, Job, TileTyped, OfTile, IsState
<1>3. n \in Nat
  BY TimesTyped
<1> HIDE DEF g, k, n
<1>4. /\ SubSeq(stats[g][k], 1, n) \in Seq(Time) /\ Len(SubSeq(stats[g][k], 1, n)) = n
      /\ \A i \in 1 .. n : SubSeq(stats[g][k], 1, n)[i] = stats[g][k][i]
  BY <1>1, <1>2, <1>3, SubSeqProperties, LenProperties
<1>5. /\ stats' \in [Gens -> [Vars -> Seq(Time)]] /\ stats'[g][k] = SubSeq(stats[g][k], 1, n)
      /\ \A f \in Gens, v \in Vars : f # g \/ v # k => stats'[f][v] = stats[f][v]
  BY <1>1, <1>2, <1>4
<1> QED
  BY <1>1, <1>2, <1>4, <1>5 DEF g, k, n

LEMMA PutStatsIs ==
  ASSUME TileInv, TileTyped, PutStats, state.gen # 0
  PROVE  LET g == state.gen
             k == job["scenes"].k
             h == Len(stats[g][k])
         IN  /\ g \in Gens /\ k \in Vars /\ h \in Nat
             /\ Len(stats'[g][k]) = h + 1 /\ stats'[g][k][h + 1] = job["scenes"].row
             /\ stats' \in [Gens -> [Vars -> Seq(Time)]]
             /\ \A f \in Gens, v \in Vars : f # g \/ v # k => stats'[f][v] = stats[f][v]
             /\ \A i \in 1 .. h : stats'[g][k][i] = stats[g][k][i]
<1> DEFINE g == state.gen
           k == job["scenes"].k
           h == Len(stats[g][k])
           x == job["scenes"].row
<1>1. stats' = [stats EXCEPT ![g][k] = Append(stats[g][k], x)]
  BY DEF PutStats
<1>2. g \in Gens /\ k \in Vars /\ stats \in [Gens -> [Vars -> Seq(Time)]] /\ stats[g][k] \in Seq(Time) /\ x \in Time
  BY DEF PutStats, At, TileInv, Job, TileTyped, OfTile, IsState
<1> HIDE DEF g, k, x
<1>3. /\ Append(stats[g][k], x) \in Seq(Time) /\ h \in Nat /\ Len(Append(stats[g][k], x)) = h + 1
      /\ Append(stats[g][k], x)[h + 1] = x /\ \A i \in 1 .. h : Append(stats[g][k], x)[i] = stats[g][k][i]
  BY <1>2, AppendProperties, LenProperties
<1>4. /\ stats' \in [Gens -> [Vars -> Seq(Time)]] /\ stats'[g][k] = Append(stats[g][k], x)
      /\ \A f \in Gens, v \in Vars : f # g \/ v # k => stats'[f][v] = stats[f][v]
  BY <1>1, <1>2, <1>3
<1> QED
  BY <1>2, <1>3, <1>4 DEF g, k, x

LEMMA AppendsTyped ==
  ASSUME TileInv, TileTyped, Alone, Appends
  PROVE  TileTyped' /\ Alone'
<1>1. Shared'
  BY AppendsMoves, SharedMoves DEF TileTyped, Shared, Threads
<1>2. stats' \in [Gens -> [Vars -> Seq(Time)]]
  <2>1. CASE CutStats \/ PutStats
    <3>1. ASSUME state.gen = 0 PROVE stats' = stats
      <4>1. stats = [h \in Gens |-> stats[h]] /\ state.gen \notin Gens
        BY <3>1 DEF TileTyped, OfTile, Gens
      <4>2. ASSUME NEW new PROVE [stats EXCEPT ![state.gen] = new] = stats
        BY <4>1
      <4> QED
        BY <2>1, <4>2 DEF CutStats, PutStats
    <3> QED
      BY <2>1, <3>1, CutStatsIs, PutStatsIs DEF TileTyped, OfTile
  <2>2. CASE ~(CutStats \/ PutStats)
    BY <2>2 DEF Appends, IndexIfStale, CatchUp, Check, CutScenes, PutScene, CommitScene,
                tileVars, tileStore, TileTyped, OfTile
  <2> QED
    BY <2>1, <2>2
<1>3. OfTile'
  BY <1>2, AppendsMoves DEF TileTyped, OfTile, IsState
<1>4. Alone'
  BY AppendsMoves DEF Alone, Moves, Threads
<1> QED
  BY <1>1, <1>3, <1>4 DEF TileTyped

LEMMA BeginTileTyped ==
  ASSUME TileInv, TileTyped, Alone, NEW s, BeginTile(s)
  PROVE  TileTyped' /\ Alone'
<1>1. /\ lock["tile"] = "free" /\ state.open /\ lock' = [lock EXCEPT !["tile"] = "scenes"]
      /\ job' = [job EXCEPT !["scenes"].pc = "stale", !["scenes"].row = s] /\ state' = Loaded(parcels)
      /\ UNCHANGED <<current, kept, parcels, refresh, left, tile, index, stats, tileSnap, tileNew>>
  BY DEF BeginTile, tileStore, tileRead
<1>2. Moves("scenes")
  BY <1>1 DEF Moves, TileInv, Job, Threads, Idle
<1>3. lock' \in [{"tile", "source"} -> Threads \cup {"free"}] /\ lock'["tile"] = "scenes"
  BY <1>1 DEF TileTyped, Shared, Threads
<1>4. Shared'
  BY <1>1, <1>2, <1>3, SharedMoves DEF TileTyped, Shared, Threads
<1>5. IsState(state') /\ state'.open
  BY <1>1, LoadedIs DEF TileTyped, Shared
<1>6. OfTile'
  BY <1>1, <1>5 DEF TileTyped, OfTile, IsState
<1>7. Alone'
  BY <1>1, <1>2, <1>3, <1>5 DEF Alone, Moves, Threads
<1> QED
  BY <1>4, <1>6, <1>7 DEF TileTyped
-----------------------------------------------------------------------------
(* CreateTile, and the tile's part in PutParcels.                           *)
LEMMA AdminTyped ==
  ASSUME TileInv, TileTyped, Alone, CreateTile \/ DescribeTile \/ RegisterTile \/ OpenTile \/ IndexParcels
  PROVE  TileTyped' /\ Alone' /\ Moves("admin") /\ job'["admin"].pc # "current"
<1>1. "admin" \in Threads
  BY DEF Threads
<1>2. ASSUME Moves("admin"), UNCHANGED <<current, kept, parcels, refresh, left, index, stats, tileSnap, tileNew>>,
             lock' \in [{"tile", "source"} -> Threads \cup {"free"}],
             tile' \in {"none", "begun", "described", "registered"}, state' = state \/ state' = Loaded(parcels)
      PROVE  TileTyped' /\ job'["scenes"] = job["scenes"]
  <2>1. Shared'
    BY <1>1, <1>2, SharedMoves DEF TileTyped, Shared
  <2>2. IsState(state')
    BY <1>2, LoadedIs DEF TileTyped, Shared, OfTile
  <2>3. OfTile'
    BY <1>2, <2>2 DEF TileTyped, OfTile, IsState
  <2> QED
    BY <1>2, <2>1, <2>3 DEF TileTyped, Moves, Threads
<1>3. CASE CreateTile \/ DescribeTile \/ RegisterTile
  <2>1. /\ \E pc \in {"describe", "register", "open"} : Goto("admin", pc)
        /\ UNCHANGED <<current, kept, parcels, refresh, left, index, stats, tileSnap, tileNew, lock, state>>
        /\ tile' \in {"begun", "described", "registered"}
    BY <1>3 DEF CreateTile, DescribeTile, RegisterTile, tileRead
  <2>2. Moves("admin") /\ job'["admin"].pc \in {"describe", "register", "open"}
    BY <1>1, <2>1, GotoMoves
  <2>3. ~state.open
    BY <1>3 DEF CreateTile, DescribeTile, RegisterTile, Alone, At
  <2>4. job'["admin"].pc = "open" => tile' = "registered"
    <3>1. CASE RegisterTile
      BY <3>1 DEF RegisterTile
    <3>2. CASE CreateTile \/ DescribeTile
      BY <1>1, <3>2, GotoMoves DEF CreateTile, DescribeTile
    <3> QED
      BY <1>3, <3>1, <3>2
  <2> QED
    BY <1>2, <2>1, <2>2, <2>3, <2>4 DEF TileTyped, Shared, Alone, Subroutines
<1>4. CASE OpenTile
  BY <1>4, <1>1, GotoMoves, <1>2, LoadedIs DEF OpenTile, tileStore, tileRead, At, TileTyped, Shared, OfTile,
     Alone, Subroutines
<1>5. CASE IndexParcels
  BY <1>5, <1>1, GotoMoves, CallMoves, <1>2 DEF IndexParcels, tileVars, tileStore, tileRead, TileTyped, Shared,
     OfTile, Alone, Subroutines
<1> QED
  BY <1>3, <1>4, <1>5
-----------------------------------------------------------------------------
(* Refresh.                                                                 *)
LEMMA RefreshTyped ==
  ASSUME TileInv, TileTyped, Alone, RefreshTile \/ RefreshTimes \/ RefreshArrays \/ RefreshIndex \/ RefreshStats
  PROVE  TileTyped' /\ Alone'
<1>1. UNCHANGED <<current, kept, parcels, job, lock, left, tile, index, stats, state>> /\ \E pc : RefreshGoes(pc)
  BY DEF RefreshTile, RefreshTimes, RefreshArrays, RefreshIndex, RefreshStats, tileVars, tileStore, tileRead
<1>2. refresh'.set = refresh.set /\ refresh'.parcels = refresh.parcels
  BY <1>1 DEF RefreshGoes, TileInv, Refreshing
<1>3. Shared' /\ Alone'
  BY <1>1, <1>2, ReaderTyped DEF TileTyped, Shared, Alone
<1>4. IsState(tileNew) /\ IsState(tileSnap) /\ IsState(NoTile)
  BY NoTileTyped DEF TileTyped, OfTile
<1>5. SUFFICES IsState(tileSnap') /\ IsState(tileNew')
  BY <1>1, <1>3 DEF TileTyped, OfTile, IsState
<1>6. CASE RefreshTile
  BY <1>4, <1>6 DEF RefreshTile, tileVars, tileRead
<1>7. CASE RefreshTimes
  BY <1>7, <1>4, TimesTyped DEF RefreshTimes, NoTile, IsState
<1>8. CASE RefreshArrays
  BY <1>8, <1>4, LenProperties DEF RefreshArrays, IsState, NoTile, Shape, TileInv
<1>9. CASE RefreshIndex
  <2>1. PICK g \in Gens \cup {0} : /\ tileNew' = IF g = 0 THEN NoTile ELSE [tileNew EXCEPT !.gen = g]
                                   /\ tileSnap' = IF g = 0 THEN tileNew ELSE tileSnap
    BY <1>9 DEF RefreshIndex, IndexedFor, TileTyped, Shared, Sets
  <2>2. CASE g = 0
    BY <1>4, <2>1, <2>2
  <2>3. CASE g # 0
    BY <1>4, <2>1, <2>3 DEF IsState, NoTile
  <2> QED
    BY <2>2, <2>3
<1>10. CASE RefreshStats
  <2> DEFINE n == StatsN(tileNew.gen, Len(tileNew.times))
  <2>1. tileNew' = NoTile /\ tileSnap' \in {tileSnap, [tileNew EXCEPT !.statsN = n]}
    BY <1>10 DEF RefreshStats
  <2>2. Len(tileNew.times) \in Nat
    BY LenProperties DEF TileInv, Refreshing, Begins
  <2>3. /\ DOMAIN n = Vars
        /\ \A v \in Vars : n[v] \in Nat /\ n[v] <= Len(tileNew.times) /\ (tileNew.gen = 0 => n[v] = 0)
    BY <1>4, <2>2, StatsNIs DEF IsState
  <2> HIDE DEF n
  <2>4. ASSUME tileSnap' = [tileNew EXCEPT !.statsN = n]
        PROVE  IsState(tileSnap')
    BY <1>4, <2>4, <2>3 DEF IsState, NoTile
  <2> QED
    BY <1>4, <2>1, <2>4
<1> QED
  BY <1>6, <1>7, <1>8, <1>9, <1>10

(* A step of Next.                                                          *)
LEMMA TypedStep ==
  ASSUME TileInv, TileTyped, Alone, [Next]_vars
  PROVE  TileTyped' /\ Alone'
<1>1. CASE TileNext
  <2>1. CASE \E t \in {"scenes", "admin"} : Subroutine(t)
    BY <2>1, SubroutineTyped
  <2>2. CASE AppendScene \/ BackfillStats
    BY <2>2, BeginTileTyped DEF AppendScene, BackfillStats
  <2>3. CASE Appends
    BY <2>3, AppendsTyped
  <2>4. CASE CreateTile \/ DescribeTile \/ RegisterTile \/ OpenTile \/ IndexParcels
    BY <2>4, AdminTyped
  <2>5. CASE RefreshTile \/ RefreshTimes \/ RefreshArrays \/ RefreshIndex \/ RefreshStats
    BY <2>5, RefreshTyped
  <2> QED
    BY <1>1, <2>1, <2>2, <2>3, <2>4, <2>5 DEF TileNext, Subroutine, Appends
<1>2. CASE SourceNext /\ UNCHANGED tileVars
  BY <1>2, SourceTyped
<1>3. CASE ParcelsNext
  BY <1>3, ParcelsTyped
<1>4. CASE Restart
  BY <1>4, RestartTyped
<1>5. CASE UNCHANGED vars
  BY <1>5 DEF vars, tileVars, tileStore, tileRead, parcelVars, TileTyped, Shared, OfTile, IsState, Alone
<1> QED
  BY <1>1, <1>2, <1>3, <1>4, <1>5 DEF Next
-----------------------------------------------------------------------------
(* Statistics are of the scenes that are committed, as far as both go.      *)
Aligned ==
  \A g \in Gens, v \in Vars : \A i \in 1 .. Len(stats[g][v]) : i <= Len(times) => stats[g][v][i] = times[i]

(* Statistics of more scenes than are committed, which an append leaves     *)
(* that is under way or failed: of the scene it is appending, if it is.     *)
Extra(g, v) == Len(times) < Len(stats[g][v])
NoExtra == \A g \in Gens, v \in Vars : ~Extra(g, v)
HasStats(g, v) == Len(stats[g][v]) = Len(times) + 1 /\ stats[g][v][Len(times) + 1] = job["scenes"].row

(* While they are made anew or caught up, what there is more goes.          *)
Filling ==
  LET j == job["scenes"] IN
  /\ j.pc \in {"make", "finish", "drop", "reload"} => NoExtra
  /\ j.pc = "fill" /\ j.next = "behind" => NoExtra
  /\ j.pc = "filled" /\ j.next \in {"behind", "check"} => NoExtra
  /\ j.pc = "stale" /\ state.gen # 0 =>
       \A v \in Vars : state.statsN[v] = Min(Len(times), Len(stats[state.gen][v]))
  /\ j.pc = "fill" /\ j.next = "check" =>
       \A g \in Gens, v \in Vars : Extra(g, v) => g = state.gen /\ v >= j.k

(* An append cuts off and replaces what there is more, or has none.         *)
Extending ==
  LET j == job["scenes"] IN
  /\ j.pc \in {"behind", "check", "cut", "put", "cutStats", "putStats", "commit"} =>
       \A g \in Gens, v \in Vars : Extra(g, v) => g = state.gen /\ state.statsN[v] = Len(times)
  /\ j.pc \in {"cut", "put", "cutStats", "putStats"} =>
       \A g \in Gens, v \in Vars : Extra(g, v) /\ v < j.k => HasStats(g, v)
  /\ j.pc \in {"cutStats", "putStats"} => state.gen # 0 /\ state.statsN[j.k] = Len(times)
  /\ j.pc = "putStats" => Len(stats[state.gen][j.k]) = Len(times)
  /\ j.pc = "commit" => \A g \in Gens, v \in Vars : Extra(g, v) => HasStats(g, v)

(* Nothing fails, or there is one generation of parcels ever.               *)
Only == IF left.made THEN 1 ELSE MaxGens
Unfailing ==
  left.fails = 0 /\ (job["scenes"].pc \notin {"cut", "put", "cutStats", "putStats", "commit"} => NoExtra)
OneSet ==
  /\ left.puts <= (IF left.made THEN 0 ELSE 1)
  /\ \A set \in {current, parcels, job["admin"].set} : set.gen \in {0, Only}
  /\ job["admin"].pc = "current" => job["admin"].set.gen = Only
  /\ parcels.gen # 0 => current.gen = Only
OneGeneration ==
  /\ OneSet
  /\ state.gen # 0 => state.gen = Only /\ parcels.gen = Only
  /\ job["scenes"].pc = "index" => job["scenes"].set.gen = Only
  /\ \A g \in Gens, v \in Vars : Extra(g, v) => g = parcels.gen

InStep == Aligned /\ Filling /\ Extending /\ (Unfailing \/ OneGeneration)
StatsInv == TileTyped /\ Alone /\ InStep
-----------------------------------------------------------------------------
LEMMA InitStats ==
  ASSUME PlansAreUntorn, Init
  PROVE  InStep
<1>1. /\ left \in Plans /\ times = <<>> /\ stats = [g \in Gens |-> NoRows]
      /\ job = [t \in Threads |-> Idle] /\ current = FirstSet /\ parcels = FirstSet
      /\ state = (IF MadeTile THEN [NoTile EXCEPT !.open = TRUE, !.gen = 1] ELSE NoTile)
  BY DEF Init, InitParcels, InitTile
<1>2. \A g \in Gens, v \in Vars : stats[g][v] = <<>> /\ Len(stats[g][v]) = 0
  BY <1>1 DEF NoRows
<1>3. /\ FirstSet.gen = (IF left.made THEN 1 ELSE 0) /\ left.made \in BOOLEAN
  BY <1>1, GeodbAssumption DEF FirstSet, NoSet, Made
<1>4. state.gen \in {0, FirstSet.gen}
  BY <1>1, <1>3 DEF MadeTile, Made, NoTile
<1>5. Len(times) = 0 /\ NoExtra
  BY <1>1, <1>2 DEF NoExtra, Extra
<1>6. job["admin"] = Idle /\ job["scenes"] = Idle /\ Idle.pc = "idle" /\ Idle.set.gen = 0
  BY <1>1 DEF Threads, Idle, NoSet
<1>7. Aligned /\ Filling /\ Extending
  BY <1>2, <1>6 DEF Aligned, Filling, Extending
<1>8. CASE left.fails = 0
  BY <1>5, <1>7, <1>8 DEF InStep, Unfailing
<1>9. CASE left.puts = 0 \/ (~left.made /\ left.puts = 1)
  BY <1>1, <1>3, <1>4, <1>5, <1>6, <1>9, <1>7 DEF OneGeneration, OneSet, NoExtra, Only, InStep
<1> QED
  BY <1>1, <1>8, <1>9 DEF PlansAreUntorn, Untorn

(* A step of another than the goroutine that appends scenes, which leaves   *)
(* the tile as it is.                                                       *)
LEMMA InStepBeside ==
  ASSUME InStep, UNCHANGED <<stats, times, state>>, job'["scenes"] = job["scenes"],
         left'.fails = left.fails, OneGeneration => OneGeneration'
  PROVE  InStep'
BY DEF InStep, Aligned, NoExtra, Extra, Filling, Extending, HasStats, Unfailing

(* And one that leaves it where it appends nothing.                         *)
LEMMA InStepIdle ==
  ASSUME InStep, Aligned', job'["scenes"].pc \in {"idle", "end"}, NoExtra => NoExtra',
         Unfailing => NoExtra /\ left'.fails = 0, OneGeneration => OneGeneration'
  PROVE  InStep'
BY DEF Filling, Extending, Unfailing, InStep

(* There is one generation still.                                           *)
LEMMA OneStays ==
  ASSUME OneGeneration, left'.puts = left.puts, left'.made = left.made, UNCHANGED <<current, parcels>>,
         job'["admin"].set \in {job["admin"].set, parcels, NoSet},
         job'["admin"].pc = "current" => job'["admin"] = job["admin"],
         state'.gen \in {state.gen, 0, parcels.gen},
         job'["scenes"].pc = "index" => job'["scenes"].set.gen = Only,
         \A g \in Gens, v \in Vars : Extra(g, v)' => g = parcels.gen
  PROVE  OneGeneration'
BY DEF Only, NoSet, OneGeneration, OneSet

LEMMA ExtraStays ==
  ASSUME UNCHANGED <<stats, times>>
  PROVE  /\ NoExtra => NoExtra'
         /\ Aligned => Aligned'
         /\ \A g \in Gens, v \in Vars : Extra(g, v)' <=> Extra(g, v)
BY DEF NoExtra, Extra, Aligned
-----------------------------------------------------------------------------
LEMMA InStepSource ==
  ASSUME TileInv, StatsInv, SourceNext, UNCHANGED tileVars
  PROVE  InStep'
<1>1. UNCHANGED <<stats, times, state>>
  BY DEF tileVars, tileStore
<1>2. PICK t \in {"steps", "admin"} : Moves(t) /\ (job' # job => Apart(t))
  BY SourceMoves DEF StatsInv
<1>3. UNCHANGED <<current, parcels, left>> /\ job'["scenes"] = job["scenes"]
  BY <1>2, SourceMoves DEF StatsInv, Moves, Threads
<1>4. /\ job'["admin"].set \in {job["admin"].set, parcels, NoSet}
      /\ job'["admin"].pc = "current" => job'["admin"] = job["admin"]
  BY <1>2 DEF Moves, Apart, Threads
<1>5. OneGeneration => OneGeneration'
  <2>1. \A g \in Gens, v \in Vars : Extra(g, v)' <=> Extra(g, v)
    BY <1>1, ExtraStays
  <2> SUFFICES ASSUME OneGeneration PROVE OneGeneration'
    OBVIOUS
  <2>2. job["scenes"].pc = "index" => job["scenes"].set.gen = Only
    BY DEF OneGeneration, OneSet
  <2>3. \A g \in Gens, v \in Vars : Extra(g, v) => g = parcels.gen
    BY DEF OneGeneration, OneSet
  <2> QED
    BY <1>1, <1>3, <1>4, <2>1, <2>2, <2>3, OneStays
<1> QED
  BY <1>1, <1>3, <1>5, InStepBeside DEF StatsInv

LEMMA InStepParcels ==
  ASSUME TileInv, StatsInv, ParcelsNext
  PROVE  InStep'
<1>1. UNCHANGED <<stats, times, state>>
  BY DEF ParcelsNext, tileVars, tileStore
<1>2. /\ Shared /\ DOMAIN job = Threads /\ \A t \in Threads : DOMAIN job[t] = DOMAIN Idle
      /\ "admin" \in Threads /\ "scenes" \in Threads /\ "admin" # "scenes"
      /\ lock \in [{"tile", "source"} -> Threads \cup {"free"}]
  BY DEF TileInv, Job, StatsInv, TileTyped, Shared, Threads
<1>3. \A g \in Gens, v \in Vars : Extra(g, v)' <=> Extra(g, v)
  BY <1>1, ExtraStays
<1>4. Aligned' /\ (NoExtra => NoExtra')
  BY <1>1, ExtraStays DEF StatsInv, InStep
<1>5. CASE PutParcels
  <2> DEFINE gen == MaxGens - left.puts + 1
             set == [gen |-> gen, prev |-> parcels.gen]
  <2>1. /\ left.puts > 0 /\ UNCHANGED <<current, parcels>>
        /\ job' = [job EXCEPT !["admin"].pc = "current", !["admin"].next = "sources", !["admin"].set = set]
        /\ left' = [left EXCEPT !.puts = left.puts - 1]
    BY <1>5 DEF PutParcels
  <2>2. /\ job'["admin"].pc = "current" /\ job'["admin"].set.gen = gen
        /\ job'["scenes"] = job["scenes"]
    BY <1>2, <2>1 DEF Idle
  <2>3. left'.puts = left.puts - 1 /\ left'.made = left.made /\ left'.fails = left.fails /\ left.puts \in Nat
    BY <1>2, <2>1 DEF Shared
  <2> HIDE DEF set
  <2>4. OneGeneration => OneGeneration'
    <3> SUFFICES ASSUME OneGeneration PROVE OneGeneration'
      OBVIOUS
    <3>1. left.puts = 1 /\ ~left.made /\ left'.puts = 0
      BY <2>1, <2>3 DEF OneGeneration, OneSet
    <3>2. gen = Only /\ Only' = Only
      BY <2>3, <3>1, GeodbAssumption DEF Only
    <3> QED
      BY <1>1, <1>3, <2>1, <2>2, <2>3, <3>1, <3>2 DEF OneGeneration, OneSet
  <2> QED
    BY <1>1, <2>2, <2>3, <2>4, InStepBeside DEF StatsInv
<1>6. CASE MakeCurrent \/ LoadParcels \/ DropParcels
  <2>1. /\ left' = left
        /\ \/ job["admin"].pc = "current" /\ current' = job["admin"].set /\ parcels' = parcels
           \/ parcels' \in {current, parcels} /\ current' = current
        /\ \E pc \in {"load", "dropParcels", "tiles"} : Goto("admin", pc)
    BY <1>6 DEF MakeCurrent, LoadParcels, DropParcels, At
  <2>2. /\ job'["admin"].pc # "current" /\ job'["admin"].set = job["admin"].set
        /\ job'["scenes"] = job["scenes"]
    BY <1>2, <2>1, GotoIs
  <2>3. OneGeneration => OneGeneration'
    <3> SUFFICES ASSUME OneGeneration PROVE OneGeneration'
      OBVIOUS
    <3>1. Only' = Only
      BY <2>1 DEF Only
    <3>2. Gens # {} => Only # 0
      BY GeodbAssumption DEF Only, Gens
    <3>3. state.gen # 0 => Gens # {} /\ state.gen = Only /\ parcels.gen = Only
      BY DEF StatsInv, TileTyped, OfTile, IsState, OneGeneration, OneSet
    <3>4. \A g \in Gens, v \in Vars : Extra(g, v) => g = parcels.gen /\ g # 0
      BY DEF OneGeneration, OneSet, Gens
    <3>5. parcels'.gen # 0 => current'.gen = Only
      BY <2>1 DEF OneGeneration, OneSet
    <3>6. parcels.gen = Only /\ Only # 0 => parcels'.gen = Only
      BY <2>1 DEF OneGeneration, OneSet
    <3>7. state'.gen # 0 => state'.gen = Only' /\ parcels'.gen = Only'
      BY <1>1, <3>1, <3>2, <3>3, <3>6
    <3>8. ASSUME NEW g \in Gens, NEW v \in Vars, Extra(g, v)'
          PROVE  g = parcels'.gen
      BY <1>3, <3>4, <3>8, <3>6 DEF OneGeneration, OneSet
    <3>9. \A set \in {current', parcels', job'["admin"].set} : set.gen \in {0, Only'}
      BY <2>1, <2>2, <3>1 DEF OneGeneration, OneSet
    <3> QED
      BY <2>1, <2>2, <3>1, <3>5, <3>7, <3>8, <3>9 DEF OneGeneration, OneSet
  <2> QED
    BY <1>1, <2>1, <2>2, <2>3, InStepBeside DEF StatsInv
<1>7. CASE \E t \in Threads : End(t) \/ Fail(t)
  <2>1. PICK t \in Threads : /\ Return(t) /\ UNCHANGED <<current, parcels>>
                             /\ left' = left \/ (left.fails > 0 /\ left' = [left EXCEPT !.fails = left.fails - 1])
                             /\ left' = left => job[t].pc = "end" \/ left.fails > 0
    BY <1>7 DEF End, Fail, At
  <2>2. job'[t] = Idle /\ \A u \in Threads : u # t => job'[u] = job[u]
    BY <1>2, <2>1, ReturnIs
  <2>3. Idle.pc = "idle" /\ Idle.set = NoSet
    BY DEF Idle
  <2>4. left'.puts = left.puts /\ left'.made = left.made /\ left.fails \in Nat /\ left'.fails \in Nat
    BY <1>2, <2>1 DEF Shared
  <2>5. OneGeneration => OneGeneration'
    <3> SUFFICES ASSUME OneGeneration PROVE OneGeneration'
      OBVIOUS
    <3>1. /\ job["scenes"].pc = "index" => job["scenes"].set.gen = Only
          /\ \A g \in Gens, v \in Vars : Extra(g, v) => g = parcels.gen
      BY DEF OneGeneration, OneSet
    <3>2. job'["scenes"].pc = "index" => job'["scenes"].set.gen = Only
      BY <1>2, <2>2, <2>3, <3>1
    <3>3. /\ job'["admin"].set \in {job["admin"].set, parcels, NoSet}
          /\ job'["admin"].pc = "current" => job'["admin"] = job["admin"]
      BY <1>2, <2>2, <2>3
    <3> QED
      BY <1>1, <1>3, <2>1, <2>4, <3>1, <3>2, <3>3, OneStays
  <2>6. CASE t = "scenes"
    BY <2>1, <2>4, <2>6, <1>4, <2>2, <2>3, <2>5, InStepIdle DEF Unfailing, StatsInv
  <2>7. CASE t # "scenes"
    <3>1. job'["scenes"] = job["scenes"]
      BY <1>2, <2>2, <2>7
    <3>2. CASE left'.fails = left.fails
      BY <1>1, <2>5, <3>1, <3>2, InStepBeside DEF StatsInv
    <3>3. CASE left.fails > 0
      BY <2>5, <2>4, <3>3, <1>1, <1>3, <3>1, <1>4 DEF StatsInv, InStep, Unfailing, Filling, Extending, HasStats
    <3> QED
      BY <2>1, <3>2, <3>3
  <2> QED
    BY <2>6, <2>7
<1>8. CASE RefreshParcels \/ RefreshFails \/ \E found : RefreshBegins(found)
  BY <1>8, <1>1, <1>3, InStepBeside DEF RefreshParcels, RefreshFails, RefreshBegins, OneGeneration, OneSet,
     Only, StatsInv
<1> QED
  BY <1>5, <1>6, <1>7, <1>8 DEF ParcelsNext

LEMMA InStepRestart ==
  ASSUME TileInv, StatsInv, Restart
  PROVE  InStep'
<1>1. /\ job' = [t \in Threads |-> Idle] /\ parcels' = current /\ current' = current
      /\ left.fails > 0 /\ left' = [left EXCEPT !.fails = left.fails - 1]
      /\ state' = (IF tile = "registered" THEN Loaded(current) ELSE NoTile)
      /\ UNCHANGED <<stats, times>>
  BY DEF Restart, RestartParcels, RestartTile, tileStore
<1>2. /\ job'["scenes"].pc = "idle" /\ job'["admin"].pc = "idle" /\ job'["admin"].set.gen = 0
  BY <1>1 DEF Threads, Idle, NoSet
<1>3. left'.puts = left.puts /\ left'.made = left.made /\ left.fails \in Nat
  BY <1>1 DEF StatsInv, TileTyped, Shared
<1>4. state'.gen \in {0, current.gen}
  BY <1>1, LoadedIs DEF StatsInv, TileTyped, Shared, NoTile
<1>5. OneGeneration => OneGeneration'
  <2> SUFFICES ASSUME OneGeneration PROVE OneGeneration'
    OBVIOUS
  <2>1. Only' = Only
    BY <1>3 DEF Only
  <2>2. ASSUME NEW g \in Gens, NEW v \in Vars, Extra(g, v)'
        PROVE  g = parcels'.gen
    BY <1>1, <2>2, ExtraStays DEF OneGeneration, OneSet, Gens
  <2> QED
    BY <1>1, <1>2, <1>3, <1>4, <2>1, <2>2 DEF OneGeneration, OneSet
<1>6. ~Unfailing
  BY <1>1, <1>3 DEF Unfailing
<1> QED
  BY <1>1, <1>2, <1>5, <1>6, ExtraStays, InStepIdle DEF StatsInv, InStep
-----------------------------------------------------------------------------
(* A step of the goroutine that appends, to where there is no more.         *)
LEMMA InStepNone ==
  ASSUME InStep, Aligned', NoExtra', job'["scenes"].pc \notin {"stale", "cutStats", "putStats"},
         left'.fails = left.fails, OneGeneration => OneGeneration'
  PROVE  InStep'
BY DEF Filling, Extending, NoExtra, Unfailing, InStep

(* A subroutine works out what is missing, and cuts off what is too much.   *)
LEMMA SubroutineShrinks ==
  ASSUME TileInv, TileTyped, Aligned, NEW t \in {"scenes", "admin"}, Subroutine(t)
  PROVE  /\ times' = times /\ Aligned'
         /\ \A g \in Gens, v \in Vars : Extra(g, v)' => Extra(g, v)
<1>1. times' = times
  BY SubroutineStays DEF ArraysStay
<1>2. Len(NoRows[1]) = 0 /\ \A v \in Vars : Len(NoRows[v]) = 0
  BY TimesTyped DEF NoRows
<1>3. ASSUME \A g \in Gens, v \in Vars : stats'[g][v] = stats[g][v] \/ stats'[g][v] = <<>>
      PROVE  Aligned' /\ \A g \in Gens, v \in Vars : Extra(g, v)' => Extra(g, v)
  BY TimesTyped, <1>1, <1>3 DEF Extra, Aligned
<1>4. CASE DeleteIndex(t) \/ DropStats(t)
  <2>1. \A g \in Gens : stats'[g] = stats[g] \/ stats'[g] = NoRows
    BY <1>4 DEF DeleteIndex, DropStats, TileTyped, OfTile
  <2> QED
    BY <1>1, <1>3, <2>1 DEF NoRows
<1>5. CASE MakeIndex(t) \/ FinishIndex(t) \/ Reload(t) \/ NothingToFill(t)
  BY <1>1, <1>3, <1>5 DEF MakeIndex, FinishIndex, Reload, NothingToFill, tileVars, tileStore
<1>6. CASE Backfill(t)
  <2> DEFINE g == state.gen
             k == job[t].k
             n == Len(state.times)
             h == Len(stats[g][k])
  <2>1. /\ g \in Gens /\ k \in Vars /\ n \in Nat /\ n <= Len(times) /\ h \in Nat /\ Len(times) \in Nat
        /\ \A f \in Gens, v \in Vars : f # g \/ v # k => stats'[f][v] = stats[f][v]
        /\ \/ /\ h > n /\ Len(stats'[g][k]) = n /\ \A i \in 1 .. n : stats'[g][k][i] = stats[g][k][i]
           \/ /\ h < n /\ Len(stats'[g][k]) = h + 1 /\ stats'[g][k][h + 1] = times[h + 1]
              /\ \A i \in 1 .. h : stats'[g][k][i] = stats[g][k][i]
           \/ h = n /\ stats' = stats
    BY <1>6, BackfillIs, TimesTyped
  <2> HIDE DEF g, k, n
  <2>2. ASSUME NEW f \in Gens, NEW v \in Vars
        PROVE  /\ Extra(f, v)' => Extra(f, v)
               /\ \A i \in 1 .. Len(stats'[f][v]) : i <= Len(times) => stats'[f][v][i] = times[i]
    <3>1. CASE f # g \/ v # k
      BY <1>1, <2>1, <3>1 DEF Extra, Aligned
    <3>2. CASE f = g /\ v = k
      <4>1. CASE h > n /\ Len(stats'[g][k]) = n /\ \A i \in 1 .. n : stats'[g][k][i] = stats[g][k][i]
        BY <1>1, <2>1, <3>2, <4>1 DEF Extra, Aligned
      <4>2. CASE /\ h < n /\ Len(stats'[g][k]) = h + 1 /\ stats'[g][k][h + 1] = times[h + 1]
                 /\ \A i \in 1 .. h : stats'[g][k][i] = stats[g][k][i]
        <5>1. ~(Len(times) < Len(stats'[f][v]))
          BY <2>1, <3>2, <4>2
        <5>2. ASSUME NEW i \in 1 .. Len(stats'[f][v]), i <= Len(times)
              PROVE  stats'[f][v][i] = times[i]
          <6>1. CASE i = h + 1
            BY <3>2, <4>2, <6>1
          <6>2. CASE i # h + 1
            <7>1. i \in 1 .. h
              BY <2>1, <3>2, <4>2, <5>2, <6>2
            <7> QED
              BY <3>2, <4>2, <5>2, <7>1 DEF Aligned
          <6> QED
            BY <6>1, <6>2
        <5> QED
          BY <1>1, <5>1, <5>2 DEF Extra
      <4>3. CASE h = n /\ stats' = stats
        BY <1>1, <3>2, <4>3 DEF Extra, Aligned
      <4> QED
        BY <2>1, <4>1, <4>2, <4>3
    <3> QED
      BY <3>1, <3>2
  <2> QED
    BY <1>1, <2>2 DEF Aligned
<1> QED
  BY <1>1, <1>4, <1>5, <1>6 DEF Subroutine

LEMMA SubroutineKeepsOne ==
  ASSUME TileInv, StatsInv, NEW t \in {"scenes", "admin"}, Subroutine(t), OneGeneration
  PROVE  OneGeneration'
<1>1. /\ Moves(t) /\ UNCHANGED <<current, parcels, left>> /\ job'[t].set = job[t].set
      /\ job'[t].pc \in Subroutines \cup {job[t].next} /\ state' \in {state, Loaded(parcels)}
  BY SubroutineMoves DEF StatsInv
<1>2. state'.gen \in {state.gen, 0, parcels.gen}
  BY <1>1, LoadedIs DEF StatsInv, TileTyped, Shared
<1>3. \A g \in Gens, v \in Vars : Extra(g, v)' => g = parcels.gen
  BY SubroutineShrinks DEF StatsInv, InStep, OneGeneration, OneSet
<1>4. CASE t = "scenes"
  BY <1>1, <1>4, SubroutineGoes, <1>2, <1>3, OneStays DEF Moves, Threads, TileInv, Job
<1>5. CASE t = "admin"
  BY <1>1, <1>5, <1>2, <1>3, OneStays DEF Moves, Threads, OneGeneration, OneSet, Subroutines, StatsInv,
     TileTyped, Shared
<1> QED
  BY <1>4, <1>5

LEMMA InStepSubroutineAdmin ==
  ASSUME TileInv, StatsInv, Subroutine("admin")
  PROVE  InStep'
BY SubroutineMoves, SubroutineShrinks, SubroutineKeepsOne, InStepIdle DEF StatsInv, Alone, Moves, Threads,
   InStep, NoExtra, Unfailing

LEMMA InStepSubroutine ==
  ASSUME TileInv, StatsInv, Subroutine("scenes")
  PROVE  InStep'
<1> DEFINE j == job["scenes"]
<1>1. /\ times' = times /\ Aligned' /\ (NoExtra => NoExtra') /\ left' = left
      /\ \A g \in Gens, v \in Vars : Extra(g, v)' => Extra(g, v)
  BY SubroutineShrinks, SubroutineMoves DEF StatsInv, InStep, NoExtra
<1>2. OneGeneration => OneGeneration'
  BY SubroutineKeepsOne
<1>3. /\ j.pc \in {"index", "make", "finish", "drop", "reload", "fill", "filled"}
      /\ j.next \in {"end", "behind", "check"} /\ job'["scenes"].next = j.next
      /\ job'["scenes"].pc \notin {"stale", "cut", "put", "cutStats", "putStats", "commit"}
  BY SubroutineGoes DEF TileInv, Job
<1>4. /\ Unfailing \/ OneGeneration
      /\ Unfailing => NoExtra
      /\ j.pc \in {"make", "finish", "drop", "reload"} => NoExtra
      /\ j.pc = "fill" /\ j.next = "behind" => NoExtra
      /\ j.pc = "filled" /\ j.next \in {"behind", "check"} => NoExtra
      /\ j.pc = "fill" /\ j.next = "check" => \A g \in Gens, v \in Vars : Extra(g, v) => g = state.gen /\ v >= j.k
  BY <1>3 DEF StatsInv, InStep, Unfailing, Filling
<1>5. ASSUME NoExtra PROVE InStep'
  BY <1>1, <1>2, <1>3, <1>5, InStepNone DEF StatsInv
<1>6. CASE DeleteIndex("scenes") /\ OneGeneration
  <2>1. /\ stats' = [stats EXCEPT ![j.set.gen] = NoRows] /\ j.pc = "index"
    BY <1>6 DEF DeleteIndex, At
  <2>2. j.set.gen = Only
    BY <1>6, <2>1 DEF OneGeneration, OneSet
  <2>3. ASSUME NEW g \in Gens, NEW v \in Vars PROVE ~Extra(g, v)'
    <3>1. CASE g = Only
      BY <2>1, <2>2, <3>1, <1>1, TimesTyped DEF StatsInv, TileTyped, OfTile, NoRows, Extra
    <3>2. CASE g # Only
      BY <1>1, <1>6, <3>2 DEF Gens, OneGeneration, OneSet
    <3> QED
      BY <3>1, <3>2
  <2> QED
    BY <1>1, <1>2, <1>3, <2>3, InStepNone DEF StatsInv, NoExtra
<1>7. CASE MakeIndex("scenes") \/ FinishIndex("scenes") \/ DropStats("scenes") \/ (Reload("scenes") /\ j.pc = "reload")
  BY <1>7, <1>4, <1>5 DEF MakeIndex, FinishIndex, DropStats, At
<1>8. ASSUME NEW pc, job'["scenes"].pc = pc, pc = "end" \/ (pc = "filled" /\ j.next = "end") \/ (pc = "fill" /\ j.next = "end"),
             OneGeneration
      PROVE  InStep'
  BY <1>3, <1>8, <1>1, <1>2 DEF Filling, Extending, InStep
<1>9. CASE Reload("scenes") /\ j.pc # "reload"
  BY <1>9, <1>3, <1>4, <1>5, <1>8 DEF Reload, Filled, At, Goto, TileInv, Job, Threads, Idle
<1>10. CASE NothingToFill("scenes")
  BY <1>10, <1>4, <1>3, <1>5, <1>8 DEF NothingToFill, Filled, At, Goto, TileInv, Job, Threads, Idle, NoExtra,
     Gens
<1>11. CASE Backfill("scenes")
  <2>1. j.pc = "fill" /\ state' = state /\ state.times = times
    BY <1>11 DEF Backfill, At, TileInv, Job
  <2>2. j.next = "behind" => NoExtra
    BY <1>4, <2>1
  <2>3. /\ job'["scenes"].pc \in {"fill", "filled"} /\ job'["scenes"].k \in Vars
        /\ \/ job'["scenes"].pc = "fill" /\ job'["scenes"].k = j.k
           \/ /\ Len(stats'[state.gen][j.k]) = Len(times)
              /\ \/ j.k < NVars /\ job'["scenes"].pc = "fill" /\ job'["scenes"].k = j.k + 1
                 \/ j.k = NVars /\ job'["scenes"].pc = "filled"
    <3>1. DOMAIN job = Threads /\ DOMAIN j = DOMAIN Idle /\ j.k \in Vars /\ "scenes" \in Threads
      BY DEF TileInv, Job, Threads
    <3>2. \/ job' = job
          \/ /\ Len(stats[state.gen][j.k]) = Len(state.times) /\ stats' = stats
             /\ IF j.k < NVars THEN job' = [job EXCEPT !["scenes"].k = j.k + 1] ELSE Goto("scenes", "filled")
      BY <1>11, BackfillIs DEF StatsInv
    <3>3. CASE job' = job
      BY <2>1, <3>1, <3>3
    <3>4. CASE /\ Len(stats[state.gen][j.k]) = Len(state.times) /\ stats' = stats
               /\ j.k < NVars /\ job' = [job EXCEPT !["scenes"].k = j.k + 1]
      BY <3>1, <3>4, TimesTyped, <2>1 DEF Vars, Idle
    <3>5. CASE /\ Len(stats[state.gen][j.k]) = Len(state.times) /\ stats' = stats
               /\ ~(j.k < NVars) /\ Goto("scenes", "filled")
      BY <3>1, <3>5, TimesTyped, <2>1, GotoIs DEF Vars
    <3> QED
      BY <3>2, <3>3, <3>4, <3>5
  <2>4. ASSUME j.next = "check"
        PROVE  \A g \in Gens, v \in Vars : Extra(g, v)' =>
                  /\ g = state.gen /\ v >= j.k
                  /\ job'["scenes"].pc = "fill" /\ v >= job'["scenes"].k
    <3>1. SUFFICES ASSUME NEW g \in Gens, NEW v \in Vars, Extra(g, v)'
                   PROVE  /\ g = state.gen /\ v >= j.k
                          /\ job'["scenes"].pc = "fill" /\ v >= job'["scenes"].k
      OBVIOUS
    <3>2. g = state.gen /\ v >= j.k /\ v \in 1 .. NVars /\ j.k \in 1 .. NVars
      BY <1>1, <1>4, <2>1, <2>4, <3>1 DEF Vars, TileInv, Job
    <3>3. Len(stats'[state.gen][j.k]) = Len(times) => v # j.k
      BY <1>1, <3>1, <3>2, TimesTyped DEF Extra
    <3> QED
      BY <2>3, <3>2, <3>3, TimesTyped
  <2>5. CASE j.next = "check" /\ OneGeneration
    BY <2>4, <2>5, <1>3, <2>1, <2>3, <1>1, <1>2 DEF NoExtra, Filling, Extending, InStep
  <2> QED
    BY <1>3, <1>4, <1>5, <1>8, <2>2, <2>3, <2>5
<1> QED
  BY <1>4, <1>5, <1>6, <1>7, <1>9, <1>10, <1>11 DEF Subroutine
-----------------------------------------------------------------------------
(* AppendScene up to where it writes.                                       *)
LEMMA InStepBegin ==
  ASSUME TileInv, StatsInv, NEW s, BeginTile(s)
  PROVE  InStep'
<1>1. /\ job["scenes"].pc = "idle" /\ state' = Loaded(parcels)
      /\ job' = [job EXCEPT !["scenes"].pc = "stale", !["scenes"].row = s]
      /\ UNCHANGED <<current, parcels, left, stats, times>>
  BY DEF BeginTile, tileStore, At
<1>2. job'["scenes"].pc = "stale" /\ job'["admin"] = job["admin"]
  BY <1>1 DEF TileInv, Job, Threads, Idle
<1>3. /\ state'.gen \in {0, parcels.gen}
      /\ state'.gen # 0 => \A v \in Vars : state'.statsN[v] = Min(Len(times'), Len(stats'[state'.gen][v]))
  BY <1>1, LoadedIs DEF StatsInv, TileTyped, Shared
<1>4. /\ \A g \in Gens, v \in Vars : Extra(g, v)' <=> Extra(g, v)
      /\ NoExtra => NoExtra'
      /\ Aligned'
  BY <1>1, ExtraStays DEF StatsInv, InStep
<1>5. Filling' /\ Extending'
  BY <1>2, <1>3 DEF Filling, Extending
<1>6. Unfailing => Unfailing'
  BY <1>1, <1>4 DEF Unfailing
<1>7. ASSUME OneGeneration PROVE OneGeneration'
  BY <1>7, <1>1, <1>2, <1>3, <1>4, OneStays DEF OneGeneration, OneSet
<1> QED
  BY <1>4, <1>5, <1>6, <1>7 DEF StatsInv, InStep

(* A step of an append that leaves the sets, the state and what fails.      *)
LEMMA AppendsKeepOne ==
  ASSUME TileInv, StatsInv, Appends, OneGeneration, job'["scenes"].pc = "index" => job'["scenes"].set = parcels,
         job'["scenes"].pc = "index" => parcels.gen # 0,
         \A g \in Gens, v \in Vars : Extra(g, v)' => Extra(g, v) \/ g = state.gen
  PROVE  OneGeneration'
BY AppendsMoves, OneStays DEF StatsInv, Moves, Threads, OneGeneration, OneSet, Gens

(* What there is more is of the parcels' generation, and of what the append *)
(* goes on.                                                                 *)
LEMMA InStepChecking ==
  ASSUME TileInv, StatsInv, IndexIfStale \/ CatchUp \/ Check
  PROVE  InStep'
<1> DEFINE j == job["scenes"]
<1>1. /\ UNCHANGED <<current, parcels, left, state, stats, times>>
      /\ job'["scenes"].pc = "index" => IndexIfStale
  BY DEF IndexIfStale, CatchUp, Check, tileVars, tileStore, Call, Goto, TileInv, Job, Threads, Idle
<1>2. /\ \A g \in Gens, v \in Vars : Extra(g, v)' <=> Extra(g, v)
      /\ NoExtra => NoExtra'
      /\ Aligned'
  BY <1>1, ExtraStays DEF StatsInv, InStep
<1>3. DOMAIN job = Threads /\ DOMAIN j = DOMAIN Idle /\ "scenes" \in Threads
  BY DEF TileInv, Job, Threads
<1>4. j.pc \in {"stale", "behind", "check"}
  BY DEF IndexIfStale, CatchUp, Check, At
<1>5. Unfailing => NoExtra
  BY <1>4 DEF Unfailing
<1>6. job'["scenes"].pc = "index" => job'["scenes"].set = parcels /\ parcels.gen # 0
  <2>1. CASE IndexIfStale
    BY <1>3, <2>1, GotoIs, CallIs DEF IndexIfStale
  <2> QED
    BY <1>1, <2>1
<1>7. OneGeneration => OneGeneration'
  BY <1>2, <1>6, AppendsKeepOne DEF Appends
<1>8. Unfailing => Unfailing'
  BY <1>1, <1>2, <1>5 DEF Unfailing
<1>9. SUFFICES Filling' /\ Extending'
  BY <1>2, <1>7, <1>8 DEF StatsInv, InStep
<1>10. Extending /\ (Unfailing \/ OneGeneration)
  BY DEF StatsInv, InStep
<1>11. CASE IndexIfStale
  <2>1. \/ job'["scenes"].pc = "index"
        \/ (parcels.gen = 0 \/ state.gen = parcels.gen) /\ job'["scenes"].pc = "behind"
    BY <1>3, <1>11, GotoIs, CallIs DEF IndexIfStale
  <2>2. CASE job'["scenes"].pc = "index"
    BY <2>2 DEF Filling, Extending
  <2>3. CASE (parcels.gen = 0 \/ state.gen = parcels.gen) /\ job'["scenes"].pc = "behind"
    <3>1. ASSUME NEW g \in Gens, NEW v \in Vars, Extra(g, v)
          PROVE  g = state.gen /\ state.statsN[v] = Len(times)
      <4>1. OneGeneration
        BY <1>5, <1>10, <3>1 DEF NoExtra
      <4>2. g = parcels.gen /\ g # 0 /\ g = state.gen
        BY <2>3, <3>1, <4>1 DEF OneGeneration, OneSet, Gens
      <4>3. state.statsN[v] = Min(Len(times), Len(stats[g][v]))
        BY <1>11, <4>2 DEF IndexIfStale, At, StatsInv, InStep, Filling
      <4> QED
        BY <3>1, <4>2, <4>3, TimesTyped DEF Extra, Min
    <3>2. Extending'
      BY <1>1, <1>2, <2>3, <3>1 DEF Extending
    <3>3. Filling'
      BY <2>3 DEF Filling
    <3> QED
      BY <3>2, <3>3
  <2> QED
    BY <2>1, <2>2, <2>3
<1>12. CASE CatchUp
  <2>1. /\ j.pc = "behind"
        /\ \/ job'["scenes"].pc = "fill" /\ job'["scenes"].next \in {"end", "check"} /\ job'["scenes"].k = 1
           \/ job'["scenes"].pc = "check"
    BY <1>3, <1>12, GotoIs, CallIs DEF CatchUp, At
  <2>2. \A g \in Gens, v \in Vars : Extra(g, v) => g = state.gen /\ state.statsN[v] = Len(times)
    BY <1>10, <2>1 DEF Extending
  <2>3. \A v \in Vars : v >= 1
    BY DEF Vars
  <2>4. CASE job'["scenes"].pc = "fill" /\ job'["scenes"].next \in {"end", "check"} /\ job'["scenes"].k = 1
    BY <1>1, <1>2, <2>2, <2>3, <2>4 DEF Filling, Extending
  <2>5. CASE job'["scenes"].pc = "check"
    BY <1>1, <1>2, <2>2, <2>5 DEF Extending, Filling
  <2> QED
    BY <2>1, <2>4, <2>5
<1>13. CASE Check
  BY <1>3, <1>13, GotoIs, <1>10, <1>1, <1>2 DEF Check, At, Extending, Vars, Filling
<1> QED
  BY <1>11, <1>12, <1>13
-----------------------------------------------------------------------------
(* AppendScene where it writes.                                             *)
LEMMA InStepWriting ==
  ASSUME InStep, TileInv, StatsInv, Appends, job["scenes"].pc \in {"cut", "put", "cutStats", "putStats"},
         job'["scenes"].pc \in {"cut", "put", "cutStats", "putStats", "commit"},
         times' = times, Aligned', Extending',
         \A g \in Gens, v \in Vars : Extra(g, v)' => Extra(g, v) \/ g = state.gen
  PROVE  InStep'
BY AppendsMoves, AppendsKeepOne DEF StatsInv, Filling, Unfailing, InStep

(* What an append has in hand.                                              *)
LEMMA ExtendingIs ==
  ASSUME StatsInv, job["scenes"].pc \in {"cut", "put", "cutStats", "putStats"}
  PROVE  /\ \A g \in Gens, v \in Vars : Extra(g, v) => g = state.gen /\ state.statsN[v] = Len(times)
         /\ \A g \in Gens, v \in Vars : Extra(g, v) /\ v < job["scenes"].k => HasStats(g, v)
         /\ job["scenes"].pc \in {"cutStats", "putStats"} => state.gen # 0 /\ state.statsN[job["scenes"].k] = Len(times)
         /\ job["scenes"].pc = "putStats" => Len(stats[state.gen][job["scenes"].k]) = Len(times)
BY DEF StatsInv, InStep, Extending

LEMMA InStepCutScenes ==
  ASSUME TileInv, StatsInv, CutScenes
  PROVE  InStep'
BY ExtraStays, ExtendingIs, InStepWriting DEF CutScenes, At, TileInv, Job, Threads, Idle, StatsInv, InStep,
   HasStats, Extending, Appends

(* To the next variable, with the statistics of this one as they are to be. *)
LEMMA ExtendingNext ==
  ASSUME TileInv, StatsInv, job["scenes"].pc \in {"cut", "put", "cutStats", "putStats"}, NextVariable,
         UNCHANGED <<times, state>>,
         \A g \in Gens, v \in Vars : Extra(g, v)' => /\ g = state.gen /\ state.statsN[v] = Len(times)
                                                     /\ v < job["scenes"].k + 1 => HasStats(g, v)'
  PROVE  Extending' /\ job'["scenes"].pc \in {"cut", "commit"}
<1>1. \/ job["scenes"].k < NVars /\ job'["scenes"].pc = "cut" /\ job'["scenes"].k = job["scenes"].k + 1
      \/ job["scenes"].k = NVars /\ job'["scenes"].pc = "commit"
  BY NextVariableGoes
<1>2. \A v \in Vars : v < NVars + 1
  BY TimesTyped DEF Vars
<1>3. CASE job'["scenes"].pc = "cut" /\ job'["scenes"].k = job["scenes"].k + 1
  BY <1>3 DEF Extending
<1>4. CASE job["scenes"].k = NVars /\ job'["scenes"].pc = "commit"
  BY <1>2, <1>4 DEF Extending
<1> QED
  BY <1>1, <1>3, <1>4

LEMMA InStepPutScene ==
  ASSUME TileInv, StatsInv, PutScene
  PROVE  InStep'
<1> DEFINE k == job["scenes"].k
<1>1. /\ job["scenes"].pc = "put" /\ UNCHANGED <<stats, times, state>> /\ state.times = times /\ k \in Vars
      /\ IF state.gen # 0 /\ state.statsN[k] = Len(times)
         THEN job' = [job EXCEPT !["scenes"].pc = "cutStats"] ELSE NextVariable
  BY DEF PutScene, At, TileInv, Job
<1>2. /\ \A g \in Gens, v \in Vars : Extra(g, v)' <=> Extra(g, v)
      /\ Aligned' /\ InStep
  BY <1>1, ExtraStays DEF StatsInv, InStep
<1>3. CASE state.gen # 0 /\ state.statsN[k] = Len(times) /\ job' = [job EXCEPT !["scenes"].pc = "cutStats"]
  BY <1>3, <1>1, <1>2, ExtendingIs, InStepWriting DEF TileInv, Job, Threads, Idle, HasStats, Extending, Appends
<1>4. CASE ~(state.gen # 0 /\ state.statsN[k] = Len(times)) /\ NextVariable
  <2>1. job'["scenes"].row = job["scenes"].row
    BY <1>4, NextVariableGoes
  <2>2. \A g \in Gens, v \in Vars : HasStats(g, v) => HasStats(g, v)'
    BY <1>1, <2>1 DEF HasStats
  <2>3. ASSUME NEW g \in Gens, NEW v \in Vars, Extra(g, v)'
        PROVE  /\ g = state.gen /\ state.statsN[v] = Len(times)
               /\ v < k + 1 => HasStats(g, v)'
    BY <1>1, <1>2, <2>3, ExtendingIs, <1>4, <2>2 DEF Gens, Vars
  <2>4. Extending' /\ job'["scenes"].pc \in {"cut", "commit"}
    BY <1>1, <1>4, <2>3, ExtendingNext
  <2> QED
    BY <1>1, <1>2, <2>4, InStepWriting DEF Appends
<1> QED
  BY <1>1, <1>3, <1>4

(* The statistics of another variable, or of another generation, are as     *)
(* they were.                                                               *)
LEMMA InStepCutStats ==
  ASSUME TileInv, StatsInv, CutStats
  PROVE  InStep'
<1> DEFINE k == job["scenes"].k
           g == state.gen
           n == Len(times)
<1>1. /\ job["scenes"].pc = "cutStats" /\ UNCHANGED <<times, state>>
      /\ job' = [job EXCEPT !["scenes"].pc = "putStats"]
  BY DEF CutStats, At
<1>2. job'["scenes"].pc = "putStats" /\ job'["scenes"].k = k /\ job'["scenes"].row = job["scenes"].row
  BY <1>1 DEF TileInv, Job, Threads, Idle
<1>3. g # 0 /\ state.statsN[k] = n /\ n \in Nat
  BY <1>1, ExtendingIs, TimesTyped
<1>4. /\ g \in Gens /\ k \in Vars /\ n <= Len(stats[g][k]) /\ Len(stats'[g][k]) = n
      /\ \A f \in Gens, v \in Vars : f # g \/ v # k => stats'[f][v] = stats[f][v]
      /\ \A i \in 1 .. n : stats'[g][k][i] = stats[g][k][i]
  BY <1>3, CutStatsIs DEF StatsInv
<1> HIDE DEF g, k, n
<1>5. ASSUME NEW f \in Gens, NEW v \in Vars
      PROVE  /\ Extra(f, v)' => Extra(f, v) /\ stats'[f][v] = stats[f][v]
             /\ \A i \in 1 .. Len(stats'[f][v]) : i <= Len(times) => stats'[f][v][i] = times[i]
  <2>1. CASE f = g /\ v = k
    <3>1. ~Extra(f, v)'
      BY <1>1, <1>3, <1>4, <2>1 DEF Extra, n
    <3>2. ASSUME NEW i \in 1 .. n PROVE stats'[g][k][i] = times[i]
      BY <1>3, <1>4, LenProperties DEF n, StatsInv, TileTyped, OfTile, InStep, Aligned
    <3> QED
      BY <1>4, <2>1, <3>1, <3>2
  <2>2. CASE ~(f = g /\ v = k)
    BY <1>1, <1>4, <2>2 DEF Extra, StatsInv, InStep, Aligned
  <2> QED
    BY <2>1, <2>2
<1>6. Aligned'
  BY <1>1, <1>5 DEF Aligned
<1>7. Extending'
  <2>1. ASSUME NEW f \in Gens, NEW v \in Vars, Extra(f, v)'
        PROVE  f = state'.gen /\ state'.statsN[v] = Len(times') /\ (v < k => HasStats(f, v)')
    BY <1>1, <1>2, <1>5, <2>1, ExtendingIs DEF HasStats, k
  <2> QED
    BY <1>1, <1>2, <1>3, <1>4, <2>1 DEF Extending, g, k, n
<1> QED
  BY <1>1, <1>2, <1>5, <1>6, <1>7, InStepWriting DEF Appends, StatsInv

LEMMA InStepPutStats ==
  ASSUME TileInv, StatsInv, PutStats
  PROVE  InStep'
<1> DEFINE k == job["scenes"].k
           g == state.gen
           n == Len(times)
<1>1. job["scenes"].pc = "putStats" /\ UNCHANGED <<times, state>> /\ NextVariable
  BY DEF PutStats, At
<1>2. job'["scenes"].row = job["scenes"].row
  BY <1>1, NextVariableGoes
<1>3. g # 0 /\ state.statsN[k] = n /\ n \in Nat /\ Len(stats[g][k]) = n
  BY <1>1, ExtendingIs, TimesTyped
<1>4. /\ g \in Gens /\ k \in Vars /\ Len(stats'[g][k]) = n + 1 /\ stats'[g][k][n + 1] = job["scenes"].row
      /\ \A f \in Gens, v \in Vars : f # g \/ v # k => stats'[f][v] = stats[f][v]
      /\ \A i \in 1 .. n : stats'[g][k][i] = stats[g][k][i]
  BY <1>3, PutStatsIs DEF StatsInv
<1> HIDE DEF g, k, n
<1>5. ASSUME NEW f \in Gens, NEW v \in Vars
      PROVE  /\ Extra(f, v)' => (f = g /\ v = k) \/ (Extra(f, v) /\ stats'[f][v] = stats[f][v])
             /\ \A i \in 1 .. Len(stats'[f][v]) : i <= Len(times) => stats'[f][v][i] = times[i]
  <2>1. CASE f = g /\ v = k
    <3>1. ASSUME NEW i \in 1 .. n PROVE stats'[g][k][i] = times[i]
      BY <1>3, <1>4 DEF n, StatsInv, InStep, Aligned
    <3> QED
      BY <1>3, <1>4, <2>1, <3>1 DEF n
  <2>2. CASE ~(f = g /\ v = k)
    BY <1>1, <1>4, <2>2 DEF Extra, StatsInv, InStep, Aligned
  <2> QED
    BY <2>1, <2>2
<1>6. Aligned'
  BY <1>1, <1>5 DEF Aligned
<1>7. ASSUME NEW f \in Gens, NEW v \in Vars, Extra(f, v)'
      PROVE  /\ f = state.gen /\ state.statsN[v] = Len(times)
             /\ v < job["scenes"].k + 1 => HasStats(f, v)'
  <2>1. CASE f = g /\ v = k
    BY <1>1, <1>2, <1>3, <1>4, <2>1 DEF HasStats, g, k, n
  <2>2. CASE ~(f = g /\ v = k)
    BY <1>5, <1>7, <2>2, <1>1, ExtendingIs, <1>4, <1>2 DEF g, k, Vars, HasStats
  <2> QED
    BY <2>1, <2>2
<1>8. Extending' /\ job'["scenes"].pc \in {"cut", "commit"}
  BY <1>1, <1>7, ExtendingNext
<1> QED
  BY <1>1, <1>6, <1>7, <1>8, InStepWriting DEF Appends, StatsInv

(* The commit: what there is more is of the scene that is committed.        *)
LEMMA InStepCommit ==
  ASSUME TileInv, StatsInv, CommitScene
  PROVE  InStep'
<1> DEFINE n == Len(times)
           x == job["scenes"].row
<1>1. /\ job["scenes"].pc = "commit" /\ UNCHANGED <<stats, state>> /\ times' = Append(times, x)
      /\ Call("scenes", "filled", "end")
  BY DEF CommitScene, At
<1>2. job'["scenes"].pc = "filled"
  BY <1>1, CallIs DEF TileInv, Job, Threads
<1>3. /\ n \in Nat /\ Len(times') = n + 1 /\ times'[n + 1] = x
      /\ \A i \in 1 .. n : times'[i] = times[i]
  BY <1>1, TimesTyped, AppendProperties, LenProperties DEF TileInv, Job
<1>4. \A g \in Gens, v \in Vars : Extra(g, v) => Len(stats[g][v]) = n + 1 /\ stats[g][v][n + 1] = x
  BY <1>1 DEF StatsInv, InStep, Extending, HasStats
<1>5. \A g \in Gens, v \in Vars : Len(stats[g][v]) \in Nat
  BY LenProperties DEF StatsInv, TileTyped, OfTile
<1> HIDE DEF n, x
<1>6. NoExtra'
  <2>1. SUFFICES ASSUME NEW g \in Gens, NEW v \in Vars PROVE ~(n + 1 < Len(stats[g][v]))
    BY <1>1, <1>3 DEF NoExtra, Extra
  <2>2. n < Len(stats[g][v]) => Len(stats[g][v]) = n + 1
    BY <1>4 DEF Extra, n
  <2> QED
    BY <1>3, <1>5, <2>2
<1>7. Aligned'
  <2>1. SUFFICES ASSUME NEW g \in Gens, NEW v \in Vars, NEW i \in 1 .. Len(stats[g][v]), i <= n + 1
                 PROVE  stats[g][v][i] = times'[i]
    BY <1>1, <1>3 DEF Aligned
  <2>2. CASE i <= n
    BY <1>3, <1>5, <2>1, <2>2 DEF StatsInv, InStep, Aligned, n
  <2>3. CASE i = n + 1
    BY <1>3, <1>5, <2>1, <2>3, <1>4 DEF Extra, n
  <2> QED
    BY <1>3, <1>5, <2>1, <2>2, <2>3
<1>8. left' = left
  BY AppendsMoves DEF StatsInv, Appends
<1>9. OneGeneration => OneGeneration'
  BY <1>2, <1>6, AppendsKeepOne DEF Appends, NoExtra
<1> QED
  BY <1>2, <1>6, <1>7, <1>8, <1>9, InStepNone DEF StatsInv
-----------------------------------------------------------------------------
(* CreateTile, and the tile's part in PutParcels.                           *)
LEMMA InStepAdmin ==
  ASSUME TileInv, StatsInv, CreateTile \/ DescribeTile \/ RegisterTile \/ OpenTile \/ IndexParcels
  PROVE  InStep'
<1>1. Moves("admin") /\ job'["admin"].pc # "current"
  BY AdminTyped DEF StatsInv
<1>2. job'["scenes"] = job["scenes"] /\ job'["admin"].set \in {job["admin"].set, parcels, NoSet}
  BY <1>1 DEF Moves, Threads
<1>3. UNCHANGED <<current, parcels, left, stats, times>> /\ state' \in {state, Loaded(parcels)}
  BY DEF CreateTile, DescribeTile, RegisterTile, OpenTile, IndexParcels, tileVars, tileStore
<1>4. state'.gen \in {state.gen, 0, parcels.gen}
  BY <1>3, LoadedIs DEF StatsInv, TileTyped, Shared
<1>5. OneGeneration => OneGeneration'
  <2> SUFFICES ASSUME OneGeneration PROVE OneGeneration'
    OBVIOUS
  <2>1. /\ \A g \in Gens, v \in Vars : Extra(g, v)' => g = parcels.gen
        /\ job["scenes"].pc = "index" => job["scenes"].set.gen = Only
    BY <1>3, ExtraStays DEF OneGeneration, OneSet
  <2> QED
    BY <1>1, <1>2, <1>3, <1>4, <2>1, OneStays
<1>6. CASE state' = state
  BY <1>2, <1>3, <1>5, <1>6, InStepBeside DEF StatsInv
<1>7. CASE OpenTile
  BY <1>7, <1>3, <1>2, <1>5, ExtraStays, InStepIdle DEF OpenTile, At, StatsInv, Alone, Unfailing, InStep
<1> QED
  BY <1>6, <1>7 DEF CreateTile, DescribeTile, RegisterTile, IndexParcels, tileVars

(* A step of Next.                                                          *)
LEMMA StatsStep ==
  ASSUME TileInv, StatsInv, [Next]_vars
  PROVE  StatsInv'
<1>1. TileTyped' /\ Alone'
  BY TypedStep DEF StatsInv
<1>2. ASSUME UNCHANGED <<stats, times, state, job, left, current, parcels>>
      PROVE  InStep'
  BY <1>2, ExtraStays, InStepBeside DEF OneGeneration, OneSet, Only, StatsInv
<1>3. InStep'
  <2>1. CASE \E t \in {"scenes", "admin"} : Subroutine(t)
    BY <2>1, InStepSubroutine, InStepSubroutineAdmin
  <2>2. CASE AppendScene \/ BackfillStats
    BY <2>2, InStepBegin DEF AppendScene, BackfillStats
  <2>3. CASE Appends
    BY <2>3, InStepChecking, InStepCutScenes, InStepPutScene, InStepCutStats, InStepPutStats, InStepCommit
       DEF Appends
  <2>4. CASE CreateTile \/ DescribeTile \/ RegisterTile \/ OpenTile \/ IndexParcels
    BY <2>4, InStepAdmin
  <2>5. CASE RefreshTile \/ RefreshTimes \/ RefreshArrays \/ RefreshIndex \/ RefreshStats
    BY <1>2, <2>5 DEF RefreshTile, RefreshTimes, RefreshArrays, RefreshIndex, RefreshStats, tileVars, tileStore
  <2>6. CASE SourceNext /\ UNCHANGED tileVars
    BY <2>6, InStepSource
  <2>7. CASE ParcelsNext
    BY <2>7, InStepParcels
  <2>8. CASE Restart
    BY <2>8, InStepRestart
  <2>9. CASE UNCHANGED vars
    BY <1>2, <2>9 DEF vars, tileVars, tileStore, parcelVars
  <2> QED
    BY <2>1, <2>2, <2>3, <2>4, <2>5, <2>6, <2>7, <2>8, <2>9 DEF Next, TileNext, Subroutine, Appends
<1> QED
  BY <1>1, <1>3 DEF StatsInv

(* What a snapshot reads of the statistics.                                 *)
LEMMA StatsAreRead ==
  ASSUME TileInv, StatsInv, NEW snap, IsState(snap), Begins(times, snap.times), NEW set
  PROVE  ReadsItsStats(snap, set)
<1> SUFFICES ASSUME NEW v \in Vars, NEW i \in 1 .. (IF snap.gen = set.gen THEN snap.statsN[v] ELSE 0)
             PROVE  Row(stats[snap.gen][v], i) \in {snap.times[i], Fill}
  BY DEF ReadsItsStats, ParcelSeries
<1>1. /\ snap.statsN[v] \in Nat /\ snap.statsN[v] <= Len(snap.times) /\ i \in 1 .. snap.statsN[v]
      /\ snap.gen \in Gens
  BY DEF IsState
<1>2. Len(snap.times) \in Nat /\ Len(times) \in Nat /\ Len(snap.times) <= Len(times)
  BY LenProperties DEF Begins
<1>3. i \in 1 .. Len(snap.times) /\ i <= Len(times) /\ times[i] = snap.times[i]
  BY <1>1, <1>2 DEF Begins
<1>4. Len(stats[snap.gen][v]) \in Nat
  BY <1>1, LenProperties DEF StatsInv, TileTyped, OfTile
<1>5. i <= Len(stats[snap.gen][v]) => stats[snap.gen][v][i] = times[i]
  BY <1>1, <1>3, <1>4 DEF StatsInv, InStep, Aligned
<1> QED
  BY <1>3, <1>5 DEF Row

(* The statistics that are read of a scene are of that scene, if they were  *)
(* not dropped since, in every history in which nothing fails, or no        *)
(* parcels are put, or they are put once into a database that has nothing   *)
(* at first (tile.go:291-301, 624-640, query.go:47-83, doc.go:57-62,        *)
(* 70-73): what a failed append leaves past the times is of the generation  *)
(* the next append appends to, and cut off by it.                           *)
THEOREM StatsOfTheirScenes == PlansAreUntorn => (Spec => []StatsAreOfTheirScenes)
<1> SUFFICES ASSUME PlansAreUntorn PROVE Spec => []StatsAreOfTheirScenes
  OBVIOUS
<1>1. Init => StatsInv
  BY InitTyped, InitStats DEF StatsInv
<1>2. TileInv /\ StatsInv /\ [Next]_vars => StatsInv'
  BY StatsStep
<1>3. TileInv /\ StatsInv => StatsAreOfTheirScenes
  <2> SUFFICES ASSUME TileInv, StatsInv PROVE StatsAreOfTheirScenes
    OBVIOUS
  <2>1. IsState(state) /\ IsState(tileSnap) /\ Begins(times, state.times) /\ Begins(times, tileSnap.times)
    BY DEF StatsInv, TileTyped, OfTile, TileInv, Snapshots
  <2> QED
    BY <2>1, StatsAreRead DEF StatsAreOfTheirScenes
<1> QED
  BY <1>1, <1>2, <1>3, TileInStep, PTL DEF Spec
-----------------------------------------------------------------------------
(* The types of the state that the source has, and of how many steps its    *)
(* goroutines add or sample: no more than there are, if they are read back. *)
IsSource(s) ==
  /\ DOMAIN s = DOMAIN NoSource /\ s.steps \in 0 .. MaxSteps /\ s.gen \in Gens \cup {0}
  /\ s.pwSteps \in 0 .. s.steps /\ (s.gen = 0 => s.pwSteps = 0)
Sampled == [at : {"none", "begun", "ready"}, steps : 0 .. MaxSteps, of : [Vars -> Seq(Values)]]

OfSource ==
  /\ source \in {"none", "begun", "described", "registered"}
  /\ steps <= MaxSteps /\ samples \in [Gens -> Sampled]
  /\ IsSource(wstate) /\ IsSource(sourceSnap) /\ IsSource(sourceNew) /\ wstate.steps <= steps
  /\ refresh.pc = "values" => sourceNew.pwSteps = 0

Amount(j) ==
  /\ j.n \in 0 .. MaxSteps /\ j.count \in 0 .. MaxAppend + ChunkSteps
  /\ j.pc \in {"cutValues", "putValues", "cutSamples", "putSamples", "markSamples", "commit"} =>
       j.n + j.count <= MaxSteps
  /\ j.pc \in {"cutSamples", "putSamples", "markSamples"} =>
       j.row \in Values \/ (j.row = 0 /\ j.n + j.count <= steps)
Amounts ==
  /\ job["scenes"].n = 0 /\ job["scenes"].count = 0 /\ job["admin"].row = 0
  /\ \A t \in {"steps", "admin"} : Amount(job[t])
-----------------------------------------------------------------------------
LEMMA BoundsTyped ==
  /\ MaxSteps \in Nat /\ MaxAppend \in Nat /\ ChunkSteps \in Nat \ {0} /\ 1 \in Vars
  /\ Values \subseteq Nat \ {0}
BY GeodbAssumption DEF Vars

LEMMA NoSourceTyped == IsSource(NoSource)
BY BoundsTyped DEF IsSource, NoSource

LEMMA LoadedSourceIs ==
  ASSUME SourceInv, OfSource, NEW set \in Sets
  PROVE  IsSource(LoadedSource(set)) /\ LoadedSource(set).steps = steps
<1> DEFINE g == SampledFor(set)
<1>1. Shortest(steps) = steps /\ steps \in Nat
  BY SourceTypes, ShortestIsAll
<1>2. g \in Gens \cup {0}
  BY DEF SampledFor, Sets
<1>3. PwSteps(g, steps) \in 0 .. steps /\ (g = 0 => PwSteps(g, steps) = 0)
  <2>1. CASE g = 0
    BY <1>1, <2>1 DEF PwSteps
  <2>2. CASE g # 0
    BY <1>2, <2>2, <1>1, BoundsTyped DEF OfSource, Sampled, PwSteps, Min
  <2> QED
    BY <2>1, <2>2
<1>4. LoadedSource(set) = [open |-> TRUE, steps |-> steps, gen |-> g, pwSteps |-> PwSteps(g, steps)]
  BY <1>1 DEF LoadedSource
<1> HIDE DEF g
<1>5. steps \in 0 .. MaxSteps
  BY <1>1, BoundsTyped DEF OfSource
<1> QED
  BY <1>2, <1>3, <1>4, <1>5 DEF IsSource, NoSource

LEMMA IdleAmount == Idle.n = 0 /\ Idle.count = 0 /\ Idle.row = 0 /\ Amount(Idle)
BY BoundsTyped DEF Idle, Amount

LEMMA InitOfSource ==
  ASSUME Init
  PROVE  OfSource /\ Amounts
<1>1. /\ source = (IF MadeSource THEN "registered" ELSE "none") /\ steps = 0
      /\ samples = [g \in Gens |-> IF MadeSource /\ g = 1 THEN [NoSamples EXCEPT !.at = "ready"] ELSE NoSamples]
      /\ wstate = (IF MadeSource THEN [NoSource EXCEPT !.open = TRUE, !.gen = 1] ELSE NoSource)
      /\ sourceSnap = NoSource /\ sourceNew = NoSource /\ left \in Plans
      /\ job = [t \in Threads |-> Idle]
  BY DEF Init, InitSource, InitParcels
<1>2. NoSamples \in Sampled /\ [NoSamples EXCEPT !.at = "ready"] \in Sampled
  <2>1. NoRows \in [Vars -> Seq(Values)]
    BY DEF NoRows
  <2>2. 0 \in 0 .. MaxSteps
    BY BoundsTyped
  <2> QED
    BY <2>1, <2>2 DEF NoSamples, Sampled
<1>3. IsSource(wstate) /\ wstate.steps = 0
  <2>1. CASE MadeSource
    BY <1>1, <2>1, GeodbAssumption, BoundsTyped DEF MadeSource, Made, Gens, NoSource, IsSource
  <2>2. CASE ~MadeSource
    BY <1>1, <2>2, NoSourceTyped DEF NoSource
  <2> QED
    BY <2>1, <2>2
<1>4. OfSource
  BY <1>1, <1>2, <1>3, NoSourceTyped, BoundsTyped DEF OfSource, NoSource
<1>5. Amounts
  BY <1>1, IdleAmount DEF Amounts, Threads
<1> QED
  BY <1>4, <1>5
-----------------------------------------------------------------------------
(* The steps of others leave the source, and how many steps are added.      *)
Adds == {"cutValues", "putValues", "cutSamples", "putSamples", "markSamples", "commit"}
Others ==
  /\ UNCHANGED <<source, steps, samples, sourceSnap, sourceNew>>
  /\ job'["scenes"].n = 0 /\ job'["scenes"].count = 0
  /\ \A t \in {"steps", "admin"} :
       \/ job'[t] = job[t] \/ job'[t] = Idle
       \/ /\ job'[t].pc \notin Adds /\ job'[t].n = job[t].n /\ job'[t].count = job[t].count
          /\ job'[t].row = job[t].row

LEMMA OthersTyped ==
  ASSUME SourceInv, OfSource, Amounts, Others, IsSource(wstate'), wstate'.steps <= steps,
         refresh'.pc = "values" => refresh.pc = "values"
  PROVE  OfSource' /\ Amounts'
<1>1. OfSource'
  BY DEF Others, OfSource, IsSource
<1>2. ASSUME NEW t \in {"steps", "admin"} PROVE Amount(job[t])'
  BY IdleAmount DEF Others, Amounts, Amount, Adds
<1>3. job'["admin"].row = 0
  BY IdleAmount DEF Others, Amounts
<1> QED
  BY <1>1, <1>2, <1>3 DEF Others, Amounts

(* What the steps of a tile do with how many steps there are.               *)
LEMMA GotoOthers ==
  ASSUME TileInv, TileTyped, Amounts, NEW t \in {"scenes", "admin"}, NEW pc, Goto(t, pc), t = "admin" => pc \notin Adds,
         UNCHANGED <<source, steps, samples, sourceSnap, sourceNew>>
  PROVE  Others
BY DEF Goto, Others, Amounts, Adds, TileInv, Job, TileTyped, Shared, Threads, Idle

LEMMA CallOthers ==
  ASSUME TileInv, TileTyped, Amounts, NEW t \in {"scenes", "admin"}, NEW pc, NEW next, Call(t, pc, next),
         t = "admin" => pc \notin Adds, UNCHANGED <<source, steps, samples, sourceSnap, sourceNew>>
  PROVE  Others
BY DEF Call, Others, Amounts, Adds, TileInv, Job, TileTyped, Shared, Threads, Idle

LEMMA SubroutineOthers ==
  ASSUME TileInv, TileTyped, Amounts, NEW t \in {"scenes", "admin"}, Subroutine(t), UNCHANGED sourceVars
  PROVE  Others
<1>1. UNCHANGED <<source, steps, samples, sourceSnap, sourceNew>> /\ t \in Threads
  BY DEF sourceVars, sourceStore, sourceRead, Threads
<1>2. job["admin"].next \notin Adds
  BY DEF TileTyped, Shared, Adds
<1>3. CASE \E pc \in Subroutines \cup {job[t].next} : Goto(t, pc)
  BY <1>1, <1>2, <1>3, GotoOthers DEF Subroutines, Adds
<1>4. CASE job' = job
  BY <1>1, <1>4 DEF Others, Amounts
<1>5. CASE Backfill(t)
  <2>1. job[t].pc = "fill" /\ (job' = job \/ Goto(t, "filled") \/ \E k : job' = [job EXCEPT ![t].k = k])
    BY <1>5 DEF Backfill, At
  <2>2. CASE \E k : job' = [job EXCEPT ![t].k = k]
    BY <1>1, <2>1, <2>2 DEF Others, Amounts, Adds, TileInv, Job, TileTyped, Shared, Threads, Idle
  <2> QED
    BY <1>3, <1>4, <2>1, <2>2 DEF Subroutines
<1> QED
  BY <1>3, <1>5 DEF Subroutine, DeleteIndex, MakeIndex, FinishIndex, DropStats, Reload, NothingToFill, Filled, Subroutines

LEMMA AppendsOthers ==
  ASSUME TileInv, TileTyped, Amounts, Appends \/ AppendScene \/ BackfillStats, UNCHANGED sourceVars
  PROVE  Others
<1>1. UNCHANGED <<source, steps, samples, sourceSnap, sourceNew>>
  BY DEF sourceVars, sourceStore, sourceRead
<1>2. /\ DOMAIN job = Threads /\ DOMAIN job["scenes"] = DOMAIN Idle /\ "scenes" \in Threads
      /\ job["scenes"].n = 0 /\ job["scenes"].count = 0
  BY DEF TileInv, Job, Amounts, Threads
<1>3. ASSUME \A t \in {"steps", "admin"} : job'[t] = job[t], job'["scenes"].n = 0, job'["scenes"].count = 0
      PROVE  Others
  BY <1>1, <1>3 DEF Others
<1>4. CASE (\E pc : Goto("scenes", pc)) \/ (\E pc, next : Call("scenes", pc, next))
  BY <1>1, <1>4, GotoOthers, CallOthers
<1>5. CASE \/ \E pc : job' = [job EXCEPT !["scenes"].pc = pc]
           \/ \E pc, k : job' = [job EXCEPT !["scenes"].pc = pc, !["scenes"].k = k]
           \/ \E pc, s : job' = [job EXCEPT !["scenes"].pc = pc, !["scenes"].row = s]
  <2>1. "steps" \in Threads /\ "admin" \in Threads /\ "scenes" \in Threads
    BY DEF Threads
  <2>2. CASE \E pc : job' = [job EXCEPT !["scenes"].pc = pc]
    BY <1>2, <1>3, <2>1, <2>2 DEF Idle
  <2>3. CASE \E pc, k : job' = [job EXCEPT !["scenes"].pc = pc, !["scenes"].k = k]
    BY <1>2, <1>3, <2>1, <2>3 DEF Idle
  <2>4. CASE \E pc, s : job' = [job EXCEPT !["scenes"].pc = pc, !["scenes"].row = s]
    BY <1>2, <1>3, <2>1, <2>4 DEF Idle
  <2> QED
    BY <1>5, <2>2, <2>3, <2>4
<1>6. CASE IndexIfStale \/ CatchUp \/ Check \/ CommitScene
  BY <1>4, <1>6 DEF IndexIfStale, CatchUp, Check, CommitScene
<1>7. CASE NextVariable
  BY <1>4, <1>5, <1>7 DEF NextVariable
<1>8. CASE CutScenes \/ PutScene \/ CutStats \/ PutStats
  BY <1>5, <1>7, <1>8 DEF CutScenes, PutScene, CutStats, PutStats
<1>9. CASE \E s : BeginTile(s)
  BY <1>5, <1>9 DEF BeginTile
<1> QED
  BY <1>6, <1>8, <1>9 DEF Appends, AppendScene, BackfillStats

LEMMA TileOthers ==
  ASSUME TileInv, TileTyped, Amounts, TileNext, UNCHANGED sourceVars
  PROVE  Others
<1>1. UNCHANGED <<source, steps, samples, sourceSnap, sourceNew>>
  BY DEF sourceVars, sourceStore, sourceRead
<1>2. CASE \E t \in {"scenes", "admin"} : Subroutine(t)
  BY <1>2, SubroutineOthers
<1>3. CASE Appends \/ AppendScene \/ BackfillStats
  BY <1>3, AppendsOthers
<1>4. CASE CreateTile \/ DescribeTile \/ RegisterTile \/ OpenTile \/ IndexParcels
  BY <1>4, <1>1, GotoOthers, CallOthers DEF TileTyped, Shared, Adds, CreateTile, DescribeTile, RegisterTile,
     OpenTile, IndexParcels
<1>5. CASE RefreshTile \/ RefreshTimes \/ RefreshArrays \/ RefreshIndex \/ RefreshStats
  BY <1>1, <1>5 DEF RefreshTile, RefreshTimes, RefreshArrays, RefreshIndex, RefreshStats, Others, Amounts
<1> QED
  BY <1>2, <1>3, <1>4, <1>5 DEF TileNext, Subroutine, Appends

LEMMA ParcelsOthers ==
  ASSUME TileInv, TileTyped, Amounts, ParcelsNext
  PROVE  Others /\ wstate' = wstate
<1>1. UNCHANGED <<source, steps, samples, wstate, sourceSnap, sourceNew>>
  BY DEF ParcelsNext, sourceVars, sourceStore, sourceRead
<1>2. /\ DOMAIN job = Threads /\ DOMAIN job["admin"] = DOMAIN Idle
      /\ lock \in [{"tile", "source"} -> Threads \cup {"free"}]
  BY DEF TileInv, Job, TileTyped, Shared, Threads
<1>3. CASE PutParcels
  BY <1>3, <1>1, <1>2 DEF PutParcels, Others, Amounts, Adds, Threads, Idle
<1>4. CASE MakeCurrent \/ LoadParcels \/ DropParcels
  BY <1>4, <1>1, GotoOthers DEF MakeCurrent, LoadParcels, DropParcels, Adds
<1>5. CASE \E t \in Threads : End(t) \/ Fail(t)
  <2>1. PICK t \in Threads : Return(t)
    BY <1>5 DEF End, Fail
  <2>2. job'[t] = Idle /\ \A u \in Threads : u # t => job'[u] = job[u]
    BY <1>2, <2>1 DEF Return
  <2> QED
    BY <1>1, <2>2, IdleAmount DEF Others, Amounts, Threads
<1>6. CASE RefreshParcels \/ RefreshFails \/ \E found : RefreshBegins(found)
  BY <1>1, <1>6 DEF RefreshParcels, RefreshFails, RefreshBegins, Others, Amounts
<1> QED
  BY <1>1, <1>3, <1>4, <1>5, <1>6 DEF ParcelsNext

LEMMA OthersStep ==
  ASSUME TileInv, TileTyped, SourceInv, OfSource, Amounts,
         (TileNext /\ UNCHANGED sourceVars) \/ ParcelsNext \/ Restart \/ UNCHANGED vars
  PROVE  OfSource' /\ Amounts'
<1>1. DOMAIN refresh = {"pc", "set", "found", "parcels"} /\ IsSource(wstate) /\ wstate.steps <= steps
  BY DEF TileInv, Refreshing, OfSource
<1>2. CASE TileNext /\ UNCHANGED sourceVars
  BY <1>2, <1>1, TileOthers, OthersTyped DEF TileNext, DeleteIndex, MakeIndex, FinishIndex, DropStats, Reload,
     Filled, NothingToFill, Backfill, AppendScene, BackfillStats, BeginTile, IndexIfStale, CatchUp, Check,
     CutScenes, PutScene, CutStats, PutStats, CommitScene, CreateTile, DescribeTile, RegisterTile, OpenTile,
     IndexParcels, RefreshTile, RefreshTimes, RefreshArrays, RefreshIndex, RefreshStats, RefreshGoes, Found,
     sourceVars
<1>3. CASE ParcelsNext
  BY <1>3, <1>1, ParcelsOthers, OthersTyped DEF ParcelsNext, PutParcels, MakeCurrent, LoadParcels, DropParcels,
     End, Fail, RefreshParcels, RefreshFails, RefreshBegins, Found
<1>4. CASE Restart
  <2>1. /\ job' = [t \in Threads |-> Idle] /\ refresh' = refresh
        /\ wstate' = (IF source = "registered" THEN LoadedSource(current) ELSE NoSource)
        /\ UNCHANGED <<source, steps, samples, sourceSnap, sourceNew>>
    BY <1>4 DEF Restart, RestartParcels, RestartSource, sourceStore, sourceRead
  <2>2. IsSource(wstate') /\ wstate'.steps <= steps
    BY LoadedSourceIs, <2>1, NoSourceTyped, SourceTypes DEF TileTyped, Shared, NoSource
  <2>3. Others
    BY <2>1, IdleAmount DEF Others, Threads
  <2> QED
    BY <2>1, <2>2, <2>3, OthersTyped
<1>5. CASE UNCHANGED vars
  BY <1>5, <1>1, OthersTyped DEF vars, sourceVars, sourceStore, sourceRead, parcelVars, Others, Amounts
<1> QED
  BY <1>2, <1>3, <1>4, <1>5
-----------------------------------------------------------------------------
(* Sampling: how many steps, and what of the samples.                       *)
LEMMA SamplingAmount ==
  ASSUME TileInv, TileTyped, SourceInv, OfSource, Amounts, NEW t \in {"steps", "admin"}, SamplingNext(t)
  PROVE  Amount(job[t])' /\ (t = "admin" => job'[t].row = 0)
<1>1. /\ DOMAIN job = Threads /\ DOMAIN job[t] = DOMAIN Idle /\ t \in Threads
      /\ {"pc", "k", "n", "row", "count", "set"} \subseteq DOMAIN job[t]
      /\ Amount(job[t]) /\ (t = "admin" => job[t].row = 0) /\ steps' = steps
  BY SamplingStays DEF TileInv, Job, TileTyped, Shared, Threads, Idle, Amounts, SourceStays
<1>2. job[t].n \in Nat /\ job[t].count \in Nat /\ steps \in Nat /\ MaxSteps \in Nat /\ job[t].n <= MaxSteps
  BY <1>1, SourceTypes, BoundsTyped DEF Amount
<1>3. ASSUME job'[t].pc \notin Adds, job'[t].n \in 0 .. MaxSteps, job'[t].count = job[t].count
      PROVE  Amount(job[t])'
  BY <1>1, <1>3 DEF Amount, Adds
<1>4. CASE CutSamples(t)
  BY <1>4, <1>1 DEF CutSamples, At, Amount
<1>5. CASE PutSamples(t)
  BY <1>5, <1>1 DEF PutSamples, NextArray, Goto, At, Amount
<1>6. CASE MarkSamples(t)
  <2>1. /\ job[t].pc = "markSamples"
        /\ \/ job' = [job EXCEPT ![t].pc = "commit", ![t].k = 1]
           \/ job' = [job EXCEPT ![t].pc = "sampling", ![t].n = job[t].n + job[t].count, ![t].k = 1]
    BY <1>6 DEF MarkSamples, Goto, At
  <2>2. job[t].n + job[t].count \in 0 .. MaxSteps
    BY <1>1, <1>2, <2>1 DEF Amount
  <2>3. /\ job'[t].count = job[t].count /\ job'[t].row = job[t].row
        /\ \/ job'[t].pc = "commit" /\ job'[t].n = job[t].n
           \/ job'[t].pc = "sampling" /\ job'[t].n = job[t].n + job[t].count
    BY <1>1, <2>1
  <2>4. CASE job'[t].pc = "commit" /\ job'[t].n = job[t].n
    BY <1>1, <2>1, <2>3, <2>4 DEF Amount
  <2>5. CASE job'[t].pc = "sampling" /\ job'[t].n = job[t].n + job[t].count
    BY <1>1, <1>3, <2>2, <2>3, <2>5 DEF Adds
  <2> QED
    BY <2>3, <2>4, <2>5
<1>7. ASSUME NEW set \in Sets PROVE LoadedSource(set).pwSteps \in 0 .. MaxSteps
  BY <1>2, LoadedSourceIs DEF IsSource
<1>8. parcels \in Sets
  BY DEF TileTyped, Shared
<1>9. CASE Sample(t)
  <2>1. PICK pc \in {"sampling", "setUp"}, n \in 0 .. MaxSteps :
          job' = [job EXCEPT ![t].set = parcels, ![t].n = n, ![t].row = 0, ![t].k = 1, ![t].pc = pc]
    BY <1>7, <1>8, <1>9 DEF Sample
  <2>2. job'[t].pc = pc /\ job'[t].n = n /\ job'[t].count = job[t].count /\ job'[t].row = 0
    BY <1>1, <2>1
  <2> QED
    BY <1>3, <2>2 DEF Adds
<1>10. CASE SetUpDone(t)
  <2>1. PICK n \in 0 .. MaxSteps : job' = [job EXCEPT ![t].pc = "sampling", ![t].n = n]
    BY <1>7, <1>8, <1>10 DEF SetUpDone
  <2>2. job'[t].pc = "sampling" /\ job'[t].n = n /\ job'[t].count = job[t].count /\ job'[t].row = job[t].row
    BY <1>1, <2>1
  <2> QED
    BY <1>1, <1>3, <2>2 DEF Adds
<1>11. CASE \E pc \in {"sampled", "end", "makeSamples", "readySamples", "dropSamples", "setUpDone"} : Goto(t, pc)
  <2>1. PICK pc \in {"sampled", "end", "makeSamples", "readySamples", "dropSamples", "setUpDone"} : Goto(t, pc)
    BY <1>11
  <2>2. job'[t].pc = pc /\ job'[t].n = job[t].n /\ job'[t].count = job[t].count /\ job'[t].row = job[t].row
    BY <1>1, <2>1 DEF Goto
  <2> QED
    BY <1>1, <1>3, <2>2 DEF Adds, Amount
<1>12. CASE Sampling(t)
  <2>1. CASE Goto(t, "sampled")
    BY <1>11, <2>1
  <2>2. CASE ~Goto(t, "sampled")
    <3> DEFINE rest == wstate.steps - job[t].n
               c == Min(rest, ChunkSteps - (job[t].n % ChunkSteps))
    <3>1. /\ job[t].pc = "sampling" /\ job[t].n < wstate.steps
          /\ job' = [job EXCEPT ![t].pc = "cutSamples", ![t].count = c]
      BY <1>12, <2>2 DEF Sampling, At
    <3>2. job[t].n % ChunkSteps \in 0 .. ChunkSteps - 1
      BY <1>2, BoundsTyped
    <3>3. wstate.steps \in Nat /\ wstate.steps <= steps /\ wstate.steps <= MaxSteps
      BY <1>2 DEF OfSource, IsSource
    <3>4. c \in 0 .. ChunkSteps /\ c <= rest
      <4>1. rest \in Nat
        BY <1>2, <3>1, <3>3
      <4>2. ChunkSteps - (job[t].n % ChunkSteps) \in 0 .. ChunkSteps
        BY <3>2, BoundsTyped
      <4>3. ASSUME NEW a \in Nat, NEW b \in 0 .. ChunkSteps
            PROVE  Min(a, b) \in 0 .. ChunkSteps /\ Min(a, b) <= a
        BY BoundsTyped DEF Min
      <4> QED
        BY <4>1, <4>2, <4>3
    <3> HIDE DEF c
    <3>5. /\ job'[t].pc = "cutSamples" /\ job'[t].n = job[t].n /\ job'[t].count = c /\ job'[t].row = job[t].row
      BY <1>1, <3>1
    <3>6. job[t].row = 0
      <4>1. CASE t = "steps"
        BY <3>1, <4>1 DEF SourceInv, Stepping
      <4> QED
        BY <1>1, <4>1
    <3>7. job[t].n + c <= steps /\ job[t].n + c <= MaxSteps /\ c \in 0 .. MaxAppend + ChunkSteps
      BY <1>2, <3>3, <3>4, BoundsTyped
    <3> QED
      BY <1>1, <1>2, <3>5, <3>6, <3>7 DEF Amount
  <2> QED
    BY <2>1, <2>2
<1> QED
  BY <1>4, <1>5, <1>6, <1>9, <1>10, <1>11, <1>12
     DEF SamplingNext, SamplingEnds, DeleteSamples, MakeSamples, ReadySamples, DropSamples

(* One array of the samples, and what is left of it.                        *)
LEMMA CutIsTyped ==
  ASSUME NEW S, NEW rows \in Seq(S), NEW n \in Nat, n <= Len(rows)
  PROVE  SubSeq(rows, 1, n) \in Seq(S)
BY LenProperties, ElementOfSeq, SubSeqProperties

LEMMA OneOfSamples ==
  ASSUME OfSource, NEW g, NEW k \in Vars, NEW rows \in Seq(Values), samples' = [samples EXCEPT ![g].of[k] = rows]
  PROVE  samples' \in [Gens -> Sampled]
<1>1. samples \in [Gens -> Sampled]
  BY DEF OfSource
<1>2. CASE g \in Gens
  BY <1>1, <1>2 DEF Sampled
<1>3. CASE g \notin Gens
  BY <1>1, <1>3
<1> QED
  BY <1>2, <1>3

LEMMA SamplesTyped ==
  ASSUME TileInv, TileTyped, SourceInv, OfSource, Amounts, NEW t \in {"steps", "admin"}, SamplingNext(t)
  PROVE  samples' \in [Gens -> Sampled]
<1>1. /\ samples \in [Gens -> Sampled] /\ Amount(job[t]) /\ job[t].k \in Vars
  BY DEF OfSource, Amounts, TileTyped, Shared, Threads
<1>2. job[t].n \in Nat /\ job[t].count \in Nat /\ steps \in Nat /\ MaxSteps \in Nat
  BY <1>1, SourceTypes, BoundsTyped DEF Amount
<1>3. NoSamples \in Sampled
  BY <1>2 DEF NoRows, NoSamples, Sampled
<1>4. CASE CutSamples(t)
  <2> DEFINE g == wstate.gen
             k == job[t].k
             n == job[t].n
  <2>1. /\ g # 0 /\ Len(samples[g].of[k]) >= n
        /\ samples' = [samples EXCEPT ![g].of[k] = SubSeq(samples[g].of[k], 1, n)]
    BY <1>4 DEF CutSamples, CutTo
  <2>2. samples[g].of[k] \in Seq(Values)
    BY <1>1, <2>1 DEF OfSource, IsSource, Sampled
  <2>3. n \in Nat
    BY <1>2
  <2> HIDE DEF g, k, n
  <2>4. SubSeq(samples[g].of[k], 1, n) \in Seq(Values)
    BY <2>1, <2>2, <2>3, CutIsTyped
  <2> QED
    BY <1>1, <2>1, <2>4, OneOfSamples DEF k
<1>5. CASE PutSamples(t)
  <2> DEFINE g == wstate.gen
             k == job[t].k
             j == job[t]
             rows == IF j.row # 0 THEN Rows(j.row, j.count) ELSE SubSeq(values[k], j.n + 1, j.n + j.count)
  <2>1. /\ j.pc = "putSamples" /\ samples' = [samples EXCEPT ![g].of[k] = samples[g].of[k] \o rows]
    BY <1>5 DEF PutSamples, At
  <2>2. rows \in Seq(Values)
    <3>1. CASE j.row # 0
      <4>1. j.row \in Values
        BY <1>1, <2>1, <3>1 DEF Amount
      <4>2. Rows(j.row, j.count) \in Seq(Values)
        BY <1>2, <4>1 DEF Rows
      <4> QED
        BY <3>1, <4>2
    <3>2. CASE j.row = 0
      <4>1. j.n + j.count <= steps
        BY <1>1, <2>1, <3>2, BoundsTyped DEF Amount
      <4>2. values[k] \in Seq(Values) /\ Len(values[k]) \in Nat /\ steps <= Len(values[k])
        BY <1>1, SourceTypes DEF SourceInv, Stored, Agree
      <4>3. \A i \in j.n + 1 .. j.n + j.count : i \in 1 .. Len(values[k])
        BY <1>2, <4>1, <4>2
      <4>4. \A i \in j.n + 1 .. j.n + j.count : values[k][i] \in Values
        BY <4>2, <4>3, ElementOfSeq
      <4>5. j.n + 1 \in Int /\ j.n + j.count \in Int
        BY <1>2
      <4>6. SubSeq(values[k], j.n + 1, j.n + j.count) \in Seq(Values)
        BY <4>4, <4>5, SubSeqProperties
      <4> QED
        BY <3>2, <4>6
    <3> QED
      BY <3>1, <3>2
  <2>3. k \in Vars
    BY <1>1
  <2> HIDE DEF g, k, j, rows
  <2>4. CASE g \in Gens
    <3>1. samples[g].of[k] \in Seq(Values)
      BY <1>1, <2>3, <2>4 DEF Sampled
    <3>2. samples[g].of[k] \o rows \in Seq(Values)
      BY <2>2, <3>1, ConcatProperties
    <3> QED
      BY <2>1, <2>3, <3>2, OneOfSamples
  <2>5. CASE g \notin Gens
    BY <1>1, <2>1, <2>5
  <2> QED
    BY <2>4, <2>5
<1>6. CASE MarkSamples(t)
  <2>1. job[t].n + job[t].count \in 0 .. MaxSteps
    BY <1>1, <1>2, <1>6 DEF MarkSamples, At, Amount
  <2>2. PICK m \in 0 .. MaxSteps : \E g : samples' = [samples EXCEPT ![g].steps = m]
    BY <1>6, <2>1 DEF MarkSamples
  <2> QED
    BY <1>1, <2>2 DEF Sampled
<1>7. CASE DeleteSamples(t)
  BY <1>7, <1>1, <1>3 DEF DeleteSamples
<1>8. CASE MakeSamples(t) \/ ReadySamples(t)
  <2>1. \E at \in {"begun", "ready"} : \E g : samples' = [samples EXCEPT ![g].at = at]
    BY <1>8 DEF MakeSamples, ReadySamples
  <2> QED
    BY <1>1, <2>1 DEF Sampled
<1>9. CASE DropSamples(t)
  BY <1>9, <1>1, <1>3 DEF DropSamples
<1>10. CASE Sample(t) \/ Sampling(t) \/ SamplingEnds(t) \/ SetUpDone(t)
  BY <1>1, <1>10 DEF Sample, Sampling, SamplingEnds, SetUpDone, sourceVars, sourceStore
<1> QED
  BY <1>4, <1>5, <1>6, <1>7, <1>8, <1>9, <1>10 DEF SamplingNext
-----------------------------------------------------------------------------
(* A step of the source's.                                                  *)
LEMMA AmountsMove ==
  ASSUME SourceInv, Amounts, NEW t \in {"steps", "admin"}, \A u \in Threads : u # t => job'[u] = job[u],
         Amount(job[t])', t = "admin" => job'[t].row = 0, steps' \in Nat, steps <= steps'
  PROVE  Amounts'
<1>1. ASSUME NEW u \in {"steps", "admin"} PROVE Amount(job[u])'
  <2>1. CASE u = t
    BY <2>1
  <2>2. CASE u # t
    <3>1. job'[u] = job[u] /\ Amount(job[u])
      BY <2>2 DEF Amounts, Threads
    <3>2. job[u].n \in Nat /\ job[u].count \in Nat /\ steps \in Nat
      BY <3>1, SourceTypes, BoundsTyped DEF Amount
    <3> QED
      BY <3>1, <3>2 DEF Amount
  <2> QED
    BY <2>1, <2>2
<1>2. job'["scenes"] = job["scenes"] /\ job'["admin"].row = 0
  BY DEF Amounts, Threads
<1> QED
  BY <1>1, <1>2 DEF Amounts

LEMMA SamplingSourceTyped ==
  ASSUME TileInv, TileTyped, SourceInv, OfSource, Amounts, NEW t \in {"steps", "admin"}, SamplingNext(t)
  PROVE  OfSource' /\ Amounts'
<1>1. UNCHANGED <<source, steps, sourceSnap, sourceNew, refresh>>
  BY SamplingStays DEF SamplingNext, CutSamples, PutSamples, MarkSamples, Sample, Sampling, SamplingEnds,
     DeleteSamples, MakeSamples, ReadySamples, DropSamples, SetUpDone, sourceVars, sourceStore, SourceStays
<1>2. IsSource(wstate') /\ wstate'.steps <= steps
  <2>1. wstate' = wstate \/ wstate' = LoadedSource(parcels)
    BY DEF SamplingNext, CutSamples, PutSamples, MarkSamples, Sample, Sampling, SamplingEnds,
           DeleteSamples, MakeSamples, ReadySamples, DropSamples, SetUpDone, sourceVars
  <2>2. IsSource(LoadedSource(parcels)) /\ LoadedSource(parcels).steps = steps /\ steps \in Nat
    BY LoadedSourceIs, SourceTypes DEF TileTyped, Shared
  <2> QED
    BY <2>1, <2>2 DEF OfSource
<1>3. OfSource'
  BY <1>1, <1>2, SamplesTyped DEF OfSource, IsSource
<1>4. \A u \in Threads : u # t => job'[u] = job[u]
  BY SamplingMoves DEF Moves
<1> QED
  BY <1>1, <1>3, <1>4, SamplingAmount, AmountsMove, SourceTypes

(* Append, and what is committed.                                           *)
LEMMA AppendSourceTyped ==
  ASSUME TileInv, TileTyped, SourceInv, OfSource, Amounts, AppendSteps \/ CutValues \/ PutValues \/ CommitSteps
  PROVE  OfSource' /\ Amounts'
<1>1. /\ DOMAIN job = Threads /\ DOMAIN job["steps"] = DOMAIN Idle /\ "steps" \in Threads
      /\ Amount(job["steps"])
  BY DEF SourceInv, Stepping, Amounts, Threads
<1>2. job["steps"].n \in Nat /\ job["steps"].count \in Nat /\ steps \in Nat /\ MaxSteps \in Nat /\ MaxAppend \in Nat
  BY <1>1, SourceTypes, BoundsTyped DEF Amount
<1>3. CASE AppendSteps
  <2>1. PICK x \in Values, n \in 1 .. MaxAppend :
          /\ wstate'.steps + n <= MaxSteps
          /\ job' = [job EXCEPT !["steps"] = [Idle EXCEPT !.pc = "cutValues", !.n = wstate'.steps,
                                                          !.row = x, !.count = n]]
    BY <1>3 DEF AppendSteps
  <2>2. /\ UNCHANGED <<source, steps, samples, sourceSnap, sourceNew, refresh>> /\ wstate' = LoadedSource(parcels)
    BY <1>3 DEF AppendSteps, sourceStore, sourceRead
  <2>3. IsSource(wstate') /\ wstate'.steps = steps
    BY <2>2, LoadedSourceIs DEF TileTyped, Shared
  <2>4. OfSource'
    BY <1>2, <2>2, <2>3 DEF OfSource, IsSource
  <2>5. /\ job'["steps"].pc = "cutValues" /\ job'["steps"].n = steps /\ job'["steps"].count = n
        /\ \A u \in Threads : u # "steps" => job'[u] = job[u]
    BY <1>1, <2>1, <2>3 DEF Idle
  <2>6. steps \in 0 .. MaxSteps /\ n \in 0 .. MaxAppend + ChunkSteps /\ steps + n <= MaxSteps
    BY <1>2, <2>1, <2>3, BoundsTyped DEF IsSource
  <2>7. Amount(job["steps"])'
    BY <2>5, <2>6 DEF Amount
  <2> QED
    BY <1>2, <2>2, <2>4, <2>5, <2>7, AmountsMove
<1>4. CASE CutValues \/ PutValues
  <2>1. /\ UNCHANGED <<source, steps, samples, wstate, sourceSnap, sourceNew, refresh>>
        /\ job["steps"].pc \in {"cutValues", "putValues"}
        /\ \/ job' = [job EXCEPT !["steps"].pc = "putValues"]
           \/ \E pc \in {"cutValues", "cutSamples", "commit"}, k \in {1, job["steps"].k + 1} :
                job' = [job EXCEPT !["steps"].pc = pc, !["steps"].k = k]
    BY <1>4 DEF CutValues, PutValues, NextArray, Goto, At, sourceRead
  <2>2. /\ job'["steps"].pc \in {"cutValues", "putValues", "cutSamples", "commit"}
        /\ job'["steps"].n = job["steps"].n /\ job'["steps"].count = job["steps"].count
        /\ job'["steps"].row = job["steps"].row /\ \A u \in Threads : u # "steps" => job'[u] = job[u]
    BY <1>1, <2>1 DEF Idle
  <2>3. job["steps"].row \in Values
    BY <2>1 DEF SourceInv, Stepping, Adding
  <2>4. Amount(job["steps"])'
    BY <1>1, <2>1, <2>2, <2>3 DEF Amount
  <2>5. OfSource'
    BY <2>1 DEF OfSource, IsSource
  <2> QED
    BY <1>2, <2>1, <2>2, <2>4, <2>5, AmountsMove
<1>5. CASE CommitSteps
  BY <1>5, <1>1, <1>2, BoundsTyped, AmountsMove DEF CommitSteps, At, sourceRead, SourceInv, Stepping, Adding,
     Amount, Idle, OfSource, IsSource
<1> QED
  BY <1>3, <1>4, <1>5

(* CreateWeather, and the source's part in PutParcels.                      *)
LEMMA CreateSourceTyped ==
  ASSUME TileInv, TileTyped, SourceInv, OfSource, Amounts,
         CreateWeather \/ DescribeSource \/ RegisterSource \/ OpenSource \/ SampleParcels
  PROVE  OfSource' /\ Amounts'
<1>1. /\ UNCHANGED <<steps, samples, sourceSnap, sourceNew, refresh>>
      /\ source' \in {source, "begun", "described", "registered"}
      /\ wstate' = wstate \/ wstate' = LoadedSource(parcels)
  BY DEF CreateWeather, DescribeSource, RegisterSource, OpenSource, SampleParcels, sourceVars, sourceStore, sourceRead
<1>2. IsSource(wstate') /\ wstate'.steps <= steps
  BY LoadedSourceIs, SourceTypes, <1>1 DEF TileTyped, Shared, OfSource
<1>3. OfSource'
  BY <1>1, <1>2 DEF OfSource, IsSource
<1>4. PICK pc \in {"describeSource", "registerSource", "openSource", "sources", "end", "sample"} : Goto("admin", pc)
  BY DEF CreateWeather, DescribeSource, RegisterSource, OpenSource, SampleParcels
<1>5. /\ DOMAIN job = Threads /\ DOMAIN job["admin"] = DOMAIN Idle /\ Amount(job["admin"]) /\ job["admin"].row = 0
  BY DEF TileInv, Job, TileTyped, Shared, Threads, Amounts
<1>6. /\ job'["admin"].pc = pc /\ job'["admin"].n = job["admin"].n /\ job'["admin"].count = job["admin"].count
      /\ job'["admin"].row = 0 /\ \A u \in Threads : u # "admin" => job'[u] = job[u]
  BY <1>4, <1>5 DEF Goto, Threads, Idle
<1>7. Amount(job["admin"])'
  BY <1>5, <1>6 DEF Amount
<1> QED
  BY <1>1, <1>3, <1>6, <1>7, AmountsMove, SourceTypes

(* Refresh, of the source.                                                  *)
LEMMA RefreshSourceTyped ==
  ASSUME TileInv, TileTyped, SourceInv, OfSource, Amounts,
         RefreshSource \/ RefreshValues \/ RefreshSamples \/ RefreshSampleArrays
  PROVE  OfSource' /\ Amounts'
<1>1. UNCHANGED <<source, steps, samples, wstate, job>>
  BY DEF RefreshSource, RefreshValues, RefreshSamples, RefreshSampleArrays, sourceStore
<1>2. Amounts'
  BY <1>1 DEF Amounts, Amount
<1>3. /\ IsSource(sourceSnap) /\ IsSource(sourceNew) /\ IsSource(NoSource) /\ NoSource.pwSteps = 0
      /\ DOMAIN refresh = {"pc", "set", "found", "parcels"} /\ refresh.parcels \in Sets
      /\ steps \in 0 .. MaxSteps /\ sourceNew.steps \in 0 .. steps /\ MaxSteps \in Nat
  BY NoSourceTyped, SourceTypes, BoundsTyped DEF OfSource, NoSource, SourceInv, Reading, TileTyped, Shared
<1>4. SUFFICES /\ IsSource(sourceSnap') /\ IsSource(sourceNew')
               /\ refresh'.pc = "values" => sourceNew'.pwSteps = 0
  BY <1>1, <1>2 DEF OfSource, IsSource
<1>5. ASSUME NEW pc \in {"samples", "sampleArrays", "idle"}, RefreshGoes(pc)
      PROVE  refresh'.pc = pc
  BY <1>3, <1>5 DEF RefreshGoes, Found
<1>6. CASE RefreshSource
  <2>1. CASE sourceNew' = [NoSource EXCEPT !.open = TRUE, !.steps = steps]
    BY <2>1, <1>3, <1>6 DEF NoSource, RefreshSource, IsSource
  <2>2. CASE sourceNew' = sourceNew /\ RefreshGoes("idle")
    BY <1>3, <1>5, <1>6, <2>2 DEF RefreshSource
  <2> QED
    BY <1>6, <2>1, <2>2 DEF RefreshSource
<1>7. CASE RefreshValues
  BY <1>7, <1>3, ShortestIsAll, <1>5 DEF RefreshValues, IsSource, NoSource
<1>8. CASE RefreshSamples
  <2> DEFINE g == SampledFor(refresh.parcels)
             n == PwSteps(g, sourceNew.steps)
  <2>1. /\ sourceNew' = (IF g = 0 THEN NoSource ELSE [sourceNew EXCEPT !.gen = g, !.pwSteps = n])
        /\ sourceSnap' = (IF g = 0 THEN sourceNew ELSE sourceSnap)
        /\ RefreshGoes(IF g = 0 THEN "idle" ELSE "sampleArrays")
    BY <1>8 DEF RefreshSamples
  <2>2. g \in Gens \cup {0}
    BY <1>3 DEF SampledFor, Sets
  <2>3. CASE g = 0
    BY <1>3, <1>5, <2>1, <2>3
  <2>4. CASE g # 0
    <3>1. samples[g].steps \in 0 .. MaxSteps
      BY <2>2, <2>4 DEF OfSource, Sampled
    <3>2. n \in 0 .. sourceNew.steps
      BY <1>3, <2>4, <3>1 DEF PwSteps, Min
    <3> HIDE DEF g, n
    <3>3. /\ DOMAIN sourceNew' = DOMAIN NoSource /\ sourceNew'.steps = sourceNew.steps
          /\ sourceNew'.gen = g /\ sourceNew'.pwSteps = n
      BY <1>3, <2>1, <2>4 DEF IsSource, NoSource
    <3> QED
      BY <1>3, <1>5, <2>1, <2>2, <2>4, <3>2, <3>3 DEF IsSource
  <2> QED
    BY <2>3, <2>4
<1>9. CASE RefreshSampleArrays
  BY <1>9, <1>3 DEF RefreshSampleArrays
<1> QED
  BY <1>6, <1>7, <1>8, <1>9

LEMMA SourceTypedStep ==
  ASSUME TileInv, TileTyped, SourceInv, OfSource, Amounts, [Next]_vars
  PROVE  OfSource' /\ Amounts'
<1>1. CASE SourceNext
  BY <1>1, SamplingSourceTyped, AppendSourceTyped, CreateSourceTyped, RefreshSourceTyped DEF SourceNext, SamplingNext
<1>2. CASE (TileNext /\ UNCHANGED sourceVars) \/ ParcelsNext \/ Restart \/ UNCHANGED vars
  BY <1>2, OthersStep
<1> QED
  BY <1>1, <1>2 DEF Next

(* The state keeps its type (tile.go:568-647, weather.go:384-395): what is  *)
(* stored of a scene is a scene, samples are of steps that are there, and a *)
(* count that is behind never becomes one that is ahead.                    *)
THEOREM GeodbIsTyped == Spec => []TypeOK
<1>1. Init => TileTyped /\ Alone /\ OfSource /\ Amounts
  BY InitTyped, InitOfSource
<1>2. TileInv /\ SourceInv /\ TileTyped /\ Alone /\ OfSource /\ Amounts /\ [Next]_vars
      => (TileTyped /\ Alone /\ OfSource /\ Amounts)'
  BY TypedStep, SourceTypedStep
<1>3. TileInv /\ SourceInv /\ TileTyped /\ OfSource /\ Amounts => TypeOK
  <2> SUFFICES ASSUME TileInv, SourceInv, TileTyped, OfSource, Amounts PROVE TypeOK
    OBVIOUS
  <2>1. ASSUME NEW s \in {state, tileSnap, tileNew}
        PROVE  /\ s.times \in Seq(Time) /\ s.gen \in Gens \cup {0}
               /\ \A v \in Vars : s.shape[v] \in Nat /\ s.statsN[v] \in 0 .. Len(s.times)
    BY LenProperties DEF TileInv, Snapshots, Refreshing, Begins, TileTyped, OfTile, IsState
  <2>2. ASSUME NEW t \in Threads
        PROVE  job[t].n \in 0 .. MaxSteps /\ job[t].count \in 0 .. MaxAppend + ChunkSteps
    <3>1. CASE t = "scenes"
      BY <3>1, BoundsTyped DEF Amounts
    <3>2. CASE t \in {"steps", "admin"}
      BY <3>2 DEF Amounts, Amount
    <3> QED
      BY <3>1, <3>2 DEF Threads
  <2>3. /\ steps \in 0 .. MaxSteps /\ values \in [Vars -> Seq(Values)]
        /\ \A g \in Gens : samples[g].of \in [Vars -> Seq(Values)] /\ samples[g].steps \in 0 .. MaxSteps
        /\ source \in {"none", "begun", "described", "registered"}
    BY SourceTypes, BoundsTyped DEF OfSource, Sampled, SourceInv, Stored
  <2>4. \A s \in {wstate, sourceSnap, sourceNew} :
          s.steps \in 0 .. MaxSteps /\ s.gen \in Gens \cup {0} /\ s.pwSteps \in 0 .. s.steps
    BY DEF OfSource, IsSource
  <2>5. times \in Seq(Time) /\ scenes \in [Vars -> Seq(Time)]
    BY TimesTyped DEF TileInv
  <2> QED
    BY <2>1, <2>2, <2>3, <2>4, <2>5 DEF TypeOK, TileTyped, Shared, OfTile, Sets
<1> QED
  BY <1>1, <1>2, <1>3, TileInStep, SourceInStep, PTL DEF Spec
-----------------------------------------------------------------------------
(* Where a goroutine is that samples, or makes or opens a source.           *)
SetUps == {"setUp", "makeSamples", "readySamples", "dropSamples", "setUpDone"}
OfSamples == {"cutSamples", "putSamples", "markSamples"}
AtSamples == SetUps \cup OfSamples \cup {"sample", "sampling", "sampled"}
AtSource == AtSamples \cup {"describeSource", "registerSource", "openSource"}

(* Only who holds the lock is at what changes the source, once there is one.*)
AloneSource ==
  /\ job["steps"].pc # "idle" => lock["source"] = "steps" /\ wstate.open
  /\ job["admin"].pc \in AtSamples => lock["source"] = "admin" /\ wstate.open
  /\ wstate.open => source = "registered"
  /\ job["admin"].pc \in {"describeSource", "registerSource", "openSource"} => ~wstate.open
  /\ job["admin"].pc = "openSource" => source = "registered"

(* Samples are of the steps that are committed, as far as both go.          *)
SamplesAligned ==
  \A g \in Gens, v \in Vars : \A i \in 1 .. Len(samples[g].of[v]) :
    i <= steps => samples[g].of[v][i] = values[1][i]

(* Samples of more steps than are committed, which an append leaves that is *)
(* under way or failed: of the steps it is appending, if it is.             *)
More(g, v) == steps < Len(samples[g].of[v])
NoMore == \A g \in Gens, v \in Vars : ~More(g, v)
HasSamples(g, v) ==
  LET j == job["steps"] IN
  /\ Len(samples[g].of[v]) = steps + j.count
  /\ \A i \in steps + 1 .. steps + j.count : samples[g].of[v][i] = j.row

(* While they are made anew or caught up, there are none.                   *)
Resamples(t) ==
  LET j == job[t] IN
  /\ j.pc \in SetUps => NoMore
  /\ j.pc = "sampling" /\ j.n < steps => NoMore
  /\ j.pc \in OfSamples /\ j.row = 0 => NoMore
  /\ j.pc = "putSamples" /\ wstate.gen # 0 => Len(samples[wstate.gen].of[j.k]) = j.n
Resampling == \A t \in {"steps", "admin"} : Resamples(t)

(* An append cuts off and replaces what there is more, or has none.         *)
Supplying ==
  LET j == job["steps"] IN
  Adding(j) =>
    /\ \A g \in Gens, v \in Vars : More(g, v) => g = wstate.gen /\ UpToDate
    /\ UpToDate => samples[wstate.gen].at = "ready" /\ steps <= samples[wstate.gen].steps
    /\ j.pc \in {"cutSamples", "putSamples"} =>
         UpToDate /\ \A g \in Gens, v \in Vars : More(g, v) /\ v < j.k => HasSamples(g, v)
    /\ j.pc \in {"markSamples", "commit"} => \A g \in Gens, v \in Vars : More(g, v) => HasSamples(g, v)

(* Nothing fails, or there is one generation of parcels ever.               *)
UnfailingSource == left.fails = 0 /\ (~Adding(job["steps"]) => NoMore)
OfOneSet(set) == wstate.gen # 0 => wstate.gen = Only /\ set.gen = Only
OneSource ==
  /\ OneSet /\ OfOneSet(parcels)
  /\ \A g \in Gens, v \in Vars : More(g, v) =>
       g = parcels.gen /\ samples[g].at = "ready" /\ steps <= samples[g].steps

SamplesInStep == SamplesAligned /\ Resampling /\ Supplying /\ (UnfailingSource \/ OneSource)
SamplesInv == OfSource /\ Amounts /\ AloneSource /\ SamplesInStep
-----------------------------------------------------------------------------
(* What there is of samples and of steps.                                   *)
LEMMA SamplesTypes ==
  ASSUME SourceInv, SamplesInv
  PROVE  /\ steps \in Nat /\ MaxSteps \in Nat /\ 1 \in Vars
         /\ \A v \in Vars : values[v] \in Seq(Values) /\ Len(values[v]) \in Nat /\ steps <= Len(values[v])
                            /\ \A i \in 1 .. steps : values[v][i] = values[1][i]
         /\ \A g \in Gens, v \in Vars : samples[g].of[v] \in Seq(Values) /\ Len(samples[g].of[v]) \in Nat
         /\ \A g \in Gens : samples[g].steps \in Nat
         /\ 0 \notin Gens
<1>1. \A g \in Gens, v \in Vars : samples[g].of[v] \in Seq(Values) /\ Len(samples[g].of[v]) \in Nat
  BY LenProperties DEF SamplesInv, OfSource, Sampled
<1>2. \A g \in Gens : samples[g].steps \in Nat
  BY BoundsTyped DEF SamplesInv, OfSource, Sampled
<1> QED
  BY <1>1, <1>2, SourceTypes, BoundsTyped DEF SourceInv, Stored, Agree, Gens

LEMMA ThreadsTyped ==
  ASSUME TileInv, TileTyped, SourceInv, SamplesInv, NEW t \in {"steps", "admin"}
  PROVE  /\ DOMAIN job = Threads /\ DOMAIN job[t] = DOMAIN Idle /\ t \in Threads /\ job[t].k \in Vars
         /\ {"pc", "k", "n", "row", "count", "set"} \subseteq DOMAIN job[t]
         /\ job[t].n \in Nat /\ job[t].count \in Nat /\ Amount(job[t]) /\ (t = "admin" => job[t].row = 0)
         /\ job[t].set \in Sets /\ parcels \in Sets /\ current \in Sets
<1>1. Amount(job[t]) /\ (t = "admin" => job[t].row = 0)
  BY DEF SamplesInv, Amounts
<1> QED
  BY <1>1, BoundsTyped DEF TileInv, Job, TileTyped, Shared, Threads, Idle, Amount

(* A source that was loaded.                                                *)
LEMMA LoadedSamples ==
  ASSUME SourceInv, SamplesInv, NEW set \in Sets
  PROVE  LET s == LoadedSource(set) IN
         /\ s.open /\ s.steps = steps /\ s.gen \in {0, set.gen} /\ s.gen \in Gens \cup {0}
         /\ s.gen # 0 => samples[s.gen].at = "ready" /\ s.pwSteps = Min(samples[s.gen].steps, steps)
         /\ set.gen # 0 /\ samples[set.gen].at = "ready" => s.gen = set.gen
<1> DEFINE g == SampledFor(set)
<1>1. Shortest(steps) = steps
  BY SourceTypes, ShortestIsAll
<1>2. g \in {0, set.gen} /\ g \in Gens \cup {0} /\ (g # 0 => samples[g].at = "ready")
      /\ (set.gen # 0 /\ samples[set.gen].at = "ready" => g = set.gen)
  BY DEF SampledFor, Sets
<1>3. LoadedSource(set) = [open |-> TRUE, steps |-> steps, gen |-> g, pwSteps |-> PwSteps(g, steps)]
  BY <1>1 DEF LoadedSource
<1> HIDE DEF g
<1> QED
  BY <1>2, <1>3 DEF PwSteps

(* One array of the samples.                                                *)
LEMMA OneArrayOf ==
  ASSUME OfSource, NEW g \in Gens, NEW k \in Vars, NEW rows, samples' = [samples EXCEPT ![g].of[k] = rows]
  PROVE  /\ samples'[g].of[k] = rows
         /\ \A h \in Gens, v \in Vars : h # g \/ v # k => samples'[h].of[v] = samples[h].of[v]
         /\ \A h \in Gens : samples'[h].at = samples[h].at /\ samples'[h].steps = samples[h].steps
BY DEF OfSource, Sampled
-----------------------------------------------------------------------------
LEMMA InitSamples ==
  ASSUME PlansAreUntorn, Init
  PROVE  AloneSource /\ SamplesInStep
<1>1. /\ left \in Plans /\ steps = 0 /\ job = [t \in Threads |-> Idle] /\ current = FirstSet /\ parcels = FirstSet
      /\ source = (IF MadeSource THEN "registered" ELSE "none")
      /\ samples = [g \in Gens |-> IF MadeSource /\ g = 1 THEN [NoSamples EXCEPT !.at = "ready"] ELSE NoSamples]
      /\ wstate = (IF MadeSource THEN [NoSource EXCEPT !.open = TRUE, !.gen = 1] ELSE NoSource)
  BY DEF Init, InitParcels, InitSource
<1>2. \A g \in Gens, v \in Vars : samples[g].of[v] = <<>> /\ Len(samples[g].of[v]) = 0
  BY <1>1 DEF NoRows, NoSamples
<1>3. FirstSet.gen = (IF left.made THEN 1 ELSE 0) /\ left.made \in BOOLEAN /\ (MadeSource => left.made)
  BY <1>1, GeodbAssumption DEF FirstSet, NoSet, Made, MadeSource
<1>4. wstate.gen \in {0, FirstSet.gen} /\ (wstate.open => source = "registered")
  BY <1>1, <1>3 DEF NoSource
<1>5. NoMore /\ SamplesAligned
  BY <1>1, <1>2 DEF NoMore, More, SamplesAligned
<1>6. \A t \in {"steps", "admin"} : job[t] = Idle /\ Idle.pc = "idle" /\ Idle.set.gen = 0
  BY <1>1 DEF Threads, Idle, NoSet
<1>7. AloneSource /\ Resampling /\ Supplying
  BY <1>4, <1>6 DEF AloneSource, Resampling, Resamples, Supplying, Adding, AtSamples, SetUps, OfSamples
<1>8. CASE left.fails = 0
  BY <1>5, <1>7, <1>8 DEF SamplesInStep, UnfailingSource
<1>9. CASE left.puts = 0 \/ (~left.made /\ left.puts = 1)
  BY <1>1, <1>3, <1>4, <1>5, <1>6, <1>9, <1>7 DEF OneSource, OneSet, OfOneSet, NoMore, Only, SamplesInStep
<1> QED
  BY <1>1, <1>8, <1>9 DEF PlansAreUntorn, Untorn
-----------------------------------------------------------------------------
(* The steps of others, which leave the goroutines that are at the source.  *)
BesideSource ==
  /\ job'["steps"] = job["steps"] /\ (lock["source"] = "steps" => lock'["source"] = "steps")
  /\ \/ job'["admin"] = job["admin"] /\ (lock["source"] = "admin" => lock'["source"] = "admin")
     \/ job'["admin"].pc \notin AtSource
SetsStay ==
  /\ UNCHANGED <<current, parcels, left>>
  /\ job'["admin"].set \in {job["admin"].set, parcels, NoSet}
  /\ job'["admin"].pc = "current" => job'["admin"] = job["admin"]

LEMMA AloneBeside ==
  ASSUME AloneSource, BesideSource, UNCHANGED <<wstate, source>>
  PROVE  AloneSource'
BY DEF AloneSource, BesideSource, AtSource

LEMMA OneSetStays ==
  ASSUME OneSet, SetsStay
  PROVE  OneSet'
BY DEF OneSet, SetsStay, Only, NoSet

(* What is more stays as it is.                                             *)
LEMMA MoreStays ==
  ASSUME UNCHANGED <<samples, steps>>
  PROVE  /\ NoMore' <=> NoMore
         /\ \A g \in Gens, v \in Vars : More(g, v)' <=> More(g, v)
BY DEF NoMore, More

LEMMA SamplesBeside ==
  ASSUME SamplesInStep, UNCHANGED <<samples, steps, values, wstate>>, job'["steps"] = job["steps"],
         job'["admin"] = job["admin"] \/ job'["admin"].pc \notin SetUps \cup OfSamples \cup {"sampling"},
         left'.fails = left.fails \/ left.fails # 0, OneSource => OneSource'
  PROVE  SamplesInStep'
<1>1. SamplesAligned'
  BY DEF SamplesInStep, SamplesAligned
<1>2. ASSUME NEW t \in {"steps", "admin"}
      PROVE  Resamples(t)'
  <2>1. CASE job'[t] = job[t]
    BY <2>1, MoreStays DEF SamplesInStep, Resampling, Resamples
  <2>2. CASE job'[t].pc \notin SetUps \cup OfSamples \cup {"sampling"}
    BY <2>2 DEF Resamples, OfSamples
  <2> QED
    BY <2>1, <2>2
<1>3. Supplying'
  BY MoreStays DEF SamplesInStep, Supplying, HasSamples, UpToDate
<1>4. UnfailingSource => UnfailingSource'
  BY MoreStays DEF UnfailingSource
<1> QED
  BY <1>1, <1>2, <1>3, <1>4 DEF SamplesInStep, Resampling

LEMMA OneSourceStays ==
  ASSUME OneSource, SetsStay, UNCHANGED <<samples, steps, wstate>>
  PROVE  OneSource'
BY OneSetStays, MoreStays DEF OneSource, SetsStay, Only, OfOneSet

(* The steps of a tile.                                                     *)
LEMMA TileBeside ==
  ASSUME TileInv, TileTyped, Alone, TileNext
  PROVE  BesideSource /\ SetsStay
<1>1. /\ DOMAIN job = Threads /\ {"scenes", "steps", "admin"} = Threads
      /\ lock \in [{"tile", "source"} -> Threads \cup {"free"}]
      /\ job["admin"].next \in {"end", "sources"}
  BY DEF TileInv, Job, TileTyped, Shared, Threads
<1>2. ASSUME Moves("scenes"), UNCHANGED <<current, parcels, left>>, lock' = lock
      PROVE  BesideSource /\ SetsStay
  BY <1>1, <1>2 DEF Moves, BesideSource, SetsStay
<1>3. ASSUME Moves("admin"), UNCHANGED <<current, parcels, left>>, job'["admin"].pc # "current",
             job'["admin"].pc \notin AtSource, lock["source"] = "steps" => lock'["source"] = "steps"
      PROVE  BesideSource /\ SetsStay
  BY <1>1, <1>3 DEF Moves, BesideSource, SetsStay
<1>4. CASE Subroutine("scenes")
  BY <1>4, SubroutineMoves, <1>2
<1>5. CASE Subroutine("admin")
  BY <1>1, <1>5, SubroutineMoves, <1>3 DEF Subroutine, DeleteIndex, MakeIndex, FinishIndex, DropStats, Reload,
     NothingToFill, Backfill, Filled, Unlocked, Subroutines, AtSource, AtSamples, SetUps, OfSamples
<1>6. CASE Appends
  BY <1>2, <1>6, AppendsMoves
<1>7. CASE AppendScene \/ BackfillStats
  <2>1. PICK s : BeginTile(s)
    BY <1>7 DEF AppendScene, BackfillStats
  <2>2. /\ lock' = [lock EXCEPT !["tile"] = "scenes"] /\ UNCHANGED <<current, parcels, left>>
        /\ job' = [job EXCEPT !["scenes"].pc = "stale", !["scenes"].row = s]
    BY <2>1 DEF BeginTile
  <2> QED
    BY <1>1, <2>2 DEF BesideSource, SetsStay
<1>8. CASE CreateTile \/ DescribeTile \/ RegisterTile \/ OpenTile \/ IndexParcels
  BY <1>8, AdminTyped, <1>1, GotoMoves, CallMoves, <1>3 DEF CreateTile, DescribeTile, RegisterTile, OpenTile,
     IndexParcels, AtSource, AtSamples, SetUps, OfSamples
<1>9. CASE RefreshTile \/ RefreshTimes \/ RefreshArrays \/ RefreshIndex \/ RefreshStats
  BY <1>9 DEF RefreshTile, RefreshTimes, RefreshArrays, RefreshIndex, RefreshStats, BesideSource, SetsStay
<1> QED
  BY <1>4, <1>5, <1>6, <1>7, <1>8, <1>9 DEF TileNext, Subroutine, Appends

LEMMA SamplesTile ==
  ASSUME TileInv, TileTyped, Alone, SamplesInv, TileNext, UNCHANGED sourceVars
  PROVE  AloneSource' /\ SamplesInStep'
BY TileBeside, AloneBeside, OneSourceStays, SamplesBeside DEF sourceVars, sourceStore, SamplesInv, BesideSource,
   AtSource, AtSamples, SetsStay
-----------------------------------------------------------------------------
(* A step that leaves the goroutines where they add and sample nothing.     *)
LEMMA SamplesIdle ==
  ASSUME SamplesInStep, UNCHANGED <<samples, steps, values>>,
         \A t \in {"steps", "admin"} : job'[t].pc \notin SetUps \cup OfSamples \cup {"sampling", "cutValues", "putValues", "commit"},
         UnfailingSource => ~Adding(job["steps"]) /\ left'.fails = 0, OneSource => OneSource'
  PROVE  SamplesInStep'
BY MoreStays DEF SamplesInStep, SamplesAligned, Resampling, Resamples, Supplying, Adding, OfSamples,
   UnfailingSource

(* What the parcels there are become.                                       *)
LEMMA OneSourceParcels ==
  ASSUME TileTyped, SourceInv, SamplesInv, OneSource, OneSet', left'.made = left.made,
         UNCHANGED <<samples, steps, wstate>>, parcels' \in {parcels, current}
  PROVE  OneSource'
<1>1. Only' = Only
  BY DEF Only
<1>2. Gens # {} => Only # 0
  BY GeodbAssumption DEF Only, Gens
<1>3. parcels.gen = Only /\ Only # 0 => parcels'.gen = Only
  BY DEF OneSource, OneSet
<1>4. wstate.gen \in Gens \cup {0}
  BY DEF SamplesInv, OfSource, IsSource
<1>5. OfOneSet(parcels)'
  BY <1>1, <1>2, <1>3, <1>4 DEF OneSource, OfOneSet
<1>6. ASSUME NEW g \in Gens, NEW v \in Vars, More(g, v)'
      PROVE  g = parcels'.gen /\ samples[g].at = "ready" /\ steps <= samples[g].steps
  BY <1>6, MoreStays, SamplesTypes, <1>3 DEF OneSource, OneSet
<1> QED
  BY <1>5, <1>6 DEF OneSource

LEMMA SamplesParcels ==
  ASSUME TileInv, TileTyped, SourceInv, SamplesInv, ParcelsNext
  PROVE  AloneSource' /\ SamplesInStep'
<1>1. UNCHANGED <<source, steps, values, samples, wstate>>
  BY DEF ParcelsNext, sourceVars, sourceStore
<1>2. /\ DOMAIN job = Threads /\ \A t \in Threads : DOMAIN job[t] = DOMAIN Idle
      /\ {"scenes", "steps", "admin"} = Threads
      /\ lock \in [{"tile", "source"} -> Threads \cup {"free"}]
      /\ left.puts \in Nat /\ left.fails \in Nat
  BY DEF TileInv, Job, TileTyped, Shared, Threads
<1>3. ASSUME BesideSource, left'.fails = left.fails \/ left.fails # 0, OneSource => OneSource'
      PROVE  AloneSource' /\ SamplesInStep'
  BY <1>3, <1>1, AloneBeside, SamplesBeside DEF BesideSource, AtSource, AtSamples, SamplesInv
<1>4. CASE PutParcels
  <2> DEFINE gen == MaxGens - left.puts + 1
             set == [gen |-> gen, prev |-> parcels.gen]
  <2>1. /\ left.puts > 0 /\ UNCHANGED <<current, parcels, lock>>
        /\ job' = [job EXCEPT !["admin"].pc = "current", !["admin"].next = "sources", !["admin"].set = set]
        /\ left' = [left EXCEPT !.puts = left.puts - 1]
    BY <1>4 DEF PutParcels
  <2>2. /\ job'["admin"].pc = "current" /\ job'["admin"].set.gen = gen
        /\ job'["steps"] = job["steps"]
    BY <1>2, <2>1 DEF Idle
  <2>3. left'.puts = left.puts - 1 /\ left'.made = left.made /\ left'.fails = left.fails
    BY <2>1, <1>2 DEF TileTyped, Shared
  <2> HIDE DEF set
  <2>4. OneSource => OneSource'
    <3> SUFFICES ASSUME OneSource PROVE OneSource'
      OBVIOUS
    <3>1. left.puts = 1 /\ ~left.made /\ left'.puts = 0
      BY <1>2, <2>1, <2>3 DEF OneSource, OneSet
    <3>2. gen = Only /\ Only' = Only
      BY <2>3, <3>1, GeodbAssumption DEF Only
    <3>3. OneSet'
      BY <2>1, <2>2, <2>3, <3>1, <3>2 DEF OneSource, OneSet
    <3> QED
      BY <1>1, <2>1, <2>3, <3>3, OneSourceParcels
  <2>5. BesideSource
    BY <2>1, <2>2 DEF BesideSource, AtSource, AtSamples, SetUps, OfSamples
  <2> QED
    BY <1>3, <2>3, <2>4, <2>5
<1>5. CASE MakeCurrent \/ LoadParcels \/ DropParcels
  <2>1. /\ left' = left /\ lock' = lock
        /\ \/ job["admin"].pc = "current" /\ current' = job["admin"].set /\ parcels' = parcels
           \/ parcels' \in {current, parcels} /\ current' = current
        /\ \E pc \in {"load", "dropParcels", "tiles"} : Goto("admin", pc)
    BY <1>5 DEF MakeCurrent, LoadParcels, DropParcels, At
  <2>2. /\ job'["admin"].pc \in {"load", "dropParcels", "tiles"} /\ job'["admin"].set = job["admin"].set
        /\ job'["steps"] = job["steps"]
    BY <1>2, <2>1, GotoIs
  <2>3. OneSource => OneSource'
    <3> SUFFICES ASSUME OneSource PROVE OneSource'
      OBVIOUS
    <3>1. Only' = Only
      BY <2>1 DEF Only
    <3>2. OneSet'
      BY <2>1, <2>2, <3>1 DEF OneSource, OneSet
    <3> QED
      BY <1>1, <2>1, <3>2, OneSourceParcels
  <2>4. BesideSource
    BY <2>1, <2>2 DEF BesideSource, AtSource, AtSamples, SetUps, OfSamples
  <2> QED
    BY <1>3, <2>1, <2>3, <2>4
<1>6. CASE \E t \in Threads : End(t) \/ Fail(t)
  <2>1. PICK t \in Threads : /\ Return(t) /\ UNCHANGED <<current, parcels>>
                             /\ left' = left \/ (left.fails > 0 /\ left' = [left EXCEPT !.fails = left.fails - 1])
                             /\ left' = left => job[t].pc = "end" \/ left.fails > 0
    BY <1>6 DEF End, Fail, At
  <2>2. /\ job'[t] = Idle /\ \A u \in Threads : u # t => job'[u] = job[u]
        /\ \A u \in {"steps", "admin"} : lock["source"] = u /\ u # t => lock'["source"] = u
    BY <1>2, <2>1, ReturnIs DEF Return, Unlocked
  <2>3. Idle.pc = "idle" /\ Idle.set = NoSet /\ NoSet.gen = 0
    BY DEF Idle, NoSet
  <2>4. left'.puts = left.puts /\ left'.made = left.made /\ left'.fails \in Nat
    BY <1>2, <2>1 DEF TileTyped, Shared
  <2>5. OneSource => OneSource'
    BY <1>2, <2>1, <2>2, <2>3, <2>4, <1>1, OneSourceParcels DEF OneSet, Only, OneSource
  <2>6. CASE t # "steps"
    BY <1>2, <2>2, <2>3, <2>6, <1>3, <2>1, <2>5 DEF BesideSource, AtSource, AtSamples, SetUps, OfSamples
  <2>7. CASE t = "steps"
    BY <1>2, <2>2, <2>3, <2>7, <1>1, <2>1, MoreStays, <2>5 DEF SamplesInv, AloneSource, UnfailingSource, Adding,
       SamplesInStep, SamplesAligned, Supplying, Resampling, Resamples, SetUps, OfSamples
  <2> QED
    BY <2>6, <2>7
<1>7. CASE RefreshParcels \/ RefreshFails \/ \E found : RefreshBegins(found)
  BY <1>7, <1>1, <1>3, OneSourceStays DEF RefreshParcels, RefreshFails, RefreshBegins, BesideSource, SetsStay
<1> QED
  BY <1>4, <1>5, <1>6, <1>7 DEF ParcelsNext

LEMMA SamplesRestart ==
  ASSUME TileInv, TileTyped, SourceInv, SamplesInv, Restart
  PROVE  AloneSource' /\ SamplesInStep'
<1>1. /\ job' = [t \in Threads |-> Idle] /\ parcels' = current /\ current' = current
      /\ left.fails > 0 /\ left' = [left EXCEPT !.fails = left.fails - 1]
      /\ wstate' = (IF source = "registered" THEN LoadedSource(current) ELSE NoSource)
      /\ UNCHANGED <<source, steps, values, samples>>
  BY DEF Restart, RestartParcels, RestartSource, sourceStore
<1>2. \A t \in {"steps", "admin"} : job'[t].pc = "idle" /\ job'[t].set.gen = 0
  BY <1>1 DEF Threads, Idle, NoSet
<1>3. left'.puts = left.puts /\ left'.made = left.made /\ left.fails \in Nat
  BY <1>1 DEF TileTyped, Shared
<1>4. wstate'.gen \in {0, current.gen} /\ (wstate'.open => source = "registered")
  BY <1>1, LoadedSamples DEF TileTyped, Shared, NoSource
<1>5. AloneSource'
  BY <1>1, <1>2, <1>4 DEF AloneSource, AtSamples, SetUps, OfSamples
<1>6. OneSource => OneSource'
  <2> SUFFICES ASSUME OneSource PROVE OneSource'
    OBVIOUS
  <2>1. Only' = Only
    BY <1>3 DEF Only
  <2>2. OneSet'
    BY <1>1, <1>2, <1>3, <2>1 DEF OneSource, OneSet
  <2>3. OfOneSet(parcels)'
    BY <1>1, <1>4, <2>1 DEF OneSource, OneSet, OfOneSet
  <2>4. ASSUME NEW g \in Gens, NEW v \in Vars, More(g, v)'
        PROVE  g = parcels'.gen /\ samples[g].at = "ready" /\ steps <= samples[g].steps
    BY <1>1, <2>4, MoreStays, SamplesTypes DEF OneSource, OneSet
  <2> QED
    BY <1>1, <2>2, <2>3, <2>4 DEF OneSource
<1>7. ~UnfailingSource
  BY <1>1, <1>3 DEF UnfailingSource
<1>8. \A t \in {"steps", "admin"} :
        job'[t].pc \notin SetUps \cup OfSamples \cup {"sampling", "cutValues", "putValues", "commit"}
  BY <1>2 DEF SetUps, OfSamples
<1> QED
  BY <1>1, <1>5, <1>6, <1>7, <1>8, SamplesIdle DEF SamplesInv
-----------------------------------------------------------------------------
(* There is one generation of a source that is loaded.                      *)
LEMMA OneSetLoads ==
  ASSUME TileTyped, SourceInv, SamplesInv, OneSource, SetsStay, wstate' \in {wstate, LoadedSource(parcels)}
  PROVE  OneSet' /\ OfOneSet(parcels)'
BY OneSetStays, LoadedSamples DEF OneSource, SetsStay, Only, TileTyped, Shared, OneSet, OfOneSet

LEMMA OneSourceLoads ==
  ASSUME TileTyped, SourceInv, SamplesInv, OneSource, SetsStay, UNCHANGED <<samples, steps>>,
         wstate' \in {wstate, LoadedSource(parcels)}
  PROVE  OneSource'
BY OneSetLoads, MoreStays DEF OneSource, SetsStay

(* Refresh and CreateWeather, and the source's part in PutParcels.          *)
LEMMA SamplesRefresh ==
  ASSUME SamplesInv, RefreshSource \/ RefreshValues \/ RefreshSamples \/ RefreshSampleArrays
  PROVE  AloneSource' /\ SamplesInStep'
BY AloneBeside, OneSourceStays, SamplesBeside DEF RefreshSource, RefreshValues, RefreshSamples,
   RefreshSampleArrays, sourceStore, BesideSource, SetsStay, SamplesInv

LEMMA SamplesCreate ==
  ASSUME TileInv, TileTyped, SourceInv, SamplesInv,
         CreateWeather \/ DescribeSource \/ RegisterSource \/ OpenSource \/ SampleParcels
  PROVE  AloneSource' /\ SamplesInStep'
<1>1. DOMAIN job = Threads /\ DOMAIN job["admin"] = DOMAIN Idle /\ "admin" \in Threads /\ "steps" \in Threads
      /\ lock \in [{"tile", "source"} -> Threads \cup {"free"}]
  BY ThreadsTyped DEF Threads, TileTyped, Shared
<1>2. UNCHANGED <<steps, values, samples, current, parcels, left>>
  BY DEF CreateWeather, DescribeSource, RegisterSource, OpenSource, SampleParcels, sourceVars, sourceStore
<1>3. ASSUME NEW pc \in {"describeSource", "registerSource", "openSource", "sources", "end", "sample"}, Goto("admin", pc)
      PROVE  /\ job'["steps"] = job["steps"] /\ job'["admin"].pc = pc /\ SetsStay
             /\ pc \notin SetUps \cup OfSamples \cup {"sampling", "cutValues", "putValues", "commit"}
  BY <1>1, <1>2, <1>3, GotoIs DEF SetsStay, Threads, SetUps, OfSamples
<1>4. CASE CreateWeather \/ DescribeSource \/ RegisterSource
  <2>1. PICK pc \in {"describeSource", "registerSource", "openSource"} :
          Goto("admin", pc) /\ wstate' = wstate /\ lock' = lock
    BY <1>4 DEF CreateWeather, DescribeSource, RegisterSource
  <2>2. /\ job'["steps"] = job["steps"] /\ job'["admin"].pc = pc /\ SetsStay
        /\ pc \notin SetUps \cup OfSamples \cup {"sampling"}
    BY <1>3, <2>1
  <2>3. ~wstate.open
    BY <1>4 DEF CreateWeather, DescribeSource, RegisterSource, SamplesInv, AloneSource, At
  <2>4. pc \notin AtSamples
    BY <2>1 DEF AtSamples, SetUps, OfSamples
  <2>5. pc = "openSource" => source' = "registered"
    <3>1. CASE RegisterSource
      BY <3>1 DEF RegisterSource
    <3>2. CASE CreateWeather \/ DescribeSource
      BY <1>3, <2>2, <3>2 DEF CreateWeather, DescribeSource
    <3> QED
      BY <1>4, <3>1, <3>2
  <2>6. AloneSource'
    BY <2>1, <2>2, <2>3, <2>4, <2>5 DEF SamplesInv, AloneSource
  <2> QED
    BY <1>2, <2>1, <2>2, <2>6, OneSourceStays, SamplesBeside DEF SamplesInv
<1>5. CASE OpenSource
  <2>1. PICK pc \in {"sources", "end"} : Goto("admin", pc) /\ wstate' = LoadedSource(parcels) /\ UNCHANGED <<lock, source>>
    BY <1>5 DEF OpenSource, sourceStore
  <2>2. /\ job'["steps"] = job["steps"] /\ job'["admin"].pc = pc /\ SetsStay
        /\ pc \notin SetUps \cup OfSamples \cup {"sampling", "cutValues", "putValues", "commit"}
    BY <1>3, <2>1
  <2>3. job["steps"].pc = "idle"
    BY <1>5 DEF OpenSource, SamplesInv, AloneSource, At
  <2>4. pc \notin AtSource
    BY <2>1 DEF AtSource, AtSamples, SetUps, OfSamples
  <2>5. wstate'.open /\ source = "registered"
    BY <1>5, <2>1, LoadedSamples DEF OpenSource, SamplesInv, AloneSource, At, TileTyped, Shared
  <2>6. AloneSource'
    BY <2>1, <2>2, <2>3, <2>4, <2>5 DEF AloneSource, AtSource
  <2>7. OneSource => OneSource'
    BY <1>2, <2>1, <2>2, OneSourceLoads
  <2>8. \A t \in {"steps", "admin"} :
          job'[t].pc \notin SetUps \cup OfSamples \cup {"sampling", "cutValues", "putValues", "commit"}
    BY <2>2, <2>3 DEF SetUps, OfSamples
  <2>9. UnfailingSource => ~Adding(job["steps"]) /\ left'.fails = 0
    BY <1>2, <2>3 DEF UnfailingSource, Adding
  <2> QED
    BY <1>2, <2>6, <2>7, <2>8, <2>9, SamplesIdle DEF SamplesInv
<1>6. CASE SampleParcels
  BY <1>6, <1>1, <1>3, <1>2, OneSourceStays, SamplesBeside DEF SampleParcels, sourceVars, sourceStore,
     SamplesInv, AloneSource, AtSamples, SetUps, OfSamples, SetsStay
<1> QED
  BY <1>4, <1>5, <1>6
-----------------------------------------------------------------------------
(* Sampling: where it leads, and that nobody else is at the source.         *)
LEMMA SamplingGoes ==
  ASSUME TileInv, TileTyped, SourceInv, SamplesInv, NEW t \in {"steps", "admin"}, SamplingNext(t)
  PROVE  job'[t].pc \in AtSamples \cup {"end", "commit"}
<1>1. DOMAIN job = Threads /\ DOMAIN job[t] = DOMAIN Idle /\ t \in Threads /\ "pc" \in DOMAIN job[t]
  BY ThreadsTyped
<1>2. ASSUME job'[t].pc \in SetUps \cup OfSamples \cup {"sampling", "sampled", "end", "commit"}
      PROVE  job'[t].pc \in AtSamples \cup {"end", "commit"}
  BY <1>2 DEF AtSamples
<1>3. CASE CutSamples(t)
  BY <1>3, <1>1, <1>2 DEF CutSamples, OfSamples
<1>4. CASE PutSamples(t)
  BY <1>4, <1>1, <1>2, NextArrayMoves DEF PutSamples, OfSamples
<1>5. ASSUME NEW pc \in SetUps \cup OfSamples \cup {"sampling", "sampled", "end", "commit"}, Goto(t, pc)
      PROVE  job'[t].pc \in AtSamples \cup {"end", "commit"}
  BY <1>1, <1>2, <1>5, GotoMoves
<1>6. CASE MarkSamples(t)
  BY <1>6, <1>1, <1>2, <1>5 DEF MarkSamples
<1>7. CASE Sample(t)
  BY <1>7, <1>1, <1>2 DEF Sample, SetUps
<1>8. CASE Sampling(t)
  <2>1. Goto(t, "sampled") \/ \E n : job' = [job EXCEPT ![t].pc = "cutSamples", ![t].count = n]
    BY <1>8 DEF Sampling
  <2>2. CASE \E n : job' = [job EXCEPT ![t].pc = "cutSamples", ![t].count = n]
    BY <1>1, <1>2, <2>2 DEF OfSamples
  <2> QED
    BY <1>5, <2>1, <2>2
<1>9. CASE SamplingEnds(t) \/ DeleteSamples(t) \/ MakeSamples(t) \/ ReadySamples(t) \/ DropSamples(t)
  BY <1>9, <1>5 DEF SamplingEnds, DeleteSamples, MakeSamples, ReadySamples, DropSamples, SetUps
<1>10. CASE SetUpDone(t)
  BY <1>10, <1>1, <1>2 DEF SetUpDone
<1> QED
  BY <1>3, <1>4, <1>6, <1>7, <1>8, <1>9, <1>10 DEF SamplingNext

LEMMA SamplingAlone ==
  ASSUME TileInv, TileTyped, SourceInv, SamplesInv, NEW t \in {"steps", "admin"}, SamplingNext(t)
  PROVE  /\ AloneSource' /\ SetsStay /\ UNCHANGED <<steps, values>>
         /\ wstate' \in {wstate, LoadedSource(parcels)}
         /\ \A u \in {"steps", "admin"} : u # t => job'[u] = job[u] /\ job[u].pc \notin AtSamples
         /\ t = "admin" => job["steps"].pc = "idle"
<1>1. /\ UNCHANGED <<source, steps, values>> /\ wstate' \in {wstate, LoadedSource(parcels)}
  BY DEF SamplingNext, CutSamples, PutSamples, MarkSamples, Sample, Sampling, SamplingEnds,
         DeleteSamples, MakeSamples, ReadySamples, DropSamples, SetUpDone, sourceVars, sourceStore
<1>2. Moves(t) /\ Apart(t) /\ UNCHANGED <<current, kept, parcels, lock, refresh, left>>
  BY SamplingMoves
<1>3. \A u \in {"steps", "admin"} : u # t => job'[u] = job[u]
  BY <1>2 DEF Moves, Threads
<1>4. SetsStay
  BY <1>2, <1>3 DEF SetsStay, Moves, Apart
<1>5. job[t].pc \in AtSamples
  BY DEF SamplingNext, CutSamples, PutSamples, MarkSamples, Sample, Sampling, SamplingEnds,
         DeleteSamples, MakeSamples, ReadySamples, DropSamples, SetUpDone, At, AtSamples, SetUps, OfSamples
<1>6. lock["source"] = t /\ wstate.open
  BY <1>5 DEF SamplesInv, AloneSource, AtSamples, SetUps, OfSamples
<1>7. \A u \in {"steps", "admin"} : u # t => job[u].pc \notin AtSamples
  BY <1>6 DEF SamplesInv, AloneSource, AtSamples, SetUps, OfSamples
<1>8. t = "admin" => job["steps"].pc = "idle"
  BY <1>6 DEF SamplesInv, AloneSource
<1>9. wstate'.open /\ source = "registered"
  BY <1>1, <1>6, LoadedSamples DEF TileTyped, Shared, SamplesInv, AloneSource
<1>10. job'[t].pc \in AtSamples \cup {"end", "commit"}
  BY SamplingGoes
<1>11. t = "admin" => job'["admin"].pc \notin {"describeSource", "registerSource", "openSource"}
  BY <1>10 DEF AtSamples, SetUps, OfSamples
<1>12. lock'["source"] = t /\ wstate'.open /\ source' = "registered"
  BY <1>1, <1>2, <1>6, <1>9
<1>13. ASSUME t = "steps" PROVE AloneSource'
  BY <1>3, <1>7, <1>13, <1>6, <1>12 DEF SamplesInv, AloneSource
<1>14. ASSUME t = "admin" PROVE AloneSource'
  BY <1>3, <1>8, <1>14, <1>11, <1>12 DEF AloneSource
<1> QED
  BY <1>1, <1>3, <1>4, <1>7, <1>8, <1>13, <1>14

LEMMA SamplingOfOne ==
  ASSUME TileInv, TileTyped, SourceInv, SamplesInv, NEW t \in {"steps", "admin"}, SamplingNext(t),
         SamplesAligned', Resamples(t)', t = "steps" => Supplying',
         UnfailingSource /\ ~Adding(job["steps"])' => NoMore', OneSource => OneSource'
  PROVE  SamplesInStep'
<1>1. \A u \in {"steps", "admin"} : u # t => Resamples(u)'
  BY SamplingAlone DEF Resamples, AtSamples, OfSamples
<1>2. Resampling'
  BY <1>1 DEF Resampling
<1>3. Supplying'
  <2>1. CASE t = "steps"
    BY <2>1
  <2>2. CASE t = "admin"
    BY <2>2, SamplingAlone DEF Supplying, Adding
  <2> QED
    BY <2>1, <2>2
<1>4. left'.fails = left.fails
  BY SamplingAlone DEF SetsStay
<1>5. UnfailingSource => UnfailingSource'
  BY <1>4 DEF UnfailingSource
<1> QED
  BY <1>2, <1>3, <1>5 DEF SamplesInv, SamplesInStep

(* What a goroutine adds that is sampling what is there.                    *)
LEMMA SamplingAddsNone ==
  ASSUME TileInv, TileTyped, SourceInv, SamplesInv, NEW t \in {"steps", "admin"}, SamplingNext(t),
         job'[t].pc # "commit", job'[t].pc \in OfSamples => job'[t].row = 0
  PROVE  ~Adding(job["steps"])'
<1>1. CASE t = "steps"
  BY <1>1, SamplingGoes DEF Adding, AtSamples, SetUps, OfSamples
<1>2. CASE t = "admin"
  BY <1>2, SamplingAlone DEF Adding
<1> QED
  BY <1>1, <1>2

(* Where there are no more samples than steps, and none become more.        *)
LEMMA SamplingNoMore ==
  ASSUME TileInv, TileTyped, SourceInv, SamplesInv, NEW t \in {"steps", "admin"}, SamplingNext(t),
         NoMore', SamplesAligned', job'[t].pc # "commit", job'[t].pc \in OfSamples => job'[t].row = 0,
         job'[t].pc = "putSamples" /\ wstate'.gen # 0 => Len(samples'[wstate'.gen].of[job'[t].k]) = job'[t].n
  PROVE  SamplesInStep'
<1>1. ~Adding(job["steps"])'
  BY SamplingAddsNone
<1>2. Resamples(t)'
  BY DEF Resamples
<1>3. Supplying'
  BY <1>1 DEF Supplying
<1>4. OneSource => OneSource'
  <2> SUFFICES ASSUME OneSource PROVE OneSource'
    OBVIOUS
  <2>1. OneSet' /\ OfOneSet(parcels)'
    BY SamplingAlone, OneSetLoads
  <2> QED
    BY <2>1 DEF OneSource, NoMore
<1> QED
  BY <1>2, <1>3, <1>4, SamplingOfOne

(* setUpSamples.                                                            *)
LEMMA SamplesSetUp ==
  ASSUME TileInv, TileTyped, SourceInv, SamplesInv, NEW t \in {"steps", "admin"},
         DeleteSamples(t) \/ MakeSamples(t) \/ ReadySamples(t) \/ DropSamples(t) \/ SetUpDone(t)
  PROVE  SamplesInStep'
<1>1. SamplingNext(t)
  BY DEF SamplingNext
<1>2. job[t].pc \in SetUps /\ DOMAIN job = Threads /\ DOMAIN job[t] = DOMAIN Idle /\ t \in Threads
  BY ThreadsTyped DEF DeleteSamples, MakeSamples, ReadySamples, DropSamples, SetUpDone, At, SetUps
<1>3. NoMore /\ SamplesAligned
  BY <1>2 DEF SamplesInv, SamplesInStep, Resampling, Resamples
<1>4. UNCHANGED <<steps, values>>
  BY <1>1, SamplingAlone
<1>5. ASSUME NEW g \in Gens, NEW v \in Vars
      PROVE  samples'[g].of[v] \in {samples[g].of[v], <<>>}
  <2>1. samples \in [Gens -> Sampled] /\ NoSamples.of[v] = <<>>
    BY DEF SamplesInv, OfSource, NoSamples, NoRows
  <2>2. CASE DeleteSamples(t)
    BY <2>2, <2>1 DEF DeleteSamples
  <2>3. CASE MakeSamples(t) \/ ReadySamples(t)
    <3>1. \E at : samples' = [samples EXCEPT ![job[t].set.gen].at = at]
      BY <2>3 DEF MakeSamples, ReadySamples
    <3> QED
      BY <2>1, <3>1 DEF Sampled
  <2>4. CASE DropSamples(t)
    BY <2>4, <2>1 DEF DropSamples
  <2>5. CASE SetUpDone(t)
    BY <2>5 DEF SetUpDone, sourceStore
  <2> QED
    BY <2>2, <2>3, <2>4, <2>5
<1>6. ASSUME NEW g \in Gens, NEW v \in Vars
      PROVE  ~More(g, v)' /\ \A i \in 1 .. Len(samples'[g].of[v]) : i <= steps' => samples'[g].of[v][i] = values'[1][i]
  <2>1. CASE samples'[g].of[v] = samples[g].of[v]
    BY <1>3, <1>4, <2>1 DEF NoMore, More, SamplesAligned
  <2>2. CASE samples'[g].of[v] = <<>>
    BY <1>4, <2>2, SamplesTypes DEF More
  <2> QED
    BY <1>5, <2>1, <2>2
<1>7. NoMore' /\ SamplesAligned'
  BY <1>6 DEF NoMore, SamplesAligned
<1>8. job'[t].pc \in SetUps \cup {"sampling"}
  <2>1. CASE SetUpDone(t)
    BY <2>1, <1>2 DEF SetUpDone, Idle
  <2>2. CASE DeleteSamples(t) \/ MakeSamples(t) \/ ReadySamples(t) \/ DropSamples(t)
    BY <2>2, <1>2, GotoMoves DEF DeleteSamples, MakeSamples, ReadySamples, DropSamples, SetUps
  <2> QED
    BY <2>1, <2>2
<1> QED
  BY <1>1, <1>7, <1>8, SamplingNoMore DEF SetUps, OfSamples

(* What the goroutine is at while it is not adding.                         *)
LEMMA SamplingUnfailing ==
  ASSUME TileInv, TileTyped, SourceInv, SamplesInv, NEW t \in {"steps", "admin"}, SamplingNext(t),
         job[t].pc \in OfSamples => job[t].row = 0, UnfailingSource
  PROVE  NoMore
<1>1. job[t].pc \in AtSamples
  BY DEF SamplingNext, CutSamples, PutSamples, MarkSamples, Sample, Sampling, SamplingEnds,
         DeleteSamples, MakeSamples, ReadySamples, DropSamples, SetUpDone, At, AtSamples, SetUps, OfSamples
<1>2. ~Adding(job["steps"])
  <2>1. CASE t = "steps"
    BY <1>1, <2>1 DEF Adding, AtSamples, SetUps, OfSamples
  <2>2. CASE t = "admin"
    BY <2>2, SamplingAlone DEF Adding
  <2> QED
    BY <2>1, <2>2
<1> QED
  BY <1>2 DEF UnfailingSource

(* sampleLocked.                                                            *)
LEMMA SamplesSample ==
  ASSUME TileInv, TileTyped, SourceInv, SamplesInv, NEW t \in {"steps", "admin"},
         Sample(t) \/ Sampling(t) \/ SamplingEnds(t)
  PROVE  SamplesInStep'
<1>1. SamplingNext(t) /\ job[t].pc \in {"sample", "sampling", "sampled"} /\ UNCHANGED <<samples, steps, values>>
  BY DEF SamplingNext, Sample, Sampling, SamplingEnds, At, sourceVars, sourceStore
<1>2. DOMAIN job = Threads /\ DOMAIN job[t] = DOMAIN Idle /\ t \in Threads /\ parcels \in Sets /\ steps \in Nat
      /\ (job[t].pc = "sampling" => job[t].row = 0) /\ job[t].n \in Nat
  BY ThreadsTyped, SamplesTypes DEF SourceInv, Stepping
<1>3. SamplesAligned' /\ (NoMore' <=> NoMore)
  BY <1>1, MoreStays DEF SamplesInv, SamplesInStep, SamplesAligned
<1>4. UnfailingSource => NoMore
  BY <1>1, SamplingUnfailing DEF OfSamples
<1>5. OneSource => OneSource'
  BY <1>1, SamplingAlone, OneSourceLoads
<1>6. ASSUME Resamples(t)', job'[t].pc # "commit", job'[t].pc \in OfSamples => job'[t].row = 0
      PROVE  SamplesInStep'
  BY <1>1, <1>6, SamplingAddsNone, <1>3, <1>4, <1>5, SamplingOfOne DEF Supplying
<1>7. CASE Sample(t)
  <2> DEFINE s == LoadedSource(parcels)
  <2>1. job' = [job EXCEPT ![t].set = parcels, ![t].n = s.pwSteps, ![t].row = 0, ![t].k = 1,
                 ![t].pc = IF s.gen = parcels.gen THEN "sampling" ELSE "setUp"]
    BY <1>7 DEF Sample
  <2> HIDE DEF s
  <2>2. job'[t].n = s.pwSteps /\ job'[t].pc = (IF s.gen = parcels.gen THEN "sampling" ELSE "setUp")
    BY <1>2, <2>1 DEF Idle
  <2>3. ASSUME OneSource, ~NoMore
        PROVE  s.gen = parcels.gen /\ s.pwSteps = steps
    <3>1. PICK g \in Gens, v \in Vars : More(g, v)
      BY <2>3 DEF NoMore
    <3>2. /\ g = parcels.gen /\ g # 0 /\ samples[g].at = "ready" /\ steps <= samples[g].steps
          /\ samples[g].steps \in Nat
      BY <2>3, <3>1, SamplesTypes DEF OneSource
    <3>3. s.gen = g
      BY <1>2, <3>2, LoadedSamples DEF s
    <3>4. s.pwSteps = Min(samples[g].steps, steps)
      BY <1>2, <3>2, <3>3, LoadedSamples DEF s
    <3> QED
      BY <1>2, <3>2, <3>3, <3>4 DEF Min
  <2>4. NoMore \/ (job'[t].pc = "sampling" /\ job'[t].n = steps)
    BY <1>4, <2>2, <2>3 DEF SamplesInv, SamplesInStep
  <2>5. Resamples(t)'
    BY <1>1, <1>2, <1>3, <2>2, <2>4 DEF Resamples, SetUps, OfSamples
  <2> QED
    BY <1>6, <2>2, <2>5 DEF OfSamples
<1>8. CASE Sampling(t)
  <2>1. CASE Goto(t, "sampled")
    BY <1>2, <2>1, GotoMoves, <1>6 DEF Resamples, SetUps, OfSamples
  <2>2. CASE ~Goto(t, "sampled")
    BY <1>8, <2>2, <1>2, SamplesTypes, <1>3, <1>6 DEF Sampling, At, Idle, SamplesInv, OfSource, IsSource,
       SamplesInStep, Resampling, Resamples
  <2> QED
    BY <2>1, <2>2
<1>9. CASE SamplingEnds(t)
  BY <1>2, <1>9, GotoMoves, <1>6 DEF SamplingEnds, Resamples, SetUps, OfSamples
<1> QED
  BY <1>7, <1>8, <1>9
-----------------------------------------------------------------------------
(* appendSamples: an array is cut off.                                      *)
LEMMA CutSamplesIs ==
  ASSUME TileInv, TileTyped, SourceInv, SamplesInv, NEW t \in {"steps", "admin"}, CutSamples(t)
  PROVE  LET g == wstate.gen
             k == job[t].k
         IN  /\ g \in Gens /\ k \in Vars /\ UNCHANGED <<wstate, steps, values>> /\ SamplingNext(t)
             /\ job[t].pc = "cutSamples" /\ job'[t].pc = "putSamples" /\ job'[t].k = k
             /\ job'[t].n = job[t].n /\ job'[t].row = job[t].row /\ job'[t].count = job[t].count
             /\ Len(samples'[g].of[k]) = job[t].n /\ job[t].n <= Len(samples[g].of[k])
             /\ \A i \in 1 .. job[t].n : samples'[g].of[k][i] = samples[g].of[k][i]
             /\ \A h \in Gens, v \in Vars : h # g \/ v # k => samples'[h].of[v] = samples[h].of[v]
             /\ \A h \in Gens : samples'[h].at = samples[h].at /\ samples'[h].steps = samples[h].steps
<1> DEFINE g == wstate.gen
           k == job[t].k
           n == job[t].n
           rows == samples[g].of[k]
<1>1. DOMAIN job = Threads /\ DOMAIN job[t] = DOMAIN Idle /\ t \in Threads /\ k \in Vars /\ n \in Nat
  BY ThreadsTyped
<1>2. /\ job[t].pc = "cutSamples" /\ g # 0 /\ Len(rows) >= n
      /\ samples' = [samples EXCEPT ![g].of[k] = SubSeq(rows, 1, n)]
      /\ job' = [job EXCEPT ![t].pc = "putSamples"] /\ UNCHANGED <<wstate, steps, values>>
  BY DEF CutSamples, CutTo, At
<1>3. g \in Gens
  BY <1>2 DEF SamplesInv, OfSource, IsSource
<1>4. rows \in Seq(Values) /\ Len(rows) \in Nat
  BY <1>1, <1>3, SamplesTypes
<1>5. /\ job'[t].pc = "putSamples" /\ job'[t].k = job[t].k /\ job'[t].n = job[t].n
      /\ job'[t].row = job[t].row /\ job'[t].count = job[t].count
  BY <1>1, <1>2 DEF Idle
<1>6. SamplingNext(t)
  BY DEF SamplingNext
<1> HIDE DEF g, k, n
<1>7. Len(SubSeq(rows, 1, n)) = n /\ \A i \in 1 .. n : SubSeq(rows, 1, n)[i] = rows[i]
  <2>1. \A i \in 1 .. n : i \in 1 .. Len(rows)
    BY <1>1, <1>2, <1>4
  <2>2. \A i \in 1 .. n : rows[i] \in Values
    BY <1>4, <2>1, ElementOfSeq
  <2>3. 1 \in Int /\ n \in Int /\ n - 1 + 1 = n
    BY <1>1
  <2> HIDE DEF rows
  <2> QED
    BY <1>1, <2>2, <2>3, SubSeqProperties
<1>8. /\ samples'[g].of[k] = SubSeq(rows, 1, n)
      /\ \A h \in Gens, v \in Vars : h # g \/ v # k => samples'[h].of[v] = samples[h].of[v]
      /\ \A h \in Gens : samples'[h].at = samples[h].at /\ samples'[h].steps = samples[h].steps
  BY <1>1, <1>2, <1>3, OneArrayOf DEF SamplesInv
<1> QED
  BY <1>1, <1>2, <1>3, <1>5, <1>6, <1>7, <1>8 DEF g, k, n

LEMMA SamplesCut ==
  ASSUME TileInv, TileTyped, SourceInv, SamplesInv, NEW t \in {"steps", "admin"}, CutSamples(t)
  PROVE  SamplesInStep'
<1> DEFINE g == wstate.gen
           k == job[t].k
           n == job[t].n
<1>1. /\ g \in Gens /\ k \in Vars /\ UNCHANGED <<wstate, steps, values>> /\ SamplingNext(t)
      /\ job[t].pc = "cutSamples" /\ job'[t].pc = "putSamples" /\ job'[t].k = k
      /\ job'[t].n = n /\ job'[t].row = job[t].row /\ job'[t].count = job[t].count
      /\ Len(samples'[g].of[k]) = n /\ n <= Len(samples[g].of[k])
      /\ \A i \in 1 .. n : samples'[g].of[k][i] = samples[g].of[k][i]
      /\ \A h \in Gens, v \in Vars : h # g \/ v # k => samples'[h].of[v] = samples[h].of[v]
      /\ \A h \in Gens : samples'[h].at = samples[h].at /\ samples'[h].steps = samples[h].steps
  BY CutSamplesIs
<1>2. n \in Nat /\ steps \in Nat /\ Len(samples[g].of[k]) \in Nat /\ (t = "admin" => job[t].row = 0)
  BY <1>1, ThreadsTyped, SamplesTypes
<1> HIDE DEF g, k, n
<1>3. ASSUME NEW h \in Gens, NEW v \in Vars, More(h, v)'
      PROVE  More(h, v) /\ (h = g => v # k \/ steps < n)
  <2>1. CASE h = g /\ v = k
    BY <1>1, <1>2, <1>3, <2>1 DEF More
  <2>2. CASE h # g \/ v # k
    BY <1>1, <1>3, <2>2 DEF More
  <2> QED
    BY <2>1, <2>2
<1>4. ASSUME NEW h \in Gens, NEW v \in Vars, NEW i \in 1 .. Len(samples'[h].of[v]), i <= steps'
      PROVE  samples'[h].of[v][i] = values'[1][i]
  <2>1. i \in 1 .. Len(samples[h].of[v]) /\ samples'[h].of[v][i] = samples[h].of[v][i]
    <3>1. CASE h = g /\ v = k
      BY <1>1, <1>2, <3>1
    <3>2. CASE h # g \/ v # k
      BY <1>1, <3>2
    <3> QED
      BY <3>1, <3>2
  <2> QED
    BY <1>1, <1>4, <2>1 DEF SamplesInv, SamplesInStep, SamplesAligned
<1>5. SamplesAligned'
  BY <1>4 DEF SamplesAligned
<1>6. CASE job[t].row = 0
  BY <1>1, <1>6, <1>3, <1>5, SamplingNoMore DEF SamplesInv, SamplesInStep, Resampling, Resamples, OfSamples,
     NoMore, g
<1>7. CASE job[t].row # 0
  <2>1. t = "steps" /\ Adding(job["steps"]) /\ Adding(job["steps"])'
    BY <1>1, <1>2, <1>7 DEF Adding
  <2>2. n = steps
    BY <2>1 DEF SourceInv, Stepping, n
  <2>3. Resamples(t)'
    BY <1>1, <1>7 DEF Resamples, SetUps, OfSamples, g
  <2>4. Supplying
    BY DEF SamplesInv, SamplesInStep
  <2>5. ASSUME NEW h \in Gens, NEW v \in Vars, More(h, v)', v < k
        PROVE  HasSamples(h, v)'
    <3>1. HasSamples(h, v) /\ (h # g \/ v # k)
      BY <1>1, <1>2, <1>3, <2>1, <2>2, <2>4, <2>5 DEF Supplying, k
    <3> QED
      BY <1>1, <2>1, <3>1 DEF HasSamples
  <2>6. \A h \in Gens, v \in Vars : More(h, v)' => h = wstate'.gen /\ UpToDate'
    BY <1>1, <1>3, <2>1, <2>4 DEF Supplying, UpToDate
  <2>7. UpToDate' /\ samples'[wstate'.gen].at = "ready" /\ steps' <= samples'[wstate'.gen].steps
    BY <1>1, <2>1, <2>4 DEF Supplying, UpToDate, g
  <2>8. Supplying'
    BY <1>1, <2>1, <2>5, <2>6, <2>7 DEF Supplying
  <2>9. OneSource => OneSource'
    <3> SUFFICES ASSUME OneSource PROVE OneSource'
      OBVIOUS
    <3>1. OneSet' /\ OfOneSet(parcels)' /\ parcels' = parcels
      BY <1>1, SamplingAlone, OneSetLoads DEF SetsStay
    <3> QED
      BY <1>1, <1>3, <3>1 DEF OneSource
  <2> QED
    BY <1>1, <1>5, <2>1, <2>3, <2>8, <2>9, SamplingOfOne
<1> QED
  BY <1>6, <1>7

(* And rows are appended to it: as many as the job has.                     *)
LEMMA RowsToPut ==
  ASSUME TileInv, TileTyped, SourceInv, SamplesInv, NEW t \in {"steps", "admin"}, job[t].pc = "putSamples"
  PROVE  LET j == job[t]
             rows == IF j.row # 0 THEN Rows(j.row, j.count) ELSE SubSeq(values[j.k], j.n + 1, j.n + j.count)
         IN  /\ rows \in Seq(Values) /\ Len(rows) = j.count
             /\ j.row # 0 => \A i \in 1 .. j.count : rows[i] = j.row
             /\ j.row = 0 => j.n + j.count <= steps /\ \A i \in 1 .. j.count : rows[i] = values[1][j.n + i]
<1> DEFINE n == job[t].n
           c == job[t].count
           k == job[t].k
           x == job[t].row
<1>1. n \in Nat /\ c \in Nat /\ k \in Vars /\ (x \in Values \/ (x = 0 /\ n + c <= steps)) /\ steps \in Nat
  BY ThreadsTyped, SamplesTypes DEF Amount
<1>2. /\ values[k] \in Seq(Values) /\ Len(values[k]) \in Nat /\ steps <= Len(values[k])
      /\ \A i \in 1 .. steps : values[k][i] = values[1][i]
  BY <1>1, SamplesTypes
<1> HIDE DEF n, c, k, x
<1>3. CASE x # 0
  <2>1. Rows(x, c) \in Seq(Values) /\ Len(Rows(x, c)) = c /\ \A i \in 1 .. c : Rows(x, c)[i] = x
    BY <1>1, <1>3 DEF Rows
  <2> QED
    BY <1>3, <2>1 DEF n, c, k, x
<1>4. CASE x = 0
  <2>1. n + c <= steps
    BY <1>1, <1>4, BoundsTyped
  <2>2. \A i \in n + 1 .. n + c : i \in 1 .. Len(values[k])
    BY <1>1, <1>2, <2>1
  <2>3. \A i \in n + 1 .. n + c : values[k][i] \in Values
    BY <1>2, <2>2, ElementOfSeq
  <2>4. n + 1 \in Int /\ n + c \in Int /\ n + c - (n + 1) + 1 = c /\ (n + 1 <= n + c + 1)
    BY <1>1
  <2>5. /\ SubSeq(values[k], n + 1, n + c) \in Seq(Values) /\ Len(SubSeq(values[k], n + 1, n + c)) = c
        /\ \A i \in 1 .. c : SubSeq(values[k], n + 1, n + c)[i] = values[k][n + 1 + i - 1]
    BY <1>1, <2>3, <2>4, SubSeqProperties
  <2>6. \A i \in 1 .. c : n + 1 + i - 1 = n + i /\ n + i \in 1 .. steps
    BY <1>1, <2>1
  <2>7. \A i \in 1 .. c : SubSeq(values[k], n + 1, n + c)[i] = values[1][n + i]
    BY <1>2, <2>5, <2>6
  <2> QED
    BY <1>4, <2>1, <2>5, <2>7 DEF n, c, k, x
<1> QED
  BY <1>3, <1>4

LEMMA PutSamplesIs ==
  ASSUME TileInv, TileTyped, SourceInv, SamplesInv, NEW t \in {"steps", "admin"}, PutSamples(t)
  PROVE  LET g == wstate.gen
             k == job[t].k
             n == job[t].n
             c == job[t].count
             x == job[t].row
         IN  /\ k \in Vars /\ UNCHANGED <<wstate, steps, values>> /\ SamplingNext(t)
             /\ job[t].pc = "putSamples" /\ job'[t].n = n /\ job'[t].row = x /\ job'[t].count = c
             /\ \/ job'[t].pc = "cutSamples" /\ job'[t].k = k + 1
                \/ job'[t].pc = "markSamples" /\ k = NVars
             /\ g = 0 => samples' = samples
             /\ g # 0 =>
                  /\ g \in Gens /\ Len(samples[g].of[k]) = n /\ Len(samples'[g].of[k]) = n + c
                  /\ \A i \in 1 .. n : samples'[g].of[k][i] = samples[g].of[k][i]
                  /\ x # 0 => \A i \in n + 1 .. n + c : samples'[g].of[k][i] = x
                  /\ x = 0 => n + c <= steps /\ \A i \in n + 1 .. n + c : samples'[g].of[k][i] = values[1][i]
                  /\ \A h \in Gens, v \in Vars : h # g \/ v # k => samples'[h].of[v] = samples[h].of[v]
                  /\ \A h \in Gens : samples'[h].at = samples[h].at /\ samples'[h].steps = samples[h].steps
<1> DEFINE g == wstate.gen
           k == job[t].k
           n == job[t].n
           c == job[t].count
           x == job[t].row
           rows == IF x # 0 THEN Rows(x, c) ELSE SubSeq(values[k], n + 1, n + c)
           old == samples[g].of[k]
<1>1. /\ DOMAIN job = Threads /\ DOMAIN job[t] = DOMAIN Idle /\ t \in Threads /\ k \in Vars /\ n \in Nat /\ c \in Nat
      /\ NVars \in Nat
  BY ThreadsTyped, SourceTypes
<1>2. /\ job[t].pc = "putSamples" /\ samples' = [samples EXCEPT ![g].of[k] = old \o rows]
      /\ NextArray(t, "cutSamples", "markSamples") /\ UNCHANGED <<wstate, steps, values>>
  BY DEF PutSamples, At
<1>3. SamplingNext(t)
  BY DEF SamplingNext
<1>4. /\ job'[t].n = n /\ job'[t].row = x /\ job'[t].count = c
      /\ \/ job'[t].pc = "cutSamples" /\ job'[t].k = k + 1
         \/ job'[t].pc = "markSamples" /\ k = NVars
  <2>1. CASE k < NVars
    BY <1>2, <2>1, <1>1 DEF NextArray, Idle
  <2>2. CASE ~(k < NVars)
    BY <1>2, <2>2, <1>1 DEF NextArray, Goto, Vars, Idle
  <2> QED
    BY <2>1, <2>2
<1>5. /\ rows \in Seq(Values) /\ Len(rows) = c
      /\ x # 0 => \A i \in 1 .. c : rows[i] = x
      /\ x = 0 => n + c <= steps /\ \A i \in 1 .. c : rows[i] = values[1][n + i]
  BY <1>2, RowsToPut
<1>6. g \in Gens \cup {0} /\ samples \in [Gens -> Sampled] /\ 0 \notin Gens
  BY SamplesTypes DEF SamplesInv, OfSource, IsSource
<1>7. g # 0 => old \in Seq(Values) /\ Len(old) = n
  BY <1>1, <1>2, <1>6, SamplesTypes DEF SamplesInv, SamplesInStep, Resampling, Resamples
<1> HIDE DEF g, k, n, c, x, rows, old
<1>8. CASE g = 0
  BY <1>2, <1>6, <1>8, <1>1, <1>3, <1>4 DEF g, k, n, c, x
<1>9. CASE g # 0
  <2>1. /\ samples'[g].of[k] = old \o rows
        /\ \A h \in Gens, v \in Vars : h # g \/ v # k => samples'[h].of[v] = samples[h].of[v]
        /\ \A h \in Gens : samples'[h].at = samples[h].at /\ samples'[h].steps = samples[h].steps
    BY <1>1, <1>2, <1>6, <1>9, OneArrayOf DEF SamplesInv
  <2>2. Len(old \o rows) = n + c /\ \A i \in 1 .. n + c : (old \o rows)[i] = IF i <= n THEN old[i] ELSE rows[i - n]
    <3>1. old \in Seq(Values) /\ rows \in Seq(Values) /\ Len(old) = n /\ Len(rows) = c
      BY <1>5, <1>7, <1>9
    <3>2. /\ Len(old \o rows) = Len(old) + Len(rows)
          /\ \A i \in 1 .. Len(old) + Len(rows) :
               (old \o rows)[i] = IF i <= Len(old) THEN old[i] ELSE rows[i - Len(old)]
      BY <3>1, ConcatProperties
    <3> QED
      BY <3>1, <3>2
  <2>3. \A i \in 1 .. n : i \in 1 .. n + c /\ i <= n
    BY <1>1
  <2>4. \A i \in n + 1 .. n + c : i \in 1 .. n + c /\ ~(i <= n) /\ i - n \in 1 .. c /\ n + (i - n) = i
    BY <1>1
  <2>5. \A i \in 1 .. n : (old \o rows)[i] = old[i]
    BY <2>2, <2>3
  <2>6. \A i \in n + 1 .. n + c : (old \o rows)[i] = rows[i - n]
    BY <2>2, <2>4
  <2>7. x # 0 => \A i \in n + 1 .. n + c : (old \o rows)[i] = x
    BY <1>5, <2>4, <2>6
  <2>8. x = 0 => \A i \in n + 1 .. n + c : (old \o rows)[i] = values[1][i]
    BY <1>5, <2>4, <2>6
  <2>9. /\ g \in Gens /\ Len(samples[g].of[k]) = n /\ Len(samples'[g].of[k]) = n + c
        /\ \A i \in 1 .. n : samples'[g].of[k][i] = samples[g].of[k][i]
        /\ x # 0 => \A i \in n + 1 .. n + c : samples'[g].of[k][i] = x
        /\ x = 0 => n + c <= steps /\ \A i \in n + 1 .. n + c : samples'[g].of[k][i] = values[1][i]
    BY <1>5, <1>6, <1>7, <1>9, <2>1, <2>2, <2>5, <2>7, <2>8 DEF old
  <2> QED
    BY <1>1, <1>2, <1>3, <1>4, <1>9, <2>1, <2>9 DEF g, k, n, c, x
<1> QED
  BY <1>8, <1>9

LEMMA SamplesPut ==
  ASSUME TileInv, TileTyped, SourceInv, SamplesInv, NEW t \in {"steps", "admin"}, PutSamples(t)
  PROVE  SamplesInStep'
<1> DEFINE g == wstate.gen
           k == job[t].k
           n == job[t].n
           c == job[t].count
           x == job[t].row
<1>1. /\ k \in Vars /\ UNCHANGED <<wstate, steps, values>> /\ SamplingNext(t)
      /\ job[t].pc = "putSamples" /\ job'[t].n = n /\ job'[t].row = x /\ job'[t].count = c
      /\ \/ job'[t].pc = "cutSamples" /\ job'[t].k = k + 1
         \/ job'[t].pc = "markSamples" /\ k = NVars
      /\ g = 0 => samples' = samples
  BY PutSamplesIs
<1>2. g # 0 =>
        /\ g \in Gens /\ Len(samples[g].of[k]) = n /\ Len(samples'[g].of[k]) = n + c
        /\ \A i \in 1 .. n : samples'[g].of[k][i] = samples[g].of[k][i]
        /\ x # 0 => \A i \in n + 1 .. n + c : samples'[g].of[k][i] = x
        /\ x = 0 => n + c <= steps /\ \A i \in n + 1 .. n + c : samples'[g].of[k][i] = values[1][i]
        /\ \A h \in Gens, v \in Vars : h # g \/ v # k => samples'[h].of[v] = samples[h].of[v]
        /\ \A h \in Gens : samples'[h].at = samples[h].at /\ samples'[h].steps = samples[h].steps
  BY PutSamplesIs
<1>3. n \in Nat /\ c \in Nat /\ steps \in Nat /\ (t = "admin" => x = 0) /\ NVars \in Nat /\ k \in 1 .. NVars
  BY <1>1, ThreadsTyped, SamplesTypes, SourceTypes DEF Vars
<1>4. \A h \in Gens, v \in Vars : Len(samples[h].of[v]) \in Nat
  BY SamplesTypes
<1> HIDE DEF g, k, n, c, x
<1>5. ASSUME NEW h \in Gens, NEW v \in Vars
      PROVE  \/ samples'[h].of[v] = samples[h].of[v] /\ (g = 0 \/ h # g \/ v # k)
             \/ g # 0 /\ h = g /\ v = k
  BY <1>1, <1>2
<1>6. ASSUME NEW h \in Gens, NEW v \in Vars, NEW i \in 1 .. Len(samples'[h].of[v]), i <= steps,
             x # 0 => n = steps
      PROVE  samples'[h].of[v][i] = values[1][i]
  <2>1. SamplesAligned
    BY DEF SamplesInv, SamplesInStep
  <2>2. CASE samples'[h].of[v] = samples[h].of[v]
    BY <1>6, <2>1, <2>2 DEF SamplesAligned
  <2>3. CASE g # 0 /\ h = g /\ v = k
    <3>1. CASE i <= n
      <4>1. i \in 1 .. n /\ i \in 1 .. Len(samples[h].of[v])
        BY <1>2, <1>3, <2>3, <3>1
      <4> QED
        BY <1>2, <1>6, <2>1, <2>3, <4>1 DEF SamplesAligned
    <3>2. CASE ~(i <= n)
      BY <1>2, <1>3, <1>6, <2>3, <3>2
    <3> QED
      BY <3>1, <3>2
  <2> QED
    BY <1>5, <2>2, <2>3
<1>7. (x # 0 => n = steps) => SamplesAligned'
  BY <1>1, <1>6 DEF SamplesAligned
<1>8. CASE x = 0
  <2>1. NoMore
    BY <1>1, <1>8 DEF SamplesInv, SamplesInStep, Resampling, Resamples, OfSamples, x
  <2>2. ASSUME NEW h \in Gens, NEW v \in Vars PROVE ~More(h, v)'
    <3>1. CASE samples'[h].of[v] = samples[h].of[v]
      BY <1>1, <2>1, <3>1 DEF NoMore, More
    <3>2. CASE g # 0 /\ h = g /\ v = k
      BY <1>1, <1>2, <1>3, <1>8, <3>2 DEF More
    <3> QED
      BY <1>5, <3>1, <3>2
  <2>3. NoMore'
    BY <2>2 DEF NoMore
  <2> QED
    BY <1>1, <1>7, <1>8, <2>3, SamplingNoMore
<1>9. CASE x # 0
  <2>1. t = "steps" /\ Adding(job["steps"]) /\ Adding(job["steps"])'
    BY <1>1, <1>3, <1>9 DEF Adding, x
  <2>2. n = steps
    BY <2>1 DEF SourceInv, Stepping, n
  <2>3. Resamples(t)'
    BY <1>1, <1>9 DEF Resamples, SetUps, OfSamples
  <2>4. Supplying /\ UpToDate /\ g # 0 /\ samples[g].at = "ready" /\ steps <= samples[g].steps
    BY <1>1, <2>1 DEF SamplesInv, SamplesInStep, Supplying, UpToDate, g
  <2>5. ASSUME NEW h \in Gens, NEW v \in Vars, More(h, v)'
        PROVE  h = g /\ (v # k => More(h, v))
    <3>1. CASE samples'[h].of[v] = samples[h].of[v]
      BY <1>1, <2>5, <3>1, <2>1, <2>4 DEF More, Supplying, g
    <3>2. CASE h = g /\ v = k
      BY <3>2
    <3> QED
      BY <1>5, <3>1, <3>2
  <2>6. ASSUME NEW h \in Gens, NEW v \in Vars, More(h, v)', v < k + 1
        PROVE  HasSamples(h, v)'
    <3>1. CASE v = k
      BY <2>5, <2>6, <1>1, <1>2, <1>9, <2>1, <2>2, <2>4, <3>1 DEF HasSamples
    <3>2. CASE v # k
      <4>1. More(h, v) /\ v < k
        BY <1>3, <2>5, <2>6, <3>2 DEF Vars
      <4>2. HasSamples(h, v)
        BY <1>1, <2>1, <2>4, <4>1 DEF Supplying, k
      <4>3. samples'[h].of[v] = samples[h].of[v]
        BY <1>5, <3>2
      <4> QED
        BY <1>1, <2>1, <4>2, <4>3 DEF HasSamples, x, c
    <3> QED
      BY <3>1, <3>2
  <2>7. UpToDate' /\ samples'[wstate'.gen].at = "ready" /\ steps' <= samples'[wstate'.gen].steps
    BY <1>1, <1>2, <2>4 DEF UpToDate, g
  <2>8. \A h \in Gens, v \in Vars : More(h, v)' => h = wstate'.gen
    BY <1>1, <2>5 DEF g
  <2>9. Supplying'
    <3>1. CASE job'[t].pc = "cutSamples" /\ job'[t].k = k + 1
      BY <2>1, <2>6, <2>7, <2>8, <3>1 DEF Supplying
    <3>2. CASE job'[t].pc = "markSamples" /\ k = NVars
      BY <1>3, <3>2, <2>1, <2>6, <2>7, <2>8 DEF Vars, Supplying
    <3> QED
      BY <1>1, <3>1, <3>2
  <2>10. OneSource => OneSource'
    <3> SUFFICES ASSUME OneSource PROVE OneSource'
      OBVIOUS
    <3>1. OneSet' /\ OfOneSet(parcels)'
      BY <1>1, SamplingAlone, OneSetLoads
    <3>2. parcels'.gen = g
      BY <1>1, <2>4, <3>1 DEF OfOneSet, g
    <3> QED
      BY <1>1, <2>5, <2>7, <3>1, <3>2 DEF OneSource, g
  <2> QED
    BY <1>1, <1>7, <2>1, <2>2, <2>3, <2>9, <2>10, SamplingOfOne
<1> QED
  BY <1>8, <1>9

(* The steps attribute of the samples.                                      *)
LEMMA SamplesMark ==
  ASSUME TileInv, TileTyped, SourceInv, SamplesInv, NEW t \in {"steps", "admin"}, MarkSamples(t)
  PROVE  SamplesInStep'
<1> DEFINE g == wstate.gen
           n == job[t].n
           c == job[t].count
           x == job[t].row
<1>1. /\ job[t].pc = "markSamples" /\ samples' = [samples EXCEPT ![g].steps = n + c]
      /\ IF x # 0 THEN Goto(t, "commit") ELSE job' = [job EXCEPT ![t].pc = "sampling", ![t].n = n + c, ![t].k = 1]
      /\ UNCHANGED <<wstate, steps, values>> /\ SamplingNext(t)
  BY DEF MarkSamples, SamplingNext, At
<1>2. /\ DOMAIN job = Threads /\ DOMAIN job[t] = DOMAIN Idle /\ t \in Threads
      /\ n \in Nat /\ c \in Nat /\ steps \in Nat /\ (t = "admin" => x = 0)
  BY ThreadsTyped, SamplesTypes
<1>3. /\ x # 0 => job'[t].pc = "commit" /\ job'[t].row = x /\ job'[t].count = c
      /\ x = 0 => job'[t].pc = "sampling"
  BY <1>1, <1>2 DEF Goto, Idle
<1>4. /\ \A h \in Gens : samples'[h].of = samples[h].of /\ samples'[h].at = samples[h].at
      /\ \A h \in Gens : samples'[h].steps = IF h = g THEN n + c ELSE samples[h].steps
  <2>1. samples \in [Gens -> Sampled]
    BY DEF SamplesInv, OfSource
  <2> HIDE DEF g, n, c
  <2> QED
    BY <1>1, <2>1 DEF Sampled
<1> HIDE DEF g, n, c, x
<1>5. \A h \in Gens, v \in Vars : samples'[h].of[v] = samples[h].of[v] /\ (More(h, v)' <=> More(h, v))
  BY <1>1, <1>4 DEF More
<1>6. SamplesAligned'
  BY <1>1, <1>5 DEF SamplesInv, SamplesInStep, SamplesAligned
<1>7. CASE x = 0
  BY <1>1, <1>7, <1>5, <1>3, <1>6, SamplingNoMore DEF SamplesInv, SamplesInStep, Resampling, Resamples,
     OfSamples, x, NoMore
<1>8. CASE x # 0
  <2>1. t = "steps" /\ Adding(job["steps"]) /\ Adding(job["steps"])' /\ job'[t].pc = "commit"
    BY <1>1, <1>2, <1>3, <1>8 DEF Adding, x
  <2>2. n = steps
    BY <2>1 DEF SourceInv, Stepping, n
  <2>3. Resamples(t)'
    BY <2>1 DEF Resamples, SetUps, OfSamples
  <2>4. Supplying
    BY DEF SamplesInv, SamplesInStep
  <2>5. \A h \in Gens, v \in Vars : More(h, v) => h = g /\ UpToDate /\ HasSamples(h, v)
    BY <1>1, <2>1, <2>4 DEF Supplying, g
  <2>6. UpToDate => g \in Gens /\ samples[g].at = "ready"
    BY <1>1, <2>1, <2>4 DEF Supplying, g, UpToDate, SamplesInv, OfSource, IsSource
  <2>7. g \in Gens => samples'[g].at = samples[g].at /\ steps <= samples'[g].steps
    BY <1>2, <1>4, <2>2
  <2>8. ASSUME NEW h \in Gens, NEW v \in Vars, More(h, v)'
        PROVE  h = g /\ UpToDate' /\ HasSamples(h, v)'
    BY <1>5, <2>5, <2>8, <1>1, <1>3, <1>8, <2>1 DEF HasSamples, UpToDate, x, c
  <2>9. Supplying'
    BY <1>1, <2>6, <2>7, <2>1, <2>8 DEF UpToDate, Supplying, g
  <2>10. OneSource => OneSource'
    <3> SUFFICES ASSUME OneSource PROVE OneSource'
      OBVIOUS
    <3>1. OneSet' /\ OfOneSet(parcels)' /\ parcels' = parcels
      BY <1>1, SamplingAlone, OneSetLoads DEF SetsStay
    <3>2. ASSUME NEW h \in Gens, NEW v \in Vars, More(h, v)'
          PROVE  h = parcels'.gen /\ samples'[h].at = "ready" /\ steps' <= samples'[h].steps
      BY <1>5, <3>2, <1>1, <2>6, <2>7, <2>8, <3>1 DEF OneSource, UpToDate
    <3> QED
      BY <3>1, <3>2 DEF OneSource
  <2> QED
    BY <1>1, <1>6, <2>1, <2>3, <2>9, <2>10, SamplingOfOne
<1> QED
  BY <1>7, <1>8
-----------------------------------------------------------------------------
(* Append.  It begins with a source that is loaded: if there are more       *)
(* samples than steps, they are up to date, and cut off again.              *)
LEMMA SamplesAppend ==
  ASSUME TileInv, TileTyped, SourceInv, SamplesInv, AppendSteps
  PROVE  AloneSource' /\ SamplesInStep'
<1> DEFINE s == LoadedSource(parcels)
<1>1. /\ job["steps"].pc = "idle" /\ lock["source"] = "free" /\ wstate.open /\ wstate' = s
      /\ lock' = [lock EXCEPT !["source"] = "steps"]
      /\ UNCHANGED <<source, steps, values, samples, current, parcels, left>>
  BY DEF AppendSteps, At, sourceStore
<1>2. PICK x \in Values, n \in 1 .. MaxAppend :
        job' = [job EXCEPT !["steps"] = [Idle EXCEPT !.pc = "cutValues", !.n = s.steps, !.row = x, !.count = n]]
  BY <1>1 DEF AppendSteps
<1>3. DOMAIN job = Threads /\ lock \in [{"tile", "source"} -> Threads \cup {"free"}] /\ parcels \in Sets
      /\ "steps" \in Threads
  BY ThreadsTyped DEF TileTyped, Shared, Threads
<1>4. /\ s.open /\ s.steps = steps /\ s.gen \in Gens \cup {0} /\ steps \in Nat /\ 0 \notin Gens
      /\ s.gen # 0 => samples[s.gen].at = "ready" /\ s.pwSteps = Min(samples[s.gen].steps, steps)
      /\ parcels.gen # 0 /\ samples[parcels.gen].at = "ready" => s.gen = parcels.gen
      /\ \A g \in Gens : samples[g].steps \in Nat
  BY <1>3, LoadedSamples, SamplesTypes
<1> HIDE DEF s
<1>5. job'["steps"].pc = "cutValues" /\ job'["admin"] = job["admin"] /\ lock'["source"] = "steps"
  BY <1>1, <1>2, <1>3 DEF Idle
<1>6. job["admin"].pc \notin AtSamples
  BY <1>1 DEF SamplesInv, AloneSource
<1>7. AloneSource'
  BY <1>1, <1>4, <1>5, <1>6 DEF SamplesInv, AloneSource
<1>8. SamplesAligned'
  BY <1>1 DEF SamplesInv, SamplesInStep, SamplesAligned
<1>9. Resampling'
  BY <1>5, <1>6 DEF Resampling, Resamples, AtSamples, SetUps, OfSamples
<1>10. ASSUME NEW g \in Gens, NEW v \in Vars, More(g, v)
       PROVE  g = s.gen /\ s.pwSteps = steps
  BY <1>1, <1>10, <1>4 DEF UnfailingSource, Adding, NoMore, SamplesInv, SamplesInStep, OneSource, Min
<1>11. s.gen # 0 /\ s.pwSteps = steps => steps <= samples[s.gen].steps
  BY <1>4 DEF Min
<1>12. UpToDate' <=> s.gen # 0 /\ s.pwSteps = steps
  BY <1>1, <1>4 DEF UpToDate
<1>13. Supplying'
  BY <1>1, <1>4, <1>5, <1>10, <1>11, <1>12, MoreStays DEF Supplying
<1>14. UnfailingSource => UnfailingSource'
  BY <1>1, <1>5 DEF UnfailingSource, Adding
<1>15. OneSource => OneSource'
  BY <1>1, <1>5, OneSourceLoads DEF SetsStay, s
<1> QED
  BY <1>7, <1>8, <1>9, <1>13, <1>14, <1>15 DEF SamplesInv, SamplesInStep

(* The arrays, one after the other.                                         *)
LEMMA SamplesValues ==
  ASSUME TileInv, TileTyped, SourceInv, SamplesInv, CutValues \/ PutValues
  PROVE  AloneSource' /\ SamplesInStep'
<1>1. /\ UNCHANGED <<source, steps, samples, wstate, current, parcels, lock, left>>
      /\ job["steps"].pc \in {"cutValues", "putValues"}
      /\ \A i \in 1 .. steps : values'[1][i] = values[1][i]
  BY CutValuesStep, PutValuesStep DEF CutValues, PutValues, At
<1>0. DOMAIN job = Threads /\ DOMAIN job["steps"] = DOMAIN Idle /\ {"steps", "admin"} \subseteq Threads
  BY DEF SourceInv, Stepping, Threads
<1>2. Adding(job["steps"]) /\ job["steps"].row # 0
  BY <1>1, SourceTypes DEF SourceInv, Stepping, Adding
<1>3. /\ job'["admin"] = job["admin"] /\ job'["steps"].row = job["steps"].row
      /\ \/ job'["steps"].pc \in {"cutValues", "putValues"}
         \/ job'["steps"].pc = "cutSamples" /\ job'["steps"].k = 1 /\ UpToDate
         \/ job'["steps"].pc = "commit" /\ ~UpToDate
  <2>1. CASE CutValues
    BY <2>1, <1>0 DEF CutValues, Idle
  <2>2. CASE PutValues
    <3>1. NextArray("steps", "cutValues", IF UpToDate THEN "cutSamples" ELSE "commit")
      BY <2>2 DEF PutValues
    <3>2. CASE job["steps"].k < NVars
      BY <3>1, <3>2, <1>0 DEF NextArray, Idle
    <3>3. CASE ~(job["steps"].k < NVars)
      <4>1. \E pc : Goto("steps", pc) /\ pc = (IF UpToDate THEN "cutSamples" ELSE "commit")
        BY <3>1, <3>3 DEF NextArray
      <4>2. PICK pc : Goto("steps", pc) /\ pc = (IF UpToDate THEN "cutSamples" ELSE "commit")
        BY <4>1
      <4>3. /\ job'["admin"] = job["admin"] /\ job'["steps"].row = job["steps"].row
            /\ job'["steps"].pc = pc /\ job'["steps"].k = 1
        BY <1>0, <4>2 DEF Idle, Goto
      <4> QED
        BY <4>2, <4>3
    <3> QED
      BY <3>2, <3>3
  <2> QED
    BY <2>1, <2>2
<1>4. Adding(job["steps"])'
  BY <1>2, <1>3 DEF Adding
<1>5. AloneSource'
  BY <1>1, <1>3 DEF SamplesInv, AloneSource
<1>6. SamplesAligned'
  BY SamplesTypes, <1>1 DEF SamplesInv, SamplesInStep, SamplesAligned
<1>7. Resamples("admin")'
  BY <1>1, <1>3, MoreStays DEF SamplesInv, SamplesInStep, Resampling, Resamples
<1>8. Resamples("steps")'
  BY <1>2, <1>3 DEF Resamples, SetUps, OfSamples
<1>9. UpToDate' <=> UpToDate
  BY <1>1 DEF UpToDate
<1>10. \A v \in Vars : ~(v < 1)
  BY DEF Vars
<1>11. Supplying'
  BY <1>2, <1>3, <1>1, <1>9, <1>10, MoreStays DEF SamplesInv, SamplesInStep, Supplying
<1>12. UnfailingSource => UnfailingSource'
  BY <1>1, <1>4 DEF UnfailingSource
<1>13. OneSource => OneSource'
  BY <1>1, <1>3, OneSourceStays DEF SetsStay
<1> QED
  BY <1>5, <1>6, <1>7, <1>8, <1>11, <1>12, <1>13 DEF SamplesInv, SamplesInStep, Resampling

(* And the steps attribute: the samples are of as many.                     *)
LEMMA SamplesCommit ==
  ASSUME TileInv, TileTyped, SourceInv, SamplesInv, CommitSteps
  PROVE  AloneSource' /\ SamplesInStep'
<1> DEFINE c == job["steps"].count
           x == job["steps"].row
<1>1. /\ UNCHANGED <<source, values, samples, wstate, current, parcels, lock, left>>
      /\ job["steps"].pc = "commit" /\ steps' = job["steps"].n + c
      /\ \E pc \in {"sample", "sampled"} : job' = [job EXCEPT !["steps"] = [Idle EXCEPT !.pc = pc]]
  BY DEF CommitSteps, At
<1>2. DOMAIN job = Threads /\ "steps" \in Threads /\ c \in Nat /\ steps \in Nat
  BY ThreadsTyped, SamplesTypes DEF Threads
<1>3. Adding(job["steps"]) /\ steps' = steps + c
  BY <1>1 DEF SourceInv, Stepping, Adding
<1>4. job'["steps"].pc \in {"sample", "sampled"} /\ job'["admin"] = job["admin"]
  BY <1>1, <1>2 DEF Idle
<1>5. \A i \in steps + 1 .. steps + c : values[1][i] = x
  BY <1>1, <1>3, SamplesTypes DEF SourceInv, Placed, HasRows
<1>6. ASSUME NEW g \in Gens, NEW v \in Vars, More(g, v)
      PROVE  Len(samples[g].of[v]) = steps + c /\ \A i \in steps + 1 .. steps + c : samples[g].of[v][i] = x
  BY <1>1, <1>3, <1>6 DEF SamplesInv, SamplesInStep, Supplying, HasSamples
<1> HIDE DEF c, x
<1>7. ASSUME NEW g \in Gens, NEW v \in Vars
      PROVE  /\ ~More(g, v)'
             /\ \A i \in 1 .. Len(samples[g].of[v]) : i <= steps' => samples[g].of[v][i] = values[1][i]
  <2>1. Len(samples[g].of[v]) \in Nat
    BY SamplesTypes
  <2>2. \A i \in 1 .. Len(samples[g].of[v]) : i <= steps => samples[g].of[v][i] = values[1][i]
    BY DEF SamplesInv, SamplesInStep, SamplesAligned
  <2>3. CASE More(g, v)
    BY <1>2, <1>6, <2>1, <2>3, <1>1, <1>3, <1>5, <2>2 DEF More
  <2>4. CASE ~More(g, v)
    BY <1>2, <2>1, <2>4, <1>1, <1>3, <2>2 DEF More
  <2> QED
    BY <2>3, <2>4
<1>8. NoMore' /\ SamplesAligned'
  BY <1>1, <1>7 DEF NoMore, SamplesAligned
<1>9. AloneSource'
  BY <1>1, <1>4 DEF SamplesInv, AloneSource
<1>10. job["admin"].pc \notin AtSamples
  BY <1>1 DEF SamplesInv, AloneSource
<1>11. Resampling' /\ Supplying'
  BY <1>4, <1>10 DEF Resampling, Resamples, Supplying, Adding, AtSamples, SetUps, OfSamples
<1>12. UnfailingSource => UnfailingSource'
  BY <1>1, <1>8 DEF UnfailingSource
<1>13. OneSource => OneSource'
  BY <1>1, <1>4, OneSetLoads, <1>8 DEF SetsStay, OneSource, NoMore
<1> QED
  BY <1>8, <1>9, <1>11, <1>12, <1>13 DEF SamplesInv, SamplesInStep
-----------------------------------------------------------------------------
LEMMA SamplesStep ==
  ASSUME TileInv, TileTyped, Alone, SourceInv, SamplesInv, [Next]_vars
  PROVE  SamplesInv'
<1>1. OfSource' /\ Amounts'
  BY SourceTypedStep DEF SamplesInv
<1>2. AloneSource' /\ SamplesInStep'
  <2>1. ASSUME NEW t \in {"steps", "admin"}, SamplingNext(t)
        PROVE  AloneSource' /\ SamplesInStep'
    BY <2>1, SamplingAlone, SamplesCut, SamplesPut, SamplesMark, SamplesSample, SamplesSetUp DEF SamplingNext
  <2>2. CASE AppendSteps \/ CutValues \/ PutValues \/ CommitSteps
    BY <2>2, SamplesAppend, SamplesValues, SamplesCommit
  <2>3. CASE CreateWeather \/ DescribeSource \/ RegisterSource \/ OpenSource \/ SampleParcels
    BY <2>3, SamplesCreate
  <2>4. CASE RefreshSource \/ RefreshValues \/ RefreshSamples \/ RefreshSampleArrays
    BY <2>4, SamplesRefresh
  <2>5. CASE TileNext /\ UNCHANGED sourceVars
    BY <2>5, SamplesTile
  <2>6. CASE ParcelsNext \/ Restart
    BY <2>6, SamplesParcels, SamplesRestart
  <2>7. CASE UNCHANGED vars
    BY <2>7, AloneBeside, OneSourceStays, SamplesBeside DEF vars, sourceVars, sourceStore, parcelVars,
       BesideSource, SetsStay, SamplesInv
  <2>8. CASE SourceNext
    BY <2>1, <2>2, <2>3, <2>4, <2>8 DEF SourceNext, SamplingNext
  <2> QED
    BY <2>5, <2>6, <2>7, <2>8 DEF Next
<1> QED
  BY <1>1, <1>2 DEF SamplesInv

(* What a snapshot reads of the samples.                                    *)
LEMMA SamplesAreRead ==
  ASSUME SourceInv, SamplesInv, NEW snap, IsSource(snap), snap.steps <= steps, NEW set
  PROVE  ReadsItsSamples(snap, set)
<1> SUFFICES ASSUME NEW v \in Vars, NEW i \in 1 .. (IF snap.gen = set.gen THEN snap.pwSteps ELSE 0)
             PROVE  Row(samples[snap.gen].of[v], i) \in {Series(snap, v)[i], Fill}
  BY DEF ReadsItsSamples, ParcelWeather
<1>1. steps \in Nat /\ Len(values[v]) \in Nat /\ steps <= Len(values[v]) /\ \A n \in 1 .. steps : values[v][n] = values[1][n]
  BY SamplesTypes
<1>2. i \in 1 .. snap.steps /\ i \in 1 .. steps /\ snap.gen \in Gens
  BY BoundsTyped, <1>1 DEF IsSource
<1>3. Series(snap, v)[i] = values[1][i]
  BY <1>1, <1>2 DEF Series, Row
<1>4. Len(samples[snap.gen].of[v]) \in Nat
  BY <1>2, SamplesTypes
<1>5. i <= Len(samples[snap.gen].of[v]) => samples[snap.gen].of[v][i] = values[1][i]
  BY <1>1, <1>2, <1>4 DEF SamplesInv, SamplesInStep, SamplesAligned
<1> QED
  BY <1>3, <1>5 DEF Row

(* The samples that are read of a step are of that step, whether they were  *)
(* made as it was appended or later, from what was read back, and whatever  *)
(* failed in between (weather.go:206-217, 252-305, 369-465, 545-582), in    *)
(* every history in which nothing fails, or no parcels are put, or they are *)
(* put once into a database that has nothing at first: what a failed append *)
(* leaves past the steps is of the generation the next append appends to,   *)
(* and is cut off by it.                                                    *)
THEOREM SamplesOfTheirSteps == PlansAreUntorn => (Spec => []SamplesAreOfTheirSteps)
<1> SUFFICES ASSUME PlansAreUntorn PROVE Spec => []SamplesAreOfTheirSteps
  OBVIOUS
<1>1. Init => TileTyped /\ Alone /\ SamplesInv
  BY InitTyped, InitOfSource, InitSamples DEF SamplesInv
<1>2. TileInv /\ SourceInv /\ TileTyped /\ Alone /\ SamplesInv /\ [Next]_vars => (TileTyped /\ Alone /\ SamplesInv)'
  BY TypedStep, SamplesStep
<1>3. SourceInv /\ SamplesInv => SamplesAreOfTheirSteps
  <2> SUFFICES ASSUME SourceInv, SamplesInv PROVE SamplesAreOfTheirSteps
    OBVIOUS
  <2>1. IsSource(wstate) /\ wstate.steps <= steps /\ IsSource(sourceSnap) /\ sourceSnap.steps <= steps
    BY DEF SamplesInv, OfSource, SourceInv, Reading
  <2> QED
    BY <2>1, SamplesAreRead DEF SamplesAreOfTheirSteps
<1> QED
  BY <1>1, <1>2, <1>3, TileInStep, SourceInStep, PTL DEF Spec
-----------------------------------------------------------------------------
(* What is known of the state so far.                                       *)
Known == TileInv /\ StatsInv /\ SourceInv /\ SamplesInv

(* What the goroutine that puts parcels, and creates, does of itself.       *)
Creates == {"describe", "register", "open", "describeSource", "registerSource"}
AdminGoes ==
  LET j == job["admin"]
      w == job'["admin"]
  IN  /\ UNCHANGED <<current, parcels, left>> /\ w.set \in {j.set, parcels, NoSet}
      /\ \/ j.pc \in {"idle"} \cup Creates /\ w.pc \in Creates \cup {"openSource"}
         \/ j.pc = "open" /\ w.pc = (IF parcels.gen # 0 THEN "tiles" ELSE "end")
         \/ j.pc = "openSource" /\ w.pc = (IF parcels.gen # 0 THEN "sources" ELSE "end")
         \/ j.pc \in {"tiles"} \cup Subroutines /\ w.next = j.next /\ w.pc \in Subroutines \cup {j.next}
         \/ /\ j.pc = "sources" /\ w.pc = (IF wstate.open THEN "sample" ELSE "end") /\ wstate' = wstate
            /\ lock["source"] = "steps" => ~wstate.open
         \/ /\ j.pc \in AtSamples /\ w.pc \in AtSamples \cup {"end"}
            /\ j.pc \in {"sample", "setUpDone"} => w.pc \in {"setUp", "sampling"}
            /\ j.pc \in SetUps \ {"setUpDone"} => w.pc \in SetUps

(* One failure less, or none.                                               *)
Loses == left.fails > 0 /\ left'.fails = left.fails - 1 /\ left'.puts = left.puts /\ left'.made = left.made
AdminReturns ==
  /\ UNCHANGED <<current, parcels>> /\ job'["admin"] = Idle
  /\ (left' = left /\ job["admin"].pc = "end") \/ Loses

(* What the others do.                                                      *)
AdminStays ==
  UNCHANGED <<current, parcels>> /\ job'["admin"] = job["admin"] /\ (left' = left \/ Loses)

LEMMA KnownTypes ==
  ASSUME Known
  PROVE  /\ DOMAIN job = Threads /\ Threads = {"scenes", "steps", "admin"}
         /\ \A t \in Threads : DOMAIN job[t] = DOMAIN Idle /\ job[t].k \in Vars /\ job[t].set \in Sets
         /\ lock \in [{"tile", "source"} -> Threads \cup {"free"}]
         /\ current \in Sets /\ parcels \in Sets /\ refresh.parcels \in Sets
         /\ job["admin"].next \in {"end", "sources"}
         /\ left.fails \in Nat /\ left.puts \in Nat /\ left.made \in BOOLEAN
         /\ left.puts <= (IF left.made THEN MaxGens - 1 ELSE MaxGens)
         /\ MaxGens \in Nat /\ 0 \notin Gens /\ NoSet \in Sets
BY GeodbAssumption DEF Known, TileInv, Job, StatsInv, TileTyped, Shared, Threads, Gens, NoSet, Sets

LEMMA LosesOne ==
  ASSUME Known, left.fails > 0, left' = [left EXCEPT !.fails = left.fails - 1]
  PROVE  Loses
BY DEF Loses, Known, StatsInv, TileTyped, Shared

LEMMA AdminSubroutine ==
  ASSUME Known, NEW t \in {"scenes", "admin"}, Subroutine(t)
  PROVE  AdminStays \/ AdminGoes
BY SubroutineMoves, KnownTypes DEF Known, StatsInv, Moves, AdminStays, AdminGoes

(* Where sampling leads from its beginning, and from its set-up.            *)
LEMMA SampleLeads ==
  ASSUME Known, NEW t \in {"steps", "admin"}, SamplingNext(t), job[t].pc \in {"sample", "setUpDone"}
  PROVE  /\ Sample(t) \/ SetUpDone(t)
         /\ job'[t].pc \in {"setUp", "sampling"}
<1>1. Sample(t) \/ SetUpDone(t)
  BY DEF SamplingNext, CutSamples, PutSamples, MarkSamples, Sampling, SamplingEnds,
         DeleteSamples, MakeSamples, ReadySamples, DropSamples, At
<1>2. CASE Sample(t)
  BY <1>2, <1>1, KnownTypes DEF Sample, Idle
<1>3. CASE SetUpDone(t)
  BY <1>3, <1>1, KnownTypes DEF SetUpDone, Idle
<1> QED
  BY <1>1, <1>2, <1>3

LEMMA SetUpsLead ==
  ASSUME Known, NEW t \in {"steps", "admin"}, SamplingNext(t), job[t].pc \in SetUps \ {"setUpDone"}
  PROVE  /\ DeleteSamples(t) \/ MakeSamples(t) \/ ReadySamples(t) \/ DropSamples(t)
         /\ job'[t].pc \in SetUps
<1>1. DeleteSamples(t) \/ MakeSamples(t) \/ ReadySamples(t) \/ DropSamples(t)
  BY DEF SamplingNext, CutSamples, PutSamples, MarkSamples, Sample, Sampling, SamplingEnds, SetUpDone, At, SetUps
<1>2. \E pc \in SetUps : Goto(t, pc)
  BY <1>1 DEF DeleteSamples, MakeSamples, ReadySamples, DropSamples, SetUps
<1> QED
  BY <1>1, <1>2, KnownTypes, GotoIs

LEMMA AdminSamples ==
  ASSUME Known, NEW t \in {"steps", "admin"}, SamplingNext(t)
  PROVE  AdminStays \/ AdminGoes
<1>1. /\ UNCHANGED <<current, parcels, left>> /\ job'[t].pc \in AtSamples \cup {"end", "commit"}
      /\ Moves(t)
  BY SamplingMoves, SamplingGoes DEF Known, StatsInv
<1>2. CASE t = "steps"
  BY <1>1, <1>2, KnownTypes DEF Moves, AdminStays
<1>3. CASE t = "admin"
  <2>1. job["admin"].pc \in AtSamples
    BY <1>3 DEF SamplingNext, CutSamples, PutSamples, MarkSamples, Sample, Sampling, SamplingEnds,
                DeleteSamples, MakeSamples, ReadySamples, DropSamples, SetUpDone, At, AtSamples, SetUps, OfSamples
  <2>2. job'["admin"].pc # "commit"
    <3>1. CASE MarkSamples(t)
      BY <1>3, <3>1, KnownTypes DEF Known, SamplesInv, Amounts, MarkSamples, Idle
    <3>2. CASE CutSamples(t)
      BY <1>3, <3>2, CutSamplesIs DEF Known, StatsInv
    <3>3. CASE PutSamples(t)
      BY <1>3, <3>3, PutSamplesIs DEF Known, StatsInv
    <3>4. CASE \E pc : pc # "commit" /\ Goto(t, pc)
      BY <1>3, <3>4, KnownTypes, GotoIs
    <3>5. CASE Sample(t)
      BY <3>5, <1>3, KnownTypes DEF Sample, Idle
    <3>6. CASE Sampling(t)
      <4>1. Goto(t, "sampled") \/ \E n : job' = [job EXCEPT ![t].pc = "cutSamples", ![t].count = n]
        BY <3>6 DEF Sampling
      <4>2. CASE \E n : job' = [job EXCEPT ![t].pc = "cutSamples", ![t].count = n]
        BY <1>3, <4>2, KnownTypes DEF Idle
      <4> QED
        BY <3>4, <4>1, <4>2
    <3>7. CASE SetUpDone(t)
      BY <3>7, <1>3, KnownTypes DEF SetUpDone, Idle
    <3>8. CASE SamplingEnds(t) \/ DeleteSamples(t) \/ MakeSamples(t) \/ ReadySamples(t) \/ DropSamples(t)
      BY <3>4, <3>8 DEF SamplingEnds, DeleteSamples, MakeSamples, ReadySamples, DropSamples
    <3> QED
      BY <3>1, <3>2, <3>3, <3>5, <3>6, <3>7, <3>8 DEF SamplingNext
  <2>3. job["admin"].pc \in {"sample", "setUpDone"} => job'["admin"].pc \in {"setUp", "sampling"}
    BY <1>3, SampleLeads DEF Known
  <2>4. job["admin"].pc \in SetUps \ {"setUpDone"} => job'["admin"].pc \in SetUps
    BY <1>3, SetUpsLead DEF Known
  <2> QED
    BY <1>1, <1>3, <2>1, <2>2, <2>3, <2>4 DEF AdminGoes, Moves
<1> QED
  BY <1>2, <1>3

LEMMA AdminCreates ==
  ASSUME Known, \/ CreateTile \/ DescribeTile \/ RegisterTile \/ OpenTile \/ IndexParcels
                \/ CreateWeather \/ DescribeSource \/ RegisterSource \/ OpenSource \/ SampleParcels
  PROVE  AdminGoes
<1> DEFINE j == job["admin"]
<1>1. ASSUME NEW pc, Goto("admin", pc)
      PROVE  job'["admin"].pc = pc /\ job'["admin"].next = j.next /\ job'["admin"].set = j.set
  BY <1>1, KnownTypes, GotoIs
<1>2. UNCHANGED <<current, parcels, left>>
  BY DEF CreateTile, DescribeTile, RegisterTile, OpenTile, IndexParcels,
         CreateWeather, DescribeSource, RegisterSource, OpenSource, SampleParcels
<1>3. CASE CreateTile \/ DescribeTile \/ RegisterTile \/ CreateWeather \/ DescribeSource \/ RegisterSource
  BY <1>3, <1>1, <1>2 DEF CreateTile, DescribeTile, RegisterTile, CreateWeather, DescribeSource, RegisterSource,
     At, Creates, AdminGoes
<1>4. CASE OpenTile
  BY <1>4, <1>1, <1>2 DEF OpenTile, At, AdminGoes
<1>5. CASE OpenSource
  BY <1>5, <1>1, <1>2 DEF OpenSource, At, AdminGoes
<1>6. CASE IndexParcels
  <2>1. j.pc = "tiles" /\ (Call("admin", "index", j.next) \/ Goto("admin", j.next))
    BY <1>6 DEF IndexParcels, At
  <2>2. /\ job'["admin"].next = j.next /\ job'["admin"].pc \in Subroutines \cup {j.next}
        /\ job'["admin"].set \in {j.set, parcels}
    <3>1. CASE Call("admin", "index", j.next)
      BY <3>1, KnownTypes, CallIs DEF Subroutines
    <3> QED
      BY <1>1, <2>1, <3>1
  <2> QED
    BY <1>2, <2>1, <2>2 DEF AdminGoes
<1>7. CASE SampleParcels
  BY <1>7, <1>1, <1>2 DEF SampleParcels, At, sourceVars, AdminGoes
<1> QED
  BY <1>3, <1>4, <1>5, <1>6, <1>7

LEMMA AdminParcels ==
  ASSUME Known, ParcelsNext
  PROVE  AdminStays \/ AdminReturns \/ PutParcels \/ MakeCurrent \/ LoadParcels \/ DropParcels
<1>1. CASE \E t \in Threads : End(t) \/ Fail(t)
  <2>1. PICK t \in Threads : End(t) \/ Fail(t)
    BY <1>1
  <2>2. /\ UNCHANGED <<current, parcels>> /\ Return(t)
        /\ (left' = left /\ job[t].pc = "end") \/ Loses
    <3>1. CASE End(t)
      BY <3>1 DEF End, At
    <3>2. CASE Fail(t)
      BY <3>2, LosesOne DEF Fail
    <3> QED
      BY <2>1, <3>1, <3>2
  <2>3. job'[t] = Idle /\ \A u \in Threads : u # t => job'[u] = job[u]
    BY <2>2, KnownTypes, ReturnIs
  <2> QED
    BY <2>2, <2>3, KnownTypes DEF AdminStays, AdminReturns
<1>2. CASE RefreshParcels \/ RefreshFails \/ \E found : RefreshBegins(found)
  BY <1>2 DEF RefreshParcels, RefreshFails, RefreshBegins, AdminStays
<1> QED
  BY <1>1, <1>2 DEF ParcelsNext

LEMMA AdminMoves ==
  ASSUME Known, [Next]_vars
  PROVE  \/ AdminStays \/ AdminGoes \/ AdminReturns
         \/ PutParcels \/ MakeCurrent \/ LoadParcels \/ DropParcels \/ Restart
<1>1. CASE TileNext
  <2>1. CASE \E t \in {"scenes", "admin"} : Subroutine(t)
    BY <2>1, AdminSubroutine
  <2>2. CASE AppendScene \/ BackfillStats
    <3>1. PICK s : BeginTile(s)
      BY <2>2 DEF AppendScene, BackfillStats
    <3>2. job' = [job EXCEPT !["scenes"].pc = "stale", !["scenes"].row = s] /\ UNCHANGED <<current, parcels, left>>
      BY <3>1 DEF BeginTile
    <3> QED
      BY <3>2, KnownTypes DEF AdminStays
  <2>3. CASE Appends
    BY <2>3, AppendsMoves, KnownTypes DEF AdminStays, Moves, Known, StatsInv
  <2>4. CASE CreateTile \/ DescribeTile \/ RegisterTile \/ OpenTile \/ IndexParcels
    BY <2>4, AdminCreates
  <2>5. CASE RefreshTile \/ RefreshTimes \/ RefreshArrays \/ RefreshIndex \/ RefreshStats
    BY <2>5 DEF RefreshTile, RefreshTimes, RefreshArrays, RefreshIndex, RefreshStats, AdminStays
  <2> QED
    BY <1>1, <2>1, <2>2, <2>3, <2>4, <2>5 DEF TileNext, Subroutine, Appends
<1>2. CASE SourceNext
  <2>1. CASE \E t \in {"steps", "admin"} : SamplingNext(t)
    BY <2>1, AdminSamples
  <2>2. CASE AppendSteps \/ CutValues \/ PutValues \/ CommitSteps
    <3>1. UNCHANGED <<current, parcels, left>>
      BY <2>2 DEF AppendSteps, CutValues, PutValues, CommitSteps
    <3>2. (\E j : job' = [job EXCEPT !["steps"] = j]) \/ (\E pc : job' = [job EXCEPT !["steps"].pc = pc])
          \/ \E pc, done : NextArray("steps", pc, done)
      BY <2>2 DEF AppendSteps, CutValues, PutValues, CommitSteps
    <3>3. job'["admin"] = job["admin"]
      BY <3>2, KnownTypes, NextArrayMoves DEF Moves, Known, StatsInv
    <3> QED
      BY <3>1, <3>3 DEF AdminStays
  <2>3. CASE CreateWeather \/ DescribeSource \/ RegisterSource \/ OpenSource \/ SampleParcels
    BY <2>3, AdminCreates
  <2>4. CASE RefreshSource \/ RefreshValues \/ RefreshSamples \/ RefreshSampleArrays
    BY <2>4 DEF RefreshSource, RefreshValues, RefreshSamples, RefreshSampleArrays, AdminStays
  <2> QED
    BY <1>2, <2>1, <2>2, <2>3, <2>4 DEF SourceNext, SamplingNext
<1>3. CASE ParcelsNext
  BY <1>3, AdminParcels
<1>4. CASE UNCHANGED vars
  BY <1>4 DEF vars, parcelVars, AdminStays
<1> QED
  BY <1>1, <1>2, <1>3, <1>4 DEF Next
-----------------------------------------------------------------------------
(* What a put of parcels has done by where it is.                           *)
Putting ==
  LET j == job["admin"] IN
  /\ j.pc \in {"current", "load", "dropParcels"} => j.next = "sources"
  /\ j.pc = "current" => j.set.gen # 0
  /\ j.pc = "load" => current.gen # 0
  /\ j.pc \in {"dropParcels", "tiles", "sources"} \cup Subroutines => parcels.gen # 0

(* Nothing fails: the generations follow each other.                        *)
Sequenced ==
  LET j == job["admin"] IN
  /\ left.fails = 0
  /\ current.gen <= MaxGens - left.puts /\ (current.prev # 0 => current.prev < current.gen)
  /\ j.pc # "load" => parcels = current
  /\ j.pc = "current" => parcels.gen < j.set.gen /\ j.set.gen = MaxGens - left.puts /\ j.set.prev = parcels.gen
  /\ j.pc = "load" => current.prev = parcels.gen

(* Or there is one generation ever, and none before it.                     *)
SingleSet ==
  /\ OneSet /\ current.prev = 0 /\ parcels.prev = 0
  /\ left.puts > 0 => parcels.gen = 0 /\ current.gen = 0
  /\ job["admin"].pc = "current" => job["admin"].set.prev = 0 /\ left.puts = 0

Control == Putting /\ (Sequenced \/ SingleSet)

LEMMA InitControl ==
  ASSUME PlansAreUntorn, Init
  PROVE  Control
<1>1. /\ left \in Plans /\ Untorn(left) /\ job["admin"] = Idle
      /\ current = FirstSet /\ parcels = FirstSet
  BY DEF Init, InitParcels, PlansAreUntorn, Threads
<1>2. /\ left.puts \in Nat /\ MaxGens \in Nat /\ left.made \in BOOLEAN
      /\ left.puts <= (IF left.made THEN MaxGens - 1 ELSE MaxGens)
  BY <1>1, GeodbAssumption
<1>3. FirstSet.gen = (IF left.made THEN 1 ELSE 0) /\ FirstSet.prev = 0
  BY DEF FirstSet, Made, NoSet
<1>4. Idle.pc = "idle" /\ Idle.set.gen = 0
  BY DEF Idle, NoSet
<1>5. Putting
  BY <1>1, <1>4 DEF Putting, Subroutines
<1>6. CASE left.fails = 0
  BY <1>1, <1>2, <1>3, <1>4, <1>5, <1>6 DEF Control, Sequenced
<1>7. CASE left.fails # 0
  BY <1>1, <1>7, <1>2, <1>3, <1>4, <1>5 DEF Untorn, Only, OneSet, Control, SingleSet
<1> QED
  BY <1>6, <1>7

(* The first steps of a put of parcels.                                     *)
LEMMA PutParcelsIs ==
  ASSUME Known, PutParcels
  PROVE  /\ UNCHANGED <<current, parcels, lock>> /\ job["admin"].pc = "idle" /\ left.puts > 0
         /\ left'.puts = left.puts - 1 /\ left'.fails = left.fails /\ left'.made = left.made
         /\ job'["admin"].pc = "current" /\ job'["admin"].next = "sources"
         /\ job'["admin"].set.gen = MaxGens - left.puts + 1 /\ job'["admin"].set.prev = parcels.gen
         /\ \A t \in Threads : t # "admin" => job'[t] = job[t]
<1> DEFINE set == [gen |-> MaxGens - left.puts + 1, prev |-> parcels.gen]
<1>1. /\ left.puts > 0 /\ UNCHANGED <<current, parcels, lock>> /\ job["admin"].pc = "idle"
      /\ job' = [job EXCEPT !["admin"].pc = "current", !["admin"].next = "sources", !["admin"].set = set]
      /\ left' = [left EXCEPT !.puts = left.puts - 1]
  BY DEF PutParcels, At
<1>2. left'.puts = left.puts - 1 /\ left'.fails = left.fails /\ left'.made = left.made
  BY <1>1 DEF Known, StatsInv, TileTyped, Shared
<1>3. set.gen = MaxGens - left.puts + 1 /\ set.prev = parcels.gen
  OBVIOUS
<1> HIDE DEF set
<1>4. /\ job'["admin"].pc = "current" /\ job'["admin"].next = "sources" /\ job'["admin"].set = set
      /\ \A t \in Threads : t # "admin" => job'[t] = job[t]
  BY <1>1, KnownTypes DEF Idle
<1> QED
  BY <1>1, <1>2, <1>3, <1>4

LEMMA PutStepsAre ==
  ASSUME Known, MakeCurrent \/ LoadParcels \/ DropParcels
  PROVE  /\ left' = left /\ lock' = lock
         /\ \/ job["admin"].pc = "current" /\ job'["admin"].pc = "load" /\ current' = job["admin"].set /\ parcels' = parcels
            \/ job["admin"].pc = "load" /\ job'["admin"].pc = "dropParcels" /\ current' = current /\ parcels' = current
            \/ job["admin"].pc = "dropParcels" /\ job'["admin"].pc = "tiles" /\ UNCHANGED <<current, parcels>>
         /\ job'["admin"].set = job["admin"].set /\ job'["admin"].next = job["admin"].next
         /\ \A t \in Threads : t # "admin" => job'[t] = job[t]
<1>1. CASE MakeCurrent
  BY <1>1, KnownTypes, GotoIs DEF MakeCurrent, At
<1>2. CASE LoadParcels
  BY <1>2, KnownTypes, GotoIs DEF LoadParcels, At
<1>3. CASE DropParcels
  BY <1>3, KnownTypes, GotoIs DEF DropParcels, At
<1> QED
  BY <1>1, <1>2, <1>3

LEMMA RestartIs ==
  ASSUME Known, Restart
  PROVE  /\ Loses /\ \A t \in Threads : job'[t] = Idle
         /\ UNCHANGED <<current, refresh>> /\ parcels' = current
BY LosesOne DEF Restart, RestartParcels

LEMMA AdminGoesOn ==
  ASSUME Known, AdminGoes
  PROVE  job["admin"].pc \notin {"current", "load", "dropParcels"} /\ job'["admin"].pc \notin {"current", "load", "dropParcels"}
BY KnownTypes DEF AdminGoes, Creates, Subroutines, AtSamples, SetUps, OfSamples

LEMMA PuttingStep ==
  ASSUME Known, Putting, [Next]_vars
  PROVE  Putting' /\ (parcels.gen # 0 => parcels'.gen # 0 \/ Restart)
<1>1. CASE AdminStays
  BY <1>1 DEF AdminStays, Putting
<1>2. CASE AdminGoes
  BY <1>2, KnownTypes, AdminGoesOn DEF AdminGoes, Putting, Creates, Subroutines, AtSamples, SetUps, OfSamples
<1>3. CASE AdminReturns \/ Restart
  BY <1>3, RestartIs, KnownTypes DEF AdminReturns, Idle, Putting, Subroutines
<1>4. CASE PutParcels
  BY KnownTypes, <1>4, PutParcelsIs DEF Putting, Subroutines
<1>5. CASE MakeCurrent \/ LoadParcels \/ DropParcels
  BY <1>5, PutStepsAre DEF Putting, Subroutines
<1> QED
  BY <1>1, <1>2, <1>3, <1>4, <1>5, AdminMoves

LEMMA SequencedStep ==
  ASSUME Known, Sequenced, [Next]_vars
  PROVE  Sequenced'
<1>1. ~Loses
  BY DEF Loses, Sequenced
<1>2. CASE AdminStays
  BY <1>1, <1>2 DEF AdminStays, Sequenced
<1>3. CASE AdminGoes
  BY <1>3, AdminGoesOn DEF AdminGoes, Sequenced
<1>4. CASE AdminReturns
  BY <1>1, <1>4 DEF AdminReturns, Idle, Sequenced
<1>5. CASE PutParcels
  BY KnownTypes, <1>5, PutParcelsIs DEF Sets, Gens, Sequenced
<1>6. CASE MakeCurrent \/ LoadParcels \/ DropParcels
  BY KnownTypes, <1>6, PutStepsAre DEF Sets, Gens, Sequenced
<1> QED
  BY <1>1, <1>2, <1>3, <1>4, <1>5, <1>6, AdminMoves, RestartIs

LEMMA SingleSetStep ==
  ASSUME Known, SingleSet, [Next]_vars
  PROVE  SingleSet'
<1>1. NoSet.gen = 0 /\ Idle.pc = "idle" /\ Idle.set = NoSet
  BY DEF NoSet, Idle
<1>2. CASE AdminStays
  BY <1>2 DEF AdminStays, Loses, Only, SingleSet, OneSet
<1>3. CASE AdminGoes
  BY <1>3, <1>1, AdminGoesOn DEF AdminGoes, SingleSet, OneSet, Only
<1>4. CASE AdminReturns \/ Restart
  BY <1>4, RestartIs, KnownTypes, <1>1 DEF AdminReturns, Loses, SingleSet, OneSet, Only
<1>5. CASE PutParcels
  BY <1>5, KnownTypes, PutParcelsIs DEF SingleSet, OneSet, Only
<1>6. CASE MakeCurrent \/ LoadParcels \/ DropParcels
  BY <1>6, PutStepsAre DEF Only, SingleSet, OneSet
<1> QED
  BY <1>2, <1>3, <1>4, <1>5, <1>6, AdminMoves
-----------------------------------------------------------------------------
(* What an append knows of the statistics is stored.                        *)
Unknowing == {"idle", "index", "make", "finish", "drop", "reload", "end"}
StatsStored ==
  job["scenes"].pc \notin Unknowing /\ state.gen # 0 =>
    \A v \in Vars : state.statsN[v] <= Len(stats[state.gen][v])

LEMMA StoredTypes ==
  ASSUME Known
  PROVE  /\ state.gen \in Gens \cup {0} /\ Len(state.times) \in Nat /\ Len(times) \in Nat
         /\ \A v \in Vars : state.statsN[v] \in Nat /\ state.statsN[v] <= Len(state.times)
         /\ \A g \in Gens, v \in Vars : stats[g][v] \in Seq(Time) /\ Len(stats[g][v]) \in Nat
BY LenProperties, TimesTyped DEF Known, StatsInv, TileTyped, OfTile, TileInv, Snapshots, Begins, IsState

LEMMA LoadedStored ==
  ASSUME Known, state' = Loaded(parcels), stats' = stats
  PROVE  StatsStored'
BY LoadedIs, StoredTypes DEF Known, StatsInv, TileTyped, Shared, IsState, StatsStored, Min

LEMMA StoredBeside ==
  ASSUME StatsStored, UNCHANGED <<state, stats>>,
         job["scenes"].pc \in Unknowing => job'["scenes"].pc \in Unknowing
  PROVE  StatsStored'
BY DEF StatsStored

LEMMA StoredSubroutine ==
  ASSUME Known, StatsStored, NEW t \in {"scenes", "admin"}, Subroutine(t)
  PROVE  StatsStored'
<1>1. CASE t = "admin"
  BY <1>1, SubroutineMoves, KnownTypes DEF Known, StatsInv, Alone, Moves, StatsStored, Unknowing
<1>2. CASE t = "scenes"
  <2>1. CASE DeleteIndex(t) \/ MakeIndex(t) \/ FinishIndex(t) \/ DropStats(t)
    BY <1>2, <2>1, KnownTypes, GotoIs DEF DeleteIndex, MakeIndex, FinishIndex, DropStats, Unknowing, StatsStored
  <2>2. CASE Reload(t)
    BY <2>2, LoadedStored DEF Reload, tileStore
  <2>3. CASE NothingToFill(t)
    BY <2>3 DEF NothingToFill, tileVars, StatsStored
  <2>4. CASE Backfill(t)
    <3>1. job["scenes"].pc = "fill"
      BY <1>2, <2>4 DEF Backfill, At
    <3>2. /\ state' = state /\ state.gen \in Gens
          /\ \A v \in Vars : Len(stats'[state.gen][v]) >= Len(stats[state.gen][v])
                             \/ Len(stats'[state.gen][v]) = Len(state.times)
      <4>1. /\ state' = state /\ state.gen \in Gens
            /\ \A v \in Vars : v # job[t].k => stats'[state.gen][v] = stats[state.gen][v]
            /\ LET h == Len(stats[state.gen][job[t].k])
                   n == Len(state.times)
                   m == Len(stats'[state.gen][job[t].k])
               IN  m = n \/ m = h + 1 \/ stats' = stats
        BY <2>4, BackfillIs DEF Known, StatsInv
      <4>2. ASSUME NEW v \in Vars
            PROVE  \/ Len(stats'[state.gen][v]) >= Len(stats[state.gen][v])
                   \/ Len(stats'[state.gen][v]) = Len(state.times)
        <5>1. Len(stats[state.gen][v]) \in Nat
          BY <4>1, StoredTypes
        <5>2. CASE v = job[t].k
          BY <4>1, <5>1, <5>2
        <5>3. CASE v # job[t].k
          BY <4>1, <5>1, <5>3
        <5> QED
          BY <5>2, <5>3
      <4> QED
        BY <4>1, <4>2
    <3> QED
      BY <3>1, <3>2, StoredTypes DEF StatsStored, Unknowing
  <2> QED
    BY <1>2, <2>1, <2>2, <2>3, <2>4 DEF Subroutine
<1> QED
  BY <1>1, <1>2

LEMMA StoredAppends ==
  ASSUME Known, StatsStored, Appends
  PROVE  StatsStored'
<1>1. state' = state /\ job["scenes"].pc \notin Unknowing
  BY AppendsMoves DEF Appends, IndexIfStale, CatchUp, Check, CutScenes, PutScene, CutStats, PutStats,
     CommitScene, At, Known, StatsInv, Unknowing
<1>2. CASE stats' = stats
  BY <1>1, <1>2 DEF StatsStored
<1>3. CASE CutStats
  BY <1>3, StoredTypes, CutStatsIs, <1>1 DEF CutStats, At, Known, StatsInv, InStep, Extending, TileInv, Job,
     StatsStored
<1>4. CASE PutStats
  <2>1. state.gen # 0 /\ state.gen \in Gens
    BY <1>4, StoredTypes DEF PutStats, At, Known, StatsInv, InStep, Extending
  <2>2. TileInv /\ TileTyped
    BY DEF Known, StatsInv
  <2>3. LET k == job["scenes"].k
            h == Len(stats[state.gen][k])
        IN  /\ h \in Nat /\ Len(stats'[state.gen][k]) = h + 1
            /\ \A v \in Vars : v # k => stats'[state.gen][v] = stats[state.gen][v]
    BY <1>4, <2>1, <2>2, PutStatsIs
  <2> QED
    <3>1. \A v \in Vars : state.statsN[v] <= Len(stats[state.gen][v])
      BY <1>1, <2>1 DEF StatsStored
    <3>2. ASSUME NEW v \in Vars PROVE state.statsN[v] <= Len(stats'[state.gen][v])
      <4>1. state.statsN[v] \in Nat /\ Len(stats[state.gen][v]) \in Nat
        BY <2>1, StoredTypes
      <4>2. Len(stats'[state.gen][v]) \in {Len(stats[state.gen][v]), Len(stats[state.gen][v]) + 1}
        BY <2>3
      <4> QED
        BY <3>1, <4>1, <4>2
    <3> QED
      BY <1>1, <3>2 DEF StatsStored
<1> QED
  BY <1>2, <1>3, <1>4 DEF Appends, IndexIfStale, CatchUp, Check, CutScenes, PutScene, CommitScene,
                          tileVars, tileStore

LEMMA StatsStoredStep ==
  ASSUME Known, StatsStored, [Next]_vars
  PROVE  StatsStored'
<1>1. CASE TileNext
  <2>1. CASE \E t \in {"scenes", "admin"} : Subroutine(t)
    BY <2>1, StoredSubroutine
  <2>2. CASE AppendScene \/ BackfillStats
    BY <2>2, LoadedStored DEF AppendScene, BackfillStats, BeginTile, tileStore
  <2>3. CASE Appends
    BY <2>3, StoredAppends
  <2>4. CASE CreateTile \/ DescribeTile \/ RegisterTile \/ OpenTile \/ IndexParcels
    <3>1. job'["scenes"] = job["scenes"]
      BY <2>4, AdminTyped, KnownTypes DEF Known, StatsInv, Moves
    <3>2. CASE OpenTile
      BY <3>2, LoadedStored DEF OpenTile, tileStore
    <3>3. CASE CreateTile \/ DescribeTile \/ RegisterTile \/ IndexParcels
      BY <3>1, <3>3, StoredBeside DEF CreateTile, DescribeTile, RegisterTile, IndexParcels, tileVars, tileStore
    <3> QED
      BY <2>4, <3>2, <3>3
  <2>5. CASE RefreshTile \/ RefreshTimes \/ RefreshArrays \/ RefreshIndex \/ RefreshStats
    BY <2>5, StoredBeside DEF RefreshTile, RefreshTimes, RefreshArrays, RefreshIndex, RefreshStats, tileVars, tileStore
  <2> QED
    BY <1>1, <2>1, <2>2, <2>3, <2>4, <2>5 DEF TileNext, Subroutine, Appends
<1>2. CASE SourceNext /\ UNCHANGED tileVars
  BY <1>2, SourceMoves, KnownTypes, StoredBeside DEF Known, StatsInv, Moves, tileVars, tileStore
<1>3. CASE ParcelsNext
  <2>1. UNCHANGED <<state, stats>>
    BY <1>3 DEF ParcelsNext, tileVars, tileStore
  <2>2. job'["scenes"] = job["scenes"] \/ job'["scenes"] = Idle
    <3>1. CASE \E t \in Threads : End(t) \/ Fail(t)
      <4>1. PICK t \in Threads : Return(t)
        BY <3>1 DEF End, Fail
      <4> QED
        BY <4>1, KnownTypes, ReturnIs
    <3>2. CASE PutParcels \/ MakeCurrent \/ LoadParcels \/ DropParcels
      BY <3>2, PutParcelsIs, PutStepsAre, KnownTypes
    <3>3. CASE RefreshParcels \/ RefreshFails \/ \E found : RefreshBegins(found)
      BY <3>3 DEF RefreshParcels, RefreshFails, RefreshBegins
    <3> QED
      BY <1>3, <3>1, <3>2, <3>3 DEF ParcelsNext
  <2>3. Idle.pc \in Unknowing
    BY DEF Idle, Unknowing
  <2> QED
    BY <2>1, <2>2, <2>3, StoredBeside
<1>4. CASE Restart
  BY <1>4, RestartIs, KnownTypes DEF Idle, Unknowing, StatsStored
<1>5. CASE UNCHANGED vars
  BY <1>5, StoredBeside DEF vars, tileVars, tileStore, parcelVars
<1> QED
  BY <1>1, <1>2, <1>3, <1>4, <1>5 DEF Next
-----------------------------------------------------------------------------
(* Samples that are marked as of more steps than are committed, and that    *)
(* there are samples of n steps.  No array is short of what is marked.      *)
Marked(g) == steps < samples[g].steps
NoneMarked == \A g \in Gens : ~Marked(g)
Enough(g, n) == \A v \in Vars : n <= Len(samples[g].of[v])
MarksKept ==
  \A g \in Gens : /\ Enough(g, Min(samples[g].steps, steps))
                  /\ samples[g].at # "ready" => samples[g].steps = 0

(* What a goroutine knows that samples what is there: from where it goes on *)
(* are as many samples as are marked, and then more, array by array.        *)
Bringing(t) ==
  LET j == job[t]
      g == wstate.gen
  IN  /\ j.pc = "sampling" \/ (j.pc \in OfSamples /\ j.row = 0) =>
           /\ g # 0 /\ samples[g].at = "ready" /\ wstate.steps = steps
           /\ j.n = Min(samples[g].steps, steps)
      /\ j.pc \in SetUps \cup {"sampling"} => j.k = 1
      /\ j.pc \in OfSamples => g # 0 /\ (j.row = 0 => j.n < steps)
      /\ j.pc \in {"cutSamples", "putSamples"} => \A v \in Vars : v < j.k => j.n + j.count <= Len(samples[g].of[v])
      /\ j.pc = "markSamples" => Enough(g, j.n + j.count)

(* And one that sets them up: for the parcels there are, with none marked.  *)
SettingUp(t) ==
  LET j == job[t] IN
  /\ j.pc \in SetUps \cup {"sample"} => parcels.gen # 0
  /\ j.pc \in SetUps => j.set = parcels
  /\ j.pc \in SetUps \ {"setUp"} => samples[j.set.gen].steps = 0
  /\ j.pc \in {"dropSamples", "setUpDone"} => samples[j.set.gen].at = "ready"

(* An append marks the samples of what it is appending, and no others.      *)
AppendingTo ==
  LET j == job["steps"] IN
  /\ Adding(j) => \A g \in Gens : Marked(g) => g = wstate.gen /\ UpToDate
  /\ j.pc \in OfSamples /\ Adding(j) => UpToDate
  /\ j.pc = "commit" => \A g \in Gens : Marked(g) => samples[g].steps = steps + j.count
  /\ j.pc = "commit" /\ UpToDate => Enough(wstate.gen, steps + j.count)

SamplesKept == MarksKept /\ AppendingTo /\ \A t \in {"steps", "admin"} : Bringing(t) /\ SettingUp(t)

(* Until the sources were gone through, or the samples are being set up.    *)
ToSources ==
  LET j == job["admin"] IN
  \/ j.pc \in {"dropParcels", "sources"}
  \/ j.pc \in {"tiles"} \cup Subroutines /\ j.next = "sources"
Readying == ToSources \/ job["admin"].pc \in SetUps \cup {"sample"}

(* The source, where nothing fails, and where there is one generation.      *)
SourceReady ==
  /\ ~Adding(job["steps"]) => NoneMarked
  /\ wstate.open /\ parcels.gen # 0 /\ ~Readying => samples[parcels.gen].at = "ready"
  /\ job["steps"].pc \in SetUps => ToSources
SourceOfOne ==
  /\ wstate.gen \in {0, parcels.gen}
  /\ \A g \in Gens : Marked(g) => g = parcels.gen /\ samples[g].at = "ready"
SourceControl == (Sequenced /\ SourceReady) \/ (SingleSet /\ SourceOfOne)
CoreInv == SamplesKept /\ Putting /\ SourceControl
-----------------------------------------------------------------------------
LEMMA CoreTypes ==
  ASSUME Known
  PROVE  /\ steps \in Nat /\ \A g \in Gens : samples[g].steps \in Nat
         /\ \A g \in Gens, v \in Vars : Len(samples[g].of[v]) \in Nat
         /\ wstate.gen \in Gens \cup {0} /\ wstate.steps \in Nat /\ wstate.steps <= steps /\ 0 \notin Gens
         /\ samples \in [Gens -> Sampled] /\ DOMAIN job = Threads /\ "steps" \in Threads /\ "admin" \in Threads
         /\ parcels \in Sets /\ \A set \in Sets : set.gen \in Gens \cup {0}
         /\ \A t \in {"steps", "admin"} :
              /\ job[t].n \in Nat /\ job[t].count \in Nat /\ job[t].k \in Vars /\ job[t].set \in Sets
              /\ DOMAIN job[t] = DOMAIN Idle
BY BoundsTyped, SamplesTypes, ThreadsTyped DEF Known, StatsInv, SamplesInv, OfSource, IsSource, Sets, Threads

(* Where the source does not change, and a goroutine stays where it is, or  *)
(* is where nothing is added or sampled.                                    *)
LEMMA MarksStay ==
  ASSUME UNCHANGED <<samples, steps>>
  PROVE  /\ MarksKept => MarksKept'
         /\ \A g \in Gens : Marked(g)' <=> Marked(g)
BY DEF MarksKept, Enough, Marked

LEMMA BringingStays ==
  ASSUME NEW t, Bringing(t), SettingUp(t), UNCHANGED <<samples, steps, wstate>>, job'[t] = job[t],
         job[t].pc \in SetUps => parcels' = parcels, parcels.gen # 0 => parcels'.gen # 0
  PROVE  Bringing(t)' /\ SettingUp(t)'
BY DEF Bringing, Enough, SettingUp

LEMMA BringingNone ==
  ASSUME NEW t, job'[t].pc \notin AtSamples \ {"sampled"}
  PROVE  Bringing(t)' /\ SettingUp(t)'
BY DEF Bringing, SettingUp, AtSamples, SetUps, OfSamples

LEMMA AppendingStays ==
  ASSUME AppendingTo, UNCHANGED <<samples, steps, wstate>>, job'["steps"] = job["steps"]
  PROVE  AppendingTo'
BY MarksStay DEF AppendingTo, UpToDate, Enough

LEMMA AppendingNone ==
  ASSUME ~Adding(job["steps"])'
  PROVE  AppendingTo'
BY DEF AppendingTo, Adding

(* The steps of others.                                                     *)
SourceWrites == \/ \E t \in {"steps", "admin"} : SamplingNext(t)
             \/ AppendSteps \/ CutValues \/ PutValues \/ CommitSteps

LEMMA ElseStays ==
  ASSUME Known, [Next]_vars
  PROVE  \/ SourceWrites
         \/ /\ UNCHANGED <<samples, steps>>
            /\ job'["steps"] = job["steps"] \/ (job'["steps"] = Idle /\ (job["steps"].pc = "end" \/ Loses))
            /\ job'["admin"] = job["admin"] \/ job'["admin"].pc \notin AtSamples
               \/ (job["admin"].pc = "sources" /\ job'["admin"].pc = "sample")
            /\ \/ wstate' = wstate
               \/ /\ wstate'.gen \in {0, parcels'.gen} /\ (job["steps"].pc = "idle" \/ Loses)
                  /\ \A t \in {"steps", "admin"} : job'[t].pc \notin AtSamples
                  /\ job'["steps"].pc = "idle" /\ (job'["admin"].pc = "sources" \/ parcels'.gen = 0 \/ Loses)
<1>0. \A pc : pc \notin AtSource => pc \notin AtSamples
  BY DEF AtSource
<1>1. CASE TileNext /\ UNCHANGED sourceVars
  BY <1>1, TileBeside, <1>0 DEF Known, StatsInv, BesideSource, sourceVars, sourceStore
<1>2. CASE SourceNext
  <2>1. CASE CreateWeather \/ DescribeSource \/ RegisterSource \/ SampleParcels
    <3>1. UNCHANGED <<samples, steps, wstate>>
      BY <2>1 DEF CreateWeather, DescribeSource, RegisterSource, SampleParcels, sourceVars, sourceStore
    <3>2. \E pc : Goto("admin", pc) /\ (pc \in {"describeSource", "registerSource", "openSource", "end"}
                                         \/ (job["admin"].pc = "sources" /\ pc = "sample"))
      BY <2>1 DEF CreateWeather, DescribeSource, RegisterSource, SampleParcels, At
    <3>3. PICK pc : Goto("admin", pc) /\ (pc \in {"describeSource", "registerSource", "openSource", "end"}
                                           \/ (job["admin"].pc = "sources" /\ pc = "sample"))
      BY <3>2
    <3>4. job'["admin"].pc = pc /\ job'["steps"] = job["steps"]
      BY <3>3, GotoIs, CoreTypes
    <3> QED
      BY <3>1, <3>3, <3>4 DEF AtSamples, SetUps, OfSamples
  <2>2. CASE OpenSource
    BY <2>2, GotoIs, CoreTypes, LoadedSamples DEF OpenSource, sourceStore, At, Known, SamplesInv, AloneSource,
       AtSamples, SetUps, OfSamples
  <2>3. CASE RefreshSource \/ RefreshValues \/ RefreshSamples \/ RefreshSampleArrays
    BY <2>3 DEF RefreshSource, RefreshValues, RefreshSamples, RefreshSampleArrays, sourceStore
  <2> QED
    BY <1>2, <2>1, <2>2, <2>3 DEF SourceNext, SourceWrites, SamplingNext
<1>3. CASE ParcelsNext
  <2>1. UNCHANGED <<samples, steps, wstate>>
    BY <1>3 DEF ParcelsNext, sourceVars, sourceStore
  <2>2. CASE \E t \in Threads : End(t) \/ Fail(t)
    <3>0. PICK t \in Threads : End(t) \/ Fail(t)
      BY <2>2
    <3>1. Return(t) /\ (job[t].pc = "end" \/ Loses)
      <4>1. CASE End(t)
        BY <4>1 DEF End, At
      <4>2. CASE Fail(t)
        BY <4>2, LosesOne DEF Fail
      <4> QED
        BY <3>0, <4>1, <4>2
    <3>2. job'[t] = Idle /\ \A u \in Threads : u # t => job'[u] = job[u]
      BY <3>1, KnownTypes, ReturnIs
    <3>3. Idle.pc \notin AtSamples
      BY DEF Idle, AtSamples, SetUps, OfSamples
    <3> QED
      BY KnownTypes, <3>2, <3>3, CoreTypes, <3>1, <2>1
  <2>3. CASE PutParcels \/ MakeCurrent \/ LoadParcels \/ DropParcels
    BY <2>3, PutParcelsIs, PutStepsAre, CoreTypes, <2>1 DEF AtSamples, SetUps, OfSamples
  <2>4. CASE RefreshParcels \/ RefreshFails \/ \E found : RefreshBegins(found)
    BY <2>1, <2>4 DEF RefreshParcels, RefreshFails, RefreshBegins
  <2> QED
    BY <1>3, <2>2, <2>3, <2>4 DEF ParcelsNext
<1>4. CASE Restart
  BY <1>4, RestartIs, CoreTypes, LoadedSamples, KnownTypes DEF Restart, RestartSource, sourceStore, Idle,
     AtSamples, SetUps, OfSamples, Known, NoSource
<1>5. CASE UNCHANGED vars
  BY <1>5 DEF vars, sourceVars, sourceStore, parcelVars
<1> QED
  BY <1>1, <1>2, <1>3, <1>4, <1>5 DEF Next

(* The parcels there are do not change while samples are set up for them,   *)
(* nor ever, where there is one generation.                                 *)
LEMMA ParcelsChange ==
  ASSUME Known, Putting, [Next]_vars
  PROVE  /\ parcels' = parcels \/ Restart \/ (job["admin"].pc = "load" /\ parcels' = current /\ job'["admin"].pc = "dropParcels")
         /\ SingleSet /\ parcels.gen # 0 => parcels' = parcels
<1>1. parcels' = parcels \/ (Restart /\ parcels' = current)
      \/ (job["admin"].pc = "load" /\ parcels' = current /\ job'["admin"].pc = "dropParcels")
  BY AdminMoves, PutParcelsIs, PutStepsAre, RestartIs DEF AdminStays, AdminGoes, AdminReturns
<1>2. ASSUME SingleSet, parcels.gen # 0 PROVE current = parcels
  BY <1>2, KnownTypes DEF SingleSet, OneSet, Sets
<1> QED
  BY <1>1, <1>2

LEMMA SetUpStays ==
  ASSUME Known, SamplesKept, Putting, SourceControl, [Next]_vars, NEW t \in {"steps", "admin"}, job[t].pc \in SetUps
  PROVE  parcels' = parcels \/ Restart
<1>1. parcels.gen # 0
  BY DEF SamplesKept, SettingUp
<1>2. CASE Sequenced /\ SourceReady
  <2>1. job["admin"].pc # "load"
    <3>1. CASE t = "admin"
      BY <3>1 DEF SetUps
    <3>2. CASE t = "steps"
      BY <1>2, <3>2 DEF SourceReady, ToSources, Subroutines
    <3> QED
      BY <3>1, <3>2
  <2> QED
    BY <2>1, ParcelsChange
<1>3. CASE SingleSet
  BY <1>1, <1>3, ParcelsChange
<1> QED
  BY <1>2, <1>3 DEF SourceControl

LEMMA KeptElse ==
  ASSUME Known, SamplesKept, Putting, SourceControl, [Next]_vars, ~SourceWrites
  PROVE  SamplesKept'
<1>1. /\ UNCHANGED <<samples, steps>>
      /\ job'["steps"] = job["steps"] \/ (job'["steps"] = Idle /\ (job["steps"].pc = "end" \/ Loses))
      /\ job'["admin"] = job["admin"] \/ job'["admin"].pc \notin AtSamples
         \/ (job["admin"].pc = "sources" /\ job'["admin"].pc = "sample")
      /\ \/ wstate' = wstate
         \/ /\ \A t \in {"steps", "admin"} : job'[t].pc \notin AtSamples
            /\ job'["steps"].pc = "idle"
  BY ElseStays
<1>2. Idle.pc = "idle" /\ "idle" \notin AtSamples
  BY DEF Idle, AtSamples, SetUps, OfSamples
<1>3. MarksKept'
  BY <1>1, MarksStay DEF SamplesKept
<1>4. AppendingTo'
  <2>1. CASE job'["steps"].pc = "idle"
    BY <2>1, AppendingNone DEF Adding
  <2>2. CASE wstate' = wstate /\ job'["steps"] = job["steps"]
    BY <1>1, <2>2, AppendingStays DEF SamplesKept
  <2> QED
    BY <1>1, <1>2, <2>1, <2>2
<1>5. parcels.gen # 0 => parcels'.gen # 0 \/ Restart
  BY PuttingStep
<1>6. ASSUME NEW t \in {"steps", "admin"}, job'[t] = job[t], wstate' = wstate
      PROVE  Bringing(t)' /\ SettingUp(t)'
  <2>1. CASE Restart
    BY <1>2, <2>1, RestartIs, CoreTypes, BringingNone
  <2>2. CASE ~Restart
    <3>1. CASE job[t].pc \in SetUps
      BY <1>1, <1>5, <1>6, <2>2, <3>1, SetUpStays, BringingStays DEF SamplesKept
    <3>2. CASE job[t].pc \notin SetUps
      BY <1>1, <1>5, <1>6, <2>2, <3>2, BringingStays DEF SamplesKept
    <3> QED
      BY <3>1, <3>2
  <2> QED
    BY <2>1, <2>2
<1>7. ASSUME NEW t \in {"steps", "admin"} PROVE Bringing(t)' /\ SettingUp(t)'
  <2>1. CASE job'[t].pc \notin AtSamples
    BY <2>1, BringingNone
  <2>2. CASE job'[t] = job[t] /\ wstate' = wstate
    BY <1>6, <2>2
  <2>3. CASE t = "admin" /\ job["admin"].pc = "sources" /\ job'["admin"].pc = "sample"
    <3>1. parcels'.gen # 0
      BY <1>2, <2>3, RestartIs, CoreTypes, <1>5 DEF Putting
    <3> QED
      BY <2>3, <3>1 DEF Bringing, SettingUp, SetUps, OfSamples
  <2> QED
    BY <1>1, <1>2, <2>1, <2>2, <2>3
<1> QED
  BY <1>3, <1>4, <1>7 DEF SamplesKept

(* Where a put of parcels leads from on its way to the sources.             *)
LEMMA ToSourcesLeads ==
  ASSUME Known, AdminGoes, ToSources, lock["source"] = "steps", wstate.open
  PROVE  ToSources'
BY DEF ToSources, AdminGoes, Creates, AtSamples, SetUps, OfSamples, Subroutines

LEMMA ReadyingLeads ==
  ASSUME Known, AdminGoes, Readying
  PROVE  \/ Readying'
         \/ job'["admin"].pc = "end" /\ ~wstate.open /\ wstate' = wstate
         \/ job["admin"].pc \in {"sample", "setUpDone"} /\ job'["admin"].pc = "sampling"
<1>1. CASE job["admin"].pc \in {"tiles"} \cup Subroutines /\ job["admin"].next = "sources"
  BY <1>1 DEF AdminGoes, Creates, AtSamples, SetUps, OfSamples, Subroutines, Readying, ToSources
<1>2. CASE job["admin"].pc = "sources"
  BY <1>2 DEF AdminGoes, Creates, AtSamples, SetUps, OfSamples, Subroutines, Readying
<1>3. CASE job["admin"].pc \in SetUps \cup {"sample"}
  BY <1>3 DEF AdminGoes, Creates, AtSamples, SetUps, OfSamples, Subroutines, Readying
<1>4. job["admin"].pc # "dropParcels"
  BY AdminGoesOn
<1> QED
  BY <1>1, <1>2, <1>3, <1>4 DEF Readying, ToSources

LEMMA ControlElse ==
  ASSUME Known, SamplesKept, Putting, SourceControl, [Next]_vars, ~SourceWrites
  PROVE  SourceControl'
<1>1. /\ UNCHANGED <<samples, steps>>
      /\ job'["steps"] = job["steps"] \/ (job'["steps"] = Idle /\ (job["steps"].pc = "end" \/ Loses))
      /\ \/ wstate' = wstate
         \/ /\ wstate'.gen \in {0, parcels'.gen} /\ (job["steps"].pc = "idle" \/ Loses)
            /\ job'["steps"].pc = "idle" /\ (job'["admin"].pc = "sources" \/ parcels'.gen = 0 \/ Loses)
  BY ElseStays
<1>2. CASE SingleSet /\ SourceOfOne
  BY <1>2, SingleSetStep, ParcelsChange, CoreTypes, <1>1, MarksStay DEF SourceOfOne, SourceControl
<1>3. CASE Sequenced /\ SourceReady
  <2>1. Sequenced' /\ ~Loses /\ ~Restart
    BY <1>3, SequencedStep, RestartIs DEF Sequenced, Loses
  <2>2. ~Adding(job["steps"])' => NoneMarked'
    BY <1>1, <2>1, <1>3, MarksStay DEF Adding, SourceReady, NoneMarked
  <2>3. job["steps"].pc # "idle" => lock["source"] = "steps" /\ wstate.open
    BY DEF Known, SamplesInv, AloneSource
  <2>4. CASE AdminStays
    <3>1. UNCHANGED <<parcels, current>> /\ job'["admin"] = job["admin"]
      BY <2>4 DEF AdminStays
    <3>2. (ToSources' <=> ToSources) /\ (Readying' <=> Readying)
      BY <3>1 DEF ToSources, Readying
    <3>3. job'["steps"].pc \in SetUps => ToSources'
      BY <1>1, <1>3, <2>1, <3>2 DEF SourceReady, Idle, SetUps
    <3>4. wstate'.open /\ parcels'.gen # 0 /\ ~Readying' => samples'[parcels'.gen].at = "ready"
      BY <1>1, <2>1, <3>1, <1>3, <3>2 DEF Readying, ToSources, SourceReady
    <3> QED
      BY <2>1, <2>2, <3>3, <3>4 DEF SourceReady, SourceControl
  <2>5. CASE AdminGoes
    <3>1. UNCHANGED <<parcels, current>>
      BY <2>5 DEF AdminGoes
    <3>2. job'["steps"].pc \in SetUps => ToSources'
      <4> SUFFICES ASSUME job'["steps"].pc \in SetUps PROVE ToSources'
        OBVIOUS
      <4>1. job["steps"].pc \in SetUps /\ job["steps"].pc # "idle"
        BY <1>1, <2>1 DEF Idle, SetUps
      <4>2. ToSources /\ lock["source"] = "steps" /\ wstate.open
        BY <1>3, <2>3, <4>1 DEF SourceReady
      <4> QED
        BY <2>5, <4>2, ToSourcesLeads
    <3>3. wstate'.open /\ parcels'.gen # 0 /\ ~Readying' => samples'[parcels'.gen].at = "ready"
      <4> SUFFICES ASSUME wstate'.open, parcels'.gen # 0, ~Readying' PROVE samples'[parcels'.gen].at = "ready"
        OBVIOUS
      <4>1. wstate' = wstate
        BY <1>1, <2>1 DEF Readying, ToSources
      <4>2. job["admin"].pc \notin {"sample", "setUpDone"} \/ job'["admin"].pc # "sampling"
        BY ElseStays DEF AtSamples, SetUps, OfSamples
      <4>3. ~Readying
        BY <2>5, <4>1, <4>2, ReadyingLeads
      <4> QED
        BY <1>1, <1>3, <3>1, <4>1, <4>3 DEF SourceReady
    <3> QED
      BY <2>1, <2>2, <3>2, <3>3 DEF SourceReady, SourceControl
  <2>6. ASSUME ~ToSources \/ ToSources', Readying' \/ (~Readying /\ parcels' = parcels)
        PROVE  SourceControl'
    <3>1. job'["steps"].pc \in SetUps => ToSources'
      BY <1>1, <1>3, <2>1, <2>6 DEF SourceReady, Idle, SetUps
    <3>2. wstate'.open /\ parcels'.gen # 0 /\ ~Readying' => samples'[parcels'.gen].at = "ready"
      BY <1>1, <2>1, <1>3, <2>6 DEF Readying, ToSources, SourceReady
    <3> QED
      BY <2>1, <2>2, <3>1, <3>2 DEF SourceReady, SourceControl
  <2>7. CASE AdminReturns
    BY <2>1, <2>7, <2>6 DEF AdminReturns, ToSources, Readying, Subroutines, SetUps
  <2>8. CASE PutParcels
    BY <2>8, PutParcelsIs, <2>6 DEF ToSources, Readying, Subroutines, SetUps
  <2>9. CASE MakeCurrent \/ LoadParcels \/ DropParcels
    BY <2>9, PutStepsAre, <2>6 DEF Putting, ToSources, Readying, Subroutines, SetUps
  <2> QED
    BY <2>1, <2>4, <2>5, <2>7, <2>8, <2>9, AdminMoves
<1> QED
  BY <1>2, <1>3 DEF SourceControl
-----------------------------------------------------------------------------
(* A goroutine that samples.  Nobody else is at the source.                 *)
LEMMA SamplingKeeps ==
  ASSUME Known, NEW t \in {"steps", "admin"}, SamplingNext(t)
  PROVE  /\ UNCHANGED <<steps, parcels, current, left>> /\ wstate' \in {wstate, LoadedSource(parcels)}
         /\ \A u \in {"steps", "admin"} : u # t => Bringing(u)' /\ SettingUp(u)' /\ job'[u] = job[u]
         /\ t = "admin" => AppendingTo' /\ ~Adding(job["steps"]) /\ ~Adding(job["steps"])'
                           /\ job["steps"].pc = "idle" /\ job'["steps"].pc = "idle"
         /\ t = "steps" => job["admin"].pc \notin AtSamples
BY SamplingAlone, BringingNone, AppendingNone DEF Known, StatsInv, Adding, SetsStay

(* What it marks, and whose samples become ready or no longer are.          *)
MarksStayOf == \A g \in Gens : Marked(g)' => Marked(g) /\ samples'[g].at = samples[g].at
AtStays == \A g \in Gens : samples'[g].at = samples[g].at

LEMMA KeptSetUp ==
  ASSUME Known, SamplesKept, NEW t \in {"steps", "admin"},
         DeleteSamples(t) \/ MakeSamples(t) \/ ReadySamples(t) \/ DropSamples(t)
  PROVE  SamplesKept' /\ MarksStayOf
<1> DEFINE h == job[t].set.gen
<1>1. /\ job[t].pc \in SetUps /\ SamplingNext(t) /\ wstate' = wstate
      /\ UNCHANGED <<parcels, steps>>
  BY DEF DeleteSamples, MakeSamples, ReadySamples, DropSamples, SamplingNext, At, SetUps
<1>2. h \in Gens /\ job[t].set = parcels /\ parcels.gen # 0 /\ steps \in Nat
  BY <1>1, CoreTypes DEF SamplesKept, SettingUp
<1>3. NoSamples.steps = 0 /\ NoSamples.at = "none" /\ \A v \in Vars : Len(NoSamples.of[v]) = 0
  BY DEF NoSamples, NoRows
<1>4. /\ samples \in [Gens -> Sampled]
      /\ \A g \in Gens : DOMAIN samples[g] = {"at", "steps", "of"}
  BY CoreTypes DEF Sampled
<1>5. PICK pc \in SetUps : Goto(t, pc) /\ pc # "setUp"
          /\ (pc = "makeSamples" <=> DeleteSamples(t)) /\ (pc = "dropSamples" <=> ReadySamples(t))
          /\ (pc = "setUpDone" <=> DropSamples(t))
  <2>1. CASE DeleteSamples(t)
    BY <2>1 DEF DeleteSamples, MakeSamples, ReadySamples, DropSamples, SetUps, At
  <2>2. CASE MakeSamples(t)
    BY <2>2 DEF DeleteSamples, MakeSamples, ReadySamples, DropSamples, SetUps, At
  <2>3. CASE ReadySamples(t)
    BY <2>3 DEF DeleteSamples, MakeSamples, ReadySamples, DropSamples, SetUps, At
  <2>4. CASE DropSamples(t)
    BY <2>4 DEF DeleteSamples, MakeSamples, ReadySamples, DropSamples, SetUps, At
  <2> QED
    BY <2>1, <2>2, <2>3, <2>4
<1>6. job'[t].pc = pc /\ job'[t].k = 1 /\ job'[t].set = job[t].set
  BY <1>5, GotoIs, CoreTypes
<1> HIDE DEF h
<1>7. ASSUME NEW g \in Gens
      PROVE  \/ samples'[g] = NoSamples /\ (g = h => DeleteSamples(t))
             \/ /\ samples'[g].steps = samples[g].steps /\ samples'[g].of = samples[g].of
                /\ \/ samples'[g].at = samples[g].at /\ (g = h => DropSamples(t))
                   \/ g = h /\ samples[g].steps = 0 /\ (ReadySamples(t) => samples'[g].at = "ready")
                      /\ (MakeSamples(t) \/ ReadySamples(t))
  <2>1. CASE DeleteSamples(t)
    BY <2>1, <1>2, <1>4 DEF DeleteSamples, h
  <2>2. CASE MakeSamples(t) \/ ReadySamples(t)
    <3>1. \E at : samples' = [samples EXCEPT ![h].at = at] /\ (ReadySamples(t) => at = "ready")
      BY <2>2 DEF MakeSamples, ReadySamples, h, At
    <3>2. samples[h].steps = 0
      BY <2>2 DEF MakeSamples, ReadySamples, At, SetUps, SamplesKept, SettingUp, h
    <3> QED
      BY <1>2, <1>4, <2>2, <3>1, <3>2
  <2>3. CASE DropSamples(t)
    BY <2>3, <1>4 DEF DropSamples, Stays, h
  <2> QED
    BY <2>1, <2>2, <2>3
<1>8. MarksKept /\ SettingUp(t)
  BY DEF SamplesKept
<1>9. MarksKept'
  <2>1. ASSUME NEW g \in Gens
        PROVE  Enough(g, Min(samples[g].steps, steps))' /\ (samples'[g].at # "ready" => samples'[g].steps = 0)
    <3>1. CASE samples'[g] = NoSamples
      BY <1>1, <1>2, <1>3, <3>1 DEF Enough, Min
    <3>2. CASE samples'[g] # NoSamples
      BY <1>1, <1>7, <1>8, <3>2 DEF MarksKept, Enough
    <3> QED
      BY <3>1, <3>2
  <2> QED
    BY <2>1 DEF MarksKept
<1>10. MarksStayOf
  <2>1. ASSUME NEW g \in Gens, Marked(g)' PROVE Marked(g) /\ samples'[g].at = samples[g].at
    BY <1>1, <1>2, <1>3, <1>7, <2>1 DEF Marked
  <2> QED
    BY <2>1 DEF MarksStayOf
<1>11. Bringing(t)'
  BY <1>6 DEF Bringing, SetUps, OfSamples
<1>12. SettingUp(t)'
  <2>1. samples'[h].steps = 0
    <3>1. CASE DeleteSamples(t)
      BY <3>1, <1>2, <1>3, <1>4 DEF DeleteSamples, h
    <3>2. CASE ~DeleteSamples(t)
      BY <3>2, <1>8, <1>2, <1>7 DEF MakeSamples, ReadySamples, DropSamples, At, SetUps, SettingUp, h
    <3> QED
      BY <3>1, <3>2
  <2>2. pc = "dropSamples" => samples'[h].at = "ready"
    <3> SUFFICES ASSUME ReadySamples(t) PROVE samples'[h].at = "ready"
      BY <1>5
    <3>1. ~DeleteSamples(t) /\ ~DropSamples(t)
      BY DEF ReadySamples, DeleteSamples, DropSamples, At
    <3> QED
      BY <1>2, <1>7, <3>1
  <2>3. pc = "setUpDone" => samples'[h].at = "ready"
    <3> SUFFICES ASSUME DropSamples(t) PROVE samples'[h].at = "ready"
      BY <1>5
    <3>1. samples[h].at = "ready" /\ ~DeleteSamples(t) /\ ~MakeSamples(t) /\ ~ReadySamples(t)
      BY <1>8 DEF DropSamples, DeleteSamples, MakeSamples, ReadySamples, At, SettingUp, h
    <3> QED
      BY <1>2, <1>7, <3>1
  <2> QED
    BY <1>1, <1>2, <1>6, <2>1, <2>2, <2>3 DEF SettingUp, h
<1>13. AppendingTo'
  <2>1. CASE t = "steps"
    BY <1>6, <2>1, AppendingNone DEF Adding, SetUps
  <2>2. CASE t = "admin"
    BY <1>1, <2>2, SamplingKeeps
  <2> QED
    BY <2>1, <2>2
<1> QED
  BY <1>1, <1>9, <1>10, <1>11, <1>12, <1>13, SamplingKeeps DEF SamplesKept

(* Where the samples stay as they are.                                      *)
LEMMA LoadedFor ==
  ASSUME Known, parcels.gen # 0
  PROVE  LET s == LoadedSource(parcels) IN
         /\ s.steps = steps /\ s.gen \in {0, parcels.gen}
         /\ s.gen = parcels.gen =>
              /\ s.gen # 0 /\ samples[s.gen].at = "ready" /\ s.pwSteps = Min(samples[s.gen].steps, steps)
         /\ samples[parcels.gen].at = "ready" => s.gen = parcels.gen
BY LoadedSamples, CoreTypes DEF Known

LEMMA KeptLoads ==
  ASSUME Known, SamplesKept, NEW t \in {"steps", "admin"}, Sample(t) \/ SetUpDone(t)
  PROVE  /\ SamplesKept' /\ samples' = samples /\ job'[t].pc \in {"setUp", "sampling"}
         /\ parcels.gen # 0 /\ (job'[t].pc = "sampling" <=> samples[parcels.gen].at = "ready")
<1> DEFINE s == LoadedSource(parcels)
<1>1. /\ UNCHANGED <<samples, steps>> /\ SamplingNext(t) /\ wstate' = s /\ job[t].pc \in {"sample", "setUpDone"}
  BY DEF Sample, SetUpDone, SamplingNext, sourceStore, At
<1>2. parcels.gen # 0 /\ MarksKept /\ Bringing(t) /\ SettingUp(t)
  BY <1>1 DEF SamplesKept, SettingUp, SetUps
<1>3. /\ s.steps = steps /\ s.gen \in {0, parcels.gen}
      /\ s.gen = parcels.gen =>
              /\ s.gen # 0 /\ samples[s.gen].at = "ready" /\ s.pwSteps = Min(samples[s.gen].steps, steps)
      /\ samples[parcels.gen].at = "ready" => s.gen = parcels.gen
  BY <1>2, LoadedFor
<1> HIDE DEF s
<1>4. /\ job'[t].k = 1 /\ job'[t].n = s.pwSteps /\ job'[t].set = parcels
      /\ job'[t].pc = (IF s.gen = parcels.gen THEN "sampling" ELSE "setUp")
  <2>1. CASE Sample(t)
    BY <1>1, <2>1, CoreTypes DEF Sample, Idle
  <2>2. CASE SetUpDone(t)
    BY <1>1, <2>2, CoreTypes, <1>2, <1>3 DEF SetUpDone, Idle, At, Bringing, SettingUp, SetUps
  <2> QED
    BY <2>1, <2>2
<1>5. MarksKept'
  BY <1>1, <1>2, MarksStay
<1>6. Bringing(t)'
  BY <1>1, <1>3, <1>4 DEF Bringing, SetUps, OfSamples
<1>7. SettingUp(t)'
  BY <1>1, <1>2, <1>4, SamplingKeeps DEF SettingUp, SetUps
<1>8. AppendingTo'
  <2>1. CASE t = "steps"
    BY <1>4, <2>1, AppendingNone DEF Adding
  <2>2. CASE t = "admin"
    BY <1>1, <2>2, SamplingKeeps
  <2> QED
    BY <2>1, <2>2
<1> QED
  BY <1>1, <1>2, <1>3, <1>4, <1>5, <1>6, <1>7, <1>8, SamplingKeeps DEF SamplesKept

LEMMA KeptSampling ==
  ASSUME Known, SamplesKept, NEW t \in {"steps", "admin"}, Sampling(t) \/ SamplingEnds(t)
  PROVE  SamplesKept' /\ samples' = samples /\ job'[t].pc \in {"cutSamples", "sampled", "end"} /\ ~Adding(job[t])
         /\ (job'[t].pc = "cutSamples" => job'[t].row = 0)
<1>1. UNCHANGED <<samples, steps>> /\ SamplingNext(t) /\ job[t].pc \in {"sampling", "sampled"}
  BY DEF Sampling, SamplingEnds, SamplingNext, sourceVars, sourceStore, At
<1>2. MarksKept /\ Bringing(t) /\ ~Adding(job[t])
  BY <1>1 DEF SamplesKept, Adding
<1>3. MarksKept'
  BY <1>1, <1>2, MarksStay
<1>4. CASE Sampling(t) /\ job[t].n < wstate.steps
  <2>1. wstate' = wstate /\ job[t].pc = "sampling" /\ \E n : job' = [job EXCEPT ![t].pc = "cutSamples", ![t].count = n]
    BY <1>4 DEF Sampling, sourceVars, At
  <2>2. job'[t].pc = "cutSamples" /\ job'[t].n = job[t].n /\ job'[t].k = job[t].k /\ job'[t].row = job[t].row
    BY <2>1, CoreTypes DEF Idle
  <2>3. job[t].row = 0
    BY <2>1 DEF Known, SourceInv, Stepping, SamplesInv, Amounts
  <2>4. \A v \in Vars : ~(v < 1)
    BY DEF Vars
  <2>5. Bringing(t)'
    BY <1>1, <1>2, <1>4, <2>1, <2>2, <2>3, <2>4 DEF Bringing, SetUps, OfSamples
  <2>6. SettingUp(t)'
    BY <2>2 DEF SettingUp, SetUps
  <2>7. AppendingTo'
    <3>1. CASE t = "steps"
      BY <2>2, <2>3, <3>1, AppendingNone DEF Adding
    <3>2. CASE t = "admin"
      BY <1>1, <3>2, SamplingKeeps
    <3> QED
      BY <3>1, <3>2
  <2> QED
    BY <1>1, <1>2, <1>3, <2>2, <2>3, <2>5, <2>6, <2>7, SamplingKeeps DEF SamplesKept
<1>5. CASE ~(Sampling(t) /\ job[t].n < wstate.steps)
  <2>1. \E pc \in {"sampled", "end"} : Goto(t, pc)
    BY <1>5 DEF Sampling, SamplingEnds
  <2>2. job'[t].pc \in {"sampled", "end"}
    BY <2>1, GotoIs, CoreTypes
  <2>3. Bringing(t)' /\ SettingUp(t)'
    BY <2>2, BringingNone DEF AtSamples, SetUps, OfSamples
  <2>4. AppendingTo'
    <3>1. CASE t = "steps"
      BY <2>2, <3>1, AppendingNone DEF Adding
    <3>2. CASE t = "admin"
      BY <1>1, <3>2, SamplingKeeps
    <3> QED
      BY <3>1, <3>2
  <2> QED
    BY <1>1, <1>2, <1>3, <2>2, <2>3, <2>4, SamplingKeeps DEF SamplesKept
<1> QED
  BY <1>4, <1>5

(* The arrays, and what is marked of them.                                  *)
LEMMA AtArrays ==
  ASSUME Known, SamplesKept, NEW t \in {"steps", "admin"}, job[t].pc \in OfSamples
  PROVE  /\ wstate.gen \in Gens /\ samples[wstate.gen].at = "ready"
         /\ job[t].row = 0 => job[t].n = Min(samples[wstate.gen].steps, steps) /\ job[t].n < steps
                              /\ job[t].n + job[t].count <= steps
         /\ job[t].row # 0 => t = "steps" /\ Adding(job["steps"]) /\ job[t].n = steps /\ UpToDate
         /\ Min(samples[wstate.gen].steps, steps) <= job[t].n
<1>1. wstate.gen # 0 /\ wstate.gen \in Gens
  BY CoreTypes DEF SamplesKept, Bringing
<1>2. CASE job[t].row = 0
  BY <1>2, BoundsTyped, <1>1, CoreTypes DEF SamplesKept, Bringing, Known, SamplesInv, Amounts, Amount, OfSamples
<1>3. CASE job[t].row # 0
  BY <1>3, <1>1, CoreTypes DEF Known, SamplesInv, Amounts, Adding, OfSamples, SourceInv, Stepping, SamplesKept,
     AppendingTo, SamplesInStep, Supplying, Min
<1> QED
  BY <1>2, <1>3

LEMMA KeptCut ==
  ASSUME Known, SamplesKept, NEW t \in {"steps", "admin"}, CutSamples(t)
  PROVE  SamplesKept' /\ MarksStayOf /\ AtStays /\ (~Adding(job[t])' => ~Adding(job[t])) /\ job'[t].pc = "putSamples"
<1> DEFINE g == wstate.gen
           k == job[t].k
           n == job[t].n
<1>1. /\ k \in Vars /\ UNCHANGED <<wstate, steps, values>> /\ SamplingNext(t)
      /\ job[t].pc = "cutSamples" /\ job'[t].pc = "putSamples" /\ job'[t].k = k
      /\ job'[t].n = n /\ job'[t].row = job[t].row /\ job'[t].count = job[t].count
      /\ Len(samples'[g].of[k]) = n /\ n <= Len(samples[g].of[k])
      /\ \A h \in Gens, v \in Vars : h # g \/ v # k => samples'[h].of[v] = samples[h].of[v]
      /\ \A h \in Gens : samples'[h].at = samples[h].at /\ samples'[h].steps = samples[h].steps
  BY CutSamplesIs DEF Known, StatsInv
<1>2. /\ g \in Gens /\ Min(samples[g].steps, steps) <= n /\ job[t].pc \in OfSamples
  BY <1>1, AtArrays DEF OfSamples
<1>3. MarksKept /\ Bringing(t) /\ AppendingTo
  BY DEF SamplesKept
<1> HIDE DEF g, k, n
<1>4. MarksKept'
  <2>1. ASSUME NEW h \in Gens, NEW v \in Vars PROVE Min(samples[h].steps, steps) <= Len(samples'[h].of[v])
    BY <1>1, <1>2, <1>3 DEF MarksKept, Enough
  <2> QED
    BY <1>1, <1>3, <2>1 DEF MarksKept, Enough
<1>5. Bringing(t)'
  BY <1>1, <1>3, <1>2 DEF Vars, Bringing, g, k, n, SetUps, OfSamples
<1>6. SettingUp(t)'
  BY <1>1 DEF SettingUp, SetUps
<1>7. Adding(job[t])' <=> Adding(job[t])
  BY <1>1 DEF Adding
<1>8. AppendingTo'
  <2>1. CASE t = "steps"
    BY <1>1, <1>2, <1>3, <1>7, <2>1 DEF AppendingTo, Marked, UpToDate
  <2>2. CASE t = "admin"
    BY <1>1, <2>2, SamplingKeeps
  <2> QED
    BY <2>1, <2>2
<1>9. MarksStayOf /\ AtStays
  BY <1>1 DEF MarksStayOf, AtStays, Marked
<1> QED
  BY <1>1, <1>4, <1>5, <1>6, <1>7, <1>8, <1>9, SamplingKeeps DEF SamplesKept

LEMMA KeptPut ==
  ASSUME Known, SamplesKept, NEW t \in {"steps", "admin"}, PutSamples(t)
  PROVE  /\ SamplesKept' /\ MarksStayOf /\ AtStays /\ (~Adding(job[t])' => ~Adding(job[t]))
         /\ job'[t].pc \in {"cutSamples", "markSamples"}
<1> DEFINE g == wstate.gen
           k == job[t].k
           n == job[t].n
           c == job[t].count
<1>1. /\ k \in Vars /\ UNCHANGED <<wstate, steps, values>> /\ SamplingNext(t)
      /\ job[t].pc = "putSamples"
  BY PutSamplesIs DEF Known, StatsInv
<1>2. /\ g \in Gens /\ Min(samples[g].steps, steps) <= n /\ job[t].pc \in OfSamples /\ g # 0
  BY <1>1, AtArrays, CoreTypes DEF OfSamples
<1>3. /\ job'[t].n = n /\ job'[t].row = job[t].row /\ job'[t].count = c
      /\ \/ job'[t].pc = "cutSamples" /\ job'[t].k = k + 1
         \/ job'[t].pc = "markSamples" /\ k = NVars
      /\ Len(samples[g].of[k]) = n /\ Len(samples'[g].of[k]) = n + c
      /\ \A h \in Gens, v \in Vars : h # g \/ v # k => samples'[h].of[v] = samples[h].of[v]
      /\ \A h \in Gens : samples'[h].at = samples[h].at /\ samples'[h].steps = samples[h].steps
  BY <1>2, PutSamplesIs DEF Known, StatsInv
<1>4. MarksKept /\ Bringing(t) /\ AppendingTo
  BY DEF SamplesKept
<1>5. n \in Nat /\ c \in Nat /\ Min(samples[g].steps, steps) \in Nat
  BY <1>2, CoreTypes DEF Min
<1> HIDE DEF g, k, n, c
<1>6. MarksKept'
  <2>1. ASSUME NEW h \in Gens, NEW v \in Vars PROVE Min(samples[h].steps, steps) <= Len(samples'[h].of[v])
    <3>1. CASE h = g /\ v = k
      BY <1>2, <1>3, <1>5, <3>1
    <3>2. CASE ~(h = g /\ v = k)
      BY <1>3, <1>4, <3>2 DEF MarksKept, Enough
    <3> QED
      BY <3>1, <3>2
  <2> QED
    BY <1>1, <1>3, <1>4, <2>1 DEF MarksKept, Enough
<1>7. \A v \in Vars : v < k + 1 => n + c <= Len(samples'[g].of[v])
  <2>1. \A v \in Vars : v < k + 1 => v < k \/ v = k
    BY <1>1 DEF Vars
  <2>2. \A v \in Vars : v < k => v # k
    BY <1>1 DEF Vars
  <2>3. \A v \in Vars : v < k => n + c <= Len(samples[g].of[v])
    BY <1>1, <1>4 DEF Bringing, g, k, n, c
  <2>4. n + c <= Len(samples'[g].of[k])
    BY <1>3, <1>5
  <2> QED
    BY <1>2, <1>3, <2>1, <2>2, <2>3, <2>4
<1>8. Bringing(t)'
  <2>1. job'[t].pc \in OfSamples /\ job'[t].pc # "sampling"
    BY <1>3 DEF OfSamples
  <2>2. job'[t].row = 0 => /\ samples'[g].at = "ready" /\ wstate'.steps = steps'
                           /\ job'[t].n = Min(samples'[g].steps, steps') /\ job'[t].n < steps'
    BY <1>1, <1>2, <1>3, <1>4 DEF Bringing, g, n
  <2>3. CASE job'[t].pc = "cutSamples" /\ job'[t].k = k + 1
    BY <1>1, <1>2, <1>3, <1>7, <2>1, <2>2, <2>3 DEF Bringing, SetUps, OfSamples, g
  <2>4. CASE job'[t].pc = "markSamples" /\ k = NVars
    BY <2>4, SourceTypes, <1>1, <1>3, <1>7, <1>2, <2>1, <2>2 DEF Vars, Known, Enough, g, n, c, Bringing, SetUps,
       OfSamples
  <2> QED
    BY <1>3, <2>3, <2>4
<1>9. SettingUp(t)'
  BY <1>3 DEF SettingUp, SetUps
<1>10. Adding(job[t])' <=> Adding(job[t])
  BY <1>1, <1>3 DEF Adding
<1>11. AppendingTo'
  <2>1. CASE t = "steps"
    BY <1>1, <1>2, <1>3, <1>4, <1>10, <2>1 DEF AppendingTo, Marked, UpToDate
  <2>2. CASE t = "admin"
    BY <1>1, <2>2, SamplingKeeps
  <2> QED
    BY <2>1, <2>2
<1>12. MarksStayOf /\ AtStays
  BY <1>1, <1>3 DEF MarksStayOf, AtStays, Marked
<1> QED
  BY <1>1, <1>3, <1>6, <1>8, <1>9, <1>10, <1>11, <1>12, SamplingKeeps DEF SamplesKept

LEMMA KeptMark ==
  ASSUME Known, SamplesKept, NEW t \in {"steps", "admin"}, MarkSamples(t)
  PROVE  /\ SamplesKept' /\ AtStays /\ (~Adding(job[t])' => ~Adding(job[t])) /\ job'[t].pc \in {"commit", "sampling"}
         /\ samples[wstate.gen].at = "ready" /\ wstate.gen # 0
         /\ \A g \in Gens : Marked(g)' => Marked(g) \/ g = wstate.gen
         /\ ~Adding(job[t]) => MarksStayOf
<1> DEFINE g == wstate.gen
           n == job[t].n
           c == job[t].count
           x == job[t].row
<1>1. /\ job[t].pc = "markSamples" /\ samples' = [samples EXCEPT ![g].steps = n + c]
      /\ IF x # 0 THEN Goto(t, "commit") ELSE job' = [job EXCEPT ![t].pc = "sampling", ![t].n = n + c, ![t].k = 1]
      /\ UNCHANGED <<wstate, steps>> /\ SamplingNext(t)
  BY DEF MarkSamples, SamplingNext, At
<1>2. /\ g \in Gens /\ g # 0 /\ samples[g].at = "ready" /\ job[t].pc \in OfSamples
      /\ x = 0 => n = Min(samples[g].steps, steps) /\ n + c <= steps
      /\ x # 0 => t = "steps" /\ Adding(job["steps"]) /\ n = steps /\ UpToDate
  BY <1>1, AtArrays, CoreTypes DEF OfSamples
<1>3. /\ DOMAIN job = Threads /\ DOMAIN job[t] = DOMAIN Idle /\ t \in Threads
      /\ n \in Nat /\ c \in Nat /\ steps \in Nat
  BY CoreTypes
<1>4. /\ x # 0 => job'[t].pc = "commit" /\ job'[t].row = x /\ job'[t].count = c
      /\ x = 0 => job'[t].pc = "sampling" /\ job'[t].k = 1 /\ job'[t].n = n + c
  BY <1>1, <1>3 DEF Goto, Idle
<1>5. /\ \A h \in Gens : samples'[h].of = samples[h].of /\ samples'[h].at = samples[h].at
      /\ \A h \in Gens : samples'[h].steps = IF h = g THEN n + c ELSE samples[h].steps
  <2>1. samples \in [Gens -> Sampled]
    BY CoreTypes
  <2> HIDE DEF g, n, c
  <2> QED
    BY <1>1, <2>1 DEF Sampled
<1>6. MarksKept /\ Bringing(t) /\ AppendingTo /\ Enough(g, n + c)
  BY <1>1 DEF SamplesKept, Bringing
<1> HIDE DEF g, n, c, x
<1>7. MarksKept'
  <2>1. ASSUME NEW h \in Gens, NEW v \in Vars PROVE Min(samples'[h].steps, steps) <= Len(samples'[h].of[v])
    <3>1. CASE h = g
      BY <1>2, <1>6, CoreTypes, <1>3, <1>5, <3>1 DEF Enough, Min
    <3>2. CASE h # g
      BY <1>5, <1>6, <3>2 DEF MarksKept, Enough
    <3> QED
      BY <3>1, <3>2
  <2> QED
    BY <1>1, <1>2, <1>5, <1>6, <2>1 DEF MarksKept, Enough
<1>8. \A h \in Gens : h # g => (Marked(h)' <=> Marked(h))
  BY <1>1, <1>5 DEF Marked
<1>9. SettingUp(t)'
  BY <1>4 DEF SettingUp, SetUps
<1>10. CASE x = 0
  <2>1. \A h \in Gens : h = g => ~Marked(h)'
    BY <1>1, <1>2, <1>3, <1>5, <1>10 DEF Marked
  <2>2. n + c = Min(samples'[g].steps, steps)
    BY <1>2, <1>3, <1>5, <1>10 DEF Min
  <2>3. Bringing(t)'
    BY <1>1, <1>2, <1>6, <1>10, <1>4, <1>5, <2>2 DEF Bringing, x, SetUps, OfSamples, g
  <2>4. ~Adding(job[t])' /\ ~Adding(job[t])
    BY <1>1, <1>4, <1>10 DEF Adding, x
  <2>5. AppendingTo'
    <3>1. CASE t = "steps"
      BY <2>4, <3>1, AppendingNone
    <3>2. CASE t = "admin"
      BY <1>1, <3>2, SamplingKeeps
    <3> QED
      BY <3>1, <3>2
  <2>6. MarksStayOf
    BY <1>5, <1>8, <2>1 DEF MarksStayOf
  <2> QED
    BY <1>1, <1>2, <1>4, <1>5, <1>7, <1>8, <1>9, <1>10, <2>3, <2>4, <2>5, <2>6, SamplingKeeps DEF SamplesKept, AtStays, g
<1>11. CASE x # 0
  <2>1. t = "steps" /\ Adding(job["steps"]) /\ n = steps /\ UpToDate
    BY <1>2, <1>11
  <2>2. Adding(job["steps"])' /\ job'["steps"].pc = "commit"
    BY <1>4, <1>11, <2>1 DEF Adding
  <2>3. \A h \in Gens : Marked(h)' => h = g
    BY <1>6, <1>8, <2>1 DEF AppendingTo, g
  <2>4. UpToDate' /\ g = wstate'.gen
    BY <1>1, <2>1 DEF UpToDate, g
  <2>5. \A v \in Vars : steps + c <= Len(samples'[g].of[v])
    BY <1>2, <1>5, <1>6, <2>1 DEF Enough
  <2>6. AppendingTo'
    BY <1>1, <1>4, <1>5, <1>11, <2>1, <2>3, <2>4, <2>5, <2>2 DEF AppendingTo, OfSamples, Enough
  <2>7. Bringing(t)'
    BY <2>1, <2>2 DEF Bringing, SetUps, OfSamples
  <2> QED
    BY <1>1, <1>2, <1>4, <1>5, <1>7, <1>8, <1>9, <1>11, <2>1, <2>2, <2>6, <2>7, SamplingKeeps DEF SamplesKept, AtStays, g
<1> QED
  BY <1>10, <1>11
-----------------------------------------------------------------------------
(* Append.  Only who holds the lock adds, so nobody samples.                *)
LEMMA AddingAlone ==
  ASSUME Known, AppendSteps \/ CutValues \/ PutValues \/ CommitSteps
  PROVE  /\ job'["admin"] = job["admin"] /\ job["admin"].pc \notin AtSamples
         /\ Bringing("admin")' /\ SettingUp("admin")'
         /\ UNCHANGED <<samples, current, parcels, left>>
BY KnownTypes, NextArrayMoves, BringingNone DEF AppendSteps, CutValues, PutValues, CommitSteps, sourceStore, At,
   Known, SamplesInv, AloneSource, Threads, Moves, StatsInv

LEMMA KeptAppend ==
  ASSUME Known, SamplesKept, SourceControl, AppendSteps
  PROVE  SamplesKept' /\ wstate' = LoadedSource(parcels) /\ Adding(job["steps"])' /\ job["steps"].pc = "idle"
         /\ UNCHANGED steps
<1> DEFINE s == LoadedSource(parcels)
<1>1. job["steps"].pc = "idle" /\ wstate' = s /\ UNCHANGED <<steps, samples>>
  BY DEF AppendSteps, At, sourceStore
<1>2. PICK j : job' = [job EXCEPT !["steps"] = j] /\ j.pc = "cutValues"
  <2>1. PICK x \in Values, n \in 1 .. MaxAppend :
        job' = [job EXCEPT !["steps"] = [Idle EXCEPT !.pc = "cutValues", !.n = s.steps, !.row = x, !.count = n]]
    BY <1>1 DEF AppendSteps
  <2> DEFINE h == [Idle EXCEPT !.pc = "cutValues", !.n = s.steps, !.row = x, !.count = n]
  <2>2. h.pc = "cutValues"
    BY DEF Idle
  <2>3. job' = [job EXCEPT !["steps"] = h]
    BY <2>1
  <2> HIDE DEF h
  <2> QED
    BY <2>2, <2>3
<1>3. job'["steps"].pc = "cutValues" /\ ~Adding(job["steps"])
  BY <1>1, <1>2, CoreTypes DEF Adding
<1>4. /\ s.gen \in {0, parcels.gen} /\ s.steps = steps
      /\ parcels.gen # 0 /\ samples[parcels.gen].at = "ready" =>
           s.gen = parcels.gen /\ s.pwSteps = Min(samples[parcels.gen].steps, steps)
  BY LoadedSamples, CoreTypes DEF Known
<1> HIDE DEF s
<1>5. ASSUME NEW g \in Gens, Marked(g) PROVE g = s.gen /\ s.gen # 0 /\ s.pwSteps = s.steps
  BY <1>3, <1>5, CoreTypes, <1>4 DEF SourceControl, SourceReady, SourceOfOne, NoneMarked, Marked, Min
<1>6. AppendingTo'
  BY <1>1, <1>5, MarksStay, <1>3 DEF UpToDate, AppendingTo, OfSamples
<1>7. Bringing("steps")' /\ SettingUp("steps")'
  BY <1>3, BringingNone DEF AtSamples, SetUps, OfSamples
<1> QED
  BY <1>1, <1>3, <1>6, <1>7, AddingAlone, MarksStay DEF SamplesKept, Adding, s

LEMMA KeptValues ==
  ASSUME Known, SamplesKept, CutValues \/ PutValues
  PROVE  SamplesKept' /\ UNCHANGED <<wstate, steps>> /\ Adding(job["steps"]) /\ Adding(job["steps"])'
         /\ job'["steps"].pc \notin SetUps
<1>0. NVars \in Nat /\ DOMAIN job = Threads /\ DOMAIN job["steps"] = DOMAIN Idle /\ "steps" \in Threads
      /\ (\A v \in Vars : ~(v < 1))
  BY CoreTypes, SourceTypes DEF Known, Vars
<1>1. /\ UNCHANGED <<wstate, samples, steps>> /\ job["steps"].pc \in {"cutValues", "putValues"}
  BY DEF CutValues, PutValues, At
<1>2. Adding(job["steps"]) /\ job["steps"].row \in Values /\ 0 \notin Values
      /\ job["steps"].n = steps
  BY <1>1, SourceTypes DEF Known, SourceInv, Stepping, Adding
<1>3. /\ job'["steps"].row = job["steps"].row /\ job'["steps"].n = job["steps"].n
      /\ job'["steps"].count = job["steps"].count
      /\ \/ job'["steps"].pc \in {"cutValues", "putValues"}
         \/ job'["steps"].pc = "cutSamples" /\ job'["steps"].k = 1 /\ UpToDate
         \/ job'["steps"].pc = "commit" /\ ~UpToDate
  <2>1. CASE CutValues
    BY <2>1, <1>0 DEF CutValues, Idle
  <2>2. CASE PutValues
    <3>1. NextArray("steps", "cutValues", IF UpToDate THEN "cutSamples" ELSE "commit")
      BY <2>2 DEF PutValues
    <3>2. CASE job["steps"].k < NVars
      BY <3>1, <3>2, <1>0 DEF NextArray, Idle
    <3>3. CASE ~(job["steps"].k < NVars)
      <4>1. PICK pc : Goto("steps", pc) /\ pc = (IF UpToDate THEN "cutSamples" ELSE "commit")
        BY <3>1, <3>3 DEF NextArray
      <4>2. /\ job'["steps"].row = job["steps"].row /\ job'["steps"].n = job["steps"].n
            /\ job'["steps"].count = job["steps"].count /\ job'["steps"].pc = pc /\ job'["steps"].k = 1
        BY <1>0, <4>1 DEF Idle, Goto
      <4> QED
        BY <4>1, <4>2
    <3> QED
      BY <3>2, <3>3
  <2> QED
    BY <2>1, <2>2
<1>4. Adding(job["steps"])'
  BY <1>2, <1>3 DEF Adding
<1>5. \A g \in Gens : Marked(g)' => g = wstate'.gen /\ UpToDate'
  BY <1>1, <1>2, MarksStay DEF SamplesKept, AppendingTo, UpToDate
<1>6. UpToDate' <=> UpToDate
  BY <1>1 DEF UpToDate
<1>7. AppendingTo'
  BY <1>3, <1>6, <1>5 DEF OfSamples, AppendingTo
<1>8. Bringing("steps")'
  <2>1. CASE job'["steps"].pc = "cutSamples" /\ job'["steps"].k = 1 /\ UpToDate
    BY <1>1, <2>1, <1>0, <1>2, <1>3 DEF UpToDate, Bringing, SetUps, OfSamples
  <2>2. CASE job'["steps"].pc \in {"cutValues", "putValues", "commit"}
    BY <2>2 DEF Bringing, SetUps, OfSamples
  <2> QED
    BY <1>3, <2>1, <2>2
<1>9. SettingUp("steps")'
  BY <1>3 DEF SettingUp, SetUps
<1> QED
  BY <1>1, <1>2, <1>3, <1>4, <1>7, <1>8, <1>9, AddingAlone, MarksStay DEF SamplesKept, SetUps

LEMMA KeptCommit ==
  ASSUME Known, SamplesKept, CommitSteps
  PROVE  SamplesKept' /\ NoneMarked' /\ wstate' = wstate /\ job'["steps"].pc \in {"sample", "sampled"}
         /\ ~Adding(job["steps"])'
<1> DEFINE c == job["steps"].count
<1>1. /\ UNCHANGED <<samples, wstate, parcels>> /\ job["steps"].pc = "commit" /\ steps' = job["steps"].n + c
      /\ job' = [job EXCEPT !["steps"] = [Idle EXCEPT
                   !.pc = IF ~UpToDate /\ parcels.gen # 0 THEN "sample" ELSE "sampled"]]
  BY DEF CommitSteps, At
<1>2. PICK pc \in {"sample", "sampled"} :
        job' = [job EXCEPT !["steps"] = [Idle EXCEPT !.pc = pc]] /\ (pc = "sample" => parcels.gen # 0)
  BY <1>1
<1>3. job'["steps"].pc = pc
  BY <1>2, CoreTypes DEF Idle
<1>4. Adding(job["steps"]) /\ steps' = steps + c /\ steps \in Nat /\ c \in Nat
  BY <1>1, CoreTypes DEF Known, SourceInv, Stepping, Adding
<1>5. MarksKept /\ AppendingTo
  BY DEF SamplesKept
<1> HIDE DEF c
<1>6. ASSUME NEW g \in Gens
      PROVE  ~Marked(g)' /\ \A v \in Vars : Min(samples[g].steps, steps') <= Len(samples[g].of[v])
  <2>1. samples[g].steps \in Nat /\ \A v \in Vars : Len(samples[g].of[v]) \in Nat
    BY CoreTypes
  <2>2. CASE Marked(g)
    BY <1>1, <1>4, <1>5, <2>2 DEF AppendingTo, Enough, c, Marked, Min
  <2>3. CASE ~Marked(g)
    BY <1>4, <2>1, <2>3, <1>1, <1>5 DEF Marked, Min, MarksKept, Enough
  <2> QED
    BY <2>2, <2>3
<1>7. MarksKept' /\ NoneMarked'
  BY <1>1, <1>5, <1>6 DEF MarksKept, Enough, NoneMarked
<1>8. Bringing("steps")' /\ SettingUp("steps")'
  BY <1>1, <1>2, <1>3 DEF Bringing, SettingUp, SetUps, OfSamples
<1>9. ~Adding(job["steps"])'
  BY <1>3 DEF Adding
<1> QED
  BY <1>1, <1>3, <1>7, <1>8, <1>9, AddingAlone, AppendingNone DEF SamplesKept
-----------------------------------------------------------------------------
(* A step that samples: which samples it marks or makes ready, and where it *)
(* leads.                                                                   *)
LEMMA SamplingMarks ==
  ASSUME Known, SamplesKept, NEW t \in {"steps", "admin"}, SamplingNext(t)
  PROVE  /\ SamplesKept'
         /\ ~Adding(job["steps"])' => ~Adding(job["steps"]) /\ MarksStayOf
         /\ MarksStayOf \/ (AtStays /\ wstate.gen # 0 /\ samples[wstate.gen].at = "ready"
                            /\ \A g \in Gens : Marked(g)' => Marked(g) \/ g = wstate.gen)
         /\ job[t].pc \in SetUps \/ AtStays
         /\ \/ job[t].pc \in SetUps \ {"setUpDone"} /\ job'[t].pc \in SetUps
            \/ /\ job[t].pc \in {"sample", "setUpDone"} /\ samples' = samples /\ job'[t].pc \in {"setUp", "sampling"}
               /\ parcels.gen # 0 /\ (job'[t].pc = "sampling" <=> samples[parcels.gen].at = "ready")
            \/ job[t].pc \notin SetUps \cup {"sample"} /\ job'[t].pc \notin SetUps \cup {"sample"} /\ AtStays
<1>1. ASSUME ~Adding(job[t])' => ~Adding(job[t]), ~Adding(job[t]) => MarksStayOf
      PROVE  ~Adding(job["steps"])' => ~Adding(job["steps"]) /\ MarksStayOf
  <2>1. CASE t = "steps"
    BY <1>1, <2>1
  <2>2. CASE t = "admin"
    <3>1. ~Adding(job["steps"]) /\ job["steps"].pc = "idle"
      BY <2>2, SamplingKeeps
    <3>2. ~Adding(job["admin"])
      BY <2>2, AtArrays DEF SamplingNext, CutSamples, PutSamples, MarkSamples, Sample, Sampling, SamplingEnds,
         SetUpDone, DeleteSamples, MakeSamples, ReadySamples, DropSamples, At, AtSamples, SetUps, OfSamples,
         Adding
    <3> QED
      BY <1>1, <2>2, <3>1, <3>2
  <2> QED
    BY <2>1, <2>2
<1>2. ASSUME samples' = samples, UNCHANGED steps PROVE AtStays /\ MarksStayOf
  BY <1>2 DEF AtStays, MarksStayOf, Marked
<1>3. UNCHANGED steps
  BY SamplingKeeps
<1>4. CASE DeleteSamples(t) \/ MakeSamples(t) \/ ReadySamples(t) \/ DropSamples(t)
  BY <1>4, KeptSetUp, SetUpsLead, <1>1 DEF DeleteSamples, MakeSamples, ReadySamples, DropSamples, At, SetUps,
     Adding
<1>5. CASE Sample(t) \/ SetUpDone(t)
  BY <1>5, KeptLoads, <1>1, <1>2, <1>3 DEF Sample, SetUpDone, At, Adding
<1>6. CASE Sampling(t) \/ SamplingEnds(t)
  BY <1>6, KeptSampling, <1>1, <1>2, <1>3 DEF Sampling, SamplingEnds, At, SetUps
<1>7. CASE CutSamples(t)
  BY <1>7, KeptCut, <1>1 DEF CutSamples, At, SetUps
<1>8. CASE PutSamples(t)
  BY <1>8, KeptPut, <1>1 DEF PutSamples, At, SetUps
<1>9. CASE MarkSamples(t)
  BY <1>9, KeptMark, <1>1 DEF MarkSamples, At, SetUps
<1> QED
  BY <1>4, <1>5, <1>6, <1>7, <1>8, <1>9 DEF SamplingNext

LEMMA ControlSampling ==
  ASSUME Known, SamplesKept, Putting, SourceControl, [Next]_vars, NEW t \in {"steps", "admin"}, SamplingNext(t)
  PROVE  SourceControl'
<1>1. /\ UNCHANGED <<steps, parcels, current, left>> /\ wstate' \in {wstate, LoadedSource(parcels)}
      /\ \A u \in {"steps", "admin"} : u # t => job'[u] = job[u]
      /\ t = "admin" => job["steps"].pc = "idle" /\ job'["steps"].pc = "idle"
      /\ t = "steps" => job["admin"].pc \notin AtSamples
  BY SamplingKeeps
<1>2. /\ ~Adding(job["steps"])' => ~Adding(job["steps"]) /\ MarksStayOf
      /\ MarksStayOf \/ (AtStays /\ wstate.gen # 0 /\ samples[wstate.gen].at = "ready"
                            /\ \A g \in Gens : Marked(g)' => Marked(g) \/ g = wstate.gen)
      /\ job[t].pc \in SetUps \/ AtStays
      /\ \/ job[t].pc \in SetUps \ {"setUpDone"} /\ job'[t].pc \in SetUps
         \/ /\ job[t].pc \in {"sample", "setUpDone"} /\ samples' = samples /\ job'[t].pc \in {"setUp", "sampling"}
            /\ parcels.gen # 0 /\ (job'[t].pc = "sampling" <=> samples[parcels.gen].at = "ready")
         \/ job[t].pc \notin SetUps \cup {"sample"} /\ job'[t].pc \notin SetUps \cup {"sample"} /\ AtStays
  BY SamplingMarks
<1>3. /\ LoadedSource(parcels).gen \in {0, parcels.gen} /\ LoadedSource(parcels).open
      /\ wstate.gen \in Gens \cup {0} /\ parcels.gen \in Gens \cup {0}
  BY LoadedSamples, CoreTypes DEF Known, LoadedSource
<1>4. CASE SingleSet /\ SourceOfOne
  <2>1. SingleSet'
    BY <1>4, SingleSetStep
  <2>2. wstate'.gen \in {0, parcels'.gen}
    BY <1>1, <1>3, <1>4 DEF SourceOfOne
  <2>3. ASSUME NEW g \in Gens, Marked(g)' PROVE g = parcels'.gen /\ samples'[g].at = "ready"
    <3>1. CASE Marked(g) /\ samples'[g].at = samples[g].at
      BY <1>1, <1>4, <3>1 DEF SourceOfOne
    <3>2. CASE g = wstate.gen /\ samples[g].at = "ready" /\ samples'[g].at = samples[g].at /\ wstate.gen # 0
      BY <1>1, <1>4, <3>2 DEF SourceOfOne
    <3> QED
      BY <1>2, <1>4, <2>3, <3>1, <3>2 DEF MarksStayOf, AtStays, SourceOfOne
  <2> QED
    BY <2>1, <2>2, <2>3 DEF SourceControl, SourceOfOne
<1>5. CASE Sequenced /\ SourceReady
  <2>1. Sequenced'
    BY <1>5, SequencedStep
  <2>2. ~Adding(job["steps"])' => NoneMarked'
    BY <1>2, <1>5 DEF SourceReady, NoneMarked, MarksStayOf
  <2>3. ASSUME wstate'.open, parcels'.gen # 0, ~Readying' PROVE samples'[parcels'.gen].at = "ready"
    <3>0. parcels.gen \in Gens /\ parcels' = parcels
      BY <1>1, <1>3, <2>3
    <3>1. CASE t = "steps"
      <4>1. ~Readying
        BY <1>1, <2>3, <3>1 DEF Readying, ToSources
      <4>2. wstate.open /\ AtStays
        BY <1>5, <4>1, <3>1, CoreTypes, <1>2 DEF SourceReady, Readying, SamplingNext, CutSamples, PutSamples,
           MarkSamples, Sample, Sampling, SamplingEnds, SetUpDone, DeleteSamples, MakeSamples, ReadySamples,
           DropSamples, At, Known, SamplesInv, AloneSource, OneSource
      <4>3. samples'[parcels.gen].at = samples[parcels.gen].at
        BY <3>0, <4>2 DEF AtStays
      <4>4. samples[parcels.gen].at = "ready"
        BY <1>5, <3>0, <4>1, <4>2, CoreTypes DEF SourceReady
      <4> QED
        BY <3>0, <4>3, <4>4
    <3>2. CASE t = "admin"
      <4>1. job'["admin"].pc \notin SetUps \cup {"sample"}
        BY <2>3 DEF Readying
      <4>2. CASE job["admin"].pc \in {"sample", "setUpDone"} /\ job'["admin"].pc = "sampling"
        BY <1>2, <3>0, <3>2, <4>2 DEF SetUps
      <4>3. CASE job["admin"].pc \notin SetUps \cup {"sample"} /\ AtStays
        <5>1. ~Readying /\ wstate.open
          BY <3>2, CoreTypes, <4>3 DEF SamplingNext, CutSamples, PutSamples, MarkSamples, Sample, Sampling,
             SamplingEnds, SetUpDone, DeleteSamples, MakeSamples, ReadySamples, DropSamples, At, AtSamples,
             SetUps, OfSamples, Known, SamplesInv, AloneSource, OneSource, Readying, ToSources, Subroutines
        <5>2. samples'[parcels.gen].at = samples[parcels.gen].at
          BY <3>0, <4>3 DEF AtStays
        <5>3. samples[parcels.gen].at = "ready"
          BY <1>5, <3>0, <5>1, CoreTypes DEF SourceReady
        <5> QED
          BY <3>0, <5>2, <5>3
      <4> QED
        BY <1>2, <3>2, <4>1, <4>2, <4>3 DEF SetUps
    <3> QED
      BY <3>1, <3>2
  <2>4. job'["steps"].pc \in SetUps => ToSources'
    <3>1. CASE t = "admin"
      BY <1>1, <3>1 DEF SetUps
    <3>2. CASE t = "steps"
      <4>1. SUFFICES ASSUME job'["steps"].pc \in SetUps PROVE ToSources
        BY <1>1, <3>2 DEF ToSources
      <4>2. CASE job["steps"].pc \in SetUps
        BY <1>5, <4>2 DEF SourceReady
      <4>3. CASE job["steps"].pc = "sample"
        BY <1>2, <3>2, <4>1, <4>3, CoreTypes, <1>5, <1>1 DEF SetUps, Known, SamplesInv, AloneSource, OneSource,
           SourceReady, Readying, AtSamples
      <4> QED
        BY <1>2, <3>2, <4>1, <4>2, <4>3 DEF SetUps
    <3> QED
      BY <3>1, <3>2
  <2> QED
    BY <2>1, <2>2, <2>3, <2>4 DEF SourceControl, SourceReady
<1> QED
  BY <1>4, <1>5 DEF SourceControl

LEMMA ControlAppends ==
  ASSUME Known, SamplesKept, Putting, SourceControl, [Next]_vars,
         AppendSteps \/ CutValues \/ PutValues \/ CommitSteps
  PROVE  SamplesKept' /\ SourceControl'
<1>1. /\ job'["admin"] = job["admin"] /\ UNCHANGED <<samples, current, parcels, left>>
  BY AddingAlone
<1>2. /\ SamplesKept' /\ (wstate'.open => wstate.open) /\ job'["steps"].pc \notin SetUps
      /\ wstate'.gen \in {wstate.gen, 0, parcels.gen}
      /\ NoneMarked' \/ (Adding(job["steps"])' /\ UNCHANGED steps)
  <2>1. CASE AppendSteps
    BY <2>1, KeptAppend, LoadedSamples, CoreTypes DEF AppendSteps, Known, Adding, SetUps
  <2>2. CASE CutValues \/ PutValues
    BY <2>2, KeptValues
  <2>3. CASE CommitSteps
    BY <2>3, KeptCommit DEF SetUps
  <2> QED
    BY <2>1, <2>2, <2>3
<1>3. \A g \in Gens : Marked(g)' => Marked(g) /\ Adding(job["steps"])'
  BY <1>1, <1>2, MarksStay DEF NoneMarked
<1>4. CASE SingleSet /\ SourceOfOne
  BY <1>4, SingleSetStep, <1>1, <1>2, <1>3 DEF SourceOfOne, SourceControl
<1>5. CASE Sequenced /\ SourceReady
  BY <1>5, SequencedStep, <1>2, <1>1 DEF Readying, ToSources, SourceReady, SourceControl
<1> QED
  BY <1>4, <1>5 DEF SourceControl

LEMMA CoreStep ==
  ASSUME Known, CoreInv, [Next]_vars
  PROVE  CoreInv'
<1>1. SamplesKept /\ Putting /\ SourceControl
  BY DEF CoreInv
<1>2. Putting'
  BY <1>1, PuttingStep
<1>3. SamplesKept' /\ SourceControl'
  <2>1. CASE ~SourceWrites
    BY <1>1, <2>1, KeptElse, ControlElse
  <2>2. CASE AppendSteps \/ CutValues \/ PutValues \/ CommitSteps
    BY <1>1, <2>2, ControlAppends
  <2>3. CASE \E t \in {"steps", "admin"} : SamplingNext(t)
    BY <1>1, <2>3, SamplingMarks, ControlSampling
  <2> QED
    BY <2>1, <2>2, <2>3 DEF SourceWrites
<1> QED
  BY <1>2, <1>3 DEF CoreInv

LEMMA InitCore ==
  ASSUME PlansAreUntorn, Init
  PROVE  CoreInv
<1>1. /\ left \in Plans /\ steps = 0 /\ job = [t \in Threads |-> Idle] /\ current = FirstSet /\ parcels = FirstSet
      /\ samples = [g \in Gens |-> IF MadeSource /\ g = 1 THEN [NoSamples EXCEPT !.at = "ready"] ELSE NoSamples]
      /\ wstate = IF MadeSource THEN [NoSource EXCEPT !.open = TRUE, !.gen = 1] ELSE NoSource
  BY DEF Init, InitParcels, InitSource
<1>2. \A t \in Threads : job[t] = Idle
  BY <1>1
<1>3. job["steps"] = Idle /\ job["admin"] = Idle /\ Idle.pc = "idle"
  BY <1>2 DEF Threads, Idle
<1>4. \A g \in Gens : samples[g].steps = 0 /\ \A v \in Vars : Len(samples[g].of[v]) = 0
  BY <1>1 DEF NoSamples, NoRows
<1>5. SamplesKept
  BY <1>1, <1>3, <1>4 DEF SamplesKept, MarksKept, Enough, Min, AppendingTo, Adding, Bringing, SettingUp, SetUps, OfSamples
<1>6. \A g \in Gens : ~Marked(g)
  BY <1>1, <1>4 DEF Marked
<1>7. Putting /\ (Sequenced \/ SingleSet)
  BY InitControl DEF Control
<1>8. MadeSource => wstate.gen = 1 /\ parcels.gen = 1
  BY <1>1 DEF MadeSource, Made, FirstSet, NoSource
<1>9. ~MadeSource => wstate.gen = 0 /\ ~wstate.open
  BY <1>1 DEF NoSource
<1>10. SourceOfOne
  BY <1>6, <1>8, <1>9 DEF SourceOfOne
<1>11. SourceReady
  <2>1. wstate.open => MadeSource
    BY <1>9
  <2>2. MadeSource => samples[parcels.gen].at = "ready"
    BY <1>1, GeodbAssumption, <1>8 DEF MadeSource, Made, Gens, NoSamples
  <2> QED
    BY <1>3, <1>6, <2>1, <2>2 DEF SourceReady, NoneMarked, SetUps
<1> QED
  BY <1>5, <1>7, <1>10, <1>11 DEF CoreInv, SourceControl
-----------------------------------------------------------------------------
(* The goroutine that appends scenes samples nothing.                       *)
ScenesApart == job["scenes"].pc \notin OfSamples

LEMMA ScenesApartStep ==
  ASSUME Known, ScenesApart, [Next]_vars
  PROVE  ScenesApart'
<1>0. /\ DOMAIN job = Threads /\ Threads = {"scenes", "steps", "admin"}
      /\ \A t \in Threads : DOMAIN job[t] = DOMAIN Idle /\ job[t].k \in Vars
      /\ job["admin"].next \in {"end", "sources"} /\ job["scenes"].next \in {"end", "behind", "check"}
  BY KnownTypes DEF Known, TileInv, Job
<1>1. SUFFICES ASSUME job'["scenes"] # job["scenes"] PROVE ScenesApart'
  BY DEF ScenesApart
<1>2. ASSUME NEW pc, Goto("scenes", pc) PROVE job'["scenes"].pc = pc
  BY <1>0, <1>2, GotoIs
<1>3. ASSUME NEW pc, NEW next, Call("scenes", pc, next) PROVE job'["scenes"].pc = pc
  BY <1>0, <1>3, CallIs
<1>4. ASSUME NEW pc, job' = [job EXCEPT !["scenes"].pc = pc] PROVE job'["scenes"].pc = pc
  BY <1>0, <1>4 DEF Idle
<1>5. CASE \E t \in {"scenes", "admin"} : Subroutine(t)
  <2>1. PICK t \in {"scenes", "admin"} : Subroutine(t)
    BY <1>5
  <2>2. /\ \A u \in Threads : u # t => job'[u] = job[u]
        /\ job'[t].pc \in Subroutines \cup {job[t].next}
    BY <2>1, SubroutineMoves DEF Known, StatsInv, Moves
  <2> QED
    BY <1>0, <1>1, <2>2 DEF ScenesApart, Subroutines, OfSamples
<1>6. CASE AppendScene \/ BackfillStats
  BY <1>6, <1>0 DEF AppendScene, BackfillStats, BeginTile, Idle, ScenesApart, OfSamples
<1>7. CASE Appends
  <2>1. \/ \E pc : Goto("scenes", pc) /\ pc \notin OfSamples
        \/ \E pc, next : Call("scenes", pc, next) /\ pc \notin OfSamples
        \/ \E pc : job' = [job EXCEPT !["scenes"].pc = pc] /\ pc \notin OfSamples
        \/ NextVariable
    <3>1. CASE IndexIfStale
      BY <3>1 DEF IndexIfStale, OfSamples
    <3>2. CASE CatchUp
      BY <3>2 DEF CatchUp, OfSamples
    <3>3. CASE Check
      <4>1. PICK pc \in {"end", "cut"} : Goto("scenes", pc)
        BY <3>3 DEF Check
      <4> QED
        BY <4>1 DEF OfSamples
    <3>4. CASE CutScenes \/ PutScene \/ CutStats \/ PutStats \/ CommitScene
      <4>1. \/ \E pc \in {"put", "cutStats", "putStats"} : job' = [job EXCEPT !["scenes"].pc = pc]
            \/ NextVariable \/ Call("scenes", "filled", "end")
        <5>1. CASE CutScenes
          BY <5>1 DEF CutScenes
        <5>2. CASE PutScene
          BY <5>2 DEF PutScene
        <5>3. CASE CutStats
          BY <5>3 DEF CutStats
        <5>4. CASE PutStats \/ CommitScene
          BY <5>4 DEF PutStats, CommitScene
        <5> QED
          BY <3>4, <5>1, <5>2, <5>3, <5>4
      <4>2. \A pc \in {"put", "cutStats", "putStats", "filled"} : pc \notin OfSamples
        BY DEF OfSamples
      <4> QED
        BY <4>1, <4>2
    <3> QED
      BY <1>7, <3>1, <3>2, <3>3, <3>4 DEF Appends
  <2>2. CASE NextVariable
    <3>1. CASE job["scenes"].k < NVars
      BY <2>2, <3>1, <1>0 DEF NextVariable, Idle, ScenesApart, OfSamples
    <3>2. CASE ~(job["scenes"].k < NVars)
      BY <2>2, <3>2, <1>2 DEF NextVariable, ScenesApart, OfSamples
    <3> QED
      BY <3>1, <3>2
  <2> QED
    BY <1>2, <1>3, <1>4, <2>1, <2>2 DEF ScenesApart
<1>8. CASE CreateTile \/ DescribeTile \/ RegisterTile \/ OpenTile \/ IndexParcels
  BY <1>8, <1>0, GotoIs, CallIs, <1>1 DEF CreateTile, DescribeTile, RegisterTile, OpenTile, IndexParcels
<1>9. CASE RefreshTile \/ RefreshTimes \/ RefreshArrays \/ RefreshIndex \/ RefreshStats
  BY <1>1, <1>9 DEF RefreshTile, RefreshTimes, RefreshArrays, RefreshIndex, RefreshStats
<1>10. CASE SourceNext
  BY <1>0, <1>1, <1>10, SourceMoves DEF Known, StatsInv, Moves
<1>11. CASE ParcelsNext
  <2>1. CASE \E t \in Threads : End(t) \/ Fail(t)
    <3>1. PICK t \in Threads : Return(t)
      BY <2>1 DEF End, Fail
    <3>2. job'[t] = Idle /\ \A u \in Threads : u # t => job'[u] = job[u]
      BY <3>1, KnownTypes, ReturnIs
    <3> QED
      BY <1>0, <1>1, <3>2 DEF ScenesApart, OfSamples, Idle
  <2>2. CASE PutParcels \/ MakeCurrent \/ LoadParcels \/ DropParcels
    BY <1>0, <1>1, <2>2, PutParcelsIs, PutStepsAre
  <2>3. CASE RefreshParcels \/ RefreshFails \/ \E found : RefreshBegins(found)
    BY <1>1, <2>3 DEF RefreshParcels, RefreshFails, RefreshBegins
  <2> QED
    BY <1>11, <2>1, <2>2, <2>3 DEF ParcelsNext
<1>12. CASE Restart
  BY <1>0, <1>12, RestartIs DEF ScenesApart, OfSamples, Idle
<1>13. CASE UNCHANGED vars
  BY <1>1, <1>13 DEF vars, parcelVars
<1> QED
  BY <1>5, <1>6, <1>7, <1>8, <1>9, <1>10, <1>11, <1>12, <1>13 DEF Next, TileNext, Subroutine, Appends

(* What there is to cut back to.                                            *)
LEMMA DoneAgain ==
  ASSUME Known, StatsStored, SamplesKept, ScenesApart
  PROVE  CanBeDoneAgain
<1>1. \A v \in Vars : Len(scenes[v]) >= Len(times) /\ Len(values[v]) >= steps
  BY SamplesTypes, TimesTyped, LenProperties DEF Known, TileInv, Whole, Begins
<1>2. At("scenes", "cutStats") => Len(stats[state.gen][job["scenes"].k]) >= Len(times)
  <2>1. SUFFICES ASSUME job["scenes"].pc = "cutStats"
                 PROVE  Len(stats[state.gen][job["scenes"].k]) >= Len(times)
    BY DEF At
  <2>2. state.gen # 0 /\ state.statsN[job["scenes"].k] = Len(times) /\ job["scenes"].k \in Vars
    BY <2>1, KnownTypes DEF Known, StatsInv, InStep, Extending
  <2>3. \A v \in Vars : state.statsN[v] <= Len(stats[state.gen][v])
    BY <2>1, <2>2 DEF StatsStored, Unknowing
  <2>4. Len(stats[state.gen][job["scenes"].k]) \in Nat /\ Len(times) \in Nat
    BY <2>2, StoredTypes
  <2> QED
    BY <2>2, <2>3, <2>4
<1>3. ASSUME NEW t \in Threads, At(t, "cutSamples")
      PROVE  wstate.gen # 0 /\ Len(samples[wstate.gen].of[job[t].k]) >= job[t].n
  <2>1. t \in {"steps", "admin"} /\ job[t].pc \in OfSamples
    BY <1>3, KnownTypes DEF ScenesApart, OfSamples, At
  <2> DEFINE g == wstate.gen
  <2>2. /\ g \in Gens /\ g # 0
        /\ job[t].row = 0 => job[t].n = Min(samples[g].steps, steps)
        /\ job[t].row # 0 => t = "steps" /\ Adding(job["steps"]) /\ job[t].n = steps /\ UpToDate
    BY <2>1, AtArrays, CoreTypes
  <2>3. /\ steps \in Nat /\ samples[g].steps \in Nat /\ job[t].k \in Vars /\ job[t].n \in Nat
        /\ Len(samples[g].of[job[t].k]) \in Nat
    BY <2>1, <2>2, CoreTypes
  <2>4. Min(samples[g].steps, steps) <= Len(samples[g].of[job[t].k])
    BY <2>2, <2>3 DEF SamplesKept, MarksKept, Enough
  <2>5. job[t].row # 0 => steps <= samples[g].steps
    BY <2>2 DEF Known, SamplesInv, SamplesInStep, Supplying
  <2>6. job[t].row # 0 => Min(samples[g].steps, steps) = steps
    BY <2>3, <2>5 DEF Min
  <2> QED
    BY <2>2, <2>3, <2>4, <2>6
<1> QED
  BY <1>1, <1>2, <1>3 DEF CanBeDoneAgain

(* Where nothing fails or there only ever is one generation of parcels, no  *)
(* array is short of what was committed when an append that failed is done  *)
(* again, of the values and the scenes and of what is made for the parcels: *)
(* appendAt has no rows to make up, and does not refuse (tile.go:651-664,   *)
(* weather.go:369-396).                                                     *)
THEOREM FailedCanBeDoneAgain == PlansAreUntorn => (Spec => []CanBeDoneAgain)
<1> SUFFICES ASSUME PlansAreUntorn PROVE Spec => []CanBeDoneAgain
  OBVIOUS
<1> DEFINE Rest == StatsInv /\ SamplesInv /\ StatsStored /\ CoreInv /\ ScenesApart
<1>1. Init => Rest
  <2>1. ASSUME Init PROVE StatsStored /\ ScenesApart
    BY <2>1 DEF Init, InitParcels, Threads, Idle, StatsStored, ScenesApart, Unknowing, OfSamples
  <2> QED
    BY <2>1, InitTyped, InitStats, InitOfSource, InitSamples, InitCore DEF StatsInv, SamplesInv
<1>2. TileInv /\ SourceInv /\ Rest /\ [Next]_vars => Rest'
  <2> SUFFICES ASSUME TileInv, SourceInv, Rest, [Next]_vars PROVE Rest'
    OBVIOUS
  <2>1. Known
    BY DEF Known
  <2>2. StatsInv'
    BY StatsStep
  <2>3. SamplesInv'
    BY SamplesStep DEF StatsInv
  <2>4. StatsStored' /\ CoreInv' /\ ScenesApart'
    BY <2>1, StatsStoredStep, CoreStep, ScenesApartStep
  <2> QED
    BY <2>2, <2>3, <2>4
<1>3. TileInv /\ SourceInv /\ Rest => CanBeDoneAgain
  BY DoneAgain DEF Known, CoreInv
<1> HIDE DEF Rest
<1> QED
  BY <1>1, <1>2, <1>3, TileInStep, SourceInStep, PTL DEF Spec
-----------------------------------------------------------------------------
(* From where parcels were put until the tile is indexed for them.          *)
Indexings == {"index", "make", "finish", "drop", "reload"}
TileRemade == job["admin"].pc \in {"dropParcels", "tiles"} \cup Subroutines

(* The index of a tile, where nothing fails: it is there for the parcels    *)
(* there are, unless the goroutine that puts them is yet to make it, and    *)
(* nobody else makes it while that one does.                                *)
Indexed ==
  LET j == job["admin"]
      s == job["scenes"]
  IN  /\ state.open /\ parcels.gen # 0 /\ ~TileRemade => index[parcels.gen] = "done"
      /\ s.pc \in Indexings => j.pc \in {"dropParcels", "tiles"} /\ s.set = parcels
      /\ s.pc = "stale" /\ j.pc \notin {"dropParcels", "tiles"} => parcels.gen = 0 \/ state.gen = parcels.gen
      /\ j.pc \in Subroutines => j.set = parcels
      /\ j.pc \in {"drop", "reload"} => index[parcels.gen] = "done"
      /\ j.pc \in {"fill", "filled"} => /\ index[parcels.gen] = "done" /\ state.gen = parcels.gen /\ state.times = times
                                        /\ \A v \in Vars : v < j.k \/ j.pc = "filled" =>
                                             Len(stats[parcels.gen][v]) = Len(times)

(* What the reader has of a tile that the process that writes has not       *)
(* opened, and of statistics before it has read them: none.                 *)
TileUnknown ==
  /\ ~state.open => tileSnap.gen = 0 /\ tileNew.gen = 0 /\ \A g \in Gens : index[g] = "none"
  /\ \A v \in Vars : tileNew.statsN[v] = 0

(* The statistics that the reader knows of are there, of the parcels before *)
(* the last, and of the last once the tile is indexed for them.             *)
KeptStats ==
  LET g == tileSnap.gen
  IN  g # 0 /\ (g = current.prev \/ (g = parcels.gen /\ ~TileRemade)) =>
        \A v \in Vars : tileSnap.statsN[v] <= Len(stats[g][v])

(* And of a source: until it was sampled for the parcels that were put.     *)
SourceRemade == ToSources \/ job["admin"].pc \in SetUps \cup OfSamples \cup {"sample", "sampling"}
SampledNow == job["admin"].pc \in OfSamples \cup {"sampling"} => wstate.gen = parcels.gen
SourceUnknown == ~wstate.open => sourceSnap.gen = 0 /\ sourceNew.gen = 0 /\ \A g \in Gens : samples[g].at = "none"
KeptSamples(s) ==
  s.gen # 0 /\ (s.gen = current.prev \/ (s.gen = parcels.gen /\ ~SourceRemade)) => s.pwSteps <= samples[s.gen].steps

KeptTile == Indexed /\ TileUnknown /\ KeptStats
KeptSource == SampledNow /\ SourceUnknown /\ KeptSamples(sourceSnap) /\ KeptSamples(sourceNew)
Keeping == SingleSet \/ (Sequenced /\ KeptTile /\ KeptSource)
-----------------------------------------------------------------------------
LEMMA InitKeeping ==
  ASSUME PlansAreUntorn, Init
  PROVE  Keeping
<1>1. /\ left \in Plans /\ job = [t \in Threads |-> Idle] /\ current = FirstSet /\ parcels = FirstSet
      /\ samples = [g \in Gens |-> IF MadeSource /\ g = 1 THEN [NoSamples EXCEPT !.at = "ready"] ELSE NoSamples]
      /\ wstate = IF MadeSource THEN [NoSource EXCEPT !.open = TRUE, !.gen = 1] ELSE NoSource
      /\ sourceSnap = NoSource /\ sourceNew = NoSource
      /\ index = [g \in Gens |-> IF MadeTile /\ g = 1 THEN "done" ELSE "none"]
      /\ state = IF MadeTile THEN [NoTile EXCEPT !.open = TRUE, !.gen = 1] ELSE NoTile
      /\ tileSnap = NoTile /\ tileNew = NoTile
  BY DEF Init, InitParcels, InitSource, InitTile
<1>2. \A t \in Threads : job[t].pc = "idle"
  BY <1>1 DEF Idle
<1>3. job["steps"].pc = "idle" /\ job["admin"].pc = "idle" /\ job["scenes"].pc = "idle"
  BY <1>2 DEF Threads
<1>4. /\ NoTile.gen = 0 /\ (\A v \in Vars : NoTile.statsN[v] = 0) /\ ~NoTile.open
      /\ NoSource.gen = 0 /\ ~NoSource.open /\ NoSamples.at = "none"
  BY DEF NoTile, NoSource, NoSamples
<1>5. MadeTile => parcels.gen = 1 /\ 1 \in Gens
  BY <1>1, GeodbAssumption DEF MadeTile, Made, FirstSet, Gens
<1>6. state.open => MadeTile
  BY <1>1, <1>4
<1>7. ~MadeTile => ~state.open /\ \A g \in Gens : index[g] = "none"
  BY <1>1, <1>4
<1>8. ~wstate.open => \A g \in Gens : samples[g].at = "none"
  BY <1>1, <1>4 DEF NoSource
<1>9. Indexed
  BY <1>1, <1>5, <1>6, <1>3 DEF Indexed, Indexings, Subroutines
<1>10. TileUnknown /\ KeptStats
  BY <1>1, <1>4, <1>7 DEF NoTile, TileUnknown, KeptStats
<1>11. KeptSource
  BY <1>1, <1>3, <1>4, <1>8 DEF KeptSource, SampledNow, SourceUnknown, KeptSamples, OfSamples
<1> QED
  BY <1>9, <1>10, <1>11, InitControl DEF Control, Keeping, KeptTile
-----------------------------------------------------------------------------
(* The steps that do not write the tile, nor what its process knows of it.  *)
TileWrites == (\E t \in {"scenes", "admin"} : Subroutine(t)) \/ AppendScene \/ BackfillStats \/ Appends
TileReads == RefreshIndex \/ RefreshStats \/ RefreshTimes \/ RefreshArrays

LEMMA TileElse ==
  ASSUME Known, Sequenced, [Next]_vars, ~TileWrites
  PROVE  /\ UNCHANGED <<index, stats, times>>
         /\ job'["scenes"] = job["scenes"] \/ job'["scenes"] = Idle
         /\ \/ state' = state
            \/ /\ ~state.open /\ state'.open /\ job["admin"].pc = "open" /\ job'["scenes"] = job["scenes"]
               /\ job'["admin"].pc = (IF parcels.gen # 0 THEN "tiles" ELSE "end") /\ parcels' = parcels
         /\ \/ job'["admin"] = job["admin"]
            \/ job["admin"].pc \notin {"tiles"} \cup Subroutines /\ job'["admin"].pc \notin Subroutines
            \/ /\ job["admin"].pc = "tiles" /\ ~state.open /\ state' = state /\ parcels' = parcels
               /\ job'["admin"].pc \in {"end", "sources"}
            \/ /\ job["admin"].pc = "tiles" /\ lock["tile"] = "free" /\ job'["admin"].pc = "index"
               /\ job'["admin"].set = parcels /\ state' = state /\ parcels' = parcels
<1> DEFINE Goes == \/ job'["admin"] = job["admin"]
                   \/ job["admin"].pc \notin {"tiles"} \cup Subroutines /\ job'["admin"].pc \notin Subroutines
<1>0. /\ DOMAIN job = Threads /\ Threads = {"scenes", "steps", "admin"}
      /\ \A t \in Threads : DOMAIN job[t] = DOMAIN Idle /\ job[t].k \in Vars
      /\ job["admin"].next \in {"end", "sources"} /\ Idle.pc = "idle"
  BY KnownTypes DEF Idle
<1>1. ASSUME NEW pc, Goto("admin", pc) PROVE job'["admin"].pc = pc /\ job'["scenes"] = job["scenes"]
  BY <1>0, <1>1, GotoIs
<1>2. CASE CreateTile \/ DescribeTile \/ RegisterTile
  BY <1>2, <1>1 DEF CreateTile, DescribeTile, RegisterTile, At, Subroutines
<1>3. CASE OpenTile
  BY <1>3, <1>1 DEF OpenTile, tileStore, At, Known, StatsInv, Alone, Loaded, Subroutines
<1>4. CASE IndexParcels
  <2>1. /\ UNCHANGED <<index, stats, times, parcels, state>> /\ job["admin"].pc = "tiles"
        /\ \/ state.open /\ lock["tile"] = "free" /\ Call("admin", "index", job["admin"].next)
           \/ ~state.open /\ Goto("admin", job["admin"].next)
    BY <1>4 DEF IndexParcels, tileVars, tileStore, At
  <2>2. ASSUME Call("admin", "index", job["admin"].next)
        PROVE  job'["admin"].pc = "index" /\ job'["admin"].set = parcels /\ job'["scenes"] = job["scenes"]
    BY <1>0, <2>2, CallIs
  <2> QED
    BY <1>0, <1>1, <2>1, <2>2
<1>5. CASE RefreshTile \/ TileReads
  BY <1>5 DEF TileReads, RefreshTile, RefreshTimes, RefreshArrays, RefreshIndex, RefreshStats, tileVars, tileStore
<1>6. CASE SourceNext /\ UNCHANGED tileVars
  <2>1. UNCHANGED <<index, stats, times, state>> /\ job'["scenes"] = job["scenes"]
    BY <1>0, <1>6, SourceMoves DEF Known, StatsInv, Moves, tileVars, tileStore
  <2>2. Goes
    <3>1. CASE \E t \in {"steps", "admin"} : SamplingNext(t)
      <4>1. PICK t \in {"steps", "admin"} : SamplingNext(t)
        BY <3>1
      <4>2. CASE t = "steps"
        BY <4>1, <4>2, SamplingKeeps DEF Known
      <4>3. CASE t = "admin"
        BY <4>1, <4>3, SamplingGoes DEF SamplingNext, CutSamples, PutSamples, MarkSamples, Sample, Sampling,
           SamplingEnds, SetUpDone, DeleteSamples, MakeSamples, ReadySamples, DropSamples, At, AtSamples,
           SetUps, OfSamples, Known, StatsInv, Subroutines
      <4> QED
        BY <4>2, <4>3
    <3>2. CASE AppendSteps \/ CutValues \/ PutValues \/ CommitSteps
      BY <3>2, AddingAlone
    <3>3. CASE CreateWeather \/ DescribeSource \/ RegisterSource \/ OpenSource \/ SampleParcels
      BY <3>3, <1>1 DEF CreateWeather, DescribeSource, RegisterSource, OpenSource, SampleParcels, At,
         Subroutines
    <3>4. CASE RefreshSource \/ RefreshValues \/ RefreshSamples \/ RefreshSampleArrays
      BY <3>4 DEF RefreshSource, RefreshValues, RefreshSamples, RefreshSampleArrays
    <3> QED
      BY <1>6, <3>1, <3>2, <3>3, <3>4 DEF SourceNext, SamplingNext
  <2> QED
    BY <2>1, <2>2
<1>7. CASE ParcelsNext
  <2>1. UNCHANGED <<index, stats, times, state>>
    BY <1>7 DEF ParcelsNext, tileVars, tileStore
  <2>2. CASE \E t \in Threads : End(t) \/ Fail(t)
    <3>1. PICK t \in Threads : End(t) \/ Fail(t)
      BY <2>2
    <3>2. job[t].pc = "end" /\ Return(t)
      BY <3>1 DEF End, Fail, At, Sequenced
    <3>3. job'[t] = Idle /\ \A u \in Threads : u # t => job'[u] = job[u]
      BY <3>2, KnownTypes, ReturnIs
    <3> QED
      BY <1>0, <2>1, <3>2, <3>3 DEF Subroutines
  <2>3. CASE PutParcels
    BY <1>0, <2>1, <2>3, PutParcelsIs DEF Subroutines
  <2>4. CASE MakeCurrent \/ LoadParcels \/ DropParcels
    BY <1>0, <2>1, <2>4, PutStepsAre DEF Subroutines
  <2>5. CASE RefreshParcels \/ RefreshFails \/ \E found : RefreshBegins(found)
    BY <2>1, <2>5 DEF RefreshParcels, RefreshFails, RefreshBegins
  <2> QED
    BY <1>7, <2>2, <2>3, <2>4, <2>5 DEF ParcelsNext
<1>8. CASE Restart
  BY <1>8, RestartIs DEF Loses, Sequenced
<1>9. CASE UNCHANGED vars
  BY <1>9 DEF vars, tileVars, tileStore, parcelVars
<1> QED
  BY <1>2, <1>3, <1>4, <1>5, <1>6, <1>7, <1>8, <1>9 DEF Next, TileNext, TileWrites, TileReads, Subroutine, Appends

(* How the parcels change, where nothing fails: a put makes the ones there  *)
(* are the ones before the last.                                            *)
LEMMA ParcelsFollow ==
  ASSUME Known, Sequenced, [Next]_vars
  PROVE  /\ \/ /\ UNCHANGED <<current, parcels>>
               /\ job["admin"].pc = "dropParcels" => job'["admin"].pc \in {"dropParcels", "tiles"}
            \/ /\ job["admin"].pc = "current" /\ job'["admin"].pc = "load"
               /\ current'.prev = parcels.gen /\ parcels' = parcels
            \/ /\ job["admin"].pc = "load" /\ job'["admin"].pc = "dropParcels"
               /\ parcels' = current /\ current' = current
         /\ ~Loses
<1>1. ~Loses /\ ~Restart
  BY RestartIs DEF Loses, Sequenced
<1>2. CASE AdminStays
  BY <1>1, <1>2 DEF AdminStays
<1>3. CASE AdminGoes
  BY <1>1, <1>3, AdminGoesOn DEF AdminGoes
<1>4. CASE AdminReturns
  BY <1>1, <1>4 DEF AdminReturns
<1>5. CASE PutParcels
  BY <1>1, <1>5, PutParcelsIs
<1>6. CASE MakeCurrent \/ LoadParcels \/ DropParcels
  BY <1>1, <1>6, PutStepsAre DEF Sequenced
<1> QED
  BY <1>1, <1>2, <1>3, <1>4, <1>5, <1>6, AdminMoves

LEMMA IndexedElse ==
  ASSUME Known, Sequenced, Indexed, [Next]_vars, ~TileWrites
  PROVE  Indexed'
<1> DEFINE j == job["admin"].pc
           w == job'["admin"].pc
<1>1. /\ UNCHANGED <<index, stats, times>>
      /\ job'["scenes"] = job["scenes"] \/ job'["scenes"] = Idle
      /\ \/ state' = state
         \/ /\ ~state.open /\ state'.open /\ job["admin"].pc = "open" /\ job'["scenes"] = job["scenes"]
            /\ job'["admin"].pc = (IF parcels.gen # 0 THEN "tiles" ELSE "end") /\ parcels' = parcels
      /\ \/ job'["admin"] = job["admin"]
         \/ job["admin"].pc \notin {"tiles"} \cup Subroutines /\ job'["admin"].pc \notin Subroutines
         \/ /\ job["admin"].pc = "tiles" /\ ~state.open /\ state' = state /\ parcels' = parcels
            /\ job'["admin"].pc \in {"end", "sources"}
         \/ /\ job["admin"].pc = "tiles" /\ lock["tile"] = "free" /\ job'["admin"].pc = "index"
            /\ job'["admin"].set = parcels /\ state' = state /\ parcels' = parcels
  BY TileElse
<1>2. \/ parcels' = parcels /\ (j = "dropParcels" => w \in {"dropParcels", "tiles"})
      \/ j = "load" /\ w = "dropParcels"
  BY ParcelsFollow
<1>3. /\ j \in Subroutines => lock["tile"] = "admin" /\ state.open
      /\ job["scenes"].pc # "idle" => lock["tile"] = "scenes" /\ state.open
      /\ Idle.pc = "idle"
  BY DEF Known, StatsInv, Alone, Idle
<1>4. state'.open /\ parcels'.gen # 0 /\ ~TileRemade' => index'[parcels'.gen] = "done"
  <2>1. SUFFICES ASSUME state'.open, parcels'.gen # 0, ~TileRemade' PROVE index[parcels'.gen] = "done"
    BY <1>1
  <2>2. parcels' = parcels /\ state' = state
    BY <1>1, <1>2, <2>1 DEF TileRemade
  <2>3. ~TileRemade
    BY <1>1, <1>2, <2>1, <2>2 DEF TileRemade, Subroutines
  <2> QED
    BY <2>1, <2>2, <2>3 DEF Indexed
<1>5. ASSUME job'["scenes"] = job["scenes"], job["scenes"].pc # "idle", j \in {"dropParcels", "tiles"}
      PROVE  w \in {"dropParcels", "tiles"} /\ parcels' = parcels
  <2>1. CASE j = "dropParcels"
    BY <1>2, <2>1
  <2>2. CASE j = "tiles"
    BY <1>1, <1>2, <1>3, <1>5, <2>2
  <2> QED
    BY <1>5, <2>1, <2>2
<1>6. job'["scenes"].pc \in Indexings => w \in {"dropParcels", "tiles"} /\ job'["scenes"].set = parcels'
  <2>1. SUFFICES ASSUME job'["scenes"].pc \in Indexings
                 PROVE  w \in {"dropParcels", "tiles"} /\ job'["scenes"].set = parcels'
    OBVIOUS
  <2>2. job'["scenes"] = job["scenes"] /\ job["scenes"].pc # "idle"
    BY <1>1, <1>3, <2>1 DEF Indexings
  <2>3. j \in {"dropParcels", "tiles"} /\ job["scenes"].set = parcels
    BY <2>1, <2>2 DEF Indexed
  <2> QED
    BY <1>5, <2>2, <2>3
<1>7. job'["scenes"].pc = "stale" /\ w \notin {"dropParcels", "tiles"} =>
        parcels'.gen = 0 \/ state'.gen = parcels'.gen
  <2>1. SUFFICES ASSUME job'["scenes"].pc = "stale", w \notin {"dropParcels", "tiles"}
                 PROVE  parcels'.gen = 0 \/ state'.gen = parcels'.gen
    OBVIOUS
  <2>2. job'["scenes"] = job["scenes"] /\ job["scenes"].pc # "idle" /\ job["scenes"].pc = "stale"
    BY <1>1, <1>3, <2>1
  <2>3. state' = state /\ parcels' = parcels /\ j \notin {"dropParcels", "tiles"}
    BY <1>1, <1>2, <1>3, <1>5, <2>1, <2>2
  <2> QED
    BY <2>2, <2>3 DEF Indexed
<1>8. ASSUME w \in Subroutines
      PROVE  /\ state' = state /\ parcels' = parcels
             /\ job'["admin"] = job["admin"] \/ (w = "index" /\ job'["admin"].set = parcels)
  BY <1>8, <1>1, <1>2 DEF Subroutines
<1>9. w \in Subroutines => job'["admin"].set = parcels'
  BY <1>8 DEF Indexed
<1>10. w \in {"drop", "reload"} => index'[parcels'.gen] = "done"
  BY <1>1, <1>8 DEF Indexed, Subroutines
<1>11. w \in {"fill", "filled"} =>
         /\ index'[parcels'.gen] = "done" /\ state'.gen = parcels'.gen /\ state'.times = times'
         /\ \A v \in Vars : v < job'["admin"].k \/ w = "filled" => Len(stats'[parcels'.gen][v]) = Len(times')
  <2>1. SUFFICES ASSUME w \in {"fill", "filled"}
                 PROVE  /\ index'[parcels'.gen] = "done" /\ state'.gen = parcels'.gen /\ state'.times = times'
                        /\ \A v \in Vars : v < job'["admin"].k \/ w = "filled" =>
                             Len(stats'[parcels'.gen][v]) = Len(times')
    OBVIOUS
  <2>2. job'["admin"] = job["admin"] /\ state' = state /\ parcels' = parcels
    BY <1>8, <2>1 DEF Subroutines
  <2> QED
    BY <1>1, <2>1, <2>2 DEF Indexed
<1> QED
  BY <1>4, <1>6, <1>7, <1>9, <1>10, <1>11 DEF Indexed

(* What the reader reads.                                                   *)
LEMMA TileReadsOf ==
  ASSUME Known, [Next]_vars
  PROVE  (TileReads /\ UNCHANGED <<index, stats, times, state, job, current, parcels>>) \/ UNCHANGED <<tileSnap, tileNew>>
<1>1. CASE TileReads
  BY <1>1 DEF TileReads, RefreshTimes, RefreshArrays, RefreshIndex, RefreshStats, tileStore
<1>2. CASE \E t \in {"scenes", "admin"} : Subroutine(t)
  BY <1>2, SubroutineMoves DEF Known, StatsInv
<1>3. CASE Appends
  BY <1>3, AppendsMoves DEF Known, StatsInv
<1>4. CASE AppendScene \/ BackfillStats
  BY <1>4 DEF AppendScene, BackfillStats, BeginTile, tileRead
<1>5. CASE CreateTile \/ DescribeTile \/ RegisterTile \/ OpenTile \/ IndexParcels \/ RefreshTile
  BY <1>5 DEF CreateTile, DescribeTile, RegisterTile, OpenTile, IndexParcels, RefreshTile, tileVars, tileRead
<1>6. CASE UNCHANGED tileVars
  BY <1>6 DEF tileVars, tileRead
<1>7. CASE Restart
  BY <1>7 DEF Restart, RestartTile, tileRead
<1> QED
  BY <1>1, <1>2, <1>3, <1>4, <1>5, <1>6, <1>7 DEF Next, TileNext, TileReads, ParcelsNext, Subroutine, Appends, vars

LEMMA KeptReads ==
  ASSUME Known, TileUnknown, KeptStats, TileReads, UNCHANGED <<index, stats, times, state, job, current, parcels>>
  PROVE  TileUnknown' /\ KeptStats'
<1> DEFINE g == IndexedFor(refresh.parcels)
<1>1. /\ NoTile.gen = 0 /\ (\A v \in Vars : NoTile.statsN[v] = 0) /\ DOMAIN NoTile.statsN = Vars
      /\ DOMAIN tileNew = DOMAIN NoTile /\ IsState(tileNew) /\ IsState(tileSnap)
  BY DEF NoTile, Known, StatsInv, TileTyped, OfTile, TileInv, Refreshing
<1>2. g \in Gens \cup {0} /\ (~state.open => g = 0)
  BY KnownTypes DEF IndexedFor, TileUnknown, Sets
<1>3. \A h \in Gens, v \in Vars : Len(stats[h][v]) \in Nat
  BY StoredTypes
<1>4. ASSUME \A v \in Vars : tileSnap'.statsN[v] <= 0 \/ tileSnap'.statsN[v] <= Len(stats[tileSnap'.gen][v]),
             tileSnap'.gen \in Gens \cup {0}, \A v \in Vars : tileSnap'.statsN[v] \in Nat
      PROVE  KeptStats'
  BY <1>3, <1>4 DEF KeptStats
<1> HIDE DEF g
<1>5. CASE RefreshTimes \/ RefreshArrays
  BY <1>5, <1>1 DEF RefreshTimes, RefreshArrays, NoTile, TileUnknown, KeptStats, TileRemade
<1>6. CASE RefreshIndex
  <2>1. /\ tileNew' = IF g = 0 THEN NoTile ELSE [tileNew EXCEPT !.gen = g]
        /\ tileSnap' = IF g = 0 THEN tileNew ELSE tileSnap
    BY <1>6 DEF RefreshIndex, g
  <2>2. TileUnknown'
    BY <1>1, <2>1, <1>2 DEF TileUnknown, NoTile
  <2>3. CASE g = 0
    BY <2>1, <2>3, <1>1, <1>4, <2>2 DEF TileUnknown, IsState
  <2>4. CASE g # 0
    BY <2>1, <2>2, <2>4 DEF KeptStats, TileRemade
  <2> QED
    BY <2>3, <2>4
<1>7. CASE RefreshStats
  <2> DEFINE N == StatsN(tileNew.gen, Len(tileNew.times))
  <2>1. tileNew' = NoTile /\ (tileSnap' = tileSnap \/ tileSnap' = [tileNew EXCEPT !.statsN = N])
    BY <1>7 DEF RefreshStats
  <2>2. \A v \in Vars : N[v] = (IF tileNew.gen = 0 THEN 0 ELSE Min(Len(tileNew.times), Len(stats[tileNew.gen][v]))) /\ N[v] \in Nat
    <3>1. tileNew.gen \in Gens \cup {0} /\ Len(tileNew.times) \in Nat
      BY <1>1, LenProperties DEF IsState, Known, TileInv, Refreshing, Begins
    <3> QED
      BY <3>1, StatsNIs DEF Known, StatsInv
  <2>3. Len(tileNew.times) \in Nat /\ tileNew.gen \in Gens \cup {0}
    BY <1>1, LenProperties DEF IsState, Known, TileInv, Refreshing, Begins
  <2>4. TileUnknown'
    BY <1>1, <2>1 DEF TileUnknown, NoTile
  <2>5. CASE tileSnap' = tileSnap
    BY <2>4, <2>5 DEF KeptStats, TileRemade
  <2> HIDE DEF N
  <2>6. CASE tileSnap' = [tileNew EXCEPT !.statsN = N]
    BY <1>1, <2>6, <1>3, <2>2, <2>3, <1>4, <2>4 DEF NoTile, Min
  <2> QED
    BY <2>1, <2>5, <2>6
<1> QED
  BY <1>5, <1>6, <1>7 DEF TileReads
-----------------------------------------------------------------------------
(* The index, where the process writes the tile.                            *)
LEMMA IndexedBegin ==
  ASSUME Known, Sequenced, Indexed, AppendScene \/ BackfillStats
  PROVE  Indexed'
<1>1. PICK s : BeginTile(s)
  BY DEF AppendScene, BackfillStats
<1>2. /\ lock["tile"] = "free" /\ state.open /\ UNCHANGED <<index, stats, times, parcels>>
      /\ job'["admin"] = job["admin"] /\ job'["scenes"].pc = "stale" /\ state' = Loaded(parcels)
  BY <1>1, KnownTypes DEF BeginTile, tileStore, Idle
<1>3. job["admin"].pc \notin Subroutines
  BY <1>2 DEF Known, StatsInv, Alone
<1>4. parcels.gen # 0 /\ ~TileRemade => index[parcels.gen] = "done" /\ state'.gen = parcels.gen
  BY <1>2 DEF Indexed, Loaded, IndexedFor
<1>5. job["admin"].pc \notin {"dropParcels", "tiles"} => ~TileRemade
  BY <1>3 DEF TileRemade
<1> QED
  BY <1>2, <1>3, <1>4, <1>5 DEF Indexed, TileRemade, Indexings, Subroutines

LEMMA IndexedAppends ==
  ASSUME Known, Sequenced, Indexed, Appends
  PROVE  Indexed'
<1>1. /\ UNCHANGED <<index, state, parcels>> /\ job'["admin"] = job["admin"] /\ job["scenes"].pc # "idle"
  BY AppendsMoves, KnownTypes DEF Known, StatsInv, Moves
<1>2. job["admin"].pc \notin Subroutines
  BY <1>1 DEF Known, StatsInv, Alone
<1>3. /\ DOMAIN job = Threads /\ DOMAIN job["scenes"] = DOMAIN Idle /\ "scenes" \in Threads
  BY KnownTypes
<1>4. ASSUME NEW pc, Goto("scenes", pc) PROVE job'["scenes"].pc = pc
  BY <1>3, <1>4, GotoIs
<1>5. ASSUME NEW pc, NEW next, Call("scenes", pc, next) PROVE job'["scenes"].pc = pc /\ job'["scenes"].set = parcels
  BY <1>3, <1>5, CallIs
<1>6. \/ job'["scenes"].pc \notin Indexings \cup {"stale"}
      \/ /\ job["scenes"].pc = "stale" /\ parcels.gen # 0 /\ state.gen # parcels.gen
         /\ job'["scenes"].pc = "index" /\ job'["scenes"].set = parcels
  <2>1. CASE IndexIfStale
    BY <1>4, <1>5, <2>1 DEF IndexIfStale, At, Indexings
  <2>2. CASE CatchUp
    BY <1>4, <1>5, <2>2 DEF CatchUp, Indexings
  <2>3. CASE Check
    BY <2>3, <1>4 DEF Check, Indexings
  <2>4. CASE CutScenes \/ CutStats
    BY <1>3, <2>4 DEF CutScenes, CutStats, Idle, Indexings
  <2>5. ASSUME NextVariable PROVE job'["scenes"].pc \in {"cut", "commit"}
    BY <1>3, <1>4, <2>5 DEF NextVariable, Idle
  <2>6. CASE PutScene \/ PutStats
    BY <2>6, <1>3, <2>5 DEF PutScene, PutStats, Idle, Indexings
  <2>7. CASE CommitScene
    BY <1>5, <2>7 DEF CommitScene, Indexings
  <2> QED
    BY <2>1, <2>2, <2>3, <2>4, <2>6, <2>7 DEF Appends
<1> QED
  BY <1>1, <1>2, <1>6 DEF Indexed, TileRemade, Indexings, Subroutines

LEMMA IndexedScenes ==
  ASSUME Known, Sequenced, Indexed, Subroutine("scenes")
  PROVE  Indexed' /\ (UNCHANGED index \/ TileRemade)
<1>1. /\ UNCHANGED parcels /\ job'["admin"] = job["admin"] /\ job["scenes"].pc \in Subroutines
      /\ job'["scenes"].set = job["scenes"].set /\ (state' = state \/ state' = Loaded(parcels))
  BY SubroutineMoves, KnownTypes DEF Known, StatsInv, Moves
<1>2. job["admin"].pc \notin Subroutines /\ state.open
  BY <1>1 DEF Known, StatsInv, Alone, Subroutines
<1>3. index' = index \/ job["scenes"].pc \in Indexings
  BY DEF Subroutine, DeleteIndex, MakeIndex, FinishIndex, DropStats, Reload, NothingToFill, Backfill,
         At, Indexings, tileVars, tileStore
<1>4. job["scenes"].pc \in Indexings => job["admin"].pc \in {"dropParcels", "tiles"} /\ job["scenes"].set = parcels
  BY DEF Indexed
<1>5. job'["scenes"].pc # "stale" /\ (job'["scenes"].pc \in Indexings => job["scenes"].pc \in Indexings)
  <2>1. DOMAIN job = Threads /\ "scenes" \in Threads /\ DOMAIN job["scenes"] = DOMAIN Idle
        /\ job["scenes"].next \in {"end", "behind", "check"}
    BY KnownTypes DEF Known, TileInv, Job
  <2>2. ASSUME NEW pc, Goto("scenes", pc) PROVE job'["scenes"].pc = pc
    BY <2>1, <2>2, GotoIs
  <2>3. CASE DeleteIndex("scenes") \/ MakeIndex("scenes") \/ FinishIndex("scenes") \/ DropStats("scenes")
    BY <2>3, <2>2 DEF DeleteIndex, MakeIndex, FinishIndex, DropStats, At, Indexings
  <2>4. CASE Reload("scenes") \/ NothingToFill("scenes")
    BY <2>4, <2>1, <2>2 DEF Reload, NothingToFill, Filled, Indexings
  <2>5. CASE Backfill("scenes")
    BY <2>5, <2>1, <2>2 DEF Backfill, At, Idle, Indexings
  <2> QED
    BY <2>3, <2>4, <2>5 DEF Subroutine
<1>6. UNCHANGED index \/ TileRemade
  BY <1>3, <1>4 DEF TileRemade
<1> QED
  BY <1>1, <1>2, <1>4, <1>5, <1>6 DEF Indexed, TileRemade, Subroutines

LEMMA IndexedAdmin ==
  ASSUME Known, Sequenced, Putting, Indexed, Subroutine("admin")
  PROVE  Indexed'
<1> DEFINE p == parcels.gen
           w == job'["admin"].pc
<1>1. /\ UNCHANGED parcels /\ job'["scenes"] = job["scenes"] /\ job["admin"].pc \in Subroutines
      /\ job'["admin"].set = parcels /\ job["admin"].set = parcels
  BY SubroutineMoves, KnownTypes DEF Known, StatsInv, Moves, Indexed
<1>2. job["scenes"].pc = "idle" /\ state.open /\ p \in Gens
  BY <1>1, KnownTypes DEF Known, StatsInv, Alone, Sets, Putting
<1>3. /\ DOMAIN job = Threads /\ DOMAIN job["admin"] = DOMAIN Idle /\ "admin" \in Threads
      /\ job["admin"].next \in {"end", "sources"} /\ job["admin"].k \in Vars
  BY KnownTypes
<1>4. ASSUME NEW pc, Goto("admin", pc) PROVE job'["admin"].pc = pc /\ job'["admin"].k = 1
  BY <1>3, <1>4, GotoIs
<1>5. index \in [Gens -> {"none", "begun", "done"}] /\ Len(times) \in Nat /\ times \in Seq(Time)
  BY DEF Known, StatsInv, TileTyped, OfTile, TileInv, Begins, Snapshots
<1> DEFINE Ready == /\ index'[p] = "done" /\ state'.gen = p /\ state'.times = times'
                    /\ \A v \in Vars : v < job'["admin"].k \/ w = "filled" => Len(stats'[p][v]) = Len(times')
           Done == /\ w \in {"drop", "reload"} => index'[p] = "done"
                   /\ w \in {"fill", "filled"} => Ready
                   /\ w \notin Subroutines => index'[p] = "done"
<1>6. Done => Indexed'
  BY <1>1, <1>2 DEF Indexed, TileRemade, Indexings
<1>7. CASE DeleteIndex("admin") \/ MakeIndex("admin")
  BY <1>7, <1>4, <1>6 DEF DeleteIndex, MakeIndex, Subroutines
<1>8. CASE FinishIndex("admin")
  BY <1>1, <1>4, <1>8, <1>2, <1>5, <1>6 DEF FinishIndex, Subroutines
<1>9. CASE DropStats("admin")
  BY <1>1, <1>4, <1>9, <1>2, <1>6 DEF DropStats, At, Stays, Indexed, Subroutines
<1>10. CASE Reload("admin")
  BY <1>10, <1>4, <1>2, KnownTypes, <1>3, <1>6 DEF Reload, tileStore, At, Filled, Indexed, Loaded, IndexedFor,
     Vars, Subroutines
<1>11. CASE NothingToFill("admin")
  BY <1>11, KnownTypes, <1>2 DEF NothingToFill, At, Indexed
<1>12. CASE Backfill("admin")
  <2> DEFINE k == job["admin"].k
             h == Len(stats[state.gen][k])
  <2>1. job["admin"].pc = "fill" /\ times' = times
    BY <1>12 DEF Backfill, At
  <2>2. /\ index[p] = "done" /\ state.gen = p /\ state.times = times
        /\ \A v \in Vars : v < k => Len(stats[p][v]) = Len(times)
    BY <2>1 DEF Indexed
  <2>3. /\ UNCHANGED <<index, state>> /\ \A v \in Vars : v # k => stats'[p][v] = stats[p][v]
        /\ \/ job' = job
           \/ /\ h = Len(times) /\ stats' = stats
              /\ IF k < NVars THEN job' = [job EXCEPT !["admin"].k = k + 1] ELSE Goto("admin", "filled")
    BY <1>2, <1>12, <2>2, BackfillIs DEF Known, StatsInv
  <2>4. k \in Nat /\ k <= NVars /\ NVars \in Nat /\ \A v \in Vars : v \in Nat /\ v <= NVars
    BY <1>3, GeodbAssumption DEF Vars
  <2>5. CASE job' = job
    BY <2>4, <2>1, <2>5, <2>2, <2>3, <1>6 DEF Subroutines
  <2>6. CASE h = Len(times) /\ stats' = stats /\ k < NVars /\ job' = [job EXCEPT !["admin"].k = k + 1]
    BY <1>3, <2>1, <2>6, <2>4, <2>2, <2>3, <1>6 DEF Idle, Subroutines
  <2>7. CASE h = Len(times) /\ stats' = stats /\ ~(k < NVars) /\ Goto("admin", "filled")
    BY <1>4, <2>7, <2>4, <2>1, <2>2, <2>3, <1>6 DEF Subroutines
  <2> QED
    BY <2>3, <2>5, <2>6, <2>7
<1> QED
  BY <1>7, <1>8, <1>9, <1>10, <1>11, <1>12 DEF Subroutine

LEMMA IndexedStep ==
  ASSUME Known, Sequenced, Putting, Indexed, [Next]_vars
  PROVE  Indexed'
BY IndexedElse, IndexedBegin, IndexedAppends, IndexedScenes, IndexedAdmin DEF TileWrites

LEMMA TileUnknownStep ==
  ASSUME Known, Sequenced, TileUnknown, UNCHANGED <<tileSnap, tileNew>>, [Next]_vars
  PROVE  TileUnknown'
<1>1. TileWrites => state'.open
  <2>1. CASE \E t \in {"scenes", "admin"} : Subroutine(t)
    <3>1. PICK t \in {"scenes", "admin"} : Subroutine(t)
      BY <2>1
    <3>2. job[t].pc \in Subroutines /\ (state' = state \/ state' = Loaded(parcels))
      BY <3>1, SubroutineMoves DEF Known, StatsInv
    <3> QED
      BY <3>1, <3>2 DEF Loaded, Known, StatsInv, Alone, Subroutines
  <2>2. CASE AppendScene \/ BackfillStats
    BY <2>2 DEF AppendScene, BackfillStats, BeginTile, Loaded
  <2>3. CASE Appends
    BY <2>3, AppendsMoves DEF Known, StatsInv, Alone
  <2> QED
    BY <2>1, <2>2, <2>3 DEF TileWrites
<1>2. CASE TileWrites
  BY <1>1, <1>2 DEF TileUnknown
<1>3. CASE ~TileWrites
  BY <1>3, TileElse DEF TileUnknown
<1> QED
  BY <1>2, <1>3

(* The statistics of the two generations that readers may know: a step may  *)
(* cut what is past the scenes, not what is within.                         *)
Spared(g) == g = current.prev \/ (g = parcels.gen /\ ~TileRemade)
StatsWithin(g) ==
  \A v \in Vars, n \in Nat : n <= Len(times) /\ n <= Len(stats[g][v]) => n <= Len(stats'[g][v])

LEMMA StatsWithinAppends ==
  ASSUME Known, Appends, NEW g \in Gens
  PROVE  StatsWithin(g)
<1>1. CASE CutStats
  BY <1>1, StoredTypes, CutStatsIs DEF CutStats, At, Known, StatsInv, InStep, Extending, StatsWithin
<1>2. CASE PutStats
  <2>1. state.gen # 0 /\ \A v \in Vars : Len(stats[g][v]) \in Nat
    BY <1>2, StoredTypes DEF PutStats, At, Known, StatsInv, InStep, Extending
  <2>2. \A v \in Vars : Len(stats'[g][v]) = Len(stats[g][v]) + 1 \/ stats'[g][v] = stats[g][v]
    BY <1>2, <2>1, PutStatsIs DEF Known, StatsInv
  <2> QED
    BY <2>1, <2>2 DEF StatsWithin
<1>3. CASE ~CutStats /\ ~PutStats
  BY <1>3 DEF Appends, IndexIfStale, CatchUp, Check, CutScenes, PutScene, CommitScene, tileVars, tileStore,
     StatsWithin
<1> QED
  BY <1>1, <1>2, <1>3

LEMMA StatsWithinSubroutine ==
  ASSUME Known, Sequenced, Indexed, NEW t \in {"scenes", "admin"}, Subroutine(t), NEW g \in Gens, Spared(g)
  PROVE  StatsWithin(g)
<1>1. job[t].pc \in Subroutines /\ stats \in [Gens -> [Vars -> Seq(Time)]] /\ Len(times) \in Nat
  BY SubroutineMoves, StoredTypes DEF Known, StatsInv, TileTyped, OfTile
<1>2. job[t].pc \in {"index", "make", "finish", "drop", "reload"} =>
        /\ job[t].set = parcels /\ TileRemade /\ job["admin"].pc # "load"
  BY <1>1 DEF Indexed, Indexings, TileRemade, Subroutines
<1>3. current \in Sets /\ MaxGens \in Nat /\ 0 \notin Gens
  BY KnownTypes
<1>4. CASE DeleteIndex(t)
  BY <1>4, <1>2, <1>3, <1>1 DEF DeleteIndex, At, Sequenced, Spared, Gens, Sets, StatsWithin
<1>5. CASE DropStats(t)
  BY <1>5, <1>2 DEF DropStats, At, Sequenced, Spared, Stays, StatsWithin
<1>6. CASE Backfill(t)
  <2>1. job[t].pc = "fill"
    BY <1>6 DEF Backfill, At
  <2>2. state.times = times
    BY <2>1 DEF Known, TileInv, Job, Indexed
  <2>3. \A v \in Vars : Len(stats[g][v]) \in Nat
    BY StoredTypes
  <2>4. \A v \in Vars : \/ stats'[g][v] = stats[g][v]
                        \/ Len(stats'[g][v]) = Len(times)
                        \/ Len(stats'[g][v]) = Len(stats[g][v]) + 1
    BY <1>6, <2>2, BackfillIs DEF Known, StatsInv
  <2>5. ASSUME NEW v \in Vars, NEW n \in Nat, n <= Len(times), n <= Len(stats[g][v])
        PROVE  n <= Len(stats'[g][v])
    <3>1. CASE stats'[g][v] = stats[g][v]
      BY <2>5, <3>1
    <3>2. CASE Len(stats'[g][v]) = Len(times)
      BY <2>5, <3>2
    <3>3. CASE Len(stats'[g][v]) = Len(stats[g][v]) + 1
      BY <2>3, <2>5, <3>3
    <3> QED
      BY <2>4, <3>1, <3>2, <3>3
  <2> QED
    BY <2>5 DEF StatsWithin
<1>7. CASE MakeIndex(t) \/ FinishIndex(t) \/ Reload(t) \/ NothingToFill(t)
  BY <1>7 DEF MakeIndex, FinishIndex, Reload, NothingToFill, tileVars, tileStore, StatsWithin
<1> QED
  BY <1>4, <1>5, <1>6, <1>7 DEF Subroutine

LEMMA StatsWithinStep ==
  ASSUME Known, Sequenced, Indexed, [Next]_vars, NEW g \in Gens, Spared(g)
  PROVE  StatsWithin(g)
<1>1. CASE TileWrites
  <2>1. CASE AppendScene \/ BackfillStats
    BY <2>1 DEF AppendScene, BackfillStats, BeginTile, tileStore, StatsWithin
  <2> QED
    BY <1>1, <2>1, StatsWithinAppends, StatsWithinSubroutine DEF TileWrites
<1>2. CASE ~TileWrites
  BY <1>2, TileElse DEF StatsWithin
<1> QED
  BY <1>1, <1>2

LEMMA KeptStatsStep ==
  ASSUME Known, Sequenced, Putting, Indexed, TileUnknown, KeptStats, UNCHANGED tileSnap, [Next]_vars
  PROVE  KeptStats'
<1> DEFINE g == tileSnap.gen
           Was == Spared(g)
           j == job["admin"].pc
           w == job'["admin"].pc
<1>1. SUFFICES ASSUME g # 0, g = current'.prev \/ (g = parcels'.gen /\ ~TileRemade'), NEW v \in Vars
               PROVE  tileSnap.statsN[v] <= Len(stats'[g][v])
  BY DEF KeptStats
<1>2. /\ g \in Gens /\ tileSnap.statsN[v] \in Nat /\ tileSnap.statsN[v] <= Len(times)
      /\ Len(times) \in Nat
  BY LenProperties, <1>1 DEF Known, StatsInv, TileTyped, OfTile, IsState, TileInv, Snapshots, Begins
<1>3. CASE Was
  BY <1>1, <1>3, <1>2, StatsWithinStep DEF KeptStats, Spared, StatsWithin
<1>4. CASE ~Was
  <2>1. /\ g = parcels.gen /\ parcels' = parcels /\ j \in {"tiles"} \cup Subroutines /\ ~TileRemade'
    <3>1. j \in {"dropParcels", "tiles"} \cup Subroutines <=> TileRemade
      BY DEF TileRemade
    <3>2. w \in {"dropParcels", "tiles"} \cup Subroutines <=> TileRemade'
      BY DEF TileRemade, Subroutines
    <3>3. CASE j = "load" /\ w = "dropParcels" /\ current' = current
      BY <1>1, <1>4, <3>2, <3>3 DEF Spared
    <3>4. CASE /\ j = "current" /\ w = "load" /\ current'.prev = parcels.gen /\ parcels' = parcels
      BY <1>1, <1>4, <3>1, <3>4 DEF Spared, Subroutines
    <3>5. CASE UNCHANGED <<current, parcels>> /\ (j = "dropParcels" => w \in {"dropParcels", "tiles"})
      BY <1>1, <1>4, <3>1, <3>2, <3>5 DEF Spared
    <3> QED
      BY <3>3, <3>4, <3>5, ParcelsFollow
  <2>2. CASE ~TileWrites
    BY <2>1, <2>2, TileElse, <1>1 DEF TileRemade, Subroutines, TileUnknown
  <2>3. CASE TileWrites
    <3>1. Subroutine("admin")
      <4>1. ASSUME ~Subroutine("admin") PROVE job'["admin"] = job["admin"]
        <5>1. CASE Subroutine("scenes")
          BY <5>1, SubroutineMoves, KnownTypes DEF Known, StatsInv, Moves
        <5>2. CASE Appends
          BY <5>2, AppendsMoves, KnownTypes DEF Known, StatsInv, Moves
        <5>3. CASE AppendScene \/ BackfillStats
          BY <5>3, KnownTypes DEF AppendScene, BackfillStats, BeginTile
        <5> QED
          BY <2>3, <4>1, <5>1, <5>2, <5>3 DEF TileWrites
      <4> QED
        BY <2>1, <4>1 DEF TileRemade
    <3>2. j \in Subroutines /\ w \notin Subroutines /\ DOMAIN job = Threads /\ "admin" \in Threads
          /\ DOMAIN job["admin"] = DOMAIN Idle
      BY <2>1, <3>1, SubroutineMoves, KnownTypes DEF TileRemade, Known, StatsInv
    <3>3. ASSUME NEW pc, Goto("admin", pc) PROVE w = pc
      BY <3>2, <3>3, GotoIs
    <3>4. (j = "filled" \/ (j = "fill" /\ state.gen = 0)) /\ stats' = stats
      <4>1. CASE DeleteIndex("admin") \/ MakeIndex("admin") \/ FinishIndex("admin") \/ DropStats("admin")
        BY <4>1, <3>2, <3>3 DEF DeleteIndex, MakeIndex, FinishIndex, DropStats, Subroutines
      <4>2. CASE Reload("admin")
        BY <3>2, <3>3, <4>2 DEF Reload, At, Subroutines, tileStore
      <4>3. CASE NothingToFill("admin")
        BY <4>3 DEF NothingToFill, At, tileVars, tileStore
      <4>4. CASE Backfill("admin")
        BY <4>4, <3>2, <3>3 DEF Backfill, Idle, Subroutines
      <4> QED
        BY <3>1, <4>1, <4>2, <4>3, <4>4 DEF Subroutine
    <3>5. state.gen = parcels.gen /\ (j = "filled" => Len(stats[g][v]) = Len(times))
      BY <2>1, <3>4 DEF Indexed
    <3> QED
      BY <1>1, <1>2, <2>1, <3>4, <3>5
  <2> QED
    BY <2>2, <2>3
<1> QED
  BY <1>3, <1>4

LEMMA KeptTileStep ==
  ASSUME Known, Sequenced, Putting, KeptTile, [Next]_vars
  PROVE  KeptTile'
<1>1. Indexed'
  BY IndexedStep DEF KeptTile
<1>2. TileUnknown' /\ KeptStats'
  <2>1. CASE TileReads /\ UNCHANGED <<index, stats, times, state, job, current, parcels>>
    BY <2>1, KeptReads DEF KeptTile
  <2>2. CASE UNCHANGED <<tileSnap, tileNew>>
    BY <2>2, TileUnknownStep, KeptStatsStep DEF KeptTile
  <2> QED
    BY <2>1, <2>2, TileReadsOf
<1> QED
  BY <1>1, <1>2 DEF KeptTile
-----------------------------------------------------------------------------
(* The samples. Who brings them has the source at the parcels there are.    *)
LEMMA SampledNowStep ==
  ASSUME Known, SamplesKept, Sequenced, SampledNow, [Next]_vars
  PROVE  SampledNow'
<1> DEFINE j == job["admin"].pc
           w == job'["admin"].pc
           Brings == OfSamples \cup {"sampling"}
<1>1. SUFFICES ASSUME w \in Brings PROVE wstate'.gen = parcels'.gen
  BY DEF SampledNow, OfSamples
<1>2. j \in Brings => wstate.gen = parcels.gen
  BY DEF SampledNow
<1>3. w \in AtSamples /\ w \notin SetUps \cup {"end", "sample"} /\ w \notin {"load", "dropParcels"}
  BY <1>1 DEF OfSamples, SetUps, AtSamples
<1>4. CASE SamplingNext("admin")
  <2>1. parcels' = parcels /\ DOMAIN job = Threads /\ "admin" \in Threads /\ DOMAIN job["admin"] = DOMAIN Idle
    BY <1>4, SamplingKeeps, KnownTypes
  <2>2. CASE CutSamples("admin") \/ PutSamples("admin") \/ MarkSamples("admin") \/ Sampling("admin")
    BY <2>2, <1>2, <2>1 DEF CutSamples, PutSamples, MarkSamples, Sampling, At, OfSamples, sourceVars
  <2>3. CASE Sample("admin") \/ SetUpDone("admin")
    BY <2>3, KeptLoads, <1>3, <2>1, LoadedFor DEF SetUps, Sample, SetUpDone
  <2>4. CASE SamplingEnds("admin")
    BY <2>1, <2>4, GotoIs, <1>3 DEF SamplingEnds
  <2>5. CASE DeleteSamples("admin") \/ MakeSamples("admin") \/ ReadySamples("admin") \/ DropSamples("admin")
    BY <2>5, <1>3, <1>4, SetUpsLead DEF DeleteSamples, MakeSamples, ReadySamples, DropSamples, At, SetUps
  <2> QED
    BY <1>4, <2>2, <2>3, <2>4, <2>5 DEF SamplingNext
<1>5. CASE SamplingNext("steps")
  BY <1>5, SamplingKeeps, <1>3
<1>6. CASE AppendSteps \/ CutValues \/ PutValues \/ CommitSteps
  BY <1>6, AddingAlone, <1>3
<1>7. CASE ~SourceWrites
  BY <1>3, <1>7, ElseStays, ParcelsFollow, <1>1, <1>2
<1> QED
  BY <1>4, <1>5, <1>6, <1>7 DEF SourceWrites

(* What the reader reads, and what the process that writes has opened.      *)
SourceReads == RefreshSource \/ RefreshValues \/ RefreshSamples \/ RefreshSampleArrays

LEMMA SourceReadsOf ==
  ASSUME Known, [Next]_vars
  PROVE  \/ SourceReads /\ UNCHANGED <<samples, steps, wstate, job, current, parcels>>
         \/ UNCHANGED <<sourceSnap, sourceNew>>
<1>1. CASE SourceReads
  BY <1>1 DEF SourceReads, RefreshSource, RefreshValues, RefreshSamples, RefreshSampleArrays, sourceStore
<1>2. CASE \E t \in {"steps", "admin"} : SamplingNext(t)
  BY <1>2, SamplingStays DEF SourceStays
<1>3. CASE AppendSteps \/ CutValues \/ PutValues \/ CommitSteps
  BY <1>3 DEF AppendSteps, CutValues, PutValues, CommitSteps, sourceRead
<1>4. CASE CreateWeather \/ DescribeSource \/ RegisterSource \/ OpenSource \/ SampleParcels
  BY <1>4 DEF CreateWeather, DescribeSource, RegisterSource, OpenSource, SampleParcels, sourceRead, sourceVars
<1>5. CASE UNCHANGED sourceVars
  BY <1>5 DEF sourceVars, sourceRead
<1>6. CASE Restart
  BY <1>6 DEF Restart, RestartSource, sourceRead
<1> QED
  BY <1>1, <1>2, <1>3, <1>4, <1>5, <1>6 DEF Next, SourceNext, SourceReads, ParcelsNext, SamplingNext, vars

LEMMA SourceOpens ==
  ASSUME Known, Sequenced, [Next]_vars
  PROVE  (wstate.open => wstate'.open) /\ (wstate.open \/ samples' = samples)
<1>1. CASE \E t \in {"steps", "admin"} : SamplingNext(t)
  <2>1. PICK t \in {"steps", "admin"} : SamplingNext(t)
    BY <1>1
  <2>2. job[t].pc \in AtSamples
    BY <2>1 DEF SamplingNext, CutSamples, PutSamples, MarkSamples, Sample, Sampling, SamplingEnds, SetUpDone,
                DeleteSamples, MakeSamples, ReadySamples, DropSamples, At, AtSamples, SetUps, OfSamples
  <2>3. wstate.open
    BY <2>2 DEF Known, SamplesInv, AloneSource, AtSamples, SetUps, OfSamples
  <2> QED
    BY <2>1, <2>3, SamplingKeeps DEF LoadedSource
<1>2. CASE AppendSteps \/ CutValues \/ PutValues \/ CommitSteps
  <2>1. wstate.open
    BY <1>2 DEF AppendSteps, CutValues, PutValues, CommitSteps, At, Known, SamplesInv, AloneSource
  <2>2. wstate' = wstate \/ wstate' = LoadedSource(parcels)
    BY <1>2 DEF AppendSteps, CutValues, PutValues, CommitSteps
  <2> QED
    BY <2>1, <2>2 DEF LoadedSource
<1>3. CASE CreateWeather \/ DescribeSource \/ RegisterSource \/ OpenSource \/ SampleParcels
  BY <1>3 DEF CreateWeather, DescribeSource, RegisterSource, OpenSource, SampleParcels, sourceStore, sourceVars, LoadedSource
<1>4. CASE UNCHANGED sourceVars
  BY <1>4 DEF sourceVars, sourceStore
<1>5. CASE SourceReads
  BY <1>5 DEF SourceReads, RefreshSource, RefreshValues, RefreshSamples, RefreshSampleArrays, sourceStore
<1>6. ~Restart
  BY RestartIs DEF Loses, Sequenced
<1> QED
  BY <1>1, <1>2, <1>3, <1>4, <1>5, <1>6 DEF Next, SourceNext, SourceReads, ParcelsNext, SamplingNext, vars

LEMMA SourceUnknownStep ==
  ASSUME Known, Sequenced, SourceUnknown, [Next]_vars
  PROVE  SourceUnknown'
<1>1. SUFFICES ASSUME ~wstate'.open
               PROVE  sourceSnap'.gen = 0 /\ sourceNew'.gen = 0 /\ \A g \in Gens : samples'[g].at = "none"
  BY DEF SourceUnknown
<1>2. /\ samples' = samples /\ sourceSnap.gen = 0 /\ sourceNew.gen = 0
      /\ \A g \in Gens : samples[g].at = "none"
  BY <1>1, SourceOpens DEF SourceUnknown
<1>3. CASE SourceReads
  <2>1. /\ NoSource.gen = 0 /\ DOMAIN sourceNew = DOMAIN NoSource /\ SampledFor(refresh.parcels) = 0
        /\ DOMAIN NoSource = {"open", "steps", "gen", "pwSteps"}
    BY <1>2, KnownTypes DEF NoSource, Known, SourceInv, Reading, SampledFor, Sets
  <2>2. CASE RefreshSource \/ RefreshValues
    BY <2>2, <1>2, <2>1 DEF RefreshSource, RefreshValues
  <2>3. CASE RefreshSamples \/ RefreshSampleArrays
    BY <2>1, <2>3, <1>2 DEF RefreshSamples, RefreshSampleArrays
  <2> QED
    BY <1>2, <1>3, <2>2, <2>3 DEF SourceReads
<1>4. CASE UNCHANGED <<sourceSnap, sourceNew>>
  BY <1>2, <1>4
<1> QED
  BY <1>2, <1>3, <1>4, SourceReadsOf

LEMMA KeptSamplesRead ==
  ASSUME Known, KeptSamples(sourceSnap), KeptSamples(sourceNew), SourceReads,
         UNCHANGED <<samples, steps, wstate, job, current, parcels>>
  PROVE  KeptSamples(sourceSnap)' /\ KeptSamples(sourceNew)'
<1> DEFINE g == SampledFor(refresh.parcels)
<1>1. /\ NoSource.gen = 0 /\ DOMAIN sourceNew = DOMAIN NoSource /\ g \in Gens \cup {0}
      /\ DOMAIN NoSource = {"open", "steps", "gen", "pwSteps"} /\ IsSource(sourceNew)
  BY KnownTypes DEF NoSource, Known, SourceInv, Reading, SampledFor, Sets, SamplesInv, OfSource
<1>2. SourceRemade' <=> SourceRemade
  BY DEF SourceRemade, ToSources
<1>3. KeptSamples(sourceSnap)'
  BY <1>2 DEF SourceReads, RefreshSource, RefreshValues, RefreshSamples, RefreshSampleArrays, KeptSamples
<1>4. KeptSamples(sourceNew)'
  <2>1. CASE sourceNew'.gen = 0
    BY <2>1 DEF KeptSamples
  <2>2. CASE sourceNew'.gen = sourceNew.gen /\ sourceNew'.pwSteps = sourceNew.pwSteps
    BY <1>2, <2>2 DEF KeptSamples
  <2>3. CASE RefreshSource \/ RefreshValues
    BY <2>3, <1>1, <2>1, <2>2 DEF RefreshSource, RefreshValues
  <2>4. CASE RefreshSampleArrays
    BY <1>1, <2>1, <2>4 DEF RefreshSampleArrays
  <2>5. CASE RefreshSamples /\ g = 0
    BY <1>1, <2>1, <2>5 DEF RefreshSamples
  <2>6. CASE RefreshSamples /\ g # 0
    BY <2>6, <1>1, CoreTypes DEF RefreshSamples, PwSteps, IsSource, Min, KeptSamples
  <2> QED
    BY <2>3, <2>4, <2>5, <2>6 DEF SourceReads
<1> QED
  BY <1>3, <1>4

(* A generation that readers may know keeps its samples, as far as they are *)
(* of the steps there are.                                                  *)
SparedSource(g) == g = current.prev \/ (g = parcels.gen /\ ~SourceRemade)
StepsWithin(g) == \A n \in Nat : n <= samples[g].steps /\ n <= steps => n <= samples'[g].steps

LEMMA StepsWithinStep ==
  ASSUME Known, SamplesKept, Sequenced, SourceReady, [Next]_vars, NEW g \in Gens, SparedSource(g)
  PROVE  StepsWithin(g)
<1>1. steps \in Nat /\ samples[g].steps \in Nat /\ samples \in [Gens -> Sampled]
  BY CoreTypes
<1>2. samples'[g].steps = samples[g].steps => StepsWithin(g)
  BY DEF StepsWithin
<1>3. CASE \E t \in {"steps", "admin"} : SamplingNext(t)
  <2>1. PICK t \in {"steps", "admin"} : SamplingNext(t)
    BY <1>3
  <2>2. job[t].pc \in SetUps => job[t].set = parcels /\ SourceRemade /\ job["admin"].pc # "load"
    BY DEF SourceReady, SamplesKept, SettingUp, SourceRemade, ToSources, SetUps, Subroutines
  <2>3. CASE DeleteSamples(t)
    BY <2>3, <2>2, KnownTypes, <1>1, <1>2 DEF DeleteSamples, At, SetUps, Sequenced, SparedSource, Gens, Sets
  <2>4. CASE DropSamples(t)
    BY <2>4, <2>2, <1>2 DEF DropSamples, At, SetUps, Sequenced, SparedSource, Stays
  <2>5. CASE MakeSamples(t) \/ ReadySamples(t)
    <3>1. \E at \in {"begun", "ready"} : samples' = [samples EXCEPT ![job[t].set.gen].at = at]
      BY <2>5 DEF MakeSamples, ReadySamples
    <3>2. samples'[g].steps = samples[g].steps
      BY <1>1, <3>1 DEF Sampled
    <3> QED
      BY <1>2, <3>2
  <2>6. CASE CutSamples(t)
    BY <1>2, <2>6, CutSamplesIs DEF Known, StatsInv
  <2>7. CASE PutSamples(t)
    <3> DEFINE j == job[t]
    <3>1. \E rows : samples' = [samples EXCEPT ![wstate.gen].of[j.k] = samples[wstate.gen].of[j.k] \o rows]
      BY <2>7 DEF PutSamples
    <3>2. samples'[g].steps = samples[g].steps
      BY <1>1, <3>1 DEF Sampled
    <3> QED
      BY <1>2, <3>2
  <2>8. CASE MarkSamples(t)
    <3>1. job[t].pc \in OfSamples /\ samples' = [samples EXCEPT ![wstate.gen].steps = job[t].n + job[t].count]
      BY <2>8 DEF MarkSamples, At, OfSamples
    <3>2. /\ wstate.gen \in Gens /\ Min(samples[wstate.gen].steps, steps) <= job[t].n
          /\ job[t].n \in Nat /\ job[t].count \in Nat
      BY <3>1, AtArrays, CoreTypes
    <3>3. CASE g = wstate.gen
      <4>1. samples'[g].steps = job[t].n + job[t].count
        BY <1>1, <3>1, <3>3 DEF Sampled
      <4>2. ASSUME NEW n \in Nat, n <= samples[g].steps, n <= steps PROVE n <= samples'[g].steps
        BY <1>1, <3>2, <3>3, <4>2, <4>1 DEF Min
      <4> QED
        BY <4>2 DEF StepsWithin
    <3>4. CASE g # wstate.gen
      BY <1>1, <1>2, <3>1, <3>4
    <3> QED
      BY <3>3, <3>4
  <2>9. CASE Sample(t) \/ SetUpDone(t) \/ Sampling(t) \/ SamplingEnds(t)
    BY <1>2, <2>9 DEF Sample, SetUpDone, Sampling, SamplingEnds, sourceVars, sourceStore
  <2> QED
    BY <2>1, <2>3, <2>4, <2>5, <2>6, <2>7, <2>8, <2>9 DEF SamplingNext
<1>4. CASE AppendSteps \/ CutValues \/ PutValues \/ CommitSteps
  BY <1>2, <1>4, AddingAlone
<1>5. CASE ~SourceWrites
  BY <1>2, <1>5, ElseStays
<1> QED
  BY <1>3, <1>4, <1>5 DEF SourceWrites

(* Who brings samples does nothing else.                                    *)
LEMMA SamplesElse ==
  ASSUME Known, Putting, Sequenced, [Next]_vars, ~SourceWrites, job["admin"].pc \in OfSamples \cup {"sampling"}
  PROVE  job'["admin"] = job["admin"]
<1> DEFINE j == job["admin"].pc
<1>1. /\ j \notin {"idle", "end", "current", "load", "dropParcels", "tiles", "sources"}
      /\ j \notin {"describe", "register", "open", "describeSource", "registerSource", "openSource"}
      /\ j \notin Subroutines
  BY DEF OfSamples, Subroutines
<1>2. ~Loses /\ ~Restart
  BY RestartIs DEF Loses, Sequenced
<1>3. CASE ParcelsNext
  BY <1>1, PutParcelsIs, PutStepsAre, <1>2, <1>3, AdminParcels DEF AdminStays, AdminReturns
<1>4. CASE TileNext
  <2>1. CASE \E t \in {"scenes", "admin"} : Subroutine(t)
    <3>1. PICK t \in {"scenes", "admin"} : Subroutine(t)
      BY <2>1
    <3>2. job[t].pc \in Subroutines /\ Moves(t)
      BY <3>1, SubroutineMoves DEF Known, StatsInv
    <3>3. t = "scenes"
      BY <1>1, <3>2
    <3> QED
      BY <3>2, <3>3, KnownTypes DEF Moves
  <2>2. CASE Appends
    BY <2>2, AppendsMoves, KnownTypes DEF Known, StatsInv, Moves
  <2>3. CASE AppendScene \/ BackfillStats
    BY <2>3, KnownTypes DEF AppendScene, BackfillStats, BeginTile
  <2>4. CASE CreateTile \/ DescribeTile \/ RegisterTile \/ OpenTile \/ IndexParcels
    BY <1>1, <2>4 DEF CreateTile, DescribeTile, RegisterTile, OpenTile, IndexParcels, At
  <2>5. CASE RefreshTile \/ TileReads
    BY <2>5 DEF TileReads, RefreshTile, RefreshTimes, RefreshArrays, RefreshIndex, RefreshStats
  <2> QED
    BY <1>4, <2>1, <2>2, <2>3, <2>4, <2>5 DEF TileNext, TileReads, Subroutine, Appends
<1>5. CASE SourceNext
  <2>1. CASE CreateWeather \/ DescribeSource \/ RegisterSource \/ OpenSource \/ SampleParcels
    BY <1>1, <2>1 DEF CreateWeather, DescribeSource, RegisterSource, OpenSource, SampleParcels, At
  <2>2. CASE SourceReads
    BY <2>2 DEF SourceReads, RefreshSource, RefreshValues, RefreshSamples, RefreshSampleArrays
  <2> QED
    BY <1>5, <2>1, <2>2 DEF SourceNext, SourceReads, SourceWrites, SamplingNext
<1>6. CASE UNCHANGED vars
  BY <1>6 DEF vars, parcelVars
<1> QED
  BY <1>2, <1>3, <1>4, <1>5, <1>6 DEF Next

(* Where the parcels there are stop being ones to sample again, the samples *)
(* are of all the steps.                                                    *)
LEMMA SampledAgain ==
  ASSUME Known, SamplesKept, Putting, Sequenced, SampledNow, wstate.open, [Next]_vars,
         UNCHANGED <<current, parcels>>, SourceRemade, ~SourceRemade'
  PROVE  samples' = samples /\ steps <= samples[parcels.gen].steps
<1> DEFINE j == job["admin"].pc
           w == job'["admin"].pc
<1>1. /\ ~ToSources' /\ w \notin SetUps \cup OfSamples \cup {"sample", "sampling"}
      /\ ToSources \/ j \in SetUps \cup OfSamples \cup {"sample", "sampling"}
  BY DEF SourceRemade, SetUps, OfSamples
<1>2. ~Loses /\ ~Restart
  BY RestartIs DEF Loses, Sequenced
<1>3. job'["admin"] # job["admin"]
  BY <1>1 DEF ToSources, Subroutines
<1>4. /\ j \in {"dropParcels", "tiles", "sources"} \cup Subroutines \cup SetUps \cup OfSamples \cup {"sample", "sampling"}
      /\ j \in {"tiles"} \cup Subroutines => job["admin"].next = "sources"
  BY <1>1 DEF ToSources, Subroutines, SetUps, OfSamples
<1>5. j \notin {"idle", "end", "current", "load"}
  BY <1>4 DEF Subroutines, SetUps, OfSamples
<1>6. CASE MakeCurrent \/ LoadParcels \/ DropParcels
  BY <1>5, <1>6, PutStepsAre, <1>1 DEF Putting, ToSources
<1>7. CASE AdminGoes
  <2>1. j \in AtSamples /\ w \in {"sampled", "end"} /\ j \notin SetUps \cup {"sample"}
    <3>1. CASE j \in {"tiles"} \cup Subroutines
      BY <1>4, <1>7, <3>1, <1>1 DEF AdminGoes, Creates, AtSamples, SetUps, OfSamples, Subroutines, ToSources
    <3>2. CASE j = "sources"
      BY <1>7, <3>2, <1>1 DEF AdminGoes, Creates, AtSamples, SetUps, OfSamples, Subroutines
    <3>3. CASE j = "dropParcels"
      BY <1>7, <3>3, AdminGoesOn
    <3>4. CASE j \in SetUps \cup OfSamples \cup {"sample", "sampling"}
      BY <1>7, <3>4, <1>1 DEF AdminGoes, Creates, AtSamples, SetUps, OfSamples, Subroutines
    <3> QED
      BY <1>4, <3>1, <3>2, <3>3, <3>4
  <2>2. j \in OfSamples \cup {"sampling"}
    BY <1>4, <2>1 DEF AtSamples, Subroutines, SetUps, OfSamples
  <2>3. SamplingNext("admin")
    <3>1. CASE SamplingNext("steps")
      BY <1>3, <3>1, SamplingKeeps
    <3>2. CASE AppendSteps \/ CutValues \/ PutValues \/ CommitSteps
      BY <1>3, <3>2, AddingAlone
    <3>3. CASE ~SourceWrites
      BY <1>3, <2>2, <3>3, SamplesElse
    <3> QED
      BY <3>1, <3>2, <3>3 DEF SourceWrites
  <2>4. DOMAIN job = Threads /\ "admin" \in Threads /\ DOMAIN job["admin"] = DOMAIN Idle /\ job["admin"].row = 0
    BY KnownTypes DEF Known, SamplesInv, Amounts
  <2>5. ASSUME NEW pc, Goto("admin", pc) PROVE w = pc
    BY <2>4, <2>5, GotoIs
  <2>6. Sampling("admin") /\ j = "sampling" /\ ~(job["admin"].n < wstate.steps)
    <3>1. CASE CutSamples("admin") \/ PutSamples("admin") \/ MarkSamples("admin")
      <4>1. w \in {"putSamples", "cutSamples", "markSamples", "sampling"}
        BY <2>4, <2>5, <3>1 DEF CutSamples, PutSamples, NextArray, MarkSamples, Idle
      <4> QED
        BY <2>1, <4>1
    <3>2. CASE Sampling("admin")
      BY <2>4, <3>2, <2>1 DEF Sampling, At, Idle
    <3>3. CASE Sample("admin") \/ SamplingEnds("admin") \/ SetUpDone("admin") \/ DeleteSamples("admin")
               \/ MakeSamples("admin") \/ ReadySamples("admin") \/ DropSamples("admin")
      BY <2>2, <3>3 DEF Sample, SamplingEnds, SetUpDone, DeleteSamples, MakeSamples, ReadySamples, DropSamples, At, OfSamples
    <3> QED
      BY <2>3, <3>1, <3>2, <3>3 DEF SamplingNext
  <2>7. /\ wstate.gen = parcels.gen /\ wstate.gen \in Gens /\ wstate.steps = steps
        /\ job["admin"].n = Min(samples[wstate.gen].steps, steps)
    BY <2>6, CoreTypes DEF SampledNow, SamplesKept, Bringing
  <2>8. steps \in Nat /\ samples[wstate.gen].steps \in Nat
    BY <2>7, CoreTypes
  <2>9. steps <= samples[parcels.gen].steps
    BY <2>6, <2>7, <2>8 DEF Min
  <2> QED
    BY <2>6, <2>9 DEF Sampling, sourceVars, sourceStore
<1>8. ~PutParcels
  BY <1>5, PutParcelsIs
<1> QED
  BY <1>2, <1>3, <1>5, <1>6, <1>7, <1>8, AdminMoves DEF AdminStays, AdminReturns

LEMMA KeptSamplesStep ==
  ASSUME Known, SamplesKept, Putting, Sequenced, SourceReady, SampledNow, wstate.open, [Next]_vars,
         NEW g \in Gens, NEW n \in Nat, n <= steps,
         SparedSource(g) => n <= samples[g].steps, g = current'.prev \/ (g = parcels'.gen /\ ~SourceRemade')
  PROVE  n <= samples'[g].steps
<1> DEFINE j == job["admin"].pc
           w == job'["admin"].pc
<1>1. steps \in Nat /\ samples[g].steps \in Nat
  BY CoreTypes
<1>2. CASE SparedSource(g)
  BY <1>2, StepsWithinStep DEF StepsWithin
<1>3. CASE ~SparedSource(g)
  <2>1. CASE j = "load" /\ w = "dropParcels" /\ current' = current
    BY <2>1, <1>3 DEF SourceRemade, ToSources, SparedSource
  <2>2. CASE j = "current" /\ current'.prev = parcels.gen /\ parcels' = parcels
    BY <2>2, <1>3 DEF SourceRemade, ToSources, Subroutines, SetUps, OfSamples, SparedSource
  <2>3. CASE UNCHANGED <<current, parcels>>
    BY <1>3, <2>3, SampledAgain, <1>1 DEF SparedSource
  <2> QED
    BY <2>1, <2>2, <2>3, ParcelsFollow
<1> QED
  BY <1>2, <1>3

LEMMA KeptSourceStep ==
  ASSUME Known, SamplesKept, Putting, Sequenced, SourceReady, KeptSource, [Next]_vars
  PROVE  KeptSource'
<1>1. SampledNow' /\ SourceUnknown'
  BY SampledNowStep, SourceUnknownStep DEF KeptSource
<1>2. KeptSamples(sourceSnap)' /\ KeptSamples(sourceNew)'
  <2>1. CASE SourceReads /\ UNCHANGED <<samples, steps, wstate, job, current, parcels>>
    BY <2>1, KeptSamplesRead DEF KeptSource
  <2>2. CASE UNCHANGED <<sourceSnap, sourceNew>>
    <3>1. /\ \A s \in {sourceSnap, sourceNew} : /\ s.gen \in Gens \cup {0} /\ s.pwSteps \in Nat /\ s.pwSteps <= steps
                                                /\ KeptSamples(s) /\ (~wstate.open => s.gen = 0)
      BY CoreTypes DEF Known, SamplesInv, OfSource, SourceInv, Reading, IsSource, KeptSource, SourceUnknown
    <3>2. \A s \in {sourceSnap, sourceNew} :
            s.gen # 0 /\ (s.gen = current'.prev \/ (s.gen = parcels'.gen /\ ~SourceRemade')) =>
              s.pwSteps <= samples'[s.gen].steps
      <4>1. TAKE s \in {sourceSnap, sourceNew}
      <4>2. HAVE s.gen # 0 /\ (s.gen = current'.prev \/ (s.gen = parcels'.gen /\ ~SourceRemade'))
      <4>3. PICK g \in Gens, n \in Nat : g = s.gen /\ n = s.pwSteps
        BY <3>1, <4>2
      <4>4. SparedSource(g) => n <= samples[g].steps
        BY <3>1, <4>2, <4>3 DEF KeptSamples, SparedSource
      <4>5. wstate.open /\ n <= steps /\ SampledNow
        BY <3>1, <4>2, <4>3 DEF KeptSource
      <4>6. n <= samples'[g].steps
        BY <4>2, <4>3, <4>4, <4>5, KeptSamplesStep
      <4> QED
        BY <4>3, <4>6
    <3> QED
      BY <2>2, <3>2 DEF KeptSamples
  <2> QED
    BY <2>1, <2>2, SourceReadsOf
<1> QED
  BY <1>1, <1>2 DEF KeptSource

LEMMA KeepingStep ==
  ASSUME Known, CoreInv, Keeping, [Next]_vars
  PROVE  Keeping'
<1>1. CASE SingleSet
  BY <1>1, SingleSetStep DEF Keeping
<1>2. CASE ~SingleSet
  BY <1>2, SequencedStep, KeptTileStep, KeptSourceStep DEF Keeping, CoreInv, SourceControl
<1> QED
  BY <1>1, <1>2

(* What readers know is there: they read nothing that is not.               *)
LEMMA BeforeKept ==
  ASSUME Known, SamplesKept, Keeping
  PROVE  GenerationBeforeKept
<1> DEFINE set == refresh.parcels
<1>1. SUFFICES ASSUME set.gen = current.prev, set.gen # 0, NEW v \in Vars
               PROVE  /\ \A i \in DOMAIN ParcelSeries(tileSnap, set, v) : ParcelSeries(tileSnap, set, v)[i].value # Fill
                      /\ \A i \in DOMAIN ParcelWeather(sourceSnap, set, v) : ParcelWeather(sourceSnap, set, v)[i] # Fill
  BY DEF GenerationBeforeKept
<1>2. KeptTile /\ KeptSource /\ set.gen \in Gens
  BY <1>1, KnownTypes DEF Keeping, SingleSet, Sets
<1>3. ASSUME NEW i \in DOMAIN ParcelSeries(tileSnap, set, v)
      PROVE  ParcelSeries(tileSnap, set, v)[i].value # Fill
  <2> DEFINE n == IF tileSnap.gen = set.gen THEN tileSnap.statsN[v] ELSE 0
  <2>1. n \in Nat /\ i \in 1 .. n /\ ParcelSeries(tileSnap, set, v)[i].value = Row(stats[tileSnap.gen][v], i)
    BY <1>3 DEF ParcelSeries, Known, StatsInv, TileTyped, OfTile, IsState
  <2>2. tileSnap.gen = set.gen /\ n = tileSnap.statsN[v]
    BY <2>1
  <2>3. n <= Len(stats[set.gen][v]) /\ stats[set.gen][v] \in Seq(Time) /\ Len(stats[set.gen][v]) \in Nat
    BY <1>1, <1>2, <2>2, StoredTypes DEF KeptTile, KeptStats
  <2>4. i \in 1 .. Len(stats[set.gen][v])
    BY <2>1, <2>3
  <2>5. stats[set.gen][v][i] \in Time /\ 0 \notin Time
    BY GeodbAssumption, <2>3, <2>4, ElementOfSeq DEF Time
  <2> HIDE DEF n
  <2> QED
    BY <2>1, <2>2, <2>4, <2>5 DEF Row, Fill
<1>4. ASSUME NEW i \in DOMAIN ParcelWeather(sourceSnap, set, v)
      PROVE  ParcelWeather(sourceSnap, set, v)[i] # Fill
  <2> DEFINE n == IF sourceSnap.gen = set.gen THEN sourceSnap.pwSteps ELSE 0
             g == set.gen
  <2>1. n \in Nat /\ i \in 1 .. n /\ ParcelWeather(sourceSnap, set, v)[i] = Row(samples[sourceSnap.gen].of[v], i)
    BY <1>4 DEF ParcelWeather, Known, SamplesInv, OfSource, IsSource
  <2>2. sourceSnap.gen = g /\ n = sourceSnap.pwSteps
    BY <2>1
  <2>3. n <= samples[g].steps
    BY <1>1, <1>2, <2>2 DEF KeptSource, KeptSamples
  <2>4. n <= steps
    BY CoreTypes, <2>2 DEF Known, SamplesInv, OfSource, IsSource, SourceInv, Reading
  <2>5. Min(samples[g].steps, steps) <= Len(samples[g].of[v])
    BY <1>2 DEF SamplesKept, MarksKept, Enough
  <2>6. /\ samples[g].of[v] \in Seq(Values) /\ Len(samples[g].of[v]) \in Nat /\ samples[g].steps \in Nat /\ steps \in Nat
    BY <1>2, CoreTypes DEF Sampled
  <2>7. n <= Len(samples[g].of[v])
    <3> HIDE DEF n
    <3>1. CASE samples[g].steps < steps
      BY <2>1, <2>3, <2>5, <2>6, <3>1 DEF Min
    <3>2. CASE ~(samples[g].steps < steps)
      BY <2>1, <2>4, <2>5, <2>6, <3>2 DEF Min
    <3> QED
      BY <3>1, <3>2
  <2>8. i \in 1 .. Len(samples[g].of[v])
    BY <2>1, <2>6, <2>7
  <2>9. samples[g].of[v][i] \in Values /\ 0 \notin Values
    BY <2>6, <2>8, ElementOfSeq, GeodbAssumption
  <2> HIDE DEF n
  <2> QED
    BY <2>1, <2>2, <2>8, <2>9 DEF Row, Fill
<1> QED
  BY <1>3, <1>4

(* Where nothing fails or there only ever is one generation of parcels, a   *)
(* reader of the parcels before the last reads no statistic and no sample   *)
(* that is not there: what was made for them is neither dropped nor cut     *)
(* short while it is made for the last (parcels.go:144-148, 209-232,        *)
(* tile.go:433, 473, weather.go:500).                                       *)
THEOREM EarlierGenerationKept == PlansAreUntorn => (Spec => []GenerationBeforeKept)
<1> SUFFICES ASSUME PlansAreUntorn PROVE Spec => []GenerationBeforeKept
  OBVIOUS
<1> DEFINE Rest == StatsInv /\ SamplesInv /\ CoreInv /\ Keeping
<1>1. Init => Rest
  BY InitTyped, InitStats, InitOfSource, InitSamples, InitCore, InitKeeping DEF StatsInv, SamplesInv
<1>2. TileInv /\ SourceInv /\ Rest /\ [Next]_vars => Rest'
  <2> SUFFICES ASSUME TileInv, SourceInv, Rest, [Next]_vars PROVE Rest'
    OBVIOUS
  <2>1. Known
    BY DEF Known
  <2>2. StatsInv'
    BY StatsStep
  <2>3. SamplesInv'
    BY SamplesStep DEF StatsInv
  <2>4. CoreInv' /\ Keeping'
    BY <2>1, CoreStep, KeepingStep
  <2> QED
    BY <2>2, <2>3, <2>4
<1>3. TileInv /\ SourceInv /\ Rest => GenerationBeforeKept
  BY BeforeKept DEF Known, CoreInv
<1> HIDE DEF Rest
<1> QED
  BY <1>1, <1>2, <1>3, TileInStep, SourceInStep, PTL DEF Spec
=============================================================================
