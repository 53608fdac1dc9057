------------------------------- MODULE Geodb --------------------------------
(***************************************************************************)
(* A geodb database with a tile and a weather source: a process that        *)
(* writes, with a goroutine for each and one for the parcels, which may     *)
(* fail or stop between any two writes of the store; and another process    *)
(* that reads, by a snapshot it refreshes (geodb/doc.go).                   *)
(***************************************************************************)
EXTENDS Scenes, Weather

ASSUME GeodbAssumption ==
  /\ NVars \in Nat \ {0} /\ MaxTime \in Nat /\ MaxGens \in Nat /\ ChunkSteps \in Nat \ {0}
  /\ Values \subseteq Nat \ {0} /\ MaxAppend \in Nat /\ MaxSteps \in Nat
  /\ Plans \subseteq [create : SUBSET {"tile", "source"}, made : BOOLEAN, fails : Nat, puts : Nat, rows : Nat]
  /\ \A p \in Plans : p.puts \in 0 .. (IF p.made THEN MaxGens - 1 ELSE MaxGens)

vars == <<tileVars, sourceVars, parcelVars>>

Init == InitParcels /\ InitTile /\ InitSource

(* What the parcels, a failure and a restart do in a database.              *)
ParcelsNext ==
  /\ \/ PutParcels \/ MakeCurrent \/ LoadParcels \/ DropParcels \/ RefreshParcels \/ RefreshFails
     \/ \E t \in Threads : End(t) \/ Fail(t)
     \/ RefreshBegins({n \in {"tile", "source"} :
                         IF n = "tile" THEN tile = "registered" ELSE source = "registered"})
  /\ UNCHANGED <<tileVars, sourceVars>>

Restart == RestartParcels /\ RestartTile /\ RestartSource

Next ==
  \/ TileNext /\ UNCHANGED sourceVars
  \/ SourceNext /\ UNCHANGED tileVars
  \/ ParcelsNext
  \/ Restart

Spec == Init /\ [][Next]_vars
-----------------------------------------------------------------------------
(* The type of the state.  What is stored of a scene is a scene, and only   *)
(* AppendScene stores any (tile.go:568-647); a count of samples that is     *)
(* behind has not become a count that is ahead (weather.go:384-395).        *)
TypeOK ==
  /\ {current, parcels, refresh.set, refresh.parcels} \subseteq [gen : Gens \cup {0}, prev : Gens \cup {0}]
  /\ kept \subseteq Gens
  /\ \A t \in Threads : /\ job[t].k \in Vars /\ job[t].n \in 0 .. MaxSteps
                        /\ job[t].count \in 0 .. MaxAppend + ChunkSteps
  /\ lock \in [{"tile", "source"} -> Threads \cup {"free"}]
  /\ left.fails \in Nat /\ left.puts \in Nat
  /\ {tile, source} \subseteq {"none", "begun", "described", "registered"}
  /\ times \in Seq(Time) /\ scenes \in [Vars -> Seq(Time)]
  /\ index \in [Gens -> {"none", "begun", "done"}] /\ stats \in [Gens -> [Vars -> Seq(Time)]]
  /\ \A s \in {state, tileSnap, tileNew} :
       /\ s.times \in Seq(Time) /\ s.gen \in Gens \cup {0}
       /\ \A v \in Vars : s.shape[v] \in Nat /\ s.statsN[v] \in 0 .. Len(s.times)
  /\ steps \in 0 .. MaxSteps /\ values \in [Vars -> Seq(Values)]
  /\ \A g \in Gens : samples[g].of \in [Vars -> Seq(Values)] /\ samples[g].steps \in 0 .. MaxSteps
  /\ \A s \in {wstate, sourceSnap, sourceNew} :
       /\ s.steps \in 0 .. MaxSteps /\ s.gen \in Gens \cup {0} /\ s.pwSteps \in 0 .. s.steps

(* A scene that a snapshot has, in whichever process, is read whole in      *)
(* every variable, though others are appended, appends fail part way and    *)
(* are done again, and the process that appends stops at any point:         *)
(* AppendScene writes the values before the time, appendAt cuts off what is *)
(* past the times, and reload reads the times before the arrays             *)
(* (tile.go:251-287, 568-664, 708-750).                                     *)
ReadsWholeScenes(snap) ==
  \A v \in Vars : LET history == PixelHistory(snap, v)
                  IN  \A i \in DOMAIN history : history[i].value = history[i].time
ScenesAreWhole == ReadsWholeScenes(state) /\ ReadsWholeScenes(tileSnap)

(* The statistics that ParcelSeries returns of a scene are of that scene,   *)
(* if they were not dropped since, and not of one whose append failed       *)
(* (tile.go:291-301, 624-640, query.go:47-83): doc.go:57-62, 70-73.  It is  *)
(* claimed of plans that are Untorn, below: where parcels are put into a    *)
(* database that is there and something fails, it need not be so, as the    *)
(* run GeodbLeftovers shows.                                                *)
ReadsItsStats(snap, set) ==
  \A v \in Vars : LET series == ParcelSeries(snap, set, v)
                  IN  \A i \in DOMAIN series : series[i].value \in {series[i].time, Fill}
StatsAreOfTheirScenes == ReadsItsStats(state, parcels) /\ ReadsItsStats(tileSnap, refresh.parcels)

(* Plans in which nothing fails, or no parcels are put, or they are put     *)
(* once into a database that has nothing at first.  All others are left     *)
(* out, wherever in them the failures and the puts fall: also those in      *)
(* which no put comes between an append that failed and the next.           *)
Untorn(plan) == plan.fails = 0 \/ plan.puts = 0 \/ (~plan.made /\ plan.puts = 1)
PlansAreUntorn == \A plan \in Plans : Untorn(plan)

(* The samples that ParcelWeather returns of a step are of that step,       *)
(* whether they were made when it was appended or later, from what was read *)
(* back (weather.go:206-217, 252-305, 369-465, 545-582): of plans that are  *)
(* Untorn, as with statistics.  Of Plan({"source"}, TRUE, 1, 1, 2) it is    *)
(* not so.                                                                  *)
ReadsItsSamples(snap, set) ==
  \A v \in Vars : LET series == ParcelWeather(snap, set, v)
                  IN  \A i \in DOMAIN series : series[i] \in {Series(snap, v)[i], Fill}
SamplesAreOfTheirSteps == ReadsItsSamples(wstate, parcels) /\ ReadsItsSamples(sourceSnap, refresh.parcels)

(* A reader that has yet to refresh since the parcels were put again still  *)
(* finds what was made for the generation before: dropGenerations spares it *)
(* (parcels.go:144-148, 209-232, tile.go:473, weather.go:500).  That is of  *)
(* plans that are Untorn, so of those with two generations where nothing    *)
(* fails: making an index anew may (tile.go:433), and then it is not so, as *)
(* in Plan({"tile"}, TRUE, 1, 2, 2).                                        *)
GenerationBeforeKept ==
  LET set == refresh.parcels
  IN  set.gen = current.prev /\ set.gen # 0 =>
        \A v \in Vars :
          /\ \A i \in DOMAIN ParcelSeries(tileSnap, set, v) : ParcelSeries(tileSnap, set, v)[i].value # Fill
          /\ \A i \in DOMAIN ParcelWeather(sourceSnap, set, v) : ParcelWeather(sourceSnap, set, v)[i] # Fill

(* Whatever failed can be done again: no array is short of what was         *)
(* committed, so that appendAt, which refuses to make up rows that are not  *)
(* there, has none to make up (tile.go:651-664, weather.go:369-396).  That  *)
(* too is of plans that are Untorn: in Plan({"source"}, TRUE, 1, 2, 1) the  *)
(* parcels that an append sets samples up for are not those it goes on with *)
(* (weather.go:421), and it is not so.                                      *)
CanBeDoneAgain ==
  /\ \A v \in Vars : Len(scenes[v]) >= Len(times) /\ Len(values[v]) >= steps
  /\ At("scenes", "cutStats") => Len(stats[state.gen][job["scenes"].k]) >= Len(times)
  /\ \A t \in Threads : At(t, "cutSamples") =>
       wstate.gen # 0 /\ Len(samples[wstate.gen].of[job[t].k]) >= job[t].n
-----------------------------------------------------------------------------
(* What the n first rows are of: those that are of one entry in every array.*)
Torn == 0
Entries(rows, n) ==
  [i \in 1 .. n |-> IF \A v \in Vars : i <= Len(rows[v]) /\ rows[v][i] = rows[1][i] THEN rows[1][i] ELSE Torn]
Committed(n) ==
  [i \in 1 .. n |-> IF \A v \in Vars : i <= Len(scenes[v]) /\ scenes[v][i] = times[i] THEN times[i] ELSE Torn]

(* The scenes of a tile, and the steps of a weather source several at a     *)
(* time, are logs: what has been committed is never lost or changed by an   *)
(* append that fails or is done again, and a Refresh that reads one array   *)
(* after the other, or fails, leaves its reader with a prefix of it and     *)
(* never takes a scene or a step back (doc.go:57-73, tile.go:251-304,       *)
(* 568-647, weather.go:161-218, 252-305).                                   *)
TileLog == INSTANCE SceneLog WITH Entry <- Time, Batch <- 1,
             log <- Committed(Len(times)), view <- Committed(Len(tileSnap.times))
SourceLog == INSTANCE SceneLog WITH Entry <- Values, Batch <- MaxAppend,
               log <- Entries(values, steps), view <- Entries(values, sourceSnap.steps)
ImplementsLogs == TileLog!Spec /\ SourceLog!Spec
=============================================================================
