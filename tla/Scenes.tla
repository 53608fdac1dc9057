------------------------------- MODULE Scenes -------------------------------
(***************************************************************************)
(* A tile of geodb (geodb/tile.go): its scenes, and the statistics of the   *)
(* parcels in them.                                                         *)
(*                                                                          *)
(* A scene is its time.  An array along its time axis is the sequence of    *)
(* the scenes its rows are of: those of a variable's values, and those of   *)
(* the statistics made from them for a generation of parcels.  Parcels are  *)
(* there once there is a generation, and the tile covers some.              *)
(***************************************************************************)
EXTENDS Parcels

CONSTANT MaxTime   \* bound: the times of scenes

VARIABLES
  tile,     \* store: how far CreateTile got
  scenes,   \* store: the array of each variable
  times,    \* store: the array of times, which commits a scene
  index,    \* store: how far the index for a generation of parcels got
  stats,    \* store: the statistics of each generation and variable
  state,    \* Tile.state in the process that writes
  tileSnap, \* Tile.state in the process that reads
  tileNew   \* the one its Refresh is making

tileStore == <<tile, scenes, times, index, stats>>
tileRead == <<tileSnap, tileNew>>
tileVars == <<tileStore, state, tileRead>>

Time == 1 .. MaxTime
PastEnd == MaxTime + 1   \* the error of a read past the end of an array
NoTile == [open |-> FALSE, times |-> <<>>, shape |-> [v \in Vars |-> 0],
           gen |-> 0, statsN |-> [v \in Vars |-> 0]]

MadeTile == Made /\ "tile" \in left.create
InitTile ==
  /\ tile = IF MadeTile THEN "registered" ELSE "none"
  /\ scenes = NoRows /\ times = <<>> /\ stats = [g \in Gens |-> NoRows]
  /\ index = [g \in Gens |-> IF MadeTile /\ g = 1 THEN "done" ELSE "none"]
  /\ state = IF MadeTile THEN [NoTile EXCEPT !.open = TRUE, !.gen = 1] ELSE NoTile
  /\ tileSnap = NoTile /\ tileNew = NoTile
-----------------------------------------------------------------------------
(* loadParcelIndex: the index counts once its generation is written.        *)
IndexedFor(set) == IF set.gen # 0 /\ index[set.gen] = "done" THEN set.gen ELSE 0

StatsN(g, n) == [v \in Vars |-> IF g = 0 THEN 0 ELSE Min(n, Len(stats[g][v]))]
Shape(arrays) == [v \in Vars |-> Len(arrays[v])]

(* reload, for the process that writes the tile: nobody else does, so that  *)
(* it is as if at once.                                                     *)
Loaded(set) ==
  [open |-> TRUE, times |-> times, shape |-> Shape(scenes), gen |-> IndexedFor(set),
   statsN |-> StatsN(IndexedFor(set), Len(times))]
-----------------------------------------------------------------------------
(* indexLocked: the index for the parcels there are is made anew, under a   *)
(* path of their generation, and marked finished last.                      *)
DeleteIndex(t) ==
  /\ At(t, "index")
  /\ state' = Loaded(parcels)
  /\ index' = [index EXCEPT ![job[t].set.gen] = "none"]
  /\ stats' = [stats EXCEPT ![job[t].set.gen] = NoRows]
  /\ Goto(t, "make")
  /\ UNCHANGED <<tile, scenes, times, tileRead, current, kept, parcels, lock, refresh, left>>

MakeIndex(t) ==
  /\ At(t, "make")
  /\ index' = [index EXCEPT ![job[t].set.gen] = "begun"]
  /\ Goto(t, "finish")
  /\ UNCHANGED <<tile, scenes, times, stats, state, tileRead, current, kept, parcels, lock, refresh, left>>

FinishIndex(t) ==
  /\ At(t, "finish")
  /\ index' = [index EXCEPT ![job[t].set.gen] = "done"]
  /\ Goto(t, "drop")
  /\ UNCHANGED <<tile, scenes, times, stats, state, tileRead, current, kept, parcels, lock, refresh, left>>

(* Mutant: the generation before is dropped too. *)
DropStatsAll(t) ==
  LET set == job[t].set IN
  /\ At(t, "drop")
  /\ index' = [g \in Gens |-> IF g = set.gen THEN index[g] ELSE "none"]
  /\ stats' = [g \in Gens |-> IF g = set.gen THEN stats[g] ELSE NoRows]
  /\ Goto(t, "reload")
  /\ UNCHANGED <<tile, scenes, times, state, tileRead, current, kept, parcels, lock, refresh, left>>

DropStats(t) ==
  LET set == job[t].set IN
  /\ At(t, "drop")
  /\ index' = [g \in Gens |-> IF Stays(g, set) THEN index[g] ELSE "none"]
  /\ stats' = [g \in Gens |-> IF Stays(g, set) THEN stats[g] ELSE NoRows]
  /\ Goto(t, "reload")
  /\ UNCHANGED <<tile, scenes, times, state, tileRead, current, kept, parcels, lock, refresh, left>>

(* The end of backfillLocked, and of PutParcels' part in the tile.          *)
Filled(t) ==
  /\ Goto(t, job[t].next)
  /\ lock' = IF t = "admin" THEN Unlocked(t) ELSE lock
  /\ UNCHANGED <<current, kept, parcels, refresh, left>>

(* reload, before backfillLocked and after it.                              *)
Reload(t) ==
  /\ \/ At(t, "reload") /\ Goto(t, "fill") /\ UNCHANGED <<current, kept, parcels, lock, refresh, left>>
     \/ At(t, "filled") /\ Filled(t)
  /\ state' = Loaded(parcels)
  /\ UNCHANGED <<tileStore, tileRead>>

NothingToFill(t) ==
  /\ At(t, "fill") /\ state.gen = 0
  /\ Filled(t)
  /\ UNCHANGED tileVars

(* backfillLocked: the statistics of each variable are cut back to the      *)
(* scenes there are, or worked out, a block at a time, up to them.          *)
Backfill(t) ==
  LET g == state.gen
      k == job[t].k
      n == Len(state.times)
      have == Len(stats[g][k])
  IN  /\ At(t, "fill") /\ g # 0
      /\ \/ /\ have > n
            /\ stats' = [stats EXCEPT ![g][k] = SubSeq(@, 1, n)]
            /\ UNCHANGED job
         \/ /\ have < n
            /\ stats' = [stats EXCEPT ![g][k] = Append(@, scenes[k][have + 1])]
            /\ UNCHANGED job
         \/ /\ have = n
            /\ IF k < NVars THEN job' = [job EXCEPT ![t].k = k + 1] ELSE Goto(t, "filled")
            /\ UNCHANGED stats
      /\ UNCHANGED <<tile, scenes, times, index, state, tileRead, current, kept, parcels, lock, refresh, left>>
-----------------------------------------------------------------------------
(* Mutant: what this process knew of the tile is taken as it is. *)
BeginTileStale(s) ==
  /\ At("scenes", "idle") /\ lock["tile"] = "free" /\ state.open
  /\ lock' = [lock EXCEPT !["tile"] = "scenes"]
  /\ job' = [job EXCEPT !["scenes"].pc = "stale", !["scenes"].row = s]
  /\ UNCHANGED <<tileVars, current, kept, parcels, refresh, left>>

(* AppendScene of the scene s, and BackfillStats, which begins as it does.  *)
BeginTile(s) ==
  /\ At("scenes", "idle") /\ lock["tile"] = "free" /\ state.open
  /\ lock' = [lock EXCEPT !["tile"] = "scenes"]
  /\ job' = [job EXCEPT !["scenes"].pc = "stale", !["scenes"].row = s]
  /\ state' = Loaded(parcels)
  /\ UNCHANGED <<tileStore, tileRead, current, kept, parcels, refresh, left>>

AppendScene == \E s \in Time : s <= left.rows /\ BeginTile(s)
BackfillStats == BeginTile(0)

IndexIfStale ==
  /\ At("scenes", "stale")
  /\ IF parcels.gen # 0 /\ state.gen # parcels.gen
     THEN Call("scenes", "index", "behind")
     ELSE Goto("scenes", "behind")
  /\ UNCHANGED <<tileVars, current, kept, parcels, lock, refresh, left>>

(* Mutant: a BackfillStats with nothing to fill goes on as an append. *)
CatchUpAppending ==
  LET behind == state.gen # 0 /\ \E v \in Vars : state.statsN[v] < Len(state.times)
  IN  /\ At("scenes", "behind")
      /\ \/ behind /\ Call("scenes", "fill", "check")
         \/ ~behind /\ Goto("scenes", "check")
      /\ UNCHANGED <<tileVars, current, kept, parcels, lock, refresh, left>>

(* Statistics that fell behind are caught up first.                         *)
CatchUp ==
  LET behind == state.gen # 0 /\ \E v \in Vars : state.statsN[v] < Len(state.times)
      s == job["scenes"].row
  IN  /\ At("scenes", "behind")
      /\ \/ s = 0 /\ Call("scenes", "fill", "end")
         \/ s # 0 /\ behind /\ Call("scenes", "fill", "check")
         \/ s # 0 /\ ~behind /\ Goto("scenes", "check")
      /\ UNCHANGED <<tileVars, current, kept, parcels, lock, refresh, left>>

(* A scene that is not after the last is refused.                           *)
Check ==
  LET n == Len(state.times)
  IN  /\ At("scenes", "check")
      /\ Goto("scenes", IF n > 0 /\ job["scenes"].row <= state.times[n] THEN "end" ELSE "cut")
      /\ UNCHANGED <<tileVars, current, kept, parcels, lock, refresh, left>>

(* Mutant: what is past the times is left where it is. *)
CutScenesNot ==
  /\ At("scenes", "cut")
  /\ job' = [job EXCEPT !["scenes"].pc = "put"]
  /\ UNCHANGED <<tileVars, current, kept, parcels, lock, refresh, left>>

(* appendAt of the values of the variable k: what an append that did not    *)
(* finish left is cut off first.                                            *)
CutScenes ==
  LET k == job["scenes"].k
      n == Len(state.times)
  IN  /\ At("scenes", "cut") /\ Len(scenes[k]) >= n
      /\ scenes' = [scenes EXCEPT ![k] = SubSeq(@, 1, n)]
      /\ job' = [job EXCEPT !["scenes"].pc = "put"]
      /\ UNCHANGED <<tile, times, index, stats, state, tileRead, current, kept, parcels, lock, refresh, left>>

NextVariable == IF job["scenes"].k < NVars
                THEN job' = [job EXCEPT !["scenes"].pc = "cut", !["scenes"].k = @ + 1]
                ELSE Goto("scenes", "commit")

PutScene ==
  LET k == job["scenes"].k
  IN  /\ At("scenes", "put")
      /\ scenes' = [scenes EXCEPT ![k] = Append(@, job["scenes"].row)]
      /\ IF state.gen # 0 /\ state.statsN[k] = Len(state.times)
         THEN job' = [job EXCEPT !["scenes"].pc = "cutStats"] ELSE NextVariable
      /\ UNCHANGED <<tile, times, index, stats, state, tileRead, current, kept, parcels, lock, refresh, left>>

(* Mutant: what is past the times is left where it is. *)
CutStatsNot ==
  /\ At("scenes", "cutStats") /\ index[state.gen] # "none"
  /\ job' = [job EXCEPT !["scenes"].pc = "putStats"]
  /\ UNCHANGED <<tileVars, current, kept, parcels, lock, refresh, left>>

(* appendAt of the statistics worked out from them.                         *)
CutStats ==
  LET k == job["scenes"].k
      g == state.gen
      n == Len(state.times)
  IN  /\ At("scenes", "cutStats") /\ index[g] # "none" /\ Len(stats[g][k]) >= n
      /\ stats' = [stats EXCEPT ![g][k] = SubSeq(@, 1, n)]
      /\ job' = [job EXCEPT !["scenes"].pc = "putStats"]
      /\ UNCHANGED <<tile, scenes, times, index, state, tileRead, current, kept, parcels, lock, refresh, left>>

PutStats ==
  /\ At("scenes", "putStats")
  /\ stats' = [stats EXCEPT ![state.gen][job["scenes"].k] = Append(@, job["scenes"].row)]
  /\ NextVariable
  /\ UNCHANGED <<tile, scenes, times, index, state, tileRead, current, kept, parcels, lock, refresh, left>>

(* The time is the last of a scene written, and commits it.                 *)
CommitScene ==
  /\ At("scenes", "commit")
  /\ times' = Append(times, job["scenes"].row)
  /\ Call("scenes", "filled", "end")
  /\ UNCHANGED <<tile, scenes, index, stats, state, tileRead, current, kept, parcels, lock, refresh, left>>
-----------------------------------------------------------------------------
(* CreateTile: its description after its arrays, and the registry last.  A  *)
(* tile that is there in part is not made again: its path is taken.         *)
CreateTile ==
  /\ At("admin", "idle") /\ tile = "none" /\ "tile" \in left.create
  /\ tile' = "begun"
  /\ Goto("admin", "describe")
  /\ UNCHANGED <<scenes, times, index, stats, state, tileRead, current, kept, parcels, lock, refresh, left>>

DescribeTile ==
  /\ At("admin", "describe")
  /\ tile' = "described"
  /\ Goto("admin", "register")
  /\ UNCHANGED <<scenes, times, index, stats, state, tileRead, current, kept, parcels, lock, refresh, left>>

RegisterTile ==
  /\ At("admin", "register")
  /\ tile' = "registered"
  /\ Goto("admin", "open")
  /\ UNCHANGED <<scenes, times, index, stats, state, tileRead, current, kept, parcels, lock, refresh, left>>

OpenTile ==
  /\ At("admin", "open")
  /\ state' = Loaded(parcels)
  /\ Goto("admin", IF parcels.gen # 0 THEN "tiles" ELSE "end")
  /\ UNCHANGED <<tileStore, tileRead, current, kept, parcels, lock, refresh, left>>

(* indexParcels, of each tile there is.                                     *)
IndexParcels ==
  /\ At("admin", "tiles")
  /\ IF state.open THEN /\ lock["tile"] = "free"
                        /\ lock' = [lock EXCEPT !["tile"] = "admin"]
                        /\ Call("admin", "index", job["admin"].next)
     ELSE Goto("admin", job["admin"].next) /\ UNCHANGED lock
  /\ UNCHANGED <<tileVars, current, kept, parcels, refresh, left>>

RestartTile ==
  /\ state' = IF tile = "registered" THEN Loaded(current) ELSE NoTile
  /\ UNCHANGED <<tileStore, tileRead>>
-----------------------------------------------------------------------------
(* reload in the process that reads.  It keeps what it read once it has all *)
(* of it, so that one that fails anywhere is as if it failed at once.       *)
RefreshTile ==
  /\ refresh.pc = "tile"
  /\ \E next \in {"times", "source"} : RefreshGoes(next)
  /\ UNCHANGED <<tileVars, current, kept, parcels, job, lock, left>>

(* The times before the arrays, which have as many scenes by then, or more. *)
RefreshTimes ==
  /\ refresh.pc = "times"
  /\ tileNew' = [NoTile EXCEPT !.open = TRUE, !.times = times]
  /\ RefreshGoes("arrays")
  /\ UNCHANGED <<tileStore, state, tileSnap, current, kept, parcels, job, lock, left>>

RefreshArrays ==
  /\ refresh.pc = "arrays"
  /\ tileNew' = [tileNew EXCEPT !.shape = Shape(scenes)]
  /\ RefreshGoes("index")
  /\ UNCHANGED <<tileStore, state, tileSnap, current, kept, parcels, job, lock, left>>

RefreshIndex ==
  LET g == IndexedFor(refresh.parcels)
  IN  /\ refresh.pc = "index"
      /\ tileNew' = IF g = 0 THEN NoTile ELSE [tileNew EXCEPT !.gen = g]
      /\ tileSnap' = IF g = 0 THEN tileNew ELSE tileSnap
      /\ RefreshGoes(IF g = 0 THEN "source" ELSE "stats")
      /\ UNCHANGED <<tileStore, state, current, kept, parcels, job, lock, left>>

RefreshStats ==
  LET new == tileNew
  IN  /\ refresh.pc = "stats"
      /\ tileSnap' = IF index[new.gen] = "none" THEN tileSnap
                     ELSE [new EXCEPT !.statsN = StatsN(new.gen, Len(new.times))]
      /\ tileNew' = NoTile
      /\ RefreshGoes("source")
      /\ UNCHANGED <<tileStore, state, current, kept, parcels, job, lock, left>>
-----------------------------------------------------------------------------
(* What is read of a tile with a snapshot of it: a row that is not stored   *)
(* reads as the fill value.                                                 *)
SceneWindow(snap, v, i) == IF i <= snap.shape[v] THEN Row(scenes[v], i) ELSE PastEnd
PixelHistory(snap, v) ==
  [i \in DOMAIN snap.times |-> [time |-> snap.times[i], value |-> SceneWindow(snap, v, i)]]

(* ParcelSeries, where there is one tile: the parcels it was indexed for    *)
(* must be those that the process knows of.                                 *)
ParcelSeries(snap, set, v) ==
  [i \in 1 .. (IF snap.gen = set.gen THEN snap.statsN[v] ELSE 0) |->
    [time |-> snap.times[i], value |-> Row(stats[snap.gen][v], i)]]
-----------------------------------------------------------------------------
TileNext ==
  \/ \E t \in {"scenes", "admin"} :
       \/ DeleteIndex(t) \/ MakeIndex(t) \/ FinishIndex(t) \/ DropStats(t)
       \/ Reload(t) \/ NothingToFill(t) \/ Backfill(t)
  \/ AppendScene \/ BackfillStats \/ IndexIfStale \/ CatchUp \/ Check
  \/ CutScenes \/ PutScene \/ CutStats \/ PutStats \/ CommitScene
  \/ CreateTile \/ DescribeTile \/ RegisterTile \/ OpenTile \/ IndexParcels
  \/ RefreshTile \/ RefreshTimes \/ RefreshArrays \/ RefreshIndex \/ RefreshStats
=============================================================================
