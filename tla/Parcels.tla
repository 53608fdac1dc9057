------------------------------ MODULE Parcels -------------------------------
(***************************************************************************)
(* The parcels of a geodb database (geodb/parcels.go, db.go), and what its  *)
(* tiles and weather sources share: the goroutines of the process that      *)
(* writes, the locks between them, and the Refresh of a process that reads. *)
(*                                                                          *)
(* Parcels are put under a path of their generation, and the attributes     *)
(* that make a generation current are written last.  Modules Scenes and     *)
(* Weather are a tile and a weather source; module Geodb is all of it.      *)
(***************************************************************************)
EXTENDS Naturals, Sequences

CONSTANTS NVars,    \* how many variables a tile and a source have
          MaxGens,  \* bound: how often parcels are put
          Plans     \* bound: what is created, put, appended and fails

VARIABLES
  current,  \* store: the generation in the attributes of parcels, and the one before
  kept,     \* store: the generations of parcels there are
  parcels,  \* DB.parcels
  job,      \* what the goroutines of the writing process are at
  lock,     \* Tile.writeMu and Weather.writeMu: who holds each
  refresh,  \* Refresh in the reading process, and its DB.parcels
  left      \* what is left of the plan

parcelVars == <<current, kept, parcels, job, lock, refresh, left>>

Vars == 1 .. NVars
Gens == 1 .. MaxGens
NoRows == [v \in Vars |-> <<>>]
Threads == {"scenes", "steps", "admin"}
NoSet == [gen |-> 0, prev |-> 0]
Idle == [pc |-> "idle", next |-> "end", k |-> 1,
         n |-> 0, row |-> 0, count |-> 0, set |-> NoSet]

(* A database that was made before, or an empty store: in the one there are *)
(* parcels, of generation 1.                                                *)
Made == left.made
FirstSet == IF Made THEN [gen |-> 1, prev |-> 0] ELSE NoSet

InitParcels ==
  /\ left \in Plans
  /\ current = FirstSet /\ parcels = FirstSet /\ kept = IF Made THEN {1} ELSE {}
  /\ job = [t \in Threads |-> Idle]
  /\ lock = [n \in {"tile", "source"} |-> "free"]
  /\ refresh = [pc |-> "idle", set |-> NoSet, found |-> {}, parcels |-> NoSet]
-----------------------------------------------------------------------------
Min(a, b) == IF a < b THEN a ELSE b

(* A row of an array, or the fill value where none is stored.               *)
Fill == 0
Row(rows, i) == IF i <= Len(rows) THEN rows[i] ELSE Fill

At(t, pc) == job[t].pc = pc
Goto(t, pc) == job' = [job EXCEPT ![t].pc = pc, ![t].k = 1]

(* A call of a subroutine, which goes on to the step next after it, with    *)
(* the parcels there are when it is called.                                 *)
Call(t, pc, next) ==
  job' = [job EXCEPT ![t].pc = pc, ![t].next = next, ![t].k = 1, ![t].set = parcels]

(* The locks are let go when a call returns, by every path.                 *)
Unlocked(t) == [n \in DOMAIN lock |-> IF lock[n] = t THEN "free" ELSE lock[n]]
Return(t) == job' = [job EXCEPT ![t] = Idle] /\ lock' = Unlocked(t)
End(t) == At(t, "end") /\ Return(t) /\ UNCHANGED <<current, kept, parcels, refresh, left>>

(* dropGenerations: all but a set's and the one before it go.               *)
Stays(g, set) == g \in {set.gen, set.prev}
-----------------------------------------------------------------------------
(* PutParcels.  The one before is the one this process knows of.            *)
PutParcels ==
  /\ At("admin", "idle") /\ left.puts > 0
  /\ LET gen == MaxGens - left.puts + 1
     IN  /\ kept' = kept \cup {gen}
         /\ job' = [job EXCEPT !["admin"].pc = "current", !["admin"].next = "sources",
                               !["admin"].set = [gen |-> gen, prev |-> parcels.gen]]
  /\ left' = [left EXCEPT !.puts = @ - 1]
  /\ UNCHANGED <<current, parcels, lock, refresh>>

MakeCurrent ==
  /\ At("admin", "current")
  /\ current' = job["admin"].set
  /\ Goto("admin", "load")
  /\ UNCHANGED <<kept, parcels, lock, refresh, left>>

(* loadParcels.                                                             *)
LoadParcels ==
  /\ At("admin", "load")
  /\ parcels' = current
  /\ Goto("admin", "dropParcels")
  /\ UNCHANGED <<current, kept, lock, refresh, left>>

DropParcels ==
  /\ At("admin", "dropParcels")
  /\ kept' = {g \in kept : Stays(g, parcels)}
  /\ Goto("admin", "tiles")
  /\ UNCHANGED <<current, parcels, lock, refresh, left>>

(* A call fails at a write of the store or between two.                     *)
Fail(t) ==
  /\ job[t].pc \notin {"idle", "tiles", "sources"} /\ left.fails > 0
  /\ Return(t)
  /\ left' = [left EXCEPT !.fails = @ - 1]
  /\ UNCHANGED <<current, kept, parcels, refresh>>

(* The process stops and is started again: Open, which is a Refresh.        *)
RestartParcels ==
  /\ left.fails > 0
  /\ job' = [t \in Threads |-> Idle] /\ lock' = [n \in DOMAIN lock |-> "free"]
  /\ parcels' = current
  /\ left' = [left EXCEPT !.fails = @ - 1]
  /\ UNCHANGED <<current, kept, refresh>>
-----------------------------------------------------------------------------
(* Refresh in the process that reads: the registry, the parcels of the      *)
(* generation that is current, then each tile and source that was found.    *)
(* One that cannot be read keeps the snapshot it had.                       *)
RefreshBegins(registered) ==
  /\ refresh.pc = "idle"
  /\ refresh' = [refresh EXCEPT !.pc = "parcels", !.set = current, !.found = registered]
  /\ UNCHANGED <<current, kept, parcels, job, lock, left>>

(* What comes next: the tile or the source, if it was found, or the end.    *)
Found(pc) ==
  LET next == IF pc = "tile" /\ pc \notin refresh.found THEN "source" ELSE pc
  IN  IF next = "source" /\ next \notin refresh.found THEN "idle" ELSE next
RefreshGoes(pc) ==
  refresh' = [refresh EXCEPT !.pc = Found(pc), !.found = IF Found(pc) = "idle" THEN {} ELSE @]

RefreshParcels ==
  /\ refresh.pc = "parcels"
  /\ refresh.set.gen \in kept \cup {0}
  /\ refresh' = [refresh EXCEPT !.pc = Found("tile"), !.parcels = refresh.set, !.set = NoSet,
                              !.found = IF Found("tile") = "idle" THEN {} ELSE @]
  /\ UNCHANGED <<current, kept, parcels, job, lock, left>>

(* Parcels that are gone by now: it fails, and nothing has changed.         *)
RefreshFails ==
  /\ refresh.pc = "parcels" /\ refresh.set.gen \notin kept \cup {0}
  /\ refresh' = [refresh EXCEPT !.pc = "idle", !.set = NoSet, !.found = {}]
  /\ UNCHANGED <<current, kept, parcels, job, lock, left>>
=============================================================================
