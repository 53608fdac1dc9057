------------------------------ MODULE Weather -------------------------------
(***************************************************************************)
(* A weather source of geodb (geodb/weather.go): its steps, and the samples *)
(* of them at the parcels.  The steps attribute of the source commits what  *)
(* was appended, and the samples have one of their own.                     *)
(*                                                                          *)
(* The values of a step are a number, the same in every variable and every  *)
(* sample made from it; an array is the sequence of them along its time.    *)
(***************************************************************************)
EXTENDS Parcels

CONSTANTS Values,     \* the values of a step
          ChunkSteps, \* the steps of a chunk
          MaxAppend,  \* bound: the steps of one append
          MaxSteps    \* bound: the steps of a source

VARIABLES
  source,     \* store: how far CreateWeather got
  steps,      \* store: the steps attribute of the source
  values,     \* store: the array of each variable
  samples,    \* store: of each generation, whether set up, the steps attribute, the arrays
  wstate,     \* Weather.state in the process that writes
  sourceSnap, \* Weather.state in the process that reads
  sourceNew   \* the one its Refresh is making

sourceStore == <<source, steps, values, samples>>
sourceRead == <<sourceSnap, sourceNew>>
sourceVars == <<sourceStore, wstate, sourceRead>>

NoSamples == [at |-> "none", steps |-> 0, of |-> NoRows]
NoSource == [open |-> FALSE, steps |-> 0, gen |-> 0, pwSteps |-> 0]

MadeSource == Made /\ "source" \in left.create
InitSource ==
  /\ source = IF MadeSource THEN "registered" ELSE "none"
  /\ steps = 0 /\ values = NoRows
  /\ samples = [g \in Gens |-> IF MadeSource /\ g = 1 THEN [NoSamples EXCEPT !.at = "ready"] ELSE NoSamples]
  /\ wstate = IF MadeSource THEN [NoSource EXCEPT !.open = TRUE, !.gen = 1] ELSE NoSource
  /\ sourceSnap = NoSource /\ sourceNew = NoSource
-----------------------------------------------------------------------------
Shortest(n) == CHOOSE m \in {n} \cup {Len(values[v]) : v \in Vars} :
                 m <= n /\ \A v \in Vars : m <= Len(values[v])
SampledFor(set) == IF set.gen # 0 /\ samples[set.gen].at = "ready" THEN set.gen ELSE 0
PwSteps(g, n) == IF g = 0 THEN 0 ELSE Min(samples[g].steps, n)

(* reload, for the process that writes the source.                          *)
LoadedSource(set) ==
  LET n == Shortest(steps)
      g == SampledFor(set)
  IN  [open |-> TRUE, steps |-> n, gen |-> g, pwSteps |-> PwSteps(g, n)]

(* Mutant: what is past the step is left where it is. *)
CutToNone(rows, n) == rows

(* appendAt: what is past the step n is cut off, then rows follow.          *)
CutTo(rows, n) == SubSeq(rows, 1, n)
Rows(x, k) == [i \in 1 .. k |-> x]
(* Mutant: the last array is left out. *)
NextArrayShort(t, pc, done) ==
  IF job[t].k < NVars - 1 THEN job' = [job EXCEPT ![t].pc = pc, ![t].k = @ + 1] ELSE Goto(t, done)

NextArray(t, pc, done) ==
  IF job[t].k < NVars THEN job' = [job EXCEPT ![t].pc = pc, ![t].k = @ + 1] ELSE Goto(t, done)

(* Whether the samples are up to date, so that an append appends to them.   *)
UpToDate == wstate.gen # 0 /\ wstate.pwSteps = wstate.steps
-----------------------------------------------------------------------------
(* Mutant: what this process knew of the source is taken as it is. *)
AppendStepsStale ==
  /\ At("steps", "idle") /\ lock["source"] = "free" /\ wstate.open
  /\ \E x \in Values, n \in 1 .. MaxAppend :
       /\ x <= left.rows /\ wstate.steps + n <= MaxSteps
       /\ job' = [job EXCEPT !["steps"] = [Idle EXCEPT !.pc = "cutValues", !.n = wstate.steps,
                                                       !.row = x, !.count = n]]
  /\ lock' = [lock EXCEPT !["source"] = "steps"]
  /\ UNCHANGED <<sourceVars, current, kept, parcels, refresh, left>>

(* Append of n steps of the values x.                                       *)
AppendSteps ==
  /\ At("steps", "idle") /\ lock["source"] = "free" /\ wstate.open
  /\ wstate' = LoadedSource(parcels)
  /\ \E x \in Values, n \in 1 .. MaxAppend :
       /\ x <= left.rows /\ wstate'.steps + n <= MaxSteps
       /\ job' = [job EXCEPT !["steps"] = [Idle EXCEPT !.pc = "cutValues", !.n = wstate'.steps,
                                                       !.row = x, !.count = n]]
  /\ lock' = [lock EXCEPT !["source"] = "steps"]
  /\ UNCHANGED <<sourceStore, sourceRead, current, kept, parcels, refresh, left>>

CutValues ==
  LET j == job["steps"]
  IN  /\ At("steps", "cutValues") /\ Len(values[j.k]) >= j.n
      /\ values' = [values EXCEPT ![j.k] = CutTo(@, j.n)]
      /\ job' = [job EXCEPT !["steps"].pc = "putValues"]
      /\ UNCHANGED <<source, steps, samples, wstate, sourceRead, current, kept, parcels, lock, refresh, left>>

PutValues ==
  LET j == job["steps"]
  IN  /\ At("steps", "putValues")
      /\ values' = [values EXCEPT ![j.k] = @ \o Rows(j.row, j.count)]
      /\ NextArray("steps", "cutValues", IF UpToDate THEN "cutSamples" ELSE "commit")
      /\ UNCHANGED <<source, steps, samples, wstate, sourceRead, current, kept, parcels, lock, refresh, left>>

(* The steps attribute, after the samples.  If there are parcels and they   *)
(* were not sampled, they are now.                                          *)
CommitSteps ==
  /\ At("steps", "commit")
  /\ steps' = job["steps"].n + job["steps"].count
  /\ job' = [job EXCEPT !["steps"] = [Idle EXCEPT
               !.pc = IF ~UpToDate /\ parcels.gen # 0 THEN "sample" ELSE "sampled"]]
  /\ UNCHANGED <<source, values, samples, wstate, sourceRead, current, kept, parcels, lock, refresh, left>>
-----------------------------------------------------------------------------
(* appendSamples, of the steps of an append, or of those read back from the *)
(* source, which have no row of their own.  The steps attribute of the      *)
(* samples is written after their arrays.                                   *)
CutSamples(t) ==
  LET j == job[t]
      g == wstate.gen
  IN  /\ At(t, "cutSamples") /\ g # 0 /\ Len(samples[g].of[j.k]) >= j.n
      /\ samples' = [samples EXCEPT ![g].of[j.k] = CutTo(@, j.n)]
      /\ job' = [job EXCEPT ![t].pc = "putSamples"]
      /\ UNCHANGED <<source, steps, values, wstate, sourceRead, current, kept, parcels, lock, refresh, left>>

PutSamples(t) ==
  LET j == job[t]
      rows == IF j.row # 0 THEN Rows(j.row, j.count) ELSE SubSeq(values[j.k], j.n + 1, j.n + j.count)
  IN  /\ At(t, "putSamples")
      /\ samples' = [samples EXCEPT ![wstate.gen].of[j.k] = @ \o rows]
      /\ NextArray(t, "cutSamples", "markSamples")
      /\ UNCHANGED <<source, steps, values, wstate, sourceRead, current, kept, parcels, lock, refresh, left>>

MarkSamples(t) ==
  LET j == job[t]
  IN  /\ At(t, "markSamples")
      /\ samples' = [samples EXCEPT ![wstate.gen].steps = j.n + j.count]
      /\ IF j.row # 0 THEN Goto(t, "commit")
         ELSE job' = [job EXCEPT ![t].pc = "sampling", ![t].n = j.n + j.count, ![t].k = 1]
      /\ UNCHANGED <<source, steps, values, wstate, sourceRead, current, kept, parcels, lock, refresh, left>>

(* sampleLocked: the samples are set up if they are not for the parcels     *)
(* there are, and brought up to the steps, a chunk of steps at a time.      *)
Sample(t) ==
  /\ At(t, "sample")
  /\ wstate' = LoadedSource(parcels)
  /\ job' = [job EXCEPT ![t].set = parcels, ![t].n = wstate'.pwSteps, ![t].row = 0, ![t].k = 1,
               ![t].pc = IF wstate'.gen = parcels.gen THEN "sampling" ELSE "setUp"]
  /\ UNCHANGED <<sourceStore, sourceRead, current, kept, parcels, lock, refresh, left>>

Sampling(t) ==
  LET j == job[t]
      rest == wstate.steps - j.n
  IN  /\ At(t, "sampling")
      /\ IF j.n < wstate.steps
         THEN job' = [job EXCEPT ![t].pc = "cutSamples", ![t].count = Min(rest, ChunkSteps - (j.n % ChunkSteps))]
         ELSE Goto(t, "sampled")
      /\ UNCHANGED <<sourceVars, current, kept, parcels, lock, refresh, left>>

(* reload, the last of Append and of SampleParcels.                         *)
SamplingEnds(t) ==
  /\ At(t, "sampled")
  /\ wstate' = LoadedSource(parcels)
  /\ Goto(t, "end")
  /\ UNCHANGED <<sourceStore, sourceRead, current, kept, parcels, lock, refresh, left>>

(* setUpSamples: arrays under a path of the generation, then the attribute  *)
(* that says they are there.                                                *)
DeleteSamples(t) ==
  /\ At(t, "setUp")
  /\ samples' = [samples EXCEPT ![job[t].set.gen] = NoSamples]
  /\ Goto(t, "makeSamples")
  /\ UNCHANGED <<source, steps, values, wstate, sourceRead, current, kept, parcels, lock, refresh, left>>

MakeSamples(t) ==
  /\ At(t, "makeSamples")
  /\ samples' = [samples EXCEPT ![job[t].set.gen].at = "begun"]
  /\ Goto(t, "readySamples")
  /\ UNCHANGED <<source, steps, values, wstate, sourceRead, current, kept, parcels, lock, refresh, left>>

ReadySamples(t) ==
  /\ At(t, "readySamples")
  /\ samples' = [samples EXCEPT ![job[t].set.gen].at = "ready"]
  /\ Goto(t, "dropSamples")
  /\ UNCHANGED <<source, steps, values, wstate, sourceRead, current, kept, parcels, lock, refresh, left>>

(* dropGenerations of the samples, then reload.                             *)
DropSamples(t) ==
  /\ At(t, "dropSamples")
  /\ samples' = [g \in Gens |-> IF Stays(g, job[t].set) THEN samples[g] ELSE NoSamples]
  /\ Goto(t, "setUpDone")
  /\ UNCHANGED <<source, steps, values, wstate, sourceRead, current, kept, parcels, lock, refresh, left>>

SetUpDone(t) ==
  /\ At(t, "setUpDone")
  /\ wstate' = LoadedSource(parcels)
  /\ job' = [job EXCEPT ![t].pc = "sampling", ![t].n = wstate'.pwSteps]
  /\ UNCHANGED <<sourceStore, sourceRead, current, kept, parcels, lock, refresh, left>>

(* SampleParcels, of each source there is.                                  *)
SampleParcels ==
  /\ At("admin", "sources")
  /\ IF wstate.open THEN /\ lock["source"] = "free"
                         /\ lock' = [lock EXCEPT !["source"] = "admin"]
                         /\ Goto("admin", "sample")
     ELSE Goto("admin", "end") /\ UNCHANGED lock
  /\ UNCHANGED <<sourceVars, current, kept, parcels, refresh, left>>
-----------------------------------------------------------------------------
(* CreateWeather: its description and steps after its arrays.               *)
CreateWeather ==
  /\ At("admin", "idle") /\ source = "none" /\ "source" \in left.create
  /\ source' = "begun"
  /\ Goto("admin", "describeSource")
  /\ UNCHANGED <<steps, values, samples, wstate, sourceRead, current, kept, parcels, lock, refresh, left>>

DescribeSource ==
  /\ At("admin", "describeSource")
  /\ source' = "described"
  /\ Goto("admin", "registerSource")
  /\ UNCHANGED <<steps, values, samples, wstate, sourceRead, current, kept, parcels, lock, refresh, left>>

RegisterSource ==
  /\ At("admin", "registerSource")
  /\ source' = "registered"
  /\ Goto("admin", "openSource")
  /\ UNCHANGED <<steps, values, samples, wstate, sourceRead, current, kept, parcels, lock, refresh, left>>

OpenSource ==
  /\ At("admin", "openSource")
  /\ wstate' = LoadedSource(parcels)
  /\ Goto("admin", IF parcels.gen # 0 THEN "sources" ELSE "end")
  /\ UNCHANGED <<sourceStore, sourceRead, current, kept, parcels, lock, refresh, left>>

RestartSource ==
  /\ wstate' = IF source = "registered" THEN LoadedSource(current) ELSE NoSource
  /\ UNCHANGED <<sourceStore, sourceRead>>
-----------------------------------------------------------------------------
(* reload in the process that reads: the steps attribute before the arrays, *)
(* and the samples after both; or it fails.                                 *)
RefreshSource ==
  /\ refresh.pc = "source"
  /\ \/ /\ sourceNew' = [NoSource EXCEPT !.open = TRUE, !.steps = steps]
        /\ RefreshGoes("values")
     \/ UNCHANGED sourceNew /\ RefreshGoes("idle")
  /\ UNCHANGED <<sourceStore, wstate, sourceSnap, current, kept, parcels, job, lock, left>>

RefreshValues ==
  /\ refresh.pc = "values"
  /\ sourceNew' = [sourceNew EXCEPT !.steps = Shortest(@)]
  /\ RefreshGoes("samples")
  /\ UNCHANGED <<sourceStore, wstate, sourceSnap, current, kept, parcels, job, lock, left>>

RefreshSamples ==
  LET g == SampledFor(refresh.parcels)
  IN  /\ refresh.pc = "samples"
      /\ sourceNew' = IF g = 0 THEN NoSource
                      ELSE [sourceNew EXCEPT !.gen = g, !.pwSteps = PwSteps(g, sourceNew.steps)]
      /\ sourceSnap' = IF g = 0 THEN sourceNew ELSE sourceSnap
      /\ RefreshGoes(IF g = 0 THEN "idle" ELSE "sampleArrays")
      /\ UNCHANGED <<sourceStore, wstate, current, kept, parcels, job, lock, left>>

RefreshSampleArrays ==
  /\ refresh.pc = "sampleArrays"
  /\ sourceSnap' = IF samples[sourceNew.gen].at = "none" THEN sourceSnap ELSE sourceNew
  /\ sourceNew' = NoSource
  /\ RefreshGoes("idle")
  /\ UNCHANGED <<sourceStore, wstate, current, kept, parcels, job, lock, left>>
-----------------------------------------------------------------------------
(* What is read of a source with a snapshot of it, and of its samples if    *)
(* they are of the parcels that the process knows of.                       *)
Series(snap, v) == [i \in 1 .. snap.steps |-> Row(values[v], i)]
ParcelWeather(snap, set, v) ==
  [i \in 1 .. (IF snap.gen = set.gen THEN snap.pwSteps ELSE 0) |-> Row(samples[snap.gen].of[v], i)]
-----------------------------------------------------------------------------
SourceNext ==
  \/ \E t \in {"steps", "admin"} :
       \/ CutSamples(t) \/ PutSamples(t) \/ MarkSamples(t) \/ Sample(t) \/ Sampling(t)
       \/ SamplingEnds(t) \/ DeleteSamples(t) \/ MakeSamples(t) \/ ReadySamples(t)
       \/ DropSamples(t) \/ SetUpDone(t)
  \/ AppendSteps \/ CutValues \/ PutValues \/ CommitSteps
  \/ CreateWeather \/ DescribeSource \/ RegisterSource \/ OpenSource \/ SampleParcels
  \/ RefreshSource \/ RefreshValues \/ RefreshSamples \/ RefreshSampleArrays
=============================================================================
