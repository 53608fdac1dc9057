---------------------------- MODULE StoredWrites ----------------------------
(***************************************************************************)
(* Write and WriteChunk (array.go) as goroutines run them side by side on   *)
(* one array.  A call works on the stored objects of its region on their    *)
(* own, in any order and several at once (eachSpan): each is locked, read   *)
(* if the call does not replace the whole of it, patched, written back or   *)
(* deleted, and unlocked.  A store call may fail, after a write as well as  *)
(* before it, and so may the wait for a lock.                               *)
(*                                                                          *)
(* The part of a stored object past the end of the array is GrowArray's.    *)
(***************************************************************************)
EXTENDS Naturals

CONSTANTS Elements,          \* the elements of the array
          Objects,           \* its stored objects: chunks, or shards
          ObjectOf,          \* the stored object of each element
          Writers,           \* the goroutines that write
          Region,            \* the elements each of them writes
          Kind,              \* whether it calls Write or WriteChunk
          Sharded,           \* whether a stored object holds many chunks
          WriteEmptyChunks,  \* Array.WriteEmptyChunks
          Values,            \* what an element may hold
          Fill,              \* the fill value
          Absent,            \* the stored object that is not there
          NoTask             \* the holder of a lock nobody holds

ASSUME ArrayAssumption ==
  /\ ObjectOf \in [Elements -> Objects]
  /\ Sharded \in BOOLEAN
  /\ WriteEmptyChunks \in BOOLEAN
  /\ Fill \in Values
  /\ \A o \in Objects : Absent \notin [{e \in Elements : ObjectOf[e] = o} -> Values]
  /\ NoTask \notin Writers \X Objects

Cell(o) == {e \in Elements : ObjectOf[e] = o}
Touched(w) == {ObjectOf[e] : e \in Region[w]}
Whole(w, o) == Cell(o) \subseteq Region[w]

(* "Writes of regions that do not overlap" (array.go:817): that they do not *)
(* is the callers' part.  A chunk is within one stored object, and is the   *)
(* whole of it in an array that is not sharded.                             *)
ASSUME CallersAssumption ==
  /\ Region \in [Writers -> SUBSET Elements]
  /\ Kind \in [Writers -> {"Write", "WriteChunk"}]
  /\ \A v, w \in Writers : v # w => Region[v] \cap Region[w] = {}
  /\ \A w \in Writers :
       Kind[w] = "WriteChunk" =>
         \E o \in Objects :
           Touched(w) = {o} /\ (~Sharded => Whole(w, o))

VARIABLES store,   \* the stored objects
          holder,  \* storedLocks, as KeyMutex describes it
          op,      \* what each writer's call is at
          val,     \* what it writes
          stage,   \* where it is with each stored object
          buf      \* the contents it is about to write to it

vars == <<store, holder, op, val, stage, buf>>

Tasks == Writers \X Objects

Locks == INSTANCE KeyMutex WITH Keys <- Objects

Stages == {"none", "todo", "locked", "patched", "saved", "broken", "done", "failed"}

(* What a stored object can be: nothing, or a value for each element.       *)
Contents == UNION {[Cell(o) -> Values] : o \in Objects}

TypeOK ==
  /\ \A o \in Objects : store[o] \in [Cell(o) -> Values] \cup {Absent}
  /\ DOMAIN store = Objects
  /\ holder \in [Objects -> Tasks \cup {NoTask}]
  /\ op \in [Writers -> {"idle", "writing", "ok", "failed"}]
  /\ val \in [Writers -> Values]
  /\ stage \in [Writers -> [Objects -> Stages]]
  /\ buf \in [Writers -> [Objects -> Contents \cup {Absent}]]

Init ==
  /\ store = [o \in Objects |-> Absent]
  /\ Locks!Init
  /\ op = [w \in Writers |-> "idle"]
  /\ val = [w \in Writers |-> Fill]
  /\ stage = [w \in Writers |-> [o \in Objects |-> "none"]]
  /\ buf = [w \in Writers |-> [o \in Objects |-> Absent]]
-----------------------------------------------------------------------------
(* readStored: what is stored, or all fill if nothing is.                   *)
ReadStored(o) ==
  IF store[o] = Absent THEN [e \in Cell(o) |-> Fill] ELSE store[o]

(* Mutant: WriteChunk does not read the shard it writes a chunk of.         *)
ReadsForWrite(w, o) == Kind[w] = "Write" /\ ~Whole(w, o)

(* Write reads what it does not replace; WriteChunk reads a shard.          *)
Reads(w, o) == IF Kind[w] = "Write" THEN ~Whole(w, o) ELSE Sharded

(* Mutant: the buffer is as long as the region and not the stored object.   *)
PatchedShort(w, o) == [e \in Cell(o) \cap Region[w] |-> val[w]]

Patched(w, o) ==
  LET old == IF Reads(w, o) THEN ReadStored(o) ELSE [e \in Cell(o) |-> Fill]
  IN  [e \in Cell(o) |-> IF e \in Region[w] THEN val[w] ELSE old[e]]

(* What becomes of a stored object: it is deleted if it is all fill.        *)
Written(b) ==
  IF ~WriteEmptyChunks /\ \A e \in DOMAIN b : b[e] = Fill THEN Absent ELSE b

Begin(w, v) ==
  /\ op[w] # "writing"
  /\ op' = [op EXCEPT ![w] = "writing"]
  /\ val' = [val EXCEPT ![w] = v]
  /\ stage' = [stage EXCEPT ![w] =
                 [o \in Objects |-> IF o \in Touched(w) THEN "todo" ELSE "none"]]
  /\ UNCHANGED <<store, holder, buf>>

(* Mutant: no lock around the read, patch and write.                        *)
LockFree(w, o) ==
  /\ stage[w][o] = "todo"
  /\ stage' = [stage EXCEPT ![w][o] = "locked"]
  /\ UNCHANGED <<store, holder, op, val, buf>>

(* exclusive: the lock of the stored object.                                *)
Lock(w, o) ==
  /\ stage[w][o] = "todo"
  /\ Locks!Acquire(<<w, o>>, o)
  /\ stage' = [stage EXCEPT ![w][o] = "locked"]
  /\ UNCHANGED <<store, op, val, buf>>

(* The context of the call, or of its loop, is done before there is a lock. *)
LockFails(w, o) ==
  /\ stage[w][o] = "todo"
  /\ stage' = [stage EXCEPT ![w][o] = "failed"]
  /\ UNCHANGED <<store, holder, op, val, buf>>

(* The read, if there is one, and the patch.                                *)
Load(w, o) ==
  /\ stage[w][o] = "locked"
  /\ buf' = [buf EXCEPT ![w][o] = Patched(w, o)]
  /\ stage' = [stage EXCEPT ![w][o] = "patched"]
  /\ UNCHANGED <<store, holder, op, val>>

LoadFails(w, o) ==
  /\ stage[w][o] = "locked"
  /\ Reads(w, o)
  /\ stage' = [stage EXCEPT ![w][o] = "broken"]
  /\ UNCHANGED <<store, holder, op, val, buf>>

(* writeStored, or the end of patchShard: Set, or Delete if all is fill.    *)
Save(w, o) ==
  /\ stage[w][o] = "patched"
  /\ store' = [store EXCEPT ![o] = Written(buf[w][o])]
  /\ stage' = [stage EXCEPT ![w][o] = "saved"]
  /\ buf' = [buf EXCEPT ![w][o] = Absent]
  /\ UNCHANGED <<holder, op, val>>

(* An error from the store says nothing of whether the object was written.  *)
SaveFails(w, o) ==
  /\ stage[w][o] = "patched"
  /\ \/ UNCHANGED store
     \/ store' = [store EXCEPT ![o] = Written(buf[w][o])]
  /\ stage' = [stage EXCEPT ![w][o] = "broken"]
  /\ buf' = [buf EXCEPT ![w][o] = Absent]
  /\ UNCHANGED <<holder, op, val>>

(* Mutant: the lock is let go only if all went well.                        *)
UnlockSaved(w, o) ==
  /\ stage[w][o] = "saved"
  /\ Locks!Release(<<w, o>>, o)
  /\ stage' = [stage EXCEPT ![w][o] = "done"]
  /\ UNCHANGED <<store, op, val, buf>>

(* exclusive's deferred unlock, after f failed as well as after it ended.   *)
Unlock(w, o) ==
  /\ stage[w][o] \in {"saved", "broken"}
  /\ Locks!Release(<<w, o>>, o)
  /\ stage' = [stage EXCEPT ![w][o] = IF @ = "saved" THEN "done" ELSE "failed"]
  /\ UNCHANGED <<store, op, val, buf>>

Forget(w) == stage' = [stage EXCEPT ![w] = [o \in Objects |-> "none"]]

(* The loop over the stored objects ended: with all done, or with one that  *)
(* failed, in which case others may not have been begun.                    *)
Return(w) ==
  /\ op[w] = "writing"
  /\ \A o \in Touched(w) : stage[w][o] = "done"
  /\ op' = [op EXCEPT ![w] = "ok"]
  /\ Forget(w)
  /\ UNCHANGED <<store, holder, val, buf>>

ReturnError(w) ==
  /\ op[w] = "writing"
  /\ \A o \in Touched(w) : stage[w][o] \in {"todo", "done", "failed"}
  /\ \E o \in Touched(w) : stage[w][o] = "failed"
  /\ op' = [op EXCEPT ![w] = "failed"]
  /\ Forget(w)
  /\ UNCHANGED <<store, holder, val, buf>>

Work(w, o) ==
  \/ Lock(w, o)
  \/ LockFails(w, o)
  \/ Load(w, o)
  \/ LoadFails(w, o)
  \/ Save(w, o)
  \/ SaveFails(w, o)
  \/ Unlock(w, o)

Next ==
  \E w \in Writers :
    \/ \E v \in Values : Begin(w, v)
    \/ \E o \in Objects : Work(w, o)
    \/ Return(w)
    \/ ReturnError(w)

Spec == Init /\ [][Next]_vars

(* Store calls end, goroutines run, and a lock is served in turn (KeyLocks).*)
Fairness ==
  /\ \A w \in Writers, o \in Objects :
       /\ SF_vars(Lock(w, o))
       /\ WF_vars(Load(w, o) \/ LoadFails(w, o))
       /\ WF_vars(Save(w, o) \/ SaveFails(w, o))
       /\ WF_vars(Unlock(w, o))
  /\ \A w \in Writers : WF_vars(Return(w) \/ ReturnError(w))

FairSpec == Spec /\ Fairness
-----------------------------------------------------------------------------
(* The array as Read returns it.                                            *)
array == [e \in Elements |-> ReadStored(ObjectOf[e])[e]]

Abstract == INSTANCE RegionWrites

(* No call touches an element of another's region, though they share stored *)
(* objects and each writes the whole of them back; a call that returned nil *)
(* has written all of its own.                                              *)
ImplementsRegionWrites == Abstract!Spec

(* Every call returns: "there is no order to keep them in and nothing to    *)
(* deadlock on" (concurrent.go:70-71).                                      *)
EveryCallReturns == \A w \in Writers : op[w] = "writing" ~> op[w] # "writing"

(* What has become of a stored object stays until the call returns: no      *)
(* other call's read, patch and write is around it.                         *)
DoneStays ==
  \A w \in Writers, o \in Objects :
    stage[w][o] \in {"saved", "done"} =>
      \A e \in Cell(o) \cap Region[w] : ReadStored(o)[e] = val[w]
-----------------------------------------------------------------------------
(* The parts of the inductive invariant.                                    *)

(* A call is somewhere with the stored objects of its region, and no other. *)
InPlace ==
  \A w \in Writers, o \in Objects :
    stage[w][o] # "none" <=> op[w] = "writing" /\ o \in Touched(w)

(* Who is between lock and unlock holds the lock.                           *)
Holding ==
  \A w \in Writers, o \in Objects :
    stage[w][o] \in {"locked", "patched", "saved", "broken"} => holder[o] = <<w, o>>

(* What a call is about to write differs from what is stored in its own     *)
(* region only, and still does when it writes.                              *)
PatchCurrent ==
  \A w \in Writers, o \in Objects :
    stage[w][o] = "patched" =>
      buf[w][o] = [e \in Cell(o) |->
                    IF e \in Region[w] THEN val[w] ELSE ReadStored(o)[e]]

IInv ==
  /\ TypeOK
  /\ InPlace
  /\ Holding
  /\ PatchCurrent
  /\ DoneStays
=============================================================================
