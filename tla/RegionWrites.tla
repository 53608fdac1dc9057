---------------------------- MODULE RegionWrites ----------------------------
(***************************************************************************)
(* What Write and WriteChunk promise to goroutines that write regions of    *)
(* one array that do not overlap (array.go:808-821): a call changes nothing *)
(* but elements of its own region, a stored object at a time; one that      *)
(* returns nil has written them all, and one that fails some of the stored  *)
(* objects and not others.                                                  *)
(***************************************************************************)
CONSTANTS Elements,  \* the elements of the array
          Objects,   \* its stored objects: chunks, or shards
          ObjectOf,  \* the stored object of each element
          Writers,   \* the goroutines that write
          Region,    \* the elements each of them writes
          Values,    \* what an element may hold
          Fill       \* the fill value

VARIABLES array,     \* the value of each element
          op,        \* what each writer's call is at
          val        \* what it writes

vars == <<array, op, val>>

Init ==
  /\ array = [e \in Elements |-> Fill]
  /\ op = [w \in Writers |-> "idle"]
  /\ val = [w \in Writers |-> Fill]

Begin(w, v) ==
  /\ op[w] # "writing"
  /\ op' = [op EXCEPT ![w] = "writing"]
  /\ val' = [val EXCEPT ![w] = v]
  /\ UNCHANGED array

Put(w, o) ==
  /\ op[w] = "writing"
  /\ array' = [e \in Elements |->
                IF e \in Region[w] /\ ObjectOf[e] = o THEN val[w] ELSE array[e]]
  /\ UNCHANGED <<op, val>>

Succeed(w) ==
  /\ op[w] = "writing"
  /\ \A e \in Region[w] : array[e] = val[w]
  /\ op' = [op EXCEPT ![w] = "ok"]
  /\ UNCHANGED <<array, val>>

Fail(w) ==
  /\ op[w] = "writing"
  /\ op' = [op EXCEPT ![w] = "failed"]
  /\ UNCHANGED <<array, val>>

Next ==
  \E w \in Writers :
    \/ \E v \in Values : Begin(w, v)
    \/ \E o \in Objects : Put(w, o)
    \/ Succeed(w)
    \/ Fail(w)

Spec == Init /\ [][Next]_vars
=============================================================================
