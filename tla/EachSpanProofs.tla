--------------------------- MODULE EachSpanProofs ---------------------------
(***************************************************************************)
(* EachSpan for any number of indices, any setting of Concurrency and any   *)
(* set of indices that fail.                                                *)
(***************************************************************************)
EXTENDS EachSpan, TLAPS

(* Two workers at least in the parallel loop, and none without an index.    *)
LEMMA LimitBounds ==
  ASSUME TypeOK
  PROVE  /\ limit \in Nat
         /\ limit <= total
         /\ total \in Nat
         /\ Started = 1 .. limit
BY SpanAssumption DEF TypeOK, limit, LimitOf, Smaller, Larger, Started, Workers

LEMMA InitIInv == Init => IInv
<1> SUFFICES ASSUME Init PROVE IInv
  OBVIOUS
<1>1. TypeOK
  BY SpanAssumption DEF Init, TypeOK, Places
<1>2. Accounted
  BY SpanAssumption DEF Init, Accounted, Indices
<1>3. CancelHasCause /\ WorkersPlaced /\ LoopInOrder
  BY DEF Init, CancelHasCause, WorkersPlaced, LoopInOrder
<1>4. NilMeansAll /\ NeverOwnCancellation
  BY DEF Init, NilMeansAll, NeverOwnCancellation
<1> QED
  BY <1>1, <1>2, <1>3, <1>4 DEF IInv

LEMMA CallFixed ==
  ASSUME UNCHANGED call
  PROVE  /\ total' = total
         /\ limit' = limit
         /\ Indices' = Indices
         /\ Started' = Started
BY DEF call, limit, Indices, Started

LEMMA StartKeepsIInv == IInv /\ Start /\ UNCHANGED call => IInv'
<1> SUFFICES ASSUME IInv, Start, UNCHANGED call PROVE IInv'
  OBVIOUS
<1> USE CallFixed, LimitBounds DEF IInv
<1>1. TypeOK'
  BY DEF Start, TypeOK, Places, call
<1>2. Accounted'
  BY DEF Start, Accounted, LoopInOrder, Indices, TypeOK
<1>3. CancelHasCause'
  BY DEF Start, CancelHasCause, WorkersPlaced, TypeOK
<1>4. WorkersPlaced'
  BY DEF Start, WorkersPlaced, LoopInOrder, TypeOK, call
<1>5. LoopInOrder' /\ NilMeansAll' /\ NeverOwnCancellation'
  BY DEF Start, LoopInOrder, NilMeansAll, NeverOwnCancellation, TypeOK, Indices, call
<1> QED
  BY <1>1, <1>2, <1>3, <1>4, <1>5

LEMMA SequentialKeepsIInv == IInv /\ Sequential /\ UNCHANGED call => IInv'
<1> SUFFICES ASSUME IInv, Sequential, UNCHANGED call PROVE IInv'
  OBVIOUS
<1> USE CallFixed, LimitBounds DEF IInv
<1>1. CASE SequentialCall
  <2>1. TypeOK'
    BY <1>1 DEF SequentialCall, TypeOK, Indices, call
  <2>2. Accounted'
    BY <1>1 DEF SequentialCall, Accounted, LoopInOrder, TypeOK, Indices
  <2>3. CancelHasCause' /\ WorkersPlaced'
    BY <1>1 DEF SequentialCall, CancelHasCause, WorkersPlaced, TypeOK, call
  <2>4. LoopInOrder' /\ NilMeansAll' /\ NeverOwnCancellation'
    BY <1>1 DEF SequentialCall, LoopInOrder, NilMeansAll, NeverOwnCancellation,
                TypeOK, Indices, call
  <2> QED
    BY <2>1, <2>2, <2>3, <2>4
<1>2. CASE SequentialFail
  <2>1. PICK e \in Failures(next, parentDone) : Return(e)
    BY <1>2 DEF SequentialFail
  <2>2. e \in Errors /\ (e = "cancelled" => parentDone)
    BY <2>1 DEF Failures, Errors
  <2>3. TypeOK' /\ Accounted'
    <3>1. TypeOK'
      BY <1>2, <2>1, <2>2 DEF SequentialFail, Return, TypeOK, Errors, call
    <3>2. Accounted'
      BY <1>2 DEF SequentialFail, Accounted
    <3> QED
      BY <3>1, <3>2
  <2>4. CancelHasCause' /\ WorkersPlaced'
    BY <1>2, <2>1 DEF SequentialFail, Return, CancelHasCause, WorkersPlaced, TypeOK, call
  <2>5. LoopInOrder' /\ NilMeansAll' /\ NeverOwnCancellation'
    BY <1>2, <2>1, <2>2
    DEF SequentialFail, Return, LoopInOrder, NilMeansAll, NeverOwnCancellation, Errors
  <2> QED
    BY <2>3, <2>4, <2>5
<1>3. CASE SequentialEnd
  <2>1. completed = Indices
    <3>1. \A n \in Indices : n < next
      BY <1>3 DEF SequentialEnd, TypeOK, Indices
    <3> QED
      BY <1>3, <3>1 DEF SequentialEnd, LoopInOrder, TypeOK
  <2>2. TypeOK' /\ Accounted'
    <3>1. TypeOK'
      BY <1>3 DEF SequentialEnd, Return, TypeOK, call
    <3>2. Accounted'
      BY <1>3 DEF SequentialEnd, Accounted
    <3> QED
      BY <3>1, <3>2
  <2>3. CancelHasCause' /\ WorkersPlaced'
    BY <1>3 DEF SequentialEnd, Return, CancelHasCause, WorkersPlaced, TypeOK, call
  <2>4. LoopInOrder' /\ NilMeansAll' /\ NeverOwnCancellation'
    BY <1>3, <2>1
    DEF SequentialEnd, Return, LoopInOrder, NilMeansAll, NeverOwnCancellation
  <2> QED
    BY <2>2, <2>3, <2>4
<1> QED
  BY <1>1, <1>2, <1>3 DEF Sequential

LEMMA TakeKeepsIInv ==
  ASSUME IInv, NEW w \in Workers, Take(w), UNCHANGED call
  PROVE  IInv'
<1> USE CallFixed, LimitBounds DEF IInv
<1>1. mode = "parallel" /\ w \in Started
  BY DEF Take, TypeOK, WorkersPlaced
<1>2. TypeOK'
  BY DEF Take, TypeOK, Places, call, Indices
<1>3. Accounted'
  <2> SUFFICES ASSUME NEW n \in Indices, n < next'
               PROVE  \/ n \in completed'
                      \/ \E v \in Workers :
                           /\ cur'[v] = n
                           /\ pc'[v] \in {"check", "call", "record", "cancel"}
                      \/ ctxDone'
                      \/ first' # "nil"
    BY DEF Accounted
  <2>1. CASE n = next
    BY <2>1 DEF Take, TypeOK
  <2>2. CASE n < next
    BY <2>2 DEF Take, TypeOK, Accounted
  <2> QED
    BY <2>1, <2>2 DEF Take, TypeOK, Indices
<1>4. CancelHasCause'
  BY DEF Take, CancelHasCause, TypeOK
<1>5. WorkersPlaced'
  BY <1>1 DEF Take, WorkersPlaced, TypeOK, call
<1>6. LoopInOrder' /\ NilMeansAll' /\ NeverOwnCancellation'
  BY <1>1 DEF Take, LoopInOrder, NilMeansAll, NeverOwnCancellation
<1> QED
  BY <1>2, <1>3, <1>4, <1>5, <1>6

LEMMA CheckKeepsIInv ==
  ASSUME IInv, NEW w \in Workers, Check(w), UNCHANGED call
  PROVE  IInv'
<1> USE CallFixed, LimitBounds DEF IInv
<1>1. mode = "parallel" /\ cur[w] \in Nat /\ next \in Nat /\ cur[w] < next
  BY DEF Check, TypeOK, WorkersPlaced
<1>2. TypeOK'
  BY DEF Check, TypeOK, Places, call, Indices
<1>3. Accounted'
  BY DEF Check, TypeOK, Accounted, Indices
<1>4. CancelHasCause'
  BY DEF Check, CancelHasCause, TypeOK
<1>5. WorkersPlaced'
  BY <1>1 DEF Check, WorkersPlaced, TypeOK, call
<1>6. LoopInOrder' /\ NilMeansAll' /\ NeverOwnCancellation'
  BY <1>1 DEF Check, LoopInOrder, NilMeansAll, NeverOwnCancellation
<1> QED
  BY <1>2, <1>3, <1>4, <1>5, <1>6

LEMMA CompleteKeepsIInv ==
  ASSUME IInv, NEW w \in Workers, Complete(w), UNCHANGED call
  PROVE  IInv'
<1> USE CallFixed, LimitBounds DEF IInv
<1>1. mode = "parallel"
  BY DEF Complete, TypeOK, WorkersPlaced
<1>2. cur[w] \in Indices
  BY DEF Complete, TypeOK, WorkersPlaced, Indices
<1>3. TypeOK'
  BY <1>2 DEF Complete, TypeOK, Places, call
<1>4. Accounted'
  BY <1>2 DEF Complete, TypeOK, Accounted
<1>5. CancelHasCause'
  BY DEF Complete, CancelHasCause, TypeOK
<1>6. WorkersPlaced'
  BY <1>1 DEF Complete, WorkersPlaced, TypeOK, call
<1>7. LoopInOrder' /\ NilMeansAll' /\ NeverOwnCancellation'
  BY <1>1 DEF Complete, LoopInOrder, NilMeansAll, NeverOwnCancellation
<1> QED
  BY <1>3, <1>4, <1>5, <1>6, <1>7

LEMMA FailKeepsIInv ==
  ASSUME IInv, NEW w \in Workers, Fail(w), UNCHANGED call
  PROVE  IInv'
<1> USE CallFixed, LimitBounds DEF IInv
<1>1. mode = "parallel"
  BY DEF Fail, TypeOK, WorkersPlaced
<1>2. PICK e \in Failures(cur[w], ctxDone) : err' = [err EXCEPT ![w] = e]
  BY DEF Fail
<1>3. e \in Errors /\ e # "nil" /\ (e = "cancelled" => ctxDone)
  BY DEF Failures, Errors
<1>4. TypeOK'
  BY <1>2, <1>3 DEF Fail, TypeOK, Places, call, Indices
<1>5. Accounted'
  BY DEF Fail, TypeOK, Accounted
<1>6. CancelHasCause'
  BY <1>2, <1>3 DEF Fail, CancelHasCause, TypeOK
<1>7. WorkersPlaced'
  BY <1>1 DEF Fail, WorkersPlaced, TypeOK, call
<1>8. LoopInOrder' /\ NilMeansAll' /\ NeverOwnCancellation'
  BY <1>1 DEF Fail, LoopInOrder, NilMeansAll, NeverOwnCancellation
<1> QED
  BY <1>4, <1>5, <1>6, <1>7, <1>8

LEMMA RecordKeepsIInv ==
  ASSUME IInv, NEW w \in Workers, Record(w), UNCHANGED call
  PROVE  IInv'
<1> USE CallFixed, LimitBounds DEF IInv
<1>1. mode = "parallel"
  BY DEF Record, TypeOK, WorkersPlaced
<1>2. TypeOK'
  BY DEF Record, TypeOK, Places, call, Indices
<1>3. first' # "nil"
  BY DEF Record, CancelHasCause
<1>4. Accounted'
  BY <1>3 DEF Accounted
<1>5. CancelHasCause'
  BY <1>3 DEF Record, CancelHasCause, TypeOK
<1>6. WorkersPlaced'
  BY <1>1 DEF Record, WorkersPlaced, TypeOK, call
<1>7. LoopInOrder' /\ NilMeansAll' /\ NeverOwnCancellation'
  BY <1>1, <1>5 DEF Record, LoopInOrder, NilMeansAll, NeverOwnCancellation, CancelHasCause
<1> QED
  BY <1>2, <1>4, <1>5, <1>6, <1>7

LEMMA CancelOthersKeepsIInv ==
  ASSUME IInv, NEW w \in Workers, CancelOthers(w), UNCHANGED call
  PROVE  IInv'
<1> USE CallFixed, LimitBounds DEF IInv
<1>1. mode = "parallel"
  BY DEF CancelOthers, TypeOK, WorkersPlaced
<1>2. TypeOK'
  BY DEF CancelOthers, TypeOK, Places, call, Indices
<1>3. Accounted'
  BY DEF CancelOthers, Accounted
<1>4. CancelHasCause'
  BY DEF CancelOthers, CancelHasCause, TypeOK
<1>5. WorkersPlaced'
  BY <1>1 DEF CancelOthers, WorkersPlaced, TypeOK, call
<1>6. LoopInOrder' /\ NilMeansAll' /\ NeverOwnCancellation'
  BY <1>1 DEF CancelOthers, LoopInOrder, NilMeansAll, NeverOwnCancellation
<1> QED
  BY <1>2, <1>3, <1>4, <1>5, <1>6

(* Every worker is gone.  With no error on record and the caller's context  *)
(* good, the first of them left because the indices had run out, and every  *)
(* index below the counter is done: nobody is left to have it in hand.      *)
LEMMA WaitKeepsIInv == IInv /\ Wait /\ UNCHANGED call => IInv'
<1> SUFFICES ASSUME IInv, Wait, UNCHANGED call PROVE IInv'
  OBVIOUS
<1> USE CallFixed, LimitBounds DEF IInv
<1>1. \A w \in Workers : pc[w] \in {"none", "exited"}
  BY DEF Wait, WorkersPlaced, TypeOK
<1>2. ASSUME first = "nil", ~parentDone PROVE completed = Indices
  <2>1. ~ctxDone
    BY <1>2 DEF CancelHasCause
  <2>2. 1 \in Started
    BY DEF Wait, LoopInOrder
  <2>3. next > total
    BY <2>1, <2>2 DEF Wait, WorkersPlaced, Started, Workers
  <2>4. \A n \in Indices : n < next
    BY <2>3 DEF TypeOK, Indices
  <2> QED
    BY <1>1, <1>2, <2>1, <2>4 DEF Accounted, TypeOK
<1>3. TypeOK' /\ Accounted'
  BY DEF Wait, Return, TypeOK, Accounted, Errors, call, Indices
<1>4. CancelHasCause' /\ WorkersPlaced'
  BY <1>1 DEF Wait, Return, CancelHasCause, WorkersPlaced, TypeOK, call
<1>5. LoopInOrder' /\ NilMeansAll' /\ NeverOwnCancellation'
  BY <1>2 DEF Wait, Return, LoopInOrder, NilMeansAll, NeverOwnCancellation, TypeOK, Errors
<1> QED
  BY <1>3, <1>4, <1>5
-----------------------------------------------------------------------------
LEMMA NextKeepsIInv == IInv /\ [Next]_vars => IInv'
<1> SUFFICES ASSUME IInv, [Next]_vars PROVE IInv'
  OBVIOUS
<1>1. CASE UNCHANGED vars
  BY <1>1, CallFixed
  DEF vars, call, IInv, TypeOK, Accounted, CancelHasCause, WorkersPlaced,
      LoopInOrder, NilMeansAll, NeverOwnCancellation
<1>2. CASE (CancelParent \/ Propagate) /\ UNCHANGED call
  <2> USE <1>2, CallFixed DEF IInv
  <2>1. TypeOK'
    BY DEF CancelParent, Propagate, TypeOK, call
  <2>2. Accounted'
    BY DEF CancelParent, Propagate, Accounted
  <2>3. CancelHasCause' /\ WorkersPlaced'
    BY DEF CancelParent, Propagate, CancelHasCause, WorkersPlaced
  <2>4. LoopInOrder' /\ NilMeansAll' /\ NeverOwnCancellation'
    BY DEF CancelParent, Propagate, LoopInOrder, NilMeansAll, NeverOwnCancellation
  <2> QED
    BY <2>1, <2>2, <2>3, <2>4
<1>3. ASSUME NEW w \in Workers, Step(w), UNCHANGED call PROVE IInv'
  BY <1>3, TakeKeepsIInv, CheckKeepsIInv, CompleteKeepsIInv, FailKeepsIInv,
     RecordKeepsIInv, CancelOthersKeepsIInv
  DEF Step
<1> QED
  BY <1>1, <1>2, <1>3, StartKeepsIInv, SequentialKeepsIInv, WaitKeepsIInv DEF Next

(* The loop keeps account of every index and of the cause of every          *)
(* cancellation.                                                            *)
THEOREM LoopAccounts == Spec => []IInv
BY InitIInv, NextKeepsIInv, PTL DEF Spec

(* A loop that returned nil has ended well at every index, for any number   *)
(* of goroutines and any failures: what Read returns without an error is    *)
(* whole.                                                                   *)
THEOREM NilIsWhole == Spec => []NilMeansAll
<1>1. IInv => NilMeansAll
  BY DEF IInv
<1> QED
  BY <1>1, LoopAccounts, PTL

(* The error of a failed loop is a failure of f, or the caller's own        *)
(* cancellation: never the one a failing f sets off (concurrent.go:137).    *)
THEOREM ErrorIsCause == Spec => []NeverOwnCancellation
<1>1. IInv => NeverOwnCancellation
  BY DEF IInv
<1> QED
  BY <1>1, LoopAccounts, PTL
-----------------------------------------------------------------------------
(* Each index is handed out once: those done and those in hand are behind   *)
(* the counter, and none is both or in two hands.                           *)
Once == NoIndexTwice /\ \A n \in completed : n < next

LEMMA WorkKeepsOnce ==
  ASSUME IInv, Once, NEW u \in Workers, Step(u), UNCHANGED call
  PROVE  Once'
<1> USE CallFixed DEF IInv
<1>1. /\ completed \subseteq Indices /\ next \in Nat
      /\ pc \in [Workers -> Places] /\ cur \in [Workers -> Nat]
  BY DEF TypeOK
<1>2. \A w \in Workers : Working(w) => cur[w] < next
  BY DEF WorkersPlaced, Working
<1>3. CASE Take(u)
  <2>1. \A n \in completed' : n < next'
    BY <1>1, <1>3 DEF Take, Once, Indices
  <2>2. \A w \in Workers : w # u => cur'[w] = cur[w] /\ (Working(w)' <=> Working(w))
    BY <1>1, <1>3 DEF Take, Working
  <2>3. cur'[u] = next /\ completed' = completed
    BY <1>1, <1>3 DEF Take
  <2> QED
    BY <1>1, <1>2, <2>1, <2>2, <2>3 DEF Once, NoIndexTwice
<1>4. CASE Complete(u)
  <2>1. ~Working(u)' /\ cur' = cur /\ completed' = completed \cup {cur[u]}
    BY <1>1, <1>4 DEF Complete, Working, Places
  <2>2. \A w \in Workers : Working(w)' => Working(w) /\ w # u
    BY <1>1, <1>4, <2>1 DEF Complete, Working
  <2>3. Working(u) /\ next' = next
    BY <1>4 DEF Complete, Working
  <2> QED
    BY <1>2, <2>1, <2>2, <2>3 DEF Once, NoIndexTwice
<1>5. CASE Check(u) \/ Fail(u) \/ Record(u) \/ CancelOthers(u)
  <2>1. UNCHANGED <<cur, completed, next>>
    BY <1>5 DEF Check, Fail, Record, CancelOthers
  <2>2. \A w \in Workers : Working(w)' => Working(w)
    BY <1>1, <1>5 DEF Check, Fail, Record, CancelOthers, Working
  <2> QED
    BY <2>1, <2>2 DEF Once, NoIndexTwice
<1> QED
  BY <1>3, <1>4, <1>5 DEF Step

LEMMA NextKeepsOnce == IInv /\ Once /\ [Next]_vars => Once'
<1> SUFFICES ASSUME IInv, Once, [Next]_vars PROVE Once'
  OBVIOUS
<1> USE CallFixed DEF IInv
<1>1. /\ completed \subseteq Indices /\ next \in Nat /\ pc \in [Workers -> Places]
  BY DEF TypeOK
<1>2. CASE UNCHANGED vars
  BY <1>2 DEF vars, call, Once, NoIndexTwice, Working
<1>3. CASE Start
  <2>1. \A w \in Workers : ~Working(w)'
    BY <1>3 DEF Start, Working, WorkersPlaced, TypeOK
  <2> QED
    BY <1>3, <2>1 DEF Start, Once, NoIndexTwice
<1>4. CASE Sequential
  <2>1. \A w \in Workers : ~Working(w)'
    BY <1>4 DEF Sequential, SequentialCall, SequentialFail, SequentialEnd, Working, WorkersPlaced
  <2>2. \A n \in completed' : n < next'
    <3>1. CASE SequentialCall
      BY <1>1, <3>1 DEF SequentialCall, Once, Indices
    <3>2. CASE SequentialFail \/ SequentialEnd
      BY <3>2 DEF SequentialFail, SequentialEnd, Once
    <3> QED
      BY <1>4, <3>1, <3>2 DEF Sequential
  <2> QED
    BY <2>1, <2>2 DEF Once, NoIndexTwice
<1>5. CASE Wait \/ CancelParent \/ Propagate
  BY <1>5 DEF Wait, CancelParent, Propagate, Once, NoIndexTwice, Working
<1> QED
  BY <1>2, <1>3, <1>4, <1>5, WorkKeepsOnce DEF Next

(* No index is worked on twice, at once or one after the other, by any      *)
(* number of goroutines, whatever fails and whoever cancels: f may write to *)
(* its own place in a slice without a lock (concurrent.go:130-133).         *)
THEOREM IndexOnce == Spec => []NoIndexTwice
<1>1. Init => Once
  BY DEF Init, Once, NoIndexTwice, Working
<1>2. Once => NoIndexTwice
  BY DEF Once
<1> QED
  BY <1>1, <1>2, NextKeepsOnce, LoopAccounts, PTL DEF Spec

(* The state is of its type.                                                *)
THEOREM SpanTypeCorrect == Spec => []TypeOK
<1>1. IInv => TypeOK
  BY DEF IInv
<1> QED
  BY <1>1, LoopAccounts, PTL
=============================================================================
