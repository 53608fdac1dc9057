------------------------------ MODULE EachSpan ------------------------------
(***************************************************************************)
(* eachSpan (concurrent.go): the loop that Read, Write and Resize run over  *)
(* stored objects, in up to limit goroutines that take indices from one     *)
(* atomic counter.  f is whatever the caller does with an index: it ends    *)
(* well, fails of its own, or fails because its context was cancelled.      *)
(***************************************************************************)
EXTENDS Integers

CONSTANTS Concurrencies,       \* what Array.Concurrency may be set to
          DefaultConcurrency,  \* defaultConcurrency
          MaxTotal             \* bound: the most indices from lo to hi

ASSUME SpanAssumption ==
  /\ Concurrencies \subseteq Int
  /\ DefaultConcurrency \in Nat \ {0}
  /\ MaxTotal \in Nat

VARIABLES concurrency, total, broken,  \* the call: fixed from the start
          mode,        \* which of eachSpan's two loops runs, and its end
          next,        \* the counter: the next index nobody has taken
          completed,   \* the indices f has ended well at
          pc,          \* where each worker is
          cur,         \* the index it last took
          err,         \* the error its f last returned
          first,       \* the first error recorded
          parentDone,  \* whether the caller's context is done
          ctxDone,     \* whether the context f is given is done
          ret          \* what eachSpan returned

call == <<concurrency, total, broken>>
vars == <<call, mode, next, completed, pc, cur, err, first, parentDone, ctxDone, ret>>

Smaller(m, n) == IF m < n THEN m ELSE n
Larger(m, n) == IF m > n THEN m ELSE n

(* Array.limit: the default if c is not positive, and no more than n.       *)
LimitOf(c, n) ==
  Smaller(Larger(IF c <= 0 THEN DefaultConcurrency ELSE c, 1), n)

limit == LimitOf(concurrency, total)
Indices == 0 .. total - 1

(* The goroutines there may be; only those up to limit are started.         *)
Workers == 1 .. MaxTotal
Started == {w \in Workers : w <= Smaller(limit, total)}

(* broken: an f's own failure.  cancelled: a context error.                 *)
Errors == {"broken", "cancelled"}
Places == {"none", "take", "check", "call", "record", "cancel", "exited"}

TypeOK ==
  /\ concurrency \in Concurrencies
  /\ total \in 0 .. MaxTotal
  /\ broken \subseteq Indices
  /\ mode \in {"start", "sequential", "parallel", "returned"}
  /\ next \in Nat
  /\ completed \subseteq Indices
  /\ pc \in [Workers -> Places]
  /\ cur \in [Workers -> Nat]
  /\ err \in [Workers -> Errors \cup {"nil"}]
  /\ first \in Errors \cup {"nil"}
  /\ parentDone \in BOOLEAN
  /\ ctxDone \in BOOLEAN
  /\ ret \in Errors \cup {"nil", "none"}

Init ==
  /\ concurrency \in Concurrencies
  /\ total \in 0 .. MaxTotal
  /\ broken \in SUBSET Indices
  /\ mode = "start"
  /\ next = 0
  /\ completed = {}
  /\ pc = [w \in Workers |-> "none"]
  /\ cur = [w \in Workers |-> 0]
  /\ err = [w \in Workers |-> "nil"]
  /\ first = "nil"
  /\ parentDone = FALSE
  /\ ctxDone = FALSE
  /\ ret = "none"
-----------------------------------------------------------------------------
(* The errors f may return at n with a context that is done or is not.      *)
Failures(n, done) ==
  (IF n \in broken THEN {"broken"} ELSE {}) \cup
  (IF done THEN {"cancelled"} ELSE {})

Start ==
  /\ mode = "start"
  /\ IF limit <= 1 \/ total <= 1
     THEN mode' = "sequential" /\ UNCHANGED pc
     ELSE /\ mode' = "parallel"
          /\ pc' = [w \in Workers |-> IF w \in Started THEN "take" ELSE "none"]
  /\ UNCHANGED <<next, completed, cur, err, first, parentDone, ctxDone, ret>>

Return(e) ==
  /\ mode' = "returned"
  /\ ret' = e

(* The loop of one goroutine: f has the caller's own context, which the     *)
(* loop itself never looks at.                                              *)
SequentialCall ==
  /\ mode = "sequential"
  /\ next < total
  /\ next \notin broken
  /\ completed' = completed \cup {next}
  /\ next' = next + 1
  /\ UNCHANGED <<mode, pc, cur, err, first, parentDone, ctxDone, ret>>

SequentialFail ==
  /\ mode = "sequential"
  /\ next < total
  /\ \E e \in Failures(next, parentDone) : Return(e)
  /\ UNCHANGED <<next, completed, pc, cur, err, first, parentDone, ctxDone>>

SequentialEnd ==
  /\ mode = "sequential"
  /\ next >= total
  /\ Return("nil")
  /\ UNCHANGED <<next, completed, pc, cur, err, first, parentDone, ctxDone>>

(* Mutant: a counter that is not atomic loses an update.                    *)
TakeRacing(w) ==
  /\ pc[w] = "take"
  /\ cur' = [cur EXCEPT ![w] = next]
  /\ next' \in {next, next + 1}
  /\ pc' = [pc EXCEPT ![w] = "check"]
  /\ UNCHANGED <<mode, completed, err, first, parentDone, ctxDone, ret>>

(* n := int(next.Add(1)) - 1                                                *)
Take(w) ==
  /\ pc[w] = "take"
  /\ cur' = [cur EXCEPT ![w] = next]
  /\ next' = next + 1
  /\ pc' = [pc EXCEPT ![w] = "check"]
  /\ UNCHANGED <<mode, completed, err, first, parentDone, ctxDone, ret>>

(* Mutant: one index too many.                                              *)
CheckPastEnd(w) ==
  /\ pc[w] = "check"
  /\ pc' = [pc EXCEPT ![w] =
              IF cur[w] > total \/ ctxDone THEN "exited" ELSE "call"]
  /\ UNCHANGED <<mode, next, completed, cur, err, first, parentDone, ctxDone, ret>>

(* if n >= total || ctx.Err() != nil { return }                             *)
Check(w) ==
  /\ pc[w] = "check"
  /\ pc' = [pc EXCEPT ![w] =
              IF cur[w] >= total \/ ctxDone THEN "exited" ELSE "call"]
  /\ UNCHANGED <<mode, next, completed, cur, err, first, parentDone, ctxDone, ret>>

Complete(w) ==
  /\ pc[w] = "call"
  /\ cur[w] \notin broken
  /\ completed' = completed \cup {cur[w]}
  /\ pc' = [pc EXCEPT ![w] = "take"]
  /\ UNCHANGED <<mode, next, cur, err, first, parentDone, ctxDone, ret>>

(* Mutant: cancel first and record the error after.                         *)
FailCancelling(w) ==
  /\ pc[w] = "call"
  /\ \E e \in Failures(cur[w], ctxDone) : err' = [err EXCEPT ![w] = e]
  /\ ctxDone' = TRUE
  /\ pc' = [pc EXCEPT ![w] = "record"]
  /\ UNCHANGED <<mode, next, completed, cur, first, parentDone, ret>>

Fail(w) ==
  /\ pc[w] = "call"
  /\ \E e \in Failures(cur[w], ctxDone) : err' = [err EXCEPT ![w] = e]
  /\ pc' = [pc EXCEPT ![w] = "record"]
  /\ UNCHANGED <<mode, next, completed, cur, first, parentDone, ctxDone, ret>>

(* Under mu: if first == nil { first = err }                                *)
Record(w) ==
  /\ pc[w] = "record"
  /\ first' = IF first = "nil" THEN err[w] ELSE first
  /\ pc' = [pc EXCEPT ![w] = "cancel"]
  /\ UNCHANGED <<mode, next, completed, cur, err, parentDone, ctxDone, ret>>

(* Mutant: a failed worker forgets wg.Done.                                 *)
CancelHanging(w) ==
  /\ pc[w] = "cancel"
  /\ ctxDone' = TRUE
  /\ UNCHANGED <<mode, next, completed, pc, cur, err, first, parentDone, ret>>

(* cancel(), and the worker returns.                                        *)
CancelOthers(w) ==
  /\ pc[w] = "cancel"
  /\ ctxDone' = TRUE
  /\ pc' = [pc EXCEPT ![w] = "exited"]
  /\ UNCHANGED <<mode, next, completed, cur, err, first, parentDone, ret>>

(* Mutant: the caller's own cancellation is not an error of the loop.       *)
WaitIgnoringParent ==
  /\ mode = "parallel"
  /\ \A w \in Started : pc[w] = "exited"
  /\ Return(first)
  /\ UNCHANGED <<next, completed, pc, cur, err, first, parentDone, ctxDone>>

(* wg.Wait(), and the error: the first recorded, or the caller's own.       *)
Wait ==
  /\ mode = "parallel"
  /\ \A w \in Started : pc[w] = "exited"
  /\ Return(IF first # "nil" THEN first
            ELSE IF parentDone THEN "cancelled" ELSE "nil")
  /\ UNCHANGED <<next, completed, pc, cur, err, first, parentDone, ctxDone>>

(* The caller's context is done, and then the one derived from it.          *)
CancelParent ==
  /\ mode # "returned"
  /\ ~parentDone
  /\ parentDone' = TRUE
  /\ UNCHANGED <<mode, next, completed, pc, cur, err, first, ctxDone, ret>>

Propagate ==
  /\ mode = "parallel"
  /\ parentDone
  /\ ~ctxDone
  /\ ctxDone' = TRUE
  /\ UNCHANGED <<mode, next, completed, pc, cur, err, first, parentDone, ret>>

Step(w) ==
  Take(w) \/ Check(w) \/ Complete(w) \/ Fail(w) \/ Record(w) \/ CancelOthers(w)

Sequential == SequentialCall \/ SequentialFail \/ SequentialEnd

Next ==
  /\ UNCHANGED call
  /\ \/ Start
     \/ Sequential
     \/ \E w \in Workers : Step(w)
     \/ Wait
     \/ CancelParent
     \/ Propagate

Spec == Init /\ [][Next]_vars

(* Goroutines run, and every call of f ends.                                *)
Fairness ==
  /\ WF_vars(Start /\ UNCHANGED call)
  /\ WF_vars(Sequential /\ UNCHANGED call)
  /\ \A w \in Workers : WF_vars(Step(w) /\ UNCHANGED call)
  /\ WF_vars(Wait /\ UNCHANGED call)

FairSpec == Spec /\ Fairness
-----------------------------------------------------------------------------
(* A loop that returned nil has been everywhere: "a cancelled read must not *)
(* look like one that read everything" (concurrent.go:192-193).             *)
NilMeansAll == ret = "nil" => completed = Indices

(* "the error returned is the one that failed, never that cancellation"     *)
(* (concurrent.go:138): a context error comes out only if the context that  *)
(* is done is the caller's, and not the one a failing f cancels, whatever   *)
(* the order in which workers see the cancellation and record their errors. *)
NeverOwnCancellation ==
  /\ first = "cancelled" => parentDone
  /\ ret = "cancelled" => parentDone

(* No index is worked on twice, at once or one after the other: f may write *)
(* to its own place in a slice without a lock (concurrent.go:130-133).      *)
Working(w) == pc[w] \in {"check", "call"}

NoIndexTwice ==
  \A w \in Workers :
    Working(w) =>
      /\ cur[w] \notin completed
      /\ \A v \in Workers : Working(v) /\ cur[v] = cur[w] => v = w

(* The loop returns, whatever fails and whoever cancels.                    *)
Returns == <>(mode = "returned")
-----------------------------------------------------------------------------
(* The parts of the inductive invariant.                                    *)

(* Every index taken is done, in some worker's hands, or given up for a     *)
(* failure or a cancellation that is on record.                             *)
Accounted ==
  \A n \in Indices :
    n < next =>
      \/ n \in completed
      \/ \E w \in Workers : cur[w] = n /\ pc[w] \in {"check", "call", "record", "cancel"}
      \/ ctxDone
      \/ first # "nil"

(* A context that is done has a cause on record: a worker records its error *)
(* before it cancels.                                                       *)
CancelHasCause ==
  /\ ctxDone => parentDone \/ first # "nil"
  /\ \A w \in Workers :
       /\ pc[w] = "cancel" => first # "nil"
       /\ pc[w] = "record" => err[w] # "nil"
       /\ pc[w] = "record" /\ err[w] = "cancelled" => parentDone \/ first # "nil"
  /\ first = "cancelled" => parentDone

(* Who works when, on what, and why a worker left.                          *)
WorkersPlaced ==
  \A w \in Workers :
    /\ pc[w] # "none" => w \in Started
    /\ mode \in {"start", "sequential"} => pc[w] = "none"
    /\ mode = "parallel" /\ w \in Started => pc[w] # "none"
    /\ mode = "returned" => pc[w] \in {"none", "exited"}
    /\ pc[w] \notin {"none", "take"} => cur[w] < next
    /\ pc[w] = "call" => cur[w] < total
    /\ pc[w] = "exited" => next > total \/ ctxDone

LoopInOrder ==
  /\ mode = "start" => next = 0
  /\ mode = "parallel" => limit > 1 /\ total > 1
  /\ mode = "sequential" => next <= total /\ \A n \in Indices : n < next => n \in completed
  /\ (ret = "none") <=> (mode # "returned")

(* With it: a loop that ends without an error on record has been            *)
(* everywhere, and an error on record is never the loop's own cancellation. *)
IInv ==
  /\ TypeOK
  /\ Accounted
  /\ CancelHasCause
  /\ WorkersPlaced
  /\ LoopInOrder
  /\ NilMeansAll
  /\ NeverOwnCancellation
=============================================================================
