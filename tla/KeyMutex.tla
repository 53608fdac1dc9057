------------------------------ MODULE KeyMutex ------------------------------
(***************************************************************************)
(* What a lock per stored object promises: each key has at most one holder, *)
(* and a task holds at most one key.  exclusive in concurrent.go relies on  *)
(* nothing else, and KeyLocks shows that the table of reference counted     *)
(* locks provides it.                                                       *)
(***************************************************************************)
CONSTANTS Tasks,   \* the goroutines that call exclusive
          Keys,    \* the keys of stored objects
          NoTask   \* the holder of a free key, no task

VARIABLE holder    \* holder[k] is the task inside the critical section of k

TypeOK == holder \in [Keys -> Tasks \cup {NoTask}]

Holds(t) == \E k \in Keys : holder[k] = t

Init == holder = [k \in Keys |-> NoTask]

(* exclusive: the lock is granted to a task that holds no other.            *)
Acquire(t, k) ==
  /\ holder[k] = NoTask
  /\ ~Holds(t)
  /\ holder' = [holder EXCEPT ![k] = t]

(* The unlock that lock returns.                                            *)
Release(t, k) ==
  /\ holder[k] = t
  /\ holder' = [holder EXCEPT ![k] = NoTask]

Next == \E t \in Tasks, k \in Keys : Acquire(t, k) \/ Release(t, k)

Spec == Init /\ [][Next]_holder
=============================================================================
