------------------------------ MODULE KeyLocks ------------------------------
(***************************************************************************)
(* storedLocks (concurrent.go): the process-wide table of locks that holds  *)
(* the writers of one stored object apart.  A lock is made when the first   *)
(* task wants its key and dropped when the last one lets it go, so a task   *)
(* may wait on a lock another task is about to drop, and a key may have a   *)
(* new lock while a task still has the address of an old one.               *)
(*                                                                          *)
(* What runs under keyLocks.mu is one step: nothing in it waits.            *)
(***************************************************************************)
EXTENDS Naturals, FiniteSets

CONSTANTS Tasks,   \* the goroutines that call lock
          Keys,    \* the keys of stored objects
          Locks,   \* the addresses a keyLock may have
          NoTask, NoKey, NoLock

ASSUME SentinelAssumption ==
  /\ NoTask \notin Tasks
  /\ NoKey \notin Keys
  /\ NoLock \notin Locks

(* Memory does not run out: one address for each task is enough.            *)
ASSUME FiniteAssumption ==
  /\ IsFiniteSet(Tasks)
  /\ IsFiniteSet(Locks)
  /\ Cardinality(Tasks) <= Cardinality(Locks)

VARIABLES held,   \* keyLocks.held: the lock of each key, if it has one
          full,   \* keyLock.ch: whether it holds its one element
          users,  \* keyLock.users
          done,   \* the tasks whose context is done
          pc,     \* where each task is in lock, its critical section, unlock
          key,    \* lock's argument
          mine    \* lock's k

vars == <<held, full, users, done, pc, key, mine>>

Steps == {"idle", "select", "holding", "leaving"}

TypeOK ==
  /\ held \in [Keys -> Locks \cup {NoLock}]
  /\ full \in [Locks -> BOOLEAN]
  /\ users \in [Locks -> Nat]
  /\ done \subseteq Tasks
  /\ pc \in [Tasks -> Steps]
  /\ key \in [Tasks -> Keys \cup {NoKey}]
  /\ mine \in [Tasks -> Locks \cup {NoLock}]

Init ==
  /\ held = [k \in Keys |-> NoLock]
  /\ full = [l \in Locks |-> FALSE]
  /\ users = [l \in Locks |-> 0]
  /\ done = {}
  /\ pc = [t \in Tasks |-> "idle"]
  /\ key = [t \in Tasks |-> NoKey]
  /\ mine = [t \in Tasks |-> NoLock]
-----------------------------------------------------------------------------
(* An address a new keyLock may have: one nothing points at.                *)
Unreferenced(l) ==
  /\ \A k \in Keys : held[k] # l
  /\ \A t \in Tasks : mine[t] # l

(* Mutant: a second user that is not counted.                               *)
JoinUncounted(t, k) ==
  /\ held[k] # NoLock
  /\ mine' = [mine EXCEPT ![t] = held[k]]
  /\ UNCHANGED <<held, full, users>>

(* l.users++ on the lock already at the key, which is now the task's.       *)
Join(t, k) ==
  /\ held[k] # NoLock
  /\ users' = [users EXCEPT ![held[k]] = @ + 1]
  /\ mine' = [mine EXCEPT ![t] = held[k]]
  /\ UNCHANGED <<held, full>>

(* A key nobody uses gets a new, empty lock with one user.                  *)
Make(t, k) ==
  /\ held[k] = NoLock
  /\ \E l \in Locks :
       /\ Unreferenced(l)
       /\ held' = [held EXCEPT ![k] = l]
       /\ full' = [full EXCEPT ![l] = FALSE]
       /\ users' = [users EXCEPT ![l] = 1]
       /\ mine' = [mine EXCEPT ![t] = l]

(* lock up to its select.                                                   *)
Lookup(t, k) ==
  /\ pc[t] = "idle"
  /\ Join(t, k) \/ Make(t, k)
  /\ key' = [key EXCEPT ![t] = k]
  /\ pc' = [pc EXCEPT ![t] = "select"]
  /\ UNCHANGED done

(* case k.ch <- struct{}{}: taken also by a task whose context is done, if  *)
(* both cases are ready and the select picks this one.                      *)
Send(t) ==
  /\ pc[t] = "select"
  /\ ~full[mine[t]]
  /\ full' = [full EXCEPT ![mine[t]] = TRUE]
  /\ pc' = [pc EXCEPT ![t] = "holding"]
  /\ UNCHANGED <<held, users, done, key, mine>>

(* Mutant: a cancelled task lets go of a lock it never had.                 *)
GiveUpDraining(t) ==
  /\ pc[t] = "select"
  /\ t \in done
  /\ full' = [full EXCEPT ![mine[t]] = FALSE]
  /\ pc' = [pc EXCEPT ![t] = "leaving"]
  /\ UNCHANGED <<held, users, done, key, mine>>

(* case <-ctx.Done(): the task gives up and has yet to release.             *)
GiveUp(t) ==
  /\ pc[t] = "select"
  /\ t \in done
  /\ pc' = [pc EXCEPT ![t] = "leaving"]
  /\ UNCHANGED <<held, full, users, done, key, mine>>

(* Mutant: unlock releases its user but leaves the channel full.            *)
ReceiveNothing(t) ==
  /\ pc[t] = "holding"
  /\ pc' = [pc EXCEPT ![t] = "leaving"]
  /\ UNCHANGED <<held, full, users, done, key, mine>>

(* unlock's <-k.ch.  It would block on an empty channel.                    *)
Receive(t) ==
  /\ pc[t] = "holding"
  /\ full[mine[t]]
  /\ full' = [full EXCEPT ![mine[t]] = FALSE]
  /\ pc' = [pc EXCEPT ![t] = "leaving"]
  /\ UNCHANGED <<held, users, done, key, mine>>

(* Mutants: release takes the key out of the table whoever else uses the    *)
(* lock, or never.                                                          *)
LeaveAs(t, table) ==
  /\ pc[t] = "leaving"
  /\ users' = [users EXCEPT ![mine[t]] = @ - 1]
  /\ held' = table
  /\ pc' = [pc EXCEPT ![t] = "idle"]
  /\ key' = [key EXCEPT ![t] = NoKey]
  /\ mine' = [mine EXCEPT ![t] = NoLock]
  /\ UNCHANGED <<full, done>>

LeaveDeleting(t) == LeaveAs(t, [held EXCEPT ![key[t]] = NoLock])
LeaveLeaking(t) == LeaveAs(t, held)

(* release: the last user takes the key out of the table.                   *)
Leave(t) ==
  /\ pc[t] = "leaving"
  /\ users' = [users EXCEPT ![mine[t]] = @ - 1]
  /\ held' = IF users[mine[t]] = 1
             THEN [held EXCEPT ![key[t]] = NoLock]
             ELSE held
  /\ pc' = [pc EXCEPT ![t] = "idle"]
  /\ key' = [key EXCEPT ![t] = NoKey]
  /\ mine' = [mine EXCEPT ![t] = NoLock]
  /\ UNCHANGED <<full, done>>

(* The context of a call of lock is done, by a deadline or a cancel.        *)
Cancel(t) ==
  /\ t \notin done
  /\ pc[t] # "idle"
  /\ done' = done \cup {t}
  /\ UNCHANGED <<held, full, users, pc, key, mine>>

(* The task comes back later with another context.                          *)
Renew(t) ==
  /\ t \in done
  /\ pc[t] = "idle"
  /\ done' = done \ {t}
  /\ UNCHANGED <<held, full, users, pc, key, mine>>

Next ==
  \E t \in Tasks :
    \/ \E k \in Keys : Lookup(t, k)
    \/ Send(t)
    \/ GiveUp(t)
    \/ Receive(t)
    \/ Leave(t)
    \/ Cancel(t)
    \/ Renew(t)

Spec == Init /\ [][Next]_vars

(***************************************************************************)
(* A goroutine that can run does, and what exclusive runs inside the lock   *)
(* ends.  Go wakes the senders that wait on a channel first come, first     *)
(* served, so one that is ready again and again is served: strong fairness  *)
(* of Send.                                                                 *)
(***************************************************************************)
Fairness ==
  \A t \in Tasks :
    /\ SF_vars(Send(t))
    /\ WF_vars(GiveUp(t))
    /\ WF_vars(Receive(t))
    /\ WF_vars(Leave(t))

FairSpec == Spec /\ Fairness
-----------------------------------------------------------------------------
Users(l) == {t \in Tasks : mine[t] = l}

(* No stored object is patched by two tasks at once: two tasks that hold    *)
(* the lock of one key are one task, whatever locks came and went before    *)
(* ("what f reads of it is not written by anyone else in this process       *)
(* before f writes it back", concurrent.go:118-120).                        *)
MutualExclusion ==
  \A t, u \in Tasks :
    pc[t] = "holding" /\ pc[u] = "holding" /\ key[t] = key[u] => t = u

(* A task that is not done with lock or unlock uses the lock that is in the *)
(* table at its key, and no key without such a task has one: "A key's lock  *)
(* exists while someone holds or waits for it" (concurrent.go:66), so the   *)
(* table neither splits the users of a key between two locks nor leaks.     *)
LockLivesWhileUsed ==
  /\ \A t \in Tasks : pc[t] # "idle" => held[key[t]] = mine[t]
  /\ \A k \in Keys : held[k] # NoLock => \E t \in Tasks : key[t] = k

-----------------------------------------------------------------------------
(* The parts of the inductive invariant.                                    *)

(* A task has a key and a lock from lock's lookup to its release.           *)
Linked ==
  \A t \in Tasks :
    /\ (pc[t] = "idle") <=> (mine[t] = NoLock)
    /\ (pc[t] = "idle") <=> (key[t] = NoKey)

(* A lock is in the table at one key.                                       *)
OneKeyPerLock ==
  \A j, k \in Keys : held[j] = held[k] /\ held[j] # NoLock => j = k

(* The channel of a lock is full exactly while one of its users holds it:   *)
(* unlock's receive never blocks, and a user that gave up leaves no free    *)
(* lock full.                                                               *)
FullIffHeld ==
  \A l \in Locks :
    Users(l) # {} =>
      (full[l] <=> \E t \in Users(l) : pc[t] = "holding")

OneHolderPerLock ==
  \A t, u \in Tasks :
    pc[t] = "holding" /\ pc[u] = "holding" /\ mine[t] = mine[u] => t = u

(* users of a lock in use counts the tasks that point at it.                *)
UsersCounted == \A l \in Locks : Users(l) # {} => users[l] = Cardinality(Users(l))

(* Why the two above hold: the count, the channel and the table agree on    *)
(* who uses each lock after every step of lock, unlock and release.         *)
IInv ==
  /\ TypeOK
  /\ Linked
  /\ LockLivesWhileUsed
  /\ OneKeyPerLock
  /\ FullIffHeld
  /\ OneHolderPerLock
  /\ UsersCounted
-----------------------------------------------------------------------------
(* A task that asked for a lock gets it or gives up, and a task that has it *)
(* or gave up is rid of it.                                                 *)
EveryoneServed ==
  \A t \in Tasks :
    /\ (pc[t] = "select") ~> (pc[t] \in {"holding", "leaving"})
    /\ (pc[t] \in {"holding", "leaving"}) ~> (pc[t] = "idle")

(* The holder of a key as KeyMutex sees it.                                 *)
holderOf ==
  [k \in Keys |->
    IF \E t \in Tasks : pc[t] = "holding" /\ key[t] = k
    THEN CHOOSE t \in Tasks : pc[t] = "holding" /\ key[t] = k
    ELSE NoTask]

Mutex == INSTANCE KeyMutex WITH holder <- holderOf

(* The table of locks provides the lock per key that KeyMutex describes.    *)
MutexSpec == Mutex!Spec
=============================================================================
