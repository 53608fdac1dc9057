--------------------------- MODULE KeyLocksProofs ---------------------------
(***************************************************************************)
(* KeyLocks for any tasks, keys and addresses: its invariant is inductive,  *)
(* so no two tasks are ever in the critical section of one key, and the     *)
(* table implements KeyMutex.                                               *)
(***************************************************************************)
EXTENDS KeyLocks, FiniteSetTheorems, TLAPS

LEMMA UsersFinite == \A l : IsFiniteSet(Users(l)) /\ Cardinality(Users(l)) \in Nat
<1> TAKE l
<1>1. Users(l) \subseteq Tasks
  BY DEF Users
<1> QED
  BY <1>1, FiniteAssumption, FS_Subset, FS_CardinalityType

(* The one user of a lock counted once is its only user.                    *)
LEMMA LastUser ==
  ASSUME NEW t \in Tasks, Cardinality(Users(mine[t])) = 1
  PROVE  Users(mine[t]) = {t}
<1>1. t \in Users(mine[t])
  BY DEF Users
<1>2. \E x : Users(mine[t]) = {x}
  BY UsersFinite, FS_Singleton
<1> QED
  BY <1>1, <1>2

LEMMA InitIInv == Init => IInv
<1> SUFFICES ASSUME Init PROVE IInv
  OBVIOUS
<1> QED
  BY SentinelAssumption
  DEF Init, IInv, TypeOK, Steps, Linked, LockLivesWhileUsed, OneKeyPerLock,
      FullIffHeld, OneHolderPerLock, UsersCounted, Users
-----------------------------------------------------------------------------
(* The facts of IInv a step of t, whose lock is l, starts from.             *)
LEMMA Where ==
  ASSUME IInv, NEW t \in Tasks, pc[t] # "idle"
  PROVE  /\ mine[t] \in Locks
         /\ key[t] \in Keys
         /\ held[key[t]] = mine[t]
         /\ t \in Users(mine[t])
BY DEF IInv, TypeOK, Linked, LockLivesWhileUsed, Users

LEMMA JoinKeepsIInv ==
  ASSUME IInv, NEW t \in Tasks, NEW k \in Keys, Lookup(t, k), Join(t, k)
  PROVE  IInv'
<1> USE DEF IInv
<1>1. PICK l \in Locks : l = held[k] /\ l # NoLock
  BY SentinelAssumption DEF Join, TypeOK
<1>2. Users(l) # {}
  <2>1. PICK u \in Tasks : key[u] = k
    BY <1>1 DEF LockLivesWhileUsed
  <2>2. mine[u] = l
    BY <2>1, <1>1, SentinelAssumption DEF Linked, LockLivesWhileUsed
  <2> QED
    BY <2>2 DEF Users
<1>3. t \notin Users(l) /\ mine[t] = NoLock
  BY <1>1 DEF Lookup, Linked, Users
<1>4. Users(l)' = Users(l) \cup {t}
  BY <1>1 DEF Join, TypeOK, Users
<1>5. \A m \in Locks : m # l => Users(m)' = Users(m)
  BY <1>1, <1>3, SentinelAssumption DEF Join, TypeOK, Users
<1>6. TypeOK'
  BY <1>1 DEF Lookup, Join, TypeOK, Steps
<1>7. Linked' /\ LockLivesWhileUsed'
  BY <1>1, SentinelAssumption
  DEF Lookup, Join, TypeOK, Linked, LockLivesWhileUsed
<1>8. OneKeyPerLock'
  BY DEF Lookup, Join, OneKeyPerLock
<1>9. FullIffHeld'
  <2> SUFFICES ASSUME NEW m \in Locks, Users(m)' # {}
               PROVE  full'[m] <=> \E u \in Users(m)' : pc'[u] = "holding"
    BY DEF FullIffHeld
  <2>1. CASE m = l
    BY <2>1, <1>2, <1>3, <1>4 DEF Lookup, Join, TypeOK, FullIffHeld, Users
  <2>2. CASE m # l
    BY <2>2, <1>5 DEF Lookup, Join, TypeOK, FullIffHeld, Users
  <2> QED
    BY <2>1, <2>2
<1>10. OneHolderPerLock'
  BY DEF Lookup, Join, TypeOK, OneHolderPerLock
<1>11. UsersCounted'
  <2>1. Cardinality(Users(l) \cup {t}) = Cardinality(Users(l)) + 1
    BY <1>3, UsersFinite, FS_AddElement
  <2>2. users'[l] = Cardinality(Users(l)')
    BY <2>1, <1>1, <1>2, <1>4 DEF Join, TypeOK, UsersCounted
  <2>3. ASSUME NEW m \in Locks, m # l, Users(m)' # {}
        PROVE  users'[m] = Cardinality(Users(m)')
    <3>1. users'[m] = users[m] /\ Users(m)' = Users(m)
      BY <2>3, <1>1, <1>5 DEF Join, TypeOK
    <3> QED
      BY <2>3, <3>1 DEF UsersCounted
  <2> QED
    BY <2>2, <2>3 DEF UsersCounted
<1> QED
  BY <1>6, <1>7, <1>8, <1>9, <1>10, <1>11

LEMMA MakeKeepsIInv ==
  ASSUME IInv, NEW t \in Tasks, NEW k \in Keys, Lookup(t, k), Make(t, k)
  PROVE  IInv'
<1> USE DEF IInv
<1> PICK l \in Locks :
      /\ Unreferenced(l)
      /\ held' = [held EXCEPT ![k] = l]
      /\ full' = [full EXCEPT ![l] = FALSE]
      /\ users' = [users EXCEPT ![l] = 1]
      /\ mine' = [mine EXCEPT ![t] = l]
  BY DEF Make
<1>1. Users(l) = {} /\ Users(l)' = {t}
  BY DEF Unreferenced, TypeOK, Users
<1>2. \A m \in Locks : m # l => Users(m)' = Users(m)
  BY SentinelAssumption DEF Lookup, Linked, TypeOK, Users
<1>3. TypeOK'
  BY DEF Lookup, TypeOK, Steps
<1>4. \A u \in Tasks : u # t => key[u] # k
  BY SentinelAssumption
  DEF Make, Linked, LockLivesWhileUsed, TypeOK
<1>5. Linked'
  BY SentinelAssumption DEF Lookup, TypeOK, Linked
<1>6. LockLivesWhileUsed'
  <2>1. ASSUME NEW u \in Tasks, pc'[u] # "idle"
        PROVE  held'[key'[u]] = mine'[u]
    <3>1. CASE u = t
      BY <3>1 DEF Lookup, TypeOK
    <3>2. CASE u # t
      BY <2>1, <3>2, <1>4, SentinelAssumption
      DEF Lookup, TypeOK, Linked, LockLivesWhileUsed
    <3> QED
      BY <3>1, <3>2
  <2>2. ASSUME NEW j \in Keys, held'[j] # NoLock
        PROVE  \E u \in Tasks : key'[u] = j
    <3>1. CASE j = k
      BY <3>1 DEF Lookup, TypeOK
    <3>2. CASE j # k
      <4>1. PICK u \in Tasks : key[u] = j
        BY <2>2, <3>2 DEF TypeOK, LockLivesWhileUsed
      <4>2. u # t
        BY <4>1, SentinelAssumption DEF Lookup, Linked
      <4> QED
        BY <4>1, <4>2 DEF Lookup, TypeOK
    <3> QED
      BY <3>1, <3>2
  <2> QED
    BY <2>1, <2>2 DEF LockLivesWhileUsed
<1>7. OneKeyPerLock'
  BY DEF Unreferenced, TypeOK, OneKeyPerLock
<1>8. FullIffHeld'
  <2> SUFFICES ASSUME NEW m \in Locks, Users(m)' # {}
               PROVE  full'[m] <=> \E u \in Users(m)' : pc'[u] = "holding"
    BY DEF FullIffHeld
  <2>1. CASE m = l
    BY <2>1, <1>1 DEF Lookup, TypeOK
  <2>2. CASE m # l
    BY <2>2, <1>2 DEF Lookup, TypeOK, FullIffHeld, Users
  <2> QED
    BY <2>1, <2>2
<1>9. OneHolderPerLock'
  BY DEF Lookup, TypeOK, OneHolderPerLock
<1>10. UsersCounted'
  <2>1. users'[l] = Cardinality(Users(l)')
    BY <1>1, FS_Singleton DEF TypeOK
  <2>2. \A m \in Locks : m # l => users'[m] = users[m]
    BY DEF TypeOK
  <2> QED
    BY <2>1, <2>2, <1>2 DEF UsersCounted
<1> QED
  BY <1>3, <1>5, <1>6, <1>7, <1>8, <1>9, <1>10

LEMMA SendKeepsIInv ==
  ASSUME IInv, NEW t \in Tasks, Send(t)
  PROVE  IInv'
<1> USE DEF IInv
<1>1. mine[t] \in Locks /\ t \in Users(mine[t])
  BY Where DEF Send
<1>2. \A l : Users(l)' = Users(l)
  BY DEF Send, Users
<1>3. \A u \in Users(mine[t]) : pc[u] # "holding"
  BY <1>1 DEF Send, FullIffHeld
<1>4. TypeOK'
  BY DEF Send, TypeOK, Steps
<1>5. Linked' /\ LockLivesWhileUsed' /\ OneKeyPerLock' /\ UsersCounted'
  BY <1>2
  DEF Send, TypeOK, Linked, LockLivesWhileUsed, OneKeyPerLock, UsersCounted
<1>6. FullIffHeld'
  <2> SUFFICES ASSUME NEW l \in Locks, Users(l) # {}
               PROVE  full'[l] <=> \E u \in Users(l) : pc'[u] = "holding"
    BY <1>2 DEF FullIffHeld
  <2>1. CASE l = mine[t]
    BY <2>1, <1>1 DEF Send, TypeOK, Users
  <2>2. CASE l # mine[t]
    BY <2>2, <1>1 DEF Send, TypeOK, FullIffHeld, Users
  <2> QED
    BY <2>1, <2>2
<1>7. OneHolderPerLock'
  BY <1>3 DEF Send, TypeOK, OneHolderPerLock, Users
<1> QED
  BY <1>4, <1>5, <1>6, <1>7

LEMMA GiveUpKeepsIInv ==
  ASSUME IInv, NEW t \in Tasks, GiveUp(t)
  PROVE  IInv'
<1> USE DEF IInv
<1>1. \A l : Users(l)' = Users(l)
  BY DEF GiveUp, Users
<1>2. TypeOK'
  BY DEF GiveUp, TypeOK, Steps
<1>3. Linked' /\ LockLivesWhileUsed' /\ OneKeyPerLock' /\ UsersCounted'
  BY <1>1
  DEF GiveUp, TypeOK, Linked, LockLivesWhileUsed, OneKeyPerLock, UsersCounted
<1>4. \A u \in Tasks : pc'[u] = "holding" <=> pc[u] = "holding"
  BY DEF GiveUp, TypeOK
<1>5. FullIffHeld'
  BY <1>1, <1>4 DEF GiveUp, FullIffHeld, Users
<1>6. OneHolderPerLock'
  BY <1>4 DEF GiveUp, OneHolderPerLock
<1> QED
  BY <1>2, <1>3, <1>5, <1>6

LEMMA ReceiveKeepsIInv ==
  ASSUME IInv, NEW t \in Tasks, Receive(t)
  PROVE  IInv'
<1> USE DEF IInv
<1>1. mine[t] \in Locks /\ t \in Users(mine[t])
  BY Where DEF Receive
<1>2. \A l : Users(l)' = Users(l)
  BY DEF Receive, Users
<1>3. TypeOK'
  BY DEF Receive, TypeOK, Steps
<1>4. Linked' /\ LockLivesWhileUsed' /\ OneKeyPerLock' /\ UsersCounted'
  BY <1>2
  DEF Receive, TypeOK, Linked, LockLivesWhileUsed, OneKeyPerLock, UsersCounted
<1>5. FullIffHeld'
  <2> SUFFICES ASSUME NEW l \in Locks, Users(l) # {}
               PROVE  full'[l] <=> \E u \in Users(l) : pc'[u] = "holding"
    BY <1>2 DEF FullIffHeld
  <2>1. CASE l = mine[t]
    BY <2>1, <1>1 DEF Receive, TypeOK, OneHolderPerLock, Users
  <2>2. CASE l # mine[t]
    BY <2>2, <1>1 DEF Receive, TypeOK, FullIffHeld, Users
  <2> QED
    BY <2>1, <2>2
<1>6. OneHolderPerLock'
  BY DEF Receive, TypeOK, OneHolderPerLock
<1> QED
  BY <1>3, <1>4, <1>5, <1>6

(* The release of a task whose lock is l.  Either it is the last user, and  *)
(* the key leaves the table with nobody at it, or another task still points *)
(* at l and l stays.                                                        *)
LEMMA LeaveKeepsIInv ==
  ASSUME IInv, NEW t \in Tasks, Leave(t)
  PROVE  IInv'
<1> USE DEF IInv
<1>1. PICK l \in Locks :
        l = mine[t] /\ key[t] \in Keys /\ held[key[t]] = l /\ t \in Users(l)
  BY Where DEF Leave
<1>2. Users(l)' = Users(l) \ {t}
  BY <1>1, SentinelAssumption DEF Leave, TypeOK, Users
<1>3. \A m \in Locks : m # l => Users(m)' = Users(m)
  BY <1>1, SentinelAssumption DEF Leave, TypeOK, Users
<1>4. users[l] = Cardinality(Users(l)) /\ users[l] # 0
  BY <1>1, UsersFinite, FS_EmptySet DEF UsersCounted
<1>5. users[l] = 1 => Users(l) = {t}
  BY <1>1, <1>4, LastUser
<1>6. TypeOK'
  BY <1>1, <1>4 DEF Leave, TypeOK, Steps
<1>7. Linked'
  BY SentinelAssumption DEF Leave, TypeOK, Linked
<1>8. LockLivesWhileUsed'
  <2>1. ASSUME NEW u \in Tasks, pc'[u] # "idle"
        PROVE  held'[key'[u]] = mine'[u]
    <3>1. u # t /\ key'[u] = key[u] /\ mine'[u] = mine[u] /\ pc[u] # "idle"
      BY <2>1 DEF Leave, TypeOK
    <3>2. key[u] \in Keys /\ held[key[u]] = mine[u]
      BY <3>1, Where
    <3>3. CASE users[l] = 1
      <4>1. mine[u] # l
        BY <3>1, <3>3, <1>5 DEF Users
      <4> QED
        BY <3>1, <3>2, <3>3, <4>1, <1>1 DEF Leave, TypeOK
    <3>4. CASE users[l] # 1
      BY <3>1, <3>2, <3>4, <1>1 DEF Leave
    <3> QED
      BY <3>3, <3>4
  <2>2. ASSUME NEW j \in Keys, held'[j] # NoLock
        PROVE  \E u \in Tasks : key'[u] = j
    <3>1. held[j] # NoLock /\ ~(users[l] = 1 /\ j = key[t])
      BY <2>2, <1>1 DEF Leave, TypeOK
    <3>2. PICK u \in Tasks : key[u] = j
      BY <3>1 DEF LockLivesWhileUsed
    <3>3. CASE u # t
      BY <3>2, <3>3 DEF Leave, TypeOK
    <3>4. CASE u = t
      <4>1. users[l] # 1
        BY <3>1, <3>2, <3>4
      <4>2. PICK v \in Users(l) : v # t
        <5>1. Users(l) # {t}
          BY <4>1, <1>4, FS_Singleton
        <5> QED
          BY <5>1, <1>1
      <4>3. v \in Tasks /\ mine[v] = l /\ pc[v] # "idle"
        BY <4>2, <1>1, SentinelAssumption DEF Users, Linked
      <4>4. key[v] = key[t]
        BY <4>3, <1>1, Where, SentinelAssumption DEF OneKeyPerLock
      <4> QED
        BY <3>2, <3>4, <4>2, <4>3, <4>4 DEF Leave, TypeOK
    <3> QED
      BY <3>3, <3>4
  <2> QED
    BY <2>1, <2>2 DEF LockLivesWhileUsed
<1>9. OneKeyPerLock'
  BY DEF Leave, TypeOK, OneKeyPerLock
<1>10. FullIffHeld'
  <2> SUFFICES ASSUME NEW m \in Locks, Users(m)' # {}
               PROVE  full'[m] <=> \E u \in Users(m)' : pc'[u] = "holding"
    BY DEF FullIffHeld
  <2>1. (\E u \in Users(m)' : pc'[u] = "holding")
          <=> \E u \in Users(m) : pc[u] = "holding"
    BY <1>1, <1>2, <1>3 DEF Leave, TypeOK, Users
  <2>2. full'[m] = full[m] /\ Users(m) # {}
    BY <1>2, <1>3 DEF Leave, Users
  <2> QED
    BY <2>1, <2>2 DEF FullIffHeld
<1>11. OneHolderPerLock'
  BY SentinelAssumption DEF Leave, TypeOK, OneHolderPerLock
<1>12. UsersCounted'
  <2>1. Cardinality(Users(l) \ {t}) = Cardinality(Users(l)) - 1
    BY <1>1, UsersFinite, FS_RemoveElement
  <2>2. users'[l] = Cardinality(Users(l)')
    BY <2>1, <1>1, <1>2, <1>4 DEF Leave, TypeOK
  <2>3. ASSUME NEW m \in Locks, m # l, Users(m)' # {}
        PROVE  users'[m] = Cardinality(Users(m)')
    <3>1. users'[m] = users[m] /\ Users(m)' = Users(m)
      BY <2>3, <1>1, <1>3 DEF Leave, TypeOK
    <3> QED
      BY <2>3, <3>1 DEF UsersCounted
  <2> QED
    BY <2>2, <2>3 DEF UsersCounted
<1> QED
  BY <1>6, <1>7, <1>8, <1>9, <1>10, <1>11, <1>12
-----------------------------------------------------------------------------
LEMMA NextKeepsIInv == IInv /\ [Next]_vars => IInv'
<1> SUFFICES ASSUME IInv, [Next]_vars PROVE IInv'
  OBVIOUS
<1>1. ASSUME NEW t \in Tasks, NEW k \in Keys, Lookup(t, k) PROVE IInv'
  BY <1>1, JoinKeepsIInv, MakeKeepsIInv DEF Lookup
<1>2. ASSUME NEW t \in Tasks, Cancel(t) \/ Renew(t) PROVE IInv'
  BY <1>2
  DEF Cancel, Renew, IInv, TypeOK, Linked, LockLivesWhileUsed, OneKeyPerLock,
      FullIffHeld, OneHolderPerLock, UsersCounted, Users
<1>3. CASE UNCHANGED vars
  BY <1>3
  DEF vars, IInv, TypeOK, Linked, LockLivesWhileUsed, OneKeyPerLock,
      FullIffHeld, OneHolderPerLock, UsersCounted, Users
<1> QED
  BY <1>1, <1>2, <1>3, SendKeepsIInv, GiveUpKeepsIInv, ReceiveKeepsIInv,
     LeaveKeepsIInv
  DEF Next

(* The table's bookkeeping is right in every reachable state.               *)
THEOREM BookkeepingCorrect == Spec => []IInv
BY InitIInv, NextKeepsIInv, PTL DEF Spec

(* Every variable of the table keeps its type, users among the naturals:    *)
(* release never takes a count below zero.                                  *)
THEOREM TypeCorrect == Spec => []TypeOK
<1>1. IInv => TypeOK
  BY DEF IInv
<1> QED
  BY <1>1, BookkeepingCorrect, PTL

LEMMA IInvExcludes == IInv => MutualExclusion
<1> SUFFICES ASSUME IInv,
                    NEW t \in Tasks, NEW u \in Tasks,
                    pc[t] = "holding", pc[u] = "holding", key[t] = key[u]
             PROVE  t = u
  BY DEF MutualExclusion
<1>1. mine[t] = held[key[t]] /\ mine[u] = held[key[u]]
  BY DEF IInv, LockLivesWhileUsed
<1> QED
  BY <1>1 DEF IInv, OneHolderPerLock

(* exclusive's promise (concurrent.go:118-120): at most one task at a time  *)
(* is inside the lock of a key.                                             *)
THEOREM Exclusive == Spec => []MutualExclusion
BY IInvExcludes, BookkeepingCorrect, PTL

(* "A key's lock exists while someone holds or waits for it"                *)
(* (concurrent.go:66), and no longer.                                       *)
THEOREM LockLives == Spec => []LockLivesWhileUsed
<1>1. IInv => LockLivesWhileUsed
  BY DEF IInv
<1> QED
  BY <1>1, BookkeepingCorrect, PTL
-----------------------------------------------------------------------------
(* The refinement of KeyMutex.                                              *)

Inside(t, k) == pc[t] = "holding" /\ key[t] = k

HolderIsInside ==
  \A k \in Keys :
    /\ holderOf[k] \in Tasks \cup {NoTask}
    /\ \A t \in Tasks : holderOf[k] = t <=> Inside(t, k)

LEMMA ExclusiveHolder == MutualExclusion => HolderIsInside
<1> SUFFICES ASSUME MutualExclusion, NEW k \in Keys
             PROVE  /\ holderOf[k] \in Tasks \cup {NoTask}
                    /\ \A t \in Tasks : holderOf[k] = t <=> Inside(t, k)
  BY DEF HolderIsInside
<1>1. CASE \E t \in Tasks : Inside(t, k)
  <2>1. PICK t \in Tasks : Inside(t, k)
    BY <1>1
  <2>2. holderOf[k] = CHOOSE u \in Tasks : pc[u] = "holding" /\ key[u] = k
    BY <2>1 DEF holderOf, Inside
  <2>3. holderOf[k] \in Tasks /\ Inside(holderOf[k], k)
    BY <2>1, <2>2 DEF Inside
  <2>4. \A u \in Tasks : Inside(u, k) => u = holderOf[k]
    BY <2>3 DEF MutualExclusion, Inside
  <2> QED
    BY <2>3, <2>4
<1>2. CASE ~ \E t \in Tasks : Inside(t, k)
  <2>1. holderOf[k] = NoTask
    BY <1>2 DEF holderOf, Inside
  <2> QED
    BY <1>2, <2>1, SentinelAssumption
<1> QED
  BY <1>1, <1>2

LEMMA InitRefines == Init => Mutex!Init
BY DEF Init, Mutex!Init, holderOf

(* A step that moves nobody into or out of a critical section.              *)
LEMMA StutterRefines ==
  ASSUME HolderIsInside, HolderIsInside',
         \A t \in Tasks, k \in Keys : Inside(t, k)' <=> Inside(t, k)
  PROVE  holderOf' = holderOf
<1>1. \A k \in Keys : holderOf'[k] = holderOf[k]
  BY SentinelAssumption DEF HolderIsInside
<1> QED
  BY <1>1 DEF holderOf

(* Send is the step at which the abstract lock is granted.                  *)
LEMMA SendRefines ==
  ASSUME IInv, HolderIsInside, HolderIsInside', NEW t \in Tasks, Send(t)
  PROVE  Mutex!Next
<1>1. PICK k \in Keys : k = key[t]
  BY Where DEF Send
<1>2. \A u \in Tasks, j \in Keys :
        Inside(u, j)' <=> Inside(u, j) \/ (u = t /\ j = k)
  BY <1>1 DEF IInv, TypeOK, Send, Inside
<1>3. \A u \in Tasks : ~Inside(u, k)
  <2> SUFFICES ASSUME NEW u \in Tasks, Inside(u, k) PROVE FALSE
    OBVIOUS
  <2>1. u \in Users(mine[t])
    BY <1>1, Where DEF Send, Inside, IInv, LockLivesWhileUsed, Users
  <2> QED
    BY <2>1, Where DEF Send, Inside, IInv, FullIffHeld
<1>4. holderOf[k] = NoTask
  BY <1>3 DEF HolderIsInside
<1>5. ~Mutex!Holds(t)
  BY DEF Mutex!Holds, HolderIsInside, Inside, Send
<1>6. \A j \in Keys : holderOf'[j] = IF j = k THEN t ELSE holderOf[j]
  BY <1>2, SentinelAssumption DEF HolderIsInside
<1>7. holderOf' = [holderOf EXCEPT ![k] = t]
  BY <1>6 DEF holderOf
<1> QED
  BY <1>4, <1>5, <1>7 DEF Mutex!Next, Mutex!Acquire

(* Receive is the step at which it is given back.                           *)
LEMMA ReceiveRefines ==
  ASSUME IInv, HolderIsInside, HolderIsInside', NEW t \in Tasks, Receive(t)
  PROVE  Mutex!Next
<1>1. PICK k \in Keys : k = key[t]
  BY Where DEF Receive
<1>2. \A u \in Tasks, j \in Keys :
        Inside(u, j)' <=> Inside(u, j) /\ u # t
  BY <1>1 DEF IInv, TypeOK, Receive, Inside
<1>3. holderOf[k] = t
  BY <1>1 DEF HolderIsInside, Inside, Receive
<1>4. \A j \in Keys : j # k => holderOf[j] # t
  BY <1>1 DEF HolderIsInside, Inside
<1>5. \A j \in Keys : holderOf'[j] = IF j = k THEN NoTask ELSE holderOf[j]
  BY <1>2, <1>3, <1>4, SentinelAssumption DEF HolderIsInside
<1>6. holderOf' = [holderOf EXCEPT ![k] = NoTask]
  BY <1>5 DEF holderOf
<1> QED
  BY <1>3, <1>6 DEF Mutex!Next, Mutex!Release

LEMMA StepRefines ==
  ASSUME IInv, HolderIsInside, HolderIsInside', [Next]_vars
  PROVE  [Mutex!Next]_holderOf
<1>1. ASSUME NEW t \in Tasks,
             \/ \E k \in Keys : Lookup(t, k)
             \/ GiveUp(t) \/ Leave(t) \/ Cancel(t) \/ Renew(t)
      PROVE  holderOf' = holderOf
  <2>1. \A u \in Tasks, k \in Keys : Inside(u, k)' <=> Inside(u, k)
    BY <1>1
    DEF IInv, TypeOK, Lookup, GiveUp, Leave, Cancel, Renew, Inside
  <2> QED
    BY <2>1, StutterRefines
<1>2. CASE UNCHANGED vars
  BY <1>2 DEF vars, holderOf
<1> QED
  BY <1>1, <1>2, SendRefines, ReceiveRefines DEF Next

(* The table implements one lock per key, granted and given back whole.     *)
THEOREM ImplementsMutex == Spec => MutexSpec
<1>1. IInv => HolderIsInside
  BY IInvExcludes, ExclusiveHolder
<1>2. IInv /\ HolderIsInside /\ HolderIsInside' /\ [Next]_vars
        => [Mutex!Next]_holderOf
  BY StepRefines
<1> QED
  BY <1>1, <1>2, InitRefines, BookkeepingCorrect, PTL
  DEF Spec, MutexSpec, Mutex!Spec
=============================================================================
