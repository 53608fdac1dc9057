------------------------- MODULE StoredWritesProofs -------------------------
(***************************************************************************)
(* StoredWrites for any array, any number of calls at once and any regions  *)
(* that do not overlap: it implements RegionWrites.                         *)
(***************************************************************************)
EXTENDS StoredWrites, TLAPS

USE DEF Tasks

(* What is read of a stored object that was just written is what was        *)
(* written, also when it was all fill and the object deleted.               *)
LEMMA ReadWritten ==
  ASSUME NEW o \in Objects, NEW b \in [Cell(o) -> Values],
         store'[o] = Written(b)
  PROVE  ReadStored(o)' = b
<1>1. CASE Written(b) = Absent
  <2>1. \A e \in Cell(o) : b[e] = Fill
    BY <1>1, ArrayAssumption DEF Written, Cell
  <2> QED
    BY <1>1, <2>1 DEF ReadStored, Cell
<1>2. CASE Written(b) # Absent
  BY <1>2 DEF Written, ReadStored, Cell
<1> QED
  BY <1>1, <1>2

LEMMA StoredType ==
  ASSUME TypeOK, NEW o \in Objects
  PROVE  ReadStored(o) \in [Cell(o) -> Values]
BY ArrayAssumption DEF TypeOK, ReadStored

(* A call that does not read a stored object has no element of another's in *)
(* it to lose.                                                              *)
LEMMA UnreadIsWhole ==
  ASSUME NEW w \in Writers, NEW o \in Touched(w), ~Reads(w, o)
  PROVE  Cell(o) \subseteq Region[w]
<1>1. CASE Kind[w] = "Write"
  BY <1>1 DEF Reads, Whole
<1>2. CASE Kind[w] # "Write"
  <2>1. Kind[w] = "WriteChunk" /\ ~Sharded
    BY <1>2, CallersAssumption DEF Reads
  <2>2. PICK p \in Objects : Touched(w) = {p} /\ Whole(w, p)
    BY <2>1, CallersAssumption
  <2> QED
    BY <2>2 DEF Whole
<1> QED
  BY <1>1, <1>2

LEMMA PatchedType ==
  ASSUME TypeOK, NEW w \in Writers, NEW o \in Objects
  PROVE  Patched(w, o) \in [Cell(o) -> Values]
<1>1. ReadStored(o) \in [Cell(o) -> Values]
  BY StoredType
<1> QED
  BY <1>1, ArrayAssumption DEF Patched, TypeOK

LEMMA PatchedIs ==
  ASSUME TypeOK, NEW w \in Writers, NEW o \in Touched(w), o \in Objects
  PROVE  Patched(w, o) =
           [e \in Cell(o) |-> IF e \in Region[w] THEN val[w] ELSE ReadStored(o)[e]]
<1>1. CASE Reads(w, o)
  BY <1>1 DEF Patched
<1>2. CASE ~Reads(w, o)
  BY <1>2, UnreadIsWhole DEF Patched
<1> QED
  BY <1>1, <1>2

LEMMA InitIInv == Init => IInv
<1> SUFFICES ASSUME Init PROVE IInv
  OBVIOUS
<1>1. TypeOK
  BY ArrayAssumption DEF Init, Locks!Init, TypeOK, Stages
<1>2. InPlace /\ Holding /\ PatchCurrent /\ DoneStays
  BY DEF Init, InPlace, Holding, PatchCurrent, DoneStays
<1> QED
  BY <1>1, <1>2 DEF IInv
-----------------------------------------------------------------------------
(* One call at a time is between the lock of a stored object and its unlock.*)
LEMMA OneInside ==
  ASSUME IInv, NEW v \in Writers, NEW w \in Writers, NEW o \in Objects,
         stage[v][o] \in {"locked", "patched", "saved", "broken"},
         stage[w][o] \in {"locked", "patched", "saved", "broken"}
  PROVE  v = w
BY DEF IInv, Holding

(* What the write of a stored object does to what is read.                  *)
LEMMA SaveEffect ==
  ASSUME IInv, NEW w \in Writers, NEW o \in Objects,
         stage[w][o] = "patched",
         store' = [store EXCEPT ![o] = Written(buf[w][o])]
  PROVE  /\ ReadStored(o)' =
              [e \in Cell(o) |->
                IF e \in Region[w] THEN val[w] ELSE ReadStored(o)[e]]
         /\ \A p \in Objects : p # o => ReadStored(p)' = ReadStored(p)
         /\ store'[o] \in [Cell(o) -> Values] \cup {Absent}
<1>1. buf[w][o] = [e \in Cell(o) |->
                    IF e \in Region[w] THEN val[w] ELSE ReadStored(o)[e]]
  BY DEF IInv, PatchCurrent
<1>2. buf[w][o] \in [Cell(o) -> Values]
  BY <1>1, StoredType DEF IInv, TypeOK
<1>3. store'[o] = Written(buf[w][o])
  BY DEF IInv, TypeOK
<1>4. ReadStored(o)' = buf[w][o]
  BY <1>2, <1>3, ReadWritten
<1>5. \A p \in Objects : p # o => ReadStored(p)' = ReadStored(p)
  BY DEF ReadStored, IInv, TypeOK
<1> QED
  BY <1>1, <1>2, <1>3, <1>4, <1>5 DEF Written

LEMMA BeginKeepsIInv ==
  ASSUME IInv, NEW w \in Writers, NEW v \in Values, Begin(w, v)
  PROVE  IInv'
<1> USE DEF IInv
<1>1. \A o \in Objects : stage[w][o] = "none"
  BY DEF Begin, InPlace, TypeOK
<1>2. \A o \in Objects : stage'[w][o] \in {"none", "todo"}
  BY DEF Begin, TypeOK
<1>3. \A u \in Writers : u # w => stage'[u] = stage[u] /\ val'[u] = val[u] /\ op'[u] = op[u]
  BY DEF Begin, TypeOK
<1>4. \A o \in Objects : ReadStored(o)' = ReadStored(o)
  BY DEF Begin, ReadStored
<1>5. TypeOK'
  <2>1. stage' \in [Writers -> [Objects -> Stages]]
    BY DEF Begin, TypeOK, Stages
  <2> QED
    BY <2>1 DEF Begin, TypeOK
<1>6. InPlace'
  BY <1>3 DEF Begin, InPlace, TypeOK
<1>7. Holding'
  BY <1>2, <1>3 DEF Begin, Holding
<1>8. PatchCurrent'
  BY <1>2, <1>3, <1>4 DEF Begin, PatchCurrent
<1>9. DoneStays'
  BY <1>2, <1>3, <1>4 DEF Begin, DoneStays
<1> QED
  BY <1>5, <1>6, <1>7, <1>8, <1>9

(* A step of w at o that changes neither what is stored nor what calls      *)
(* write, whose stage after it is s.                                        *)
LEMMA StageOnly ==
  ASSUME IInv, NEW w \in Writers, NEW o \in Objects, NEW s \in Stages,
         stage' = [stage EXCEPT ![w][o] = s],
         stage[w][o] # "none", s # "none",
         UNCHANGED <<store, op, val>>
  PROVE  /\ stage' \in [Writers -> [Objects -> Stages]]
         /\ stage'[w][o] = s
         /\ \A u \in Writers, p \in Objects :
              u # w \/ p # o => stage'[u][p] = stage[u][p]
         /\ InPlace'
         /\ \A p \in Objects : ReadStored(p)' = ReadStored(p)
<1>1. stage' \in [Writers -> [Objects -> Stages]] /\ stage'[w][o] = s
  BY DEF IInv, TypeOK
<1>2. \A u \in Writers, p \in Objects :
        u # w \/ p # o => stage'[u][p] = stage[u][p]
  BY DEF IInv, TypeOK
<1>3. InPlace'
  BY <1>1, <1>2 DEF IInv, InPlace
<1>4. \A p \in Objects : ReadStored(p)' = ReadStored(p)
  BY DEF ReadStored
<1> QED
  BY <1>1, <1>2, <1>3, <1>4

LEMMA LockKeepsIInv ==
  ASSUME IInv, NEW w \in Writers, NEW o \in Objects, Lock(w, o)
  PROVE  IInv'
<1> USE DEF IInv
<1>1. /\ stage' \in [Writers -> [Objects -> Stages]]
      /\ stage'[w][o] = "locked"
      /\ \A u \in Writers, p \in Objects :
           u # w \/ p # o => stage'[u][p] = stage[u][p]
      /\ InPlace'
      /\ \A p \in Objects : ReadStored(p)' = ReadStored(p)
  BY StageOnly DEF Lock, Stages
<1>2. holder[o] = NoTask /\ holder' = [holder EXCEPT ![o] = <<w, o>>]
  BY DEF Lock, Locks!Acquire
<1>3. TypeOK'
  BY <1>1, <1>2 DEF Lock, TypeOK
<1>4. Holding'
  <2> SUFFICES ASSUME NEW u \in Writers, NEW p \in Objects,
                      stage'[u][p] \in {"locked", "patched", "saved", "broken"}
               PROVE  holder'[p] = <<u, p>>
    BY DEF Holding
  <2>1. CASE p = o /\ u = w
    BY <2>1, <1>2 DEF TypeOK
  <2>2. CASE p = o /\ u # w
    BY <2>2, <1>1, <1>2, ArrayAssumption DEF Holding
  <2>3. CASE p # o
    BY <2>3, <1>1, <1>2 DEF Holding, TypeOK
  <2> QED
    BY <2>1, <2>2, <2>3
<1>5. PatchCurrent' /\ DoneStays'
  BY <1>1 DEF Lock, PatchCurrent, DoneStays
<1> QED
  BY <1>1, <1>3, <1>4, <1>5

LEMMA LoadKeepsIInv ==
  ASSUME IInv, NEW w \in Writers, NEW o \in Objects, Load(w, o)
  PROVE  IInv'
<1> USE DEF IInv
<1>1. /\ stage' \in [Writers -> [Objects -> Stages]]
      /\ stage'[w][o] = "patched"
      /\ \A u \in Writers, p \in Objects :
           u # w \/ p # o => stage'[u][p] = stage[u][p]
      /\ InPlace'
      /\ \A p \in Objects : ReadStored(p)' = ReadStored(p)
  BY StageOnly DEF Load, Stages
<1>2. o \in Touched(w)
  BY DEF Load, InPlace
<1>3. buf' \in [Writers -> [Objects -> Contents \cup {Absent}]]
  BY PatchedType DEF Load, TypeOK, Contents
<1>4. /\ buf'[w][o] = Patched(w, o)
      /\ \A u \in Writers, p \in Objects :
           u # w \/ p # o => buf'[u][p] = buf[u][p]
  BY DEF Load, TypeOK
<1>5. TypeOK'
  BY <1>1, <1>3 DEF Load, TypeOK
<1>6. Holding'
  BY <1>1 DEF Load, Holding
<1>7. PatchCurrent'
  <2> SUFFICES ASSUME NEW u \in Writers, NEW p \in Objects,
                      stage'[u][p] = "patched"
               PROVE  buf'[u][p] = [e \in Cell(p) |->
                        IF e \in Region[u] THEN val[u] ELSE ReadStored(p)[e]]
    BY <1>1 DEF PatchCurrent, Load
  <2>1. CASE u = w /\ p = o
    BY <2>1, <1>2, <1>4, PatchedIs
  <2>2. CASE u # w \/ p # o
    BY <2>2, <1>1, <1>4 DEF PatchCurrent
  <2> QED
    BY <2>1, <2>2
<1>8. DoneStays'
  BY <1>1 DEF Load, DoneStays
<1> QED
  BY <1>1, <1>5, <1>6, <1>7, <1>8

LEMMA GiveUpKeepsIInv ==
  ASSUME IInv, NEW w \in Writers, NEW o \in Objects,
         LockFails(w, o) \/ LoadFails(w, o)
  PROVE  IInv'
<1> USE DEF IInv
<1>1. PICK s \in {"failed", "broken"} :
        /\ stage' = [stage EXCEPT ![w][o] = s]
        /\ stage[w][o] # "none"
        /\ s = "broken" => stage[w][o] = "locked"
  BY DEF LockFails, LoadFails
<1>2. /\ stage' \in [Writers -> [Objects -> Stages]]
      /\ stage'[w][o] = s
      /\ \A u \in Writers, p \in Objects :
           u # w \/ p # o => stage'[u][p] = stage[u][p]
      /\ InPlace'
      /\ \A p \in Objects : ReadStored(p)' = ReadStored(p)
  BY <1>1, StageOnly DEF LockFails, LoadFails, Stages
<1>3. TypeOK'
  BY <1>2 DEF LockFails, LoadFails, TypeOK
<1>4. Holding'
  BY <1>1, <1>2 DEF LockFails, LoadFails, Holding
<1>5. PatchCurrent' /\ DoneStays'
  BY <1>2 DEF LockFails, LoadFails, PatchCurrent, DoneStays
<1> QED
  BY <1>2, <1>3, <1>4, <1>5

(* The write of a stored object, after which the call's stage is s.  What   *)
(* other calls have written to it is still there: their elements are not in *)
(* w's region, and what w wrote there is what it read under the lock.       *)
LEMMA SavingKeepsIInv ==
  ASSUME IInv, NEW w \in Writers, NEW o \in Objects, NEW s \in {"saved", "broken"},
         stage[w][o] = "patched",
         store' = [store EXCEPT ![o] = Written(buf[w][o])],
         stage' = [stage EXCEPT ![w][o] = s],
         buf' = [buf EXCEPT ![w][o] = Absent],
         UNCHANGED <<holder, op, val>>
  PROVE  IInv'
<1> USE DEF IInv
<1>1. /\ ReadStored(o)' =
           [e \in Cell(o) |->
             IF e \in Region[w] THEN val[w] ELSE ReadStored(o)[e]]
      /\ \A p \in Objects : p # o => ReadStored(p)' = ReadStored(p)
      /\ store'[o] \in [Cell(o) -> Values] \cup {Absent}
  BY SaveEffect
<1>2. /\ stage' \in [Writers -> [Objects -> Stages]]
      /\ stage'[w][o] = s
      /\ \A u \in Writers, p \in Objects :
           u # w \/ p # o => stage'[u][p] = stage[u][p]
  BY DEF TypeOK, Stages
<1>3. \A u \in Writers : u # w => stage[u][o] # "patched"
  BY OneInside
<1>4. TypeOK'
  BY <1>1, <1>2 DEF TypeOK
<1>5. InPlace'
  BY <1>2 DEF InPlace
<1>6. Holding'
  BY <1>2 DEF Holding
<1>7. PatchCurrent'
  <2> SUFFICES ASSUME NEW u \in Writers, NEW p \in Objects,
                      stage'[u][p] = "patched"
               PROVE  buf'[u][p] = [e \in Cell(p) |->
                        IF e \in Region[u] THEN val[u] ELSE ReadStored(p)'[e]]
    BY DEF PatchCurrent
  <2>1. p # o /\ stage[u][p] = "patched"
    BY <1>2, <1>3
  <2>2. buf'[u][p] = buf[u][p]
    BY <2>1 DEF TypeOK
  <2> QED
    BY <1>1, <2>1, <2>2 DEF PatchCurrent
<1>8. DoneStays'
  <2> SUFFICES ASSUME NEW u \in Writers, NEW p \in Objects,
                      stage'[u][p] \in {"saved", "done"},
                      NEW e \in Cell(p) \cap Region[u]
               PROVE  ReadStored(p)'[e] = val[u]
    BY DEF DoneStays
  <2>1. CASE p = o /\ u = w
    BY <1>1, <2>1
  <2>2. CASE p = o /\ u # w
    <3>1. e \notin Region[w]
      BY <2>2, CallersAssumption
    <3> QED
      BY <1>1, <1>2, <2>2, <3>1 DEF DoneStays
  <2>3. CASE p # o
    BY <1>1, <1>2, <2>3 DEF DoneStays
  <2> QED
    BY <2>1, <2>2, <2>3
<1> QED
  BY <1>4, <1>5, <1>6, <1>7, <1>8

LEMMA SaveKeepsIInv ==
  ASSUME IInv, NEW w \in Writers, NEW o \in Objects, Save(w, o)
  PROVE  IInv'
BY SavingKeepsIInv DEF Save

LEMMA SaveFailsKeepsIInv ==
  ASSUME IInv, NEW w \in Writers, NEW o \in Objects, SaveFails(w, o)
  PROVE  IInv'
<1> USE DEF IInv
<1>1. CASE UNCHANGED store
  <2>1. /\ stage' \in [Writers -> [Objects -> Stages]]
        /\ stage'[w][o] = "broken"
        /\ \A u \in Writers, p \in Objects :
             u # w \/ p # o => stage'[u][p] = stage[u][p]
        /\ InPlace'
        /\ \A p \in Objects : ReadStored(p)' = ReadStored(p)
    BY <1>1, StageOnly DEF SaveFails, Stages
  <2>2. \A u \in Writers, p \in Objects :
          u # w \/ p # o => buf'[u][p] = buf[u][p]
    BY DEF SaveFails, TypeOK
  <2>3. TypeOK'
    BY <1>1, <2>1 DEF SaveFails, TypeOK
  <2>4. Holding'
    BY <2>1 DEF SaveFails, Holding
  <2>5. PatchCurrent' /\ DoneStays'
    BY <2>1, <2>2 DEF SaveFails, PatchCurrent, DoneStays
  <2> QED
    BY <2>1, <2>3, <2>4, <2>5
<1>2. CASE store' = [store EXCEPT ![o] = Written(buf[w][o])]
  BY <1>2, SavingKeepsIInv DEF SaveFails
<1> QED
  BY <1>1, <1>2 DEF SaveFails

LEMMA UnlockKeepsIInv ==
  ASSUME IInv, NEW w \in Writers, NEW o \in Objects, Unlock(w, o)
  PROVE  IInv'
<1> USE DEF IInv
<1>1. PICK s \in {"done", "failed"} :
        /\ stage' = [stage EXCEPT ![w][o] = s]
        /\ s = "done" => stage[w][o] = "saved"
  BY DEF Unlock, TypeOK
<1>2. /\ stage' \in [Writers -> [Objects -> Stages]]
      /\ stage'[w][o] = s
      /\ \A u \in Writers, p \in Objects :
           u # w \/ p # o => stage'[u][p] = stage[u][p]
      /\ InPlace'
      /\ \A p \in Objects : ReadStored(p)' = ReadStored(p)
  BY <1>1, StageOnly DEF Unlock, Stages
<1>3. holder[o] = <<w, o>> /\ holder' = [holder EXCEPT ![o] = NoTask]
  BY DEF Unlock, Locks!Release
<1>4. TypeOK'
  BY <1>2, <1>3 DEF Unlock, TypeOK
<1>5. Holding'
  <2> SUFFICES ASSUME NEW u \in Writers, NEW p \in Objects,
                      stage'[u][p] \in {"locked", "patched", "saved", "broken"}
               PROVE  holder'[p] = <<u, p>>
    BY DEF Holding
  <2>1. u # w \/ p # o
    BY <1>2
  <2>2. holder[p] = <<u, p>>
    BY <1>2, <2>1 DEF Holding
  <2>3. p # o
    BY <1>3, <2>1, <2>2
  <2> QED
    BY <1>3, <2>2, <2>3 DEF TypeOK
<1>6. PatchCurrent'
  BY <1>2 DEF Unlock, PatchCurrent
<1>7. DoneStays'
  BY <1>1, <1>2 DEF Unlock, DoneStays
<1> QED
  BY <1>2, <1>4, <1>5, <1>6, <1>7

LEMMA ReturnKeepsIInv ==
  ASSUME IInv, NEW w \in Writers, Return(w) \/ ReturnError(w)
  PROVE  IInv'
<1> USE DEF IInv
<1>1. stage' \in [Writers -> [Objects -> Stages]]
  BY DEF Return, ReturnError, Forget, TypeOK, Stages
<1>2. \A o \in Objects : stage'[w][o] = "none"
  BY DEF Return, ReturnError, Forget, TypeOK
<1>3. \A u \in Writers : u # w => stage'[u] = stage[u] /\ op'[u] = op[u]
  BY DEF Return, ReturnError, Forget, TypeOK
<1>4. op' \in [Writers -> {"idle", "writing", "ok", "failed"}] /\ op'[w] # "writing"
  BY DEF Return, ReturnError, TypeOK
<1>5. \A o \in Objects : ReadStored(o)' = ReadStored(o)
  BY DEF Return, ReturnError, ReadStored
<1>6. UNCHANGED <<store, holder, val, buf>>
  BY DEF Return, ReturnError
<1>7. TypeOK'
  BY <1>1, <1>4, <1>6 DEF TypeOK
<1>8. InPlace'
  BY <1>2, <1>3, <1>4, <1>6 DEF InPlace
<1>9. Holding' /\ PatchCurrent' /\ DoneStays'
  BY <1>2, <1>3, <1>5, <1>6 DEF Holding, PatchCurrent, DoneStays
<1> QED
  BY <1>7, <1>8, <1>9
-----------------------------------------------------------------------------
LEMMA NextKeepsIInv == IInv /\ [Next]_vars => IInv'
<1> SUFFICES ASSUME IInv, [Next]_vars PROVE IInv'
  OBVIOUS
<1>1. ASSUME NEW w \in Writers, NEW o \in Objects, Work(w, o) PROVE IInv'
  BY <1>1, LockKeepsIInv, LoadKeepsIInv, GiveUpKeepsIInv, SaveKeepsIInv,
     SaveFailsKeepsIInv, UnlockKeepsIInv
  DEF Work
<1>2. CASE UNCHANGED vars
  <2>1. \A o \in Objects : ReadStored(o)' = ReadStored(o)
    BY <1>2 DEF vars, ReadStored
  <2> QED
    BY <1>2, <2>1 DEF vars, IInv, TypeOK, InPlace, Holding, PatchCurrent, DoneStays
<1> QED
  BY <1>1, <1>2, BeginKeepsIInv, ReturnKeepsIInv DEF Next

(* Every patch about to be written is current, and every one written stays, *)
(* in any state of any number of calls at once.                             *)
THEOREM PatchesCurrent == Spec => []IInv
BY InitIInv, NextKeepsIInv, PTL DEF Spec

(* What a call has written of its region stays until it returns.            *)
THEOREM WrittenStays == Spec => []DoneStays
<1>1. IInv => DoneStays
  BY DEF IInv
<1> QED
  BY <1>1, PatchesCurrent, PTL

(* The state is of its type: what is stored under a key is always a whole   *)
(* stored object of that key, or nothing.                                   *)
THEOREM WritesTypeCorrect == Spec => []TypeOK
<1>1. IInv => TypeOK
  BY DEF IInv
<1> QED
  BY <1>1, PatchesCurrent, PTL
-----------------------------------------------------------------------------
(* The refinement of RegionWrites.                                          *)

LEMMA InitRefines == Init => Abstract!Init
<1> SUFFICES ASSUME Init PROVE Abstract!Init
  OBVIOUS
<1>1. \A e \in Elements : ReadStored(ObjectOf[e])[e] = Fill
  BY ArrayAssumption DEF Init, ReadStored, Cell
<1> QED
  BY <1>1 DEF Init, Abstract!Init, array

LEMMA SameStoreSameArray ==
  ASSUME UNCHANGED store
  PROVE  array' = array
BY DEF array, ReadStored

(* The step at which a stored object is written is the abstract Put.        *)
LEMMA SaveRefines ==
  ASSUME IInv, NEW w \in Writers, NEW o \in Objects,
         stage[w][o] = "patched",
         store' = [store EXCEPT ![o] = Written(buf[w][o])],
         UNCHANGED <<op, val>>
  PROVE  Abstract!Next
<1>1. op[w] = "writing"
  BY DEF IInv, InPlace
<1>2. \A e \in Elements :
        array'[e] = IF e \in Region[w] /\ ObjectOf[e] = o THEN val[w] ELSE array[e]
  <2> TAKE e \in Elements
  <2>1. PICK p \in Objects : p = ObjectOf[e] /\ e \in Cell(p)
    BY ArrayAssumption DEF Cell
  <2>2. array'[e] = (ReadStored(p)')[e] /\ array[e] = ReadStored(p)[e]
    BY <2>1 DEF array, ReadStored
  <2>3. p # o => ReadStored(p)' = ReadStored(p)
    BY SaveEffect
  <2>4. ReadStored(o)' =
          [c \in Cell(o) |-> IF c \in Region[w] THEN val[w] ELSE ReadStored(o)[c]]
    BY SaveEffect
  <2>5. CASE p = o
    BY <2>1, <2>2, <2>4, <2>5
  <2>6. CASE p # o
    BY <2>1, <2>2, <2>3, <2>6
  <2> QED
    BY <2>5, <2>6
<1>3. array' = [e \in Elements |->
                 IF e \in Region[w] /\ ObjectOf[e] = o THEN val[w] ELSE array[e]]
  BY <1>2 DEF array
<1> QED
  BY <1>1, <1>3 DEF Abstract!Next, Abstract!Put

LEMMA ReturnRefines ==
  ASSUME IInv, NEW w \in Writers, Return(w)
  PROVE  Abstract!Next
<1>1. array' = array
  BY SameStoreSameArray DEF Return
<1>2. ASSUME NEW e \in Region[w] PROVE array[e] = val[w]
  <2>1. e \in Elements /\ ObjectOf[e] \in Objects /\ ObjectOf[e] \in Touched(w)
    BY ArrayAssumption, CallersAssumption DEF Touched
  <2>2. ReadStored(ObjectOf[e])[e] = val[w]
    BY <2>1 DEF Return, IInv, DoneStays, Cell
  <2> QED
    BY <2>1, <2>2 DEF array
<1> QED
  BY <1>1, <1>2 DEF Return, Abstract!Next, Abstract!Succeed

LEMMA StepRefines ==
  ASSUME IInv, [Next]_vars
  PROVE  [Abstract!Next]_<<array, op, val>>
<1>1. ASSUME NEW w \in Writers, NEW v \in Values, Begin(w, v)
      PROVE  Abstract!Next
  BY <1>1, SameStoreSameArray DEF Begin, Abstract!Next, Abstract!Begin
<1>2. ASSUME NEW w \in Writers, ReturnError(w)
      PROVE  Abstract!Next
  BY <1>2, SameStoreSameArray DEF ReturnError, Abstract!Next, Abstract!Fail
<1>3. UNCHANGED <<store, op, val>> => UNCHANGED <<array, op, val>>
  BY SameStoreSameArray
<1>4. ASSUME NEW w \in Writers, NEW o \in Objects, Work(w, o)
      PROVE  [Abstract!Next]_<<array, op, val>>
  <2>1. CASE Save(w, o) \/ (SaveFails(w, o) /\ ~UNCHANGED store)
    BY <2>1, SaveRefines DEF Save, SaveFails
  <2>2. CASE ~(Save(w, o) \/ (SaveFails(w, o) /\ ~UNCHANGED store))
    BY <1>3, <1>4, <2>2 DEF Work, Lock, LockFails, Load, LoadFails, SaveFails, Unlock
  <2> QED
    BY <2>1, <2>2
<1>5. CASE UNCHANGED vars
  BY <1>3, <1>5 DEF vars
<1> QED
  BY <1>1, <1>2, <1>4, <1>5, ReturnRefines DEF Next

(* Writes of regions that do not overlap never lose or touch each other's   *)
(* elements, though they read, patch and write back the same stored objects *)
(* (array.go:817-821).                                                      *)
THEOREM Implements == Spec => ImplementsRegionWrites
<1>1. IInv /\ [Next]_vars => [Abstract!Next]_<<array, op, val>>
  BY StepRefines
<1> QED
  BY <1>1, InitRefines, PatchesCurrent, PTL
  DEF Spec, ImplementsRegionWrites, Abstract!Spec, Abstract!vars
=============================================================================
