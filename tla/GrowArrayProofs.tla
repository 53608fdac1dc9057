--------------------------- MODULE GrowArrayProofs ---------------------------
(***************************************************************************)
(* GrowArray for arrays of any rank, shape and layout, through any number   *)
(* of handles that are not used to write when they are stale.               *)
(***************************************************************************)
EXTENDS GrowArray, TLAPS

(* The shapes that calls may begin from: that of the metadata, and that of  *)
(* a handle on which a call is under way or just failed.                    *)
Trusted ==
  {meta} \cup {handle[h] : h \in {g \in Handles : g = unsure \/ (job # Idle /\ g = job.by)}}

(* Past such a shape nothing is promised but fill.                          *)
Past(shape) == \A p \in Points : ~Inside(p, shape) => want[p] \in {Fill, Any}

(* And nothing is stored wholly past it, but where nothing is promised.     *)
Held(shape) ==
  \A o \in Objects :
    store[o] # Absent => o \in NumStored(shape) \/ \E p \in Cell[o] : want[p] = Any

(* The region of a call, and the shapes it is between.                      *)
Scoped ==
  LET old == handle[job.by] IN
  /\ job.op \in {"Write", "WriteChunk"} =>
       /\ job.shape = old /\ meta = old
       /\ \A p \in job.region : ObjectOf[p] \in NumStored(old)
  /\ job.op = "Append" =>
       /\ \A p \in Points : Inside(p, old) => Inside(p, job.shape)
       /\ \A o \in NumStored(old) : o \in NumStored(job.shape)
       /\ job.region = {p \in Points : Inside(p, job.shape) /\ ~Inside(p, old)}
       /\ \A o \in job.todo : \E p \in Cell[o] : p \in job.region
  /\ job.op = "Resize" =>
       job.region = {p \in Points : Inside(p, old) /\ ~Inside(p, job.shape)}

(* What has been done of a call: of what it changes, and of what it cuts    *)
(* off, the stored objects that are not still to do are as they are to be.  *)
Progress ==
  /\ \A p \in job.region :
       ObjectOf[p] \notin job.todo => Element(p) = IF Inside(p, job.shape) THEN job.val ELSE Fill
  /\ job.op = "Resize" =>
       \A o \in NumStored(handle[job.by]) :
         o \notin job.todo /\ store[o] # Absent => o \in NumStored(job.shape)

Call ==
  [op : {"Write", "WriteChunk", "Append", "Resize"}, by : Handles, shape : Shapes,
   todo : SUBSET Objects, region : SUBSET Points, val : Values]

UnderWay ==
  job # Idle =>
    /\ job \in Call
    /\ unsure \in {job.by, NoHandle}
    /\ \A p \in job.region : want[p] = Any
    /\ Scoped
    /\ Progress

IInv ==
  /\ TypeOK
  /\ AsPromised
  /\ UnderWay
  /\ \A shape \in Trusted : Past(shape) /\ Held(shape)
-----------------------------------------------------------------------------
(* Arithmetic.                                                              *)
LEMMA Division ==
  ASSUME NEW a \in Nat, NEW b \in Nat \ {0}
  PROVE  a \div b \in Nat /\ (a \div b) * b <= a /\ a < (a \div b + 1) * b
OBVIOUS

LEMMA Quotient ==
  ASSUME NEW a \in Nat, NEW b \in Nat \ {0}, NEW q \in Nat, q * b <= a, a < (q + 1) * b
  PROVE  a \div b = q
OBVIOUS

LEMMA Scaled ==
  ASSUME NEW x \in Nat, NEW y \in Nat, NEW c \in Nat, x <= y
  PROVE  x * c <= y * c
OBVIOUS

LEMMA Unscaled ==
  ASSUME NEW x \in Nat, NEW y \in Nat, NEW c \in Nat \ {0}, x * c < y * c
  PROVE  x < y
OBVIOUS

LEMMA Multiple ==
  ASSUME NEW g \in Nat, NEW c \in Nat \ {0}, g % c = 0
  PROVE  g \div c \in Nat /\ g = (g \div c) * c
OBVIOUS

(* Two that fall in one chunk fall in one stored object.                    *)
LEMMA Nested ==
  ASSUME NEW a \in Nat, NEW b \in Nat, NEW g \in Nat \ {0}, NEW c \in Nat \ {0}, g % c = 0,
         a \div c = b \div c
  PROVE  a \div g = b \div g
<1> DEFINE m == g \div c
           i == a \div g
           n == a \div c
<1>1. m \in Nat /\ g = m * c
  BY Multiple
<1>2. i \in Nat /\ i * g <= a /\ a < (i + 1) * g
  BY Division
<1>3. n \in Nat /\ n * c <= a /\ a < (n + 1) * c /\ n * c <= b /\ b < (n + 1) * c
  BY Division
<1> HIDE DEF m, i, n
<1>4. i * g = (i * m) * c /\ (i + 1) * g = ((i + 1) * m) * c /\ i * m \in Nat /\ (i + 1) * m \in Nat
  BY <1>1, <1>2
<1>5. i * m <= n
  <2>1. (i * m) * c < (n + 1) * c /\ n + 1 \in Nat
    BY <1>2, <1>3, <1>4
  <2>2. i * m < n + 1
    BY <2>1, <1>4, Unscaled
  <2> QED
    BY <2>2, <1>3, <1>4
<1>6. n + 1 <= (i + 1) * m
  <2>1. n * c < ((i + 1) * m) * c
    BY <1>2, <1>3, <1>4
  <2>2. n < (i + 1) * m
    BY <2>1, <1>3, <1>4, Unscaled
  <2> QED
    BY <2>2, <1>3, <1>4
<1>7. i * g <= n * c /\ (n + 1) * c <= (i + 1) * g
  BY <1>3, <1>4, <1>5, <1>6, Scaled
<1>8. i * g <= b /\ b < (i + 1) * g
  BY <1>2, <1>3, <1>7
<1>9. b \div g = i
  BY <1>2, <1>8, Quotient
<1> QED
  BY <1>9 DEF i
-----------------------------------------------------------------------------
(* Elements, shapes and stored objects.                                     *)
LEMMA ShapesAre == Shapes = {n \in [Axes -> Nat] : \A k \in Axes : n[k] <= MaxShape[k]}
<1>1. \A k \in Axes : MaxShape[k] \in Nat
  BY GrowAssumption
<1>2. ASSUME NEW n \in [Axes -> Nat], \A k \in Axes : n[k] <= MaxShape[k]
      PROVE  n \in [Axes -> UNION {0 .. MaxShape[k] : k \in Axes}]
  <2>1. ASSUME NEW k \in Axes PROVE n[k] \in 0 .. MaxShape[k]
    BY <1>1, <1>2
  <2> QED
    BY <1>2, <2>1
<1>3. UNION {0 .. MaxShape[k] : k \in Axes} \subseteq Nat
  BY <1>1
<1> QED
  BY <1>2, <1>3 DEF Shapes, Boxed

LEMMA PointsAre == Points = {p \in [Axes -> Nat] : \A k \in Axes : p[k] < MaxShape[k]}
<1> DEFINE Most == [k \in Axes |-> MaxShape[k] - 1]
<1>1. \A k \in Axes : MaxShape[k] \in Nat /\ Most[k] = MaxShape[k] - 1
  BY GrowAssumption
<1>2. Points = {p \in [Axes -> UNION {0 .. Most[k] : k \in Axes}] : \A k \in Axes : p[k] <= Most[k]}
  BY DEF Points, Boxed
<1> HIDE DEF Most
<1>3. UNION {0 .. Most[k] : k \in Axes} \subseteq Nat
  BY <1>1
<1>4. ASSUME NEW p \in [Axes -> Nat], \A k \in Axes : p[k] < MaxShape[k]
      PROVE  p \in [Axes -> UNION {0 .. Most[k] : k \in Axes}] /\ \A k \in Axes : p[k] <= Most[k]
  <2>1. ASSUME NEW k \in Axes PROVE p[k] \in 0 .. Most[k] /\ p[k] <= Most[k]
    BY <1>1, <1>4
  <2> QED
    BY <1>4, <2>1
<1>5. ASSUME NEW p \in Points
      PROVE  p \in [Axes -> Nat] /\ \A k \in Axes : p[k] < MaxShape[k]
  <2>1. p \in [Axes -> Nat] /\ \A k \in Axes : p[k] <= Most[k]
    BY <1>2, <1>3
  <2> QED
    BY <2>1, <1>1
<1> QED
  BY <1>2, <1>4, <1>5

LEMMA ObjectsAre ==
  /\ ObjectOf \in [Points -> Objects]
  /\ \A o \in Objects : /\ Cell[o] \subseteq Points
                        /\ o \in [Axes -> Nat]
                        /\ \A p \in Cell[o] : ObjectOf[p] = o
  /\ \A p \in Points : p \in Cell[ObjectOf[p]]
<1>1. ObjectOf \in [Points -> Objects]
  BY DEF ObjectOf, Objects
<1>2. ASSUME NEW o \in Objects PROVE o \in [Axes -> Nat]
  <2>1. PICK p \in Points : o = [k \in Axes |-> p[k] \div Grid[k]]
    BY DEF Objects
  <2>2. ASSUME NEW k \in Axes PROVE p[k] \div Grid[k] \in Nat
    BY PointsAre, GrowAssumption, Division
  <2> QED
    BY <2>1, <2>2
<1> QED
  BY <1>1, <1>2 DEF Cell

LEMMA CellSpan ==
  ASSUME NEW p \in Points, NEW k \in Axes
  PROVE  /\ p[k] \in Nat /\ ObjectOf[p][k] \in Nat /\ Grid[k] \in Nat \ {0}
         /\ ObjectOf[p][k] * Grid[k] <= p[k]
         /\ p[k] < (ObjectOf[p][k] + 1) * Grid[k]
<1>1. p[k] \in Nat /\ Grid[k] \in Nat \ {0} /\ ObjectOf[p][k] = p[k] \div Grid[k]
  BY PointsAre, GrowAssumption DEF ObjectOf
<1> QED
  BY <1>1, Division

(* An element of a shape is in a stored object of it.                       *)
LEMMA InsideIsStored ==
  ASSUME NEW shape \in Shapes, NEW p \in Points, Inside(p, shape)
  PROVE  ObjectOf[p] \in NumStored(shape)
<1>1. ASSUME NEW k \in Axes PROVE ObjectOf[p][k] * Grid[k] < shape[k]
  <2>1. shape[k] \in Nat /\ p[k] < shape[k]
    BY ShapesAre DEF Inside
  <2> QED
    BY <2>1, CellSpan
<1> QED
  BY <1>1, ObjectsAre DEF NumStored

LEMMA StoredGrows ==
  ASSUME NEW s \in Shapes, NEW t \in Shapes, \A k \in Axes : s[k] <= t[k]
  PROVE  /\ \A p \in Points : Inside(p, s) => Inside(p, t)
         /\ \A o \in NumStored(s) : o \in NumStored(t)
<1>1. \A k \in Axes : s[k] \in Nat /\ t[k] \in Nat /\ Grid[k] \in Nat
  BY ShapesAre, GrowAssumption
<1>2. ASSUME NEW p \in Points, Inside(p, s) PROVE Inside(p, t)
  <2>1. ASSUME NEW k \in Axes PROVE p[k] < t[k]
    <3>1. p[k] < s[k] /\ p[k] \in Nat
      BY <1>2, PointsAre DEF Inside
    <3> QED
      BY <1>1, <3>1
  <2> QED
    BY <2>1 DEF Inside
<1>3. ASSUME NEW o \in NumStored(s) PROVE o \in NumStored(t)
  <2>1. o \in Objects /\ o \in [Axes -> Nat]
    BY ObjectsAre DEF NumStored
  <2>2. ASSUME NEW k \in Axes PROVE o[k] * Grid[k] < t[k]
    <3>1. o[k] * Grid[k] < s[k] /\ o[k] * Grid[k] \in Nat
      BY <1>1, <2>1 DEF NumStored
    <3> QED
      BY <1>1, <3>1
  <2> QED
    BY <2>1, <2>2 DEF NumStored
<1> QED
  BY <1>2, <1>3

LEMMA ChunkInObject ==
  ASSUME layout \in Layouts, NEW p \in Points, NEW q \in ChunkOf(p)
  PROVE  q \in Points /\ ObjectOf[q] = ObjectOf[p]
<1>1. q \in Points /\ \A k \in Axes : q[k] \div layout.chunk[k] = p[k] \div layout.chunk[k]
  BY DEF ChunkOf
<1>2. ASSUME NEW k \in Axes PROVE q[k] \div Grid[k] = p[k] \div Grid[k]
  <2>1. layout.chunk[k] \in Nat \ {0} /\ Grid[k] % layout.chunk[k] = 0 /\ Grid[k] \in Nat \ {0}
    BY GrowAssumption
  <2>2. p[k] \in Nat /\ q[k] \in Nat
    BY <1>1, PointsAre
  <2> QED
    BY <1>1, <2>1, <2>2, Nested
<1> QED
  BY <1>1, <1>2 DEF ObjectOf

LEMMA ChunkOfItself == \A p \in Points : p \in ChunkOf(p) /\ ChunkOf(p) \subseteq Points
BY DEF ChunkOf
-----------------------------------------------------------------------------
(* What a stored object reads as.                                           *)
ReadsAs(s, p) == IF s = Absent THEN Fill ELSE s[p]

LEMMA ElementReads ==
  ASSUME TypeOK, NEW o \in Objects, NEW p \in Cell[o]
  PROVE  /\ p \in Points /\ ObjectOf[p] = o
         /\ Element(p) = ReadsAs(store[o], p) /\ ReadStored(o)[p] = Element(p)
         /\ Element(p) \in Values
         /\ ReadStored(o) \in [Cell[o] -> Values]
<1>1. p \in Points /\ ObjectOf[p] = o
  BY ObjectsAre
<1>2. ReadStored(o) \in [Cell[o] -> Values]
  BY GrowAssumption DEF TypeOK, ReadStored
<1>3. ReadStored(o)[p] = ReadsAs(store[o], p)
  BY DEF ReadStored, ReadsAs
<1> QED
  BY <1>1, <1>2, <1>3 DEF Element

LEMMA WrittenReads ==
  ASSUME NEW o \in Objects, NEW b \in [Cell[o] -> Values]
  PROVE  /\ Written(b) \in [Cell[o] -> Values] \cup {Absent}
         /\ \A p \in Cell[o] : ReadsAs(Written(b), p) = b[p]
BY StoredAssumption DEF Written, ReadsAs

(* Writing: its region reads as what is written, or as fill past the end,   *)
(* and of the rest what is past the end may have become fill.               *)
LEMMA PatchedReads ==
  ASSUME TypeOK, job \in Call, NEW o \in Objects
  PROVE  /\ Patched(o) \in [Cell[o] -> Values] \cup {Absent}
         /\ \A p \in Cell[o] :
              /\ p \in job.region =>
                   ReadsAs(Patched(o), p) = IF Inside(p, job.shape) THEN job.val ELSE Fill
              /\ p \notin job.region =>
                   \/ ReadsAs(Patched(o), p) = Element(p)
                   \/ ~Inside(p, job.shape) /\ ReadsAs(Patched(o), p) = Fill
<1> DEFINE byChunk == layout.patchesChunks
                        /\ (job.op = "WriteChunk" \/ ~Whole(o, job.region, job.shape))
           part == IF byChunk THEN {p \in Cell[o] : ChunkOf(p) \cap job.region # {}} ELSE Cell[o]
           new == [p \in Cell[o] |-> IF p \in job.region THEN job.val ELSE ReadStored(o)[p]]
           b == FilledPast(new, part, job.shape)
<1>1. \A p \in Cell[o] : p \in job.region => p \in part
  BY ObjectsAre, ChunkOfItself
<1>2. job.val \in Values /\ Fill \in Values
  BY GrowAssumption DEF Call
<1>3. new \in [Cell[o] -> Values]
  BY <1>2, ElementReads
<1>4. b = [p \in Cell[o] |-> IF p \in part /\ ~Inside(p, job.shape) THEN Fill ELSE new[p]]
  BY DEF FilledPast
<1>5. Patched(o) = Written(b)
  BY DEF Patched
<1>6. \A p \in Cell[o] : new[p] = IF p \in job.region THEN job.val ELSE Element(p)
  BY ElementReads
<1> HIDE DEF byChunk, part, new, b
<1>7. b \in [Cell[o] -> Values]
  BY <1>2, <1>3, <1>4
<1>8. \A p \in Cell[o] : ReadsAs(Patched(o), p) = b[p]
  BY <1>5, <1>7, WrittenReads
<1>9. Patched(o) \in [Cell[o] -> Values] \cup {Absent}
  BY <1>5, <1>7, WrittenReads
<1>10. ASSUME NEW p \in Cell[o], p \in job.region
       PROVE  b[p] = IF Inside(p, job.shape) THEN job.val ELSE Fill
  BY <1>1, <1>4, <1>6, <1>10
<1>11. ASSUME NEW p \in Cell[o], p \notin job.region
       PROVE  b[p] = Element(p) \/ (~Inside(p, job.shape) /\ b[p] = Fill)
  BY <1>4, <1>6, <1>11
<1>12. ASSUME NEW p \in Cell[o]
       PROVE  /\ p \in job.region =>
                   ReadsAs(Patched(o), p) = IF Inside(p, job.shape) THEN job.val ELSE Fill
              /\ p \notin job.region =>
                   \/ ReadsAs(Patched(o), p) = Element(p)
                   \/ ~Inside(p, job.shape) /\ ReadsAs(Patched(o), p) = Fill
  BY <1>8, <1>10, <1>11, Zenon
<1> QED
  BY <1>9, <1>12, Zenon

(* Resizing: what is cut off reads as fill, and the rest as it did, but for *)
(* what was past the end; what goes is stored no more, and what is stored   *)
(* anew is so where something is cut off.                                   *)
LEMMA ResizedReads ==
  ASSUME TypeOK, job \in Call, job.op = "Resize", Scoped,
         NEW o \in NumStored(handle[job.by]), o \in Objects
  PROVE  /\ Resized(o) \in [Cell[o] -> Values] \cup {Absent}
         /\ \A p \in Cell[o] :
              /\ p \in job.region => ReadsAs(Resized(o), p) = Fill
              /\ p \notin job.region =>
                   \/ ReadsAs(Resized(o), p) = Element(p)
                   \/ ~Inside(p, job.shape) /\ ReadsAs(Resized(o), p) = Fill
         /\ Resized(o) # Absent => o \in NumStored(job.shape)
         /\ Resized(o) \notin {Absent, store[o]} => \E p \in Cell[o] : p \in job.region
<1> DEFINE old == handle[job.by]
           b == FilledPast(ReadStored(o), Cell[o], job.shape)
<1>1. /\ job.shape \in Shapes /\ old \in Shapes /\ Fill \in Values
      /\ job.region = {p \in Points : Inside(p, old) /\ ~Inside(p, job.shape)}
  BY GrowAssumption DEF Call, TypeOK, Scoped
<1>2. \A k \in Axes : job.shape[k] \in Nat /\ old[k] \in Nat /\ Grid[k] \in Nat \ {0} /\ o[k] \in Nat
  <2> HIDE DEF old
  <2>1. job.shape \in [Axes -> Nat] /\ old \in [Axes -> Nat]
    BY <1>1, ShapesAre
  <2>2. o \in [Axes -> Nat] /\ Grid \in [Axes -> Nat \ {0}]
    BY ObjectsAre, GrowAssumption
  <2> QED
    BY <2>1, <2>2
<1>3. ReadStored(o) \in [Cell[o] -> Values]
  BY GrowAssumption DEF TypeOK, ReadStored
<1>4. b = [p \in Cell[o] |-> IF ~Inside(p, job.shape) THEN Fill ELSE Element(p)]
  BY <1>3, ElementReads DEF FilledPast
<1>5. Resized(o) = IF Gone(o) THEN Absent ELSE IF Cut(o) THEN Written(b) ELSE store[o]
  BY DEF Resized
<1>6. Gone(o) <=> o \notin NumStored(job.shape)
  <2>1. \A k \in Axes : o[k] * Grid[k] >= job.shape[k] <=> ~(o[k] * Grid[k] < job.shape[k])
    <3>1. ASSUME NEW k \in Axes
          PROVE  o[k] * Grid[k] >= job.shape[k] <=> ~(o[k] * Grid[k] < job.shape[k])
      <4>1. o[k] * Grid[k] \in Nat /\ job.shape[k] \in Nat
        BY <1>2
      <4> QED
        BY <4>1
    <3> QED
      BY <3>1
  <2> QED
    BY <2>1 DEF Gone, NumStored
<1>7. ASSUME Gone(o), NEW p \in Cell[o] PROVE ~Inside(p, job.shape)
  <2>1. PICK k \in Axes : o[k] * Grid[k] >= job.shape[k]
    BY <1>7 DEF Gone
  <2>2. p \in Points /\ ObjectOf[p] = o
    BY ObjectsAre
  <2>3. o[k] * Grid[k] <= p[k] /\ p[k] \in Nat
    BY <2>2, CellSpan
  <2>4. o[k] * Grid[k] \in Nat /\ job.shape[k] \in Nat
    BY <1>2
  <2>5. ~(p[k] < job.shape[k])
    BY <2>1, <2>3, <2>4
  <2> QED
    BY <2>5 DEF Inside
<1>8. ASSUME NEW p \in Cell[o], p \in job.region PROVE Gone(o) \/ Cut(o)
  <2>1. p \in Points /\ ObjectOf[p] = o /\ Inside(p, old)
    BY <1>1, <1>8, ObjectsAre
  <2>2. PICK k \in Axes : ~(p[k] < job.shape[k])
    BY <1>1, <1>8 DEF Inside
  <2>3. p[k] < (o[k] + 1) * Grid[k] /\ p[k] \in Nat /\ p[k] < old[k]
    BY <2>1, CellSpan DEF Inside
  <2>4. (o[k] + 1) * Grid[k] \in Nat /\ job.shape[k] \in Nat /\ old[k] \in Nat
    BY <1>2
  <2>5. (o[k] + 1) * Grid[k] > job.shape[k] /\ job.shape[k] < old[k]
    BY <2>2, <2>3, <2>4
  <2> QED
    BY <2>5 DEF Cut
<1>9. ASSUME ~Gone(o), Cut(o) PROVE \E p \in Cell[o] : p \in job.region
  <2>1. PICK k \in Axes : (o[k] + 1) * Grid[k] > job.shape[k] /\ job.shape[k] < old[k]
    BY <1>9 DEF Cut
  <2> DEFINE p == [j \in Axes |-> IF j = k THEN job.shape[k] ELSE o[j] * Grid[j]]
  <2>2. ASSUME NEW j \in Axes
        PROVE  /\ p[j] \in Nat /\ p[j] < old[j] /\ p[j] < MaxShape[j]
               /\ p[j] \div Grid[j] = o[j]
    <3>1. /\ o[j] \in Nat /\ Grid[j] \in Nat \ {0} /\ old[j] \in Nat /\ job.shape[j] \in Nat
          /\ old[j] <= MaxShape[j] /\ MaxShape[j] \in Nat
      BY <1>1, <1>2, ShapesAre, GrowAssumption
    <3>2. o[j] * Grid[j] \in Nat /\ o[j] * Grid[j] < old[j]
      BY <3>1 DEF NumStored
    <3>3. o[j] * Grid[j] < job.shape[j]
      BY <1>6, <1>9 DEF NumStored
    <3>4. p[j] \in Nat /\ p[j] < old[j] /\ o[j] * Grid[j] <= p[j]
      BY <2>1, <3>1, <3>2, <3>3
    <3>5. o[j] * Grid[j] < (o[j] + 1) * Grid[j]
      BY <3>1
    <3>6. p[j] < (o[j] + 1) * Grid[j]
      BY <2>1, <3>5
    <3>7. p[j] \div Grid[j] = o[j]
      BY <3>1, <3>4, <3>6, Quotient
    <3> QED
      BY <3>1, <3>4, <3>7
  <2>3. p \in Points
    BY <2>2, PointsAre
  <2>4. p[k] = job.shape[k]
    OBVIOUS
  <2> HIDE DEF p
  <2>5. ObjectOf[p] = o
    <3>1. ObjectOf[p] = [j \in Axes |-> p[j] \div Grid[j]]
      BY <2>3 DEF ObjectOf
    <3> QED
      BY <2>2, <3>1, ObjectsAre
  <2>6. p \in Cell[o]
    BY <2>3, <2>5, ObjectsAre
  <2>7. Inside(p, old) /\ ~Inside(p, job.shape)
    BY <2>2, <2>4, <1>2 DEF Inside
  <2> QED
    BY <1>1, <2>3, <2>6, <2>7
<1> HIDE DEF old, b
<1>10. b \in [Cell[o] -> Values]
  BY <1>1, <1>4, ElementReads
<1>11. ASSUME NEW p \in Cell[o]
       PROVE  ReadsAs(Resized(o), p) = IF Gone(o) \/ (Cut(o) /\ ~Inside(p, job.shape))
                                       THEN Fill ELSE Element(p)
  <2>1. CASE Gone(o)
    BY <1>5, <2>1 DEF ReadsAs
  <2>2. CASE ~Gone(o) /\ Cut(o)
    BY <1>4, <1>5, <1>10, <2>2, WrittenReads
  <2>3. CASE ~Gone(o) /\ ~Cut(o)
    BY <1>5, <2>3, ElementReads
  <2> QED
    BY <2>1, <2>2, <2>3
<1>12. \A p \in Cell[o] : p \in job.region => ~Inside(p, job.shape)
  BY <1>1
<1>13. Resized(o) \in [Cell[o] -> Values] \cup {Absent}
  BY <1>5, <1>10, WrittenReads DEF TypeOK
<1>14. Resized(o) # Absent => ~Gone(o)
  BY <1>5
<1>15. Resized(o) \notin {Absent, store[o]} => ~Gone(o) /\ Cut(o)
  BY <1>5
<1> QED
  BY <1>6, <1>7, <1>8, <1>9, <1>11, <1>12, <1>13, <1>14, <1>15
-----------------------------------------------------------------------------
LEMMA InitIInv == Init => IInv
<1> SUFFICES ASSUME Init PROVE IInv
  OBVIOUS
<1>1. /\ meta \in Shapes /\ job = Idle /\ unsure = NoHandle /\ Fill \in Values
      /\ store = [o \in Objects |-> Absent] /\ want = [p \in Points |-> Fill]
  BY GrowAssumption, StoredAssumption DEF Init
<1>2. TypeOK
  BY <1>1 DEF Init, TypeOK
<1>3. AsPromised
  <2>1. ASSUME NEW p \in Points PROVE Element(p) = Fill
    <3>1. ObjectOf[p] \in Objects /\ p \in Cell[ObjectOf[p]]
      BY ObjectsAre
    <3> QED
      BY <1>1, <1>2, <3>1, ElementReads DEF ReadsAs
  <2> QED
    BY <1>1, <2>1 DEF AsPromised
<1>4. UnderWay
  BY <1>1 DEF UnderWay
<1>5. ASSUME NEW shape \in Trusted PROVE Past(shape) /\ Held(shape)
  BY <1>1 DEF Past, Held
<1> QED
  BY <1>2, <1>3, <1>4, <1>5 DEF IInv

LEMMA OthersStay ==
  ASSUME NEW p \in Points, store'[ObjectOf[p]] = store[ObjectOf[p]]
  PROVE  Element(p)' = Element(p)
BY ObjectsAre DEF Element, ReadStored

(* A call begins, from a shape that is trusted.                             *)
LEMMA BeginKeepsIInv ==
  ASSUME IInv, UNCHANGED layout, NEW h \in Handles, handle[h] \in Trusted,
         NEW op \in {"Write", "WriteChunk", "Append", "Resize"}, NEW shape \in Shapes,
         NEW todo \in SUBSET Objects, NEW changes \in SUBSET Points, NEW v \in Values,
         Begin(h, op, shape, todo, changes, v),
         todo \subseteq NumStored(IF op = "Append" THEN shape ELSE handle[h]),
         \A p \in changes : ObjectOf[p] \in todo,
         Scoped', Progress'
  PROVE  IInv'
<1>1. /\ job = Idle /\ UNCHANGED <<store, meta, handle>>
      /\ job' = [op |-> op, by |-> h, shape |-> shape, todo |-> todo, region |-> changes, val |-> v]
      /\ want' = [p \in Points |-> IF p \in changes THEN Any ELSE want[p]]
      /\ unsure' \in {h, NoHandle}
  BY DEF Begin
<1>2. job'.by = h /\ job'.region = changes /\ job'.todo = todo /\ job'.shape = shape /\ job'.op = op
  BY <1>1
<1>3. TypeOK'
  BY <1>1, <1>2 DEF IInv, TypeOK, NumStored
<1>4. AsPromised'
  BY <1>1, OthersStay, ObjectsAre DEF IInv, AsPromised
<1>5. UnderWay'
  BY <1>1, <1>2 DEF UnderWay, Call
<1>6. \A s \in Trusted' : s \in Trusted
  BY <1>1, <1>2, GrowAssumption DEF Trusted
<1>7. ASSUME NEW s \in Trusted' PROVE Past(s)' /\ Held(s)'
  <2>1. Past(s) /\ Held(s)
    BY <1>6 DEF IInv
  <2>2. Past(s)'
    BY <1>1, <2>1 DEF Past, Inside
  <2>3. \A o \in Objects : \A p \in Cell[o] : want[p] = Any => want'[p] = Any
    BY <1>1, ObjectsAre
  <2> QED
    BY <1>1, <2>1, <2>2, <2>3 DEF Held, NumStored
<1> QED
  BY <1>3, <1>4, <1>5, <1>7 DEF IInv

(* What a call makes of a stored object, by any of the calls.               *)
LEMMA ContentsReads ==
  ASSUME IInv, job # Idle, NEW o \in job.todo
  PROVE  /\ o \in Objects
         /\ Contents(o) \in [Cell[o] -> Values] \cup {Absent}
         /\ \A p \in Cell[o] :
              /\ p \in job.region =>
                   ReadsAs(Contents(o), p) = IF Inside(p, job.shape) THEN job.val ELSE Fill
              /\ p \notin job.region =>
                   \/ ReadsAs(Contents(o), p) = Element(p)
                   \/ /\ ReadsAs(Contents(o), p) = Fill
                      /\ ~Inside(p, job.shape) /\ ~Inside(p, handle[job.by])
         /\ job.op = "Resize" /\ Contents(o) # Absent => o \in NumStored(job.shape)
         /\ Contents(o) \notin {Absent, store[o]} =>
              \/ \E p \in Cell[o] : want[p] = Any
              \/ \A shape \in Trusted : o \in NumStored(shape)
<1>1. /\ TypeOK /\ job \in Call /\ Scoped /\ unsure \in {job.by, NoHandle}
      /\ \A p \in job.region : want[p] = Any
  BY DEF IInv, UnderWay
<1>2. o \in Objects /\ \A p \in Cell[o] : p \in Points /\ ObjectOf[p] = o
  BY <1>1, ObjectsAre DEF Call
<1>3. CASE job.op = "Resize"
  <2>1. o \in NumStored(handle[job.by])
    BY <1>1, <1>3 DEF TypeOK
  <2>2. job.region = {p \in Points : Inside(p, handle[job.by]) /\ ~Inside(p, job.shape)}
    BY <1>1, <1>3 DEF Scoped
  <2>3. Contents(o) = Resized(o)
    BY <1>3 DEF Contents
  <2>4. \A p \in Cell[o] : p \in job.region => ~Inside(p, job.shape)
    BY <2>2
  <2>5. \A p \in Cell[o] : p \notin job.region /\ ~Inside(p, job.shape) => ~Inside(p, handle[job.by])
    BY <1>2, <2>2
  <2> QED
    BY <1>1, <1>2, <1>3, <2>1, <2>3, <2>4, <2>5, ResizedReads
<1>4. CASE job.op # "Resize"
  <2>1. Contents(o) = Patched(o)
    BY <1>4 DEF Contents
  <2>2. \A p \in Cell[o] : ~Inside(p, job.shape) => ~Inside(p, handle[job.by])
    BY <1>1, <1>2, <1>4 DEF Scoped, Call
  <2>3. \/ \E p \in Cell[o] : want[p] = Any
        \/ \A shape \in Trusted : o \in NumStored(shape)
    <3>1. CASE job.op = "Append"
      BY <1>1, <3>1 DEF Scoped
    <3>2. CASE job.op # "Append"
      <4>1. meta = handle[job.by] /\ o \in NumStored(handle[job.by])
        BY <1>1, <1>4, <3>2 DEF Scoped, Call, TypeOK
      <4>2. \A shape \in Trusted : shape = handle[job.by]
        BY <1>1, <4>1, GrowAssumption DEF Trusted
      <4> QED
        BY <4>1, <4>2
    <3> QED
      BY <3>1, <3>2
  <2> QED
    BY <1>1, <1>2, <1>4, <2>1, <2>2, <2>3, PatchedReads
<1> QED
  BY <1>3, <1>4

(* A stored object is done: everything but what is still to do of the call  *)
(* stands.                                                                  *)
LEMMA ObjectDone ==
  ASSUME IInv, job # Idle, NEW o \in job.todo, store' = [store EXCEPT ![o] = Contents(o)]
  PROVE  /\ DOMAIN store' = Objects
         /\ \A q \in Objects : store'[q] \in [Cell[q] -> Values] \cup {Absent}
         /\ \A p \in Points : want[p] # Any => Element(p)' = want[p]
         /\ \A p \in job.region :
              ObjectOf[p] \notin job.todo \ {o} =>
                Element(p)' = IF Inside(p, job.shape) THEN job.val ELSE Fill
         /\ job.op = "Resize" =>
              \A q \in NumStored(handle[job.by]) :
                q \notin job.todo \ {o} /\ store'[q] # Absent => q \in NumStored(job.shape)
         /\ \A shape \in Trusted : \A q \in Objects :
              store'[q] # Absent => q \in NumStored(shape) \/ \E p \in Cell[q] : want[p] = Any
<1>1. /\ TypeOK /\ AsPromised /\ job \in Call /\ Progress
      /\ \A p \in job.region : want[p] = Any
      /\ \A shape \in Trusted : Past(shape) /\ Held(shape)
  BY DEF IInv, UnderWay
<1>2. /\ o \in Objects /\ store'[o] = Contents(o)
      /\ \A q \in Objects : q # o => store'[q] = store[q]
      /\ DOMAIN store' = Objects
  BY <1>1, ContentsReads DEF TypeOK
<1>3. \A q \in Objects : store'[q] \in [Cell[q] -> Values] \cup {Absent}
  BY <1>1, <1>2, ContentsReads DEF TypeOK
<1>4. \A p \in Points : ObjectOf[p] # o => Element(p)' = Element(p)
  BY <1>2, OthersStay, ObjectsAre
<1>5. ASSUME NEW p \in Points, ObjectOf[p] = o
      PROVE  p \in Cell[o] /\ Element(p)' = ReadsAs(Contents(o), p)
  <2>1. p \in Cell[o]
    BY <1>5, ObjectsAre
  <2>2. Element(p)' = ReadsAs(store'[o], p)
    BY <1>5, <2>1 DEF Element, ReadStored, ReadsAs
  <2> QED
    BY <1>2, <2>1, <2>2
<1>6. handle[job.by] \in Trusted
  BY <1>1 DEF Trusted, Call
<1>7. ASSUME NEW p \in Points, want[p] # Any PROVE Element(p)' = want[p]
  <2>1. Element(p) = want[p] /\ p \notin job.region
    BY <1>1, <1>7 DEF AsPromised
  <2>2. CASE ObjectOf[p] # o
    BY <1>4, <2>1, <2>2
  <2>3. CASE ObjectOf[p] = o
    <3>1. \/ Element(p)' = Element(p)
          \/ Element(p)' = Fill /\ ~Inside(p, handle[job.by])
      BY <1>5, <2>1, <2>3, ContentsReads
    <3>2. ~Inside(p, handle[job.by]) => want[p] = Fill
      BY <1>1, <1>6, <1>7 DEF Past
    <3> QED
      BY <2>1, <3>1, <3>2
  <2> QED
    BY <2>2, <2>3
<1>8. ASSUME NEW p \in job.region, ObjectOf[p] \notin job.todo \ {o}
      PROVE  Element(p)' = IF Inside(p, job.shape) THEN job.val ELSE Fill
  <2>1. p \in Points
    BY <1>1 DEF Call
  <2>2. CASE ObjectOf[p] # o
    BY <1>1, <1>4, <1>8, <2>1, <2>2 DEF Progress
  <2>3. CASE ObjectOf[p] = o
    BY <1>5, <2>1, <2>3, ContentsReads
  <2> QED
    BY <2>2, <2>3
<1>9. ASSUME job.op = "Resize", NEW q \in NumStored(handle[job.by]), q \notin job.todo \ {o},
             store'[q] # Absent
      PROVE  q \in NumStored(job.shape)
  <2>1. q \in Objects
    BY DEF NumStored
  <2> QED
    BY <1>1, <1>2, <1>9, <2>1, ContentsReads DEF Progress
<1>10. ASSUME NEW shape \in Trusted, NEW q \in Objects, store'[q] # Absent
       PROVE  q \in NumStored(shape) \/ \E p \in Cell[q] : want[p] = Any
  <2>1. CASE store'[q] = store[q]
    BY <1>1, <1>10, <2>1 DEF Held
  <2>2. CASE store'[q] # store[q]
    BY <1>2, <1>10, <2>2, ContentsReads
  <2> QED
    BY <2>1, <2>2
<1> QED
  BY <1>2, <1>3, <1>7, <1>8, <1>9, <1>10

LEMMA DoObjectKeepsIInv ==
  ASSUME IInv, UNCHANGED layout, NEW o \in Objects, DoObject(o)
  PROVE  IInv'
<1>1. /\ job # Idle /\ o \in job.todo /\ store' = [store EXCEPT ![o] = Contents(o)]
      /\ job' = [job EXCEPT !.todo = @ \ {o}]
      /\ UNCHANGED <<meta, handle, unsure, want>>
  BY DEF DoObject
<1>2. job \in Call /\ TypeOK /\ unsure \in {job.by, NoHandle} /\ Scoped
  BY <1>1 DEF IInv, UnderWay
<1>3. /\ job' \in Call /\ job' # Idle /\ job'.todo = job.todo \ {o}
      /\ job'.op = job.op /\ job'.by = job.by /\ job'.shape = job.shape
      /\ job'.region = job.region /\ job'.val = job.val
  BY <1>1, <1>2 DEF Call, Idle
<1>4. TypeOK'
  BY <1>1, <1>2, <1>3, ObjectDone DEF TypeOK, NumStored
<1>5. AsPromised'
  BY <1>1, ObjectDone DEF AsPromised
<1>6. Scoped'
  BY <1>1, <1>2, <1>3 DEF Scoped, NumStored, Inside
<1>7. Progress'
  BY <1>1, <1>2, <1>3, ObjectDone DEF Progress, NumStored, Inside
<1>8. UnderWay'
  BY <1>1, <1>2, <1>3, <1>6, <1>7 DEF UnderWay, IInv
<1>9. Trusted' = Trusted
  BY <1>1, <1>3 DEF Trusted
<1>10. ASSUME NEW s \in Trusted' PROVE Past(s)' /\ Held(s)'
  <2>1. Past(s)'
    BY <1>1, <1>9 DEF IInv, Past, Inside
  <2>2. Held(s)'
    BY <1>1, <1>9, ObjectDone DEF Held, NumStored
  <2> QED
    BY <2>1, <2>2
<1> QED
  BY <1>4, <1>5, <1>8, <1>10 DEF IInv

LEMMA ObjectFailsKeepsIInv ==
  ASSUME IInv, UNCHANGED layout, NEW o \in Objects, ObjectFails(o)
  PROVE  IInv'
<1>1. /\ job # Idle /\ o \in job.todo /\ job' = Idle
      /\ UNCHANGED <<meta, handle, unsure, want>>
      /\ UNCHANGED store \/ store' = [store EXCEPT ![o] = Contents(o)]
  BY DEF ObjectFails
<1>2. TypeOK /\ AsPromised /\ \A s \in Trusted : Past(s) /\ Held(s)
  BY DEF IInv
<1>3. /\ DOMAIN store' = Objects
      /\ \A q \in Objects : store'[q] \in [Cell[q] -> Values] \cup {Absent}
      /\ \A p \in Points : want[p] # Any => Element(p)' = want[p]
      /\ \A s \in Trusted : \A q \in Objects :
              store'[q] # Absent => q \in NumStored(s) \/ \E p \in Cell[q] : want[p] = Any
  <2>1. CASE UNCHANGED store
    BY <1>2, <2>1, OthersStay, ObjectsAre DEF TypeOK, AsPromised, Held
  <2>2. CASE store' = [store EXCEPT ![o] = Contents(o)]
    BY <1>1, <2>2, ObjectDone
  <2> QED
    BY <1>1, <2>1, <2>2
<1>4. TypeOK'
  BY <1>1, <1>2, <1>3 DEF TypeOK
<1>5. AsPromised' /\ UnderWay'
  BY <1>1, <1>3 DEF AsPromised, UnderWay
<1>6. \A s \in Trusted' : s \in Trusted
  BY <1>1 DEF Trusted
<1>7. ASSUME NEW s \in Trusted' PROVE Past(s)' /\ Held(s)'
  <2>1. Past(s)'
    BY <1>1, <1>2, <1>6 DEF Past, Inside
  <2>2. Held(s)'
    BY <1>1, <1>3, <1>6 DEF Held, NumStored
  <2> QED
    BY <2>1, <2>2
<1> QED
  BY <1>4, <1>5, <1>7 DEF IInv

(* A call that ended has done all of its region.                            *)
LEMMA PromiseKept ==
  ASSUME IInv, AllDone, Promise, UNCHANGED store
  PROVE  /\ job \in Call /\ Scoped /\ unsure \in {job.by, NoHandle} /\ handle[job.by] \in Trusted
         /\ want' \in [Points -> Values \cup {Any}]
         /\ AsPromised'
         /\ \A p \in Points : want[p] = Any /\ p \notin job.region => want'[p] = Any
         /\ \A p \in Points : ~Inside(p, job.shape) /\ ~Inside(p, handle[job.by]) =>
              want'[p] \in {Fill, Any}
         /\ \A p \in Points : ~Inside(p, job.shape) /\ p \in job.region => want'[p] = Fill
<1>1. /\ job # Idle /\ job.todo = {} /\ job \in Call /\ Scoped /\ Progress
      /\ unsure \in {job.by, NoHandle} /\ TypeOK /\ AsPromised
      /\ \A shape \in Trusted : Past(shape)
  BY DEF IInv, UnderWay, AllDone
<1>2. want' = [p \in Points |-> IF p \notin job.region THEN want[p]
                                ELSE IF Inside(p, job.shape) THEN job.val ELSE Fill]
  BY DEF Promise
<1>3. want' \in [Points -> Values \cup {Any}]
  BY <1>1, <1>2, GrowAssumption DEF TypeOK, Call
<1>4. AsPromised'
  <2>1. ASSUME NEW p \in Points, want'[p] # Any PROVE Element(p)' = want'[p]
    <3>1. Element(p)' = Element(p)
      BY OthersStay
    <3>2. CASE p \notin job.region
      BY <1>1, <1>2, <2>1, <3>1, <3>2 DEF AsPromised
    <3>3. CASE p \in job.region
      BY <1>1, <1>2, <3>1, <3>3 DEF Progress
    <3> QED
      BY <3>2, <3>3
  <2> QED
    BY <2>1 DEF AsPromised
<1>5. handle[job.by] \in Trusted
  BY <1>1 DEF Trusted, Call
<1>6. ASSUME NEW p \in Points, ~Inside(p, job.shape), ~Inside(p, handle[job.by])
      PROVE  want'[p] \in {Fill, Any}
  BY <1>1, <1>2, <1>5, <1>6 DEF Past
<1> QED
  BY <1>1, <1>2, <1>3, <1>4, <1>5, <1>6

LEMMA EndWriteKeepsIInv ==
  ASSUME IInv, UNCHANGED layout, EndWrite
  PROVE  IInv'
<1>1. /\ AllDone /\ Promise /\ job.op \in {"Write", "WriteChunk"} /\ job' = Idle
      /\ UNCHANGED <<store, meta, handle, unsure>>
  BY DEF EndWrite
<1> DEFINE old == handle[job.by]
<1>2. /\ TypeOK /\ unsure \in {job.by, NoHandle} /\ job \in Call /\ old \in Trusted
      /\ job.shape = old /\ meta = old /\ \A p \in job.region : ObjectOf[p] \in NumStored(old)
  BY <1>1, PromiseKept DEF IInv, Scoped
<1>3. TypeOK'
  BY <1>1, <1>2, PromiseKept DEF TypeOK
<1>4. AsPromised' /\ UnderWay'
  BY <1>1, PromiseKept DEF UnderWay
<1>5. ASSUME NEW s \in Trusted' PROVE Past(s)' /\ Held(s)'
  <2>1. s = old /\ Past(s) /\ Held(s)
    BY <1>1, <1>2, GrowAssumption DEF Trusted, IInv
  <2>2. Past(s)'
    <3>1. ASSUME NEW p \in Points, ~Inside(p, s) PROVE want'[p] \in {Fill, Any}
      BY <1>1, <1>2, <2>1, <3>1, PromiseKept
    <3> QED
      BY <3>1 DEF Past, Inside
  <2>3. ASSUME NEW o \in Objects, store[o] # Absent, o \notin NumStored(s)
        PROVE  \E p \in Cell[o] : want'[p] = Any
    <3>1. PICK p \in Cell[o] : want[p] = Any
      BY <2>1, <2>3 DEF Held
    <3>2. p \in Points /\ p \notin job.region
      BY <1>2, <2>1, <2>3, ObjectsAre
    <3> QED
      BY <1>1, <3>1, <3>2, PromiseKept
  <2>4. Held(s)'
    BY <1>1, <2>3 DEF Held, NumStored
  <2> QED
    BY <2>2, <2>4
<1> QED
  BY <1>3, <1>4, <1>5 DEF IInv

(* The shape a call leaves: past it there is nothing but fill, and of what  *)
(* is wholly past it nothing is stored.                                     *)
LEMMA NewShapeHolds ==
  ASSUME IInv, AllDone, job.op \in {"Append", "Resize"}
  PROVE  /\ \A p \in Points : ~Inside(p, job.shape) => p \in job.region \/ want[p] \in {Fill, Any}
         /\ \A o \in Objects :
              store[o] # Absent =>
                \/ o \in NumStored(job.shape)
                \/ \E p \in Cell[o] : want[p] = Any /\ p \notin job.region
<1>1. /\ job # Idle /\ job.todo = {} /\ job \in Call /\ Scoped /\ Progress /\ TypeOK
      /\ handle[job.by] \in Shapes
  BY DEF IInv, UnderWay, AllDone, TypeOK, Call
<1> DEFINE old == handle[job.by]
<1>2. old \in Trusted
  BY <1>1 DEF Trusted, Call
<1>3. Past(old) /\ Held(old)
  BY <1>2 DEF IInv
<1>4. ASSUME NEW p \in Points, ~Inside(p, job.shape), p \notin job.region
      PROVE  want[p] \in {Fill, Any}
  BY <1>1, <1>3, <1>4 DEF Scoped, Past
<1>5. ASSUME NEW o \in Objects, store[o] # Absent, o \notin NumStored(job.shape)
      PROVE  \E p \in Cell[o] : want[p] = Any /\ p \notin job.region
  <2>1. o \notin NumStored(old)
    BY <1>1, <1>5 DEF Progress, Scoped
  <2>2. PICK p \in Cell[o] : want[p] = Any
    BY <1>3, <1>5, <2>1 DEF Held
  <2>3. p \in Points /\ ObjectOf[p] = o
    BY ObjectsAre
  <2>4. ~Inside(p, old)
    BY <1>1, <2>1, <2>3, InsideIsStored
  <2>5. ~Inside(p, job.shape)
    BY <1>1, <1>5, <2>3, InsideIsStored DEF Call
  <2>6. p \notin job.region
    BY <1>1, <2>4, <2>5 DEF Scoped
  <2> QED
    BY <2>2, <2>6
<1> QED
  BY <1>4, <1>5

LEMMA EndReshapeKeepsIInv ==
  ASSUME IInv, UNCHANGED layout, EndReshape
  PROVE  IInv'
<1>1. /\ AllDone /\ Promise /\ job.op \in {"Append", "Resize"} /\ job' = Idle /\ UNCHANGED store
      /\ meta' = job.shape /\ handle' = [handle EXCEPT ![job.by] = job.shape] /\ unsure' = NoHandle
  BY DEF EndReshape
<1>2. TypeOK /\ job \in Call
  BY <1>1, PromiseKept DEF IInv
<1>3. TypeOK'
  BY <1>1, <1>2, PromiseKept DEF TypeOK, Call
<1>4. AsPromised' /\ UnderWay'
  BY <1>1, PromiseKept DEF UnderWay
<1>5. \A s \in Trusted' : s = job.shape
  BY <1>1, GrowAssumption DEF Trusted
<1>6. want' = [p \in Points |-> IF p \notin job.region THEN want[p]
                                ELSE IF Inside(p, job.shape) THEN job.val ELSE Fill]
  BY <1>1 DEF Promise
<1>7. \A p \in Points : ~Inside(p, job.shape) => want'[p] \in {Fill, Any}
  BY <1>1, <1>6, NewShapeHolds
<1>8. ASSUME NEW o \in Objects, store'[o] # Absent
      PROVE  o \in NumStored(job.shape) \/ \E p \in Cell[o] : want'[p] = Any
  BY <1>1, <1>6, <1>8, NewShapeHolds, ObjectsAre
<1>9. \A s \in Trusted' : Past(s)' /\ Held(s)'
  BY <1>5, <1>7, <1>8 DEF Past, Held, NumStored, Inside
<1> QED
  BY <1>3, <1>4, <1>9 DEF IInv

LEMMA MetadataFailsKeepsIInv ==
  ASSUME IInv, UNCHANGED layout, MetadataFails
  PROVE  IInv'
<1>1. /\ AllDone /\ job.op \in {"Append", "Resize"} /\ job # Idle /\ job' = Idle
      /\ meta' \in {meta, job.shape} /\ unsure' = job.by /\ UNCHANGED <<store, handle, want>>
  BY DEF MetadataFails, AllDone
<1>2. /\ TypeOK /\ job \in Call /\ AsPromised /\ \A p \in job.region : want[p] = Any
      /\ \A s \in Trusted : Past(s) /\ Held(s)
  BY <1>1 DEF IInv, UnderWay
<1>3. TypeOK'
  BY <1>1, <1>2 DEF TypeOK, Call
<1>4. AsPromised' /\ UnderWay'
  BY <1>1, <1>2, OthersStay, ObjectsAre DEF UnderWay, AsPromised
<1>5. \A s \in Trusted' : s = job.shape \/ s \in Trusted
  BY <1>1, <1>2 DEF Trusted, Call
<1>6. Past(job.shape) /\ Held(job.shape)
  BY <1>1, <1>2, NewShapeHolds DEF Past, Held
<1>7. ASSUME NEW s \in Trusted' PROVE Past(s)' /\ Held(s)'
  <2>1. Past(s) /\ Held(s)
    BY <1>2, <1>5, <1>6
  <2> QED
    BY <1>1, <2>1 DEF Past, Held, NumStored, Inside
<1> QED
  BY <1>3, <1>4, <1>7 DEF IInv

LEMMA RefreshKeepsIInv ==
  ASSUME IInv, UNCHANGED layout, NEW h \in Handles, Refresh(h)
  PROVE  IInv'
<1>1. /\ job = Idle /\ handle' = [handle EXCEPT ![h] = meta]
      /\ unsure' = IF unsure = h THEN NoHandle ELSE unsure
      /\ UNCHANGED <<store, meta, job, want>>
  BY DEF Refresh
<1>2. TypeOK'
  BY <1>1 DEF IInv, TypeOK
<1>3. AsPromised' /\ UnderWay'
  BY <1>1, OthersStay, ObjectsAre DEF IInv, UnderWay, AsPromised
<1>4. \A s \in Trusted' : s \in Trusted
  BY <1>1, GrowAssumption DEF Trusted, IInv, TypeOK
<1>5. ASSUME NEW s \in Trusted' PROVE Past(s)' /\ Held(s)'
  <2>1. Past(s) /\ Held(s)
    BY <1>4 DEF IInv
  <2> QED
    BY <1>1, <2>1 DEF Past, Held, NumStored, Inside
<1> QED
  BY <1>2, <1>3, <1>5 DEF IInv
-----------------------------------------------------------------------------
(* The calls begin: through a handle that has the shape of the metadata, or *)
(* one on which what failed is done again.                                  *)
LEMMA MeetsHas ==
  ASSUME NEW region \in SUBSET Points
  PROVE  /\ Meets(region) \in SUBSET Objects
         /\ \A p \in region : ObjectOf[p] \in Meets(region)
         /\ \A o \in Meets(region) : \E p \in Cell[o] : p \in region /\ ObjectOf[p] = o
BY ObjectsAre DEF Meets

LEMMA MayBegin ==
  ASSUME IInv, NEW h \in Handles, Current(h) \/ Retry(h)
  PROVE  handle[h] \in Trusted /\ handle[h] \in Shapes
BY DEF Current, Retry, Trusted, IInv, TypeOK

LEMMA WriteBegins ==
  ASSUME IInv, UNCHANGED layout, NEW h \in Handles, Current(h),
         NEW op \in {"Write", "WriteChunk"}, NEW region \in SUBSET Points, NEW v \in Values,
         \A p \in region : ObjectOf[p] \in NumStored(handle[h]),
         Begin(h, op, handle[h], Meets(region), region, v)
  PROVE  IInv'
<1>1. handle[h] \in Trusted /\ handle[h] \in Shapes
  BY MayBegin
<1>2. /\ Meets(region) \in SUBSET Objects
      /\ Meets(region) \subseteq NumStored(handle[h])
      /\ \A p \in region : ObjectOf[p] \in Meets(region)
  BY MeetsHas
<1>3. /\ job'.by = h /\ job'.region = region /\ job'.todo = Meets(region)
      /\ job'.shape = handle[h] /\ job'.op = op /\ UNCHANGED <<meta, handle>>
  BY DEF Begin
<1>4. Scoped'
  BY <1>3 DEF Scoped, Current, NumStored
<1>5. Progress'
  BY <1>2, <1>3 DEF Progress
<1> QED
  BY <1>1, <1>2, <1>4, <1>5, BeginKeepsIInv

LEMMA WriteKeepsIInv ==
  ASSUME ~WritesStale, IInv, UNCHANGED layout, NEW h \in Handles, Write(h)
  PROVE  IInv'
<1>1. PICK region \in Blocks \ {{}}, v \in Values :
        /\ \A p \in region : Inside(p, handle[h])
        /\ Begin(h, "Write", handle[h], Meets(region), region, v)
  BY DEF Write
<1>2. Current(h) /\ region \in SUBSET Points
  BY DEF Write, Blocks
<1>3. \A p \in region : ObjectOf[p] \in NumStored(handle[h])
  BY <1>1, <1>2, InsideIsStored, MayBegin
<1> QED
  BY <1>1, <1>2, <1>3, WriteBegins

LEMMA WriteChunkKeepsIInv ==
  ASSUME ~WritesStale, IInv, UNCHANGED layout, NEW h \in Handles, WriteChunk(h)
  PROVE  IInv'
<1>1. PICK p \in Points, v \in Values :
        /\ Inside(p, handle[h])
        /\ Begin(h, "WriteChunk", handle[h], Meets(ChunkOf(p)), ChunkOf(p), v)
  BY DEF WriteChunk
<1>2. Current(h) /\ ChunkOf(p) \in SUBSET Points /\ layout \in Layouts
  BY ChunkOfItself DEF WriteChunk, IInv, TypeOK
<1>3. ObjectOf[p] \in NumStored(handle[h])
  BY <1>1, <1>2, InsideIsStored, MayBegin
<1>4. \A q \in ChunkOf(p) : ObjectOf[q] \in NumStored(handle[h])
  BY <1>2, <1>3, ChunkInObject
<1> QED
  BY <1>1, <1>2, <1>4, WriteBegins

LEMMA AppendKeepsIInv ==
  ASSUME IInv, UNCHANGED layout, NEW h \in Handles, Append(h)
  PROVE  IInv'
<1> DEFINE old == handle[h]
<1>1. PICK k \in Axes, v \in Values : \E n \in 1 .. MaxShape[k] - old[k] :
        LET shape == [old EXCEPT ![k] = @ + n]
            region == {p \in Points : Inside(p, shape) /\ ~Inside(p, old)}
        IN  Begin(h, "Append", shape, Meets(region), region, v)
  BY DEF Append
<1>2. PICK n \in 1 .. MaxShape[k] - old[k] :
        LET shape == [old EXCEPT ![k] = @ + n]
            region == {p \in Points : Inside(p, shape) /\ ~Inside(p, old)}
        IN  Begin(h, "Append", shape, Meets(region), region, v)
  BY <1>1
<1> DEFINE shape == [old EXCEPT ![k] = @ + n]
           region == {p \in Points : Inside(p, shape) /\ ~Inside(p, old)}
<1>3. Begin(h, "Append", shape, Meets(region), region, v)
  BY <1>2
<1>4. old \in Trusted /\ old \in Shapes
  BY MayBegin DEF Append
<1>5. shape \in Shapes /\ \A j \in Axes : old[j] <= shape[j]
  <2> HIDE DEF old
  <2>1. old \in [Axes -> Nat] /\ \A j \in Axes : old[j] <= MaxShape[j] /\ MaxShape[j] \in Nat
    BY <1>4, ShapesAre, GrowAssumption
  <2>2. shape \in [Axes -> Nat] /\ \A j \in Axes : old[j] <= shape[j] /\ shape[j] <= MaxShape[j]
    BY <2>1
  <2> QED
    BY <2>2, ShapesAre
<1>6. /\ \A p \in Points : Inside(p, old) => Inside(p, shape)
      /\ \A o \in NumStored(old) : o \in NumStored(shape)
  BY <1>4, <1>5, StoredGrows
<1>7. /\ region \in SUBSET Points /\ Meets(region) \in SUBSET Objects
      /\ \A p \in region : ObjectOf[p] \in Meets(region)
      /\ \A o \in Meets(region) : \E p \in Cell[o] : p \in region /\ ObjectOf[p] = o
  BY MeetsHas
<1>8. Meets(region) \subseteq NumStored(shape)
  BY <1>5, <1>7, InsideIsStored
<1>9. /\ job'.by = h /\ job'.region = region /\ job'.todo = Meets(region)
      /\ job'.shape = shape /\ job'.op = "Append" /\ handle'[h] = old
  BY <1>3 DEF Begin
<1>10. Scoped'
  BY <1>6, <1>7, <1>9 DEF Scoped, NumStored, Inside
<1>11. Progress'
  BY <1>7, <1>9 DEF Progress
<1> QED
  BY <1>3, <1>4, <1>5, <1>7, <1>8, <1>10, <1>11, BeginKeepsIInv

LEMMA ResizeKeepsIInv ==
  ASSUME IInv, UNCHANGED layout, NEW h \in Handles, Resize(h)
  PROVE  IInv'
<1> DEFINE old == handle[h]
<1>1. PICK shape \in Shapes :
        LET shrinks == \E k \in Axes : shape[k] < old[k]
            off == {p \in Points : Inside(p, old) /\ ~Inside(p, shape)}
        IN  Begin(h, "Resize", shape, IF shrinks THEN NumStored(old) ELSE {}, off, Fill)
  BY DEF Resize
<1> DEFINE shrinks == \E k \in Axes : shape[k] < old[k]
           off == {p \in Points : Inside(p, old) /\ ~Inside(p, shape)}
           todo == IF shrinks THEN NumStored(old) ELSE {}
<1>2. Begin(h, "Resize", shape, todo, off, Fill)
  BY <1>1
<1>3. old \in Trusted /\ old \in Shapes /\ Fill \in Values
  BY MayBegin, GrowAssumption DEF Resize
<1>4. ~shrinks => off = {} /\ \A o \in NumStored(old) : o \in NumStored(shape)
  <2> HIDE DEF old
  <2>1. \A k \in Axes : old[k] \in Nat /\ shape[k] \in Nat
    BY <1>3, ShapesAre
  <2>2. ASSUME ~shrinks PROVE \A k \in Axes : old[k] <= shape[k]
    BY <2>1, <2>2
  <2> QED
    BY <1>3, <2>2, StoredGrows
<1>5. todo \in SUBSET Objects /\ todo \subseteq NumStored(old) /\ off \in SUBSET Points
  BY DEF NumStored
<1>6. \A p \in off : ObjectOf[p] \in todo
  BY <1>3, <1>4, InsideIsStored
<1>7. /\ job'.by = h /\ job'.region = off /\ job'.todo = todo /\ UNCHANGED store
      /\ job'.shape = shape /\ job'.op = "Resize" /\ handle'[h] = old
  BY <1>2 DEF Begin
<1>8. Scoped'
  BY <1>7 DEF Scoped, NumStored, Inside
<1>9. Progress'
  BY <1>4, <1>6, <1>7 DEF Progress, NumStored
<1> QED
  BY <1>2, <1>3, <1>5, <1>6, <1>8, <1>9, BeginKeepsIInv

LEMMA NextKeepsIInv ==
  ASSUME ~WritesStale, IInv, [Next]_vars
  PROVE  IInv'
<1>1. CASE UNCHANGED vars
  <2>1. UNCHANGED <<layout, store, meta, handle, unsure, job, want>>
    BY <1>1 DEF vars
  <2>2. TypeOK'
    BY <2>1 DEF IInv, TypeOK, NumStored
  <2>3. AsPromised'
    BY <2>1, OthersStay DEF IInv, AsPromised
  <2>4. Scoped' = Scoped
    BY <2>1 DEF Scoped, NumStored, Inside
  <2>5. Progress' = Progress
    BY <2>1 DEF Progress, NumStored, Inside, Element, ReadStored
  <2>6. UnderWay'
    BY <2>1, <2>4, <2>5 DEF IInv, UnderWay
  <2>7. Trusted' = Trusted
    BY <2>1 DEF Trusted
  <2>8. ASSUME NEW s \in Trusted' PROVE Past(s)' /\ Held(s)'
    BY <2>1, <2>7 DEF IInv, Past, Held, NumStored, Inside
  <2> QED
    BY <2>2, <2>3, <2>6, <2>8 DEF IInv
<1>2. ASSUME NEW h \in Handles, UNCHANGED layout,
             Write(h) \/ WriteChunk(h) \/ Append(h) \/ Resize(h) \/ Refresh(h)
      PROVE  IInv'
  BY <1>2, WriteKeepsIInv, WriteChunkKeepsIInv, AppendKeepsIInv, ResizeKeepsIInv, RefreshKeepsIInv
<1>3. ASSUME NEW o \in Objects, UNCHANGED layout, DoObject(o) \/ ObjectFails(o)
      PROVE  IInv'
  BY <1>3, DoObjectKeepsIInv, ObjectFailsKeepsIInv
<1>4. CASE UNCHANGED layout /\ (EndWrite \/ EndReshape \/ MetadataFails)
  BY <1>4, EndWriteKeepsIInv, EndReshapeKeepsIInv, MetadataFailsKeepsIInv
<1> QED
  BY <1>1, <1>2, <1>3, <1>4 DEF Next

(* While a call is under way, what is in its shape and not in its region    *)
(* reads as it did.                                                         *)
LEMMA StepKeeps ==
  ASSUME IInv, Next, job # Idle, NEW p \in Points, Inside(p, job.shape), p \notin job.region
  PROVE  Element(p)' = Element(p)
<1>1. ObjectOf[p] \in Objects /\ p \in Cell[ObjectOf[p]]
  BY ObjectsAre
<1>2. ASSUME NEW o \in job.todo, store' = [store EXCEPT ![o] = Contents(o)]
      PROVE  Element(p)' = Element(p)
  <2>1. CASE ObjectOf[p] # o
    BY <1>2, <2>1, OthersStay
  <2>2. CASE ObjectOf[p] = o
    <3>1. store'[o] = Contents(o)
      BY <1>1, <1>2, <2>2 DEF IInv, TypeOK
    <3>2. Element(p)' = ReadsAs(store'[o], p)
      BY <1>1, <2>2 DEF Element, ReadStored, ReadsAs
    <3>3. ReadsAs(Contents(o), p) = Element(p)
      BY <1>1, <2>2, ContentsReads
    <3> QED
      BY <3>1, <3>2, <3>3
  <2> QED
    BY <2>1, <2>2
<1>3. \/ UNCHANGED store
      \/ \E o \in job.todo : store' = [store EXCEPT ![o] = Contents(o)]
  <2>1. ASSUME NEW h \in Handles, Write(h) \/ WriteChunk(h) \/ Append(h) \/ Resize(h) \/ Refresh(h)
        PROVE  UNCHANGED store
    <3>1. CASE Write(h)
      BY <3>1 DEF Write, Begin
    <3>2. CASE WriteChunk(h)
      BY <3>2 DEF WriteChunk, Begin
    <3>3. CASE Append(h)
      BY <3>3 DEF Append, Begin
    <3>4. CASE Resize(h)
      BY <3>4 DEF Resize, Begin
    <3>5. CASE Refresh(h)
      BY <3>5 DEF Refresh
    <3> QED
      BY <2>1, <3>1, <3>2, <3>3, <3>4, <3>5
  <2>2. ASSUME NEW o \in Objects, DoObject(o) \/ ObjectFails(o)
        PROVE  o \in job.todo /\ (UNCHANGED store \/ store' = [store EXCEPT ![o] = Contents(o)])
    <3>1. CASE DoObject(o)
      BY <3>1 DEF DoObject
    <3>2. CASE ObjectFails(o)
      BY <3>2 DEF ObjectFails
    <3> QED
      BY <2>2, <3>1, <3>2
  <2>3. CASE EndWrite \/ EndReshape \/ MetadataFails
    <3>1. CASE EndWrite
      BY <3>1 DEF EndWrite
    <3>2. CASE EndReshape
      BY <3>2 DEF EndReshape
    <3>3. CASE MetadataFails
      BY <3>3 DEF MetadataFails
    <3> QED
      BY <2>3, <3>1, <3>2, <3>3
  <2> QED
    BY <2>1, <2>2, <2>3 DEF Next
<1> QED
  BY <1>2, <1>3, OthersStay
-----------------------------------------------------------------------------
(* The call under way is one that the code makes, on stored objects of the  *)
(* array (array.go, resize.go), and stored objects hold values.             *)
THEOREM GrowTypeCorrect == ~WritesStale => (Spec => []TypeOK)
<1> SUFFICES ASSUME ~WritesStale PROVE Spec => []TypeOK
  OBVIOUS
<1>1. IInv /\ [Next]_vars => IInv'
  BY NextKeepsIInv
<1>2. IInv => TypeOK
  BY DEF IInv
<1> QED
  BY InitIInv, <1>1, <1>2, PTL DEF Spec

(* Of every element that something is promised of, what is stored is what   *)
(* is promised: what was last written to it, and fill past the end, which   *)
(* lets an array grow without a read (array.go: writeStored, fillPastEnd;   *)
(* resize.go: resizeStored), whatever calls fail between.                   *)
THEOREM StoredAsPromised == ~WritesStale => (Spec => []AsPromised)
<1> SUFFICES ASSUME ~WritesStale PROVE Spec => []AsPromised
  OBVIOUS
<1>1. IInv /\ [Next]_vars => IInv'
  BY NextKeepsIInv
<1>2. IInv => AsPromised
  BY DEF IInv
<1> QED
  BY InitIInv, <1>1, <1>2, PTL DEF Spec

(* Nothing is stored wholly past the end but what a failed call left there: *)
(* resizeStored deletes what an array that shrinks no longer has.           *)
THEOREM NothingPastTheEnd == ~WritesStale => (Spec => []ShrunkIsGone)
<1> SUFFICES ASSUME ~WritesStale PROVE Spec => []ShrunkIsGone
  OBVIOUS
<1>1. IInv /\ [Next]_vars => IInv'
  BY NextKeepsIInv
<1>2. IInv => ShrunkIsGone
  BY DEF IInv, Trusted, Held, ShrunkIsGone
<1> QED
  BY InitIInv, <1>1, <1>2, PTL DEF Spec

(* Until Append writes the metadata, what could be read of the array reads  *)
(* as it did: the stored objects it writes hold what they held.             *)
THEOREM AppendIsUnseen == ~WritesStale => (Spec => AppendUnseen)
<1> SUFFICES ASSUME ~WritesStale PROVE Spec => AppendUnseen
  OBVIOUS
<1> DEFINE Unseen ==
      job # Idle /\ job.op = "Append" =>
        \A p \in Points : Inside(p, meta) /\ Inside(p, handle[job.by]) => Element(p)' = Element(p)
<1>1. IInv /\ [Next]_vars => IInv'
  BY NextKeepsIInv
<1>2. IInv /\ [Next]_vars => [Unseen]_vars
  <2> SUFFICES ASSUME IInv, Next, job # Idle, job.op = "Append",
                      NEW p \in Points, Inside(p, handle[job.by])
               PROVE  Element(p)' = Element(p)
    OBVIOUS
  <2>1. Inside(p, job.shape) /\ p \notin job.region
    BY DEF IInv, UnderWay, Scoped
  <2> QED
    BY <2>1, StepKeeps
<1> QED
  BY InitIInv, <1>1, <1>2, PTL DEF Spec, AppendUnseen

(* A Write or WriteChunk changes no element of the array but those of its   *)
(* region, whatever other handles are on the array: patchShard and the read *)
(* before a write of a boundary keep what they do not write (array.go).     *)
THEOREM WritesKeepOthers == ~WritesStale => (Spec => WriteKeepsOthers)
<1> SUFFICES ASSUME ~WritesStale PROVE Spec => WriteKeepsOthers
  OBVIOUS
<1> DEFINE Keeps ==
      job # Idle /\ job.op \in {"Write", "WriteChunk"} =>
        \A p \in Points : Inside(p, meta) /\ p \notin job.region => Element(p)' = Element(p)
<1>1. IInv /\ [Next]_vars => IInv'
  BY NextKeepsIInv
<1>2. IInv /\ [Next]_vars => [Keeps]_vars
  <2> SUFFICES ASSUME IInv, Next, job # Idle, job.op \in {"Write", "WriteChunk"},
                      NEW p \in Points, Inside(p, meta), p \notin job.region
               PROVE  Element(p)' = Element(p)
    OBVIOUS
  <2>1. Inside(p, job.shape)
    BY DEF IInv, UnderWay, Scoped
  <2> QED
    BY <2>1, StepKeeps
<1> QED
  BY InitIInv, <1>1, <1>2, PTL DEF Spec, WriteKeepsOthers
=============================================================================
