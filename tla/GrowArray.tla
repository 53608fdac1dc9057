------------------------------ MODULE GrowArray ------------------------------
(***************************************************************************)
(* The shape of an array: Write, WriteChunk, Append, Resize and Refresh     *)
(* (array.go, resize.go) through several handles, each of which keeps the   *)
(* shape it last saw.  A stored object on the boundary reaches past the end *)
(* of the array, and what it holds there shows when the array grows.        *)
(*                                                                          *)
(* Resize and Append "may not run beside anything else on the same node"    *)
(* (doc.go), so one call runs at a time, its stored objects in any order;   *)
(* calls side by side are StoredWrites'.  A call may fail at any store call.*)
(*                                                                          *)
(* want is not in the code: it is what the documentation promises of each   *)
(* element, Any where it promises nothing.                                  *)
(***************************************************************************)
EXTENDS Integers

CONSTANTS Axes,              \* the dimensions of the array
          MaxShape,          \* bound: the largest shape
          Grid,              \* the shape of a stored object
          Layouts,           \* the layouts the array may be created with: the
                             \* shape of a chunk, which is Grid if not sharded,
                             \* patchesChunks, and Array.WriteEmptyChunks
          Handles,           \* the handles on the array
          NoHandle,
          Values, Fill,
          Any,               \* the promise of nothing
          Absent,            \* the stored object that is not there
          FirstShapes,       \* the shapes the array may be created with
          GrowsOverLeftovers,\* whether callers Resize over what an Append left
          WritesStale        \* whether callers Write through a stale handle

ASSUME GrowAssumption ==
  /\ Fill \in Values /\ Any \notin Values
  /\ NoHandle \notin Handles
  /\ MaxShape \in [Axes -> Nat] /\ Grid \in [Axes -> Nat \ {0}]
  /\ \A c \in Layouts :
       /\ {c.patchesChunks, c.writeEmptyChunks} \subseteq BOOLEAN
       /\ \A k \in Axes : c.chunk[k] \in Nat \ {0} /\ Grid[k] % c.chunk[k] = 0
  /\ {GrowsOverLeftovers, WritesStale} \subseteq BOOLEAN

Boxed(n) == {p \in [Axes -> UNION {0 .. n[k] : k \in Axes}] : \A k \in Axes : p[k] <= n[k]}
Shapes == Boxed(MaxShape)
Points == Boxed([k \in Axes |-> MaxShape[k] - 1])
Objects == {[k \in Axes |-> p[k] \div Grid[k]] : p \in Points}
Blocks == {{p \in Points : \A k \in Axes : s[k] <= p[k] /\ p[k] < e[k]} : s, e \in Shapes}

Inside(p, shape) == \A k \in Axes : p[k] < shape[k]
ObjectOf == [p \in Points |-> [k \in Axes |-> p[k] \div Grid[k]]]
Cell == [o \in Objects |-> {p \in Points : ObjectOf[p] = o}]

ASSUME StoredAssumption ==
  /\ FirstShapes \subseteq Shapes
  /\ \A o \in Objects : Absent \notin [Cell[o] -> Values]

VARIABLES layout,  \* the layout: fixed from the start
          store,   \* the stored objects
          meta,    \* the shape in the metadata document
          handle,  \* the shape each handle has
          unsure,  \* the handle whose write of the metadata just failed
          job,     \* the call under way
          want     \* what is promised of each element

vars == <<layout, store, meta, handle, unsure, job, want>>

ChunkOf(p) == {q \in Points : \A k \in Axes :
                 q[k] \div layout.chunk[k] = p[k] \div layout.chunk[k]}

Idle == [op |-> "idle"]

ReadStored(o) == IF store[o] = Absent THEN [p \in Cell[o] |-> Fill] ELSE store[o]

(* What Read returns of an element.                                         *)
Element(p) == ReadStored(ObjectOf[p])[p]

Init ==
  /\ layout \in Layouts
  /\ store = [o \in Objects |-> Absent]
  /\ meta \in FirstShapes
  /\ handle = [h \in Handles |-> meta]
  /\ unsure = NoHandle
  /\ job = Idle
  /\ want = [p \in Points |-> Fill]
-----------------------------------------------------------------------------
(* numStored: the stored objects of an array of a shape.                    *)
NumStored(shape) == {o \in Objects : \A k \in Axes : o[k] * Grid[k] < shape[k]}

TypeOK ==
  /\ layout \in Layouts
  /\ \A o \in Objects : store[o] \in [Cell[o] -> Values] \cup {Absent}
  /\ DOMAIN store = Objects
  /\ meta \in Shapes
  /\ handle \in [Handles -> Shapes]
  /\ unsure \in Handles \cup {NoHandle}
  /\ want \in [Points -> Values \cup {Any}]
  /\ job # Idle =>
       /\ job.by \in Handles /\ job.shape \in Shapes
       /\ job.todo \subseteq NumStored(IF job.op = "Append" THEN job.shape ELSE handle[job.by])

(* writeStored: a stored object that is all fill is deleted.                *)
Written(b) ==
  IF ~layout.writeEmptyChunks /\ \A p \in DOMAIN b : b[p] = Fill THEN Absent ELSE b

(* fillPastEnd, fillPast: b with fill for what of part is past the end.     *)
FilledPast(b, part, shape) ==
  [p \in DOMAIN b |-> IF p \in part /\ ~Inside(p, shape) THEN Fill ELSE b[p]]

(* overlap: whether a region is all of a stored object that is in the array.*)
Whole(o, region, shape) == {p \in Cell[o] : Inside(p, shape)} \subseteq region

(* Mutant: the part past the end is written as it was read.                 *)
KeepPast(o) ==
  Written([p \in Cell[o] |-> IF p \in job.region THEN job.val ELSE ReadStored(o)[p]])

(* Mutant: only what is in the array is encoded.                            *)
PatchedShort(o) ==
  [p \in {q \in Cell[o] : Inside(q, job.shape)} |->
     IF p \in job.region THEN job.val ELSE ReadStored(o)[p]]

(* Mutant: a stored object on the boundary is not read.                     *)
LoseOld(o) ==
  Written([p \in Cell[o] |-> IF p \in job.region THEN job.val ELSE Fill])

(* The stored object as Write and WriteChunk leave it: patchShard rewrites  *)
(* the chunks that are written, and any other way the whole of it is.       *)
Patched(o) ==
  LET byChunk == layout.patchesChunks /\ (job.op = "WriteChunk" \/ ~Whole(o, job.region, job.shape))
      part == IF byChunk THEN {p \in Cell[o] : ChunkOf(p) \cap job.region # {}} ELSE Cell[o]
      new == [p \in Cell[o] |-> IF p \in job.region THEN job.val ELSE ReadStored(o)[p]]
  IN  Written(FilledPast(new, part, job.shape))

Gone(o) == \E k \in Axes : o[k] * Grid[k] >= job.shape[k]
Cut(o) == \E k \in Axes :
            /\ (o[k] + 1) * Grid[k] > job.shape[k]
            /\ job.shape[k] < handle[job.by][k]

(* Mutant: a stored object that is gone is refilled, as one that is cut.    *)
GoneAsCut(o) ==
  IF Cut(o) THEN Written(FilledPast(ReadStored(o), Cell[o], job.shape)) ELSE store[o]

(* The stored object as resizeStored leaves it.                             *)
Resized(o) ==
  IF Gone(o) THEN Absent
  ELSE IF Cut(o) THEN Written(FilledPast(ReadStored(o), Cell[o], job.shape))
  ELSE store[o]
-----------------------------------------------------------------------------
(* The handles callers use: one that has the shape of the metadata, or one  *)
(* on which they do again what failed and may have written the metadata.    *)
Current(h) == handle[h] = meta
Retry(h) == unsure = h

(* A call begins: until it ends nothing is promised of what it changes.     *)
Begin(h, op, shape, todo, changes, v) ==
  /\ job = Idle
  /\ job' = [op |-> op, by |-> h, shape |-> shape, todo |-> todo, region |-> changes, val |-> v]
  /\ want' = [p \in Points |-> IF p \in changes THEN Any ELSE want[p]]
  /\ unsure' = IF unsure = h THEN h ELSE NoHandle
  /\ UNCHANGED <<store, meta, handle>>

Meets(region) == {o \in Objects : Cell[o] \cap region # {}}

Write(h) ==
  /\ Current(h) \/ WritesStale
  /\ \E region \in Blocks \ {{}}, v \in Values :
       /\ \A p \in region : Inside(p, handle[h])
       /\ Begin(h, "Write", handle[h], Meets(region), region, v)

(* The data of WriteChunk covers the chunk, past the end as well.           *)
WriteChunk(h) ==
  /\ Current(h) \/ WritesStale
  /\ \E p \in Points, v \in Values :
       /\ Inside(p, handle[h])
       /\ Begin(h, "WriteChunk", handle[h], Meets(ChunkOf(p)), ChunkOf(p), v)

(* An array with nothing across the axis takes no Append.                   *)
Append(h) ==
  /\ Current(h) \/ Retry(h)
  /\ \E k \in Axes, v \in Values : \E n \in 1 .. MaxShape[k] - handle[h][k] :
       LET shape == [handle[h] EXCEPT ![k] = @ + n]
           region == {p \in Points : Inside(p, shape) /\ ~Inside(p, handle[h])}
       IN  region # {} /\ Begin(h, "Append", shape, Meets(region), region, v)

(* What is cut off is to be fill; only an array that shrinks has its stored *)
(* objects looked at.                                                       *)
Resize(h) ==
  /\ Current(h) \/ Retry(h)
  /\ \E shape \in Shapes :
       LET old == handle[h]
           shrinks == \E k \in Axes : shape[k] < old[k]
           off == {p \in Points : Inside(p, old) /\ ~Inside(p, shape)}
       IN  /\ GrowsOverLeftovers \/
                \A p \in Points : Inside(p, shape) /\ want[p] = Any => Inside(p, old)
           /\ Begin(h, "Resize", shape, IF shrinks THEN NumStored(old) ELSE {}, off, Fill)

Refresh(h) ==
  /\ job = Idle
  /\ handle' = [handle EXCEPT ![h] = meta]
  /\ unsure' = IF unsure = h THEN NoHandle ELSE unsure
  /\ UNCHANGED <<store, meta, job, want>>

Contents(o) == IF job.op = "Resize" THEN Resized(o) ELSE Patched(o)

(* A stored object of the call: they are done in any order.                 *)
DoObject(o) ==
  /\ job # Idle /\ o \in job.todo
  /\ store' = [store EXCEPT ![o] = Contents(o)]
  /\ job' = [job EXCEPT !.todo = @ \ {o}]
  /\ UNCHANGED <<meta, handle, unsure, want>>

(* The call ends there with an error, which says nothing of that object.    *)
ObjectFails(o) ==
  /\ job # Idle /\ o \in job.todo
  /\ \/ UNCHANGED store
     \/ store' = [store EXCEPT ![o] = Contents(o)]
  /\ job' = Idle
  /\ UNCHANGED <<meta, handle, unsure, want>>

AllDone == job # Idle /\ job.todo = {}
Promise ==
  want' = [p \in Points |-> IF p \notin job.region THEN want[p]
                            ELSE IF Inside(p, job.shape) THEN job.val ELSE Fill]

EndWrite ==
  /\ AllDone /\ job.op \in {"Write", "WriteChunk"}
  /\ Promise
  /\ job' = Idle
  /\ UNCHANGED <<store, meta, handle, unsure>>

(* Append and Resize write the metadata last.                               *)
EndReshape ==
  /\ AllDone /\ job.op \in {"Append", "Resize"}
  /\ Promise
  /\ meta' = job.shape
  /\ handle' = [handle EXCEPT ![job.by] = job.shape]
  /\ unsure' = NoHandle
  /\ job' = Idle
  /\ UNCHANGED store

MetadataFails ==
  /\ AllDone /\ job.op \in {"Append", "Resize"}
  /\ meta' \in {meta, job.shape}
  /\ unsure' = job.by
  /\ job' = Idle
  /\ UNCHANGED <<store, handle, want>>

Next ==
  /\ UNCHANGED layout
  /\ \/ \E h \in Handles : Write(h) \/ WriteChunk(h) \/ Append(h) \/ Resize(h) \/ Refresh(h)
     \/ \E o \in Objects : DoObject(o) \/ ObjectFails(o)
     \/ EndWrite
     \/ EndReshape
     \/ MetadataFails

Spec == Init /\ [][Next]_vars
-----------------------------------------------------------------------------
(* What is promised of an element is what is stored: what was last written  *)
(* to it, and fill past the end, "which is what lets an array grow without  *)
(* reading one" (array.go:432-433).                                         *)
AsPromised == \A p \in Points : want[p] # Any => Element(p) = want[p]

(* An Append writes stored objects that hold elements of the array, but     *)
(* "nothing of data can be read" before it has written the metadata         *)
(* (resize.go:166-167).                                                     *)
AppendUnseen ==
  [][job # Idle /\ job.op = "Append" =>
       \A p \in Points : Inside(p, meta) /\ Inside(p, handle[job.by]) =>
          Element(p)' = Element(p)]_vars

(* Nothing is stored wholly past the end, but what an Append left.          *)
ShrunkIsGone ==
  job = Idle =>
    \A o \in Objects : store[o] # Absent =>
      \/ o \in NumStored(meta)
      \/ \E p \in Cell[o] : want[p] = Any

(* "Growing writes nothing but the metadata: what is past the old end reads *)
(* as the fill value" (resize.go:62-63).                                    *)
GrowthReadsFill ==
  [][job # Idle /\ job.op = "Resize" =>
       \A p \in Points : ~Inside(p, meta) /\ Inside(p, meta)' => Element(p)' = Fill]_vars

(* A Write changes no element but those of its region, "through one handle  *)
(* on the array or several" (array.go:817-819).                             *)
WriteKeepsOthers ==
  [][job # Idle /\ job.op \in {"Write", "WriteChunk"} =>
       \A p \in Points : Inside(p, meta) /\ p \notin job.region =>
          Element(p)' = Element(p)]_vars
=============================================================================
