-------------------------------- MODULE Nodes --------------------------------
(***************************************************************************)
(* The nodes of a hierarchy in a store: creating, opening, listing and      *)
(* deleting them (array.go, group.go, metadata.go, v2.go, delete.go), and   *)
(* how each store lists its keys (store.go, s3, gcs, azblob).               *)
(*                                                                          *)
(* A key is a path, the names from the root, and the name of what is under  *)
(* it: metadata, "c/..." for a chunk, or "/" for the marker of a directory   *)
(* that a console makes.  Callers make the calls of a plan, one store call  *)
(* a step, any of which may fail.                                           *)
(***************************************************************************)
EXTENDS Naturals, Sequences, FiniteSets

CONSTANTS Callers,   \* who call
          Trees,     \* bound: what is stored at first, and who calls what
          KeyOrder,  \* every key there may be, as a store lists them
          PageSize,  \* of a listing in a bucket
          Batch      \* how many keys a delete lists at a time

VARIABLES
  tree,    \* the kind of the store, the version of its groups, and the calls
  held,    \* the keys the store has, and what is under each
  dirs,    \* the directories of a DirStore, which stay
  call,    \* what each caller is at
  wrote,   \* history: the chunks of each array that was created
  since    \* history: the nodes there were, at times and all the time, since each call began

nodeVars == <<tree, held, dirs, call, wrote, since>>

Metadata == {"zarr.json", ".zarray", ".zgroup", ".zattrs"}
AllKeys == {KeyOrder[i] : i \in DOMAIN KeyOrder}
Chunks(p) == {k \in AllKeys : k[1] = p /\ k[2] \notin Metadata \cup {"/"}}
IsPrefix(p, q) == Len(p) <= Len(q) /\ SubSeq(q, 1, Len(p)) = p
Paths == {k[1] : k \in AllKeys}

Calls ==
  [do : {"create-array", "create-group", "open-array", "open-group", "write", "attributes",
         "children", "open-arrays", "delete"},
   path : Seq(STRING)]

(* What is written to is a node that is under a key there may be, and what  *)
(* is called through a handle is of the path of the call it was made by.    *)
ASSUME NodesAssumption ==
  /\ PageSize \in Nat \ {0} /\ Batch \in Nat \ {0}
  /\ KeyOrder \in Seq(Seq(STRING) \X STRING) \ {<<>>}
  /\ \A t \in Trees :
       /\ t \in [kind : {"memory", "dir", "s3", "gcs", "azblob"}, format : {2, 3},
                 held : UNION {[K -> {"array", "group", "data"}] : K \in SUBSET AllKeys},
                 calls : [Callers -> Seq(Calls)], fails : Nat]
       /\ \A c \in Callers : \A n \in DOMAIN t.calls[c] :
            LET o == t.calls[c][n]
            IN  /\ o.do \in {"create-array", "create-group", "attributes"} => <<o.path, "zarr.json">> \in AllKeys
                /\ o.do \in {"write", "attributes"} /\ n > 1 => o.path = t.calls[c][n - 1].path

(* What is at a path: of version 3 if it has a zarr.json, or of version 2.  *)
NodeAt(h, p) ==
  IF <<p, "zarr.json">> \in DOMAIN h THEN h[<<p, "zarr.json">>]
  ELSE IF <<p, ".zarray">> \in DOMAIN h THEN "array2"
  ELSE IF <<p, ".zgroup">> \in DOMAIN h THEN "group2" ELSE "none"
NodesOf(h) == {<<p, NodeAt(h, p)>> : p \in Paths}
Arrays == {"array", "array2"}
Groups == {"group", "group2"}

Idle == [at |-> "idle", n |-> 0, pos |-> 1, todo |-> {}, found |-> {},
         handle |-> "none", result |-> "none"]
NoTree == [kind |-> "memory", format |-> 3, held |-> <<>>, calls |-> [c \in Callers |-> <<>>], fails |-> 0]

InitNodes ==
  /\ tree \in Trees \cup {NoTree}
  /\ held = tree.held /\ dirs = {k[1] : k \in DOMAIN tree.held}
  /\ call = [c \in Callers |-> Idle]
  /\ wrote = {k \in DOMAIN tree.held : k[2] \notin Metadata \cup {"/"}}
  /\ since = [c \in Callers |-> [ever |-> {}, always |-> {}]]
-----------------------------------------------------------------------------
Op(c) == tree.calls[c][call[c].n]
At(c, pc) == call[c].at = pc
Goto(c, pc) == call' = [call EXCEPT ![c].at = pc]
Ends(c, result) == call' = [call EXCEPT ![c].at = "idle", ![c].result = result]
Has(p, name) == <<p, name>> \in DOMAIN held

(* A Set or a Delete of the store.                                          *)
Becomes(h) ==
  /\ held' = h
  /\ dirs' = dirs \cup {k[1] : k \in DOMAIN h}
  /\ since' = [c \in Callers |-> IF call[c].at = "idle" THEN since[c]
                                ELSE [ever |-> since[c].ever \cup NodesOf(h),
                                      always |-> since[c].always \cap NodesOf(h)]]
With(k, v) == [x \in DOMAIN held \cup {k} |-> IF x = k THEN v ELSE held[x]]
Without(k) == [x \in DOMAIN held \ {k} |-> held[x]]
StoreStays == UNCHANGED <<tree, held, dirs, wrote, since>>

First(do) == CASE do \in {"create-array", "create-group"} -> "new"
               [] do \in {"open-array", "open-group"} -> "zarr.json"
               [] do = "delete" -> "delete-zarr.json"
               [] do \in {"children", "open-arrays"} -> "list"
               [] OTHER -> do
Begin(c) ==
  /\ At(c, "idle") /\ call[c].n < Len(tree.calls[c])
  /\ LET n == call[c].n + 1
     IN  /\ tree.calls[c][n].do \in {"write", "attributes"} => call[c].result \in Arrays \cup Groups
         /\ call' = [call EXCEPT ![c] = [Idle EXCEPT !.at = First(tree.calls[c][n].do), !.n = n,
                                                     !.handle = call[c].result]]
  /\ since' = [since EXCEPT ![c] = [ever |-> NodesOf(held), always |-> NodesOf(held)]]
  /\ UNCHANGED <<tree, held, dirs, wrote>>

Fail(c) ==
  /\ ~At(c, "idle") /\ tree.fails > 0
  /\ Ends(c, "error")
  /\ tree' = [tree EXCEPT !.fails = @ - 1]
  /\ UNCHANGED <<held, dirs, wrote, since>>
-----------------------------------------------------------------------------
(* CreateArray and CreateGroup.  Groups of version 2 are not written.       *)
WritableGroup == tree.format = 3

(* Mutant: nobody looks. *)
MustBeNewUnseen(c) ==
  /\ At(c, "new")
  /\ Goto(c, IF WritableGroup THEN "create" ELSE "idle")
  /\ StoreStays

MustBeNew(c) ==
  /\ At(c, "new")
  /\ IF ~WritableGroup THEN Ends(c, "refused")
     ELSE IF Has(Op(c).path, "zarr.json") THEN Ends(c, "exists") ELSE Goto(c, "create")
  /\ StoreStays

CreateArray(c) ==
  /\ Op(c).do = "create-array"
  /\ Becomes(With(<<Op(c).path, "zarr.json">>, "array"))
  /\ wrote' = wrote \ Chunks(Op(c).path)

CreateGroup(c) ==
  /\ Op(c).do = "create-group"
  /\ Becomes(With(<<Op(c).path, "zarr.json">>, "group"))
  /\ wrote' = wrote \ Chunks(Op(c).path)

Create(c) ==
  /\ At(c, "create") /\ (CreateArray(c) \/ CreateGroup(c))
  /\ Ends(c, IF Op(c).do = "create-array" THEN "array" ELSE "group")
  /\ UNCHANGED tree

(* WriteChunk and SetAttributes, through a handle that was made by the call *)
(* before: of version 3, or they are refused.                               *)
WriteChunk(c) ==
  /\ At(c, "write") /\ call[c].handle = "array"
  /\ \E k \in Chunks(Op(c).path) :
       /\ Becomes(With(k, "data"))
       /\ wrote' = wrote \cup {k}
  /\ Ends(c, "ok")
  /\ UNCHANGED tree
SetAttributes(c) ==
  /\ At(c, "attributes") /\ call[c].handle \in {"array", "group"}
  /\ Becomes(With(<<Op(c).path, "zarr.json">>, call[c].handle))
  /\ Ends(c, "ok")
  /\ UNCHANGED <<tree, wrote>>

ReadOnly2(c) ==
  /\ At(c, "write") \/ At(c, "attributes")
  /\ call[c].handle \in {"array2", "group2"}
  /\ Ends(c, "refused")
  /\ StoreStays
-----------------------------------------------------------------------------
(* OpenArray and OpenGroup: the zarr.json, or what version 2 has.           *)
Wanted(c) == IF Op(c).do = "open-array" THEN "array" ELSE "group"

ReadMetadata(c) ==
  /\ At(c, "zarr.json")
  /\ IF ~Has(Op(c).path, "zarr.json") THEN Goto(c, "v2")
     ELSE Ends(c, IF held[<<Op(c).path, "zarr.json">>] = Wanted(c) THEN Wanted(c) ELSE "refused")
  /\ StoreStays

(* readV2, of its own metadata and then of the other's, to say what it is.  *)
KeyV2(node) == IF node = "array" THEN ".zarray" ELSE ".zgroup"
ReadV2(c) ==
  /\ At(c, "v2")
  /\ Goto(c, IF Has(Op(c).path, KeyV2(Wanted(c))) THEN ".zattrs" ELSE "other")
  /\ StoreStays
ReadOther(c) ==
  /\ At(c, "other")
  /\ Ends(c, IF Has(Op(c).path, KeyV2(IF Wanted(c) = "array" THEN "group" ELSE "array"))
             THEN "refused" ELSE "notfound")
  /\ StoreStays
(* readAttributesV2, which need not be there.                               *)
ReadAttributesV2(c) ==
  /\ At(c, ".zattrs")
  /\ Ends(c, IF Wanted(c) = "array" THEN "array2" ELSE "group2")
  /\ StoreStays
-----------------------------------------------------------------------------
(* How far a store lists at a time, from the key at i: in memory all there  *)
(* is, in a directory all that is in it, and in a bucket a page.            *)
MemoryList(i) == Len(KeyOrder)
DirList(i) == CHOOSE j \in i .. Len(KeyOrder) :
  /\ \A m \in i .. j : KeyOrder[m][1] = KeyOrder[i][1]
  /\ j = Len(KeyOrder) \/ KeyOrder[j + 1][1] # KeyOrder[i][1]
Page(i) == IF i + PageSize - 1 > Len(KeyOrder) THEN Len(KeyOrder) ELSE i + PageSize - 1
S3Pages(i) == Page(i)
GCSObjects(i) == Page(i)
AzurePages(i) == Page(i)
ListedTo(i) == CASE tree.kind = "memory" -> MemoryList(i)
                 [] tree.kind = "dir" -> DirList(i)
                 [] tree.kind = "s3" -> S3Pages(i)
                 [] tree.kind = "gcs" -> GCSObjects(i)
                 [] tree.kind = "azblob" -> AzurePages(i)

Listing(c) == {KeyOrder[m] : m \in call[c].pos .. ListedTo(call[c].pos)}
Listed(c, gives, next) ==
  call' = [call EXCEPT ![c].todo = @ \cup gives, ![c].pos = ListedTo(@) + 1,
                       ![c].at = IF ListedTo(call[c].pos) = Len(KeyOrder) THEN next ELSE @]

(* ListDir, one level under the group: a name for the keys there are under  *)
(* it, a marker among them, or, in a DirStore, for a directory that may be  *)
(* empty.  What is in the group itself is no name of a node.                *)
NamesIn(keys, p) ==
  {k[1][Len(p) + 1] : k \in {x \in keys : IsPrefix(p, x[1]) /\ Len(x[1]) > Len(p)}}
DirNames(p) == {d[Len(p) + 1] : d \in {x \in dirs : IsPrefix(p, x) /\ Len(x) > Len(p)}}
ListDir(c) ==
  /\ At(c, "list")
  /\ IF tree.kind = "dir"
     THEN call' = [call EXCEPT ![c].todo = DirNames(Op(c).path), ![c].at = "children"]
     ELSE Listed(c, NamesIn(Listing(c) \cap DOMAIN held, Op(c).path), "children")
  /\ StoreStays

(* Mutant: every name is a child. *)
ChildByName(c) ==
  /\ At(c, "children") /\ tree.format = 3
  /\ \E name \in call[c].todo :
       call' = [call EXCEPT ![c].todo = @ \ {name}, ![c].found = @ \cup {<<Append(Op(c).path, name), "group">>}]
  /\ StoreStays

(* Children: the metadata of each name, in any order.  One without is none. *)
Child(c) ==
  /\ At(c, "children")
  /\ \E name \in call[c].todo :
       LET p == Append(Op(c).path, name)
       IN  call' = [call EXCEPT
             ![c].todo = @ \ {name},
             ![c].found = @ \cup (IF Has(p, "zarr.json") THEN {<<p, held[<<p, "zarr.json">>]>>} ELSE {})]
  /\ tree.format = 3
  /\ StoreStays

V2Child(c) ==
  /\ At(c, "children") /\ tree.format = 2
  /\ \E name \in call[c].todo :
       LET p == Append(Op(c).path, name)
       IN  call' = [call EXCEPT
             ![c].todo = @ \ {name},
             ![c].found = @ \cup (IF Has(p, ".zarray") THEN {<<p, "array2">>}
                                  ELSE IF Has(p, ".zgroup") THEN {<<p, "group2">>} ELSE {})]
  /\ StoreStays

Children(c) ==
  /\ At(c, "children") /\ call[c].todo = {} /\ Op(c).do = "children"
  /\ Ends(c, "ok")
  /\ StoreStays
OpenArrays(c) ==
  /\ At(c, "children") /\ call[c].todo = {} /\ Op(c).do = "open-arrays"
  /\ call' = [call EXCEPT ![c].at = "idle", ![c].result = "ok",
                          ![c].found = {n \in @ : n[2] \in Arrays}]
  /\ StoreStays
-----------------------------------------------------------------------------
(* Delete: the metadata first, and then what is listed under the path, a    *)
(* batch at a time, until there is less than a batch.                       *)
DeleteKey(c, at, name, next) ==
  /\ At(c, at)
  /\ Becomes(Without(<<Op(c).path, name>>))
  /\ Goto(c, next)
  /\ UNCHANGED <<tree, wrote>>
(* Mutant: the metadata goes with the rest. *)
DeleteMetadataLater(c) == At(c, "delete-zarr.json") /\ Goto(c, "list-keys") /\ StoreStays

DeleteMetadata(c) ==
  \/ DeleteKey(c, "delete-zarr.json", "zarr.json", "delete-.zarray")
  \/ DeleteKey(c, "delete-.zarray", ".zarray", "delete-.zgroup")
  \/ DeleteKey(c, "delete-.zgroup", ".zgroup", "list-keys")

(* Mutant: all there is at once. *)
ListAll(c) ==
  LET under == {k \in Listing(c) \cap DOMAIN held : IsPrefix(Op(c).path, k[1]) /\ k[2] # "/"}
  IN  At(c, "list-keys") /\ Listed(c, under, "delete-keys") /\ StoreStays

(* List: the keys under the path, of which a marker is none.                *)
List(c) ==
  LET under == {k \in Listing(c) \cap DOMAIN held : IsPrefix(Op(c).path, k[1]) /\ k[2] # "/"}
      most == Batch - Cardinality(call[c].todo)
  IN  /\ At(c, "list-keys")
      /\ IF Cardinality(under) < most THEN Listed(c, under, "delete-keys")
         ELSE \E some \in {s \in SUBSET under : Cardinality(s) = most} :
                call' = [call EXCEPT ![c].todo = @ \cup some, ![c].at = "delete-batch"]
      /\ StoreStays

DeleteListed(c) ==
  /\ At(c, "delete-keys") \/ At(c, "delete-batch")
  /\ \E k \in call[c].todo :
       /\ Becomes(Without(k))
       /\ call' = [call EXCEPT ![c].todo = @ \ {k}]
  /\ UNCHANGED <<tree, wrote>>
DeletePrefix(c) ==
  /\ call[c].todo = {}
  /\ \/ At(c, "delete-keys") /\ Ends(c, "ok")
     \/ At(c, "delete-batch") /\ call' = [call EXCEPT ![c].at = "list-keys", ![c].pos = 1]
  /\ StoreStays
-----------------------------------------------------------------------------
NodeNext ==
  \E c \in Callers :
    \/ Begin(c) \/ Fail(c)
    \/ MustBeNew(c) \/ Create(c) \/ WriteChunk(c) \/ SetAttributes(c) \/ ReadOnly2(c)
    \/ ReadMetadata(c) \/ ReadV2(c) \/ ReadOther(c) \/ ReadAttributesV2(c)
    \/ ListDir(c) \/ Child(c) \/ V2Child(c) \/ Children(c) \/ OpenArrays(c)
    \/ DeleteMetadata(c) \/ List(c) \/ DeleteListed(c) \/ DeletePrefix(c)
=============================================================================
