------------------------------- MODULE Stores -------------------------------
(***************************************************************************)
(* A key of each kind of store (module Objects), and the nodes of a         *)
(* hierarchy in one (module Nodes), which takes its calls to be what the    *)
(* first shows them to be: of whole values, at some time while they last.   *)
(***************************************************************************)
EXTENDS Objects, Nodes

vars == <<objectVars, nodeVars>>

Init == InitObject /\ InitNodes /\ (setup = NoSetup \/ tree = NoTree)

Next ==
  \/ ObjectNext /\ UNCHANGED nodeVars
  \/ NodeNext /\ UNCHANGED objectVars

Spec == Init /\ [][Next]_vars
-----------------------------------------------------------------------------
(* The type of the state.  A delete never holds more than a batch of keys   *)
(* (delete.go:36-65).                                                       *)
TypeOK ==
  /\ setup \in Setups \cup {NoSetup}
  /\ put.pc \in {"idle", "set", "write", "delete"} /\ put.n \in 0 .. Len(setup.puts)
  /\ get.pc \in {"idle", "ask", "read", "range"}
  /\ answer # None => answer.is \in {"bytes", "notfound", "outside", "toolarge", "error"}
  /\ DOMAIN held \subseteq AllKeys /\ dirs \subseteq Paths /\ wrote \subseteq AllKeys
  /\ \A c \in Callers :
       /\ call[c].n \in 0 .. Len(tree.calls[c]) /\ call[c].pos \in 1 .. Len(KeyOrder) + 1
       /\ call[c].at \in {"list-keys", "delete-keys", "delete-batch"} => Cardinality(call[c].todo) <= Batch

(* What a store may answer, of the values there were: what was asked, in    *)
(* full and of one of them; or why not, where there is a reason.            *)
Inside(v, ask) ==
  ask.whole \/ (ask.length >= 0 /\ Start(Len(v), ask) \in 0 .. Len(v) - ask.length)
Never(ask) ==
  ~ask.whole /\ (ask.length < 0 \/ ask.offset + ask.length > IF ask.offset < 0 THEN 0 ELSE MaxInt)
Answers(values, q) ==
  LET there == values \ {None}
  IN  {Bytes(IF q.ask.whole THEN v ELSE Cut(v, q.ask)) : v \in {w \in there : Inside(w, q.ask)}}
      \cup {Refused(why) : why \in
             {"notfound", "outside", "toolarge", "error"} \
             ((IF None \in values THEN {} ELSE {"notfound"})
              \cup (IF Never(q.ask) \/ q.server # "ranges" \/ \E v \in there : ~Inside(v, q.ask)
                    THEN {} ELSE {"outside"})
              \cup (IF q.cap > 0 THEN {} ELSE {"toolarge"})
              \cup (IF q.server # "ranges" \/ (q.kind = "azblob" /\ \E v, w \in values : v # w)
                    THEN {} ELSE {"error"}))}

(* What may be asked of what is put: no int64 is too short for the end of a *)
(* range (span, store.go:103), and whoever answers the requests of a bucket *)
(* with a whole value has it longer than any range, as the clients tell a   *)
(* range by its length alone.                                               *)
RangesFit ==
  \A s \in Setups, ask \in Ranges : \A n \in DOMAIN s.puts :
    /\ s.kind \in {"memory", "dir"} => ask.length + s.puts[n] <= MaxInt
    /\ s.kind \in {"s3", "gcs", "azblob"} =>
         \/ s.server = "ranges"
         \/ s.server = "ignores" /\ s.puts[n] \notin 0 .. Want(ask)

PutOf(s) == {ValueOf(n, s.puts[n]) : n \in {m \in DOMAIN s.puts : s.puts[m] # Removed}}
PutValues == UNION {PutOf(s) : s \in Setups}
AskOf(s, ask) == [ask |-> ask, kind |-> s.kind, server |-> s.server, cap |-> s.cap]
Asks == UNION {{AskOf(s, ask) : ask \in Asked(s.kind)} : s \in Setups}

(* Each store keeps a key as a store promises, its Set and its reads being  *)
(* of several steps or not: a reader never sees half a value (store.go:389, *)
(* s3/store.go:130, gcs/store.go:137), nor bytes of two, nor others than it *)
(* asked for, whatever range a server answers with (http.go:154-159); and   *)
(* an error has a cause.                                                    *)
Key == INSTANCE KeyStore WITH
  Value <- PutValues \cup {None}, Ask <- Asks, NoAsk <- None, Answers <- Answers,
  value <- stored, seen <- seen, answer <- answer,
  asked <- IF get.pc = "idle" THEN None ELSE AskOf(setup, get.ask)
StoresKeepKeys == Key!Spec
-----------------------------------------------------------------------------
(* An array that can be opened has every chunk that was written to it: a    *)
(* Delete that fails part way "leaves keys that nothing opens rather than   *)
(* an array whose chunks are gone and which reads as the fill value"        *)
(* (delete.go:8-17).                                                        *)
ArraysKeepTheirChunks ==
  \A k \in wrote : NodeAt(held, k[1]) \in Arrays => k \in DOMAIN held

(* As long as what is deleted is a node with none under it, that only who   *)
(* deletes it creates as an array or sets attributes of: a Delete of a      *)
(* group comes to the chunks of an array in it before its metadata.         *)
Apart(t) ==
  \A c \in Callers : \A n \in DOMAIN t.calls[c] :
    LET p == t.calls[c][n].path
    IN  t.calls[c][n].do = "delete" =>
          /\ \A k \in AllKeys : IsPrefix(p, k[1]) => k[1] = p
          /\ \A d \in Callers \ {c} : \A m \in DOMAIN t.calls[d] :
               t.calls[d][m].do \in {"create-array", "attributes"} => t.calls[d][m].path # p
DeletesApart == \A t \in Trees : Apart(t)

(* A create does not replace a node of version 3 that was there before it   *)
(* began and all the while, though it looks and writes in two calls of the  *)
(* store (metadata.go:479-492).                                             *)
CreateOver(types) ==
  \E c \in Callers, type \in types :
    /\ At(c, "create") /\ call'[c].result \in {"array", "group"}
    /\ <<Op(c).path, type>> \in since[c].always
CreateKeepsVersion3 == [][~CreateOver({"array", "group"})]_vars

(* Nor one of version 2, says what is written of it: the path "must not     *)
(* hold a node already" (group.go:19-20, array.go:70, metadata.go:479), and *)
(* a node is opened from either version's metadata (group.go:36-37).  But   *)
(* mustBeNew looks for a zarr.json only, so in ReplacedTree of MCStores it  *)
(* is not so, and no run lists it.                                          *)
CreateKeepsVersion2 == [][~CreateOver({"array2", "group2"})]_vars

(* As long as what is there at first is of one kind: no path is an array    *)
(* and a group of version 2, of which an open sees what it wants and a      *)
(* listing the array, and none of a group of version 2 is of both versions, *)
(* of which an open sees the third and a listing the second (v2.go:33-102,  *)
(* 292-308).  Nothing here writes version 2.                                *)
NoV2(h, p) == <<p, ".zarray">> \notin DOMAIN h /\ <<p, ".zgroup">> \notin DOMAIN h
OneKind(h, format) ==
  \A p \in Paths :
    /\ <<p, ".zarray">> \in DOMAIN h => <<p, ".zgroup">> \notin DOMAIN h
    /\ format = 2 /\ <<p, "zarr.json">> \in DOMAIN h => NoV2(h, p)
TreesOfOneKind == \A t \in Trees : OneKind(t.held, t.format)

(* What a call says of a node it opened, or of the children of a group, was *)
(* so at some time while it lasted, and it leaves out no node that was      *)
(* there all the while: names without metadata, a directory that is empty   *)
(* and a marker are no children (group.go:100-247, v2.go:33-102, 292-308).  *)
InGroup(p, q) == Len(q) = Len(p) + 1 /\ IsPrefix(p, q)
OfFormat(type) == type \in IF tree.format = 3 THEN {"array", "group"} ELSE {"array2", "group2"}
AnswersOfTheirTime ==
  \A c \in Callers : (At(c, "idle") /\ call[c].n > 0) =>
    LET p == Op(c).path
        result == call[c].result
        ever == since[c].ever
        always == since[c].always
    IN  CASE Op(c).do \in {"open-array", "open-group"} ->
               /\ result \in {"array", "group", "array2", "group2"} => <<p, result>> \in ever
               /\ result = "notfound" => \A node \in always : node[1] = p => node[2] = "none"
          [] Op(c).do \in {"children", "open-arrays"} /\ result = "ok" ->
               /\ call[c].found \subseteq ever
               /\ \A node \in always :
                    InGroup(p, node[1]) /\ OfFormat(node[2])
                      /\ (Op(c).do = "children" \/ node[2] \in Arrays) => node \in call[c].found
          [] OTHER -> TRUE
=============================================================================
