------------------------------ MODULE MCStores ------------------------------
(* Stores for TLC.                                                          *)
EXTENDS Stores

CONSTANTS cA, cB

MCCallers == {cA, cB}

(* Ranges about the ends of what is put, and one past the ends of int64.    *)
MCRanges ==
  [whole : {FALSE}, offset : -3 .. 3, length : -1 .. 3]
  \cup {[whole |-> FALSE, offset |-> MaxInt, length |-> 1]}

Setup(kind, server, cap, puts) == [kind |-> kind, server |-> server, cap |-> cap, puts |-> puts]

(* Every store, put to and deleted from meanwhile; servers that ignore      *)
(* ranges, of values longer than any range of them; and, over HTTP, of any  *)
(* value, and servers that answer what they will.                           *)
MCSetups ==
  {Setup(kind, "ranges", 0, puts) : kind \in Kinds, puts \in {<<2, 3>>, <<3, Removed, 2>>, <<0, 1>>}}
  \cup {Setup(kind, "ranges", 2, <<2, 3>>) : kind \in {"http", "s3", "gcs", "azblob"}}
  \cup {Setup(kind, "ignores", 0, <<5, 4>>) : kind \in {"s3", "gcs", "azblob"}}
  \cup {Setup("http", server, cap, <<2, 3>>) : server \in {"ignores", "others"}, cap \in {0, 2}}

(* A group and, in it, an array and a group.                                *)
g == <<"g">>
a == <<"g", "a">>
b == <<"g", "b">>
MCKeyOrder ==
  <<<<g, ".zgroup">>, <<a, "/">>, <<a, ".zarray">>, <<a, ".zattrs">>, <<a, "c/0">>, <<a, "c/1">>, <<a, "c/2">>,
    <<a, "zarr.json">>, <<b, "/">>, <<b, ".zgroup">>, <<b, "zarr.json">>, <<g, "zarr.json">>>>

Do(do, path) == [do |-> do, path |-> path]
Tree(kind, format, keys, callsA, callsB, fails) ==
  [kind |-> kind, format |-> format, fails |-> fails,
   held |-> [k \in keys |-> CASE k[2] = "zarr.json" -> IF k[1] = a THEN "array" ELSE "group"
                              [] OTHER -> "data"],
   calls |-> [c \in Callers |-> IF c = cA THEN callsA ELSE callsB]]
V3 == {<<g, "zarr.json">>, <<a, "zarr.json">>, <<a, "c/0">>, <<a, "c/1">>, <<a, "c/2">>, <<b, "zarr.json">>}
V2 == {<<g, ".zgroup">>, <<a, ".zarray">>, <<a, ".zattrs">>, <<a, "c/0">>, <<b, ".zgroup">>}

(* Nodes of version 2 in a group of version 3, and creates at their paths,  *)
(* which succeed: CreateKeepsVersion2 is not so here.                       *)
ReplacedTree ==
  Tree("memory", 3, {<<g, "zarr.json">>, <<a, ".zarray">>, <<a, ".zattrs">>, <<a, "c/0">>, <<b, ".zgroup">>},
       <<Do("open-array", a), Do("create-array", a), Do("create-array", a), Do("write", a)>>,
       <<Do("create-group", b), Do("open-array", a), Do("children", g)>>, 1)

MCTrees ==
  \* Two creates of one path, and what they made.
  {Tree("memory", 3, {<<g, "zarr.json">>},
        <<Do("create-array", a), Do("write", a), Do("create-group", a)>>,
        <<Do("create-group", a), Do("create-array", b), Do("attributes", b), Do("children", g)>>, 1)}
  \* An array is deleted, again if that fails, and created again.
  \cup {Tree(kind, 3, V3 \cup {<<b, "/">>},
             <<Do("delete", a), Do("delete", a), Do("create-array", a), Do("write", a)>>,
             <<Do("children", g), Do("open-array", a)>>, 1) : kind \in {"memory", "dir", "s3", "gcs", "azblob"}}
  \* And one of version 2, which is not created.
  \cup {Tree(kind, 2, V2 \cup {<<b, "/">>},
             <<Do("delete", a), Do("delete", a), Do("create-array", a)>>,
             <<Do("open-arrays", g), Do("open-group", a), Do("open-array", a), Do("write", a), Do("children", g)>>, 1) :
           kind \in {"dir", "s3"}}
  \* A group alone is deleted while it is opened.
  \cup {Tree("s3", 3, {<<g, "zarr.json">>, <<a, "/">>, <<b, "zarr.json">>},
             <<Do("delete", b), Do("open-group", b), Do("open-array", g)>>, <<Do("open-group", b), Do("open-group", g)>>, 1)}
  \cup {ReplacedTree}

(* What some theorems of Stores suppose is so of the stores and the trees.  *)
ASSUME RangesDoFit == RangesFit
ASSUME DeletesAreApart == DeletesApart
ASSUME TreesAreOfOneKind == TreesOfOneKind
=============================================================================
