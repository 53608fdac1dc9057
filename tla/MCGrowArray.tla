---------------------------- MODULE MCGrowArray -----------------------------
(* GrowArray for TLC: rows of five, one across, in stored objects of four.   *)
EXTENDS GrowArray

CONSTANTS hA, hB

MCAxes == {1, 2}
MCHandles == {hA, hB}
OneHandle == {hA}
MCValues == {0, 1}
MCMax == <<5, 1>>
MCGrid == <<4, 1>>
MCFirst == {<<3, 1>>}

(* Chunks, and shards of two chunks that are patched.                        *)
Plain == [chunk |-> MCGrid, patchesChunks |-> FALSE, writeEmptyChunks |-> FALSE]
Sharded == [chunk |-> <<2, 1>>, patchesChunks |-> TRUE, writeEmptyChunks |-> TRUE]
MCLayouts == {Plain, Sharded}
OneLayout == {Sharded}
=============================================================================
