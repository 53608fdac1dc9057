--------------------------- MODULE MCStoredWrites ---------------------------
(* StoredWrites for TLC: a Write and a WriteChunk share a shard, of which a  *)
(* third part is nobody's, and the Write replaces another shard whole.       *)
EXTENDS StoredWrites

CONSTANTS wA, wB, oP, oQ

MCValues == {0, 1}
MCObjects == {oP, oQ}
MCElements == 1 .. 4
MCObjectOf == <<oP, oP, oP, oQ>>
MCWriters == {wA, wB}
MCRegion == [w \in MCWriters |-> IF w = wA THEN {1, 4} ELSE {2}]
MCKind == [w \in MCWriters |-> IF w = wA THEN "Write" ELSE "WriteChunk"]
=============================================================================
