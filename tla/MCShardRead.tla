----------------------------- MODULE MCShardRead -----------------------------
(* ShardRead for TLC.                                                       *)
EXTENDS ShardRead

CONSTANTS fill, one, two, rA

MCValues == {fill, one, two}
OneReader == {rA}

(* A compressed chunk is as long as it comes, a raw one always as long.     *)
Compressed == [v \in MCValues |-> IF v = two THEN 2 ELSE 1]
Raw == [v \in MCValues |-> 2]

(* Read whole: compressed chunks, the index before them.                    *)
ReadAtOnce == [size |-> Compressed, indexAtEnd |-> FALSE, byRange |-> FALSE,
               writeEmptyChunks |-> FALSE, full |-> FALSE]

(* Read by range: raw chunks that are all there, the index after them.      *)
AllThere == [size |-> Raw, indexAtEnd |-> TRUE, byRange |-> TRUE,
             writeEmptyChunks |-> TRUE, full |-> TRUE]

(* Read by range, and empty chunks left out.                                *)
LeftOut == [AllThere EXCEPT !.writeEmptyChunks = FALSE, !.full = FALSE]

SafeLayouts == {ReadAtOnce, AllThere}
TornLayouts == {LeftOut}
=============================================================================
