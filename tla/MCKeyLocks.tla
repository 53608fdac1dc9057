----------------------------- MODULE MCKeyLocks -----------------------------
(* KeyLocks for TLC.                                                        *)
EXTENDS KeyLocks

CONSTANTS t1, t2, t3, k1, k2, l1, l2, l3

MCTasks == {t1, t2, t3}
MCKeys == {k1, k2}
MCLocks == {l1, l2, l3}
=============================================================================
