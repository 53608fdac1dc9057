---------------------------- MODULE MCCachedStore ----------------------------
(* CachedStore for TLC: one key, read whole and by a range.                 *)
EXTENDS CachedStore, TLC

CONSTANTS rA, rB, wA, key, whole, range, f1, f2

TwoReaders == {rA, rB}
OneWriter == {wA}
TwoFlights == {f1, f2}

OneKey == {key}
Whole == {whole}
WholeAndRange == {whole, range}
MCKeyOf == [k \in CacheKeys |-> key]

(* The values of a key: one of half the cache, one that fills it, and one   *)
(* that is too big for it.                                                  *)
MCSize == [v \in 0 .. MaxVersion |-> v + 1]

Symmetry == Permutations(Readers) \cup Permutations(Flights)
=============================================================================
