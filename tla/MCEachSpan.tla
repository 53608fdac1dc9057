----------------------------- MODULE MCEachSpan -----------------------------
(* EachSpan for TLC: the default, one goroutine, two, and more than needed. *)
EXTENDS EachSpan

MCConcurrencies == {-1, 1, 2, 9}
=============================================================================
