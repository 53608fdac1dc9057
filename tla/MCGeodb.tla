------------------------------ MODULE MCGeodb -------------------------------
(* Geodb for TLC: what is created, put, appended and fails in each history. *)
EXTENDS Geodb

Plan(create, made, fails, puts, rows) ==
  [create |-> create, made |-> made, fails |-> fails, puts |-> puts, rows |-> rows]

(* A tile or a source alone, with failures or with parcels put meanwhile,   *)
(* and both from an empty store.                                            *)
MCPlans ==
  {Plan({n}, TRUE, 2, 0, 2) : n \in {"tile", "source"}} \cup
  {Plan({n}, TRUE, 0, 2, 1) : n \in {"tile", "source"}} \cup
  {Plan({n}, FALSE, 1, 1, 1) : n \in {"tile", "source"}} \cup
  {Plan({"tile", "source"}, FALSE, 0, 1, 0)}

(* What the theorems on statistics, samples, doing again and the earlier    *)
(* generation ask of the plans.                                             *)
ASSUME MCPlansAreUntorn == \A plan \in MCPlans : Untorn(plan)

(* Parcels put between an append of a scene that fails and the next.        *)
LeftoverPlans == {Plan({"tile"}, TRUE, 1, 1, 2)}
=============================================================================
