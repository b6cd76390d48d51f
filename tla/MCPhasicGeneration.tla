------------------------- MODULE MCPhasicGeneration -------------------------
EXTENDS PhasicGeneration

(* More phases than PhasesBounded allows, so that the bound is never felt. *)
ASSUME MaxPlans >= MaxPhases + 3 + (Recharge + 1) * Cardinality(Requests)
=============================================================================
