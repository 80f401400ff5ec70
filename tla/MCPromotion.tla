----------------------------- MODULE MCPromotion -----------------------------
(* Promotion on small instances; the flows are interchangeable. *)
EXTENDS Promotion, TLC

Symmetry == Permutations(Flows)
==============================================================================
