--------------------------- MODULE MCStatusSync ---------------------------
(***************************************************************************)
(* StatusSync for TLC.  Flows are interchangeable.                         *)
(***************************************************************************)
EXTENDS StatusSync, TLC

Symmetry == Permutations(Keys)
=============================================================================
