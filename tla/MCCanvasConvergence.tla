------------------------- MODULE MCCanvasConvergence -------------------------
(***************************************************************************)
(* A canvas whose findings are interchangeable.                             *)
(***************************************************************************)
EXTENDS CanvasConvergence, TLC

FindingSymmetry == Permutations(Findings)
=============================================================================
