--------------------------- MODULE MCUploadCircuit ---------------------------
(* Instances of UploadCircuit for TLC: two canvases with one Job each. *)
EXTENDS UploadCircuit, TLC

CONSTANTS j1, j2, s1, s2

MCScopeOf == (j1 :> s1) @@ (j2 :> s2)
=============================================================================
