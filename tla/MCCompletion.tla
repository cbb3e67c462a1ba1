---------------------------- MODULE MCCompletion ----------------------------
(* Instance of Completion for TLC: two keys, two requests, two Attempts. *)
EXTENDS Completion, TLC

Symmetry == Permutations(Keys) \cup Permutations(Calls)
=============================================================================
