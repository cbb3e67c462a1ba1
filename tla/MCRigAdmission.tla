---------------------------- MODULE MCRigAdmission ----------------------------
(***************************************************************************)
(* A rig with two devices and two management requests, which are           *)
(* interchangeable.                                                        *)
(***************************************************************************)
EXTENDS RigAdmission, TLC

RequestSymmetry == Permutations(Requests)
=============================================================================
