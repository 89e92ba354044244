-------------------------- MODULE MCControlClient --------------------------
(* ControlClient for TLC: paths are interchangeable. *)
EXTENDS ControlClient, TLC

PathSymmetry == Permutations(Paths)
=============================================================================
