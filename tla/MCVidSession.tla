---------------------------- MODULE MCVidSession ----------------------------
(* VidSession for TLC: one file in the root, one in a subdirectory. *)
EXTENDS VidSession, TLC

CONSTANTS InRoot, InSub

OnePerDirectory == [p \in Paths |-> IF p = InSub THEN "sub" ELSE "root"]
=============================================================================
