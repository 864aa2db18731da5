-------------------------- MODULE MCLocalCluster --------------------------
(***************************************************************************)
(* Model checking LocalCluster: commands are interchangeable.              *)
(***************************************************************************)
EXTENDS LocalCluster, TLC

Symmetry == Permutations(Cmds)
=============================================================================
