-------------------------- MODULE MCLocalServer --------------------------
(***************************************************************************)
(* Model checking LocalServer: commands and clusters are interchangeable.  *)
(***************************************************************************)
EXTENDS LocalServer, TLC

Symmetry == Permutations(Cmds)
=============================================================================
