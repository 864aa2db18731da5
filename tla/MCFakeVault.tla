--------------------------- MODULE MCFakeVault ---------------------------
(***************************************************************************)
(* Model checking FakeVault: model values for the sets; request slots,     *)
(* values and paths are interchangeable.                                   *)
(***************************************************************************)
EXTENDS FakeVault, TLC

Symmetry == Permutations(Reqs) \cup Permutations(Vals) \cup Permutations(Paths)
=============================================================================
