------------------------------ MODULE MCS3Fake ------------------------------
(***************************************************************************)
(* Model checking S3Fake: requests are interchangeable.                    *)
(***************************************************************************)
EXTENDS S3Fake, TLC

Symmetry == Permutations(Reqs)
=============================================================================
