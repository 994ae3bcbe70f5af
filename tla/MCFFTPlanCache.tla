--------------------------- MODULE MCFFTPlanCache ---------------------------
(* Instances of FFTPlanCache for TLC. *)
EXTENDS FFTPlanCache, TLC

Sizes   == 0..3

KeySymmetry == Permutations(Keys)
=============================================================================
