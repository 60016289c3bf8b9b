--------------------------- MODULE MCCollections ---------------------------
(* Small instances of Collections for TLC. *)
EXTENDS Collections, TLC

CONSTANTS r1, r2

TwoRunners == {r1, r2}
RunnerSymmetry == Permutations(Runners)
=============================================================================
