------------------------------ MODULE MCRefunds ------------------------------
(* Small instances of Refunds for TLC. *)
EXTENDS Refunds, TLC

CONSTANTS a1, a2, n1, n2

TwoActors == {a1, a2}
TwoNotes == {n1, n2}
RefundsSymmetry == Permutations(Actors) \cup Permutations(Notes)
=============================================================================
