----------------------------- MODULE MCRenewal -----------------------------
(* Small instances of Renewal for TLC. *)
EXTENDS Renewal, TLC

CONSTANTS a1, a2

TwoActors == {a1, a2}
ActorSymmetry == Permutations(Actors)
=============================================================================
