---------------------------- MODULE MCStoredValue ----------------------------
(* Small instances of StoredValue for TLC. *)
EXTENDS StoredValue, TLC

CONSTANTS a1, a2, i1, i2, n1, n2

OneActor == {a1}
TwoActors == {a1, a2}
OneInvoice == {i1}
TwoInvoices == {i1, i2}
OneNote == {n1}
TwoNotes == {n1, n2}
StoreSymmetry == Permutations(Actors) \cup Permutations(Invoices) \cup Permutations(Notes)
=============================================================================
