---------------------------- MODULE BookingCycle ----------------------------
(***************************************************************************)
(* What the (reference, code, occurrence) discipline promises for a pair   *)
(* of inverse postings (design-ledger-occurrence.md): a booking and its    *)
(* inverse alternate.  A booking is made only when every earlier one has   *)
(* been inverted, and an inversion inverts exactly the booking that is     *)
(* open, amount for amount.                                                *)
(***************************************************************************)
EXTENDS Integers

VARIABLES
    booked,     \* amounts booked, by occurrence
    inverted    \* amounts inverted, by occurrence

Open == booked # inverted

Init ==
    /\ booked = [o \in {} |-> 0]
    /\ inverted = [o \in {} |-> 0]

\* The next occurrence is booked; no earlier one changes.
Book ==
    /\ ~Open
    /\ \E n \in DOMAIN booked' :
        /\ DOMAIN booked = 0..(n - 1) /\ DOMAIN booked' = 0..n
        /\ booked'[n] \in Nat
    /\ \A o \in DOMAIN booked : booked'[o] = booked[o]
    /\ UNCHANGED inverted

Invert ==
    /\ Open
    /\ inverted' = booked
    /\ UNCHANGED booked

Next == Book \/ Invert

Spec == Init /\ [][Next]_<<booked, inverted>>
=============================================================================
