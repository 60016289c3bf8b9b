------------------------- MODULE StoredValue_proofs -------------------------
(***************************************************************************)
(* For every number of sweeps and requests, of invoices and notes, and     *)
(* through every failure: a wallet's balance is what is left of its        *)
(* top-ups, it is credited once for each recharge the card was charged     *)
(* for, and a note that came to an end stays there.  And when nothing      *)
(* failed: Customer Credit is what customers can still draw, and an        *)
(* invoice owes what was not drawn for it.                                 *)
(***************************************************************************)
EXTENDS StoredValue, FunctionSums, SequenceTheorems, FiniteSetTheorems, TLAPS

USE StoredValueAssumption

\* TypeOK, part by part.
WalletOK == /\ wallet \in [balance : Nat, closed : BOOLEAN]
            /\ residue \in [paid : Nat, promo : Nat, dated : Nat, lapsed : Nat]
            /\ WalletIsItsTopUps
NoteType == note \in [Notes -> [status : {None, "pending", "issued", "used", "expired", "void",
                                          "rejected"},
                                balance : 0..NoteAmount, due : BOOLEAN]]
InvoiceType == /\ invoice \in [Invoices -> [status : {None, "open", "paid"},
                                            amountPaid : 0..Total, creditApplied : 0..Total]]
               /\ drawn \in [Invoices -> [wallet : Nat, credit : Nat]]
BooksType == books \in [credit : Int, receivable : [Invoices -> Int]]
RechargeType == /\ captured \in [count : Nat, known : SUBSET Nat]
                /\ keys \subseteq Nat /\ credited \in Nat
                /\ faults \in Nat /\ lapses \in Nat /\ topUps \in Nat
ActorOK(y) == y.pc \in {"void", "approve"} => y.note \in Notes

StoreInv ==
    /\ WalletOK /\ NoteType /\ InvoiceType /\ BooksType /\ RechargeType
    /\ actor \in [Actors -> Actor] /\ \A a \in Actors : ActorOK(actor[a])

LEMMA TypeParts == StoreInv => TypeOK /\ WalletIsItsTopUps
BY DEF StoreInv, WalletOK, NoteType, InvoiceType, BooksType, RechargeType, TypeOK

----------------------------------------------------------------------------
(* Actors.                                                                 *)

LEMMA Held ==
    ASSUME StoreInv, NEW a \in Actors
    PROVE  /\ actor[a] \in Actor /\ ActorOK(actor[a])
           /\ actor[a].pc \in {"idle", "receivable", "lookup", "drain", "persist", "credits",
                "topUp", "charge", "recharge", "close", "approve", "reject", "void"}
           /\ actor[a].invoice \in Invoices \cup {None} /\ actor[a].note \in Notes \cup {None}
           /\ actor[a].source \in {"paid", "promo", "dated"}
           /\ actor[a].seen \in Nat /\ actor[a].paid \in 0..Total /\ actor[a].todo \in Seq(Leg)
           /\ actor[a] = [pc |-> actor[a].pc, invoice |-> actor[a].invoice, note |-> actor[a].note,
                          source |-> actor[a].source, seen |-> actor[a].seen,
                          paid |-> actor[a].paid, todo |-> actor[a].todo]
           /\ Idle \in Actor /\ ActorOK(Idle)
<1>1. actor[a] \in Actor /\ ActorOK(actor[a])
  BY DEF StoreInv
<1>2. Idle \in Actor /\ ActorOK(Idle)
  BY DEF Idle, Actor, ActorOK
<1>3. /\ actor[a].pc \in {"idle", "receivable", "lookup", "drain", "persist", "credits",
           "topUp", "charge", "recharge", "close", "approve", "reject", "void"}
      /\ actor[a].invoice \in Invoices \cup {None} /\ actor[a].note \in Notes \cup {None}
      /\ actor[a].source \in {"paid", "promo", "dated"}
      /\ actor[a].seen \in Nat /\ actor[a].paid \in 0..Total /\ actor[a].todo \in Seq(Leg)
      /\ actor[a] = [pc |-> actor[a].pc, invoice |-> actor[a].invoice, note |-> actor[a].note,
                     source |-> actor[a].source, seen |-> actor[a].seen,
                     paid |-> actor[a].paid, todo |-> actor[a].todo]
  BY <1>1 DEF Actor
<1> QED BY <1>1, <1>2, <1>3

\* An actor goes on as y.
Moves(a) == \E y \in Actor : actor' = [actor EXCEPT ![a] = y] /\ ActorOK(y)

Pcs == {"idle", "receivable", "lookup", "drain", "persist", "credits", "topUp", "charge",
        "recharge", "close", "reject"}

LEMMA Edited ==
    ASSUME NEW x \in Actor, NEW p, NEW t
    PROVE  /\ [x EXCEPT !.pc = p] = [pc |-> p, invoice |-> x.invoice, note |-> x.note, source |-> x.source,
                                      seen |-> x.seen, paid |-> x.paid, todo |-> x.todo]
           /\ [x EXCEPT !.todo = t] = [pc |-> x.pc, invoice |-> x.invoice, note |-> x.note,
                                        source |-> x.source, seen |-> x.seen, paid |-> x.paid, todo |-> t]
BY DEF Actor

LEMMA MovesOn ==
    ASSUME StoreInv, NEW a \in Actors
    PROVE  /\ Done(a) => Moves(a)
           /\ \A p \in Pcs : Goto(a, p) => Moves(a)
           /\ \A p \in Pcs, n \in 0..Total, t \in Seq(Leg) :
                actor' = [actor EXCEPT ![a].pc = p, ![a].paid = n, ![a].todo = t] => Moves(a)
           /\ \A t \in Seq(Leg) : actor' = [actor EXCEPT ![a].todo = t] => Moves(a)
           /\ \A t \in Seq(Leg) : PostAndEnd(a, t) => Moves(a)
<1>0. actor \in [Actors -> Actor]
  BY DEF StoreInv
<1>1. Done(a) => Moves(a)
  BY Held DEF Done, Moves
<1>2. ASSUME NEW p \in Pcs, Goto(a, p) PROVE Moves(a)
  <2> DEFINE y == [pc |-> p, invoice |-> actor[a].invoice, note |-> actor[a].note,
                   source |-> actor[a].source, seen |-> actor[a].seen,
                   paid |-> actor[a].paid, todo |-> actor[a].todo]
  <2>1. y \in Actor /\ ActorOK(y)
    BY Held DEF Actor, ActorOK, Pcs
  <2>2. [actor[a] EXCEPT !.pc = p] = y
    BY Held, Edited
  <2>3. actor' = [actor EXCEPT ![a] = y]
    BY <1>0, <1>2, <2>2 DEF Goto
  <2> QED BY <2>1, <2>3 DEF Moves
<1>3. ASSUME NEW p \in Pcs, NEW n \in 0..Total, NEW t \in Seq(Leg),
             actor' = [actor EXCEPT ![a].pc = p, ![a].paid = n, ![a].todo = t]
      PROVE  Moves(a)
  <2> DEFINE y == [pc |-> p, invoice |-> actor[a].invoice, note |-> actor[a].note,
                   source |-> actor[a].source, seen |-> actor[a].seen, paid |-> n, todo |-> t]
  <2>1. y \in Actor /\ ActorOK(y)
    BY Held DEF Actor, ActorOK, Pcs
  <2> DEFINE u == [pc |-> p, invoice |-> actor[a].invoice, note |-> actor[a].note,
                   source |-> actor[a].source, seen |-> actor[a].seen,
                   paid |-> actor[a].paid, todo |-> actor[a].todo]
             v == [pc |-> p, invoice |-> actor[a].invoice, note |-> actor[a].note,
                   source |-> actor[a].source, seen |-> actor[a].seen,
                   paid |-> n, todo |-> actor[a].todo]
  <2>2. [actor EXCEPT ![a].pc = p] = [actor EXCEPT ![a] = u]
    <3>1. [actor[a] EXCEPT !.pc = p] = u
      BY Held, Edited
    <3> QED BY <1>0, <3>1
  <2>3. [[actor EXCEPT ![a] = u] EXCEPT ![a].paid = n] = [actor EXCEPT ![a] = v]
    <3>1. [u EXCEPT !.paid = n] = v
      OBVIOUS
    <3> QED BY <1>0, <3>1
  <2>4. [[actor EXCEPT ![a] = v] EXCEPT ![a].todo = t] = [actor EXCEPT ![a] = y]
    <3>1. [v EXCEPT !.todo = t] = y
      OBVIOUS
    <3> QED BY <1>0, <3>1
  <2>5. actor' = [actor EXCEPT ![a] = y]
    BY <1>3, <2>2, <2>3, <2>4
  <2> QED BY <2>1, <2>5 DEF Moves
<1>4. ASSUME NEW t \in Seq(Leg), actor' = [actor EXCEPT ![a].todo = t] PROVE Moves(a)
  <2> DEFINE y == [pc |-> actor[a].pc, invoice |-> actor[a].invoice, note |-> actor[a].note,
                   source |-> actor[a].source, seen |-> actor[a].seen,
                   paid |-> actor[a].paid, todo |-> t]
  <2>1. y \in Actor /\ ActorOK(y)
    BY Held DEF Actor, ActorOK
  <2>2. [actor[a] EXCEPT !.todo = t] = y
    BY Held, Edited
  <2>3. actor' = [actor EXCEPT ![a] = y]
    BY <1>0, <1>4, <2>2
  <2> QED BY <2>1, <2>3 DEF Moves
<1>5. ASSUME NEW t \in Seq(Leg), PostAndEnd(a, t) PROVE Moves(a)
  <2>1. [Idle EXCEPT !.todo = t] \in Actor /\ ActorOK([Idle EXCEPT !.todo = t])
    BY DEF Idle, Actor, ActorOK
  <2> QED BY <1>5, <2>1 DEF PostAndEnd, Moves
<1> QED BY <1>1, <1>2, <1>3, <1>4, <1>5

LEMMA Constants ==
    /\ Total \in Nat /\ NoteAmount \in Nat /\ Grant \in Nat /\ Recharge \in Nat
    /\ Total > 0 /\ NoteAmount > 0
OBVIOUS

LEMMA Legs ==
    /\ <<>> \in Seq(Leg)
    /\ \A m \in Int : <<Credit(m)>> \in Seq(Leg)
    /\ \A m, n \in Int : <<Credit(m), Credit(n)>> \in Seq(Leg)
    /\ \A i \in Invoices \cup {None}, m \in Int : <<Settle(i, m)>> \in Seq(Leg)
<1>1. \A m \in Int : Credit(m) \in Leg
  BY DEF Leg, Credit
<1>2. \A i \in Invoices \cup {None}, m \in Int : Settle(i, m) \in Leg
  BY DEF Leg, Settle
<1> HIDE DEF Leg
<1> QED BY <1>1, <1>2

\* The actors that start an operation.
Act(p, i, n, s, m, l, t) ==
    [pc |-> p, invoice |-> i, note |-> n, source |-> s, seen |-> m, paid |-> l, todo |-> t]

LEMMA Started ==
    ASSUME NEW a \in Actors
    PROVE  /\ \A p \in Pcs : actor' = [actor EXCEPT ![a] = [Idle EXCEPT !.pc = p]] => Moves(a)
           /\ \A p \in Pcs, i \in Invoices :
                actor' = [actor EXCEPT ![a] = [Idle EXCEPT !.pc = p, !.invoice = i]] => Moves(a)
           /\ \A p \in Pcs \cup {"void", "approve"}, n \in Notes :
                actor' = [actor EXCEPT ![a] = [Idle EXCEPT !.pc = p, !.note = n]] => Moves(a)
           /\ \A p \in Pcs, s \in {"paid", "promo", "dated"} :
                actor' = [actor EXCEPT ![a] = [Idle EXCEPT !.pc = p, !.source = s]] => Moves(a)
           /\ \A p \in Pcs, m \in Nat :
                actor' = [actor EXCEPT ![a] = [Idle EXCEPT !.pc = p, !.seen = m]] => Moves(a)
<1>1. Idle = Act("idle", None, None, "paid", 0, 0, <<>>)
  BY DEF Idle, Act
<1>2. \A p : [Idle EXCEPT !.pc = p] = Act(p, None, None, "paid", 0, 0, <<>>)
  BY <1>1 DEF Act
<1>3. \A p, x : [Idle EXCEPT !.pc = p, !.invoice = x] = Act(p, x, None, "paid", 0, 0, <<>>)
  <2> SUFFICES ASSUME NEW p, NEW x
               PROVE  [Idle EXCEPT !.pc = p, !.invoice = x] = Act(p, x, None, "paid", 0, 0, <<>>)
    OBVIOUS
  <2>1. PICK u : u = Act(p, None, None, "paid", 0, 0, <<>>)
    OBVIOUS
  <2>2. [Idle EXCEPT !.pc = p] = u
    BY <1>1, <2>1 DEF Act
  <2>3. [u EXCEPT !.invoice = x] = Act(p, x, None, "paid", 0, 0, <<>>)
    BY <2>1 DEF Act
  <2>4. [Idle EXCEPT !.pc = p, !.invoice = x] = [[Idle EXCEPT !.pc = p] EXCEPT !.invoice = x]
    OBVIOUS
  <2> QED BY <2>2, <2>3, <2>4
<1>4. \A p, x : [Idle EXCEPT !.pc = p, !.note = x] = Act(p, None, x, "paid", 0, 0, <<>>)
  <2> SUFFICES ASSUME NEW p, NEW x
               PROVE  [Idle EXCEPT !.pc = p, !.note = x] = Act(p, None, x, "paid", 0, 0, <<>>)
    OBVIOUS
  <2>1. PICK u : u = Act(p, None, None, "paid", 0, 0, <<>>)
    OBVIOUS
  <2>2. [Idle EXCEPT !.pc = p] = u
    BY <1>1, <2>1 DEF Act
  <2>3. [u EXCEPT !.note = x] = Act(p, None, x, "paid", 0, 0, <<>>)
    BY <2>1 DEF Act
  <2>4. [Idle EXCEPT !.pc = p, !.note = x] = [[Idle EXCEPT !.pc = p] EXCEPT !.note = x]
    OBVIOUS
  <2> QED BY <2>2, <2>3, <2>4
<1>5. \A p, x : [Idle EXCEPT !.pc = p, !.source = x] = Act(p, None, None, x, 0, 0, <<>>)
  <2> SUFFICES ASSUME NEW p, NEW x
               PROVE  [Idle EXCEPT !.pc = p, !.source = x] = Act(p, None, None, x, 0, 0, <<>>)
    OBVIOUS
  <2>1. PICK u : u = Act(p, None, None, "paid", 0, 0, <<>>)
    OBVIOUS
  <2>2. [Idle EXCEPT !.pc = p] = u
    BY <1>1, <2>1 DEF Act
  <2>3. [u EXCEPT !.source = x] = Act(p, None, None, x, 0, 0, <<>>)
    BY <2>1 DEF Act
  <2>4. [Idle EXCEPT !.pc = p, !.source = x] = [[Idle EXCEPT !.pc = p] EXCEPT !.source = x]
    OBVIOUS
  <2> QED BY <2>2, <2>3, <2>4
<1>6. \A p, x : [Idle EXCEPT !.pc = p, !.seen = x] = Act(p, None, None, "paid", x, 0, <<>>)
  <2> SUFFICES ASSUME NEW p, NEW x
               PROVE  [Idle EXCEPT !.pc = p, !.seen = x] = Act(p, None, None, "paid", x, 0, <<>>)
    OBVIOUS
  <2>1. PICK u : u = Act(p, None, None, "paid", 0, 0, <<>>)
    OBVIOUS
  <2>2. [Idle EXCEPT !.pc = p] = u
    BY <1>1, <2>1 DEF Act
  <2>3. [u EXCEPT !.seen = x] = Act(p, None, None, "paid", x, 0, <<>>)
    BY <2>1 DEF Act
  <2>4. [Idle EXCEPT !.pc = p, !.seen = x] = [[Idle EXCEPT !.pc = p] EXCEPT !.seen = x]
    OBVIOUS
  <2> QED BY <2>2, <2>3, <2>4
<1>7. \A p \in Pcs \cup {"void", "approve"}, i \in Invoices \cup {None}, n \in Notes \cup {None},
        s \in {"paid", "promo", "dated"}, m \in Nat :
          p \notin {"void", "approve"} \/ n \in Notes =>
            Act(p, i, n, s, m, 0, <<>>) \in Actor /\ ActorOK(Act(p, i, n, s, m, 0, <<>>))
  <2>1. 0 \in 0..Total /\ <<>> \in Seq(Leg)
    BY Legs
  <2> QED BY <2>1 DEF Act, Actor, ActorOK, Pcs
<1>8. 0 \in Nat /\ "paid" \in {"paid", "promo", "dated"} /\ "void" \notin Pcs /\ "approve" \notin Pcs
  BY DEF Pcs
<1>9. ASSUME NEW p \in Pcs, actor' = [actor EXCEPT ![a] = [Idle EXCEPT !.pc = p]] PROVE Moves(a)
  <2>1. [Idle EXCEPT !.pc = p] = Act(p, None, None, "paid", 0, 0, <<>>)
    BY <1>2
  <2>2. Act(p, None, None, "paid", 0, 0, <<>>) \in Actor /\ ActorOK(Act(p, None, None, "paid", 0, 0, <<>>))
    BY <1>7, <1>8
  <2> QED BY <1>9, <2>1, <2>2 DEF Moves
<1>10. ASSUME NEW p \in Pcs, NEW i \in Invoices,
              actor' = [actor EXCEPT ![a] = [Idle EXCEPT !.pc = p, !.invoice = i]]
       PROVE  Moves(a)
  <2>1. [Idle EXCEPT !.pc = p, !.invoice = i] = Act(p, i, None, "paid", 0, 0, <<>>)
    BY <1>3
  <2>2. Act(p, i, None, "paid", 0, 0, <<>>) \in Actor /\ ActorOK(Act(p, i, None, "paid", 0, 0, <<>>))
    BY <1>7, <1>8
  <2> QED BY <1>10, <2>1, <2>2 DEF Moves
<1>11. ASSUME NEW p \in Pcs \cup {"void", "approve"}, NEW n \in Notes,
              actor' = [actor EXCEPT ![a] = [Idle EXCEPT !.pc = p, !.note = n]]
       PROVE  Moves(a)
  <2>1. [Idle EXCEPT !.pc = p, !.note = n] = Act(p, None, n, "paid", 0, 0, <<>>)
    BY <1>4
  <2>2. Act(p, None, n, "paid", 0, 0, <<>>) \in Actor /\ ActorOK(Act(p, None, n, "paid", 0, 0, <<>>))
    BY <1>7, <1>8
  <2> QED BY <1>11, <2>1, <2>2 DEF Moves
<1>12. ASSUME NEW p \in Pcs, NEW s \in {"paid", "promo", "dated"},
              actor' = [actor EXCEPT ![a] = [Idle EXCEPT !.pc = p, !.source = s]]
       PROVE  Moves(a)
  <2>1. [Idle EXCEPT !.pc = p, !.source = s] = Act(p, None, None, s, 0, 0, <<>>)
    BY <1>5
  <2>2. Act(p, None, None, s, 0, 0, <<>>) \in Actor /\ ActorOK(Act(p, None, None, s, 0, 0, <<>>))
    BY <1>7, <1>8
  <2> QED BY <1>12, <2>1, <2>2 DEF Moves
<1>13. ASSUME NEW p \in Pcs, NEW m \in Nat,
              actor' = [actor EXCEPT ![a] = [Idle EXCEPT !.pc = p, !.seen = m]]
       PROVE  Moves(a)
  <2>1. [Idle EXCEPT !.pc = p, !.seen = m] = Act(p, None, None, "paid", m, 0, <<>>)
    BY <1>6
  <2>2. Act(p, None, None, "paid", m, 0, <<>>) \in Actor /\ ActorOK(Act(p, None, None, "paid", m, 0, <<>>))
    BY <1>7, <1>8
  <2> QED BY <1>13, <2>1, <2>2 DEF Moves
<1> QED BY <1>9, <1>10, <1>11, <1>12, <1>13

----------------------------------------------------------------------------
(* The steps of an actor, and the actor they leave.                        *)

Generating(a) ==
    \/ \E i \in Invoices : CreateInvoice(a, i)
    \/ RecordInvoiceLeg(a) \/ LookUpWallet(a) \/ Drain(a) \/ PersistDrain(a)
    \/ StatementFails(a) \/ ApplyAdjustmentCredits(a)
Recharging(a) ==
    \/ ListDueForRecharge(a) \/ ChargeSavedPaymentMethod(a) \/ ChargeUnanswered(a) \/ CreditRecharge(a)
Keeping(a) ==
    \/ \E s \in Sources : TopUp(a, s)
    \/ AddTopUp(a) \/ CloseWallet(a) \/ Close(a) \/ ExpireOverdue(a)
Noting(a) ==
    \/ \E n \in Notes : \/ CreateNote(a, n) \/ ClaimExpiredCredit(a, n)
                        \/ \E op \in {"approve", "reject", "void"} : Load(a, n, op)
    \/ Approve(a) \/ Reject(a) \/ VoidAdjustmentCredit(a)
Acts(a) == Post(a) \/ LosePosting(a) \/ Crash(a)
           \/ Generating(a) \/ Recharging(a) \/ Keeping(a) \/ Noting(a)
Environment ==
    \/ Lapse
    \/ \E n \in Notes : FallDue(n)
    \/ \E key \in captured.known : ForgetKey(key)

LEMMA Steps == Next => Environment \/ \E a \in Actors : Acts(a)
BY Zenon DEF Next, Acts, Environment, Generating, Recharging, Keeping, Noting

LEMMA GeneratingMoves == ASSUME StoreInv, NEW a \in Actors, Generating(a) PROVE Moves(a)
<1>1. ASSUME NEW i \in Invoices, CreateInvoice(a, i) PROVE Moves(a)
  BY <1>1, Started DEF CreateInvoice, Pcs
<1>2. CASE RecordInvoiceLeg(a)
  BY <1>2, MovesOn DEF RecordInvoiceLeg, Pcs
<1>3. CASE LookUpWallet(a)
  BY <1>3, MovesOn DEF LookUpWallet, Pcs
<1>4. CASE Drain(a)
  <2> DEFINE taken == Least(Total, residue.paid + residue.promo + residue.dated)
  <2>1. taken \in 0..Total
    BY DEF Least, StoreInv, WalletOK
  <2>2. CASE Goto(a, "credits")
    BY <2>2, MovesOn DEF Pcs
  <2>3. CASE actor' = [actor EXCEPT ![a].pc = "persist", ![a].paid = taken,
                                    ![a].todo = <<Settle(actor[a].invoice, taken)>>]
    <3> HIDE DEF taken
    <3>0. taken \in Int /\ actor[a].invoice \in Invoices \cup {None}
      <4>1. actor[a].invoice \in Invoices \cup {None}
        BY Held
      <4> QED BY <2>1, <4>1, Constants
    <3>1. <<Settle(actor[a].invoice, taken)>> \in Seq(Leg)
      BY <3>0, Legs
    <3> QED BY <2>1, <2>3, <3>1, MovesOn DEF Pcs
  <2> QED BY <1>4, <2>2, <2>3 DEF Drain
<1>5. CASE PersistDrain(a)
  BY <1>5, MovesOn DEF PersistDrain, GoOnToCredits, Pcs
<1>6. CASE StatementFails(a)
  BY <1>6, MovesOn DEF StatementFails, GoOnToCredits, Pcs
<1>7. CASE ApplyAdjustmentCredits(a)
  <2>1. CASE Done(a)
    BY <2>1, MovesOn
  <2>2. ASSUME NEW applied \in 1..(Total - actor[a].paid),
               PostAndEnd(a, <<Settle(actor[a].invoice, applied)>>)
        PROVE  Moves(a)
    <3>1. applied \in Int /\ actor[a].invoice \in Invoices \cup {None}
      <4>1. actor[a].invoice \in Invoices \cup {None} /\ actor[a].paid \in 0..Total
        BY Held
      <4> QED BY <2>2, <4>1, Constants
    <3>2. <<Settle(actor[a].invoice, applied)>> \in Seq(Leg)
      BY <3>1, Legs
    <3> QED BY <2>2, <3>2, MovesOn
  <2> QED BY <1>7, <2>1, <2>2 DEF ApplyAdjustmentCredits
<1> QED BY <1>1, <1>2, <1>3, <1>4, <1>5, <1>6, <1>7 DEF Generating

LEMMA RechargingMoves == ASSUME StoreInv, NEW a \in Actors, Recharging(a) PROVE Moves(a)
<1>1. CASE ListDueForRecharge(a)
  <2>1. wallet.balance \in Nat
    BY DEF StoreInv, WalletOK
  <2> QED BY <1>1, <2>1, Started DEF ListDueForRecharge, Pcs
<1>2. CASE ChargeSavedPaymentMethod(a)
  BY <1>2, MovesOn DEF ChargeSavedPaymentMethod, Pcs
<1>3. CASE ChargeUnanswered(a)
  BY <1>3, MovesOn DEF ChargeUnanswered
<1>4. CASE CreditRecharge(a)
  <2>1. <<Credit(Recharge)>> \in Seq(Leg) /\ <<>> \in Seq(Leg)
    BY Legs, Constants
  <2> QED BY <1>4, <2>1, MovesOn DEF CreditRecharge
<1> QED BY <1>1, <1>2, <1>3, <1>4 DEF Recharging

LEMMA KeepingMoves == ASSUME StoreInv, NEW a \in Actors, Keeping(a) PROVE Moves(a)
<1>1. ASSUME NEW s \in Sources, TopUp(a, s) PROVE Moves(a)
  BY <1>1, Started DEF TopUp, Pcs
<1>2. CASE AddTopUp(a)
  <2>1. <<Credit(Grant)>> \in Seq(Leg) /\ <<>> \in Seq(Leg)
    BY Legs, Constants
  <2> QED BY <1>2, <2>1, MovesOn DEF AddTopUp
<1>3. CASE CloseWallet(a)
  BY <1>3, Started DEF CloseWallet, Pcs
<1>4. /\ residue.paid \in Nat /\ residue.promo \in Nat /\ residue.dated \in Nat /\ residue.lapsed \in Nat
  BY DEF StoreInv, WalletOK
<1>5. CASE Close(a)
  <2>1. <<Credit(-residue.paid), Credit(-(residue.promo + residue.dated + residue.lapsed))>> \in Seq(Leg)
    BY <1>4, Legs
  <2> QED BY <1>5, <2>1, MovesOn DEF Close
<1>6. CASE ExpireOverdue(a)
  <2>1. <<Credit(-residue.lapsed)>> \in Seq(Leg)
    BY <1>4, Legs
  <2> QED BY <1>6, <2>1, MovesOn DEF ExpireOverdue
<1> QED BY <1>1, <1>2, <1>3, <1>5, <1>6 DEF Keeping

LEMMA WriteOffMoves ==
    ASSUME StoreInv, NEW a \in Actors, NEW n \in Notes, NEW status, WriteOff(a, n, status)
    PROVE  Moves(a)
<1>1. note[n].balance \in 0..NoteAmount
  BY DEF StoreInv, NoteType
<1>2. <<Credit(-note[n].balance)>> \in Seq(Leg)
  BY <1>1, Legs
<1> QED BY <1>2, MovesOn DEF WriteOff

LEMMA NotingMoves == ASSUME StoreInv, NEW a \in Actors, Noting(a) PROVE Moves(a)
<1>1. ASSUME NEW n \in Notes, CreateNote(a, n) PROVE Moves(a)
  <2>1. <<Credit(NoteAmount)>> \in Seq(Leg) /\ <<>> \in Seq(Leg)
    BY Legs, Constants
  <2> QED BY <1>1, <2>1, MovesOn DEF CreateNote
<1>2. ASSUME NEW n \in Notes, ClaimExpiredCredit(a, n) PROVE Moves(a)
  BY <1>2, WriteOffMoves DEF ClaimExpiredCredit
<1>3. ASSUME NEW n \in Notes, NEW op \in {"approve", "reject", "void"}, Load(a, n, op)
      PROVE  Moves(a)
  BY <1>3, Started DEF Load, Pcs
<1>4. CASE Approve(a)
  <2>1. <<Credit(NoteAmount)>> \in Seq(Leg) /\ <<>> \in Seq(Leg)
    BY Legs, Constants
  <2> QED BY <1>4, <2>1, MovesOn DEF Approve
<1>5. CASE Reject(a)
  BY <1>5, MovesOn DEF Reject
<1>6. CASE VoidAdjustmentCredit(a)
  <2>1. actor[a].note \in Notes
    BY <1>6, Held DEF VoidAdjustmentCredit, At, ActorOK
  <2> QED BY <1>6, <2>1, WriteOffMoves, MovesOn DEF VoidAdjustmentCredit
<1> QED BY <1>1, <1>2, <1>3, <1>4, <1>5, <1>6 DEF Noting

LEMMA ActsMove == ASSUME StoreInv, NEW a \in Actors, Acts(a) PROVE Moves(a)
<1>1. CASE Post(a) \/ LosePosting(a)
  <2>1. Tail(actor[a].todo) \in Seq(Leg)
    <3>1. actor[a].todo \in Seq(Leg) /\ actor[a].todo # <<>>
      BY <1>1, Held DEF Post, LosePosting
    <3> QED BY <3>1
  <2>2. actor' = [actor EXCEPT ![a].todo = Tail(actor[a].todo)]
    BY <1>1 DEF Post, LosePosting, StoreInv
  <2> QED BY <2>1, <2>2, MovesOn
<1>2. CASE Crash(a)
  BY <1>2, MovesOn DEF Crash
<1> QED BY <1>1, <1>2, GeneratingMoves, RechargingMoves, KeepingMoves, NotingMoves DEF Acts

----------------------------------------------------------------------------
(* The wallet: its balance moves with what is left of its top-ups.         *)

LEMMA WalletParts ==
    ASSUME StoreInv
    PROVE  /\ residue.paid \in Nat /\ residue.promo \in Nat /\ residue.dated \in Nat /\ residue.lapsed \in Nat
           /\ wallet.balance \in Nat /\ wallet.closed \in BOOLEAN
           /\ wallet.balance = residue.paid + residue.promo + residue.dated + residue.lapsed
           /\ wallet = [balance |-> wallet.balance, closed |-> wallet.closed]
           /\ residue = [paid |-> residue.paid, promo |-> residue.promo, dated |-> residue.dated,
                         lapsed |-> residue.lapsed]
<1>1. /\ wallet \in [balance : Nat, closed : BOOLEAN]
      /\ residue \in [paid : Nat, promo : Nat, dated : Nat, lapsed : Nat]
  BY DEF StoreInv, WalletOK
<1>2. wallet.balance = residue.paid + residue.promo + residue.dated + residue.lapsed
  BY DEF StoreInv, WalletOK, WalletIsItsTopUps, Total4
<1> QED BY <1>1, <1>2

\* The rows a step writes, field by field.
LEMMA WalletWritten ==
    ASSUME wallet' \in [balance : Nat, closed : BOOLEAN],
           residue' \in [paid : Nat, promo : Nat, dated : Nat, lapsed : Nat],
           wallet'.balance = residue'.paid + residue'.promo + residue'.dated + residue'.lapsed
    PROVE  WalletOK'
BY DEF WalletOK, WalletIsItsTopUps, Total4

LEMMA ReceivedStep ==
    ASSUME StoreInv, NEW s \in {"paid", "promo", "dated"}, NEW m \in Nat, Received(s, m)
    PROVE  WalletOK'
<1>1. PICK w \in [balance : Nat, closed : BOOLEAN] : w = wallet
  BY DEF StoreInv, WalletOK
<1>2. PICK r \in [paid : Nat, promo : Nat, dated : Nat, lapsed : Nat] : r = residue
  BY DEF StoreInv, WalletOK
<1>3. wallet' = [w EXCEPT !.balance = w.balance + m]
  BY <1>1 DEF Received
<1>4. w.balance = r.paid + r.promo + r.dated + r.lapsed
  BY <1>1, <1>2, WalletParts
<1>5. wallet' \in [balance : Nat, closed : BOOLEAN] /\ wallet'.balance = w.balance + m
  BY <1>3
<1>6. CASE s = "paid"
  <2>1. residue' = [r EXCEPT !.paid = r.paid + m]
    BY <1>2, <1>6 DEF Received
  <2> QED BY <1>4, <1>5, <2>1, WalletWritten
<1>7. CASE s = "promo"
  <2>1. residue' = [r EXCEPT !.promo = r.promo + m]
    BY <1>2, <1>7 DEF Received
  <2> QED BY <1>4, <1>5, <2>1, WalletWritten
<1>8. CASE s = "dated"
  <2>1. residue' = [r EXCEPT !.dated = r.dated + m]
    BY <1>2, <1>8 DEF Received
  <2> QED BY <1>4, <1>5, <2>1, WalletWritten
<1> QED BY <1>6, <1>7, <1>8

LEMMA DrainStep == ASSUME StoreInv, NEW a \in Actors, Drain(a) PROVE WalletOK'
<1>1. PICK w \in [balance : Nat, closed : BOOLEAN] : w = wallet
  BY DEF StoreInv, WalletOK
<1>2. PICK r \in [paid : Nat, promo : Nat, dated : Nat, lapsed : Nat] : r = residue
  BY DEF StoreInv, WalletOK
<1>3. w.balance = r.paid + r.promo + r.dated + r.lapsed
  BY <1>1, <1>2, WalletParts
<1>4. CASE UNCHANGED store
  BY <1>4 DEF StoreInv, WalletOK, WalletIsItsTopUps, store
<1>5. CASE ~UNCHANGED store
  <2> DEFINE taken == Least(Total, r.paid + r.promo + r.dated)
             dated == Least(taken, r.dated)
  <2>1. /\ taken \in Nat /\ taken <= r.paid + r.promo + r.dated
        /\ dated \in Nat /\ dated <= taken /\ dated <= r.dated
    BY Constants DEF Least
  <2>2. PICK promo \in 0..Least(taken - dated, r.promo) :
           /\ taken - dated - promo <= r.paid
           /\ residue' = [r EXCEPT !.dated = r.dated - dated, !.promo = r.promo - promo,
                                   !.paid = r.paid - (taken - dated - promo)]
           /\ wallet' = [w EXCEPT !.balance = w.balance - taken]
    BY <1>1, <1>2, <1>5 DEF Drain, store
  <2> HIDE DEF taken, dated
  <2>3. promo \in Nat /\ promo <= r.promo /\ promo <= taken - dated
    BY <2>1, <2>2 DEF Least
  <2>4. taken - dated - promo \in Nat /\ taken <= w.balance
    BY <1>3, <2>1, <2>3
  <2>5. wallet' \in [balance : Nat, closed : BOOLEAN] /\ wallet'.balance = w.balance - taken
    BY <2>1, <2>2, <2>4
  <2>6. /\ residue' \in [paid : Nat, promo : Nat, dated : Nat, lapsed : Nat]
        /\ residue'.dated = r.dated - dated /\ residue'.promo = r.promo - promo
        /\ residue'.paid = r.paid - (taken - dated - promo) /\ residue'.lapsed = r.lapsed
    <3>1. r.dated - dated \in Nat /\ r.promo - promo \in Nat /\ r.paid - (taken - dated - promo) \in Nat
      BY <2>1, <2>2, <2>3, <2>4
    <3> QED BY <2>2, <3>1
  <2>7. wallet'.balance = residue'.paid + residue'.promo + residue'.dated + residue'.lapsed
    BY <1>3, <2>1, <2>3, <2>5, <2>6
  <2> QED BY <2>5, <2>6, <2>7, WalletWritten
<1> QED BY <1>4, <1>5

LEMMA CloseStep == ASSUME StoreInv, NEW a \in Actors, Close(a) PROVE WalletOK'
<1>1. CASE UNCHANGED store
  BY <1>1 DEF StoreInv, WalletOK, WalletIsItsTopUps, store
<1>2. CASE /\ wallet' = [balance |-> 0, closed |-> TRUE]
           /\ residue' = [paid |-> 0, promo |-> 0, dated |-> 0, lapsed |-> 0]
  BY <1>2, WalletWritten
<1> QED BY <1>1, <1>2 DEF Close

LEMMA LapseStep == ASSUME StoreInv, Lapse PROVE WalletOK'
<1>1. PICK r \in [paid : Nat, promo : Nat, dated : Nat, lapsed : Nat] : r = residue
  BY DEF StoreInv, WalletOK
<1>2. residue' = [r EXCEPT !.dated = 0, !.lapsed = r.lapsed + r.dated] /\ wallet' = wallet
  BY <1>1 DEF Lapse
<1>3. /\ residue' \in [paid : Nat, promo : Nat, dated : Nat, lapsed : Nat]
      /\ residue'.paid = r.paid /\ residue'.promo = r.promo /\ residue'.dated = 0
      /\ residue'.lapsed = r.lapsed + r.dated
  <2>1. r.lapsed + r.dated \in Nat
    OBVIOUS
  <2> QED BY <1>2, <2>1
<1>4. wallet.balance = r.paid + r.promo + r.dated + r.lapsed
  BY <1>1, WalletParts
<1>5. wallet \in [balance : Nat, closed : BOOLEAN]
  BY DEF StoreInv, WalletOK
<1> QED BY <1>2, <1>3, <1>4, <1>5, WalletWritten

LEMMA ExpireStep == ASSUME StoreInv, NEW a \in Actors, ExpireOverdue(a) PROVE WalletOK'
<1>1. PICK r \in [paid : Nat, promo : Nat, dated : Nat, lapsed : Nat] : r = residue
  BY DEF StoreInv, WalletOK
<1>2. PICK w \in [balance : Nat, closed : BOOLEAN] : w = wallet
  BY DEF StoreInv, WalletOK
<1>3. w.balance = r.paid + r.promo + r.dated + r.lapsed
  BY <1>1, <1>2, WalletParts
<1>4. wallet' = [w EXCEPT !.balance = w.balance - r.lapsed]
  BY <1>1, <1>2, <1>3 DEF ExpireOverdue
<1>5. residue' = [r EXCEPT !.lapsed = 0]
  BY <1>1 DEF ExpireOverdue
<1>6. wallet' \in [balance : Nat, closed : BOOLEAN] /\ wallet'.balance = w.balance - r.lapsed
  BY <1>3, <1>4
<1>7. /\ residue' \in [paid : Nat, promo : Nat, dated : Nat, lapsed : Nat]
      /\ residue'.paid = r.paid /\ residue'.promo = r.promo /\ residue'.dated = r.dated
      /\ residue'.lapsed = 0
  BY <1>5
<1> QED BY <1>3, <1>6, <1>7, WalletWritten

LEMMA WalletStep == ASSUME StoreInv, [Next]_vars PROVE WalletOK'
<1>1. CASE UNCHANGED store
  BY <1>1 DEF StoreInv, WalletOK, WalletIsItsTopUps, store
<1>2. CASE Environment
  BY <1>1, <1>2, LapseStep DEF Environment, FallDue, ForgetKey
<1>3. ASSUME NEW a \in Actors, Post(a) \/ LosePosting(a) \/ Crash(a) PROVE UNCHANGED store
  BY <1>3 DEF Post, LosePosting, Crash
<1>4. ASSUME NEW a \in Actors, Generating(a), ~Drain(a) PROVE UNCHANGED store
  BY <1>4
  DEF Generating, CreateInvoice, RecordInvoiceLeg, LookUpWallet, PersistDrain, StatementFails,
              ApplyAdjustmentCredits
<1>5. ASSUME NEW a \in Actors, Recharging(a), ~CreditRecharge(a) PROVE UNCHANGED store
  BY <1>5 DEF Recharging, ListDueForRecharge, ChargeSavedPaymentMethod, ChargeUnanswered
<1>6. ASSUME NEW a \in Actors, Noting(a) PROVE UNCHANGED store
  BY <1>6 DEF Noting, CreateNote, ClaimExpiredCredit, Load, Approve, Reject, VoidAdjustmentCredit
<1>7. ASSUME NEW a \in Actors, CreditRecharge(a) PROVE WalletOK'
  BY <1>1, <1>7, ReceivedStep, Constants DEF CreditRecharge
<1>8. ASSUME NEW a \in Actors, Keeping(a) PROVE WalletOK'
  <2>1. CASE AddTopUp(a)
    BY <2>1, ReceivedStep, Constants, Held DEF AddTopUp
  <2>2. ASSUME NEW s \in Sources, TopUp(a, s) PROVE UNCHANGED store
    BY <2>2 DEF TopUp
  <2>3. CASE CloseWallet(a)
    BY <1>1, <2>3 DEF CloseWallet
  <2> QED BY <1>1, <1>8, <2>1, <2>2, <2>3, CloseStep, ExpireStep DEF Keeping
<1>9. UNCHANGED vars => UNCHANGED store
  BY DEF vars, store
<1> QED BY <1>1, <1>2, <1>3, <1>4, <1>5, <1>6, <1>7, <1>8, <1>9, DrainStep, Steps DEF Acts

----------------------------------------------------------------------------
(* The notes.                                                              *)

Final == {"used", "expired", "void", "rejected"}
Note == [status : {None, "pending", "issued", "used", "expired", "void", "rejected"},
         balance : 0..NoteAmount, due : BOOLEAN]

\* What a step may do to a note: none that came to an end moves, and one that waits
\* for its approval has all of its amount.
NoteMoves(x, y) ==
    /\ y \in Note
    /\ x.status \in Final => y.status = x.status /\ y.balance = x.balance
    /\ y.status = "pending" =>
         y.balance = NoteAmount \/ (x.status = "pending" /\ y.balance = x.balance)
NotesMove == \A n \in Notes : NoteMoves(note[n], note'[n])

LEMMA NoteParts ==
    ASSUME StoreInv
    PROVE  note \in [Notes -> Note] /\ \A n \in Notes : note[n] \in Note
BY DEF StoreInv, NoteType, Note

\* A step that writes one note.
LEMMA OneNote ==
    ASSUME StoreInv, NEW n \in Notes \cup {None}, NEW y, note' = [note EXCEPT ![n] = y],
           n \in Notes => NoteMoves(note[n], y)
    PROVE  note' \in [Notes -> Note] /\ NotesMove
BY NoteParts DEF NotesMove, NoteMoves

LEMMA NoteFields ==
    ASSUME NEW x \in Note,
           NEW st \in {None, "pending", "issued", "used", "expired", "void", "rejected"},
           NEW b \in 0..NoteAmount
    PROVE  /\ [x EXCEPT !.status = st] \in Note
           /\ [x EXCEPT !.status = st].balance = x.balance /\ [x EXCEPT !.status = st].status = st
           /\ [x EXCEPT !.due = TRUE] \in Note
           /\ [x EXCEPT !.due = TRUE].balance = x.balance /\ [x EXCEPT !.due = TRUE].status = x.status
           /\ [x EXCEPT !.status = st, !.balance = b] \in Note
           /\ [x EXCEPT !.balance = b, !.status = st] \in Note
           /\ [x EXCEPT !.balance = b, !.status = st].balance = b
           /\ [x EXCEPT !.balance = b, !.status = st].status = st
BY DEF Note

LEMMA WriteOffStep ==
    ASSUME StoreInv, NEW a \in Actors, NEW n \in Notes, NEW st \in {"void", "expired"},
           Spendable(n) > 0, WriteOff(a, n, st)
    PROVE  note' \in [Notes -> Note] /\ NotesMove
<1>1. note[n].status = "issued" /\ 0 \in 0..NoteAmount
  BY Constants DEF Spendable
<1>2. note[n] \in Note
  BY NoteParts
<1>3. NoteMoves(note[n], [[note[n] EXCEPT !.status = st] EXCEPT !.balance = 0])
  BY <1>1, <1>2 DEF Note, NoteMoves, Final
<1>4. note' = [note EXCEPT ![n] = [[note[n] EXCEPT !.status = st] EXCEPT !.balance = 0]]
  BY NoteParts DEF WriteOff
<1> QED BY <1>3, <1>4, OneNote

LEMMA ApplyNotes ==
    ASSUME StoreInv, NEW a \in Actors, ApplyAdjustmentCredits(a)
    PROVE  note' \in [Notes -> Note] /\ NotesMove
<1>1. CASE UNCHANGED note
  BY <1>1, NoteParts DEF NotesMove, NoteMoves
<1>2. ASSUME NEW from \in [Notes -> 0..NoteAmount], NEW available,
             available = [n \in Notes |-> Spendable(n)],
             \A n \in Notes : from[n] <= available[n],
             note' = [n \in Notes |->
                 [note[n] EXCEPT !.balance = note[n].balance - from[n],
                                 !.status = IF from[n] > 0 /\ from[n] = available[n]
                                            THEN "used" ELSE note[n].status]]
      PROVE  note' \in [Notes -> Note] /\ NotesMove
  <2>1. ASSUME NEW n \in Notes
        PROVE  NoteMoves(note[n], note'[n])
    <3>1. PICK x \in Note : x = note[n]
      BY NoteParts
    <3>2. /\ x.balance \in 0..NoteAmount /\ NoteAmount \in Nat /\ from[n] \in 0..NoteAmount
          /\ x.status \in {None, "pending", "issued", "used", "expired", "void", "rejected"}
      BY <1>2, <3>1, Constants DEF Note
    <3>3. /\ from[n] <= x.balance
          /\ x.status # "issued" => from[n] = 0
      <4>1. from[n] <= IF x.status = "issued" THEN x.balance ELSE 0
        BY <1>2, <3>1 DEF Spendable
      <4> QED BY <3>2, <4>1
    <3>4. x.balance - from[n] \in 0..NoteAmount
      BY <3>2, <3>3
    <3> DEFINE st == IF from[n] > 0 /\ from[n] = available[n] THEN "used" ELSE x.status
               b == x.balance - from[n]
    <3>5. st \in {None, "pending", "issued", "used", "expired", "void", "rejected"}
      BY <3>2
    <3>6. note'[n] = [x EXCEPT !.balance = b, !.status = st]
      BY <1>2, <3>1
    <3>7. /\ x.status \in Final => st = x.status /\ b = x.balance
          /\ st = "pending" => x.status = "pending" /\ b = x.balance
      BY <3>2, <3>3 DEF Final
    <3> HIDE DEF st, b
    <3>8. b \in 0..NoteAmount
      BY <3>4 DEF b
    <3>9. /\ [x EXCEPT !.balance = b, !.status = st] \in Note
          /\ [x EXCEPT !.balance = b, !.status = st].balance = b
          /\ [x EXCEPT !.balance = b, !.status = st].status = st
      BY <3>5, <3>8 DEF Note
    <3> QED BY <3>1, <3>6, <3>7, <3>9 DEF NoteMoves
  <2> QED BY <1>2, <2>1 DEF NotesMove, NoteMoves
<1>3. \/ UNCHANGED note
      \/ \E from \in [Notes -> 0..NoteAmount] :
            LET available == [n \in Notes |-> Spendable(n)] IN
            /\ \A n \in Notes : from[n] <= available[n]
            /\ note' = [n \in Notes |->
                 [note[n] EXCEPT !.balance = note[n].balance - from[n],
                                 !.status = IF from[n] > 0 /\ from[n] = available[n]
                                            THEN "used" ELSE note[n].status]]
  BY DEF ApplyAdjustmentCredits
<1> QED BY <1>1, <1>2, <1>3

LEMMA NotingStep ==
    ASSUME StoreInv, NEW a \in Actors, Noting(a)
    PROVE  note' \in [Notes -> Note] /\ NotesMove
<1>0. ASSUME UNCHANGED note PROVE note' \in [Notes -> Note] /\ NotesMove
  BY <1>0, NoteParts DEF NotesMove, NoteMoves
<1>1. ASSUME NEW n \in Notes, CreateNote(a, n) PROVE note' \in [Notes -> Note] /\ NotesMove
  <2>1. PICK x \in Note : x = note[n]
    BY NoteParts
  <2>2. PICK st \in {"issued", "pending"} :
           note' = [note EXCEPT ![n].status = st, ![n].balance = NoteAmount]
    BY <1>1 DEF CreateNote
  <2>3. note' = [note EXCEPT ![n] = [[x EXCEPT !.status = st] EXCEPT !.balance = NoteAmount]]
    BY <2>1, <2>2, NoteParts
  <2>4. NoteAmount \in 0..NoteAmount
    BY Constants
  <2>5. note[n].status \notin Final
    BY <1>1 DEF CreateNote, Final, None
  <2>6. NoteMoves(note[n], [[x EXCEPT !.status = st] EXCEPT !.balance = NoteAmount])
    BY <2>1, <2>4, <2>5 DEF Note, NoteMoves
  <2> QED BY <2>3, <2>6, OneNote
<1>2. ASSUME NEW n \in Notes, ClaimExpiredCredit(a, n) PROVE note' \in [Notes -> Note] /\ NotesMove
  BY <1>2, WriteOffStep DEF ClaimExpiredCredit
<1>3. ASSUME NEW n \in Notes, NEW op \in {"approve", "reject", "void"}, Load(a, n, op)
      PROVE  note' \in [Notes -> Note] /\ NotesMove
  BY <1>0, <1>3 DEF Load
<1>4. actor[a].note \in Notes \cup {None}
  BY Held
<1>5. \A st \in {"issued", "rejected"}, n \in Notes \cup {None} :
        note' = [note EXCEPT ![n].status = st] /\ note[n].status = "pending"
          => note' \in [Notes -> Note] /\ NotesMove
  <2> SUFFICES ASSUME NEW st \in {"issued", "rejected"}, NEW n \in Notes \cup {None},
                      note' = [note EXCEPT ![n].status = st], note[n].status = "pending"
               PROVE  note' \in [Notes -> Note] /\ NotesMove
    OBVIOUS
  <2>1. note' = [note EXCEPT ![n] = [note[n] EXCEPT !.status = st]]
    BY NoteParts
  <2>2. n \in Notes => NoteMoves(note[n], [note[n] EXCEPT !.status = st])
    BY NoteParts DEF Note, NoteMoves, Final
  <2> QED BY <2>1, <2>2, OneNote
<1>6. CASE Approve(a)
  BY <1>0, <1>4, <1>5, <1>6 DEF Approve
<1>7. CASE Reject(a)
  <2> DEFINE n == actor[a].note
  <2>1. note' = [note EXCEPT ![n].status = IF note[n].status = "pending" THEN "rejected" ELSE note[n].status]
    BY <1>7, NoteParts DEF Reject
  <2>2. CASE note[n].status = "pending"
    BY <1>4, <1>5, <2>1, <2>2
  <2>3. CASE note[n].status # "pending"
    <3>1. note' = [note EXCEPT ![n].status = note[n].status]
      BY <2>1, <2>3
    <3>2. n \in Notes => [note[n] EXCEPT !.status = note[n].status] = note[n]
      BY NoteParts DEF Note
    <3>3. note' = note
      BY <3>1, <3>2, NoteParts
    <3> QED BY <1>0, <3>3
  <2> QED BY <2>2, <2>3
<1>8. CASE VoidAdjustmentCredit(a)
  <2>1. actor[a].note \in Notes
    BY <1>8, Held DEF VoidAdjustmentCredit, At, ActorOK
  <2> QED BY <1>0, <1>8, <2>1, WriteOffStep DEF VoidAdjustmentCredit
<1> QED BY <1>1, <1>2, <1>3, <1>6, <1>7, <1>8 DEF Noting

LEMMA NoteStep == ASSUME StoreInv, [Next]_vars PROVE note' \in [Notes -> Note] /\ NotesMove
<1>0. ASSUME UNCHANGED note PROVE note' \in [Notes -> Note] /\ NotesMove
  BY <1>0, NoteParts DEF NotesMove, NoteMoves
<1>1. CASE Environment
  <2>1. ASSUME NEW n \in Notes, FallDue(n) PROVE note' \in [Notes -> Note] /\ NotesMove
    <3>1. note' = [note EXCEPT ![n] = [note[n] EXCEPT !.due = TRUE]]
      BY <2>1, NoteParts DEF FallDue
    <3>2. NoteMoves(note[n], [note[n] EXCEPT !.due = TRUE])
      BY NoteParts DEF Note, NoteMoves
    <3> QED BY <3>1, <3>2, OneNote
  <2> QED BY <1>0, <1>1, <2>1 DEF Environment, Lapse, ForgetKey
<1>2. ASSUME NEW a \in Actors, Post(a) \/ LosePosting(a) \/ Crash(a) PROVE UNCHANGED note
  BY <1>2 DEF Post, LosePosting, Crash
<1>3. ASSUME NEW a \in Actors, Generating(a), ~ApplyAdjustmentCredits(a),
             ~\E i \in Invoices : CreateInvoice(a, i)
      PROVE  UNCHANGED note
  BY <1>3 DEF Generating, RecordInvoiceLeg, LookUpWallet, PersistDrain, StatementFails, Drain
<1>4. ASSUME NEW a \in Actors, NEW i \in Invoices, CreateInvoice(a, i) PROVE UNCHANGED note
  BY <1>4 DEF CreateInvoice
<1>5. ASSUME NEW a \in Actors, Recharging(a) PROVE UNCHANGED note
  BY <1>5
  DEF Recharging, ListDueForRecharge, ChargeSavedPaymentMethod, ChargeUnanswered, CreditRecharge
<1>6. ASSUME NEW a \in Actors, Keeping(a) PROVE UNCHANGED note
  BY <1>6 DEF Keeping, TopUp, AddTopUp, CloseWallet, Close, ExpireOverdue
<1>7. UNCHANGED vars => UNCHANGED note
  BY DEF vars
<1> QED BY <1>0, <1>1, <1>2, <1>3, <1>4, <1>5, <1>6, <1>7, ApplyNotes, NotingStep, Steps DEF Acts

----------------------------------------------------------------------------
(* The invoices and the accounts.                                          *)

InvoiceRow == [status : {None, "open", "paid"}, amountPaid : 0..Total, creditApplied : 0..Total]

LEMMA InvoiceStep == ASSUME StoreInv, [Next]_vars PROVE InvoiceType'
<1>0. /\ invoice \in [Invoices -> InvoiceRow]
      /\ drawn \in [Invoices -> [wallet : Nat, credit : Nat]]
      /\ InvoiceType' <=> /\ invoice' \in [Invoices -> InvoiceRow]
                          /\ drawn' \in [Invoices -> [wallet : Nat, credit : Nat]]
  BY DEF StoreInv, InvoiceType, InvoiceRow
<1>1. ASSUME UNCHANGED <<invoice, drawn>> PROVE InvoiceType'
  BY <1>0, <1>1
<1>2. ASSUME NEW i, NEW y \in InvoiceRow, invoice' = [invoice EXCEPT ![i] = y]
      PROVE  invoice' \in [Invoices -> InvoiceRow]
  BY <1>0, <1>2
<1>3. ASSUME NEW a \in Actors, NEW i \in Invoices, CreateInvoice(a, i) PROVE InvoiceType'
  <2>1. invoice' = [invoice EXCEPT ![i] = [invoice[i] EXCEPT !.status = "open"]]
    BY <1>0, <1>3 DEF CreateInvoice
  <2>2. [invoice[i] EXCEPT !.status = "open"] \in InvoiceRow
    BY <1>0 DEF InvoiceRow
  <2>3. drawn' = drawn
    BY <1>3 DEF CreateInvoice
  <2> QED BY <1>0, <1>2, <2>1, <2>2, <2>3
<1>4. ASSUME NEW a \in Actors, Drain(a) PROVE InvoiceType'
  <2>1. CASE UNCHANGED drawn
    BY <1>1, <1>4, <2>1 DEF Drain
  <2>2. CASE ~UNCHANGED drawn
    <3> DEFINE taken == Least(Total, residue.paid + residue.promo + residue.dated)
               i == actor[a].invoice
    <3>1. taken \in Nat
      BY Constants, WalletParts DEF Least
    <3>2. drawn' = [drawn EXCEPT ![i].wallet = drawn[i].wallet + taken] /\ invoice' = invoice
      BY <1>4, <2>2 DEF Drain
    <3> HIDE DEF taken
    <3>3. i \in Invoices => [drawn[i] EXCEPT !.wallet = drawn[i].wallet + taken] \in [wallet : Nat, credit : Nat]
      <4>1. i \in Invoices => drawn[i] \in [wallet : Nat, credit : Nat] /\ drawn[i].wallet + taken \in Nat
        BY <1>0, <3>1
      <4> QED BY <4>1
    <3>4. drawn' = [drawn EXCEPT ![i] = [drawn[i] EXCEPT !.wallet = drawn[i].wallet + taken]]
      BY <1>0, <3>2
    <3>5. drawn' \in [Invoices -> [wallet : Nat, credit : Nat]]
      BY <1>0, <3>3, <3>4
    <3> QED BY <1>0, <3>2, <3>5
  <2> QED BY <2>1, <2>2
<1>5. ASSUME NEW a \in Actors, PersistDrain(a) PROVE InvoiceType'
  <2> DEFINE y == [status |-> Covered(Total, actor[a].paid), amountPaid |-> actor[a].paid, creditApplied |-> 0]
  <2>1. actor[a].paid \in 0..Total /\ 0 \in 0..Total
    <3>1. actor[a].paid \in 0..Total
      BY Held
    <3> QED BY <3>1, Constants
  <2>2. y \in InvoiceRow
    BY <2>1 DEF InvoiceRow, Covered
  <2>3. invoice' = [invoice EXCEPT ![actor[a].invoice] = y] /\ drawn' = drawn
    BY <1>5 DEF PersistDrain
  <2> HIDE DEF y
  <2> QED BY <1>0, <1>2, <2>2, <2>3
<1>6. ASSUME NEW a \in Actors, ApplyAdjustmentCredits(a) PROVE InvoiceType'
  <2> DEFINE i == actor[a].invoice
  <2>1. CASE UNCHANGED <<invoice, drawn>>
    BY <1>1, <2>1
  <2>2. ASSUME NEW applied \in 1..(Total - actor[a].paid),
               invoice' = [invoice EXCEPT ![i].creditApplied = applied,
                             ![i].status = IF applied >= Total - actor[a].paid THEN "paid" ELSE @],
               drawn' = [drawn EXCEPT ![i].credit = drawn[i].credit + applied]
        PROVE  InvoiceType'
    <3>1. actor[a].paid \in 0..Total
      BY Held
    <3>2. applied \in 0..Total /\ applied \in Nat
      BY <3>1, Constants
    <3>3. i \in Invoices => [drawn[i] EXCEPT !.credit = drawn[i].credit + applied] \in [wallet : Nat, credit : Nat]
      <4>1. i \in Invoices => drawn[i] \in [wallet : Nat, credit : Nat] /\ drawn[i].credit + applied \in Nat
        BY <1>0, <3>2
      <4> QED BY <4>1
    <3>4. drawn' = [drawn EXCEPT ![i] = [drawn[i] EXCEPT !.credit = drawn[i].credit + applied]]
      BY <1>0, <2>2
    <3>5. drawn' \in [Invoices -> [wallet : Nat, credit : Nat]]
      BY <1>0, <3>3, <3>4
    <3> DEFINE st == IF applied >= Total - actor[a].paid THEN "paid" ELSE invoice[i].status
    <3>6. invoice' = [invoice EXCEPT ![i] = [[invoice[i] EXCEPT !.creditApplied = applied] EXCEPT !.status = st]]
      BY <1>0, <2>2
    <3>7. i \in Invoices => st \in {None, "open", "paid"}
      BY <1>0 DEF InvoiceRow
    <3> HIDE DEF st
    <3>8. i \in Invoices => [[invoice[i] EXCEPT !.creditApplied = applied] EXCEPT !.status = st] \in InvoiceRow
      BY <1>0, <3>2, <3>7 DEF InvoiceRow
    <3>9. invoice' \in [Invoices -> InvoiceRow]
      BY <1>0, <3>6, <3>8
    <3> QED BY <1>0, <3>5, <3>9
  <2> QED BY <1>6, <2>1, <2>2 DEF ApplyAdjustmentCredits
<1>7. Environment => UNCHANGED <<invoice, drawn>>
  BY DEF Environment, Lapse, FallDue, ForgetKey
<1>8. ASSUME NEW a \in Actors, Post(a) \/ LosePosting(a) \/ Crash(a)
      PROVE  UNCHANGED <<invoice, drawn>>
  BY <1>8 DEF Post, LosePosting, Crash
<1>9. ASSUME NEW a \in Actors, Recharging(a) \/ Keeping(a) PROVE UNCHANGED <<invoice, drawn>>
  <2>1. CASE Recharging(a)
    BY <2>1
    DEF Recharging, ListDueForRecharge, ChargeSavedPaymentMethod, ChargeUnanswered, CreditRecharge
  <2>2. CASE Keeping(a)
    BY <2>2 DEF Keeping, TopUp, AddTopUp, CloseWallet, Close, ExpireOverdue
  <2> QED BY <1>9, <2>1, <2>2
<1>10. ASSUME NEW a \in Actors, Noting(a) PROVE UNCHANGED <<invoice, drawn>>
  BY <1>10 DEF Noting, CreateNote, ClaimExpiredCredit, Load, Approve, Reject, VoidAdjustmentCredit
<1>11. ASSUME NEW a \in Actors, Generating(a) PROVE InvoiceType'
  BY <1>1, <1>3, <1>4, <1>5, <1>6, <1>11
  DEF Generating, RecordInvoiceLeg, LookUpWallet, StatementFails
<1>12. UNCHANGED vars => UNCHANGED <<invoice, drawn>>
  BY DEF vars
<1> QED BY <1>1, <1>7, <1>8, <1>9, <1>10, <1>11, <1>12, Steps DEF Acts

LEMMA BooksStep == ASSUME StoreInv, [Next]_vars PROVE BooksType'
<1>0. ASSUME UNCHANGED books PROVE BooksType'
  BY <1>0 DEF StoreInv, BooksType
<1>1. ASSUME NEW a \in Actors, Post(a) PROVE BooksType'
  <2>1. actor[a].todo \in Seq(Leg) /\ actor[a].todo # <<>>
    BY <1>1, Held DEF Post
  <2>2. Head(actor[a].todo) \in Leg
    BY <2>1
  <2>3. PICK leg \in Leg : leg = Head(actor[a].todo)
    BY <2>2
  <2>4. books' = [credit |-> books.credit + leg.amount,
                  receivable |-> [i \in Invoices |->
                      books.receivable[i] + IF i = leg.invoice THEN leg.amount ELSE 0]]
    BY <1>1, <2>3 DEF Post
  <2>5. /\ leg.amount \in Int /\ books.credit \in Int
        /\ \A i \in Invoices : books.receivable[i] \in Int
    BY DEF Leg, StoreInv, BooksType
  <2> QED BY <2>4, <2>5 DEF BooksType
<1>2. ASSUME NEW a \in Actors, RecordInvoiceLeg(a) PROVE BooksType'
  <2> DEFINE i == actor[a].invoice
             f == [books.receivable EXCEPT ![i] = books.receivable[i] + Total]
  <2>1. books \in [credit : Int, receivable : [Invoices -> Int]]
    BY DEF StoreInv, BooksType
  <2>2. f \in [Invoices -> Int]
    <3>1. i \in Invoices => books.receivable[i] + Total \in Int
      BY <2>1, Constants
    <3> QED BY <2>1, <3>1
  <2>3. books' = [books EXCEPT !.receivable = f]
    BY <1>2, <2>1 DEF RecordInvoiceLeg
  <2> HIDE DEF f
  <2> QED BY <2>1, <2>2, <2>3 DEF BooksType
<1>3. Environment => UNCHANGED books
  BY DEF Environment, Lapse, FallDue, ForgetKey
<1>4. ASSUME NEW a \in Actors, Recharging(a) \/ Keeping(a) PROVE UNCHANGED books
  <2>1. CASE Recharging(a)
    BY <2>1
    DEF Recharging, ListDueForRecharge, ChargeSavedPaymentMethod, ChargeUnanswered, CreditRecharge
  <2>2. CASE Keeping(a)
    BY <2>2 DEF Keeping, TopUp, AddTopUp, CloseWallet, Close, ExpireOverdue
  <2> QED BY <1>4, <2>1, <2>2
<1>5. ASSUME NEW a \in Actors, Noting(a) PROVE UNCHANGED books
  BY <1>5 DEF Noting, CreateNote, ClaimExpiredCredit, Load, Approve, Reject, VoidAdjustmentCredit
<1>6. ASSUME NEW a \in Actors, Generating(a) PROVE BooksType'
  BY <1>0, <1>2, <1>6
  DEF Generating, CreateInvoice, LookUpWallet, Drain, PersistDrain, StatementFails,
                          ApplyAdjustmentCredits
<1>7. ASSUME NEW a \in Actors, LosePosting(a) \/ Crash(a) PROVE UNCHANGED books
  BY <1>7 DEF LosePosting, Crash
<1>8. UNCHANGED vars => UNCHANGED books
  BY DEF vars
<1> QED BY <1>0, <1>1, <1>3, <1>4, <1>5, <1>6, <1>7, <1>8, Steps DEF Acts

----------------------------------------------------------------------------
(* The keys of recharges.  A key is in hand between the charge and the     *)
(* top-up.  Charged keys that are lost, neither credited nor in hand, are  *)
(* no more than the failures; keys the gateway does not know, credited or  *)
(* in hand, are no more than it forgot.                                    *)

InHand == {k \in Nat : \E a \in Actors : actor[a].pc = "recharge" /\ actor[a].seen = k}
Lost == captured.known \ (keys \cup InHand)
Forgotten == (keys \cup InHand) \ captured.known

CountInv ==
    /\ RechargeType
    /\ IsFiniteSet(captured.known) /\ captured.count = Cardinality(captured.known) + lapses
    /\ IsFiniteSet(keys) /\ credited = Cardinality(keys)
    /\ Cardinality(Lost) <= faults
    /\ IsFiniteSet(Forgotten) /\ Cardinality(Forgotten) <= lapses

LEMMA SetGrows ==
    ASSUME NEW S, IsFiniteSet(S), NEW T
    PROVE  /\ Cardinality(S) \in Nat
           /\ T \subseteq S => IsFiniteSet(T) /\ Cardinality(T) \in Nat /\ Cardinality(T) <= Cardinality(S)
           /\ \A k : T \subseteq S \cup {k} =>
                IsFiniteSet(T) /\ Cardinality(T) \in Nat /\ Cardinality(T) <= Cardinality(S) + 1
<1>1. Cardinality(S) \in Nat
  BY FS_CardinalityType
<1>2. ASSUME T \subseteq S
      PROVE  IsFiniteSet(T) /\ Cardinality(T) \in Nat /\ Cardinality(T) <= Cardinality(S)
  BY <1>2, FS_Subset, FS_CardinalityType
<1>3. ASSUME NEW k, T \subseteq S \cup {k}
      PROVE  IsFiniteSet(T) /\ Cardinality(T) \in Nat /\ Cardinality(T) <= Cardinality(S) + 1
  <2>1. /\ IsFiniteSet(S \cup {k})
        /\ Cardinality(S \cup {k}) = Cardinality(S) \/ Cardinality(S \cup {k}) = Cardinality(S) + 1
    BY FS_AddElement
  <2>2. IsFiniteSet(T) /\ Cardinality(T) \in Nat /\ Cardinality(T) <= Cardinality(S \cup {k})
    BY <1>3, <2>1, FS_Subset, FS_CardinalityType
  <2> QED BY <1>1, <2>1, <2>2
<1> QED BY <1>1, <1>2, <1>3

\* Exactly one more, for a new key.
LEMMA SetAdds ==
    ASSUME NEW S, IsFiniteSet(S), NEW k, k \notin S
    PROVE  IsFiniteSet(S \cup {k}) /\ Cardinality(S \cup {k}) = Cardinality(S) + 1
BY FS_AddElement

LEMMA SetLoses ==
    ASSUME NEW S, IsFiniteSet(S), NEW k \in S
    PROVE  IsFiniteSet(S \ {k}) /\ Cardinality(S) = Cardinality(S \ {k}) + 1
<1>1. Cardinality(S) \in Nat
  BY FS_CardinalityType
<1>2. IsFiniteSet(S \ {k}) /\ Cardinality(S \ {k}) = Cardinality(S) - 1
  BY FS_RemoveElement
<1> QED BY <1>1, <1>2

\* Actors other than a stay as they are.
Alone(a) == \A b \in Actors \ {a} : actor'[b] = actor[b]

LEMMA Hands ==
    ASSUME StoreInv, NEW a \in Actors, Alone(a)
    PROVE  /\ actor[a].pc # "recharge" => InHand \subseteq InHand'
           /\ actor'[a].pc # "recharge" => InHand' \subseteq InHand
           /\ InHand \subseteq InHand' \cup {actor[a].seen}
           /\ InHand' \subseteq InHand \cup {actor'[a].seen}
           /\ actor[a].pc = "recharge" => actor[a].seen \in InHand
           /\ actor'[a].pc = "recharge" /\ actor'[a].seen \in Nat => actor'[a].seen \in InHand'
<1>1. actor[a].seen \in Nat
  BY Held
<1> QED BY <1>1 DEF InHand, Alone

\* A step that neither takes a key in hand nor puts one down.
Aside(a) == /\ Alone(a)
            /\ actor[a].pc # "recharge" /\ actor'[a].pc # "recharge"

LEMMA StepsAside ==
    ASSUME StoreInv, NEW a \in Actors
    PROVE  /\ Done(a) => Alone(a) /\ actor'[a].pc = "idle"
           /\ \A p : Goto(a, p) => Alone(a) /\ actor'[a].pc = p /\ actor'[a].seen = actor[a].seen
           /\ \A t : PostAndEnd(a, t) => Alone(a) /\ actor'[a].pc = "idle"
           /\ \A t : actor' = [actor EXCEPT ![a].todo = t] =>
                Alone(a) /\ actor'[a].pc = actor[a].pc /\ actor'[a].seen = actor[a].seen
<1>0. actor \in [Actors -> Actor]
  BY DEF StoreInv
<1>1. Done(a) => Alone(a) /\ actor'[a].pc = "idle"
  BY <1>0 DEF Done, Alone, Idle
<1>2. ASSUME NEW p, Goto(a, p)
      PROVE  Alone(a) /\ actor'[a].pc = p /\ actor'[a].seen = actor[a].seen
  BY <1>0, <1>2 DEF Goto, Alone, Actor
<1>3. ASSUME NEW t, PostAndEnd(a, t) PROVE Alone(a) /\ actor'[a].pc = "idle"
  <2>1. [Idle EXCEPT !.todo = t].pc = "idle"
    BY DEF Idle
  <2> QED BY <1>0, <1>3, <2>1 DEF PostAndEnd, Alone
<1>4. ASSUME NEW t, actor' = [actor EXCEPT ![a].todo = t]
      PROVE  Alone(a) /\ actor'[a].pc = actor[a].pc /\ actor'[a].seen = actor[a].seen
  BY <1>0, <1>4 DEF Alone, Actor
<1> QED BY <1>1, <1>2, <1>3, <1>4

LEMMA StartsAside ==
    ASSUME StoreInv, NEW a \in Actors, NEW p, NEW x, p # "recharge", actor[a].pc # "recharge",
           \/ actor' = [actor EXCEPT ![a] = [Idle EXCEPT !.pc = p]]
           \/ actor' = [actor EXCEPT ![a] = [Idle EXCEPT !.pc = p, !.invoice = x]]
           \/ actor' = [actor EXCEPT ![a] = [Idle EXCEPT !.pc = p, !.note = x]]
           \/ actor' = [actor EXCEPT ![a] = [Idle EXCEPT !.pc = p, !.source = x]]
           \/ actor' = [actor EXCEPT ![a] = [Idle EXCEPT !.pc = p, !.seen = x]]
    PROVE  Aside(a)
<1>0. actor \in [Actors -> Actor]
  BY DEF StoreInv
<1>1. /\ [Idle EXCEPT !.pc = p].pc = p
      /\ [Idle EXCEPT !.pc = p, !.invoice = x].pc = p
      /\ [Idle EXCEPT !.pc = p, !.note = x].pc = p
      /\ [Idle EXCEPT !.pc = p, !.source = x].pc = p
      /\ [Idle EXCEPT !.pc = p, !.seen = x].pc = p
  BY DEF Idle
<1> QED BY <1>0, <1>1 DEF Aside, Alone

LEMMA GeneratingAside == ASSUME StoreInv, NEW a \in Actors, Generating(a) PROVE Aside(a)
<1>1. ASSUME NEW i \in Invoices, CreateInvoice(a, i) PROVE Aside(a)
  BY <1>1, StartsAside DEF CreateInvoice, At
<1>2. CASE RecordInvoiceLeg(a)
  BY <1>2, StepsAside DEF RecordInvoiceLeg, At, Aside
<1>3. CASE LookUpWallet(a)
  BY <1>3, StepsAside DEF LookUpWallet, At, Aside
<1>4. CASE Drain(a)
  <2>1. CASE Goto(a, "credits")
    <3>1. actor[a].pc = "drain"
      BY <1>4 DEF Drain, At
    <3> QED BY <2>1, <3>1, StepsAside DEF Aside
  <2>2. ASSUME NEW n, NEW t, actor' = [actor EXCEPT ![a].pc = "persist", ![a].paid = n, ![a].todo = t]
        PROVE  Aside(a)
    <3>1. actor \in [Actors -> Actor] /\ actor[a].pc = "drain"
      BY <1>4 DEF StoreInv, Drain, At
    <3>2. actor'[a].pc = "persist"
      BY <2>2, <3>1 DEF Actor
    <3> QED BY <2>2, <3>1, <3>2 DEF Aside, Alone
  <2> QED BY <1>4, <2>1, <2>2 DEF Drain
<1>5. CASE PersistDrain(a)
  BY <1>5, StepsAside DEF PersistDrain, GoOnToCredits, At, Aside
<1>6. CASE StatementFails(a)
  BY <1>6, StepsAside DEF StatementFails, GoOnToCredits, At, Aside
<1>7. CASE ApplyAdjustmentCredits(a)
  BY <1>7, StepsAside DEF ApplyAdjustmentCredits, At, Aside
<1> QED BY <1>1, <1>2, <1>3, <1>4, <1>5, <1>6, <1>7 DEF Generating

LEMMA KeepingAside == ASSUME StoreInv, NEW a \in Actors, Keeping(a) PROVE Aside(a)
<1>1. ASSUME NEW s \in Sources, TopUp(a, s) PROVE Aside(a)
  BY <1>1, StartsAside DEF TopUp, At
<1>2. CASE AddTopUp(a)
  BY <1>2, StepsAside DEF AddTopUp, At, Aside
<1>3. CASE CloseWallet(a)
  BY <1>3, StartsAside DEF CloseWallet, At
<1>4. CASE Close(a)
  BY <1>4, StepsAside DEF Close, At, Aside
<1>5. CASE ExpireOverdue(a)
  BY <1>5, StepsAside DEF ExpireOverdue, At, Aside
<1> QED BY <1>1, <1>2, <1>3, <1>4, <1>5 DEF Keeping

LEMMA NotingAside == ASSUME StoreInv, NEW a \in Actors, Noting(a) PROVE Aside(a)
<1>1. ASSUME NEW n \in Notes, CreateNote(a, n) PROVE Aside(a)
  BY <1>1, StepsAside DEF CreateNote, At, Aside
<1>2. ASSUME NEW n \in Notes, ClaimExpiredCredit(a, n) PROVE Aside(a)
  BY <1>2, StepsAside DEF ClaimExpiredCredit, WriteOff, At, Aside
<1>3. ASSUME NEW n \in Notes, NEW op \in {"approve", "reject", "void"}, Load(a, n, op)
      PROVE  Aside(a)
  BY <1>3, StartsAside DEF Load, At
<1>4. CASE Approve(a)
  BY <1>4, StepsAside DEF Approve, At, Aside
<1>5. CASE Reject(a)
  BY <1>5, StepsAside DEF Reject, At, Aside
<1>6. CASE VoidAdjustmentCredit(a)
  BY <1>6, StepsAside DEF VoidAdjustmentCredit, WriteOff, At, Aside
<1> QED BY <1>1, <1>2, <1>3, <1>4, <1>5, <1>6 DEF Noting

Counts == <<captured, keys, credited>>

LEMMA CountTypes ==
    ASSUME CountInv
    PROVE  /\ faults \in Nat /\ lapses \in Nat /\ topUps \in Nat /\ credited \in Nat
           /\ captured.count \in Nat /\ captured.known \subseteq Nat /\ keys \subseteq Nat
           /\ Cardinality(captured.known) \in Nat /\ Cardinality(keys) \in Nat
           /\ IsFiniteSet(Lost) /\ Cardinality(Lost) \in Nat /\ Cardinality(Forgotten) \in Nat
<1>1. IsFiniteSet(captured.known) /\ IsFiniteSet(keys) /\ IsFiniteSet(Forgotten)
  BY DEF CountInv
<1>2. Lost \subseteq captured.known
  BY DEF Lost
<1>3. IsFiniteSet(Lost)
  BY <1>1, <1>2, FS_Subset
<1> QED BY <1>1, <1>3, FS_CardinalityType DEF CountInv, RechargeType

\* Steps that touch no key.
LEMMA AsideCounts ==
    ASSUME CountInv, UNCHANGED <<captured, keys, credited, lapses>>,
           faults' \in Nat, topUps' \in Nat,
           \/ InHand' = InHand /\ faults <= faults'
           \/ \E k : InHand' \subseteq InHand /\ InHand \subseteq InHand' \cup {k} /\ faults' = faults + 1
    PROVE  CountInv'
<1>1. RechargeType'
  BY DEF CountInv, RechargeType
<1>2. Forgotten' \subseteq Forgotten
  BY DEF Forgotten
<1>3. \/ Lost' \subseteq Lost /\ faults <= faults'
      \/ \E k : Lost' \subseteq Lost \cup {k} /\ faults' = faults + 1
  BY DEF Lost
<1>4. IsFiniteSet(Forgotten') /\ Cardinality(Forgotten') <= Cardinality(Forgotten)
      /\ Cardinality(Forgotten') \in Nat
  BY <1>2, SetGrows DEF CountInv
<1>5. Cardinality(Lost') <= faults'
  <2>1. CASE Lost' \subseteq Lost /\ faults <= faults'
    <3>1. Cardinality(Lost') \in Nat /\ Cardinality(Lost') <= Cardinality(Lost)
      BY <2>1, CountTypes, SetGrows
    <3> QED BY <2>1, <3>1, CountTypes DEF CountInv
  <2>2. ASSUME NEW k, Lost' \subseteq Lost \cup {k}, faults' = faults + 1
        PROVE  Cardinality(Lost') <= faults'
    <3>0. IsFiniteSet(Lost)
      BY CountTypes
    <3>1. Cardinality(Lost') \in Nat /\ Cardinality(Lost') <= Cardinality(Lost) + 1
      BY ONLY <2>2, <3>0, SetGrows
    <3> QED BY <2>2, <3>1, CountTypes DEF CountInv
  <2> QED BY <1>3, <2>1, <2>2
<1>6. /\ captured'.count = Cardinality(captured'.known) + lapses'
      /\ credited' = Cardinality(keys') /\ Cardinality(Forgotten') <= lapses'
      /\ IsFiniteSet(captured'.known) /\ IsFiniteSet(keys')
  <2>1. Cardinality(Forgotten') <= lapses
    BY <1>4, CountTypes DEF CountInv
  <2> QED BY <2>1 DEF CountInv
<1> QED BY <1>1, <1>4, <1>5, <1>6 DEF CountInv

LEMMA CaptureFacts ==
    ASSUME CountInv, NEW k \in Nat, Capture(k), UNCHANGED <<lapses>>
    PROVE  /\ captured' \in [count : Nat, known : SUBSET Nat]
           /\ captured'.known = captured.known \cup {k} /\ IsFiniteSet(captured'.known)
           /\ captured'.count = Cardinality(captured'.known) + lapses
<1>1. /\ captured'.known = captured.known \cup {k}
      /\ captured'.count = captured.count + IF k \in captured.known THEN 0 ELSE 1
      /\ captured' = [count |-> captured'.count, known |-> captured'.known]
  BY DEF Capture
<1>2. captured' \in [count : Nat, known : SUBSET Nat]
  BY <1>1, CountTypes
<1>3. CASE k \in captured.known
  <2>1. captured'.known = captured.known /\ captured'.count = captured.count
    BY <1>1, <1>3, CountTypes
  <2> QED BY <1>1, <1>2, <2>1 DEF CountInv
<1>4. CASE k \notin captured.known
  <2>1. IsFiniteSet(captured'.known) /\ Cardinality(captured'.known) = Cardinality(captured.known) + 1
    BY <1>1, <1>4, SetAdds DEF CountInv
  <2>2. captured'.count = captured.count + 1
    BY <1>1, <1>4
  <2>3. captured'.count = Cardinality(captured'.known) + lapses
    BY <2>1, <2>2, CountTypes DEF CountInv
  <2> QED BY <1>1, <1>2, <2>1, <2>3
<1> QED BY <1>3, <1>4

\* What holds of the sets is enough.
LEMMA CountsKept ==
    ASSUME CountInv, captured' \in [count : Nat, known : SUBSET Nat], keys' \subseteq Nat,
           faults' \in Nat, lapses' = lapses, topUps' = topUps,
           IsFiniteSet(captured'.known), captured'.count = Cardinality(captured'.known) + lapses,
           IsFiniteSet(keys'), credited' = Cardinality(keys'),
           Forgotten' \subseteq Forgotten,
           \/ Lost' \subseteq Lost /\ faults' = faults
           \/ \E k : Lost' \subseteq Lost \cup {k} /\ faults' = faults + 1
    PROVE  CountInv'
<1>1. RechargeType'
  <2>1. credited' \in Nat
    BY FS_CardinalityType
  <2> QED BY <2>1, CountTypes DEF RechargeType
<1>2. IsFiniteSet(Forgotten') /\ Cardinality(Forgotten') <= Cardinality(Forgotten)
      /\ Cardinality(Forgotten') \in Nat
  BY SetGrows DEF CountInv
<1>3. Cardinality(Forgotten') <= lapses
  BY <1>2, CountTypes DEF CountInv
<1>4. Cardinality(Lost') <= faults'
  <2>1. CASE Lost' \subseteq Lost /\ faults' = faults
    <3>1. Cardinality(Lost') \in Nat /\ Cardinality(Lost') <= Cardinality(Lost)
      BY <2>1, CountTypes, SetGrows
    <3> QED BY <2>1, <3>1, CountTypes DEF CountInv
  <2>2. ASSUME NEW k, Lost' \subseteq Lost \cup {k}, faults' = faults + 1
        PROVE  Cardinality(Lost') <= faults'
    <3>0. IsFiniteSet(Lost)
      BY CountTypes
    <3>1. Cardinality(Lost') \in Nat /\ Cardinality(Lost') <= Cardinality(Lost) + 1
      BY ONLY <2>2, <3>0, SetGrows
    <3> QED BY <2>2, <3>1, CountTypes DEF CountInv
  <2> QED BY <2>1, <2>2
<1> QED BY <1>1, <1>2, <1>3, <1>4 DEF CountInv

LEMMA ChargeCounts ==
    ASSUME StoreInv, CountInv, NEW a \in Actors, ChargeSavedPaymentMethod(a) \/ ChargeUnanswered(a)
    PROVE  CountInv'
<1>1. PICK k \in Nat : k = actor[a].seen
  BY Held
<1>2. /\ actor[a].pc = "charge" /\ lapses' = lapses /\ topUps' = topUps
      /\ keys' = keys /\ credited' = credited
  BY DEF ChargeSavedPaymentMethod, ChargeUnanswered, At, bounds
<1>3. faults' \in Nat
  BY CountTypes DEF ChargeSavedPaymentMethod, ChargeUnanswered, bounds
<1>4. CASE Capture(k) /\ Goto(a, "recharge") /\ faults' = faults
  <2>1. Alone(a) /\ actor'[a].pc = "recharge" /\ actor'[a].seen = k
    BY <1>1, <1>4, StepsAside
  <2>2. InHand \subseteq InHand' /\ InHand' \subseteq InHand \cup {k} /\ k \in InHand'
    BY <1>2, <2>1, Hands
  <2>3. captured'.known = captured.known \cup {k}
    BY <1>2, <1>4, CaptureFacts
  <2>4. Forgotten' \subseteq Forgotten /\ Lost' \subseteq Lost
    BY <1>2, <2>2, <2>3 DEF Forgotten, Lost
  <2> QED BY <1>2, <1>3, <1>4, <2>4, CaptureFacts, CountsKept DEF CountInv, RechargeType
<1>5. CASE UNCHANGED captured /\ Done(a) /\ faults' = faults
  <2>1. InHand' = InHand
    BY <1>2, <1>5, StepsAside, Hands
  <2> QED BY <1>2, <1>3, <1>5, <2>1, CountTypes, AsideCounts
<1>6. CASE Capture(k) /\ Done(a) /\ faults' = faults + 1
  <2>1. InHand' = InHand
    BY <1>2, <1>6, StepsAside, Hands
  <2>2. captured'.known = captured.known \cup {k}
    BY <1>2, <1>6, CaptureFacts
  <2>3. Forgotten' \subseteq Forgotten /\ Lost' \subseteq Lost \cup {k}
    BY <1>2, <2>1, <2>2 DEF Forgotten, Lost
  <2> QED BY <1>2, <1>3, <1>6, <2>3, CaptureFacts, CountsKept DEF CountInv, RechargeType
<1> QED BY <1>1, <1>4, <1>5, <1>6 DEF ChargeSavedPaymentMethod, ChargeUnanswered, bounds

LEMMA CreditCounts ==
    ASSUME StoreInv, CountInv, NEW a \in Actors, CreditRecharge(a)
    PROVE  CountInv'
<1>1. PICK k \in Nat : k = actor[a].seen
  BY Held
<1>2. actor[a].pc = "recharge" /\ UNCHANGED <<captured, faults, lapses, topUps>>
  BY DEF CreditRecharge, At, bounds
<1>3. Alone(a) /\ actor'[a].pc = "idle"
  BY StepsAside DEF CreditRecharge
<1>4. InHand' \subseteq InHand /\ InHand \subseteq InHand' \cup {k} /\ k \in InHand
  BY <1>1, <1>2, <1>3, Hands
<1>5. k \in keys' /\ keys' = keys \cup {k} /\ IsFiniteSet(keys') /\ credited' = Cardinality(keys')
  <2>1. CASE k \in keys
    <3>1. keys' = keys /\ credited' = credited
      BY <1>1, <2>1 DEF CreditRecharge
    <3> QED BY <2>1, <3>1 DEF CountInv
  <2>2. CASE k \notin keys
    <3>1. keys' = keys \cup {k} /\ credited' = credited + 1
      BY <1>1, <2>2 DEF CreditRecharge
    <3>2. IsFiniteSet(keys \cup {k}) /\ Cardinality(keys \cup {k}) = Cardinality(keys) + 1
      BY <2>2, SetAdds DEF CountInv
    <3> QED BY <3>1, <3>2 DEF CountInv
  <2> QED BY <2>1, <2>2
<1>6. Forgotten' \subseteq Forgotten /\ Lost' \subseteq Lost
  BY <1>2, <1>4, <1>5 DEF Forgotten, Lost
<1> QED BY <1>2, <1>5, <1>6, CountTypes, CountsKept DEF CountInv, RechargeType

LEMMA ForgetCounts ==
    ASSUME StoreInv, CountInv, NEW k \in captured.known, ForgetKey(k)
    PROVE  CountInv'
<1>1. PICK c \in [count : Nat, known : SUBSET Nat] : c = captured
  BY DEF CountInv, RechargeType
<1>2. captured' = [c EXCEPT !.known = c.known \ {k}]
      /\ lapses' = lapses + 1 /\ UNCHANGED <<keys, credited, actor, topUps, faults>>
  BY <1>1 DEF ForgetKey
<1>3. captured'.known = captured.known \ {k} /\ captured'.count = captured.count
      /\ captured' \in [count : Nat, known : SUBSET Nat]
  BY <1>1, <1>2
<1>4. InHand' = InHand
  BY <1>2 DEF InHand
<1>5. Lost' \subseteq Lost /\ Forgotten' \subseteq Forgotten \cup {k}
  BY <1>2, <1>3, <1>4 DEF Lost, Forgotten
<1>6. Cardinality(Lost') \in Nat /\ Cardinality(Lost') <= Cardinality(Lost)
  BY <1>5, CountTypes, SetGrows
<1>7. IsFiniteSet(Forgotten') /\ Cardinality(Forgotten') \in Nat
      /\ Cardinality(Forgotten') <= Cardinality(Forgotten) + 1
  BY <1>5, SetGrows DEF CountInv
<1>8. IsFiniteSet(captured'.known) /\ Cardinality(captured.known) = Cardinality(captured'.known) + 1
      /\ Cardinality(captured'.known) \in Nat
  BY <1>3, SetLoses, FS_CardinalityType DEF CountInv
<1>9. RechargeType'
  BY <1>2, <1>3, CountTypes DEF RechargeType
<1>10. captured'.count = Cardinality(captured'.known) + lapses'
       /\ Cardinality(Lost') <= faults' /\ Cardinality(Forgotten') <= lapses'
  BY <1>2, <1>3, <1>6, <1>7, <1>8, CountTypes DEF CountInv
<1> QED BY <1>2, <1>7, <1>8, <1>9, <1>10 DEF CountInv

LEMMA CountStep == ASSUME StoreInv, CountInv, [Next]_vars PROVE CountInv'
<1>0. faults \in Nat /\ topUps \in Nat
  BY CountTypes
<1>1. ASSUME NEW a \in Actors, Aside(a) PROVE InHand' = InHand
  BY <1>1, Hands DEF Aside
<1>2. ASSUME NEW a \in Actors, Generating(a) PROVE CountInv'
  <2>1. InHand' = InHand
    BY <1>1, <1>2, GeneratingAside
  <2>2. UNCHANGED <<captured, keys, credited, lapses, topUps>> /\ faults' \in Nat /\ faults <= faults'
    <3>1. CASE StatementFails(a)
      BY <1>0, <3>1 DEF StatementFails, recharges
    <3>2. CASE ~StatementFails(a)
      <4>1. UNCHANGED recharges /\ UNCHANGED bounds
        BY <1>2, <3>2
        DEF Generating, CreateInvoice, RecordInvoiceLeg, LookUpWallet, Drain, PersistDrain,
                          ApplyAdjustmentCredits
      <4> QED BY <1>0, <4>1 DEF recharges, bounds
    <3> QED BY <3>1, <3>2
  <2> QED BY <1>0, <2>1, <2>2, AsideCounts
<1>3. ASSUME NEW a \in Actors, Keeping(a) PROVE CountInv'
  <2>1. InHand' = InHand
    BY <1>1, <1>3, KeepingAside
  <2>2. UNCHANGED <<captured, keys, credited, lapses, faults>> /\ topUps' \in Nat
    <3>1. ASSUME NEW t \in Sources, TopUp(a, t)
          PROVE  UNCHANGED <<captured, keys, credited, lapses, faults>> /\ topUps' \in Nat
      BY <1>0, <3>1 DEF TopUp, recharges
    <3>2. AddTopUp(a) \/ CloseWallet(a) \/ Close(a) \/ ExpireOverdue(a)
            => UNCHANGED recharges /\ UNCHANGED bounds
      BY DEF AddTopUp, CloseWallet, Close, ExpireOverdue
    <3> QED BY <1>0, <1>3, <3>1, <3>2 DEF Keeping, recharges, bounds
  <2> QED BY <1>0, <2>1, <2>2, AsideCounts
<1>4. ASSUME NEW a \in Actors, Noting(a) PROVE CountInv'
  <2>1. InHand' = InHand
    BY <1>1, <1>4, NotingAside
  <2>2. UNCHANGED <<captured, keys, credited, lapses, faults, topUps>>
    BY <1>4 DEF Noting, CreateNote, ClaimExpiredCredit, Load, Approve, Reject, VoidAdjustmentCredit,
                recharges, bounds
  <2> QED BY <1>0, <2>1, <2>2, AsideCounts
<1>5. ASSUME NEW a \in Actors, ListDueForRecharge(a) PROVE CountInv'
  <2>1. InHand' = InHand
    BY <1>1, <1>5, StartsAside DEF ListDueForRecharge, At
  <2>2. UNCHANGED <<captured, keys, credited, lapses, faults, topUps>>
    BY <1>5 DEF ListDueForRecharge, recharges, bounds
  <2> QED BY <1>0, <2>1, <2>2, AsideCounts
<1>6. ASSUME NEW a \in Actors, Post(a) \/ LosePosting(a) PROVE CountInv'
  <2>1. actor' = [actor EXCEPT ![a].todo = Tail(actor[a].todo)]
    BY <1>6 DEF Post, LosePosting, StoreInv
  <2>2. Alone(a) /\ actor'[a].pc = actor[a].pc /\ actor'[a].seen = actor[a].seen
    BY <2>1, StepsAside
  <2>3. InHand' = InHand
    BY <2>2 DEF InHand, Alone
  <2>4. UNCHANGED <<captured, keys, credited, lapses, topUps>> /\ faults' \in Nat /\ faults <= faults'
    BY <1>0, <1>6 DEF Post, LosePosting, recharges, bounds
  <2> QED BY <1>0, <2>3, <2>4, AsideCounts
<1>7. ASSUME NEW a \in Actors, Crash(a) PROVE CountInv'
  <2>1. InHand' \subseteq InHand /\ InHand \subseteq InHand' \cup {actor[a].seen}
    BY <1>7, StepsAside, Hands DEF Crash
  <2>2. UNCHANGED <<captured, keys, credited, lapses, topUps>> /\ faults' = faults + 1 /\ faults' \in Nat
    BY <1>0, <1>7 DEF Crash, recharges, bounds
  <2> QED BY <1>0, <2>1, <2>2, AsideCounts
<1>8. CASE Environment
  <2>1. ASSUME UNCHANGED <<captured, keys, credited, lapses, faults, topUps, actor>> PROVE CountInv'
    <3>1. InHand' = InHand
      BY <2>1 DEF InHand
    <3> QED BY <1>0, <2>1, <3>1, AsideCounts
  <2> QED BY <1>8, <2>1, ForgetCounts DEF Environment, Lapse, FallDue, recharges, bounds
<1>9. CASE UNCHANGED vars
  <2>1. InHand' = InHand
    BY <1>9 DEF vars, InHand
  <2> QED BY <1>0, <1>9, <2>1, AsideCounts DEF vars
<1> QED BY <1>2, <1>3, <1>4, <1>5, <1>6, <1>7, <1>8, <1>9, ChargeCounts, CreditCounts, Steps
        DEF Acts, Recharging

----------------------------------------------------------------------------
(* All of it is invariant.                                                 *)

LEMMA InitInv == Init => StoreInv /\ CountInv
<1> SUFFICES ASSUME Init PROVE StoreInv /\ CountInv
  OBVIOUS
<1>1. Idle \in Actor /\ ActorOK(Idle) /\ Idle.pc = "idle"
  <2>1. <<>> \in Seq(Leg) /\ 0 \in 0..Total
    BY Legs, Constants
  <2> QED BY <2>1 DEF Idle, Actor, ActorOK
<1>2. WalletOK
  BY DEF Init, WalletOK, WalletIsItsTopUps, Total4
<1>3. NoteType /\ InvoiceType /\ BooksType /\ RechargeType
  <2>1. 0 \in 0..NoteAmount /\ 0 \in 0..Total
    BY Constants
  <2> QED BY <2>1 DEF Init, NoteType, InvoiceType, BooksType, RechargeType
<1>4. StoreInv
  BY <1>1, <1>2, <1>3 DEF Init, StoreInv
<1>5. captured.known = {} /\ captured.count = 0 /\ keys = {} /\ lapses = 0 /\ faults = 0 /\ credited = 0
  BY DEF Init
<1>6. InHand = {}
  BY <1>1 DEF Init, InHand
<1>7. Lost = {} /\ Forgotten = {}
  BY <1>5, <1>6 DEF Lost, Forgotten
<1> QED BY <1>3, <1>4, <1>5, <1>7, FS_EmptySet DEF CountInv

LEMMA NextInv == StoreInv /\ CountInv /\ [Next]_vars => (StoreInv /\ CountInv)'
<1> SUFFICES ASSUME StoreInv, CountInv, [Next]_vars PROVE StoreInv' /\ CountInv'
  OBVIOUS
<1>1. CountInv'
  BY CountStep
<1>2. WalletOK' /\ InvoiceType' /\ BooksType' /\ RechargeType'
  BY <1>1, WalletStep, InvoiceStep, BooksStep DEF CountInv
<1>3. NoteType'
  BY NoteStep DEF NoteType, Note
<1>4. actor' \in [Actors -> Actor] /\ \A b \in Actors : ActorOK(actor[b])'
  <2>0. actor \in [Actors -> Actor] /\ \A b \in Actors : ActorOK(actor[b])
    BY DEF StoreInv
  <2>1. UNCHANGED actor \/ \E a \in Actors : Moves(a)
    BY ActsMove, Steps DEF Environment, Lapse, FallDue, ForgetKey, vars
  <2>2. CASE UNCHANGED actor
    BY <2>0, <2>2 DEF ActorOK
  <2>3. ASSUME NEW a \in Actors, NEW y \in Actor, actor' = [actor EXCEPT ![a] = y], ActorOK(y)
        PROVE  actor' \in [Actors -> Actor] /\ \A b \in Actors : ActorOK(actor[b])'
    BY <2>0, <2>3 DEF ActorOK
  <2> QED BY <2>1, <2>2, <2>3 DEF Moves
<1> QED BY <1>1, <1>2, <1>3, <1>4 DEF StoreInv

LEMMA Always == Spec => [](StoreInv /\ CountInv)
<1>1. Init => StoreInv /\ CountInv
  BY InitInv
<1>2. StoreInv /\ CountInv /\ [Next]_vars => (StoreInv /\ CountInv)'
  BY NextInv
<1> QED BY <1>1, <1>2, PTL DEF Spec

HIDE StoredValueAssumption

----------------------------------------------------------------------------
(* The actor a step leaves, field by field.                                *)

LEMMA Leaves ==
    ASSUME StoreInv, NEW a \in Actors
    PROVE  /\ Done(a) => Alone(a) /\ actor'[a] = Idle
           /\ \A p : Goto(a, p) =>
                /\ Alone(a) /\ actor'[a].pc = p /\ actor'[a].invoice = actor[a].invoice
                /\ actor'[a].paid = actor[a].paid /\ actor'[a].todo = actor[a].todo
           /\ \A t : PostAndEnd(a, t) =>
                /\ Alone(a) /\ actor'[a].pc = "idle" /\ actor'[a].invoice = None
                /\ actor'[a].todo = t
           /\ \A t : actor' = [actor EXCEPT ![a].todo = t] =>
                /\ Alone(a) /\ actor'[a].pc = actor[a].pc /\ actor'[a].invoice = actor[a].invoice
                /\ actor'[a].paid = actor[a].paid /\ actor'[a].todo = t
<1>0. actor \in [Actors -> Actor]
  BY DEF StoreInv
<1>1. Done(a) => Alone(a) /\ actor'[a] = Idle
  BY <1>0 DEF Done, Alone
<1>2. ASSUME NEW p, Goto(a, p)
      PROVE  /\ Alone(a) /\ actor'[a].pc = p /\ actor'[a].invoice = actor[a].invoice
             /\ actor'[a].paid = actor[a].paid /\ actor'[a].todo = actor[a].todo
  BY <1>0, <1>2 DEF Goto, Alone, Actor
<1>3. ASSUME NEW t, PostAndEnd(a, t)
      PROVE  /\ Alone(a) /\ actor'[a].pc = "idle" /\ actor'[a].invoice = None
             /\ actor'[a].todo = t
  <2>1. /\ [Idle EXCEPT !.todo = t].pc = "idle" /\ [Idle EXCEPT !.todo = t].invoice = None
        /\ [Idle EXCEPT !.todo = t].todo = t
    BY DEF Idle
  <2> QED BY <1>0, <1>3, <2>1 DEF PostAndEnd, Alone
<1>4. ASSUME NEW t, actor' = [actor EXCEPT ![a].todo = t]
      PROVE  /\ Alone(a) /\ actor'[a].pc = actor[a].pc /\ actor'[a].invoice = actor[a].invoice
             /\ actor'[a].paid = actor[a].paid /\ actor'[a].todo = t
  BY <1>0, <1>4 DEF Alone, Actor
<1> QED BY <1>1, <1>2, <1>3, <1>4

\* A drain that takes something.
LEMMA DrainTakes ==
    ASSUME StoreInv, NEW a \in Actors, Drain(a), ~(Goto(a, "credits") /\ UNCHANGED <<store, drawn>>)
    PROVE  \E taken \in 1..Total :
             /\ wallet'.balance = wallet.balance - taken
             /\ drawn' = [drawn EXCEPT ![actor[a].invoice].wallet = @ + taken]
             /\ Alone(a) /\ actor'[a].pc = "persist" /\ actor'[a].invoice = actor[a].invoice
             /\ actor'[a].paid = taken /\ actor'[a].todo = <<Settle(actor[a].invoice, taken)>>
<1> DEFINE taken == Least(Total, residue.paid + residue.promo + residue.dated)
           i == actor[a].invoice
           p == "persist"
           t == <<Settle(i, taken)>>
<1>1. /\ taken # 0
      /\ wallet' = [wallet EXCEPT !.balance = wallet.balance - taken]
      /\ drawn' = [drawn EXCEPT ![i].wallet = @ + taken]
      /\ actor' = [actor EXCEPT ![a].pc = p, ![a].paid = taken, ![a].todo = t]
  BY DEF Drain
<1>2. taken \in 1..Total
  BY <1>1, WalletParts, Constants DEF Least
<1>3. wallet \in [balance : Nat, closed : BOOLEAN] /\ actor \in [Actors -> Actor]
  BY DEF StoreInv, WalletOK
<1> HIDE DEF taken, p, t, i
<1>4. wallet'.balance = wallet.balance - taken
  BY <1>1, <1>3
<1>5. /\ Alone(a) /\ actor'[a].pc = p /\ actor'[a].invoice = actor[a].invoice
      /\ actor'[a].paid = taken /\ actor'[a].todo = t
  BY <1>1, <1>3 DEF Alone, Actor
<1> QED BY <1>1, <1>2, <1>4, <1>5 DEF p, t, i

\* The actor that starts an operation.
LEMMA StartLeaves ==
    ASSUME StoreInv, NEW a \in Actors, NEW p, NEW x,
           \/ actor' = [actor EXCEPT ![a] = [Idle EXCEPT !.pc = p]]
           \/ actor' = [actor EXCEPT ![a] = [Idle EXCEPT !.pc = p, !.note = x]]
           \/ actor' = [actor EXCEPT ![a] = [Idle EXCEPT !.pc = p, !.source = x]]
           \/ actor' = [actor EXCEPT ![a] = [Idle EXCEPT !.pc = p, !.seen = x]]
    PROVE  /\ Alone(a) /\ actor'[a].pc = p /\ actor'[a].invoice = None /\ actor'[a].todo = <<>>
<1>0. actor \in [Actors -> Actor]
  BY DEF StoreInv
<1>1. \A y \in {[Idle EXCEPT !.pc = p], [Idle EXCEPT !.pc = p, !.note = x],
                [Idle EXCEPT !.pc = p, !.source = x], [Idle EXCEPT !.pc = p, !.seen = x]} :
        y.pc = p /\ y.invoice = None /\ y.todo = <<>>
  BY DEF Idle
<1> QED BY <1>0, <1>1 DEF Alone

LEMMA CreateLeaves ==
    ASSUME StoreInv, NEW a \in Actors, NEW p, NEW i,
           actor' = [actor EXCEPT ![a] = [Idle EXCEPT !.pc = p, !.invoice = i]]
    PROVE  /\ Alone(a) /\ actor'[a].pc = p /\ actor'[a].invoice = i /\ actor'[a].todo = <<>>
           /\ actor'[a].paid = 0
<1>0. actor \in [Actors -> Actor]
  BY DEF StoreInv
<1>1. /\ [Idle EXCEPT !.pc = p, !.invoice = i].pc = p /\ [Idle EXCEPT !.pc = p, !.invoice = i].invoice = i
      /\ [Idle EXCEPT !.pc = p, !.invoice = i].todo = <<>> /\ [Idle EXCEPT !.pc = p, !.invoice = i].paid = 0
  BY DEF Idle
<1> QED BY <1>0, <1>1 DEF Alone

----------------------------------------------------------------------------
(* What is owed to customers: Customer Credit with the postings that are   *)
(* still to come is the wallet with the issued notes.                      *)

\* What an actor still has to post to Customer Credit: two legs at most.
Short(t) == t = <<>> \/ Tail(t) = <<>> \/ Tail(Tail(t)) = <<>>
Pending(t) == IF t = <<>> THEN 0
              ELSE IF Tail(t) = <<>> THEN Head(t).amount
              ELSE Head(t).amount + Head(Tail(t)).amount
Owing == [a \in Actors |-> Pending(actor[a].todo)]
Worth == [n \in Notes |-> Spendable(n)]

LiabilityInv ==
    /\ \A a \in Actors : Short(actor[a].todo)
    /\ faults = 0 => books.credit + SumFunctionOnSet(Owing, Actors)
                       = wallet.balance + SumFunctionOnSet(Worth, Notes)

LEMMA PendingOf ==
    /\ Pending(<<>>) = 0 /\ Short(<<>>)
    /\ \A m \in Int : Pending(<<Credit(m)>>) = m /\ Short(<<Credit(m)>>)
    /\ \A i, m : Pending(<<Settle(i, m)>>) = -m /\ Short(<<Settle(i, m)>>)
    /\ \A m, n \in Int : /\ Pending(<<Credit(m), Credit(n)>>) = m + n
                         /\ Short(<<Credit(m), Credit(n)>>)
<1>1. \A x : Head(<<x>>) = x /\ Tail(<<x>>) = <<>> /\ <<x>> # <<>>
  OBVIOUS
<1>2. \A x, y : Head(<<x, y>>) = x /\ Tail(<<x, y>>) = <<y>> /\ <<x, y>> # <<>>
  OBVIOUS
<1>3. \A i, m : Credit(m).amount = m /\ Settle(i, m).amount = -m
  BY DEF Credit, Settle
<1> QED BY <1>1, <1>2, <1>3 DEF Pending, Short

LEMMA PendingParts ==
    ASSUME NEW t \in Seq(Leg), Short(t)
    PROVE  /\ Pending(t) \in Int
           /\ t # <<>> => /\ Head(t) \in Leg /\ Head(t).amount \in Int
                          /\ Pending(t) = Head(t).amount + Pending(Tail(t)) /\ Short(Tail(t))
<1>1. \A leg \in Leg : leg.amount \in Int
  BY DEF Leg
<1> HIDE DEF Leg
<1>2. CASE t = <<>>
  BY <1>2, PendingOf
<1>3. CASE t # <<>>
  <2>1. Head(t) \in Leg /\ Tail(t) \in Seq(Leg)
    BY <1>3, HeadTailProperties
  <2>2. Tail(t) # <<>> => Head(Tail(t)) \in Leg
    BY <2>1, HeadTailProperties
  <2>3. Short(Tail(t))
    BY <1>3 DEF Short
  <2> QED BY <1>1, <1>3, <2>1, <2>2, <2>3 DEF Pending, Short
<1> QED BY <1>2, <1>3

LEMMA SpendableNat ==
    ASSUME StoreInv, NEW n \in Notes
    PROVE  Spendable(n) \in Nat /\ Spendable(n) <= NoteAmount
BY NoteParts, Constants DEF Spendable, Note

\* What a step adds to either side is the same.
LEMMA SidesAgree ==
    ASSUME NEW c \in Int, NEW d \in Int, NEW p \in Int, NEW q \in Int, NEW x \in Int, NEW y \in Int,
           NEW b \in Int, NEW w \in Int, NEW s \in Int, NEW t \in Int,
           c + x = b + s, y = x - p + q,
           d - c + q - p = w - b + t - s
    PROVE  d + y = w + t
OBVIOUS

\* A step of an actor keeps the sides in balance if what it adds to each is the same.
LEMMA LiabilityKept ==
    ASSUME StoreInv, LiabilityInv, StoreInv', NEW a \in Actors, Alone(a),
           Short(actor'[a].todo),
           faults' = 0 =>
               /\ faults = 0
               /\ books'.credit - books.credit + Pending(actor'[a].todo) - Pending(actor[a].todo)
                    = wallet'.balance - wallet.balance
                      + SumFunctionOnSet(Worth', Notes) - SumFunctionOnSet(Worth, Notes)
    PROVE  LiabilityInv'
<1>1. \A b \in Actors : Short(actor'[b].todo) /\ Short(actor[b].todo)
  BY DEF LiabilityInv, Alone
<1>2. \A b \in Actors : Owing[b] \in Int /\ Owing'[b] \in Int
  <2>1. \A b \in Actors : actor[b].todo \in Seq(Leg) /\ actor'[b].todo \in Seq(Leg)
    BY DEF StoreInv, Actor
  <2> QED BY <1>1, <2>1, PendingParts DEF Owing
<1>3. \A b \in Actors : b # a => Owing'[b] = Owing[b]
  BY DEF Owing, Alone
<1>4. Owing[a] = Pending(actor[a].todo) /\ Owing'[a] = Pending(actor'[a].todo)
  BY DEF Owing
<1>5. SumFunctionOnSet(Owing', Actors) = SumFunctionOnSet(Owing, Actors) - Owing[a] + Owing'[a]
  BY <1>2, <1>3, SumReplace, IdentityAssumption
<1>6. /\ SumFunctionOnSet(Owing, Actors) \in Int /\ SumFunctionOnSet(Owing', Actors) \in Int
      /\ Owing[a] \in Int /\ Owing'[a] \in Int
  BY <1>2, SumInt, IdentityAssumption
<1>7. SumFunctionOnSet(Worth, Notes) \in Int /\ SumFunctionOnSet(Worth', Notes) \in Int
  <2>1. \A n \in Notes : Worth[n] \in Int
    BY SpendableNat DEF Worth
  <2>2. \A n \in Notes : Worth'[n] \in Int
    <3>1. note' \in [Notes -> Note]
      BY DEF StoreInv, NoteType, Note
    <3> QED BY <3>1, Constants DEF Worth, Spendable, Note
  <2> QED BY <2>1, <2>2, SumInt, IdentityAssumption
<1>8. books.credit \in Int /\ books'.credit \in Int /\ wallet.balance \in Int /\ wallet'.balance \in Int
  BY DEF StoreInv, BooksType, WalletOK
<1>9. /\ LiabilityInv <=>
           /\ \A b \in Actors : Short(actor[b].todo)
           /\ faults = 0 => books.credit + SumFunctionOnSet(Owing, Actors)
                              = wallet.balance + SumFunctionOnSet(Worth, Notes)
      /\ LiabilityInv' <=>
           /\ \A b \in Actors : Short(actor'[b].todo)
           /\ faults' = 0 => books'.credit + SumFunctionOnSet(Owing', Actors)
                              = wallet'.balance + SumFunctionOnSet(Worth', Notes)
  BY Zenon DEF LiabilityInv
<1>10. ASSUME faults' = 0
       PROVE  books'.credit + SumFunctionOnSet(Owing', Actors)
                = wallet'.balance + SumFunctionOnSet(Worth', Notes)
  <2>1. books.credit + SumFunctionOnSet(Owing, Actors) = wallet.balance + SumFunctionOnSet(Worth, Notes)
    BY <1>9, <1>10
  <2>2. books'.credit - books.credit + Owing'[a] - Owing[a]
          = wallet'.balance - wallet.balance
            + SumFunctionOnSet(Worth', Notes) - SumFunctionOnSet(Worth, Notes)
    BY <1>4, <1>10
  <2> HIDE DEF Owing, Worth
  <2> QED BY ONLY <1>5, <1>6, <1>7, <1>8, <2>1, <2>2, SidesAgree
<1> QED BY <1>1, <1>9, <1>10

LEMMA SumOverIs == ASSUME NEW f PROVE SumOver(f) = SumFunctionOnSet(f, DOMAIN f)
BY Zenon DEF SumOver, FoldFunction, SumFunctionOnSet

LEMMA WorthInt ==
    ASSUME StoreInv, StoreInv'
    PROVE  \A n \in Notes : Worth[n] \in Int /\ Worth'[n] \in Int
<1>1. note \in [Notes -> Note] /\ note' \in [Notes -> Note]
  BY DEF StoreInv, NoteType, Note
<1> QED BY <1>1, Constants DEF Worth, Spendable, Note

LEMMA WorthSame ==
    ASSUME \A n \in Notes : Spendable(n)' = Spendable(n)
    PROVE  SumFunctionOnSet(Worth', Notes) = SumFunctionOnSet(Worth, Notes)
<1>1. \A n \in Notes : Worth[n] = Worth'[n]
  BY DEF Worth
<1> QED BY <1>1, SumSame, IdentityAssumption

LEMMA WorthMoves ==
    ASSUME StoreInv, StoreInv', NEW n \in Notes, \A m \in Notes : m # n => note'[m] = note[m]
    PROVE  SumFunctionOnSet(Worth', Notes)
             = SumFunctionOnSet(Worth, Notes) - Spendable(n) + Spendable(n)'
<1>1. \A m \in Notes : m # n => Worth'[m] = Worth[m]
  BY DEF Worth, Spendable
<1>2. Worth[n] = Spendable(n) /\ Worth'[n] = Spendable(n)'
  BY DEF Worth
<1>3. SumFunctionOnSet(Worth', Notes) = SumFunctionOnSet(Worth, Notes) - Worth[n] + Worth'[n]
  BY <1>1, WorthInt, SumReplace, IdentityAssumption
<1> QED BY <1>2, <1>3

\* A step that leaves every amount as it is, or in which something fails.
LEMMA LiabilitySame ==
    ASSUME StoreInv, LiabilityInv, StoreInv',
           \/ UNCHANGED actor
           \/ \E a \in Actors : Alone(a) /\ actor[a].todo = <<>> /\ actor'[a].todo = <<>>,
           faults' = 0 => /\ faults = 0
                          /\ books'.credit = books.credit /\ wallet'.balance = wallet.balance
                          /\ \A n \in Notes : Spendable(n)' = Spendable(n)
    PROVE  LiabilityInv'
<1>1. CASE UNCHANGED actor
  <2>1. Owing' = Owing /\ \A a \in Actors : Short(actor'[a].todo)
    BY <1>1 DEF Owing, LiabilityInv
  <2>2. ASSUME faults' = 0
        PROVE  books'.credit + SumFunctionOnSet(Owing', Actors)
                 = wallet'.balance + SumFunctionOnSet(Worth', Notes)
    BY <2>1, <2>2, WorthSame DEF LiabilityInv
  <2> QED BY <2>1, <2>2, Zenon DEF LiabilityInv
<1>2. ASSUME NEW a \in Actors, Alone(a), actor[a].todo = <<>>, actor'[a].todo = <<>>
      PROVE  LiabilityInv'
  <2>1. Short(actor'[a].todo) /\ Pending(actor'[a].todo) = 0 /\ Pending(actor[a].todo) = 0
    BY <1>2, PendingOf
  <2>2. books.credit \in Int /\ wallet.balance \in Int
    BY DEF StoreInv, BooksType, WalletOK
  <2>3. SumFunctionOnSet(Worth, Notes) \in Int
    BY WorthInt, SumInt, IdentityAssumption
  <2>4. faults' = 0 =>
               /\ faults = 0
               /\ books'.credit - books.credit + Pending(actor'[a].todo) - Pending(actor[a].todo)
                    = wallet'.balance - wallet.balance
                      + SumFunctionOnSet(Worth', Notes) - SumFunctionOnSet(Worth, Notes)
    BY <2>1, <2>2, <2>3, WorthSame
  <2> QED BY <1>2, <2>1, <2>4, LiabilityKept
<1> QED BY <1>1, <1>2

LEMMA FaultsNat == ASSUME StoreInv PROVE faults \in Nat /\ ~(faults + 1 = 0)
BY DEF StoreInv, RechargeType

\* A step that moves an amount by one transaction, and leaves the posting of it to do.
LEMMA LiabilityMoves ==
    ASSUME StoreInv, LiabilityInv, StoreInv', NEW a \in Actors, Alone(a),
           actor[a].todo = <<>>, Short(actor'[a].todo), UNCHANGED <<books, faults>>,
           Pending(actor'[a].todo)
             = wallet'.balance - wallet.balance
               + SumFunctionOnSet(Worth', Notes) - SumFunctionOnSet(Worth, Notes)
    PROVE  LiabilityInv'
<1>1. Pending(actor[a].todo) = 0
  BY PendingOf
<1>2. books.credit \in Int /\ wallet.balance \in Int
  BY DEF StoreInv, BooksType, WalletOK
<1>3. Pending(actor'[a].todo) \in Int
  BY PendingParts DEF StoreInv, Actor
<1>4. books'.credit - books.credit + Pending(actor'[a].todo) - Pending(actor[a].todo)
        = wallet'.balance - wallet.balance
          + SumFunctionOnSet(Worth', Notes) - SumFunctionOnSet(Worth, Notes)
  <2>1. books'.credit - books.credit + Pending(actor'[a].todo) - Pending(actor[a].todo)
          = Pending(actor'[a].todo)
    BY <1>1, <1>2, <1>3
  <2> QED BY <2>1
<1> QED BY <1>4, LiabilityKept

LEMMA PostLiability ==
    ASSUME StoreInv, LiabilityInv, StoreInv', NEW a \in Actors, Post(a)
    PROVE  LiabilityInv'
<1> DEFINE t == actor[a].todo
<1>1. t \in Seq(Leg) /\ t # <<>> /\ Short(t)
  BY Held DEF Post, LiabilityInv
<1>2. Head(t).amount \in Int /\ Pending(t) = Head(t).amount + Pending(Tail(t)) /\ Short(Tail(t))
  BY <1>1, PendingParts
<1>3. Alone(a) /\ actor'[a].todo = Tail(t)
  <2>1. actor' = [actor EXCEPT ![a].todo = Tail(t)]
    BY DEF Post, StoreInv
  <2> QED BY <2>1, Leaves
<1>4. /\ books'.credit = books.credit + Head(t).amount
      /\ UNCHANGED <<wallet, note, faults>>
  BY DEF Post, store, bounds
<1>5. SumFunctionOnSet(Worth', Notes) = SumFunctionOnSet(Worth, Notes)
  BY <1>4, WorthSame DEF Spendable
<1>6. /\ books.credit \in Int /\ wallet.balance \in Int /\ Pending(Tail(t)) \in Int
      /\ SumFunctionOnSet(Worth, Notes) \in Int
  <2>1. Tail(t) \in Seq(Leg)
    BY <1>1, HeadTailProperties
  <2>2. Pending(Tail(t)) \in Int
    BY <1>2, <2>1, PendingParts
  <2>3. SumFunctionOnSet(Worth, Notes) \in Int
    BY WorthInt, SumInt, IdentityAssumption
  <2> QED BY <2>2, <2>3 DEF StoreInv, BooksType, WalletOK
<1> HIDE DEF t
<1>7. books'.credit - books.credit + Pending(Tail(t)) - Pending(t)
        = wallet'.balance - wallet.balance
          + SumFunctionOnSet(Worth', Notes) - SumFunctionOnSet(Worth, Notes)
  BY <1>2, <1>4, <1>5, <1>6
<1> QED BY <1>2, <1>3, <1>4, <1>7, LiabilityKept DEF t

LEMMA ReceivedMoves ==
    ASSUME StoreInv, NEW s, NEW m, Received(s, m)
    PROVE  wallet'.balance = wallet.balance + m
<1>1. wallet \in [balance : Nat, closed : BOOLEAN]
  BY DEF StoreInv, WalletOK
<1> QED BY <1>1 DEF Received

\* One posting follows the transaction.
LEMMA OnePosting ==
    ASSUME StoreInv, LiabilityInv, StoreInv', NEW a \in Actors, At(a, "topUp") \/ actor[a].todo = <<>>,
           NEW m \in Int, PostAndEnd(a, <<Credit(m)>>), UNCHANGED <<books, faults>>,
           m = wallet'.balance - wallet.balance
               + SumFunctionOnSet(Worth', Notes) - SumFunctionOnSet(Worth, Notes)
    PROVE  LiabilityInv'
<1>1. Alone(a) /\ actor'[a].todo = <<Credit(m)>> /\ actor[a].todo = <<>>
  BY Leaves DEF At
<1>2. Pending(actor'[a].todo) = m /\ Short(actor'[a].todo)
  BY <1>1, PendingOf
<1> QED BY <1>1, <1>2, LiabilityMoves

\* The wallet moves, and the notes stay.
LEMMA WalletPosting ==
    ASSUME StoreInv, LiabilityInv, StoreInv', NEW a \in Actors, actor[a].todo = <<>>,
           NEW m \in Int, PostAndEnd(a, <<Credit(m)>>), UNCHANGED <<books, faults, note>>,
           wallet'.balance = wallet.balance + m
    PROVE  LiabilityInv'
<1>1. SumFunctionOnSet(Worth', Notes) = SumFunctionOnSet(Worth, Notes)
  BY WorthSame DEF Spendable
<1>2. SumFunctionOnSet(Worth, Notes) \in Int /\ wallet.balance \in Int
  <2>1. SumFunctionOnSet(Worth, Notes) \in Int
    BY WorthInt, SumInt, IdentityAssumption
  <2> QED BY <2>1 DEF StoreInv, WalletOK
<1>3. m = wallet'.balance - wallet.balance
            + SumFunctionOnSet(Worth', Notes) - SumFunctionOnSet(Worth, Notes)
  BY <1>1, <1>2
<1> QED BY <1>3, OnePosting

LEMMA ReceivedLiability ==
    ASSUME StoreInv, LiabilityInv, StoreInv', NEW a \in Actors,
           AddTopUp(a) \/ CreditRecharge(a)
    PROVE  LiabilityInv'
<1>1. Grant \in Int /\ Recharge \in Int
  BY Constants
<1>2. CASE AddTopUp(a)
  BY <1>1, <1>2, ReceivedMoves, WalletPosting DEF AddTopUp, At, bounds
<1>3. CASE CreditRecharge(a) /\ Done(a) /\ UNCHANGED store
  <2>1. Alone(a) /\ actor'[a] = Idle /\ actor[a].todo = <<>>
    BY <1>3, Leaves DEF CreditRecharge, At
  <2>2. Idle.todo = <<>>
    BY DEF Idle
  <2> QED BY <1>3, <2>1, <2>2, LiabilitySame DEF CreditRecharge, store, bounds, Spendable
<1>4. CASE CreditRecharge(a) /\ Received("paid", Recharge) /\ PostAndEnd(a, <<Credit(Recharge)>>)
  BY <1>1, <1>4, ReceivedMoves, WalletPosting DEF CreditRecharge, At, bounds
<1> QED BY <1>2, <1>3, <1>4 DEF CreditRecharge

LEMMA DrainLiability ==
    ASSUME StoreInv, LiabilityInv, StoreInv', NEW a \in Actors, Drain(a)
    PROVE  LiabilityInv'
<1>1. actor[a].todo = <<>> /\ UNCHANGED <<books, faults, note>>
  BY DEF Drain, At, bounds
<1>2. CASE Goto(a, "credits") /\ UNCHANGED <<store, drawn>>
  <2>1. Alone(a) /\ actor'[a].todo = <<>>
    BY <1>1, <1>2, Leaves
  <2> QED BY <1>1, <1>2, <2>1, LiabilitySame DEF store, Spendable
<1>3. CASE ~(Goto(a, "credits") /\ UNCHANGED <<store, drawn>>)
  <2>1. PICK taken \in 1..Total :
          /\ wallet'.balance = wallet.balance - taken
          /\ Alone(a) /\ actor'[a].todo = <<Settle(actor[a].invoice, taken)>>
    BY <1>3, DrainTakes
  <2>2. taken \in Int
    OBVIOUS
  <2>3. Pending(actor'[a].todo) = -taken /\ Short(actor'[a].todo)
    BY <2>1, PendingOf
  <2>4. wallet.balance \in Int
    BY DEF StoreInv, WalletOK
  <2>5. SumFunctionOnSet(Worth', Notes) = SumFunctionOnSet(Worth, Notes)
    BY <1>1, WorthSame DEF Spendable
  <2>6. SumFunctionOnSet(Worth, Notes) \in Int
    BY WorthInt, SumInt, IdentityAssumption
  <2>7. Pending(actor'[a].todo) = wallet'.balance - wallet.balance
           + SumFunctionOnSet(Worth', Notes) - SumFunctionOnSet(Worth, Notes)
    BY <2>1, <2>2, <2>3, <2>4, <2>5, <2>6
  <2> QED BY <1>1, <2>1, <2>3, <2>7, LiabilityMoves
<1> QED BY <1>2, <1>3

LEMMA CloseLiability ==
    ASSUME StoreInv, LiabilityInv, StoreInv', NEW a \in Actors, Close(a)
    PROVE  LiabilityInv'
<1>1. actor[a].todo = <<>> /\ UNCHANGED <<books, faults, note>>
  BY DEF Close, At, bounds
<1>2. CASE Done(a) /\ UNCHANGED store
  <2>0. Alone(a) /\ actor'[a] = Idle
    BY <1>2, Leaves
  <2>1. Alone(a) /\ actor'[a].todo = <<>>
    BY <2>0 DEF Idle
  <2> QED BY <1>1, <1>2, <2>1, LiabilitySame DEF store, Spendable
<1>3. CASE ~(Done(a) /\ UNCHANGED store)
  <2> DEFINE x == -residue.paid
             y == -(residue.promo + residue.dated + residue.lapsed)
  <2>1. wallet' = [balance |-> 0, closed |-> TRUE] /\ PostAndEnd(a, <<Credit(x), Credit(y)>>)
    BY <1>3 DEF Close
  <2>2. x \in Int /\ y \in Int /\ x + y = -wallet.balance /\ wallet.balance \in Int
    BY WalletParts
  <2> HIDE DEF x, y
  <2>3. Alone(a) /\ actor'[a].todo = <<Credit(x), Credit(y)>>
    BY <2>1, Leaves
  <2>4. Pending(actor'[a].todo) = x + y /\ Short(actor'[a].todo)
    BY <2>2, <2>3, PendingOf
  <2>5. wallet'.balance = 0
    BY <2>1
  <2>6. SumFunctionOnSet(Worth', Notes) = SumFunctionOnSet(Worth, Notes)
    BY <1>1, WorthSame DEF Spendable
  <2>7. SumFunctionOnSet(Worth, Notes) \in Int
    BY WorthInt, SumInt, IdentityAssumption
  <2>8. Pending(actor'[a].todo) = wallet'.balance - wallet.balance
           + SumFunctionOnSet(Worth', Notes) - SumFunctionOnSet(Worth, Notes)
    BY <2>2, <2>4, <2>5, <2>6, <2>7
  <2> QED BY <1>1, <2>3, <2>4, <2>8, LiabilityMoves
<1> QED BY <1>2, <1>3

LEMMA ExpireLiability ==
    ASSUME StoreInv, LiabilityInv, StoreInv', NEW a \in Actors, ExpireOverdue(a)
    PROVE  LiabilityInv'
<1>1. actor[a].todo = <<>> /\ UNCHANGED <<books, faults, note>>
  BY DEF ExpireOverdue, At, bounds
<1>2. /\ residue.lapsed \in Nat /\ wallet.balance \in Nat /\ ~(wallet.balance < residue.lapsed)
      /\ wallet \in [balance : Nat, closed : BOOLEAN]
  BY WalletParts DEF StoreInv, WalletOK
<1>3. wallet'.balance = wallet.balance - residue.lapsed
  BY <1>2 DEF ExpireOverdue
<1>4. -residue.lapsed \in Int /\ wallet'.balance = wallet.balance + (-residue.lapsed)
  BY <1>2, <1>3
<1>5. PostAndEnd(a, <<Credit(-residue.lapsed)>>)
  BY DEF ExpireOverdue
<1> QED BY <1>1, <1>4, <1>5, WalletPosting

\* A note that waits for its approval has all of its amount.
PendingInv == \A n \in Notes : note[n].status = "pending" => note[n].balance = NoteAmount

LEMMA PendingStep == ASSUME StoreInv, PendingInv, [Next]_vars PROVE PendingInv'
BY NoteStep DEF NotesMove, NoteMoves, PendingInv

\* A note moves, and the wallet stays.
LEMMA NotePosting ==
    ASSUME StoreInv, LiabilityInv, StoreInv', NEW a \in Actors, actor[a].todo = <<>>,
           NEW n \in Notes, \A o \in Notes : o # n => note'[o] = note[o],
           NEW m \in Int, PostAndEnd(a, <<Credit(m)>>), UNCHANGED <<books, faults, wallet>>,
           Spendable(n)' = Spendable(n) + m
    PROVE  LiabilityInv'
<1>1. SumFunctionOnSet(Worth', Notes) = SumFunctionOnSet(Worth, Notes) - Spendable(n) + Spendable(n)'
  BY WorthMoves
<1>2. SumFunctionOnSet(Worth, Notes) \in Int /\ wallet.balance \in Int /\ Spendable(n) \in Int
  <2>1. SumFunctionOnSet(Worth, Notes) \in Int
    BY WorthInt, SumInt, IdentityAssumption
  <2> QED BY <2>1, SpendableNat DEF StoreInv, WalletOK
<1>3. m = wallet'.balance - wallet.balance
            + SumFunctionOnSet(Worth', Notes) - SumFunctionOnSet(Worth, Notes)
  BY <1>1, <1>2
<1> QED BY <1>3, OnePosting

LEMMA WriteOffLiability ==
    ASSUME StoreInv, LiabilityInv, StoreInv', NEW a \in Actors, actor[a].todo = <<>>,
           NEW n \in Notes, Spendable(n) > 0, NEW st, st # "issued", WriteOff(a, n, st),
           UNCHANGED <<books, faults, wallet>>
    PROVE  LiabilityInv'
<1>1. Spendable(n) = note[n].balance /\ note[n].balance \in Nat
  BY NoteParts, SpendableNat DEF Spendable, Note
<1>2. note' = [note EXCEPT ![n].status = st, ![n].balance = 0]
  BY DEF WriteOff
<1>3. note'[n].status = st /\ \A o \in Notes : o # n => note'[o] = note[o]
  BY <1>2, NoteParts DEF Note
<1>4. Spendable(n)' = 0
  BY <1>3 DEF Spendable
<1>5. -note[n].balance \in Int /\ Spendable(n)' = Spendable(n) + (-note[n].balance)
  BY <1>1, <1>4
<1>6. PostAndEnd(a, <<Credit(-note[n].balance)>>)
  BY DEF WriteOff
<1> QED BY <1>3, <1>5, <1>6, NotePosting

LEMMA CreateLiability ==
    ASSUME StoreInv, LiabilityInv, StoreInv', NEW a \in Actors, NEW n \in Notes, CreateNote(a, n)
    PROVE  LiabilityInv'
<1>1. actor[a].todo = <<>> /\ UNCHANGED <<books, faults, wallet>>
  BY DEF CreateNote, At, bounds, store
<1>2. PICK st \in {"issued", "pending"} :
         /\ note' = [note EXCEPT ![n].status = st, ![n].balance = NoteAmount]
         /\ PostAndEnd(a, IF st = "issued" THEN <<Credit(NoteAmount)>> ELSE <<>>)
  BY DEF CreateNote
<1>3. /\ note'[n].status = st /\ note'[n].balance = NoteAmount
      /\ \A o \in Notes : o # n => note'[o] = note[o]
  BY <1>2, NoteParts DEF Note
<1>4. Spendable(n) = 0
  BY DEF CreateNote, Spendable, None
<1>5. CASE st = "issued"
  <2>1. Spendable(n)' = NoteAmount
    BY <1>3, <1>5 DEF Spendable
  <2>2. NoteAmount \in Int /\ Spendable(n)' = Spendable(n) + NoteAmount
    BY <1>4, <2>1, Constants
  <2> QED BY <1>1, <1>2, <1>3, <1>5, <2>2, NotePosting
<1>6. CASE st = "pending"
  <2>1. Spendable(n)' = 0
    BY <1>3, <1>6 DEF Spendable
  <2>2. \A o \in Notes : Spendable(o)' = Spendable(o)
    BY <1>3, <1>4, <2>1 DEF Spendable
  <2>3. PostAndEnd(a, <<>>)
    BY <1>2, <1>6
  <2>4. Alone(a) /\ actor'[a].todo = <<>>
    BY <2>3, Leaves
  <2> QED BY <1>1, <2>2, <2>4, LiabilitySame
<1> QED BY <1>5, <1>6

LEMMA ApproveLiability ==
    ASSUME StoreInv, PendingInv, LiabilityInv, StoreInv', NEW a \in Actors, Approve(a)
    PROVE  LiabilityInv'
<1>0. PICK n \in Notes : n = actor[a].note
  BY Held DEF Approve, At, ActorOK
<1>1. actor[a].todo = <<>> /\ UNCHANGED <<books, faults, wallet>>
  BY DEF Approve, At, bounds, store
<1>2. CASE Done(a) /\ UNCHANGED note
  <2>0. Alone(a) /\ actor'[a] = Idle
    BY <1>2, Leaves
  <2>1. Alone(a) /\ actor'[a].todo = <<>>
    BY <2>0 DEF Idle
  <2> QED BY <1>1, <1>2, <2>1, LiabilitySame DEF Spendable
<1>3. CASE ~(Done(a) /\ UNCHANGED note)
  <2>1. /\ note[n].status = "pending" /\ note' = [note EXCEPT ![n].status = "issued"]
        /\ PostAndEnd(a, <<Credit(NoteAmount)>>)
    BY <1>0, <1>3 DEF Approve
  <2>3. /\ note'[n].status = "issued" /\ note'[n].balance = NoteAmount
        /\ \A o \in Notes : o # n => note'[o] = note[o]
    BY <2>1, NoteParts DEF Note, PendingInv
  <2>4. Spendable(n) = 0 /\ Spendable(n)' = NoteAmount
    BY <2>1, <2>3 DEF Spendable
  <2>5. NoteAmount \in Int /\ Spendable(n)' = Spendable(n) + NoteAmount
    BY <2>4, Constants
  <2> QED BY <1>1, <2>1, <2>3, <2>5, NotePosting
<1> QED BY <1>2, <1>3

LEMMA ApplyLiability ==
    ASSUME StoreInv, LiabilityInv, StoreInv', NEW a \in Actors, ApplyAdjustmentCredits(a)
    PROVE  LiabilityInv'
<1>1. actor[a].todo = <<>> /\ UNCHANGED <<books, faults, wallet>>
  BY DEF ApplyAdjustmentCredits, At, bounds, store
<1>2. CASE Done(a) /\ UNCHANGED note
  <2>0. Alone(a) /\ actor'[a] = Idle
    BY <1>2, Leaves
  <2>1. Alone(a) /\ actor'[a].todo = <<>>
    BY <2>0 DEF Idle
  <2> QED BY <1>1, <1>2, <2>1, LiabilitySame DEF Spendable
<1>3. CASE ~(Done(a) /\ UNCHANGED note)
  <2> DEFINE i == actor[a].invoice
             available == [n \in Notes |-> Spendable(n)]
  <2>1. PICK from \in [Notes -> 0..NoteAmount], applied \in 1..(Total - actor[a].paid) :
          /\ SumOver(from) = applied
          /\ \A n \in Notes : from[n] <= available[n]
          /\ note' = [n \in Notes |->
                 [note[n] EXCEPT !.balance = @ - from[n],
                                 !.status = IF from[n] > 0 /\ from[n] = available[n]
                                            THEN "used" ELSE @]]
          /\ PostAndEnd(a, <<Settle(i, applied)>>)
    BY <1>3 DEF ApplyAdjustmentCredits
  <2>2. \A n \in Notes : from[n] \in Int /\ from[n] >= 0
    BY Constants
  <2>3. ASSUME NEW n \in Notes PROVE Spendable(n) = Spendable(n)' + from[n]
    <3>1. PICK x \in Note : x = note[n]
      BY NoteParts
    <3>2. note'[n] = [x EXCEPT !.balance = x.balance - from[n],
                               !.status = IF from[n] > 0 /\ from[n] = Spendable(n)
                                          THEN "used" ELSE x.status]
      BY <2>1, <3>1
    <3>3. /\ note'[n].balance = x.balance - from[n]
          /\ note'[n].status = IF from[n] > 0 /\ from[n] = Spendable(n) THEN "used" ELSE x.status
      BY <3>2 DEF Note
    <3>4. from[n] <= Spendable(n)
      BY <2>1
    <3>5. x.balance \in Nat
      BY Constants DEF Note
    <3>6. CASE x.status = "issued"
      <4>1. Spendable(n) = x.balance
        BY <3>1, <3>6 DEF Spendable
      <4>2. CASE from[n] > 0 /\ from[n] = Spendable(n)
        BY <2>2, <3>3, <3>5, <4>1, <4>2 DEF Spendable
      <4>3. CASE ~(from[n] > 0 /\ from[n] = Spendable(n))
        <5>1. Spendable(n)' = x.balance - from[n]
          BY <3>3, <3>6, <4>3 DEF Spendable
        <5> QED BY <2>2, <3>5, <4>1, <5>1
      <4> QED BY <4>2, <4>3
    <3>7. CASE x.status # "issued"
      <4>1. Spendable(n) = 0 /\ from[n] = 0
        <5>1. Spendable(n) = 0
          BY <3>1, <3>7 DEF Spendable
        <5> QED BY <2>2, <3>4, <5>1
      <4>2. Spendable(n)' = 0
        BY <3>3, <3>7, <4>1 DEF Spendable
      <4> QED BY <4>1, <4>2
    <3> QED BY <3>6, <3>7
  <2>4. SumFunctionOnSet(from, Notes) = applied
    <3>1. DOMAIN from = Notes
      OBVIOUS
    <3> QED BY <2>1, <3>1, SumOverIs
  <2>5. SumFunctionOnSet(Worth, Notes) = SumFunctionOnSet(Worth', Notes) + SumFunctionOnSet(from, Notes)
    <3>1. \A n \in Notes : Worth'[n] \in Int /\ from[n] \in Int /\ Worth[n] = Worth'[n] + from[n]
      BY <2>2, <2>3, WorthInt DEF Worth
    <3> QED BY <3>1, SumOfSums, IdentityAssumption
  <2>6. /\ SumFunctionOnSet(Worth, Notes) \in Int /\ SumFunctionOnSet(Worth', Notes) \in Int
        /\ wallet.balance \in Int /\ applied \in Int
    <3>1. SumFunctionOnSet(Worth, Notes) \in Int /\ SumFunctionOnSet(Worth', Notes) \in Int
      BY WorthInt, SumInt, IdentityAssumption
    <3> QED BY <3>1 DEF StoreInv, WalletOK
  <2>7. Alone(a) /\ actor'[a].todo = <<Settle(i, applied)>>
    BY <2>1, Leaves
  <2>8. Pending(actor'[a].todo) = -applied /\ Short(actor'[a].todo)
    BY <2>7, PendingOf
  <2> HIDE DEF i, available
  <2>9. Pending(actor'[a].todo) = wallet'.balance - wallet.balance
           + SumFunctionOnSet(Worth', Notes) - SumFunctionOnSet(Worth, Notes)
    BY <1>1, <2>4, <2>5, <2>6, <2>8
  <2> QED BY <1>1, <2>7, <2>8, <2>9, LiabilityMoves
<1> QED BY <1>2, <1>3

LEMMA VoidLiability ==
    ASSUME StoreInv, LiabilityInv, StoreInv', NEW a \in Actors, VoidAdjustmentCredit(a)
    PROVE  LiabilityInv'
<1>0. PICK n \in Notes : n = actor[a].note
  BY Held DEF VoidAdjustmentCredit, At, ActorOK
<1>1. actor[a].todo = <<>> /\ UNCHANGED <<books, faults, wallet>>
  BY DEF VoidAdjustmentCredit, At, bounds, store
<1>2. CASE Done(a) /\ UNCHANGED note
  <2>0. Alone(a) /\ actor'[a] = Idle
    BY <1>2, Leaves
  <2>1. Alone(a) /\ actor'[a].todo = <<>>
    BY <2>0 DEF Idle
  <2> QED BY <1>1, <1>2, <2>1, LiabilitySame DEF Spendable
<1>3. CASE Spendable(n) > 0 /\ WriteOff(a, n, "void")
  BY <1>1, <1>3, WriteOffLiability
<1> QED BY <1>0, <1>2, <1>3 DEF VoidAdjustmentCredit

LEMMA RejectLiability ==
    ASSUME StoreInv, LiabilityInv, StoreInv', NEW a \in Actors, Reject(a)
    PROVE  LiabilityInv'
<1>1. actor[a].todo = <<>> /\ UNCHANGED <<books, faults, wallet>>
  BY DEF Reject, At, bounds, store
<1>2. Alone(a) /\ actor'[a] = Idle
  BY Leaves DEF Reject
<1>3. actor'[a].todo = <<>>
  BY <1>2 DEF Idle
<1>4. \A n \in Notes : Spendable(n)' = Spendable(n)
  <2> SUFFICES ASSUME NEW n \in Notes PROVE Spendable(n)' = Spendable(n)
    OBVIOUS
  <2>1. /\ note'[n].balance = note[n].balance
        /\ note'[n].status = note[n].status
             \/ (note[n].status = "pending" /\ note'[n].status = "rejected")
    BY NoteParts DEF Reject, Note
  <2> QED BY <2>1 DEF Spendable
<1> QED BY <1>1, <1>2, <1>3, <1>4, LiabilitySame

LEMMA NotingLiability ==
    ASSUME StoreInv, PendingInv, LiabilityInv, StoreInv', NEW a \in Actors, Noting(a)
    PROVE  LiabilityInv'
<1>1. ASSUME NEW n \in Notes, ClaimExpiredCredit(a, n) PROVE LiabilityInv'
  <2>1. /\ actor[a].todo = <<>> /\ UNCHANGED <<books, faults, wallet>>
        /\ Spendable(n) > 0 /\ WriteOff(a, n, "expired")
    BY <1>1 DEF ClaimExpiredCredit, At, bounds, store
  <2> QED BY <2>1, WriteOffLiability
<1>2. ASSUME NEW n \in Notes, NEW op, Load(a, n, op) PROVE LiabilityInv'
  <2>1. actor[a].todo = <<>> /\ UNCHANGED <<books, faults, wallet, note>>
    BY <1>2 DEF Load, At, bounds, store
  <2>2. Alone(a) /\ actor'[a].todo = <<>>
    BY <1>2, StartLeaves DEF Load
  <2> QED BY <2>1, <2>2, LiabilitySame DEF Spendable
<1> QED BY <1>1, <1>2, CreateLiability, ApproveLiability, RejectLiability, VoidLiability DEF Noting

----------------------------------------------------------------------------

\* Steps that move no stored value.
LEMMA AsideLiability ==
    ASSUME StoreInv, LiabilityInv, StoreInv', NEW a \in Actors,
           \/ Done(a) \/ \E p : Goto(a, p)
           \/ \E p, x : \/ actor' = [actor EXCEPT ![a] = [Idle EXCEPT !.pc = p]]
                       \/ actor' = [actor EXCEPT ![a] = [Idle EXCEPT !.pc = p, !.source = x]]
                       \/ actor' = [actor EXCEPT ![a] = [Idle EXCEPT !.pc = p, !.seen = x]]
                       \/ actor' = [actor EXCEPT ![a] = [Idle EXCEPT !.pc = p, !.invoice = x]],
           actor[a].todo = <<>>, UNCHANGED <<store, note>>,
           (UNCHANGED faults /\ books'.credit = books.credit) \/ faults' = faults + 1
    PROVE  LiabilityInv'
<1>1. Alone(a) /\ actor'[a].todo = <<>>
  <2>1. CASE Done(a)
    <3>1. Alone(a) /\ actor'[a] = Idle
      BY <2>1, Leaves
    <3> QED BY ONLY <3>1 DEF Idle
  <2>2. ASSUME NEW p, Goto(a, p) PROVE Alone(a) /\ actor'[a].todo = <<>>
    BY <2>2, Leaves
  <2>3. ASSUME NEW p, NEW x,
               \/ actor' = [actor EXCEPT ![a] = [Idle EXCEPT !.pc = p]]
               \/ actor' = [actor EXCEPT ![a] = [Idle EXCEPT !.pc = p, !.source = x]]
               \/ actor' = [actor EXCEPT ![a] = [Idle EXCEPT !.pc = p, !.seen = x]]
               \/ actor' = [actor EXCEPT ![a] = [Idle EXCEPT !.pc = p, !.invoice = x]]
        PROVE  Alone(a) /\ actor'[a].todo = <<>>
    <3>1. CASE actor' = [actor EXCEPT ![a] = [Idle EXCEPT !.pc = p]]
      BY <3>1, StartLeaves
    <3>2. CASE actor' = [actor EXCEPT ![a] = [Idle EXCEPT !.pc = p, !.source = x]]
      BY <3>2, StartLeaves
    <3>3. CASE actor' = [actor EXCEPT ![a] = [Idle EXCEPT !.pc = p, !.seen = x]]
      BY <3>3, StartLeaves
    <3>4. CASE actor' = [actor EXCEPT ![a] = [Idle EXCEPT !.pc = p, !.invoice = x]]
      BY <3>4, CreateLeaves
    <3> QED BY <2>3, <3>1, <3>2, <3>3, <3>4
  <2> QED BY <2>1, <2>2, <2>3
<1>2. faults' = 0 => faults = 0 /\ books'.credit = books.credit
  BY FaultsNat
<1> QED BY <1>1, <1>2, LiabilitySame DEF store, Spendable

LEMMA GeneratingLiability ==
    ASSUME StoreInv, LiabilityInv, StoreInv', NEW a \in Actors, Generating(a)
    PROVE  LiabilityInv'
<1>1. ASSUME NEW i \in Invoices, CreateInvoice(a, i) PROVE LiabilityInv'
  BY <1>1, AsideLiability DEF CreateInvoice, At, bounds
<1>2. CASE RecordInvoiceLeg(a)
  <2>1. books'.credit = books.credit
    BY <1>2 DEF RecordInvoiceLeg, StoreInv, BooksType
  <2> QED BY <1>2, <2>1, AsideLiability DEF RecordInvoiceLeg, At, bounds
<1>3. CASE LookUpWallet(a)
  BY <1>3, AsideLiability DEF LookUpWallet, At, bounds
<1>4. CASE PersistDrain(a)
  BY <1>4, AsideLiability DEF PersistDrain, GoOnToCredits, At, bounds
<1>5. CASE StatementFails(a)
  BY <1>5, AsideLiability DEF StatementFails, GoOnToCredits, At, bounds
<1> QED BY <1>1, <1>2, <1>3, <1>4, <1>5, DrainLiability, ApplyLiability DEF Generating

LEMMA RechargingLiability ==
    ASSUME StoreInv, LiabilityInv, StoreInv', NEW a \in Actors, Recharging(a)
    PROVE  LiabilityInv'
<1>1. CASE ListDueForRecharge(a)
  BY <1>1, AsideLiability DEF ListDueForRecharge, At, bounds
<1>2. CASE ChargeSavedPaymentMethod(a)
  BY <1>2, AsideLiability DEF ChargeSavedPaymentMethod, At, bounds
<1>3. CASE ChargeUnanswered(a)
  BY <1>3, AsideLiability DEF ChargeUnanswered, At
<1> QED BY <1>1, <1>2, <1>3, ReceivedLiability DEF Recharging

LEMMA KeepingLiability ==
    ASSUME StoreInv, LiabilityInv, StoreInv', NEW a \in Actors, Keeping(a)
    PROVE  LiabilityInv'
<1>1. ASSUME NEW s, TopUp(a, s) PROVE LiabilityInv'
  BY <1>1, AsideLiability DEF TopUp, At
<1>2. CASE CloseWallet(a)
  BY <1>2, AsideLiability DEF CloseWallet, At, bounds
<1> QED BY <1>1, <1>2, ReceivedLiability, CloseLiability, ExpireLiability DEF Keeping

LEMMA LostLiability ==
    ASSUME StoreInv, LiabilityInv, StoreInv', NEW a \in Actors, LosePosting(a) \/ Crash(a)
    PROVE  LiabilityInv'
<1>1. faults' # 0
  BY FaultsNat DEF LosePosting, Crash
<1>2. CASE LosePosting(a)
  <2>1. actor[a].todo \in Seq(Leg) /\ actor[a].todo # <<>> /\ Short(actor[a].todo)
    BY <1>2, Held DEF LosePosting, LiabilityInv
  <2>2. actor' = [actor EXCEPT ![a].todo = Tail(actor[a].todo)]
    BY <1>2 DEF LosePosting, StoreInv
  <2>3. Alone(a) /\ actor'[a].todo = Tail(actor[a].todo)
    BY <2>2, Leaves
  <2>4. Short(actor'[a].todo)
    BY <2>1, <2>3, PendingParts
  <2> QED BY <1>1, <2>3, <2>4, LiabilityKept
<1>3. CASE Crash(a)
  <2>1. Alone(a) /\ actor'[a] = Idle
    BY <1>3, Leaves DEF Crash
  <2>2. Short(actor'[a].todo)
    BY <2>1, PendingOf DEF Idle
  <2> QED BY <1>1, <2>1, <2>2, LiabilityKept
<1> QED BY <1>2, <1>3

LEMMA LiabilityStep ==
    ASSUME StoreInv, PendingInv, LiabilityInv, StoreInv', [Next]_vars
    PROVE  LiabilityInv'
<1>1. ASSUME NEW a \in Actors, Acts(a) PROVE LiabilityInv'
  BY <1>1, PostLiability, LostLiability, GeneratingLiability, RechargingLiability,
     KeepingLiability, NotingLiability DEF Acts
<1>2. CASE Environment
  <2>1. /\ UNCHANGED <<actor, books, faults, wallet>>
        /\ UNCHANGED note \/ \E n \in Notes : FallDue(n)
    BY <1>2 DEF Environment, Lapse, FallDue, ForgetKey, bounds, store
  <2>2. \A n \in Notes : Spendable(n)' = Spendable(n)
    <3>1. CASE UNCHANGED note
      BY <3>1 DEF Spendable
    <3>2. ASSUME NEW m \in Notes, FallDue(m), NEW n \in Notes PROVE Spendable(n)' = Spendable(n)
      <4>1. note'[n].status = note[n].status /\ note'[n].balance = note[n].balance
        BY <3>2, NoteParts DEF FallDue, Note
      <4> QED BY <4>1 DEF Spendable
    <3> QED BY <2>1, <3>1, <3>2
  <2> QED BY <2>1, <2>2, LiabilitySame
<1>3. CASE UNCHANGED vars
  <2>1. UNCHANGED <<actor, books, faults, wallet, note>>
    BY <1>3 DEF vars
  <2> QED BY <2>1, LiabilitySame DEF Spendable
<1> QED BY <1>1, <1>2, <1>3, Steps

LEMMA LiabilityInit == Init => PendingInv /\ LiabilityInv
<1> SUFFICES ASSUME Init PROVE PendingInv /\ LiabilityInv
  OBVIOUS
<1>1. PendingInv
  BY DEF Init, PendingInv, None
<1>2. \A a \in Actors : actor[a].todo = <<>>
  BY DEF Init, Idle
<1>3. \A a \in Actors : Short(actor[a].todo) /\ Owing[a] = 0
  BY <1>2, PendingOf DEF Owing
<1>4. \A n \in Notes : Worth[n] = 0
  BY DEF Init, Worth, Spendable, None
<1>5. SumFunctionOnSet(Owing, Actors) = 0 /\ SumFunctionOnSet(Worth, Notes) = 0
  BY <1>3, <1>4, SumZero, IdentityAssumption
<1>6. books.credit = 0 /\ wallet.balance = 0
  BY DEF Init
<1> QED BY <1>1, <1>3, <1>5, <1>6 DEF LiabilityInv

----------------------------------------------------------------------------
(* What an invoice owes.  At most one actor owns an invoice: it generates  *)
(* it, or has the last posting of it to do.  How far it is says what the   *)
(* row, the draws and the receivable are; an invoice that nobody owns any  *)
(* more is finished.                                                       *)

Stages == {"receivable", "lookup", "drain", "persist", "credits"}

Owns(x, i) == x.invoice = i \/ \E m : x.todo = <<Settle(i, m)>>
Customers(t) ==
    \/ t = <<>>
    \/ \E m \in Int : t = <<Credit(m)>>
    \/ \E m, n \in Int : t = <<Credit(m), Credit(n)>>
ActorStage(x) ==
    /\ x.invoice \in Invoices <=> x.pc \in Stages
    /\ Customers(x.todo) \/ \E i \in Invoices, m \in Int : x.todo = <<Settle(i, m)>>

Untouched(r, d) ==
    r.status = "open" /\ r.amountPaid = 0 /\ r.creditApplied = 0 /\ d.wallet = 0 /\ d.credit = 0
Written(r, d) ==
    /\ r.amountPaid = d.wallet /\ r.creditApplied = d.credit
    /\ Total - d.wallet - d.credit >= 0
    /\ r.status = IF Total - d.wallet - d.credit = 0 THEN "paid" ELSE "open"

\* The owner x of invoice i, whose row is r, draws d and receivable c.
Raised(x, i, r, d, c) ==
    x.pc = "receivable" /\ x.invoice = i /\ x.todo = <<>> /\ x.paid = 0 /\ Untouched(r, d) /\ c = 0
Posted(x, i, r, d, c) ==
    /\ x.pc \in {"lookup", "drain"} /\ x.invoice = i /\ x.todo = <<>> /\ x.paid = 0
    /\ Untouched(r, d) /\ c = Total
Drained(x, i, r, d, c) ==
    /\ x.pc = "persist" /\ x.invoice = i /\ x.paid \in 1..Total
    /\ r.status = "open" /\ r.amountPaid = 0 /\ r.creditApplied = 0
    /\ d.wallet = x.paid /\ d.credit = 0
    /\ \/ x.todo = <<>> /\ c = Total - x.paid
       \/ x.todo = <<Settle(i, x.paid)>> /\ c = Total
Persisted(x, i, r, d, c) ==
    /\ x.pc = "credits" /\ x.invoice = i /\ x.todo = <<>> /\ x.paid < Total
    /\ Written(r, d) /\ d.wallet = x.paid /\ d.credit = 0 /\ c = Total - x.paid
Applied(x, i, r, d, c) ==
    /\ x.pc = "idle" /\ x.invoice = None /\ x.todo = <<Settle(i, d.credit)>>
    /\ Written(r, d) /\ c = Total - d.wallet
Stage(x, i, r, d, c) ==
    \/ Raised(x, i, r, d, c) \/ Posted(x, i, r, d, c) \/ Drained(x, i, r, d, c)
    \/ Persisted(x, i, r, d, c) \/ Applied(x, i, r, d, c)

Unowned(i) == \A a \in Actors : ~Owns(actor[a], i)
Fresh(i) ==
    /\ invoice[i].status = None /\ invoice[i].amountPaid = 0 /\ invoice[i].creditApplied = 0
    /\ drawn[i].wallet = 0 /\ drawn[i].credit = 0 /\ books.receivable[i] = 0 /\ Unowned(i)
Worked(a, i) ==
    /\ \A b \in Actors \ {a} : ~Owns(actor[b], i)
    /\ Stage(actor[a], i, invoice[i], drawn[i], books.receivable[i])
Finished(i) ==
    /\ Unowned(i) /\ Written(invoice[i], drawn[i])
    /\ books.receivable[i] = Total - drawn[i].wallet - drawn[i].credit
Good(i) == Fresh(i) \/ Finished(i) \/ \E a \in Actors : Worked(a, i)

OwedInv ==
    /\ \A a \in Actors : ActorStage(actor[a])
    /\ faults = 0 => \A i \in Invoices : Good(i)

\* The stages of an owner exclude one another and another invoice.
LEMMA StageParts ==
    ASSUME NEW x, NEW i, NEW r, NEW d, NEW c, Stage(x, i, r, d, c)
    PROVE  /\ x.pc \in Stages \cup {"idle"}
           /\ x.pc = "receivable" => Raised(x, i, r, d, c)
           /\ x.pc \in {"lookup", "drain"} => Posted(x, i, r, d, c)
           /\ x.pc = "persist" => Drained(x, i, r, d, c)
           /\ x.pc = "credits" => Persisted(x, i, r, d, c)
           /\ x.pc = "idle" => Applied(x, i, r, d, c)
           /\ x.invoice = i \/ x.invoice = None
           /\ x.todo = <<>> \/ \E m : x.todo = <<Settle(i, m)>>
BY Zenon DEF Stage, Stages, Raised, Posted, Drained, Persisted, Applied

LEMMA SettleOf ==
    /\ \A i, j, m, n : <<Settle(i, m)>> = <<Settle(j, n)>> => i = j
    /\ \A i, m : <<Settle(i, m)>> # <<>>
    /\ \A i \in Invoices : \A m, n, o : /\ <<Settle(i, m)>> # <<Credit(n)>>
                                        /\ <<Settle(i, m)>> # <<Credit(n), Credit(o)>>
<1>1. \A i, j, m, n : <<Settle(i, m)>> = <<Settle(j, n)>> => i = j
  <2> SUFFICES ASSUME NEW i, NEW j, NEW m, NEW n, <<Settle(i, m)>> = <<Settle(j, n)>> PROVE i = j
    OBVIOUS
  <2>1. Settle(i, m) = Settle(j, n)
    OBVIOUS
  <2>2. Settle(i, m).invoice = i /\ Settle(j, n).invoice = j
    BY DEF Settle
  <2> QED BY <2>1, <2>2
<1>2. ASSUME NEW i \in Invoices, NEW m, NEW n PROVE Settle(i, m) # Credit(n)
  <2>1. Settle(i, m).invoice = i /\ Credit(n).invoice = None
    BY DEF Settle, Credit
  <2> QED BY <2>1, IdentityAssumption
<1> QED BY <1>1, <1>2

LEMMA OwnsOther ==
    ASSUME NEW x, NEW i, NEW r, NEW d, NEW c, Stage(x, i, r, d, c), NEW j \in Invoices, j # i
    PROVE  ~Owns(x, j)
<1>1. x.invoice # j
  BY StageParts, IdentityAssumption
<1>2. ASSUME NEW m, x.todo = <<Settle(j, m)>> PROVE FALSE
  BY <1>2, StageParts, SettleOf
<1> QED BY <1>1, <1>2 DEF Owns

LEMMA CustomersOwn ==
    ASSUME NEW x, x.invoice \notin Invoices, Customers(x.todo), NEW i \in Invoices
    PROVE  ~Owns(x, i)
BY SettleOf DEF Owns, Customers

\* The actor that owns an invoice works on it.
LEMMA OwnerWorks ==
    ASSUME NEW i \in Invoices, Good(i), NEW a \in Actors, Owns(actor[a], i)
    PROVE  Worked(a, i)
BY Zenon DEF Good, Fresh, Finished, Unowned, Worked

LEMMA IdleOwnsNothing ==
    ASSUME NEW i \in Invoices, Good(i), NEW a \in Actors,
           actor[a].todo = <<>>, actor[a].pc \notin Stages
    PROVE  ~Owns(actor[a], i)
<1> SUFFICES ASSUME Owns(actor[a], i) PROVE FALSE
  OBVIOUS
<1>1. Stage(actor[a], i, invoice[i], drawn[i], books.receivable[i])
  BY OwnerWorks DEF Worked
<1>2. Applied(actor[a], i, invoice[i], drawn[i], books.receivable[i])
  BY <1>1, StageParts
<1> QED BY <1>2, SettleOf DEF Applied

\* What a step leaves alone.
LEMMA ElsewhereGood ==
    ASSUME NEW i \in Invoices, Good(i), NEW a \in Actors, Alone(a),
           ~Owns(actor[a], i), ~Owns(actor'[a], i),
           invoice'[i] = invoice[i], drawn'[i] = drawn[i],
           books'.receivable[i] = books.receivable[i]
    PROVE  Good(i)'
<1>1. \A b \in Actors : Owns(actor'[b], i) => b # a /\ actor'[b] = actor[b]
  BY DEF Alone
<1>2. CASE Fresh(i)
  BY <1>1, <1>2 DEF Good, Fresh, Unowned
<1>3. CASE Finished(i)
  BY <1>1, <1>3 DEF Good, Finished, Unowned
<1>4. ASSUME NEW b \in Actors, Worked(b, i) PROVE Good(i)'
  <2>1. b # a
    <3>1. Stage(actor[b], i, invoice[i], drawn[i], books.receivable[i])
      BY <1>4 DEF Worked
    <3>2. Owns(actor[b], i)
      BY <3>1 DEF Stage, Raised, Posted, Drained, Persisted, Applied, Owns
    <3> QED BY <3>2
  <2>2. actor'[b] = actor[b]
    BY <2>1 DEF Alone
  <2>3. Worked(b, i)'
    BY <1>1, <1>4, <2>2 DEF Worked
  <2> QED BY <2>3 DEF Good
<1> QED BY <1>2, <1>3, <1>4 DEF Good

\* The owner moves on, or is done.
LEMMA OwnerGood ==
    ASSUME NEW i \in Invoices, NEW a \in Actors, Alone(a), \A b \in Actors \ {a} : ~Owns(actor[b], i)
    PROVE  /\ Stage(actor'[a], i, invoice'[i], drawn'[i], books'.receivable[i]) => Good(i)'
           /\ /\ ~Owns(actor'[a], i) /\ Written(invoice'[i], drawn'[i])
              /\ books'.receivable[i] = Total - drawn'[i].wallet - drawn'[i].credit
              => Good(i)'
<1>1. \A b \in Actors \ {a} : ~Owns(actor'[b], i)
  BY DEF Alone
<1>2. ASSUME Stage(actor'[a], i, invoice'[i], drawn'[i], books'.receivable[i]) PROVE Good(i)'
  <2>1. Worked(a, i)'
    BY <1>1, <1>2 DEF Worked
  <2> QED BY <2>1 DEF Good
<1>3. ASSUME ~Owns(actor'[a], i), Written(invoice'[i], drawn'[i]),
             books'.receivable[i] = Total - drawn'[i].wallet - drawn'[i].credit
      PROVE  Good(i)'
  <2>1. Finished(i)'
    BY <1>1, <1>3 DEF Finished, Unowned
  <2> QED BY <2>1 DEF Good
<1> QED BY <1>2, <1>3

\* A step of an actor that generates no invoice.
LEMMA BystanderOwed ==
    ASSUME StoreInv, OwedInv, NEW a \in Actors, Alone(a), UNCHANGED <<invoice, drawn>>,
           actor[a].todo = <<>>, actor[a].pc \notin Stages,
           actor'[a].pc \notin Stages, actor'[a].invoice \notin Invoices, Customers(actor'[a].todo),
           UNCHANGED <<books, faults>> \/ faults' = faults + 1
    PROVE  OwedInv'
<1>1. \A b \in Actors : ActorStage(actor'[b])
  BY DEF OwedInv, Alone, ActorStage
<1>2. ASSUME faults' = 0, NEW i \in Invoices PROVE Good(i)'
  <2>1. Good(i) /\ UNCHANGED books
    BY <1>2, FaultsNat DEF OwedInv
  <2>2. ~Owns(actor[a], i) /\ ~Owns(actor'[a], i)
    BY <2>1, IdleOwnsNothing, CustomersOwn
  <2> QED BY <2>1, <2>2, ElsewhereGood
<1> QED BY <1>1, <1>2 DEF OwedInv

\* A step in which something fails.
LEMMA FailedOwed ==
    ASSUME StoreInv, OwedInv, NEW a \in Actors, Alone(a), ActorStage(actor'[a]), faults' = faults + 1
    PROVE  OwedInv'
BY FaultsNat DEF OwedInv, Alone

\* A step of the owner of an invoice: the others stay as they are.
LEMMA OwnerOwed ==
    ASSUME StoreInv, OwedInv, NEW a \in Actors, Alone(a), ActorStage(actor'[a]), UNCHANGED faults,
           NEW i \in Invoices,
           \A j \in Invoices : j # i =>
               /\ invoice'[j] = invoice[j] /\ drawn'[j] = drawn[j]
               /\ books'.receivable[j] = books.receivable[j]
               /\ ~Owns(actor'[a], j) /\ (Good(j) => ~Owns(actor[a], j)),
           faults = 0 => Good(i)'
    PROVE  OwedInv'
<1>1. \A b \in Actors : ActorStage(actor'[b])
  BY DEF OwedInv, Alone
<1>2. ASSUME faults' = 0, NEW j \in Invoices PROVE Good(j)'
  <2>1. CASE j = i
    BY <1>2, <2>1
  <2>2. CASE j # i
    <3>1. Good(j)
      BY <1>2 DEF OwedInv
    <3> QED BY <2>2, <3>1, ElsewhereGood
  <2> QED BY <2>1, <2>2
<1> QED BY <1>1, <1>2 DEF OwedInv

LEMMA CustomerLegs ==
    /\ Customers(<<>>)
    /\ \A m \in Int : Customers(<<Credit(m)>>)
    /\ \A m, n \in Int : Customers(<<Credit(m), Credit(n)>>)
BY DEF Customers

\* The actor at the end of an operation, or on its way through one that is none of the
\* generation's.
LEMMA AwayFromInvoices ==
    ASSUME StoreInv, OwedInv, NEW a \in Actors, actor[a].todo = <<>>, actor[a].pc \notin Stages,
           \/ Done(a) \/ \E p : p \notin Stages /\ Goto(a, p)
           \/ \E m \in Int : PostAndEnd(a, <<Credit(m)>>)
           \/ \E m, n \in Int : PostAndEnd(a, <<Credit(m), Credit(n)>>)
           \/ PostAndEnd(a, <<>>)
    PROVE  /\ Alone(a) /\ actor'[a].pc \notin Stages /\ actor'[a].invoice \notin Invoices
           /\ Customers(actor'[a].todo)
<1>0. actor[a].invoice \notin Invoices /\ "idle" \notin Stages /\ None \notin Invoices
  BY IdentityAssumption DEF OwedInv, ActorStage, Stages
<1>1. CASE Done(a)
  <2>1. Alone(a) /\ actor'[a] = Idle
    BY <1>1, Leaves
  <2>2. Idle.pc = "idle" /\ Idle.invoice = None /\ Idle.todo = <<>>
    BY DEF Idle
  <2> QED BY ONLY <1>0, <2>1, <2>2, CustomerLegs
<1>2. ASSUME NEW p, p \notin Stages, Goto(a, p)
      PROVE  /\ Alone(a) /\ actor'[a].pc \notin Stages /\ actor'[a].invoice \notin Invoices
             /\ Customers(actor'[a].todo)
  <2>1. Alone(a) /\ actor'[a].pc = p /\ actor'[a].invoice = actor[a].invoice /\ actor'[a].todo = <<>>
    BY <1>2, Leaves
  <2> QED BY <1>0, <1>2, <2>1, CustomerLegs
<1>3. ASSUME NEW t, Customers(t), PostAndEnd(a, t)
      PROVE  /\ Alone(a) /\ actor'[a].pc \notin Stages /\ actor'[a].invoice \notin Invoices
             /\ Customers(actor'[a].todo)
  <2>1. Alone(a) /\ actor'[a].pc = "idle" /\ actor'[a].invoice = None /\ actor'[a].todo = t
    BY <1>3, Leaves
  <2> QED BY <1>0, <1>3, <2>1
<1> QED BY <1>1, <1>2, <1>3, CustomerLegs

LEMMA StartsAway ==
    ASSUME StoreInv, OwedInv, NEW a \in Actors, NEW p, NEW x, p \notin Stages,
           \/ actor' = [actor EXCEPT ![a] = [Idle EXCEPT !.pc = p]]
           \/ actor' = [actor EXCEPT ![a] = [Idle EXCEPT !.pc = p, !.note = x]]
           \/ actor' = [actor EXCEPT ![a] = [Idle EXCEPT !.pc = p, !.source = x]]
           \/ actor' = [actor EXCEPT ![a] = [Idle EXCEPT !.pc = p, !.seen = x]]
    PROVE  /\ Alone(a) /\ actor'[a].pc \notin Stages /\ actor'[a].invoice \notin Invoices
           /\ Customers(actor'[a].todo)
<1>1. Alone(a) /\ actor'[a].pc = p /\ actor'[a].invoice = None /\ actor'[a].todo = <<>>
  BY StartLeaves
<1> QED BY <1>1, CustomerLegs, IdentityAssumption

LEMMA NotingOwed ==
    ASSUME StoreInv, OwedInv, NEW a \in Actors, Noting(a)
    PROVE  OwedInv'
<1>0. NoteAmount \in Int /\ \A n \in Notes : -note[n].balance \in Int
  BY Constants, NoteParts DEF Note
<1>1. UNCHANGED <<invoice, drawn, books, faults>> /\ actor[a].todo = <<>> /\ actor[a].pc \notin Stages
  BY DEF Noting, CreateNote, ClaimExpiredCredit, Load, Approve, Reject, VoidAdjustmentCredit, At,
         bounds, Stages
<1>2. ASSUME /\ Alone(a) /\ actor'[a].pc \notin Stages /\ actor'[a].invoice \notin Invoices
             /\ Customers(actor'[a].todo)
      PROVE  OwedInv'
  BY <1>1, <1>2, BystanderOwed
<1>3. ASSUME NEW n \in Notes, CreateNote(a, n) PROVE OwedInv'
  <2>1. PostAndEnd(a, <<Credit(NoteAmount)>>) \/ PostAndEnd(a, <<>>)
    BY <1>3 DEF CreateNote
  <2> QED BY <1>0, <1>1, <1>2, <2>1, AwayFromInvoices
<1>4. ASSUME NEW n \in Notes, NEW st, WriteOff(a, n, st) PROVE OwedInv'
  BY <1>0, <1>1, <1>2, <1>4, AwayFromInvoices DEF WriteOff
<1>5. ASSUME NEW n \in Notes, NEW op \in {"approve", "reject", "void"}, Load(a, n, op)
      PROVE  OwedInv'
  <2>1. op \notin Stages
    BY DEF Stages
  <2> QED BY <1>2, <1>5, <2>1, StartsAway DEF Load
<1>6. CASE Approve(a) \/ Reject(a)
  <2>1. PostAndEnd(a, <<Credit(NoteAmount)>>) \/ Done(a)
    BY <1>6 DEF Approve, Reject
  <2> QED BY <1>0, <1>1, <1>2, <2>1, AwayFromInvoices
<1>7. CASE VoidAdjustmentCredit(a)
  <2>1. actor[a].note \in Notes
    BY <1>7, Held DEF VoidAdjustmentCredit, At, ActorOK
  <2>2. Done(a) \/ WriteOff(a, actor[a].note, "void")
    BY <1>7 DEF VoidAdjustmentCredit
  <2> QED BY <1>1, <1>2, <1>4, <2>1, <2>2, AwayFromInvoices
<1> QED BY <1>3, <1>4, <1>5, <1>6, <1>7 DEF Noting, ClaimExpiredCredit

LEMMA RechargingOwed ==
    ASSUME StoreInv, OwedInv, NEW a \in Actors, Recharging(a)
    PROVE  OwedInv'
<1>0. Recharge \in Int /\ "charge" \notin Stages /\ "recharge" \notin Stages
  BY Constants DEF Stages
<1>1. /\ UNCHANGED <<invoice, drawn>> /\ actor[a].todo = <<>> /\ actor[a].pc \notin Stages
      /\ UNCHANGED <<books, faults>> \/ faults' = faults + 1
  BY DEF Recharging, ListDueForRecharge, ChargeSavedPaymentMethod, ChargeUnanswered, CreditRecharge, At,
         bounds, Stages
<1>2. ASSUME /\ Alone(a) /\ actor'[a].pc \notin Stages /\ actor'[a].invoice \notin Invoices
             /\ Customers(actor'[a].todo)
      PROVE  OwedInv'
  BY <1>1, <1>2, BystanderOwed
<1>3. CASE ListDueForRecharge(a)
  BY <1>0, <1>2, <1>3, StartsAway DEF ListDueForRecharge
<1>4. CASE ChargeSavedPaymentMethod(a) \/ ChargeUnanswered(a) \/ CreditRecharge(a)
  <2>1. Done(a) \/ Goto(a, "recharge") \/ PostAndEnd(a, <<Credit(Recharge)>>)
    BY <1>4 DEF ChargeSavedPaymentMethod, ChargeUnanswered, CreditRecharge
  <2> QED BY <1>0, <1>1, <1>2, <2>1, AwayFromInvoices
<1> QED BY <1>3, <1>4 DEF Recharging

LEMMA KeepingOwed ==
    ASSUME StoreInv, OwedInv, NEW a \in Actors, Keeping(a)
    PROVE  OwedInv'
<1>0. /\ Grant \in Int /\ "topUp" \notin Stages /\ "close" \notin Stages
      /\ -residue.paid \in Int /\ -(residue.promo + residue.dated + residue.lapsed) \in Int
      /\ -residue.lapsed \in Int
  BY Constants, WalletParts DEF Stages
<1>1. /\ UNCHANGED <<invoice, drawn>> /\ actor[a].todo = <<>> /\ actor[a].pc \notin Stages
      /\ UNCHANGED <<books, faults>>
  BY DEF Keeping, TopUp, AddTopUp, CloseWallet, Close, ExpireOverdue, At, bounds, Stages
<1>2. ASSUME /\ Alone(a) /\ actor'[a].pc \notin Stages /\ actor'[a].invoice \notin Invoices
             /\ Customers(actor'[a].todo)
      PROVE  OwedInv'
  BY <1>1, <1>2, BystanderOwed
<1>3. ASSUME NEW s, TopUp(a, s) PROVE OwedInv'
  BY <1>0, <1>2, <1>3, StartsAway DEF TopUp
<1>4. CASE CloseWallet(a)
  BY <1>0, <1>2, <1>4, StartsAway DEF CloseWallet
<1>5. CASE AddTopUp(a) \/ ExpireOverdue(a)
  <2>1. PostAndEnd(a, <<Credit(Grant)>>) \/ PostAndEnd(a, <<Credit(-residue.lapsed)>>)
    BY <1>5 DEF AddTopUp, ExpireOverdue
  <2> QED BY <1>0, <1>1, <1>2, <2>1, AwayFromInvoices
<1>6. CASE Close(a)
  <2>1. \/ Done(a)
        \/ PostAndEnd(a, <<Credit(-residue.paid),
                           Credit(-(residue.promo + residue.dated + residue.lapsed))>>)
    BY <1>6 DEF Close
  <2> QED BY <1>0, <1>1, <1>2, <2>1, AwayFromInvoices
<1> QED BY <1>3, <1>4, <1>5, <1>6 DEF Keeping

\* Rows, draws and receivables are numbers.
LEMMA RowParts ==
    ASSUME StoreInv, NEW i \in Invoices
    PROVE  /\ invoice \in [Invoices -> InvoiceRow] /\ invoice[i] \in InvoiceRow
           /\ drawn \in [Invoices -> [wallet : Nat, credit : Nat]]
           /\ drawn[i] \in [wallet : Nat, credit : Nat]
           /\ books \in [credit : Int, receivable : [Invoices -> Int]] /\ books.receivable[i] \in Int
<1>1. /\ invoice \in [Invoices -> InvoiceRow]
      /\ drawn \in [Invoices -> [wallet : Nat, credit : Nat]]
      /\ books \in [credit : Int, receivable : [Invoices -> Int]]
  BY DEF StoreInv, InvoiceType, BooksType, InvoiceRow
<1> QED BY <1>1

\* The invoice an actor at a stage of the generation works on.
LEMMA AtStage ==
    ASSUME StoreInv, OwedInv, NEW a \in Actors, actor[a].pc \in Stages, actor[a].todo = <<>>
    PROVE  \E i \in Invoices :
             /\ i = actor[a].invoice
             /\ \A j \in Invoices : j # i => ~Owns(actor[a], j)
             /\ faults = 0 => Worked(a, i)
<1>1. PICK i \in Invoices : i = actor[a].invoice
  BY DEF OwedInv, ActorStage
<1>2. \A j \in Invoices : j # i => ~Owns(actor[a], j)
  BY <1>1, SettleOf DEF Owns
<1>3. faults = 0 => Worked(a, i)
  <2>1. Owns(actor[a], i)
    BY <1>1 DEF Owns
  <2> QED BY <2>1, OwnerWorks DEF OwedInv
<1> QED BY <1>1, <1>2, <1>3

\* The actor that a stage leaves owns no other invoice.
LEMMA StageLeaves ==
    ASSUME NEW x, NEW i \in Invoices,
           \/ /\ x.pc \in Stages /\ x.invoice = i
              /\ x.todo = <<>> \/ \E m \in Int : x.todo = <<Settle(i, m)>>
           \/ /\ x.pc = "idle" /\ x.invoice = None
              /\ x.todo = <<>> \/ \E m \in Int : x.todo = <<Settle(i, m)>>
    PROVE  ActorStage(x) /\ \A j \in Invoices : j # i => ~Owns(x, j)
<1>1. "idle" \notin Stages /\ None \notin Invoices
  BY IdentityAssumption DEF Stages
<1>2. ActorStage(x)
  BY <1>1, CustomerLegs DEF ActorStage
<1>3. \A j \in Invoices : j # i => ~Owns(x, j)
  BY <1>1, SettleOf DEF Owns
<1> QED BY <1>2, <1>3

LEMMA CreateOwed ==
    ASSUME StoreInv, OwedInv, NEW a \in Actors, NEW i \in Invoices, CreateInvoice(a, i)
    PROVE  OwedInv'
<1>1. /\ invoice[i].status = None /\ actor[a].todo = <<>> /\ actor[a].pc \notin Stages
      /\ UNCHANGED <<drawn, books, faults>>
      /\ invoice' = [invoice EXCEPT ![i].status = "open"]
      /\ actor' = [actor EXCEPT ![a] = [Idle EXCEPT !.pc = "receivable", !.invoice = i]]
  BY DEF CreateInvoice, At, bounds, Stages
<1>2. /\ Alone(a) /\ actor'[a].pc = "receivable" /\ actor'[a].invoice = i /\ actor'[a].todo = <<>>
      /\ actor'[a].paid = 0
  BY <1>1, CreateLeaves
<1>3. ActorStage(actor'[a]) /\ \A j \in Invoices : j # i => ~Owns(actor'[a], j)
  BY <1>2, StageLeaves DEF Stages
<1>4. /\ \A j \in Invoices : j # i => invoice'[j] = invoice[j]
      /\ invoice'[i].status = "open" /\ invoice'[i].amountPaid = invoice[i].amountPaid
      /\ invoice'[i].creditApplied = invoice[i].creditApplied
  BY <1>1, RowParts DEF InvoiceRow
<1>5. ASSUME faults = 0 PROVE Good(i)'
  <2>1. Good(i)
    BY <1>5 DEF OwedInv
  <2>2. Fresh(i)
    <3>1. /\ ~Untouched(invoice[i], drawn[i]) /\ ~Written(invoice[i], drawn[i])
          /\ invoice[i].status # "open"
      BY <1>1 DEF Untouched, Written, None
    <3>2. ASSUME NEW b \in Actors, Worked(b, i) PROVE FALSE
      BY <3>1, <3>2 DEF Worked, Stage, Raised, Posted, Drained, Persisted, Applied
    <3> QED BY <2>1, <3>1, <3>2 DEF Good, Finished
  <2>3. Raised(actor'[a], i, invoice'[i], drawn'[i], books'.receivable[i])
    BY <1>1, <1>2, <1>4, <2>2 DEF Raised, Untouched, Fresh
  <2>4. \A b \in Actors \ {a} : ~Owns(actor[b], i)
    BY <2>2 DEF Fresh, Unowned
  <2> QED BY <1>2, <2>3, <2>4, OwnerGood DEF Stage
<1>6. \A j \in Invoices : Good(j) => ~Owns(actor[a], j)
  BY <1>1, IdleOwnsNothing
<1> QED BY <1>1, <1>2, <1>3, <1>4, <1>5, <1>6, OwnerOwed

LEMMA RecordOwed ==
    ASSUME StoreInv, OwedInv, NEW a \in Actors, RecordInvoiceLeg(a)
    PROVE  OwedInv'
<1>1. /\ actor[a].todo = <<>> /\ actor[a].pc = "receivable" /\ UNCHANGED <<invoice, drawn, faults>>
      /\ books' = [books EXCEPT !.receivable[actor[a].invoice] = @ + Total] /\ Goto(a, "lookup")
  BY DEF RecordInvoiceLeg, At, bounds
<1>2. PICK i \in Invoices :
             /\ i = actor[a].invoice
             /\ \A j \in Invoices : j # i => ~Owns(actor[a], j)
             /\ faults = 0 => Worked(a, i)
  BY <1>1, AtStage DEF Stages
<1>3. /\ Alone(a) /\ actor'[a].pc = "lookup" /\ actor'[a].invoice = i
      /\ actor'[a].paid = actor[a].paid /\ actor'[a].todo = <<>>
  BY <1>1, <1>2, Leaves
<1>4. ActorStage(actor'[a]) /\ \A j \in Invoices : j # i => ~Owns(actor'[a], j)
  BY <1>3, StageLeaves DEF Stages
<1>5. /\ books'.receivable[i] = books.receivable[i] + Total
      /\ \A j \in Invoices : j # i => books'.receivable[j] = books.receivable[j]
  BY <1>1, <1>2, RowParts
<1>6. ASSUME faults = 0 PROVE Good(i)'
  <2>1. Worked(a, i)
    BY <1>2, <1>6
  <2>2. Raised(actor[a], i, invoice[i], drawn[i], books.receivable[i])
    BY <1>1, <2>1, StageParts DEF Worked
  <2>3. Posted(actor'[a], i, invoice'[i], drawn'[i], books'.receivable[i])
    BY <1>1, <1>3, <1>5, <2>2, Constants DEF Raised, Posted
  <2> QED BY <1>3, <2>1, <2>3, OwnerGood DEF Stage, Worked
<1> QED BY <1>1, <1>2, <1>3, <1>4, <1>5, <1>6, OwnerOwed

LEMMA LookUpOwed ==
    ASSUME StoreInv, OwedInv, NEW a \in Actors,
           \/ LookUpWallet(a)
           \/ Drain(a) /\ Goto(a, "credits") /\ UNCHANGED <<store, drawn>>
    PROVE  OwedInv'
<1>1. /\ actor[a].todo = <<>> /\ actor[a].pc \in {"lookup", "drain"}
      /\ UNCHANGED <<invoice, drawn, books, faults>>
      /\ \E p \in {"drain", "credits"} : Goto(a, p)
  BY DEF LookUpWallet, Drain, At, bounds
<1>2. PICK i \in Invoices :
             /\ i = actor[a].invoice
             /\ \A j \in Invoices : j # i => ~Owns(actor[a], j)
             /\ faults = 0 => Worked(a, i)
  BY <1>1, AtStage DEF Stages
<1>3. /\ Alone(a) /\ actor'[a].pc \in {"drain", "credits"} /\ actor'[a].invoice = i
      /\ actor'[a].paid = actor[a].paid /\ actor'[a].todo = <<>>
  BY <1>1, <1>2, Leaves
<1>4. ActorStage(actor'[a]) /\ \A j \in Invoices : j # i => ~Owns(actor'[a], j)
  BY <1>3, StageLeaves DEF Stages
<1>5. ASSUME faults = 0 PROVE Good(i)'
  <2>1. Worked(a, i)
    BY <1>2, <1>5
  <2>2. Posted(actor[a], i, invoice[i], drawn[i], books.receivable[i])
    BY <1>1, <2>1, StageParts DEF Worked
  <2>3. Stage(actor'[a], i, invoice'[i], drawn'[i], books'.receivable[i])
    <3>1. CASE actor'[a].pc = "drain"
      BY <1>1, <1>3, <2>2, <3>1 DEF Stage, Posted
    <3>2. CASE actor'[a].pc = "credits"
      BY <1>1, <1>3, <2>2, <3>2, Constants DEF Stage, Posted, Persisted, Untouched, Written
    <3> QED BY <1>3, <3>1, <3>2
  <2> QED BY <1>3, <2>1, <2>3, OwnerGood DEF Worked
<1> QED BY <1>1, <1>2, <1>3, <1>4, <1>5, OwnerOwed

LEMMA DrainOwed ==
    ASSUME StoreInv, OwedInv, NEW a \in Actors, Drain(a), ~(Goto(a, "credits") /\ UNCHANGED <<store, drawn>>)
    PROVE  OwedInv'
<1>1. actor[a].todo = <<>> /\ actor[a].pc = "drain" /\ UNCHANGED <<invoice, books, faults>>
  BY DEF Drain, At, bounds
<1>2. PICK i \in Invoices :
             /\ i = actor[a].invoice
             /\ \A j \in Invoices : j # i => ~Owns(actor[a], j)
             /\ faults = 0 => Worked(a, i)
  BY <1>1, AtStage DEF Stages
<1>3. PICK taken \in 1..Total :
             /\ drawn' = [drawn EXCEPT ![i].wallet = @ + taken]
             /\ Alone(a) /\ actor'[a].pc = "persist" /\ actor'[a].invoice = i
             /\ actor'[a].paid = taken /\ actor'[a].todo = <<Settle(i, taken)>>
  BY <1>2, DrainTakes
<1>4. ActorStage(actor'[a]) /\ \A j \in Invoices : j # i => ~Owns(actor'[a], j)
  <2>1. taken \in Int /\ "persist" \in Stages
    BY Constants DEF Stages
  <2>2. \E m \in Int : actor'[a].todo = <<Settle(i, m)>>
    BY <1>3, <2>1
  <2> QED BY <1>3, <2>1, <2>2, StageLeaves
<1>5. /\ drawn'[i].wallet = drawn[i].wallet + taken /\ drawn'[i].credit = drawn[i].credit
      /\ \A j \in Invoices : j # i => drawn'[j] = drawn[j]
  BY <1>3, RowParts
<1>6. ASSUME faults = 0 PROVE Good(i)'
  <2>1. Worked(a, i)
    BY <1>2, <1>6
  <2>2. Posted(actor[a], i, invoice[i], drawn[i], books.receivable[i])
    BY <1>1, <2>1, StageParts DEF Worked
  <2>3. Drained(actor'[a], i, invoice'[i], drawn'[i], books'.receivable[i])
    BY <1>1, <1>3, <1>5, <2>2 DEF Drained, Posted, Untouched
  <2> QED BY <1>3, <2>1, <2>3, OwnerGood DEF Stage, Worked
<1> QED BY <1>1, <1>2, <1>3, <1>4, <1>5, <1>6, OwnerOwed

LEMMA PersistOwed ==
    ASSUME StoreInv, OwedInv, NEW a \in Actors, PersistDrain(a)
    PROVE  OwedInv'
<1>1. /\ actor[a].todo = <<>> /\ actor[a].pc = "persist" /\ UNCHANGED <<drawn, books, faults>>
      /\ GoOnToCredits(a)
  BY DEF PersistDrain, At, bounds
<1>2. PICK i \in Invoices :
             /\ i = actor[a].invoice
             /\ \A j \in Invoices : j # i => ~Owns(actor[a], j)
             /\ faults = 0 => Worked(a, i)
  BY <1>1, AtStage DEF Stages
<1>3. /\ invoice'[i].status = Covered(Total, actor[a].paid) /\ invoice'[i].amountPaid = actor[a].paid
      /\ invoice'[i].creditApplied = 0
      /\ \A j \in Invoices : j # i => invoice'[j] = invoice[j]
  BY <1>2, RowParts DEF PersistDrain
<1>4. ASSUME faults = 0
      PROVE  /\ Worked(a, i) /\ actor[a].paid \in 1..Total
             /\ drawn'[i].wallet = actor[a].paid /\ drawn'[i].credit = 0
             /\ books'.receivable[i] = Total - actor[a].paid
             /\ Written(invoice'[i], drawn'[i])
  <2>1. Worked(a, i)
    BY <1>2, <1>4
  <2>2. Drained(actor[a], i, invoice[i], drawn[i], books.receivable[i])
    BY <1>1, <2>1, StageParts DEF Worked
  <2>3. /\ actor[a].paid \in 1..Total /\ drawn'[i].wallet = actor[a].paid /\ drawn'[i].credit = 0
        /\ books'.receivable[i] = Total - actor[a].paid
    BY <1>1, <2>2, SettleOf DEF Drained
  <2>4. Written(invoice'[i], drawn'[i])
    BY <1>3, <2>3, Constants DEF Written, Covered
  <2> QED BY <2>1, <2>3, <2>4
<1>5. CASE actor[a].paid < Total
  <2>1. /\ Alone(a) /\ actor'[a].pc = "credits" /\ actor'[a].invoice = i
        /\ actor'[a].paid = actor[a].paid /\ actor'[a].todo = <<>>
    BY <1>1, <1>2, <1>5, Leaves DEF GoOnToCredits
  <2>2. ActorStage(actor'[a]) /\ \A j \in Invoices : j # i => ~Owns(actor'[a], j)
    BY <2>1, StageLeaves DEF Stages
  <2>3. faults = 0 => Good(i)'
    <3> SUFFICES ASSUME faults = 0 PROVE Good(i)'
      OBVIOUS
    <3>1. Persisted(actor'[a], i, invoice'[i], drawn'[i], books'.receivable[i])
      BY <1>4, <1>5, <2>1 DEF Persisted
    <3> QED BY <1>4, <2>1, <3>1, OwnerGood DEF Stage, Worked
  <2> QED BY <1>1, <1>2, <1>3, <2>1, <2>2, <2>3, OwnerOwed
<1>6. CASE ~(actor[a].paid < Total)
  <2>0. Alone(a) /\ actor'[a] = Idle
    BY <1>1, <1>6, Leaves DEF GoOnToCredits
  <2>1. Alone(a) /\ actor'[a].pc = "idle" /\ actor'[a].invoice = None /\ actor'[a].todo = <<>>
    BY <2>0 DEF Idle
  <2>2. ActorStage(actor'[a]) /\ \A j \in Invoices : ~Owns(actor'[a], j)
    <3>1. Customers(actor'[a].todo) /\ actor'[a].invoice \notin Invoices
      BY <2>1, CustomerLegs, IdentityAssumption
    <3> QED BY <2>1, <3>1, CustomersOwn, StageLeaves
  <2>3. faults = 0 => Good(i)'
    <3> SUFFICES ASSUME faults = 0 PROVE Good(i)'
      OBVIOUS
    <3>1. books'.receivable[i] = Total - drawn'[i].wallet - drawn'[i].credit
      <4>1. /\ actor[a].paid \in Int /\ drawn'[i].wallet = actor[a].paid /\ drawn'[i].credit = 0
            /\ books'.receivable[i] = Total - actor[a].paid
        BY <1>4
      <4> QED BY ONLY <4>1, Constants
    <3> QED BY <1>4, <2>1, <2>2, <3>1, OwnerGood DEF Worked
  <2> QED BY <1>1, <1>2, <1>3, <2>1, <2>2, <2>3, OwnerOwed
<1> QED BY <1>5, <1>6

LEMMA CreditsOwed ==
    ASSUME StoreInv, OwedInv, NEW a \in Actors, ApplyAdjustmentCredits(a)
    PROVE  OwedInv'
<1>1. actor[a].todo = <<>> /\ actor[a].pc = "credits" /\ UNCHANGED <<books, faults>>
  BY DEF ApplyAdjustmentCredits, At, bounds
<1>2. PICK i \in Invoices :
             /\ i = actor[a].invoice
             /\ \A j \in Invoices : j # i => ~Owns(actor[a], j)
             /\ faults = 0 => Worked(a, i)
  BY <1>1, AtStage DEF Stages
<1>3. ASSUME faults = 0
      PROVE  /\ Worked(a, i) /\ Written(invoice[i], drawn[i]) /\ drawn[i].wallet = actor[a].paid
             /\ drawn[i].credit = 0 /\ actor[a].paid < Total
             /\ books.receivable[i] = Total - actor[a].paid
  <2>1. Worked(a, i)
    BY <1>2, <1>3
  <2>2. Persisted(actor[a], i, invoice[i], drawn[i], books.receivable[i])
    BY <1>1, <2>1, StageParts DEF Worked
  <2> QED BY <2>1, <2>2 DEF Persisted
<1>4. actor[a].paid \in Nat /\ drawn[i].wallet \in Nat /\ books.receivable[i] \in Int
  <2>1. actor[a].paid \in 0..Total
    BY Held
  <2>2. drawn[i] \in [wallet : Nat, credit : Nat] /\ books.receivable[i] \in Int
    BY RowParts
  <2> QED BY <2>1, <2>2, Constants
<1>5. CASE Done(a) /\ UNCHANGED <<invoice, drawn>>
  <2>0. Alone(a) /\ actor'[a] = Idle
    BY <1>5, Leaves
  <2>1. actor'[a].pc = "idle" /\ actor'[a].invoice = None /\ actor'[a].todo = <<>>
    BY <2>0 DEF Idle
  <2>2. ActorStage(actor'[a]) /\ \A j \in Invoices : ~Owns(actor'[a], j)
    <3>1. Customers(actor'[a].todo) /\ actor'[a].invoice \notin Invoices
      BY <2>1, CustomerLegs, IdentityAssumption
    <3> QED BY <2>1, <3>1, CustomersOwn, StageLeaves
  <2>3. faults = 0 => Good(i)'
    <3> SUFFICES ASSUME faults = 0 PROVE Good(i)'
      OBVIOUS
    <3>1. books.receivable[i] = Total - drawn[i].wallet - drawn[i].credit
      <4>1. drawn[i].wallet = actor[a].paid /\ drawn[i].credit = 0 /\ books.receivable[i] = Total - actor[a].paid
        BY <1>3
      <4> QED BY ONLY <4>1, <1>4, Constants
    <3> QED BY <1>1, <1>3, <1>5, <2>0, <2>2, <3>1, OwnerGood DEF Worked
  <2> QED BY <1>1, <1>2, <1>5, <2>0, <2>2, <2>3, OwnerOwed
<1>6. ASSUME NEW applied \in 1..(Total - actor[a].paid),
             invoice' = [invoice EXCEPT ![i].creditApplied = applied,
                                        ![i].status = IF applied >= Total - actor[a].paid
                                                      THEN "paid" ELSE @],
             drawn' = [drawn EXCEPT ![i].credit = @ + applied],
             PostAndEnd(a, <<Settle(i, applied)>>)
      PROVE  OwedInv'
  <2>0. applied \in Int /\ applied > 0 /\ applied <= Total - actor[a].paid
    BY <1>4, Constants
  <2>1. /\ Alone(a) /\ actor'[a].pc = "idle" /\ actor'[a].invoice = None
        /\ actor'[a].todo = <<Settle(i, applied)>>
    BY <1>6, Leaves
  <2>2. ActorStage(actor'[a]) /\ \A j \in Invoices : j # i => ~Owns(actor'[a], j)
    <3>1. \E m \in Int : actor'[a].todo = <<Settle(i, m)>>
      BY <2>0, <2>1
    <3> QED BY <2>1, <3>1, StageLeaves
  <2>3. /\ invoice'[i].creditApplied = applied /\ invoice'[i].amountPaid = invoice[i].amountPaid
        /\ invoice'[i].status = IF applied >= Total - actor[a].paid THEN "paid" ELSE invoice[i].status
        /\ \A j \in Invoices : j # i => invoice'[j] = invoice[j]
    BY <1>6, RowParts DEF InvoiceRow
  <2>4. /\ drawn'[i].credit = drawn[i].credit + applied /\ drawn'[i].wallet = drawn[i].wallet
        /\ \A j \in Invoices : j # i => drawn'[j] = drawn[j]
    BY <1>6, RowParts
  <2>5. faults = 0 => Good(i)'
    <3> SUFFICES ASSUME faults = 0 PROVE Good(i)'
      OBVIOUS
    <3>1. drawn'[i].wallet = actor[a].paid /\ drawn'[i].credit = applied
          /\ invoice[i].amountPaid = actor[a].paid /\ invoice[i].status = "open"
          /\ books'.receivable[i] = Total - actor[a].paid
      BY <1>1, <1>3, <1>4, <2>0, <2>4, Constants DEF Written
    <3>2. Written(invoice'[i], drawn'[i])
      BY <1>4, <2>0, <2>3, <3>1, Constants DEF Written
    <3>3. Applied(actor'[a], i, invoice'[i], drawn'[i], books'.receivable[i])
      BY <2>1, <3>1, <3>2 DEF Applied
    <3> QED BY <1>3, <2>1, <3>3, OwnerGood DEF Stage, Worked
  <2> QED BY <1>1, <1>2, <2>1, <2>2, <2>3, <2>4, <2>5, OwnerOwed
<1> QED BY <1>2, <1>5, <1>6, Zenon DEF ApplyAdjustmentCredits

\* An actor without its first posting, posted or lost.
LEMMA TailStage ==
    ASSUME StoreInv, OwedInv, NEW a \in Actors, actor[a].todo # <<>>,
           actor' = [actor EXCEPT ![a].todo = Tail(@)]
    PROVE  /\ Alone(a) /\ actor'[a].pc = actor[a].pc /\ actor'[a].invoice = actor[a].invoice
           /\ actor'[a].paid = actor[a].paid /\ actor'[a].todo = Tail(actor[a].todo)
           /\ ActorStage(actor'[a])
           /\ \/ Customers(actor[a].todo) /\ Head(actor[a].todo).invoice = None
                   /\ Customers(actor'[a].todo)
              \/ \E i \in Invoices, m \in Int :
                   actor[a].todo = <<Settle(i, m)>> /\ actor'[a].todo = <<>>
<1>1. /\ Alone(a) /\ actor'[a].pc = actor[a].pc /\ actor'[a].invoice = actor[a].invoice
      /\ actor'[a].paid = actor[a].paid /\ actor'[a].todo = Tail(actor[a].todo)
  BY Leaves
<1>2. ActorStage(actor[a])
  BY DEF OwedInv
<1>3. CASE Customers(actor[a].todo)
  <2>1. ASSUME NEW m \in Int, actor[a].todo = <<Credit(m)>>
        PROVE  Head(actor[a].todo).invoice = None /\ Customers(Tail(actor[a].todo))
    <3>1. Head(actor[a].todo) = Credit(m) /\ Tail(actor[a].todo) = <<>>
      BY <2>1
    <3>2. Credit(m).invoice = None
      BY DEF Credit
    <3> QED BY <3>1, <3>2, CustomerLegs
  <2>2. ASSUME NEW m \in Int, NEW n \in Int, actor[a].todo = <<Credit(m), Credit(n)>>
        PROVE  Head(actor[a].todo).invoice = None /\ Customers(Tail(actor[a].todo))
    <3>1. Head(actor[a].todo) = Credit(m) /\ Tail(actor[a].todo) = <<Credit(n)>>
      BY <2>2
    <3>2. Credit(m).invoice = None
      BY DEF Credit
    <3> QED BY <3>1, <3>2, CustomerLegs
  <2>3. Head(actor[a].todo).invoice = None /\ Customers(Tail(actor[a].todo))
    BY <1>3, <2>1, <2>2 DEF Customers
  <2> QED BY <1>1, <1>2, <1>3, <2>3 DEF ActorStage
<1>4. ASSUME NEW i \in Invoices, NEW m \in Int, actor[a].todo = <<Settle(i, m)>>
      PROVE  actor'[a].todo = <<>> /\ ActorStage(actor'[a])
  <2>1. actor'[a].todo = <<>>
    BY <1>1, <1>4
  <2> QED BY <1>1, <1>2, <2>1, CustomerLegs DEF ActorStage
<1> QED BY <1>1, <1>2, <1>3, <1>4 DEF ActorStage

\* An actor that owns an invoice has nothing but its posting to do.
LEMMA OwnerTodo ==
    ASSUME NEW i \in Invoices, Good(i), NEW a \in Actors, Owns(actor[a], i), actor[a].todo # <<>>
    PROVE  /\ \E m : actor[a].todo = <<Settle(i, m)>>
           /\ Drained(actor[a], i, invoice[i], drawn[i], books.receivable[i])
              \/ Applied(actor[a], i, invoice[i], drawn[i], books.receivable[i])
           /\ Worked(a, i)
<1>1. Worked(a, i)
  BY OwnerWorks
<1>2. Stage(actor[a], i, invoice[i], drawn[i], books.receivable[i])
  BY <1>1 DEF Worked
<1>3. Drained(actor[a], i, invoice[i], drawn[i], books.receivable[i])
        \/ Applied(actor[a], i, invoice[i], drawn[i], books.receivable[i])
  BY <1>2 DEF Stage, Raised, Posted, Persisted
<1> QED BY <1>1, <1>2, <1>3, StageParts

LEMMA PostOwed ==
    ASSUME StoreInv, OwedInv, NEW a \in Actors, Post(a)
    PROVE  OwedInv'
<1>1. /\ actor[a].todo # <<>> /\ actor' = [actor EXCEPT ![a].todo = Tail(@)]
      /\ UNCHANGED <<invoice, drawn, faults>>
      /\ books' = [credit |-> books.credit + Head(actor[a].todo).amount,
                   receivable |-> [i \in Invoices |->
                       books.receivable[i] + IF i = Head(actor[a].todo).invoice
                                             THEN Head(actor[a].todo).amount ELSE 0]]
  BY DEF Post, bounds
<1>2. /\ Alone(a) /\ actor'[a].pc = actor[a].pc /\ actor'[a].invoice = actor[a].invoice
      /\ actor'[a].paid = actor[a].paid /\ actor'[a].todo = Tail(actor[a].todo)
      /\ ActorStage(actor'[a])
      /\ \/ Customers(actor[a].todo) /\ Head(actor[a].todo).invoice = None
              /\ Customers(actor'[a].todo)
         \/ \E i \in Invoices, m \in Int :
              actor[a].todo = <<Settle(i, m)>> /\ actor'[a].todo = <<>>
  BY <1>1, TailStage
<1>3. \A i \in Invoices : books'.receivable[i] =
         books.receivable[i] + IF i = Head(actor[a].todo).invoice THEN Head(actor[a].todo).amount ELSE 0
  BY <1>1
<1>4. \A b \in Actors : ActorStage(actor'[b])
  BY <1>2 DEF OwedInv, Alone
<1>5. ASSUME faults = 0, NEW i \in Invoices PROVE Good(i)'
  <2>1. Good(i) /\ books.receivable[i] \in Int
    BY <1>5, RowParts DEF OwedInv
  <2>2. CASE Customers(actor[a].todo) /\ Head(actor[a].todo).invoice = None
               /\ Customers(actor'[a].todo)
    <3>1. books'.receivable[i] = books.receivable[i]
      BY <1>3, <2>1, <2>2, IdentityAssumption
    <3>2. ~Owns(actor[a], i)
      <4> SUFFICES ASSUME Owns(actor[a], i) PROVE FALSE
        OBVIOUS
      <4>1. PICK m : actor[a].todo = <<Settle(i, m)>>
        BY <1>1, <2>1, OwnerTodo
      <4> QED BY <2>2, <4>1, SettleOf DEF Customers
    <3>3. ~Owns(actor'[a], i)
      <4>1. actor'[a].invoice # i
        BY <1>2, <3>2 DEF Owns
      <4>2. \A m : actor'[a].todo # <<Settle(i, m)>>
        <5>1. \A m, n, o : /\ <<Settle(i, m)>> # <<Credit(n)>> /\ <<Settle(i, m)>> # <<Credit(n), Credit(o)>>
                           /\ <<Settle(i, m)>> # <<>>
          BY SettleOf
        <5>2. \/ actor'[a].todo = <<>>
              \/ \E n : actor'[a].todo = <<Credit(n)>>
              \/ \E n, o : actor'[a].todo = <<Credit(n), Credit(o)>>
          BY <2>2 DEF Customers
        <5> QED BY ONLY <5>1, <5>2
      <4> QED BY <4>1, <4>2 DEF Owns
    <3> QED BY <1>1, <1>2, <2>1, <3>1, <3>2, <3>3, ElsewhereGood
  <2>3. ASSUME NEW j \in Invoices, NEW m \in Int, actor[a].todo = <<Settle(j, m)>>, actor'[a].todo = <<>>
        PROVE  Good(i)'
    <3>1. Head(actor[a].todo).invoice = j /\ Head(actor[a].todo).amount = -m
      BY <2>3 DEF Settle
    <3>2. CASE i # j
      <4>1. ~Owns(actor[a], i)
        <5> SUFFICES ASSUME Owns(actor[a], i) PROVE FALSE
          OBVIOUS
        <5>1. PICK n : actor[a].todo = <<Settle(i, n)>>
          BY <1>1, <2>1, OwnerTodo
        <5> QED BY <2>3, <3>2, <5>1, SettleOf
      <4>2. ~Owns(actor'[a], i)
        BY <1>2, <2>3, <4>1, SettleOf DEF Owns
      <4>3. books'.receivable[i] = books.receivable[i]
        BY <1>3, <2>1, <3>1, <3>2
      <4> QED BY <1>1, <1>2, <2>1, <4>1, <4>2, <4>3, ElsewhereGood
    <3>3. CASE i = j
      <4>1. Owns(actor[a], i)
        BY <2>3, <3>3 DEF Owns
      <4>2. /\ Drained(actor[a], i, invoice[i], drawn[i], books.receivable[i])
               \/ Applied(actor[a], i, invoice[i], drawn[i], books.receivable[i])
            /\ Worked(a, i)
        BY <1>1, <2>1, <4>1, OwnerTodo
      <4>3. books'.receivable[i] = books.receivable[i] - m
        BY <1>3, <2>1, <3>1, <3>3
      <4>4. ASSUME NEW n \in Int, actor[a].todo = <<Settle(i, n)>> PROVE m = n
        <5>1. Head(actor[a].todo) = Settle(i, n)
          BY <4>4
        <5>2. -m = -n
          BY <3>1, <5>1 DEF Settle
        <5> QED BY <5>2
      <4>5. CASE Drained(actor[a], i, invoice[i], drawn[i], books.receivable[i])
        <5>1. m = actor[a].paid /\ books.receivable[i] = Total
          <6>1. actor[a].paid \in Int
            BY <4>5, Constants DEF Drained
          <6> QED BY <1>1, <4>4, <4>5, <6>1 DEF Drained
        <5>2. Drained(actor'[a], i, invoice'[i], drawn'[i], books'.receivable[i])
          BY <1>1, <1>2, <2>3, <4>3, <4>5, <5>1 DEF Drained
        <5> QED BY <1>2, <4>2, <5>2, OwnerGood DEF Stage, Worked
      <4>6. CASE Applied(actor[a], i, invoice[i], drawn[i], books.receivable[i])
        <5>1. m = drawn[i].credit /\ books.receivable[i] = Total - drawn[i].wallet
          <6>1. drawn[i].credit \in Int
            BY RowParts
          <6> QED BY <4>4, <4>6, <6>1 DEF Applied
        <5>2. books'.receivable[i] = Total - drawn'[i].wallet - drawn'[i].credit
          BY <1>1, <4>3, <5>1
        <5>3. ~Owns(actor'[a], i)
          <6>1. actor'[a].invoice = None /\ Customers(actor'[a].todo)
            BY <1>2, <2>3, <4>6, CustomerLegs DEF Applied
          <6> QED BY <6>1, CustomersOwn, IdentityAssumption
        <5>4. Written(invoice'[i], drawn'[i])
          BY <1>1, <4>6 DEF Applied
        <5> QED BY <1>2, <4>2, <5>2, <5>3, <5>4, OwnerGood DEF Worked
      <4> QED BY <4>2, <4>5, <4>6
    <3> QED BY <3>2, <3>3
  <2> QED BY <1>2, <2>2, <2>3
<1> QED BY <1>1, <1>4, <1>5 DEF OwedInv

LEMMA FailsOwed ==
    ASSUME StoreInv, OwedInv, NEW a \in Actors, StatementFails(a) \/ LosePosting(a) \/ Crash(a)
    PROVE  OwedInv'
<1>1. faults' = faults + 1
  BY DEF StatementFails, LosePosting, Crash
<1>2. ASSUME Done(a) PROVE Alone(a) /\ ActorStage(actor'[a])
  <2>1. Alone(a) /\ actor'[a] = Idle
    BY <1>2, Leaves
  <2>2. Idle.pc = "idle" /\ Idle.invoice = None /\ Idle.todo = <<>> /\ "idle" \notin Stages
    BY DEF Idle, Stages
  <2> QED BY <2>1, <2>2, CustomerLegs, IdentityAssumption DEF ActorStage
<1>3. CASE StatementFails(a)
  <2>1. /\ actor[a].todo = <<>> /\ actor[a].pc \in Stages
        /\ Goto(a, "credits") \/ Done(a)
    BY <1>3 DEF StatementFails, GoOnToCredits, At, Stages
  <2>2. CASE Goto(a, "credits")
    <3>1. Alone(a) /\ actor'[a].pc = "credits" /\ actor'[a].invoice = actor[a].invoice
          /\ actor'[a].todo = <<>>
      BY <2>1, <2>2, Leaves
    <3>2. ActorStage(actor[a]) /\ "credits" \in Stages
      BY DEF OwedInv, Stages
    <3>3. ActorStage(actor'[a])
      BY <2>1, <3>1, <3>2, CustomerLegs DEF ActorStage
    <3> QED BY <1>1, <3>1, <3>3, FailedOwed
  <2> QED BY <1>1, <1>2, <2>1, <2>2, FailedOwed
<1>4. CASE LosePosting(a)
  <2>1. Alone(a) /\ ActorStage(actor'[a])
    BY <1>4, TailStage DEF LosePosting
  <2> QED BY <1>1, <2>1, FailedOwed
<1>5. CASE Crash(a)
  BY <1>1, <1>2, <1>5, FailedOwed DEF Crash
<1> QED BY <1>3, <1>4, <1>5

LEMMA OwedStep ==
    ASSUME StoreInv, OwedInv, [Next]_vars
    PROVE  OwedInv'
<1>1. ASSUME NEW a \in Actors, Acts(a) PROVE OwedInv'
  <2>1. CASE Generating(a)
    BY <2>1, CreateOwed, RecordOwed, LookUpOwed, DrainOwed, PersistOwed, CreditsOwed, FailsOwed
       DEF Generating
  <2>2. CASE Post(a) \/ LosePosting(a) \/ Crash(a)
    BY <2>2, PostOwed, FailsOwed
  <2> QED BY <1>1, <2>1, <2>2, NotingOwed, RechargingOwed, KeepingOwed DEF Acts
<1>2. ASSUME UNCHANGED <<actor, invoice, drawn, books, faults>> PROVE OwedInv'
  BY <1>2, Zenon DEF OwedInv, Good, Fresh, Finished, Worked, Unowned
<1>3. CASE Environment
  <2>1. UNCHANGED <<actor, invoice, drawn, books, faults>>
    BY <1>3 DEF Environment, Lapse, FallDue, ForgetKey, bounds
  <2> QED BY <1>2, <2>1
<1>4. CASE UNCHANGED vars
  <2>1. UNCHANGED <<actor, invoice, drawn, books, faults>>
    BY <1>4 DEF vars
  <2> QED BY <1>2, <2>1
<1> QED BY <1>1, <1>3, <1>4, Steps

LEMMA OwedInit == Init => OwedInv
<1> SUFFICES ASSUME Init PROVE OwedInv
  OBVIOUS
<1>1. \A a \in Actors : actor[a].pc = "idle" /\ actor[a].invoice = None /\ actor[a].todo = <<>>
  BY DEF Init, Idle
<1>2. \A a \in Actors : ActorStage(actor[a])
  BY <1>1, CustomerLegs, IdentityAssumption DEF ActorStage, Stages
<1>3. ASSUME NEW i \in Invoices PROVE Good(i)
  <2>1. Unowned(i)
    BY <1>1, CustomersOwn, CustomerLegs, IdentityAssumption DEF Unowned
  <2>2. /\ invoice[i].status = None /\ invoice[i].amountPaid = 0 /\ invoice[i].creditApplied = 0
        /\ drawn[i].wallet = 0 /\ drawn[i].credit = 0 /\ books.receivable[i] = 0
    BY DEF Init
  <2> QED BY <2>1, <2>2 DEF Good, Fresh
<1> QED BY <1>2, <1>3 DEF OwedInv

----------------------------------------------------------------------------
(* The theorems.                                                           *)

\* Every row, account and actor has its type, whatever runs at the same time and
\* whatever fails (wallet_repository.go, credit_note_repository.go, invoice.go).
THEOREM TypeCorrect == Spec => []TypeOK
<1>1. StoreInv /\ CountInv => TypeOK
  BY TypeParts
<1> QED BY <1>1, Always, PTL

\* TopUp, Drain, Close and expireWallet keep the balance of a wallet equal to what is
\* left of its top-ups.
THEOREM BalanceIsWhatIsLeft == Spec => []WalletIsItsTopUps
<1>1. StoreInv /\ CountInv => WalletIsItsTopUps
  BY TypeParts
<1> QED BY <1>1, Always, PTL

\* rechargeWallet: however many sweeps run, the wallet is credited at most once for a
\* charge, and short of a failure and of a key the gateway forgot, exactly once.
THEOREM EveryChargeIsCredited == Spec => []RechargedOnce
<1>1. StoreInv /\ CountInv => RechargedOnce
  <2> SUFFICES ASSUME StoreInv, CountInv PROVE RechargedOnce
    OBVIOUS
  <2>1. credited <= captured.count
    <3>1. keys \subseteq captured.known \cup Forgotten
      BY DEF Forgotten
    <3>2. /\ IsFiniteSet(captured.known \cup Forgotten)
          /\ Cardinality(captured.known \cup Forgotten) <= Cardinality(captured.known) + Cardinality(Forgotten)
      <4>1. IsFiniteSet(captured.known) /\ IsFiniteSet(Forgotten) /\ captured.known \cap Forgotten = {}
        BY DEF CountInv, Forgotten
      <4>2. /\ IsFiniteSet(captured.known \cup Forgotten)
            /\ Cardinality(captured.known \cup Forgotten)
                 = Cardinality(captured.known) + Cardinality(Forgotten) - Cardinality(captured.known \cap Forgotten)
        BY <4>1, FS_Union
      <4>3. Cardinality(captured.known \cap Forgotten) = 0
        BY <4>1, FS_EmptySet
      <4> QED BY <4>2, <4>3, CountTypes
    <3>3. Cardinality(keys) <= Cardinality(captured.known \cup Forgotten)
          /\ Cardinality(captured.known \cup Forgotten) \in Nat
      BY <3>1, <3>2, FS_Subset, FS_CardinalityType
    <3> QED BY <3>2, <3>3, CountTypes DEF CountInv
  <2>2. ASSUME Quiet PROVE captured.count - credited <= faults + lapses
    <3>1. InHand = {}
      <4>1. \A a \in Actors : actor[a].pc = "idle"
        BY <2>2 DEF Quiet, Idle
      <4> QED BY <4>1 DEF InHand
    <3>2. captured.known \subseteq keys \cup Lost
      BY <3>1 DEF Lost
    <3>3. /\ IsFiniteSet(keys \cup Lost)
          /\ Cardinality(keys \cup Lost) <= Cardinality(keys) + Cardinality(Lost)
      <4>1. IsFiniteSet(keys) /\ IsFiniteSet(Lost) /\ keys \cap Lost = {}
        BY CountTypes DEF CountInv, Lost
      <4>2. /\ IsFiniteSet(keys \cup Lost)
            /\ Cardinality(keys \cup Lost)
                 = Cardinality(keys) + Cardinality(Lost) - Cardinality(keys \cap Lost)
        BY <4>1, FS_Union
      <4>3. Cardinality(keys \cap Lost) = 0
        BY <4>1, FS_EmptySet
      <4> QED BY <4>2, <4>3, CountTypes
    <3>4. Cardinality(captured.known) <= Cardinality(keys \cup Lost) /\ Cardinality(keys \cup Lost) \in Nat
      BY <3>2, <3>3, FS_Subset, FS_CardinalityType
    <3> QED BY <3>3, <3>4, CountTypes DEF CountInv
  <2> QED BY <2>1, <2>2 DEF RechargedOnce
<1> QED BY <1>1, Always, PTL

\* UpdateStatus, ClaimExpiredCredits, VoidAdjustmentCredit and ApplyAdjustmentCredits
\* never move a note that was used, expired, voided or rejected.
THEOREM NotesStayEnded == Spec => NoteIsFinal
<1>1. StoreInv /\ CountInv /\ [Next]_vars =>
        [\A n \in Notes : note[n].status \in {"used", "expired", "void", "rejected"} =>
             /\ note'[n].status = note[n].status
             /\ note'[n].balance = note[n].balance]_vars
  BY NoteStep DEF NotesMove, NoteMoves, Final
<1> QED BY <1>1, Always, PTL DEF Spec, NoteIsFinal

\* Drain, TopUp, ApplyAdjustmentCredits, the void and the expiry post what they moved to
\* Customer Credit: once every posting has run and none failed, the account is what the
\* wallet and the issued notes still hold, for any number of requests at once.
THEOREM StoredValueIsOwed == Spec => []LiabilityMatches
<1>1. Init => PendingInv /\ LiabilityInv
  BY LiabilityInit
<1>2. StoreInv /\ PendingInv /\ LiabilityInv /\ StoreInv' /\ [Next]_vars
        => PendingInv' /\ LiabilityInv'
  <2> SUFFICES ASSUME StoreInv, PendingInv, LiabilityInv, StoreInv', [Next]_vars
               PROVE  PendingInv' /\ LiabilityInv'
    OBVIOUS
  <2> QED BY PendingStep, LiabilityStep
<1>3. StoreInv /\ LiabilityInv => LiabilityMatches
  <2> SUFFICES ASSUME StoreInv, LiabilityInv, Quiet, faults = 0
               PROVE  books.credit = wallet.balance + SumOver([n \in Notes |-> Spendable(n)])
    BY DEF LiabilityMatches
  <2>1. \A a \in Actors : Owing[a] = 0
    BY PendingOf DEF Quiet, Idle, Owing
  <2>2. SumFunctionOnSet(Owing, Actors) = 0
    BY <2>1, SumZero, IdentityAssumption
  <2>3. SumOver(Worth) = SumFunctionOnSet(Worth, Notes)
    <3>1. DOMAIN Worth = Notes
      BY DEF Worth
    <3> QED BY <3>1, SumOverIs
  <2>4. books.credit \in Int
    BY DEF StoreInv, BooksType
  <2>5. books.credit + SumFunctionOnSet(Owing, Actors) = wallet.balance + SumFunctionOnSet(Worth, Notes)
    BY DEF LiabilityInv
  <2>6. books.credit = wallet.balance + SumOver(Worth)
    BY <2>2, <2>3, <2>4, <2>5
  <2> QED BY <2>6 DEF Worth
<1> QED BY <1>1, <1>2, <1>3, Always, PTL DEF Spec

\* CreateInvoice, the drain of the wallet and the application of credit notes (invoice.go):
\* once they are through and nothing failed, the row, the draws, the receivable and the
\* status of an invoice say the same.
THEOREM InvoicesOweTheRest == Spec => []InvoiceOwesTheRest
<1>1. Init => OwedInv
  BY OwedInit
<1>2. StoreInv /\ OwedInv /\ [Next]_vars => OwedInv'
  BY OwedStep
<1>3. StoreInv /\ OwedInv => InvoiceOwesTheRest
  <2> SUFFICES ASSUME StoreInv, OwedInv, Quiet, faults = 0, NEW i \in Invoices, invoice[i].status # None
               PROVE  LET rest == Total - drawn[i].wallet - drawn[i].credit IN
                      /\ invoice[i].amountPaid = drawn[i].wallet
                      /\ invoice[i].creditApplied = drawn[i].credit
                      /\ books.receivable[i] = rest
                      /\ rest >= 0
                      /\ invoice[i].status = "paid" <=> rest = 0
    BY DEF InvoiceOwesTheRest
  <2>1. \A a \in Actors : ~Owns(actor[a], i)
    <3>1. Idle.invoice = None /\ Idle.todo = <<>>
      BY DEF Idle
    <3> QED BY <3>1, CustomersOwn, CustomerLegs, IdentityAssumption DEF Quiet
  <2>2. Good(i)
    BY DEF OwedInv
  <2>3. Finished(i)
    <3>1. ASSUME NEW a \in Actors, Worked(a, i) PROVE FALSE
      <4>1. Owns(actor[a], i)
        BY <3>1 DEF Worked, Stage, Raised, Posted, Drained, Persisted, Applied, Owns
      <4> QED BY <2>1, <4>1
    <3> QED BY <2>2, <3>1 DEF Good, Fresh
  <2> QED BY <2>3 DEF Finished, Written
<1> QED BY <1>1, <1>2, <1>3, Always, PTL DEF Spec

=============================================================================
