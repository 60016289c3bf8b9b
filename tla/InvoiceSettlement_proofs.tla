----------------------- MODULE InvoiceSettlement_proofs -----------------------
(***************************************************************************)
(* What holds of the settlement for every number of handlers, payments,    *)
(* return events, crashes and ledger errors and for every invoice amount:  *)
(*  - the ledger books cash, and writes off, once per cycle;               *)
(*  - a paid invoice whose receivable is not clear is reported;            *)
(*  - when deliveries are prompt, a return reverses at most once, and a    *)
(*    paid invoice is backed by money the gateway holds;                   *)
(*  - when moreover nothing fails and nothing is written off, the          *)
(*    receivable is what the row asks for, and reconciliation is silent.   *)
(***************************************************************************)
EXTENDS InvoiceSettlement, Journal_proofs

USE AmountsAssumption, SettlementAssumption

LEMMA SmallFinite ==
    ASSUME NEW a, NEW b, NEW c
    PROVE  IsFiniteSet({a}) /\ IsFiniteSet({a, b, c})
<1>1. IsFiniteSet({a}) /\ IsFiniteSet({a} \cup {b}) /\ IsFiniteSet({a} \cup {b} \cup {c})
  BY FS_Singleton, FS_AddElement
<1>2. {a, b, c} = {a} \cup {b} \cup {c}
  OBVIOUS
<1> QED BY <1>1, <1>2

LEMMA MovingFinite ==
    ASSUME NEW a, NEW b, NEW c
    PROVE  IsFiniteSet(Moving({a})) /\ IsFiniteSet(Moving({a, b, c}))
<1>1. Moving({a}) \in SUBSET {a} /\ Moving({a, b, c}) \in SUBSET {a, b, c}
  BY DEF Moving
<1> QED BY <1>1, SmallFinite, FS_Subset

\* The legs each call computes are well formed and finitely many.
LEMMA PlannedLegs ==
    ASSUME IsJournal(ledger), NEW inv \in Invoice
    PROVE  LET occ == PaymentOccurrence(ledger)
           IN  /\ \A L \in {TdsLegs(occ, inv.tds), CashLegs(occ, inv.tds, inv.amountPaid),
                           ReversalLegs(ledger), WriteOffLegs(ledger), RecoveryLegs(ledger)} :
                    L \in SUBSET Legs /\ IsFiniteSet(L)
<1> DEFINE occ == PaymentOccurrence(ledger)
<1>1. /\ occ \in Nat /\ Count(ledger, "writeOff") \in Nat /\ Count(ledger, "recovery") \in Nat
      /\ inv.tds \in Nat /\ inv.amountPaid \in Nat
  BY CountType DEF PaymentOccurrence, Codes, Entry, Invoice
<1>2. TdsLegs(occ, inv.tds) \in SUBSET Legs /\ IsFiniteSet(TdsLegs(occ, inv.tds))
  <2>1. TdsLegs(occ, inv.tds) \in SUBSET Legs
    BY <1>1 DEF TdsLegs, Moving, Leg, Legs, Codes, Entry
  <2> QED BY <2>1, MovingFinite DEF TdsLegs
<1>3. /\ CashLegs(occ, inv.tds, inv.amountPaid) \in SUBSET Legs
      /\ IsFiniteSet(CashLegs(occ, inv.tds, inv.amountPaid))
  <2>1. CashLegs(occ, inv.tds, inv.amountPaid) \in SUBSET Legs
    BY <1>1 DEF CashLegs, Moving, Leg, Legs, Codes, Entry
  <2> QED BY <2>1, MovingFinite DEF CashLegs
<1>4. ReversalLegs(ledger) \in SUBSET Legs /\ IsFiniteSet(ReversalLegs(ledger))
  <2>1. CASE DOMAIN ledger["payment"] = {}
    BY <2>1, FS_EmptySet DEF ReversalLegs
  <2>2. CASE DOMAIN ledger["payment"] # {}
    <3> DEFINE o == Latest(ledger, "payment")
    <3>1. o \in Nat /\ ledger["payment"][o] \in Nat
      BY <2>2, LatestProperty DEF IsJournal, Codes, Entry
    <3>2. ReversalLegs(ledger) = {Leg("reversal", o, ledger["payment"][o])}
      BY <2>2 DEF ReversalLegs
    <3>3. Leg("reversal", o, ledger["payment"][o]) \in Legs
      BY <3>1 DEF Leg, Legs, Codes, Entry
    <3>4. IsFiniteSet(ReversalLegs(ledger))
      BY <3>2, SmallFinite
    <3> QED BY <3>2, <3>3, <3>4
  <2> QED BY <2>1, <2>2
<1>5. WriteOffLegs(ledger) \in SUBSET Legs /\ IsFiniteSet(WriteOffLegs(ledger))
  <2>1. WriteOffLegs(ledger) \in SUBSET Legs
    BY <1>1 DEF WriteOffLegs, Moving, Leg, Legs, Codes, Entry, Deferred, PreTax
  <2> QED BY <2>1, MovingFinite, FS_EmptySet DEF WriteOffLegs
<1>6. RecoveryLegs(ledger) \in SUBSET Legs /\ IsFiniteSet(RecoveryLegs(ledger))
  <2> DEFINE n == Count(ledger, "recovery")
             L(c) == Leg(RecoveryOf[c], n, ledger[c][Latest(ledger, c)])
  <2>1. DOMAIN RecoveryOf = {"writeOff", "badDebt", "writeOffTax"}
    BY DEF RecoveryOf
  <2>2. ASSUME NEW c \in DOMAIN RecoveryOf, DOMAIN ledger[c] # {} PROVE L(c) \in Legs
    <3>1. c \in Codes /\ RecoveryOf[c] \in Codes
      BY <2>1 DEF Codes, Entry, RecoveryOf
    <3>2. ledger[c][Latest(ledger, c)] \in Nat
      BY <3>1, <2>2, LatestProperty DEF IsJournal
    <3> QED BY <1>1, <3>1, <3>2 DEF Leg, Legs
  <2>3. RecoveryLegs(ledger) \in SUBSET {L("writeOff"), L("badDebt"), L("writeOffTax")}
    BY <2>1 DEF RecoveryLegs
  <2>4. IsFiniteSet({L("writeOff"), L("badDebt"), L("writeOffTax")})
    BY SmallFinite
  <2>5. RecoveryLegs(ledger) \in SUBSET Legs
    BY <2>2 DEF RecoveryLegs
  <2> QED BY <2>3, <2>4, <2>5, FS_Subset
<1> QED BY <1>2, <1>3, <1>4, <1>5, <1>6

----------------------------------------------------------------------------
(* The initial state.                                                      *)

LEMMA InitInv == Init => IInv
<1> SUFFICES ASSUME Init PROVE IInv
  OBVIOUS
<1>1. /\ DOMAIN NoLegs = {} /\ IsFiniteSet(DOMAIN NoLegs)
      /\ \A n \in Nat : LET f == [o \in {0} |-> n]
                       IN  IsFiniteSet(DOMAIN f) /\ f[0] = n /\ DOMAIN f = {0}
  BY FS_EmptySet, SmallFinite DEF NoLegs
<1>2. IsJournal(ledger)
  <2>1. ledger = [c \in Codes |-> [o \in DOMAIN ledger[c] |-> ledger[c][o]]]
    BY DEF Init, IssuedJournal, NoLegs
  <2>2. ASSUME NEW c \in Codes
        PROVE  /\ IsFiniteSet(DOMAIN ledger[c])
               /\ \A o \in DOMAIN ledger[c] : o \in Nat /\ ledger[c][o] \in Nat
    BY <1>1 DEF Init, IssuedJournal
  <2> QED BY <2>1, <2>2 DEF IsJournal
<1>3. TypeOK
  <2>1. Idle \in [pc : PC, job : Events \cup Requests, seen : Invoice, todo : Seq(SUBSET Legs)]
    BY DEF Idle, Handler, PC, Requests, Invoice, Status, Issued
  <2> QED BY <1>2, <2>1 DEF TypeOK, Init, Invoice, Status, Issued
<1>4. PostingReady
  BY DEF PostingReady, Init, Idle, Handler
<1>5. Pending = {}
  BY DEF Pending, Waiting, Init, Idle, Handler
<1>6. \A c \in {"payment", "reversal", "writeOff", "recovery"} : ledger[c] = NoLegs
  BY DEF Init, IssuedJournal, Codes, Entry
<1>7. \A c \in {"reversal", "recovery"} : Count(ledger, c) = 0
  BY <1>1, <1>6, FS_EmptySet DEF Count
<1>8. CashBookedOnce /\ WriteOffRecoveredOnce
  BY <1>1, <1>5, <1>6, <1>7 DEF CashBookedOnce, WriteOffRecoveredOnce, Alternates
<1> QED BY <1>3, <1>4, <1>8 DEF IInv

----------------------------------------------------------------------------
(* Every step keeps the types.                                             *)

Ready(r) ==
    /\ r.pc \in {"recovering", "booking"} => r.todo # <<>>
    /\ \A i \in DOMAIN r.todo : IsFiniteSet(r.todo[i])

ThreadTypes == [pc : PC, job : Events \cup Requests, seen : Invoice, todo : Seq(SUBSET Legs)]

LEMMA RecordStep ==
    ASSUME TypeOK, PostingReady, NEW t \in Threads, NEW r \in ThreadTypes, Ready(r),
           thread' = [thread EXCEPT ![t] = r]
    PROVE  thread' \in [Threads -> ThreadTypes] /\ PostingReady'
BY DEF TypeOK, PostingReady, Ready, ThreadTypes

LEMMA ContinueStep ==
    ASSUME TypeOK, PostingReady, NEW t \in Threads, NEW pc \in PC, NEW seen \in Invoice,
           NEW todo \in Seq(SUBSET Legs),
           pc \in {"recovering", "booking"} => todo # <<>>,
           \A i \in DOMAIN todo : IsFiniteSet(todo[i]),
           Continue(t, pc, seen, todo)
    PROVE  thread' \in [Threads -> ThreadTypes] /\ PostingReady'
<1> DEFINE r == [thread[t] EXCEPT !.pc = pc, !.seen = seen, !.todo = todo]
<1>1. r \in ThreadTypes /\ r.pc = pc /\ r.todo = todo
  BY DEF TypeOK, ThreadTypes
<1>2. Ready(r)
  BY <1>1 DEF Ready
<1>3. thread' = [thread EXCEPT ![t] = r]
  BY DEF Continue
<1> QED BY <1>1, <1>2, <1>3, RecordStep

LEMMA GotoStep ==
    ASSUME TypeOK, PostingReady, NEW t \in Threads,
           NEW pc \in PC, pc \notin {"recovering", "booking"}, NEW seen \in Invoice,
           Continue(t, pc, seen, <<>>)
    PROVE  thread' \in [Threads -> ThreadTypes] /\ PostingReady'
<1>1. <<>> \in Seq(SUBSET Legs) /\ \A i \in DOMAIN <<>> : IsFiniteSet(<<>>[i])
  OBVIOUS
<1>2. pc \in {"recovering", "booking"} => <<>> # <<>>
  OBVIOUS
<1> QED BY ONLY <1>1, <1>2, TypeOK, PostingReady, Continue(t, pc, seen, <<>>), ContinueStep

LEMMA BeginStep ==
    ASSUME TypeOK, PostingReady, NEW t \in Threads, NEW pc \in PC, pc \notin {"recovering", "booking"},
           NEW job \in Events \cup Requests, NEW seen \in Invoice,
           Begin(t, pc, job, seen)
    PROVE  thread' \in [Threads -> ThreadTypes] /\ PostingReady'
<1>1. Handler(pc, job, seen) \in ThreadTypes /\ Ready(Handler(pc, job, seen))
  BY DEF Handler, ThreadTypes, Ready
<1> QED BY <1>1, RecordStep DEF Begin

LEMMA DoneStep ==
    ASSUME TypeOK, PostingReady, NEW t \in Threads, Done(t)
    PROVE  thread' \in [Threads -> ThreadTypes] /\ PostingReady'
<1>1. Idle \in ThreadTypes /\ Ready(Idle)
  BY DEF Idle, Handler, PC, Requests, Invoice, Status, Issued, ThreadTypes, Ready
<1> QED BY <1>1, RecordStep DEF Done

LEMMA PlanStep ==
    ASSUME TypeOK, PostingReady, NEW t \in Threads, NEW pc \in {"recovering", "booking"},
           NEW a \in SUBSET Legs, NEW b \in SUBSET Legs, IsFiniteSet(a), IsFiniteSet(b),
           Plan(t, pc, <<a>>) \/ Plan(t, pc, <<a, b>>)
    PROVE  thread' \in [Threads -> ThreadTypes] /\ PostingReady'
<1>1. thread[t].seen \in Invoice /\ pc \in PC
  BY DEF TypeOK, PC
<1>2. CASE Plan(t, pc, <<a>>)
  <2>1. /\ <<a>> \in Seq(SUBSET Legs) /\ <<a>> # <<>>
        /\ \A i \in DOMAIN <<a>> : IsFiniteSet(<<a>>[i])
    OBVIOUS
  <2>2. Continue(t, pc, thread[t].seen, <<a>>)
    BY <1>2 DEF Plan
  <2> QED BY <1>1, <2>1, <2>2, ContinueStep
<1>3. CASE Plan(t, pc, <<a, b>>)
  <2>1. /\ <<a, b>> \in Seq(SUBSET Legs) /\ <<a, b>> # <<>>
        /\ \A i \in DOMAIN <<a, b>> : IsFiniteSet(<<a, b>>[i])
    OBVIOUS
  <2>2. Continue(t, pc, thread[t].seen, <<a, b>>)
    BY <1>3 DEF Plan
  <2> QED BY <1>1, <2>1, <2>2, ContinueStep
<1> QED BY <1>2, <1>3

LEMMA TypeStep ==
    ASSUME TypeOK, PostingReady, [Next]_vars
    PROVE  TypeOK' /\ PostingReady'
<1> USE DEF ThreadTypes
<1>1. CASE UNCHANGED vars
  BY <1>1 DEF vars, PostingReady, TypeOK
<1>2. ASSUME NEW p \in Payments, Capture(p) \/ BankReturn(p) PROVE TypeOK' /\ PostingReady'
  BY <1>2 DEF Capture, BankReturn, PostingReady, TypeOK
<1>3. CASE VoidIfOpen
  BY <1>3 DEF VoidIfOpen, PostingReady, Invoice, Status, TypeOK
<1>4. ASSUME NEW t \in Threads, ReadToSettle(t) PROVE TypeOK' /\ PostingReady'
  <2> DEFINE pc == IF invoice.status \in {"paid", "void"} THEN "finish" ELSE "claim"
  <2>1. pc \in PC /\ pc \notin {"recovering", "booking"} /\ invoice \in Invoice
    BY DEF PC, TypeOK
  <2>2. Continue(t, pc, invoice, <<>>)
    BY <1>4 DEF ReadToSettle
  <2>3. thread' \in [Threads -> ThreadTypes] /\ PostingReady'
    BY <2>1, <2>2, GotoStep
  <2> QED BY <1>4, <2>3 DEF ReadToSettle, TypeOK
<1>5. ASSUME NEW t \in Threads, MarkPaid(t) PROVE TypeOK' /\ PostingReady'
  <2>1. PICK pc \in {"finish", "recover", "book"} : Goto(t, pc)
    BY <1>5 DEF MarkPaid
  <2>2. pc \in PC /\ pc \notin {"recovering", "booking"} /\ thread[t].seen \in Invoice
    BY <2>1 DEF PC, TypeOK
  <2>3. thread' \in [Threads -> ThreadTypes] /\ PostingReady'
    BY <2>1, <2>2, GotoStep DEF Goto
  <2>4. invoice' \in Invoice
    <3>1. Total - Credit \in Nat
      OBVIOUS
    <3> QED BY <1>5, <3>1 DEF MarkPaid, TypeOK, Invoice, Status
  <2> QED BY <1>5, <2>3, <2>4 DEF MarkPaid, TypeOK
<1>6. ASSUME NEW t \in Threads, PlanRecovery(t) \/ PlanPayment(t) \/ PlanReversal(t) \/ PlanWriteOff(t)
      PROVE  TypeOK' /\ PostingReady'
  <2>1. IsJournal(ledger) /\ thread[t].seen \in Invoice
    BY DEF TypeOK
  <2>2. thread' \in [Threads -> ThreadTypes] /\ PostingReady'
    <3>1. CASE PlanRecovery(t)
      BY <2>1, <3>1, PlannedLegs, PlanStep DEF PlanRecovery
    <3>2. CASE PlanPayment(t)
      BY <2>1, <3>2, PlannedLegs, PlanStep DEF PlanPayment
    <3>3. CASE PlanReversal(t)
      BY <2>1, <3>3, PlannedLegs, PlanStep DEF PlanReversal
    <3>4. CASE PlanWriteOff(t)
      BY <2>1, <3>4, PlannedLegs, PlanStep DEF PlanWriteOff
    <3> QED BY <1>6, <3>1, <3>2, <3>3, <3>4
  <2> QED BY <1>6, <2>2 DEF PlanRecovery, PlanPayment, PlanReversal, PlanWriteOff, TypeOK
<1>7. ASSUME NEW t \in Threads, PostNext(t) PROVE TypeOK' /\ PostingReady'
  <2> DEFINE todo == thread[t].todo
             pc == thread[t].pc
             next == IF Tail(todo) = <<>> THEN AfterLedger(pc) ELSE pc
  <2>1. /\ todo \in Seq(SUBSET Legs) /\ todo # <<>> /\ \A i \in DOMAIN todo : IsFiniteSet(todo[i])
        /\ pc \in {"recovering", "booking"} /\ thread[t].seen \in Invoice
    BY <1>7 DEF PostNext, TypeOK, PostingReady
  <2>2. Head(todo) \in SUBSET Legs /\ IsFiniteSet(Head(todo))
    BY <2>1
  <2>3. IsJournal(ledger')
    BY <1>7, <2>2, PostIsJournal DEF PostNext, TypeOK
  <2>4. /\ Tail(todo) \in Seq(SUBSET Legs)
        /\ \A i \in DOMAIN Tail(todo) : IsFiniteSet(Tail(todo)[i])
    BY <2>1
  <2>5. next \in PC /\ (next \in {"recovering", "booking"} => Tail(todo) # <<>>)
    BY <2>1 DEF AfterLedger, PC
  <2>6. Continue(t, next, thread[t].seen, Tail(todo))
    BY <1>7 DEF PostNext, Plan
  <2>7. thread' \in [Threads -> ThreadTypes] /\ PostingReady'
    <3> HIDE DEF next, todo
    <3> QED BY <2>1, <2>4, <2>5, <2>6, ContinueStep
  <2> QED BY <1>7, <2>3, <2>7 DEF PostNext, TypeOK
<1>8. ASSUME NEW t \in Threads, LedgerFails(t) PROVE TypeOK' /\ PostingReady'
  <2> DEFINE pc == AfterLedger(thread[t].pc)
  <2>1. pc \in PC /\ pc \notin {"recovering", "booking"} /\ thread[t].seen \in Invoice
    BY DEF AfterLedger, PC, TypeOK
  <2>2. Continue(t, pc, thread[t].seen, <<>>)
    BY <1>8 DEF LedgerFails, Goto
  <2>3. thread' \in [Threads -> ThreadTypes] /\ PostingReady'
    BY <2>1, <2>2, GotoStep
  <2>4. faults' \in 0..MaxFaults
    BY <1>8 DEF LedgerFails, TypeOK
  <2> QED BY <1>8, <2>3, <2>4 DEF LedgerFails, TypeOK
<1>9. ASSUME NEW t \in Threads, ReadToReverse(t) PROVE TypeOK' /\ PostingReady'
  <2> DEFINE pc == IF invoice.status = "paid" THEN "lookup" ELSE "finish"
  <2>1. pc \in PC /\ pc \notin {"recovering", "booking"} /\ invoice \in Invoice
    BY DEF PC, TypeOK
  <2>2. Continue(t, pc, invoice, <<>>)
    BY <1>9 DEF ReadToReverse
  <2>3. thread' \in [Threads -> ThreadTypes] /\ PostingReady'
    BY <2>1, <2>2, GotoStep
  <2> QED BY <1>9, <2>3 DEF ReadToReverse, TypeOK
<1>10. ASSUME NEW t \in Threads, LookUpCash(t) PROVE TypeOK' /\ PostingReady'
  <2> DEFINE inv == thread[t].seen
             seen == [inv EXCEPT !.amountPaid = NonCash(inv, LatestCash(ledger))]
  <2>1. inv \in Invoice
    BY DEF TypeOK
  <2>2. LatestCash(ledger) \in Nat
    BY LatestProperty DEF LatestCash, TypeOK, IsJournal, Codes, Entry
  <2>3. NonCash(inv, LatestCash(ledger)) \in Nat
    BY <2>1, <2>2 DEF NonCash, Invoice
  <2>4. seen \in Invoice
    BY <2>1, <2>3 DEF Invoice
  <2>5. Continue(t, "reopen", seen, <<>>)
    BY <1>10 DEF LookUpCash
  <2>6. "reopen" \in PC /\ "reopen" \notin {"recovering", "booking"}
    BY DEF PC
  <2>7. thread' \in [Threads -> ThreadTypes] /\ PostingReady'
    <3> HIDE DEF seen
    <3> QED BY <2>4, <2>5, <2>6, GotoStep
  <2> QED BY <1>10, <2>7 DEF LookUpCash, TypeOK
<1>11. ASSUME NEW t \in Threads, ReverseToUnpaid(t) PROVE TypeOK' /\ PostingReady'
  <2>1. PICK pc \in {"finish", "invert"} : Goto(t, pc)
    BY <1>11 DEF ReverseToUnpaid
  <2>2. pc \in PC /\ pc \notin {"recovering", "booking"} /\ thread[t].seen \in Invoice
    BY <2>1 DEF PC, TypeOK
  <2>3. thread' \in [Threads -> ThreadTypes] /\ PostingReady'
    BY <2>1, <2>2, GotoStep DEF Goto
  <2>4. invoice' \in Invoice
    BY <1>11, <2>2 DEF ReverseToUnpaid, TypeOK, Invoice, Status
  <2> QED BY <1>11, <2>3, <2>4 DEF ReverseToUnpaid, TypeOK
<1>12. ASSUME NEW t \in Threads, NEW pc \in PC, pc \notin {"recovering", "booking"},
              NEW job \in Events \cup Requests, Begin(t, pc, job, Issued)
       PROVE  thread' \in [Threads -> ThreadTypes] /\ PostingReady'
  <2>1. Issued \in Invoice
    BY DEF Issued, Invoice, Status
  <2> QED BY <1>12, <2>1, BeginStep
<1>13. ASSUME NEW t \in Threads, MarkUncollectible(t) PROVE TypeOK' /\ PostingReady'
  <2> DEFINE job == [kind |-> "writeOff"]
  <2>1. job \in Requests /\ "writeOff" \in PC /\ "writeOff" \notin {"recovering", "booking"}
    BY DEF Requests, PC
  <2>2. Begin(t, "writeOff", job, Issued)
    BY <1>13 DEF MarkUncollectible
  <2>3. thread' \in [Threads -> ThreadTypes] /\ PostingReady'
    BY <2>1, <2>2, <1>12
  <2>4. invoice' \in Invoice
    BY <1>13 DEF MarkUncollectible, TypeOK, Invoice, Status
  <2> QED BY <1>13, <2>3, <2>4 DEF MarkUncollectible, TypeOK
<1>14. ASSUME NEW t \in Threads, NEW e \in Events, Deliver(t, e) PROVE TypeOK' /\ PostingReady'
  <2>1. PICK pc \in {"settle", "reverse"} : Begin(t, pc, e, Issued)
    BY <1>14 DEF Deliver, PaymentSucceeded, ACHReturned
  <2>2. pc \in PC /\ pc \notin {"recovering", "booking"}
    BY <2>1 DEF PC
  <2>3. thread' \in [Threads -> ThreadTypes] /\ PostingReady'
    BY <2>1, <2>2, <1>12
  <2>4. attempts' \in [Payments -> {"processing", "succeeded", "returned"}]
    BY <1>14 DEF Deliver, PaymentSucceeded, ACHReturned, TypeOK
  <2> QED BY <1>14, <2>3, <2>4 DEF Deliver, TypeOK
<1>15. ASSUME NEW t \in Threads, NEW p \in Payments, Poll(t, p) PROVE TypeOK' /\ PostingReady'
  <2> DEFINE job == [kind |-> "poll", payment |-> p]
  <2>1. job \in Requests /\ "settle" \in PC /\ "settle" \notin {"recovering", "booking"}
    BY DEF Requests, PC
  <2>2. Begin(t, "settle", job, Issued)
    BY <1>15 DEF Poll
  <2>3. thread' \in [Threads -> ThreadTypes] /\ PostingReady'
    BY <2>1, <2>2, <1>12
  <2> QED BY <1>15, <2>3 DEF Poll, TypeOK
<1>16. ASSUME NEW t \in Threads, NEW r \in Receipts, RecordOffline(t, r)
       PROVE  TypeOK' /\ PostingReady'
  <2> DEFINE job == [kind |-> "offline", receipt |-> r]
             seen == [invoice EXCEPT !.tds = @ + r.tds]
  <2>1. job \in Requests /\ "recordTds" \in PC /\ "recordTds" \notin {"recovering", "booking"}
    BY DEF Requests, PC
  <2>2. seen \in Invoice
    <3>1. r.tds \in Nat /\ invoice.tds + r.tds \in Nat
      BY DEF TypeOK, Invoice
    <3> QED BY <3>1 DEF TypeOK, Invoice
  <2>3. Begin(t, "recordTds", job, seen)
    BY <1>16 DEF RecordOffline
  <2>4. thread' \in [Threads -> ThreadTypes] /\ PostingReady'
    <3> HIDE DEF job, seen
    <3> QED BY <2>1, <2>2, <2>3, BeginStep
  <2> QED BY <1>16, <2>4 DEF RecordOffline, TypeOK
<1>17. ASSUME NEW t \in Threads, RecordTds(t) PROVE TypeOK' /\ PostingReady'
  <2>1. thread[t].seen \in Invoice /\ "settle" \in PC
    BY DEF TypeOK, PC
  <2>2. thread' \in [Threads -> ThreadTypes] /\ PostingReady'
    <3>1. Goto(t, "settle") \/ Done(t)
      BY <1>17 DEF RecordTds
    <3> QED BY <2>1, <3>1, GotoStep, DoneStep DEF Goto
  <2>3. invoice' \in Invoice
    BY <1>17, <2>1 DEF RecordTds, TypeOK
  <2> QED BY <1>17, <2>2, <2>3 DEF RecordTds, TypeOK
<1>18. ASSUME NEW t \in Threads, Finish(t) PROVE TypeOK' /\ PostingReady'
  <2>1. thread' \in [Threads -> ThreadTypes] /\ PostingReady'
    BY <1>18, DoneStep DEF Finish
  <2>2. attempts' \in [Payments -> {"processing", "succeeded", "returned"}]
    BY <1>18 DEF Finish, TypeOK
  <2>3. handled' \subseteq Events
    BY <1>18 DEF Finish, TypeOK
  <2> QED BY <1>18, <2>1, <2>2, <2>3 DEF Finish, TypeOK
<1>19. ASSUME NEW t \in Threads, Crash(t) PROVE TypeOK' /\ PostingReady'
  <2>1. thread' \in [Threads -> ThreadTypes] /\ PostingReady'
    BY <1>19, DoneStep DEF Crash
  <2>2. faults' \in 0..MaxFaults
    BY <1>19 DEF Crash, TypeOK
  <2> QED BY <1>19, <2>1, <2>2 DEF Crash, TypeOK
<1> QED
  BY <1>1, <1>2, <1>3, <1>4, <1>5, <1>6, <1>7, <1>8, <1>9, <1>10, <1>11, <1>13, <1>14,
     <1>15, <1>16, <1>17, <1>18, <1>19 DEF Next, Step

----------------------------------------------------------------------------
(* What is still to be posted.                                             *)

LEMMA WaitingFacts ==
    /\ Waiting(<<>>) = {}
    /\ \A a, b : Waiting(<<a>>) = a /\ Waiting(<<a, b>>) = a \cup b
    /\ \A S : \A s \in Seq(S) : s # <<>> =>
          Head(s) \subseteq Waiting(s) /\ Waiting(Tail(s)) \subseteq Waiting(s)
<1>1. Waiting(<<>>) = {}
  BY DEF Waiting
<1>2. ASSUME NEW a, NEW b PROVE Waiting(<<a>>) = a /\ Waiting(<<a, b>>) = a \cup b
  <2>1. DOMAIN <<a>> = {1} /\ DOMAIN <<a, b>> = {1, 2}
    OBVIOUS
  <2>2. Waiting(<<a>>) = a
    BY <2>1 DEF Waiting
  <2>3. Waiting(<<a, b>>) = a \cup b
    BY <2>1 DEF Waiting
  <2> QED BY <2>2, <2>3
<1>3. ASSUME NEW S, NEW s \in Seq(S), s # <<>>
      PROVE  Head(s) \subseteq Waiting(s) /\ Waiting(Tail(s)) \subseteq Waiting(s)
  <2>1. 1 \in DOMAIN s /\ Head(s) = s[1]
    BY <1>3
  <2>2. \A k \in DOMAIN Tail(s) : k + 1 \in DOMAIN s /\ Tail(s)[k] = s[k + 1]
    BY <1>3
  <2> QED BY <2>1, <2>2 DEF Waiting
<1> QED BY <1>1, <1>2, <1>3

\* A step of one handler adds to what is pending at most its own new batches.
LEMMA PendingStep ==
    ASSUME TypeOK, NEW t \in Threads, NEW r, thread' = [thread EXCEPT ![t] = r]
    PROVE  Pending' \subseteq Pending \cup Waiting(r.todo)
<1>1. \A u \in Threads : thread'[u].todo \in {thread[u].todo, r.todo}
  BY DEF TypeOK
<1>2. Pending' = UNION {Waiting(thread'[u].todo) : u \in Threads}
  BY DEF Pending, Waiting
<1> QED BY <1>1, <1>2 DEF Pending

\* A leg that the occurrence discipline allows to be pending.
Conforms(j, l, b, i) ==
    /\ l.code = b => l.occ \in 0..Count(j, i)
    /\ l.code = i => l.occ \in DOMAIN j[b] /\ l.amount = j[b][l.occ]

\* What the services plan to post conforms, for both pairs.
LEMMA PlansConform ==
    ASSUME IInv, NEW inv \in Invoice
    PROVE  LET occ == PaymentOccurrence(ledger)
               planned == TdsLegs(occ, inv.tds) \cup CashLegs(occ, inv.tds, inv.amountPaid)
                            \cup ReversalLegs(ledger) \cup WriteOffLegs(ledger)
                            \cup RecoveryLegs(ledger)
           IN  \A l \in planned : /\ Conforms(ledger, l, "payment", "reversal")
                                 /\ Conforms(ledger, l, "writeOff", "recovery")
<1> DEFINE occ == PaymentOccurrence(ledger)
           Good(l) == /\ Conforms(ledger, l, "payment", "reversal")
                      /\ Conforms(ledger, l, "writeOff", "recovery")
<1>1. /\ IsJournal(ledger)
      /\ {"payment", "reversal", "writeOff", "recovery"} \subseteq Codes
  BY DEF IInv, TypeOK, Codes, Entry
<1>2. /\ occ \in Nat /\ occ = Count(ledger, "reversal")
      /\ Count(ledger, "writeOff") \in Nat /\ Count(ledger, "recovery") \in Nat
  BY <1>1, CountType DEF PaymentOccurrence
<1>3. ASSUME NEW l \in TdsLegs(occ, inv.tds) PROVE Good(l)
  BY <1>3 DEF TdsLegs, Moving, Leg, Conforms
<1>4. ASSUME NEW l \in CashLegs(occ, inv.tds, inv.amountPaid) PROVE Good(l)
  <2>1. l.code = "payment" /\ l.occ = occ
    BY DEF CashLegs, Moving, Leg
  <2> QED BY <1>2, <2>1 DEF Conforms
<1>5. ASSUME NEW l \in ReversalLegs(ledger) PROVE Good(l)
  <2> DEFINE o == Latest(ledger, "payment")
  <2>1. DOMAIN ledger["payment"] # {} /\ l = Leg("reversal", o, ledger["payment"][o])
    BY DEF ReversalLegs
  <2>2. o \in DOMAIN ledger["payment"]
    BY <1>1, <2>1, LatestProperty
  <2>3. l.code = "reversal" /\ l.occ = o /\ l.amount = ledger["payment"][o]
    BY <2>1 DEF Leg
  <2> QED BY <2>2, <2>3 DEF Conforms
<1>6. ASSUME NEW l \in WriteOffLegs(ledger) PROVE Good(l)
  <2>1. /\ l.code \in {"writeOff", "badDebt", "writeOffTax"}
        /\ l.occ = Count(ledger, "writeOff") /\ l.occ = Count(ledger, "recovery")
    BY DEF WriteOffLegs, Moving, Leg
  <2> QED BY <1>2, <2>1 DEF Conforms
<1>7. ASSUME NEW l \in RecoveryLegs(ledger) PROVE Good(l)
  <2> DEFINE n == Count(ledger, "recovery")
  <2>1. /\ n < Count(ledger, "writeOff")
        /\ \E c \in {"writeOff", "badDebt", "writeOffTax"} :
              /\ DOMAIN ledger[c] # {}
              /\ l = Leg(RecoveryOf[c], n, ledger[c][Latest(ledger, c)])
    BY <1>2 DEF RecoveryLegs, RecoveryOf
  <2>2. PICK c \in {"writeOff", "badDebt", "writeOffTax"} :
              /\ DOMAIN ledger[c] # {}
              /\ l = Leg(RecoveryOf[c], n, ledger[c][Latest(ledger, c)])
    BY <2>1
  <2>3. CASE c = "writeOff"
    <3>1. l.code = "recovery" /\ l.occ = n
          /\ l.amount = ledger["writeOff"][Latest(ledger, "writeOff")]
      BY <2>2, <2>3 DEF Leg, RecoveryOf
    <3>2. DOMAIN ledger["writeOff"] = 0..n
      BY <1>2, <2>1, PrefixCount DEF IInv, WriteOffRecoveredOnce, Alternates, Count
    <3>3. Latest(ledger, "writeOff") = n
      <4>1. /\ Latest(ledger, "writeOff") \in 0..n
            /\ \A p \in 0..n : p <= Latest(ledger, "writeOff")
        BY <1>1, <2>2, <2>3, <3>2, LatestProperty
      <4> QED BY <1>2, <4>1
    <3> QED BY <1>2, <3>1, <3>2, <3>3 DEF Conforms
  <2>4. CASE c # "writeOff"
    <3>1. l.code \in {"badDebtRecovery", "recoveryTax"}
      BY <2>2, <2>4 DEF Leg, RecoveryOf
    <3> QED BY <3>1 DEF Conforms
  <2> QED BY <2>3, <2>4
<1> QED BY <1>3, <1>4, <1>5, <1>6, <1>7

LEMMA ContinuePending ==
    ASSUME TypeOK, NEW t \in Threads, NEW pc, NEW seen, NEW todo, Continue(t, pc, seen, todo)
    PROVE  Pending' \subseteq Pending \cup Waiting(todo)
<1> DEFINE r == [thread[t] EXCEPT !.pc = pc, !.seen = seen, !.todo = todo]
<1>1. r.todo = todo
  BY DEF TypeOK
<1>2. thread' = [thread EXCEPT ![t] = r]
  BY DEF Continue
<1> QED BY <1>1, <1>2, PendingStep

LEMMA IdlePending ==
    ASSUME TypeOK, NEW t \in Threads,
           \/ Done(t)
           \/ \E pc, seen : Continue(t, pc, seen, <<>>)
           \/ \E pc, job, seen : Begin(t, pc, job, seen)
    PROVE  Pending' \subseteq Pending
<1>1. ASSUME NEW pc, NEW seen, Continue(t, pc, seen, <<>>) PROVE Pending' \subseteq Pending
  BY <1>1, ContinuePending, WaitingFacts
<1>2. ASSUME NEW pc, NEW job, NEW seen, thread' = [thread EXCEPT ![t] = Handler(pc, job, seen)]
      PROVE  Pending' \subseteq Pending
  <2>1. Handler(pc, job, seen).todo = <<>>
    BY DEF Handler
  <2> QED BY <1>2, <2>1, PendingStep, WaitingFacts
<1> QED BY <1>1, <1>2 DEF Done, Idle, Begin

\* A step leaves the ledger alone and plans legs that conform, or posts legs
\* that were pending.
LEMMA LedgerStep ==
    ASSUME IInv, [Next]_vars
    PROVE  \/ /\ ledger' = ledger
              /\ \A l \in Pending' \ Pending : /\ Conforms(ledger, l, "payment", "reversal")
                                             /\ Conforms(ledger, l, "writeOff", "recovery")
           \/ /\ Pending' \subseteq Pending
              /\ \E legs \in SUBSET Pending : ledger' = Post(ledger, legs)
<1> DEFINE Good(l) == /\ Conforms(ledger, l, "payment", "reversal")
                      /\ Conforms(ledger, l, "writeOff", "recovery")
           Plans == ledger' = ledger /\ \A l \in Pending' \ Pending : Good(l)
           Posts == /\ Pending' \subseteq Pending
                    /\ \E legs \in SUBSET Pending : ledger' = Post(ledger, legs)
<1> USE DEF IInv
<1>0. ASSUME ledger' = ledger, Pending' \subseteq Pending PROVE Plans
  BY <1>0
<1>1. ASSUME UNCHANGED vars \/ VoidIfOpen \/ \E p \in Payments : Capture(p) \/ BankReturn(p)
      PROVE  Plans
  <2>1. ledger' = ledger /\ thread' = thread
    BY <1>1 DEF vars, VoidIfOpen, Capture, BankReturn
  <2>2. Pending' = Pending
    BY <2>1 DEF Pending, Waiting
  <2> QED BY <1>0, <2>1, <2>2
<1>2. ASSUME NEW t \in Threads,
             \/ ReadToSettle(t) \/ MarkPaid(t) \/ LedgerFails(t) \/ ReadToReverse(t)
             \/ LookUpCash(t) \/ ReverseToUnpaid(t) \/ RecordTds(t) \/ Finish(t) \/ Crash(t)
      PROVE  Plans
  <2>1. ledger' = ledger
    BY <1>2 DEF ReadToSettle, MarkPaid, LedgerFails, ReadToReverse, LookUpCash,
                ReverseToUnpaid, RecordTds, Finish, Crash
  <2>2. Done(t) \/ \E pc, seen : Continue(t, pc, seen, <<>>)
    BY <1>2 DEF ReadToSettle, MarkPaid, LedgerFails, ReadToReverse, LookUpCash,
                ReverseToUnpaid, RecordTds, Finish, Crash, Goto
  <2> QED BY <1>0, <2>1, <2>2, IdlePending
<1>3. ASSUME NEW t \in Threads,
             \/ MarkUncollectible(t)
             \/ \E e \in Events : Deliver(t, e)
             \/ \E p \in Payments : Poll(t, p)
             \/ \E r \in Receipts : RecordOffline(t, r)
      PROVE  Plans
  <2>1. ledger' = ledger
    BY <1>3 DEF MarkUncollectible, Deliver, PaymentSucceeded, ACHReturned, Poll, RecordOffline
  <2>2. \E pc, job, seen : Begin(t, pc, job, seen)
    BY <1>3 DEF MarkUncollectible, Deliver, PaymentSucceeded, ACHReturned, Poll, RecordOffline
  <2> QED BY <1>0, <2>1, <2>2, IdlePending
<1>4. ASSUME NEW t \in Threads,
             PlanRecovery(t) \/ PlanPayment(t) \/ PlanReversal(t) \/ PlanWriteOff(t)
      PROVE  Plans
  <2> DEFINE inv == thread[t].seen
             occ == PaymentOccurrence(ledger)
             booking == <<TdsLegs(occ, inv.tds), CashLegs(occ, inv.tds, inv.amountPaid)>>
  <2>1. ledger' = ledger
    BY <1>4 DEF PlanRecovery, PlanPayment, PlanReversal, PlanWriteOff
  <2>2. inv \in Invoice
    BY DEF TypeOK
  <2>3. PICK todo \in {<<RecoveryLegs(ledger)>>, booking, <<ReversalLegs(ledger)>>,
                       <<WriteOffLegs(ledger)>>} :
            \E pc, seen : Continue(t, pc, seen, todo)
    BY <1>4 DEF PlanRecovery, PlanPayment, PlanReversal, PlanWriteOff, Plan
  <2>4. Waiting(todo) \in {RecoveryLegs(ledger), ReversalLegs(ledger), WriteOffLegs(ledger),
              TdsLegs(occ, inv.tds) \cup CashLegs(occ, inv.tds, inv.amountPaid)}
    BY <2>3, WaitingFacts
  <2>5. \A l \in Waiting(todo) : Good(l)
    BY <2>2, <2>4, PlansConform
  <2>6. Pending' \subseteq Pending \cup Waiting(todo)
    BY <2>3, ContinuePending
  <2> QED BY <2>1, <2>5, <2>6
<1>5. ASSUME NEW t \in Threads, PostNext(t) PROVE Posts
  <2> DEFINE todo == thread[t].todo
  <2>1. todo \in Seq(SUBSET Legs) /\ todo # <<>>
    BY <1>5 DEF PostNext, TypeOK, PostingReady
  <2>2. Head(todo) \subseteq Waiting(todo) /\ Waiting(Tail(todo)) \subseteq Waiting(todo)
    BY <2>1, WaitingFacts
  <2>3. Waiting(todo) \subseteq Pending
    BY DEF Pending
  <2>4. \E pc, seen : Continue(t, pc, seen, Tail(todo))
    BY <1>5 DEF PostNext, Plan
  <2>5. Pending' \subseteq Pending
    BY <2>2, <2>3, <2>4, ContinuePending
  <2>6. ledger' = Post(ledger, Head(todo))
    BY <1>5 DEF PostNext
  <2> QED BY <2>2, <2>3, <2>5, <2>6
<1> HIDE DEF Plans, Posts
<1>6. ASSUME NEW t \in Threads,
             \/ Step(t) \/ LedgerFails(t) \/ Crash(t) \/ MarkUncollectible(t)
             \/ \E e \in Events : Deliver(t, e)
             \/ \E p \in Payments : Poll(t, p)
             \/ \E r \in Receipts : RecordOffline(t, r)
      PROVE  Plans \/ Posts
  BY <1>2, <1>3, <1>4, <1>5, <1>6 DEF Step
<1>7. Plans \/ Posts
  BY <1>1, <1>6 DEF Next
<1> QED BY <1>7 DEF Plans, Posts

LEMMA AlternatesStep ==
    ASSUME IInv, [Next]_vars
    PROVE  CashBookedOnce' /\ WriteOffRecoveredOnce'
<1>1. IsJournal(ledger) /\ {"payment", "reversal", "writeOff", "recovery"} \subseteq Codes
  BY DEF IInv, TypeOK, Codes, Entry
<1>2. ASSUME NEW b \in Codes, NEW i \in Codes, Alternates(ledger, Pending, b, i),
             ledger' = ledger, \A l \in Pending' \ Pending : Conforms(ledger, l, b, i)
      PROVE  Alternates(ledger', Pending', b, i)
  BY <1>2 DEF Alternates, Conforms
<1>3. ASSUME NEW b \in Codes, NEW i \in Codes, Alternates(ledger, Pending, b, i),
             NEW legs \in SUBSET Pending, ledger' = Post(ledger, legs), Pending' \subseteq Pending
      PROVE  Alternates(ledger', Pending', b, i)
  <2>1. Alternates(ledger', Pending, b, i)
    BY <1>1, <1>3, PostAlternates
  <2> QED BY <1>3, <2>1 DEF Alternates
<1>4. /\ Alternates(ledger, Pending, "payment", "reversal")
      /\ Alternates(ledger, Pending, "writeOff", "recovery")
  BY DEF IInv, CashBookedOnce, WriteOffRecoveredOnce
<1>5. /\ Alternates(ledger', Pending', "payment", "reversal")
      /\ Alternates(ledger', Pending', "writeOff", "recovery")
  BY <1>1, <1>2, <1>3, <1>4, LedgerStep
<1> QED BY <1>5 DEF CashBookedOnce, WriteOffRecoveredOnce, Alternates, Count

LEMMA NextInv == IInv /\ [Next]_vars => IInv'
BY TypeStep, AlternatesStep DEF IInv

LEMMA Invariance == Spec => []IInv
BY InitInv, NextInv, PTL DEF Spec

----------------------------------------------------------------------------
(* The results.                                                            *)

\* Every reachable state is well typed, whatever handlers, payments, event
\* copies and faults there are.
THEOREM SettlementTypes == Spec => []TypeOK
<1>1. IInv => TypeOK
  BY DEF IInv
<1> QED BY <1>1, Invariance, PTL

\* RecordPaymentWithSettled and RecordPaymentReversal book cash once per
\* settle/return cycle under every interleaving, crash and lost posting.
THEOREM CashIsBookedOnce == Spec => []CashBookedOnce
<1>1. IInv => CashBookedOnce
  BY DEF IInv
<1> QED BY <1>1, Invariance, PTL

\* RecordInvoiceWriteOff and RecordWriteOffRecovery write off once per cycle.
THEOREM WriteOffIsRecoveredOnce == Spec => []WriteOffRecoveredOnce
<1>1. IInv => WriteOffRecoveredOnce
  BY DEF IInv
<1> QED BY <1>1, Invariance, PTL

\* The cash postings implement the abstract booking cycle.
THEOREM CashImplementsCycle == Spec => CashAlternates
<1>1. Init => CashCycle!Init
  BY DEF Init, CashCycle!Init, IssuedJournal, NoLegs, Codes, Entry
<1>2. IInv /\ IInv' /\ [Next]_vars
        => [CashCycle!Next]_<<ledger["payment"], ledger["reversal"]>>
  <2> SUFFICES ASSUME IInv, IInv', [Next]_vars
               PROVE  [CashCycle!Next]_<<ledger["payment"], ledger["reversal"]>>
    OBVIOUS
  <2>1. /\ IsJournal(ledger) /\ IsJournal(ledger') /\ {"payment", "reversal"} \subseteq Codes
        /\ Alternates(ledger, Pending, "payment", "reversal")
    BY DEF IInv, TypeOK, CashBookedOnce, Codes, Entry
  <2>2. CASE ledger' = ledger
    BY <2>2
  <2>3. ASSUME NEW legs \in SUBSET Pending, ledger' = Post(ledger, legs)
        PROVE  [CashCycle!Next]_<<ledger["payment"], ledger["reversal"]>>
    <3>1. \/ ledger'["payment"] = ledger["payment"] /\ ledger'["reversal"] = ledger["reversal"]
          \/ /\ ledger["payment"] = ledger["reversal"] /\ ledger'["reversal"] = ledger["reversal"]
             /\ \E n \in DOMAIN ledger'["payment"] :
                  /\ DOMAIN ledger["payment"] = 0..(n - 1) /\ DOMAIN ledger'["payment"] = 0..n
                  /\ ledger'["payment"][n] \in Nat
             /\ \A o \in DOMAIN ledger["payment"] : ledger'["payment"][o] = ledger["payment"][o]
          \/ /\ ledger["payment"] # ledger["reversal"]
             /\ ledger'["payment"] = ledger["payment"] /\ ledger'["reversal"] = ledger["payment"]
      BY <2>1, <2>3, PostCycles
    <3> QED BY <3>1 DEF CashCycle!Next, CashCycle!Book, CashCycle!Invert, CashCycle!Open
  <2> QED BY <2>2, <2>3, LedgerStep
<1> QED BY <1>1, <1>2, Invariance, PTL DEF Spec, CashAlternates, CashCycle!Spec

\* The write-off and recovery postings implement the abstract booking cycle.
THEOREM WriteOffImplementsCycle == Spec => WriteOffAlternates
<1>1. Init => WriteOffCycle!Init
  BY DEF Init, WriteOffCycle!Init, IssuedJournal, NoLegs, Codes, Entry
<1>2. IInv /\ IInv' /\ [Next]_vars
        => [WriteOffCycle!Next]_<<ledger["writeOff"], ledger["recovery"]>>
  <2> SUFFICES ASSUME IInv, IInv', [Next]_vars
               PROVE  [WriteOffCycle!Next]_<<ledger["writeOff"], ledger["recovery"]>>
    OBVIOUS
  <2>1. /\ IsJournal(ledger) /\ IsJournal(ledger') /\ {"writeOff", "recovery"} \subseteq Codes
        /\ Alternates(ledger, Pending, "writeOff", "recovery")
    BY DEF IInv, TypeOK, WriteOffRecoveredOnce, Codes, Entry
  <2>2. CASE ledger' = ledger
    BY <2>2
  <2>3. ASSUME NEW legs \in SUBSET Pending, ledger' = Post(ledger, legs)
        PROVE  [WriteOffCycle!Next]_<<ledger["writeOff"], ledger["recovery"]>>
    <3>1. \/ ledger'["writeOff"] = ledger["writeOff"] /\ ledger'["recovery"] = ledger["recovery"]
          \/ /\ ledger["writeOff"] = ledger["recovery"] /\ ledger'["recovery"] = ledger["recovery"]
             /\ \E n \in DOMAIN ledger'["writeOff"] :
                  /\ DOMAIN ledger["writeOff"] = 0..(n - 1) /\ DOMAIN ledger'["writeOff"] = 0..n
                  /\ ledger'["writeOff"][n] \in Nat
             /\ \A o \in DOMAIN ledger["writeOff"] : ledger'["writeOff"][o] = ledger["writeOff"][o]
          \/ /\ ledger["writeOff"] # ledger["recovery"]
             /\ ledger'["writeOff"] = ledger["writeOff"] /\ ledger'["recovery"] = ledger["writeOff"]
      BY <2>1, <2>3, PostCycles
    <3> QED BY <3>1 DEF WriteOffCycle!Next, WriteOffCycle!Book, WriteOffCycle!Invert, WriteOffCycle!Open
  <2> QED BY <2>2, <2>3, LedgerStep
<1> QED BY <1>1, <1>2, Invariance, PTL DEF Spec, WriteOffAlternates, WriteOffCycle!Spec

----------------------------------------------------------------------------
(* The batches the handlers hold.                                          *)

Held(todo) == {todo[i] : i \in DOMAIN todo}
Batches == UNION {Held(thread[t].todo) : t \in Threads}

LEMMA HeldFacts ==
    /\ Held(<<>>) = {}
    /\ \A a, b : Held(<<a>>) = {a} /\ Held(<<a, b>>) = {a, b}
    /\ \A S : \A s \in Seq(S) : s # <<>> => Head(s) \in Held(s) /\ Held(Tail(s)) \subseteq Held(s)
<1>1. Held(<<>>) = {}
  BY DEF Held
<1>2. ASSUME NEW a, NEW b PROVE Held(<<a>>) = {a} /\ Held(<<a, b>>) = {a, b}
  <2>1. DOMAIN <<a>> = {1} /\ DOMAIN <<a, b>> = {1, 2}
    OBVIOUS
  <2>2. Held(<<a>>) = {a}
    BY <2>1 DEF Held
  <2>3. Held(<<a, b>>) = {a, b}
    BY <2>1 DEF Held
  <2> QED BY <2>2, <2>3
<1>3. ASSUME NEW S, NEW s \in Seq(S), s # <<>>
      PROVE  Head(s) \in Held(s) /\ Held(Tail(s)) \subseteq Held(s)
  <2>1. 1 \in DOMAIN s /\ Head(s) = s[1]
    BY <1>3
  <2>2. \A k \in DOMAIN Tail(s) : k + 1 \in DOMAIN s /\ Tail(s)[k] = s[k + 1]
    BY <1>3
  <2> QED BY <2>1, <2>2 DEF Held
<1> QED BY <1>1, <1>2, <1>3

LEMMA BatchesStep ==
    ASSUME TypeOK, NEW t \in Threads, NEW r, thread' = [thread EXCEPT ![t] = r]
    PROVE  Batches' \subseteq Batches \cup Held(r.todo)
<1>1. \A u \in Threads : thread'[u].todo \in {thread[u].todo, r.todo}
  BY DEF TypeOK
<1>2. Batches' = UNION {Held(thread'[u].todo) : u \in Threads}
  BY DEF Batches, Held
<1> QED BY <1>1, <1>2 DEF Batches

LEMMA ContinueBatches ==
    ASSUME TypeOK, NEW t \in Threads, NEW pc, NEW seen, NEW todo, Continue(t, pc, seen, todo)
    PROVE  Batches' \subseteq Batches \cup Held(todo)
<1> DEFINE r == [thread[t] EXCEPT !.pc = pc, !.seen = seen, !.todo = todo]
<1>1. r.todo = todo
  BY DEF TypeOK
<1>2. thread' = [thread EXCEPT ![t] = r]
  BY DEF Continue
<1> QED BY <1>1, <1>2, BatchesStep

LEMMA IdleBatches ==
    ASSUME TypeOK, NEW t \in Threads,
           \/ Done(t)
           \/ \E pc, seen : Continue(t, pc, seen, <<>>)
           \/ \E pc, job, seen : Begin(t, pc, job, seen)
    PROVE  Batches' \subseteq Batches
<1>1. ASSUME NEW pc, NEW seen, Continue(t, pc, seen, <<>>) PROVE Batches' \subseteq Batches
  BY <1>1, ContinueBatches, HeldFacts
<1>2. ASSUME NEW pc, NEW job, NEW seen, thread' = [thread EXCEPT ![t] = Handler(pc, job, seen)]
      PROVE  Batches' \subseteq Batches
  <2>1. Handler(pc, job, seen).todo = <<>>
    BY DEF Handler
  <2> QED BY <1>2, <2>1, BatchesStep, HeldFacts
<1> QED BY <1>1, <1>2 DEF Done, Idle, Begin

\* The batches a handler may plan now.
Planned ==
    LET occ == PaymentOccurrence(ledger)
    IN  {RecoveryLegs(ledger), ReversalLegs(ledger), WriteOffLegs(ledger)}
          \cup {TdsLegs(occ, inv.tds) : inv \in Invoice}
          \cup {CashLegs(occ, inv.tds, inv.amountPaid) : inv \in Invoice}

\* A step leaves the ledger alone and plans batches, or posts one of those held.
LEMMA BatchStep ==
    ASSUME IInv, [Next]_vars
    PROVE  \/ ledger' = ledger /\ Batches' \subseteq Batches \cup Planned
           \/ /\ Batches' \subseteq Batches
              /\ \E B \in Batches : B \in SUBSET Legs /\ ledger' = Post(ledger, B)
<1> DEFINE Plans == ledger' = ledger /\ Batches' \subseteq Batches \cup Planned
           Posts == /\ Batches' \subseteq Batches
                    /\ \E B \in Batches : B \in SUBSET Legs /\ ledger' = Post(ledger, B)
<1> USE DEF IInv
<1>0. ASSUME ledger' = ledger, Batches' \subseteq Batches PROVE Plans
  BY <1>0
<1>1. ASSUME UNCHANGED vars \/ VoidIfOpen \/ \E p \in Payments : Capture(p) \/ BankReturn(p)
      PROVE  Plans
  <2>1. ledger' = ledger /\ thread' = thread
    BY <1>1 DEF vars, VoidIfOpen, Capture, BankReturn
  <2>2. Batches' = Batches
    BY <2>1 DEF Batches, Held
  <2> QED BY <1>0, <2>1, <2>2
<1>2. ASSUME NEW t \in Threads,
             \/ ReadToSettle(t) \/ MarkPaid(t) \/ LedgerFails(t) \/ ReadToReverse(t)
             \/ LookUpCash(t) \/ ReverseToUnpaid(t) \/ RecordTds(t) \/ Finish(t) \/ Crash(t)
      PROVE  Plans
  <2>1. ledger' = ledger
    BY <1>2 DEF ReadToSettle, MarkPaid, LedgerFails, ReadToReverse, LookUpCash,
                ReverseToUnpaid, RecordTds, Finish, Crash
  <2>2. Done(t) \/ \E pc, seen : Continue(t, pc, seen, <<>>)
    BY <1>2 DEF ReadToSettle, MarkPaid, LedgerFails, ReadToReverse, LookUpCash,
                ReverseToUnpaid, RecordTds, Finish, Crash, Goto
  <2> QED BY <1>0, <2>1, <2>2, IdleBatches
<1>3. ASSUME NEW t \in Threads,
             \/ MarkUncollectible(t)
             \/ \E e \in Events : Deliver(t, e)
             \/ \E p \in Payments : Poll(t, p)
             \/ \E r \in Receipts : RecordOffline(t, r)
      PROVE  Plans
  <2>1. ledger' = ledger
    BY <1>3 DEF MarkUncollectible, Deliver, PaymentSucceeded, ACHReturned, Poll, RecordOffline
  <2>2. \E pc, job, seen : Begin(t, pc, job, seen)
    BY <1>3 DEF MarkUncollectible, Deliver, PaymentSucceeded, ACHReturned, Poll, RecordOffline
  <2> QED BY <1>0, <2>1, <2>2, IdleBatches
<1>4. ASSUME NEW t \in Threads,
             PlanRecovery(t) \/ PlanPayment(t) \/ PlanReversal(t) \/ PlanWriteOff(t)
      PROVE  Plans
  <2> DEFINE inv == thread[t].seen
             occ == PaymentOccurrence(ledger)
             booking == <<TdsLegs(occ, inv.tds), CashLegs(occ, inv.tds, inv.amountPaid)>>
  <2>1. ledger' = ledger
    BY <1>4 DEF PlanRecovery, PlanPayment, PlanReversal, PlanWriteOff
  <2>2. inv \in Invoice
    BY DEF TypeOK
  <2>3. PICK todo \in {<<RecoveryLegs(ledger)>>, booking, <<ReversalLegs(ledger)>>,
                       <<WriteOffLegs(ledger)>>} :
            \E pc, seen : Continue(t, pc, seen, todo)
    BY <1>4 DEF PlanRecovery, PlanPayment, PlanReversal, PlanWriteOff, Plan
  <2>4. Held(todo) \in {{RecoveryLegs(ledger)}, {ReversalLegs(ledger)}, {WriteOffLegs(ledger)},
              {TdsLegs(occ, inv.tds), CashLegs(occ, inv.tds, inv.amountPaid)}}
    BY <2>3, HeldFacts
  <2>5. Held(todo) \subseteq Planned
    BY <2>2, <2>4 DEF Planned
  <2>6. Batches' \subseteq Batches \cup Held(todo)
    BY <2>3, ContinueBatches
  <2> QED BY <2>1, <2>5, <2>6
<1>5. ASSUME NEW t \in Threads, PostNext(t) PROVE Posts
  <2> DEFINE todo == thread[t].todo
  <2>1. todo \in Seq(SUBSET Legs) /\ todo # <<>>
    BY <1>5 DEF PostNext, TypeOK, PostingReady
  <2>2. Head(todo) \in Held(todo) /\ Held(Tail(todo)) \subseteq Held(todo) /\ Head(todo) \in SUBSET Legs
    BY <2>1, HeldFacts
  <2>3. Held(todo) \subseteq Batches
    BY DEF Batches
  <2>4. \E pc, seen : Continue(t, pc, seen, Tail(todo))
    BY <1>5 DEF PostNext, Plan
  <2>5. Batches' \subseteq Batches
    BY <2>2, <2>3, <2>4, ContinueBatches
  <2>6. ledger' = Post(ledger, Head(todo))
    BY <1>5 DEF PostNext
  <2> QED BY <2>2, <2>3, <2>5, <2>6
<1> HIDE DEF Plans, Posts
<1>6. ASSUME NEW t \in Threads,
             \/ Step(t) \/ LedgerFails(t) \/ Crash(t) \/ MarkUncollectible(t)
             \/ \E e \in Events : Deliver(t, e)
             \/ \E p \in Payments : Poll(t, p)
             \/ \E r \in Receipts : RecordOffline(t, r)
      PROVE  Plans \/ Posts
  BY <1>2, <1>3, <1>4, <1>5, <1>6 DEF Step
<1>7. Plans \/ Posts
  BY <1>1, <1>6 DEF Next
<1> QED BY <1>7 DEF Plans, Posts

----------------------------------------------------------------------------
(* No more is recovered than was written off.                              *)

WrittenOff == [writeOff |-> Deferred, badDebt |-> Recognized, writeOffTax |-> Tax]
Parts == {"writeOff", "badDebt", "writeOffTax"}
Occs(legs, c) == {l.occ : l \in {m \in legs : m.code = c}}

\* The three legs of a write-off are posted together, each with its share of the
\* invoice, and a recovery inverts what is written off.
WriteOffsWhole(j) ==
    \A c \in Parts :
        /\ DOMAIN j[RecoveryOf[c]] \subseteq DOMAIN j[c]
        /\ \A o \in DOMAIN j[c] : j[c][o] = WrittenOff[c] /\ WrittenOff[c] > 0
        /\ \A o \in DOMAIN j[RecoveryOf[c]] : j[RecoveryOf[c]][o] = WrittenOff[c]
        /\ WrittenOff[c] > 0 /\ Deferred > 0 => DOMAIN j[c] = DOMAIN j["writeOff"]

WriteOffsFit(j, B) ==
    \A c \in Parts :
        /\ \A l \in B :
            /\ l.code = c => l.amount = WrittenOff[c] /\ WrittenOff[c] > 0
            /\ l.code = RecoveryOf[c] => l.amount = WrittenOff[c] /\ l.occ \in DOMAIN j[c]
        /\ WrittenOff[c] > 0 /\ Deferred > 0 => Occs(B, c) = Occs(B, "writeOff")

WriteOffsAgree == WriteOffsWhole(ledger) /\ \A B \in Batches : WriteOffsFit(ledger, B)

LEMMA PartFacts ==
    /\ Deferred \in Nat /\ \A c \in Parts : WrittenOff[c] \in Nat
    /\ \A c \in Parts : c \in Codes /\ RecoveryOf[c] \in Codes /\ RecoveryOf[c] \notin Parts
    /\ WrittenOff["writeOff"] = Deferred
    /\ \A c, d \in Parts : RecoveryOf[c] = RecoveryOf[d] => c = d
    /\ Parts = DOMAIN RecoveryOf
<1>1. Deferred \in Nat /\ Recognized \in Nat /\ Tax \in Nat
  BY DEF Deferred, PreTax
<1>2. \A c \in Parts : WrittenOff[c] \in Nat
  BY <1>1 DEF Parts, WrittenOff
<1> QED BY <1>1, <1>2 DEF Parts, WrittenOff, RecoveryOf, Codes, Entry

LEMMA OtherLegsFit ==
    ASSUME NEW j, NEW B, \A l \in B : l.code \in {"tds", "payment", "reversal"}
    PROVE  WriteOffsFit(j, B)
<1>1. \A c \in Parts : \A l \in B : l.code # c /\ l.code # RecoveryOf[c]
  BY DEF Parts, RecoveryOf
<1>2. \A c \in Parts : Occs(B, c) = {}
  BY <1>1 DEF Occs
<1> QED BY <1>1, <1>2 DEF WriteOffsFit, Parts

LEMMA WriteOffPlanFits ==
    ASSUME NEW j
    PROVE  WriteOffsFit(j, WriteOffLegs(j))
<1> DEFINE B == WriteOffLegs(j)
           n == Count(j, "writeOff")
<1>1. CASE n # Count(j, "recovery")
  <2>1. B = {}
    BY <1>1 DEF WriteOffLegs
  <2> QED BY <2>1, OtherLegsFit
<1>2. CASE n = Count(j, "recovery")
  <2>1. B = Moving({Leg("writeOff", n, Deferred), Leg("badDebt", n, Recognized), Leg("writeOffTax", n, Tax)})
    BY <1>2 DEF WriteOffLegs
  <2>2. \A l \in B : l.code \in Parts /\ l.occ = n /\ l.amount = WrittenOff[l.code] /\ l.amount > 0
    BY <2>1 DEF Moving, Leg, Parts, WrittenOff
  <2>3. \A c \in Parts : WrittenOff[c] > 0 => Leg(c, n, WrittenOff[c]) \in B
    BY <2>1 DEF Moving, Leg, Parts, WrittenOff
  <2>4. \A c \in Parts : WrittenOff[c] > 0 => Occs(B, c) = {n}
    <3> TAKE c \in Parts
    <3> HAVE WrittenOff[c] > 0
    <3>1. Leg(c, n, WrittenOff[c]).code = c /\ Leg(c, n, WrittenOff[c]).occ = n
      BY DEF Leg
    <3> HIDE DEF B
    <3> QED BY <2>2, <2>3, <3>1 DEF Occs
  <2>5. "writeOff" \in Parts /\ WrittenOff["writeOff"] = Deferred
    BY DEF Parts, WrittenOff
  <2> HIDE DEF B
  <2>6. \A c \in Parts : \A l \in B :
           /\ l.code = c => l.amount = WrittenOff[c] /\ WrittenOff[c] > 0
           /\ l.code # RecoveryOf[c]
    BY <2>2, PartFacts
  <2>7. \A c \in Parts : WrittenOff[c] > 0 /\ Deferred > 0 => Occs(B, c) = Occs(B, "writeOff")
    BY <2>4, <2>5
  <2>8. WriteOffsFit(j, B)
    BY <2>6, <2>7 DEF WriteOffsFit
  <2> QED BY <2>8 DEF B
<1> QED BY <1>1, <1>2

LEMMA RecoveryPlanFits ==
    ASSUME IInv, WriteOffsWhole(ledger)
    PROVE  WriteOffsFit(ledger, RecoveryLegs(ledger))
<1> DEFINE B == RecoveryLegs(ledger)
           n == Count(ledger, "recovery")
<1>1. IsJournal(ledger)
  BY DEF IInv, TypeOK
<1>2. n \in Nat /\ Count(ledger, "writeOff") \in Nat
  BY <1>1, PartFacts, CountType DEF Parts, Codes, Entry
<1>3. CASE Count(ledger, "writeOff") <= n
  <2>1. B = {}
    BY <1>3 DEF RecoveryLegs
  <2> QED BY <2>1, OtherLegsFit
<1>4. CASE ~(Count(ledger, "writeOff") <= n)
  <2>1. B = {Leg(RecoveryOf[c], n, ledger[c][Latest(ledger, c)]) : c \in {d \in Parts : DOMAIN ledger[d] # {}}}
    BY <1>4, PartFacts DEF RecoveryLegs
  <2>2. DOMAIN ledger["writeOff"] = 0..n
    BY <1>2, <1>4, PrefixCount DEF IInv, WriteOffRecoveredOnce, Alternates, Count
  <2>3. n \in DOMAIN ledger["writeOff"] /\ Deferred > 0
    <3>1. n \in DOMAIN ledger["writeOff"]
      BY <1>2, <2>2
    <3> QED BY <3>1, PartFacts DEF WriteOffsWhole, Parts
  <2>4. \A c \in Parts : DOMAIN ledger[c] # {} =>
           n \in DOMAIN ledger[c] /\ ledger[c][Latest(ledger, c)] = WrittenOff[c]
    <3> TAKE c \in Parts
    <3> HAVE DOMAIN ledger[c] # {}
    <3>1. Latest(ledger, c) \in DOMAIN ledger[c]
      BY <1>1, PartFacts, LatestProperty
    <3> QED BY <2>3, <3>1 DEF WriteOffsWhole
  <2>5. \A l \in B : \E c \in Parts : /\ l.code = RecoveryOf[c] /\ l.amount = WrittenOff[c]
                                      /\ l.occ = n /\ n \in DOMAIN ledger[c]
    BY <2>1, <2>4 DEF Leg
  <2> HIDE DEF B
  <2>6. \A c \in Parts : Occs(B, c) = {}
    BY <2>5, PartFacts DEF Occs
  <2>7. "writeOff" \in Parts
    BY DEF Parts
  <2>8. \A c \in Parts : \A l \in B :
           /\ l.code # c
           /\ l.code = RecoveryOf[c] => l.amount = WrittenOff[c] /\ l.occ \in DOMAIN ledger[c]
    BY <2>5, PartFacts
  <2>9. WriteOffsFit(ledger, B)
    BY <2>6, <2>7, <2>8 DEF WriteOffsFit
  <2> QED BY <2>9 DEF B
<1> QED BY <1>3, <1>4

\* Posting a batch that fits keeps write-offs whole, and the others fitting.
LEMMA WriteOffsPosted ==
    ASSUME NEW j, IsJournal(j), NEW B, WriteOffsWhole(j), WriteOffsFit(j, B)
    PROVE  /\ WriteOffsWhole(Post(j, B))
           /\ \A L : WriteOffsFit(j, L) => WriteOffsFit(Post(j, B), L)
<1> DEFINE k == Post(j, B)
<1>1. \A c \in Codes : /\ DOMAIN k[c] = DOMAIN j[c] \cup Occs(B, c)
                       /\ \A o \in DOMAIN j[c] : k[c][o] = j[c][o]
                       /\ \A o \in DOMAIN k[c] \ DOMAIN j[c] :
                            \E l \in B : l.code = c /\ l.occ = o /\ k[c][o] = l.amount
  <2> TAKE c \in Codes
  <2> QED BY PostDomain DEF Occs
<1> HIDE DEF k
<1>2. ASSUME NEW c \in Parts
      PROVE  /\ DOMAIN k[RecoveryOf[c]] \subseteq DOMAIN k[c]
             /\ \A o \in DOMAIN k[c] : k[c][o] = WrittenOff[c] /\ WrittenOff[c] > 0
             /\ \A o \in DOMAIN k[RecoveryOf[c]] : k[RecoveryOf[c]][o] = WrittenOff[c]
             /\ WrittenOff[c] > 0 /\ Deferred > 0 => DOMAIN k[c] = DOMAIN k["writeOff"]
             /\ DOMAIN j[c] \subseteq DOMAIN k[c]
  <2>1. c \in Codes /\ RecoveryOf[c] \in Codes /\ "writeOff" \in Codes
    BY PartFacts DEF Parts
  <2>2. \A o \in Occs(B, RecoveryOf[c]) : o \in DOMAIN j[c]
    BY DEF Occs, WriteOffsFit
  <2>3. DOMAIN k[RecoveryOf[c]] \subseteq DOMAIN k[c]
    BY <1>1, <2>1, <2>2 DEF WriteOffsWhole
  <2>4. \A o \in DOMAIN k[c] : k[c][o] = WrittenOff[c] /\ WrittenOff[c] > 0
    BY <1>1, <2>1 DEF WriteOffsWhole, WriteOffsFit
  <2>5. \A o \in DOMAIN k[RecoveryOf[c]] : k[RecoveryOf[c]][o] = WrittenOff[c]
    BY <1>1, <2>1 DEF WriteOffsWhole, WriteOffsFit
  <2>6. WrittenOff[c] > 0 /\ Deferred > 0 => DOMAIN k[c] = DOMAIN k["writeOff"]
    BY <1>1, <2>1 DEF WriteOffsWhole, WriteOffsFit
  <2> QED BY <1>1, <2>1, <2>3, <2>4, <2>5, <2>6
<1>3. WriteOffsWhole(k)
  BY <1>2 DEF WriteOffsWhole
<1>4. \A L : WriteOffsFit(j, L) => WriteOffsFit(k, L)
  BY <1>2 DEF WriteOffsFit
<1> QED BY <1>3, <1>4 DEF k

LEMMA WriteOffsStep ==
    ASSUME IInv, [Next]_vars, WriteOffsAgree
    PROVE  WriteOffsAgree'
<1>1. CASE ledger' = ledger /\ Batches' \subseteq Batches \cup Planned
  <2>1. \A B \in Planned : WriteOffsFit(ledger, B)
    <3>1. ASSUME NEW inv \in Invoice, NEW occ
          PROVE  WriteOffsFit(ledger, TdsLegs(occ, inv.tds)) /\ WriteOffsFit(ledger, CashLegs(occ, inv.tds, inv.amountPaid))
      <4>1. \A l \in TdsLegs(occ, inv.tds) : l.code = "tds"
        BY DEF TdsLegs, Moving, Leg
      <4>2. \A l \in CashLegs(occ, inv.tds, inv.amountPaid) : l.code = "payment"
        BY DEF CashLegs, Moving, Leg
      <4>3. WriteOffsFit(ledger, TdsLegs(occ, inv.tds))
        BY <4>1, OtherLegsFit
      <4> QED BY <4>2, <4>3, OtherLegsFit
    <3>2. WriteOffsFit(ledger, ReversalLegs(ledger))
      <4>1. \A l \in ReversalLegs(ledger) : l.code = "reversal"
        BY DEF ReversalLegs, Leg
      <4> QED BY <4>1, OtherLegsFit
    <3>3. WriteOffsFit(ledger, WriteOffLegs(ledger)) /\ WriteOffsFit(ledger, RecoveryLegs(ledger))
      BY WriteOffPlanFits, RecoveryPlanFits DEF WriteOffsAgree
    <3> QED BY <3>1, <3>2, <3>3 DEF Planned
  <2> QED BY <1>1, <2>1 DEF WriteOffsAgree
<1>2. ASSUME NEW B \in Batches, ledger' = Post(ledger, B), Batches' \subseteq Batches
      PROVE  WriteOffsAgree'
  <2>1. IsJournal(ledger) /\ WriteOffsWhole(ledger) /\ WriteOffsFit(ledger, B)
    BY DEF IInv, TypeOK, WriteOffsAgree
  <2>2. /\ WriteOffsWhole(ledger')
        /\ \A L : WriteOffsFit(ledger, L) => WriteOffsFit(ledger', L)
    BY <1>2, <2>1, WriteOffsPosted
  <2> QED BY <1>2, <2>2 DEF WriteOffsAgree
<1> QED BY <1>1, <1>2, BatchStep

LEMMA WriteOffsInit == Init => WriteOffsAgree
<1> SUFFICES ASSUME Init PROVE WriteOffsAgree
  OBVIOUS
<1>1. Batches = {}
  BY DEF Batches, Held, Init, Idle, Handler
<1>2. \A c \in Parts : ledger[c] = NoLegs /\ ledger[RecoveryOf[c]] = NoLegs
  BY DEF Init, IssuedJournal, Codes, Entry, Parts, RecoveryOf
<1>3. DOMAIN NoLegs = {}
  BY DEF NoLegs
<1>4. "writeOff" \in Parts
  BY DEF Parts
<1> QED BY <1>1, <1>2, <1>3, <1>4 DEF WriteOffsAgree, WriteOffsWhole

\* So each part's recoveries add up to no more than its write-offs.
LEMMA RecoveredIsLess ==
    ASSUME NEW j, IsJournal(j), WriteOffsWhole(j), NEW c \in Parts
    PROVE  Posted(j, RecoveryOf[c]) <= Posted(j, c)
<1> DEFINE r == RecoveryOf[c]
           W == DOMAIN j[c]
           V == DOMAIN j[r]
<1>1. c \in Codes /\ r \in Codes
  BY PartFacts
<1>2. IsFiniteSet(W) /\ IsFiniteSet(V) /\ V \in SUBSET W
  BY <1>1 DEF IsJournal, WriteOffsWhole
<1>3. \A o \in V : j[r][o] = j[c][o]
  BY DEF WriteOffsWhole
<1>4. \A o \in W : j[c][o] \in Nat
  BY <1>1 DEF IsJournal
<1> HIDE DEF r, W, V
<1>5. SumFunctionOnSet(j[r], V) = SumFunctionOnSet(j[c], V)
  BY <1>2, <1>3, SumSame
<1>6. SumFunctionOnSet(j[c], V) <= SumFunctionOnSet(j[c], W)
  BY <1>2, <1>4, SumSubset
<1> QED BY <1>5, <1>6 DEF Posted, SumFunction, r, V, W

\* A row that says paid says that all the customer owed is.
PaidRow(inv) == inv.status = "paid" => inv.amountPaid = Total - Credit
PaidRows ==
    /\ PaidRow(invoice)
    /\ \A t \in Threads : thread[t].pc = "recordTds" => PaidRow(thread[t].seen)

LEMMA PaidRowsStep ==
    ASSUME TypeOK, [Next]_vars, PaidRows
    PROVE  PaidRows'
<1> DEFINE Keeps == PaidRow(invoice') /\ \A t \in Threads :
              thread'[t].pc = "recordTds" => PaidRow(thread'[t].seen)
<1>0. thread \in [Threads -> ThreadTypes] /\ invoice \in Invoice
  BY DEF TypeOK, ThreadTypes
<1>1. ASSUME NEW t \in Threads, NEW pc, NEW seen, NEW todo, Continue(t, pc, seen, todo),
             pc # "recordTds", PaidRow(invoice')
      PROVE  Keeps
  <2>1. thread'[t].pc = pc /\ \A u \in Threads : u # t => thread'[u] = thread[u]
    BY <1>0, <1>1 DEF Continue, ThreadTypes
  <2> QED BY <1>1, <2>1 DEF PaidRows
<1>2. ASSUME NEW t \in Threads, NEW pc, NEW job, NEW seen, Begin(t, pc, job, seen),
             pc # "recordTds" \/ PaidRow(seen), PaidRow(invoice')
      PROVE  Keeps
  <2>1. /\ thread'[t].pc = pc /\ thread'[t].seen = seen
        /\ \A u \in Threads : u # t => thread'[u] = thread[u]
    BY <1>0, <1>2 DEF Begin, Handler
  <2> QED BY <1>2, <2>1 DEF PaidRows
<1>3. ASSUME NEW t \in Threads, Done(t), PaidRow(invoice') PROVE Keeps
  <2>1. /\ thread'[t].pc = "idle" /\ \A u \in Threads : u # t => thread'[u] = thread[u]
    BY <1>0, <1>3 DEF Done, Idle, Handler
  <2> QED BY <1>3, <2>1 DEF PaidRows
<1>4. ASSUME UNCHANGED vars \/ VoidIfOpen \/ \E p \in Payments : Capture(p) \/ BankReturn(p)
      PROVE  Keeps
  BY <1>0, <1>4 DEF vars, VoidIfOpen, Capture, BankReturn, PaidRows, PaidRow, Invoice
<1>5. ASSUME NEW t \in Threads, MarkPaid(t) PROVE Keeps
  <2>1. PaidRow(invoice')
    BY <1>0, <1>5 DEF MarkPaid, PaidRows, PaidRow, Invoice
  <2>2. PICK pc \in {"finish", "recover", "book"} : Goto(t, pc)
    BY <1>5 DEF MarkPaid
  <2> QED BY <1>1, <2>1, <2>2 DEF Goto
<1>6. ASSUME NEW t \in Threads, ReverseToUnpaid(t) PROVE Keeps
  <2>1. PaidRow(invoice')
    BY <1>0, <1>6 DEF ReverseToUnpaid, PaidRows, PaidRow, Invoice
  <2>2. PICK pc \in {"finish", "invert"} : Goto(t, pc)
    BY <1>6 DEF ReverseToUnpaid
  <2> QED BY <1>1, <2>1, <2>2 DEF Goto
<1>7. ASSUME NEW t \in Threads, ReadToSettle(t) \/ ReadToReverse(t) \/ LookUpCash(t)
      PROVE  Keeps
  <2>1. PICK pc \in {"finish", "claim", "lookup", "reopen"} : \E seen : Continue(t, pc, seen, <<>>)
    BY <1>7 DEF ReadToSettle, ReadToReverse, LookUpCash
  <2>2. PaidRow(invoice')
    BY <1>7 DEF ReadToSettle, ReadToReverse, LookUpCash, PaidRows
  <2> QED BY <1>1, <2>1, <2>2
<1>8. ASSUME NEW t \in Threads, PlanRecovery(t) \/ PlanPayment(t) \/ PlanReversal(t) \/ PlanWriteOff(t)
                                  \/ PostNext(t) \/ LedgerFails(t)
      PROVE  Keeps
  <2>1. PICK pc, todo : Continue(t, pc, thread[t].seen, todo) /\ pc # "recordTds"
    BY <1>8 DEF PlanRecovery, PlanPayment, PlanReversal, PlanWriteOff, PostNext, LedgerFails,
                Plan, Goto, AfterLedger
  <2>2. PaidRow(invoice')
    BY <1>8 DEF PlanRecovery, PlanPayment, PlanReversal, PlanWriteOff, PostNext, LedgerFails, PaidRows
  <2> QED BY <1>1, <2>1, <2>2
<1>9. ASSUME NEW t \in Threads, RecordTds(t) PROVE Keeps
  <2>1. PaidRow(invoice')
    BY <1>9 DEF RecordTds, PaidRows
  <2>2. Goto(t, "settle") \/ Done(t)
    BY <1>9 DEF RecordTds
  <2> QED BY <1>1, <1>3, <2>1, <2>2 DEF Goto
<1>10. ASSUME NEW t \in Threads, Finish(t) \/ Crash(t) PROVE Keeps
  BY <1>3, <1>10 DEF Finish, Crash, PaidRows
<1>11. ASSUME NEW t \in Threads, MarkUncollectible(t) PROVE Keeps
  <2>1. PaidRow(invoice')
    BY <1>0, <1>11 DEF MarkUncollectible, PaidRow, Invoice
  <2>2. Begin(t, "writeOff", [kind |-> "writeOff"], Issued)
    BY <1>11 DEF MarkUncollectible
  <2> QED BY <1>2, <2>1, <2>2
<1>12. ASSUME NEW t \in Threads, (\E e \in Events : Deliver(t, e)) \/ \E p \in Payments : Poll(t, p)
       PROVE  Keeps
  <2>1. PICK pc \in {"settle", "reverse"} : \E job : Begin(t, pc, job, Issued)
    BY <1>12 DEF Deliver, PaymentSucceeded, ACHReturned, Poll
  <2>2. PaidRow(invoice')
    BY <1>12 DEF Deliver, Poll, PaidRows
  <2> QED BY <1>2, <2>1, <2>2
<1>13. ASSUME NEW t \in Threads, NEW r \in Receipts, RecordOffline(t, r) PROVE Keeps
  <2> DEFINE seen == [invoice EXCEPT !.tds = @ + r.tds]
  <2>1. seen.status = invoice.status /\ seen.amountPaid = invoice.amountPaid
    BY <1>0 DEF Invoice
  <2>2. PaidRow(seen) /\ PaidRow(invoice')
    BY <1>13, <2>1 DEF RecordOffline, PaidRows, PaidRow
  <2>3. Begin(t, "recordTds", [kind |-> "offline", receipt |-> r], seen)
    BY <1>13 DEF RecordOffline
  <2> HIDE DEF seen
  <2> QED BY <1>2, <2>2, <2>3
<1>14. Keeps
  <2> HIDE DEF Keeps
  <2> QED BY <1>4, <1>5, <1>6, <1>7, <1>8, <1>9, <1>10, <1>11, <1>12, <1>13 DEF Next, Step
<1> QED BY <1>14 DEF PaidRows

LEMMA PaidRowsInit == Init => PaidRows
BY DEF Init, PaidRows, PaidRow, Issued, Idle, Handler

LEMMA DriftInvariant == Spec => [](IInv /\ WriteOffsAgree /\ PaidRows)
<1>1. Init => IInv /\ WriteOffsAgree /\ PaidRows
  BY InitInv, WriteOffsInit, PaidRowsInit
<1>2. (IInv /\ WriteOffsAgree /\ PaidRows) /\ [Next]_vars => (IInv /\ WriteOffsAgree /\ PaidRows)'
  BY NextInv, WriteOffsStep, PaidRowsStep DEF IInv
<1> QED BY <1>1, <1>2, PTL DEF Spec

\* PaidDriftIsReported: whichever posting of a paid invoice is lost, whoever dies in the
\* middle and however handlers interleave, ReconciliationService.Run reports the invoice
\* when its receivable is not clear, or the customer's other invoices outweigh the credit
\* balance it leaves; a receivable left on the debit side is always reported.
THEOREM DriftIsReported == Spec => []PaidDriftIsReported
<1>1. ASSUME IInv, WriteOffsAgree, PaidRows PROVE PaidDriftIsReported
  <2> SUFFICES ASSUME invoice.status = "paid", Balance(ledger, "AR") # 0,
                      NEW others \in Others, ~Reported(others)
               PROVE  Balance(ledger, "AR") \in (-others.receivable)..(-1)
    BY DEF PaidDriftIsReported
  <2> DEFINE P(c) == Posted(ledger, c)
  <2>1. IsJournal(ledger) /\ WriteOffsWhole(ledger) /\ invoice.amountPaid = Total - Credit
    BY <1>1 DEF IInv, TypeOK, WriteOffsAgree, PaidRows, PaidRow
  <2>2. /\ P("recovery") <= P("writeOff") /\ P("recoveryTax") <= P("writeOffTax")
        /\ P("badDebtRecovery") <= P("badDebt")
    <3>1. /\ Posted(ledger, RecoveryOf["writeOff"]) <= P("writeOff")
          /\ Posted(ledger, RecoveryOf["writeOffTax"]) <= P("writeOffTax")
          /\ Posted(ledger, RecoveryOf["badDebt"]) <= P("badDebt")
      BY <2>1, RecoveredIsLess DEF Parts
    <3> QED BY <3>1 DEF RecoveryOf
  <2>3. /\ P("invoice") = Total /\ P("credit") = Credit
        /\ P("payment") + P("tds") + P("drain") - P("reversal") = Total - Credit
        /\ ~(Balance(ledger, "AR") + others.receivable < 0)
    BY <2>1 DEF Reported, InvoiceMismatch, CreditMismatch, PaymentMismatch, AbnormalSign
  <2>4. Balance(ledger, "AR") =
          (P("invoice") + P("reversal") + P("recovery") + P("recoveryTax") + P("badDebtRecovery"))
        - (P("payment") + P("credit") + P("tds") + P("drain")
             + (P("writeOff") + P("writeOffTax") + P("badDebt")))
    BY <2>1, BalanceSums
  <2>5. /\ P("invoice") \in Int /\ P("reversal") \in Int /\ P("recovery") \in Int
        /\ P("recoveryTax") \in Int /\ P("badDebtRecovery") \in Int /\ P("payment") \in Int
        /\ P("credit") \in Int /\ P("tds") \in Int /\ P("drain") \in Int
        /\ P("writeOff") \in Int /\ P("writeOffTax") \in Int /\ P("badDebt") \in Int
    BY <2>1, PostedNat DEF Codes, Entry
  <2>6. others.receivable \in Nat
    BY AmountsAssumption DEF Others
  <2> HIDE DEF P
  <2>7. Balance(ledger, "AR") \in Int /\ Balance(ledger, "AR") <= 0
    BY <2>2, <2>3, <2>4, <2>5
  <2> QED BY <2>3, <2>6, <2>7
<1> QED BY <1>1, DriftInvariant, PTL

----------------------------------------------------------------------------
(* Prompt deliveries: by the time money moves again, every event of the    *)
(* movement before has been handled.                                       *)

\* Events are handled before the next movement, a page does not outlive a return, and the
\* desk records no receipts.
Prompt == Pace = "prompt" /\ "stalePoll" \notin Stimuli /\ Receipts = {}

Captured == {p \in Payments : payments[p] = "captured"}
Returned == {p \in Payments : payments[p] = "returned"}
Kind(t) == thread[t].job.kind
Forward == {"succeeded", "poll"}

\* What becomes of a handler's record.
LEMMA Continued ==
    ASSUME TypeOK, NEW t \in Threads, NEW pc, NEW seen, NEW todo, Continue(t, pc, seen, todo)
    PROVE  /\ thread'[t].pc = pc /\ thread'[t].job = thread[t].job
           /\ thread'[t].seen = seen /\ thread'[t].todo = todo
           /\ \A u \in Threads : u # t => thread'[u] = thread[u]
BY DEF TypeOK, Continue

LEMMA Began ==
    ASSUME TypeOK, NEW t \in Threads, NEW pc, NEW job, NEW seen, Begin(t, pc, job, seen)
    PROVE  /\ thread[t].pc = "idle"
           /\ thread'[t].pc = pc /\ thread'[t].job = job
           /\ thread'[t].seen = seen /\ thread'[t].todo = <<>>
           /\ \A u \in Threads : u # t => thread'[u] = thread[u]
BY DEF TypeOK, Begin, Handler

LEMMA Ended ==
    ASSUME TypeOK, NEW t \in Threads, Done(t)
    PROVE  /\ thread'[t].pc = "idle" /\ thread'[t].job = [kind |-> "none"]
           /\ thread'[t].seen = Issued /\ thread'[t].todo = <<>>
           /\ \A u \in Threads : u # t => thread'[u] = thread[u]
BY DEF TypeOK, Done, Idle, Handler

\* Which handlers are where.
Role(r) ==
    /\ r.pc = "idle" <=> r.job.kind = "none"
    /\ r.job.kind \in Forward =>
           r.pc \in {"settle", "claim", "recover", "recovering", "book", "booking", "finish"}
    /\ r.job.kind = "returned" =>
           r.pc \in {"reverse", "lookup", "reopen", "invert", "booking", "finish"}
    /\ r.job.kind = "writeOff" => r.pc \in {"writeOff", "booking", "finish"}
    /\ r.job.kind # "offline"
    /\ r.job.kind # "returned" => \A l \in Waiting(r.todo) : l.code # "reversal"
    /\ r.job.kind = "returned" /\ r.pc = "booking" => Tail(r.todo) = <<>>
Roles == \A t \in Threads : Role(thread[t])

LEMMA KindsOf ==
    ASSUME TypeOK, NEW t \in Threads
    PROVE  /\ Kind(t) \in {"none", "succeeded", "returned", "poll", "writeOff", "offline"}
           /\ Kind(t) \in {"succeeded", "returned"} <=> thread[t].job \in Events
           /\ Kind(t) \in {"succeeded", "returned", "poll"} => thread[t].job.payment \in Payments
BY DEF TypeOK, Kind, Events, Requests

LEMMA PlannedCodes ==
    /\ \A occ, tds : \A l \in TdsLegs(occ, tds) : l.code = "tds"
    /\ \A occ, tds, paid : \A l \in CashLegs(occ, tds, paid) : l.code = "payment"
    /\ \A l \in WriteOffLegs(ledger) : l.code # "reversal"
    /\ \A l \in RecoveryLegs(ledger) : l.code # "reversal"
<1>1. \A occ, tds : \A l \in TdsLegs(occ, tds) : l.code = "tds"
  BY DEF TdsLegs, Moving, Leg
<1>2. \A occ, tds, paid : \A l \in CashLegs(occ, tds, paid) : l.code = "payment"
  BY DEF CashLegs, Moving, Leg
<1>3. \A l \in WriteOffLegs(ledger) : l.code # "reversal"
  BY DEF WriteOffLegs, Moving, Leg
<1>4. \A l \in RecoveryLegs(ledger) : l.code # "reversal"
  <2> TAKE l \in RecoveryLegs(ledger)
  <2>1. \E c \in DOMAIN RecoveryOf : l.code = RecoveryOf[c]
    BY DEF RecoveryLegs, Leg
  <2> QED BY <2>1 DEF RecoveryOf
<1> QED BY <1>1, <1>2, <1>3, <1>4

LEMMA RolesStep ==
    ASSUME Prompt, IInv, [Next]_vars, Roles
    PROVE  Roles'
<1>0. TypeOK
  BY DEF IInv
<1>1. ASSUME NEW t \in Threads, NEW pc, NEW seen, NEW todo, Continue(t, pc, seen, todo),
             Kind(t) \in Forward =>
                 pc \in {"settle", "claim", "recover", "recovering", "book", "booking", "finish"},
             Kind(t) = "returned" => pc \in {"reverse", "lookup", "reopen", "invert", "booking", "finish"},
             Kind(t) = "writeOff" => pc \in {"writeOff", "booking", "finish"},
             thread[t].pc # "idle", pc # "idle",
             Kind(t) # "returned" => \A l \in Waiting(todo) : l.code # "reversal",
             Kind(t) = "returned" /\ pc = "booking" => Tail(todo) = <<>>
      PROVE  Roles'
  <2>1. /\ thread'[t].pc = pc /\ thread'[t].job = thread[t].job /\ thread'[t].todo = todo
        /\ \A u \in Threads : u # t => thread'[u] = thread[u]
    BY <1>0, <1>1, Continued
  <2>2. Role(thread[t])
    BY DEF Roles
  <2>3. Role(thread'[t])
    BY <1>1, <2>1, <2>2 DEF Role, Kind
  <2> QED BY <2>1, <2>3 DEF Roles
<1>2. ASSUME NEW t \in Threads, Done(t) PROVE Roles'
  <2>1. /\ thread'[t].pc = "idle" /\ thread'[t].job.kind = "none" /\ thread'[t].todo = <<>>
        /\ \A u \in Threads : u # t => thread'[u] = thread[u]
    BY <1>0, <1>2, Ended
  <2>2. Role(thread'[t])
    BY <2>1, WaitingFacts DEF Role, Forward
  <2> QED BY <2>1, <2>2 DEF Roles
<1>3. ASSUME NEW t \in Threads, NEW pc, NEW job, NEW seen, Begin(t, pc, job, seen),
             \/ job.kind \in Forward /\ pc = "settle"
             \/ job.kind = "returned" /\ pc = "reverse"
             \/ job.kind = "writeOff" /\ pc = "writeOff"
      PROVE  Roles'
  <2>1. /\ thread'[t].pc = pc /\ thread'[t].job = job /\ thread'[t].todo = <<>>
        /\ \A u \in Threads : u # t => thread'[u] = thread[u]
    BY <1>0, <1>3, Began
  <2>2. Role(thread'[t])
    BY <1>3, <2>1, WaitingFacts DEF Role, Forward
  <2> QED BY <2>1, <2>2 DEF Roles
<1>4. ASSUME UNCHANGED vars \/ VoidIfOpen \/ \E p \in Payments : Capture(p) \/ BankReturn(p)
      PROVE  Roles'
  BY <1>4 DEF vars, VoidIfOpen, Capture, BankReturn, Roles, Role, Waiting
<1>5. ASSUME NEW t \in Threads,
             \/ ReadToSettle(t) \/ MarkPaid(t) \/ ReadToReverse(t) \/ LookUpCash(t) \/ ReverseToUnpaid(t)
             \/ LedgerFails(t)
      PROVE  Roles'
  <2>1. Role(thread[t]) /\ Kind(t) \in {"none", "succeeded", "returned", "poll", "writeOff", "offline"}
    BY <1>0, KindsOf DEF Roles
  <2>2. \E pc, seen : /\ Continue(t, pc, seen, <<>>) /\ thread[t].pc # "idle" /\ pc # "idle" /\ pc # "booking"
                      /\ Kind(t) \in Forward => pc \in {"settle", "claim", "recover", "book", "finish"}
                      /\ Kind(t) = "returned" => pc \in {"lookup", "reopen", "invert", "finish"}
                      /\ Kind(t) = "writeOff" => pc = "finish"
    BY <1>5, <2>1 DEF ReadToSettle, MarkPaid, ReadToReverse, LookUpCash, ReverseToUnpaid, LedgerFails, Goto,
                Role, Kind, Forward, AfterLedger
  <2> QED BY <1>1, <2>2, WaitingFacts
<1>6. ASSUME NEW t \in Threads, PlanRecovery(t) PROVE Roles'
  <2>1. Continue(t, "recovering", thread[t].seen, <<RecoveryLegs(ledger)>>) /\ thread[t].pc = "recover"
    BY <1>6 DEF PlanRecovery, Plan
  <2>2. \A l \in Waiting(<<RecoveryLegs(ledger)>>) : l.code # "reversal"
    BY PlannedCodes, WaitingFacts
  <2>3. Kind(t) \in Forward
    BY <1>0, <2>1, KindsOf DEF Roles, Role, Kind, Forward
  <2> QED BY <1>1, <2>1, <2>2, <2>3 DEF Forward
<1>7. ASSUME NEW t \in Threads, PlanPayment(t) PROVE Roles'
  <2> DEFINE inv == thread[t].seen
             occ == PaymentOccurrence(ledger)
             todo == <<TdsLegs(occ, inv.tds), CashLegs(occ, inv.tds, inv.amountPaid)>>
  <2>1. Continue(t, "booking", thread[t].seen, todo) /\ thread[t].pc = "book"
    BY <1>7 DEF PlanPayment, Plan
  <2>2. \A l \in Waiting(todo) : l.code # "reversal"
    <3>1. Waiting(todo) = TdsLegs(occ, inv.tds) \cup CashLegs(occ, inv.tds, inv.amountPaid)
      BY WaitingFacts
    <3> QED BY <3>1, PlannedCodes
  <2>3. Kind(t) \in Forward
    BY <1>0, <2>1, KindsOf DEF Roles, Role, Kind, Forward
  <2> HIDE DEF todo
  <2> QED BY <1>1, <2>1, <2>2, <2>3 DEF Forward
<1>8. ASSUME NEW t \in Threads, PlanReversal(t) PROVE Roles'
  <2>1. Continue(t, "booking", thread[t].seen, <<ReversalLegs(ledger)>>) /\ thread[t].pc = "invert"
    BY <1>8 DEF PlanReversal, Plan
  <2>2. Tail(<<ReversalLegs(ledger)>>) = <<>>
    OBVIOUS
  <2>3. Kind(t) = "returned"
    BY <1>0, <2>1, KindsOf DEF Roles, Role, Kind, Forward
  <2> QED BY <1>1, <2>1, <2>2, <2>3 DEF Forward
<1>9. ASSUME NEW t \in Threads, PlanWriteOff(t) PROVE Roles'
  <2>1. Continue(t, "booking", thread[t].seen, <<WriteOffLegs(ledger)>>) /\ thread[t].pc = "writeOff"
    BY <1>9 DEF PlanWriteOff, Plan
  <2>2. \A l \in Waiting(<<WriteOffLegs(ledger)>>) : l.code # "reversal"
    BY PlannedCodes, WaitingFacts
  <2>3. Kind(t) = "writeOff"
    BY <1>0, <2>1, KindsOf DEF Roles, Role, Kind, Forward
  <2> QED BY <1>1, <2>1, <2>2, <2>3 DEF Forward
<1>10. ASSUME NEW t \in Threads, PostNext(t) PROVE Roles'
  <2> DEFINE todo == thread[t].todo
             pc == IF Tail(todo) = <<>> THEN AfterLedger(thread[t].pc) ELSE thread[t].pc
  <2>1. Continue(t, pc, thread[t].seen, Tail(todo)) /\ thread[t].pc \in {"recovering", "booking"}
    BY <1>10 DEF PostNext, Plan
  <2>2. Role(thread[t])
    BY DEF Roles
  <2>3. Waiting(Tail(todo)) \subseteq Waiting(todo)
    BY <1>0, <2>1, WaitingFacts DEF IInv, PostingReady, TypeOK
  <2>4. Kind(t) # "returned" => \A l \in Waiting(Tail(todo)) : l.code # "reversal"
    BY <2>2, <2>3 DEF Role, Kind
  <2>5. pc \in {"recovering", "booking", "book", "finish"}
        /\ (thread[t].pc = "booking" => pc \in {"booking", "finish"})
        /\ (Tail(todo) = <<>> => pc # "booking" /\ pc # "recovering")
    BY <2>1 DEF AfterLedger
  <2>6. /\ Kind(t) = "returned" => pc = "finish"
        /\ Kind(t) = "writeOff" => pc \in {"booking", "finish"}
    BY <2>1, <2>2, <2>5 DEF Role, Kind, AfterLedger
  <2> HIDE DEF pc
  <2> QED BY <1>1, <2>1, <2>4, <2>5, <2>6
<1>11. ASSUME NEW t \in Threads, RecordTds(t) PROVE FALSE
  <2>1. Kind(t) = "offline"
    BY <1>0, <1>11, KindsOf DEF RecordTds, Roles, Role, Kind, Forward
  <2> QED BY <2>1 DEF Roles, Role, Kind
<1>12. ASSUME NEW t \in Threads, Finish(t) \/ Crash(t) PROVE Roles'
  BY <1>2, <1>12 DEF Finish, Crash
<1>13. ASSUME NEW t \in Threads, MarkUncollectible(t) PROVE Roles'
  <2> DEFINE job == [kind |-> "writeOff"]
  <2>1. Begin(t, "writeOff", job, Issued) /\ job.kind = "writeOff"
    BY <1>13 DEF MarkUncollectible
  <2> HIDE DEF job
  <2> QED BY <1>3, <2>1
<1>14. ASSUME NEW t \in Threads, NEW e \in Events, Deliver(t, e) PROVE Roles'
  BY <1>3, <1>14 DEF Deliver, PaymentSucceeded, ACHReturned, Forward
<1>15. ASSUME NEW t \in Threads, NEW p \in Payments, Poll(t, p) PROVE Roles'
  <2> DEFINE job == [kind |-> "poll", payment |-> p]
  <2>1. Begin(t, "settle", job, Issued) /\ job.kind \in Forward
    BY <1>15 DEF Poll, Forward
  <2> HIDE DEF job
  <2> QED BY <1>3, <2>1
<1> QED
  BY <1>4, <1>5, <1>6, <1>7, <1>8, <1>9, <1>10, <1>11, <1>12, <1>13, <1>14, <1>15 DEF Next, Step, Prompt

\* Events are of payments that moved; a handler's event has been raised.
Known ==
    /\ handled \subseteq Raised
    /\ \A t \in Threads : thread[t].job \in Events => thread[t].job \in Raised
OneCaptured == \A p, q \in Captured : p = q
\* While a payment is captured nobody reverses, and every return is handled; while none
\* is, nobody settles, and every success is handled.
Turns ==
    IF Captured # {}
    THEN /\ \A t \in Threads : Kind(t) # "returned"
         /\ \A e \in Raised : e.kind = "returned" => e \in handled
    ELSE /\ \A t \in Threads : Kind(t) \notin Forward
         /\ \A e \in Raised : e.kind = "succeeded" => e \in handled
\* A captured payment whose success was taken up has settled the invoice, which stays so.
Taken ==
    /\ \A t \in Threads : /\ Kind(t) = "succeeded"
                          /\ thread[t].pc \in {"recover", "recovering", "book", "booking", "finish"}
                          => invoice.status \in {"paid", "void"}
    /\ \A e \in handled : e.kind = "succeeded" /\ e.payment \in Captured =>
           invoice.status \in {"paid", "void"}

\* A step of a handler keeps its job, ends it or begins one; or money moves.
LEMMA JobStep ==
    ASSUME Prompt, IInv, Roles, [Next]_vars
    PROVE  \/ /\ payments' = payments /\ handled' = handled
              /\ \A t \in Threads : thread'[t].job = thread[t].job
           \/ /\ payments' = payments
              /\ \E t \in Threads :
                    /\ thread'[t].job.kind = "none" /\ \A u \in Threads : u # t => thread'[u] = thread[u]
                    /\ handled' = handled \/ (thread[t].pc = "finish" /\ handled' = handled \cup ({thread[t].job} \cap Events))
           \/ /\ payments' = payments /\ handled' = handled
              /\ \E t \in Threads :
                    /\ \A u \in Threads : u # t => thread'[u] = thread[u]
                    /\ \/ thread'[t].job \in Raised \ handled
                       \/ thread'[t].job.kind = "writeOff"
                       \/ thread'[t].job.kind = "poll" /\ Captured # {}
           \/ \E p \in Payments : Capture(p) \/ BankReturn(p)
<1> DEFINE Goal == \/ /\ payments' = payments /\ handled' = handled
                      /\ \A t \in Threads : thread'[t].job = thread[t].job
                   \/ /\ payments' = payments
                      /\ \E t \in Threads :
                            /\ thread'[t].job.kind = "none" /\ \A u \in Threads : u # t => thread'[u] = thread[u]
                            /\ handled' = handled \/ (thread[t].pc = "finish" /\ handled' = handled \cup ({thread[t].job} \cap Events))
                   \/ /\ payments' = payments /\ handled' = handled
                      /\ \E t \in Threads :
                            /\ \A u \in Threads : u # t => thread'[u] = thread[u]
                            /\ \/ thread'[t].job \in Raised \ handled
                               \/ thread'[t].job.kind = "writeOff"
                               \/ thread'[t].job.kind = "poll" /\ Captured # {}
                   \/ \E p \in Payments : Capture(p) \/ BankReturn(p)
<1>0. TypeOK
  BY DEF IInv
<1>1. ASSUME UNCHANGED vars \/ VoidIfOpen PROVE Goal
  BY <1>1 DEF vars, VoidIfOpen
<1>2. ASSUME NEW t \in Threads,
             \/ ReadToSettle(t) \/ MarkPaid(t) \/ ReadToReverse(t) \/ LookUpCash(t) \/ ReverseToUnpaid(t)
             \/ LedgerFails(t) \/ PlanRecovery(t) \/ PlanPayment(t) \/ PlanReversal(t) \/ PlanWriteOff(t)
             \/ PostNext(t)
      PROVE  Goal
  <2>1. \E pc, seen, todo : Continue(t, pc, seen, todo)
    BY <1>2 DEF ReadToSettle, MarkPaid, ReadToReverse, LookUpCash, ReverseToUnpaid, LedgerFails,
          PlanRecovery, PlanPayment, PlanReversal, PlanWriteOff, PostNext, Goto, Plan
  <2>2. \A u \in Threads : thread'[u].job = thread[u].job
    BY <1>0, <2>1, Continued
  <2>3. payments' = payments /\ handled' = handled
    BY <1>2 DEF ReadToSettle, MarkPaid, ReadToReverse, LookUpCash, ReverseToUnpaid, LedgerFails,
          PlanRecovery, PlanPayment, PlanReversal, PlanWriteOff, PostNext
  <2> QED BY <2>2, <2>3
<1>3. ASSUME NEW t \in Threads, Finish(t) \/ Crash(t) PROVE Goal
  <2>1. thread'[t].job.kind = "none" /\ \A u \in Threads : u # t => thread'[u] = thread[u]
    BY <1>0, <1>3, Ended DEF Finish, Crash
  <2>2. payments' = payments /\ (handled' = handled \/ (thread[t].pc = "finish" /\ handled' = handled \cup ({thread[t].job} \cap Events)))
    BY <1>3 DEF Finish, Crash
  <2> QED BY <2>1, <2>2
<1>4. ASSUME NEW t \in Threads, MarkUncollectible(t) PROVE Goal
  <2>1. thread'[t].job.kind = "writeOff" /\ \A u \in Threads : u # t => thread'[u] = thread[u]
    BY <1>0, <1>4, Began DEF MarkUncollectible
  <2> QED BY <1>4, <2>1 DEF MarkUncollectible
<1>5. ASSUME NEW t \in Threads, NEW e \in Events, Deliver(t, e) PROVE Goal
  <2>1. PICK pc : Begin(t, pc, e, Issued)
    BY <1>5 DEF Deliver, PaymentSucceeded, ACHReturned
  <2>2. thread'[t].job = e /\ \A u \in Threads : u # t => thread'[u] = thread[u]
    BY <1>0, <2>1, Began
  <2> QED BY <1>5, <2>2 DEF Deliver
<1>6. ASSUME NEW t \in Threads, NEW p \in Payments, Poll(t, p) PROVE Goal
  <2>1. thread'[t].job.kind = "poll" /\ \A u \in Threads : u # t => thread'[u] = thread[u]
    BY <1>0, <1>6, Began DEF Poll
  <2>2. p \in Captured
    BY <1>6 DEF Poll, Captured, Prompt
  <2> QED BY <1>6, <2>1, <2>2 DEF Poll
<1>7. ASSUME NEW t \in Threads, RecordTds(t) PROVE FALSE
  <2>1. Kind(t) = "offline"
    BY <1>0, <1>7, KindsOf DEF RecordTds, Roles, Role, Kind, Forward
  <2> QED BY <2>1 DEF Roles, Role, Kind
<1>8. ASSUME NEW p \in Payments, Capture(p) \/ BankReturn(p) PROVE Goal
  BY <1>8
<1> HIDE DEF Goal
<1>9. ASSUME NEW t \in Threads, Step(t) \/ LedgerFails(t) \/ Crash(t) PROVE Goal
  BY <1>2, <1>3, <1>7, <1>9 DEF Step
<1>10. ASSUME NEW t \in Threads,
              \/ Step(t) \/ LedgerFails(t) \/ Crash(t) \/ MarkUncollectible(t)
              \/ \E e \in Events : Deliver(t, e)
              \/ \E p \in Payments : Poll(t, p)
              \/ \E r \in Receipts : RecordOffline(t, r)
       PROVE  Goal
  <2>1. ~\E r \in Receipts : RecordOffline(t, r)
    BY DEF Prompt
  <2> QED BY ONLY <1>4, <1>5, <1>6, <1>9, <1>10, <2>1
<1>11. Goal
  <2>1. CASE UNCHANGED vars
    BY <1>1, <2>1
  <2>2. CASE Next
    <3>1. CASE VoidIfOpen
      BY <1>1, <3>1
    <3>2. CASE \E p \in Payments : Capture(p) \/ BankReturn(p)
      BY <1>8, <3>2
    <3>3. CASE ~VoidIfOpen /\ ~\E p \in Payments : Capture(p) \/ BankReturn(p)
      BY <1>10, <2>2, <3>3 DEF Next
    <3> QED BY <3>1, <3>2, <3>3
  <2> QED BY <2>1, <2>2
<1> QED BY <1>11 DEF Goal

\* Money moves when nobody is at work and everything raised is handled.
LEMMA MoneyMoves ==
    ASSUME Prompt, TypeOK, Roles, NEW p \in Payments, Capture(p) \/ BankReturn(p)
    PROVE  /\ \A t \in Threads : thread[t].pc = "idle" /\ Kind(t) = "none"
           /\ Raised \subseteq handled
           /\ thread' = thread /\ handled' = handled /\ ledger' = ledger /\ invoice' = invoice
           /\ \/ payments' = [payments EXCEPT ![p] = "captured"] /\ payments[p] = "pending"
              \/ payments' = [payments EXCEPT ![p] = "returned"] /\ payments[p] = "captured"
BY DEF Capture, BankReturn, MoneyMayMove, Prompt, Quiescent, Quiet, Roles, Role, Kind

LEMMA KnownStep ==
    ASSUME Prompt, IInv, Roles, Known, [Next]_vars
    PROVE  Known'
<1>0. TypeOK
  BY DEF IInv
<1>1. CASE payments' = payments
  <2>1. Raised' = Raised
    BY <1>1 DEF Raised
  <2>2. CASE handled' = handled /\ \A t \in Threads : thread'[t].job = thread[t].job
    BY <2>1, <2>2 DEF Known
  <2>3. ASSUME NEW t \in Threads, thread'[t].job.kind = "none",
               \A u \in Threads : u # t => thread'[u] = thread[u],
               handled' = handled \/ handled' = handled \cup ({thread[t].job} \cap Events)
        PROVE  Known'
    <3>1. thread'[t].job \notin Events
      BY <2>3 DEF Events
    <3> QED BY <2>1, <2>3, <3>1 DEF Known
  <2>4. ASSUME NEW t \in Threads, \A u \in Threads : u # t => thread'[u] = thread[u], handled' = handled,
               \/ thread'[t].job \in Raised \ handled
               \/ thread'[t].job.kind = "writeOff"
               \/ thread'[t].job.kind = "poll" /\ Captured # {}
        PROVE  Known'
    <3>1. thread'[t].job \in Events => thread'[t].job \in Raised
      BY <2>4 DEF Events
    <3> QED BY <2>1, <2>4, <3>1 DEF Known
  <2>5. CASE \E p \in Payments : Capture(p) \/ BankReturn(p)
    <3>1. payments' # payments
      BY <1>0, <2>5 DEF Capture, BankReturn, TypeOK
    <3> QED BY <3>1, <1>1
  <2> QED BY <2>2, <2>3, <2>4, <2>5, JobStep
<1>2. ASSUME NEW p \in Payments, Capture(p) \/ BankReturn(p) PROVE Known'
  <2>1. thread' = thread /\ handled' = handled
    BY <1>2 DEF Capture, BankReturn
  <2>2. Raised \subseteq Raised'
    BY <1>0, <1>2 DEF Capture, BankReturn, Raised, TypeOK, Events
  <2> QED BY <2>1, <2>2 DEF Known
<1> QED BY <1>1, <1>2, JobStep

LEMMA TurnsStep ==
    ASSUME Prompt, IInv, Roles, Known, OneCaptured, Turns, Taken, [Next]_vars
    PROVE  Turns' /\ OneCaptured'
<1>0. TypeOK
  BY DEF IInv
<1>1. CASE payments' = payments /\ handled \subseteq handled'
           /\ \A t \in Threads : thread'[t].job = thread[t].job \/ thread'[t].job.kind \in {"none", "writeOff"}
                                 \/ thread'[t].job \in Raised \ handled \/ (thread'[t].job.kind = "poll" /\ Captured # {})
  <2>1. Raised' = Raised /\ Captured' = Captured
    BY <1>1 DEF Raised, Captured
  <2>2. \A e \in Raised : e.kind \in {"succeeded", "returned"}
    BY DEF Raised, Events
  <2> QED BY <1>1, <2>1, <2>2 DEF Turns, OneCaptured, Kind, Forward
<1>2. ASSUME NEW p \in Payments, Capture(p) \/ BankReturn(p) PROVE Turns' /\ OneCaptured'
  <2>1. /\ \A t \in Threads : Kind(t) = "none"
        /\ Raised \subseteq handled /\ thread' = thread /\ handled' = handled
        /\ \/ payments' = [payments EXCEPT ![p] = "captured"] /\ payments[p] = "pending"
           \/ payments' = [payments EXCEPT ![p] = "returned"] /\ payments[p] = "captured"
    BY <1>0, <1>2, MoneyMoves
  <2>2. \A t \in Threads : Kind(t)' = "none"
    BY <2>1 DEF Kind
  <2>3. CASE payments' = [payments EXCEPT ![p] = "captured"] /\ payments[p] = "pending"
    <3>1. Captured' = Captured \cup {p}
      BY <1>0, <2>3 DEF Captured, TypeOK
    <3>2. \A e \in Raised' : e.kind = "returned" => e \in Raised
      BY <1>0, <2>3 DEF Raised, TypeOK, Events
    <3>3. Captured = {}
      <4> SUFFICES ASSUME NEW q \in Captured PROVE FALSE
        OBVIOUS
      <4> DEFINE e == [kind |-> "succeeded", payment |-> q, copy |-> 1]
      <4>1. e \in Raised
        <5>1. q \in Payments /\ payments[q] = "captured"
          BY DEF Captured
        <5>2. e \in Events /\ e.kind = "succeeded" /\ e.payment = q
          BY <5>1 DEF Events
        <5> HIDE DEF e
        <5> QED BY <5>1, <5>2 DEF Raised
      <4>2. e \in handled /\ e.kind = "succeeded" /\ e.payment = q
        BY <2>1, <4>1
      <4>3. invoice.status \in {"paid", "void"}
        <5> HIDE DEF e
        <5> QED BY <4>2 DEF Taken
      <4>4. Capture(p)
        BY <1>0, <1>2, <2>3 DEF BankReturn
      <4> QED BY <4>3, <4>4 DEF Capture
    <3> QED BY <2>1, <2>2, <3>1, <3>2, <3>3 DEF Turns, OneCaptured
  <2>4. CASE payments' = [payments EXCEPT ![p] = "returned"] /\ payments[p] = "captured"
    <3>1. Captured' = {}
      BY <1>0, <2>4 DEF Captured, TypeOK, OneCaptured
    <3>2. \A e \in Raised' : e.kind = "succeeded" => e \in Raised
      BY <1>0, <2>4 DEF Raised, TypeOK, Events
    <3> QED BY <2>1, <2>2, <3>1, <3>2 DEF Turns, OneCaptured, Forward
  <2> QED BY <2>1, <2>3, <2>4
<1>3. \/ \E p \in Payments : Capture(p) \/ BankReturn(p)
      \/ payments' = payments /\ handled \subseteq handled'
           /\ \A t \in Threads : thread'[t].job = thread[t].job \/ thread'[t].job.kind \in {"none", "writeOff"}
                                 \/ thread'[t].job \in Raised \ handled \/ (thread'[t].job.kind = "poll" /\ Captured # {})
  BY JobStep
<1> QED BY <1>1, <1>2, <1>3

\* A handler's moves that leave the invoice row alone.
Moves ==
    {<<"recover", "recovering">>, <<"recover", "book">>, <<"recovering", "recovering">>,
     <<"recovering", "book">>, <<"book", "booking">>, <<"book", "finish">>,
     <<"booking", "booking">>, <<"booking", "finish">>, <<"invert", "booking">>,
     <<"invert", "finish">>, <<"writeOff", "booking">>, <<"writeOff", "finish">>,
     <<"lookup", "reopen">>}

\* A handler at pc `from` goes to pc `to`, and the row's status from s to z.
Advance(from, to, s, z) ==
    \/ <<from, to>> \in Moves /\ z = s
    \/ from = "settle" /\ z = s /\ to = IF s \in {"paid", "void"} THEN "finish" ELSE "claim"
    \/ from = "claim" /\ s \in {"paid", "void"} /\ to = "finish" /\ z = s
    \/ from = "claim" /\ s \notin {"paid", "void"} /\ to \in {"recover", "book"} /\ z = "paid"
    \/ from = "reverse" /\ z = s /\ to = IF s = "paid" THEN "lookup" ELSE "finish"
    \/ from = "reopen" /\ s # "paid" /\ to = "finish" /\ z = s
    \/ from = "reopen" /\ s = "paid" /\ to = "invert" /\ z = "past_due"

Moved(t) ==
    /\ \A u \in Threads : u # t => thread'[u] = thread[u]
    /\ \/ /\ thread'[t].job = thread[t].job
          /\ Advance(thread[t].pc, thread'[t].pc, invoice.status, invoice'.status)
       \/ thread'[t].pc = "idle" /\ Kind(t)' = "none" /\ invoice'.status = invoice.status
       \/ /\ thread[t].pc = "idle" /\ invoice'.status = invoice.status
          /\ \/ thread'[t].pc = "settle" /\ Kind(t)' \in Forward
             \/ thread'[t].pc = "reverse" /\ Kind(t)' = "returned"
       \/ /\ thread[t].pc = "idle" /\ thread'[t].pc = "writeOff" /\ Kind(t)' = "writeOff"
          /\ invoice.status \in {"open", "past_due"} /\ invoice'.status = "uncollectible"

\* Every step is a move of one handler, or leaves them all alone.
LEMMA MoveStep ==
    ASSUME Prompt, IInv, Roles, [Next]_vars
    PROVE  \/ \E t \in Threads : Moved(t)
           \/ /\ thread' = thread
              /\ \/ invoice'.status = invoice.status
                 \/ invoice.status = "open" /\ invoice'.status = "void"
<1> DEFINE Goal == \/ \E t \in Threads : Moved(t)
                   \/ /\ thread' = thread
                      /\ \/ invoice'.status = invoice.status
                         \/ invoice.status = "open" /\ invoice'.status = "void"
<1>0. TypeOK /\ invoice \in Invoice
  BY DEF IInv, TypeOK
<1>1. ASSUME UNCHANGED vars PROVE Goal
  BY <1>1 DEF vars
<1>2. ASSUME VoidIfOpen PROVE Goal
  BY <1>0, <1>2 DEF VoidIfOpen, Invoice
<1>3. ASSUME \E p \in Payments : Capture(p) \/ BankReturn(p) PROVE Goal
  BY <1>3 DEF Capture, BankReturn
<1>4. ASSUME NEW t \in Threads,
             \/ PlanRecovery(t) \/ PlanPayment(t) \/ PlanReversal(t) \/ PlanWriteOff(t)
             \/ PostNext(t) \/ LedgerFails(t) \/ LookUpCash(t)
      PROVE  Goal
  <2>1. \E pc, seen, todo : Continue(t, pc, seen, todo) /\ <<thread[t].pc, pc>> \in Moves
    BY <1>4 DEF PlanRecovery, PlanPayment, PlanReversal, PlanWriteOff, PostNext, LedgerFails,
        LookUpCash, Goto, Plan, AfterLedger, Moves
  <2>2. invoice' = invoice
    BY <1>4 DEF PlanRecovery, PlanPayment, PlanReversal, PlanWriteOff, PostNext, LedgerFails, LookUpCash
  <2>3. Moved(t)
    BY <1>0, <2>1, <2>2, Continued DEF Moved, Advance
  <2> QED BY <2>3
<1>5. ASSUME NEW t \in Threads, ReadToSettle(t) \/ ReadToReverse(t) PROVE Goal
  <2>1. \E pc, seen, todo : Continue(t, pc, seen, todo) /\ Advance(thread[t].pc, pc, invoice.status, invoice'.status)
    BY <1>5 DEF ReadToSettle, ReadToReverse, Advance
  <2>2. Moved(t)
    BY <1>0, <2>1, Continued DEF Moved
  <2> QED BY <2>2
<1>6. ASSUME NEW t \in Threads, MarkPaid(t) \/ ReverseToUnpaid(t) PROVE Goal
  <2>1. \E pc, seen, todo : Continue(t, pc, seen, todo) /\ Advance(thread[t].pc, pc, invoice.status, invoice'.status)
    BY <1>0, <1>6 DEF MarkPaid, ReverseToUnpaid, Advance, Goto, Invoice
  <2>2. Moved(t)
    BY <1>0, <2>1, Continued DEF Moved
  <2> QED BY <2>2
<1>7. ASSUME NEW t \in Threads, Finish(t) \/ Crash(t) PROVE Goal
  <2>1. thread'[t].pc = "idle" /\ Kind(t)' = "none" /\ \A u \in Threads : u # t => thread'[u] = thread[u]
    BY <1>0, <1>7, Ended DEF Finish, Crash, Kind
  <2>2. invoice' = invoice
    BY <1>7 DEF Finish, Crash
  <2>3. Moved(t)
    BY <2>1, <2>2 DEF Moved
  <2> QED BY <2>3
<1>8. ASSUME NEW t \in Threads, MarkUncollectible(t) PROVE Goal
  <2>1. /\ thread[t].pc = "idle" /\ thread'[t].pc = "writeOff" /\ Kind(t)' = "writeOff"
        /\ \A u \in Threads : u # t => thread'[u] = thread[u]
    BY <1>0, <1>8, Began DEF MarkUncollectible, Kind
  <2>2. invoice.status \in {"open", "past_due"} /\ invoice'.status = "uncollectible"
    BY <1>0, <1>8 DEF MarkUncollectible, Invoice
  <2>3. Moved(t)
    BY <2>1, <2>2 DEF Moved
  <2> QED BY <2>3
<1>9. ASSUME NEW t \in Threads, NEW e \in Events, Deliver(t, e) PROVE Goal
  <2>1. \/ Begin(t, "settle", e, Issued) /\ e.kind \in Forward
        \/ Begin(t, "reverse", e, Issued) /\ e.kind = "returned"
    BY <1>9 DEF Deliver, PaymentSucceeded, ACHReturned, Forward
  <2>2. invoice' = invoice
    BY <1>9 DEF Deliver
  <2>3. Moved(t)
    BY <1>0, <2>1, <2>2, Began DEF Moved, Kind
  <2> QED BY <2>3
<1>10. ASSUME NEW t \in Threads, NEW p \in Payments, Poll(t, p) PROVE Goal
  <2> DEFINE job == [kind |-> "poll", payment |-> p]
  <2>1. Begin(t, "settle", job, Issued) /\ job.kind \in Forward /\ invoice' = invoice
    BY <1>10 DEF Poll, Forward
  <2> HIDE DEF job
  <2>2. Moved(t)
    BY <1>0, <2>1, Began DEF Moved, Kind
  <2> QED BY <2>2
<1>11. ASSUME NEW t \in Threads, RecordTds(t) PROVE FALSE
  <2>1. Kind(t) = "offline"
    BY <1>0, <1>11, KindsOf DEF RecordTds, Roles, Role, Kind, Forward
  <2> QED BY <2>1 DEF Roles, Role, Kind
<1> HIDE DEF Goal
<1>12. ASSUME NEW t \in Threads, Step(t) \/ LedgerFails(t) \/ Crash(t) PROVE Goal
  BY <1>4, <1>5, <1>6, <1>7, <1>11, <1>12 DEF Step
<1>13. ASSUME NEW t \in Threads,
              \/ Step(t) \/ LedgerFails(t) \/ Crash(t) \/ MarkUncollectible(t)
              \/ \E e \in Events : Deliver(t, e)
              \/ \E p \in Payments : Poll(t, p)
              \/ \E r \in Receipts : RecordOffline(t, r)
       PROVE  Goal
  <2>1. ~\E r \in Receipts : RecordOffline(t, r)
    BY DEF Prompt
  <2> QED BY ONLY <1>8, <1>9, <1>10, <1>12, <1>13, <2>1
<1>14. Goal
  <2>1. CASE UNCHANGED vars
    BY <1>1, <2>1
  <2>2. CASE Next
    <3>1. CASE VoidIfOpen
      BY <1>2, <3>1
    <3>2. CASE \E p \in Payments : Capture(p) \/ BankReturn(p)
      BY <1>3, <3>2
    <3>3. CASE ~VoidIfOpen /\ ~\E p \in Payments : Capture(p) \/ BankReturn(p)
      BY <1>13, <2>2, <3>3 DEF Next
    <3> QED BY <3>1, <3>2, <3>3
  <2> QED BY <2>1, <2>2
<1> QED BY <1>14 DEF Goal

\* Only a return takes a settled invoice back.
LEMMA StatusStep ==
    ASSUME Prompt, IInv, Roles, [Next]_vars
    PROVE  \/ invoice.status \in {"paid", "void"} => invoice'.status = invoice.status
           \/ \E t \in Threads :
                 /\ Kind(t) = "returned" /\ thread[t].pc = "reopen" /\ thread'[t].pc = "invert"
                 /\ thread'[t].job = thread[t].job
                 /\ \A u \in Threads : u # t => thread'[u] = thread[u]
                 /\ invoice.status = "paid" /\ invoice'.status = "past_due"
<1>0. TypeOK
  BY DEF IInv
<1>1. ASSUME NEW t \in Threads, Moved(t), invoice.status \in {"paid", "void"}, invoice'.status # invoice.status
      PROVE  /\ Kind(t) = "returned" /\ thread[t].pc = "reopen" /\ thread'[t].pc = "invert"
             /\ thread'[t].job = thread[t].job
             /\ \A u \in Threads : u # t => thread'[u] = thread[u]
             /\ invoice.status = "paid" /\ invoice'.status = "past_due"
  <2>1. /\ thread'[t].job = thread[t].job
        /\ Advance(thread[t].pc, thread'[t].pc, invoice.status, invoice'.status)
        /\ \A u \in Threads : u # t => thread'[u] = thread[u]
    BY <1>1 DEF Moved
  <2>2. /\ thread[t].pc = "reopen" /\ thread'[t].pc = "invert"
        /\ invoice.status = "paid" /\ invoice'.status = "past_due"
    BY <1>1, <2>1 DEF Advance
  <2>3. Kind(t) = "returned"
    BY <1>0, <2>2, KindsOf DEF Roles, Role, Kind, Forward
  <2> QED BY <2>1, <2>2, <2>3
<1> QED BY <1>1, MoveStep

LEMMA TakenStep ==
    ASSUME Prompt, IInv, Roles, Known, OneCaptured, Turns, Taken, [Next]_vars
    PROVE  Taken'
<1> DEFINE Settled == invoice.status \in {"paid", "void"}
           Late == {"recover", "recovering", "book", "booking", "finish"}
<1>0. TypeOK
  BY DEF IInv
<1>1. Captured # {} \/ (\E t \in Threads : Kind(t) \in Forward) => (Settled => Settled')
  BY StatusStep DEF Turns
<1>2. ASSUME NEW t \in Threads, Kind(t)' = "succeeded", thread'[t].pc \in Late
      PROVE  Settled'
  <2>1. CASE thread'[t] = thread[t]
    <3>1. Kind(t) = "succeeded" /\ thread[t].pc \in Late
      BY <1>2, <2>1 DEF Kind
    <3>2. Settled
      BY <3>1 DEF Taken
    <3> QED BY <1>1, <3>1, <3>2 DEF Forward
  <2>2. CASE Moved(t)
    <3>1. /\ thread'[t].job = thread[t].job
          /\ Advance(thread[t].pc, thread'[t].pc, invoice.status, invoice'.status)
      BY <1>2, <2>2 DEF Moved
    <3>2. Kind(t) = "succeeded" /\ thread[t].pc \in Late \cup {"settle", "claim"}
      BY <1>2, <3>1 DEF Kind, Roles, Role, Forward
    <3>3. CASE thread[t].pc \in Late
      <4>1. Settled
        BY <3>2, <3>3 DEF Taken
      <4> QED BY <1>1, <3>2, <4>1 DEF Forward
    <3>4. CASE thread[t].pc \in {"settle", "claim"}
      BY <1>2, <3>1, <3>4 DEF Advance, Moves
    <3> QED BY <3>2, <3>3, <3>4
  <2> QED BY <2>1, <2>2, MoveStep DEF Moved
<1>3. ASSUME NEW e \in handled', e.kind = "succeeded", e.payment \in Captured'
      PROVE  Settled'
  <2>1. CASE e \in handled /\ payments' = payments
    <3>1. e.payment \in Captured
      BY <1>3, <2>1 DEF Captured
    <3> QED BY <1>1, <1>3, <2>1, <3>1 DEF Taken
  <2>2. CASE e \notin handled
    <3>1. \E t \in Threads : thread[t].pc = "finish" /\ handled' = handled \cup ({thread[t].job} \cap Events)
      <4>1. \A p \in Payments : Capture(p) \/ BankReturn(p) => handled' = handled
        BY DEF Capture, BankReturn
      <4> QED BY <1>3, <2>2, <4>1, JobStep
    <3>2. PICK t \in Threads : thread[t].pc = "finish" /\ e = thread[t].job
      BY <1>3, <2>2, <3>1
    <3>3. Kind(t) = "succeeded"
      BY <1>3, <3>2 DEF Kind
    <3>4. Settled
      BY <3>2, <3>3 DEF Taken
    <3> QED BY <1>1, <3>3, <3>4 DEF Forward
  <2>3. ASSUME NEW p \in Payments, Capture(p) \/ BankReturn(p) PROVE Settled'
    <3>1. /\ handled' = handled /\ invoice' = invoice
          /\ \/ payments' = [payments EXCEPT ![p] = "captured"] /\ payments[p] = "pending"
             \/ payments' = [payments EXCEPT ![p] = "returned"] /\ payments[p] = "captured"
      BY <1>0, <2>3, MoneyMoves
    <3>2. e \in Raised /\ e \in Events
      BY <1>3, <3>1 DEF Known, Raised
    <3>3. payments[e.payment] # "pending" /\ e.payment \in Payments
      BY <1>3, <3>2 DEF Raised, Events
    <3>4. e.payment \in Captured
      BY <1>0, <1>3, <3>1, <3>3 DEF Captured, TypeOK
    <3> QED BY <1>3, <3>1, <3>4 DEF Taken
  <2>4. payments' = payments \/ \E p \in Payments : Capture(p) \/ BankReturn(p)
    BY JobStep
  <2> QED BY <2>1, <2>2, <2>3, <2>4
<1> QED BY <1>2, <1>3 DEF Taken

\* A handler that is taking a settlement back, from the reopening to its posting.
Reversing(t) == Kind(t) = "returned" /\ thread[t].pc \in {"invert", "booking"}

\* Each reversal has a return of its own; a return that has not reversed yet is not
\* handled while the invoice is settled.
Returns ==
    LET n == Count(ledger, "reversal")
        m == Cardinality(Returned)
    IN  /\ IsFiniteSet(Returned) /\ n <= m
        /\ Captured = {} /\ invoice.status = "paid" =>
             /\ n < m
             /\ \E p \in Returned : \A e \in handled : ~(e.kind = "returned" /\ e.payment = p)
        /\ \A t \in Threads : Reversing(t) => n < m
\* A return reopens the invoice before it posts, and one handler does it.
Reopened ==
    \A t \in Threads : /\ Kind(t) = "returned" /\ thread[t].pc \in {"invert", "booking", "finish"}
                             => invoice.status # "paid"
                       /\ Reversing(t) => \A u \in Threads : Reversing(u) => u = t

LEMMA ReversalStep ==
    ASSUME Prompt, IInv, Roles, [Next]_vars
    PROVE  \/ Count(ledger', "reversal") = Count(ledger, "reversal")
           \/ /\ Count(ledger', "reversal") = Count(ledger, "reversal") + 1
              /\ payments' = payments /\ handled' = handled /\ invoice' = invoice
              /\ \E t \in Threads :
                    /\ Reversing(t) /\ thread[t].pc = "booking" /\ thread'[t].pc = "finish"
                    /\ thread'[t].job = thread[t].job
                    /\ \A u \in Threads : u # t => thread'[u] = thread[u]
<1>0. /\ TypeOK /\ IsJournal(ledger) /\ IsJournal(ledger')
      /\ Alternates(ledger, Pending, "payment", "reversal")
  BY NextInv DEF IInv, TypeOK, CashBookedOnce
<1>1. CASE ledger' = ledger
  BY <1>1
<1>2. ASSUME NEW t \in Threads, PostNext(t)
      PROVE  \/ Count(ledger', "reversal") = Count(ledger, "reversal")
             \/ /\ Count(ledger', "reversal") = Count(ledger, "reversal") + 1
                /\ payments' = payments /\ handled' = handled /\ invoice' = invoice
                /\ Reversing(t) /\ thread[t].pc = "booking" /\ thread'[t].pc = "finish"
                /\ thread'[t].job = thread[t].job
                /\ \A u \in Threads : u # t => thread'[u] = thread[u]
  <2> DEFINE todo == thread[t].todo
             legs == Head(todo)
  <2>1. todo \in Seq(SUBSET Legs) /\ todo # <<>> /\ thread[t].pc \in {"recovering", "booking"}
    BY <1>0, <1>2 DEF PostNext, IInv, PostingReady, TypeOK
  <2>2. legs \subseteq Waiting(todo) /\ ledger' = Post(ledger, legs)
    BY <1>2, <2>1, WaitingFacts DEF PostNext
  <2>3. legs \in SUBSET Pending
    BY <2>2 DEF Pending
  <2>4. CASE Kind(t) # "returned"
    <3>1. \A l \in legs : l.code # "reversal"
      BY <2>2, <2>4 DEF Roles, Role, Kind
    <3>2. {m \in legs : m.code = "reversal"} = {}
      BY <3>1
    <3>3. DOMAIN ledger'["reversal"] = DOMAIN ledger["reversal"] \cup {l.occ : l \in {m \in legs : m.code = "reversal"}}
      BY <2>2, PostDomain DEF Codes, Entry
    <3> QED BY <3>2, <3>3 DEF Count
  <2>5. CASE Kind(t) = "returned"
    <3>1. thread[t].pc = "booking" /\ Tail(todo) = <<>>
      BY <2>1, <2>5 DEF Roles, Role, Kind
    <3>2. Plan(t, "finish", <<>>) /\ payments' = payments /\ handled' = handled /\ invoice' = invoice
      BY <1>2, <3>1 DEF PostNext, AfterLedger
    <3>3. /\ thread'[t].pc = "finish" /\ thread'[t].job = thread[t].job
          /\ \A u \in Threads : u # t => thread'[u] = thread[u]
      BY <1>0, <3>2, Continued DEF Plan
    <3>4. Count(ledger', "reversal") \in {Count(ledger, "reversal"), Count(ledger, "reversal") + 1}
      <4> DEFINE k == Post(ledger, legs)
                 n == Count(ledger, "reversal")
      <4>1. \/ k["reversal"] = ledger["reversal"]
            \/ k["reversal"] = ledger["payment"]
        BY <1>0, <2>2, <2>3, PostCycles DEF Codes, Entry
      <4>2. n \in Nat
        BY <1>0, CountType DEF Codes, Entry
      <4>3. DOMAIN ledger["payment"] = 0..(n - 1) \/ DOMAIN ledger["payment"] = 0..n
        BY <1>0 DEF Alternates
      <4>4. Cardinality(DOMAIN ledger["payment"]) \in {n, n + 1}
        BY <4>2, <4>3, PrefixCount
      <4> QED BY <2>2, <4>1, <4>4 DEF Count
    <3> QED BY <2>5, <3>1, <3>2, <3>3, <3>4 DEF Reversing
  <2> QED BY <2>4, <2>5
<1>3. ledger' = ledger \/ \E t \in Threads : PostNext(t)
  <2>1. CASE UNCHANGED vars
    BY <2>1 DEF vars
  <2>2. ASSUME NEW t \in Threads, Step(t) PROVE ledger' = ledger \/ PostNext(t)
    BY <2>2 DEF Step, ReadToSettle, MarkPaid, PlanRecovery, PlanPayment, ReadToReverse, LookUpCash,
        ReverseToUnpaid, PlanReversal, PlanWriteOff, RecordTds, Finish
  <2>3. CASE Next /\ ~\E t \in Threads : Step(t)
    BY <2>3 DEF Next, Capture, BankReturn, VoidIfOpen, LedgerFails, Crash, MarkUncollectible, Deliver,
        Poll, RecordOffline
  <2> QED BY <2>1, <2>2, <2>3
<1> QED BY <1>1, <1>2, <1>3

\* Only a settlement makes the invoice paid; a return gets to its posting by reopening.
LEMMA PaidStep ==
    ASSUME Prompt, IInv, Roles, [Next]_vars
    PROVE  /\ invoice'.status = "paid" /\ invoice.status # "paid" => \E t \in Threads : Kind(t) \in Forward
           /\ \A t \in Threads :
                Kind(t)' = "returned" /\ thread'[t].pc \in {"invert", "booking", "finish"} =>
                    \/ /\ Kind(t) = "returned" /\ thread[t].pc \in {"invert", "booking", "finish"}
                       /\ thread'[t].pc = "invert" => thread[t].pc = "invert"
                       /\ thread'[t].pc = "booking" => thread[t].pc \in {"invert", "booking"}
                    \/ /\ Kind(t) = "returned" /\ thread[t].pc \in {"reverse", "reopen"}
                       /\ invoice.status # "paid" /\ invoice'.status # "paid" /\ thread'[t].pc = "finish"
                    \/ /\ Kind(t) = "returned" /\ thread[t].pc = "reopen" /\ thread'[t].pc = "invert"
                       /\ invoice.status = "paid" /\ invoice'.status # "paid"
                       /\ \A u \in Threads : u # t => thread'[u] = thread[u]
<1>0. TypeOK
  BY DEF IInv
<1>1. invoice'.status = "paid" /\ invoice.status # "paid" => \E t \in Threads : Kind(t) \in Forward
  <2> SUFFICES ASSUME invoice'.status = "paid", invoice.status # "paid"
               PROVE  \E t \in Threads : Kind(t) \in Forward
    OBVIOUS
  <2>1. PICK t \in Threads : Moved(t)
    BY MoveStep
  <2>2. Advance(thread[t].pc, thread'[t].pc, invoice.status, invoice'.status)
    BY <2>1 DEF Moved
  <2>3. thread[t].pc = "claim"
    BY <2>2 DEF Advance
  <2>4. Kind(t) \in Forward
    BY <1>0, <2>3, KindsOf DEF Roles, Role, Kind, Forward
  <2> QED BY <2>4
<1>2. ASSUME NEW t \in Threads, Kind(t)' = "returned", thread'[t].pc \in {"invert", "booking", "finish"}
      PROVE  \/ /\ Kind(t) = "returned" /\ thread[t].pc \in {"invert", "booking", "finish"}
                /\ thread'[t].pc = "invert" => thread[t].pc = "invert"
                /\ thread'[t].pc = "booking" => thread[t].pc \in {"invert", "booking"}
             \/ /\ Kind(t) = "returned" /\ thread[t].pc \in {"reverse", "reopen"}
                /\ invoice.status # "paid" /\ invoice'.status # "paid" /\ thread'[t].pc = "finish"
             \/ /\ Kind(t) = "returned" /\ thread[t].pc = "reopen" /\ thread'[t].pc = "invert"
                /\ invoice.status = "paid" /\ invoice'.status # "paid"
                /\ \A u \in Threads : u # t => thread'[u] = thread[u]
  <2>1. CASE thread'[t] = thread[t]
    BY <1>2, <2>1 DEF Kind
  <2>2. CASE Moved(t)
    <3>1. /\ thread'[t].job = thread[t].job
          /\ Advance(thread[t].pc, thread'[t].pc, invoice.status, invoice'.status)
          /\ \A u \in Threads : u # t => thread'[u] = thread[u]
      BY <1>2, <2>2 DEF Moved, Forward
    <3>2. /\ Kind(t) = "returned"
          /\ thread[t].pc \in {"reverse", "lookup", "reopen", "invert", "booking", "finish"}
      BY <1>2, <3>1 DEF Kind, Roles, Role
    <3> QED BY <1>2, <3>1, <3>2 DEF Advance, Moves
  <2> QED BY <2>1, <2>2, MoveStep DEF Moved
<1> QED BY <1>1, <1>2

LEMMA ReopenedStep ==
    ASSUME Prompt, IInv, Roles, Turns, Reopened, [Next]_vars
    PROVE  Reopened'
<1>1. ASSUME NEW t \in Threads, Kind(t)' = "returned", thread'[t].pc \in {"invert", "booking", "finish"}
      PROVE  invoice'.status # "paid"
  BY <1>1, PaidStep DEF Turns, Reopened
<1>2. ASSUME NEW t \in Threads, NEW u \in Threads, Reversing(t)', Reversing(u)', u # t
      PROVE  FALSE
  <2>1. \A v \in {t, u} : /\ Kind(v)' = "returned" /\ thread'[v].pc \in {"invert", "booking"}
    BY <1>2 DEF Reversing
  <2>2. \A v \in {t, u} : \/ Reversing(v)
                          \/ /\ invoice.status = "paid"
                             /\ \A w \in Threads : w # v => thread'[w] = thread[w]
    BY <2>1, PaidStep DEF Reversing
  <2>3. Reversing(t) \/ Reversing(u)
    BY <1>2, <2>1, <2>2 DEF Reversing, Kind
  <2>4. invoice.status # "paid"
    BY <2>3 DEF Reopened, Reversing
  <2> QED BY <1>2, <2>2, <2>4 DEF Reopened
<1> QED BY <1>1, <1>2 DEF Reopened

LEMMA ReturnsStep ==
    ASSUME Prompt, IInv, Roles, Known, Turns, Reopened, Returns, [Next]_vars
    PROVE  Returns'
<1> DEFINE n == Count(ledger, "reversal")
           m == Cardinality(Returned)
           Open(p, h) == \A e \in h : ~(e.kind = "returned" /\ e.payment = p)
<1>0. TypeOK /\ n \in Nat /\ m \in Nat /\ n <= m /\ IsFiniteSet(Returned)
  BY CountType, FS_CardinalityType DEF IInv, TypeOK, Codes, Entry, Returns
<1>1. CASE n' = n + 1 /\ n' # n
  <2>1. PICK t \in Threads : /\ Reversing(t) /\ thread'[t].pc = "finish"
                             /\ \A u \in Threads : u # t => thread'[u] = thread[u]
    BY <1>0, <1>1, ReversalStep
  <2>2. payments' = payments /\ invoice' = invoice
    BY <1>0, <1>1, ReversalStep
  <2>3. n < m /\ invoice.status # "paid"
    BY <2>1 DEF Returns, Reopened, Reversing
  <2>4. Returned' = Returned
    BY <2>2 DEF Returned
  <2>5. ASSUME NEW u \in Threads, Reversing(u)' PROVE FALSE
    <3>1. u # t
      BY <2>1, <2>5 DEF Reversing
    <3>2. Reversing(u)
      BY <2>1, <2>5, <3>1 DEF Reversing, Kind
    <3> QED BY <2>1, <3>1, <3>2 DEF Reopened
  <2> QED BY <1>0, <1>1, <2>2, <2>3, <2>4, <2>5 DEF Returns
<1>2. CASE n' = n /\ payments' = payments
  <2>1. Returned' = Returned /\ Captured' = Captured
    BY <1>2 DEF Returned, Captured
  <2>2. ASSUME NEW u \in Threads, Reversing(u)' PROVE n < m
    <3>1. CASE Reversing(u)
      BY <3>1 DEF Returns
    <3>2. CASE ~Reversing(u)
      <4>1. Kind(u) = "returned" /\ invoice.status = "paid"
        BY <2>2, <3>2, PaidStep DEF Reversing
      <4> QED BY <4>1 DEF Turns, Returns
    <3> QED BY <3>1, <3>2
  <2>3. ASSUME Captured = {}, invoice'.status = "paid"
        PROVE  n < m /\ \E p \in Returned : Open(p, handled')
    <3>1. invoice.status = "paid"
      BY <2>3, PaidStep DEF Turns
    <3>2. n < m
      BY <2>3, <3>1 DEF Returns
    <3>3. PICK p \in Returned : Open(p, handled)
      BY <2>3, <3>1 DEF Returns
    <3>4. ASSUME NEW e \in handled', e.kind = "returned", e.payment = p PROVE FALSE
      <4>1. e \notin handled
        BY <3>3, <3>4
      <4>2. \E t \in Threads : thread[t].pc = "finish" /\ handled' = handled \cup ({thread[t].job} \cap Events)
        <5>1. \A q \in Payments : Capture(q) \/ BankReturn(q) => handled' = handled
          BY DEF Capture, BankReturn
        <5> QED BY <3>4, <4>1, <5>1, JobStep
      <4>3. PICK t \in Threads : thread[t].pc = "finish" /\ e = thread[t].job
        BY <3>4, <4>1, <4>2
      <4> QED BY <3>1, <3>4, <4>3 DEF Reopened, Kind
    <3>5. Open(p, handled')
      BY <3>4
    <3> QED BY <3>2, <3>5
  <2> HIDE DEF Open
  <2>4. Captured = {} /\ invoice'.status = "paid" =>
           n < m /\ \E p \in Returned : \A e \in handled' : ~(e.kind = "returned" /\ e.payment = p)
    BY <2>3 DEF Open
  <2> QED BY <1>0, <1>2, <2>1, <2>2, <2>4 DEF Returns
<1>3. ASSUME NEW p \in Payments, Capture(p) \/ BankReturn(p), n' = n PROVE Returns'
  <2>1. /\ \A t \in Threads : Kind(t) = "none"
        /\ thread' = thread /\ handled' = handled /\ ledger' = ledger /\ invoice' = invoice
        /\ \/ payments' = [payments EXCEPT ![p] = "captured"] /\ payments[p] = "pending"
           \/ payments' = [payments EXCEPT ![p] = "returned"] /\ payments[p] = "captured"
    BY <1>0, <1>3, MoneyMoves
  <2>2. \A t \in Threads : ~Reversing(t)'
    BY <2>1 DEF Reversing, Kind
  <2>3. CASE payments' = [payments EXCEPT ![p] = "captured"] /\ payments[p] = "pending"
    <3>1. Returned' = Returned /\ Captured' # {}
      BY <1>0, <2>3 DEF Returned, Captured, TypeOK
    <3> QED BY <1>0, <1>3, <2>2, <3>1 DEF Returns
  <2>4. CASE payments' = [payments EXCEPT ![p] = "returned"] /\ payments[p] = "captured"
    <3>1. Returned' = Returned \cup {p} /\ p \notin Returned
      BY <1>0, <2>4 DEF Returned, TypeOK
    <3>2. IsFiniteSet(Returned') /\ m' = m + 1
      BY <1>0, <3>1, FS_AddElement
    <3>3. \A e \in handled : ~(e.kind = "returned" /\ e.payment = p)
      BY <2>4 DEF Known, Raised
    <3>4. p \in Returned' /\ n <= m /\ n \in Nat /\ m \in Nat
      BY <1>0, <3>1 DEF Returns
    <3>5. n' <= m' /\ n' < m'
      BY <1>3, <3>2, <3>4
    <3>6. p \in Returned' /\ \A e \in handled' : ~(e.kind = "returned" /\ e.payment = p)
      BY <2>1, <3>3, <3>4
    <3>7. \E q \in Returned' : \A e \in handled' : ~(e.kind = "returned" /\ e.payment = q)
      BY <3>6, Zenon
    <3> QED BY <2>2, <3>2, <3>5, <3>7 DEF Returns
  <2> QED BY <2>1, <2>3, <2>4
<1>4. n' = n \/ (n' = n + 1 /\ payments' = payments)
  BY ReversalStep
<1>5. n' # n \/ payments' = payments \/ \E p \in Payments : Capture(p) \/ BankReturn(p)
  BY JobStep
<1>6. n' = n => n' # n + 1
  BY <1>0
<1> QED BY <1>0, <1>1, <1>2, <1>3, <1>4, <1>5

PromptInv == IInv /\ Roles /\ Known /\ OneCaptured /\ Turns /\ Taken /\ Reopened /\ Returns

LEMMA PromptInit == Prompt /\ Init => PromptInv
<1> SUFFICES ASSUME Prompt, Init PROVE PromptInv
  OBVIOUS
<1>1. IInv
  BY InitInv
<1>2. \A t \in Threads : /\ thread[t].pc = "idle" /\ thread[t].job = [kind |-> "none"]
                         /\ thread[t].todo = <<>>
  BY DEF Init, Idle, Handler
<1>3. Captured = {} /\ Returned = {} /\ handled = {} /\ Raised = {}
  BY DEF Init, Captured, Returned, Raised, Events
<1>4. Roles
  BY <1>2, WaitingFacts DEF Roles, Role, Forward
<1>5. \A t \in Threads : thread[t].job \notin Events /\ Kind(t) = "none"
  BY <1>2 DEF Events, Kind
<1>6. Known /\ OneCaptured /\ Turns /\ Taken /\ Reopened
  BY <1>3, <1>5 DEF Known, OneCaptured, Turns, Taken, Reopened, Reversing, Forward
<1>7. Returns
  <2>1. IsFiniteSet(Returned) /\ Cardinality(Returned) = 0
    BY <1>3, FS_EmptySet
  <2>2. Count(ledger, "reversal") = 0
    <3>1. DOMAIN ledger["reversal"] = {}
      BY DEF Init, IssuedJournal, NoLegs, Codes, Entry
    <3> QED BY <3>1, FS_EmptySet DEF Count
  <2>3. invoice.status # "paid"
    BY DEF Init, Issued
  <2> QED BY <1>5, <2>1, <2>2, <2>3 DEF Returns, Reversing
<1> QED BY <1>1, <1>4, <1>6, <1>7 DEF PromptInv

LEMMA PromptStep == Prompt /\ PromptInv /\ [Next]_vars => PromptInv'
BY NextInv, RolesStep, KnownStep, TurnsStep, TakenStep, ReopenedStep, ReturnsStep DEF PromptInv

\* However many events and deliveries report a bank return, it takes back at most one
\* settlement.
THEOREM ReturnsReverseOnce ==
    ASSUME Prompt
    PROVE  Spec => []ReversedOncePerReturn
<1>1. Init => PromptInv
  BY PromptInit
<1>2. PromptInv /\ [Next]_vars => PromptInv'
  BY PromptStep
<1>3. PromptInv => ReversedOncePerReturn
  BY DEF PromptInv, Returns, Returned, ReversedOncePerReturn
<1> QED BY <1>1, <1>2, <1>3, PTL DEF Spec

\* Once every event is handled, an invoice is paid only while the gateway holds the money.
THEOREM PaidInvoiceIsFunded ==
    ASSUME Prompt
    PROVE  Spec => []PaidIsFunded
<1>1. Init => PromptInv
  BY PromptInit
<1>2. PromptInv /\ [Next]_vars => PromptInv'
  BY PromptStep
<1>3. PromptInv => PaidIsFunded
  <2> SUFFICES ASSUME PromptInv, Raised \subseteq handled, invoice.status = "paid", Captured = {}
               PROVE  FALSE
    BY DEF PaidIsFunded, Quiescent, Captured
  <2>1. PICK p \in Returned : \A e \in handled : ~(e.kind = "returned" /\ e.payment = p)
    BY DEF PromptInv, Returns
  <2> DEFINE e == [kind |-> "returned", payment |-> p, copy |-> 1]
  <2>2. e \in Events /\ e.kind = "returned" /\ e.payment = p
    BY DEF Events, Returned
  <2>3. payments[p] = "returned"
    BY DEF Returned
  <2> HIDE DEF e
  <2>4. e \in Raised
    BY <2>2, <2>3 DEF Raised
  <2> QED BY <2>1, <2>2, <2>4
<1> QED BY <1>1, <1>2, <1>3, PTL DEF Spec

----------------------------------------------------------------------------
(* The books of an undisturbed invoice: no faults and no write-off.        *)

\* Nothing fails and nothing is written off: what is posted is what is computed.
Undisturbed == Prompt /\ MaxFaults = 0 /\ "writeOff" \notin Stimuli

\* What the customer pays in cash.
Due == Total - Credit - Wallet
\* A handler that settled the invoice and has not posted the cash.
Settling(t) == Kind(t) \in Forward /\ thread[t].pc \in {"book", "booking"}
\* Cash is booked that no reversal took back.
Unreversed == DOMAIN ledger["payment"] # DOMAIN ledger["reversal"]

\* What a handler has read, and the legs it is about to post.
Loaded(r) ==
    /\ r.pc \notin {"recover", "recovering", "writeOff", "recordTds"}
    /\ r.seen.tds = 0 /\ r.seen.status # "uncollectible"
    /\ r.pc \in {"claim", "book", "reopen"} => r.seen.amountPaid = Wallet
    /\ r.pc = "lookup" => DOMAIN ledger["payment"] # {}
    /\ r.pc = "booking" =>
         IF r.job.kind \in Forward
         THEN r.todo \in {<<{}, {Leg("payment", Count(ledger, "reversal"), Due)}>>,
                          <<{Leg("payment", Count(ledger, "reversal"), Due)}>>}
         ELSE r.todo = <<{Leg("reversal", Count(ledger, "reversal"), Due)}>>
RowKept ==
    /\ invoice.status # "uncollectible" /\ invoice.tds = 0
    /\ invoice.amountPaid = IF invoice.status = "paid" THEN Total - Credit ELSE Wallet
LegsKept ==
    /\ \A c \in Codes \ {"payment", "reversal"} : ledger[c] = IssuedJournal[c]
    /\ \A o \in DOMAIN ledger["payment"] : ledger["payment"][o] = Due
\* The books follow the row: booked cash is unreversed while the invoice is paid, but for
\* the one handler whose posting is under way.
CashFollows ==
    IF invoice.status = "paid"
    THEN IF Unreversed THEN \A t \in Threads : ~Settling(t)
         ELSE \E t \in Threads : Settling(t) /\ \A u \in Threads : Settling(u) => u = t
    ELSE /\ \A t \in Threads : ~Settling(t)
         /\ Unreversed <=> \E t \in Threads : Reversing(t)
BooksInv == PromptInv /\ RowKept /\ LegsKept /\ CashFollows /\ \A t \in Threads : Loaded(thread[t])

LEMMA PostNothing ==
    ASSUME NEW j, IsJournal(j)
    PROVE  Post(j, {}) = j
<1>1. Post(j, {}) = [c \in Codes |-> [o \in DOMAIN j[c] |-> j[c][o]]]
  BY DEF Post
<1> QED BY <1>1 DEF IsJournal

\* One leg goes to its code at a free occurrence.
LEMMA PostOne ==
    ASSUME NEW j, IsJournal(j), NEW c \in Codes, NEW o \in Nat, NEW a \in Nat, o \notin DOMAIN j[c]
    PROVE  LET k == Post(j, {Leg(c, o, a)})
           IN  /\ \A d \in Codes : d # c => k[d] = j[d]
               /\ DOMAIN k[c] = DOMAIN j[c] \cup {o} /\ k[c][o] = a
               /\ \A p \in DOMAIN j[c] : k[c][p] = j[c][p]
<1> DEFINE l == Leg(c, o, a)
           k == Post(j, {l})
<1>1. l.code = c /\ l.occ = o /\ l.amount = a /\ l \in Legs
  BY DEF Leg, Legs
<1> HIDE DEF l
<1>2. IsJournal(k)
  BY <1>1, PostIsJournal, SmallFinite
<1>3. ASSUME NEW d \in Codes, d # c PROVE k[d] = j[d]
  <2>1. {x.occ : x \in {m \in {l} : m.code = d}} = {}
    BY <1>1, <1>3
  <2>2. DOMAIN k[d] = DOMAIN j[d] /\ \A p \in DOMAIN j[d] : k[d][p] = j[d][p]
    <3>1. /\ DOMAIN k[d] = DOMAIN j[d] \cup {x.occ : x \in {m \in {l} : m.code = d}}
          /\ \A p \in DOMAIN j[d] : k[d][p] = j[d][p]
      BY PostDomain
    <3> HIDE DEF k
    <3> QED BY <2>1, <3>1
  <2>3. k[d] = [p \in DOMAIN k[d] |-> k[d][p]] /\ j[d] = [p \in DOMAIN j[d] |-> j[d][p]]
    BY <1>2 DEF IsJournal
  <2> QED BY <2>2, <2>3
<1>4. {x.occ : x \in {m \in {l} : m.code = c}} = {o}
  BY <1>1
<1>5. DOMAIN k[c] = DOMAIN j[c] \cup {o} /\ \A p \in DOMAIN j[c] : k[c][p] = j[c][p]
  BY <1>4, PostDomain
<1>6. k[c][o] = a
  BY <1>1, <1>5, PostDomain
<1> QED BY <1>3, <1>5, <1>6 DEF l

\* The occurrences of the two legs of a cycle.
LEMMA Occurrences ==
    ASSUME IInv
    PROVE  LET n == Count(ledger, "reversal")
           IN  /\ n \in Nat /\ DOMAIN ledger["reversal"] = 0..(n - 1)
               /\ DOMAIN ledger["payment"] = IF Unreversed THEN 0..n ELSE 0..(n - 1)
               /\ Unreversed => Latest(ledger, "payment") = n
<1> DEFINE n == Count(ledger, "reversal")
<1>1. IsJournal(ledger) /\ "payment" \in Codes /\ "reversal" \in Codes
  BY DEF IInv, TypeOK, Codes, Entry
<1>2. n \in Nat
  BY <1>1, CountType
<1>3. /\ DOMAIN ledger["reversal"] = 0..(n - 1)
      /\ DOMAIN ledger["payment"] = 0..(n - 1) \/ DOMAIN ledger["payment"] = 0..n
  BY DEF IInv, CashBookedOnce, Alternates
<1>4. n \notin 0..(n - 1) /\ n \in 0..n
  BY <1>2
<1>5. DOMAIN ledger["payment"] = IF Unreversed THEN 0..n ELSE 0..(n - 1)
  BY <1>3, <1>4 DEF Unreversed
<1>6. ASSUME Unreversed PROVE Latest(ledger, "payment") = n
  <2>1. DOMAIN ledger["payment"] = 0..n
    BY <1>5, <1>6
  <2> DEFINE m == Latest(ledger, "payment")
  <2>2. m \in 0..n /\ \A p \in 0..n : p <= m
    BY <1>1, <1>4, <2>1, LatestProperty
  <2> HIDE DEF m
  <2>3. m = n
    BY <1>2, <1>4, <2>2
  <2> QED BY <2>3 DEF m
<1> QED BY <1>2, <1>3, <1>5, <1>6

\* What the two calls compute.
LEMMA PlannedBatches ==
    ASSUME IInv, LegsKept
    PROVE  /\ Due \in Nat /\ Due > 0
           /\ \A occ : TdsLegs(occ, 0) = {} /\ CashLegs(occ, 0, Wallet) = {Leg("payment", occ, Due)}
           /\ Unreversed => /\ ReversalLegs(ledger) = {Leg("reversal", Count(ledger, "reversal"), Due)}
                            /\ LatestCash(ledger) = Due
<1>1. Due \in Nat /\ Due > 0
  BY DEF Due
<1>2. ASSUME NEW occ PROVE TdsLegs(occ, 0) = {} /\ CashLegs(occ, 0, Wallet) = {Leg("payment", occ, Due)}
  <2>1. Leg("tds", occ, 0).amount = 0 /\ Leg("payment", occ, Due).amount = Due
    BY DEF Leg
  <2>2. TdsLegs(occ, 0) = {}
    BY <2>1 DEF TdsLegs, Moving
  <2>3. Total - Credit - 0 - Wallet = Due
    BY DEF Due
  <2>4. CashLegs(occ, 0, Wallet) = Moving({Leg("payment", occ, Due)})
    BY <2>3 DEF CashLegs
  <2>5. Moving({Leg("payment", occ, Due)}) = {Leg("payment", occ, Due)}
    BY <1>1, <2>1 DEF Moving
  <2> QED BY <2>2, <2>4, <2>5
<1>3. ASSUME Unreversed
      PROVE  /\ ReversalLegs(ledger) = {Leg("reversal", Count(ledger, "reversal"), Due)}
             /\ LatestCash(ledger) = Due
  <2> DEFINE n == Count(ledger, "reversal")
  <2>1. Latest(ledger, "payment") = n /\ n \in DOMAIN ledger["payment"]
    BY <1>3, Occurrences
  <2>2. ledger["payment"][n] = Due
    BY <2>1 DEF LegsKept
  <2> QED BY <2>1, <2>2 DEF ReversalLegs, LatestCash
<1> QED BY <1>1, <1>2, <1>3

\* A handler moves on and the ledger stays.
LEMMA LoadedStep ==
    ASSUME \A t \in Threads : Loaded(thread[t]), LegsKept, ledger' = ledger, NEW t \in Threads,
           \A u \in Threads : u # t => thread'[u] = thread[u],
           Loaded(thread'[t])
    PROVE  LegsKept' /\ \A u \in Threads : Loaded(thread[u])'
BY DEF Loaded, LegsKept, Count

\* A handler that stays out of the postings does not disturb the cash.
LEMMA AsideStep ==
    ASSUME CashFollows, ledger' = ledger, invoice'.status = "paid" <=> invoice.status = "paid",
           \A t \in Threads : (Settling(t)' <=> Settling(t)) /\ (Reversing(t)' <=> Reversing(t))
    PROVE  CashFollows'
<1>1. Unreversed' <=> Unreversed
  BY DEF Unreversed
<1> QED BY <1>1 DEF CashFollows

\* The kinds of handlers at work, by where they are.
LEMMA KindAt ==
    ASSUME TypeOK, Roles, NEW t \in Threads
    PROVE  /\ thread[t].pc \in {"settle", "claim", "book"} => Kind(t) \in Forward
           /\ thread[t].pc \in {"reverse", "lookup", "reopen", "invert"} => Kind(t) = "returned"
           /\ Kind(t) \notin Forward \/ Kind(t) # "returned"
BY KindsOf DEF Roles, Role, Kind, Forward

LEMMA ReadToSettleStep ==
    ASSUME Undisturbed, BooksInv, NEW t \in Threads, ReadToSettle(t)
    PROVE  RowKept' /\ LegsKept' /\ CashFollows' /\ \A u \in Threads : Loaded(thread[u])'
<1>0. TypeOK /\ invoice \in Invoice /\ Kind(t) \in Forward
  BY KindAt DEF BooksInv, PromptInv, IInv, TypeOK, ReadToSettle
<1> DEFINE pc == IF invoice.status \in {"paid", "void"} THEN "finish" ELSE "claim"
<1>1. Continue(t, pc, invoice, <<>>) /\ ledger' = ledger /\ invoice' = invoice /\ thread[t].pc = "settle"
  BY DEF ReadToSettle
<1>2. pc \in {"finish", "claim"} /\ (pc = "claim" => invoice.status # "paid")
  OBVIOUS
<1> HIDE DEF pc
<1>3. /\ thread'[t].pc = pc /\ thread'[t].job = thread[t].job /\ thread'[t].seen = invoice
      /\ \A u \in Threads : u # t => thread'[u] = thread[u]
  BY <1>0, <1>1, Continued
<1>4. RowKept /\ RowKept'
  BY <1>1 DEF BooksInv, RowKept
<1>5. Loaded(thread'[t])
  BY <1>2, <1>3, <1>4 DEF Loaded, RowKept
<1>6. \A u \in Threads : (Settling(u)' <=> Settling(u)) /\ (Reversing(u)' <=> Reversing(u))
  BY <1>1, <1>2, <1>3 DEF Settling, Reversing, Kind
<1> QED BY <1>1, <1>3, <1>4, <1>5, <1>6, LoadedStep, AsideStep DEF BooksInv

LEMMA MarkPaidStep ==
    ASSUME Undisturbed, BooksInv, NEW t \in Threads, MarkPaid(t)
    PROVE  RowKept' /\ LegsKept' /\ CashFollows' /\ \A u \in Threads : Loaded(thread[u])'
<1>0. /\ TypeOK /\ invoice \in Invoice /\ Kind(t) \in Forward /\ thread[t].pc = "claim"
      /\ ledger' = ledger /\ Loaded(thread[t]) /\ RowKept
  BY KindAt DEF BooksInv, PromptInv, IInv, TypeOK, MarkPaid
<1>1. CASE invoice.status \in {"paid", "void"}
  <2>1. Continue(t, "finish", thread[t].seen, <<>>) /\ invoice' = invoice
    BY <1>1 DEF MarkPaid, Goto
  <2>2. /\ thread'[t].pc = "finish" /\ thread'[t].job = thread[t].job /\ thread'[t].seen = thread[t].seen
        /\ \A u \in Threads : u # t => thread'[u] = thread[u]
    BY <1>0, <2>1, Continued
  <2>3. Loaded(thread'[t])
    BY <1>0, <2>2 DEF Loaded
  <2>4. \A u \in Threads : (Settling(u)' <=> Settling(u)) /\ (Reversing(u)' <=> Reversing(u))
    BY <1>0, <2>2 DEF Settling, Reversing, Kind
  <2>5. RowKept'
    BY <1>0, <2>1 DEF RowKept
  <2> QED BY <1>0, <2>1, <2>2, <2>3, <2>4, <2>5, LoadedStep, AsideStep DEF BooksInv
<1>2. CASE invoice.status \notin {"paid", "void"}
  <2>1. /\ Continue(t, "book", thread[t].seen, <<>>)
        /\ invoice' = [invoice EXCEPT !.status = "paid", !.amountPaid = Total - Credit]
    BY <1>0, <1>2 DEF MarkPaid, Goto, Loaded
  <2>2. /\ thread'[t].pc = "book" /\ thread'[t].job = thread[t].job /\ thread'[t].seen = thread[t].seen
        /\ \A u \in Threads : u # t => thread'[u] = thread[u]
    BY <1>0, <2>1, Continued
  <2>3. Loaded(thread'[t])
    BY <1>0, <2>2 DEF Loaded
  <2>4. invoice'.status = "paid" /\ RowKept'
    BY <1>0, <2>1 DEF RowKept, Invoice
  <2>5. ~Unreversed
    <3>1. \A u \in Threads : Kind(u) # "returned"
      BY <1>0 DEF BooksInv, PromptInv, Turns
    <3> QED BY <1>2, <3>1 DEF BooksInv, CashFollows, Reversing
  <2>6. Settling(t)' /\ \A u \in Threads : Settling(u)' => u = t
    BY <1>0, <1>2, <2>2 DEF BooksInv, CashFollows, Settling, Kind
  <2>7. CashFollows'
    BY <1>0, <2>4, <2>5, <2>6 DEF CashFollows, Unreversed
  <2> QED BY <1>0, <2>2, <2>3, <2>4, <2>7, LoadedStep DEF BooksInv
<1> QED BY <1>1, <1>2

LEMMA PlanPaymentStep ==
    ASSUME Undisturbed, BooksInv, NEW t \in Threads, PlanPayment(t)
    PROVE  RowKept' /\ LegsKept' /\ CashFollows' /\ \A u \in Threads : Loaded(thread[u])'
<1>0. /\ TypeOK /\ IInv /\ Kind(t) \in Forward /\ thread[t].pc = "book"
      /\ ledger' = ledger /\ invoice' = invoice /\ Loaded(thread[t]) /\ RowKept /\ LegsKept
  BY KindAt DEF BooksInv, PromptInv, IInv, PlanPayment
<1> DEFINE n == Count(ledger, "reversal")
           todo == <<{}, {Leg("payment", n, Due)}>>
<1>1. Continue(t, "booking", thread[t].seen, todo)
  <2>1. thread[t].seen.tds = 0 /\ thread[t].seen.amountPaid = Wallet
    BY <1>0 DEF Loaded
  <2> QED BY <1>0, <2>1, PlannedBatches DEF PlanPayment, Plan, PaymentOccurrence
<1>2. /\ thread'[t].pc = "booking" /\ thread'[t].job = thread[t].job /\ thread'[t].seen = thread[t].seen
      /\ thread'[t].todo = todo
      /\ \A u \in Threads : u # t => thread'[u] = thread[u]
  BY <1>0, <1>1, Continued
<1>3. Loaded(thread'[t])
  BY <1>0, <1>2 DEF Loaded, Kind
<1>4. \A u \in Threads : (Settling(u)' <=> Settling(u)) /\ (Reversing(u)' <=> Reversing(u))
  BY <1>0, <1>2 DEF Settling, Reversing, Kind, Forward
<1>5. RowKept'
  BY <1>0 DEF RowKept
<1> QED BY <1>0, <1>2, <1>3, <1>4, <1>5, LoadedStep, AsideStep DEF BooksInv

LEMMA ReadToReverseStep ==
    ASSUME Undisturbed, BooksInv, NEW t \in Threads, ReadToReverse(t)
    PROVE  RowKept' /\ LegsKept' /\ CashFollows' /\ \A u \in Threads : Loaded(thread[u])'
<1>0. TypeOK /\ IInv /\ Kind(t) = "returned" /\ thread[t].pc = "reverse" /\ RowKept
  BY KindAt DEF BooksInv, PromptInv, IInv, ReadToReverse
<1> DEFINE pc == IF invoice.status = "paid" THEN "lookup" ELSE "finish"
<1>1. Continue(t, pc, invoice, <<>>) /\ ledger' = ledger /\ invoice' = invoice
  BY DEF ReadToReverse
<1>2. pc \in {"finish", "lookup"} /\ (pc = "lookup" => invoice.status = "paid")
  OBVIOUS
<1> HIDE DEF pc
<1>3. /\ thread'[t].pc = pc /\ thread'[t].job = thread[t].job /\ thread'[t].seen = invoice
      /\ \A u \in Threads : u # t => thread'[u] = thread[u]
  BY <1>0, <1>1, Continued
<1>4. invoice.status = "paid" => DOMAIN ledger["payment"] # {}
  <2> SUFFICES ASSUME invoice.status = "paid" PROVE DOMAIN ledger["payment"] # {}
    OBVIOUS
  <2>1. \A u \in Threads : Kind(u) \notin Forward
    BY <1>0 DEF BooksInv, PromptInv, Turns
  <2>2. Unreversed
    BY <2>1 DEF BooksInv, CashFollows, Settling
  <2> DEFINE n == Count(ledger, "reversal")
  <2>3. n \in Nat /\ DOMAIN ledger["payment"] = 0..n
    BY <1>0, <2>2, Occurrences
  <2> HIDE DEF n
  <2>4. n \in 0..n
    BY <2>3
  <2> QED BY <2>3, <2>4
<1>5. RowKept'
  BY <1>0, <1>1 DEF RowKept
<1>6. Loaded(thread'[t])
  BY <1>0, <1>2, <1>3, <1>4 DEF Loaded, RowKept
<1>7. \A u \in Threads : (Settling(u)' <=> Settling(u)) /\ (Reversing(u)' <=> Reversing(u))
  BY <1>0, <1>2, <1>3 DEF Settling, Reversing, Kind
<1> QED BY <1>1, <1>3, <1>5, <1>6, <1>7, LoadedStep, AsideStep DEF BooksInv

LEMMA LookUpCashStep ==
    ASSUME Undisturbed, BooksInv, NEW t \in Threads, LookUpCash(t)
    PROVE  RowKept' /\ LegsKept' /\ CashFollows' /\ \A u \in Threads : Loaded(thread[u])'
<1>0. /\ TypeOK /\ IInv /\ Kind(t) = "returned" /\ thread[t].pc = "lookup" /\ RowKept /\ LegsKept
      /\ Loaded(thread[t]) /\ thread[t].seen \in Invoice /\ ledger' = ledger /\ invoice' = invoice
  BY KindAt DEF BooksInv, PromptInv, IInv, TypeOK, LookUpCash
<1> DEFINE inv == thread[t].seen
<1>1. NonCash(inv, LatestCash(ledger)) = Wallet
  <2>1. DOMAIN ledger["payment"] # {} /\ inv.tds = 0
    BY <1>0 DEF Loaded
  <2>2. LatestCash(ledger) = Due
    <3>1. Latest(ledger, "payment") \in DOMAIN ledger["payment"]
      BY <1>0, <2>1, LatestProperty DEF TypeOK, Codes, Entry
    <3> QED BY <1>0, <2>1, <3>1 DEF LatestCash, LegsKept
  <2> QED BY <2>1, <2>2 DEF NonCash, Due
<1>2. PICK seen : seen = [inv EXCEPT !.amountPaid = Wallet]
  OBVIOUS
<1>3. Continue(t, "reopen", seen, <<>>)
  BY <1>0, <1>1, <1>2 DEF LookUpCash
<1>4. /\ thread'[t].pc = "reopen" /\ thread'[t].job = thread[t].job /\ thread'[t].seen = seen
      /\ \A u \in Threads : u # t => thread'[u] = thread[u]
  BY <1>0, <1>3, Continued
<1>5. seen.tds = inv.tds /\ seen.status = inv.status /\ seen.amountPaid = Wallet
  BY <1>0, <1>2 DEF Invoice
<1>6. Loaded(thread'[t])
  BY <1>0, <1>4, <1>5 DEF Loaded
<1>7. \A u \in Threads : (Settling(u)' <=> Settling(u)) /\ (Reversing(u)' <=> Reversing(u))
  BY <1>0, <1>4 DEF Settling, Reversing, Kind
<1>8. RowKept'
  BY <1>0 DEF RowKept
<1> QED BY <1>0, <1>4, <1>6, <1>7, <1>8, LoadedStep, AsideStep DEF BooksInv

LEMMA ReverseToUnpaidStep ==
    ASSUME Undisturbed, BooksInv, NEW t \in Threads, ReverseToUnpaid(t)
    PROVE  RowKept' /\ LegsKept' /\ CashFollows' /\ \A u \in Threads : Loaded(thread[u])'
<1>0. /\ TypeOK /\ IInv /\ Kind(t) = "returned" /\ thread[t].pc = "reopen" /\ RowKept
      /\ Loaded(thread[t]) /\ ledger' = ledger /\ invoice \in Invoice
  BY KindAt DEF BooksInv, PromptInv, IInv, TypeOK, ReverseToUnpaid
<1>1. CASE invoice.status # "paid"
  <2>1. Continue(t, "finish", thread[t].seen, <<>>) /\ invoice' = invoice
    BY <1>1 DEF ReverseToUnpaid, Goto
  <2>2. /\ thread'[t].pc = "finish" /\ thread'[t].job = thread[t].job /\ thread'[t].seen = thread[t].seen
        /\ \A u \in Threads : u # t => thread'[u] = thread[u]
    BY <1>0, <2>1, Continued
  <2>3. Loaded(thread'[t])
    BY <1>0, <2>2 DEF Loaded
  <2>4. \A u \in Threads : (Settling(u)' <=> Settling(u)) /\ (Reversing(u)' <=> Reversing(u))
    BY <1>0, <2>2 DEF Settling, Reversing, Kind
  <2>5. RowKept'
    BY <1>0, <2>1 DEF RowKept
  <2> QED BY <1>0, <2>1, <2>2, <2>3, <2>4, <2>5, LoadedStep, AsideStep DEF BooksInv
<1>2. CASE invoice.status = "paid"
  <2>1. /\ Continue(t, "invert", thread[t].seen, <<>>)
        /\ invoice' = [invoice EXCEPT !.status = "past_due", !.amountPaid = thread[t].seen.amountPaid]
    BY <1>2 DEF ReverseToUnpaid, Goto
  <2>2. /\ thread'[t].pc = "invert" /\ thread'[t].job = thread[t].job /\ thread'[t].seen = thread[t].seen
        /\ \A u \in Threads : u # t => thread'[u] = thread[u]
    BY <1>0, <2>1, Continued
  <2>3. Loaded(thread'[t])
    BY <1>0, <2>2 DEF Loaded
  <2>4. invoice'.status # "paid" /\ RowKept'
    BY <1>0, <2>1 DEF RowKept, Invoice, Loaded
  <2>5. Unreversed /\ \A u \in Threads : Kind(u) \notin Forward
    <3>1. \A u \in Threads : Kind(u) \notin Forward
      BY <1>0 DEF BooksInv, PromptInv, Turns
    <3> QED BY <1>2, <3>1 DEF BooksInv, CashFollows, Settling
  <2>6. Reversing(t)' /\ \A u \in Threads : ~Settling(u)'
    BY <1>0, <2>2, <2>5 DEF Settling, Reversing, Kind
  <2>7. CashFollows'
    BY <1>0, <2>4, <2>5, <2>6 DEF CashFollows, Unreversed
  <2> QED BY <1>0, <2>2, <2>3, <2>4, <2>7, LoadedStep DEF BooksInv
<1> QED BY <1>1, <1>2

LEMMA PlanReversalStep ==
    ASSUME Undisturbed, BooksInv, NEW t \in Threads, PlanReversal(t)
    PROVE  RowKept' /\ LegsKept' /\ CashFollows' /\ \A u \in Threads : Loaded(thread[u])'
<1>0. /\ TypeOK /\ IInv /\ Kind(t) = "returned" /\ thread[t].pc = "invert"
      /\ ledger' = ledger /\ invoice' = invoice /\ Loaded(thread[t]) /\ RowKept /\ LegsKept
  BY KindAt DEF BooksInv, PromptInv, IInv, PlanReversal
<1>1. Unreversed
  BY <1>0 DEF BooksInv, PromptInv, CashFollows, Reopened, Reversing
<1> DEFINE todo == <<{Leg("reversal", Count(ledger, "reversal"), Due)}>>
<1>2. Continue(t, "booking", thread[t].seen, todo)
  BY <1>0, <1>1, PlannedBatches DEF PlanReversal, Plan
<1>3. /\ thread'[t].pc = "booking" /\ thread'[t].job = thread[t].job /\ thread'[t].seen = thread[t].seen
      /\ thread'[t].todo = todo
      /\ \A u \in Threads : u # t => thread'[u] = thread[u]
  BY <1>0, <1>2, Continued
<1>4. Loaded(thread'[t])
  BY <1>0, <1>3 DEF Loaded, Kind, Forward
<1>5. \A u \in Threads : (Settling(u)' <=> Settling(u)) /\ (Reversing(u)' <=> Reversing(u))
  BY <1>0, <1>3 DEF Settling, Reversing, Kind, Forward
<1>6. RowKept'
  BY <1>0 DEF RowKept
<1> QED BY <1>0, <1>3, <1>4, <1>5, <1>6, LoadedStep, AsideStep DEF BooksInv

\* A leg of a cycle is posted: the other codes stay, and the cash is what was paid.
LEMMA LegsStep ==
    ASSUME BooksInv, NEW c \in {"payment", "reversal"},
           LET n == Count(ledger, "reversal")
           IN  ledger' = Post(ledger, {Leg(c, n, Due)}) /\ n \notin DOMAIN ledger[c]
    PROVE  LET n == Count(ledger, "reversal")
           IN  /\ LegsKept'
               /\ DOMAIN ledger'[c] = DOMAIN ledger[c] \cup {n}
               /\ \A d \in {"payment", "reversal"} : d # c => ledger'[d] = ledger[d]
<1> DEFINE n == Count(ledger, "reversal")
<1>1. IsJournal(ledger) /\ c \in Codes /\ n \in Nat /\ Due \in Nat
  BY Occurrences, PlannedBatches DEF BooksInv, PromptInv, IInv, TypeOK, Codes, Entry
<1>2. /\ \A d \in Codes : d # c => ledger'[d] = ledger[d]
      /\ DOMAIN ledger'[c] = DOMAIN ledger[c] \cup {n} /\ ledger'[c][n] = Due
      /\ \A p \in DOMAIN ledger[c] : ledger'[c][p] = ledger[c][p]
  BY <1>1, PostOne
<1>3. LegsKept'
  <2>1. \A d \in Codes \ {"payment", "reversal"} : ledger'[d] = IssuedJournal[d]
    BY <1>2 DEF BooksInv, LegsKept
  <2>2. \A o \in DOMAIN ledger'["payment"] : ledger'["payment"][o] = Due
    <3>1. CASE c = "payment"
      BY <1>2, <3>1 DEF BooksInv, LegsKept
    <3>2. CASE c # "payment"
      BY <1>2, <3>2 DEF BooksInv, LegsKept, Codes, Entry
    <3> QED BY <3>1, <3>2
  <2> QED BY <2>1, <2>2 DEF LegsKept
<1>4. {"payment", "reversal"} \subseteq Codes
  BY DEF Codes, Entry
<1> QED BY <1>2, <1>3, <1>4

LEMMA PostCashStep ==
    ASSUME Undisturbed, BooksInv, NEW t \in Threads, PostNext(t), Kind(t) \in Forward
    PROVE  RowKept' /\ LegsKept' /\ CashFollows' /\ \A u \in Threads : Loaded(thread[u])'
<1> DEFINE n == Count(ledger, "reversal")
           l == Leg("payment", n, Due)
<1>0. /\ TypeOK /\ IInv /\ invoice' = invoice /\ RowKept /\ LegsKept /\ IsJournal(ledger)
      /\ \A u \in Threads : Loaded(thread[u])
  BY DEF BooksInv, PromptInv, IInv, TypeOK, PostNext
<1>1. thread[t].pc = "booking"
  BY <1>0 DEF PostNext, Loaded
<1>2. thread[t].todo \in {<<{}, {l}>>, <<{l}>>}
  BY <1>0, <1>1 DEF Loaded, Kind
<1>3. RowKept'
  BY <1>0 DEF RowKept
<1>4. Settling(t)
  BY <1>1 DEF Settling
<1>5. invoice.status = "paid" /\ ~Unreversed /\ \A u \in Threads : Settling(u) => u = t
  BY <1>4 DEF BooksInv, CashFollows
<1> HIDE DEF l
<1>6. CASE thread[t].todo = <<{}, {l}>>
  <2>1. Continue(t, "booking", thread[t].seen, <<{l}>>) /\ ledger' = Post(ledger, {})
    BY <1>1, <1>6 DEF PostNext, Plan
  <2>2. ledger' = ledger
    BY <1>0, <2>1, PostNothing
  <2>3. /\ thread'[t].pc = "booking" /\ thread'[t].job = thread[t].job /\ thread'[t].seen = thread[t].seen
        /\ thread'[t].todo = <<{l}>>
        /\ \A u \in Threads : u # t => thread'[u] = thread[u]
    BY <1>0, <2>1, Continued
  <2>4. Loaded(thread'[t])
    BY <1>0, <1>1, <2>3 DEF Loaded, Kind, l
  <2>5. \A u \in Threads : (Settling(u)' <=> Settling(u)) /\ (Reversing(u)' <=> Reversing(u))
    BY <1>1, <2>3 DEF Settling, Reversing, Kind
  <2> QED BY <1>0, <1>3, <2>2, <2>3, <2>4, <2>5, LoadedStep, AsideStep DEF BooksInv
<1>7. CASE thread[t].todo = <<{l}>>
  <2>1. Continue(t, "finish", thread[t].seen, <<>>) /\ ledger' = Post(ledger, {l})
    BY <1>1, <1>7 DEF PostNext, Plan, AfterLedger
  <2>2. /\ thread'[t].pc = "finish" /\ thread'[t].job = thread[t].job /\ thread'[t].seen = thread[t].seen
        /\ \A u \in Threads : u # t => thread'[u] = thread[u]
    BY <1>0, <2>1, Continued
  <2>3. DOMAIN ledger["payment"] = DOMAIN ledger["reversal"] /\ n \notin DOMAIN ledger["payment"]
    <3>1. n \in Nat /\ DOMAIN ledger["payment"] = 0..(n - 1)
      BY <1>0, <1>5, Occurrences
    <3> HIDE DEF n
    <3>2. n \notin 0..(n - 1)
      BY <3>1
    <3> QED BY <1>5, <3>1, <3>2 DEF Unreversed
  <2>4. /\ LegsKept' /\ DOMAIN ledger'["payment"] = DOMAIN ledger["payment"] \cup {n}
        /\ ledger'["reversal"] = ledger["reversal"]
    BY <2>1, <2>3, LegsStep DEF l
  <2>5. Unreversed'
    BY <2>3, <2>4 DEF Unreversed
  <2>6. \A u \in Threads : ~Settling(u)'
    BY <1>5, <2>2 DEF Settling, Kind
  <2>7. CashFollows'
    BY <1>0, <1>5, <2>5, <2>6 DEF CashFollows
  <2>8. n' = n
    BY <2>4 DEF Count
  <2>9. ASSUME NEW u \in Threads PROVE Loaded(thread[u])'
    <3>1. DOMAIN ledger'["payment"] # {}
      BY <2>4
    <3> HIDE DEF n
    <3>2. CASE u = t
      BY <1>0, <2>2, <3>2 DEF Loaded
    <3>3. CASE u # t
      BY <1>0, <2>2, <2>8, <3>1, <3>3 DEF Loaded, n
    <3> QED BY <3>2, <3>3
  <2> QED BY <1>3, <2>4, <2>7, <2>9
<1> QED BY <1>2, <1>6, <1>7

LEMMA PostReversalStep ==
    ASSUME Undisturbed, BooksInv, NEW t \in Threads, PostNext(t), Kind(t) \notin Forward
    PROVE  RowKept' /\ LegsKept' /\ CashFollows' /\ \A u \in Threads : Loaded(thread[u])'
<1> DEFINE n == Count(ledger, "reversal")
           l == Leg("reversal", n, Due)
<1>0. /\ TypeOK /\ IInv /\ invoice' = invoice /\ RowKept /\ LegsKept /\ IsJournal(ledger)
      /\ \A u \in Threads : Loaded(thread[u])
  BY DEF BooksInv, PromptInv, IInv, TypeOK, PostNext
<1>1. thread[t].pc = "booking"
  BY <1>0 DEF PostNext, Loaded
<1>2. thread[t].todo = <<{l}>>
  BY <1>0, <1>1 DEF Loaded, Kind
<1>3. Kind(t) = "returned"
  <2>1. Kind(t) # "writeOff"
    <3> SUFFICES ASSUME Kind(t) = "writeOff" PROVE FALSE
      OBVIOUS
    <3>1. \A x \in Waiting(thread[t].todo) : x.code # "reversal"
      BY DEF BooksInv, PromptInv, Roles, Role, Kind
    <3>2. Waiting(thread[t].todo) = {l}
      BY <1>2, WaitingFacts
    <3>3. l.code = "reversal"
      BY DEF Leg
    <3> QED BY <3>1, <3>2, <3>3
  <2> QED BY <1>0, <1>1, <2>1, KindsOf DEF BooksInv, PromptInv, Roles, Role, Kind, Forward
<1>4. Reversing(t)
  BY <1>1, <1>3 DEF Reversing
<1>5. /\ invoice.status # "paid" /\ Unreversed
      /\ \A u \in Threads : ~Settling(u) /\ (Reversing(u) => u = t)
  BY <1>1, <1>3, <1>4 DEF BooksInv, PromptInv, Reopened, CashFollows
<1>6. RowKept'
  BY <1>0 DEF RowKept
<1> HIDE DEF l
<1>7. Continue(t, "finish", thread[t].seen, <<>>) /\ ledger' = Post(ledger, {l})
  BY <1>1, <1>2 DEF PostNext, Plan, AfterLedger
<1>8. /\ thread'[t].pc = "finish" /\ thread'[t].job = thread[t].job /\ thread'[t].seen = thread[t].seen
      /\ \A u \in Threads : u # t => thread'[u] = thread[u]
  BY <1>0, <1>7, Continued
<1>9. /\ n \notin DOMAIN ledger["reversal"]
      /\ DOMAIN ledger["payment"] = DOMAIN ledger["reversal"] \cup {n}
  <2>1. n \in Nat /\ DOMAIN ledger["reversal"] = 0..(n - 1) /\ DOMAIN ledger["payment"] = 0..n
    BY <1>0, <1>5, Occurrences
  <2> HIDE DEF n
  <2>2. n \notin 0..(n - 1) /\ 0..n = 0..(n - 1) \cup {n}
    BY <2>1
  <2> QED BY <2>1, <2>2
<1>10. /\ LegsKept' /\ DOMAIN ledger'["reversal"] = DOMAIN ledger["reversal"] \cup {n}
       /\ ledger'["payment"] = ledger["payment"]
  BY <1>7, <1>9, LegsStep DEF l
<1>11. ~Unreversed'
  BY <1>9, <1>10 DEF Unreversed
<1>12. \A u \in Threads : ~Settling(u)' /\ ~Reversing(u)'
  BY <1>5, <1>8 DEF Settling, Reversing, Kind
<1>13. CashFollows'
  BY <1>0, <1>5, <1>11, <1>12 DEF CashFollows
<1>14. ASSUME NEW u \in Threads PROVE Loaded(thread[u])'
  <2> HIDE DEF n
  <2>1. thread'[u].pc # "booking"
    <3> SUFFICES ASSUME u # t, thread[u].pc = "booking" PROVE FALSE
      BY <1>8
    <3>1. Kind(u) \in {"succeeded", "poll", "returned", "writeOff"}
      BY <1>0, KindsOf DEF BooksInv, PromptInv, Roles, Role, Kind
    <3>2. Kind(u) = "writeOff"
      BY <1>5, <3>1 DEF Settling, Reversing, Forward
    <3>3. \A x \in Waiting(thread[u].todo) : x.code # "reversal"
      BY <3>2 DEF BooksInv, PromptInv, Roles, Role, Kind
    <3>4. thread[u].todo = <<{l}>>
      BY <1>0, <3>2 DEF Loaded, Kind, Forward, l, n
    <3>5. Waiting(thread[u].todo) = {l} /\ l.code = "reversal"
      BY <3>4, WaitingFacts DEF l, Leg
    <3> QED BY <3>3, <3>5
  <2>2. CASE u = t
    BY <1>0, <1>8, <2>2 DEF Loaded
  <2>3. CASE u # t
    BY <1>0, <1>8, <1>10, <2>1, <2>3 DEF Loaded
  <2> QED BY <2>2, <2>3
<1> QED BY <1>6, <1>10, <1>13, <1>14

\* A handler begins or ends.
LEMMA EntryStep ==
    ASSUME Undisturbed, BooksInv, NEW t \in Threads,
           Finish(t) \/ (\E e \in Events : Deliver(t, e)) \/ (\E p \in Payments : Poll(t, p))
    PROVE  RowKept' /\ LegsKept' /\ CashFollows' /\ \A u \in Threads : Loaded(thread[u])'
<1>0. /\ TypeOK /\ RowKept /\ LegsKept
      /\ invoice' = invoice /\ ledger' = ledger
  BY DEF BooksInv, PromptInv, IInv, Finish, Deliver, Poll
<1>1. /\ thread[t].pc \in {"idle", "finish"} /\ thread'[t].pc \in {"idle", "settle", "reverse"}
      /\ thread'[t].seen = Issued
      /\ \A u \in Threads : u # t => thread'[u] = thread[u]
  <2>1. CASE Finish(t)
    <3>1. Done(t) /\ thread[t].pc = "finish"
      BY <2>1 DEF Finish
    <3> QED BY <1>0, <3>1, Ended
  <2>2. CASE ~Finish(t)
    <3>1. PICK pc \in {"settle", "reverse"} : \E job : Begin(t, pc, job, Issued)
      BY <2>2 DEF Deliver, Poll, PaymentSucceeded, ACHReturned
    <3>2. PICK job : Begin(t, pc, job, Issued)
      BY <3>1
    <3> QED BY <1>0, <3>2, Began
  <2> QED BY <2>1, <2>2
<1>2. Loaded(thread'[t])
  BY <1>1 DEF Loaded, Issued
<1>3. \A u \in Threads : (Settling(u)' <=> Settling(u)) /\ (Reversing(u)' <=> Reversing(u))
  BY <1>1 DEF Settling, Reversing, Kind
<1>4. RowKept'
  BY <1>0 DEF RowKept
<1> QED BY <1>0, <1>1, <1>2, <1>3, <1>4, LoadedStep, AsideStep DEF BooksInv

LEMMA BooksStep ==
    ASSUME Undisturbed, BooksInv, [Next]_vars
    PROVE  BooksInv'
<1> DEFINE Goal == RowKept' /\ LegsKept' /\ CashFollows' /\ \A u \in Threads : Loaded(thread[u])'
<1>0. TypeOK /\ invoice \in Invoice /\ Prompt /\ \A u \in Threads : Loaded(thread[u])
  BY DEF BooksInv, PromptInv, IInv, TypeOK, Undisturbed
<1>1. ASSUME UNCHANGED <<thread, ledger>>, invoice' = invoice \/ VoidIfOpen PROVE Goal
  <2>1. RowKept' /\ (invoice'.status = "paid" <=> invoice.status = "paid")
    BY <1>0, <1>1 DEF BooksInv, RowKept, VoidIfOpen, Invoice
  <2>2. LegsKept' /\ \A u \in Threads : Loaded(thread[u])'
    BY <1>0, <1>1 DEF BooksInv, LegsKept, Loaded, Count
  <2>3. \A u \in Threads : (Settling(u)' <=> Settling(u)) /\ (Reversing(u)' <=> Reversing(u))
    BY <1>1 DEF Settling, Reversing, Kind
  <2> QED BY <1>1, <2>1, <2>2, <2>3, AsideStep DEF BooksInv
<1>2. ASSUME UNCHANGED vars \/ VoidIfOpen \/ \E p \in Payments : Capture(p) \/ BankReturn(p) PROVE Goal
  BY <1>1, <1>2 DEF vars, VoidIfOpen, Capture, BankReturn
<1>3. ASSUME NEW t \in Threads, Step(t) PROVE Goal
  <2>1. ~(PlanRecovery(t) \/ PlanWriteOff(t) \/ RecordTds(t))
    BY <1>0 DEF PlanRecovery, PlanWriteOff, RecordTds, Loaded
  <2>2. CASE Finish(t)
    BY <2>2, EntryStep
  <2>3. CASE PostNext(t)
    BY <2>3, PostCashStep, PostReversalStep
  <2>4. CASE ReadToSettle(t) \/ MarkPaid(t) \/ PlanPayment(t) \/ ReadToReverse(t) \/ LookUpCash(t)
             \/ ReverseToUnpaid(t) \/ PlanReversal(t)
    BY <2>4, ReadToSettleStep, MarkPaidStep, PlanPaymentStep, ReadToReverseStep, LookUpCashStep,
        ReverseToUnpaidStep, PlanReversalStep
  <2> QED BY <1>3, <2>1, <2>2, <2>3, <2>4 DEF Step
<1>4. ASSUME NEW t \in Threads, (\E e \in Events : Deliver(t, e)) \/ (\E p \in Payments : Poll(t, p)) PROVE Goal
  BY <1>4, EntryStep
<1>5. ASSUME NEW t \in Threads PROVE ~LedgerFails(t) /\ ~Crash(t) /\ ~MarkUncollectible(t)
                                     /\ ~\E r \in Receipts : RecordOffline(t, r)
  BY <1>0 DEF LedgerFails, Crash, MarkUncollectible, Undisturbed, Prompt, TypeOK
<1> HIDE DEF Goal
<1>6. ASSUME NEW t \in Threads,
             \/ Step(t) \/ LedgerFails(t) \/ Crash(t) \/ MarkUncollectible(t)
             \/ \E e \in Events : Deliver(t, e)
             \/ \E p \in Payments : Poll(t, p)
             \/ \E r \in Receipts : RecordOffline(t, r)
      PROVE  Goal
  BY ONLY <1>3, <1>4, <1>5, <1>6
<1>7. Goal
  <2>1. CASE UNCHANGED vars \/ VoidIfOpen \/ \E p \in Payments : Capture(p) \/ BankReturn(p)
    BY <1>2, <2>1 DEF Goal
  <2>2. CASE ~(UNCHANGED vars \/ VoidIfOpen \/ \E p \in Payments : Capture(p) \/ BankReturn(p))
    BY <1>6, <2>2 DEF Next
  <2> QED BY <2>1, <2>2
<1>8. PromptInv'
  BY <1>0, PromptStep DEF BooksInv
<1> QED BY <1>7, <1>8 DEF Goal, BooksInv

LEMMA BooksInit == Undisturbed /\ Init => BooksInv
<1> SUFFICES ASSUME Undisturbed, Init PROVE BooksInv
  OBVIOUS
<1>1. PromptInv
  BY PromptInit DEF Undisturbed
<1>2. \A t \in Threads : /\ thread[t].pc = "idle" /\ thread[t].seen = Issued
  BY DEF Init, Idle, Handler
<1>3. RowKept /\ invoice.status # "paid"
  BY DEF Init, RowKept, Issued
<1>4. DOMAIN ledger["payment"] = {} /\ DOMAIN ledger["reversal"] = {} /\ ledger = IssuedJournal
  BY DEF Init, IssuedJournal, NoLegs, Codes, Entry
<1>5. \A t \in Threads : ~Settling(t) /\ ~Reversing(t) /\ Loaded(thread[t])
  BY <1>2 DEF Settling, Reversing, Loaded, Issued
<1> QED BY <1>1, <1>3, <1>4, <1>5 DEF BooksInv, LegsKept, CashFollows, Unreversed

\* What an issued invoice starts with.
LEMMA IssuedSums ==
    ASSUME NEW j, \A c \in Codes \ {"payment", "reversal"} : j[c] = IssuedJournal[c]
    PROVE  LET P(c) == Posted(j, c)
           IN  /\ P("invoice") = Total /\ P("tax") = Tax /\ P("credit") = Credit /\ P("drain") = Wallet
               /\ P("tds") = 0 /\ P("writeOff") = 0 /\ P("writeOffTax") = 0 /\ P("badDebt") = 0
               /\ P("recovery") = 0 /\ P("recoveryTax") = 0 /\ P("badDebtRecovery") = 0
<1> DEFINE Once(a) == IF a > 0 THEN [o \in {0} |-> a] ELSE NoLegs
<1>1. ASSUME NEW a \in Nat PROVE SumFunction(Once(a)) = a
  <2>1. CASE a > 0
    <3> PICK f : f = [o \in {0} |-> a]
      OBVIOUS
    <3>1. DOMAIN f = {0} /\ f[0] = a
      OBVIOUS
    <3>2. IsFiniteSet({}) /\ {} \cup {0} = {0} /\ 0 \notin {} /\ SumFunctionOnSet(f, {}) = 0
      BY FS_EmptySet, SumEmpty
    <3>a. \A e \in {} \cup {0} : f[e] \in Int
      BY <3>1
    <3>3. SumFunctionOnSet(f, {} \cup {0}) = f[0] + SumFunctionOnSet(f, {})
      BY <3>2, <3>a, SumAdd
    <3> QED BY <2>1, <3>1, <3>2, <3>3 DEF SumFunction
  <2>2. CASE a = 0
    BY <2>2, SumEmpty DEF SumFunction, NoLegs
  <2> QED BY <2>1, <2>2
<1>2. SumFunction(NoLegs) = 0
  BY SumEmpty DEF SumFunction, NoLegs
<1>3. /\ j["invoice"] = Once(Total) /\ j["tax"] = Once(Tax)
      /\ j["credit"] = Once(Credit) /\ j["drain"] = Once(Wallet)
      /\ \A c \in {"tds", "writeOff", "writeOffTax", "badDebt", "recovery", "recoveryTax", "badDebtRecovery"} :
            j[c] = NoLegs
  BY DEF IssuedJournal, Codes, Entry
<1> HIDE DEF Once
<1> QED BY <1>1, <1>2, <1>3 DEF Posted

\* The cash posted and not taken back.
LEMMA CashSums ==
    ASSUME BooksInv
    PROVE  Posted(ledger, "payment") - Posted(ledger, "reversal") = IF Unreversed THEN Due ELSE 0
<1> DEFINE n == Count(ledger, "reversal")
           b == ledger["payment"]
           i == ledger["reversal"]
           D == 0..(n - 1)
<1>1. /\ n \in Nat /\ DOMAIN i = D /\ DOMAIN b = IF Unreversed THEN 0..n ELSE D
  BY Occurrences DEF BooksInv, PromptInv
<1>2. /\ IsFiniteSet(D) /\ n \notin D /\ 0..n = D \cup {n}
  BY <1>1, FS_Interval
<1>3. \A o \in D : i[o] = b[o] /\ i[o] \in Int
  <2>1. \A o \in D : i[o] = b[o]
    BY <1>1 DEF BooksInv, PromptInv, IInv, CashBookedOnce, Alternates
  <2>2. \A o \in DOMAIN i : i[o] \in Nat
    BY DEF BooksInv, PromptInv, IInv, TypeOK, IsJournal, Codes, Entry
  <2> QED BY <1>1, <2>1, <2>2
<1>4. SumFunctionOnSet(i, D) = SumFunctionOnSet(b, D) /\ SumFunctionOnSet(i, D) \in Int
  <2> HIDE DEF D, b, i
  <2> QED BY <1>2, <1>3, SumSame, SumInt
<1>5. CASE ~Unreversed
  BY <1>1, <1>4, <1>5 DEF Posted, SumFunction
<1>6. CASE Unreversed
  <2>1. b[n] = Due /\ Due \in Int
    BY <1>1, <1>6, PlannedBatches DEF BooksInv, PromptInv, LegsKept
  <2>2. \A e \in D \cup {n} : b[e] \in Int
    BY <1>3, <2>1
  <2>3. SumFunctionOnSet(b, D \cup {n}) = b[n] + SumFunctionOnSet(b, D)
    <3> HIDE DEF D, b, n
    <3> QED BY <1>2, <2>2, SumAdd
  <2>4. DOMAIN b = D \cup {n}
    BY <1>1, <1>2, <1>6
  <2>5. Posted(ledger, "payment") = SumFunctionOnSet(b, D \cup {n}) /\ Posted(ledger, "reversal") = SumFunctionOnSet(i, D)
    BY <1>1, <2>4 DEF Posted, SumFunction
  <2>6. SumFunctionOnSet(b, D) \in Int
    BY <1>4
  <2> HIDE DEF D, b, i, n
  <2> QED BY <1>4, <1>6, <2>1, <2>3, <2>5, <2>6
<1> QED BY <1>5, <1>6

\* At rest, the books agree with the row.
LEMMA BooksAtRest ==
    ASSUME BooksInv, Quiescent, invoice.status # "void"
    PROVE  Balance(ledger, "AR") = Owed /\ \A others \in Others : ~Reported(others)
<1> DEFINE P(c) == Posted(ledger, c)
<1>1. \A t \in Threads : ~Settling(t) /\ ~Reversing(t)
  BY DEF Quiescent, Quiet, Settling, Reversing
<1>2. Unreversed <=> invoice.status = "paid"
  BY <1>1 DEF BooksInv, CashFollows
<1>3. IsJournal(ledger) /\ invoice \in Invoice
  BY DEF BooksInv, PromptInv, IInv, TypeOK
<1>4. /\ P("invoice") = Total /\ P("tax") = Tax /\ P("credit") = Credit /\ P("drain") = Wallet
      /\ P("tds") = 0 /\ P("writeOff") = 0 /\ P("writeOffTax") = 0 /\ P("badDebt") = 0
      /\ P("recovery") = 0 /\ P("recoveryTax") = 0 /\ P("badDebtRecovery") = 0
  BY IssuedSums DEF BooksInv, LegsKept
<1>5. P("payment") - P("reversal") = IF invoice.status = "paid" THEN Due ELSE 0
  BY <1>2, CashSums
<1>6. P("payment") \in Int /\ P("reversal") \in Int /\ Due \in Nat /\ Due = Total - Credit - Wallet
  BY <1>3, PostedNat, PlannedBatches DEF Codes, Entry, BooksInv, PromptInv, Due
<1>7. /\ Balance(ledger, "AR") =
           (P("invoice") + P("reversal") + P("recovery") + P("recoveryTax") + P("badDebtRecovery"))
         - (P("payment") + P("credit") + P("tds") + P("drain")
              + (P("writeOff") + P("writeOffTax") + P("badDebt")))
      /\ Balance(ledger, "Cash") = P("payment") - P("reversal")
  BY <1>3, BalanceSums
<1> HIDE DEF P
<1>8. Balance(ledger, "AR") = IF invoice.status = "paid" THEN 0 ELSE Due
  BY <1>4, <1>5, <1>6, <1>7
<1>9. RowKept
  BY DEF BooksInv
<1>10. Balance(ledger, "AR") = Owed
  BY <1>6, <1>8, <1>9 DEF Owed, RowKept
<1>11. \A others \in Others : ~AbnormalSign(ledger, others)
  <2>1. \A others \in Others : others.receivable \in Nat /\ others.cash \in Nat
    BY AmountsAssumption DEF Others
  <2>2. Balance(ledger, "AR") \in Nat /\ Balance(ledger, "Cash") \in Nat
    BY <1>5, <1>6, <1>7, <1>8
  <2> QED BY <2>1, <2>2 DEF AbnormalSign
<1>12. ~PaymentMismatch(ledger, invoice.status, invoice.amountPaid)
  BY <1>4, <1>5, <1>6, <1>9 DEF PaymentMismatch, RowKept, P
<1>13. /\ ~InvoiceMismatch(ledger) /\ ~TaxMismatch(ledger) /\ ~CreditMismatch(ledger)
       /\ ~WriteOffMismatch(ledger, invoice.status)
  BY <1>4, <1>9 DEF InvoiceMismatch, TaxMismatch, CreditMismatch, WriteOffMismatch, RowKept, P
<1> QED BY <1>10, <1>11, <1>12, <1>13 DEF Reported

\* At rest, the receivable in the ledger is what the invoice row asks for, through any
\* number of settlements, returns and repeated events.
THEOREM ReceivableIsOwed ==
    ASSUME Undisturbed
    PROVE  Spec => []ReceivableMatches
<1>1. BooksInv => ReceivableMatches
  BY BooksAtRest DEF ReceivableMatches
<1>2. Init => BooksInv
  BY BooksInit
<1>3. BooksInv /\ [Next]_vars => BooksInv'
  BY BooksStep
<1> QED BY <1>1, <1>2, <1>3, PTL DEF Spec

\* Reconciliation reports nothing of books that are right.
THEOREM RightBooksAreSilent ==
    ASSUME Undisturbed
    PROVE  Spec => []NoFalseAlarm
<1>1. BooksInv => NoFalseAlarm
  BY BooksAtRest DEF NoFalseAlarm
<1>2. Init => BooksInv
  BY BooksInit
<1>3. BooksInv /\ [Next]_vars => BooksInv'
  BY BooksStep
<1> QED BY <1>1, <1>2, <1>3, PTL DEF Spec
=============================================================================
