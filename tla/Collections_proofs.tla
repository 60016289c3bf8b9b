------------------------- MODULE Collections_proofs -------------------------
(***************************************************************************)
(* That the saved card is charged at most once, and a mandate invoice      *)
(* never, for every number of runners, retry limit, fault and operator     *)
(* action, and even when leases lapse under the runners that hold them;    *)
(* and, where leases last, that giving up is complete and never befalls an *)
(* invoice whose charge was taken.  The first rest on what a retry count   *)
(* and the gateway's answers say of each other, the second on the lease:   *)
(* one loop works at a time and knows the row it writes.                   *)
(***************************************************************************)
EXTENDS Collections, FiniteSetTheorems, TLAPS

USE CollectionsAssumption

RunnerType == [pc : PC, seen : Row]

\* The variables the invariant only bounds.
OtherType ==
    /\ mandate \in BOOLEAN
    /\ attempt \in {"none", "processing", "succeeded", "failed", "returned"}
    /\ paidElsewhere \in BOOLEAN /\ writtenOff \in BOOLEAN /\ canceled \in BOOLEAN
    /\ clicks \in 0..MaxClicks /\ faults \in 0..MaxFaults

\* The three parts of CInv a step can disturb.
RowPart == row \in Row /\ RowOK(row)
RunnerPart ==
    /\ runner = [r \in Runners |-> runner[r]]
    /\ \A r \in Runners : runner[r] \in RunnerType /\ RunnerOK(runner[r])
KeyPart == /\ captured \subseteq Nat /\ declined \subseteq Nat /\ unclear \subseteq Nat
           /\ KeysOK

LEMMA Parts ==
    CInv <=> RowPart /\ RunnerPart /\ KeyPart /\ OtherType
BY DEF CInv, TypeOK, RowPart, RunnerPart, KeyPart, OtherType, RunnerType

LEMMA PartsNext ==
    CInv' <=> RowPart' /\ RunnerPart' /\ KeyPart' /\ OtherType'
BY Parts, PTL

LEMMA InitInv == Init => CInv
<1> SUFFICES ASSUME Init PROVE CInv
  OBVIOUS
<1>1. Overdue \in Row /\ RowOK(Overdue)
  BY DEF Overdue, Row, RowOK
<1>2. TypeOK
  <2>1. paidElsewhere \in BOOLEAN /\ writtenOff \in BOOLEAN /\ canceled \in BOOLEAN
    BY Zenon DEF Init
  <2>2. runner \in [Runners -> [pc : PC, seen : Row]]
    BY <1>1 DEF Init, Idle, PC
  <2>3. mandate \in BOOLEAN
    BY DEF Init
  <2> QED BY <1>1, <2>1, <2>2, <2>3 DEF Init, TypeOK
<1>3. \A r \in Runners : RunnerOK(runner[r])
  BY <1>1 DEF Init, RunnerOK, Idle
<1> QED BY <1>1, <1>2, <1>3 DEF Init, CInv, KeysOK

\* The gateway's answers only grow, so what they establish stays established.
LEMMA Grow ==
    ASSUME declined \cup unclear \subseteq declined' \cup unclear', UNCHANGED mandate
    PROVE  /\ \A k \in Nat : Answered(k) => Answered(k)'
           /\ \A x \in Row : RowOK(x) => RowOK(x)'
           /\ \A y \in RunnerType : RunnerOK(y) => RunnerOK(y)'
<1>1. \A k \in Nat : Answered(k) => Answered(k)'
  BY DEF Answered
<1>2. \A x \in Row : RowOK(x) => RowOK(x)'
  BY <1>1 DEF RowOK, Row
<1> QED BY <1>1, <1>2 DEF RunnerOK, RunnerType

\* A step that leaves a runner where it is, or moves one.
LEMMA RunnersStay ==
    ASSUME CInv, declined \cup unclear \subseteq declined' \cup unclear', UNCHANGED <<mandate, runner>>
    PROVE  RunnerPart'
BY Parts, Grow DEF RunnerPart

LEMMA RunnerMoves ==
    ASSUME CInv, declined \cup unclear \subseteq declined' \cup unclear', UNCHANGED mandate, NEW r \in Runners, NEW pc \in PC, NEW s \in Row,
           runner' = [runner EXCEPT ![r] = [pc |-> pc, seen |-> s]],
           RunnerOK([pc |-> pc, seen |-> s])'
    PROVE  RunnerPart'
<1>1. \A q \in Runners : runner[q] \in RunnerType /\ RunnerOK(runner[q])
  BY Parts DEF RunnerPart
<1>2. [pc |-> pc, seen |-> s] \in RunnerType
  BY DEF RunnerType
<1>3. runner = [q \in Runners |-> runner[q]]
  BY Parts DEF RunnerPart
<1>4. \A q \in Runners : runner'[q] = IF q = r THEN [pc |-> pc, seen |-> s] ELSE runner[q]
  BY <1>3
<1>5. \A q \in Runners : runner'[q] \in RunnerType
  BY <1>1, <1>2, <1>4
<1>6. \A q \in Runners : RunnerOK(runner[q])'
  <2> TAKE q \in Runners
  <2>1. CASE q = r
    <3>1. runner'[q] = [pc |-> pc, seen |-> s]
      BY <1>4, <2>1
    <3> QED BY <3>1 DEF RunnerOK
  <2>2. CASE q # r
    <3>1. runner'[q] = runner[q]
      BY <1>4, <2>2
    <3>2. RunnerOK(runner[q]) /\ runner[q] \in RunnerType
      BY <1>1
    <3> QED BY <3>1, <3>2, Grow
  <2> QED BY <2>1, <2>2
<1>7. runner' = [q \in Runners |-> runner'[q]]
  BY <1>3
<1> QED BY <1>5, <1>6, <1>7 DEF RunnerPart

\* A step that neither asks the card gateway nor takes the debit back.
LEMMA QuietStep ==
    ASSUME CInv, UNCHANGED <<captured, declined, unclear, mandate>>, OtherType', row' \in Row, RowOK(row)',
           \/ UNCHANGED runner
           \/ \E r \in Runners, pc \in PC, s \in Row :
                /\ runner' = [runner EXCEPT ![r] = [pc |-> pc, seen |-> s]]
                /\ RunnerOK([pc |-> pc, seen |-> s])'
    PROVE  CInv'
<1>1. RowPart'
  BY DEF RowPart
<1>2. KeyPart'
  BY Parts DEF KeyPart, KeysOK, Answered
<1>3. RunnerPart'
  BY RunnersStay, RunnerMoves
<1> QED BY <1>1, <1>2, <1>3, PartsNext

\* A step that asks the card gateway: it answers, its answer is lost, or an API
\* error leaves open what it did.
LEMMA CardStep ==
    ASSUME CInv, NEW r \in Runners, runner[r].pc = "charge",
           NEW pc \in {"settle", "reschedule", "declined"},
           \/ CardCaptures(runner[r].seen.retries) \/ CardDeclines(runner[r].seen.retries)
           \/ UNCHANGED <<captured, declined>>,
           \/ UNCHANGED unclear /\ (pc = "declined" => CardDeclines(runner[r].seen.retries))
           \/ unclear' = unclear \cup {runner[r].seen.retries},
           Goto(r, pc), UNCHANGED <<row, mandate>>, OtherType'
    PROVE  CInv'
<1>0. PICK s \in Row, k \in Nat : s = runner[r].seen /\ k = runner[r].seen.retries
  BY Parts DEF RunnerPart, RunnerType, Row
<1>1. /\ k = s.retries /\ RowOK(s) /\ ~mandate
      /\ k # 0 /\ Answered(k) /\ s.managedBy = "worker"
  BY <1>0, Parts DEF RunnerPart, RunnerType, Row, RunnerOK, RowOK
<1>2. declined \cup unclear \subseteq declined' \cup unclear'
  BY DEF CardCaptures, CardDeclines
<1>3. KeyPart'
  <2>1. captured \subseteq Nat /\ declined \subseteq Nat /\ unclear \subseteq Nat /\ KeysOK
    BY Parts DEF KeyPart
  <2>2. /\ captured' \subseteq Nat /\ declined' \subseteq Nat /\ unclear' \subseteq Nat
        /\ captured' \cap declined' = {} /\ captured' \subseteq captured \cup {k}
    BY <1>0, <2>1 DEF CardCaptures, CardDeclines, KeysOK
  <2>3. \A c \in captured' : c # 0 /\ Answered(c)'
    BY <1>0, <1>1, <1>2, <2>1, <2>2, Grow DEF KeysOK
  <2> QED BY <1>1, <2>2, <2>3 DEF KeyPart, KeysOK
<1>4. RowPart'
  BY <1>2, Parts, Grow DEF RowPart
<1>5. RunnerOK([pc |-> pc, seen |-> s])'
  <2>1. RowOK(s)'
    BY <1>1, <1>2, Grow
  <2>2. pc = "declined" => k \in declined' \cup unclear'
    BY <1>0 DEF CardDeclines
  <2> QED BY <1>1, <2>1, <2>2 DEF RunnerOK
<1>6. RunnerPart'
  <2>1. runner' = [runner EXCEPT ![r] = [pc |-> pc, seen |-> s]] /\ pc \in PC
    BY <1>0 DEF Goto, Continue, PC
  <2> QED BY <1>1, <1>2, <1>5, <2>1, RunnerMoves
<1> QED BY <1>3, <1>4, <1>6, PartsNext

\* How an invoice pays does not change while it is collected.
LEMMA MandateStays == [Next]_vars => UNCHANGED mandate
<1> SUFFICES ASSUME [Next]_vars PROVE UNCHANGED mandate
  OBVIOUS
<1> USE DEF Elapse, CustomerPays, DebitBegins, DebitClears, DebitFails, DebitReturned,
        RequeueForRetry, SetDunningPaused, VoidIfOpen, ClaimOverdueForDunning,
        ClaimDueForRetry, Claim, WriteOffByHand, Crash, ChargeUnanswered, ApiError, MayTake, SettleFails,
        LedgerFails, LookupFails, CheckInFlight, MarkAsUncollectible, HandOff,
        ChargeInvoice, Reschedule, Settle, Reload, ClearDunning, RetryFailed, GiveUp,
        PostWriteOff, CancelForNonPayment, Work
<1> QED BY Zenon DEF Next, vars, bounds, Click, Fault

\* What the other variables hold after a step.
LEMMA OtherStep == CInv /\ [Next]_vars => OtherType'
<1> SUFFICES ASSUME CInv, [Next]_vars PROVE OtherType'
  OBVIOUS
<1>1. OtherType
  BY Parts
<1> USE DEF Elapse, CustomerPays, DebitBegins, DebitClears, DebitFails, DebitReturned,
        RequeueForRetry, SetDunningPaused, VoidIfOpen, ClaimOverdueForDunning,
        ClaimDueForRetry, Claim, WriteOffByHand, Crash, ChargeUnanswered, ApiError, MayTake, SettleFails,
        LedgerFails, LookupFails, CheckInFlight, MarkAsUncollectible, HandOff,
        ChargeInvoice, Reschedule, Settle, Reload, ClearDunning, RetryFailed, GiveUp,
        PostWriteOff, CancelForNonPayment, Work
<1>2. clicks' \in 0..MaxClicks
  <2>1. UNCHANGED clicks \/ Click
    BY Zenon DEF Next, vars, bounds
  <2> QED BY <1>1, <2>1 DEF OtherType, Click
<1>3. faults' \in 0..MaxFaults
  <2>1. UNCHANGED faults \/ \E kind \in Faults : Fault(kind)
    BY Zenon DEF Next, vars, bounds, Fault
  <2> QED BY <1>1, <2>1 DEF OtherType, Fault
<1>4. attempt' \in {"none", "processing", "succeeded", "failed", "returned"}
  <2>1. \/ UNCHANGED attempt
        \/ attempt' = "processing" \/ attempt' = "succeeded" \/ attempt' = "failed"
        \/ attempt' = "returned"
    BY Zenon DEF Next, vars, money, card, CardCaptures, CardDeclines, BankTakes
  <2> QED BY <1>1, <2>1 DEF OtherType
<1>5. paidElsewhere' \in BOOLEAN
  BY <1>1, ZenonT(30) DEF OtherType, Next, vars, money, card, CardCaptures, CardDeclines, BankTakes
<1>6. writtenOff' \in BOOLEAN /\ canceled' \in BOOLEAN
  BY <1>1, ZenonT(30) DEF OtherType, Next, vars, books, MarkInvoicePaid
<1>7. mandate' \in BOOLEAN
  BY <1>1, MandateStays DEF OtherType
<1> QED BY <1>2, <1>3, <1>4, <1>5, <1>6, <1>7 DEF OtherType

\* A returned debit leaves a past_due row with the scheduler, and RetryNow takes
\* such a row to the worker with a retry count no handoff made.  A sweep that
\* claimed the row before the click then hands it over with that count plus one,
\* past a charge that was not declined (the run retry_during_sweep).  A debit of
\* a saved bank account counts as a failed attempt (BankTakes).
NoRecharge ==
    /\ "savedBank" \notin Stimuli
    /\ "return" \notin Stimuli \/ "operator" \notin Stimuli

\* A mandate invoice needs no such assumption.
Guarded == mandate \/ NoRecharge

\* Of two distinct keys that were charged, the larger one's invoice reached its
\* retry count past the smaller one, which was not declined: by an API error.
LEMMA OneKey == TypeOK /\ KeysOK => \A j, k \in Known : j = k
<1> SUFFICES ASSUME TypeOK, KeysOK, NEW j \in Known, NEW k \in Known, j < k
             PROVE  FALSE
  BY DEF TypeOK, Known
<1>1. j \in Nat /\ k \in Nat /\ j # 0 /\ j \in captured /\ k \in captured
  BY DEF TypeOK, KeysOK, Known
<1>2. j \in 1..(k - 1)
  BY <1>1
<1>3. j \in declined
  BY <1>1, <1>2 DEF KeysOK, Answered, Known
<1> QED BY <1>1, <1>3 DEF KeysOK

LEMMA ChargedOnceHolds == CInv => ChargedOnce
<1> SUFFICES ASSUME CInv PROVE Cardinality(Known) <= 1
  BY DEF ChargedOnce
<1>1. \A j, k \in Known : j = k
  BY OneKey DEF CInv
<1>2. CASE Known = {}
  BY <1>2, FS_EmptySet
<1>3. CASE Known # {}
  <2>1. PICK k \in Known : Known = {k}
    BY <1>1, <1>3
  <2>2. Cardinality({k}) = 1
    BY FS_Singleton
  <2> QED BY <2>1, <2>2
<1> QED BY <1>2, <1>3

LEMMA NextInv == Guarded /\ CInv /\ [Next]_vars => CInv'
<1> SUFFICES ASSUME Guarded, CInv, [Next]_vars PROVE CInv'
  OBVIOUS
<1>0. UNCHANGED mandate
  BY MandateStays
<1>1. OtherType'
  BY OtherStep
<1>2. /\ row \in Row /\ RowOK(row)
      /\ \A r \in Runners : /\ runner[r].pc \in PC /\ runner[r].seen \in Row
                            /\ RunnerOK(runner[r]) /\ RowOK(runner[r].seen)
      /\ Overdue \in Row /\ RowOK(Overdue) /\ RunnerOK(Idle)
      /\ Idle = [pc |-> "idle", seen |-> Overdue]
  BY Parts DEF RowPart, RunnerPart, RunnerType, RunnerOK, Overdue, Row, RowOK, Idle
<1> USE <1>0, <1>1, <1>2, QuietStep
<1>3. CASE UNCHANGED vars
  BY <1>3 DEF vars, RowOK, Answered
<1>4. CASE Elapse \/ VoidIfOpen \/ SetDunningPaused \/ RequeueForRetry
  <2>1. CASE Elapse
    BY <2>1 DEF Elapse, money, card, RowOK, Answered, Row
  <2>2. CASE VoidIfOpen
    BY <2>2 DEF VoidIfOpen, money, card, RowOK, Answered, Row
  <2>3. CASE SetDunningPaused
    <3>1. UNCHANGED <<captured, declined, unclear, runner>>
      BY <2>3 DEF SetDunningPaused, money, card
    <3>2. row' \in Row
      BY <2>3 DEF SetDunningPaused, Row
    <3>3. RowOK(row)'
      BY <2>3, <3>1, <3>2 DEF SetDunningPaused, RowOK, Answered, Row
    <3> QED BY <3>1, <3>2, <3>3
  <2>4. CASE RequeueForRetry
    <3>1. UNCHANGED <<captured, declined, unclear, runner>>
      BY <2>4 DEF RequeueForRetry, money, card
    <3>2. row' \in Row
      BY <2>4 DEF RequeueForRetry, Row
    <3>3. RowOK(row)'
      <4>1. row'.managedBy = "worker" /\ row'.retries = row.retries /\ ~mandate
        BY <2>4 DEF RequeueForRetry, Row
      <4>2. row.status = "past_due" /\ "operator" \in Stimuli
        BY <2>4 DEF RequeueForRetry, Click
      <4>3. row.retries # 0 /\ Answered(row.retries)
        BY <4>1, <4>2 DEF RowOK
      <4>4. Answered(row.retries)'
        BY <3>1, <4>1, <4>3 DEF Answered
      <4> QED BY <4>1, <4>3, <4>4 DEF RowOK
    <3> QED BY <3>1, <3>2, <3>3
  <2> QED BY <1>4, <2>1, <2>2, <2>3, <2>4
<1>5. CASE CustomerPays \/ DebitBegins \/ DebitClears \/ DebitFails
  <2>1. CASE CustomerPays
    BY <2>1, ZenonT(30) DEF CustomerPays, MarkInvoicePaid, card, RowOK, Answered, Row
  <2>2. CASE DebitBegins
    BY <2>2 DEF DebitBegins, card, RowOK, Answered
  <2>3. CASE DebitClears
    BY <2>3, ZenonT(30) DEF DebitClears, MarkInvoicePaid, card, RowOK, Answered, Row
  <2>4. CASE DebitFails
    BY <2>4 DEF DebitFails, card, RowOK, Answered
  <2> QED BY <1>5, <2>1, <2>2, <2>3, <2>4
<1>6. CASE DebitReturned
  BY <1>6 DEF DebitReturned, card, Guarded, NoRecharge, RowOK, Answered, Row
<1>7. ASSUME NEW r \in Runners,
             ClaimOverdueForDunning(r) \/ ClaimDueForRetry(r)
      PROVE  CInv'
  BY <1>7 DEF ClaimOverdueForDunning, ClaimDueForRetry, Claim, Continue, money, card, RowOK,
              RunnerOK, Answered, Row, PC
<1>8. ASSUME NEW r \in Runners,
             CheckInFlight(r) \/ MarkAsUncollectible(r) \/ HandOff(r)
      PROVE  CInv'
  <2>1. CASE CheckInFlight(r)
    BY <2>1 DEF CheckInFlight, Done, Goto, Continue, money, card, RowOK, RunnerOK, Answered, PC
  <2>2. CASE MarkAsUncollectible(r)
    BY <2>2, ZenonT(30) DEF MarkAsUncollectible, Goto, Continue, money, card, RowOK, RunnerOK, Answered, Row, PC
  <2>3. CASE HandOff(r)
    <3> DEFINE n == runner[r].seen.retries
    <3>1. n \in Nat /\ (mandate \/ n = 0)
      BY <2>3 DEF HandOff, RunnerOK, Row
    <3>2. row' = [row EXCEPT !.status = "past_due", !.next = "later", !.retries = n + 1,
                             !.managedBy = IF mandate THEN "scheduler" ELSE "worker"]
      BY <2>3 DEF HandOff
    <3> DEFINE m == IF mandate THEN "scheduler" ELSE "worker"
    <3>3. row' \in Row /\ row'.retries = n + 1 /\ row'.managedBy = m
      <4>1. m \in {"scheduler", "worker"} /\ n + 1 \in Nat
        BY <3>1
      <4> HIDE DEF m, n
      <4> QED BY <3>2, <4>1 DEF Row, m
    <3>4. RowOK(row)'
      <4> HIDE DEF n
      <4> QED BY <3>1, <3>3 DEF RowOK, Answered
    <3>5. UNCHANGED <<captured, declined, unclear>> /\ runner' = [runner EXCEPT ![r] = Idle]
      BY <2>3 DEF HandOff, Done, money, card
    <3>6. RunnerOK(Idle)'
      BY <3>5 DEF RunnerOK, RowOK, Answered
    <3> QED BY <3>3, <3>4, <3>5, <3>6 DEF PC
  <2> QED BY <1>8, <2>1, <2>2, <2>3
<1>9. ASSUME NEW r \in Runners, ChargeInvoice(r) \/ ChargeUnanswered(r) \/ ApiError(r)
      PROVE  CInv'
  <2>1. runner[r].pc = "charge"
    BY <1>9 DEF ChargeInvoice, ChargeUnanswered, ApiError
  <2>2. "savedBank" \notin Stimuli
    BY <2>1 DEF Guarded, NoRecharge, RunnerOK
  <2>3. ~BankTakes(runner[r].seen.retries)
    BY <2>2 DEF BankTakes
  <2>4. CASE ChargeUnanswered(r) \/ ApiError(r)
    BY <2>1, <2>3, <2>4, CardStep DEF ChargeUnanswered, ApiError, MayTake, InfraError
  <2>5. CASE ChargeInvoice(r)
    <3>1. UNCHANGED <<row, unclear>>
      BY <2>5 DEF ChargeInvoice, money, card
    <3>2. CASE runner[r].seen.settled
      <4>1. UNCHANGED <<captured, declined>> /\ Goto(r, "settle")
        BY <2>5, <3>2 DEF ChargeInvoice, money, card
      <4> QED BY <2>1, <3>1, <4>1, CardStep
    <3>3. CASE ~runner[r].seen.settled
      BY <2>1, <2>3, <2>5, <3>1, <3>3, CardStep DEF ChargeInvoice
    <3> QED BY <3>2, <3>3
  <2> QED BY <1>9, <2>4, <2>5
<1>10. ASSUME NEW r \in Runners,
              Reschedule(r) \/ Settle(r) \/ Reload(r) \/ ClearDunning(r)
       PROVE  CInv'
  <2>1. CASE Reschedule(r) \/ ClearDunning(r)
    <3>1. row' \in Row /\ RowOK(row)'
      BY <2>1, ZenonT(30) DEF Reschedule, ClearDunning, Update, money, card, RowOK, Answered, Row
    <3> QED BY <2>1, <3>1 DEF Reschedule, ClearDunning, Done, money, card, RowOK, RunnerOK, Answered, PC
  <2>2. CASE Settle(r)
    <3>1. UNCHANGED <<captured, declined, unclear>>
      BY <2>2 DEF Settle, money, card
    <3>2. \/ UNCHANGED row
          \/ row' = [row EXCEPT !.status = "paid", !.settled = TRUE]
      BY <2>2 DEF Settle, MarkInvoicePaid
    <3>3. row' \in Row /\ RowOK(row)'
      BY <3>1, <3>2 DEF RowOK, Answered, Row
    <3>4. runner' = [runner EXCEPT ![r] = [pc |-> "reload", seen |-> runner[r].seen]]
      BY <2>2 DEF Settle, Goto, Continue
    <3>5. PICK s \in Row : s = runner[r].seen /\ RowOK(s)
      OBVIOUS
    <3>6. RunnerOK([pc |-> "reload", seen |-> s])'
      BY <3>1, <3>5 DEF RunnerOK, RowOK, Answered
    <3> QED BY <3>1, <3>3, <3>4, <3>5, <3>6 DEF PC
  <2>3. CASE Reload(r)
    BY <2>3 DEF Reload, Continue, money, card, RowOK, RunnerOK, Answered, PC
  <2> QED BY <1>10, <2>1, <2>2, <2>3
<1>11. ASSUME NEW r \in Runners, RetryFailed(r)
       PROVE  CInv'
  <2>1. PICK inv \in Row : inv = runner[r].seen /\ RowOK(inv)
    OBVIOUS
  <2>2. /\ runner[r].pc = "declined" /\ ~mandate /\ inv.managedBy = "worker"
        /\ inv.retries \in Nat /\ inv.retries # 0
        /\ 1..(inv.retries - 1) \subseteq declined \cup unclear
        /\ inv.retries \in declined \cup unclear
    BY <1>11, <2>1 DEF RetryFailed, RunnerOK, RowOK, Answered, Row
  <2>3. 1..inv.retries \subseteq declined \cup unclear
    BY <2>2
  <2>4. UNCHANGED <<captured, declined, unclear>>
    BY <1>11 DEF RetryFailed, money, card
  <2> DEFINE up == [inv EXCEPT !.retries = @ + 1]
  <2>5. up \in Row /\ up.managedBy = "worker" /\ up.retries = inv.retries + 1
    BY <2>2 DEF Row
  <2>6. PICK status \in {up.status, "past_due"}, next \in {"none", "later"} :
           row' = [up EXCEPT !.status = status, !.next = next, !.paused = row.paused]
    <3>1. CASE up.retries >= MaxAttempts
      <4>1. row' = [[up EXCEPT !.next = "none"] EXCEPT !.paused = row.paused]
        BY <1>11, <2>1, <3>1 DEF RetryFailed, Update
      <4> HIDE DEF up
      <4>2. row' = [up EXCEPT !.status = up.status, !.next = "none", !.paused = row.paused]
        BY <2>5, <4>1 DEF Row
      <4> QED BY <4>2
    <3>2. CASE ~(up.retries >= MaxAttempts)
      BY <1>11, <2>1, <3>2 DEF RetryFailed, Update
    <3> QED BY <3>1, <3>2
  <2>7. row' \in Row /\ row'.managedBy = "worker" /\ row'.retries = inv.retries + 1
    <3> HIDE DEF up
    <3> QED BY <2>5, <2>6 DEF Row
  <2>8. RowOK(row)'
    BY <2>2, <2>3, <2>4, <2>7 DEF RowOK, Answered
  <2>9. \/ runner' = [runner EXCEPT ![r] = [pc |-> "giveUp", seen |-> inv]]
        \/ runner' = [runner EXCEPT ![r] = Idle]
    BY <1>11, <2>1 DEF RetryFailed, Done, Goto, Continue
  <2>10. RunnerOK([pc |-> "giveUp", seen |-> inv])' /\ RunnerOK(Idle)'
    BY <2>1, <2>4 DEF RunnerOK, RowOK, Answered
  <2> QED BY <2>1, <2>4, <2>7, <2>8, <2>9, <2>10 DEF PC
<1>12. ASSUME NEW r \in Runners,
              GiveUp(r) \/ WriteOffByHand(r) \/ PostWriteOff(r) \/ CancelForNonPayment(r)
       PROVE  CInv'
  <2>1. CASE GiveUp(r) \/ WriteOffByHand(r)
    <3>1. UNCHANGED <<captured, declined, unclear>> /\ row' \in Row /\ RowOK(row)'
      <4>1. UNCHANGED <<captured, declined, unclear>>
        BY <2>1 DEF GiveUp, WriteOffByHand, money, card
      <4>2. \/ UNCHANGED row
            \/ row' = [row EXCEPT !.status = "uncollectible", !.next = "none"]
        BY <2>1 DEF GiveUp, WriteOffByHand, MarkUncollectibleScoped
      <4> QED BY <4>1, <4>2, ZenonT(30) DEF RowOK, Answered, Row
    <3>2. PICK pc \in {"writeOff", "post", "idle"}, s \in {runner[r].seen, Overdue} :
             runner' = [runner EXCEPT ![r] = [pc |-> pc, seen |-> s]]
      BY <2>1 DEF GiveUp, WriteOffByHand, MarkUncollectibleScoped, Done, Goto, Continue
    <3>3. s \in Row /\ RowOK(s)
      OBVIOUS
    <3>4. RunnerOK([pc |-> pc, seen |-> s])'
      BY <3>1, <3>3 DEF RowOK, RunnerOK, Answered
    <3> QED BY <3>1, <3>2, <3>3, <3>4 DEF PC
  <2>2. CASE PostWriteOff(r) \/ CancelForNonPayment(r)
    BY <2>2 DEF PostWriteOff, CancelForNonPayment, Done, Goto, Continue, money, card, RowOK,
                RunnerOK, Answered, PC
  <2> QED BY <1>12, <2>1, <2>2
<1>13. ASSUME NEW r \in Runners,
              Crash(r) \/ SettleFails(r) \/ LedgerFails(r) \/ LookupFails(r)
       PROVE  CInv'
  BY <1>13 DEF Crash, SettleFails, LedgerFails, LookupFails, Done, Goto, Continue, money, card,
               RowOK, RunnerOK, Answered, PC
<1> QED BY <1>3, <1>4, <1>5, <1>6, <1>7, <1>8, <1>9, <1>10, <1>11, <1>12, <1>13 DEF Next, Work

LEMMA Invariance == Spec => [](Guarded => CInv)
<1>1. Init => (Guarded => CInv)
  BY InitInv
<1>2. (Guarded => CInv) /\ [Next]_vars => (Guarded => CInv)'
  BY NextInv, MandateStays DEF Guarded
<1> QED BY <1>1, <1>2, PTL DEF Spec

\* Every variable keeps its type: a retry count never goes below zero and a row
\* keeps a status, a claim and an owner the loops understand.
THEOREM CollectionsTypes == NoRecharge => (Spec => []TypeOK)
<1> SUFFICES ASSUME NoRecharge PROVE Spec => []TypeOK
  OBVIOUS
<1>1. (Guarded => CInv) => TypeOK
  BY DEF Guarded, CInv
<1> QED BY <1>1, Invariance, PTL

\* The saved card is charged at most once for an invoice, whatever crashes,
\* answers are lost, leases lapse and loops overlap (retry_worker.go chargeInvoice), but for an
\* attempt Stripe answered with an API error (stripe.go ChargeSavedPaymentMethod).
THEOREM CardIsChargedOnce == NoRecharge => (Spec => []ChargedOnce)
<1> SUFFICES ASSUME NoRecharge PROVE Spec => []ChargedOnce
  OBVIOUS
<1>1. (Guarded => CInv) => ChargedOnce
  BY ChargedOnceHolds DEF Guarded
<1> QED BY <1>1, Invariance, PTL

\* The worker never charges an invoice a UPI mandate collects (ENG-168).
THEOREM MandateIsNeverRetried == Spec => []MandateIsNotRetried
<1>1. (Guarded => CInv) => MandateIsNotRetried
  BY DEF Guarded, CInv, KeysOK, MandateIsNotRetried
<1> QED BY <1>1, Invariance, PTL

----------------------------------------------------------------------------
\* The loops' own case: a lease outlasts the work it covers, no operator writes
\* the invoice off by hand, and the saved method is a card, which answers at once.
Exclusive ==
    /\ ~Overrun
    /\ "operator" \notin Stimuli /\ "savedBank" \notin Stimuli

\* The steps of a worker that still holds the row it loaded, and of any loop
\* that holds its lease.
Charging == {"charge", "reschedule", "settle", "reload", "clear"}
Leased == {"sweep", "dun", "declined"} \cup Charging

\* One loop works at a time.
Alone == \A q, r \in Runners : q = r \/ runner[q].pc = "idle" \/ runner[r].pc = "idle"

\* What keeps every other loop off the row: the lease, then the missing date,
\* then the status.  Until it gives up, the holder knows the row's owner and count.
Holding(x) ==
    /\ x.pc \in Leased =>
         /\ row.next = "later"
         /\ row.status # "uncollectible" /\ x.seen.status # "uncollectible"
    /\ x.pc \in Charging \cup {"declined"} =>
         /\ row.managedBy = "worker" /\ x.seen.managedBy = "worker"
         /\ row.retries = x.seen.retries
    /\ x.pc = "giveUp" =>
         row.managedBy = "worker" /\ row.next = "none" /\ row.status # "uncollectible"
    /\ x.pc \in {"writeOff", "cancel"} => ~Collectible
    /\ x.pc # "post"

\* A charge that was taken stays the current attempt, and no loop is past it.
Taken ==
    Known # {} =>
        /\ row.managedBy = "worker" /\ row.retries \in Known
        /\ row.status # "uncollectible"
        /\ \A r \in Runners : runner[r].pc \in {"idle"} \cup Charging

\* Unless its loop died, an invoice given up is on its way to being booked and
\* canceled, or is there.
Booked == writtenOff \/ "ledger" \in Faults
Given ==
    "crash" \notin Faults /\ row.status = "uncollectible" =>
        \/ \E r \in Runners : runner[r].pc = "writeOff" \/ (runner[r].pc = "cancel" /\ Booked)
        \/ canceled /\ Booked

EInv == Alone /\ (\A r \in Runners : Holding(runner[r])) /\ Taken /\ Given

\* A loop that works is alone, and what it holds is known.
LEMMA Worker ==
    ASSUME CInv, EInv, NEW r \in Runners, runner[r].pc # "idle"
    PROVE  /\ \A q \in Runners \ {r} : runner[q].pc = "idle"
           /\ Holding(runner[r])
           /\ Known # {} => runner[r].pc \in Charging
BY DEF EInv, Alone, Taken

\* A step of one loop while the others are idle.
LEMMA WorkStep ==
    ASSUME CInv, NEW r \in Runners, \A q \in Runners \ {r} : runner[q].pc = "idle",
           NEW pc \in PC, NEW s \in Row,
           runner' = [runner EXCEPT ![r] = [pc |-> pc, seen |-> s]],
           Holding([pc |-> pc, seen |-> s])',
           Known' # {} =>
               /\ row'.managedBy = "worker" /\ row'.retries \in Known'
               /\ row'.status # "uncollectible" /\ pc \in {"idle"} \cup Charging,
           "crash" \notin Faults /\ row'.status = "uncollectible" =>
               pc = "writeOff" \/ (pc = "cancel" /\ Booked') \/ (canceled' /\ Booked')
    PROVE  EInv'
<1>1. \A q \in Runners : runner'[q] = IF q = r THEN [pc |-> pc, seen |-> s] ELSE runner[q]
  BY Parts DEF RunnerPart
<1>2. Alone'
  BY <1>1 DEF Alone
<1>3. \A q \in Runners : Holding(runner[q])'
  <2> TAKE q \in Runners
  <2>1. CASE q = r
    <3>1. runner'[q] = [pc |-> pc, seen |-> s]
      BY <1>1, <2>1
    <3> QED BY <3>1 DEF Holding, Collectible
  <2>2. CASE q # r
    <3>1. runner'[q].pc = "idle"
      BY <1>1, <2>2
    <3> QED BY <3>1 DEF Holding, Leased, Charging
  <2> QED BY <2>1, <2>2
<1>4. Taken'
  BY <1>1 DEF Taken
<1>5. Given'
  BY <1>1 DEF Given
<1> QED BY <1>2, <1>3, <1>4, <1>5 DEF EInv

\* A step of another actor that leaves owner, count and date alone, and changes the
\* status neither to uncollectible nor, under a loop that has given up, back to a
\* collectible one.
LEMMA OutsideStep ==
    ASSUME CInv, EInv, UNCHANGED <<runner, Known, canceled>>,
           row'.managedBy = row.managedBy, row'.retries = row.retries, row'.next = row.next,
           row'.status = "uncollectible" => row.status = "uncollectible" /\ UNCHANGED writtenOff,
           Collectible' => Collectible \/ Quiet
    PROVE  EInv'
<1>1. Alone' /\ Taken'
  BY DEF EInv, Alone, Taken
<1>2. \A q \in Runners : Holding(runner[q])'
  <2> TAKE q \in Runners
  <2>1. Holding(runner[q]) /\ (Quiet => runner[q].pc = "idle")
    BY DEF EInv, Quiet
  <2> QED BY <2>1 DEF Holding, Leased, Charging
<1>3. Given'
  BY DEF EInv, Given, Booked
<1> QED BY <1>1, <1>2, <1>3 DEF EInv

LEMMA ExclusiveInit == Init => EInv
BY DEF Init, Known, EInv, Alone, Holding, Taken, Given, Idle, Overdue, Leased, Charging

LEMMA ExclusiveStep == Exclusive /\ CInv /\ EInv /\ [Next]_vars => EInv'
<1> SUFFICES ASSUME Exclusive, CInv, EInv, [Next]_vars PROVE EInv'
  OBVIOUS
<1>1. /\ row \in Row /\ Overdue \in Row /\ Idle = [pc |-> "idle", seen |-> Overdue]
      /\ \A r \in Runners : runner[r].pc \in PC /\ runner[r].seen \in Row
  BY Parts DEF RowPart, RunnerPart, RunnerType, Overdue, Row, Idle
<1>2. row.status = "uncollectible" => Known = {}
  BY DEF EInv, Taken
<1>3. CASE UNCHANGED vars
  BY <1>3, OutsideStep DEF vars, Known, Collectible
<1>4. CASE Elapse
  <2>1. Quiet /\ row' = [row EXCEPT !.next = "due"]
    BY <1>4 DEF Elapse, Exclusive
  <2>2. UNCHANGED <<Known, writtenOff, canceled, runner>>
    BY <1>4 DEF Elapse, money, card, Known, books
  <2>3. /\ row'.managedBy = row.managedBy /\ row'.retries = row.retries
        /\ row'.status = row.status
    BY <1>1, <2>1 DEF Row
  <2>4. Alone' /\ Taken' /\ Given'
    BY <2>2, <2>3 DEF EInv, Alone, Taken, Given, Booked
  <2>5. \A q \in Runners : Holding(runner[q])'
    BY <2>1, <2>2 DEF Quiet, Holding, Leased, Charging
  <2> QED BY <2>4, <2>5 DEF EInv
<1>5. CASE CustomerPays \/ DebitBegins \/ DebitClears \/ DebitFails \/ VoidIfOpen
  <2>1. UNCHANGED <<runner, Known, canceled>>
    BY <1>5 DEF CustomerPays, DebitBegins, DebitClears, DebitFails, VoidIfOpen, money, card, Known, books
  <2>2. \/ UNCHANGED <<row, writtenOff>>
        \/ row' = [row EXCEPT !.status = "paid", !.settled = TRUE]
        \/ row' = [row EXCEPT !.status = "void"]
    BY <1>5 DEF CustomerPays, DebitBegins, DebitClears, DebitFails, VoidIfOpen,
                MarkInvoicePaid, books
  <2> QED BY <1>1, <2>1, <2>2, OutsideStep DEF Row, Collectible
<1>6. CASE DebitReturned
  <2>1. UNCHANGED <<runner, Known, canceled, writtenOff>> /\ Quiet
    BY <1>6 DEF DebitReturned, card, Known, books, Exclusive
  <2>2. \/ UNCHANGED row
        \/ row' = [row EXCEPT !.status = "past_due", !.settled = FALSE]
    BY <1>6 DEF DebitReturned
  <2> QED BY <1>1, <2>1, <2>2, OutsideStep DEF Row, Collectible
<1>7. CASE RequeueForRetry \/ SetDunningPaused \/ \E r \in Runners : WriteOffByHand(r)
  BY <1>7 DEF RequeueForRetry, SetDunningPaused, WriteOffByHand, Click, Exclusive
<1>8. ASSUME NEW r \in Runners, ClaimOverdueForDunning(r) \/ ClaimDueForRetry(r)
      PROVE  EInv'
  <2>1. PICK pc \in {"sweep", "charge"} :
           /\ Claim(r, pc)
           /\ IF pc = "sweep" THEN row.next # "later" /\ row.managedBy = "scheduler"
                              ELSE row.next = "due" /\ row.managedBy = "worker"
    BY <1>8 DEF ClaimOverdueForDunning, ClaimDueForRetry
  <2>2. Collectible /\ runner[r].pc = "idle" /\ row' = [row EXCEPT !.next = "later"]
    BY <2>1 DEF Claim
  <2>3. \A q \in Runners \ {r} : runner[q].pc = "idle"
    <3> SUFFICES ASSUME NEW q \in Runners, runner[q].pc # "idle" PROVE FALSE
      OBVIOUS
    <3>1. Holding(runner[q]) /\ runner[q].pc \in PC
      BY <1>1 DEF EInv
    <3> QED BY <2>1, <2>2, <3>1 DEF Holding, Leased, Charging, PC
  <2>4. /\ row' \in Row /\ row'.managedBy = row.managedBy /\ row'.retries = row.retries
        /\ row'.status = row.status /\ row'.next = "later"
    BY <1>1, <2>2 DEF Row
  <2>5. PICK s \in Row : s = row'
    BY <2>4
  <2>6. runner' = [runner EXCEPT ![r] = [pc |-> pc, seen |-> s]] /\ UNCHANGED Known
    BY <2>1, <2>5 DEF Claim, Continue, money, card, Known
  <2>7. row'.status # "uncollectible" /\ pc \in PC
    BY <2>2, <2>4 DEF Collectible, PC
  <2>8. Holding([pc |-> pc, seen |-> s])'
    BY <2>1, <2>4, <2>5, <2>7 DEF Holding, Leased, Charging
  <2>9. Known' # {} =>
          /\ row'.managedBy = "worker" /\ row'.retries \in Known'
          /\ row'.status # "uncollectible" /\ pc \in {"idle"} \cup Charging
    BY <2>1, <2>4, <2>6 DEF EInv, Taken, Charging
  <2> QED BY <2>3, <2>4, <2>5, <2>6, <2>7, <2>8, <2>9, WorkStep
<1>9. ASSUME NEW r \in Runners, Work(r) \/ Crash(r) \/ ChargeUnanswered(r) \/ ApiError(r) \/ SettleFails(r)
                                \/ LedgerFails(r) \/ LookupFails(r)
      PROVE  EInv'
  <2>1. PICK s \in Row : s = runner[r].seen
    BY <1>1
  <2>2. runner[r].pc # "idle"
    BY <1>9 DEF Work, CheckInFlight, MarkAsUncollectible, HandOff, ChargeInvoice, Reschedule,
                Settle, Reload, ClearDunning, RetryFailed, GiveUp, PostWriteOff,
                CancelForNonPayment, Crash, ChargeUnanswered, ApiError, MayTake, SettleFails, LedgerFails, LookupFails
  <2>3. /\ \A q \in Runners \ {r} : runner[q].pc = "idle"
        /\ Holding(runner[r])
        /\ Known # {} => runner[r].pc \in Charging
    BY <2>2, Worker
  <2>4. Known # {} =>
          /\ row.managedBy = "worker" /\ row.retries \in Known
          /\ row.status # "uncollectible"
    BY DEF EInv, Taken
  <2> USE <2>1, <2>3, <2>4
  \* The scheduler: nothing has been charged yet.
  <2>5. CASE CheckInFlight(r) \/ LookupFails(r)
    <3>1. PICK pc \in {"idle", "dun"}, t \in {s, Overdue} :
             /\ runner' = [runner EXCEPT ![r] = [pc |-> pc, seen |-> t]]
             /\ pc = "dun" => t = s
      BY <1>1, <2>5 DEF CheckInFlight, LookupFails, Done, Goto, Continue
    <3>2. UNCHANGED <<row, Known>> /\ runner[r].pc = "sweep"
      BY <2>5 DEF CheckInFlight, LookupFails, money, card, Known
    <3>3. Known = {} /\ row.status # "uncollectible"
      BY <3>2 DEF Holding, Leased, Charging
    <3>4. Holding([pc |-> pc, seen |-> t])'
      BY <3>1, <3>2 DEF Holding, Leased, Charging
    <3> QED BY <1>1, <3>1, <3>2, <3>3, <3>4, WorkStep DEF PC
  <2>6. CASE MarkAsUncollectible(r)
    <3>1. /\ runner' = [runner EXCEPT ![r] = [pc |-> "writeOff", seen |-> s]]
          /\ row' = [row EXCEPT !.status = "uncollectible", !.next = "none"]
          /\ UNCHANGED Known /\ Known = {}
      BY <2>6 DEF MarkAsUncollectible, Goto, Continue, money, card, Known, Charging
    <3>2. row'.status = "uncollectible"
      BY <1>1, <3>1 DEF Row
    <3>3. Holding([pc |-> "writeOff", seen |-> s])'
      BY <3>2 DEF Holding, Leased, Charging, Collectible
    <3> QED BY <3>1, <3>3, WorkStep DEF PC
  <2>7. CASE HandOff(r)
    <3>1. /\ runner' = [runner EXCEPT ![r] = [pc |-> "idle", seen |-> Overdue]]
          /\ row'.status = "past_due"
          /\ UNCHANGED Known /\ Known = {}
      BY <1>1, <2>7 DEF HandOff, Done, money, card, Known, Charging, Row
    <3>2. Holding([pc |-> "idle", seen |-> Overdue])'
      BY DEF Holding, Leased, Charging
    <3> QED BY <1>1, <3>1, <3>2, WorkStep DEF PC
  \* The charge: its key carries the row's own count.
  <2>8. CASE ChargeInvoice(r) \/ ChargeUnanswered(r) \/ ApiError(r)
    <3>1. /\ row.next = "later" /\ row.status # "uncollectible" /\ s.status # "uncollectible"
          /\ row.managedBy = "worker" /\ s.managedBy = "worker" /\ row.retries = s.retries
      BY <2>8 DEF ChargeInvoice, ChargeUnanswered, ApiError, Holding, Leased, Charging
    <3> DEFINE k == s.retries
    <3>2. /\ ~BankTakes(k) /\ UNCHANGED row
          /\ Known # {} => k \in Known /\ Known = {k}
      BY <2>8, <3>1, OneKey DEF ChargeInvoice, ChargeUnanswered, ApiError, BankTakes, Exclusive, CInv
    <3>3. PICK pc \in {"settle", "declined", "reschedule"} :
             /\ runner' = [runner EXCEPT ![r] = [pc |-> pc, seen |-> s]]
             /\ \/ CardCaptures(k) \/ CardDeclines(k) \/ UNCHANGED <<captured, declined>>
             /\ \/ UNCHANGED unclear /\ (pc = "declined" => CardDeclines(k))
                \/ unclear' = unclear \cup {k} /\ pc = "declined"
      <4>1. CASE ChargeUnanswered(r)
        BY <3>2, <4>1 DEF ChargeUnanswered, MayTake, InfraError, Goto, Continue
      <4>2. CASE ApiError(r)
        BY <3>2, <4>2 DEF ApiError, MayTake, Goto, Continue
      <4>3. CASE ChargeInvoice(r)
        BY <3>2, <4>3 DEF ChargeInvoice, Goto, Continue, money, card
      <4> QED BY <2>8, <4>1, <4>2, <4>3
    <3> HIDE DEF k
    <3>4. captured' \subseteq captured \cup {k}
      BY <3>3 DEF CardCaptures, CardDeclines
    <3>5. Known' # {} => k \in Known' /\ pc # "declined"
      <4>1. Known' \subseteq {k}
        BY <3>2, <3>3, <3>4 DEF Known
      <4>2. CardDeclines(k) => k \notin captured'
        BY DEF CardDeclines
      <4> QED BY <3>3, <4>1, <4>2 DEF Known
    <3>6. Holding([pc |-> pc, seen |-> s])'
      BY <3>1, <3>2, <3>3 DEF Holding, Leased, Charging
    <3>7. Known' # {} => row'.retries \in Known' /\ pc \in {"idle"} \cup Charging
      BY <3>1, <3>2, <3>5 DEF Charging, k
    <3>8. /\ pc \in PC /\ runner' = [runner EXCEPT ![r] = [pc |-> pc, seen |-> s]]
          /\ row'.managedBy = "worker" /\ row'.status # "uncollectible"
      BY <3>1, <3>2, <3>3 DEF PC
    <3> QED BY <3>6, <3>7, <3>8, WorkStep
  \* The worker writes the row it loaded.
  <2>9. CASE Reschedule(r) \/ ClearDunning(r)
    <3>1. /\ s.status # "uncollectible" /\ s.managedBy = "worker" /\ row.retries = s.retries
      BY <2>9 DEF Reschedule, ClearDunning, Holding, Leased, Charging
    <3>2. PICK next \in {"none", "later"} :
             row' = [[s EXCEPT !.next = next] EXCEPT !.paused = row.paused]
      BY <2>9 DEF Reschedule, ClearDunning, Update
    <3>3. /\ runner' = [runner EXCEPT ![r] = [pc |-> "idle", seen |-> Overdue]]
          /\ UNCHANGED Known
      BY <1>1, <2>9 DEF Reschedule, ClearDunning, Done, money, card, Known
    <3>4. row'.status = s.status /\ row'.managedBy = s.managedBy /\ row'.retries = s.retries
      BY <3>2 DEF Row
    <3>5. Holding([pc |-> "idle", seen |-> Overdue])'
      BY DEF Holding, Leased, Charging
    <3>6. "idle" \in PC /\ Overdue \in Row
      BY <1>1 DEF PC
    <3> QED BY <1>1, <3>1, <3>3, <3>4, <3>5, <3>6, WorkStep
  <2>10. CASE Settle(r)
    <3>1. /\ row.next = "later" /\ row.status # "uncollectible" /\ s.status # "uncollectible"
          /\ row.managedBy = "worker" /\ s.managedBy = "worker" /\ row.retries = s.retries
      BY <2>10 DEF Settle, Holding, Leased, Charging
    <3>2. /\ runner' = [runner EXCEPT ![r] = [pc |-> "reload", seen |-> s]]
          /\ UNCHANGED Known
      BY <2>10 DEF Settle, Goto, Continue, money, card, Known
    <3>3. UNCHANGED row \/ row' = [row EXCEPT !.status = "paid", !.settled = TRUE]
      BY <2>10 DEF Settle, MarkInvoicePaid
    <3>4. /\ row'.next = "later" /\ row'.status # "uncollectible"
          /\ row'.managedBy = "worker" /\ row'.retries = row.retries
      BY <1>1, <3>1, <3>3 DEF Row
    <3>5. Holding([pc |-> "reload", seen |-> s])'
      BY <3>1, <3>4 DEF Holding, Leased, Charging
    <3> QED BY <3>2, <3>4, <3>5, WorkStep DEF PC, Charging
  <2>11. CASE Reload(r)
    <3>1. row.next = "later" /\ row.status # "uncollectible" /\ row.managedBy = "worker"
      BY <2>11 DEF Reload, Holding, Leased, Charging
    <3>2. /\ runner' = [runner EXCEPT ![r] = [pc |-> "clear", seen |-> row]]
          /\ UNCHANGED <<row, Known>>
      BY <2>11 DEF Reload, Continue, money, card, Known
    <3>3. Holding([pc |-> "clear", seen |-> row])'
      BY <3>1, <3>2 DEF Holding, Leased, Charging
    <3> QED BY <1>1, <3>1, <3>2, <3>3, WorkStep DEF PC, Charging
  <2>12. CASE SettleFails(r)
    <3>1. row.status # "uncollectible"
      BY <2>12 DEF SettleFails, Holding, Leased, Charging
    <3>2. /\ runner' = [runner EXCEPT ![r] = [pc |-> "idle", seen |-> Overdue]]
          /\ UNCHANGED <<row, Known>>
      BY <1>1, <2>12 DEF SettleFails, Done, money, card, Known
    <3>3. Holding([pc |-> "idle", seen |-> Overdue])'
      BY DEF Holding, Leased, Charging
    <3> QED BY <1>1, <3>1, <3>2, <3>3, WorkStep DEF PC
  \* Declined: nothing was ever taken.
  <2>13. CASE RetryFailed(r)
    <3>1. s.status # "uncollectible" /\ s.managedBy = "worker" /\ Known = {}
      BY <2>13 DEF RetryFailed, Holding, Leased, Charging
    <3> DEFINE up == [s EXCEPT !.retries = @ + 1]
    <3>2. up \in Row /\ up.status # "uncollectible" /\ up.managedBy = "worker"
      BY <3>1 DEF Row
    <3>3. \/ /\ row' = [[up EXCEPT !.next = "none"] EXCEPT !.paused = row.paused]
             /\ runner' = [runner EXCEPT ![r] = [pc |-> "giveUp", seen |-> s]]
          \/ /\ row' = [[up EXCEPT !.status = "past_due", !.next = "later"] EXCEPT !.paused = row.paused]
             /\ runner' = [runner EXCEPT ![r] = [pc |-> "idle", seen |-> Overdue]]
      BY <1>1, <2>13 DEF RetryFailed, Update, Goto, Done, Continue
    <3>4. UNCHANGED Known
      BY <2>13 DEF RetryFailed, money, card, Known
    <3> HIDE DEF up
    <3>5. CASE /\ row' = [[up EXCEPT !.next = "none"] EXCEPT !.paused = row.paused]
               /\ runner' = [runner EXCEPT ![r] = [pc |-> "giveUp", seen |-> s]]
      <4>1. /\ row'.next = "none" /\ row'.managedBy = "worker"
            /\ row'.status # "uncollectible"
        BY <3>2, <3>5 DEF Row
      <4>2. Holding([pc |-> "giveUp", seen |-> s])'
        BY <4>1 DEF Holding, Leased, Charging
      <4> QED BY <3>1, <3>4, <3>5, <4>1, <4>2, WorkStep DEF PC
    <3>6. CASE /\ row' = [[up EXCEPT !.status = "past_due", !.next = "later"] EXCEPT !.paused = row.paused]
               /\ runner' = [runner EXCEPT ![r] = [pc |-> "idle", seen |-> Overdue]]
      <4>1. row'.status = "past_due"
        BY <3>2, <3>6 DEF Row
      <4>2. Holding([pc |-> "idle", seen |-> Overdue])'
        BY DEF Holding, Leased, Charging
      <4> QED BY <1>1, <3>1, <3>4, <3>6, <4>1, <4>2, WorkStep DEF PC
    <3> QED BY <3>3, <3>5, <3>6
  <2>14. CASE GiveUp(r)
    <3>1. Known = {} /\ row.status # "uncollectible" /\ UNCHANGED Known
      BY <2>14 DEF GiveUp, Holding, Charging, money, card, Known
    <3>2. CASE Collectible
      <4>1. /\ row' = [row EXCEPT !.status = "uncollectible", !.next = "none"]
            /\ runner' = [runner EXCEPT ![r] = [pc |-> "writeOff", seen |-> s]]
        BY <2>14, <3>2 DEF GiveUp, MarkUncollectibleScoped, Goto, Continue
      <4>2. row'.status = "uncollectible"
        BY <1>1, <4>1 DEF Row
      <4>3. Holding([pc |-> "writeOff", seen |-> s])'
        BY <4>2 DEF Holding, Leased, Charging, Collectible
      <4> QED BY <3>1, <4>1, <4>3, WorkStep DEF PC
    <3>3. CASE ~Collectible
      <4>1. /\ UNCHANGED row
            /\ runner' = [runner EXCEPT ![r] = [pc |-> "idle", seen |-> Overdue]]
        BY <1>1, <2>14, <3>3 DEF GiveUp, MarkUncollectibleScoped, Done
      <4>2. Holding([pc |-> "idle", seen |-> Overdue])'
        BY DEF Holding, Leased, Charging
      <4> QED BY <1>1, <3>1, <4>1, <4>2, WorkStep DEF PC
    <3> QED BY <3>2, <3>3
  \* Booked, then canceled.
  <2>15. CASE PostWriteOff(r) \/ LedgerFails(r)
    <3>1. runner[r].pc = "writeOff"
      BY <2>15 DEF PostWriteOff, LedgerFails, Holding
    <3>2. /\ UNCHANGED <<row, Known>> /\ Booked'
          /\ runner' = [runner EXCEPT ![r] = [pc |-> "cancel", seen |-> s]]
      BY <2>15, <3>1 DEF PostWriteOff, LedgerFails, Fault, Booked, Goto, Continue, money, card, Known
    <3>3. ~Collectible' /\ Known = {}
      BY <3>1, <3>2 DEF Holding, Charging, Collectible
    <3>4. Holding([pc |-> "cancel", seen |-> s])'
      BY <3>3 DEF Holding, Leased, Charging
    <3> QED BY <3>2, <3>3, <3>4, WorkStep DEF PC
  <2>16. CASE CancelForNonPayment(r)
    <3>1. /\ UNCHANGED <<row, Known, writtenOff>> /\ canceled' = TRUE
          /\ runner[r].pc = "cancel"
          /\ runner' = [runner EXCEPT ![r] = [pc |-> "idle", seen |-> Overdue]]
      BY <1>1, <2>16 DEF CancelForNonPayment, Done, money, card, Known
    <3>2. Known = {}
      BY <3>1 DEF Charging
    <3>3. Holding([pc |-> "idle", seen |-> Overdue])'
      BY DEF Holding, Leased, Charging
    <3>4. "crash" \notin Faults /\ row.status = "uncollectible" => Booked
      BY <3>1 DEF EInv, Given
    <3>5. Booked' <=> Booked
      BY <3>1 DEF Booked
    <3> QED BY <1>1, <3>1, <3>2, <3>3, <3>4, <3>5, WorkStep DEF PC
  <2>17. CASE Crash(r)
    <3>1. /\ UNCHANGED <<row, Known>> /\ "crash" \in Faults
          /\ runner' = [runner EXCEPT ![r] = [pc |-> "idle", seen |-> Overdue]]
      BY <1>1, <2>17 DEF Crash, Fault, Done, money, card, Known
    <3>2. Holding([pc |-> "idle", seen |-> Overdue])'
      BY DEF Holding, Leased, Charging
    <3> QED BY <1>1, <3>1, <3>2, WorkStep DEF PC
  <2> QED BY <1>9, <2>5, <2>6, <2>7, <2>8, <2>9, <2>10, <2>11, <2>12, <2>13, <2>14, <2>15,
             <2>16, <2>17 DEF Work
<1> QED BY <1>3, <1>4, <1>5, <1>6, <1>7, <1>8, <1>9 DEF Next

LEMMA ExclusiveInvariance == Exclusive => (Spec => [](CInv /\ EInv))
<1> SUFFICES ASSUME Exclusive PROVE Spec => [](CInv /\ EInv)
  OBVIOUS
<1>1. Guarded
  BY DEF Exclusive, Guarded, NoRecharge
<1>2. Init => CInv /\ EInv
  BY InitInv, ExclusiveInit
<1>3. CInv /\ EInv /\ [Next]_vars => (CInv /\ EInv)'
  BY <1>1, NextInv, ExclusiveStep
<1> QED BY <1>2, <1>3, PTL DEF Spec

\* A customer whose card was charged is never given up, canceled and written off,
\* whatever answers, settlements and processes are lost on the way to the receipt:
\* the row keeps the attempt that was taken until it settles (retry_worker.go
\* processInvoice, chargeInvoice).  The exception is an attempt Stripe answered with
\* an API error, which counts as declined (stripe.go ChargeSavedPaymentMethod).
THEOREM ChargedIsNeverGivenUp == Exclusive => (Spec => []ChargedIsNotGivenUp)
<1> SUFFICES ASSUME Exclusive PROVE Spec => []ChargedIsNotGivenUp
  OBVIOUS
<1>1. CInv /\ EInv => ChargedIsNotGivenUp
  BY DEF EInv, Taken, ChargedIsNotGivenUp
<1> QED BY <1>1, ExclusiveInvariance, PTL

\* An invoice given up for good has its receivable relieved and its subscription
\* canceled, by whichever loop gave it up, unless its process died in between
\* (dunning.go processInvoice, retry_worker.go processInvoice and writeOff).
THEOREM GivingUpIsFinished ==
    Exclusive /\ "crash" \notin Faults => (Spec => []GivingUpIsComplete)
<1> SUFFICES ASSUME Exclusive, "crash" \notin Faults PROVE Spec => []GivingUpIsComplete
  OBVIOUS
<1>1. CInv /\ EInv => GivingUpIsComplete
  BY DEF EInv, Given, Booked, Quiet, GivingUpIsComplete
<1> QED BY <1>1, ExclusiveInvariance, PTL
=============================================================================
