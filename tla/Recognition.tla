----------------------------- MODULE Recognition -----------------------------
(***************************************************************************)
(* Revenue recognition of one subscription invoice.  The invoice's net     *)
(* amount sits in Deferred Revenue; a schedule with an event a month moves *)
(* it to Recognized Revenue, and a cancellation, a refund, a downgrade or  *)
(* a write-off unwinds what is not recognized yet.                         *)
(*                                                                         *)
(* Worker and requests run concurrently, one statement at a time.  What an *)
(* unwind takes out of the schedule is summed from the events it has read, *)
(* and its posting is a later statement, so a claim by the worker can fall *)
(* in between.                                                             *)
(***************************************************************************)
EXTENDS Integers, FiniteSets, Functions

CONSTANTS
    Actors,      \* recognition workers and requests, over all instances
    Schedules,   \* ids of revenue_schedules rows
    Months,      \* events of a schedule
    Net,         \* Total - TaxAmount of the invoice
    Credits,     \* net amounts of a downgrade credit
    Lives,       \* what may happen to the invoice: each behaviour picks one
    MaxFaults    \* deaths of an actor and failed postings

ASSUME RecognitionAssumption ==
    /\ Months \in Nat \ {0} /\ Net \in Nat \ {0}
    /\ Credits \subseteq 1..Net
    /\ IsFiniteSet(Actors) /\ IsFiniteSet(Schedules) /\ MaxFaults \in Nat
    /\ Lives \subseteq SUBSET {"accrual", "cancel", "refund", "downgrade", "writeOff", "return"}

VARIABLES
    life,        \* the member of Lives
    asked,       \* requests made, of those made at most once
    invoice,     \* invoices.status
    schedule,    \* revenue_schedules rows
    event,       \* recognition_events rows; split off 'reversed' siblings are their clawed
    elapsed,     \* how many events of the period are due
    posted,      \* code-2 legs, by event and (month 0) by schedule
    deferred,    \* balance of Deferred Revenue, for this invoice
    writtenOff,  \* code-22 amount not recovered
    refunded,    \* net amount of the refunds so far
    debt,        \* subscriptions.revrec_schedule_debt
    actor,       \* each actor's program counter and what it has read
    misled,      \* history: an unwind met what had changed since it was read, or took as
                 \* unscheduled what was not there
    faults       \* deaths and failed postings so far

vars == <<life, asked, invoice, schedule, event, elapsed, posted, deferred, writtenOff,
          refunded, debt, actor, misled, faults>>
requests == <<life, asked, invoice, refunded>>
books == <<posted, deferred, writtenOff>>
rows == <<schedule, event>>
clock == <<elapsed, faults>>

None == "none"
Event == [status : {None, "pending", "processing", "recognized", "failed", "canceled", "reversed"},
          amount : Nat, clawed : Nat]
\* An event as read.
Read == [schedule : Schedules, month : 1..Months, amount : Nat]

\* op: what is unwound.  want: how much of it.  left: schedules still to unwind.
\* take: still to remove, taken: removed.
Actor == [pc : {"idle", "claim", "recognize", "mark", "markFailed", "recover", "check", "consume",
                "insert", "events", "read", "writeOff", "find", "list", "remove", "close", "post",
                "recognized", "clawBack", "owe", "credit"},
          op : {None, "cancel", "refund", "downgrade", "writeOff"},
          schedule : Schedules \cup {None}, todo : SUBSET Read, held : SUBSET Read,
          left : SUBSET Schedules, want : Nat, take : Nat, taken : Nat]

Idle == [pc |-> "idle", op |-> None, schedule |-> None, todo |-> {}, held |-> {},
         left |-> {}, want |-> 0, take |-> 0, taken |-> 0]

NoEvent == [status |-> None, amount |-> 0, clawed |-> 0]

Init ==
    /\ life \in Lives /\ asked = {}
    /\ invoice = "new"
    /\ schedule = [s \in Schedules |-> None]
    /\ event = [s \in Schedules |-> [m \in 1..Months |-> NoEvent]]
    /\ elapsed = 1
    /\ posted = [s \in Schedules |-> [m \in 0..Months |-> 0]]
    /\ deferred = 0 /\ writtenOff = 0 /\ refunded = 0 /\ debt = 0
    /\ actor = [a \in Actors |-> Idle]
    /\ misled = FALSE /\ faults = 0

----------------------------------------------------------------------------

Least(x, y) == IF x <= y THEN x ELSE y
SumOver(f) == FoldFunction(+, 0, f)

Quiet == \A a \in Actors : actor[a] = Idle
At(a, pc) == actor[a].pc = pc
Done(a) == actor' = [actor EXCEPT ![a] = Idle]
Goto(a, pc) == actor' = [actor EXCEPT ![a].pc = pc]

Scheduling == {a \in Actors : actor[a].pc \in {"check", "consume", "insert", "events"}}
Active == {s \in Schedules : schedule[s] = "active"}
Scheduled == {s \in Schedules : schedule[s] # None}
\* The invoice's net amount is deferred, and no schedule was due yet ...
Unscheduled == invoice \in {"unpaid", "uncollectible"} /\ "accrual" \notin life /\ "return" \notin asked
\* ... or its schedule is on the way, by an actor between the payment and the insert ...
Early == {"recover", "check", "consume", "insert"}
Underway == \E a \in Actors : actor[a].pc \in Early
\* ... and has not drawn the debt.
Fresh ==
    /\ Scheduled = {} /\ \A a \in Actors : actor[a].pc \notin {"insert", "events"}
    /\ Unscheduled \/ Underway
StatusOf(e) == event[e.schedule][e.month].status
\* The rows with one of these statuses, as a SELECT returns them.
Rows(ss, statuses) ==
    {r \in {[schedule |-> s, month |-> m, amount |-> event[s][m].amount] : s \in ss, m \in 1..Months} :
        StatusOf(r) \in statuses}
Amount(s, statuses) ==
    SumOver([m \in 1..Months |-> IF event[s][m].status \in statuses THEN event[s][m].amount ELSE 0])
Recognized == SumOver([s \in Schedules |-> Amount(s, {"recognized"})])
\* The UPDATE of an event's status, with the status it wants to find.
Mark(e, from, to) ==
    event' = [event EXCEPT ![e.schedule][e.month].status = IF @ = from THEN to ELSE @]
\* ORDER BY recognition_date DESC
Latest(todo) == {e \in todo : \A f \in todo : f.month <= e.month}

\* A code-2 leg; one with the same reference is there already and stays.
PostCode2(s, m, amount) ==
    IF posted[s][m] = 0
    THEN posted' = [posted EXCEPT ![s][m] = amount] /\ deferred' = deferred - amount
    ELSE UNCHANGED <<posted, deferred>>

NextMonth ==
    /\ elapsed < Months
    /\ elapsed' = elapsed + 1
    /\ UNCHANGED <<requests, rows, books, debt, actor, misled, faults>>

Crash(a) ==
    /\ actor[a] # Idle /\ faults < MaxFaults
    /\ faults' = faults + 1
    /\ Done(a)
    /\ UNCHANGED <<requests, rows, books, debt, elapsed, misled>>

----------------------------------------------------------------------------
(* The worker.                                                             *)

\* ClaimDueEvents, first statement: claims older than an hour.  Their worker is dead,
\* or so slow that it counts as a fault.
Requeue(a) ==
    LET held == UNION {actor[b].todo : b \in Actors}
        live == {e \in Rows(Schedules, {"processing"}) :
                    \E f \in held : f.schedule = e.schedule /\ f.month = e.month}
    IN
    /\ At(a, "idle")
    /\ \E stale \in SUBSET Rows(Schedules, {"processing"}) :
           /\ IF stale \cap live = {} THEN UNCHANGED faults
              ELSE faults < MaxFaults /\ faults' = faults + 1
           /\ event' = [s \in Schedules |-> [m \in 1..Months |->
                  IF \E e \in stale : e.schedule = s /\ e.month = m
                  THEN [event[s][m] EXCEPT !.status = "pending"] ELSE event[s][m]]]
    /\ Goto(a, "claim")
    /\ UNCHANGED <<requests, schedule, books, debt, elapsed, misled>>

ClaimDueEvents(a) ==
    LET due == {e \in Rows(Schedules, {"pending"}) : e.month <= elapsed} IN
    /\ At(a, "claim")
    /\ event' = [s \in Schedules |-> [m \in 1..Months |->
           IF event[s][m].status = "pending" /\ m <= elapsed
           THEN [event[s][m] EXCEPT !.status = "processing"] ELSE event[s][m]]]
    /\ IF due = {} THEN Done(a)
       ELSE actor' = [actor EXCEPT ![a].pc = "recognize", ![a].todo = due]
    /\ UNCHANGED <<requests, schedule, books, debt, clock, misled>>

RecordRecognition(a) ==
    /\ At(a, "recognize")
    /\ \E e \in actor[a].todo :
           /\ PostCode2(e.schedule, e.month, e.amount)
           /\ actor' = [actor EXCEPT ![a].pc = "mark", ![a].held = {e}]
    /\ UNCHANGED <<requests, rows, writtenOff, debt, clock, misled>>

RecognitionFails(a) ==
    /\ At(a, "recognize") /\ faults < MaxFaults
    /\ faults' = faults + 1
    /\ \E e \in actor[a].todo :
           actor' = [actor EXCEPT ![a].pc = "markFailed", ![a].held = {e}]
    /\ UNCHANGED <<requests, rows, books, debt, elapsed, misled>>

GoOn(a) ==
    IF actor[a].todo = actor[a].held THEN Done(a)
    ELSE actor' = [actor EXCEPT ![a].pc = "recognize", ![a].todo = @ \ actor[a].held,
                                ![a].held = {}]

\* Mutant: an event is marked whatever it has become.
MarkUnguarded(a) ==
    /\ At(a, "mark")
    /\ \E e \in actor[a].held : event' = [event EXCEPT ![e.schedule][e.month].status = "recognized"]
    /\ GoOn(a)
    /\ UNCHANGED <<requests, schedule, books, debt, clock, misled>>

MarkEventRecognized(a) ==
    /\ At(a, "mark")
    /\ \E e \in actor[a].held : Mark(e, "processing", "recognized")
    /\ GoOn(a)
    /\ UNCHANGED <<requests, schedule, books, debt, clock, misled>>

MarkEventFailed(a) ==
    /\ At(a, "markFailed")
    /\ \E e \in actor[a].held : Mark(e, "processing", "failed")
    /\ GoOn(a)
    /\ UNCHANGED <<requests, schedule, books, debt, clock, misled>>

----------------------------------------------------------------------------
(* The invoice and its schedule.                                           *)

\* The invoice is issued and its deferral posted; under accrual it is scheduled at once.
Issue(a) ==
    /\ At(a, "idle") /\ invoice = "new"
    /\ invoice' = "unpaid" /\ deferred' = Net
    /\ IF "accrual" \in life THEN Goto(a, "check") ELSE UNCHANGED actor
    /\ UNCHANGED <<life, asked, refunded, rows, posted, writtenOff, debt, clock, misled>>

Settle(a) ==
    /\ At(a, "idle") /\ invoice \in {"unpaid", "uncollectible"}
    /\ invoice' = "paid"
    /\ Goto(a, IF invoice = "uncollectible" THEN "recover" ELSE "check")
    /\ UNCHANGED <<life, asked, refunded, rows, books, debt, clock, misled>>

\* The bank takes the payment back; the schedule stays.
Return ==
    /\ "return" \in life \ asked /\ invoice = "paid"
    /\ invoice' = "unpaid" /\ asked' = asked \cup {"return"}
    /\ UNCHANGED <<life, refunded, rows, books, debt, actor, clock, misled>>

RecordWriteOffRecovery(a) ==
    /\ At(a, "recover")
    /\ deferred' = deferred + writtenOff /\ writtenOff' = 0
    /\ Goto(a, "check")
    /\ UNCHANGED <<requests, rows, posted, debt, clock, misled>>

\* CreateScheduleForInvoice, statement by statement.
CheckSchedule(a) ==
    /\ At(a, "check")
    /\ IF Active # {} THEN Done(a) ELSE Goto(a, "consume")
    /\ misled' = (misled \/ (Active = {} /\ Scheduling # {a})
                       \/ \E b \in Actors : actor[b].op = "writeOff")
    /\ UNCHANGED <<requests, rows, books, debt, clock>>

\* Mutant: the draw on the debt is not capped at what is owed.
OverdrawScheduleDebt(a) ==
    /\ At(a, "consume")
    /\ debt' = debt - Net
    /\ actor' = [actor EXCEPT ![a].pc = "insert", ![a].want = Net - debt]
    /\ UNCHANGED <<requests, rows, books, clock, misled>>

\* Mutant: the debt of an earlier downgrade is drawn but not deducted.
ForgetScheduleDebt(a) ==
    /\ At(a, "consume")
    /\ debt' = debt - Least(debt, Net)
    /\ actor' = [actor EXCEPT ![a].pc = "insert", ![a].want = Net]
    /\ UNCHANGED <<requests, rows, books, clock, misled>>

ConsumeScheduleDebt(a) ==
    /\ At(a, "consume")
    /\ debt' = debt - Least(debt, Net)
    /\ IF debt >= Net THEN Done(a)
       ELSE actor' = [actor EXCEPT ![a].pc = "insert", ![a].want = Net - debt]
    /\ UNCHANGED <<requests, rows, books, clock, misled>>

CreateSchedule(a) ==
    /\ At(a, "insert")
    /\ \E s \in Schedules :
           /\ schedule[s] = None
           /\ schedule' = [schedule EXCEPT ![s] = "active"]
           /\ actor' = [actor EXCEPT ![a].pc = "events", ![a].schedule = s]
    /\ UNCHANGED <<requests, event, books, debt, clock, misled>>

\* Mutant: the remainder is dropped.
AllocateWithoutRemainder(total) == [m \in 1..Months |-> total \div Months]

\* The same amount a month, and the remainder in the last.
CalculateMonthlyAllocation(total) ==
    [m \in 1..Months |-> total \div Months + IF m = Months THEN total % Months ELSE 0]

CreateEvents(a) ==
    LET amounts == CalculateMonthlyAllocation(actor[a].want) IN
    /\ At(a, "events")
    /\ event' = [event EXCEPT ![actor[a].schedule] =
           [m \in 1..Months |-> [status |-> "pending", amount |-> amounts[m], clawed |-> 0]]]
    /\ Done(a)
    /\ UNCHANGED <<requests, schedule, books, debt, clock, misled>>

----------------------------------------------------------------------------
(* Unwinding.                                                              *)

Request(a, op, pc, want) ==
    /\ At(a, "idle") /\ op \in life
    /\ actor' = [actor EXCEPT ![a].pc = pc, ![a].op = op, ![a].want = want]
    /\ UNCHANGED <<life, rows, books, debt, clock, misled>>

\* The subscription is canceled at once.
Cancel(a) ==
    /\ invoice # "new" /\ "cancel" \notin asked
    /\ Request(a, "cancel", "find", 0)
    /\ asked' = asked \cup {"cancel"} /\ UNCHANGED <<invoice, refunded>>

\* Refunds of an invoice never exceed what it was paid.
Refund(a) ==
    /\ invoice = "paid"
    /\ \E amount \in 1..Net - refunded :
           /\ Request(a, "refund", "find", amount)
           /\ refunded' = refunded + amount
    /\ UNCHANGED <<asked, invoice>>

Downgrade(a) ==
    /\ invoice # "new" /\ "downgrade" \notin asked
    /\ \E amount \in Credits : Request(a, "downgrade", "find", amount)
    /\ asked' = asked \cup {"downgrade"} /\ UNCHANGED <<invoice, refunded>>

WriteOff(a) ==
    /\ invoice = "unpaid" /\ "writeOff" \notin asked
    /\ Request(a, "writeOff", "read", 0)
    /\ invoice' = "uncollectible" /\ asked' = asked \cup {"writeOff"} /\ UNCHANGED refunded

\* Mutant: a written-off invoice reverses its whole net amount.
IgnoreRecognized(a) ==
    /\ At(a, "read")
    /\ actor' = [actor EXCEPT ![a].pc = "writeOff", ![a].take = Recognized, ![a].want = Net]
    /\ UNCHANGED <<requests, rows, books, debt, clock, misled>>

\* SumRecognizedByInvoice: what is recognized is a bad debt, the rest was never earned.
ReadRecognized(a) ==
    /\ At(a, "read")
    /\ actor' = [actor EXCEPT ![a].pc = "writeOff", ![a].take = Recognized,
                              ![a].want = Net - Least(Recognized, Net)]
    /\ UNCHANGED <<requests, rows, books, debt, clock, misled>>

RecordInvoiceWriteOff(a) ==
    /\ At(a, "writeOff")
    /\ deferred' = deferred - actor[a].want /\ writtenOff' = actor[a].want
    /\ misled' = (misled \/ invoice # "uncollectible")
    /\ Goto(a, "find")
    /\ UNCHANGED <<requests, rows, posted, debt, clock>>

\* What follows the schedules: a downgrade's shortfall is looked for elsewhere.
Continue(a, left, taken) ==
    IF left # {} THEN [actor[a] EXCEPT !.pc = "list", !.left = left, !.taken = taken,
                                       !.schedule = None, !.todo = {}]
    ELSE IF actor[a].op # "downgrade" THEN Idle
    ELSE [Idle EXCEPT !.pc = IF taken = actor[a].want THEN "credit" ELSE "recognized",
                      !.op = "downgrade", !.want = actor[a].want,
                      !.take = actor[a].want - taken]

\* A refund and a write-off unwind the invoice's schedule, the others the subscription's.
FindSchedules(a) ==
    /\ At(a, "find")
    /\ \E left \in SUBSET Active :
           /\ IF actor[a].op \in {"refund", "writeOff"} /\ Active # {}
              THEN Cardinality(left) = 1 ELSE left = Active
           /\ actor' = [actor EXCEPT ![a] = Continue(a, left, 0)]
    /\ misled' = (misled \/ (actor[a].op = "writeOff" /\ Scheduling # {}))
    /\ UNCHANGED <<requests, rows, books, debt, clock>>

\* A cancellation and a write-off remove every pending event.
Sweeps(a) == actor[a].op \in {"cancel", "writeOff"}

\* GetPendingEventsBySchedule
ListPending(a) ==
    LET me == actor[a] IN
    /\ At(a, "list")
    /\ \E s \in me.left :
           LET pending == Rows({s}, {"pending"})
               seen == [me EXCEPT !.schedule = s, !.left = @ \ {s},
                                  !.take = IF Sweeps(a) THEN @ ELSE me.want - me.taken,
                                  !.taken = IF me.op = "cancel" THEN 0 ELSE @]
           IN /\ misled' = (misled \/ (me.op = "writeOff" /\
                                    (me.take # Recognized \/ Recognized + Amount(s, {"pending"}) # Net)))
              /\ actor' = [actor EXCEPT ![a] =
                     IF pending # {} /\ (me.op = "refund" => \E e \in pending : e.amount > 0)
                     THEN [seen EXCEPT !.pc = "remove", !.todo = pending]
                     ELSE IF Sweeps(a) THEN [seen EXCEPT !.pc = "close"]
                     ELSE Continue(a, me.left \ {s}, me.taken)]
    /\ UNCHANGED <<requests, rows, books, debt, clock>>

\* Mutant: an event is canceled whatever it has become.
CancelUnguarded(a) ==
    LET me == actor[a] IN
    /\ At(a, "remove")
    /\ \E e \in Latest(me.todo) :
           /\ event' = [event EXCEPT ![e.schedule][e.month].status = "canceled"]
           /\ actor' = [actor EXCEPT ![a].todo = @ \ {e}, ![a].taken = @ + e.amount,
                                     ![a].pc = IF me.todo = {e} THEN "close" ELSE @]
    /\ UNCHANGED <<requests, schedule, books, debt, clock, misled>>

\* CancelEvent or, where only a part of the event goes, SetEventAmount; both leave
\* an event alone that is no longer pending.  A refund of all that was pending closes
\* the schedule too.
RemoveEvent(a) ==
    LET me == actor[a] IN
    /\ At(a, "remove")
    /\ \E e \in Latest(me.todo) :
           LET cut == IF Sweeps(a) THEN e.amount ELSE Least(me.take, e.amount)
               todo == me.todo \ {e}
               on == [me EXCEPT !.todo = todo, !.take = IF Sweeps(a) THEN @ ELSE @ - cut,
                                !.taken = @ + cut]
               whole == Sweeps(a) \/ (me.op = "refund" /\ cut = e.amount /\ \A f \in todo : f.amount = 0)
           IN /\ IF cut = e.amount THEN Mark(e, "pending", "canceled")
                 ELSE event' = [event EXCEPT ![e.schedule][e.month].amount =
                                    IF StatusOf(e) = "pending" THEN e.amount - cut ELSE @]
              /\ misled' = (misled \/ event[e.schedule][e.month] #
                                [status |-> "pending", amount |-> e.amount, clawed |-> 0])
              /\ actor' = [actor EXCEPT ![a] =
                     IF todo # {} /\ (Sweeps(a) \/ on.take > 0) THEN on
                     ELSE IF whole THEN [on EXCEPT !.pc = "close", !.todo = {}]
                     ELSE IF me.op = "refund" THEN [on EXCEPT !.pc = "post", !.todo = {}]
                     ELSE Continue(a, IF on.take = 0 THEN {} ELSE me.left, on.taken)]
    /\ UNCHANGED <<requests, schedule, books, debt, clock>>

\* MarkScheduleCanceled; only a cancellation has something left to post after it,
\* and a refund.
CloseSchedule(a) ==
    LET me == actor[a] IN
    /\ At(a, "close")
    /\ schedule' = [schedule EXCEPT ![me.schedule] = "canceled"]
    /\ actor' = [actor EXCEPT ![a] = IF me.op # "writeOff" /\ me.taken > 0
                                     THEN [me EXCEPT !.pc = "post"]
                                     ELSE Continue(a, me.left, me.taken)]
    /\ UNCHANGED <<requests, event, books, debt, clock, misled>>

\* Mutant: the reversal posts the refunded amount, not what was still deferred.
PostWhatWasAsked(a) ==
    LET me == actor[a] IN
    /\ At(a, "post")
    /\ deferred' = deferred - (IF me.op = "refund" THEN me.want ELSE me.taken)
    /\ actor' = [actor EXCEPT ![a] = Continue(a, me.left, me.taken)]
    /\ UNCHANGED <<requests, rows, posted, writtenOff, debt, clock, misled>>

\* A cancellation forfeits what it removed (RecordRecognition, by schedule), a
\* refund takes it out of Deferred (RecordDeferredRefundReversal, by credit note).
PostUnwind(a) ==
    LET me == actor[a] IN
    /\ At(a, "post")
    /\ IF me.op = "cancel" THEN PostCode2(me.schedule, 0, me.taken)
       ELSE deferred' = deferred - me.taken /\ UNCHANGED posted
    /\ actor' = [actor EXCEPT ![a] = Continue(a, me.left, me.taken)]
    /\ UNCHANGED <<requests, rows, writtenOff, debt, clock, misled>>

----------------------------------------------------------------------------
(* A downgrade's credit beyond what was scheduled.                         *)

\* GetRecognizedEventsBySubscription
ListRecognized(a) ==
    LET recognized == Rows(Schedules, {"recognized"}) IN
    /\ At(a, "recognized")
    /\ actor' = [actor EXCEPT ![a].pc = IF recognized = {} THEN "owe" ELSE "clawBack",
                              ![a].todo = recognized]
    /\ UNCHANGED <<requests, rows, books, debt, clock, misled>>

\* SplitRecognizedEvent: the part clawed back gets a row of its own.
Split(x, cut) ==
    IF x.status = "recognized" /\ x.amount > cut
    THEN [x EXCEPT !.amount = @ - cut, !.clawed = @ + cut] ELSE x

\* MarkEventReversed, or SplitRecognizedEvent where only a part of it is clawed back.
ReverseRecognized(a) ==
    LET me == actor[a] IN
    /\ At(a, "clawBack")
    /\ \E e \in Latest(me.todo) :
           LET cut == Least(me.take, e.amount)
               on == [me EXCEPT !.todo = @ \ {e}, !.take = @ - cut, !.taken = @ + cut]
           IN /\ IF cut = e.amount THEN Mark(e, "recognized", "reversed")
                 ELSE event' = [event EXCEPT ![e.schedule][e.month] = Split(@, cut)]
              /\ actor' = [actor EXCEPT ![a] =
                     IF on.take = 0 THEN [on EXCEPT !.pc = "credit", !.todo = {}]
                     ELSE IF on.todo = {} THEN [on EXCEPT !.pc = "owe"] ELSE on]
    /\ UNCHANGED <<requests, schedule, books, debt, clock, misled>>

\* AddScheduleDebt: the rest counts as deferred but never scheduled, so the next
\* schedule is the smaller by it.  Nothing checks that there is such a rest.
AddScheduleDebt(a) ==
    /\ At(a, "owe")
    /\ debt' = debt + actor[a].take
    /\ misled' = (misled \/ ~Fresh)
    /\ Goto(a, "credit")
    /\ UNCHANGED <<requests, rows, books, clock>>

\* Mutant: the part that was recognized comes out of Deferred too.
CreditAllFromDeferred(a) ==
    /\ At(a, "credit")
    /\ deferred' = deferred - actor[a].want
    /\ Done(a)
    /\ UNCHANGED <<requests, rows, posted, writtenOff, debt, clock, misled>>

RecordDowngradeCredit(a) ==
    /\ At(a, "credit")
    /\ deferred' = deferred - (actor[a].want - actor[a].taken)
    /\ Done(a)
    /\ UNCHANGED <<requests, rows, posted, writtenOff, debt, clock, misled>>

----------------------------------------------------------------------------

Worker(a) ==
    \/ Requeue(a) \/ ClaimDueEvents(a) \/ RecordRecognition(a) \/ RecognitionFails(a)
    \/ MarkEventRecognized(a) \/ MarkEventFailed(a)

Billing(a) ==
    \/ Issue(a) \/ Settle(a) \/ RecordWriteOffRecovery(a)
    \/ CheckSchedule(a) \/ ConsumeScheduleDebt(a) \/ CreateSchedule(a) \/ CreateEvents(a)

Unwinding(a) ==
    \/ Cancel(a) \/ Refund(a) \/ Downgrade(a) \/ WriteOff(a)
    \/ ReadRecognized(a) \/ RecordInvoiceWriteOff(a)
    \/ FindSchedules(a) \/ ListPending(a) \/ RemoveEvent(a) \/ CloseSchedule(a) \/ PostUnwind(a)
    \/ ListRecognized(a) \/ ReverseRecognized(a) \/ AddScheduleDebt(a) \/ RecordDowngradeCredit(a)

Next ==
    \/ NextMonth \/ Return
    \/ \E a \in Actors : Worker(a) \/ Billing(a) \/ Unwinding(a) \/ Crash(a)

Spec == Init /\ [][Next]_vars

----------------------------------------------------------------------------

TypeOK ==
    /\ life \in Lives /\ asked \subseteq {"cancel", "downgrade", "writeOff", "return"}
    /\ invoice \in {"new", "unpaid", "paid", "uncollectible"}
    /\ schedule \in [Schedules -> {None, "active", "canceled"}]
    /\ event \in [Schedules -> [1..Months -> Event]]
    /\ elapsed \in 1..Months
    /\ posted \in [Schedules -> [0..Months -> Nat]]
    /\ deferred \in Int /\ writtenOff \in 0..Net /\ refunded \in 0..Net /\ debt \in Nat
    /\ actor \in [Actors -> Actor]
    /\ misled \in BOOLEAN /\ faults \in 0..MaxFaults

\* What the schedules will still recognize, and what waits for one: the invoice's net
\* amount, less what was written off and what a downgrade has taken of it.
StillToRecognize == SumOver([s \in Schedules |-> Amount(s, {"pending", "processing", "failed"})])
Waiting == IF Scheduled = {} /\ Unscheduled THEN Net - writtenOff - debt ELSE 0

\* Lives in which no unwind leaves the invoice to be scheduled once more, and no two
\* take the same unscheduled amount: no debt of a downgrade meets a second schedule or
\* a write-off, and no other unwind closes the schedule a written-off invoice has.
Separate == \A l \in Lives :
    /\ "downgrade" \in l => "accrual" \notin l /\ "return" \notin l /\ "writeOff" \notin l
    /\ "writeOff" \in l /\ ("accrual" \in l \/ "return" \in l) =>
           "cancel" \notin l /\ ("refund" \notin l \/ "return" \notin l)

\* When nothing is under way and nothing failed, Deferred Revenue holds what the
\* schedule will still recognize, and before there is a schedule what waits for one: it
\* is never short of the schedule, and a debt is drawn from what waits alone.  It may
\* not be so once an unwind met an event that had been claimed, posted or reduced since
\* it was read, a downgrade credited more than was left, or the invoice was scheduled
\* anew.
DeferredMatches ==
    Quiet /\ faults = 0 /\ ~misled /\ Cardinality(Scheduled) <= 1 =>
        Waiting >= 0 /\ deferred = StillToRecognize + Waiting

\* What is wanted and does not hold, since nothing checks that a debt is funded: without
\* exception a quiet Deferred Revenue covers its schedule (ledger.go: a
\* downgrade's recognized part is taken out of Recognized Revenue "so the Deferred
\* liability is never debited below what its recognition schedule still holds").
DeferredCoversSchedule == Quiet => deferred >= StillToRecognize

\* What Deferred Revenue gave up for an event is what the event says: all of a
\* recognized or reversed event, nothing of one that is to come, canceled or failed.
PostedMatchesEvents ==
    faults = 0 => \A s \in Schedules, m \in 1..Months :
        /\ event[s][m].status \in {"recognized", "reversed"} =>
               posted[s][m] = event[s][m].amount + event[s][m].clawed
        /\ event[s][m].status \in {"pending", "canceled", "failed"} => posted[s][m] = 0

\* What became of an event stays: a canceled one is never recognized, a recognized
\* one only clawed back, and what it was worth is kept.
EventIsFinal ==
    [][\A s \in Schedules, m \in 1..Months :
           event[s][m].status \in {"recognized", "reversed", "failed", "canceled"} =>
               /\ event'[s][m].status # event[s][m].status =>
                      event[s][m].status = "recognized" /\ event'[s][m].status = "reversed"
               /\ event'[s][m].amount + event'[s][m].clawed = event[s][m].amount + event[s][m].clawed]_vars
=============================================================================
