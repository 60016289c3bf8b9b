------------------------------ MODULE Renewal ------------------------------
(***************************************************************************)
(* The life of one locally billed subscription: its trial converts, its    *)
(* periods are renewed, and meanwhile the customer and the operator pause, *)
(* resume, extend, cancel, reactivate it or pay periods in advance.        *)
(*                                                                         *)
(* An actor is a scheduler loop or an API request of some instance of the  *)
(* program.  It loads the row, works, and writes the WHOLE row back by id: *)
(* SubscriptionRepository.Update has no guard on what it overwrites.  Each *)
(* step is one statement.  Time is counted in ticks of which a billing     *)
(* period has Interval.                                                    *)
(***************************************************************************)
EXTENDS Integers, FiniteSets

CONSTANTS
    Actors,         \* scheduler loops and API requests, over all instances
    Interval,       \* ticks in a billing period, and in the trial
    MaxNow,         \* bound on the clock
    CouponPeriods,  \* the coupon's DurationMonths
    Trials,         \* may the subscription begin with a trial?
    Requests,       \* API operations that may be called ...
    MaxRequests,    \* ... and how often
    Overrun,        \* a claim's lease may lapse while its holder still works
    MaxFaults       \* how often an actor dies or its statement fails

ASSUME RenewalAssumption ==
    /\ Interval \in Nat \ {0} /\ CouponPeriods \in Nat \ {0}
    /\ MaxNow \in Nat /\ MaxRequests \in Nat /\ MaxFaults \in Nat
    /\ Trials \subseteq BOOLEAN /\ Trials # {} /\ Overrun \in BOOLEAN
    /\ Requests \subseteq {"pause", "resume", "cancelNow", "cancelAtEnd",
                           "reactivate", "extend", "prepay"}

VARIABLES
    now,          \* the clock
    sub,          \* the subscriptions row, as Update writes it
    claimed,      \* renewal_claimed_at lies within the lease
    resumeAt,     \* resume_at: NULL, past or in the future
    firsts,       \* invoices raised for a first period
    cycles,       \* renewal_cycle_key: starts of the periods invoiced at their end
    discounted,   \* those of cycles whose invoice carries the coupon
    prepaid,      \* periods invoiced in advance
    granted,      \* ticks of service given without charge
    rated,        \* usage_ratings: starts of the windows claimed
    usageBills,   \* which actor put the usage of which window on an invoice
    alarmed,      \* windows whose claim conflicted, which is logged as an error
    actor,        \* each actor's program counter and what it loaded
    asked,        \* API operations called so far ...
    requests,     \* ... and how many
    faults        \* deaths and failed statements so far

vars == <<now, sub, claimed, resumeAt, firsts, cycles, discounted, prepaid, granted,
          rated, usageBills, alarmed, actor, asked, requests, faults>>
fees == <<firsts, cycles, discounted, prepaid, granted>>
usage == <<rated, usageBills, alarmed>>
leases == <<claimed, resumeAt>>
bounds == <<asked, requests, faults>>

\* ending: cancel_at_period_end.  applied: coupon_periods_applied.
Row == [status : {"trialing", "active", "paused", "canceled"},
        start : Nat, end : Nat, ending : BOOLEAN, applied : Nat]

Created(trial) ==
    [status |-> IF trial THEN "trialing" ELSE "active", start |-> 0, end |-> Interval,
     ending |-> FALSE, applied |-> IF trial THEN 0 ELSE 1]

\* metered: the invoice to raise has usage lines.  after: where to go once the
\* usage is rated.
Actor == [pc : {"idle", "renew", "invoice", "final", "finalInvoice", "rate", "advance",
                "finish", "convert", "reload", "schedule", "unschedule",
                "pause", "resume", "cancelNow", "cancelAtEnd", "reactivate", "extend", "prepay"},
          seen : Row, metered : BOOLEAN, after : {"idle", "advance", "finish"}]

Idle == [pc |-> "idle", seen |-> Created(FALSE), metered |-> FALSE, after |-> "idle"]

Init ==
    /\ now = 0
    /\ \E trial \in Trials : sub = Created(trial) /\ firsts = IF trial THEN 0 ELSE 1
    /\ claimed = FALSE /\ resumeAt = "none"
    /\ granted = IF sub.status = "trialing" THEN Interval ELSE 0
    /\ cycles = {} /\ discounted = {} /\ prepaid = 0
    /\ rated = {} /\ usageBills = {} /\ alarmed = {}
    /\ actor = [a \in Actors |-> Idle]
    /\ asked = {} /\ requests = 0 /\ faults = 0

----------------------------------------------------------------------------

Quiet == \A a \in Actors : actor[a].pc = "idle"

Due == sub.status = "active" /\ sub.end <= now

Continue(a, pc, seen, metered, after) ==
    actor' = [actor EXCEPT ![a] = [pc |-> pc, seen |-> seen, metered |-> metered, after |-> after]]
Goto(a, pc) == actor' = [actor EXCEPT ![a].pc = pc]
Done(a) == actor' = [actor EXCEPT ![a] = Idle]

Tick ==
    /\ now < MaxNow
    /\ now' = now + 1
    /\ UNCHANGED <<sub, leases, fees, usage, actor, bounds>>

\* Mutant: a claim's lease never lapses.
ClaimIsForever == claimed /\ FALSE /\ UNCHANGED vars

RenewalLeaseLapses ==
    /\ claimed
    /\ Overrun \/ Quiet
    /\ claimed' = FALSE
    /\ UNCHANGED <<now, sub, resumeAt, fees, usage, actor, bounds>>

\* The date of a scheduled resume arrives, or the lease on one lapses.
ResumeDatePasses ==
    /\ resumeAt = "later"
    /\ Overrun \/ Quiet
    /\ resumeAt' = "due"
    /\ UNCHANGED <<now, sub, claimed, fees, usage, actor, bounds>>

\* The process dies, or the statement at hand returns an error that ends the work.
Fail(a) ==
    /\ actor[a].pc # "idle" /\ faults < MaxFaults
    /\ faults' = faults + 1
    /\ Done(a)
    /\ UNCHANGED <<now, sub, leases, fees, usage, asked, requests>>

----------------------------------------------------------------------------
(* The billing-cycle scheduler.                                            *)

ClaimDueForRenewal(a) ==
    /\ actor[a].pc = "idle"
    /\ Due /\ ~claimed
    /\ claimed' = TRUE
    /\ Continue(a, IF sub.ending THEN "final" ELSE "renew", sub, FALSE, "finish")
    /\ UNCHANGED <<now, sub, resumeAt, fees, usage, bounds>>

CouponApplies(seen) == seen.applied < CouponPeriods
WithCoupon(seen) == [seen EXCEPT !.applied = @ + 1]

\* Mutant: the reused invoice does not give back the coupon's progress.
ReuseForgetsCoupon(a) ==
    LET seen == actor[a].seen IN
    /\ actor[a].pc = "renew"
    /\ IF seen.start \in cycles
       THEN Continue(a, "advance", seen, FALSE, "advance")
       ELSE Continue(a, "invoice", seen, seen.start \notin rated, "advance")
    /\ UNCHANGED <<now, sub, leases, fees, usage, bounds>>

\* GenerateRenewalInvoice reuses the invoice its period already has and restores
\* the coupon progress from it; otherwise meteredLines looks for unrated usage.
GenerateRenewalInvoice(a) ==
    LET seen == actor[a].seen IN
    /\ actor[a].pc = "renew"
    /\ IF seen.start \in cycles
       THEN Continue(a, "advance", IF seen.start \in discounted THEN WithCoupon(seen) ELSE seen,
                     FALSE, "advance")
       ELSE Continue(a, "invoice", seen, seen.start \notin rated, "advance")
    /\ UNCHANGED <<now, sub, leases, fees, usage, bounds>>

BillUsage(a) ==
    usageBills' = IF actor[a].metered THEN usageBills \cup {<<actor[a].seen.start, a>>}
                  ELSE usageBills

\* InvoiceRepo.Create: the loser of a race on renewal_cycle_key fails, and the
\* lease retries it.
CreateRenewalInvoice(a) ==
    LET seen == actor[a].seen
        kept == IF CouponApplies(seen) THEN WithCoupon(seen) ELSE seen
    IN
    /\ actor[a].pc = "invoice"
    /\ IF seen.start \in cycles
       THEN Done(a) /\ UNCHANGED <<fees, usage>>
       ELSE /\ cycles' = cycles \cup {seen.start}
            /\ discounted' = IF CouponApplies(seen) THEN discounted \cup {seen.start} ELSE discounted
            /\ BillUsage(a)
            /\ Continue(a, IF actor[a].metered THEN "rate" ELSE "advance", kept,
                        actor[a].metered, "advance")
            /\ UNCHANGED <<firsts, prepaid, granted, rated, alarmed>>
    /\ UNCHANGED <<now, sub, leases, bounds>>

\* Mutant: a conflict of two claims is not logged.
RateQuietly(a) ==
    LET w == actor[a].seen.start IN
    /\ actor[a].pc = "rate"
    /\ rated' = rated \cup {w}
    /\ IF actor[a].after = "idle" THEN Done(a) ELSE Goto(a, actor[a].after)
    /\ UNCHANGED <<now, sub, leases, fees, usageBills, alarmed, bounds>>

\* RatingRepo.Create, after the invoice is committed; a conflict is only logged.
ClaimRating(a) ==
    LET w == actor[a].seen.start IN
    /\ actor[a].pc = "rate"
    /\ rated' = rated \cup {w}
    /\ alarmed' = IF w \in rated THEN alarmed \cup {w} ELSE alarmed
    /\ IF actor[a].after = "idle" THEN Done(a) ELSE Goto(a, actor[a].after)
    /\ UNCHANGED <<now, sub, leases, fees, usageBills, bounds>>

\* Mutant: the period may advance before its invoice is raised.
AdvanceUnbilled(a) ==
    LET seen == actor[a].seen IN
    /\ actor[a].pc \in {"renew", "advance"}
    /\ sub' = [seen EXCEPT !.start = seen.end, !.end = seen.end + Interval]
    /\ Done(a)
    /\ UNCHANGED <<now, leases, fees, usage, bounds>>

\* A claim that fails outright is only logged too.
LoseRating(a) ==
    /\ actor[a].pc = "rate" /\ faults < MaxFaults
    /\ faults' = faults + 1
    /\ IF actor[a].after = "idle" THEN Done(a) ELSE Goto(a, actor[a].after)
    /\ UNCHANGED <<now, sub, leases, fees, usage, asked, requests>>

\* RenewSubscription's Update.  AttemptPayment follows, and whatever it leaves
\* unpaid is collected as Collections says.
AdvancePeriod(a) ==
    LET seen == actor[a].seen IN
    /\ actor[a].pc = "advance"
    /\ sub' = [seen EXCEPT !.start = seen.end, !.end = seen.end + Interval]
    /\ Done(a)
    /\ UNCHANGED <<now, leases, fees, usage, bounds>>

\* GenerateFinalUsageInvoice: meteredLines finds the window unrated, or there is
\* nothing to bill.
FindFinalUsage(a) ==
    LET seen == actor[a].seen IN
    /\ actor[a].pc = "final"
    /\ IF seen.start \notin rated THEN Continue(a, "finalInvoice", seen, TRUE, actor[a].after)
       ELSE IF actor[a].after = "idle" THEN Done(a) ELSE Goto(a, actor[a].after)
    /\ UNCHANGED <<now, sub, leases, fees, usage, bounds>>

CreateFinalInvoice(a) ==
    /\ actor[a].pc = "finalInvoice"
    /\ BillUsage(a)
    /\ Goto(a, "rate")
    /\ UNCHANGED <<now, sub, leases, fees, rated, alarmed, bounds>>

CancelAtPeriodEnd(a) ==
    /\ actor[a].pc = "finish"
    /\ sub' = [actor[a].seen EXCEPT !.status = "canceled", !.ending = FALSE]
    /\ Done(a)
    /\ UNCHANGED <<now, leases, fees, usage, bounds>>

----------------------------------------------------------------------------
(* The trial scheduler.                                                    *)

GetExpiredTrials(a) ==
    /\ actor[a].pc = "idle"
    /\ sub.status = "trialing" /\ Interval <= now
    /\ Continue(a, "convert", sub, FALSE, "idle")
    /\ UNCHANGED <<now, sub, leases, fees, usage, bounds>>

\* Mutant: the conversion does not ask whether the row is still trialing.
ConvertUnconditionally(a) ==
    /\ actor[a].pc = "convert"
    /\ sub' = [sub EXCEPT !.status = "active", !.start = Interval, !.end = 2 * Interval,
                          !.applied = actor[a].seen.applied + 1]
    /\ firsts' = firsts + 1
    /\ Done(a)
    /\ UNCHANGED <<now, leases, cycles, discounted, prepaid, granted, usage, bounds>>

\* One transaction: ActivateTrialWithTx matches a row still trialing, and the
\* first invoice is raised with it.
ConvertTrialToActive(a) ==
    /\ actor[a].pc = "convert"
    /\ IF sub.status = "trialing"
       THEN /\ sub' = [sub EXCEPT !.status = "active", !.start = Interval, !.end = 2 * Interval,
                                  !.applied = actor[a].seen.applied + 1]
            /\ firsts' = firsts + 1
       ELSE UNCHANGED <<sub, firsts>>
    /\ Done(a)
    /\ UNCHANGED <<now, leases, cycles, discounted, prepaid, granted, usage, bounds>>

----------------------------------------------------------------------------
(* The API, and the scheduler that resumes: load, then write.              *)

Allowed(op) ==
    CASE op = "pause"      -> sub.status = "active"
      [] op = "resume"     -> sub.status = "paused"
      [] op = "reactivate" -> (sub.ending \/ sub.status = "canceled") /\ now <= sub.end
      [] op \in {"cancelNow", "cancelAtEnd"} -> sub.status # "canceled"
      [] OTHER             -> TRUE

Call(a, op) ==
    /\ actor[a].pc = "idle" /\ requests < MaxRequests
    /\ Allowed(op)
    /\ asked' = asked \cup {op} /\ requests' = requests + 1
    /\ Continue(a, op, sub, FALSE, "idle")
    /\ UNCHANGED <<now, sub, leases, fees, usage, faults>>

\* A pause that outlived its period resumes with a fresh one.
Resumed(seen) ==
    IF seen.end < now THEN [seen EXCEPT !.status = "active", !.start = now, !.end = now + Interval]
    ELSE [seen EXCEPT !.status = "active"]

Written(op, seen) ==
    CASE op = "pause"       -> [seen EXCEPT !.status = "paused"]
      [] op = "resume"      -> Resumed(seen)
      [] op = "cancelNow"   -> [seen EXCEPT !.status = "canceled"]
      [] op = "cancelAtEnd" -> [seen EXCEPT !.ending = TRUE]
      [] op = "reactivate"  -> [seen EXCEPT !.status = "active", !.ending = FALSE]
      [] op = "extend"      -> [seen EXCEPT !.end = @ + 1]

\* What the operation still has to do once its Update is committed.
Following(op) ==
    CASE op = "pause" -> "schedule" [] op = "resume" -> "unschedule"
      [] op = "cancelNow" -> "final" [] OTHER -> "idle"

Write(a) ==
    LET op == actor[a].pc
        seen == actor[a].seen IN
    /\ op \in {"pause", "resume", "cancelNow", "cancelAtEnd", "reactivate", "extend"}
    /\ sub' = Written(op, seen)
    /\ granted' = granted + sub'.end - seen.end
    /\ IF Following(op) = "idle" THEN Done(a) ELSE Goto(a, Following(op))
    /\ UNCHANGED <<now, leases, firsts, cycles, discounted, prepaid, usage, bounds>>

\* SetResumeAt, the pause's second statement.
ScheduleResume(a) ==
    /\ actor[a].pc = "schedule"
    /\ \E date \in {"none", "later"} : resumeAt' = date
    /\ Done(a)
    /\ UNCHANGED <<now, sub, claimed, fees, usage, bounds>>

ClearResume(a) ==
    /\ actor[a].pc = "unschedule"
    /\ resumeAt' = "none"
    /\ Done(a)
    /\ UNCHANGED <<now, sub, claimed, fees, usage, bounds>>

\* GenerateAdvanceInvoice for one period: the invoice has no unique key ...
CreateAdvanceInvoice(a) ==
    /\ actor[a].pc = "prepay" /\ actor[a].after = "idle"
    /\ prepaid' = prepaid + 1
    /\ Continue(a, "prepay", actor[a].seen, FALSE, "finish")
    /\ UNCHANGED <<now, sub, leases, firsts, cycles, discounted, granted, usage, bounds>>

\* Mutant: a prepaid period starts now, though the current one has not ended.
ExtendFromNow(a) ==
    LET seen == actor[a].seen IN
    /\ actor[a].pc = "prepay" /\ actor[a].after = "finish"
    /\ sub' = [seen EXCEPT !.end = now + Interval]
    /\ granted' = granted + now - seen.end
    /\ Done(a)
    /\ UNCHANGED <<now, leases, firsts, cycles, discounted, prepaid, usage, bounds>>

\* ... and then the period is extended, from now if it has ended.
ExtendPrepaid(a) ==
    LET seen == actor[a].seen
        from == IF seen.end < now THEN now ELSE seen.end
    IN
    /\ actor[a].pc = "prepay" /\ actor[a].after = "finish"
    /\ sub' = [seen EXCEPT !.end = from + Interval]
    /\ granted' = granted + from - seen.end
    /\ Done(a)
    /\ UNCHANGED <<now, leases, firsts, cycles, discounted, prepaid, usage, bounds>>

\* Mutant: the claim clears the date it should only push forward.
ClaimForgetsDate(a) ==
    /\ actor[a].pc = "idle"
    /\ sub.status = "paused" /\ resumeAt = "due"
    /\ resumeAt' = "none"
    /\ Goto(a, "reload")
    /\ UNCHANGED <<now, sub, claimed, fees, usage, bounds>>

\* The daily loop claims a paused row whose date has come and resumes it.
ClaimDueForResume(a) ==
    /\ actor[a].pc = "idle"
    /\ sub.status = "paused" /\ resumeAt = "due"
    /\ resumeAt' = "later"
    /\ Goto(a, "reload")
    /\ UNCHANGED <<now, sub, claimed, fees, usage, bounds>>

ResumeClaimed(a) ==
    /\ actor[a].pc = "reload"
    /\ IF Allowed("resume") THEN Continue(a, "resume", sub, FALSE, "idle") ELSE Done(a)
    /\ UNCHANGED <<now, sub, leases, fees, usage, bounds>>

Work(a) ==
    \/ ClaimDueForRenewal(a) \/ GenerateRenewalInvoice(a) \/ CreateRenewalInvoice(a)
    \/ ClaimRating(a) \/ AdvancePeriod(a)
    \/ FindFinalUsage(a) \/ CreateFinalInvoice(a) \/ CancelAtPeriodEnd(a)
    \/ GetExpiredTrials(a) \/ ConvertTrialToActive(a)
    \/ ClaimDueForResume(a) \/ ResumeClaimed(a)
    \/ Write(a) \/ ScheduleResume(a) \/ ClearResume(a)
    \/ CreateAdvanceInvoice(a) \/ ExtendPrepaid(a)

Next ==
    \/ Tick \/ RenewalLeaseLapses \/ ResumeDatePasses
    \/ \E a \in Actors : \/ Work(a) \/ Fail(a) \/ LoseRating(a)
                         \/ \E op \in Requests : Call(a, op)

Spec == Init /\ [][Next]_vars

\* The loops run, leases lapse and a started operation ends; nobody has to call,
\* and nothing has to fail.
FairSpec ==
    /\ Spec
    /\ WF_vars(RenewalLeaseLapses) /\ WF_vars(ResumeDatePasses)
    /\ \A a \in Actors : WF_vars(Work(a))

----------------------------------------------------------------------------
(* Properties.                                                             *)

\* Type invariant over the rows, the invoices raised and the actors.
TypeOK ==
    /\ now \in Nat /\ sub \in Row
    /\ claimed \in BOOLEAN /\ resumeAt \in {"none", "due", "later"}
    /\ firsts \in Nat /\ prepaid \in Nat /\ granted \in Nat
    /\ cycles \subseteq Nat /\ IsFiniteSet(cycles) /\ discounted \subseteq cycles
    /\ rated \subseteq Nat /\ alarmed \subseteq Nat /\ usageBills \subseteq Nat \X Actors
    /\ actor \in [Actors -> Actor]
    /\ asked \subseteq Requests /\ requests \in Nat /\ faults \in Nat

\* However requests, crashes and lapsed leases overwrite each other's rows, the
\* subscription is never served past what its invoices, and the days and fresh
\* periods given without charge, add up to.
NoFreeService ==
    sub.end <= Interval * (firsts + Cardinality(cycles) + prepaid) + granted

\* A renewal that invoiced and then failed is retried onto the same invoice and
\* takes the coupon's progress from it, so as long as nobody else writes the row
\* no more periods are discounted than the coupon lasts.
CouponRunsItsCourse ==
    asked = {} => firsts + Cardinality(discounted) <= CouponPeriods

\* However many loops find the trial expired, and whether or not it is canceled,
\* paused or reactivated meanwhile, its first period is invoiced once.
TrialBilledOnce ==
    asked \subseteq {"pause", "resume", "cancelNow", "reactivate"} => firsts <= 1

\* When the same usage has reached two invoices (a renewal and a cancellation
\* that both found it unrated), one of the two claims has logged the conflict.
DoubleRatingIsReported ==
    Quiet /\ faults = 0 =>
        \A b, c \in usageBills : b[1] = c[1] /\ b # c => b[1] \in alarmed

\* An active subscription whose period has ended is renewed, or ends.
DueIsRenewed == Due ~> ~Due

\* The resume date of a pause is being written, or cleared after a resume.
DateInFlight == \E a \in Actors : actor[a].pc \in {"pause", "schedule", "unschedule"}

\* A pause whose date to resume has come ends, though the loop that resumes may die
\* after it has moved the date, and whatever other requests write meanwhile, unless
\* a statement that writes or clears the date is still to come.
ScheduledPauseEnds ==
    (sub.status = "paused" /\ resumeAt = "due" /\ ~DateInFlight) ~> sub.status # "paused"

\* What is wanted and does not hold, since ClearResume may come after the next pause: the
\* date a pause was given is not clobbered later, that is, a paused subscription loses it
\* only to the pause's own SetResumeAt (subscription_pause.go: "The resume time is
\* written with a targeted SetResumeAt (not the full-row Update) so it can't be
\* clobbered later").
DateIsNotClobbered ==
    [][sub.status = "paused" /\ sub'.status = "paused" /\ resumeAt # "none" /\ resumeAt' = "none"
       => \E a \in Actors : actor[a].pc = "schedule"]_vars
=============================================================================
