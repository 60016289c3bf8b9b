--------------------------- MODULE Renewal_proofs ---------------------------
(***************************************************************************)
(* That a subscription is never served past what it was billed or granted, *)
(* for every number of actors, every request and every fault, and even     *)
(* when leases lapse and stale rows overwrite newer ones.                  *)
(*                                                                         *)
(* The bound of NoFreeService is not inductive, because an older row, with *)
(* a period that starts earlier, may be written back at any time.  So it   *)
(* is strengthened to rows: the end of ANY row a step may still write is   *)
(* covered by the invoices of the periods before its own start.            *)
(*                                                                         *)
(* Three more invariants rest on it, each about the requests that do not   *)
(* write rows back over newer ones: how often a trial is invoiced, how     *)
(* many periods a coupon discounts, and whether a usage that reached two   *)
(* invoices was reported.  Each has its own strengthening, which follows   *)
(* the row from the moment an actor loads it to the moment it writes.      *)
(***************************************************************************)
EXTENDS Renewal, FiniteSetTheorems, TLAPS

USE RenewalAssumption

Before(s) == {k \in cycles : k < s}
Billed(s) == Interval * (firsts + Cardinality(Before(s)) + prepaid) + granted

\* What every row holds that is stored or may still be written.
Sound(row) ==
    /\ row.start < row.end
    /\ row.status = "trialing" => Interval <= granted
    /\ row.end <= Billed(row.start)

\* What an actor holding the row may rely on.
ActorOK(y) ==
    /\ y.pc \notin {"idle", "reload"} => Sound(y.seen)
    /\ y.pc = "advance" \/ (y.pc = "rate" /\ y.after = "advance") => y.seen.start \in cycles
    /\ y.pc \in {"final", "finalInvoice"} => y.after # "advance"
    /\ y.pc \in {"pause", "resume", "cancelNow", "cancelAtEnd", "reactivate", "extend"}
          => y.after = "idle"
    /\ y.pc = "prepay" /\ y.after = "finish" => y.seen.end + Interval <= Billed(y.seen.start)

RInv == TypeOK /\ Sound(sub) /\ \A a \in Actors : ActorOK(actor[a])

----------------------------------------------------------------------------
(* Counting the periods billed before a date.                              *)

LEMMA CountGrows ==
    ASSUME NEW S, NEW T, IsFiniteSet(T), S \subseteq T
    PROVE  IsFiniteSet(S) /\ Cardinality(S) \in Nat /\ Cardinality(S) <= Cardinality(T)
BY FS_Subset, FS_CardinalityType

LEMMA Products ==
    ASSUME NEW m \in Nat, NEW n \in Nat, m <= n
    PROVE  /\ Interval * m \in Nat /\ Interval * m <= Interval * n
           /\ Interval * (m + 1) = Interval * m + Interval
BY SMT

\* The amount Billed compares: a count of periods and some ticks on top.
LEMMA Amounts ==
    ASSUME NEW f \in Nat, NEW g \in Nat, NEW c \in Nat, NEW d \in Nat, NEW p \in Nat, NEW q \in Nat,
           f <= g, c <= d, p <= q
    PROVE  /\ Interval * (f + c + p) \in Nat
           /\ Interval * (f + c + p) <= Interval * (g + d + q)
           /\ (f < g \/ c < d \/ p < q) =>
                Interval * (f + c + p) + Interval <= Interval * (g + d + q)
<1>1. f + c + p <= g + d + q /\ f + c + p \in Nat /\ g + d + q \in Nat
  OBVIOUS
<1>2. CASE f < g \/ c < d \/ p < q
  <2>1. f + c + p + 1 <= g + d + q /\ f + c + p + 1 \in Nat
    BY <1>1, <1>2
  <2>2. Interval * (f + c + p + 1) = Interval * (f + c + p) + Interval
    BY <1>1, Products
  <2>3. Interval * (f + c + p + 1) <= Interval * (g + d + q)
    BY <1>1, <2>1, Products
  <2> QED BY <1>1, <2>2, <2>3, Products
<1> QED BY <1>1, <1>2, Products

LEMMA BeforeCounts ==
    ASSUME TypeOK, NEW s \in Nat
    PROVE  /\ Cardinality(Before(s)) \in Nat /\ IsFiniteSet(Before(s))
           /\ Cardinality(Before(s)) <= Cardinality(cycles)
           /\ \A e \in Nat : s <= e => Cardinality(Before(s)) <= Cardinality(Before(e))
           /\ \A e \in Nat : s < e /\ s \in cycles => Cardinality(Before(s)) < Cardinality(Before(e))
<1>1. IsFiniteSet(cycles) /\ cycles \subseteq Nat
  BY DEF TypeOK
<1>2. \A e \in Nat : Before(e) \subseteq cycles /\ IsFiniteSet(Before(e)) /\ Cardinality(Before(e)) \in Nat
                    /\ Cardinality(Before(e)) <= Cardinality(cycles)
  BY <1>1, CountGrows DEF Before
<1>3. ASSUME NEW e \in Nat, s <= e
      PROVE  Before(s) \subseteq Before(e)
  <2> SUFFICES ASSUME NEW k \in cycles, k < s PROVE k < e
    BY DEF Before
  <2>1. k \in Nat
    BY <1>1
  <2> QED BY <1>3, <2>1
<1>4. \A e \in Nat : s <= e => Cardinality(Before(s)) <= Cardinality(Before(e))
  BY <1>2, <1>3, CountGrows
<1>5. ASSUME NEW e \in Nat, s < e, s \in cycles
      PROVE  Cardinality(Before(s)) < Cardinality(Before(e))
  <2>1. s \notin Before(s) /\ Before(s) \cup {s} \subseteq Before(e)
    <3>1. s \notin Before(s) /\ s \in Before(e)
      BY <1>5 DEF Before
    <3> QED BY <1>3, <1>5, <3>1
  <2>2. Cardinality(Before(s) \cup {s}) = Cardinality(Before(s)) + 1
    BY <1>2, <2>1, FS_AddElement
  <2>3. Cardinality(Before(s) \cup {s}) <= Cardinality(Before(e))
    BY <1>2, <2>1, CountGrows
  <2> QED BY <1>2, <2>2, <2>3
<1> QED BY <1>2, <1>4, <1>5

\* A later start is billed at least as much, and a period more when the period
\* of the earlier start has its invoice.
LEMMA BilledLater ==
    ASSUME TypeOK, NEW s \in Nat, NEW e \in Nat, s <= e
    PROVE  /\ Billed(s) \in Nat /\ Billed(s) <= Billed(e)
           /\ s < e /\ s \in cycles => Billed(s) + Interval <= Billed(e)
           /\ Billed(s) <= Interval * (firsts + Cardinality(cycles) + prepaid) + granted
           /\ Interval * firsts + granted <= Billed(s)
<1>1. firsts \in Nat /\ prepaid \in Nat /\ granted \in Nat /\ Cardinality(cycles) \in Nat
  BY FS_CardinalityType DEF TypeOK
<1> DEFINE c == Cardinality(Before(s))
           d == Cardinality(Before(e))
<1>2. c \in Nat /\ d \in Nat /\ c <= d /\ c <= Cardinality(cycles)
      /\ (s < e /\ s \in cycles => c < d)
  BY BeforeCounts
<1> HIDE DEF c, d
<1>3. /\ Interval * (firsts + c + prepaid) \in Nat
      /\ Interval * (firsts + c + prepaid) <= Interval * (firsts + d + prepaid)
      /\ c < d => Interval * (firsts + c + prepaid) + Interval <= Interval * (firsts + d + prepaid)
  BY <1>1, <1>2, Amounts
<1>4. Interval * (firsts + c + prepaid) <= Interval * (firsts + Cardinality(cycles) + prepaid)
  BY <1>1, <1>2, Amounts
<1>5. Interval * firsts <= Interval * (firsts + c + prepaid)
  BY <1>1, <1>2, Products
<1>6. Interval * (firsts + Cardinality(cycles) + prepaid) \in Nat /\ Interval * (firsts + d + prepaid) \in Nat
      /\ Interval * firsts \in Nat
  BY <1>1, <1>2, Products
<1>7. Billed(s) = Interval * (firsts + c + prepaid) + granted
      /\ Billed(e) = Interval * (firsts + d + prepaid) + granted
  BY DEF Billed, c, d
<1> QED BY <1>1, <1>2, <1>3, <1>4, <1>5, <1>6, <1>7

----------------------------------------------------------------------------
(* Steps: what was billed stays billed.                                    *)

Grows == firsts <= firsts' /\ prepaid <= prepaid' /\ granted <= granted' /\ cycles \subseteq cycles'

LEMMA BilledGrows ==
    ASSUME TypeOK, TypeOK', Grows, NEW s \in Nat
    PROVE  /\ Billed(s) \in Nat /\ Billed(s)' \in Nat /\ Billed(s) <= Billed(s)'
           /\ firsts < firsts' \/ prepaid < prepaid' => Billed(s) + Interval <= Billed(s)'
           /\ Billed(s) + granted' - granted <= Billed(s)'
<1>1. /\ firsts \in Nat /\ prepaid \in Nat /\ granted \in Nat /\ cycles \subseteq Nat
      /\ firsts' \in Nat /\ prepaid' \in Nat /\ granted' \in Nat /\ cycles' \subseteq Nat
      /\ IsFiniteSet(cycles')
  BY DEF TypeOK
<1> DEFINE b == {k \in cycles : k < s}
           d == {k \in cycles' : k < s}
<1>2. b \subseteq d /\ d \subseteq cycles'
  BY DEF Grows
<1>3. IsFiniteSet(d)
  BY <1>1, <1>2, CountGrows
<1>4. Cardinality(b) \in Nat /\ Cardinality(d) \in Nat /\ Cardinality(b) <= Cardinality(d)
  BY <1>2, <1>3, CountGrows, FS_CardinalityType
<1>5. /\ Billed(s) = Interval * (firsts + Cardinality(b) + prepaid) + granted
      /\ Billed(s)' = Interval * (firsts' + Cardinality(d) + prepaid') + granted'
  BY DEF Billed, Before
<1> HIDE DEF b, d
<1>6. /\ Interval * (firsts + Cardinality(b) + prepaid) \in Nat
      /\ Interval * (firsts' + Cardinality(d) + prepaid') \in Nat
      /\ Interval * (firsts + Cardinality(b) + prepaid) <= Interval * (firsts' + Cardinality(d) + prepaid')
      /\ firsts < firsts' \/ prepaid < prepaid' =>
           Interval * (firsts + Cardinality(b) + prepaid) + Interval
             <= Interval * (firsts' + Cardinality(d) + prepaid')
  BY <1>1, <1>4, Amounts DEF Grows
<1> QED BY <1>1, <1>5, <1>6 DEF Grows

LEMMA SoundStays ==
    ASSUME TypeOK, TypeOK', Grows, NEW x \in Row, Sound(x)
    PROVE  Sound(x)'
<1>1. x.start \in Nat /\ x.end \in Nat
  BY DEF Row
<1>2. Billed(x.start) \in Nat /\ Billed(x.start)' \in Nat /\ Billed(x.start) <= Billed(x.start)'
  BY <1>1, BilledGrows
<1>3. x.status = "trialing" => Interval <= granted'
  BY DEF Grows, Sound, TypeOK
<1>4. x.end <= Billed(x.start)'
  BY <1>1, <1>2 DEF Sound
<1> QED BY <1>3, <1>4 DEF Sound

LEMMA ActorStays ==
    ASSUME TypeOK, TypeOK', Grows, NEW y \in Actor, ActorOK(y)
    PROVE  ActorOK(y)'
<1>1. y.seen \in Row /\ y.seen.start \in Nat /\ y.seen.end \in Nat
  BY DEF Actor, Row
<1>2. y.pc \notin {"idle", "reload"} => Sound(y.seen)'
  BY <1>1, SoundStays DEF ActorOK
<1>3. y.pc = "prepay" /\ y.after = "finish" => y.seen.end + Interval <= Billed(y.seen.start)'
  <2>1. Billed(y.seen.start) \in Nat /\ Billed(y.seen.start)' \in Nat
        /\ Billed(y.seen.start) <= Billed(y.seen.start)'
    BY <1>1, BilledGrows
  <2> QED BY <1>1, <2>1 DEF ActorOK
<1>4. y.pc = "advance" \/ (y.pc = "rate" /\ y.after = "advance") => y.seen.start \in cycles'
  BY DEF ActorOK, Grows
<1> QED BY <1>2, <1>3, <1>4 DEF ActorOK

\* A step that leaves every actor where it is, or moves one.
LEMMA Step ==
    ASSUME RInv, TypeOK', Grows, Sound(sub)',
           \/ UNCHANGED actor
           \/ \E a \in Actors, y \in Actor :
                actor' = [actor EXCEPT ![a] = y] /\ ActorOK(y)'
    PROVE  RInv'
<1>1. TypeOK /\ actor \in [Actors -> Actor] /\ \A a \in Actors : ActorOK(actor[a])
  BY DEF RInv, TypeOK
<1>2. \A a \in Actors : ActorOK(actor[a])'
  <2>1. CASE UNCHANGED actor
    <3> SUFFICES ASSUME NEW b \in Actors PROVE ActorOK(actor[b])'
      OBVIOUS
    <3>1. PICK y \in Actor : y = actor[b]
      BY <1>1
    <3>2. ActorOK(y)'
      BY <1>1, <3>1, ActorStays
    <3> QED BY <2>1, <3>1, <3>2 DEF ActorOK
  <2>2. ASSUME NEW a \in Actors, NEW y \in Actor, actor' = [actor EXCEPT ![a] = y], ActorOK(y)'
        PROVE  \A b \in Actors : ActorOK(actor[b])'
    <3> SUFFICES ASSUME NEW b \in Actors PROVE ActorOK(actor[b])'
      OBVIOUS
    <3>1. CASE b = a
      <4>1. actor'[b] = y
        BY <1>1, <2>2, <3>1
      <4> QED BY <2>2, <4>1 DEF ActorOK
    <3>2. CASE b # a
      <4>1. PICK z \in Actor : z = actor[b]
        BY <1>1
      <4>2. ActorOK(z)'
        BY <1>1, <4>1, ActorStays
      <4>3. actor'[b] = z
        BY <1>1, <2>2, <3>2, <4>1
      <4> QED BY <4>2, <4>3 DEF ActorOK
    <3> QED BY <3>1, <3>2
  <2> QED BY <2>1, <2>2
<1> QED BY <1>2 DEF RInv

----------------------------------------------------------------------------
(* The steps, first those that leave the row and the invoices alone.       *)

LEMMA Held ==
    ASSUME RInv, NEW a \in Actors
    PROVE  /\ actor[a] \in Actor /\ ActorOK(actor[a])
           /\ actor[a].seen \in Row /\ actor[a].seen.start \in Nat /\ actor[a].seen.end \in Nat
           /\ actor[a].metered \in BOOLEAN
           /\ Idle \in Actor /\ ActorOK(Idle)
           /\ \A p : [actor EXCEPT ![a].pc = p] = [actor EXCEPT ![a] =
                 [pc |-> p, seen |-> actor[a].seen, metered |-> actor[a].metered, after |-> actor[a].after]]
<1>1. actor[a] \in Actor /\ ActorOK(actor[a])
  BY DEF RInv, TypeOK
<1>2. actor[a].seen \in Row /\ actor[a].metered \in BOOLEAN
  BY <1>1 DEF Actor
<1>3. actor[a].seen.start \in Nat /\ actor[a].seen.end \in Nat
  BY <1>2 DEF Row
<1>4. Created(FALSE) \in Row
  BY DEF Created, Row
<1>5. Idle \in Actor /\ ActorOK(Idle)
  BY <1>4 DEF Idle, Actor, ActorOK
<1>6. \A p : [actor[a] EXCEPT !.pc = p] =
            [pc |-> p, seen |-> actor[a].seen, metered |-> actor[a].metered, after |-> actor[a].after]
  BY <1>1 DEF Actor
<1> QED BY <1>1, <1>2, <1>3, <1>5, <1>6

OtherType ==
    /\ now \in Nat /\ claimed \in BOOLEAN /\ resumeAt \in {"none", "due", "later"}
    /\ discounted \subseteq cycles
    /\ rated \subseteq Nat /\ alarmed \subseteq Nat /\ usageBills \subseteq Nat \X Actors
    /\ asked \subseteq Requests /\ requests \in Nat /\ faults \in Nat
FeesType ==
    /\ firsts \in Nat /\ prepaid \in Nat /\ granted \in Nat
    /\ cycles \subseteq Nat /\ IsFiniteSet(cycles)

LEMMA TypeParts ==
    TypeOK <=> OtherType /\ FeesType /\ sub \in Row /\ actor \in [Actors -> Actor]
BY DEF TypeOK, OtherType, FeesType

LEMMA TypePartsNext ==
    TypeOK' <=> OtherType' /\ FeesType' /\ sub' \in Row /\ actor' \in [Actors -> Actor]
BY DEF TypeOK, OtherType, FeesType

LEMMA QuietStep ==
    ASSUME RInv, OtherType', UNCHANGED <<sub, fees>>,
           \/ UNCHANGED actor
           \/ \E a \in Actors, y \in Actor : actor' = [actor EXCEPT ![a] = y] /\ ActorOK(y)
    PROVE  RInv'
<1>0. TypeOK /\ Sound(sub) /\ sub \in Row /\ actor \in [Actors -> Actor]
  BY DEF RInv, TypeOK
<1>1. TypeOK'
  <2>1. FeesType'
    BY <1>0, TypeParts DEF FeesType, fees
  <2>2. actor' \in [Actors -> Actor]
    BY <1>0
  <2> QED BY <1>0, <2>1, <2>2, TypePartsNext
<1>2. Grows
  BY <1>0 DEF Grows, TypeOK, fees
<1>3. Sound(sub)'
  BY <1>0, <1>1, <1>2, SoundStays DEF Sound
<1>4. \A y \in Actor : ActorOK(y) => ActorOK(y)'
  BY <1>0, <1>1, <1>2, ActorStays
<1> QED BY <1>1, <1>2, <1>3, <1>4, Step

LEMMA LeaseSteps ==
    ASSUME RInv, Tick \/ RenewalLeaseLapses \/ ResumeDatePasses PROVE RInv'
<1>1. OtherType
  BY TypeParts DEF RInv
<1>2. UNCHANGED <<sub, fees, actor>>
  BY DEF Tick, RenewalLeaseLapses, ResumeDatePasses
<1>3. OtherType'
  <2>1. CASE Tick
    BY <1>1, <2>1 DEF OtherType, Tick, usage, bounds, leases, fees
  <2>2. CASE RenewalLeaseLapses
    BY <1>1, <2>2 DEF OtherType, RenewalLeaseLapses, usage, bounds, fees
  <2>3. CASE ResumeDatePasses
    BY <1>1, <2>3 DEF OtherType, ResumeDatePasses, usage, bounds, fees
  <2> QED BY <2>1, <2>2, <2>3
<1> QED BY <1>2, <1>3, QuietStep

LEMMA FailStep ==
    ASSUME RInv, NEW a \in Actors, Fail(a) \/ LoseRating(a) PROVE RInv'
<1>1. OtherType
  BY TypeParts DEF RInv
<1>2. OtherType' /\ UNCHANGED <<sub, fees>>
  <2>1. UNCHANGED <<now, sub, leases, fees, usage, asked, requests>> /\ faults' = faults + 1
    BY DEF Fail, LoseRating
  <2> QED BY <1>1, <2>1 DEF OtherType, usage, leases, fees
<1>3. actor[a].pc = "rate" => [actor[a] EXCEPT !.pc = actor[a].after] \in Actor
                              /\ (actor[a].after # "idle" => ActorOK([actor[a] EXCEPT !.pc = actor[a].after]))
  BY Held DEF Actor, ActorOK
<1>4. \E y \in Actor : actor' = [actor EXCEPT ![a] = y] /\ ActorOK(y)
  <2>1. CASE Done(a)
    BY <2>1, Held DEF Done
  <2>2. CASE actor[a].pc = "rate" /\ actor[a].after # "idle" /\ Goto(a, actor[a].after)
    BY <1>3, <2>2 DEF Goto
  <2> QED BY <2>1, <2>2 DEF Fail, LoseRating
<1> QED BY <1>2, <1>4, QuietStep

LEMMA LoadSteps ==
    ASSUME RInv, NEW a \in Actors,
           \/ ClaimDueForRenewal(a) \/ GetExpiredTrials(a) \/ ClaimDueForResume(a) \/ ResumeClaimed(a)
           \/ \E op \in Requests : Call(a, op)
    PROVE  RInv'
<1>1. OtherType /\ sub \in Row /\ Sound(sub)
  BY TypeParts DEF RInv
<1>2. OtherType' /\ UNCHANGED <<sub, fees>>
  <2>1. CASE ClaimDueForRenewal(a)
    BY <1>1, <2>1 DEF OtherType, ClaimDueForRenewal, usage, fees, bounds
  <2>2. CASE GetExpiredTrials(a)
    BY <1>1, <2>2 DEF OtherType, GetExpiredTrials, usage, leases, fees, bounds
  <2>3. CASE ClaimDueForResume(a)
    BY <1>1, <2>3 DEF OtherType, ClaimDueForResume, usage, fees, bounds
  <2>4. CASE ResumeClaimed(a)
    BY <1>1, <2>4 DEF OtherType, ResumeClaimed, usage, leases, fees, bounds
  <2>5. ASSUME NEW op \in Requests, Call(a, op)
        PROVE  OtherType' /\ UNCHANGED <<sub, fees>>
    BY <1>1, <2>5 DEF OtherType, Call, usage, leases, fees
  <2> QED BY <2>1, <2>2, <2>3, <2>4, <2>5
<1>3. \A pc \in {"renew", "convert", "pause", "resume", "cancelNow", "cancelAtEnd",
                  "reactivate", "extend", "prepay"} :
        LET y == [pc |-> pc, seen |-> sub, metered |-> FALSE, after |-> "idle"]
        IN  y \in Actor /\ ActorOK(y)
  BY <1>1 DEF Actor, ActorOK
<1>4. \A pc \in {"renew", "final"} :
        LET y == [pc |-> pc, seen |-> sub, metered |-> FALSE, after |-> "finish"]
        IN  y \in Actor /\ ActorOK(y)
  BY <1>1 DEF Actor, ActorOK
<1>5. \E y \in Actor : actor' = [actor EXCEPT ![a] = y] /\ ActorOK(y)
  <2>1. CASE ClaimDueForRenewal(a)
    <3>1. \E pc \in {"renew", "final"} : Continue(a, pc, sub, FALSE, "finish")
      BY <2>1 DEF ClaimDueForRenewal
    <3> QED BY <1>4, <3>1 DEF Continue
  <2>2. CASE GetExpiredTrials(a) \/ \E op \in Requests : Call(a, op)
    <3>1. \E pc \in {"convert", "pause", "resume", "cancelNow", "cancelAtEnd",
                      "reactivate", "extend", "prepay"} : Continue(a, pc, sub, FALSE, "idle")
      BY <2>2 DEF GetExpiredTrials, Call
    <3> QED BY <1>3, <3>1 DEF Continue
  <2>3. CASE ClaimDueForResume(a)
    <3>1. [actor[a] EXCEPT !.pc = "reload"] \in Actor /\ ActorOK([actor[a] EXCEPT !.pc = "reload"])
      BY Held DEF Actor, ActorOK
    <3> QED BY <2>3, <3>1 DEF ClaimDueForResume, Goto
  <2>4. CASE ResumeClaimed(a)
    <3>1. CASE Continue(a, "resume", sub, FALSE, "idle")
      BY <1>3, <3>1 DEF Continue
    <3>2. CASE Done(a)
      BY <3>2, Held DEF Done
    <3> QED BY <2>4, <3>1, <3>2 DEF ResumeClaimed
  <2> QED BY <2>1, <2>2, <2>3, <2>4
<1> QED BY <1>2, <1>5, QuietStep

----------------------------------------------------------------------------
LEMMA LookSteps ==
    ASSUME RInv, NEW a \in Actors,
           \/ GenerateRenewalInvoice(a) \/ FindFinalUsage(a)
           \/ ScheduleResume(a) \/ ClearResume(a)
    PROVE  RInv'
<1>1. OtherType
  BY TypeParts DEF RInv
<1>2. OtherType' /\ UNCHANGED <<sub, fees>>
  <2>1. CASE GenerateRenewalInvoice(a)
    BY <1>1, <2>1 DEF OtherType, GenerateRenewalInvoice, usage, leases, fees, bounds
  <2>2. CASE FindFinalUsage(a)
    BY <1>1, <2>2 DEF OtherType, FindFinalUsage, usage, leases, fees, bounds
  <2>3. CASE ScheduleResume(a)
    BY <1>1, <2>3 DEF OtherType, ScheduleResume, usage, fees, bounds
  <2>4. CASE ClearResume(a)
    BY <1>1, <2>4 DEF OtherType, ClearResume, usage, fees, bounds
  <2> QED BY <2>1, <2>2, <2>3, <2>4
<1> DEFINE seen == actor[a].seen
<1>3. \E y \in Actor : actor' = [actor EXCEPT ![a] = y] /\ ActorOK(y)
  <2>1. ASSUME GenerateRenewalInvoice(a)
        PROVE  \E y \in Actor : actor' = [actor EXCEPT ![a] = y] /\ ActorOK(y)
    <3>1. Sound(seen)
      BY <2>1, Held DEF GenerateRenewalInvoice, ActorOK
    <3>2. WithCoupon(seen) \in Row /\ WithCoupon(seen).start = seen.start
          /\ WithCoupon(seen).end = seen.end /\ WithCoupon(seen).status = seen.status
      BY Held DEF WithCoupon, Row
    <3>3. CASE seen.start \in cycles
      <4>1. \E x \in Row : /\ x.start = seen.start /\ x.end = seen.end /\ x.status = seen.status
                            /\ Continue(a, "advance", x, FALSE, "advance")
        BY <2>1, <3>2, <3>3, Held DEF GenerateRenewalInvoice
      <4>2. PICK x \in Row : /\ x.start = seen.start /\ x.end = seen.end /\ x.status = seen.status
                             /\ Continue(a, "advance", x, FALSE, "advance")
        BY <4>1
      <4>3. Sound(x)
        BY <3>1, <4>2 DEF Sound
      <4> DEFINE y == [pc |-> "advance", seen |-> x, metered |-> FALSE, after |-> "advance"]
      <4>4. y \in Actor /\ ActorOK(y)
        BY <3>3, <4>2, <4>3 DEF Actor, ActorOK
      <4> QED BY <4>2, <4>4 DEF Continue
    <3>4. CASE seen.start \notin cycles
      <4> DEFINE y == [pc |-> "invoice", seen |-> seen, metered |-> seen.start \notin rated, after |-> "advance"]
      <4>1. y \in Actor /\ ActorOK(y)
        BY <3>1, Held DEF Actor, ActorOK
      <4> QED BY <2>1, <3>4, <4>1 DEF GenerateRenewalInvoice, Continue
    <3> QED BY <3>3, <3>4
  <2>2. ASSUME FindFinalUsage(a)
        PROVE  \E y \in Actor : actor' = [actor EXCEPT ![a] = y] /\ ActorOK(y)
    <3>1. actor[a].pc = "final" /\ Sound(seen) /\ actor[a].after \in {"idle", "finish"}
      BY <2>2, Held DEF FindFinalUsage, ActorOK, Actor
    <3>2. CASE Continue(a, "finalInvoice", seen, TRUE, actor[a].after)
      <4> DEFINE y == [pc |-> "finalInvoice", seen |-> seen, metered |-> TRUE, after |-> actor[a].after]
      <4>1. y \in Actor /\ ActorOK(y)
        BY <3>1, Held DEF Actor, ActorOK
      <4> QED BY <3>2, <4>1 DEF Continue
    <3>3. CASE Done(a)
      BY <3>3, Held DEF Done
    <3>4. CASE actor[a].after = "finish" /\ Goto(a, actor[a].after)
      <4> DEFINE y == [pc |-> "finish", seen |-> seen, metered |-> actor[a].metered, after |-> actor[a].after]
      <4>1. y \in Actor /\ ActorOK(y)
        BY <3>1, Held DEF Actor, ActorOK
      <4>2. actor' = [actor EXCEPT ![a].pc = "finish"]
        BY <3>4 DEF Goto
      <4> QED BY <4>1, <4>2, Held
    <3> QED BY <2>2, <3>1, <3>2, <3>3, <3>4 DEF FindFinalUsage
  <2>3. CASE ScheduleResume(a) \/ ClearResume(a)
    BY <2>3, Held DEF ScheduleResume, ClearResume, Done
  <2> QED BY <2>1, <2>2, <2>3
<1> QED BY <1>2, <1>3, QuietStep

LEMMA UsageSteps ==
    ASSUME RInv, NEW a \in Actors, ClaimRating(a) \/ CreateFinalInvoice(a)
    PROVE  RInv'
<1>1. OtherType
  BY TypeParts DEF RInv
<1>2. OtherType' /\ UNCHANGED <<sub, fees>>
  <2>1. CASE ClaimRating(a)
    <3>1. rated' \subseteq Nat /\ alarmed' \subseteq Nat
      BY <1>1, <2>1, Held DEF OtherType, ClaimRating
    <3> QED BY <1>1, <2>1, <3>1 DEF OtherType, ClaimRating, leases, fees, bounds
  <2>2. CASE CreateFinalInvoice(a)
    <3>1. usageBills' \subseteq Nat \X Actors
      BY <1>1, <2>2, Held DEF OtherType, CreateFinalInvoice, BillUsage
    <3> QED BY <1>1, <2>2, <3>1 DEF OtherType, CreateFinalInvoice, leases, fees, bounds
  <2> QED BY <2>1, <2>2
<1>3. \E y \in Actor : actor' = [actor EXCEPT ![a] = y] /\ ActorOK(y)
  <2>1. CASE Done(a)
    BY <2>1, Held DEF Done
  <2>2. ASSUME NEW pc \in {"advance", "finish", "rate"}, Goto(a, pc),
               pc # "rate" => actor[a].pc = "rate" /\ actor[a].after = pc,
               pc = "rate" => actor[a].pc = "finalInvoice"
        PROVE  \E y \in Actor : actor' = [actor EXCEPT ![a] = y] /\ ActorOK(y)
    <3> DEFINE y == [pc |-> pc, seen |-> actor[a].seen, metered |-> actor[a].metered, after |-> actor[a].after]
    <3>1. y \in Actor /\ ActorOK(y)
      BY <2>2, Held DEF Actor, ActorOK
    <3> QED BY <2>2, <3>1, Held DEF Goto
  <2>3. CASE ClaimRating(a)
    <3>1. actor[a].after \in {"idle", "advance", "finish"}
      BY Held DEF Actor
    <3> QED BY <2>1, <2>2, <2>3, <3>1 DEF ClaimRating
  <2>4. CASE CreateFinalInvoice(a)
    BY <2>2, <2>4 DEF CreateFinalInvoice
  <2> QED BY <2>3, <2>4
<1> QED BY <1>2, <1>3, QuietStep

(* Then those that raise an invoice or write the row.                      *)

LEMMA RenewalInvoiceStep ==
    ASSUME RInv, NEW a \in Actors, CreateRenewalInvoice(a) PROVE RInv'
<1> DEFINE seen == actor[a].seen
           kept == IF CouponApplies(seen) THEN WithCoupon(seen) ELSE seen
<1>1. OtherType /\ FeesType /\ sub \in Row /\ Sound(sub) /\ actor \in [Actors -> Actor]
  BY TypeParts DEF RInv
<1>2. CASE seen.start \in cycles
  <2>1. UNCHANGED <<sub, fees>> /\ Done(a) /\ UNCHANGED <<now, leases, usage, bounds>>
    BY <1>2 DEF CreateRenewalInvoice
  <2>2. OtherType'
    BY <1>1, <2>1 DEF OtherType, leases, usage, bounds, fees
  <2> QED BY <2>1, <2>2, Held, QuietStep DEF Done
<1>3. CASE seen.start \notin cycles
  <2>1. UNCHANGED <<now, sub, leases, bounds, firsts, prepaid, granted, rated, alarmed>>
        /\ cycles' = cycles \cup {seen.start}
        /\ discounted' \subseteq cycles \cup {seen.start}
        /\ usageBills' \subseteq Nat \X Actors
    BY <1>1, <1>3, Held DEF CreateRenewalInvoice, BillUsage, OtherType
  <2>2. OtherType'
    BY <1>1, <2>1 DEF OtherType, leases, bounds
  <2>3. FeesType'
    BY <1>1, <2>1, Held, FS_AddElement DEF FeesType
  <2>4. Grows
    BY <1>1, <2>1 DEF Grows, FeesType
  <2>5. PICK x \in Row : x = kept
    <3>1. seen \in Row /\ WithCoupon(seen) \in Row
      BY Held DEF WithCoupon, Row
    <3>2. kept \in Row
      BY <3>1
    <3> QED BY <3>2
  <2>6. Sound(x) /\ x.start = seen.start
    <3>1. x.start = seen.start /\ x.end = seen.end /\ x.status = seen.status
      BY <2>5, Held DEF WithCoupon, Row
    <3> QED BY <3>1, Held DEF CreateRenewalInvoice, ActorOK, Sound
  <2>7. PICK pc \in {"rate", "advance"} : Continue(a, pc, kept, actor[a].metered, "advance")
    BY <1>3 DEF CreateRenewalInvoice
  <2>8. PICK y \in Actor : /\ y = [pc |-> pc, seen |-> x, metered |-> actor[a].metered, after |-> "advance"]
                           /\ actor' = [actor EXCEPT ![a] = y]
    BY <2>5, <2>7, Held DEF Actor, Continue
  <2>9. TypeOK'
    BY <1>1, <2>1, <2>2, <2>3, <2>8, TypePartsNext
  <2>10. Sound(x)' /\ Sound(sub)'
    <3>1. TypeOK /\ Sound(sub)
      BY DEF RInv
    <3>2. Sound(x)'
      BY <2>4, <2>6, <2>9, <3>1, SoundStays
    <3>3. Sound(sub)'
      BY <1>1, <2>1, <2>4, <2>9, <3>1, SoundStays DEF Sound
    <3> QED BY <3>2, <3>3
  <2>11. y.seen = x /\ y.pc = pc /\ y.after = "advance" /\ x.start \in cycles'
    BY <2>1, <2>6, <2>8
  <2>12. ActorOK(y)'
    BY <2>10, <2>11 DEF ActorOK
  <2> QED BY <2>4, <2>8, <2>9, <2>10, <2>12, Step
<1> QED BY <1>2, <1>3

----------------------------------------------------------------------------
LEMMA WriteTypes ==
    ASSUME RInv, NEW a \in Actors, NEW y \in Actor, actor' = [actor EXCEPT ![a] = y], sub' \in Row,
           UNCHANGED <<now, leases, cycles, discounted, usage, bounds>>,
           firsts' \in Nat, prepaid' \in Nat, granted' \in Nat
    PROVE  TypeOK'
<1>1. OtherType /\ FeesType /\ actor \in [Actors -> Actor]
  BY TypeParts DEF RInv
<1>2. OtherType' /\ FeesType'
  BY <1>1 DEF OtherType, FeesType, leases, usage, bounds
<1> QED BY <1>1, <1>2, TypePartsNext

LEMMA NewPeriod ==
    ASSUME NEW s \in Row, NEW b \in Nat, NEW e \in Nat, NEW n \in Nat, NEW t \in {"active", "trialing", "paused", "canceled"}
    PROVE  /\ [s EXCEPT !.start = b, !.end = e] \in Row
           /\ [s EXCEPT !.status = t, !.start = b, !.end = e] \in Row
           /\ [s EXCEPT !.status = t, !.start = b, !.end = e, !.applied = n] \in Row
           /\ s.applied \in Nat /\ s.start \in Nat /\ s.end \in Nat
<1>1. [s EXCEPT !.start = b, !.end = e] \in Row
  BY DEF Row
<1>2. [s EXCEPT !.status = t, !.start = b, !.end = e] \in Row
  BY DEF Row
<1>3. [s EXCEPT !.status = t, !.start = b, !.end = e, !.applied = n] \in Row
  BY DEF Row
<1>4. s.applied \in Nat /\ s.start \in Nat /\ s.end \in Nat
  BY DEF Row
<1> QED BY <1>1, <1>2, <1>3, <1>4

LEMMA AdvanceStep ==
    ASSUME RInv, NEW a \in Actors, AdvancePeriod(a) \/ CancelAtPeriodEnd(a) PROVE RInv'
<1> DEFINE seen == actor[a].seen
<1>1. PICK s \in Row : s = seen
  BY Held
<1>2. Sound(s) /\ s.start \in Nat /\ s.end \in Nat /\ TypeOK
  BY <1>1, Held DEF AdvancePeriod, CancelAtPeriodEnd, ActorOK, RInv, Row
<1>3. UNCHANGED <<now, leases, fees, usage, bounds>> /\ actor' = [actor EXCEPT ![a] = Idle]
  BY DEF AdvancePeriod, CancelAtPeriodEnd, Done
<1>4. PICK x \in Row : /\ sub' = x /\ x.start < x.end /\ x.end <= Billed(x.start)
                       /\ x.status = "trialing" => s.status = "trialing"
  <2>1. CASE AdvancePeriod(a)
    <3>1. s.start \in cycles /\ s.start < s.end
      BY <1>1, <1>2, <2>1, Held DEF AdvancePeriod, ActorOK, Sound
    <3>2. Billed(s.start) \in Nat /\ Billed(s.end) \in Nat /\ Billed(s.start) + Interval <= Billed(s.end)
      BY <1>2, <3>1, BilledLater
    <3>3. [s EXCEPT !.start = s.end, !.end = s.end + Interval] \in Row
      <4>1. s.end + Interval \in Nat
        BY <1>2
      <4> QED BY <1>2, <4>1, NewPeriod
    <3>4. s.end + Interval <= Billed(s.end) /\ s.end < s.end + Interval
      BY <1>2, <3>2 DEF Sound
    <3>5. PICK x \in Row : x = [s EXCEPT !.start = s.end, !.end = s.end + Interval]
      BY <3>3
    <3>6. x.start = s.end /\ x.end = s.end + Interval /\ x.status = s.status
      BY <3>5 DEF Row
    <3>7. sub' = x
      BY <1>1, <2>1, <3>5 DEF AdvancePeriod
    <3> QED BY <3>4, <3>6, <3>7
  <2>2. CASE CancelAtPeriodEnd(a)
    <3>1. PICK x \in Row : x = [s EXCEPT !.status = "canceled", !.ending = FALSE]
      BY DEF Row
    <3>2. x.start = s.start /\ x.end = s.end /\ x.status = "canceled"
      BY <3>1 DEF Row
    <3> QED BY <1>1, <1>2, <2>2, <3>1, <3>2 DEF CancelAtPeriodEnd, Sound
  <2> QED BY <2>1, <2>2
<1>5. TypeOK' /\ Grows
  <2>1. UNCHANGED <<cycles, discounted, firsts, prepaid, granted>>
    BY <1>3 DEF fees
  <2>2. firsts \in Nat /\ prepaid \in Nat /\ granted \in Nat
    BY <1>2 DEF TypeOK
  <2>3. TypeOK'
    BY <1>3, <1>4, <2>1, <2>2, Held, WriteTypes
  <2> QED BY <2>1, <2>2, <2>3 DEF Grows
<1>6. x.start \in Nat /\ x.end \in Nat
  BY DEF Row
<1>7. Sound(x)'
  <2>1. x.end <= Billed(x.start)'
    BY <1>2, <1>4, <1>5, <1>6, BilledGrows
  <2>2. x.status = "trialing" => Interval <= granted'
    BY <1>2, <1>3, <1>4 DEF Sound, fees
  <2> QED BY <1>4, <2>1, <2>2 DEF Sound
<1>8. Sound(sub)'
  BY <1>4, <1>7 DEF Sound
<1>9. ActorOK(Idle)' /\ Idle \in Actor
  BY Held DEF ActorOK, Idle
<1> QED BY <1>3, <1>5, <1>8, <1>9, Step

LEMMA ConvertStep ==
    ASSUME RInv, NEW a \in Actors, ConvertTrialToActive(a) PROVE RInv'
<1>1. TypeOK /\ Sound(sub) /\ sub \in Row /\ actor[a].seen.applied \in Nat /\ firsts \in Nat
      /\ granted \in Nat /\ prepaid \in Nat
  <2>1. TypeOK /\ Sound(sub)
    BY DEF RInv
  <2>2. actor[a].seen.applied \in Nat
    BY Held, NewPeriod
  <2> QED BY <2>1, <2>2 DEF TypeOK
<1>2. /\ UNCHANGED <<now, leases, cycles, discounted, prepaid, granted, usage, bounds>>
      /\ actor' = [actor EXCEPT ![a] = Idle]
  BY DEF ConvertTrialToActive, Done
<1>3. ActorOK(Idle)' /\ Idle \in Actor
  BY Held DEF ActorOK, Idle
<1>4. CASE sub.status = "trialing"
  <2>1. PICK x \in Row : x = [sub EXCEPT !.status = "active", !.start = Interval, !.end = 2 * Interval,
                                         !.applied = actor[a].seen.applied + 1]
    <3>1. 2 * Interval \in Nat /\ actor[a].seen.applied + 1 \in Nat
      BY <1>1
    <3> QED BY <1>1, <3>1, NewPeriod
  <2>2. sub' = x /\ firsts' = firsts + 1
    BY <1>4, <2>1 DEF ConvertTrialToActive
  <2>3. x.start = Interval /\ x.end = 2 * Interval /\ x.status = "active"
    BY <2>1 DEF Row
  <2>4. TypeOK' /\ Grows
    <3>1. UNCHANGED <<cycles, prepaid, granted>> /\ firsts' \in Nat /\ sub' \in Row
      BY <1>1, <1>2, <2>2
    <3>2. TypeOK'
      BY <1>1, <1>2, <1>3, <3>1, WriteTypes
    <3> QED BY <1>1, <2>2, <3>1, <3>2 DEF Grows
  <2>5. Interval <= granted /\ Interval \in Nat
    BY <1>1, <1>4 DEF Sound
  <2>6. 2 * Interval <= Billed(Interval)'
    <3>1. Interval * firsts + granted <= Billed(Interval) /\ Billed(Interval) \in Nat
      BY <1>1, BilledLater
    <3>2. Billed(Interval) + Interval <= Billed(Interval)' /\ Billed(Interval)' \in Nat
      BY <1>1, <2>2, <2>4, <2>5, BilledGrows
    <3>3. Interval * firsts \in Nat
      BY <1>1, Products
    <3> QED BY <1>1, <2>5, <3>1, <3>2, <3>3
  <2>7. Sound(sub)'
    <3>1. Interval < 2 * Interval
      OBVIOUS
    <3> QED BY <2>2, <2>3, <2>6, <3>1 DEF Sound
  <2> QED BY <1>2, <1>3, <2>4, <2>7, Step
<1>5. CASE sub.status # "trialing"
  <2>1. OtherType
    BY TypeParts DEF RInv
  <2>2. UNCHANGED <<sub, fees>> /\ OtherType'
    BY <1>2, <1>5, <2>1 DEF ConvertTrialToActive, fees, leases, usage, bounds, OtherType
  <2> QED BY <1>2, <2>2, Held, QuietStep
<1> QED BY <1>4, <1>5

----------------------------------------------------------------------------
\* A write that ends the period later grants the difference, or an invoice
\* raised before has paid for it.
LEMMA Extended ==
    ASSUME RInv, TypeOK', Grows, NEW s \in Row, NEW x \in Row, NEW due \in Nat,
           s.end + due <= Billed(s.start), s.start <= x.start, x.start < x.end,
           x.end - s.end <= due + granted' - granted,
           x.status = "trialing" => Interval <= granted
    PROVE  Sound(x)'
<1>1. s.start \in Nat /\ s.end \in Nat /\ x.start \in Nat /\ x.end \in Nat
  BY NewPeriod
<1>2. TypeOK /\ granted \in Nat /\ granted' \in Nat
  BY DEF RInv, TypeOK
<1>3. Billed(s.start) \in Nat /\ Billed(x.start) \in Nat /\ Billed(s.start) <= Billed(x.start)
  BY <1>1, <1>2, BilledLater
<1>4. Billed(x.start)' \in Nat /\ Billed(x.start) + granted' - granted <= Billed(x.start)'
  BY <1>1, <1>2, BilledGrows
<1>5. x.end <= Billed(x.start)'
  BY <1>1, <1>2, <1>3, <1>4
<1> QED BY <1>1, <1>2, <1>5 DEF Sound, Grows

LEMMA WrittenRow ==
    ASSUME RInv, NEW s \in Row, s.start < s.end,
           NEW op \in {"pause", "resume", "cancelNow", "cancelAtEnd", "reactivate", "extend"}
    PROVE  \E x \in Row : /\ x = Written(op, s) /\ s.end <= x.end /\ s.start <= x.start /\ x.start < x.end
                          /\ x.status = "trialing" => s.status = "trialing"
<1>1. s.start \in Nat /\ s.end \in Nat /\ now \in Nat /\ now + Interval \in Nat /\ s.end + 1 \in Nat
  <2>1. now \in Nat
    BY DEF RInv, TypeOK
  <2>2. s.start \in Nat /\ s.end \in Nat
    BY NewPeriod
  <2> QED BY <2>1, <2>2
<1>2. CASE op = "extend"
  <2>1. PICK x \in Row : x = [s EXCEPT !.end = @ + 1]
    BY <1>1 DEF Row
  <2>2. x.start = s.start /\ x.end = s.end + 1 /\ x.status = s.status
    BY <2>1 DEF Row
  <2>3. x = Written(op, s)
    BY <1>2, <2>1 DEF Written
  <2> QED BY <1>1, <2>2, <2>3
<1>3. CASE op = "resume"
  <2>1. CASE s.end < now
    <3>1. PICK x \in Row : x = [s EXCEPT !.status = "active", !.start = now, !.end = now + Interval]
      BY <1>1, NewPeriod
    <3>2. x.start = now /\ x.end = now + Interval /\ x.status = "active"
      BY <3>1 DEF Row
    <3>3. x = Written(op, s)
      BY <1>3, <2>1, <3>1 DEF Written, Resumed
    <3> QED BY <1>1, <2>1, <3>2, <3>3
  <2>2. CASE ~(s.end < now)
    <3>1. PICK x \in Row : x = [s EXCEPT !.status = "active"]
      BY DEF Row
    <3>2. x.start = s.start /\ x.end = s.end /\ x.status = "active"
      BY <3>1 DEF Row
    <3>3. x = Written(op, s)
      BY <1>3, <2>2, <3>1 DEF Written, Resumed
    <3> QED BY <1>1, <3>2, <3>3
  <2> QED BY <2>1, <2>2
<1>4. CASE op = "cancelAtEnd"
  <2>1. PICK x \in Row : x = [s EXCEPT !.ending = TRUE]
    BY DEF Row
  <2>2. x.start = s.start /\ x.end = s.end /\ x.status = s.status
    BY <2>1 DEF Row
  <2>3. x = Written(op, s)
    BY <1>4, <2>1 DEF Written
  <2> QED BY <1>1, <2>2, <2>3
<1>5. CASE op \in {"pause", "cancelNow"}
  <2>1. PICK t \in {"paused", "canceled"} : Written(op, s) = [s EXCEPT !.status = t]
    BY <1>5 DEF Written
  <2>2. PICK x \in Row : x = [s EXCEPT !.status = t]
    BY DEF Row
  <2>3. x.start = s.start /\ x.end = s.end /\ x.status = t
    BY <2>2 DEF Row
  <2>4. x = Written(op, s)
    BY <2>1, <2>2
  <2> QED BY <1>1, <2>3, <2>4
<1>6. CASE op = "reactivate"
  <2>1. PICK x \in Row : x = [s EXCEPT !.status = "active", !.ending = FALSE]
    BY DEF Row
  <2>2. x.start = s.start /\ x.end = s.end /\ x.status = "active"
    BY <2>1 DEF Row
  <2>3. x = Written(op, s)
    BY <1>6, <2>1 DEF Written
  <2> QED BY <1>1, <2>2, <2>3
<1> QED BY <1>2, <1>3, <1>4, <1>5, <1>6

LEMMA WriteStep ==
    ASSUME RInv, NEW a \in Actors, Write(a) PROVE RInv'
<1>0. PICK op \in {"pause", "resume", "cancelNow", "cancelAtEnd", "reactivate", "extend"} : op = actor[a].pc
  BY DEF Write
<1>1. PICK s \in Row : s = actor[a].seen
  BY Held
<1>2. /\ Sound(s) /\ s.start \in Nat /\ s.end \in Nat /\ actor[a].after = "idle" /\ TypeOK
      /\ granted \in Nat /\ firsts \in Nat /\ prepaid \in Nat
  BY <1>0, <1>1, Held DEF ActorOK, RInv, TypeOK
<1>3. PICK x \in Row : /\ x = Written(op, s) /\ s.end <= x.end /\ s.start <= x.start /\ x.start < x.end
                       /\ x.status = "trialing" => s.status = "trialing"
  BY <1>2, WrittenRow DEF Sound
<1>4. x.end \in Nat
  BY NewPeriod
<1>5. /\ sub' = x /\ granted' = granted + x.end - s.end
      /\ UNCHANGED <<now, leases, firsts, cycles, discounted, prepaid, usage, bounds>>
  BY <1>0, <1>1, <1>3 DEF Write
<1>6. granted' \in Nat /\ granted <= granted'
  BY <1>2, <1>3, <1>4, <1>5
<1>7. PICK y \in Actor : /\ actor' = [actor EXCEPT ![a] = y]
                         /\ y = Idle \/ (y.pc \in {"schedule", "unschedule", "final"} /\ y.seen = s /\ y.after = "idle")
  <2>1. CASE Done(a)
    BY <2>1, Held DEF Done
  <2>2. ASSUME NEW pc \in {"schedule", "unschedule", "final"}, Goto(a, pc)
        PROVE  \E y \in Actor : /\ actor' = [actor EXCEPT ![a] = y]
                               /\ y.pc \in {"schedule", "unschedule", "final"} /\ y.seen = s /\ y.after = "idle"
    <3>1. PICK y \in Actor : y = [pc |-> pc, seen |-> actor[a].seen, metered |-> actor[a].metered, after |-> actor[a].after]
      BY Held DEF Actor
    <3>2. y.pc = pc /\ y.seen = s /\ y.after = "idle"
      BY <1>1, <1>2, <3>1
    <3> QED BY <2>2, <3>1, <3>2, Held DEF Goto
  <2>3. Following(op) \in {"schedule", "unschedule", "final", "idle"}
    BY DEF Following
  <2>4. Done(a) \/ (Following(op) # "idle" /\ Goto(a, Following(op)))
    BY <1>0 DEF Write
  <2> QED BY <2>1, <2>2, <2>3, <2>4
<1>8. TypeOK' /\ Grows
  <2>1. TypeOK'
    BY <1>2, <1>5, <1>6, <1>7, WriteTypes
  <2> QED BY <1>2, <1>5, <1>6, <2>1 DEF Grows
<1>9. Sound(sub)'
  <2>1. s.end + 0 <= Billed(s.start)
    BY <1>2 DEF Sound
  <2>2. x.end - s.end <= 0 + granted' - granted
    BY <1>2, <1>4, <1>5, <1>6
  <2>3. x.status = "trialing" => Interval <= granted
    BY <1>2, <1>3 DEF Sound
  <2>4. Sound(x)'
    BY <1>3, <1>8, <2>1, <2>2, <2>3, Extended
  <2> QED BY <1>5, <2>4 DEF Sound
<1>10. ActorOK(y)'
  <2>1. Sound(s)'
    BY <1>2, <1>8, SoundStays
  <2>2. ActorOK(Idle)'
    BY Held DEF ActorOK, Idle
  <2> QED BY <1>7, <2>1, <2>2 DEF ActorOK, Idle
<1> QED BY <1>7, <1>8, <1>9, <1>10, Step

LEMMA AdvanceInvoiceStep ==
    ASSUME RInv, NEW a \in Actors, CreateAdvanceInvoice(a) PROVE RInv'
<1>1. PICK s \in Row : s = actor[a].seen
  BY Held
<1>2. /\ Sound(s) /\ s.start \in Nat /\ s.end \in Nat /\ TypeOK /\ Sound(sub) /\ sub \in Row
      /\ granted \in Nat /\ firsts \in Nat /\ prepaid \in Nat
  BY <1>1, Held DEF ActorOK, RInv, TypeOK, CreateAdvanceInvoice
<1>3. PICK y \in Actor : y = [pc |-> "prepay", seen |-> s, metered |-> FALSE, after |-> "finish"]
  BY DEF Actor
<1>4. /\ actor' = [actor EXCEPT ![a] = y] /\ prepaid' = prepaid + 1
      /\ UNCHANGED <<now, sub, leases, firsts, cycles, discounted, granted, usage, bounds>>
  BY <1>1, <1>3 DEF CreateAdvanceInvoice, Continue
<1>5. TypeOK' /\ Grows
  <2>1. prepaid' \in Nat /\ firsts' \in Nat /\ granted' \in Nat /\ sub' \in Row
    BY <1>2, <1>4
  <2>2. TypeOK'
    BY <1>4, <2>1, WriteTypes
  <2> QED BY <1>2, <1>4, <2>2 DEF Grows
<1>6. Sound(s)' /\ Sound(sub)'
  <2>1. PICK x \in Row : x = sub
    BY <1>2
  <2>2. Sound(x)' /\ Sound(s)'
    BY <1>2, <1>5, <2>1, SoundStays DEF Sound
  <2> QED BY <1>4, <2>1, <2>2 DEF Sound
<1>7. s.end + Interval <= Billed(s.start)'
  <2>1. Billed(s.start) + Interval <= Billed(s.start)' /\ Billed(s.start) \in Nat /\ Billed(s.start)' \in Nat
    BY <1>2, <1>4, <1>5, BilledGrows
  <2> QED BY <1>2, <2>1 DEF Sound
<1>8. ActorOK(y)'
  BY <1>3, <1>6, <1>7 DEF ActorOK
<1> QED BY <1>4, <1>5, <1>6, <1>8, Step

LEMMA ExtendStep ==
    ASSUME RInv, NEW a \in Actors, ExtendPrepaid(a) PROVE RInv'
<1>1. PICK s \in Row : s = actor[a].seen
  BY Held
<1>2. /\ Sound(s) /\ s.start \in Nat /\ s.end \in Nat /\ TypeOK /\ now \in Nat
      /\ granted \in Nat /\ firsts \in Nat /\ prepaid \in Nat
      /\ s.end + Interval <= Billed(s.start)
  BY <1>1, Held DEF ActorOK, RInv, TypeOK, ExtendPrepaid
<1>3. PICK from \in Nat : from = IF s.end < now THEN now ELSE s.end
  BY <1>2
<1>4. PICK x \in Row : x = [s EXCEPT !.end = from + Interval]
  <2>1. from + Interval \in Nat
    OBVIOUS
  <2> QED BY <2>1 DEF Row
<1>5. x.start = s.start /\ x.end = from + Interval /\ x.status = s.status
  BY <1>4 DEF Row
<1>6. /\ sub' = x /\ granted' = granted + from - s.end /\ actor' = [actor EXCEPT ![a] = Idle]
      /\ UNCHANGED <<now, leases, firsts, cycles, discounted, prepaid, usage, bounds>>
  BY <1>1, <1>3, <1>4 DEF ExtendPrepaid, Done
<1>7. granted' \in Nat /\ granted <= granted' /\ s.end <= from
  BY <1>2, <1>3, <1>6
<1>8. TypeOK' /\ Grows
  <2>1. Idle \in Actor
    BY Held
  <2>2. TypeOK'
    BY <1>2, <1>6, <1>7, <2>1, WriteTypes
  <2> QED BY <1>2, <1>6, <1>7, <2>2 DEF Grows
<1>9. Sound(sub)'
  <2>1. x.end - s.end <= Interval + granted' - granted /\ x.start < x.end
    BY <1>2, <1>3, <1>5, <1>6, <1>7 DEF Sound
  <2>2. x.status = "trialing" => Interval <= granted
    BY <1>2, <1>5 DEF Sound
  <2>3. s.start <= x.start
    BY <1>2, <1>5
  <2>4. Sound(x)'
    BY <1>2, <1>8, <2>1, <2>2, <2>3, Extended
  <2> QED BY <1>6, <2>4 DEF Sound
<1>10. ActorOK(Idle)' /\ Idle \in Actor
  BY Held DEF ActorOK, Idle
<1> QED BY <1>6, <1>8, <1>9, <1>10, Step

----------------------------------------------------------------------------
LEMMA InitInv == Init => RInv
<1> SUFFICES ASSUME Init PROVE RInv
  OBVIOUS
<1>1. PICK trial \in BOOLEAN : sub = Created(trial) /\ firsts = IF trial THEN 0 ELSE 1
  BY DEF Init
<1>2. /\ sub \in Row /\ sub.start = 0 /\ sub.end = Interval
      /\ sub.status = "trialing" <=> trial
  BY <1>1 DEF Created, Row
<1>3. /\ firsts \in Nat /\ granted \in Nat /\ prepaid = 0 /\ cycles = {}
      /\ (firsts = 1 /\ granted = 0 /\ sub.status # "trialing") \/ (firsts = 0 /\ granted = Interval)
  BY <1>1, <1>2 DEF Init
<1>4. FeesType
  BY <1>3, FS_EmptySet DEF FeesType
<1>5. OtherType
  BY DEF Init, OtherType
<1>6. actor \in [Actors -> Actor] /\ \A a \in Actors : ActorOK(actor[a])
  <2>1. Created(FALSE) \in Row
    BY DEF Created, Row
  <2>2. Idle \in Actor
    BY <2>1 DEF Idle, Actor
  <2>3. actor = [a \in Actors |-> Idle]
    BY DEF Init
  <2> QED BY <2>2, <2>3 DEF ActorOK, Idle
<1>7. TypeOK
  BY <1>2, <1>4, <1>5, <1>6, TypeParts
<1>8. Billed(0) = Interval
  <2>1. Before(0) = {}
    BY <1>3 DEF Before
  <2>2. Cardinality(Before(0)) = 0
    BY <2>1, FS_EmptySet
  <2>3. firsts + Cardinality(Before(0)) + prepaid = firsts
    BY <1>3, <2>2
  <2>4. Billed(0) = Interval * firsts + granted
    BY <2>3 DEF Billed
  <2> QED BY <1>3, <2>4
<1>9. Sound(sub)
  BY <1>2, <1>3, <1>8 DEF Sound
<1> QED BY <1>6, <1>7, <1>9 DEF RInv

LEMMA NextInv == RInv /\ [Next]_vars => RInv'
<1> SUFFICES ASSUME RInv, [Next]_vars PROVE RInv'
  OBVIOUS
<1>1. CASE UNCHANGED vars
  <2>1. OtherType' /\ UNCHANGED <<sub, fees, actor>>
    BY <1>1, TypeParts DEF vars, RInv, OtherType, fees
  <2> QED BY <2>1, QuietStep
<1>2. CASE Tick \/ RenewalLeaseLapses \/ ResumeDatePasses
  BY <1>2, LeaseSteps
<1>3. ASSUME NEW a \in Actors, Work(a) PROVE RInv'
  BY <1>3, LoadSteps, LookSteps, UsageSteps, RenewalInvoiceStep, AdvanceStep, ConvertStep,
     WriteStep, AdvanceInvoiceStep, ExtendStep DEF Work
<1>4. ASSUME NEW a \in Actors, Fail(a) \/ LoseRating(a) PROVE RInv'
  BY <1>4, FailStep
<1>5. ASSUME NEW a \in Actors, NEW op \in Requests, Call(a, op) PROVE RInv'
  BY <1>5, LoadSteps
<1> QED BY <1>1, <1>2, <1>3, <1>4, <1>5 DEF Next

LEMMA Always == Spec => []RInv
BY InitInv, NextInv, PTL DEF Spec

HIDE RenewalAssumption

----------------------------------------------------------------------------
(* The actor a step leaves, field by field.                                *)

Alone(a) == \A b \in Actors : b # a => actor'[b] = actor[b]

LEMMA Leaves ==
    ASSUME RInv, NEW a \in Actors
    PROVE  /\ Done(a) => Alone(a) /\ actor'[a].pc = "idle"
           /\ \A p : Goto(a, p) =>
                /\ Alone(a) /\ actor'[a].pc = p /\ actor'[a].seen = actor[a].seen
                /\ actor'[a].after = actor[a].after /\ actor'[a].metered = actor[a].metered
           /\ \A p, s, m, r : Continue(a, p, s, m, r) =>
                /\ Alone(a) /\ actor'[a].pc = p /\ actor'[a].seen = s
                /\ actor'[a].metered = m /\ actor'[a].after = r
<1>0. actor \in [Actors -> Actor]
  BY DEF RInv, TypeOK
<1>1. Done(a) => Alone(a) /\ actor'[a].pc = "idle"
  BY <1>0 DEF Done, Alone, Idle
<1>2. ASSUME NEW p, Goto(a, p)
      PROVE  /\ Alone(a) /\ actor'[a].pc = p /\ actor'[a].seen = actor[a].seen
             /\ actor'[a].after = actor[a].after /\ actor'[a].metered = actor[a].metered
  BY <1>0, <1>2 DEF Goto, Alone, Actor
<1>3. ASSUME NEW p, NEW s, NEW m, NEW r, Continue(a, p, s, m, r)
      PROVE  /\ Alone(a) /\ actor'[a].pc = p /\ actor'[a].seen = s
             /\ actor'[a].metered = m /\ actor'[a].after = r
  BY <1>0, <1>3 DEF Continue, Alone
<1> QED BY <1>1, <1>2, <1>3

\* What every step of an actor has in common, by the kind of step.
Acts(a) == Work(a) \/ Fail(a) \/ LoseRating(a) \/ \E op \in Requests : Call(a, op)
Others == Tick \/ RenewalLeaseLapses \/ ResumeDatePasses

LEMMA NextActs == [Next]_vars => (\E a \in Actors : Acts(a)) \/ Others \/ UNCHANGED vars
BY DEF Next, Acts, Others

\* Steps that only load or look.
Looks(a) ==
    \/ ClaimDueForRenewal(a) \/ GenerateRenewalInvoice(a) \/ FindFinalUsage(a) \/ GetExpiredTrials(a)
    \/ ClaimDueForResume(a) \/ ResumeClaimed(a) \/ ScheduleResume(a) \/ ClearResume(a)
    \/ \E op \in Requests : Call(a, op)

LEMMA LooksOn ==
    ASSUME RInv, NEW a \in Actors, Looks(a)
    PROVE  UNCHANGED <<sub, firsts, cycles, discounted, granted, rated, usageBills, alarmed, faults>>
           /\ actor[a].pc # "rate"
BY DEF Looks, ClaimDueForRenewal, GenerateRenewalInvoice, FindFinalUsage, GetExpiredTrials,
       ClaimDueForResume, ResumeClaimed, ScheduleResume, ClearResume, Call, fees, usage, bounds

----------------------------------------------------------------------------
(* The trial is billed once.  Short of an extension, a prepayment and a    *)
(* cancellation at the end of the period, each of which may write back a   *)
(* row loaded while the subscription was trialing, a row whose trial has   *)
(* ended is never trialing again; and a trialing row is not billed yet.    *)

NotWritingBack == {"pause", "resume", "cancelNow", "reactivate"}

TrialActor(y) ==
    /\ y.pc \in {"cancelAtEnd", "extend", "prepay"} => y.pc \in asked
    /\ y.pc \in {"renew", "invoice", "advance"} \/ (y.pc = "rate" /\ y.after = "advance")
          => y.seen.status = "active"

TrialInv ==
    /\ \A a \in Actors : TrialActor(actor[a])
    /\ asked \subseteq NotWritingBack => firsts <= 1 /\ (sub.status = "trialing" => firsts = 0)

LEMMA TrialKept ==
    ASSUME RInv, TrialInv, NEW a \in Actors, Alone(a), asked \subseteq asked', TrialActor(actor[a])',
           \/ UNCHANGED <<sub, firsts>>
           \/ asked \subseteq NotWritingBack =>
                firsts' <= 1 /\ (sub'.status = "trialing" => firsts' = 0)
    PROVE  TrialInv'
<1>1. \A b \in Actors : TrialActor(actor[b])'
  BY DEF TrialInv, TrialActor, Alone
<1>2. asked' \subseteq NotWritingBack => firsts' <= 1 /\ (sub'.status = "trialing" => firsts' = 0)
  BY DEF TrialInv
<1> QED BY <1>1, <1>2 DEF TrialInv

LEMMA RowStatus ==
    /\ \A s \in Row : /\ WithCoupon(s).status = s.status
                      /\ \A m, n : [s EXCEPT !.start = m, !.end = n].status = s.status
    /\ \A s \in Row : \A m : [s EXCEPT !.end = m].status = s.status
    /\ \A s \in Row : [s EXCEPT !.status = "canceled", !.ending = FALSE].status = "canceled"
BY DEF Row, WithCoupon

LEMMA TrialLooks ==
    ASSUME RInv, TrialInv, NEW a \in Actors, Looks(a)
    PROVE  TrialInv'
<1>0. UNCHANGED <<sub, firsts>> /\ TrialActor(actor[a]) /\ actor[a].seen \in Row
  BY LooksOn, Held DEF TrialInv
<1>1. asked \subseteq asked'
  BY DEF Looks, ClaimDueForRenewal, GenerateRenewalInvoice, FindFinalUsage, GetExpiredTrials,
         ClaimDueForResume, ResumeClaimed, ScheduleResume, ClearResume, Call, bounds
<1>2. ASSUME Done(a) PROVE TrialInv'
  <2>1. Alone(a) /\ TrialActor(actor[a])'
    BY <1>2, Leaves DEF TrialActor
  <2> QED BY <1>0, <1>1, <2>1, TrialKept
<1>3. ASSUME NEW p, NEW s, NEW m, NEW r, Continue(a, p, s, m, r),
             p \in {"renew", "invoice", "advance"} => s.status = "active",
             p # "rate", p \in {"cancelAtEnd", "extend", "prepay"} => p \in asked'
      PROVE  TrialInv'
  <2>1. Alone(a) /\ TrialActor(actor[a])'
    BY <1>3, Leaves DEF TrialActor
  <2> QED BY <1>0, <1>1, <2>1, TrialKept
<1>4. ASSUME NEW p \in {"finish", "reload"}, Goto(a, p) PROVE TrialInv'
  <2>1. Alone(a) /\ TrialActor(actor[a])'
    BY <1>4, Leaves DEF TrialActor
  <2> QED BY <1>0, <1>1, <2>1, TrialKept
<1>5. CASE ClaimDueForRenewal(a)
  BY <1>3, <1>5 DEF ClaimDueForRenewal, Due
<1>6. CASE GenerateRenewalInvoice(a)
  <2>1. actor[a].seen.status = "active" /\ WithCoupon(actor[a].seen).status = "active"
    BY <1>0, <1>6, RowStatus DEF GenerateRenewalInvoice, TrialActor
  <2> QED BY <1>3, <1>6, <2>1 DEF GenerateRenewalInvoice
<1>7. CASE FindFinalUsage(a)
  <2>1. actor[a].after \in {"idle", "finish"}
    BY <1>7, Held DEF FindFinalUsage, ActorOK, Actor
  <2> QED BY <1>2, <1>3, <1>4, <1>7, <2>1 DEF FindFinalUsage
<1>8. CASE GetExpiredTrials(a)
  BY <1>3, <1>8 DEF GetExpiredTrials
<1>9. CASE ClaimDueForResume(a) \/ ScheduleResume(a) \/ ClearResume(a)
  BY <1>2, <1>4, <1>9 DEF ClaimDueForResume, ScheduleResume, ClearResume
<1>10. CASE ResumeClaimed(a)
  BY <1>2, <1>3, <1>10 DEF ResumeClaimed
<1>11. ASSUME NEW op \in Requests, Call(a, op) PROVE TrialInv'
  <2>1. op \notin {"renew", "invoice", "advance", "rate"}
    BY RenewalAssumption
  <2> QED BY <1>3, <1>11, <2>1 DEF Call
<1> QED BY <1>5, <1>6, <1>7, <1>8, <1>9, <1>10, <1>11 DEF Looks

LEMMA TrialWorks ==
    ASSUME RInv, TrialInv, NEW a \in Actors,
           \/ CreateRenewalInvoice(a) \/ ClaimRating(a) \/ LoseRating(a) \/ CreateFinalInvoice(a)
           \/ CreateAdvanceInvoice(a) \/ Fail(a)
    PROVE  TrialInv'
<1>0. /\ UNCHANGED <<sub, firsts, asked>> /\ TrialActor(actor[a]) /\ actor[a].seen \in Row
      /\ actor[a].after \in {"idle", "finish", "advance"}
  <2>1. UNCHANGED <<sub, firsts, asked>>
    BY DEF CreateRenewalInvoice, ClaimRating, LoseRating, CreateFinalInvoice, CreateAdvanceInvoice, Fail,
           fees, bounds
  <2> QED BY <2>1, Held DEF TrialInv, Actor
<1>1. ASSUME Alone(a), TrialActor(actor[a])' PROVE TrialInv'
  BY <1>0, <1>1, TrialKept
<1>2. ASSUME Done(a) PROVE TrialInv'
  BY <1>1, <1>2, Leaves DEF TrialActor
<1>3. CASE CreateRenewalInvoice(a)
  <2>1. actor[a].seen.status = "active" /\ WithCoupon(actor[a].seen).status = "active"
    BY <1>0, <1>3, RowStatus DEF CreateRenewalInvoice, TrialActor
  <2>2. CASE Done(a)
    BY <1>2, <2>2
  <2>3. ASSUME NEW p \in {"rate", "advance"}, NEW m, NEW s,
               s.status = "active", Continue(a, p, s, m, "advance")
        PROVE  TrialInv'
    <3>1. Alone(a) /\ TrialActor(actor[a])'
      BY <2>3, Leaves DEF TrialActor
    <3> QED BY <1>1, <3>1
  <2> QED BY <1>3, <2>1, <2>2, <2>3 DEF CreateRenewalInvoice
<1>4. CASE ClaimRating(a) \/ LoseRating(a)
  <2>1. actor[a].pc = "rate" /\ (Done(a) \/ (actor[a].after # "idle" /\ Goto(a, actor[a].after)))
    BY <1>4 DEF ClaimRating, LoseRating
  <2>2. CASE actor[a].after # "idle" /\ Goto(a, actor[a].after)
    <3>1. Alone(a) /\ TrialActor(actor[a])'
      BY <1>0, <2>1, <2>2, Leaves DEF TrialActor
    <3> QED BY <1>1, <3>1
  <2> QED BY <1>2, <2>1, <2>2
<1>5. CASE CreateFinalInvoice(a)
  <2>1. actor[a].after # "advance" /\ Goto(a, "rate")
    BY <1>5, Held DEF CreateFinalInvoice, ActorOK
  <2>2. Alone(a) /\ TrialActor(actor[a])'
    BY <2>1, Leaves DEF TrialActor
  <2> QED BY <1>1, <2>2
<1>6. CASE CreateAdvanceInvoice(a)
  <2>1. actor[a].pc = "prepay" /\ Continue(a, "prepay", actor[a].seen, FALSE, "finish")
    BY <1>6 DEF CreateAdvanceInvoice
  <2>2. Alone(a) /\ TrialActor(actor[a])'
    BY <1>0, <2>1, Leaves DEF TrialActor
  <2> QED BY <1>1, <2>2
<1>7. CASE Fail(a)
  BY <1>2, <1>7 DEF Fail
<1> QED BY <1>3, <1>4, <1>5, <1>6, <1>7

LEMMA TrialWrites ==
    ASSUME RInv, TrialInv, NEW a \in Actors,
           \/ AdvancePeriod(a) \/ CancelAtPeriodEnd(a) \/ ConvertTrialToActive(a)
           \/ Write(a) \/ ExtendPrepaid(a)
    PROVE  TrialInv'
<1>0. UNCHANGED asked /\ TrialActor(actor[a]) /\ actor[a].seen \in Row /\ firsts \in Nat /\ sub \in Row
  <2>1. UNCHANGED asked
    BY DEF AdvancePeriod, CancelAtPeriodEnd, ConvertTrialToActive, Write, ExtendPrepaid, bounds
  <2> QED BY <2>1, Held DEF TrialInv, RInv, TypeOK
<1>1. ASSUME Alone(a), TrialActor(actor[a])',
             asked \subseteq NotWritingBack =>
               (UNCHANGED firsts /\ sub'.status # "trialing") \/ UNCHANGED <<sub, firsts>>
      PROVE  TrialInv'
  BY <1>0, <1>1, TrialKept DEF TrialInv
<1>2. ASSUME Done(a) PROVE Alone(a) /\ TrialActor(actor[a])'
  BY <1>2, Leaves DEF TrialActor
<1>3. CASE AdvancePeriod(a)
  <2>1. actor[a].seen.status = "active"
    BY <1>0, <1>3 DEF AdvancePeriod, TrialActor
  <2>2. sub'.status = "active" /\ Done(a) /\ UNCHANGED firsts
    BY <1>0, <1>3, <2>1, RowStatus DEF AdvancePeriod, fees
  <2> QED BY <1>1, <1>2, <2>2
<1>4. CASE CancelAtPeriodEnd(a)
  <2>1. sub'.status = "canceled" /\ Done(a) /\ UNCHANGED firsts
    BY <1>0, <1>4, RowStatus DEF CancelAtPeriodEnd, fees
  <2> QED BY <1>1, <1>2, <2>1
<1>5. CASE ConvertTrialToActive(a)
  <2>1. Alone(a) /\ TrialActor(actor[a])'
    BY <1>2, <1>5 DEF ConvertTrialToActive
  <2>2. CASE sub.status = "trialing"
    <3>1. sub'.status = "active" /\ firsts' = firsts + 1
      BY <1>0, <1>5, <2>2 DEF ConvertTrialToActive, Row
    <3> QED BY <1>0, <2>1, <2>2, <3>1, TrialKept DEF TrialInv
  <2>3. CASE sub.status # "trialing"
    BY <1>1, <1>5, <2>1, <2>3 DEF ConvertTrialToActive
  <2> QED BY <2>2, <2>3
<1>6. CASE Write(a)
  <2>1. UNCHANGED firsts /\ sub' = Written(actor[a].pc, actor[a].seen)
        /\ actor[a].pc \in {"pause", "resume", "cancelNow", "cancelAtEnd", "reactivate", "extend"}
    BY <1>6 DEF Write
  <2>2. asked \subseteq NotWritingBack => sub'.status # "trialing"
    <3> SUFFICES ASSUME asked \subseteq NotWritingBack PROVE sub'.status # "trialing"
      OBVIOUS
    <3>1. actor[a].pc \in {"pause", "resume", "cancelNow", "reactivate"}
      BY <1>0, <2>1 DEF TrialActor, NotWritingBack
    <3> QED BY <1>0, <2>1, <3>1 DEF Written, Resumed, Row
  <2>3. Alone(a) /\ TrialActor(actor[a])'
    <3>1. Following(actor[a].pc) \in {"schedule", "unschedule", "final", "idle"}
      BY <2>1 DEF Following
    <3>2. Done(a) \/ Goto(a, Following(actor[a].pc))
      BY <1>6 DEF Write
    <3>3. ASSUME NEW p \in {"schedule", "unschedule", "final", "idle"}, Goto(a, p)
          PROVE  Alone(a) /\ TrialActor(actor[a])'
      BY <3>3, Leaves DEF TrialActor
    <3> QED BY <1>2, <3>1, <3>2, <3>3
  <2> QED BY <1>1, <2>1, <2>2, <2>3
<1>7. CASE ExtendPrepaid(a)
  <2>1. "prepay" \in asked /\ "prepay" \notin NotWritingBack
    BY <1>0, <1>7 DEF ExtendPrepaid, TrialActor, NotWritingBack
  <2> QED BY <1>1, <1>2, <1>7, <2>1 DEF ExtendPrepaid
<1> QED BY <1>3, <1>4, <1>5, <1>6, <1>7

LEMMA TrialStep == ASSUME RInv, TrialInv, [Next]_vars PROVE TrialInv'
<1>1. ASSUME NEW a \in Actors, Acts(a) PROVE TrialInv'
  BY <1>1, TrialLooks, TrialWorks, TrialWrites, Zenon DEF Acts, Work, Looks
<1>2. CASE Others \/ UNCHANGED vars
  <2>1. UNCHANGED <<sub, firsts, asked, actor>>
    BY <1>2 DEF Others, Tick, RenewalLeaseLapses, ResumeDatePasses, vars, fees, bounds
  <2> QED BY <2>1 DEF TrialInv, TrialActor
<1> QED BY <1>1, <1>2, NextActs

LEMMA TrialInit == Init => TrialInv
BY DEF Init, TrialInv, TrialActor, Idle, Created

----------------------------------------------------------------------------
(* Usage on two invoices.  Until its claim is made, an actor that has put  *)
(* the usage of a window on an invoice is at the claim.                    *)

Rating(b, w) == actor[b].pc = "rate" /\ actor[b].seen.start = w

\* Usage that is on an invoice has been claimed, or is about to be.
Claimed == \A w \in Nat, b \in Actors : <<w, b>> \in usageBills => w \in rated \/ Rating(b, w)
\* Of two that billed the same window, one has met the other's claim, or is about to.
Conflicted ==
    \A w \in Nat, b, c \in Actors :
        <<w, b>> \in usageBills /\ <<w, c>> \in usageBills /\ b # c
          => w \in alarmed \/ Rating(b, w) \/ Rating(c, w)
RatingInv == faults = 0 => Claimed /\ Conflicted

\* A step of an actor that has nothing to claim, and puts no usage on an invoice.
LEMMA RatingKept ==
    ASSUME RatingInv, NEW a \in Actors, Alone(a), actor[a].pc # "rate",
           UNCHANGED usage, faults' = 0 => faults = 0
    PROVE  RatingInv'
<1> SUFFICES ASSUME faults' = 0 PROVE Claimed' /\ Conflicted'
  BY DEF RatingInv
<1>1. Claimed /\ Conflicted /\ UNCHANGED <<rated, usageBills, alarmed>>
  BY DEF RatingInv, usage
<1>2. ASSUME NEW b \in Actors, NEW w, Rating(b, w) PROVE Rating(b, w)'
  <2>1. b # a
    BY <1>2 DEF Rating
  <2> QED BY <1>2, <2>1 DEF Rating, Alone
<1>3. Claimed'
  BY <1>1, <1>2 DEF Claimed
<1>4. Conflicted'
  <2> SUFFICES ASSUME NEW w \in Nat, NEW b \in Actors, NEW c \in Actors,
                      <<w, b>> \in usageBills, <<w, c>> \in usageBills, b # c
               PROVE  w \in alarmed \/ Rating(b, w)' \/ Rating(c, w)'
    BY <1>1 DEF Conflicted
  <2>1. w \in alarmed \/ Rating(b, w) \/ Rating(c, w)
    BY <1>1 DEF Conflicted
  <2> QED BY <1>2, <2>1
<1> QED BY <1>3, <1>4

\* An actor puts the usage of a window on an invoice, and goes on to claim it.
LEMMA RatingBilled ==
    ASSUME RInv, RatingInv, NEW a \in Actors, Alone(a), actor[a].pc # "rate", actor[a].metered,
           BillUsage(a), UNCHANGED <<rated, alarmed, faults>>,
           actor'[a].pc = "rate", actor'[a].seen.start = actor[a].seen.start
    PROVE  RatingInv'
<1> SUFFICES ASSUME faults = 0 PROVE Claimed' /\ Conflicted'
  BY DEF RatingInv
<1> DEFINE v == actor[a].seen.start
<1>1. Claimed /\ Conflicted /\ usageBills' = usageBills \cup {<<v, a>>}
  BY DEF RatingInv, BillUsage
<1>2. ASSUME NEW b \in Actors, NEW w, Rating(b, w) PROVE Rating(b, w)'
  <2>1. b # a
    BY <1>2 DEF Rating
  <2> QED BY <1>2, <2>1 DEF Rating, Alone
<1>3. Rating(a, v)'
  BY DEF Rating
<1>4. ASSUME NEW w \in Nat, NEW b \in Actors, <<w, b>> \in usageBills'
      PROVE  <<w, b>> \in usageBills \/ Rating(b, w)'
  <2>1. CASE <<w, b>> = <<v, a>>
    BY <1>3, <2>1
  <2> QED BY <1>1, <1>4, <2>1
<1>5. Claimed'
  <2> SUFFICES ASSUME NEW w \in Nat, NEW b \in Actors, <<w, b>> \in usageBills'
               PROVE  w \in rated' \/ Rating(b, w)'
    BY DEF Claimed
  <2>1. CASE <<w, b>> \in usageBills
    BY <1>1, <1>2, <2>1 DEF Claimed
  <2> QED BY <1>4, <2>1
<1>6. Conflicted'
  <2> SUFFICES ASSUME NEW w \in Nat, NEW b \in Actors, NEW c \in Actors,
                      <<w, b>> \in usageBills', <<w, c>> \in usageBills', b # c
               PROVE  w \in alarmed' \/ Rating(b, w)' \/ Rating(c, w)'
    BY DEF Conflicted
  <2>1. CASE <<w, b>> \in usageBills /\ <<w, c>> \in usageBills
    <3>1. w \in alarmed \/ Rating(b, w) \/ Rating(c, w)
      BY <1>1, <2>1 DEF Conflicted
    <3> QED BY <1>2, <3>1
  <2> QED BY <1>4, <2>1
<1> QED BY <1>5, <1>6

\* The claim: the second of two meets the first.
LEMMA RatingClaims ==
    ASSUME RInv, RatingInv, NEW a \in Actors, ClaimRating(a)
    PROVE  RatingInv'
<1> SUFFICES ASSUME faults = 0 PROVE Claimed' /\ Conflicted'
  BY DEF RatingInv, ClaimRating, bounds
<1> DEFINE v == actor[a].seen.start
<1>1. /\ Claimed /\ Conflicted /\ UNCHANGED usageBills /\ actor[a].pc = "rate"
      /\ rated' = rated \cup {v} /\ (v \in rated => v \in alarmed') /\ alarmed \subseteq alarmed'
  BY DEF RatingInv, ClaimRating
<1>2. Alone(a)
  BY Leaves DEF ClaimRating
<1>3. ASSUME NEW b \in Actors, NEW w, Rating(b, w), b # a PROVE Rating(b, w)'
  BY <1>2, <1>3 DEF Rating, Alone
<1>4. \A w : Rating(a, w) => w = v
  BY DEF Rating
<1>5. Claimed'
  <2> SUFFICES ASSUME NEW w \in Nat, NEW b \in Actors, <<w, b>> \in usageBills
               PROVE  w \in rated' \/ Rating(b, w)'
    BY <1>1 DEF Claimed
  <2>1. w \in rated \/ Rating(b, w)
    BY <1>1 DEF Claimed
  <2> QED BY <1>1, <1>3, <1>4, <2>1
<1>6. ASSUME NEW w \in Nat, NEW b \in Actors, NEW c \in Actors,
             <<w, b>> \in usageBills, <<w, c>> \in usageBills, b # c, Rating(b, w)
      PROVE  w \in alarmed' \/ Rating(b, w)' \/ Rating(c, w)'
  <2>1. CASE b = a
    <3>1. w = v
      BY <1>4, <1>6, <2>1
    <3>2. v \in rated \/ Rating(c, w)
      BY <1>1, <1>6, <3>1 DEF Claimed
    <3> QED BY <1>1, <1>3, <1>6, <2>1, <3>1, <3>2
  <2> QED BY <1>3, <1>6, <2>1
<1>7. Conflicted'
  <2> SUFFICES ASSUME NEW w \in Nat, NEW b \in Actors, NEW c \in Actors,
                      <<w, b>> \in usageBills, <<w, c>> \in usageBills, b # c
               PROVE  w \in alarmed' \/ Rating(b, w)' \/ Rating(c, w)'
    BY <1>1 DEF Conflicted
  <2>1. w \in alarmed \/ Rating(b, w) \/ Rating(c, w)
    BY <1>1 DEF Conflicted
  <2> QED BY <1>1, <1>6, <2>1
<1> QED BY <1>5, <1>7

LEMMA NoFaultsYet ==
    ASSUME RInv, NEW a \in Actors, Fail(a) \/ LoseRating(a)
    PROVE  ~(faults' = 0)
<1>1. faults \in Nat /\ faults' = faults + 1
  BY DEF RInv, TypeOK, Fail, LoseRating
<1> QED BY <1>1

LEMMA RatingStep == ASSUME RInv, RatingInv, [Next]_vars PROVE RatingInv'
<1>1. ASSUME NEW a \in Actors, Acts(a) PROVE RatingInv'
  <2>1. CASE Looks(a)
    <3>1. UNCHANGED <<usage, faults>> /\ actor[a].pc # "rate"
      BY <2>1, LooksOn DEF usage
    <3>2. actor[a].seen \in Row
      BY Held
    <3>3. Alone(a)
      BY <2>1, Leaves DEF Looks, ClaimDueForRenewal, GenerateRenewalInvoice, FindFinalUsage,
         GetExpiredTrials, ClaimDueForResume, ResumeClaimed, ScheduleResume, ClearResume, Call
    <3> QED BY <3>1, <3>3, RatingKept
  <2>2. CASE AdvancePeriod(a) \/ CancelAtPeriodEnd(a) \/ ConvertTrialToActive(a)
               \/ Write(a) \/ CreateAdvanceInvoice(a) \/ ExtendPrepaid(a)
    <3>1. UNCHANGED <<usage, faults>> /\ actor[a].pc # "rate"
      BY <2>2 DEF AdvancePeriod, CancelAtPeriodEnd, ConvertTrialToActive, Write, CreateAdvanceInvoice,
                  ExtendPrepaid, bounds
    <3>2. Alone(a)
      BY <2>2, Leaves DEF AdvancePeriod, CancelAtPeriodEnd, ConvertTrialToActive, Write,
         CreateAdvanceInvoice, ExtendPrepaid
    <3> QED BY <3>1, <3>2, RatingKept
  <2>3. CASE Fail(a) \/ LoseRating(a)
    BY <2>3, NoFaultsYet DEF RatingInv
  <2>4. CASE ClaimRating(a)
    BY <2>4, RatingClaims
  <2>5. CASE CreateFinalInvoice(a)
    <3>1. /\ actor[a].pc = "finalInvoice" /\ BillUsage(a) /\ Goto(a, "rate")
          /\ UNCHANGED <<rated, alarmed, faults>>
      BY <2>5 DEF CreateFinalInvoice, bounds
    <3>2. /\ Alone(a) /\ actor'[a].pc = "rate" /\ actor'[a].seen = actor[a].seen
      BY <3>1, Leaves
    <3>3. CASE actor[a].metered
      BY <3>1, <3>2, <3>3, RatingBilled
    <3>4. CASE ~actor[a].metered
      <4>1. UNCHANGED usage
        BY <3>1, <3>4 DEF BillUsage, usage
      <4> QED BY <3>1, <3>2, <4>1, RatingKept
    <3> QED BY <3>3, <3>4
  <2>6. CASE CreateRenewalInvoice(a)
    <3>1. actor[a].pc = "invoice" /\ UNCHANGED faults /\ actor[a].seen \in Row
      BY <2>6, Held DEF CreateRenewalInvoice, bounds
    <3>2. CASE Done(a) /\ UNCHANGED usage
      BY <3>1, <3>2, Leaves, RatingKept
    <3>3. CASE actor[a].seen.start \notin cycles
      <4>1. PICK kept : /\ kept = actor[a].seen \/ kept = WithCoupon(actor[a].seen)
                        /\ Continue(a, IF actor[a].metered THEN "rate" ELSE "advance", kept,
                                    actor[a].metered, "advance")
                        /\ BillUsage(a) /\ UNCHANGED <<rated, alarmed>>
        BY <2>6, <3>3 DEF CreateRenewalInvoice
      <4>2. kept.start = actor[a].seen.start
        BY <3>1, <4>1 DEF WithCoupon, Row
      <4>3. /\ Alone(a) /\ actor'[a].pc = IF actor[a].metered THEN "rate" ELSE "advance"
            /\ actor'[a].seen = kept
        BY <4>1, Leaves
      <4>4. CASE actor[a].metered
        BY <3>1, <4>1, <4>2, <4>3, <4>4, RatingBilled
      <4>5. CASE ~actor[a].metered
        <5>1. UNCHANGED usage
          BY <4>1, <4>5 DEF BillUsage, usage
        <5> QED BY <3>1, <4>3, <5>1, RatingKept
      <4> QED BY <4>4, <4>5
    <3> QED BY <2>6, <3>2, <3>3 DEF CreateRenewalInvoice
  <2> QED BY <1>1, <2>1, <2>2, <2>3, <2>4, <2>5, <2>6, Zenon DEF Acts, Work, Looks
<1>2. CASE Others \/ UNCHANGED vars
  <2>1. UNCHANGED <<rated, usageBills, alarmed, faults, actor>>
    BY <1>2 DEF Others, Tick, RenewalLeaseLapses, ResumeDatePasses, vars, usage, bounds
  <2> QED BY <2>1 DEF RatingInv, Claimed, Conflicted, Rating
<1> QED BY <1>1, <1>2, NextActs

----------------------------------------------------------------------------
(* The coupon, as long as nobody but the schedulers writes the row.  The   *)
(* paid periods are then numbered from the end of the trial (granted), and *)
(* the number of a row's period says how many of the coupon's periods it   *)
(* has used up, and that of an invoiced period whether it was discounted.  *)

Least(x, y) == IF x <= y THEN x ELSE y
OnTrial(row) == row.status = "trialing" /\ ~row.ending /\ row.applied = 0 /\ granted = Interval

\* The row of period i, once k more of the coupon's periods are used up.
OnCourse(row, i, k) ==
    /\ row.status = "active" /\ ~row.ending
    /\ row.start = granted + Interval * i /\ row.end = row.start + Interval
    /\ row.applied = Least(CouponPeriods, 1 + i + k)
RowOnCourse(row, k) == \E i \in Nat : OnCourse(row, i, k)

CycleOnCourse(s) == \E i \in Nat : /\ s = granted + Interval * i
                                   /\ s \in discounted <=> 1 + i < CouponPeriods
CouponActor(y) ==
    /\ y.pc \in {"idle", "renew", "invoice", "rate", "advance", "convert"}
    /\ y.pc = "convert" => y.seen.applied = 0
    /\ y.pc \in {"renew", "invoice"} => RowOnCourse(y.seen, 0)
    /\ y.pc = "rate" => y.after = "advance"
    /\ y.pc \in {"rate", "advance"} => RowOnCourse(y.seen, 1)

CouponInv ==
    asked = {} =>
        /\ OnTrial(sub) \/ RowOnCourse(sub, 0)
        /\ \A s \in cycles : CycleOnCourse(s)
        /\ \A a \in Actors : CouponActor(actor[a])

LEMMA Multiples ==
    /\ Interval \in Nat /\ Interval > 0
    /\ \A i \in Nat : Interval * i \in Nat /\ Interval * (i + 1) = Interval * i + Interval
    /\ \A i, j \in Nat : Interval * i = Interval * j => i = j
<1>1. Interval \in Nat /\ Interval > 0
  BY RenewalAssumption
<1>2. ASSUME NEW i \in Nat PROVE Interval * i \in Nat /\ Interval * (i + 1) = Interval * i + Interval
  BY Products
<1>3. ASSUME NEW i \in Nat, NEW j \in Nat, i < j PROVE Interval * i < Interval * j
  <2>1. i + 1 \in Nat /\ i + 1 <= j
    BY <1>3
  <2>2. Interval * (i + 1) <= Interval * j /\ Interval * j \in Nat
    BY <2>1, Products
  <2> QED BY <1>1, <1>2, <2>2
<1>4. ASSUME NEW i \in Nat, NEW j \in Nat, Interval * i = Interval * j PROVE i = j
  BY <1>2, <1>3, <1>4
<1> QED BY <1>1, <1>2, <1>4

\* The discount of a period whose coupon is used up, or not.
LEMMA Discounts ==
    ASSUME NEW row, NEW i \in Nat, OnCourse(row, i, 0)
    PROVE  /\ row.applied \in Nat
           /\ row.applied < CouponPeriods <=> 1 + i < CouponPeriods
           /\ row.applied < CouponPeriods => row.applied + 1 = Least(CouponPeriods, 1 + i + 1)
           /\ ~(row.applied < CouponPeriods) => row.applied = Least(CouponPeriods, 1 + i + 1)
BY RenewalAssumption DEF OnCourse, Least

\* A row that takes the coupon's progress along, or has none to take.
LEMMA CouponTaken ==
    ASSUME NEW row \in Row, NEW i \in Nat, OnCourse(row, i, 0)
    PROVE  /\ 1 + i < CouponPeriods => OnCourse(WithCoupon(row), i, 1)
           /\ ~(1 + i < CouponPeriods) => OnCourse(row, i, 1)
<1>1. /\ row.applied < CouponPeriods <=> 1 + i < CouponPeriods
      /\ row.applied < CouponPeriods => row.applied + 1 = Least(CouponPeriods, 1 + i + 1)
      /\ ~(row.applied < CouponPeriods) => row.applied = Least(CouponPeriods, 1 + i + 1)
  BY Discounts
<1>2. /\ WithCoupon(row).status = row.status /\ WithCoupon(row).ending = row.ending
      /\ WithCoupon(row).start = row.start /\ WithCoupon(row).end = row.end
      /\ WithCoupon(row).applied = row.applied + 1
  BY DEF WithCoupon, Row
<1> QED BY <1>1, <1>2 DEF OnCourse

LEMMA SameIndex ==
    ASSUME RInv, NEW i \in Nat, NEW j \in Nat, granted + Interval * i = granted + Interval * j
    PROVE  i = j
<1>1. granted \in Nat /\ Interval * i \in Nat /\ Interval * j \in Nat
  BY Multiples DEF RInv, TypeOK
<1> QED BY <1>1, Multiples

\* A step of an actor that leaves the row and the invoices alone.
LEMMA CouponKept ==
    ASSUME RInv, CouponInv, NEW a \in Actors, Alone(a), asked' = {},
           asked = {}, CouponActor(actor'[a]), granted' = granted,
           UNCHANGED sub \/ RowOnCourse(sub', 0),
           UNCHANGED <<cycles, discounted>>
             \/ (/\ cycles' \subseteq cycles \cup {actor[a].seen.start}
                 /\ discounted \subseteq discounted'
                 /\ discounted' \subseteq discounted \cup {actor[a].seen.start}
                 /\ actor[a].seen.start \notin cycles
                 /\ \E i \in Nat : /\ actor[a].seen.start = granted + Interval * i
                                   /\ actor[a].seen.start \in discounted' <=> 1 + i < CouponPeriods)
    PROVE  CouponInv'
<1>1. \A b \in Actors : CouponActor(actor'[b])
  BY DEF CouponInv, Alone
<1>2. \A y : CouponActor(y) => CouponActor(y)'
  BY DEF CouponActor, RowOnCourse, OnCourse
<1>3. \A b \in Actors : CouponActor(actor[b])'
  BY <1>1 DEF CouponActor, RowOnCourse, OnCourse
<1>4. OnTrial(sub)' \/ RowOnCourse(sub, 0)'
  BY DEF CouponInv, OnTrial, RowOnCourse, OnCourse
<1>5. ASSUME NEW s \in cycles' PROVE CycleOnCourse(s)'
  <2>1. CASE s \in cycles /\ (s \in discounted' <=> s \in discounted)
    BY <2>1 DEF CouponInv, CycleOnCourse
  <2>2. CASE s = actor[a].seen.start /\ s \notin cycles
    BY <1>5, <2>2 DEF CycleOnCourse
  <2> QED BY <1>5, <2>1, <2>2
<1> QED BY <1>3, <1>4, <1>5 DEF CouponInv

LEMMA CouponLooks ==
    ASSUME RInv, TrialInv, CouponInv, NEW a \in Actors, Looks(a), asked' = {}
    PROVE  CouponInv'
<1>0. /\ UNCHANGED <<sub, cycles, discounted, granted>> /\ actor[a].seen \in Row
  BY LooksOn, Held
<1>1. asked = {} /\ \A op \in Requests : ~Call(a, op)
  BY DEF Looks, ClaimDueForRenewal, GenerateRenewalInvoice, FindFinalUsage, GetExpiredTrials,
         ClaimDueForResume, ResumeClaimed, ScheduleResume, ClearResume, Call, bounds
<1>2. /\ CouponActor(actor[a])
      /\ OnTrial(sub) \/ RowOnCourse(sub, 0)
      /\ \A s \in cycles : CycleOnCourse(s)
  BY <1>1 DEF CouponInv
<1>3. ASSUME NEW p, NEW s, NEW m, NEW r, Continue(a, p, s, m, r),
             \/ p \in {"renew", "invoice"} /\ RowOnCourse(s, 0)
             \/ p = "advance" /\ RowOnCourse(s, 1)
             \/ p = "convert" /\ s.applied = 0
      PROVE  CouponInv'
  <2>1. Alone(a) /\ CouponActor(actor'[a])
    BY <1>3, Leaves DEF CouponActor
  <2> QED BY <1>0, <1>1, <2>1, CouponKept
<1>4. CASE ClaimDueForRenewal(a)
  <2>1. RowOnCourse(sub, 0) /\ ~sub.ending
    BY <1>2, <1>4 DEF ClaimDueForRenewal, Due, OnTrial, RowOnCourse, OnCourse
  <2> QED BY <1>3, <1>4, <2>1 DEF ClaimDueForRenewal
<1>5. CASE GenerateRenewalInvoice(a)
  <2>1. PICK i \in Nat : OnCourse(actor[a].seen, i, 0)
    BY <1>2, <1>5 DEF GenerateRenewalInvoice, CouponActor, RowOnCourse
  <2>2. CASE actor[a].seen.start \in cycles
    <3>1. PICK j \in Nat : /\ actor[a].seen.start = granted + Interval * j
                           /\ actor[a].seen.start \in discounted <=> 1 + j < CouponPeriods
      BY <1>2, <2>2 DEF CycleOnCourse
    <3>2. i = j
      BY <2>1, <3>1, SameIndex DEF OnCourse
    <3>3. RowOnCourse(IF actor[a].seen.start \in discounted THEN WithCoupon(actor[a].seen)
                      ELSE actor[a].seen, 1)
      BY <1>0, <2>1, <3>1, <3>2, CouponTaken DEF RowOnCourse
    <3> QED BY <1>3, <1>5, <2>2, <3>3 DEF GenerateRenewalInvoice
  <2>3. CASE actor[a].seen.start \notin cycles
    <3>1. RowOnCourse(actor[a].seen, 0)
      BY <2>1 DEF RowOnCourse
    <3> QED BY <1>3, <1>5, <2>3, <3>1 DEF GenerateRenewalInvoice
  <2> QED BY <2>2, <2>3
<1>6. CASE GetExpiredTrials(a)
  <2>1. sub.applied = 0
    BY <1>2, <1>6 DEF GetExpiredTrials, OnTrial, RowOnCourse, OnCourse
  <2> QED BY <1>3, <1>6, <2>1 DEF GetExpiredTrials
<1>7. CASE ClaimDueForResume(a)
  BY <1>2, <1>7 DEF ClaimDueForResume, OnTrial, RowOnCourse, OnCourse
<1>8. CASE FindFinalUsage(a) \/ ResumeClaimed(a) \/ ScheduleResume(a) \/ ClearResume(a)
  BY <1>2, <1>8 DEF FindFinalUsage, ResumeClaimed, ScheduleResume, ClearResume, CouponActor
<1> QED BY <1>1, <1>4, <1>5, <1>6, <1>7, <1>8 DEF Looks

LEMMA CouponWorks ==
    ASSUME RInv, TrialInv, CouponInv, NEW a \in Actors, asked' = {},
           \/ CreateRenewalInvoice(a) \/ ClaimRating(a) \/ LoseRating(a) \/ CreateFinalInvoice(a)
           \/ CreateAdvanceInvoice(a) \/ Fail(a)
    PROVE  CouponInv'
<1>0. UNCHANGED <<sub, granted>> /\ asked = {} /\ actor[a].seen \in Row
  <2>1. UNCHANGED <<sub, granted>> /\ asked = {}
    BY DEF CreateRenewalInvoice, ClaimRating, LoseRating, CreateFinalInvoice, CreateAdvanceInvoice, Fail,
           fees, bounds
  <2> QED BY <2>1, Held
<1>1. CouponActor(actor[a]) /\ \A s \in cycles : CycleOnCourse(s)
  BY <1>0 DEF CouponInv
<1>2. ASSUME Done(a), UNCHANGED <<cycles, discounted>> PROVE CouponInv'
  <2>1. Alone(a) /\ CouponActor(actor'[a])
    BY <1>2, Leaves DEF CouponActor
  <2> QED BY <1>0, <1>2, <2>1, CouponKept
<1>3. CASE CreateRenewalInvoice(a)
  <2>1. PICK i \in Nat : OnCourse(actor[a].seen, i, 0)
    BY <1>1, <1>3 DEF CreateRenewalInvoice, CouponActor, RowOnCourse
  <2>2. CASE actor[a].seen.start \in cycles
    BY <1>2, <1>3, <2>2 DEF CreateRenewalInvoice, fees
  <2>3. CASE actor[a].seen.start \notin cycles
    <3> DEFINE kept == IF CouponApplies(actor[a].seen) THEN WithCoupon(actor[a].seen) ELSE actor[a].seen
    <3>1. /\ cycles' = cycles \cup {actor[a].seen.start}
          /\ discounted' = IF CouponApplies(actor[a].seen) THEN discounted \cup {actor[a].seen.start}
                           ELSE discounted
          /\ Continue(a, IF actor[a].metered THEN "rate" ELSE "advance", kept,
                      actor[a].metered, "advance")
      BY <1>3, <2>3 DEF CreateRenewalInvoice
    <3>2. CouponApplies(actor[a].seen) <=> 1 + i < CouponPeriods
      BY <2>1, Discounts DEF CouponApplies
    <3>3. RowOnCourse(kept, 1)
      BY <1>0, <2>1, <3>2, CouponTaken DEF RowOnCourse
    <3>4. Alone(a) /\ CouponActor(actor'[a])
      <4> HIDE DEF kept
      <4>1. /\ Alone(a) /\ actor'[a].pc = IF actor[a].metered THEN "rate" ELSE "advance"
            /\ actor'[a].seen = kept /\ actor'[a].after = "advance"
        BY <3>1, Leaves
      <4> QED BY <3>3, <4>1 DEF CouponActor
    <3>5. actor[a].seen.start = granted + Interval * i
      BY <2>1 DEF OnCourse
    <3>6. actor[a].seen.start \notin discounted
      BY <2>3 DEF RInv, TypeOK
    <3>7. actor[a].seen.start \in discounted' <=> 1 + i < CouponPeriods
      BY <3>1, <3>2, <3>6
    <3> QED BY <1>0, <2>3, <3>1, <3>4, <3>5, <3>7, CouponKept
  <2> QED BY <2>2, <2>3
<1>4. CASE ClaimRating(a) \/ LoseRating(a)
  <2>1. actor[a].pc = "rate" /\ actor[a].after = "advance" /\ RowOnCourse(actor[a].seen, 1)
    BY <1>1, <1>4 DEF ClaimRating, LoseRating, CouponActor
  <2>2. Goto(a, "advance") /\ UNCHANGED <<cycles, discounted>>
    BY <1>4, <2>1 DEF ClaimRating, LoseRating, fees
  <2>3. Alone(a) /\ CouponActor(actor'[a])
    BY <2>1, <2>2, Leaves DEF CouponActor
  <2> QED BY <1>0, <2>2, <2>3, CouponKept
<1>5. CASE CreateFinalInvoice(a) \/ CreateAdvanceInvoice(a)
  BY <1>1, <1>5 DEF CreateFinalInvoice, CreateAdvanceInvoice, CouponActor
<1>6. CASE Fail(a)
  BY <1>2, <1>6 DEF Fail, fees
<1> QED BY <1>3, <1>4, <1>5, <1>6

LEMMA CouponWrites ==
    ASSUME RInv, TrialInv, CouponInv, NEW a \in Actors, asked' = {},
           \/ AdvancePeriod(a) \/ CancelAtPeriodEnd(a) \/ ConvertTrialToActive(a)
           \/ Write(a) \/ ExtendPrepaid(a)
    PROVE  CouponInv'
<1>0. UNCHANGED <<cycles, discounted>> /\ asked = {} /\ actor[a].seen \in Row /\ sub \in Row /\ granted \in Nat
  <2>1. UNCHANGED <<cycles, discounted>> /\ asked = {}
    BY DEF AdvancePeriod, CancelAtPeriodEnd, ConvertTrialToActive, Write, ExtendPrepaid, bounds, fees
  <2> QED BY <2>1, Held DEF RInv, TypeOK
<1>1. CouponActor(actor[a]) /\ (OnTrial(sub) \/ RowOnCourse(sub, 0))
  BY <1>0 DEF CouponInv
<1>2. ASSUME Done(a), UNCHANGED granted, UNCHANGED sub \/ RowOnCourse(sub', 0) PROVE CouponInv'
  <2>1. Alone(a) /\ CouponActor(actor'[a])
    BY <1>2, Leaves DEF CouponActor
  <2> QED BY <1>0, <1>2, <2>1, CouponKept
<1>3. CASE AdvancePeriod(a)
  <2>1. PICK i \in Nat : OnCourse(actor[a].seen, i, 1)
    BY <1>1, <1>3 DEF AdvancePeriod, CouponActor, RowOnCourse
  <2>2. /\ sub'.status = actor[a].seen.status /\ sub'.ending = actor[a].seen.ending
        /\ sub'.applied = actor[a].seen.applied
        /\ sub'.start = actor[a].seen.end /\ sub'.end = actor[a].seen.end + Interval
    BY <1>0, <1>3 DEF AdvancePeriod, Row
  <2>3. actor[a].seen.end = granted + Interval * (i + 1)
    <3>1. /\ actor[a].seen.end = granted + Interval * i + Interval
          /\ Interval * i \in Nat /\ Interval \in Nat /\ Interval * (i + 1) = Interval * i + Interval
      BY <2>1, Multiples DEF OnCourse
    <3> QED BY <1>0, <3>1
  <2>4. sub'.applied = Least(CouponPeriods, 1 + (i + 1) + 0)
    <3>1. 1 + i + 1 = 1 + (i + 1) + 0
      OBVIOUS
    <3> QED BY <2>1, <2>2, <3>1 DEF OnCourse
  <2>5. OnCourse(sub', i + 1, 0) /\ i + 1 \in Nat
    BY <2>1, <2>2, <2>3, <2>4 DEF OnCourse
  <2> QED BY <1>2, <1>3, <2>5 DEF AdvancePeriod, fees, RowOnCourse
<1>4. CASE ConvertTrialToActive(a)
  <2>1. CASE sub.status = "trialing"
    <3>1. OnTrial(sub) /\ actor[a].seen.applied = 0
      BY <1>1, <1>4, <2>1 DEF ConvertTrialToActive, CouponActor, RowOnCourse, OnCourse
    <3>2. /\ sub'.status = "active" /\ sub'.ending = sub.ending /\ sub'.start = Interval
          /\ sub'.end = 2 * Interval /\ sub'.applied = 1
      <4>1. sub' = [sub EXCEPT !.status = "active", !.start = Interval, !.end = 2 * Interval,
                               !.applied = 1]
        BY <1>4, <2>1, <3>1 DEF ConvertTrialToActive
      <4> QED BY <1>0, <4>1 DEF Row
    <3>3. granted = Interval /\ granted + Interval * 0 = Interval /\ Interval + Interval = 2 * Interval
      BY <3>1, Multiples DEF OnTrial
    <3>4. Least(CouponPeriods, 1 + 0 + 0) = 1
      BY RenewalAssumption DEF Least
    <3>5. OnCourse(sub', 0, 0)
      BY <3>1, <3>2, <3>3, <3>4 DEF OnCourse, OnTrial
    <3> QED BY <1>2, <1>4, <3>5 DEF ConvertTrialToActive, RowOnCourse
  <2>2. CASE sub.status # "trialing"
    BY <1>2, <1>4, <2>2 DEF ConvertTrialToActive
  <2> QED BY <2>1, <2>2
<1>5. CASE CancelAtPeriodEnd(a) \/ Write(a) \/ ExtendPrepaid(a)
  BY <1>1, <1>5 DEF CancelAtPeriodEnd, Write, ExtendPrepaid, CouponActor
<1> QED BY <1>3, <1>4, <1>5

LEMMA CouponStep == ASSUME RInv, TrialInv, CouponInv, [Next]_vars PROVE CouponInv'
<1> SUFFICES ASSUME asked' = {} PROVE CouponInv'
  BY DEF CouponInv
<1>1. ASSUME NEW a \in Actors, Acts(a) PROVE CouponInv'
  BY <1>1, CouponLooks, CouponWorks, CouponWrites, Zenon DEF Acts, Work, Looks
<1>2. CASE Others \/ UNCHANGED vars
  <2>1. UNCHANGED <<sub, cycles, discounted, granted, asked, actor>>
    BY <1>2 DEF Others, Tick, RenewalLeaseLapses, ResumeDatePasses, vars, fees, bounds
  <2> QED BY <2>1 DEF CouponInv, OnTrial, RowOnCourse, OnCourse, CycleOnCourse, CouponActor
<1> QED BY <1>1, <1>2, NextActs

LEMMA CouponInit == Init => CouponInv
<1> SUFFICES ASSUME Init PROVE CouponInv
  OBVIOUS
<1>1. PICK trial \in BOOLEAN : sub = Created(trial)
  BY RenewalAssumption DEF Init
<1>2. OnTrial(sub) \/ RowOnCourse(sub, 0)
  <2>1. CASE trial
    BY <1>1, <2>1 DEF Init, OnTrial, Created
  <2>2. CASE ~trial
    <3>1. granted = 0 /\ 0 + Interval * 0 = 0 /\ Least(CouponPeriods, 1 + 0 + 0) = 1
      BY <1>1, <2>2, RenewalAssumption DEF Init, Created, Least
    <3>2. /\ sub.status = "active" /\ sub.ending = FALSE /\ sub.start = 0 /\ sub.end = Interval
          /\ sub.applied = 1
      BY <1>1, <2>2 DEF Created
    <3>3. 0 + Interval = Interval
      BY Multiples
    <3>4. OnCourse(sub, 0, 0)
      BY <3>1, <3>2, <3>3 DEF OnCourse
    <3> QED BY <3>4 DEF RowOnCourse
  <2> QED BY <2>1, <2>2
<1>3. cycles = {} /\ \A a \in Actors : CouponActor(actor[a])
  BY DEF Init, CouponActor, Idle
<1> QED BY <1>2, <1>3 DEF CouponInv

\* The discounted periods are the first ones, and fewer than the coupon's.
LEMMA CouponCounts ==
    ASSUME RInv, asked = {}, \A s \in cycles : CycleOnCourse(s)
    PROVE  Cardinality(discounted) <= CouponPeriods - 1 /\ Cardinality(discounted) \in Nat
<1> DEFINE n == CouponPeriods - 1
           T == {granted + Interval * i : i \in 0..(n - 1)}
           f == [i \in 1..n |-> granted + Interval * (i - 1)]
<1>0. n \in Nat
  BY RenewalAssumption
<1>1. f \in Surjection(1..n, T)
  <2>1. ASSUME NEW i \in 1..n PROVE f[i] \in T
    <3>1. i - 1 \in 0..(n - 1)
      BY <1>0
    <3> QED BY <3>1
  <2>2. ASSUME NEW t \in T PROVE \E i \in 1..n : f[i] = t
    <3>1. PICK j \in 0..(n - 1) : t = granted + Interval * j
      OBVIOUS
    <3>2. j + 1 \in 1..n /\ (j + 1) - 1 = j
      BY <1>0
    <3> QED BY <3>1, <3>2
  <2> HIDE DEF n, T
  <2>3. f \in [1..n -> T]
    BY <2>1
  <2> HIDE DEF f
  <2> QED BY <2>2, <2>3 DEF Surjection
<1>2. IsFiniteSet(T) /\ Cardinality(T) <= n
  <2> HIDE DEF f, T, n
  <2>1. IsFiniteSet(1..n)
    BY <1>0, FS_Interval
  <2>2. ExistsSurjection(1..n, T)
    BY <1>1, Zenon DEF ExistsSurjection
  <2> QED BY <1>0, <1>1, <2>1, <2>2, FS_Surjection, FS_SurjCardinalityBound
<1>3. discounted \subseteq T
  <2> SUFFICES ASSUME NEW s \in discounted PROVE s \in T
    OBVIOUS
  <2>1. PICK i \in Nat : s = granted + Interval * i /\ 1 + i < CouponPeriods
    BY DEF RInv, TypeOK, CycleOnCourse
  <2>2. i \in 0..(n - 1)
    BY <2>1, RenewalAssumption
  <2> QED BY <2>1, <2>2
<1> HIDE DEF T
<1>4. Cardinality(discounted) \in Nat /\ Cardinality(discounted) <= Cardinality(T) /\ Cardinality(T) \in Nat
  BY <1>2, <1>3, CountGrows, FS_CardinalityType
<1> QED BY <1>0, <1>2, <1>4

----------------------------------------------------------------------------
(* The results. *)

USE RenewalAssumption

\* The rows, the invoices and the actors keep their types.
THEOREM TypeCorrect == Spec => []TypeOK
<1>1. RInv => TypeOK
  BY DEF RInv
<1> QED BY <1>1, Always, PTL

\* The subscription's period never ends later than its invoices, and the days
\* given without charge, reach: whoever overwrites whose row, and wherever a
\* renewal, a prepayment or a resume is cut short.
THEOREM ServiceIsBilled == Spec => []NoFreeService
<1>1. RInv => NoFreeService
  <2> SUFFICES ASSUME RInv PROVE NoFreeService
    OBVIOUS
  <2>1. TypeOK /\ sub \in Row /\ sub.end <= Billed(sub.start)
    BY DEF RInv, TypeOK, Sound
  <2>2. sub.start \in Nat /\ sub.end \in Nat
    BY <2>1, NewPeriod
  <2>3. /\ Billed(sub.start) \in Nat
        /\ Billed(sub.start) <= Interval * (firsts + Cardinality(cycles) + prepaid) + granted
    BY <2>1, <2>2, BilledLater
  <2>4. Interval * (firsts + Cardinality(cycles) + prepaid) + granted \in Nat
    BY <2>1, FS_CardinalityType, Products DEF TypeOK
  <2> QED BY <2>1, <2>2, <2>3, <2>4 DEF NoFreeService
<1> QED BY <1>1, Always, PTL

HIDE RenewalAssumption

\* A trial is invoiced when it converts, and only then: however many loops find
\* it expired, and whether it is paused, resumed, canceled or reactivated on the
\* way, an actor that still means to convert it holds a row that is a trial, and
\* the row it writes is not one any more.
THEOREM TrialIsBilledOnce == Spec => []TrialBilledOnce
<1>1. Init => TrialInv
  BY TrialInit
<1>2. RInv /\ TrialInv /\ [Next]_vars => TrialInv'
  BY TrialStep
<1>3. TrialInv => TrialBilledOnce
  BY DEF TrialInv, TrialBilledOnce, NotWritingBack
<1> QED BY <1>1, <1>2, <1>3, Always, PTL DEF Spec

\* As long as nothing fails, a usage that reached two invoices has an actor that
\* claimed it second, and that actor has logged the conflict: an invoiced usage
\* is claimed, or its actor is still about to claim it.
THEOREM DoubleRatingIsSeen == Spec => []DoubleRatingIsReported
<1>1. Init => RatingInv
  BY DEF Init, RatingInv, Claimed, Conflicted
<1>2. RInv /\ RatingInv /\ [Next]_vars => RatingInv'
  BY RatingStep
<1>3. RInv /\ RatingInv => DoubleRatingIsReported
  <2> SUFFICES ASSUME RInv, RatingInv, Quiet, faults = 0, NEW b \in usageBills, NEW c \in usageBills,
                      b[1] = c[1], b # c
               PROVE  b[1] \in alarmed
    BY DEF DoubleRatingIsReported
  <2>1. usageBills \subseteq Nat \X Actors
    BY DEF RInv, TypeOK
  <2>2. /\ b[1] \in Nat /\ b[2] \in Actors /\ c[2] \in Actors /\ b[2] # c[2]
        /\ <<b[1], b[2]>> \in usageBills /\ <<b[1], c[2]>> \in usageBills
    <3>1. b \in Nat \X Actors /\ c \in Nat \X Actors
      BY <2>1
    <3>2. b = <<b[1], b[2]>> /\ c = <<c[1], c[2]>> /\ b[1] \in Nat /\ b[2] \in Actors /\ c[2] \in Actors
      BY <3>1
    <3> QED BY <3>2
  <2>3. \A a \in Actors : \A w : ~Rating(a, w)
    BY DEF Quiet, Rating
  <2> QED BY <2>2, <2>3 DEF RatingInv, Conflicted
<1> QED BY <1>1, <1>2, <1>3, Always, PTL DEF Spec

\* A coupon discounts no more periods than it lasts, as long as only the renewal
\* loops write the row: every period a row may start stands at a multiple of
\* the interval, and that multiple counts the discounts taken before it.
THEOREM CouponEnds == Spec => []CouponRunsItsCourse
<1>1. Init => CouponInv /\ TrialInv
  BY CouponInit, TrialInit
<1>2. RInv /\ TrialInv /\ CouponInv /\ [Next]_vars => TrialInv' /\ CouponInv'
  BY CouponStep, TrialStep
<1>3. RInv /\ TrialInv /\ CouponInv => CouponRunsItsCourse
  <2> SUFFICES ASSUME RInv, TrialInv, CouponInv, asked = {}
               PROVE  firsts + Cardinality(discounted) <= CouponPeriods
    BY DEF CouponRunsItsCourse
  <2>1. firsts \in Nat /\ firsts <= 1
    BY DEF RInv, TypeOK, TrialInv
  <2>2. Cardinality(discounted) <= CouponPeriods - 1 /\ Cardinality(discounted) \in Nat
    BY CouponCounts DEF CouponInv
  <2> QED BY <2>1, <2>2, RenewalAssumption
<1> QED BY <1>1, <1>2, <1>3, Always, PTL DEF Spec
=============================================================================
