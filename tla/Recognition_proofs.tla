-------------------------- MODULE Recognition_proofs --------------------------
(***************************************************************************)
(* What became of a recognition event stays, however worker, requests and  *)
(* crashes interleave, and Deferred Revenue is what the events say.        *)
(*                                                                         *)
(* Every update of an event's status names the status it wants to find,    *)
(* with one exception: the insert of a schedule's events.  So the first    *)
(* argument is that nothing is there yet when they are inserted: the       *)
(* schedule was just created, by the same request, and each creation gets  *)
(* a row of its own.  What is posted for an event follows from who claimed *)
(* it, and the types from what an unwind still has to take.                *)
(*                                                                         *)
(* The second half accounts for Deferred Revenue: the schedules, what is   *)
(* not scheduled yet, what is written off and what the actors have in hand *)
(* add up to it at every step, unless the invoice is scheduled anew.       *)
(***************************************************************************)
EXTENDS Recognition, FunctionSums, TLAPS

Statuses == {None, "pending", "processing", "recognized", "failed", "canceled", "reversed"}
Claiming == {"recognize", "mark", "markFailed"}
Unwinds == {"read", "writeOff", "find", "list", "remove", "close", "post",
            "recognized", "clawBack", "owe", "credit"}
Resting == Unwinds \cup {"idle"}
Pcs == Claiming \cup Resting \cup {"claim", "recover", "check", "consume", "insert", "events"}
Ops == {None, "cancel", "refund", "downgrade", "writeOff"}

ActorRecord(p, o, s, t, h, l, w, k, n) ==
    [pc |-> p, op |-> o, schedule |-> s, todo |-> t, held |-> h,
     left |-> l, want |-> w, take |-> k, taken |-> n]
IsRecord(r) == r = ActorRecord(r.pc, r.op, r.schedule, r.todo, r.held, r.left, r.want, r.take, r.taken)

\* How far an actor at pc p with request o is with the w it wants, of which it has yet to
\* take k and has taken n.
Stage(p, o, w, k, n) ==
    /\ o # None <=> p \in Unwinds
    /\ p \in {"read", "writeOff"} => o = "writeOff"
    /\ p = "writeOff" => w <= Net
    /\ o = "writeOff" => p \in {"read", "writeOff", "find", "list", "remove", "close"}
    /\ o \in {"refund", "downgrade"} /\ p \in {"list", "close", "post"} => n <= w
    /\ o \in {"refund", "downgrade"} /\ p = "remove" => k + n = w

\* An actor's record.
ActorOK(r) ==
    /\ IsRecord(r)
    /\ r.pc \in Pcs /\ r.op \in Ops /\ r.schedule \in Schedules \cup {None}
    /\ r.todo \subseteq Read /\ r.held \subseteq Read /\ r.left \subseteq Schedules
    /\ r.want \in Nat /\ r.take \in Nat /\ r.taken \in Nat
    /\ Stage(r.pc, r.op, r.want, r.take, r.taken)
    /\ r.pc = "idle" => r = Idle

Shape ==
    /\ event \in [Schedules -> [1..Months -> Event]]
    /\ schedule \in [Schedules -> {None, "active", "canceled"}]
    /\ DOMAIN actor = Actors /\ actor = [a \in Actors |-> actor[a]]
    /\ \A a \in Actors : ActorOK(actor[a])
    /\ debt \in Nat

\* A schedule's events are inserted once, where there are none.
InsertsOnce ==
    /\ \A s \in Schedules : schedule[s] = None => \A m \in 1..Months : event[s][m].status = None
    /\ \A a \in Actors : actor[a].pc = "events" =>
           /\ actor[a].schedule \in Schedules /\ schedule[actor[a].schedule] # None
           /\ \A m \in 1..Months : event[actor[a].schedule][m].status = None
    /\ \A a, b \in Actors : actor[a].pc = "events" /\ actor[b].pc = "events" /\ a # b =>
           actor[a].schedule # actor[b].schedule

EventInv == Shape /\ InsertsOnce

----------------------------------------------------------------------------
(* What the updates of an event leave of the others.                       *)

\* Event (s, m) becomes y, and no other event changes.
Becomes(s, m, y) ==
    /\ event' \in [Schedules -> [1..Months -> Event]]
    /\ event'[s][m] = y
    /\ \A t \in Schedules, n \in 1..Months : t # s \/ n # m => event'[t][n] = event[t][n]

LEMMA EventUpdated ==
    ASSUME Shape, NEW s \in Schedules, NEW m \in 1..Months, NEW y \in Event,
           event' = [event EXCEPT ![s][m] = y]
    PROVE  Becomes(s, m, y)
<1>1. event \in [Schedules -> [1..Months -> Event]]
  BY DEF Shape
<1>2. event' = [event EXCEPT ![s] = [event[s] EXCEPT ![m] = y]]
  OBVIOUS
<1>3. event[s] \in [1..Months -> Event]
  BY <1>1
<1>4. [event[s] EXCEPT ![m] = y] \in [1..Months -> Event]
  BY <1>3
<1>5. event' \in [Schedules -> [1..Months -> Event]]
  BY <1>1, <1>2, <1>4
<1>6. event'[s] = [event[s] EXCEPT ![m] = y] /\ \A t \in Schedules : t # s => event'[t] = event[t]
  BY <1>1, <1>2
<1>7. event'[s][m] = y /\ \A n \in 1..Months : n # m => event'[s][n] = event[s][n]
  BY <1>3, <1>6
<1> QED BY <1>5, <1>6, <1>7 DEF Becomes

\* The event that e was read from, with another status.
WithStatus(e, to) == [status |-> to, amount |-> event[e.schedule][e.month].amount,
                      clawed |-> event[e.schedule][e.month].clawed]

LEMMA Marked ==
    ASSUME Shape, NEW e \in Read, NEW from \in Statuses, NEW to \in Statuses,
           Mark(e, from, to)
    PROVE  IF StatusOf(e) = from THEN Becomes(e.schedule, e.month, WithStatus(e, to))
           ELSE event' = event
<1> PICK s, m : s = e.schedule /\ m = e.month
  OBVIOUS
<1>1. s \in Schedules /\ m \in 1..Months
  BY DEF Read
<1>2. event \in [Schedules -> [1..Months -> Event]] /\ event[s] \in [1..Months -> Event]
  BY <1>1 DEF Shape
<1>3. event[s][m] \in Event
  BY <1>1, <1>2
<1>4. event' = [event EXCEPT ![s] = [event[s] EXCEPT ![m] =
            [event[s][m] EXCEPT !.status = IF event[s][m].status = from THEN to ELSE event[s][m].status]]]
  BY <1>1, <1>2, <1>3 DEF Mark
<1>5. CASE StatusOf(e) = from
  <2>1. event[s][m].status = from
    BY <1>5 DEF StatusOf
  <2>2. [event[s][m] EXCEPT !.status = to] = WithStatus(e, to)
    BY <1>3 DEF WithStatus, Event
  <2>3. WithStatus(e, to) \in Event
    BY <1>3 DEF WithStatus, Event, Statuses
  <2>4. event' = [event EXCEPT ![s][m] = WithStatus(e, to)]
    BY <1>4, <2>1, <2>2
  <2> QED BY <1>1, <1>5, <2>3, <2>4, EventUpdated
<1>6. CASE StatusOf(e) # from
  <2>1. [event[s][m] EXCEPT !.status = event[s][m].status] = event[s][m]
    BY <1>3 DEF Event
  <2>2. event' = [event EXCEPT ![s] = [event[s] EXCEPT ![m] = event[s][m]]]
    BY <1>4, <1>6, <2>1 DEF StatusOf
  <2>3. [event[s] EXCEPT ![m] = event[s][m]] = event[s]
    BY <1>2
  <2>4. [event EXCEPT ![s] = event[s]] = event
    BY <1>2
  <2> QED BY <1>6, <2>2, <2>3, <2>4
<1> QED BY <1>5, <1>6

LEMMA RowsAreRead ==
    ASSUME Shape, NEW ss \in SUBSET Schedules, NEW statuses, NEW r \in Rows(ss, statuses)
    PROVE  /\ r \in Read /\ r.schedule \in ss /\ StatusOf(r) \in statuses
           /\ r.amount = event[r.schedule][r.month].amount
<1>1. PICK s \in ss, m \in 1..Months :
          r = [schedule |-> s, month |-> m, amount |-> event[s][m].amount] /\ StatusOf(r) \in statuses
  BY DEF Rows
<1>2. event[s][m] \in Event
  BY <1>1 DEF Shape
<1> QED BY <1>1, <1>2 DEF Read, Event

----------------------------------------------------------------------------
(* Where each step leaves the actor that takes it.                         *)

\* Actor a's record becomes r, and no other actor's changes.
Stands(a, r) ==
    /\ DOMAIN actor' = Actors /\ actor' = [b \in Actors |-> actor'[b]]
    /\ actor'[a] = r
    /\ \A b \in Actors : b # a => actor'[b] = actor[b]

LEMMA ActorUpdated ==
    ASSUME Shape, NEW a \in Actors, NEW r, actor' = [actor EXCEPT ![a] = r]
    PROVE  Stands(a, r)
BY DEF Shape, Stands

LEMMA IdleOK == ActorOK(Idle) /\ Idle.pc = "idle"
BY DEF ActorOK, Idle, IsRecord, ActorRecord, None, Pcs, Resting, Ops, Stage, Unwinds

\* A request unwinds, and only a request that sweeps does not tell what it wants.
LEMMA StageOps ==
    ASSUME NEW r, ActorOK(r), r.pc \in Unwinds
    PROVE  r.op \in {"cancel", "refund", "downgrade", "writeOff"}
BY DEF ActorOK, Stage, Ops

\* An actor at r after a step is where it may be; only the creation of a schedule
\* leads to the insert of events.
Reaches(a, r) ==
    /\ Stands(a, r)
    /\ ActorOK(r)
    /\ r.pc = "events" =>
           /\ r.schedule \in Schedules /\ schedule[r.schedule] = None
           /\ schedule' = [schedule EXCEPT ![r.schedule] = "active"]

LEMMA DoneReaches == ASSUME Shape, NEW a \in Actors, Done(a) PROVE Reaches(a, Idle)
<1>1. Stands(a, Idle)
  BY ActorUpdated DEF Done
<1>2. Idle.pc # "events"
  BY DEF Idle
<1> QED BY <1>1, <1>2, IdleOK DEF Reaches

\* An actor that goes on, but not to recognize what it claimed.
Leads(a) == \E r : Reaches(a, r) /\ r.pc \notin Claiming

LEMMA DoneLeads == ASSUME Shape, NEW a \in Actors, Done(a) PROVE Leads(a)
BY DoneReaches, IdleOK DEF Leads, Claiming

LEMMA GotoLeads ==
    ASSUME Shape, NEW a \in Actors, NEW pc \in Pcs \ Claiming, Goto(a, pc),
           pc \notin {"idle", "events", "read", "writeOff"},
           Stage(pc, actor[a].op, actor[a].want, actor[a].take, actor[a].taken)
    PROVE  Leads(a)
<1> PICK x : x = actor[a]
  OBVIOUS
<1> PICK r : r = [x EXCEPT !.pc = pc]
  OBVIOUS
<1>1. ActorOK(x)
  BY DEF Shape
<1>2. actor' = [actor EXCEPT ![a] = r]
  BY DEF Goto, Shape
<1>3. Stands(a, r)
  BY <1>2, ActorUpdated
<1>4. r = ActorRecord(pc, x.op, x.schedule, x.todo, x.held, x.left, x.want, x.take, x.taken)
  BY <1>1 DEF ActorOK, IsRecord, ActorRecord
<1>5. ActorOK(r)
  BY <1>1, <1>4 DEF ActorOK, IsRecord, ActorRecord
<1>6. r.pc = pc
  BY <1>4 DEF ActorRecord
<1> QED BY <1>3, <1>5, <1>6 DEF Reaches, Leads

\* Actor a's record becomes this one.
Enters(a, p, o, s, t, h, l, w, k, n) ==
    actor' = [actor EXCEPT ![a] = ActorRecord(p, o, s, t, h, l, w, k, n)]

\* The updates of pc and other fields that the actions make.
SetsTodo(a, p, t) == actor' = [actor EXCEPT ![a].pc = p, ![a].todo = t]
SetsHeld(a, p, h) == actor' = [actor EXCEPT ![a].pc = p, ![a].held = h]
SetsWant(a, p, w) == actor' = [actor EXCEPT ![a].pc = p, ![a].want = w]
SetsSchedule(a, p, s) == actor' = [actor EXCEPT ![a].pc = p, ![a].schedule = s]
SetsTodoHeld(a, p, t, h) == actor' = [actor EXCEPT ![a].pc = p, ![a].todo = t, ![a].held = h]
SetsOpWant(a, p, o, w) == actor' = [actor EXCEPT ![a].pc = p, ![a].op = o, ![a].want = w]
SetsTakeWant(a, p, k, w) == actor' = [actor EXCEPT ![a].pc = p, ![a].take = k, ![a].want = w]

LEMMA UpdatedTwice ==
    ASSUME NEW f, NEW a, NEW y, NEW z, NEW g, g = [f EXCEPT ![a] = y]
    PROVE  [g EXCEPT ![a] = z] = [f EXCEPT ![a] = z]
OBVIOUS

LEMMA SetsTodoEnters ==
    ASSUME Shape, NEW a \in Actors, NEW x, x = actor[a], NEW p, NEW t, SetsTodo(a, p, t)
    PROVE  Enters(a, p, x.op, x.schedule, t, x.held, x.left, x.want, x.take, x.taken)
<1>1. IsRecord(x) /\ a \in DOMAIN actor /\ actor = [b \in DOMAIN actor |-> actor[b]]
  BY DEF Shape, ActorOK
<1> PICK f, y, z : f = [actor EXCEPT ![a].pc = p] /\ y = [x EXCEPT !.pc = p] /\ z = [y EXCEPT !.todo = t]
  OBVIOUS
<1>2. y = ActorRecord(p, x.op, x.schedule, x.todo, x.held, x.left, x.want, x.take, x.taken)
  BY <1>1 DEF IsRecord, ActorRecord
<1>3. z = ActorRecord(p, x.op, x.schedule, t, x.held, x.left, x.want, x.take, x.taken)
  BY <1>2 DEF ActorRecord
<1>4. f = [actor EXCEPT ![a] = y] /\ f[a] = y
  BY <1>1
<1>5. actor' = [f EXCEPT ![a].todo = t]
  BY DEF SetsTodo
<1>6. actor' = [f EXCEPT ![a] = z]
  BY <1>4, <1>5
<1>7. actor' = [actor EXCEPT ![a] = z]
  BY <1>4, <1>6, UpdatedTwice, Zenon
<1> QED BY <1>3, <1>7 DEF Enters

LEMMA SetsHeldEnters ==
    ASSUME Shape, NEW a \in Actors, NEW x, x = actor[a], NEW p, NEW h, SetsHeld(a, p, h)
    PROVE  Enters(a, p, x.op, x.schedule, x.todo, h, x.left, x.want, x.take, x.taken)
<1>1. IsRecord(x) /\ a \in DOMAIN actor /\ actor = [b \in DOMAIN actor |-> actor[b]]
  BY DEF Shape, ActorOK
<1> PICK f, y, z : f = [actor EXCEPT ![a].pc = p] /\ y = [x EXCEPT !.pc = p] /\ z = [y EXCEPT !.held = h]
  OBVIOUS
<1>2. y = ActorRecord(p, x.op, x.schedule, x.todo, x.held, x.left, x.want, x.take, x.taken)
  BY <1>1 DEF IsRecord, ActorRecord
<1>3. z = ActorRecord(p, x.op, x.schedule, x.todo, h, x.left, x.want, x.take, x.taken)
  BY <1>2 DEF ActorRecord
<1>4. f = [actor EXCEPT ![a] = y] /\ f[a] = y
  BY <1>1
<1>5. actor' = [f EXCEPT ![a].held = h]
  BY DEF SetsHeld
<1>6. actor' = [f EXCEPT ![a] = z]
  BY <1>4, <1>5
<1>7. actor' = [actor EXCEPT ![a] = z]
  BY <1>4, <1>6, UpdatedTwice, Zenon
<1> QED BY <1>3, <1>7 DEF Enters

LEMMA SetsWantEnters ==
    ASSUME Shape, NEW a \in Actors, NEW x, x = actor[a], NEW p, NEW w, SetsWant(a, p, w)
    PROVE  Enters(a, p, x.op, x.schedule, x.todo, x.held, x.left, w, x.take, x.taken)
<1>1. IsRecord(x) /\ a \in DOMAIN actor /\ actor = [b \in DOMAIN actor |-> actor[b]]
  BY DEF Shape, ActorOK
<1> PICK f, y, z : f = [actor EXCEPT ![a].pc = p] /\ y = [x EXCEPT !.pc = p] /\ z = [y EXCEPT !.want = w]
  OBVIOUS
<1>2. y = ActorRecord(p, x.op, x.schedule, x.todo, x.held, x.left, x.want, x.take, x.taken)
  BY <1>1 DEF IsRecord, ActorRecord
<1>3. z = ActorRecord(p, x.op, x.schedule, x.todo, x.held, x.left, w, x.take, x.taken)
  BY <1>2 DEF ActorRecord
<1>4. f = [actor EXCEPT ![a] = y] /\ f[a] = y
  BY <1>1
<1>5. actor' = [f EXCEPT ![a].want = w]
  BY DEF SetsWant
<1>6. actor' = [f EXCEPT ![a] = z]
  BY <1>4, <1>5
<1>7. actor' = [actor EXCEPT ![a] = z]
  BY <1>4, <1>6, UpdatedTwice, Zenon
<1> QED BY <1>3, <1>7 DEF Enters

LEMMA SetsScheduleEnters ==
    ASSUME Shape, NEW a \in Actors, NEW x, x = actor[a], NEW p, NEW s, SetsSchedule(a, p, s)
    PROVE  Enters(a, p, x.op, s, x.todo, x.held, x.left, x.want, x.take, x.taken)
<1>1. IsRecord(x) /\ a \in DOMAIN actor /\ actor = [b \in DOMAIN actor |-> actor[b]]
  BY DEF Shape, ActorOK
<1> PICK f, y, z : f = [actor EXCEPT ![a].pc = p] /\ y = [x EXCEPT !.pc = p] /\ z = [y EXCEPT !.schedule = s]
  OBVIOUS
<1>2. y = ActorRecord(p, x.op, x.schedule, x.todo, x.held, x.left, x.want, x.take, x.taken)
  BY <1>1 DEF IsRecord, ActorRecord
<1>3. z = ActorRecord(p, x.op, s, x.todo, x.held, x.left, x.want, x.take, x.taken)
  BY <1>2 DEF ActorRecord
<1>4. f = [actor EXCEPT ![a] = y] /\ f[a] = y
  BY <1>1
<1>5. actor' = [f EXCEPT ![a].schedule = s]
  BY DEF SetsSchedule
<1>6. actor' = [f EXCEPT ![a] = z]
  BY <1>4, <1>5
<1>7. actor' = [actor EXCEPT ![a] = z]
  BY <1>4, <1>6, UpdatedTwice, Zenon
<1> QED BY <1>3, <1>7 DEF Enters

LEMMA SetsTodoHeldEnters ==
    ASSUME Shape, NEW a \in Actors, NEW x, x = actor[a], NEW p, NEW t, NEW h, SetsTodoHeld(a, p, t, h)
    PROVE  Enters(a, p, x.op, x.schedule, t, h, x.left, x.want, x.take, x.taken)
<1>1. IsRecord(x) /\ a \in DOMAIN actor /\ actor = [b \in DOMAIN actor |-> actor[b]]
  BY DEF Shape, ActorOK
<1> PICK f, g, y, z, q :
        /\ f = [actor EXCEPT ![a].pc = p] /\ g = [f EXCEPT ![a].todo = t]
        /\ y = [x EXCEPT !.pc = p] /\ z = [y EXCEPT !.todo = t] /\ q = [z EXCEPT !.held = h]
  OBVIOUS
<1>2. y = ActorRecord(p, x.op, x.schedule, x.todo, x.held, x.left, x.want, x.take, x.taken)
  BY <1>1 DEF IsRecord, ActorRecord
<1>3. z = ActorRecord(p, x.op, x.schedule, t, x.held, x.left, x.want, x.take, x.taken)
  BY <1>2 DEF ActorRecord
<1>4. q = ActorRecord(p, x.op, x.schedule, t, h, x.left, x.want, x.take, x.taken)
  BY <1>3 DEF ActorRecord
<1>5. f = [actor EXCEPT ![a] = y] /\ f[a] = y
  BY <1>1
<1>6. g = [f EXCEPT ![a] = z]
  BY <1>5
<1>7. g = [actor EXCEPT ![a] = z]
  BY <1>5, <1>6, UpdatedTwice, Zenon
<1>8. g[a] = z
  BY <1>1, <1>7
<1>9. actor' = [g EXCEPT ![a].held = h]
  BY DEF SetsTodoHeld
<1>10. actor' = [g EXCEPT ![a] = q]
  BY <1>8, <1>9
<1>11. actor' = [actor EXCEPT ![a] = q]
  BY <1>7, <1>10, UpdatedTwice, Zenon
<1> QED BY <1>4, <1>11 DEF Enters

LEMMA SetsOpWantEnters ==
    ASSUME Shape, NEW a \in Actors, NEW x, x = actor[a], NEW p, NEW o, NEW w, SetsOpWant(a, p, o, w)
    PROVE  Enters(a, p, o, x.schedule, x.todo, x.held, x.left, w, x.take, x.taken)
<1>1. IsRecord(x) /\ a \in DOMAIN actor /\ actor = [b \in DOMAIN actor |-> actor[b]]
  BY DEF Shape, ActorOK
<1> PICK f, g, y, z, q :
        /\ f = [actor EXCEPT ![a].pc = p] /\ g = [f EXCEPT ![a].op = o]
        /\ y = [x EXCEPT !.pc = p] /\ z = [y EXCEPT !.op = o] /\ q = [z EXCEPT !.want = w]
  OBVIOUS
<1>2. y = ActorRecord(p, x.op, x.schedule, x.todo, x.held, x.left, x.want, x.take, x.taken)
  BY <1>1 DEF IsRecord, ActorRecord
<1>3. z = ActorRecord(p, o, x.schedule, x.todo, x.held, x.left, x.want, x.take, x.taken)
  BY <1>2 DEF ActorRecord
<1>4. q = ActorRecord(p, o, x.schedule, x.todo, x.held, x.left, w, x.take, x.taken)
  BY <1>3 DEF ActorRecord
<1>5. f = [actor EXCEPT ![a] = y] /\ f[a] = y
  BY <1>1
<1>6. g = [f EXCEPT ![a] = z]
  BY <1>5
<1>7. g = [actor EXCEPT ![a] = z]
  BY <1>5, <1>6, UpdatedTwice, Zenon
<1>8. g[a] = z
  BY <1>1, <1>7
<1>9. actor' = [g EXCEPT ![a].want = w]
  BY DEF SetsOpWant
<1>10. actor' = [g EXCEPT ![a] = q]
  BY <1>8, <1>9
<1>11. actor' = [actor EXCEPT ![a] = q]
  BY <1>7, <1>10, UpdatedTwice, Zenon
<1> QED BY <1>4, <1>11 DEF Enters

LEMMA SetsTakeWantEnters ==
    ASSUME Shape, NEW a \in Actors, NEW x, x = actor[a], NEW p, NEW k, NEW w, SetsTakeWant(a, p, k, w)
    PROVE  Enters(a, p, x.op, x.schedule, x.todo, x.held, x.left, w, k, x.taken)
<1>1. IsRecord(x) /\ a \in DOMAIN actor /\ actor = [b \in DOMAIN actor |-> actor[b]]
  BY DEF Shape, ActorOK
<1> PICK f, g, y, z, q :
        /\ f = [actor EXCEPT ![a].pc = p] /\ g = [f EXCEPT ![a].take = k]
        /\ y = [x EXCEPT !.pc = p] /\ z = [y EXCEPT !.take = k] /\ q = [z EXCEPT !.want = w]
  OBVIOUS
<1>2. y = ActorRecord(p, x.op, x.schedule, x.todo, x.held, x.left, x.want, x.take, x.taken)
  BY <1>1 DEF IsRecord, ActorRecord
<1>3. z = ActorRecord(p, x.op, x.schedule, x.todo, x.held, x.left, x.want, k, x.taken)
  BY <1>2 DEF ActorRecord
<1>4. q = ActorRecord(p, x.op, x.schedule, x.todo, x.held, x.left, w, k, x.taken)
  BY <1>3 DEF ActorRecord
<1>5. f = [actor EXCEPT ![a] = y] /\ f[a] = y
  BY <1>1
<1>6. g = [f EXCEPT ![a] = z]
  BY <1>5
<1>7. g = [actor EXCEPT ![a] = z]
  BY <1>5, <1>6, UpdatedTwice, Zenon
<1>8. g[a] = z
  BY <1>1, <1>7
<1>9. actor' = [g EXCEPT ![a].want = w]
  BY DEF SetsTakeWant
<1>10. actor' = [g EXCEPT ![a] = q]
  BY <1>8, <1>9
<1>11. actor' = [actor EXCEPT ![a] = q]
  BY <1>7, <1>10, UpdatedTwice, Zenon
<1> QED BY <1>4, <1>11 DEF Enters

\* The record of an actor that goes on.
GoesOn(p, o, s, t, h, l, w, k, n) ==
    /\ p \in Pcs \ {"idle", "events"} /\ o \in Ops /\ s \in Schedules \cup {None}
    /\ t \subseteq Read /\ h \subseteq Read /\ l \subseteq Schedules
    /\ w \in Nat /\ k \in Nat /\ n \in Nat
    /\ Stage(p, o, w, k, n)

LEMMA RecordReaches ==
    ASSUME Shape, NEW a \in Actors,
           NEW p, NEW o, NEW s, NEW t, NEW h, NEW l, NEW w, NEW k, NEW n,
           GoesOn(p, o, s, t, h, l, w, k, n), Enters(a, p, o, s, t, h, l, w, k, n)
    PROVE  /\ Reaches(a, ActorRecord(p, o, s, t, h, l, w, k, n))
           /\ p \notin Claiming => Leads(a)
<1> PICK r : r = ActorRecord(p, o, s, t, h, l, w, k, n)
  OBVIOUS
<1>1. Stands(a, r)
  BY ActorUpdated DEF Enters
<1>2. /\ r.pc = p /\ r.op = o /\ r.schedule = s /\ r.todo = t /\ r.held = h /\ r.left = l
      /\ r.want = w /\ r.take = k /\ r.taken = n
  BY DEF ActorRecord
<1>3. ActorOK(r)
  BY <1>2 DEF ActorOK, IsRecord, GoesOn
<1> QED BY <1>1, <1>2, <1>3 DEF Reaches, GoesOn, Leads

LEMMA WorkerReaches ==
    ASSUME Shape, NEW a \in Actors, Worker(a)
    PROVE  \E r : Reaches(a, r)
<1> PICK x : x = actor[a]
  OBVIOUS
<1>1. ActorOK(x) /\ IsRecord(x)
  BY DEF Shape, ActorOK
<1>2. CASE Requeue(a)
  <2>1. Goto(a, "claim") /\ x = Idle
    BY <1>1, <1>2 DEF Requeue, At, ActorOK
  <2>2. Stage("claim", x.op, x.want, x.take, x.taken)
    BY <2>1 DEF Idle, Stage, Unwinds, None
  <2>3. "claim" \in Pcs \ Claiming
    BY DEF Pcs, Claiming
  <2> QED BY <2>1, <2>2, <2>3, GotoLeads DEF Leads
<1>3. CASE ClaimDueEvents(a)
  <2> PICK due : due = {e \in Rows(Schedules, {"pending"}) : e.month <= elapsed}
    OBVIOUS
  <2>1. CASE due = {}
    BY <1>3, <2>1, DoneReaches DEF ClaimDueEvents
  <2>2. CASE due # {}
    <3>1. due \subseteq Read
      BY RowsAreRead
    <3>2. x.pc = "claim"
      BY <1>3 DEF ClaimDueEvents, At
    <3>3. SetsTodo(a, "recognize", due)
      BY <1>3, <2>2 DEF ClaimDueEvents, SetsTodo
    <3>4. Enters(a, "recognize", x.op, x.schedule, due, x.held, x.left, x.want, x.take, x.taken)
      BY <3>3, SetsTodoEnters
    <3>5. GoesOn("recognize", x.op, x.schedule, due, x.held, x.left, x.want, x.take, x.taken)
      BY <1>1, <3>1, <3>2 DEF ActorOK, GoesOn, Stage, Pcs, Resting, Claiming, Unwinds
    <3> QED BY <3>4, <3>5, RecordReaches
  <2> QED BY <2>1, <2>2
<1>4. ASSUME NEW pc \in {"mark", "markFailed"}, NEW e \in x.todo, x.pc = "recognize",
             SetsHeld(a, pc, {e})
      PROVE  \E r : Reaches(a, r)
  <2>1. Enters(a, pc, x.op, x.schedule, x.todo, {e}, x.left, x.want, x.take, x.taken)
    BY <1>4, SetsHeldEnters
  <2>2. GoesOn(pc, x.op, x.schedule, x.todo, {e}, x.left, x.want, x.take, x.taken)
    BY <1>1, <1>4 DEF ActorOK, GoesOn, Stage, Pcs, Resting, Claiming, Unwinds
  <2> QED BY <2>1, <2>2, RecordReaches
<1>5. CASE RecordRecognition(a)
  BY <1>4, <1>5 DEF RecordRecognition, At, SetsHeld
<1>6. CASE RecognitionFails(a)
  BY <1>4, <1>6 DEF RecognitionFails, At, SetsHeld
<1>7. ASSUME GoOn(a), x.pc \in {"mark", "markFailed"}
      PROVE  \E r : Reaches(a, r)
  <2>1. CASE x.todo = x.held
    BY <1>7, <2>1, DoneReaches DEF GoOn
  <2>2. CASE x.todo # x.held
    <3>1. SetsTodoHeld(a, "recognize", x.todo \ x.held, {})
      BY <1>7, <2>2 DEF GoOn, SetsTodoHeld, Shape
    <3>2. Enters(a, "recognize", x.op, x.schedule, x.todo \ x.held, {}, x.left, x.want, x.take, x.taken)
      BY <3>1, SetsTodoHeldEnters
    <3>3. GoesOn("recognize", x.op, x.schedule, x.todo \ x.held, {}, x.left, x.want, x.take, x.taken)
      BY <1>1, <1>7 DEF ActorOK, GoesOn, Stage, Pcs, Resting, Claiming, Unwinds
    <3> QED BY <3>2, <3>3, RecordReaches
  <2> QED BY <2>1, <2>2
<1>8. CASE MarkEventRecognized(a)
  BY <1>7, <1>8 DEF MarkEventRecognized, At
<1>9. CASE MarkEventFailed(a)
  BY <1>7, <1>9 DEF MarkEventFailed, At
<1> QED BY <1>2, <1>3, <1>5, <1>6, <1>8, <1>9 DEF Worker

LEMMA BillingLeads ==
    ASSUME Shape, NEW a \in Actors, Billing(a), actor' # actor
    PROVE  Leads(a)
<1> PICK x : x = actor[a]
  OBVIOUS
<1>1. ActorOK(x) /\ IsRecord(x)
  BY DEF Shape, ActorOK
<1>2. ASSUME x.pc \in {"idle", "recover", "check", "consume", "insert", "events"}
      PROVE  x.op = None /\ \A p \in Pcs \ Resting : Stage(p, x.op, x.want, x.take, x.taken)
  BY <1>1, <1>2 DEF ActorOK, Stage, Resting, Unwinds, None
<1>3. {"recover", "check", "consume", "insert", "events"} \subseteq Pcs \ (Resting \cup Claiming)
  BY DEF Pcs, Resting, Unwinds, Claiming
<1>4. CASE Issue(a)
  <2>1. Goto(a, "check") /\ x.pc = "idle"
    BY <1>4 DEF Issue, At
  <2> QED BY <1>2, <1>3, <2>1, GotoLeads
<1>5. CASE Settle(a)
  <2>1. x.pc = "idle" /\ \E pc \in {"recover", "check"} : Goto(a, pc)
    BY <1>5 DEF Settle, At
  <2> QED BY <1>2, <1>3, <2>1, GotoLeads
<1>6. CASE RecordWriteOffRecovery(a)
  <2>1. Goto(a, "check") /\ x.pc = "recover"
    BY <1>6 DEF RecordWriteOffRecovery, At
  <2> QED BY <1>2, <1>3, <2>1, GotoLeads
<1>7. CASE CheckSchedule(a)
  <2>1. x.pc = "check" /\ (Done(a) \/ Goto(a, "consume"))
    BY <1>7 DEF CheckSchedule, At
  <2> QED BY <1>2, <1>3, <2>1, GotoLeads, DoneLeads
<1>8. CASE ConsumeScheduleDebt(a)
  <2>1. CASE debt >= Net
    BY <1>8, <2>1, DoneLeads DEF ConsumeScheduleDebt
  <2>2. CASE ~(debt >= Net)
    <3>1. x.pc = "consume" /\ SetsWant(a, "insert", Net - debt)
      BY <1>8, <2>2 DEF ConsumeScheduleDebt, At, SetsWant
    <3>2. Enters(a, "insert", x.op, x.schedule, x.todo, x.held, x.left, Net - debt, x.take, x.taken)
      BY <3>1, SetsWantEnters
    <3>3. Net - debt \in Nat
      BY <2>2, RecognitionAssumption DEF Shape
    <3>4. GoesOn("insert", x.op, x.schedule, x.todo, x.held, x.left, Net - debt, x.take, x.taken)
      BY <1>1, <1>2, <1>3, <3>1, <3>3 DEF ActorOK, GoesOn, Stage, Resting, Unwinds, None
    <3> QED BY <3>2, <3>4, RecordReaches DEF Claiming
  <2> QED BY <2>1, <2>2
<1>9. CASE CreateSchedule(a)
  <2>1. PICK s \in Schedules :
            /\ schedule[s] = None /\ schedule' = [schedule EXCEPT ![s] = "active"]
            /\ SetsSchedule(a, "events", s)
    BY <1>9 DEF CreateSchedule, SetsSchedule
  <2>2. x.pc = "insert"
    BY <1>9 DEF CreateSchedule, At
  <2> PICK r : r = ActorRecord("events", x.op, s, x.todo, x.held, x.left, x.want, x.take, x.taken)
    OBVIOUS
  <2>3. Enters(a, "events", x.op, s, x.todo, x.held, x.left, x.want, x.take, x.taken)
    BY <2>1, SetsScheduleEnters
  <2>4. Stands(a, r)
    BY <2>3, ActorUpdated DEF Enters
  <2>5. /\ r.pc = "events" /\ r.op = x.op /\ r.schedule = s /\ r.todo = x.todo /\ r.held = x.held
        /\ r.left = x.left /\ r.want = x.want /\ r.take = x.take /\ r.taken = x.taken
    BY DEF ActorRecord
  <2>6. ActorOK(r)
    <3>1. Stage(r.pc, r.op, r.want, r.take, r.taken) /\ r.pc \in Pcs /\ r.pc # "idle"
      BY <1>2, <1>3, <2>2, <2>5 DEF Resting
    <3>2. IsRecord(r)
      BY DEF IsRecord, ActorRecord
    <3>3. /\ r.op \in Ops /\ r.schedule \in Schedules \cup {None}
          /\ r.todo \subseteq Read /\ r.held \subseteq Read /\ r.left \subseteq Schedules
          /\ r.want \in Nat /\ r.take \in Nat /\ r.taken \in Nat
      BY <1>1, <2>5 DEF ActorOK
    <3> QED BY <3>1, <3>2, <3>3 DEF ActorOK
  <2> QED BY <2>1, <2>4, <2>5, <2>6 DEF Reaches, Leads, Claiming
<1>10. CASE CreateEvents(a)
  BY <1>10, DoneLeads DEF CreateEvents
<1> QED BY <1>4, <1>5, <1>6, <1>7, <1>8, <1>9, <1>10 DEF Billing

LEMMA RecordOf ==
    ASSUME NEW p \in Unwinds, NEW o, NEW s, NEW t, NEW h, NEW l, NEW w, NEW k, NEW n, NEW r,
           r = ActorRecord(p, o, s, t, h, l, w, k, n), GoesOn(p, o, s, t, h, l, w, k, n)
    PROVE  ActorOK(r) /\ r.pc \in Resting
BY DEF ActorRecord, ActorOK, IsRecord, GoesOn, Resting

LEMMA OKLeads ==
    ASSUME Shape, NEW a \in Actors, NEW r, ActorOK(r), r.pc \in Resting,
           actor' = [actor EXCEPT ![a] = r]
    PROVE  Leads(a)
<1>1. Stands(a, r)
  BY ActorUpdated
<1> QED BY <1>1 DEF Reaches, Leads, Resting, Unwinds, Claiming

LEMMA ContinueOK ==
    ASSUME Shape, NEW a \in Actors, NEW left \in SUBSET Schedules, NEW taken \in Nat,
           actor[a].op \in {"refund", "downgrade"} => taken <= actor[a].want,
           actor[a].pc \in Unwinds \ {"read", "writeOff"}
    PROVE  ActorOK(Continue(a, left, taken)) /\ Continue(a, left, taken).pc \in Resting
<1> PICK x, r : x = actor[a] /\ r = Continue(a, left, taken)
  OBVIOUS
<1>1. ActorOK(x) /\ IsRecord(x) /\ x.op \in {"cancel", "refund", "downgrade", "writeOff"}
  BY StageOps DEF Shape, ActorOK
<1>2. CASE left # {}
  <2>1. r = [x EXCEPT !.pc = "list", !.left = left, !.taken = taken, !.schedule = None, !.todo = {}]
    BY <1>2 DEF Continue
  <2>2. r = ActorRecord("list", x.op, None, {}, x.held, left, x.want, x.take, taken)
    BY <1>1, <2>1 DEF IsRecord, ActorRecord
  <2>3. Stage("list", x.op, x.want, x.take, taken) /\ "list" \in Unwinds \cap Pcs
    BY <1>1 DEF Stage, Unwinds, Pcs, Resting, None
  <2>4. GoesOn("list", x.op, None, {}, x.held, left, x.want, x.take, taken)
    BY <1>1, <2>3 DEF GoesOn, ActorOK
  <2> QED BY <2>2, <2>3, <2>4, RecordOf
<1>3. CASE left = {} /\ x.op # "downgrade"
  BY <1>3, IdleOK DEF Continue, Resting
<1>4. CASE left = {} /\ x.op = "downgrade"
  <2> PICK pc : pc = (IF taken = x.want THEN "credit" ELSE "recognized")
    OBVIOUS
  <2>1. r = [Idle EXCEPT !.pc = pc, !.op = "downgrade", !.want = x.want, !.take = x.want - taken]
    BY <1>4 DEF Continue
  <2>2. r = ActorRecord(pc, "downgrade", None, {}, {}, {}, x.want, x.want - taken, 0)
    BY <2>1 DEF Idle, ActorRecord
  <2>3. Stage(pc, "downgrade", x.want, x.want - taken, 0) /\ pc \in Unwinds \cap (Pcs \ {"idle", "events"})
    BY DEF Stage, Unwinds, Pcs, Resting, None
  <2>4. x.want \in Nat /\ x.want - taken \in Nat
    BY <1>1, <1>4 DEF ActorOK
  <2>5. GoesOn(pc, "downgrade", None, {}, {}, {}, x.want, x.want - taken, 0)
    BY <1>1, <2>3, <2>4 DEF GoesOn, ActorOK, Ops
  <2> QED BY <2>2, <2>3, <2>5, RecordOf
<1> QED BY <1>2, <1>3, <1>4

\* A sum of natural amounts is natural.
LEMMA SumOverNat ==
    ASSUME NEW D, IsFiniteSet(D), NEW f, DOMAIN f = D, \A d \in D : f[d] \in Nat
    PROVE  SumOver(f) \in Nat
<1>1. SumOver(f) = SumFunctionOnSet(f, D)
  BY Zenon DEF SumOver, FoldFunction, SumFunctionOnSet
<1> QED BY <1>1, SumNat

LEMMA AmountNat ==
    ASSUME Shape, NEW s \in Schedules, NEW statuses
    PROVE  Amount(s, statuses) \in Nat
<1> PICK f : f = [m \in 1..Months |-> IF event[s][m].status \in statuses THEN event[s][m].amount ELSE 0]
  OBVIOUS
<1>1. \A m \in 1..Months : event[s][m] \in Event
  BY DEF Shape
<1>2. \A m \in 1..Months : f[m] \in Nat
  BY <1>1 DEF Event
<1>3. IsFiniteSet(1..Months)
  BY FS_Interval, RecognitionAssumption
<1>4. SumOver(f) \in Nat
  BY <1>2, <1>3, SumOverNat
<1> QED BY <1>4 DEF Amount

LEMMA RecognizedNat == ASSUME Shape PROVE Recognized \in Nat
<1> PICK f : f = [s \in Schedules |-> Amount(s, {"recognized"})]
  OBVIOUS
<1>1. \A s \in Schedules : f[s] \in Nat
  BY AmountNat
<1>2. SumOver(f) \in Nat
  BY <1>1, SumOverNat, RecognitionAssumption
<1> QED BY <1>2 DEF Recognized

LEMMA UnwindingLeads ==
    ASSUME Shape, NEW a \in Actors, Unwinding(a)
    PROVE  Leads(a)
<1> PICK x : x = actor[a]
  OBVIOUS
<1>1. ActorOK(x) /\ IsRecord(x)
  BY DEF Shape, ActorOK
<1>0. x.pc \in Unwinds => x.op \in {"cancel", "refund", "downgrade", "writeOff"}
  BY <1>1, StageOps
<1>2. ASSUME NEW op \in {"cancel", "refund", "downgrade", "writeOff"}, NEW pc, NEW want,
             Request(a, op, pc, want), want \in Nat,
             pc = IF op = "writeOff" THEN "read" ELSE "find"
      PROVE  Leads(a)
  <2>1. x = Idle
    BY <1>1, <1>2 DEF Request, At, ActorOK
  <2>2. SetsOpWant(a, pc, op, want)
    BY <1>2 DEF Request, SetsOpWant
  <2>3. Enters(a, pc, op, x.schedule, x.todo, x.held, x.left, want, x.take, x.taken)
    BY <2>2, SetsOpWantEnters
  <2>4. GoesOn(pc, op, x.schedule, x.todo, x.held, x.left, want, x.take, x.taken)
    BY <1>2, <2>1 DEF GoesOn, Idle, Stage, Pcs, Resting, Unwinds, Ops, None
  <2>5. pc \notin Claiming
    BY <1>2 DEF Claiming
  <2> QED BY <2>3, <2>4, <2>5, RecordReaches
<1>3. CASE Cancel(a)
  BY <1>2, <1>3 DEF Cancel
<1>4. CASE Refund(a)
  BY <1>2, <1>4 DEF Refund
<1>5. CASE Downgrade(a)
  BY <1>2, <1>5, RecognitionAssumption DEF Downgrade
<1>6. CASE WriteOff(a)
  BY <1>2, <1>6 DEF WriteOff
<1>7. CASE ReadRecognized(a)
  <2> PICK w, k : w = Net - Least(Recognized, Net) /\ k = Recognized
    OBVIOUS
  <2>0. k \in Nat /\ w \in Nat /\ w <= Net
    BY RecognizedNat, RecognitionAssumption DEF Least
  <2>1. SetsTakeWant(a, "writeOff", k, w) /\ x.pc = "read"
    BY <1>7 DEF ReadRecognized, SetsTakeWant, At
  <2>2. Enters(a, "writeOff", x.op, x.schedule, x.todo, x.held, x.left, w, k, x.taken)
    BY <2>1, SetsTakeWantEnters
  <2>3. GoesOn("writeOff", x.op, x.schedule, x.todo, x.held, x.left, w, k, x.taken)
    BY <1>1, <2>0, <2>1 DEF GoesOn, ActorOK, Stage, Pcs, Resting, Unwinds
  <2> QED BY <2>2, <2>3, RecordReaches DEF Claiming
<1>8. CASE RecordInvoiceWriteOff(a)
  <2>1. x.pc = "writeOff" /\ Goto(a, "find")
    BY <1>8 DEF RecordInvoiceWriteOff, At
  <2>2. Stage("find", x.op, x.want, x.take, x.taken)
    BY <1>1, <2>1 DEF ActorOK, Stage, Unwinds
  <2>3. "find" \in Pcs \ Claiming
    BY DEF Pcs, Resting, Unwinds, Claiming
  <2> QED BY <2>1, <2>2, <2>3, GotoLeads
<1>9. ASSUME NEW left \in SUBSET Schedules, NEW taken \in Nat,
             x.op \in {"refund", "downgrade"} => taken <= x.want,
             x.pc \in {"find", "list", "remove", "close", "post"},
             actor' = [actor EXCEPT ![a] = Continue(a, left, taken)]
      PROVE  Leads(a)
  BY <1>9, ContinueOK, OKLeads DEF Unwinds
<1>10. CASE FindSchedules(a)
  <2>1. PICK left \in SUBSET Active : actor' = [actor EXCEPT ![a] = Continue(a, left, 0)]
    BY <1>10 DEF FindSchedules
  <2>2. x.pc = "find" /\ left \in SUBSET Schedules
    BY <1>10 DEF FindSchedules, At, Active
  <2>3. 0 \in Nat /\ 0 <= x.want
    BY <1>1 DEF ActorOK
  <2> QED BY <1>9, <2>1, <2>2, <2>3
<1>11. CASE ListPending(a)
  <2>1. x.pc = "list"
    BY <1>11 DEF ListPending, At
  <2>2. PICK s, seen :
            /\ s \in x.left
            /\ seen = [x EXCEPT !.schedule = s, !.left = @ \ {s},
                                !.take = IF Sweeps(a) THEN @ ELSE x.want - x.taken,
                                !.taken = IF x.op = "cancel" THEN 0 ELSE @]
            /\ \/ actor' = [actor EXCEPT ![a] = [seen EXCEPT !.pc = "remove", !.todo = Rows({s}, {"pending"})]]
               \/ actor' = [actor EXCEPT ![a] = [seen EXCEPT !.pc = "close"]]
               \/ actor' = [actor EXCEPT ![a] = Continue(a, x.left \ {s}, x.taken)]
    BY <1>11 DEF ListPending
  <2> PICK k, n : /\ k = (IF Sweeps(a) THEN x.take ELSE x.want - x.taken)
                  /\ n = (IF x.op = "cancel" THEN 0 ELSE x.taken)
    OBVIOUS
  <2>9. x.want \in Nat /\ x.take \in Nat /\ x.taken \in Nat /\ x.left \ {s} \in SUBSET Schedules
    BY <1>1 DEF ActorOK
  <2>10. x.op \in {"refund", "downgrade"} => x.taken <= x.want
    BY <1>1, <2>1 DEF ActorOK, Stage
  <2>3. k \in Nat /\ n \in Nat /\ (x.op \in {"refund", "downgrade"} => n <= x.want /\ k + n = x.want)
    BY <1>0, <2>1, <2>9, <2>10 DEF Sweeps, Unwinds
  <2>4. seen = ActorRecord(x.pc, x.op, s, x.todo, x.held, x.left \ {s}, x.want, k, n)
    BY <1>1, <2>2 DEF IsRecord, ActorRecord
  <2>5. Rows({s}, {"pending"}) \subseteq Read
    BY <1>1, <2>2, RowsAreRead DEF ActorOK
  <2>6. CASE actor' = [actor EXCEPT ![a] = [seen EXCEPT !.pc = "remove", !.todo = Rows({s}, {"pending"})]]
    <3> PICK t, r : t = Rows({s}, {"pending"}) /\ r = [seen EXCEPT !.pc = "remove", !.todo = t]
      OBVIOUS
    <3>1. r = ActorRecord("remove", x.op, s, t, x.held, x.left \ {s}, x.want, k, n)
      BY <2>4 DEF ActorRecord
    <3>2. Stage("remove", x.op, x.want, k, n) /\ "remove" \in Unwinds \cap Pcs
      BY <1>1, <2>1, <2>3 DEF ActorOK, Stage, Pcs, Resting, Unwinds
    <3>4. GoesOn("remove", x.op, s, t, x.held, x.left \ {s}, x.want, k, n)
      BY <1>1, <2>2, <2>3, <2>5, <2>9, <3>2 DEF GoesOn, ActorOK
    <3>3. ActorOK(r) /\ r.pc \in Resting
      BY <3>1, <3>2, <3>4, RecordOf
    <3> QED BY <2>6, <3>3, OKLeads
  <2>7. CASE actor' = [actor EXCEPT ![a] = [seen EXCEPT !.pc = "close"]]
    <3> PICK r : r = [seen EXCEPT !.pc = "close"]
      OBVIOUS
    <3>1. r = ActorRecord("close", x.op, s, x.todo, x.held, x.left \ {s}, x.want, k, n)
      BY <2>4 DEF ActorRecord
    <3>2. Stage("close", x.op, x.want, k, n) /\ "close" \in Unwinds \cap Pcs
      BY <1>1, <2>1, <2>3 DEF ActorOK, Stage, Pcs, Resting, Unwinds
    <3>4. GoesOn("close", x.op, s, x.todo, x.held, x.left \ {s}, x.want, k, n)
      BY <1>1, <2>2, <2>3, <2>9, <3>2 DEF GoesOn, ActorOK
    <3>3. ActorOK(r) /\ r.pc \in Resting
      BY <3>1, <3>2, <3>4, RecordOf
    <3> QED BY <2>7, <3>3, OKLeads
  <2>8. CASE actor' = [actor EXCEPT ![a] = Continue(a, x.left \ {s}, x.taken)]
    BY <1>9, <2>1, <2>8, <2>9, <2>10
  <2> QED BY <2>2, <2>6, <2>7, <2>8
<1>12. CASE RemoveEvent(a)
  <2>1. x.pc = "remove"
    BY <1>12 DEF RemoveEvent, At
  <2>2. PICK e \in Latest(actor[a].todo) :
            LET me == actor[a]
                cut == IF Sweeps(a) THEN e.amount ELSE Least(me.take, e.amount)
                todo == me.todo \ {e}
                on == [me EXCEPT !.todo = todo, !.take = IF Sweeps(a) THEN @ ELSE @ - cut,
                                 !.taken = @ + cut]
                whole == Sweeps(a) \/ (me.op = "refund" /\ cut = e.amount /\ \A f \in todo : f.amount = 0)
            IN actor' = [actor EXCEPT ![a] =
                     IF todo # {} /\ (Sweeps(a) \/ on.take > 0) THEN on
                     ELSE IF whole THEN [on EXCEPT !.pc = "close", !.todo = {}]
                     ELSE IF me.op = "refund" THEN [on EXCEPT !.pc = "post", !.todo = {}]
                     ELSE Continue(a, IF on.take = 0 THEN {} ELSE me.left, on.taken)]
    BY <1>12, Zenon DEF RemoveEvent
  <2> PICK cut, todo : /\ cut = (IF Sweeps(a) THEN e.amount ELSE Least(x.take, e.amount))
                       /\ todo = x.todo \ {e}
    OBVIOUS
  <2> PICK on : on = [x EXCEPT !.todo = todo, !.take = IF Sweeps(a) THEN x.take ELSE x.take - cut,
                              !.taken = x.taken + cut]
    OBVIOUS
  <2>3. actor' = [actor EXCEPT ![a] =
            IF todo # {} /\ (Sweeps(a) \/ on.take > 0) THEN on
            ELSE IF Sweeps(a) \/ (x.op = "refund" /\ cut = e.amount /\ \A f \in todo : f.amount = 0)
                 THEN [on EXCEPT !.pc = "close", !.todo = {}]
            ELSE IF x.op = "refund" THEN [on EXCEPT !.pc = "post", !.todo = {}]
            ELSE Continue(a, IF on.take = 0 THEN {} ELSE x.left, on.taken)]
    BY <2>2, SMTT(60)
  <2>4. /\ e \in x.todo
        /\ \/ actor' = [actor EXCEPT ![a] = on]
           \/ actor' = [actor EXCEPT ![a] = [on EXCEPT !.pc = "close", !.todo = {}]]
           \/ /\ x.op = "refund"
              /\ actor' = [actor EXCEPT ![a] = [on EXCEPT !.pc = "post", !.todo = {}]]
           \/ \E left \in {{}, x.left} : actor' = [actor EXCEPT ![a] = Continue(a, left, on.taken)]
    BY <2>2, <2>3, Zenon DEF Latest
  <2> PICK k, n : k = (IF Sweeps(a) THEN x.take ELSE x.take - cut) /\ n = x.taken + cut
    OBVIOUS
  <2>5. e.amount \in Nat /\ x.take \in Nat /\ x.taken \in Nat /\ x.want \in Nat
    BY <1>1, <2>4 DEF ActorOK, Read
  <2>12. k \in Nat /\ n \in Nat /\ (~Sweeps(a) => k + n = x.take + x.taken)
    BY <2>4, <2>5 DEF Least
  <2>13. x.op \in {"refund", "downgrade"} => k + n = x.want /\ n <= x.want
    BY <1>1, <2>1, <2>5, <2>12 DEF ActorOK, Stage, Sweeps
  <2>6. /\ Stage("remove", x.op, x.want, k, n) /\ Stage("close", x.op, x.want, k, n)
        /\ x.op = "refund" => Stage("post", x.op, x.want, k, n)
        /\ {"remove", "close", "post"} \subseteq Unwinds \cap (Pcs \ {"idle", "events"})
    BY <1>1, <2>1, <2>13 DEF ActorOK, Stage, Pcs, Resting, Unwinds
  <2>14. /\ x.op \in Ops /\ x.schedule \in Schedules \cup {None} /\ x.left \subseteq Schedules
         /\ todo \subseteq Read /\ x.held \subseteq Read
    BY <1>1, <2>4 DEF ActorOK
  <2>7. on = ActorRecord(x.pc, x.op, x.schedule, todo, x.held, x.left, x.want, k, n)
    BY <1>1, <2>4 DEF IsRecord, ActorRecord
  <2>8. CASE actor' = [actor EXCEPT ![a] = on]
    <3>1. Enters(a, "remove", x.op, x.schedule, todo, x.held, x.left, x.want, k, n)
      BY <2>1, <2>7, <2>8 DEF Enters
    <3>2. GoesOn("remove", x.op, x.schedule, todo, x.held, x.left, x.want, k, n)
      BY <2>5, <2>6, <2>12, <2>14 DEF GoesOn
    <3> QED BY <3>1, <3>2, RecordReaches DEF Claiming
  <2>9. CASE actor' = [actor EXCEPT ![a] = [on EXCEPT !.pc = "close", !.todo = {}]]
    <3> PICK r : r = [on EXCEPT !.pc = "close", !.todo = {}]
      OBVIOUS
    <3>1. r = ActorRecord("close", x.op, x.schedule, {}, x.held, x.left, x.want, k, n)
      BY <2>7, ZenonT(60) DEF ActorRecord
    <3>2. actor' = [actor EXCEPT ![a] = r]
      BY <2>9
    <3>3. Enters(a, "close", x.op, x.schedule, {}, x.held, x.left, x.want, k, n)
      BY <3>1, <3>2 DEF Enters
    <3>4. GoesOn("close", x.op, x.schedule, {}, x.held, x.left, x.want, k, n)
      BY <2>5, <2>6, <2>12, <2>14 DEF GoesOn
    <3> QED BY <3>3, <3>4, RecordReaches DEF Claiming
  <2>10. CASE x.op = "refund" /\ actor' = [actor EXCEPT ![a] = [on EXCEPT !.pc = "post", !.todo = {}]]
    <3> PICK r : r = [on EXCEPT !.pc = "post", !.todo = {}]
      OBVIOUS
    <3>1. r = ActorRecord("post", x.op, x.schedule, {}, x.held, x.left, x.want, k, n)
      BY <2>7, ZenonT(60) DEF ActorRecord
    <3>2. actor' = [actor EXCEPT ![a] = r]
      BY <2>10
    <3>3. Enters(a, "post", x.op, x.schedule, {}, x.held, x.left, x.want, k, n)
      BY <3>1, <3>2 DEF Enters
    <3>4. GoesOn("post", x.op, x.schedule, {}, x.held, x.left, x.want, k, n)
      BY <2>5, <2>6, <2>10, <2>12, <2>14 DEF GoesOn
    <3> QED BY <3>3, <3>4, RecordReaches DEF Claiming
  <2>11. CASE \E left \in {{}, x.left} : actor' = [actor EXCEPT ![a] = Continue(a, left, on.taken)]
    <3>1. PICK left \in {{}, x.left} : actor' = [actor EXCEPT ![a] = Continue(a, left, on.taken)]
      BY <2>11
    <3>2. left \in SUBSET Schedules /\ on.taken = n
      BY <2>7, <2>14, <3>1 DEF ActorRecord
    <3> QED BY <1>9, <2>1, <2>12, <2>13, <3>1, <3>2
  <2> QED BY <2>4, <2>8, <2>9, <2>10, <2>11
<1>13. CASE CloseSchedule(a)
  <2>1. x.pc = "close"
    BY <1>13 DEF CloseSchedule, At
  <2>2. CASE x.op # "writeOff" /\ x.taken > 0
    <3> PICK r : r = [x EXCEPT !.pc = "post"]
      OBVIOUS
    <3>1. actor' = [actor EXCEPT ![a] = r]
      BY <1>13, <2>2 DEF CloseSchedule
    <3>2. r = ActorRecord("post", x.op, x.schedule, x.todo, x.held, x.left, x.want, x.take, x.taken)
      BY <1>1 DEF IsRecord, ActorRecord
    <3>5. Stage("post", x.op, x.want, x.take, x.taken) /\ "post" \in Unwinds \cap Pcs
      BY <1>1, <2>1, <2>2 DEF ActorOK, Stage, Pcs, Resting, Unwinds
    <3>3. GoesOn("post", x.op, x.schedule, x.todo, x.held, x.left, x.want, x.take, x.taken)
      BY <1>1, <3>5 DEF GoesOn, ActorOK
    <3>4. ActorOK(r) /\ r.pc \in Resting
      BY <3>2, <3>3, <3>5, RecordOf
    <3> QED BY <3>1, <3>4, OKLeads
  <2>3. CASE ~(x.op # "writeOff" /\ x.taken > 0)
    <3>1. actor' = [actor EXCEPT ![a] = Continue(a, x.left, x.taken)]
      BY <1>13, <2>3 DEF CloseSchedule
    <3>2. /\ x.left \in SUBSET Schedules /\ x.taken \in Nat
          /\ x.op \in {"refund", "downgrade"} => x.taken <= x.want
      BY <1>1, <2>1 DEF ActorOK, Stage
    <3> QED BY <1>9, <2>1, <3>1, <3>2
  <2> QED BY <2>2, <2>3
<1>14. CASE PostUnwind(a)
  <2>1. x.pc = "post" /\ actor' = [actor EXCEPT ![a] = Continue(a, x.left, x.taken)]
    BY <1>14 DEF PostUnwind, At
  <2>2. /\ x.left \in SUBSET Schedules /\ x.taken \in Nat
        /\ x.op \in {"refund", "downgrade"} => x.taken <= x.want
    BY <1>1, <2>1 DEF ActorOK, Stage
  <2> QED BY <1>9, <2>1, <2>2
<1>15. CASE ListRecognized(a)
  <2> PICK pc, t : t = Rows(Schedules, {"recognized"}) /\ pc = (IF t = {} THEN "owe" ELSE "clawBack")
    OBVIOUS
  <2>1. SetsTodo(a, pc, t) /\ x.pc = "recognized"
    BY <1>15 DEF ListRecognized, SetsTodo, At
  <2>2. Enters(a, pc, x.op, x.schedule, t, x.held, x.left, x.want, x.take, x.taken)
    BY <2>1, SetsTodoEnters
  <2>3. t \subseteq Read
    BY RowsAreRead
  <2>5. Stage(pc, x.op, x.want, x.take, x.taken) /\ pc \in Pcs \ {"idle", "events"}
    BY <1>1, <2>1 DEF ActorOK, Stage, Pcs, Resting, Unwinds
  <2>4. GoesOn(pc, x.op, x.schedule, t, x.held, x.left, x.want, x.take, x.taken)
    BY <1>1, <2>3, <2>5 DEF GoesOn, ActorOK
  <2> QED BY <2>2, <2>4, RecordReaches DEF Claiming
<1>16. CASE ReverseRecognized(a)
  <2>1. x.pc = "clawBack"
    BY <1>16 DEF ReverseRecognized, At
  <2>2. PICK e \in Latest(actor[a].todo) :
            LET me == actor[a]
                cut == Least(me.take, e.amount)
                on == [me EXCEPT !.todo = @ \ {e}, !.take = @ - cut, !.taken = @ + cut]
            IN actor' = [actor EXCEPT ![a] =
                     IF on.take = 0 THEN [on EXCEPT !.pc = "credit", !.todo = {}]
                     ELSE IF on.todo = {} THEN [on EXCEPT !.pc = "owe"] ELSE on]
    BY <1>16, Zenon DEF ReverseRecognized
  <2> PICK cut, on :
          /\ cut = Least(x.take, e.amount)
          /\ on = [x EXCEPT !.todo = x.todo \ {e}, !.take = x.take - cut, !.taken = x.taken + cut]
          /\ actor' = [actor EXCEPT ![a] =
                 IF on.take = 0 THEN [on EXCEPT !.pc = "credit", !.todo = {}]
                 ELSE IF on.todo = {} THEN [on EXCEPT !.pc = "owe"] ELSE on]
    BY <2>2, Zenon
  <2>3. /\ e \in x.todo
        /\ \/ actor' = [actor EXCEPT ![a] = [on EXCEPT !.pc = "credit", !.todo = {}]]
           \/ actor' = [actor EXCEPT ![a] = [on EXCEPT !.pc = "owe"]]
           \/ actor' = [actor EXCEPT ![a] = on]
    BY <2>2, Zenon DEF Latest
  <2> PICK k, n : k = x.take - cut /\ n = x.taken + cut
    OBVIOUS
  <2>4. e.amount \in Nat /\ x.take \in Nat /\ x.taken \in Nat
    BY <1>1, <2>1, <2>3 DEF ActorOK, Read
  <2>5. k \in Nat /\ n \in Nat
    BY <2>3, <2>4 DEF Least
  <2>11. \A p \in {"credit", "owe", "clawBack"} :
             Stage(p, x.op, x.want, k, n) /\ p \in Pcs \ {"idle", "events"}
    BY <1>1, <2>1 DEF ActorOK, Stage, Pcs, Resting, Unwinds
  <2>6. on = ActorRecord(x.pc, x.op, x.schedule, x.todo \ {e}, x.held, x.left, x.want, k, n)
    BY <1>1, <2>3 DEF IsRecord, ActorRecord
  <2>7. \A p \in {"credit", "owe", "clawBack"}, t \in SUBSET x.todo :
            GoesOn(p, x.op, x.schedule, t, x.held, x.left, x.want, k, n)
    BY <1>1, <2>5, <2>11 DEF GoesOn, ActorOK
  <2>8. CASE actor' = [actor EXCEPT ![a] = on]
    <3>1. Enters(a, "clawBack", x.op, x.schedule, x.todo \ {e}, x.held, x.left, x.want, k, n)
      BY <2>1, <2>6, <2>8 DEF Enters
    <3>2. GoesOn("clawBack", x.op, x.schedule, x.todo \ {e}, x.held, x.left, x.want, k, n)
      BY <2>7
    <3> QED BY <3>1, <3>2, RecordReaches DEF Claiming
  <2>9. CASE actor' = [actor EXCEPT ![a] = [on EXCEPT !.pc = "credit", !.todo = {}]]
    <3> PICK r : r = [on EXCEPT !.pc = "credit", !.todo = {}]
      OBVIOUS
    <3>1. r = ActorRecord("credit", x.op, x.schedule, {}, x.held, x.left, x.want, k, n)
      BY <2>6, ZenonT(60) DEF ActorRecord
    <3>2. actor' = [actor EXCEPT ![a] = r]
      BY <2>9
    <3>3. Enters(a, "credit", x.op, x.schedule, {}, x.held, x.left, x.want, k, n)
      BY <3>1, <3>2 DEF Enters
    <3>4. GoesOn("credit", x.op, x.schedule, {}, x.held, x.left, x.want, k, n)
      BY <2>7
    <3> QED BY <3>3, <3>4, RecordReaches DEF Claiming
  <2>10. CASE actor' = [actor EXCEPT ![a] = [on EXCEPT !.pc = "owe"]]
    <3> PICK r : r = [on EXCEPT !.pc = "owe"]
      OBVIOUS
    <3>1. r = ActorRecord("owe", x.op, x.schedule, x.todo \ {e}, x.held, x.left, x.want, k, n)
      BY <2>6, ZenonT(60) DEF ActorRecord
    <3>2. actor' = [actor EXCEPT ![a] = r]
      BY <2>10
    <3>3. Enters(a, "owe", x.op, x.schedule, x.todo \ {e}, x.held, x.left, x.want, k, n)
      BY <3>1, <3>2 DEF Enters
    <3>4. GoesOn("owe", x.op, x.schedule, x.todo \ {e}, x.held, x.left, x.want, k, n)
      BY <2>7
    <3> QED BY <3>3, <3>4, RecordReaches DEF Claiming
  <2> QED BY <2>3, <2>8, <2>9, <2>10
<1>17. CASE AddScheduleDebt(a)
  <2>1. x.pc = "owe" /\ Goto(a, "credit")
    BY <1>17 DEF AddScheduleDebt, At
  <2>2. Stage("credit", x.op, x.want, x.take, x.taken) /\ "credit" \in Pcs \ Claiming
    BY <1>1, <2>1 DEF ActorOK, Stage, Pcs, Resting, Unwinds, Claiming
  <2> QED BY <2>1, <2>2, GotoLeads
<1>18. CASE RecordDowngradeCredit(a)
  BY <1>18, DoneLeads DEF RecordDowngradeCredit
<1> QED BY <1>3, <1>4, <1>5, <1>6, <1>7, <1>8, <1>10, <1>11, <1>12, <1>13, <1>14, <1>15, <1>16,
           <1>17, <1>18 DEF Unwinding

----------------------------------------------------------------------------
(* What each step leaves of the events and the schedules.                  *)

Final == {"recognized", "reversed", "failed", "canceled"}

\* From x to y, an event keeps what became of it.
Keeps(x, y) ==
    /\ x.status = None => y = x
    /\ x.status \in Final =>
           /\ y.status # x.status => x.status = "recognized" /\ y.status = "reversed"
           /\ y.amount + y.clawed = x.amount + x.clawed

EventsKept ==
    /\ event' \in [Schedules -> [1..Months -> Event]]
    /\ \A s \in Schedules, m \in 1..Months : Keeps(event[s][m], event'[s][m])

\* What a request may do to an event.
Unwound(x, y) ==
    /\ \/ y.status = x.status
       \/ x.status = "pending" /\ y.status = "canceled"
       \/ x.status = "recognized" /\ y.status = "reversed"
    /\ x.status = "processing" => y = x
    /\ x.status = "pending" => y.clawed = x.clawed
    /\ x.status \in {"recognized", "reversed"} => y.amount + y.clawed = x.amount + x.clawed
EventsUnwound == \A s \in Schedules, m \in 1..Months : Unwound(event[s][m], event'[s][m])

\* No step but the insert of a schedule's events.
Acts(a) == Worker(a) \/ Billing(a) \/ Unwinding(a) \/ Crash(a)

LEMMA Unchanged == ASSUME Shape, event' = event PROVE EventsKept /\ EventsUnwound
<1>1. \A s \in Schedules, m \in 1..Months : event[s][m] \in Event
  BY DEF Shape
<1>2. EventsKept
  BY <1>1 DEF EventsKept, Keeps, Shape, Final
<1> QED BY <1>2 DEF EventsUnwound, Unwound

LEMMA OneKept ==
    ASSUME Shape, NEW s \in Schedules, NEW m \in 1..Months, NEW y,
           Becomes(s, m, y), Keeps(event[s][m], y)
    PROVE  EventsKept /\ (Unwound(event[s][m], y) => EventsUnwound)
<1>1. \A t \in Schedules, n \in 1..Months :
          Keeps(event[t][n], event[t][n]) /\ Unwound(event[t][n], event[t][n])
  BY DEF Keeps, Final, Unwound
<1>2. EventsKept
  BY <1>1 DEF EventsKept, Becomes
<1>3. ASSUME Unwound(event[s][m], y) PROVE EventsUnwound
  BY <1>1, <1>3 DEF EventsUnwound, Becomes
<1> QED BY <1>2, <1>3

LEMMA MarkKept ==
    ASSUME Shape, NEW e \in Read, NEW from \in Statuses, NEW to \in Statuses,
           Mark(e, from, to), from \in {"pending", "processing"} \/ (from = "recognized" /\ to = "reversed")
    PROVE  /\ EventsKept
           /\ (from = "pending" /\ to = "canceled") \/ from = "recognized" => EventsUnwound
<1>1. e.schedule \in Schedules /\ e.month \in 1..Months
  BY DEF Read
<1>2. CASE StatusOf(e) = from
  <2>1. Becomes(e.schedule, e.month, WithStatus(e, to))
    BY <1>2, Marked
  <2>2. Keeps(event[e.schedule][e.month], WithStatus(e, to))
    BY <1>2 DEF Keeps, WithStatus, StatusOf, None, Final
  <2>3. ASSUME (from = "pending" /\ to = "canceled") \/ from = "recognized"
        PROVE  Unwound(event[e.schedule][e.month], WithStatus(e, to))
    BY <1>2, <2>3 DEF Unwound, WithStatus, StatusOf
  <2> QED BY <1>1, <2>1, <2>2, <2>3, OneKept
<1>3. CASE StatusOf(e) # from
  BY <1>3, Marked, Unchanged
<1> QED BY <1>2, <1>3

\* An update of many events at once, from one status to another.
ManyMarked(from, to) ==
    /\ event' = [s \in Schedules |-> [m \in 1..Months |-> event'[s][m]]]
    /\ \A s \in Schedules, m \in 1..Months :
           \/ event'[s][m] = event[s][m]
           \/ /\ event[s][m].status = from
              /\ event'[s][m] = [event[s][m] EXCEPT !.status = to]

LEMMA ManyKept ==
    ASSUME Shape, NEW from \in {"pending", "processing"}, NEW to \in Statuses, ManyMarked(from, to)
    PROVE  EventsKept
<1>1. \A s \in Schedules, m \in 1..Months : event[s][m] \in Event
  BY DEF Shape
<1>2. \A x \in Event : [x EXCEPT !.status = to] \in Event
  BY DEF Event, Statuses
<1>3. \A s \in Schedules, m \in 1..Months : event'[s][m] \in Event
  BY <1>1, <1>2 DEF ManyMarked
<1>4. event' \in [Schedules -> [1..Months -> Event]]
  BY <1>3 DEF ManyMarked
<1>5. \A s \in Schedules, m \in 1..Months : Keeps(event[s][m], event'[s][m])
  <2> SUFFICES ASSUME NEW s \in Schedules, NEW m \in 1..Months
               PROVE  Keeps(event[s][m], event'[s][m])
    OBVIOUS
  <2>1. CASE event'[s][m] = event[s][m]
    BY <2>1 DEF Keeps, None
  <2>2. CASE event[s][m].status = from
    BY <2>2 DEF Keeps, None, Final
  <2> QED BY <2>1, <2>2 DEF ManyMarked
<1> QED BY <1>4, <1>5 DEF EventsKept

LEMMA RequeueMarks ==
    ASSUME Shape, NEW a \in Actors, Requeue(a)
    PROVE  ManyMarked("processing", "pending")
<1>1. PICK stale \in SUBSET Rows(Schedules, {"processing"}) :
          event' = [s \in Schedules |-> [m \in 1..Months |->
                  IF \E e \in stale : e.schedule = s /\ e.month = m
                  THEN [event[s][m] EXCEPT !.status = "pending"] ELSE event[s][m]]]
  BY DEF Requeue
<1>2. \A e \in stale : event[e.schedule][e.month].status = "processing"
  BY RowsAreRead DEF StatusOf
<1> QED BY <1>1, <1>2 DEF ManyMarked

LEMMA ClaimMarks ==
    ASSUME Shape, NEW a \in Actors, ClaimDueEvents(a)
    PROVE  ManyMarked("pending", "processing")
BY DEF ClaimDueEvents, ManyMarked

LEMMA RemoveKept ==
    ASSUME Shape, NEW a \in Actors, RemoveEvent(a)
    PROVE  EventsKept /\ EventsUnwound
<1>1. PICK e, cut :
          /\ e \in actor[a].todo
          /\ cut = IF Sweeps(a) THEN e.amount ELSE Least(actor[a].take, e.amount)
          /\ IF cut = e.amount THEN Mark(e, "pending", "canceled")
             ELSE event' = [event EXCEPT ![e.schedule][e.month].amount =
                                IF StatusOf(e) = "pending" THEN e.amount - cut ELSE @]
  BY DEF RemoveEvent, Latest
<1>2. e \in Read /\ e.schedule \in Schedules /\ e.month \in 1..Months /\ e.amount \in Nat
  BY <1>1 DEF Shape, ActorOK, Read
<1>3. CASE cut = e.amount
  BY <1>1, <1>2, <1>3, MarkKept DEF Statuses
<1>4. CASE cut # e.amount
  <2> PICK s, m, x, v : /\ s = e.schedule /\ m = e.month /\ x = event[s][m]
                        /\ v = (IF x.status = "pending" THEN e.amount - cut ELSE x.amount)
    OBVIOUS
  <2>1. s \in Schedules /\ m \in 1..Months /\ x \in Event
    BY <1>2 DEF Shape
  <2>2. ~Sweeps(a) /\ actor[a].take \in Nat
    BY <1>1, <1>4 DEF Sweeps, Shape, ActorOK
  <2>3. cut \in Nat /\ cut <= e.amount
    BY <1>1, <1>2, <2>2 DEF Least
  <2>4. v \in Nat
    BY <1>2, <2>1, <2>3 DEF Event
  <2> PICK y : y = [x EXCEPT !.amount = v]
    OBVIOUS
  <2>5. y \in Event /\ y.status = x.status /\ y.clawed = x.clawed /\ y.amount = v
    BY <2>1, <2>4 DEF Event
  <2>6. event' = [event EXCEPT ![s][m].amount = v]
    BY <1>1, <1>4 DEF StatusOf
  <2>7. event' = [event EXCEPT ![s][m] = y]
    BY <2>6
  <2>8. Becomes(s, m, y)
    BY <2>1, <2>5, <2>7, EventUpdated
  <2>9. Keeps(x, y)
    <3>1. x.status = None => y = x
      BY <2>1, <2>5 DEF Event, None
    <3> QED BY <2>5, <3>1 DEF Keeps, Final
  <2>10. Unwound(x, y)
    <3>1. x.status # "pending" => y = x
      BY <2>1, <2>5 DEF Event
    <3> QED BY <2>5, <3>1 DEF Unwound
  <2> QED BY <2>1, <2>8, <2>9, <2>10, OneKept
<1> QED BY <1>3, <1>4

LEMMA ReverseKept ==
    ASSUME Shape, NEW a \in Actors, ReverseRecognized(a)
    PROVE  EventsKept /\ EventsUnwound
<1>1. PICK e, cut :
          /\ e \in actor[a].todo
          /\ cut = Least(actor[a].take, e.amount)
          /\ IF cut = e.amount THEN Mark(e, "recognized", "reversed")
             ELSE event' = [event EXCEPT ![e.schedule][e.month] = Split(@, cut)]
  BY DEF ReverseRecognized, Latest
<1>2. e \in Read /\ e.schedule \in Schedules /\ e.month \in 1..Months /\ e.amount \in Nat
  BY <1>1 DEF Shape, ActorOK, Read
<1>3. CASE cut = e.amount
  BY <1>1, <1>2, <1>3, MarkKept DEF Statuses
<1>4. CASE cut # e.amount
  <2> PICK s, m, x : s = e.schedule /\ m = e.month /\ x = event[s][m]
    OBVIOUS
  <2>1. s \in Schedules /\ m \in 1..Months /\ x \in Event
    BY <1>2 DEF Shape
  <2>2. cut \in Nat
    BY <1>1, <1>2 DEF Least, ReverseRecognized, At, Shape, ActorOK
  <2> PICK u, v : u = x.amount - cut /\ v = x.clawed + cut
    OBVIOUS
  <2>3. u + v = x.amount + x.clawed /\ v \in Nat /\ (x.amount > cut => u \in Nat)
    BY <2>1, <2>2 DEF Event
  <2> PICK z1, z : z1 = [x EXCEPT !.amount = u] /\ z = [z1 EXCEPT !.clawed = v]
    OBVIOUS
  <2>4. x = [status |-> x.status, amount |-> x.amount, clawed |-> x.clawed]
    BY <2>1 DEF Event
  <2>5. z = [status |-> x.status, amount |-> u, clawed |-> v]
    BY <2>4
  <2>6. /\ z.status = x.status /\ z.amount + z.clawed = x.amount + x.clawed
        /\ x.amount > cut => z \in Event
    BY <2>1, <2>5, <2>3 DEF Event
  <2> PICK y : y = IF x.status = "recognized" /\ x.amount > cut THEN z ELSE x
    OBVIOUS
  <2>7. y \in Event /\ Keeps(x, y) /\ Unwound(x, y)
    BY <2>1, <2>6 DEF Keeps, Final, None, Unwound
  <2>8. y = Split(x, cut)
    BY DEF Split
  <2>9. event' = [event EXCEPT ![s][m] = Split(event[s][m], cut)]
    BY <1>1, <1>4
  <2>10. event' = [event EXCEPT ![s][m] = y]
    BY <2>8, <2>9
  <2>11. Becomes(s, m, y)
    BY <2>1, <2>7, <2>10, EventUpdated
  <2> QED BY <2>1, <2>7, <2>11, OneKept
<1> QED BY <1>3, <1>4

LEMMA StepKeeps ==
    ASSUME Shape, NEW a \in Actors, Acts(a), ~CreateEvents(a)
    PROVE  EventsKept
<1>1. CASE Requeue(a)
  BY <1>1, RequeueMarks, ManyKept DEF Statuses
<1>2. CASE ClaimDueEvents(a)
  BY <1>2, ClaimMarks, ManyKept DEF Statuses
<1>3. ASSUME NEW to \in Statuses, \E e \in actor[a].held : Mark(e, "processing", to)
      PROVE  EventsKept
  <2>1. actor[a].held \subseteq Read
    BY DEF Shape, ActorOK
  <2> QED BY <1>3, <2>1, MarkKept DEF Statuses
<1>4. CASE MarkEventRecognized(a)
  BY <1>3, <1>4 DEF MarkEventRecognized, Statuses
<1>5. CASE MarkEventFailed(a)
  BY <1>3, <1>5 DEF MarkEventFailed, Statuses
<1>6. CASE RemoveEvent(a)
  BY <1>6, RemoveKept
<1>7. CASE ReverseRecognized(a)
  BY <1>7, ReverseKept
<1>8. CASE event' = event
  BY <1>8, Unchanged
<1>9. CASE Worker(a)
  BY <1>1, <1>2, <1>4, <1>5, <1>8, <1>9
     DEF Worker, RecordRecognition, RecognitionFails, rows
<1>10. CASE Billing(a)
  BY <1>8, <1>10 DEF Billing, Issue, Settle, RecordWriteOffRecovery, CheckSchedule,
                     ConsumeScheduleDebt, CreateSchedule, rows
<1>11. CASE Unwinding(a)
  BY <1>6, <1>7, <1>8, <1>11
     DEF Unwinding, Cancel, Refund, Downgrade, WriteOff, Request, ReadRecognized,
         RecordInvoiceWriteOff, FindSchedules, ListPending, CloseSchedule, PostUnwind,
         ListRecognized, AddScheduleDebt, RecordDowngradeCredit, rows
<1>12. CASE Crash(a)
  BY <1>8, <1>12 DEF Crash, rows
<1> QED BY <1>9, <1>10, <1>11, <1>12 DEF Acts

\* Whoever does not work on claims only unwinds.
LEMMA StepUnwinds ==
    ASSUME Shape, NEW a \in Actors, Billing(a) \/ Unwinding(a), ~CreateEvents(a)
    PROVE  EventsUnwound
<1>1. CASE RemoveEvent(a)
  BY <1>1, RemoveKept
<1>2. CASE ReverseRecognized(a)
  BY <1>2, ReverseKept
<1>3. CASE event' = event
  BY <1>3, Unchanged
<1>4. CASE Billing(a)
  BY <1>3, <1>4 DEF Billing, Issue, Settle, RecordWriteOffRecovery, CheckSchedule,
                    ConsumeScheduleDebt, CreateSchedule, rows
<1>5. CASE Unwinding(a)
  BY <1>1, <1>2, <1>3, <1>5
     DEF Unwinding, Cancel, Refund, Downgrade, WriteOff, Request, ReadRecognized,
         RecordInvoiceWriteOff, FindSchedules, ListPending, CloseSchedule, PostUnwind,
         ListRecognized, AddScheduleDebt, RecordDowngradeCredit, rows
<1> QED BY <1>4, <1>5

----------------------------------------------------------------------------
(* The insert of a schedule's events, and the schedules.                   *)

LEMMA EventsCreated ==
    ASSUME EventInv, NEW a \in Actors, CreateEvents(a)
    PROVE  /\ actor[a].pc = "events" /\ actor[a].schedule \in Schedules
           /\ event' \in [Schedules -> [1..Months -> Event]]
           /\ \A s \in Schedules : s # actor[a].schedule => event'[s] = event[s]
           /\ \A m \in 1..Months : LET y == event'[actor[a].schedule][m] IN
                  y.status = "pending" /\ y.clawed = 0
<1> PICK t, w : t = actor[a].schedule /\ w = actor[a].want
  OBVIOUS
<1>1. actor[a].pc = "events" /\ t \in Schedules
  BY DEF CreateEvents, At, EventInv, InsertsOnce
<1>2. w \in Nat
  BY <1>1 DEF EventInv, Shape, ActorOK
<1> PICK amounts : amounts = CalculateMonthlyAllocation(w)
  OBVIOUS
<1>3. \A m \in 1..Months : amounts[m] \in Nat
  <2>1. w \div Months \in Nat /\ w % Months \in Nat
    BY <1>2, RecognitionAssumption
  <2>2. \A m \in 1..Months : amounts[m] = w \div Months + IF m = Months THEN w % Months ELSE 0
    BY DEF CalculateMonthlyAllocation
  <2> QED BY <2>1, <2>2
<1> PICK es : es = [m \in 1..Months |-> [status |-> "pending", amount |-> amounts[m], clawed |-> 0]]
  OBVIOUS
<1>4. es \in [1..Months -> Event] /\ \A m \in 1..Months : es[m].status = "pending" /\ es[m].clawed = 0
  BY <1>3 DEF Event
<1>5. event' = [event EXCEPT ![t] = es]
  BY DEF CreateEvents
<1>6. event \in [Schedules -> [1..Months -> Event]]
  BY DEF EventInv, Shape
<1> QED BY <1>1, <1>4, <1>5, <1>6

ScheduleKept ==
    /\ schedule' \in [Schedules -> {None, "active", "canceled"}]
    /\ \A s \in Schedules : schedule'[s] = None => schedule[s] = None

LEMMA ScheduleUpdated ==
    ASSUME Shape, NEW t, NEW v \in {"active", "canceled"}, schedule' = [schedule EXCEPT ![t] = v]
    PROVE  ScheduleKept
BY DEF Shape, ScheduleKept, None

LEMMA SchedulesStay ==
    ASSUME Shape, NEW a \in Actors, Acts(a)
    PROVE  ScheduleKept
<1>1. CASE schedule' = schedule
  BY <1>1 DEF Shape, ScheduleKept
<1>2. CASE CreateSchedule(a)
  BY <1>2, ScheduleUpdated DEF CreateSchedule
<1>3. CASE CloseSchedule(a)
  BY <1>3, ScheduleUpdated DEF CloseSchedule
<1>4. CASE Worker(a)
  BY <1>1, <1>4 DEF Worker, Requeue, ClaimDueEvents, RecordRecognition, RecognitionFails,
                    MarkEventRecognized, MarkEventFailed, rows
<1>5. CASE Billing(a)
  BY <1>1, <1>2, <1>5 DEF Billing, Issue, Settle, RecordWriteOffRecovery, CheckSchedule,
                          ConsumeScheduleDebt, CreateEvents, rows
<1>6. CASE Unwinding(a)
  BY <1>1, <1>3, <1>6
     DEF Unwinding, Cancel, Refund, Downgrade, WriteOff, Request, ReadRecognized,
         RecordInvoiceWriteOff, FindSchedules, ListPending, RemoveEvent, PostUnwind,
         ListRecognized, ReverseRecognized, AddScheduleDebt, RecordDowngradeCredit, rows
<1>7. CASE Crash(a)
  BY <1>1, <1>7 DEF Crash, rows
<1> QED BY <1>4, <1>5, <1>6, <1>7 DEF Acts

LEMMA DebtStays ==
    ASSUME Shape, NEW a \in Actors, Acts(a)
    PROVE  debt' \in Nat
<1>1. CASE debt' = debt
  BY <1>1 DEF Shape
<1>2. CASE ConsumeScheduleDebt(a)
  BY <1>2, RecognitionAssumption DEF ConsumeScheduleDebt, Least, Shape
<1>3. CASE AddScheduleDebt(a)
  BY <1>3 DEF AddScheduleDebt, At, Shape, ActorOK
<1>4. CASE Worker(a)
  BY <1>1, <1>4 DEF Worker, Requeue, ClaimDueEvents, RecordRecognition, RecognitionFails,
                    MarkEventRecognized, MarkEventFailed
<1>5. CASE Billing(a)
  BY <1>1, <1>2, <1>5 DEF Billing, Issue, Settle, RecordWriteOffRecovery, CheckSchedule,
                          CreateSchedule, CreateEvents
<1>6. CASE Unwinding(a)
  BY <1>1, <1>3, <1>6
     DEF Unwinding, Cancel, Refund, Downgrade, WriteOff, Request, ReadRecognized,
         RecordInvoiceWriteOff, FindSchedules, ListPending, RemoveEvent, CloseSchedule, PostUnwind,
         ListRecognized, ReverseRecognized, RecordDowngradeCredit
<1>7. CASE Crash(a)
  BY <1>1, <1>7 DEF Crash
<1> QED BY <1>4, <1>5, <1>6, <1>7 DEF Acts

\* Actor a stays where it is or goes on.
Moves(a) == actor' = actor \/ \E r : Reaches(a, r)

LEMMA ActsMove == ASSUME Shape, NEW a \in Actors, Acts(a) PROVE Moves(a)
BY WorkerReaches, BillingLeads, UnwindingLeads, DoneReaches DEF Acts, Moves, Crash, Leads

LEMMA ActsShape ==
    ASSUME EventInv, NEW a \in Actors, Acts(a)
    PROVE  Shape'
<1>1. Shape
  BY DEF EventInv
<1>2. event' \in [Schedules -> [1..Months -> Event]]
  BY <1>1, StepKeeps, EventsCreated DEF EventsKept
<1>3. DOMAIN actor' = Actors /\ actor' = [b \in Actors |-> actor'[b]]
  BY <1>1, ActsMove DEF Moves, Reaches, Stands, Shape
<1>4. \A b \in Actors : ActorOK(actor'[b])
  BY <1>1, ActsMove DEF Moves, Reaches, Stands, Shape
<1>5. \A b \in Actors : ActorOK(actor[b])'
  BY <1>4 DEF ActorOK, IsRecord, ActorRecord, Read
<1> QED BY <1>1, <1>2, <1>3, <1>5, SchedulesStay, DebtStays DEF Shape, ScheduleKept

LEMMA ActsInsert ==
    ASSUME EventInv, NEW a \in Actors, Acts(a)
    PROVE  InsertsOnce'
<1>1. Shape /\ InsertsOnce /\ Moves(a) /\ ScheduleKept
  BY ActsMove, SchedulesStay DEF EventInv
\* Where nothing was inserted yet, nothing is but by CreateEvents.
<1>2. ASSUME NEW s \in Schedules, \A m \in 1..Months : event[s][m].status = None,
             CreateEvents(a) => s # actor[a].schedule
      PROVE  \A m \in 1..Months : event'[s][m].status = None
  BY <1>1, <1>2, StepKeeps, EventsCreated DEF EventsKept, Keeps
<1>3. CreateEvents(a) => Stands(a, Idle)
  BY <1>1, DoneReaches DEF CreateEvents, Reaches
\* An actor about to insert is one that was, or has just created its schedule.
<1>4. ASSUME NEW b \in Actors, actor'[b].pc = "events"
      PROVE  \/ b # a /\ actor'[b] = actor[b]
             \/ ~CreateEvents(a) /\ actor'[b] = actor[b]
             \/ /\ b = a /\ ~CreateEvents(a)
                /\ actor'[a].schedule \in Schedules /\ schedule[actor'[a].schedule] = None
                /\ schedule' = [schedule EXCEPT ![actor'[a].schedule] = "active"]
  BY <1>1, <1>3, <1>4 DEF Moves, Reaches, Stands, Idle
<1>5. ASSUME NEW s \in Schedules, schedule'[s] = None
      PROVE  \A m \in 1..Months : event'[s][m].status = None
  <2>1. schedule[s] = None
    BY <1>1, <1>5 DEF ScheduleKept
  <2>2. CreateEvents(a) => s # actor[a].schedule
    BY <1>1, <2>1, EventsCreated DEF InsertsOnce
  <2> QED BY <1>1, <1>2, <2>1, <2>2 DEF InsertsOnce
<1>6. ASSUME NEW b \in Actors, actor'[b].pc = "events"
      PROVE  /\ actor'[b].schedule \in Schedules /\ schedule'[actor'[b].schedule] # None
             /\ \A m \in 1..Months : event'[actor'[b].schedule][m].status = None
  <2> PICK t : t = actor'[b].schedule
    OBVIOUS
  <2>1. CASE actor'[b] = actor[b] /\ (b # a \/ ~CreateEvents(a))
    <3>1. t \in Schedules /\ schedule[t] # None /\ \A m \in 1..Months : event[t][m].status = None
      BY <1>1, <1>6, <2>1 DEF InsertsOnce
    <3>2. CreateEvents(a) => t # actor[a].schedule
      BY <1>1, <1>6, <2>1, EventsCreated DEF InsertsOnce
    <3> QED BY <1>1, <1>2, <3>1, <3>2 DEF ScheduleKept
  <2>2. CASE /\ b = a /\ ~CreateEvents(a) /\ t \in Schedules /\ schedule[t] = None
             /\ schedule' = [schedule EXCEPT ![t] = "active"]
    <3>1. \A m \in 1..Months : event[t][m].status = None
      BY <1>1, <2>2 DEF InsertsOnce
    <3>2. schedule'[t] # None
      BY <1>1, <2>2 DEF Shape, None
    <3> QED BY <1>2, <2>2, <3>1, <3>2
  <2> QED BY <1>4, <1>6, <2>1, <2>2
<1>7. ASSUME NEW b \in Actors, NEW c \in Actors,
             actor'[b].pc = "events", actor'[c].pc = "events", b # c
      PROVE  actor'[b].schedule # actor'[c].schedule
  <2>1. \A d \in Actors : actor[d].pc = "events" => schedule[actor[d].schedule] # None
    BY <1>1 DEF InsertsOnce
  <2>2. CASE actor'[b] = actor[b] /\ actor'[c] = actor[c]
    BY <1>1, <1>7, <2>2 DEF InsertsOnce
  <2> QED BY <1>4, <1>7, <2>1, <2>2
<1> QED BY <1>5, <1>6, <1>7 DEF InsertsOnce

----------------------------------------------------------------------------

LEMMA InitEvents == Init => EventInv
<1> SUFFICES ASSUME Init PROVE EventInv
  OBVIOUS
<1>1. NoEvent \in Event /\ NoEvent.status = None
  BY DEF NoEvent, Event, Statuses
<1>2. event = [s \in Schedules |-> [m \in 1..Months |-> NoEvent]] /\ schedule = [s \in Schedules |-> None]
  BY DEF Init
<1>3. \A a \in Actors : actor[a] = Idle /\ Idle.pc # "events"
  BY DEF Init, Idle
<1>4. Shape
  BY <1>1, <1>2, <1>3, IdleOK DEF Init, Shape
<1> QED BY <1>1, <1>2, <1>3, <1>4 DEF EventInv, InsertsOnce

LEMMA StepEvents == EventInv /\ [Next]_vars => EventInv'
<1> SUFFICES ASSUME EventInv, [Next]_vars PROVE EventInv'
  OBVIOUS
<1>1. CASE UNCHANGED <<event, schedule, actor, debt>>
  <2>1. Shape'
    BY <1>1 DEF EventInv, Shape, ActorOK, IsRecord, ActorRecord, Read
  <2> QED BY <1>1, <2>1 DEF EventInv, InsertsOnce
<1>2. ASSUME NEW a \in Actors, Acts(a) PROVE EventInv'
  BY <1>2, ActsShape, ActsInsert DEF EventInv
<1>3. CASE NextMonth
  BY <1>1, <1>3 DEF NextMonth, rows
<1>4. CASE Return
  BY <1>1, <1>4 DEF Return, rows
<1>5. CASE UNCHANGED vars
  BY <1>1, <1>5 DEF vars
<1> QED BY <1>2, <1>3, <1>4, <1>5 DEF Next, Acts

LEMMA Always == Spec => []EventInv
BY InitEvents, StepEvents, PTL DEF Spec

\* The step that EventIsFinal allows.
StaysFinal ==
    \A s \in Schedules, m \in 1..Months :
        event[s][m].status \in {"recognized", "reversed", "failed", "canceled"} =>
            /\ event'[s][m].status # event[s][m].status =>
                   event[s][m].status = "recognized" /\ event'[s][m].status = "reversed"
            /\ event'[s][m].amount + event'[s][m].clawed = event[s][m].amount + event[s][m].clawed

LEMMA StepFinal == ASSUME EventInv, [Next]_vars PROVE StaysFinal
<1>1. CASE event' = event
  BY <1>1 DEF StaysFinal
<1>2. ASSUME NEW a \in Actors, Acts(a) PROVE StaysFinal
  <2>1. CASE CreateEvents(a)
    <3>1. \A m \in 1..Months : event[actor[a].schedule][m].status = None
      BY <2>1 DEF CreateEvents, At, EventInv, InsertsOnce
    <3> QED BY <2>1, <3>1, EventsCreated DEF StaysFinal, None
  <2>2. CASE ~CreateEvents(a)
    BY <1>2, <2>2, StepKeeps DEF EventInv, EventsKept, Keeps, Final, StaysFinal
  <2> QED BY <2>1, <2>2
<1> QED BY <1>1, <1>2 DEF Next, Acts, NextMonth, Return, rows, vars

\* EventIsFinal: however requests, workers, repeated claims, crashes and reads of old
\* rows interleave, a canceled or failed event never moves again, a recognized one is
\* only clawed back, and neither loses what it was worth.
THEOREM WhatBecameOfAnEventStays == Spec => EventIsFinal
<1>1. EventInv /\ [Next]_vars => StaysFinal
  BY StepFinal
<1>2. StaysFinal => [StaysFinal]_vars
  OBVIOUS
<1> QED BY <1>1, Always, PTL DEF Spec, EventIsFinal, StaysFinal
----------------------------------------------------------------------------
(* Types.                                                                  *)

\* TypeOK, but for what Shape says of rows and actors.
Types ==
    /\ life \in Lives /\ asked \subseteq {"cancel", "downgrade", "writeOff", "return"}
    /\ invoice \in {"new", "unpaid", "paid", "uncollectible"}
    /\ elapsed \in 1..Months
    /\ posted \in [Schedules -> [0..Months -> Nat]]
    /\ deferred \in Int /\ writtenOff \in 0..Net /\ refunded \in 0..Net
    /\ misled \in BOOLEAN /\ faults \in 0..MaxFaults

LEMMA CodeTwoTyped ==
    ASSUME Types, NEW s, NEW m, NEW amount \in Nat, PostCode2(s, m, amount)
    PROVE  posted' \in [Schedules -> [0..Months -> Nat]] /\ deferred' \in Int
<1>1. CASE posted[s][m] # 0
  BY <1>1 DEF PostCode2, Types
<1>2. CASE posted[s][m] = 0
  <2>1. posted' = [posted EXCEPT ![s][m] = amount] /\ deferred' = deferred - amount
    BY <1>2 DEF PostCode2
  <2> PICK x : x = [posted[s] EXCEPT ![m] = amount]
    OBVIOUS
  <2>2. s \in Schedules => x \in [0..Months -> Nat]
    BY DEF Types
  <2>3. posted' = [posted EXCEPT ![s] = x]
    BY <2>1
  <2>4. posted' \in [Schedules -> [0..Months -> Nat]]
    <3> USE DEF Types
    <3>1. CASE s \in Schedules
      BY <2>2, <2>3, <3>1
    <3>2. CASE s \notin Schedules
      <4>1. posted' = posted
        BY <2>3, <3>2
      <4> QED BY <4>1
    <3> QED BY <3>1, <3>2
  <2> QED BY <2>1, <2>4 DEF Types
<1> QED BY <1>1, <1>2

LEMMA WorkerTyped ==
    ASSUME Shape, Types, NEW a \in Actors, Worker(a)
    PROVE  Types'
<1>1. MaxFaults \in Nat
  BY RecognitionAssumption
<1>2. CASE Requeue(a)
  BY <1>1, <1>2 DEF Requeue, Types, requests, books
<1>3. CASE ClaimDueEvents(a)
  BY <1>3 DEF ClaimDueEvents, Types, requests, books, clock
<1>4. CASE RecordRecognition(a)
  <2>1. PICK e \in actor[a].todo : PostCode2(e.schedule, e.month, e.amount)
    BY <1>4 DEF RecordRecognition
  <2>2. e.amount \in Nat
    BY <2>1 DEF Shape, ActorOK, Read
  <2>3. posted' \in [Schedules -> [0..Months -> Nat]] /\ deferred' \in Int
    BY <2>1, <2>2, CodeTwoTyped
  <2> QED BY <1>4, <2>3 DEF RecordRecognition, Types, requests, clock
<1>5. CASE RecognitionFails(a)
  BY <1>1, <1>5 DEF RecognitionFails, Types, requests, books
<1>6. CASE MarkEventRecognized(a)
  BY <1>6 DEF MarkEventRecognized, Types, requests, books, clock
<1>7. CASE MarkEventFailed(a)
  BY <1>7 DEF MarkEventFailed, Types, requests, books, clock
<1> QED BY <1>2, <1>3, <1>4, <1>5, <1>6, <1>7 DEF Worker

LEMMA BillingTyped ==
    ASSUME Shape, Types, NEW a \in Actors, Billing(a)
    PROVE  Types'
<1>1. Net \in Nat /\ 0 \in 0..Net
  BY RecognitionAssumption
<1>2. CASE Issue(a)
  BY <1>1, <1>2 DEF Issue, Types, clock
<1>3. CASE Settle(a)
  BY <1>3 DEF Settle, Types, books, clock
<1>4. CASE RecordWriteOffRecovery(a)
  BY <1>1, <1>4 DEF RecordWriteOffRecovery, Types, requests, clock
<1>5. CASE CheckSchedule(a)
  BY <1>5 DEF CheckSchedule, Types, requests, books, clock
<1>6. CASE ConsumeScheduleDebt(a)
  BY <1>6 DEF ConsumeScheduleDebt, Types, requests, books, clock
<1>7. CASE CreateSchedule(a)
  BY <1>7 DEF CreateSchedule, Types, requests, books, clock
<1>8. CASE CreateEvents(a)
  BY <1>8 DEF CreateEvents, Types, requests, books, clock
<1> QED BY <1>2, <1>3, <1>4, <1>5, <1>6, <1>7, <1>8 DEF Billing

LEMMA UnwindingTyped ==
    ASSUME Shape, Types, NEW a \in Actors, Unwinding(a)
    PROVE  Types'
<1> PICK x : x = actor[a]
  OBVIOUS
<1>1. ActorOK(x) /\ x.want \in Nat /\ x.taken \in Nat
  BY DEF Shape, ActorOK
<1>2. Net \in Nat
  BY RecognitionAssumption
<1>3. CASE Cancel(a)
  BY <1>3 DEF Cancel, Request, Types, books, clock
<1>4. CASE Refund(a)
  <2>1. PICK amount \in 1..Net - refunded : refunded' = refunded + amount
    BY <1>4 DEF Refund
  <2>2. refunded' \in 0..Net
    BY <1>2, <2>1 DEF Types
  <2> QED BY <1>4, <2>2 DEF Refund, Request, Types, books, clock
<1>5. CASE Downgrade(a)
  BY <1>5 DEF Downgrade, Request, Types, books, clock
<1>6. CASE WriteOff(a)
  BY <1>6 DEF WriteOff, Request, Types, books, clock
<1>7. CASE RecordInvoiceWriteOff(a)
  <2>1. x.want \in 0..Net
    BY <1>1, <1>2, <1>7 DEF ActorOK, Stage, RecordInvoiceWriteOff, At
  <2>2. deferred' = deferred - x.want /\ writtenOff' = x.want
    BY <1>7 DEF RecordInvoiceWriteOff
  <2>3. deferred' \in Int /\ writtenOff' \in 0..Net
    BY <1>1, <2>1, <2>2 DEF Types
  <2> QED BY <1>7, <2>3 DEF RecordInvoiceWriteOff, Types, requests, clock
<1>8. CASE PostUnwind(a)
  <2>1. PostCode2(x.schedule, 0, x.taken) \/ (deferred' = deferred - x.taken /\ UNCHANGED posted)
    BY <1>8 DEF PostUnwind
  <2>2. posted' \in [Schedules -> [0..Months -> Nat]] /\ deferred' \in Int
    BY <1>1, <2>1, CodeTwoTyped DEF Types
  <2> QED BY <1>8, <2>2 DEF PostUnwind, Types, requests, clock
<1>9. CASE RecordDowngradeCredit(a)
  <2>1. deferred' = deferred - (x.want - x.taken)
    BY <1>9 DEF RecordDowngradeCredit
  <2>2. deferred' \in Int
    BY <1>1, <2>1 DEF Types
  <2> QED BY <1>9, <2>2 DEF RecordDowngradeCredit, Types, requests, clock
<1>10. ASSUME UNCHANGED <<requests, books, clock>>, misled' \in BOOLEAN PROVE Types'
  BY <1>10 DEF Types, requests, books, clock
<1>11. CASE ReadRecognized(a) \/ CloseSchedule(a) \/ ListRecognized(a) \/ ReverseRecognized(a)
  BY <1>10, <1>11 DEF ReadRecognized, CloseSchedule, ListRecognized, ReverseRecognized, Types
<1>12. CASE FindSchedules(a)
  BY <1>10, <1>12 DEF FindSchedules
<1>13. CASE ListPending(a)
  BY <1>10, <1>13 DEF ListPending
<1>14. CASE RemoveEvent(a)
  BY <1>10, <1>14 DEF RemoveEvent
<1>15. CASE AddScheduleDebt(a)
  BY <1>10, <1>15 DEF AddScheduleDebt
<1> QED BY <1>3, <1>4, <1>5, <1>6, <1>7, <1>8, <1>9, <1>11, <1>12, <1>13, <1>14, <1>15 DEF Unwinding

LEMMA StepTyped == EventInv /\ Types /\ [Next]_vars => Types'
<1> SUFFICES ASSUME EventInv, Types, [Next]_vars PROVE Types'
  OBVIOUS
<1>1. Shape /\ Months \in Nat /\ MaxFaults \in Nat
  BY RecognitionAssumption DEF EventInv
<1>2. CASE NextMonth
  BY <1>1, <1>2 DEF NextMonth, Types, requests, books
<1>3. CASE Return
  BY <1>3 DEF Return, Types, books, clock
<1>4. CASE UNCHANGED vars
  BY <1>4 DEF vars, Types
<1>5. ASSUME NEW a \in Actors, Crash(a) PROVE Types'
  BY <1>1, <1>5 DEF Crash, Types, requests, books
<1> QED BY <1>1, <1>2, <1>3, <1>4, <1>5, WorkerTyped, BillingTyped, UnwindingTyped DEF Next

LEMMA InitTyped == Init => Types
<1> SUFFICES ASSUME Init PROVE Types
  OBVIOUS
<1>1. Months \in Nat \ {0} /\ Net \in Nat \ {0} /\ MaxFaults \in Nat
  BY RecognitionAssumption
<1>2. posted \in [Schedules -> [0..Months -> Nat]]
  BY DEF Init
<1>3. 0 \in 0..Net /\ 0 \in 0..MaxFaults /\ 1 \in 1..Months /\ 0 \in Int
  BY <1>1
<1> QED BY <1>2, <1>3 DEF Init, Types

LEMMA AlwaysTyped == Spec => []Types
BY Always, InitTyped, StepTyped, PTL DEF Spec

LEMMA ActorTyped == ASSUME NEW r, ActorOK(r) PROVE r \in Actor
<1>1. r.pc \in Pcs /\ r.op \in Ops
  BY DEF ActorOK
<1> QED BY <1>1 DEF ActorOK, IsRecord, ActorRecord, Actor, Pcs, Resting, Claiming, Unwinds, Ops

\* TypeOK: no unwind takes more than it wants, so that no amount it has read, still has to
\* take or leaves on an event goes below zero, and a write-off never reverses more than
\* the invoice's net amount, whatever was recognized meanwhile.
THEOREM RecognitionTypeCorrect == Spec => []TypeOK
<1>1. ASSUME EventInv, Types PROVE TypeOK
  <2>1. \A a \in Actors : actor[a] \in Actor
    BY <1>1, ActorTyped DEF EventInv, Shape
  <2>2. actor \in [Actors -> Actor]
    BY <1>1, <2>1 DEF EventInv, Shape
  <2> QED BY <1>1, <2>2 DEF EventInv, Shape, Types, TypeOK
<1> QED BY <1>1, Always, AlwaysTyped, PTL
----------------------------------------------------------------------------
(* What is posted for an event.                                            *)

\* Actor a has claimed event (s, m) and not marked it yet.
Holds(a, s, m) ==
    actor[a].pc \in Claiming /\ \E e \in actor[a].todo : e.schedule = s /\ e.month = m
\* It has posted the event, but not marked it.
Posting(a, s, m) ==
    actor[a].pc = "mark" /\ \E e \in actor[a].held : e.schedule = s /\ e.month = m

\* An event that is claimed is as it was read, and nobody else claims it.
ClaimsStand ==
    /\ \A a \in Actors : actor[a].pc \in Claiming => \A e \in actor[a].todo :
           event[e.schedule][e.month] = [status |-> "processing", amount |-> e.amount, clawed |-> 0]
    /\ \A s \in Schedules, m \in 1..Months :
           event[s][m].status = "processing" => \E a \in Actors : Holds(a, s, m)
    /\ \A a, b \in Actors : \A s \in Schedules, m \in 1..Months :
           Holds(a, s, m) /\ Holds(b, s, m) => a = b

\* A worker posts one of the events it claimed at a time.
OneAtATime ==
    \A a \in Actors :
        /\ actor[a].pc # "markFailed"
        /\ actor[a].pc = "mark" => \E e \in actor[a].todo : actor[a].held = {e}

\* What Deferred Revenue has given up for event (s, m).
Worth(s, m) ==
    IF event[s][m].status \in {"recognized", "reversed"} THEN event[s][m].amount + event[s][m].clawed
    ELSE IF event[s][m].status = "processing" /\ \E a \in Actors : Posting(a, s, m)
         THEN event[s][m].amount ELSE 0

WorthPosted ==
    \A s \in Schedules, m \in 1..Months :
        /\ posted[s][m] = Worth(s, m)
        /\ event[s][m].status = "pending" => event[s][m].clawed = 0

Books == ClaimsStand /\ OneAtATime /\ WorthPosted

LEMMA ReadRow ==
    ASSUME Shape, NEW e \in Read
    PROVE  /\ e.schedule \in Schedules /\ e.month \in 1..Months /\ e.amount \in Nat
           /\ event[e.schedule][e.month] \in Event
BY DEF Read, Shape

\* A step of an actor that holds nothing, before and after, and posts for no event.
LEMMA BooksKept ==
    ASSUME Shape, Books, NEW a \in Actors,
           actor[a].pc \notin Claiming, actor'[a].pc \notin Claiming,
           \A b \in Actors : b # a => actor'[b] = actor[b],
           \A s \in Schedules, m \in 1..Months :
               /\ posted'[s][m] = posted[s][m]
               /\ \/ Unwound(event[s][m], event'[s][m])
                  \/ /\ event[s][m].status = None
                     /\ event'[s][m].status = "pending" /\ event'[s][m].clawed = 0
    PROVE  Books'
<1>1. \A b \in Actors : actor[b].pc \in Claiming => b # a
  OBVIOUS
<1>2. \A b \in Actors : actor'[b].pc \in Claiming => b # a
  OBVIOUS
<1>3. \A b \in Actors : actor'[b].pc \in Claiming => actor[b].pc \in Claiming /\ actor'[b] = actor[b]
  BY <1>2
<1>3a. \A b \in Actors : actor[b].pc \in Claiming => actor'[b] = actor[b]
  BY <1>1
<1>4. \A b \in Actors, s \in Schedules, m \in 1..Months :
          (Holds(b, s, m)' <=> Holds(b, s, m)) /\ (Posting(b, s, m)' <=> Posting(b, s, m))
  BY <1>3, <1>3a DEF Holds, Posting, Claiming
<1>5. \A s \in Schedules, m \in 1..Months :
          /\ event[s][m].status = "processing" => event'[s][m] = event[s][m]
          /\ event'[s][m].status = "processing" => event[s][m].status = "processing"
  BY DEF Unwound, None
<1>6. ClaimsStand'
  <2>1. ASSUME NEW b \in Actors, actor'[b].pc \in Claiming, NEW e \in actor'[b].todo
        PROVE  event'[e.schedule][e.month] = [status |-> "processing", amount |-> e.amount, clawed |-> 0]
    <3>1. actor[b].pc \in Claiming /\ e \in actor[b].todo
      BY <1>3, <2>1
    <3>2. event[e.schedule][e.month] = [status |-> "processing", amount |-> e.amount, clawed |-> 0]
      BY <3>1 DEF Books, ClaimsStand
    <3>3. e \in Read
      BY <3>1 DEF Shape, ActorOK
    <3> QED BY <1>5, <3>2, <3>3, ReadRow
  <2>2. \A s \in Schedules, m \in 1..Months :
            event'[s][m].status = "processing" => \E b \in Actors : Holds(b, s, m)'
    BY <1>4, <1>5 DEF Books, ClaimsStand
  <2>3. \A b, c \in Actors : \A s \in Schedules, m \in 1..Months :
            Holds(b, s, m)' /\ Holds(c, s, m)' => b = c
    BY <1>4 DEF Books, ClaimsStand
  <2> QED BY <2>1, <2>2, <2>3 DEF ClaimsStand
<1>7. OneAtATime'
  BY <1>3 DEF Books, OneAtATime, Claiming
<1>8. ASSUME NEW s \in Schedules, NEW m \in 1..Months
      PROVE  /\ posted'[s][m] = Worth(s, m)'
             /\ event'[s][m].status = "pending" => event'[s][m].clawed = 0
  <2>1. posted[s][m] = Worth(s, m) /\ (event[s][m].status = "pending" => event[s][m].clawed = 0)
    BY DEF Books, WorthPosted
  <2>2. (\E b \in Actors : Posting(b, s, m)') <=> (\E b \in Actors : Posting(b, s, m))
    BY <1>4
  <2> PICK x, y : x = event[s][m] /\ y = event'[s][m]
    OBVIOUS
  <2>3. CASE Unwound(x, y)
    BY <2>1, <2>2, <2>3 DEF Unwound, Worth
  <2>4. CASE x.status = None /\ y.status = "pending" /\ y.clawed = 0
    BY <2>1, <2>4 DEF Worth, None
  <2> QED BY <2>3, <2>4
<1> QED BY <1>6, <1>7, <1>8 DEF Books, WorthPosted

LEMMA RequeueBooks ==
    ASSUME Shape, Books, NEW a \in Actors, Requeue(a), faults' = 0, faults \in Nat
    PROVE  Books'
<1> PICK x : x = actor[a]
  OBVIOUS
<1>1. x.pc = "idle" /\ Goto(a, "claim") /\ UNCHANGED books
  BY DEF Requeue, At
<1>2. PICK stale \in SUBSET Rows(Schedules, {"processing"}) :
          /\ \/ stale \cap {e \in Rows(Schedules, {"processing"}) :
                    \E f \in UNION {actor[b].todo : b \in Actors} :
                        f.schedule = e.schedule /\ f.month = e.month} = {}
             \/ faults' = faults + 1
          /\ event' = [s \in Schedules |-> [m \in 1..Months |->
                  IF \E e \in stale : e.schedule = s /\ e.month = m
                  THEN [event[s][m] EXCEPT !.status = "pending"] ELSE event[s][m]]]
  BY DEF Requeue
\* Whatever is being processed is held by a worker that lives.
<1>3. stale = {}
  <2> SUFFICES ASSUME NEW e \in stale PROVE FALSE
    OBVIOUS
  <2>1. e \in Rows(Schedules, {"processing"})
    OBVIOUS
  <2>2. e \in Read /\ StatusOf(e) = "processing"
    BY <2>1, RowsAreRead
  <2>3. event[e.schedule][e.month].status = "processing"
    BY <2>2 DEF StatusOf
  <2>4. PICK b \in Actors : Holds(b, e.schedule, e.month)
    BY <2>2, <2>3, ReadRow DEF Books, ClaimsStand
  <2>5. \E f \in UNION {actor[c].todo : c \in Actors} : f.schedule = e.schedule /\ f.month = e.month
    BY <2>4 DEF Holds
  <2>6. faults' # faults + 1
    OBVIOUS
  <2> QED BY <1>2, <2>1, <2>5, <2>6
<1>4. \A s \in Schedules, m \in 1..Months : event'[s][m] = event[s][m]
  BY <1>2, <1>3
<1>5. \A s \in Schedules, m \in 1..Months : Unwound(event[s][m], event'[s][m])
  BY <1>4 DEF Unwound
<1>6. actor' = [actor EXCEPT ![a].pc = "claim"]
  BY <1>1 DEF Goto
<1>7. actor'[a].pc = "claim" /\ \A b \in Actors : b # a => actor'[b] = actor[b]
  <2>1. x = Idle
    BY <1>1 DEF Shape, ActorOK
  <2> PICK r : r = [x EXCEPT !.pc = "claim"]
    OBVIOUS
  <2>2. r.pc = "claim"
    BY <2>1 DEF Idle
  <2>3. actor' = [actor EXCEPT ![a] = r]
    BY <1>6
  <2> QED BY <2>2, <2>3, ActorUpdated DEF Stands
<1>8. "idle" \notin Claiming /\ "claim" \notin Claiming
  BY DEF Claiming
<1> QED BY <1>1, <1>5, <1>7, <1>8, BooksKept DEF books

LEMMA RowsComplete ==
    ASSUME NEW s \in Schedules, NEW m \in 1..Months, NEW status, event[s][m].status = status
    PROVE  \E r \in Rows(Schedules, {status}) :
               r = [schedule |-> s, month |-> m, amount |-> event[s][m].amount]
<1> PICK r : r = [schedule |-> s, month |-> m, amount |-> event[s][m].amount]
  OBVIOUS
<1>1. r.schedule = s /\ r.month = m
  OBVIOUS
<1>2. StatusOf(r) = status
  BY <1>1 DEF StatusOf
<1> QED BY <1>2 DEF Rows

LEMMA HeldProcessing ==
    ASSUME Books, NEW a \in Actors, NEW s, NEW m, Holds(a, s, m)
    PROVE  event[s][m].status = "processing"
<1> PICK e \in actor[a].todo : e.schedule = s /\ e.month = m
  BY DEF Holds
<1>1. event[e.schedule][e.month] = [status |-> "processing", amount |-> e.amount, clawed |-> 0]
  BY DEF Holds, Books, ClaimsStand
<1> QED BY <1>1

LEMMA ClaimBooks ==
    ASSUME Shape, Books, NEW a \in Actors, ClaimDueEvents(a)
    PROVE  Books'
<1> PICK x, due : x = actor[a] /\ due = {e \in Rows(Schedules, {"pending"}) : e.month <= elapsed}
  OBVIOUS
<1>1. x.pc = "claim" /\ posted' = posted
  BY DEF ClaimDueEvents, At, books
<1>2. event' = [s \in Schedules |-> [m \in 1..Months |->
           IF event[s][m].status = "pending" /\ m <= elapsed
           THEN [event[s][m] EXCEPT !.status = "processing"] ELSE event[s][m]]]
  BY DEF ClaimDueEvents
<1>3. \A s \in Schedules, m \in 1..Months :
          /\ event[s][m].status = "pending" /\ m <= elapsed =>
                 \E e \in due : e.schedule = s /\ e.month = m
  BY RowsComplete
<1>4. CASE due = {}
  <2>1. \A s \in Schedules, m \in 1..Months : event'[s][m] = event[s][m]
    BY <1>2, <1>3, <1>4
  <2>2. \A s \in Schedules, m \in 1..Months : Unwound(event[s][m], event'[s][m])
    BY <2>1 DEF Unwound
  <2>3. Stands(a, Idle)
    BY <1>4, DoneReaches DEF ClaimDueEvents, Reaches
  <2>4. x.pc \notin Claiming /\ Idle.pc \notin Claiming
    BY <1>1 DEF Claiming, Idle
  <2> QED BY <1>1, <2>2, <2>3, <2>4, BooksKept DEF Stands
<1>5. CASE due # {}
  <2> PICK r : r = ActorRecord("recognize", x.op, x.schedule, due, x.held, x.left, x.want, x.take, x.taken)
    OBVIOUS
  <2>1. Stands(a, r)
    <3>1. SetsTodo(a, "recognize", due)
      BY <1>5 DEF ClaimDueEvents, SetsTodo
    <3> QED BY <3>1, SetsTodoEnters, ActorUpdated DEF Enters
  <2>2. r.pc = "recognize" /\ r.todo = due
    BY DEF ActorRecord
  <2>3. \A s \in Schedules, m \in 1..Months : event[s][m] \in Event
    BY DEF Shape
  \* A claimed event becomes the row that was read; no other changes.
  <2>4. ASSUME NEW e \in due
        PROVE  /\ e \in Read /\ event[e.schedule][e.month].status = "pending"
               /\ event'[e.schedule][e.month] =
                      [status |-> "processing", amount |-> e.amount, clawed |-> 0]
    <3>1. e \in Read /\ StatusOf(e) = "pending" /\ e.amount = event[e.schedule][e.month].amount
      BY RowsAreRead
    <3> PICK s, m, y : s = e.schedule /\ m = e.month /\ y = event[s][m]
      OBVIOUS
    <3>2. s \in Schedules /\ m \in 1..Months /\ y \in Event /\ m <= elapsed
      BY <3>1, ReadRow
    <3>3. y.status = "pending" /\ y.clawed = 0
      BY <3>1, <3>2 DEF StatusOf, Books, WorthPosted
    <3>4. event'[s][m] = [y EXCEPT !.status = "processing"]
      BY <1>2, <3>2, <3>3
    <3>5. [y EXCEPT !.status = "processing"] = [status |-> "processing", amount |-> y.amount, clawed |-> 0]
      BY <3>2, <3>3 DEF Event
    <3> QED BY <3>1, <3>3, <3>4, <3>5
  <2>5. ASSUME NEW s \in Schedules, NEW m \in 1..Months, ~\E e \in due : e.schedule = s /\ e.month = m
        PROVE  event'[s][m] = event[s][m]
    BY <1>2, <1>3, <2>5
  <2>6. \A b \in Actors, s \in Schedules, m \in 1..Months : Holds(b, s, m) => event[s][m].status = "processing"
    BY HeldProcessing
  <2>7. \A b \in Actors, s \in Schedules, m \in 1..Months :
            /\ b # a => (Holds(b, s, m)' <=> Holds(b, s, m)) /\ (Posting(b, s, m)' <=> Posting(b, s, m))
            /\ b = a => (Holds(b, s, m)' <=> \E e \in due : e.schedule = s /\ e.month = m)
                        /\ ~Posting(b, s, m) /\ ~Posting(b, s, m)' /\ ~Holds(b, s, m)
    BY <1>1, <2>1, <2>2 DEF Stands, Holds, Posting, Claiming
  <2>8. ClaimsStand'
    <3>1. ASSUME NEW b \in Actors, actor'[b].pc \in Claiming, NEW e \in actor'[b].todo
          PROVE  event'[e.schedule][e.month] = [status |-> "processing", amount |-> e.amount, clawed |-> 0]
      <4>1. CASE b = a
        BY <2>1, <2>2, <2>4, <3>1, <4>1 DEF Stands
      <4>2. CASE b # a
        <5>1. actor[b].pc \in Claiming /\ e \in actor[b].todo
          BY <2>1, <3>1, <4>2 DEF Stands
        <5>2. event[e.schedule][e.month] = [status |-> "processing", amount |-> e.amount, clawed |-> 0]
          BY <5>1 DEF Books, ClaimsStand
        <5>3. e \in Read
          BY <5>1 DEF Shape, ActorOK
        <5>4. ASSUME NEW f \in due, f.schedule = e.schedule, f.month = e.month PROVE FALSE
          <6>1. event[e.schedule][e.month].status = "pending"
            BY <2>4, <5>4
          <6> QED BY <5>2, <6>1
        <5> QED BY <2>5, <5>2, <5>3, <5>4, ReadRow
      <4> QED BY <4>1, <4>2
    <3>2. ASSUME NEW s \in Schedules, NEW m \in 1..Months, event'[s][m].status = "processing"
          PROVE  \E b \in Actors : Holds(b, s, m)'
      <4>1. CASE \E e \in due : e.schedule = s /\ e.month = m
        BY <2>7, <4>1
      <4>2. CASE ~\E e \in due : e.schedule = s /\ e.month = m
        <5>1. event[s][m].status = "processing"
          BY <2>5, <3>2, <4>2
        <5>2. PICK b \in Actors : Holds(b, s, m)
          BY <5>1 DEF Books, ClaimsStand
        <5> QED BY <2>7, <5>2
      <4> QED BY <4>1, <4>2
    <3>3. ASSUME NEW b \in Actors, NEW c \in Actors, NEW s \in Schedules, NEW m \in 1..Months,
                 Holds(b, s, m)', Holds(c, s, m)'
          PROVE  b = c
      <4>1. (\E e \in due : e.schedule = s /\ e.month = m) => event[s][m].status = "pending"
        BY <2>4
      <4> QED BY <2>6, <2>7, <3>3, <4>1 DEF Books, ClaimsStand
    <3> QED BY <3>1, <3>2, <3>3 DEF ClaimsStand
  <2>9. OneAtATime'
    BY <2>1, <2>2 DEF Stands, Books, OneAtATime
  <2>10. ASSUME NEW s \in Schedules, NEW m \in 1..Months
         PROVE  /\ posted'[s][m] = Worth(s, m)'
                /\ event'[s][m].status = "pending" => event'[s][m].clawed = 0
    <3>1. posted[s][m] = Worth(s, m) /\ (event[s][m].status = "pending" => event[s][m].clawed = 0)
      BY DEF Books, WorthPosted
    <3>2. (\E b \in Actors : Posting(b, s, m)') <=> (\E b \in Actors : Posting(b, s, m))
      BY <2>7
    <3>3. CASE \E e \in due : e.schedule = s /\ e.month = m
      <4>1. event[s][m].status = "pending" /\ event'[s][m].status = "processing"
        <5> PICK e \in due : e.schedule = s /\ e.month = m
          BY <3>3
        <5>1. event'[s][m] = [status |-> "processing", amount |-> e.amount, clawed |-> 0]
          BY <2>4
        <5> QED BY <2>4, <5>1
      <4>2. ~\E b \in Actors : Posting(b, s, m)'
        <5>1. \A b \in Actors : Posting(b, s, m) => Holds(b, s, m)
          BY DEF Books, OneAtATime, Posting, Holds, Claiming
        <5> QED BY <2>6, <3>2, <4>1, <5>1
      <4> QED BY <1>1, <3>1, <4>1, <4>2 DEF Worth
    <3>4. CASE ~\E e \in due : e.schedule = s /\ e.month = m
      BY <1>1, <2>5, <3>1, <3>2, <3>4 DEF Worth
    <3> QED BY <3>3, <3>4
  <2> QED BY <2>8, <2>9, <2>10 DEF Books, WorthPosted
<1> QED BY <1>4, <1>5

\* A worker posts an event it holds, which nobody posted before.
LEMMA RecordBooks ==
    ASSUME Shape, Types, Books, NEW a \in Actors, RecordRecognition(a)
    PROVE  Books'
<1> PICK x : x = actor[a]
  OBVIOUS
<1>1. PICK e \in x.todo : PostCode2(e.schedule, e.month, e.amount) /\ SetsHeld(a, "mark", {e})
  BY DEF RecordRecognition, SetsHeld
<1>2. x.pc = "recognize" /\ event' = event
  BY DEF RecordRecognition, At, rows
<1> PICK t, n : t = e.schedule /\ n = e.month
  OBVIOUS
<1>3. e \in Read /\ t \in Schedules /\ n \in 1..Months /\ n \in 0..Months /\ e.amount \in Nat
  BY ReadRow DEF Shape, ActorOK
<1>4. event[t][n] = [status |-> "processing", amount |-> e.amount, clawed |-> 0]
  BY <1>2 DEF Books, ClaimsStand, Claiming
<1> PICK r : r = ActorRecord("mark", x.op, x.schedule, x.todo, {e}, x.left, x.want, x.take, x.taken)
  OBVIOUS
<1>5. Stands(a, r)
  BY <1>1, SetsHeldEnters, ActorUpdated DEF Enters
<1>6. r.pc = "mark" /\ r.todo = x.todo /\ r.held = {e}
  BY DEF ActorRecord
<1>7. \A b \in Actors, s \in Schedules, m \in 1..Months : Holds(b, s, m)' <=> Holds(b, s, m)
  BY <1>2, <1>5, <1>6 DEF Stands, Holds, Claiming
<1>8. \A b \in Actors, s \in Schedules, m \in 1..Months :
          /\ b # a => (Posting(b, s, m)' <=> Posting(b, s, m))
          /\ b = a => ~Posting(b, s, m) /\ (Posting(b, s, m)' <=> s = t /\ m = n)
  BY <1>2, <1>5, <1>6 DEF Stands, Posting
<1>9. \A b \in Actors : ~Posting(b, t, n)
  <2> SUFFICES ASSUME NEW b \in Actors, Posting(b, t, n) PROVE FALSE
    OBVIOUS
  <2>1. Holds(b, t, n)
    BY DEF Books, OneAtATime, Posting, Holds, Claiming
  <2>2. Holds(a, t, n)
    BY <1>2 DEF Holds, Claiming
  <2>3. a = b
    BY <1>3, <2>1, <2>2 DEF Books, ClaimsStand
  <2> QED BY <1>3, <1>8, <2>3
<1>10. posted[t][n] = 0
  BY <1>3, <1>4, <1>9 DEF Books, WorthPosted, Worth
<1>11. posted' = [posted EXCEPT ![t][n] = e.amount]
  BY <1>1, <1>10 DEF PostCode2
<1>12. posted'[t][n] = e.amount /\ \A s \in Schedules, m \in 1..Months :
           s # t \/ m # n => posted'[s][m] = posted[s][m]
  <2> PICK f : f = [posted[t] EXCEPT ![n] = e.amount]
    OBVIOUS
  <2>1. posted \in [Schedules -> [0..Months -> Nat]] /\ posted[t] \in [0..Months -> Nat]
    BY <1>3 DEF Types
  <2>2. posted' = [posted EXCEPT ![t] = f]
    BY <1>11
  <2>3. posted'[t] = f /\ \A s \in Schedules : s # t => posted'[s] = posted[s]
    BY <1>3, <2>1, <2>2
  <2>4. f[n] = e.amount /\ \A m \in 1..Months : m # n => f[m] = posted[t][m]
    <3>1. \A m \in 1..Months : m \in 0..Months
      BY RecognitionAssumption
    <3> QED BY <1>3, <2>1, <3>1
  <2> QED BY <2>3, <2>4
<1>13. ClaimsStand'
  <2>1. \A b \in Actors : actor'[b].pc \in Claiming =>
            actor[b].pc \in Claiming /\ actor'[b].todo = actor[b].todo
    BY <1>2, <1>5, <1>6 DEF Stands, Claiming
  <2>2. \A b \in Actors : actor'[b].pc \in Claiming => \A f \in actor'[b].todo :
            event'[f.schedule][f.month] = [status |-> "processing", amount |-> f.amount, clawed |-> 0]
    BY <1>2, <2>1 DEF Books, ClaimsStand
  <2> QED BY <1>2, <1>7, <2>2 DEF Books, ClaimsStand
<1>14. OneAtATime'
  <2>1. actor'[a] = r /\ \A b \in Actors : b # a => actor'[b] = actor[b]
    BY <1>5 DEF Stands
  <2>2. actor'[a].pc = "mark" /\ \E f \in actor'[a].todo : actor'[a].held = {f}
    BY <1>6, <2>1
  <2> QED BY <2>1, <2>2 DEF Books, OneAtATime
<1>15. ASSUME NEW s \in Schedules, NEW m \in 1..Months
       PROVE  /\ posted'[s][m] = Worth(s, m)'
              /\ event'[s][m].status = "pending" => event'[s][m].clawed = 0
  <2>1. posted[s][m] = Worth(s, m) /\ (event[s][m].status = "pending" => event[s][m].clawed = 0)
    BY DEF Books, WorthPosted
  <2>2. CASE s = t /\ m = n
    <3>1. Posting(a, s, m)'
      BY <1>8, <2>2
    <3> QED BY <1>2, <1>4, <1>12, <2>2, <3>1 DEF Worth
  <2>3. CASE s # t \/ m # n
    <3>1. (\E b \in Actors : Posting(b, s, m)') <=> (\E b \in Actors : Posting(b, s, m))
      BY <1>8, <2>3
    <3> QED BY <1>2, <1>12, <2>1, <2>3, <3>1 DEF Worth
  <2> QED BY <2>2, <2>3
<1> QED BY <1>13, <1>14, <1>15 DEF Books, WorthPosted

\* What a worker has posted it marks; what else it claimed it still holds.
LEMMA MarkBooks ==
    ASSUME Shape, Books, NEW a \in Actors, MarkEventRecognized(a)
    PROVE  Books'
<1> PICK x : x = actor[a]
  OBVIOUS
<1>1. x.pc = "mark" /\ GoOn(a) /\ posted' = posted /\ \E e \in x.held : Mark(e, "processing", "recognized")
  BY DEF MarkEventRecognized, At, books
<1>2. PICK e \in x.todo : x.held = {e}
  BY <1>1 DEF Books, OneAtATime
<1> PICK t, n : t = e.schedule /\ n = e.month
  OBVIOUS
<1>3. e \in Read /\ t \in Schedules /\ n \in 1..Months /\ e.amount \in Nat
  BY ReadRow DEF Shape, ActorOK
<1>4. event[t][n] = [status |-> "processing", amount |-> e.amount, clawed |-> 0]
  BY <1>1 DEF Books, ClaimsStand, Claiming
<1>5. Becomes(t, n, [status |-> "recognized", amount |-> e.amount, clawed |-> 0])
  <2>1. StatusOf(e) = "processing" /\ Mark(e, "processing", "recognized")
    BY <1>1, <1>2, <1>4 DEF StatusOf
  <2>2. Becomes(t, n, WithStatus(e, "recognized"))
    BY <1>3, <2>1, Marked DEF Statuses
  <2>3. WithStatus(e, "recognized") = [status |-> "recognized", amount |-> e.amount, clawed |-> 0]
    BY <1>4 DEF WithStatus
  <2> QED BY <2>2, <2>3
<1>6. event'[t][n] = [status |-> "recognized", amount |-> e.amount, clawed |-> 0]
  BY <1>5 DEF Becomes
<1>7. \A s \in Schedules, m \in 1..Months : s # t \/ m # n => event'[s][m] = event[s][m]
  BY <1>5 DEF Becomes
<1>8. PICK r : /\ Stands(a, r)
               /\ \/ r.pc = "idle" /\ x.todo = {e}
                  \/ r.pc = "recognize" /\ r.todo = x.todo \ {e}
  <2>1. CASE x.todo = x.held
    <3>1. Stands(a, Idle)
      BY <1>1, <2>1, DoneReaches DEF GoOn, Reaches
    <3> QED BY <1>2, <2>1, <3>1, IdleOK
  <2>2. CASE x.todo # x.held
    <3>1. SetsTodoHeld(a, "recognize", x.todo \ x.held, {})
      BY <1>1, <2>2 DEF GoOn, SetsTodoHeld, Shape
    <3> PICK r : r = ActorRecord("recognize", x.op, x.schedule, x.todo \ x.held, {}, x.left,
                                 x.want, x.take, x.taken)
      OBVIOUS
    <3>2. Stands(a, r)
      BY <3>1, SetsTodoHeldEnters, ActorUpdated DEF Enters
    <3>3. r.pc = "recognize" /\ r.todo = x.todo \ {e}
      BY <1>2 DEF ActorRecord
    <3> QED BY <3>2, <3>3
  <2> QED BY <2>1, <2>2
\* Nothing else it holds is the event it marks.
<1>9. ASSUME NEW f \in x.todo, f # e PROVE f.schedule # t \/ f.month # n
  <2> SUFFICES ASSUME f.schedule = t, f.month = n PROVE FALSE
    OBVIOUS
  <2>1. event[t][n] = [status |-> "processing", amount |-> f.amount, clawed |-> 0]
    BY <1>1, <1>9 DEF Books, ClaimsStand, Claiming
  <2>2. f.amount = e.amount
    BY <1>4, <2>1
  <2>3. f \in Read
    BY <1>9 DEF Shape, ActorOK
  <2> QED BY <1>3, <1>9, <2>2, <2>3 DEF Read
<1>10. \A s \in Schedules, m \in 1..Months :
           /\ Holds(a, s, m)' <=> Holds(a, s, m) /\ (s # t \/ m # n)
           /\ Holds(a, t, n)
           /\ ~Posting(a, s, m)' /\ (Posting(a, s, m) <=> s = t /\ m = n)
  <2>1. \A s, m : Holds(a, s, m) <=> \E f \in x.todo : f.schedule = s /\ f.month = m
    BY <1>1 DEF Holds, Claiming
  <2>2. \A s, m : Posting(a, s, m) <=> s = t /\ m = n
    BY <1>1, <1>2 DEF Posting
  <2>3. actor'[a] = r
    BY <1>8 DEF Stands
  <2>4. CASE r.pc = "idle" /\ x.todo = {e}
    BY <2>1, <2>2, <2>3, <2>4 DEF Holds, Posting, Claiming
  <2>5. CASE r.pc = "recognize" /\ r.todo = x.todo \ {e}
    <3>1. \A s, m : Holds(a, s, m)' <=> \E f \in x.todo \ {e} : f.schedule = s /\ f.month = m
      BY <2>3, <2>5 DEF Holds, Claiming
    <3>2. \A s, m : ~Posting(a, s, m)'
      BY <2>3, <2>5 DEF Posting
    <3> QED BY <1>9, <2>1, <2>2, <3>1, <3>2
  <2> QED BY <1>8, <2>4, <2>5
<1>11. \A b \in Actors : b # a => actor'[b] = actor[b]
  BY <1>8 DEF Stands
<1>12. \A b \in Actors, s \in Schedules, m \in 1..Months :
           /\ b # a => (Holds(b, s, m)' <=> Holds(b, s, m)) /\ (Posting(b, s, m)' <=> Posting(b, s, m))
           /\ b # a => ~Holds(b, t, n)
  BY <1>3, <1>10, <1>11 DEF Holds, Posting, Books, ClaimsStand
<1>13. ClaimsStand'
  <2>1. ASSUME NEW b \in Actors, actor'[b].pc \in Claiming, NEW f \in actor'[b].todo
        PROVE  event'[f.schedule][f.month] = [status |-> "processing", amount |-> f.amount, clawed |-> 0]
    <3>1. actor[b].pc \in Claiming /\ f \in actor[b].todo /\ (b = a => f # e)
      BY <1>1, <1>8, <1>11, <2>1 DEF Stands, Claiming
    <3>2. event[f.schedule][f.month] = [status |-> "processing", amount |-> f.amount, clawed |-> 0]
      BY <3>1 DEF Books, ClaimsStand
    <3>3. f \in Read
      BY <3>1 DEF Shape, ActorOK
    <3>4. f.schedule # t \/ f.month # n
      <4>1. CASE b = a
        BY <1>9, <3>1, <4>1
      <4>2. CASE b # a
        <5>1. f.schedule = t /\ f.month = n => Holds(b, t, n)
          BY <3>1 DEF Holds
        <5> QED BY <1>3, <1>12, <4>2, <5>1
      <4> QED BY <4>1, <4>2
    <3> QED BY <1>7, <3>2, <3>3, <3>4, ReadRow
  <2>2. ASSUME NEW s \in Schedules, NEW m \in 1..Months, event'[s][m].status = "processing"
        PROVE  \E b \in Actors : Holds(b, s, m)'
    <3>1. s # t \/ m # n
      BY <1>6, <2>2
    <3>2. event[s][m].status = "processing"
      BY <1>7, <2>2, <3>1
    <3>3. PICK b \in Actors : Holds(b, s, m)
      BY <3>2 DEF Books, ClaimsStand
    <3> QED BY <1>10, <1>12, <3>1, <3>3
  <2>3. \A b \in Actors, s \in Schedules, m \in 1..Months : Holds(b, s, m)' => Holds(b, s, m)
    BY <1>10, <1>12
  <2>4. \A b, c \in Actors : \A s \in Schedules, m \in 1..Months :
            Holds(b, s, m)' /\ Holds(c, s, m)' => b = c
    BY <2>3 DEF Books, ClaimsStand
  <2> QED BY <2>1, <2>2, <2>4 DEF ClaimsStand
<1>14. OneAtATime'
  BY <1>8, <1>11 DEF Stands, Books, OneAtATime
<1>15. ASSUME NEW s \in Schedules, NEW m \in 1..Months
       PROVE  /\ posted'[s][m] = Worth(s, m)'
              /\ event'[s][m].status = "pending" => event'[s][m].clawed = 0
  <2>1. posted[s][m] = Worth(s, m) /\ (event[s][m].status = "pending" => event[s][m].clawed = 0)
    BY DEF Books, WorthPosted
  <2>2. CASE s = t /\ m = n
    <3>1. \E b \in Actors : Posting(b, t, n)
      BY <1>3, <1>10
    <3>2. posted[t][n] = e.amount
      BY <1>4, <2>1, <2>2, <3>1 DEF Worth
    <3>3. Worth(t, n)' = e.amount
      BY <1>3, <1>6 DEF Worth
    <3> QED BY <1>1, <1>6, <2>2, <3>2, <3>3
  <2>3. CASE s # t \/ m # n
    <3>1. (\E b \in Actors : Posting(b, s, m)') <=> (\E b \in Actors : Posting(b, s, m))
      BY <1>10, <1>12, <2>3
    <3> QED BY <1>1, <1>7, <2>1, <2>3, <3>1 DEF Worth
  <2> QED BY <2>2, <2>3
<1> QED BY <1>13, <1>14, <1>15 DEF Books, WorthPosted

\* An unwind that is posted is posted by schedule, not for one of its events.
LEMMA EventsUnposted ==
    ASSUME Types, NEW a \in Actors, Billing(a) \/ Unwinding(a)
    PROVE  \A s \in Schedules, m \in 1..Months : posted'[s][m] = posted[s][m]
<1>1. CASE posted' = posted
  BY <1>1
<1>2. CASE PostUnwind(a)
  <2>1. PICK t, amount : posted' = posted \/ posted' = [posted EXCEPT ![t][0] = amount]
    BY <1>2 DEF PostUnwind, PostCode2
  <2>2. \A m \in 1..Months : m # 0 /\ m \in 0..Months
    BY RecognitionAssumption
  <2> QED BY <2>1, <2>2 DEF Types
<1>3. CASE Billing(a)
  BY <1>1, <1>3 DEF Billing, Issue, Settle, RecordWriteOffRecovery, CheckSchedule,
                    ConsumeScheduleDebt, CreateSchedule, CreateEvents, books
<1>4. CASE Unwinding(a)
  BY <1>1, <1>2, <1>4
     DEF Unwinding, Cancel, Refund, Downgrade, WriteOff, Request, ReadRecognized,
         RecordInvoiceWriteOff, FindSchedules, ListPending, RemoveEvent, CloseSchedule,
         ListRecognized, ReverseRecognized, AddScheduleDebt, RecordDowngradeCredit, books
<1> QED BY <1>3, <1>4

LEMMA NotClaiming ==
    ASSUME NEW a \in Actors, Billing(a) \/ Unwinding(a)
    PROVE  actor[a].pc \notin Claiming
BY DEF Claiming, At, Billing, Issue, Settle, RecordWriteOffRecovery, CheckSchedule,
       ConsumeScheduleDebt, CreateSchedule, CreateEvents,
       Unwinding, Cancel, Refund, Downgrade, WriteOff, Request, ReadRecognized,
       RecordInvoiceWriteOff, FindSchedules, ListPending, RemoveEvent, CloseSchedule, PostUnwind,
       ListRecognized, ReverseRecognized, AddScheduleDebt, RecordDowngradeCredit

LEMMA RequestBooks ==
    ASSUME EventInv, Types, Books, NEW a \in Actors, Billing(a) \/ Unwinding(a)
    PROVE  Books'
<1>1. Shape /\ actor[a].pc \notin Claiming
  BY NotClaiming DEF EventInv
<1>2. actor'[a].pc \notin Claiming /\ \A b \in Actors : b # a => actor'[b] = actor[b]
  <2>1. CASE actor' = actor
    BY <1>1, <2>1
  <2>2. CASE actor' # actor
    BY <1>1, <2>2, BillingLeads, UnwindingLeads DEF Leads, Reaches, Stands
  <2> QED BY <2>1, <2>2
<1>3. ASSUME NEW s \in Schedules, NEW m \in 1..Months
      PROVE  \/ Unwound(event[s][m], event'[s][m])
             \/ /\ event[s][m].status = None
                /\ event'[s][m].status = "pending" /\ event'[s][m].clawed = 0
  <2>1. CASE CreateEvents(a)
    <3>1. \A k \in 1..Months : event[actor[a].schedule][k].status = None
      BY <2>1 DEF CreateEvents, At, EventInv, InsertsOnce
    <3>2. CASE s = actor[a].schedule
      BY <2>1, <3>1, <3>2, EventsCreated
    <3>3. CASE s # actor[a].schedule
      BY <2>1, <3>3, EventsCreated DEF Unwound
    <3> QED BY <3>2, <3>3
  <2>2. CASE ~CreateEvents(a)
    BY <1>1, <2>2, StepUnwinds DEF EventsUnwound
  <2> QED BY <2>1, <2>2
<1> QED BY <1>1, <1>2, <1>3, EventsUnposted, BooksKept

LEMMA BooksUnchanged ==
    ASSUME Books, UNCHANGED <<event, actor, posted>>
    PROVE  Books'
BY DEF Books, ClaimsStand, OneAtATime, WorthPosted, Worth, Holds, Posting

LEMMA FaultsStay ==
    ASSUME Types, [Next]_vars, faults' = 0
    PROVE  faults = 0 /\ \A a \in Actors : ~Crash(a) /\ ~RecognitionFails(a)
<1>1. faults \in Nat
  BY RecognitionAssumption DEF Types
<1>2. \A a \in Actors : ~Crash(a) /\ ~RecognitionFails(a)
  BY <1>1 DEF Crash, RecognitionFails
<1>3. CASE faults' = faults
  BY <1>2, <1>3
<1>4. CASE faults' = faults + 1
  BY <1>1, <1>4
<1>5. ASSUME NEW a \in Actors, Worker(a) PROVE faults = 0
  BY <1>2, <1>3, <1>4, <1>5
     DEF Worker, Requeue, ClaimDueEvents, RecordRecognition, MarkEventRecognized, MarkEventFailed, clock
<1>6. ASSUME NEW a \in Actors, Billing(a) PROVE faults = 0
  BY <1>3, <1>6 DEF Billing, Issue, Settle, RecordWriteOffRecovery, CheckSchedule,
                    ConsumeScheduleDebt, CreateSchedule, CreateEvents, clock
<1>7. ASSUME NEW a \in Actors, Unwinding(a) PROVE faults = 0
  BY <1>3, <1>7
     DEF Unwinding, Cancel, Refund, Downgrade, WriteOff, Request, ReadRecognized,
         RecordInvoiceWriteOff, FindSchedules, ListPending, RemoveEvent, CloseSchedule, PostUnwind,
         ListRecognized, ReverseRecognized, AddScheduleDebt, RecordDowngradeCredit, clock
<1>8. CASE NextMonth \/ Return \/ UNCHANGED vars
  BY <1>3, <1>8 DEF NextMonth, Return, clock, vars
<1> QED BY <1>2, <1>5, <1>6, <1>7, <1>8 DEF Next

PostInv == faults = 0 => Books

LEMMA StepPosted == EventInv /\ Types /\ PostInv /\ [Next]_vars => PostInv'
<1> SUFFICES ASSUME EventInv, Types, Books, [Next]_vars, faults' = 0, faults = 0 PROVE Books'
  BY FaultsStay DEF PostInv
<1>1. Shape /\ faults \in Nat
  BY DEF EventInv
<1>2. \A a \in Actors : ~Crash(a) /\ ~RecognitionFails(a)
  BY FaultsStay
<1>3. ASSUME NEW a \in Actors, Worker(a) PROVE Books'
  <2>1. ~MarkEventFailed(a)
    BY DEF MarkEventFailed, At, Books, OneAtATime
  <2> QED BY <1>1, <1>2, <1>3, <2>1, RequeueBooks, ClaimBooks, RecordBooks, MarkBooks DEF Worker
<1>4. CASE NextMonth \/ Return \/ UNCHANGED vars
  BY <1>4, BooksUnchanged DEF NextMonth, Return, rows, books, vars
<1> QED BY <1>2, <1>3, <1>4, RequestBooks DEF Next

LEMMA InitPosted == Init => PostInv
<1> SUFFICES ASSUME Init PROVE Books
  BY DEF PostInv
<1>1. \A a \in Actors : actor[a].pc = "idle"
  BY DEF Init, Idle
<1>2. \A s \in Schedules, m \in 1..Months : event[s][m].status = None /\ posted[s][m] = 0
  BY DEF Init, NoEvent
<1> QED BY <1>1, <1>2 DEF Books, ClaimsStand, OneAtATime, WorthPosted, Worth, Holds, Claiming, None

\* PostedMatchesEvents: as long as no worker dies and no posting fails, exactly what the
\* events say was recognized has left Deferred Revenue for each of them, however often a
\* worker requeues, two workers run and an unwind cancels or reduces what one of them reads.
THEOREM PostingsMatchEvents == Spec => []PostedMatchesEvents
<1>1. ASSUME PostInv PROVE PostedMatchesEvents
  <2> SUFFICES ASSUME Books PROVE PostedMatchesEvents
    BY <1>1 DEF PostInv, PostedMatchesEvents
  <2>1. \A s \in Schedules, m \in 1..Months : posted[s][m] = Worth(s, m)
    BY DEF Books, WorthPosted
  <2> QED BY <2>1 DEF Worth, PostedMatchesEvents
<1>2. Spec => []PostInv
  BY Always, AlwaysTyped, InitPosted, StepPosted, PTL DEF Spec
<1> QED BY <1>1, <1>2, PTL

----------------------------------------------------------------------------
(* Who may do what when, and where every cent of Deferred Revenue is.      *)

\* The invoice is paid for good at most once, and scheduled only then.
Once == "accrual" \notin life /\ "return" \notin life
\* On the way to the check, the schedule and its events.
Billings == Early \cup {"events"}
WritingOff == {a \in Actors : actor[a].op = "writeOff"}

\* Where the request of an actor's record r may be.
Placed(r) ==
    /\ r.op \in life \cup {None}
    /\ r.op \in {"cancel", "writeOff"} => r.op \in asked
    /\ r.op = "refund" /\ "return" \notin life => invoice = "paid"
    /\ r.pc = "recover" => "writeOff" \in asked /\ invoice # "uncollectible"
    /\ r.pc \in {"recognized", "clawBack", "owe", "credit"} => r.op = "downgrade"
    /\ r.pc = "close" => r.op # "downgrade"
    /\ r.pc = "post" => r.op \in {"cancel", "refund"}
    /\ r.pc \in {"list", "remove", "close", "post"} => r.left \subseteq Scheduled
    /\ r.pc = "list" => r.left # {}
    /\ r.pc \in {"remove", "close", "post"} => r.schedule \in Scheduled \ r.left

\* What holds of requests and payments whatever else goes wrong.
Asked ==
    /\ "return" \in asked => "return" \in life
    /\ "writeOff" \notin asked => writtenOff = 0 /\ invoice # "uncollectible"
    /\ "cancel" \notin asked => \A s \in Schedules : posted[s][0] = 0
    /\ "downgrade" \notin life => debt = 0
    /\ invoice = "new" => /\ asked = {} /\ deferred = 0 /\ Scheduled = {}
                          /\ \A a \in Actors : actor[a].pc \in {"idle", "claim"}
PaidOnce == Once =>
    /\ invoice # "paid" => Scheduled = {} /\ \A a \in Actors : actor[a].pc \notin Billings
    /\ \A a, b \in Actors : actor[a].pc \in Billings /\ actor[b].pc \in Billings => a = b
    /\ (\E a \in Actors : actor[a].pc \in Early) => Scheduled = {}
Requested ==
    /\ \A a, b \in Actors : actor[a].op \in {"cancel", "writeOff"} /\ actor[b].op = actor[a].op => a = b
    /\ \A a \in Actors : Placed(actor[a])
Lawful == Asked /\ PaidOnce /\ Requested

\* The invoice is about to be scheduled anew, or to be found out.
Twice == \E s, t \in Scheduled : s # t
Anew == Scheduled # {} /\ Active = {} /\ \E a \in Actors : actor[a].pc \in Early
Doomed == WritingOff # {} /\ \E a \in Actors : actor[a].pc = "check"
Out == Twice \/ Anew \/ Doomed

\* The amount of the event of month m among those of t.
TodoAmount(t, m) ==
    IF \E e \in t : e.month = m THEN (CHOOSE e \in t : e.month = m).amount ELSE 0
TodoSum(t) == SumOver([m \in 1..Months |-> TodoAmount(t, m)])

\* How far the request of an actor's record r is, where nothing is out.
Kept(r) ==
    /\ r.pc = "list" => r.taken = 0
    /\ r.op = "cancel" => \A s \in Schedules : posted[s][0] = 0
    /\ r.op = "writeOff" =>
         /\ r.pc \in {"read", "writeOff", "find"} /\ Scheduled # {} => Active # {}
         /\ writtenOff = (IF r.pc \in {"read", "writeOff"} THEN 0 ELSE r.want)
         /\ r.pc \in {"writeOff", "find", "list"} => r.want = Net - Least(r.take, Net)
         /\ r.pc = "remove" => /\ TodoSum(r.todo) = r.want - r.taken
                               /\ \A e, f \in r.todo : e.month = f.month => e = f
         /\ r.pc = "close" => r.taken = r.want

Recovering == \E a \in Actors : actor[a].pc = "recover"

\* One actor at a time schedules the invoice, and only one that has no schedule.
OneScheduler == \A a, b \in Actors :
    {actor[a].pc, actor[b].pc} \subseteq {"consume", "insert", "events"} => a = b
ScheduledOnce == (\E a \in Actors : actor[a].pc \in {"consume", "insert"}) => Scheduled = {}
ToBeScheduled == ~Once /\ invoice # "new" /\ Scheduled = {} => Unscheduled \/ Underway
\* A write-off that is paid after all is recovered.
PaidRecovers == WritingOff # {} /\ invoice # "uncollectible" => Recovering
OffRecovers == writtenOff # 0 => invoice = "uncollectible" \/ Recovering
\* A write-off finds the schedule open, and leaves nothing of it.
OpenBefore ==
    ~Once /\ "writeOff" \in life \ asked /\ (invoice # "paid" \/ "return" \in life) => Active = Scheduled
ClosedAfter == invoice = "uncollectible" /\ WritingOff = {} =>
    (Scheduled # {} /\ Active = {}) \/ (Scheduled = {} /\ Scheduling = {})
Orderly ==
    /\ OneScheduler /\ ScheduledOnce /\ ToBeScheduled
    /\ PaidRecovers /\ OffRecovers /\ OpenBefore /\ ClosedAfter
InTime == \A a \in Actors : Kept(actor[a])

\* What the events and the debt say is still deferred, of what was scheduled.
StillDeferred == StillToRecognize - debt
\* What is written off and was in no schedule, or is still in one.
Outstanding ==
    IF invoice = "uncollectible" /\ Scheduled # {} /\ WritingOff = {} THEN 0 ELSE writtenOff
\* What an actor has taken out of the schedules or the debt and not posted, or the other way
\* around.
Moving(r) ==
    IF r.pc \in {"insert", "events"} THEN r.want
    ELSE IF r.pc \in {"list", "remove", "close", "post"} THEN r.taken
    ELSE IF r.pc \in {"recognized", "clawBack", "owe"} THEN r.want - r.take - r.taken
    ELSE IF r.pc = "credit" THEN r.want - r.taken
    ELSE IF r.pc = "mark" THEN -((CHOOSE e \in r.held : TRUE).amount)
    ELSE 0
InMotion == SumOver([a \in Actors |-> Moving(actor[a])])
Accounts ==
    deferred = StillDeferred + (IF Fresh THEN Net ELSE 0) - Outstanding + InMotion

DeferralInv == faults # 0 \/ misled \/ (Lawful /\ (Out \/ (Orderly /\ InTime /\ Accounts)))
----------------------------------------------------------------------------
(* What the sums come to.                                                  *)

LEMMA SumOverIs ==
    ASSUME NEW D, NEW f, DOMAIN f = D
    PROVE  SumOver(f) = SumFunctionOnSet(f, D)
BY Zenon DEF SumOver, FoldFunction, SumFunctionOnSet

LEMMA MonthsFinite == IsFiniteSet(1..Months)
BY FS_Interval, RecognitionAssumption

\* The amount of an event that is still to be recognized.
Open == {"pending", "processing", "failed"}
OpenWorth(x) == IF x.status \in Open THEN x.amount ELSE 0
Gross == SumOver([s \in Schedules |-> Amount(s, Open)])

LEMMA StillIs == StillDeferred = Gross - debt /\ StillDeferred' = Gross' - debt'
BY DEF StillDeferred, StillToRecognize, Gross, Open

LEMMA AmountsNat == Shape => \A s \in Schedules : Amount(s, Open) \in Nat
BY AmountNat

LEMMA GrossNat == ASSUME Shape PROVE Gross \in Nat
<1> PICK f : f = [s \in Schedules |-> Amount(s, Open)]
  OBVIOUS
<1>1. \A s \in Schedules : f[s] \in Nat
  BY AmountNat
<1>2. SumOver(f) \in Nat
  BY <1>1, SumOverNat, RecognitionAssumption
<1> QED BY <1>2 DEF Gross

\* Events that are worth the same come to the same.
LEMMA SameGross ==
    ASSUME \A s \in Schedules, m \in 1..Months : OpenWorth(event'[s][m]) = OpenWorth(event[s][m])
    PROVE  Gross' = Gross
<1>1. ASSUME NEW s \in Schedules PROVE Amount(s, Open)' = Amount(s, Open)
  <2> PICK f, g : /\ f = [m \in 1..Months |-> OpenWorth(event[s][m])]
                  /\ g = [m \in 1..Months |-> OpenWorth(event'[s][m])]
    OBVIOUS
  <2>1. f = g
    OBVIOUS
  <2>2. Amount(s, Open) = SumOver(f) /\ Amount(s, Open)' = SumOver(g)
    BY DEF Amount, OpenWorth
  <2> QED BY <2>1, <2>2
<1> PICK f, g : /\ f = [s \in Schedules |-> Amount(s, Open)]
                /\ g = [s \in Schedules |-> Amount(s, Open)']
  OBVIOUS
<1>2. f = g
  BY <1>1
<1>3. Gross = SumOver(f) /\ Gross' = SumOver(g)
  BY DEF Gross
<1> QED BY <1>2, <1>3

\* One schedule is worth d more.
LEMMA OneSchedule ==
    ASSUME Shape, Shape', NEW t \in Schedules,
           \A s \in Schedules : s # t => event'[s] = event[s]
    PROVE  Gross' = Gross - Amount(t, Open) + Amount(t, Open)'
<1> PICK f, g : /\ f = [s \in Schedules |-> Amount(s, Open)]
                /\ g = [s \in Schedules |-> Amount(s, Open)']
  OBVIOUS
<1>1. \A s \in Schedules : f[s] \in Int /\ g[s] \in Int
  <2>1. \A s \in Schedules : Amount(s, Open) \in Nat
    BY AmountNat
  <2>2. (\A s \in Schedules : Amount(s, Open) \in Nat)'
    <3>1. Shape' => (\A s \in Schedules : Amount(s, Open) \in Nat)'
      BY AmountsNat, PTL
    <3> QED BY <3>1
  <2> QED BY <2>1, <2>2
<1>2. \A s \in Schedules : s # t => g[s] = f[s]
  BY DEF Amount
<1>3. Gross = SumOver(f) /\ Gross' = SumOver(g)
  BY DEF Gross
<1>4. SumOver(f) = SumFunctionOnSet(f, Schedules) /\ SumOver(g) = SumFunctionOnSet(g, Schedules)
  <2>1. DOMAIN f = Schedules /\ DOMAIN g = Schedules
    OBVIOUS
  <2> QED BY <2>1, SumOverIs
<1>5. SumFunctionOnSet(g, Schedules) = SumFunctionOnSet(f, Schedules) - f[t] + g[t]
  BY <1>1, <1>2, SumReplace, RecognitionAssumption
<1>6. f[t] = Amount(t, Open) /\ g[t] = Amount(t, Open)'
  OBVIOUS
<1> QED BY <1>3, <1>4, <1>5, <1>6

\* An event that becomes y is worth as much more as y is.
LEMMA OneEvent ==
    ASSUME Shape, Shape', NEW t \in Schedules, NEW n \in 1..Months, NEW y, Becomes(t, n, y)
    PROVE  Gross' = Gross - OpenWorth(event[t][n]) + OpenWorth(y)
<1> PICK f, g : /\ f = [m \in 1..Months |-> OpenWorth(event[t][m])]
                /\ g = [m \in 1..Months |-> OpenWorth(event'[t][m])]
  OBVIOUS
<1>1. \A s \in Schedules, m \in 1..Months : event[s][m] \in Event /\ event'[s][m] \in Event
  BY DEF Shape
<1>2. \A m \in 1..Months : f[m] \in Int /\ g[m] \in Int
  BY <1>1 DEF OpenWorth, Event
<1>3. \A m \in 1..Months : m # n => g[m] = f[m]
  BY DEF Becomes
<1>4. Amount(t, Open) = SumOver(f) /\ Amount(t, Open)' = SumOver(g)
  BY DEF Amount, OpenWorth
<1>5. SumOver(f) = SumFunctionOnSet(f, 1..Months) /\ SumOver(g) = SumFunctionOnSet(g, 1..Months)
  <2>1. DOMAIN f = 1..Months /\ DOMAIN g = 1..Months
    OBVIOUS
  <2> QED BY <2>1, SumOverIs
<1>6. SumFunctionOnSet(g, 1..Months) = SumFunctionOnSet(f, 1..Months) - f[n] + g[n]
  <2> PICK D : D = 1..Months
    OBVIOUS
  <2>1. /\ IsFiniteSet(D) /\ n \in D /\ \A m \in D : f[m] \in Int /\ g[m] \in Int
        /\ \A m \in D : m # n => g[m] = f[m]
    BY <1>2, <1>3, MonthsFinite
  <2>2. SumFunctionOnSet(g, D) = SumFunctionOnSet(f, D) - f[n] + g[n]
    BY ONLY <2>1, SumReplace, ZenonT(60)
  <2> QED BY <2>2
<1>7. f[n] = OpenWorth(event[t][n]) /\ g[n] = OpenWorth(y)
  BY DEF Becomes
<1>8. \A s \in Schedules : s # t => event'[s] = event[s]
  <2> SUFFICES ASSUME NEW s \in Schedules, s # t PROVE event'[s] = event[s]
    OBVIOUS
  <2>1. event[s] \in [1..Months -> Event] /\ event'[s] \in [1..Months -> Event]
    BY DEF Shape
  <2>2. \A m \in 1..Months : event'[s][m] = event[s][m]
    BY DEF Becomes
  <2> PICK u, v, D : u = event[s] /\ v = event'[s] /\ D = 1..Months
    OBVIOUS
  <2>3. u \in [D -> Event] /\ v \in [D -> Event] /\ \A m \in D : v[m] = u[m]
    BY <2>1, <2>2
  <2>4. v = u
    BY ONLY <2>3
  <2> QED BY <2>4
<1>9. Gross' = Gross - Amount(t, Open) + Amount(t, Open)'
  BY <1>8, OneSchedule
<1>10. Gross \in Nat /\ Amount(t, Open) \in Nat /\ OpenWorth(event[t][n]) \in Int /\ g[n] \in Int
  BY <1>2, <1>7, GrossNat, AmountNat
<1> QED BY <1>4, <1>5, <1>6, <1>7, <1>9, <1>10

LEMMA MovingInt ==
    ASSUME Shape, OneAtATime, NEW a \in Actors
    PROVE  Moving(actor[a]) \in Int
<1> PICK x : x = actor[a]
  OBVIOUS
<1>1. ActorOK(x)
  BY DEF Shape
<1>2. x.pc = "mark" => (CHOOSE e \in x.held : TRUE).amount \in Nat
  <2> SUFFICES ASSUME x.pc = "mark" PROVE (CHOOSE e \in x.held : TRUE).amount \in Nat
    OBVIOUS
  <2>1. PICK e \in x.todo : x.held = {e}
    BY DEF OneAtATime
  <2>2. (CHOOSE f \in x.held : TRUE) = e
    BY <2>1
  <2> QED BY <1>1, <2>1, <2>2 DEF ActorOK, Read
<1> QED BY <1>1, <1>2 DEF Moving, ActorOK

AllMovingInt == \A a \in Actors : Moving(actor[a]) \in Int
LEMMA MovingsInt == Shape /\ OneAtATime => AllMovingInt
BY MovingInt DEF AllMovingInt

\* What is in motion changes with the actor that takes the step.
LEMMA MotionOf ==
    ASSUME Shape, Shape', OneAtATime, OneAtATime', NEW a \in Actors, NEW r, Stands(a, r)
    PROVE  /\ InMotion' = InMotion - Moving(actor[a]) + Moving(r)
           /\ InMotion \in Int /\ Moving(actor[a]) \in Int /\ Moving(r) \in Int
<1> PICK f, g : /\ f = [b \in Actors |-> Moving(actor[b])]
                /\ g = [b \in Actors |-> Moving(actor'[b])]
  OBVIOUS
<1>1. \A b \in Actors : f[b] \in Int /\ g[b] \in Int
  <2>1. \A b \in Actors : Moving(actor[b]) \in Int
    BY MovingInt
  <2>2. Shape' /\ OneAtATime' => AllMovingInt'
    BY MovingsInt, PTL
  <2>3. \A b \in Actors : Moving(actor'[b]) \in Int
    BY <2>2 DEF AllMovingInt, Moving
  <2> QED BY <2>1, <2>3
<1>2. \A b \in Actors : b # a => g[b] = f[b]
  BY DEF Stands
<1>3. InMotion = SumOver(f) /\ InMotion' = SumOver(g)
  BY DEF InMotion, Moving
<1>4. SumOver(f) = SumFunctionOnSet(f, Actors) /\ SumOver(g) = SumFunctionOnSet(g, Actors)
  <2>1. DOMAIN f = Actors /\ DOMAIN g = Actors
    OBVIOUS
  <2> QED BY <2>1, SumOverIs
<1>5. SumFunctionOnSet(g, Actors) = SumFunctionOnSet(f, Actors) - f[a] + g[a]
  BY <1>1, <1>2, SumReplace, RecognitionAssumption
<1>6. SumFunctionOnSet(f, Actors) \in Int
  BY <1>1, SumInt, RecognitionAssumption
<1>7. f[a] = Moving(actor[a]) /\ g[a] = Moving(r)
  BY DEF Stands
<1> QED BY <1>1, <1>3, <1>4, <1>5, <1>6, <1>7

\* The same amount over and over comes to as many times that amount.
LEMMA SumConstant ==
    ASSUME NEW D, IsFiniteSet(D), NEW c \in Int, NEW f, \A d \in D : f[d] = c
    PROVE  SumFunctionOnSet(f, D) = Cardinality(D) * c
<1> DEFINE T == {s \in SUBSET D : SumFunctionOnSet(f, s) # Cardinality(s) * c}
<1> SUFFICES ASSUME T # {} PROVE FALSE
  <2>1. D \in SUBSET D
    OBVIOUS
  <2> QED BY <2>1, Zenon
<1>1. PICK x \in T : \A y \in SUBSET x : y # x => y \notin T
  <2>1. T \subseteq SUBSET D
    OBVIOUS
  <2> HIDE DEF T
  <2> QED BY <2>1, MinimalSet
<1>2. x \in SUBSET D /\ SumFunctionOnSet(f, x) # Cardinality(x) * c
  OBVIOUS
<1>3. IsFiniteSet(x)
  BY <1>2, FS_Subset
<1>4. x # {}
  BY <1>2, SumEmpty, FS_EmptySet
<1> DEFINE p == Chosen(x)
           y == x \ {p}
<1>5. p \in x /\ p \in D
  BY <1>2, <1>4, ChosenIn
<1>6. SumFunctionOnSet(f, x) = f[p] + SumFunctionOnSet(f, y)
  BY <1>3, <1>4, SumUnfold
<1>7. y \in SUBSET x /\ y # x /\ y \in SUBSET D
  BY <1>2, <1>5
<1>8. SumFunctionOnSet(f, y) = Cardinality(y) * c
  BY <1>1, <1>7
<1>9. Cardinality(y) = Cardinality(x) - 1 /\ Cardinality(x) \in Nat
  BY <1>3, <1>5, FS_RemoveElement, FS_CardinalityType
<1>10. f[p] = c
  BY <1>5
<1> HIDE DEF y, p, T
<1>11. \A k \in Nat : c + (k - 1) * c = k * c
  OBVIOUS
<1> QED BY <1>2, <1>6, <1>8, <1>9, <1>10, <1>11

\* The months of a schedule come to what it is for.
LEMMA AllocationComplete ==
    ASSUME NEW w \in Nat
    PROVE  SumOver(CalculateMonthlyAllocation(w)) = w
<1> PICK q, k, D : q = w \div Months /\ k = w % Months /\ D = 1..Months
  OBVIOUS
<1> PICK f, g, h : /\ f = [m \in D |-> q] /\ g = [m \in D |-> IF m = Months THEN k ELSE 0]
                   /\ h = CalculateMonthlyAllocation(w)
  OBVIOUS
<1>1. Months \in Nat /\ Months > 0
  BY RecognitionAssumption
<1>2. q \in Nat /\ k \in Nat
  BY <1>1
<1>3. w = Months * q + k
  BY <1>1
<1>4. IsFiniteSet(D) /\ Cardinality(D) = Months /\ Months \in D
  BY <1>1, FS_Interval
<1>5. SumFunctionOnSet(f, D) = Months * q
  <2>1. \A m \in D : f[m] = q
    OBVIOUS
  <2> QED BY ONLY <1>2, <1>4, <2>1, SumConstant
<1>6. SumFunctionOnSet(g, D) = k
  <2> PICK z : z = [m \in D |-> 0]
    OBVIOUS
  <2>1. \A m \in D : z[m] = 0 /\ z[m] \in Int /\ g[m] \in Int /\ (m # Months => g[m] = z[m])
    BY <1>2
  <2>2. SumFunctionOnSet(z, D) = 0
    BY ONLY <1>4, <2>1, SumZero
  <2>3. SumFunctionOnSet(g, D) = SumFunctionOnSet(z, D) - z[Months] + g[Months]
    BY ONLY <1>4, <2>1, SumReplace
  <2>4. z[Months] = 0 /\ g[Months] = k
    BY <1>4
  <2> QED BY <1>2, <2>2, <2>3, <2>4
<1>7. SumFunctionOnSet(h, D) = SumFunctionOnSet(f, D) + SumFunctionOnSet(g, D)
  <2>1. \A m \in D : h[m] = f[m] + g[m] /\ f[m] \in Int /\ g[m] \in Int
    BY <1>2 DEF CalculateMonthlyAllocation
  <2> QED BY ONLY <1>4, <2>1, SumOfSums
<1>8. SumOver(h) = SumFunctionOnSet(h, D)
  <2>1. DOMAIN h = D
    BY DEF CalculateMonthlyAllocation
  <2> QED BY <2>1, SumOverIs
<1> QED BY <1>3, <1>5, <1>6, <1>7, <1>8

LEMMA CreatedGross ==
    ASSUME EventInv, EventInv', NEW a \in Actors, CreateEvents(a)
    PROVE  Gross' = Gross + actor[a].want
<1> PICK t, w : t = actor[a].schedule /\ w = actor[a].want
  OBVIOUS
<1>1. actor[a].pc = "events" /\ t \in Schedules /\ \A s \in Schedules : s # t => event'[s] = event[s]
  BY EventsCreated
<1>2. Shape /\ Shape' /\ w \in Nat
  BY DEF EventInv, Shape, ActorOK
<1>3. Gross' = Gross - Amount(t, Open) + Amount(t, Open)'
  BY <1>1, <1>2, OneSchedule
<1>4. Amount(t, Open) = 0
  <2> PICK f, D : D = 1..Months /\ f = [m \in D |-> OpenWorth(event[t][m])]
    OBVIOUS
  <2>0. IsFiniteSet(D)
    BY MonthsFinite
  <2>1. \A m \in D : f[m] = 0
    BY <1>1 DEF EventInv, InsertsOnce, OpenWorth, Open, None
  <2>2. SumFunctionOnSet(f, D) = 0
    BY ONLY <2>1, <2>0, SumZero
  <2>3. Amount(t, Open) = SumOver(f) /\ DOMAIN f = D
    BY DEF Amount, OpenWorth
  <2> QED BY <2>2, <2>3, SumOverIs
<1>5. Amount(t, Open)' = w
  <2> PICK h, g : /\ h = CalculateMonthlyAllocation(w)
                  /\ g = [m \in 1..Months |-> OpenWorth(event'[t][m])]
    OBVIOUS
  <2>1. event' = [event EXCEPT ![t] =
            [m \in 1..Months |-> [status |-> "pending", amount |-> h[m], clawed |-> 0]]]
    BY DEF CreateEvents
  <2>2. event'[t] = [m \in 1..Months |-> [status |-> "pending", amount |-> h[m], clawed |-> 0]]
    BY <1>1, <1>2, <2>1 DEF Shape
  <2>3. \A m \in 1..Months : g[m] = h[m]
    BY <2>2 DEF OpenWorth, Open
  <2>4. g = h
    BY <2>3 DEF CalculateMonthlyAllocation
  <2>5. Amount(t, Open)' = SumOver(g)
    BY DEF Amount, OpenWorth
  <2> QED BY <1>2, <2>4, <2>5, AllocationComplete
<1> QED BY <1>2, <1>3, <1>4, <1>5, GrossNat
----------------------------------------------------------------------------
(* Steps that leave the invoice and its schedules alone.                   *)

\* A step of an actor that schedules nothing.
Mild(a) ==
    /\ Stands(a, actor'[a]) /\ ActorOK(actor'[a])
    /\ UNCHANGED <<life, asked, invoice>> /\ Scheduled' = Scheduled
    /\ actor[a].pc \notin Billings /\ actor'[a].pc \notin Billings
    /\ actor'[a].op \in {actor[a].op, None}
    /\ "cancel" \notin asked => \A s \in Schedules : posted'[s][0] = posted[s][0]
    /\ writtenOff' # writtenOff => "writeOff" \in asked
    /\ debt' # debt => "downgrade" \in life
    /\ invoice = "new" => actor'[a].pc \in {"idle", "claim"} /\ deferred' = deferred

LEMMA LawfulKept ==
    ASSUME Shape, Lawful, NEW a \in Actors, Mild(a), NEW y, y = actor'[a], Placed(y)
    PROVE  Lawful'
<1>1. \A b \in Actors : b # a => actor'[b] = actor[b]
  BY DEF Mild, Stands
<1>2. Asked'
  BY <1>1 DEF Lawful, Asked, Mild
<1>3. PaidOnce'
  <2>1. Once' <=> Once
    BY DEF Mild, Once
  <2>2. \A b \in Actors : (actor'[b].pc \in Billings => actor[b].pc \in Billings)
                       /\ (actor'[b].pc \in Early => actor[b].pc \in Early)
    BY <1>1 DEF Mild, Billings
  <2>3. Scheduled' = Scheduled /\ invoice' = invoice /\ PaidOnce
    BY DEF Mild, Lawful
  <2> QED BY <2>1, <2>2, <2>3 DEF PaidOnce
<1>4. Requested'
  <2>1. \A b, c \in Actors :
            actor'[b].op \in {"cancel", "writeOff"} /\ actor'[c].op = actor'[b].op => b = c
    <3>1. \A b \in Actors : actor'[b].op \in {"cancel", "writeOff"} => actor'[b].op = actor[b].op
      BY <1>1 DEF Mild, None
    <3> QED BY <3>1 DEF Lawful, Requested
  <2>2. ASSUME NEW b \in Actors PROVE Placed(actor[b])'
    <3>1. CASE b = a
      BY <3>1 DEF Placed, Mild
    <3>2. CASE b # a
      <4>1. actor'[b] = actor[b] /\ Placed(actor[b])
        BY <1>1, <3>2 DEF Lawful, Requested
      <4> QED BY <4>1 DEF Placed, Mild
    <3> QED BY <3>1, <3>2
  <2> QED BY <2>1, <2>2 DEF Requested
<1> QED BY <1>2, <1>3, <1>4 DEF Lawful

\* Nor does it close a schedule, or finish a write-off.
Plain(a) ==
    /\ Mild(a) /\ schedule' = schedule
    /\ actor[a].op = "writeOff" => actor'[a].op = "writeOff"
    /\ writtenOff' # writtenOff => actor[a].op = "writeOff" /\ invoice = "uncollectible"
    /\ actor[a].op = "cancel" \/ \A s \in Schedules : posted'[s][0] = posted[s][0]

LEMMA PlainRest ==
    ASSUME NEW a \in Actors, Plain(a)
    PROVE  /\ Active' = Active /\ Scheduled' = Scheduled /\ WritingOff' = WritingOff
           /\ \A b \in Actors : b # a => actor'[b] = actor[b]
           /\ \A pcs \in SUBSET Billings : \A b \in Actors : actor'[b].pc \in pcs <=> actor[b].pc \in pcs
<1>1. \A b \in Actors : b # a => actor'[b] = actor[b]
  BY DEF Plain, Mild, Stands
<1>2. \A b \in Actors : actor'[b].op = "writeOff" <=> actor[b].op = "writeOff"
  BY <1>1 DEF Plain, Mild, None
<1>3. WritingOff' = WritingOff
  BY <1>2 DEF WritingOff
<1> QED BY <1>1, <1>3 DEF Plain, Mild, Active, Scheduled

LEMMA OutKept == ASSUME Out, NEW a \in Actors, Plain(a) PROVE Out'
<1>1. \A b \in Actors : (actor'[b].pc \in Early <=> actor[b].pc \in Early)
                     /\ (actor'[b].pc = "check" <=> actor[b].pc = "check")
  <2>1. Early \in SUBSET Billings /\ {"check"} \in SUBSET Billings
    BY DEF Billings, Early
  <2>2. \A b \in Actors : actor'[b].pc \in {"check"} <=> actor[b].pc \in {"check"}
    BY <2>1, PlainRest
  <2> QED BY <2>1, <2>2, PlainRest
<1>2. Active' = Active /\ Scheduled' = Scheduled /\ WritingOff' = WritingOff
  BY PlainRest
<1> QED BY <1>1, <1>2 DEF Out, Twice, Anew, Doomed

LEMMA OrderlyKept ==
    ASSUME Types, Types', Orderly, NEW a \in Actors, Plain(a)
    PROVE  Orderly' /\ (Fresh' <=> Fresh) /\ Outstanding' - Outstanding = writtenOff' - writtenOff
<1>1. /\ Active' = Active /\ Scheduled' = Scheduled /\ WritingOff' = WritingOff
      /\ UNCHANGED <<life, asked, invoice>>
  BY PlainRest DEF Plain, Mild
<1>2. \A pcs \in SUBSET Billings : \A b \in Actors : actor'[b].pc \in pcs <=> actor[b].pc \in pcs
  BY PlainRest
<1>3. /\ (Underway' <=> Underway) /\ (Recovering' <=> Recovering)
      /\ (Once' <=> Once) /\ (Unscheduled' <=> Unscheduled)
  <2>1. Early \in SUBSET Billings /\ {"recover"} \in SUBSET Billings
    BY DEF Billings, Early
  <2>2. \A b \in Actors : actor'[b].pc \in {"recover"} <=> actor[b].pc \in {"recover"}
    BY <1>2, <2>1
  <2> QED BY <1>1, <1>2, <2>1, <2>2 DEF Underway, Recovering, Once, Unscheduled
<1>4. Scheduling' = Scheduling
  <2>1. {"check", "consume", "insert", "events"} \in SUBSET Billings
    BY DEF Billings, Early
  <2> QED BY <1>2, <2>1 DEF Scheduling
<1>5. \A b \in Actors : /\ actor'[b].pc \in {"consume", "insert", "events"} <=> actor[b].pc \in {"consume", "insert", "events"}
                        /\ actor'[b].pc \in {"consume", "insert"} <=> actor[b].pc \in {"consume", "insert"}
                        /\ actor'[b].pc \in {"insert", "events"} <=> actor[b].pc \in {"insert", "events"}
  <2>1. /\ {"consume", "insert", "events"} \in SUBSET Billings /\ {"consume", "insert"} \in SUBSET Billings
        /\ {"insert", "events"} \in SUBSET Billings
    BY DEF Billings, Early
  <2> QED BY <1>2, <2>1
<1>6. writtenOff' # writtenOff => WritingOff # {} /\ invoice = "uncollectible"
  BY DEF Plain, WritingOff
<1>7. Orderly'
  BY <1>1, <1>3, <1>4, <1>5, <1>6 DEF Orderly, OneScheduler, ScheduledOnce, ToBeScheduled,
      PaidRecovers, OffRecovers, OpenBefore, ClosedAfter
<1>8. Fresh' <=> Fresh
  BY <1>1, <1>3, <1>5 DEF Fresh
<1>9. writtenOff \in Int /\ writtenOff' \in Int
  BY RecognitionAssumption DEF Types
<1>10. Outstanding' - Outstanding = writtenOff' - writtenOff
  <2> DEFINE Settled == invoice = "uncollectible" /\ Scheduled # {} /\ WritingOff = {}
  <2>1. Settled' <=> Settled
    BY <1>1
  <2>2. /\ Outstanding = (IF Settled THEN 0 ELSE writtenOff)
        /\ Outstanding' = (IF Settled' THEN 0 ELSE writtenOff')
    BY DEF Outstanding
  <2>3. Settled => writtenOff' = writtenOff
    BY <1>6
  <2> HIDE DEF Settled
  <2>4. CASE Settled
    BY <1>9, <2>1, <2>2, <2>3, <2>4
  <2>5. CASE ~Settled
    BY <1>9, <2>1, <2>2, <2>5
  <2> QED BY <2>4, <2>5
<1> QED BY <1>7, <1>8, <1>10

LEMMA InTimeKept ==
    ASSUME Lawful, InTime, NEW a \in Actors, Plain(a), NEW y, y = actor'[a], Kept(y)'
    PROVE  InTime'
<1>1. /\ Active' = Active /\ Scheduled' = Scheduled
      /\ \A b \in Actors : b # a => actor'[b] = actor[b]
  BY PlainRest
<1> SUFFICES ASSUME NEW b \in Actors, b # a PROVE Kept(actor[b])'
  BY DEF InTime
<1> PICK x : x = actor[b]
  OBVIOUS
<1>2. Kept(x) /\ actor'[b] = x
  BY <1>1 DEF InTime
<1>3. /\ x.op = "cancel" => actor[a].op # "cancel"
      /\ x.op = "writeOff" => actor[a].op # "writeOff"
  BY DEF Lawful, Requested
<1>4. /\ x.op = "cancel" => \A s \in Schedules : posted'[s][0] = posted[s][0]
      /\ x.op = "writeOff" => writtenOff' = writtenOff
  BY <1>3 DEF Plain
<1>5. Kept(x)'
  BY <1>1, <1>2, <1>4 DEF Kept
<1> QED BY <1>2, <1>5

\* What the books and the schedules gain and lose in a step of actor a.
Balanced(a) ==
    deferred' = deferred + (StillDeferred' - StillDeferred) - (writtenOff' - writtenOff)
                + Moving(actor'[a]) - Moving(actor[a])

InOrder == Orderly /\ InTime /\ Accounts
Held == Lawful /\ (Out \/ InOrder)

\* The types and the books before and after a step in which nothing fails.
Sound == EventInv /\ Types /\ Books

LEMMA Ints ==
    ASSUME Sound
    PROVE  /\ deferred \in Int /\ writtenOff \in Nat /\ debt \in Nat /\ StillDeferred \in Int
           /\ Outstanding \in Int /\ Net \in Nat /\ Net > 0
<1>1. deferred \in Int /\ writtenOff \in Nat /\ debt \in Nat /\ Net \in Nat /\ Net > 0
  BY RecognitionAssumption DEF Sound, EventInv, Shape, Types
<1>2. Gross \in Nat
  BY GrossNat DEF Sound, EventInv
<1> QED BY <1>1, <1>2, StillIs DEF Outstanding

IntsHold ==
    /\ deferred \in Int /\ writtenOff \in Nat /\ debt \in Nat /\ StillDeferred \in Int
    /\ Outstanding \in Int /\ Net \in Nat /\ Net > 0
LEMMA AllInts == Sound => IntsHold
BY Ints DEF IntsHold

LEMMA IntsAfter == ASSUME Sound, Sound' PROVE IntsHold /\ IntsHold'
<1>1. Sound' => IntsHold'
  BY AllInts, PTL
<1> QED BY <1>1, AllInts

\* A step in which everything balances keeps the accounts.
LEMMA AccountsKept ==
    ASSUME Sound, Sound', Accounts, NEW a \in Actors, Stands(a, actor'[a]),
           Balanced(a), Fresh' <=> Fresh, Outstanding' - Outstanding = writtenOff' - writtenOff
    PROVE  Accounts'
<1> PICK y : y = actor'[a]
  OBVIOUS
<1>1. Shape /\ Shape' /\ OneAtATime /\ OneAtATime' /\ Stands(a, y)
  BY DEF Sound, EventInv, Books
<1>2. /\ InMotion' = InMotion - Moving(actor[a]) + Moving(y)
      /\ InMotion \in Int /\ Moving(actor[a]) \in Int /\ Moving(y) \in Int
  BY <1>1, MotionOf
<1>3. IntsHold /\ IntsHold'
  BY IntsAfter
<1> PICK f : f = (IF Fresh THEN Net ELSE 0)
  OBVIOUS
<1>4. f \in Int /\ f = IF Fresh' THEN Net ELSE 0
  BY <1>3 DEF IntsHold
<1>5. deferred = StillDeferred + f - Outstanding + InMotion
  BY DEF Accounts
<1>6. deferred' = deferred + (StillDeferred' - StillDeferred) - (writtenOff' - writtenOff)
                  + Moving(y) - Moving(actor[a])
  BY DEF Balanced
<1>7. deferred' = StillDeferred' + f - Outstanding' + InMotion'
  BY <1>2, <1>3, <1>4, <1>5, <1>6 DEF IntsHold
<1> QED BY <1>4, <1>7 DEF Accounts

LEMMA PlainKept ==
    ASSUME Sound, Sound', Held, NEW a \in Actors, Plain(a), NEW y, y = actor'[a], Placed(y),
           ~Out /\ InOrder => Kept(y)' /\ Balanced(a)
    PROVE  Held'
<1>1. Lawful'
  BY LawfulKept DEF Held, Sound, EventInv, Plain
<1>2. CASE Out
  BY <1>1, <1>2, OutKept DEF Held
<1>3. CASE ~Out /\ InOrder
  <2>1. Orderly' /\ (Fresh' <=> Fresh) /\ Outstanding' - Outstanding = writtenOff' - writtenOff
    BY <1>3, OrderlyKept DEF InOrder, Sound
  <2>2. InTime'
    BY <1>3, InTimeKept DEF InOrder, Held
  <2>3. Accounts'
    BY <1>3, <2>1, AccountsKept DEF InOrder, Plain, Mild
  <2> QED BY <1>1, <2>1, <2>2, <2>3 DEF Held, InOrder
<1> QED BY <1>2, <1>3 DEF Held
----------------------------------------------------------------------------
(* The worker's steps.                                                     *)

\* Actor a's record has these fields after the step, and no other actor's changes.
Lands(a, p, o, s, t, h, l, w, k, n) ==
    /\ Stands(a, actor'[a])
    /\ actor'[a].pc = p /\ actor'[a].op = o /\ actor'[a].schedule = s /\ actor'[a].todo = t
    /\ actor'[a].held = h /\ actor'[a].left = l
    /\ actor'[a].want = w /\ actor'[a].take = k /\ actor'[a].taken = n

LEMMA EntersLands ==
    ASSUME Shape, NEW a \in Actors,
           NEW p, NEW o, NEW s, NEW t, NEW h, NEW l, NEW w, NEW k, NEW n,
           Enters(a, p, o, s, t, h, l, w, k, n)
    PROVE  Lands(a, p, o, s, t, h, l, w, k, n)
<1> PICK r : r = ActorRecord(p, o, s, t, h, l, w, k, n)
  OBVIOUS
<1>1. Stands(a, r)
  BY ActorUpdated DEF Enters
<1>2. actor'[a] = r
  BY <1>1 DEF Stands
<1> QED BY <1>1, <1>2 DEF Lands, ActorRecord

LEMMA GotoLands ==
    ASSUME Shape, NEW a \in Actors, NEW x, x = actor[a], NEW pc, Goto(a, pc)
    PROVE  Lands(a, pc, x.op, x.schedule, x.todo, x.held, x.left, x.want, x.take, x.taken)
<1> PICK r : r = [x EXCEPT !.pc = pc]
  OBVIOUS
<1>1. IsRecord(x)
  BY DEF Shape, ActorOK
<1>2. actor' = [actor EXCEPT ![a] = r]
  BY DEF Goto, Shape
<1>3. r = ActorRecord(pc, x.op, x.schedule, x.todo, x.held, x.left, x.want, x.take, x.taken)
  BY <1>1 DEF IsRecord, ActorRecord
<1> QED BY <1>2, <1>3, EntersLands DEF Enters

LEMMA DoneLands == ASSUME Shape, NEW a \in Actors, Done(a) PROVE Stands(a, actor'[a]) /\ actor'[a] = Idle
<1>1. Stands(a, Idle)
  BY ActorUpdated DEF Done
<1> QED BY <1>1 DEF Stands

\* Where no request unwinds, none of this is asked of the actor.
LEMMA NoRequest ==
    ASSUME NEW y, ActorOK(y), y.pc \notin Unwinds
    PROVE  y.op = None /\ (y.pc # "recover" => Placed(y)) /\ Kept(y) /\ Kept(y)'
<1>1. y.op = None
  BY DEF ActorOK, Stage
<1> QED BY <1>1 DEF Placed, Kept, Unwinds, None

Working == {"idle", "claim", "recognize", "mark"}

LEMMA WorkKept ==
    ASSUME Sound, Sound', Held, NEW a \in Actors, Stands(a, actor'[a]),
           actor[a].pc \in Working, actor'[a].pc \in Working,
           UNCHANGED <<life, asked, invoice, schedule, debt, writtenOff>>,
           \A s \in Schedules : posted'[s][0] = posted[s][0],
           invoice = "new" => actor'[a].pc \in {"idle", "claim"} /\ deferred' = deferred,
           Balanced(a)
    PROVE  Held'
<1> PICK y : y = actor'[a]
  OBVIOUS
<1>1. ActorOK(y) /\ y.pc \notin Unwinds \cup Billings
  BY DEF Sound, EventInv, Shape, Working, Unwinds, Billings, Early
<1>2. y.op = None /\ Placed(y) /\ Kept(y)'
  BY <1>1, NoRequest DEF Working
<1>3. actor[a].op = None /\ actor[a].pc \notin Billings
  BY NoRequest DEF Sound, EventInv, Shape, Working, Unwinds, Billings, Early
<1>4. Plain(a)
  BY <1>1, <1>2, <1>3 DEF Plain, Mild, Scheduled, None
<1> QED BY <1>2, <1>4, PlainKept

\* Requeued or claimed, an event is as much still to be recognized as before.
LEMMA OpenStays ==
    ASSUME Shape, Shape', NEW from \in Open, NEW to \in Open, ManyMarked(from, to), debt' = debt
    PROVE  StillDeferred' = StillDeferred
<1>1. \A s \in Schedules, m \in 1..Months : event[s][m] \in Event /\ event'[s][m] \in Event
  BY DEF Shape
<1>2. \A s \in Schedules, m \in 1..Months : OpenWorth(event'[s][m]) = OpenWorth(event[s][m])
  <2> SUFFICES ASSUME NEW s \in Schedules, NEW m \in 1..Months
               PROVE  OpenWorth(event'[s][m]) = OpenWorth(event[s][m])
    OBVIOUS
  <2> PICK u, v : u = event[s][m] /\ v = event'[s][m]
    OBVIOUS
  <2>1. v = u \/ (u.status = from /\ v = [u EXCEPT !.status = to])
    BY DEF ManyMarked
  <2>2. u \in Event
    BY <1>1
  <2>3. OpenWorth(v) = OpenWorth(u)
    BY <2>1, <2>2 DEF OpenWorth, Event
  <2> QED BY <2>3
<1>3. Gross' = Gross
  BY <1>2, SameGross
<1> QED BY <1>3, StillIs

\* Nothing moves while the worker requeues and claims.
LEMMA StillBalanced ==
    ASSUME Sound, Sound', NEW a \in Actors, StillDeferred' = StillDeferred,
           deferred' = deferred, writtenOff' = writtenOff, Moving(actor'[a]) = Moving(actor[a]),
           Stands(a, actor'[a])
    PROVE  Balanced(a)
<1>1. IntsHold
  BY IntsAfter
<1>2. Moving(actor[a]) \in Int
  BY MovingInt DEF Sound, EventInv, Books
<1> QED BY <1>1, <1>2 DEF Balanced, IntsHold

LEMMA RequeueHeld ==
    ASSUME Sound, Sound', Held, NEW a \in Actors, Requeue(a)
    PROVE  Held'
<1>1. Shape /\ Shape'
  BY DEF Sound, EventInv
<1>2. actor[a].pc = "idle" /\ Goto(a, "claim") /\ UNCHANGED <<requests, schedule, books, debt>>
  BY DEF Requeue, At
<1>3. Stands(a, actor'[a]) /\ actor'[a].pc = "claim"
  BY <1>1, <1>2, GotoLands DEF Lands
<1>4. StillDeferred' = StillDeferred
  BY <1>1, <1>2, RequeueMarks, OpenStays DEF Open
<1>5. Moving(actor'[a]) = Moving(actor[a])
  BY <1>2, <1>3 DEF Moving
<1>6. Balanced(a)
  BY <1>2, <1>3, <1>4, <1>5, StillBalanced DEF books
<1> QED BY <1>2, <1>3, <1>6, WorkKept DEF Working, requests, books

LEMMA ClaimHeld ==
    ASSUME Sound, Sound', Held, NEW a \in Actors, ClaimDueEvents(a)
    PROVE  Held'
<1> PICK x, due : x = actor[a] /\ due = {e \in Rows(Schedules, {"pending"}) : e.month <= elapsed}
  OBVIOUS
<1>1. Shape /\ Shape'
  BY DEF Sound, EventInv
<1>2. x.pc = "claim" /\ UNCHANGED <<requests, schedule, books, debt>>
  BY DEF ClaimDueEvents, At
<1>3. /\ Stands(a, actor'[a]) /\ actor'[a].pc \in {"recognize", "idle"}
      /\ actor'[a].pc = "recognize" => due # {}
  <2>1. CASE due = {}
    <3>1. Done(a)
      BY <2>1 DEF ClaimDueEvents
    <3> QED BY <1>1, <3>1, DoneLands, IdleOK
  <2>2. CASE due # {}
    <3>1. SetsTodo(a, "recognize", due)
      BY <2>2 DEF ClaimDueEvents, SetsTodo
    <3> QED BY <1>1, <2>2, <3>1, SetsTodoEnters, EntersLands DEF Lands
  <2> QED BY <2>1, <2>2
<1>4. invoice = "new" => due = {}
  <2> SUFFICES ASSUME invoice = "new", NEW e \in due PROVE FALSE
    OBVIOUS
  <2>1. e \in Read /\ e.schedule \in Schedules /\ e.month \in 1..Months /\ StatusOf(e) = "pending"
    BY <1>1, RowsAreRead, ReadRow
  <2>2. schedule[e.schedule] = None
    BY <2>1 DEF Held, Lawful, Asked, Scheduled
  <2>3. StatusOf(e) = None
    BY <2>1, <2>2 DEF Sound, EventInv, InsertsOnce, StatusOf
  <2> QED BY <2>1, <2>3 DEF None
<1>5. StillDeferred' = StillDeferred
  BY <1>1, <1>2, ClaimMarks, OpenStays DEF Open
<1>6. Moving(actor'[a]) = Moving(actor[a])
  BY <1>2, <1>3 DEF Moving
<1>7. Balanced(a)
  BY <1>2, <1>3, <1>5, <1>6, StillBalanced DEF books
<1>8. invoice = "new" => actor'[a].pc \in {"idle", "claim"} /\ deferred' = deferred
  BY <1>2, <1>3, <1>4 DEF books
<1> QED BY <1>2, <1>3, <1>7, <1>8, WorkKept DEF Working, requests, books

\* Before the invoice is issued there is nothing to work on.
LEMMA IssuedBefore ==
    ASSUME Lawful, NEW a \in Actors, actor[a].pc \notin {"idle", "claim"}
    PROVE  invoice # "new"
BY DEF Lawful, Asked

LEMMA RecordHeld ==
    ASSUME Sound, Sound', Held, NEW a \in Actors, RecordRecognition(a)
    PROVE  Held'
<1> PICK x : x = actor[a]
  OBVIOUS
<1>1. Shape /\ Shape' /\ OneAtATime
  BY DEF Sound, EventInv, Books
<1>2. PICK e \in x.todo : PostCode2(e.schedule, e.month, e.amount) /\ SetsHeld(a, "mark", {e})
  BY DEF RecordRecognition, SetsHeld
<1>3. x.pc = "recognize" /\ UNCHANGED <<requests, rows, writtenOff, debt>>
  BY DEF RecordRecognition, At
<1> PICK t, n : t = e.schedule /\ n = e.month
  OBVIOUS
<1>4. e \in Read /\ t \in Schedules /\ n \in 1..Months /\ n \in 0..Months /\ n # 0 /\ e.amount \in Nat
  BY <1>1, ReadRow, RecognitionAssumption DEF Shape, ActorOK
<1>5. Stands(a, actor'[a]) /\ actor'[a].pc = "mark" /\ actor'[a].held = {e} /\ actor'[a].todo = x.todo
  BY <1>1, <1>2, SetsHeldEnters, EntersLands DEF Lands
<1>6. posted[t][n] = 0
  <2>1. \A b \in Actors : ~Posting(b, t, n)
    <3> SUFFICES ASSUME NEW b \in Actors, Posting(b, t, n) PROVE FALSE
      OBVIOUS
    <3>1. Holds(b, t, n)
      BY DEF Sound, Books, OneAtATime, Posting, Holds, Claiming
    <3>2. Holds(a, t, n)
      BY <1>3 DEF Holds, Claiming
    <3>3. a = b
      BY <1>4, <3>1, <3>2 DEF Sound, Books, ClaimsStand
    <3> QED BY <1>3, <3>3 DEF Posting
  <2>2. event[t][n] = [status |-> "processing", amount |-> e.amount, clawed |-> 0]
    BY <1>3 DEF Sound, Books, ClaimsStand, Claiming
  <2> QED BY <1>4, <2>1, <2>2 DEF Sound, Books, WorthPosted, Worth
<1>7. posted' = [posted EXCEPT ![t][n] = e.amount] /\ deferred' = deferred - e.amount
  BY <1>2, <1>6 DEF PostCode2
<1>8. \A s \in Schedules : posted'[s][0] = posted[s][0]
  <2> PICK f : f = [posted[t] EXCEPT ![n] = e.amount]
    OBVIOUS
  <2>1. posted \in [Schedules -> [0..Months -> Nat]] /\ posted[t] \in [0..Months -> Nat] /\ 0 \in 0..Months
    <3>1. posted \in [Schedules -> [0..Months -> Nat]]
      BY DEF Sound, Types
    <3>2. 0 \in 0..Months
      BY RecognitionAssumption
    <3> QED BY <1>4, <3>1, <3>2
  <2>2. f[0] = posted[t][0]
    BY <1>4, <2>1
  <2>3. posted' = [posted EXCEPT ![t] = f]
    BY <1>7
  <2> QED BY <1>4, <2>1, <2>2, <2>3
<1>9. StillDeferred' = StillDeferred
  BY <1>3 DEF StillDeferred, StillToRecognize, Amount, rows
<1>10. Moving(actor[a]) = 0 /\ Moving(actor'[a]) = -e.amount
  BY <1>3, <1>5 DEF Moving
<1>11. Balanced(a)
  <2>1. IntsHold
    BY IntsAfter
  <2> QED BY <1>3, <1>4, <1>7, <1>9, <1>10, <2>1 DEF Balanced, IntsHold
<1>12. invoice # "new"
  BY <1>3, IssuedBefore DEF Held
<1> QED BY <1>3, <1>5, <1>8, <1>11, <1>12, WorkKept DEF Working, requests, rows

LEMMA MarkHeld ==
    ASSUME Sound, Sound', Held, NEW a \in Actors, MarkEventRecognized(a)
    PROVE  Held'
<1> PICK x : x = actor[a]
  OBVIOUS
<1>1. Shape /\ Shape' /\ OneAtATime
  BY DEF Sound, EventInv, Books
<1>2. /\ x.pc = "mark" /\ GoOn(a) /\ UNCHANGED <<requests, schedule, books, debt>>
      /\ \E e \in x.held : Mark(e, "processing", "recognized")
  BY DEF MarkEventRecognized, At
<1>3. PICK e \in x.todo : x.held = {e}
  BY <1>1, <1>2 DEF OneAtATime
<1> PICK t, n : t = e.schedule /\ n = e.month
  OBVIOUS
<1>4. e \in Read /\ t \in Schedules /\ n \in 1..Months /\ e.amount \in Nat
  BY <1>1, ReadRow DEF Shape, ActorOK
<1>5. event[t][n] = [status |-> "processing", amount |-> e.amount, clawed |-> 0]
  BY <1>2 DEF Sound, Books, ClaimsStand, Claiming
<1>6. StatusOf(e) = "processing" /\ Mark(e, "processing", "recognized")
  BY <1>2, <1>3, <1>5 DEF StatusOf
<1>7. Becomes(t, n, WithStatus(e, "recognized"))
  BY <1>1, <1>4, <1>6, Marked DEF Statuses
<1>8. OpenWorth(event[t][n]) = e.amount /\ OpenWorth(WithStatus(e, "recognized")) = 0
  BY <1>5 DEF OpenWorth, WithStatus, Open
<1>9. Gross' = Gross - e.amount
  BY <1>1, <1>4, <1>7, <1>8, OneEvent, GrossNat
<1>10. Stands(a, actor'[a]) /\ actor'[a].pc \in {"idle", "recognize"}
  <2>1. CASE x.todo = x.held
    <3>1. Done(a)
      BY <1>2, <2>1 DEF GoOn
    <3> QED BY <1>1, <3>1, DoneLands, IdleOK
  <2>2. CASE x.todo # x.held
    <3>1. SetsTodoHeld(a, "recognize", x.todo \ x.held, {})
      BY <1>1, <1>2, <2>2 DEF GoOn, SetsTodoHeld, Shape
    <3> QED BY <1>1, <3>1, SetsTodoHeldEnters, EntersLands DEF Lands
  <2> QED BY <2>1, <2>2
<1>11. Moving(actor[a]) = -e.amount /\ Moving(actor'[a]) = 0
  <2>1. (CHOOSE f \in x.held : TRUE) = e
    BY <1>3
  <2> QED BY <1>2, <1>10, <2>1 DEF Moving
<1>12. Balanced(a)
  <2>1. IntsHold /\ Gross \in Nat
    BY <1>1, IntsAfter, GrossNat
  <2> QED BY <1>2, <1>4, <1>9, <1>11, <2>1, StillIs DEF Balanced, IntsHold, books
<1>13. invoice # "new"
  BY <1>2, IssuedBefore DEF Held
<1> QED BY <1>2, <1>10, <1>12, <1>13, WorkKept DEF Working, requests, books
----------------------------------------------------------------------------
(* The steps of an unwind.                                                 *)

LEMMA UnwindKept ==
    ASSUME Sound, Sound', Held, NEW a \in Actors, NEW x, x = actor[a], NEW y, y = actor'[a],
           Stands(a, y), x.pc \in Unwinds, y.pc \in Resting,
           y.op \in {x.op, None}, x.op = "writeOff" => y.op = "writeOff",
           UNCHANGED <<life, asked, invoice, schedule>>,
           debt' # debt => x.op = "downgrade",
           writtenOff' # writtenOff => x.op = "writeOff" /\ invoice = "uncollectible",
           x.op = "cancel" \/ \A s \in Schedules : posted'[s][0] = posted[s][0],
           Placed(y),
           ~Out /\ InOrder => Kept(y)' /\ Balanced(a)
    PROVE  Held'
<1>1. Placed(x) /\ ActorOK(x) /\ ActorOK(y) /\ x.op # None
  BY DEF Held, Lawful, Requested, Sound, EventInv, Shape, ActorOK, Stage
<1>2. invoice # "new"
  BY IssuedBefore DEF Held, Unwinds
<1>3. x.pc \notin Billings /\ y.pc \notin Billings
  BY DEF Unwinds, Resting, Billings, Early
<1>4. /\ x.op = "cancel" => "cancel" \in asked
      /\ x.op = "writeOff" => "writeOff" \in asked
      /\ x.op = "downgrade" => "downgrade" \in life
  BY <1>1 DEF Placed
<1>5. Scheduled' = Scheduled
  BY DEF Scheduled
<1>6. Mild(a)
  BY <1>1, <1>2, <1>3, <1>4, <1>5 DEF Mild
<1>7. Plain(a)
  BY <1>6 DEF Plain
<1> QED BY <1>7, PlainKept

\* What Continue makes of the record.
LEMMA ContinueIs ==
    ASSUME Shape, NEW a \in Actors, NEW x, x = actor[a], NEW left, NEW taken, NEW y,
           y = Continue(a, left, taken)
    PROVE  /\ left # {} => /\ y.pc = "list" /\ y.op = x.op /\ y.left = left
                           /\ y.want = x.want /\ y.take = x.take /\ y.taken = taken
           /\ left = {} /\ x.op # "downgrade" => y = Idle
           /\ left = {} /\ x.op = "downgrade" =>
                  /\ y.pc = (IF taken = x.want THEN "credit" ELSE "recognized") /\ y.op = "downgrade"
                  /\ y.want = x.want /\ y.take = x.want - taken /\ y.taken = 0
<1>1. IsRecord(x)
  BY DEF Shape, ActorOK
<1>2. CASE left # {}
  <2>1. y = [x EXCEPT !.pc = "list", !.left = left, !.taken = taken, !.schedule = None, !.todo = {}]
    BY <1>2 DEF Continue
  <2>2. y = ActorRecord("list", x.op, None, {}, x.held, left, x.want, x.take, taken)
    BY <1>1, <2>1 DEF IsRecord, ActorRecord
  <2> QED BY <1>2, <2>2 DEF ActorRecord
<1>3. CASE left = {} /\ x.op # "downgrade"
  BY <1>3 DEF Continue
<1>4. CASE left = {} /\ x.op = "downgrade"
  <2> PICK pc : pc = (IF taken = x.want THEN "credit" ELSE "recognized")
    OBVIOUS
  <2>1. y = [Idle EXCEPT !.pc = pc, !.op = "downgrade", !.want = x.want, !.take = x.want - taken]
    BY <1>4 DEF Continue
  <2>2. y = ActorRecord(pc, "downgrade", None, {}, {}, {}, x.want, x.want - taken, 0)
    BY <2>1 DEF Idle, ActorRecord
  <2> QED BY <1>4, <2>2 DEF ActorRecord
<1> QED BY <1>2, <1>3, <1>4

\* An unwind at x that continues at y keeps in motion what it has taken, or is done with it.
Continues(a, x, y, left, taken) ==
    /\ Stands(a, y) /\ y.pc \in {"list", "credit", "recognized", "idle"}
    /\ y.op \in {x.op, None} /\ Placed(y)
    /\ (left # {} => taken = 0) /\ x.op # "writeOff" /\ (x.op = "cancel" => left = {}) => Kept(y)'
    /\ Moving(y) = IF left = {} /\ x.op # "downgrade" THEN 0 ELSE taken
    /\ left = {} /\ x.op # "downgrade" => y = Idle /\ Kept(y)'
    /\ left # {} => /\ y.pc = "list" /\ y.op = x.op /\ y.left = left
                    /\ y.want = x.want /\ y.take = x.take /\ y.taken = taken

LEMMA ContinueStands ==
    ASSUME Sound, Sound', Held, NEW a \in Actors, NEW x, x = actor[a], NEW y, y = actor'[a],
           NEW left, left \subseteq Scheduled, NEW taken, taken \in Nat,
           actor' = [actor EXCEPT ![a] = Continue(a, left, taken)],
           x.pc \in {"find", "list", "remove", "close", "post"}
    PROVE  Continues(a, x, y, left, taken)
<1>1. Shape /\ ActorOK(x) /\ ActorOK(y) /\ Placed(x) /\ x.op \in {"cancel", "refund", "downgrade", "writeOff"}
  <2>1. Shape /\ ActorOK(x) /\ ActorOK(y) /\ Placed(x)
    BY DEF Sound, EventInv, Shape, Held, Lawful, Requested
  <2> QED BY <2>1, StageOps DEF Unwinds
<1>2. Stands(a, y) /\ y = Continue(a, left, taken)
  BY <1>1, ActorUpdated DEF Stands
<1>3. CASE left # {}
  <2>1. /\ y.pc = "list" /\ y.op = x.op /\ y.left = left
        /\ y.want = x.want /\ y.take = x.take /\ y.taken = taken
    BY <1>1, <1>2, <1>3, ContinueIs
  <2>2. Placed(y)
    BY <1>1, <2>1, <1>3 DEF Placed
  <2>3. taken = 0 /\ x.op # "writeOff" /\ x.op # "cancel" => Kept(y)'
    BY <2>1 DEF Kept
  <2>4. Moving(y) = taken
    BY <2>1 DEF Moving
  <2> QED BY <1>2, <1>3, <2>1, <2>2, <2>3, <2>4 DEF Continues
<1>4. CASE left = {} /\ x.op # "downgrade"
  <2>1. y = Idle
    BY <1>1, <1>2, <1>4, ContinueIs
  <2>2. y.pc = "idle" /\ y.op = None
    BY <2>1 DEF Idle
  <2>3. Placed(y) /\ Kept(y)'
    BY <1>1, <2>2, NoRequest DEF Unwinds
  <2>4. Moving(y) = 0
    BY <2>2 DEF Moving
  <2> QED BY <1>2, <1>4, <2>1, <2>2, <2>3, <2>4 DEF Continues
<1>5. CASE left = {} /\ x.op = "downgrade"
  <2>1. /\ y.pc = (IF taken = x.want THEN "credit" ELSE "recognized") /\ y.op = "downgrade"
        /\ y.want = x.want /\ y.take = x.want - taken /\ y.taken = 0
    BY <1>1, <1>2, <1>5, ContinueIs
  <2>2. Placed(y)
    BY <1>1, <1>5, <2>1 DEF Placed
  <2>3. Kept(y)'
    BY <2>1 DEF Kept
  <2>4. x.want \in Nat
    BY <1>1 DEF ActorOK
  <2>5. Moving(y) = taken
    BY <2>1, <2>4 DEF Moving
  <2> QED BY <1>2, <1>5, <2>1, <2>2, <2>3, <2>5 DEF Continues
<1> QED BY <1>3, <1>4, <1>5

LEMMA SweepingOps ==
    ASSUME Sound, Held, NEW a \in Actors, NEW x, x = actor[a], x.pc \in Unwinds
    PROVE  /\ Shape /\ IsRecord(x) /\ ActorOK(x) /\ Placed(x)
           /\ x.op \in {"cancel", "refund", "downgrade", "writeOff"}
           /\ x.want \in Nat /\ x.take \in Nat /\ x.taken \in Nat
           /\ x.left \subseteq Schedules /\ x.todo \subseteq Read
<1>1. Shape /\ ActorOK(x) /\ Placed(x)
  BY DEF Sound, EventInv, Shape, Held, Lawful, Requested
<1> QED BY <1>1, StageOps DEF ActorOK

LEMMA SameStill == ASSUME UNCHANGED <<event, debt>> PROVE StillDeferred' = StillDeferred
BY DEF StillDeferred, StillToRecognize, Amount

LEMMA ReadHeld ==
    ASSUME Sound, Sound', Held, NEW a \in Actors, ReadRecognized(a)
    PROVE  Held'
<1> PICK x, y, k, w : x = actor[a] /\ y = actor'[a] /\ k = Recognized /\ w = Net - Least(Recognized, Net)
  OBVIOUS
<1>1. x.pc = "read" /\ SetsTakeWant(a, "writeOff", k, w) /\ UNCHANGED <<requests, rows, books, debt>>
  BY DEF ReadRecognized, At, SetsTakeWant
<1>2. Shape /\ Placed(x) /\ ActorOK(x) /\ x.op = "writeOff"
  <2>1. Shape /\ Placed(x) /\ ActorOK(x)
    BY <1>1, SweepingOps DEF Unwinds
  <2> QED BY <1>1, <2>1 DEF ActorOK, Stage
<1>3. Stands(a, y) /\ y.pc = "writeOff" /\ y.op = "writeOff" /\ y.take = k /\ y.want = w
  BY <1>1, <1>2, SetsTakeWantEnters, EntersLands DEF Lands
<1>4. Placed(y)
  BY <1>2, <1>3 DEF Placed
<1>5. ASSUME InOrder PROVE Kept(y)' /\ Balanced(a)
  <2>1. Kept(x)
    BY <1>5 DEF InOrder, InTime
  <2>2. Active' = Active /\ Scheduled' = Scheduled
    BY <1>1 DEF Active, Scheduled, rows
  <2>3. Kept(y)'
    BY <1>1, <1>2, <1>3, <2>1, <2>2 DEF Kept, books
  <2>4. StillDeferred' = StillDeferred
    BY <1>1, SameStill DEF rows
  <2>5. Moving(x) = Moving(y)
    BY <1>1, <1>3 DEF Moving
  <2> QED BY <1>1, <1>3, <2>3, <2>4, <2>5, StillBalanced DEF books
<1> QED BY <1>1, <1>2, <1>3, <1>4, <1>5, UnwindKept DEF Unwinds, Resting, requests, rows, books

LEMMA WrittenOffHeld ==
    ASSUME Sound, Sound', Held, NEW a \in Actors, RecordInvoiceWriteOff(a), misled' = FALSE
    PROVE  Held'
<1> PICK x, y : x = actor[a] /\ y = actor'[a]
  OBVIOUS
<1>1. /\ x.pc = "writeOff" /\ Goto(a, "find") /\ UNCHANGED <<requests, rows, posted, debt>>
      /\ deferred' = deferred - x.want /\ writtenOff' = x.want /\ invoice = "uncollectible"
  BY DEF RecordInvoiceWriteOff, At
<1>2. Shape /\ Placed(x) /\ ActorOK(x) /\ x.op = "writeOff" /\ x.want \in Nat
  <2>1. Shape /\ Placed(x) /\ ActorOK(x) /\ x.want \in Nat
    BY <1>1, SweepingOps DEF Unwinds
  <2> QED BY <1>1, <2>1 DEF ActorOK, Stage
<1>3. Stands(a, y) /\ y.pc = "find" /\ y.op = "writeOff" /\ y.take = x.take /\ y.want = x.want
  BY <1>1, <1>2, GotoLands DEF Lands
<1>4. Placed(y)
  BY <1>2, <1>3 DEF Placed
<1>5. ASSUME InOrder PROVE Kept(y)' /\ Balanced(a)
  <2>1. Kept(x)
    BY <1>5 DEF InOrder, InTime
  <2>2. Active' = Active /\ Scheduled' = Scheduled
    BY <1>1 DEF Active, Scheduled, rows
  <2>3. Kept(y)'
    BY <1>1, <1>2, <1>3, <2>1, <2>2 DEF Kept
  <2>4. StillDeferred' = StillDeferred
    BY <1>1, SameStill DEF rows
  <2>5. Moving(x) = 0 /\ Moving(y) = 0
    BY <1>1, <1>3 DEF Moving
  <2>6. writtenOff = 0
    BY <1>1, <1>2, <2>1 DEF Kept
  <2>7. IntsHold
    BY IntsAfter
  <2>8. Balanced(a)
    BY <1>1, <1>2, <2>4, <2>5, <2>6, <2>7 DEF Balanced, IntsHold
  <2> QED BY <2>3, <2>8
<1> QED BY <1>1, <1>2, <1>3, <1>4, <1>5, UnwindKept DEF Unwinds, Resting, requests, rows

LEMMA ListedHeld ==
    ASSUME Sound, Sound', Held, NEW a \in Actors, ListRecognized(a)
    PROVE  Held'
<1> PICK x, y, t, pc : /\ x = actor[a] /\ y = actor'[a] /\ t = Rows(Schedules, {"recognized"})
                       /\ pc = (IF t = {} THEN "owe" ELSE "clawBack")
  OBVIOUS
<1>1. x.pc = "recognized" /\ SetsTodo(a, pc, t) /\ UNCHANGED <<requests, rows, books, debt>>
  BY DEF ListRecognized, At, SetsTodo
<1>2. Shape /\ Placed(x) /\ x.op = "downgrade"
  <2>1. Shape /\ Placed(x)
    BY <1>1, SweepingOps DEF Unwinds
  <2> QED BY <1>1, <2>1 DEF Placed
<1>3. /\ Stands(a, y) /\ y.pc = pc /\ y.op = "downgrade"
      /\ y.take = x.take /\ y.want = x.want /\ y.taken = x.taken
  BY <1>1, <1>2, SetsTodoEnters, EntersLands DEF Lands
<1>4. pc \in {"owe", "clawBack"}
  OBVIOUS
<1>5. Placed(y) /\ Kept(y)'
  BY <1>2, <1>3, <1>4 DEF Placed, Kept
<1>6. Balanced(a)
  <2>1. StillDeferred' = StillDeferred
    BY <1>1, SameStill DEF rows
  <2>2. Moving(x) = Moving(y)
    BY <1>1, <1>3, <1>4 DEF Moving
  <2> QED BY <1>1, <1>3, <2>1, <2>2, StillBalanced DEF books
<1> QED BY <1>1, <1>2, <1>3, <1>4, <1>5, <1>6, UnwindKept DEF Unwinds, Resting, requests, rows, books

LEMMA DebtHeld ==
    ASSUME Sound, Sound', Held, NEW a \in Actors, AddScheduleDebt(a)
    PROVE  Held'
<1> PICK x, y : x = actor[a] /\ y = actor'[a]
  OBVIOUS
<1>1. /\ x.pc = "owe" /\ Goto(a, "credit") /\ UNCHANGED <<requests, rows, books>>
      /\ debt' = debt + x.take
  BY Zenon DEF AddScheduleDebt, At
<1>2. /\ Shape /\ Placed(x) /\ x.op = "downgrade"
      /\ x.want \in Nat /\ x.take \in Nat /\ x.taken \in Nat
  <2>1. Shape /\ Placed(x) /\ x.want \in Nat /\ x.take \in Nat /\ x.taken \in Nat
    BY <1>1, SweepingOps DEF Unwinds
  <2> QED BY <1>1, <2>1 DEF Placed
<1>3. /\ Stands(a, y) /\ y.pc = "credit" /\ y.op = "downgrade"
      /\ y.take = x.take /\ y.want = x.want /\ y.taken = x.taken
  BY <1>1, <1>2, GotoLands DEF Lands
<1>4. Placed(y) /\ Kept(y)'
  BY <1>2, <1>3 DEF Placed, Kept
<1>5. Balanced(a)
  <2>1. Gross' = Gross /\ Gross \in Nat
    BY <1>1, <1>2, SameGross, GrossNat DEF rows
  <2>2. Moving(x) = x.want - x.take - x.taken /\ Moving(y) = x.want - x.taken
    BY <1>1, <1>3 DEF Moving
  <2>3. IntsHold
    BY IntsAfter
  <2> QED BY <1>1, <1>2, <2>1, <2>2, <2>3, StillIs DEF Balanced, IntsHold, books
<1> QED BY <1>1, <1>2, <1>3, <1>4, <1>5, UnwindKept DEF Unwinds, Resting, requests, rows, books

LEMMA CreditHeld ==
    ASSUME Sound, Sound', Held, NEW a \in Actors, RecordDowngradeCredit(a)
    PROVE  Held'
<1> PICK x, y : x = actor[a] /\ y = actor'[a]
  OBVIOUS
<1>1. /\ x.pc = "credit" /\ Done(a) /\ UNCHANGED <<requests, rows, posted, writtenOff, debt>>
      /\ deferred' = deferred - (x.want - x.taken)
  BY DEF RecordDowngradeCredit, At
<1>2. /\ Shape /\ Placed(x) /\ x.op = "downgrade" /\ x.want \in Nat /\ x.taken \in Nat
  <2>1. Shape /\ Placed(x) /\ x.want \in Nat /\ x.taken \in Nat
    BY <1>1, SweepingOps DEF Unwinds
  <2> QED BY <1>1, <2>1 DEF Placed
<1>3. Stands(a, y) /\ y.pc = "idle" /\ y.op = None /\ ActorOK(y)
  BY <1>1, <1>2, DoneLands, IdleOK DEF Idle
<1>4. Placed(y) /\ Kept(y)'
  BY <1>3, NoRequest DEF Unwinds
<1>5. Balanced(a)
  <2>1. StillDeferred' = StillDeferred
    BY <1>1, SameStill DEF rows
  <2>2. Moving(x) = x.want - x.taken /\ Moving(y) = 0
    BY <1>1, <1>3 DEF Moving
  <2>3. IntsHold
    BY IntsAfter
  <2> QED BY <1>1, <1>2, <2>1, <2>2, <2>3 DEF Balanced, IntsHold
<1> QED BY <1>1, <1>2, <1>3, <1>4, <1>5, UnwindKept DEF Unwinds, Resting, requests, rows

\* Of one schedule only, nothing is left once it is being unwound.
LEMMA NothingLeft ==
    ASSUME ~Twice, NEW x, Placed(x), x.pc \in {"remove", "close", "post"}
    PROVE  x.left = {}
BY DEF Placed, Twice

LEMMA PostHeld ==
    ASSUME Sound, Sound', Held, NEW a \in Actors, PostUnwind(a)
    PROVE  Held'
<1> PICK x, y : x = actor[a] /\ y = actor'[a]
  OBVIOUS
<1>1. /\ x.pc = "post" /\ actor' = [actor EXCEPT ![a] = Continue(a, x.left, x.taken)]
      /\ UNCHANGED <<requests, rows, writtenOff, debt>>
      /\ IF x.op = "cancel" THEN PostCode2(x.schedule, 0, x.taken)
         ELSE deferred' = deferred - x.taken /\ posted' = posted
  BY DEF PostUnwind, At
<1>2. /\ Shape /\ Placed(x) /\ x.taken \in Nat
  BY <1>1, SweepingOps DEF Unwinds
<1>3. x.op \in {"cancel", "refund"} /\ x.left \in SUBSET Scheduled /\ x.schedule \in Schedules
  BY <1>1, <1>2 DEF Placed, Scheduled
<1>4. /\ Stands(a, y) /\ y.pc \in {"list", "credit", "recognized", "idle"}
      /\ y.op \in {x.op, None} /\ Placed(y)
      /\ x.left = {} => Kept(y)' /\ Moving(y) = 0
  <2> PICK left, taken : left = x.left /\ taken = x.taken
    OBVIOUS
  <2>1. /\ left \subseteq Scheduled /\ taken \in Nat
        /\ actor' = [actor EXCEPT ![a] = Continue(a, left, taken)]
        /\ x.pc \in {"find", "list", "remove", "close", "post"}
    BY <1>1, <1>2, <1>3
  <2>2. Continues(a, x, y, left, taken)
    BY <2>1, ContinueStands
  <2> QED BY <1>3, <2>2 DEF Continues
<1>5. ASSUME ~Out, InOrder PROVE Kept(y)' /\ Balanced(a)
  <2>1. x.left = {}
    BY <1>1, <1>2, <1>5, NothingLeft DEF Out
  <2>2. Kept(x)
    BY <1>5 DEF InOrder, InTime
  <2>3. deferred' = deferred - x.taken
    BY <1>1, <1>3, <2>2 DEF Kept, PostCode2
  <2>4. StillDeferred' = StillDeferred
    BY <1>1, SameStill DEF rows
  <2>5. Moving(x) = x.taken /\ Moving(y) = 0
    BY <1>1, <1>4, <2>1 DEF Moving
  <2>6. IntsHold
    BY IntsAfter
  <2>7. Balanced(a)
    BY <1>1, <1>2, <2>3, <2>4, <2>5, <2>6 DEF Balanced, IntsHold
  <2> QED BY <1>4, <2>1, <2>7
<1> QED BY <1>1, <1>3, <1>4, <1>5, UnwindKept DEF Unwinds, Resting, requests, rows

\* What is clawed back was not to be recognized any more.
LEMMA ReversedGross ==
    ASSUME Shape, Shape', NEW a \in Actors, ReverseRecognized(a)
    PROVE  Gross' = Gross
<1>1. PICK e, cut :
          /\ e \in actor[a].todo
          /\ IF cut = e.amount THEN Mark(e, "recognized", "reversed")
             ELSE event' = [event EXCEPT ![e.schedule][e.month] = Split(@, cut)]
  BY DEF ReverseRecognized, Latest
<1> PICK t, n : t = e.schedule /\ n = e.month
  OBVIOUS
<1>2. e \in Read /\ t \in Schedules /\ n \in 1..Months /\ event[t][n] \in Event
  BY <1>1, ReadRow DEF Shape, ActorOK
<1>3. CASE cut = e.amount
  <2>1. CASE StatusOf(e) = "recognized"
    <3>1. Becomes(t, n, WithStatus(e, "reversed"))
      BY <1>1, <1>2, <1>3, <2>1, Marked DEF Statuses
    <3>2. OpenWorth(event[t][n]) = 0 /\ OpenWorth(WithStatus(e, "reversed")) = 0
      BY <2>1 DEF OpenWorth, WithStatus, Open, StatusOf
    <3> QED BY <1>2, <3>1, <3>2, OneEvent, GrossNat
  <2>2. CASE StatusOf(e) # "recognized"
    <3>1. event' = event
      BY <1>1, <1>2, <1>3, <2>2, Marked DEF Statuses
    <3> QED BY <3>1, SameGross
  <2> QED BY <2>1, <2>2
<1>4. CASE cut # e.amount
  <2> PICK u, v : u = event[t][n] /\ v = Split(event[t][n], cut)
    OBVIOUS
  <2>1. event' = [event EXCEPT ![t] = [event[t] EXCEPT ![n] = v]]
    BY <1>1, <1>4
  <2>2. event \in [Schedules -> [1..Months -> Event]] /\ event' \in [Schedules -> [1..Months -> Event]]
    BY DEF Shape
  <2>3. event'[t][n] = v /\ \A s \in Schedules, m \in 1..Months : s # t \/ m # n => event'[s][m] = event[s][m]
    <3> PICK f : f = [event[t] EXCEPT ![n] = v]
      OBVIOUS
    <3>1. event[t] \in [1..Months -> Event]
      BY <1>2, <2>2
    <3>2. f[n] = v /\ \A m \in 1..Months : m # n => f[m] = event[t][m]
      BY <1>2, <3>1
    <3>3. event'[t] = f /\ \A s \in Schedules : s # t => event'[s] = event[s]
      BY <1>2, <2>1, <2>2
    <3> SUFFICES ASSUME NEW s \in Schedules, NEW m \in 1..Months, s # t \/ m # n
                 PROVE  event'[s][m] = event[s][m] /\ event'[t][n] = v
      BY <3>2, <3>3
    <3>4. CASE s = t
      BY <3>2, <3>3, <3>4
    <3>5. CASE s # t
      BY <3>2, <3>3, <3>5
    <3> QED BY <3>4, <3>5
  <2>4. OpenWorth(v) = OpenWorth(u)
    BY <1>2 DEF OpenWorth, Open, Split, Event
  <2>5. \A s \in Schedules, m \in 1..Months : OpenWorth(event'[s][m]) = OpenWorth(event[s][m])
    BY <2>3, <2>4
  <2> QED BY <2>5, SameGross
<1> QED BY <1>3, <1>4

LEMMA ReverseHeld ==
    ASSUME Sound, Sound', Held, NEW a \in Actors, ReverseRecognized(a)
    PROVE  Held'
<1> PICK x, y : x = actor[a] /\ y = actor'[a]
  OBVIOUS
<1>1. x.pc = "clawBack" /\ UNCHANGED <<requests, schedule, books, debt>>
  BY DEF ReverseRecognized, At
<1>2. /\ Shape /\ Shape' /\ IsRecord(x) /\ Placed(x) /\ x.op = "downgrade" /\ x.todo \subseteq Read
      /\ x.want \in Nat /\ x.take \in Nat /\ x.taken \in Nat
  <2>1. /\ Shape /\ IsRecord(x) /\ Placed(x) /\ x.todo \subseteq Read
        /\ x.want \in Nat /\ x.take \in Nat /\ x.taken \in Nat
    BY <1>1, SweepingOps DEF Unwinds
  <2> QED BY <1>1, <2>1 DEF Placed, Sound, EventInv
<1>3. PICK e, cut, on :
          /\ e \in x.todo
          /\ cut = Least(x.take, e.amount)
          /\ on = [x EXCEPT !.todo = x.todo \ {e}, !.take = x.take - cut, !.taken = x.taken + cut]
          /\ actor' = [actor EXCEPT ![a] =
                 IF on.take = 0 THEN [on EXCEPT !.pc = "credit", !.todo = {}]
                 ELSE IF on.todo = {} THEN [on EXCEPT !.pc = "owe"] ELSE on]
  <2>1. PICK e \in Latest(actor[a].todo) :
            LET me == actor[a]
                cut == Least(me.take, e.amount)
                on == [me EXCEPT !.todo = @ \ {e}, !.take = @ - cut, !.taken = @ + cut]
            IN actor' = [actor EXCEPT ![a] =
                     IF on.take = 0 THEN [on EXCEPT !.pc = "credit", !.todo = {}]
                     ELSE IF on.todo = {} THEN [on EXCEPT !.pc = "owe"] ELSE on]
    BY Zenon DEF ReverseRecognized
  <2>2. e \in x.todo
    BY DEF Latest
  <2> QED BY <2>1, <2>2, Zenon
<1>4. e.amount \in Nat /\ cut \in Nat
  BY <1>2, <1>3 DEF Least, Read
<1>5. on = ActorRecord("clawBack", x.op, x.schedule, x.todo \ {e}, x.held, x.left, x.want,
                       x.take - cut, x.taken + cut)
  BY <1>1, <1>2, <1>3 DEF IsRecord, ActorRecord
<1>6. \/ x.take = cut /\ actor' = [actor EXCEPT ![a] = [on EXCEPT !.pc = "credit", !.todo = {}]]
      \/ x.take # cut /\ actor' = [actor EXCEPT ![a] = [on EXCEPT !.pc = "owe"]]
      \/ x.take # cut /\ actor' = [actor EXCEPT ![a] = on]
  <2>1. on.take = x.take - cut
    BY <1>5 DEF ActorRecord
  <2>2. on.take = 0 <=> x.take = cut
    BY <1>2, <1>4, <2>1
  <2> QED BY <1>3, <2>2, Zenon
<1>7. /\ Stands(a, y) /\ y.pc \in {"credit", "owe", "clawBack"}
      /\ y.op = x.op /\ y.want = x.want /\ y.take = x.take - cut /\ y.taken = x.taken + cut
      /\ y.pc = "credit" => x.take = cut
  <2> PICK k, n : k = x.take - cut /\ n = x.taken + cut
    OBVIOUS
  <2>1. CASE x.take = cut /\ actor' = [actor EXCEPT ![a] = [on EXCEPT !.pc = "credit", !.todo = {}]]
    <3> PICK r : r = [on EXCEPT !.pc = "credit", !.todo = {}]
      OBVIOUS
    <3>1. r = ActorRecord("credit", x.op, x.schedule, {}, x.held, x.left, x.want, k, n)
      BY <1>5 DEF ActorRecord
    <3>2. actor' = [actor EXCEPT ![a] = r]
      BY <2>1
    <3>3. Lands(a, "credit", x.op, x.schedule, {}, x.held, x.left, x.want, k, n)
      BY <1>2, <3>1, <3>2, EntersLands DEF Enters
    <3> QED BY <2>1, <3>3 DEF Lands
  <2>2. CASE x.take # cut /\ actor' = [actor EXCEPT ![a] = [on EXCEPT !.pc = "owe"]]
    <3> PICK r : r = [on EXCEPT !.pc = "owe"]
      OBVIOUS
    <3>1. r = ActorRecord("owe", x.op, x.schedule, x.todo \ {e}, x.held, x.left, x.want, k, n)
      BY <1>5 DEF ActorRecord
    <3>2. actor' = [actor EXCEPT ![a] = r]
      BY <2>2
    <3>3. Lands(a, "owe", x.op, x.schedule, x.todo \ {e}, x.held, x.left, x.want, k, n)
      BY <1>2, <3>1, <3>2, EntersLands DEF Enters
    <3> QED BY <3>3 DEF Lands
  <2>3. CASE x.take # cut /\ actor' = [actor EXCEPT ![a] = on]
    <3>1. Lands(a, "clawBack", x.op, x.schedule, x.todo \ {e}, x.held, x.left, x.want, k, n)
      BY <1>2, <1>5, <2>3, EntersLands DEF Enters
    <3> QED BY <3>1 DEF Lands
  <2> QED BY <1>6, <2>1, <2>2, <2>3
<1>8. Placed(y) /\ Kept(y)'
  BY <1>2, <1>7 DEF Placed, Kept
<1>9. Balanced(a)
  <2>1. Gross' = Gross /\ Gross \in Nat
    BY <1>2, ReversedGross, GrossNat
  <2>2. Moving(x) = x.want - x.take - x.taken
    BY <1>1 DEF Moving
  <2>3. Moving(y) = Moving(x)
    <3>1. y.pc \in {"owe", "clawBack"} => Moving(y) = y.want - y.take - y.taken
      BY DEF Moving
    <3>2. y.pc = "credit" => Moving(y) = y.want - y.taken
      BY DEF Moving
    <3> QED BY <1>2, <1>4, <1>7, <2>2, <3>1, <3>2
  <2>4. StillDeferred' = StillDeferred
    BY <1>1, <2>1, StillIs
  <2> QED BY <1>1, <1>7, <2>3, <2>4, StillBalanced DEF books
<1> QED BY <1>1, <1>2, <1>7, <1>8, <1>9, UnwindKept DEF Unwinds, Resting, requests, books
----------------------------------------------------------------------------
(* What an unwind has read and still has to remove.                        *)

OneAMonth(t) == \A e, f \in t : e.month = f.month => e = f

LEMMA TodoNothing == TodoSum({}) = 0
<1> PICK f, D : D = 1..Months /\ f = [m \in D |-> TodoAmount({}, m)]
  OBVIOUS
<1>1. IsFiniteSet(D)
  BY MonthsFinite
<1>2. \A m \in D : f[m] = 0
  BY DEF TodoAmount
<1>3. SumFunctionOnSet(f, D) = 0
  BY ONLY <1>1, <1>2, SumZero
<1>4. TodoSum({}) = SumOver(f) /\ DOMAIN f = D
  BY DEF TodoSum
<1> QED BY <1>3, <1>4, SumOverIs

LEMMA TodoLess ==
    ASSUME NEW t, t \subseteq Read, OneAMonth(t), NEW e \in t
    PROVE  TodoSum(t \ {e}) = TodoSum(t) - e.amount /\ OneAMonth(t \ {e})
<1> PICK D, n, f, g : /\ D = 1..Months /\ n = e.month
                      /\ f = [m \in D |-> TodoAmount(t, m)]
                      /\ g = [m \in D |-> TodoAmount(t \ {e}, m)]
  OBVIOUS
<1>1. \A r \in t : r.month \in D /\ r.amount \in Nat
  BY DEF Read
<1>2. IsFiniteSet(D) /\ n \in D
  BY <1>1, MonthsFinite
<1>3. \A m \in D : f[m] \in Int /\ g[m] \in Int
  <2> SUFFICES ASSUME NEW s \in SUBSET t, NEW m PROVE TodoAmount(s, m) \in Int
    OBVIOUS
  <2>1. CASE \E r \in s : r.month = m
    <3>1. (CHOOSE r \in s : r.month = m) \in s
      BY <2>1
    <3> QED BY <1>1, <2>1, <3>1 DEF TodoAmount
  <2>2. CASE ~\E r \in s : r.month = m
    BY <2>2 DEF TodoAmount
  <2> QED BY <2>1, <2>2
<1>4. ASSUME NEW m \in D, m # n PROVE g[m] = f[m]
  <2>1. \A r : r \in t \ {e} /\ r.month = m <=> r \in t /\ r.month = m
    BY <1>4
  <2>2. (CHOOSE r \in t \ {e} : r.month = m) = (CHOOSE r \in t : r.month = m)
    <3>1. (CHOOSE r \in t \ {e} : r.month = m) = (CHOOSE r : r \in t \ {e} /\ r.month = m)
      OBVIOUS
    <3>2. (CHOOSE r \in t : r.month = m) = (CHOOSE r : r \in t /\ r.month = m)
      OBVIOUS
    <3>3. (CHOOSE r : r \in t \ {e} /\ r.month = m) = (CHOOSE r : r \in t /\ r.month = m)
      BY <2>1
    <3> QED BY <3>1, <3>2, <3>3
  <2> QED BY <2>1, <2>2 DEF TodoAmount
<1>5. f[n] = e.amount
  <2>1. (CHOOSE r \in t : r.month = n) = e
    BY DEF OneAMonth
  <2> QED BY <1>2, <2>1 DEF TodoAmount
<1>6. g[n] = 0
  <2>1. ~\E r \in t \ {e} : r.month = n
    BY DEF OneAMonth
  <2> QED BY <1>2, <2>1 DEF TodoAmount
<1>7. SumFunctionOnSet(g, D) = SumFunctionOnSet(f, D) - f[n] + g[n]
  BY ONLY <1>2, <1>3, <1>4, SumReplace
<1>8. SumFunctionOnSet(f, D) \in Int
  BY ONLY <1>2, <1>3, SumInt
<1>9. SumOver(f) = SumFunctionOnSet(f, D) /\ SumOver(g) = SumFunctionOnSet(g, D)
  <2>1. DOMAIN f = D /\ DOMAIN g = D
    OBVIOUS
  <2> QED BY <2>1, SumOverIs
<1>10. TodoSum(t) = SumOver(f) /\ TodoSum(t \ {e}) = SumOver(g)
  BY DEF TodoSum
<1>11. e.amount \in Nat
  BY <1>1
<1> QED BY <1>5, <1>6, <1>7, <1>8, <1>9, <1>10, <1>11 DEF OneAMonth

\* What is read of a schedule's pending events is what they come to.
LEMMA TodoRead ==
    ASSUME Shape, NEW s \in Schedules, NEW t, t = Rows({s}, {"pending"})
    PROVE  TodoSum(t) = Amount(s, {"pending"}) /\ OneAMonth(t) /\ t \subseteq Read
<1>1. \A r \in t : /\ r \in Read /\ r.schedule = s /\ StatusOf(r) = "pending"
                   /\ r.amount = event[s][r.month].amount
  <2> SUFFICES ASSUME NEW r \in t
               PROVE  /\ r \in Read /\ r.schedule = s /\ StatusOf(r) = "pending"
                      /\ r.amount = event[s][r.month].amount
    OBVIOUS
  <2> PICK ss, statuses : ss = {s} /\ statuses = {"pending"}
    OBVIOUS
  <2>1. ss \in SUBSET Schedules /\ r \in Rows(ss, statuses)
    OBVIOUS
  <2>2. r \in Read /\ r.schedule \in ss /\ StatusOf(r) \in statuses /\ r.amount = event[r.schedule][r.month].amount
    BY <2>1, RowsAreRead
  <2> QED BY <2>2
<1>2. OneAMonth(t)
  <2> SUFFICES ASSUME NEW e \in t, NEW f \in t, e.month = f.month PROVE e = f
    BY DEF OneAMonth
  <2>1. e \in Read /\ f \in Read /\ e.schedule = f.schedule /\ e.amount = f.amount
    BY <1>1
  <2> QED BY <2>1 DEF Read
<1> PICK f, g : /\ f = [m \in 1..Months |-> TodoAmount(t, m)]
                /\ g = [m \in 1..Months |-> IF event[s][m].status \in {"pending"} THEN event[s][m].amount ELSE 0]
  OBVIOUS
<1>3. ASSUME NEW m \in 1..Months PROVE f[m] = g[m]
  <2>1. CASE event[s][m].status = "pending"
    <3>1. PICK e \in Rows({s}, {"pending"}) : e = [schedule |-> s, month |-> m, amount |-> event[s][m].amount]
      <4>1. [schedule |-> s, month |-> m, amount |-> event[s][m].amount] \in Rows({s}, {"pending"})
        BY <2>1 DEF Rows, StatusOf
      <4> QED BY <4>1
    <3>2. e \in t /\ e.month = m
      BY <3>1
    <3>3. (CHOOSE r \in t : r.month = m) = e
      BY <1>2, <3>2 DEF OneAMonth
    <3>4. TodoAmount(t, m) = e.amount
      BY <3>2, <3>3 DEF TodoAmount
    <3>5. e.amount = event[s][m].amount
      BY <3>1
    <3>6. f[m] = TodoAmount(t, m) /\ g[m] = event[s][m].amount
      BY <2>1
    <3> QED BY <3>4, <3>5, <3>6
  <2>2. CASE event[s][m].status # "pending"
    <3>1. ~\E e \in t : e.month = m
      BY <1>1, <2>2 DEF StatusOf
    <3> QED BY <2>2, <3>1 DEF TodoAmount
  <2> QED BY <2>1, <2>2
<1>4. f = g
  BY <1>3
<1>5. TodoSum(t) = SumOver(f) /\ Amount(s, {"pending"}) = SumOver(g)
  BY DEF TodoSum, Amount
<1> QED BY <1>1, <1>2, <1>4, <1>5

LEMMA ListHeld ==
    ASSUME Sound, Sound', Held, NEW a \in Actors, ListPending(a), misled' = FALSE
    PROVE  Held'
<1> PICK x, y : x = actor[a] /\ y = actor'[a]
  OBVIOUS
<1>1. x.pc = "list" /\ UNCHANGED <<requests, rows, books, debt>>
  BY DEF ListPending, At
<1>2. /\ Shape /\ Placed(x) /\ IsRecord(x) /\ x.op \in {"cancel", "refund", "downgrade", "writeOff"}
      /\ x.want \in Nat /\ x.take \in Nat /\ x.taken \in Nat
  BY <1>1, SweepingOps DEF Unwinds
<1>3. x.left \subseteq Scheduled /\ Scheduled \subseteq Schedules
  BY <1>1, <1>2 DEF Placed, Scheduled
<1>17. PICK s, seen :
          /\ s \in x.left
          /\ seen = [x EXCEPT !.schedule = s, !.left = @ \ {s},
                              !.take = IF Sweeps(a) THEN @ ELSE x.want - x.taken,
                              !.taken = IF x.op = "cancel" THEN 0 ELSE @]
          /\ x.op = "writeOff" => x.take = Recognized /\ Recognized + Amount(s, {"pending"}) = Net
          /\ \/ /\ Rows({s}, {"pending"}) # {}
                /\ actor' = [actor EXCEPT ![a] = [seen EXCEPT !.pc = "remove", !.todo = Rows({s}, {"pending"})]]
             \/ /\ Sweeps(a) /\ (x.op = "refund" \/ Rows({s}, {"pending"}) = {})
                /\ actor' = [actor EXCEPT ![a] = [seen EXCEPT !.pc = "close"]]
             \/ ~Sweeps(a) /\ actor' = [actor EXCEPT ![a] = Continue(a, x.left \ {s}, x.taken)]
  BY ZenonT(60) DEF ListPending
<1> PICK t : t = Rows({s}, {"pending"})
  OBVIOUS
<1>4. /\ s \in x.left
      /\ x.op = "writeOff" => x.take = Recognized /\ Recognized + Amount(s, {"pending"}) = Net
      /\ \/ t # {} /\ actor' = [actor EXCEPT ![a] = [seen EXCEPT !.pc = "remove", !.todo = t]]
         \/ /\ Sweeps(a) /\ (x.op = "writeOff" => t = {})
            /\ actor' = [actor EXCEPT ![a] = [seen EXCEPT !.pc = "close"]]
         \/ ~Sweeps(a) /\ actor' = [actor EXCEPT ![a] = Continue(a, x.left \ {s}, x.taken)]
  <2>1. x.op = "writeOff" => x.op # "refund"
    OBVIOUS
  <2> QED BY <1>17, <2>1, Zenon
<1> PICK k, n : /\ k = (IF Sweeps(a) THEN x.take ELSE x.want - x.taken)
                /\ n = (IF x.op = "cancel" THEN 0 ELSE x.taken)
  OBVIOUS
<1>5. seen = ActorRecord(x.pc, x.op, s, x.todo, x.held, x.left \ {s}, x.want, k, n)
  BY <1>2, <1>17 DEF IsRecord, ActorRecord
<1>6. s \in Schedules /\ s \in Scheduled /\ x.left \ {s} \subseteq Scheduled
  BY <1>3, <1>4
<1>7. Active' = Active /\ Scheduled' = Scheduled
  BY <1>1 DEF Active, Scheduled, rows
<1>8. StillDeferred' = StillDeferred
  BY <1>1, SameStill DEF rows
<1>9. /\ TodoSum(t) = Amount(s, {"pending"}) /\ OneAMonth(t)
      /\ Amount(s, {"pending"}) \in Nat /\ Recognized \in Nat
  BY <1>2, <1>4, <1>6, TodoRead, AmountNat, RecognizedNat
<1>10. x.op = "writeOff" => x.take = Recognized /\ Recognized + Amount(s, {"pending"}) = Net
  BY <1>4
<1>11. InOrder => Kept(x) /\ x.taken = 0 /\ n = 0
  BY <1>1 DEF InOrder, InTime, Kept
<1>12. InOrder /\ x.op = "writeOff" => x.want = TodoSum(t)
  <2> SUFFICES ASSUME InOrder, x.op = "writeOff" PROVE x.want = TodoSum(t)
    OBVIOUS
  <2>1. x.want = Net - Least(x.take, Net)
    BY <1>1, <1>11 DEF Kept
  <2> QED BY <1>9, <1>10, <2>1, RecognitionAssumption DEF Least
<1>13. ASSUME Stands(a, y), y.pc \in {"remove", "close"}, y.op = x.op, y.schedule = s, y.left = x.left \ {s},
              y.want = x.want, y.taken = n,
              y.pc = "remove" => y.todo = t,
              y.pc = "close" => x.op # "downgrade" /\ (x.op = "writeOff" => t = {})
       PROVE  Held'
  <2>1. Placed(y)
    BY <1>2, <1>6, <1>13 DEF Placed
  <2>2. ASSUME InOrder PROVE Kept(y)' /\ Balanced(a)
    <3>1. Kept(x) /\ y.taken = 0
      BY <1>11, <1>13, <2>2
    <3>2. y.op = "cancel" => \A r \in Schedules : posted'[r][0] = 0
      BY <1>1, <1>13, <3>1 DEF Kept, books
    <3>3. ASSUME y.op = "writeOff"
          PROVE  /\ writtenOff' = y.want /\ y.want = TodoSum(t)
                 /\ y.pc = "close" => y.taken = y.want
      <4>1. writtenOff' = x.want
        BY <1>1, <1>13, <3>1, <3>3 DEF Kept, books
      <4>2. x.want = TodoSum(t)
        BY <1>12, <1>13, <2>2, <3>3
      <4> QED BY <1>13, <3>1, <3>3, <4>1, <4>2, TodoNothing
    <3>4. y.pc = "remove" /\ y.op = "writeOff" => TodoSum(y.todo) = y.want - y.taken /\ OneAMonth(y.todo)
      <4>1. y.want \in Nat
        BY <1>2, <1>13
      <4> QED BY <1>9, <1>13, <3>1, <3>3, <4>1
    <3>5. Kept(y)'
      BY <1>13, <3>2, <3>3, <3>4 DEF Kept, OneAMonth
    <3>6. Moving(y) = Moving(x)
      BY <1>1, <1>11, <1>13, <2>2, <3>1 DEF Moving
    <3> QED BY <1>1, <1>8, <1>13, <3>5, <3>6, StillBalanced DEF books
  <2> QED BY <1>1, <1>2, <1>13, <2>1, <2>2, UnwindKept DEF Unwinds, Resting, requests, rows, books
<1>14. CASE t # {} /\ actor' = [actor EXCEPT ![a] = [seen EXCEPT !.pc = "remove", !.todo = t]]
  <2> PICK r : r = [seen EXCEPT !.pc = "remove", !.todo = t]
    OBVIOUS
  <2>1. r = ActorRecord("remove", x.op, s, t, x.held, x.left \ {s}, x.want, k, n)
    BY <1>5 DEF ActorRecord
  <2>2. actor' = [actor EXCEPT ![a] = r]
    BY <1>14
  <2>3. Lands(a, "remove", x.op, s, t, x.held, x.left \ {s}, x.want, k, n)
    BY <1>2, <2>1, <2>2, EntersLands DEF Enters
  <2> QED BY <1>13, <2>3 DEF Lands
<1>15. CASE /\ Sweeps(a) /\ (x.op = "writeOff" => t = {})
            /\ actor' = [actor EXCEPT ![a] = [seen EXCEPT !.pc = "close"]]
  <2> PICK r : r = [seen EXCEPT !.pc = "close"]
    OBVIOUS
  <2>1. r = ActorRecord("close", x.op, s, x.todo, x.held, x.left \ {s}, x.want, k, n)
    BY <1>5 DEF ActorRecord
  <2>2. actor' = [actor EXCEPT ![a] = r]
    BY <1>15
  <2>3. Lands(a, "close", x.op, s, x.todo, x.held, x.left \ {s}, x.want, k, n)
    BY <1>2, <2>1, <2>2, EntersLands DEF Enters
  <2>4. x.op # "downgrade"
    BY <1>15 DEF Sweeps
  <2> QED BY <1>13, <1>15, <2>3, <2>4 DEF Lands
<1>16. CASE ~Sweeps(a) /\ actor' = [actor EXCEPT ![a] = Continue(a, x.left \ {s}, x.taken)]
  <2> PICK left, taken : left = x.left \ {s} /\ taken = x.taken
    OBVIOUS
  <2>1. /\ left \subseteq Scheduled /\ taken \in Nat
        /\ actor' = [actor EXCEPT ![a] = Continue(a, left, taken)]
        /\ x.pc \in {"find", "list", "remove", "close", "post"}
    BY <1>1, <1>2, <1>6, <1>16
  <2>2. Continues(a, x, y, left, taken)
    BY <2>1, ContinueStands
  <2>3. x.op \in {"refund", "downgrade"}
    BY <1>2, <1>16 DEF Sweeps
  <2>4. Stands(a, y) /\ y.pc \in {"list", "credit", "recognized", "idle"} /\ y.op \in {x.op, None} /\ Placed(y)
    BY <2>2 DEF Continues
  <2>5. ASSUME InOrder PROVE Kept(y)' /\ Balanced(a)
    <3>1. taken = 0
      BY <1>11, <2>5
    <3>2. Kept(y)' /\ Moving(y) = 0
      BY <2>2, <2>3, <3>1 DEF Continues
    <3>3. Moving(x) = 0
      BY <1>1, <1>11, <2>5 DEF Moving
    <3> QED BY <1>1, <1>8, <2>4, <3>2, <3>3, StillBalanced DEF books
  <2> QED BY <1>1, <2>3, <2>4, <2>5, UnwindKept DEF Unwinds, Resting, requests, rows, books
<1> QED BY <1>4, <1>14, <1>15, <1>16

\* What is removed is not to be recognized any more.
LEMMA RemovedGross ==
    ASSUME Shape, Shape', NEW e \in Read, NEW cut \in Nat, cut <= e.amount,
           event[e.schedule][e.month] = [status |-> "pending", amount |-> e.amount, clawed |-> 0],
           IF cut = e.amount THEN Mark(e, "pending", "canceled")
           ELSE event' = [event EXCEPT ![e.schedule][e.month].amount =
                              IF StatusOf(e) = "pending" THEN e.amount - cut ELSE @]
    PROVE  Gross' = Gross - cut
<1> PICK s, m, u : s = e.schedule /\ m = e.month /\ u = event[s][m]
  OBVIOUS
<1>1. s \in Schedules /\ m \in 1..Months /\ u \in Event /\ e.amount \in Nat
  BY ReadRow
<1>2. u.status = "pending" /\ u.amount = e.amount /\ StatusOf(e) = "pending"
  BY DEF StatusOf
<1>3. OpenWorth(u) = e.amount
  BY <1>2 DEF OpenWorth, Open
<1>4. Gross \in Nat
  BY GrossNat
<1>5. CASE cut = e.amount
  <2>1. Becomes(s, m, WithStatus(e, "canceled"))
    BY <1>2, <1>5, Marked DEF Statuses
  <2>2. OpenWorth(WithStatus(e, "canceled")) = 0
    BY DEF OpenWorth, Open, WithStatus
  <2>3. Gross' = Gross - OpenWorth(u) + OpenWorth(WithStatus(e, "canceled"))
    BY <1>1, <2>1, OneEvent
  <2> QED BY <1>1, <1>3, <1>4, <1>5, <2>2, <2>3
<1>6. CASE cut # e.amount
  <2> PICK v, y : v = e.amount - cut /\ y = [u EXCEPT !.amount = v]
    OBVIOUS
  <2>1. v \in Nat
    BY <1>1
  <2>2. y \in Event /\ y.status = "pending" /\ y.amount = v
    BY <1>1, <1>2, <2>1 DEF Event
  <2>3. event' = [event EXCEPT ![s][m].amount = v]
    BY <1>2, <1>6
  <2>4. event' = [event EXCEPT ![s][m] = y]
    BY <2>3
  <2>5. Becomes(s, m, y)
    BY <1>1, <2>2, <2>4, EventUpdated
  <2>6. Gross' = Gross - OpenWorth(u) + OpenWorth(y)
    BY <1>1, <2>5, OneEvent
  <2>7. OpenWorth(y) = v
    BY <2>2 DEF OpenWorth, Open
  <2> QED BY <1>1, <1>3, <1>4, <2>6, <2>7
<1> QED BY <1>5, <1>6

LEMMA RemoveHeld ==
    ASSUME Sound, Sound', Held, NEW a \in Actors, RemoveEvent(a), misled' = FALSE
    PROVE  Held'
<1> PICK x, y : x = actor[a] /\ y = actor'[a]
  OBVIOUS
<1>1. x.pc = "remove" /\ UNCHANGED <<requests, schedule, books, debt>>
  BY DEF RemoveEvent, At
<1>2. /\ Shape /\ Shape' /\ Placed(x) /\ IsRecord(x) /\ x.op \in {"cancel", "refund", "downgrade", "writeOff"}
      /\ x.want \in Nat /\ x.take \in Nat /\ x.taken \in Nat /\ x.todo \subseteq Read
  <2>1. Shape'
    BY DEF Sound, EventInv
  <2> QED BY <1>1, <2>1, SweepingOps DEF Unwinds
<1>3. x.left \subseteq Scheduled /\ x.schedule \in Scheduled \ x.left
  BY <1>1, <1>2 DEF Placed
<1>20. PICK e \in Latest(actor[a].todo) :
          LET me == actor[a]
              cut == IF Sweeps(a) THEN e.amount ELSE Least(me.take, e.amount)
              todo == me.todo \ {e}
              on == [me EXCEPT !.todo = todo, !.take = IF Sweeps(a) THEN @ ELSE @ - cut,
                               !.taken = @ + cut]
              whole == Sweeps(a) \/ (me.op = "refund" /\ cut = e.amount /\ \A f \in todo : f.amount = 0)
          IN /\ IF cut = e.amount THEN Mark(e, "pending", "canceled")
                ELSE event' = [event EXCEPT ![e.schedule][e.month].amount =
                                   IF StatusOf(e) = "pending" THEN e.amount - cut ELSE @]
             /\ misled' = (misled \/ event[e.schedule][e.month] #
                               [status |-> "pending", amount |-> e.amount, clawed |-> 0])
             /\ actor' = [actor EXCEPT ![a] =
                   IF todo # {} /\ (Sweeps(a) \/ on.take > 0) THEN on
                   ELSE IF whole THEN [on EXCEPT !.pc = "close", !.todo = {}]
                   ELSE IF me.op = "refund" THEN [on EXCEPT !.pc = "post", !.todo = {}]
                   ELSE Continue(a, IF on.take = 0 THEN {} ELSE me.left, on.taken)]
  BY Zenon DEF RemoveEvent
<1> PICK cut, todo : /\ cut = (IF Sweeps(a) THEN e.amount ELSE Least(x.take, e.amount))
                     /\ todo = x.todo \ {e}
  OBVIOUS
<1> PICK on : on = [x EXCEPT !.todo = todo, !.take = IF Sweeps(a) THEN x.take ELSE x.take - cut,
                            !.taken = x.taken + cut]
  OBVIOUS
<1>4. actor' = [actor EXCEPT ![a] =
          IF todo # {} /\ (Sweeps(a) \/ on.take > 0) THEN on
          ELSE IF Sweeps(a) \/ (x.op = "refund" /\ cut = e.amount /\ \A f \in todo : f.amount = 0)
               THEN [on EXCEPT !.pc = "close", !.todo = {}]
          ELSE IF x.op = "refund" THEN [on EXCEPT !.pc = "post", !.todo = {}]
          ELSE Continue(a, IF on.take = 0 THEN {} ELSE x.left, on.taken)]
  BY <1>20, SMTT(60)
<1>5. /\ e \in x.todo
      /\ \/ actor' = [actor EXCEPT ![a] = on]
         \/ /\ Sweeps(a) \/ x.op = "refund"
            /\ Sweeps(a) => todo = {}
            /\ actor' = [actor EXCEPT ![a] = [on EXCEPT !.pc = "close", !.todo = {}]]
         \/ /\ x.op = "refund"
            /\ actor' = [actor EXCEPT ![a] = [on EXCEPT !.pc = "post", !.todo = {}]]
         \/ /\ ~Sweeps(a) /\ x.op # "refund"
            /\ \E left \in {{}, x.left} : actor' = [actor EXCEPT ![a] = Continue(a, left, on.taken)]
  BY <1>20, <1>4, Zenon DEF Latest
<1> PICK k, n : k = (IF Sweeps(a) THEN x.take ELSE x.take - cut) /\ n = x.taken + cut
  OBVIOUS
<1>6. e \in Read /\ e.amount \in Nat /\ cut \in Nat /\ cut <= e.amount /\ n \in Nat
  <2>1. e \in Read /\ e.amount \in Nat
    BY <1>2, <1>5 DEF Read
  <2> QED BY <1>2, <2>1 DEF Least
<1>7. on = ActorRecord(x.pc, x.op, x.schedule, todo, x.held, x.left, x.want, k, n)
  BY <1>2 DEF IsRecord, ActorRecord
<1>8. Gross' = Gross - cut
  <2>1. event[e.schedule][e.month] = [status |-> "pending", amount |-> e.amount, clawed |-> 0]
    BY <1>20
  <2>2. IF cut = e.amount THEN Mark(e, "pending", "canceled")
        ELSE event' = [event EXCEPT ![e.schedule][e.month].amount =
                           IF StatusOf(e) = "pending" THEN e.amount - cut ELSE @]
    BY <1>20
  <2> QED BY <1>2, <1>6, <2>1, <2>2, RemovedGross
<1>9. StillDeferred' = StillDeferred - cut
  <2>1. Gross \in Nat /\ debt \in Nat
    BY <1>2, GrossNat DEF Shape
  <2> QED BY <1>1, <1>6, <1>8, <2>1, StillIs
<1>10. x.op = "writeOff" => cut = e.amount /\ Sweeps(a)
  BY DEF Sweeps
<1>11. Moving(x) = x.taken
  BY <1>1 DEF Moving
<1>12. ASSUME Stands(a, y), Moving(y) = n PROVE Balanced(a)
  <2>1. IntsHold
    BY IntsAfter
  <2> QED BY <1>1, <1>2, <1>6, <1>9, <1>11, <1>12, <2>1 DEF Balanced, IntsHold, books
<1>13. InOrder => Kept(x)
  BY DEF InOrder, InTime
<1>14. InOrder /\ x.op = "writeOff" => TodoSum(todo) = x.want - n /\ OneAMonth(todo)
  <2> SUFFICES ASSUME InOrder, x.op = "writeOff" PROVE TodoSum(todo) = x.want - n /\ OneAMonth(todo)
    OBVIOUS
  <2>1. TodoSum(x.todo) = x.want - x.taken /\ OneAMonth(x.todo)
    BY <1>1, <1>13 DEF Kept, OneAMonth
  <2>2. TodoSum(todo) = TodoSum(x.todo) - e.amount /\ OneAMonth(todo)
    BY <1>2, <1>5, <2>1, TodoLess
  <2> QED BY <1>2, <1>6, <1>10, <2>1, <2>2
<1>15. ASSUME Stands(a, y), y.pc \in {"remove", "close", "post"}, y.op = x.op, y.schedule = x.schedule,
              y.left = x.left, y.want = x.want, y.taken = n,
              y.pc = "remove" => y.todo = todo,
              y.pc = "close" => x.op # "downgrade" /\ (x.op = "writeOff" => todo = {}),
              y.pc = "post" => x.op = "refund"
       PROVE  Held'
  <2>1. Placed(y)
    BY <1>1, <1>2, <1>3, <1>15 DEF Placed
  <2>2. ASSUME InOrder PROVE Kept(y)' /\ Balanced(a)
    <3>1. Kept(x)
      BY <1>13, <2>2
    <3>2. y.op = "cancel" => \A r \in Schedules : posted'[r][0] = 0
      BY <1>1, <1>15, <3>1 DEF Kept, books
    <3>3. ASSUME y.op = "writeOff"
          PROVE  /\ writtenOff' = y.want /\ TodoSum(todo) = y.want - y.taken /\ OneAMonth(todo)
                 /\ y.pc = "close" => y.taken = y.want
      <4>1. writtenOff' = x.want
        BY <1>1, <1>15, <3>1, <3>3 DEF Kept, books
      <4>2. TodoSum(todo) = x.want - n /\ OneAMonth(todo)
        BY <1>14, <1>15, <2>2, <3>3
      <4>3. y.pc = "close" => TodoSum(todo) = 0
        BY <1>15, <3>3, TodoNothing
      <4> QED BY <1>2, <1>6, <1>15, <4>1, <4>2, <4>3
    <3>4. Kept(y)'
      BY <1>15, <3>2, <3>3 DEF Kept, OneAMonth
    <3>5. Moving(y) = n
      BY <1>15 DEF Moving
    <3> QED BY <1>12, <1>15, <3>4, <3>5
  <2> QED BY <1>1, <1>2, <1>15, <2>1, <2>2, UnwindKept DEF Unwinds, Resting, requests, books
<1>16. CASE actor' = [actor EXCEPT ![a] = on]
  <2>1. Lands(a, "remove", x.op, x.schedule, todo, x.held, x.left, x.want, k, n)
    BY <1>1, <1>2, <1>7, <1>16, EntersLands, ZenonT(60) DEF Enters
  <2> QED BY <1>15, <2>1 DEF Lands
<1>17. CASE /\ Sweeps(a) \/ x.op = "refund"
            /\ Sweeps(a) => todo = {}
            /\ actor' = [actor EXCEPT ![a] = [on EXCEPT !.pc = "close", !.todo = {}]]
  <2> PICK r : r = [on EXCEPT !.pc = "close", !.todo = {}]
    OBVIOUS
  <2>1. r = ActorRecord("close", x.op, x.schedule, {}, x.held, x.left, x.want, k, n)
    BY <1>7, ZenonT(60) DEF ActorRecord
  <2>2. actor' = [actor EXCEPT ![a] = r]
    BY <1>17
  <2>3. Lands(a, "close", x.op, x.schedule, {}, x.held, x.left, x.want, k, n)
    BY <1>2, <2>1, <2>2, EntersLands DEF Enters
  <2>4. x.op # "downgrade"
    BY <1>17 DEF Sweeps
  <2> QED BY <1>10, <1>15, <1>17, <2>3, <2>4 DEF Lands
<1>18. CASE /\ x.op = "refund"
            /\ actor' = [actor EXCEPT ![a] = [on EXCEPT !.pc = "post", !.todo = {}]]
  <2> PICK r : r = [on EXCEPT !.pc = "post", !.todo = {}]
    OBVIOUS
  <2>1. r = ActorRecord("post", x.op, x.schedule, {}, x.held, x.left, x.want, k, n)
    BY <1>7, ZenonT(60) DEF ActorRecord
  <2>2. actor' = [actor EXCEPT ![a] = r]
    BY <1>18
  <2>3. Lands(a, "post", x.op, x.schedule, {}, x.held, x.left, x.want, k, n)
    BY <1>2, <2>1, <2>2, EntersLands DEF Enters
  <2> QED BY <1>15, <1>18, <2>3 DEF Lands
<1>19. CASE /\ ~Sweeps(a) /\ x.op # "refund"
            /\ \E left \in {{}, x.left} : actor' = [actor EXCEPT ![a] = Continue(a, left, on.taken)]
  <2>1. PICK left \in {{}, x.left} : actor' = [actor EXCEPT ![a] = Continue(a, left, on.taken)]
    BY <1>19
  <2>2. left \subseteq Scheduled /\ on.taken = n
    BY <1>3, <1>7 DEF ActorRecord
  <2>3. Continues(a, x, y, left, n)
    BY <1>1, <1>6, <2>1, <2>2, ContinueStands
  <2>4. x.op = "downgrade"
    BY <1>2, <1>19 DEF Sweeps
  <2>5. /\ Stands(a, y) /\ y.pc \in {"list", "credit", "recognized", "idle"} /\ y.op \in {x.op, None}
        /\ Placed(y) /\ Moving(y) = n
    BY <2>3, <2>4 DEF Continues
  <2>6. ASSUME ~Out, InOrder PROVE Kept(y)' /\ Balanced(a)
    <3>1. left = {}
      BY <1>1, <1>2, <2>6, NothingLeft DEF Out
    <3>2. Kept(y)'
      BY <2>3, <2>4, <3>1 DEF Continues
    <3> QED BY <1>12, <2>5, <3>2
  <2> QED BY <1>1, <2>4, <2>5, <2>6, UnwindKept DEF Unwinds, Resting, requests, books
<1> QED BY <1>5, <1>16, <1>17, <1>18, <1>19
----------------------------------------------------------------------------
(* The steps that schedule the invoice.                                    *)

LEMMA SameHeld ==
    ASSUME Held, UNCHANGED <<life, asked, invoice, rows, books, debt, actor>>
    PROVE  Held'
<1> USE DEF rows, books
<1>1. Scheduled' = Scheduled /\ Active' = Active /\ WritingOff' = WritingOff /\ Scheduling' = Scheduling
  BY DEF Scheduled, Active, WritingOff, Scheduling
<1>2. /\ Once' = Once /\ Underway' = Underway /\ Recovering' = Recovering /\ Unscheduled' = Unscheduled
  BY DEF Once, Underway, Recovering, Unscheduled
<1>3. Lawful'
  <2>1. Asked'
    BY <1>1 DEF Held, Lawful, Asked
  <2>2. PaidOnce'
    BY <1>1, <1>2 DEF Held, Lawful, PaidOnce
  <2>3. Requested'
    BY <1>1 DEF Held, Lawful, Requested, Placed
  <2> QED BY <2>1, <2>2, <2>3 DEF Lawful
<1>4. CASE Out
  BY <1>1, <1>3, <1>4 DEF Held, Out, Twice, Anew, Doomed
<1>5. CASE InOrder
  <2>1. Orderly'
    BY <1>1, <1>2, <1>5 DEF InOrder, Orderly, OneScheduler, ScheduledOnce, ToBeScheduled,
                            PaidRecovers, OffRecovers, OpenBefore, ClosedAfter
  <2>2. InTime'
    BY <1>1, <1>5 DEF InOrder, InTime, Kept
  <2>3. Accounts'
    <3>1. Fresh' = Fresh /\ Outstanding' = Outstanding
      BY <1>1, <1>2 DEF Fresh, Outstanding
    <3>2. StillDeferred' = StillDeferred /\ InMotion' = InMotion
      BY SameStill DEF InMotion
    <3> QED BY <1>5, <3>1, <3>2 DEF InOrder, Accounts
  <2> QED BY <1>3, <2>1, <2>2, <2>3 DEF Held, InOrder
<1> QED BY <1>4, <1>5 DEF Held

LEMMA NextMonthHeld == ASSUME Held, NextMonth PROVE Held'
BY SameHeld DEF NextMonth, requests

\* The other requests stay where they may be.
LEMMA OthersPlaced ==
    ASSUME Requested, NEW a \in Actors, NEW y, Stands(a, y), Placed(y)',
           y.op \in {actor[a].op, None},
           life' = life, asked \subseteq asked', Scheduled \subseteq Scheduled',
           \A b \in Actors : b # a /\ actor[b].op = "refund" /\ "return" \notin life => invoice' = "paid",
           \A b \in Actors : b # a /\ actor[b].pc = "recover" => invoice' # "uncollectible"
    PROVE  Requested'
<1>1. \A b \in Actors : b # a => actor'[b] = actor[b]
  BY DEF Stands
<1>2. actor'[a] = y
  BY DEF Stands
<1>3. \A b, c \in Actors :
          actor'[b].op \in {"cancel", "writeOff"} /\ actor'[c].op = actor'[b].op => b = c
  <2>1. \A b \in Actors : actor'[b].op \in {"cancel", "writeOff"} => actor'[b].op = actor[b].op
    BY <1>1, <1>2 DEF None
  <2> QED BY <2>1 DEF Requested
<1>4. ASSUME NEW b \in Actors PROVE Placed(actor[b])'
  <2>1. CASE b = a
    BY <1>2, <2>1 DEF Placed
  <2>2. CASE b # a
    <3> PICK z : z = actor[b]
      OBVIOUS
    <3>1. actor'[b] = z /\ Placed(z)
      BY <1>1, <2>2 DEF Requested
    <3>2. z.op = "refund" /\ "return" \notin life => invoice' = "paid"
      BY <2>2
    <3>3. z.pc = "recover" => invoice' # "uncollectible"
      BY <2>2
    <3>4. /\ z.pc \in {"list", "remove", "close", "post"} => z.left \subseteq Scheduled'
          /\ z.pc \in {"remove", "close", "post"} => z.schedule \in Scheduled' \ z.left
      BY <3>1 DEF Placed
    <3> QED BY <3>1, <3>2, <3>3, <3>4 DEF Placed
  <2> QED BY <2>1, <2>2
<1> QED BY <1>3, <1>4 DEF Requested

LEMMA OthersInTime ==
    ASSUME InTime, NEW a \in Actors, NEW y, Stands(a, y), Kept(y)',
           \A s \in Schedules : posted'[s][0] = posted[s][0],
           \A b \in Actors : b # a /\ actor[b].op = "writeOff" =>
               writtenOff' = writtenOff /\ (Scheduled' # {} /\ Active' = {} => Scheduled # {} /\ Active = {})
    PROVE  InTime'
<1>1. /\ \A b \in Actors : b # a => actor'[b] = actor[b]
      /\ actor'[a] = y
  BY DEF Stands
<1> SUFFICES ASSUME NEW b \in Actors, b # a PROVE Kept(actor[b])'
  BY <1>1 DEF InTime, Kept
<1> PICK x : x = actor[b]
  OBVIOUS
<1>2. Kept(x) /\ actor'[b] = x
  BY <1>1 DEF InTime
<1>3. Kept(x)'
  BY <1>2 DEF Kept
<1> QED BY <1>2, <1>3 DEF Kept

\* The accounts after a step of actor a.
LEMMA AccountsMoved ==
    ASSUME Sound, Sound', Accounts, NEW a \in Actors, NEW x, x = actor[a], NEW y, Stands(a, y),
           NEW f, f = (IF Fresh THEN Net ELSE 0), NEW g, g = (IF Fresh' THEN Net ELSE 0),
           deferred' = deferred + (StillDeferred' - StillDeferred) + (g - f)
                       - (Outstanding' - Outstanding) + Moving(y) - Moving(x)
    PROVE  Accounts'
<1>1. Shape /\ Shape' /\ OneAtATime /\ OneAtATime'
  BY DEF Sound, EventInv, Books
<1>2. /\ InMotion' = InMotion - Moving(x) + Moving(y)
      /\ InMotion \in Int /\ Moving(x) \in Int /\ Moving(y) \in Int
  BY <1>1, MotionOf
<1>3. IntsHold /\ IntsHold'
  BY IntsAfter
<1>4. f \in Int /\ g \in Int
  BY <1>3 DEF IntsHold
<1>5. deferred = StillDeferred + f - Outstanding + InMotion
  BY DEF Accounts
<1>6. deferred' = StillDeferred' + g - Outstanding' + InMotion'
  BY <1>2, <1>3, <1>4, <1>5 DEF IntsHold
<1> QED BY <1>6 DEF Accounts

LEMMA ReturnHeld == ASSUME Held, Return PROVE Held'
<1>1. /\ "return" \in life /\ "return" \notin asked /\ invoice = "paid"
      /\ invoice' = "unpaid" /\ asked' = asked \cup {"return"}
      /\ UNCHANGED <<life, rows, books, debt, actor>>
  BY DEF Return
<1>2. /\ Scheduled' = Scheduled /\ Active' = Active /\ WritingOff' = WritingOff /\ Scheduling' = Scheduling
      /\ Underway' = Underway /\ Recovering' = Recovering
  BY <1>1 DEF Scheduled, Active, WritingOff, Scheduling, Underway, Recovering, rows
<1>3. ~Once /\ ~Once'
  BY <1>1 DEF Once
<1>4. Lawful'
  <2>1. Asked'
    BY <1>1, <1>2 DEF Held, Lawful, Asked, rows, books
  <2>2. PaidOnce'
    BY <1>3 DEF PaidOnce
  <2>3. Requested'
    <3>1. ASSUME NEW b \in Actors PROVE Placed(actor[b])'
      <4> PICK z : z = actor[b]
        OBVIOUS
      <4>1. actor'[b] = z /\ Placed(z)
        BY <1>1 DEF Held, Lawful, Requested
      <4>2. Placed(z)'
        BY <1>1, <1>2, <4>1 DEF Placed
      <4> QED BY <4>1, <4>2 DEF Placed
    <3> QED BY <1>1, <3>1 DEF Held, Lawful, Requested
  <2> QED BY <2>1, <2>2, <2>3 DEF Lawful
<1>5. CASE Out
  BY <1>1, <1>2, <1>4, <1>5 DEF Held, Out, Twice, Anew, Doomed
<1>6. CASE InOrder
  <2>1. ~Unscheduled /\ ~Unscheduled'
    BY <1>1 DEF Unscheduled
  <2>2. OneScheduler' /\ ScheduledOnce'
    BY <1>1, <1>2, <1>6 DEF InOrder, Orderly, OneScheduler, ScheduledOnce
  <2>3. ToBeScheduled'
    BY <1>1, <1>2, <1>3, <1>6, <2>1 DEF InOrder, Orderly, ToBeScheduled
  <2>4. PaidRecovers' /\ OffRecovers'
    BY <1>1, <1>2, <1>6 DEF InOrder, Orderly, PaidRecovers, OffRecovers, books
  <2>5. OpenBefore' /\ ClosedAfter'
    BY <1>1, <1>2, <1>3, <1>6 DEF InOrder, Orderly, OpenBefore, ClosedAfter
  <2>6. InTime'
    BY <1>1, <1>2, <1>6 DEF InOrder, InTime, Kept, books
  <2>7. Accounts'
    <3>1. Fresh' = Fresh
      BY <1>1, <1>2, <2>1 DEF Fresh
    <3>2. Outstanding' = Outstanding
      BY <1>1, <1>2 DEF Outstanding, books
    <3>3. StillDeferred' = StillDeferred /\ InMotion' = InMotion /\ deferred' = deferred
      BY <1>1, SameStill DEF InMotion, rows, books
    <3> QED BY <1>6, <3>1, <3>2, <3>3 DEF InOrder, Accounts
  <2> QED BY <1>4, <2>2, <2>3, <2>4, <2>5, <2>6, <2>7 DEF Held, InOrder, Orderly
<1> QED BY <1>5, <1>6 DEF Held

LEMMA IssueHeld ==
    ASSUME Sound, Sound', Held, NEW a \in Actors, Issue(a)
    PROVE  Held'
<1> PICK x, y : x = actor[a] /\ y = actor'[a]
  OBVIOUS
<1>1. /\ x.pc = "idle" /\ invoice = "new" /\ invoice' = "unpaid" /\ deferred' = Net
      /\ UNCHANGED <<life, asked, refunded, rows, posted, writtenOff, debt>>
      /\ IF "accrual" \in life THEN Goto(a, "check") ELSE UNCHANGED actor
  BY DEF Issue, At
<1>2. /\ Shape /\ Shape' /\ \A b \in Actors : ActorOK(actor[b])
  BY DEF Sound, EventInv, Shape
<1>3. /\ asked = {} /\ deferred = 0 /\ Scheduled = {} /\ writtenOff = 0
      /\ \A b \in Actors : actor[b].pc \in {"idle", "claim"}
  BY <1>1 DEF Held, Lawful, Asked
<1>4. \A b \in Actors : actor[b].op = None
  BY <1>2, <1>3, NoRequest DEF Unwinds
<1>5. /\ Stands(a, y) /\ y.op = None
      /\ IF "accrual" \in life THEN y.pc = "check" ELSE actor' = actor /\ y = x
  <2>1. CASE "accrual" \in life
    BY <1>1, <1>2, <1>4, <2>1, GotoLands DEF Lands
  <2>2. CASE "accrual" \notin life
    <3>1. actor' = actor
      BY <1>1, <2>2
    <3> QED BY <1>2, <1>4, <2>2, <3>1 DEF Stands, Shape
  <2> QED BY <2>1, <2>2
<1>6. \A b \in Actors : b # a => actor'[b] = actor[b] /\ actor'[b].pc \in {"idle", "claim"} /\ actor'[b].op = None
  BY <1>3, <1>4, <1>5 DEF Stands
<1>7. /\ y.pc \in {"idle", "check"} /\ ("accrual" \in life => y.pc = "check")
      /\ y.op = None /\ actor'[a] = y /\ Moving(x) = 0 /\ Moving(y) = 0
  BY <1>1, <1>5 DEF Moving
<1>8. /\ Scheduled' = {} /\ Active = {} /\ Active' = {} /\ WritingOff = {} /\ WritingOff' = {}
  BY <1>1, <1>3, <1>4, <1>6, <1>7 DEF Scheduled, Active, WritingOff, rows, None
<1>9. Lawful'
  <2>1. Asked'
    BY <1>1, <1>3, <1>8 DEF Held, Lawful, Asked
  <2>2. PaidOnce'
    <3> SUFFICES ASSUME Once' PROVE \A b \in Actors : actor'[b].pc \in {"idle", "claim"}
      BY <1>8 DEF PaidOnce, Billings, Early
    <3>1. "accrual" \notin life
      BY <1>1 DEF Once
    <3> QED BY <1>3, <1>5, <3>1
  <2>3. Requested'
    <3>1. Placed(y)'
      BY <1>7 DEF Placed, None
    <3> QED BY <1>1, <1>3, <1>4, <1>5, <1>8, <3>1, OthersPlaced DEF Held, Lawful, None
  <2> QED BY <2>1, <2>2, <2>3 DEF Lawful
<1>10. InOrder
  BY <1>3, <1>8 DEF Held, Out, Twice, Anew, Doomed
<1>11. ~Underway /\ ~Unscheduled /\ ~Recovering'
  BY <1>1, <1>3, <1>6, <1>7 DEF Underway, Unscheduled, Early, Recovering
<1>12. "accrual" \in life => Underway'
  BY <1>7 DEF Underway, Early
<1>13. "accrual" \notin life => Unscheduled'
  BY <1>1, <1>3 DEF Unscheduled
<1>14. Orderly'
  <2>1. OneScheduler' /\ ScheduledOnce'
    BY <1>6, <1>7 DEF OneScheduler, ScheduledOnce
  <2>2. ToBeScheduled'
    BY <1>12, <1>13 DEF ToBeScheduled
  <2>3. PaidRecovers' /\ OffRecovers' /\ OpenBefore' /\ ClosedAfter'
    BY <1>1, <1>3, <1>8 DEF PaidRecovers, OffRecovers, OpenBefore, ClosedAfter
  <2> QED BY <2>1, <2>2, <2>3 DEF Orderly
<1>15. InTime'
  <2>1. Kept(y)'
    BY <1>7 DEF Kept, None
  <2> QED BY <1>1, <1>4, <1>5, <1>10, <2>1, OthersInTime DEF InOrder, None
<1>16. Accounts'
  <2> PICK f, g : f = (IF Fresh THEN Net ELSE 0) /\ g = (IF Fresh' THEN Net ELSE 0)
    OBVIOUS
  <2>1. ~Fresh /\ Fresh'
    BY <1>6, <1>7, <1>8, <1>11, <1>12, <1>13 DEF Fresh
  <2>2. Outstanding = 0 /\ Outstanding' = 0
    BY <1>1, <1>3, <1>8 DEF Outstanding
  <2>3. StillDeferred' = StillDeferred /\ IntsHold
    BY <1>1, SameStill, IntsAfter DEF rows
  <2>4. deferred' = deferred + (StillDeferred' - StillDeferred) + (g - f)
                    - (Outstanding' - Outstanding) + Moving(y) - Moving(x)
    BY <1>1, <1>3, <1>7, <2>1, <2>2, <2>3 DEF IntsHold
  <2> QED BY <1>5, <1>10, <2>4, AccountsMoved DEF InOrder
<1> QED BY <1>9, <1>14, <1>15, <1>16 DEF Held, InOrder

LEMMA SettleHeld ==
    ASSUME Sound, Sound', Held, NEW a \in Actors, Settle(a)
    PROVE  Held'
<1> PICK x, y, pc : x = actor[a] /\ y = actor'[a] /\ pc = IF invoice = "uncollectible" THEN "recover" ELSE "check"
  OBVIOUS
<1>1. /\ x.pc = "idle" /\ invoice \in {"unpaid", "uncollectible"} /\ invoice' = "paid" /\ Goto(a, pc)
      /\ UNCHANGED <<life, asked, refunded, rows, books, debt>>
  BY DEF Settle, At
<1>2. Shape /\ x.op = None
  BY <1>1, NoRequest DEF Sound, EventInv, Shape, Unwinds
<1>3. Stands(a, y) /\ y.pc = pc /\ y.op = None
  BY <1>1, <1>2, GotoLands DEF Lands
<1>4. \A b \in Actors : b # a => actor'[b] = actor[b]
  BY <1>3 DEF Stands
<1>5. y.pc \in {"recover", "check"} /\ actor'[a] = y /\ Moving(x) = 0 /\ Moving(y) = 0
  BY <1>1, <1>3 DEF Moving, Stands
<1>6. Scheduled' = Scheduled /\ Active' = Active /\ WritingOff' = WritingOff
  BY <1>1, <1>2, <1>3, <1>4 DEF Scheduled, Active, WritingOff, rows, None, Stands
<1>7. Once' = Once /\ Underway' /\ ("uncollectible" = invoice => Recovering') /\ (Recovering => Recovering')
  BY <1>1, <1>3, <1>4, <1>5 DEF Once, Underway, Recovering, Early
<1>8. Lawful'
  <2>1. Asked'
    BY <1>1, <1>6 DEF Held, Lawful, Asked, books
  <2>2. PaidOnce'
    BY <1>1, <1>4, <1>5, <1>6, <1>7 DEF Held, Lawful, PaidOnce, Billings, Early
  <2>3. Requested'
    <3>1. y.pc = "recover" => invoice = "uncollectible"
      BY <1>3
    <3>2. Placed(y)'
      BY <1>1, <1>3, <1>5, <3>1 DEF Held, Lawful, Asked, Placed, None
    <3> QED BY <1>1, <1>3, <1>6, <3>2, OthersPlaced DEF Held, Lawful
  <2> QED BY <2>1, <2>2, <2>3 DEF Lawful
<1>9. Out => Out'
  BY <1>1, <1>4, <1>5, <1>6 DEF Out, Twice, Anew, Doomed, Early
<1>10. ASSUME InOrder, ~Out' PROVE InOrder'
  <2>1. OneScheduler' /\ ScheduledOnce'
    BY <1>4, <1>5, <1>6, <1>10 DEF InOrder, Orderly, OneScheduler, ScheduledOnce
  <2>2. ToBeScheduled'
    BY <1>7 DEF ToBeScheduled
  <2>3. PaidRecovers' /\ OffRecovers'
    BY <1>1, <1>6, <1>7, <1>10 DEF InOrder, Orderly, PaidRecovers, OffRecovers, books
  <2>4. OpenBefore' /\ ClosedAfter'
    BY <1>1, <1>6, <1>7, <1>10 DEF InOrder, Orderly, OpenBefore, ClosedAfter
  <2>5. InTime'
    <3>1. Kept(y)'
      BY <1>3, <1>5 DEF Kept, None
    <3> QED BY <1>1, <1>3, <1>6, <1>10, <3>1, OthersInTime DEF InOrder, books
  <2>6. Accounts'
    <3> PICK f, g : f = (IF Fresh THEN Net ELSE 0) /\ g = (IF Fresh' THEN Net ELSE 0)
      OBVIOUS
    <3>1. Scheduled = {} => Unscheduled \/ Underway
      <4>1. Once => Unscheduled
        BY <1>1 DEF Once, Unscheduled, Held, Lawful, Asked
      <4> QED BY <1>1, <1>10, <4>1 DEF InOrder, Orderly, ToBeScheduled
    <3>2. (\A b \in Actors : actor'[b].pc \notin {"insert", "events"}) <=> (\A b \in Actors : actor[b].pc \notin {"insert", "events"})
      BY <1>1, <1>4, <1>5
    <3>3. Fresh' <=> Fresh
      BY <1>6, <1>7, <3>1, <3>2 DEF Fresh
    <3>4. ~(invoice = "uncollectible" /\ Scheduled # {} /\ WritingOff = {})
      <4> SUFFICES ASSUME invoice = "uncollectible", Scheduled # {}, WritingOff = {} PROVE FALSE
        OBVIOUS
      <4>1. Active = {}
        BY <1>10 DEF InOrder, Orderly, ClosedAfter
      <4>2. Anew'
        BY <1>5, <1>6, <4>1 DEF Anew, Early
      <4> QED BY <1>10, <4>2 DEF Out
    <3>5. Outstanding' = Outstanding
      BY <1>1, <3>4 DEF Outstanding, books
    <3>6. StillDeferred' = StillDeferred /\ IntsHold
      BY <1>1, SameStill, IntsAfter DEF rows
    <3>7. deferred' = deferred + (StillDeferred' - StillDeferred) + (g - f)
                      - (Outstanding' - Outstanding) + Moving(y) - Moving(x)
      BY <1>1, <1>5, <3>3, <3>5, <3>6 DEF IntsHold, books
    <3> QED BY <1>3, <1>10, <3>7, AccountsMoved DEF InOrder
  <2> QED BY <2>1, <2>2, <2>3, <2>4, <2>5, <2>6 DEF InOrder, Orderly
<1> QED BY <1>8, <1>9, <1>10 DEF Held

\* The lawful goes on while the invoice is scheduled.
LEMMA BillingLawful ==
    ASSUME Sound, Lawful, NEW a \in Actors, NEW x, x = actor[a], NEW y, Stands(a, y),
           x.pc \in Billings, y.op = None, y.pc \in {"check", "consume", "insert", "events", "idle"},
           y.pc \in Early => x.pc \in Early /\ Scheduled' = Scheduled, Scheduled \subseteq Scheduled',
           UNCHANGED <<life, asked, invoice, posted>>,
           writtenOff' # writtenOff => "writeOff" \in asked,
           "downgrade" \notin life => debt' = 0
    PROVE  Lawful'
<1>1. /\ \A b \in Actors : b # a => actor'[b] = actor[b]
      /\ actor'[a] = y
  BY DEF Stands
<1>2. invoice # "new"
  BY IssuedBefore DEF Billings, Early
<1>3. Asked'
  BY <1>2 DEF Lawful, Asked
<1>4. PaidOnce'
  <2> SUFFICES ASSUME Once
               PROVE  /\ invoice = "paid"
                      /\ \A b, c \in Actors : actor'[b].pc \in Billings /\ actor'[c].pc \in Billings => b = c
                      /\ (\E b \in Actors : actor'[b].pc \in Early) => Scheduled' = {}
    BY DEF PaidOnce, Once
  <2>1. /\ invoice = "paid" /\ \A b \in Actors : actor[b].pc \in Billings => b = a
        /\ x.pc \in Early => Scheduled = {}
    BY DEF Lawful, PaidOnce
  <2>2. \A b \in Actors : actor'[b].pc \in Billings => b = a
    BY <1>1, <2>1
  <2>3. \A b \in Actors : actor'[b].pc \in Early => b = a
    BY <2>2 DEF Billings
  <2> QED BY <1>1, <2>1, <2>2, <2>3
<1>5. Requested'
  <2>1. Placed(y)'
    BY DEF Placed, None
  <2>2. \A b \in Actors : Placed(actor[b])
    BY DEF Lawful, Requested
  <2>3. /\ \A b \in Actors : b # a /\ actor[b].op = "refund" /\ "return" \notin life => invoice' = "paid"
        /\ \A b \in Actors : b # a /\ actor[b].pc = "recover" => invoice' # "uncollectible"
    BY <2>2 DEF Placed
  <2> QED BY <2>1, <2>3, OthersPlaced DEF Lawful
<1> QED BY <1>3, <1>4, <1>5 DEF Lawful

LEMMA BillingOp ==
    ASSUME Sound, NEW a \in Actors, actor[a].pc \in Billings
    PROVE  Shape /\ actor[a].op = None /\ actor[a].want \in Nat
<1>1. Shape /\ ActorOK(actor[a]) /\ actor[a].pc \notin Unwinds
  BY DEF Sound, EventInv, Shape, Billings, Early, Unwinds
<1> QED BY <1>1, NoRequest DEF ActorOK

LEMMA RecoveryHeld ==
    ASSUME Sound, Sound', Held, NEW a \in Actors, RecordWriteOffRecovery(a)
    PROVE  Held'
<1> PICK x, y : x = actor[a] /\ y = actor'[a]
  OBVIOUS
<1>1. /\ x.pc = "recover" /\ Goto(a, "check") /\ UNCHANGED <<requests, rows, posted, debt>>
      /\ deferred' = deferred + writtenOff /\ writtenOff' = 0
  BY DEF RecordWriteOffRecovery, At
<1>2. Shape /\ x.op = None
  BY <1>1, BillingOp DEF Billings, Early
<1>3. Stands(a, y) /\ y.pc = "check" /\ y.op = None
  BY <1>1, <1>2, GotoLands DEF Lands
<1>4. /\ \A b \in Actors : b # a => actor'[b] = actor[b]
      /\ actor'[a] = y /\ Moving(x) = 0 /\ Moving(y) = 0
  BY <1>1, <1>3 DEF Stands, Moving
<1>5. Scheduled' = Scheduled /\ Active' = Active /\ WritingOff' = WritingOff
  BY <1>1, <1>2, <1>3, <1>4 DEF Scheduled, Active, WritingOff, rows, None
<1>6. Once' = Once /\ Underway /\ Underway' /\ Unscheduled' = Unscheduled
  BY <1>1, <1>4, <1>3 DEF Once, Underway, Early, Unscheduled, requests
<1>7. "writeOff" \in asked /\ invoice # "uncollectible"
  BY <1>1 DEF Held, Lawful, Requested, Placed
<1>8. Lawful'
  <2>1. "downgrade" \notin life => debt' = 0
    BY <1>1 DEF Held, Lawful, Asked
  <2> QED BY <1>1, <1>3, <1>5, <1>7, <2>1, BillingLawful DEF Held, Billings, Early, requests
<1>9. Out => Out'
  BY <1>1, <1>3, <1>4, <1>5 DEF Out, Twice, Anew, Doomed, Early
<1>10. ASSUME InOrder, ~Out' PROVE InOrder'
  <2>1. WritingOff = {}
    BY <1>3, <1>4, <1>5, <1>10 DEF Out, Doomed
  <2>2. OneScheduler' /\ ScheduledOnce'
    BY <1>3, <1>4, <1>5, <1>10 DEF InOrder, Orderly, OneScheduler, ScheduledOnce
  <2>3. ToBeScheduled' /\ PaidRecovers' /\ OffRecovers' /\ ClosedAfter'
    BY <1>1, <1>5, <1>6, <1>7, <2>1 DEF ToBeScheduled, PaidRecovers, OffRecovers, ClosedAfter, requests
  <2>4. OpenBefore'
    BY <1>1, <1>5, <1>6, <1>10 DEF InOrder, Orderly, OpenBefore, requests
  <2>5. InTime'
    <3>1. Kept(y)'
      BY <1>3 DEF Kept, None
    <3>2. \A b \in Actors : actor[b].op # "writeOff"
      BY <2>1 DEF WritingOff
    <3> QED BY <1>1, <1>3, <1>10, <3>1, <3>2, OthersInTime DEF InOrder
  <2>6. Accounts'
    <3>1. (\A b \in Actors : actor'[b].pc \notin {"insert", "events"}) <=> (\A b \in Actors : actor[b].pc \notin {"insert", "events"})
      BY <1>1, <1>3, <1>4
    <3>2. Fresh' <=> Fresh
      BY <1>5, <1>6, <3>1 DEF Fresh
    <3>3. Outstanding' - Outstanding = writtenOff' - writtenOff
      BY <1>1, <1>7 DEF Outstanding, requests
    <3>4. StillDeferred' = StillDeferred /\ IntsHold
      BY <1>1, SameStill, IntsAfter DEF rows
    <3>5. Balanced(a)
      BY <1>1, <1>4, <3>4 DEF Balanced, IntsHold
    <3>6. Stands(a, actor'[a])
      BY <1>3
    <3> QED BY <1>10, <3>2, <3>3, <3>5, <3>6, AccountsKept DEF InOrder
  <2> QED BY <2>2, <2>3, <2>4, <2>5, <2>6 DEF InOrder, Orderly
<1> QED BY <1>8, <1>9, <1>10 DEF Held

LEMMA CheckHeld ==
    ASSUME Sound, Sound', Held, NEW a \in Actors, CheckSchedule(a), misled' = FALSE
    PROVE  Held'
<1> PICK x, y : x = actor[a] /\ y = actor'[a]
  OBVIOUS
<1>1. /\ x.pc = "check" /\ UNCHANGED <<requests, rows, books, debt>>
      /\ IF Active # {} THEN Done(a) ELSE Goto(a, "consume")
      /\ ~(Active = {} /\ Scheduling # {a}) /\ \A b \in Actors : actor[b].op # "writeOff"
  BY DEF CheckSchedule, At
<1>2. Shape /\ x.op = None
  BY <1>1, BillingOp DEF Billings, Early
<1>3. Stands(a, y) /\ y.op = None /\ y.pc = (IF Active # {} THEN "idle" ELSE "consume")
  <2>1. CASE Active # {}
    BY <1>1, <1>2, <2>1, DoneLands DEF Idle
  <2>2. CASE Active = {}
    BY <1>1, <1>2, <2>2, GotoLands DEF Lands
  <2> QED BY <2>1, <2>2
<1>4. /\ \A b \in Actors : b # a => actor'[b] = actor[b]
      /\ actor'[a] = y /\ Moving(x) = 0 /\ Moving(y) = 0 /\ y.pc \in {"idle", "consume"}
  BY <1>1, <1>3 DEF Stands, Moving
<1>5. Scheduled' = Scheduled /\ Active' = Active /\ WritingOff = {} /\ WritingOff' = {}
  BY <1>1, <1>2, <1>3, <1>4 DEF Scheduled, Active, WritingOff, rows, None
<1>6. Once' = Once /\ Underway /\ Recovering' = Recovering /\ Unscheduled' = Unscheduled
  <2>1. Recovering' <=> Recovering
    BY <1>1, <1>4 DEF Recovering
  <2> QED BY <1>1, <2>1 DEF Once, Underway, Early, Unscheduled, Recovering, requests
<1>7. Lawful'
  <2>1. "downgrade" \notin life => debt' = 0
    BY <1>1 DEF Held, Lawful, Asked
  <2> QED BY <1>1, <1>3, <1>4, <1>5, <2>1, BillingLawful DEF Held, Billings, Early, requests, books
<1>8. Out => Out'
  BY <1>1, <1>3, <1>4, <1>5 DEF Out, Twice, Anew, Doomed, Early
<1>9. ASSUME InOrder, ~Out PROVE InOrder'
  <2>1. Active = {} => Scheduled = {} /\ Scheduling = {a} /\ Underway'
    BY <1>1, <1>3, <1>4, <1>9 DEF Out, Anew, Early, Underway
  <2>2. Active # {} => Scheduled # {}
    BY DEF Active, Scheduled, None
  <2>3. OneScheduler' /\ ScheduledOnce'
    <3>1. Active = {} => \A b \in Actors : b # a => actor'[b].pc \notin {"consume", "insert", "events"}
      BY <1>4, <2>1 DEF Scheduling
    <3>2. CASE Active = {}
      BY <1>5, <2>1, <3>1, <3>2 DEF OneScheduler, ScheduledOnce
    <3>3. CASE Active # {}
      BY <1>3, <1>4, <1>5, <1>9, <3>3 DEF InOrder, Orderly, OneScheduler, ScheduledOnce
    <3> QED BY <3>2, <3>3
  <2>4. ToBeScheduled' /\ PaidRecovers' /\ OffRecovers'
    BY <1>1, <1>5, <1>6, <1>9, <2>1, <2>2 DEF InOrder, Orderly, ToBeScheduled, PaidRecovers, OffRecovers, requests, books
  <2>5. OpenBefore'
    BY <1>1, <1>5, <1>6, <1>9 DEF InOrder, Orderly, OpenBefore, requests
  <2>6. invoice # "uncollectible"
    BY <1>1, <1>5, <1>9, <2>1 DEF InOrder, Orderly, ClosedAfter, Scheduling
  <2>7. ClosedAfter'
    BY <1>1, <2>6 DEF ClosedAfter, requests
  <2>8. InTime'
    <3>1. Kept(y)'
      BY <1>3, <1>4 DEF Kept, None
    <3> QED BY <1>1, <1>3, <1>9, <3>1, OthersInTime DEF InOrder, books
  <2>9. Accounts'
    <3>1. (\A b \in Actors : actor'[b].pc \notin {"insert", "events"}) <=> (\A b \in Actors : actor[b].pc \notin {"insert", "events"})
      BY <1>1, <1>4
    <3>2. Fresh' <=> Fresh
      BY <1>5, <1>6, <2>1, <2>2, <3>1 DEF Fresh
    <3>3. Outstanding' - Outstanding = writtenOff' - writtenOff
      <4>1. Outstanding' = Outstanding /\ writtenOff' = writtenOff
        BY <1>1, <2>6 DEF Outstanding, requests, books
      <4> QED BY <4>1, IntsAfter DEF IntsHold
    <3>4. StillDeferred' = StillDeferred
      BY <1>1, SameStill DEF rows
    <3>5. Stands(a, actor'[a])
      BY <1>3
    <3>6. Balanced(a)
      BY <1>1, <1>4, <3>4, <3>5, StillBalanced DEF books
    <3> QED BY <1>9, <3>2, <3>3, <3>5, <3>6, AccountsKept DEF InOrder
  <2> QED BY <2>3, <2>4, <2>5, <2>7, <2>8, <2>9 DEF InOrder, Orderly
<1> QED BY <1>7, <1>8, <1>9 DEF Held

LEMMA ConsumeHeld ==
    ASSUME Separate, Sound, Sound', Held, NEW a \in Actors, ConsumeScheduleDebt(a)
    PROVE  Held'
<1> PICK x, y : x = actor[a] /\ y = actor'[a]
  OBVIOUS
<1>1. /\ x.pc = "consume" /\ UNCHANGED <<requests, rows, books>>
      /\ debt' = debt - Least(debt, Net)
      /\ IF debt >= Net THEN Done(a) ELSE SetsWant(a, "insert", Net - debt)
  BY DEF ConsumeScheduleDebt, At, SetsWant
<1>2. Shape /\ x.op = None /\ IntsHold
  BY <1>1, BillingOp, IntsAfter DEF Billings, Early
<1>3. /\ Stands(a, y) /\ y.op = None /\ y.pc = (IF debt >= Net THEN "idle" ELSE "insert")
      /\ debt < Net => y.want = Net - debt
  <2>1. CASE debt >= Net
    BY <1>1, <1>2, <2>1, DoneLands DEF Idle, IntsHold
  <2>2. CASE ~(debt >= Net)
    BY <1>1, <1>2, <2>2, SetsWantEnters, EntersLands DEF Lands
  <2> QED BY <2>1, <2>2
<1>4. /\ \A b \in Actors : b # a => actor'[b] = actor[b]
      /\ actor'[a] = y /\ Moving(x) = 0 /\ y.pc \in {"idle", "insert"}
      /\ Moving(y) = IF debt >= Net THEN 0 ELSE Net - debt
  BY <1>1, <1>2, <1>3 DEF Stands, Moving, IntsHold
<1>5. Scheduled' = Scheduled /\ Active' = Active /\ WritingOff' = WritingOff
  BY <1>1, <1>2, <1>3, <1>4 DEF Scheduled, Active, WritingOff, rows, None
<1>6. Once' = Once /\ Underway /\ Recovering' = Recovering /\ Unscheduled' = Unscheduled
  <2>1. Recovering' <=> Recovering
    BY <1>1, <1>4 DEF Recovering
  <2> QED BY <1>1, <2>1 DEF Once, Underway, Early, Unscheduled, Recovering, requests
<1>7. debt >= Net => Once
  <2>1. debt >= Net => "downgrade" \in life
    BY <1>2 DEF Held, Lawful, Asked, IntsHold
  <2>2. life \in Lives
    BY DEF Sound, Types
  <2> QED BY <2>1, <2>2 DEF Separate, Once
<1>8. debt >= Net => /\ invoice = "paid" /\ Scheduled = {}
                     /\ \A b \in Actors : b # a => actor[b].pc \notin Billings
  BY <1>1, <1>7 DEF Held, Lawful, PaidOnce, Billings, Early
<1>9. debt' = IF debt >= Net THEN debt - Net ELSE 0
  BY <1>1, <1>2 DEF Least, IntsHold
<1>10. Lawful'
  <2>1. "downgrade" \notin life => debt' = 0
    BY <1>2, <1>9 DEF Held, Lawful, Asked, IntsHold
  <2> QED BY <1>1, <1>3, <1>4, <1>5, <2>1, BillingLawful DEF Held, Billings, Early, requests, books
<1>11. Out => Out'
  <2>1. Anew => Anew'
    BY <1>3, <1>4, <1>5, <1>8 DEF Anew, Early
  <2>2. Doomed => Doomed'
    BY <1>1, <1>4, <1>5 DEF Doomed
  <2> QED BY <1>5, <2>1, <2>2 DEF Out, Twice
<1>12. ASSUME InOrder PROVE InOrder'
  <2>0. Scheduled = {} /\ \A b \in Actors : b # a => actor[b].pc \notin {"consume", "insert", "events"}
    BY <1>1, <1>12 DEF InOrder, Orderly, ScheduledOnce, OneScheduler
  <2>1. OneScheduler' /\ ScheduledOnce'
    BY <1>4, <1>5, <2>0 DEF OneScheduler, ScheduledOnce
  <2>2. ToBeScheduled'
    <3>1. ~Once => Underway'
      BY <1>3, <1>4, <1>7 DEF Underway, Early
    <3> QED BY <1>6, <3>1 DEF ToBeScheduled
  <2>3. PaidRecovers' /\ OffRecovers' /\ OpenBefore'
    BY <1>1, <1>5, <1>6, <1>12 DEF InOrder, Orderly, PaidRecovers, OffRecovers, OpenBefore, requests, books
  <2>4. ~(invoice = "uncollectible" /\ WritingOff = {})
    BY <1>1, <1>12, <2>0 DEF InOrder, Orderly, ClosedAfter, Scheduling
  <2>5. ClosedAfter'
    BY <1>1, <1>5, <2>4 DEF ClosedAfter, requests
  <2>6. InTime'
    <3>1. Kept(y)'
      BY <1>3, <1>4 DEF Kept, None
    <3> QED BY <1>1, <1>3, <1>5, <1>12, <3>1, OthersInTime DEF InOrder, books
  <2>7. Accounts'
    <3> PICK f, g : f = (IF Fresh THEN Net ELSE 0) /\ g = (IF Fresh' THEN Net ELSE 0)
      OBVIOUS
    <3>1. Fresh
      BY <1>1, <1>6, <2>0 DEF Fresh
    <3>2. ~Fresh'
      <4>1. CASE debt >= Net
        <5>1. ~Underway'
          BY <1>3, <1>4, <1>8, <4>1 DEF Underway, Billings, Early
        <5>2. ~Unscheduled'
          BY <1>6, <1>8, <4>1 DEF Unscheduled
        <5> QED BY <5>1, <5>2 DEF Fresh
      <4>2. CASE ~(debt >= Net)
        BY <1>3, <1>4, <4>2 DEF Fresh
      <4> QED BY <4>1, <4>2
    <3>3. Outstanding' = Outstanding
      BY <1>1, <1>5 DEF Outstanding, requests, books
    <3>4. StillDeferred' = StillDeferred + debt - debt' /\ Gross \in Nat
      <4>1. Gross' = Gross /\ Gross \in Nat
        BY <1>1, <1>2, SameGross, GrossNat DEF rows
      <4> QED BY <1>2, <1>9, <4>1, StillIs DEF IntsHold
    <3>5. deferred' = deferred + (StillDeferred' - StillDeferred) + (g - f)
                      - (Outstanding' - Outstanding) + Moving(y) - Moving(x)
      <4>1. f = Net /\ g = 0 /\ deferred' = deferred
        BY <1>1, <3>1, <3>2 DEF books
      <4>2. debt - debt' + Moving(y) = Net
        BY <1>2, <1>4, <1>9 DEF IntsHold
      <4>3. debt' \in Nat /\ Moving(y) \in Int
        BY <1>2, <1>4, <1>9 DEF IntsHold
      <4> PICK u, v, c, d, o, p, q : /\ u = StillDeferred /\ v = StillDeferred' /\ c = debt - debt' /\ d = deferred
                                     /\ o = Moving(y) /\ p = Outstanding /\ q = Outstanding'
        OBVIOUS
      <4>4. /\ d \in Int /\ u \in Int /\ v \in Int /\ c \in Int /\ o \in Int /\ p \in Int /\ q \in Int
            /\ Net \in Int /\ v - u = c /\ c + o = Net /\ q = p
        BY <1>2, <3>3, <3>4, <4>2, <4>3, IntsAfter DEF IntsHold
      <4>5. d = d + (v - u) + (0 - Net) - (q - p) + o - 0
        BY ONLY <4>4
      <4>6. Moving(x) = 0
        BY <1>4
      <4> QED BY <4>1, <4>5, <4>6, Zenon
    <3> QED BY <1>3, <1>12, <3>5, AccountsMoved DEF InOrder
  <2> QED BY <2>1, <2>2, <2>3, <2>5, <2>6, <2>7 DEF InOrder, Orderly
<1> QED BY <1>10, <1>11, <1>12 DEF Held

LEMMA ScheduleHeld ==
    ASSUME Sound, Sound', Held, NEW a \in Actors, CreateSchedule(a)
    PROVE  Held'
<1> PICK x, y : x = actor[a] /\ y = actor'[a]
  OBVIOUS
<1>1. x.pc = "insert" /\ UNCHANGED <<requests, event, books, debt>>
  BY DEF CreateSchedule, At
<1>2. PICK s \in Schedules : /\ schedule[s] = None /\ schedule' = [schedule EXCEPT ![s] = "active"]
                             /\ SetsSchedule(a, "events", s)
  BY DEF CreateSchedule, SetsSchedule
<1>3. Shape /\ x.op = None /\ x.want \in Nat /\ IntsHold
  BY <1>1, BillingOp, IntsAfter DEF Billings, Early
<1>4. Stands(a, y) /\ y.op = None /\ y.pc = "events" /\ y.want = x.want
  BY <1>2, <1>3, SetsScheduleEnters, EntersLands DEF Lands
<1>5. /\ \A b \in Actors : b # a => actor'[b] = actor[b]
      /\ actor'[a] = y /\ Moving(x) = x.want /\ Moving(y) = x.want
  BY <1>1, <1>4 DEF Stands, Moving
<1>6. /\ schedule \in [Schedules -> {None, "active", "canceled"}]
      /\ schedule'[s] = "active" /\ \A t \in Schedules : t # s => schedule'[t] = schedule[t]
  BY <1>2, <1>3 DEF Shape
<1>7. /\ Scheduled' = Scheduled \cup {s} /\ s \notin Scheduled /\ Active' = Active \cup {s}
  BY <1>2, <1>6 DEF Scheduled, Active, None
<1>8. WritingOff' = WritingOff
  BY <1>3, <1>4, <1>5 DEF WritingOff, None
<1>9. Once' = Once /\ Recovering' = Recovering /\ Unscheduled' = Unscheduled
  <2>1. Recovering' <=> Recovering
    BY <1>1, <1>4, <1>5 DEF Recovering
  <2> QED BY <1>1, <2>1 DEF Once, Unscheduled, Recovering, requests
<1>10. Lawful'
  <2>1. "downgrade" \notin life => debt' = 0
    BY <1>1 DEF Held, Lawful, Asked
  <2> QED BY <1>1, <1>4, <1>7, <2>1, BillingLawful DEF Held, Billings, Early, requests, books
<1>11. Out => Out'
  <2>1. Scheduled # {} => Twice'
    BY <1>7 DEF Twice
  <2>2. Doomed => Doomed'
    BY <1>1, <1>5, <1>8 DEF Doomed
  <2> QED BY <2>1, <2>2 DEF Out, Twice, Anew
<1>12. ASSUME InOrder PROVE InOrder'
  <2>0. Scheduled = {} /\ \A b \in Actors : b # a => actor[b].pc \notin {"consume", "insert", "events"}
    BY <1>1, <1>12 DEF InOrder, Orderly, ScheduledOnce, OneScheduler
  <2>1. OneScheduler' /\ ScheduledOnce'
    BY <1>4, <1>5, <2>0 DEF OneScheduler, ScheduledOnce
  <2>2. ToBeScheduled'
    BY <1>7 DEF ToBeScheduled
  <2>3. PaidRecovers' /\ OffRecovers'
    BY <1>1, <1>8, <1>9, <1>12 DEF InOrder, Orderly, PaidRecovers, OffRecovers, requests, books
  <2>4. OpenBefore'
    <3>1. Active = {}
      BY <2>0 DEF Active, Scheduled, None
    <3> QED BY <1>7, <2>0, <3>1 DEF OpenBefore
  <2>5. ~(invoice = "uncollectible" /\ WritingOff = {})
    BY <1>1, <1>12, <2>0 DEF InOrder, Orderly, ClosedAfter, Scheduling
  <2>6. ClosedAfter'
    BY <1>1, <1>8, <2>5 DEF ClosedAfter, requests
  <2>7. InTime'
    <3>1. Kept(y)'
      BY <1>4 DEF Kept, None
    <3> QED BY <1>1, <1>4, <1>7, <1>12, <3>1, OthersInTime DEF InOrder, books
  <2>8. Accounts'
    <3>1. ~Fresh /\ ~Fresh'
      BY <1>1, <1>7 DEF Fresh
    <3>2. Outstanding' - Outstanding = writtenOff' - writtenOff
      <4>1. Outstanding' = writtenOff' /\ Outstanding = writtenOff
        BY <1>1, <1>8, <2>5 DEF Outstanding, requests
      <4> QED BY <4>1
    <3>3. StillDeferred' = StillDeferred
      BY <1>1, SameStill
    <3>4. Stands(a, actor'[a])
      BY <1>4
    <3>5. Balanced(a)
      BY <1>1, <1>5, <3>3, <3>4, StillBalanced DEF books
    <3> QED BY <1>12, <3>1, <3>2, <3>4, <3>5, AccountsKept DEF InOrder
  <2> QED BY <2>1, <2>2, <2>3, <2>4, <2>6, <2>7, <2>8 DEF InOrder, Orderly
<1> QED BY <1>10, <1>11, <1>12 DEF Held

LEMMA EventsHeld ==
    ASSUME Sound, Sound', Held, NEW a \in Actors, CreateEvents(a)
    PROVE  Held'
<1> PICK x, y : x = actor[a] /\ y = actor'[a]
  OBVIOUS
<1>1. x.pc = "events" /\ Done(a) /\ UNCHANGED <<requests, schedule, books, debt>>
  BY DEF CreateEvents, At
<1>2. Shape /\ x.op = None /\ x.want \in Nat /\ IntsHold
  BY <1>1, BillingOp, IntsAfter DEF Billings, Early
<1>3. Stands(a, y) /\ y.op = None /\ y.pc = "idle"
  BY <1>1, <1>2, DoneLands DEF Idle
<1>4. /\ \A b \in Actors : b # a => actor'[b] = actor[b]
      /\ actor'[a] = y /\ Moving(x) = x.want /\ Moving(y) = 0
  BY <1>1, <1>3 DEF Stands, Moving
<1>5. Scheduled' = Scheduled /\ Active' = Active /\ WritingOff' = WritingOff /\ Scheduled # {}
  <2>1. Scheduled # {}
    BY <1>1 DEF Sound, EventInv, InsertsOnce, Scheduled
  <2> QED BY <1>1, <1>2, <1>3, <1>4, <2>1 DEF Scheduled, Active, WritingOff, None
<1>6. Once' = Once /\ Recovering' = Recovering /\ Unscheduled' = Unscheduled
  <2>1. Recovering' <=> Recovering
    BY <1>1, <1>3, <1>4 DEF Recovering
  <2> QED BY <1>1, <2>1 DEF Once, Unscheduled, Recovering, requests
<1>7. Lawful'
  <2>1. "downgrade" \notin life => debt' = 0
    BY <1>1 DEF Held, Lawful, Asked
  <2> QED BY <1>1, <1>3, <1>5, <2>1, BillingLawful DEF Held, Billings, Early, requests, books
<1>8. Out => Out'
  BY <1>1, <1>3, <1>4, <1>5 DEF Out, Twice, Anew, Doomed, Early
<1>9. ASSUME InOrder PROVE InOrder'
  <2>1. OneScheduler' /\ ScheduledOnce'
    BY <1>3, <1>4, <1>5, <1>9 DEF InOrder, Orderly, OneScheduler, ScheduledOnce
  <2>2. ToBeScheduled'
    BY <1>5 DEF ToBeScheduled
  <2>3. PaidRecovers' /\ OffRecovers' /\ OpenBefore' /\ ClosedAfter'
    BY <1>1, <1>5, <1>6, <1>9 DEF InOrder, Orderly, PaidRecovers, OffRecovers, OpenBefore, ClosedAfter, requests, books
  <2>4. InTime'
    <3>1. Kept(y)'
      BY <1>3 DEF Kept, None
    <3> QED BY <1>1, <1>3, <1>5, <1>9, <3>1, OthersInTime DEF InOrder, books
  <2>5. Accounts'
    <3>1. ~Fresh /\ ~Fresh'
      BY <1>5 DEF Fresh
    <3>2. Outstanding' - Outstanding = writtenOff' - writtenOff
      <4>1. Outstanding' = Outstanding /\ writtenOff' = writtenOff
        BY <1>1, <1>5 DEF Outstanding, requests, books
      <4> QED BY <1>2, <4>1 DEF IntsHold
    <3>3. Gross' = Gross + x.want /\ Gross \in Nat
      BY <1>2, CreatedGross, GrossNat DEF Sound
    <3>4. Stands(a, actor'[a])
      BY <1>3
    <3>5. Balanced(a)
      BY <1>1, <1>2, <1>4, <3>3, StillIs DEF Balanced, IntsHold, books
    <3> QED BY <1>9, <3>1, <3>2, <3>4, <3>5, AccountsKept DEF InOrder
  <2> QED BY <2>1, <2>2, <2>3, <2>4, <2>5 DEF InOrder, Orderly
<1> QED BY <1>7, <1>8, <1>9 DEF Held
----------------------------------------------------------------------------
(* Requests, and the steps that end an unwind.                             *)

LEMMA RequestLands ==
    ASSUME Shape, NEW a \in Actors, NEW op \in {"cancel", "refund", "downgrade", "writeOff"},
           NEW pc, NEW want, Request(a, op, pc, want)
    PROVE  /\ actor[a].pc = "idle" /\ actor[a].op = None /\ op \in life
           /\ Stands(a, actor'[a]) /\ actor'[a].pc = pc /\ actor'[a].op = op
           /\ UNCHANGED <<life, rows, books, debt>>
<1> PICK x : x = actor[a]
  OBVIOUS
<1>1. x.pc = "idle" /\ op \in life /\ SetsOpWant(a, pc, op, want) /\ UNCHANGED <<life, rows, books, debt>>
  BY DEF Request, At, SetsOpWant
<1>2. Stands(a, actor'[a]) /\ actor'[a].pc = pc /\ actor'[a].op = op
  BY <1>1, SetsOpWantEnters, EntersLands DEF Lands
<1>3. x.op = None
  BY <1>1, NoRequest DEF Shape, Unwinds
<1> QED BY <1>1, <1>2, <1>3

\* A request finds everything as it is.
LEMMA RequestHeld ==
    ASSUME Sound, Sound', Held, NEW a \in Actors, NEW op \in {"cancel", "refund", "downgrade"},
           NEW want, Request(a, op, "find", want),
           invoice' = invoice, invoice # "new", op \notin asked,
           asked' = asked \cup ({op} \ {"refund"}), op = "refund" => invoice = "paid"
    PROVE  Held'
<1> PICK x, y : x = actor[a] /\ y = actor'[a]
  OBVIOUS
<1>1. /\ x.pc = "idle" /\ x.op = None /\ op \in life
      /\ Stands(a, y) /\ y.pc = "find" /\ y.op = op /\ UNCHANGED <<life, rows, books, debt>>
  BY RequestLands DEF Sound, EventInv
<1>2. /\ \A b \in Actors : b # a => actor'[b] = actor[b]
      /\ actor'[a] = y /\ Moving(x) = 0 /\ Moving(y) = 0
  BY <1>1 DEF Stands, Moving
<1>3. Scheduled' = Scheduled /\ Active' = Active /\ WritingOff' = WritingOff /\ Scheduling' = Scheduling
  BY <1>1, <1>2 DEF Scheduled, Active, WritingOff, Scheduling, rows, None
<1>4. /\ Once' = Once /\ (Underway' <=> Underway) /\ (Recovering' <=> Recovering)
      /\ (Unscheduled' <=> Unscheduled)
  BY <1>1, <1>2 DEF Once, Underway, Recovering, Unscheduled, Early
<1>5. Lawful'
  <2>1. Asked'
    BY <1>1, <1>3 DEF Held, Lawful, Asked, books
  <2>2. PaidOnce'
    BY <1>1, <1>2, <1>3, <1>4 DEF Held, Lawful, PaidOnce, Billings, Early
  <2>3. Requested'
    <3>1. \A b \in Actors : b # a => actor[b].op # "cancel" \/ op # "cancel"
      BY DEF Held, Lawful, Requested, Placed
    <3>2. \A b, c \in Actors :
              actor'[b].op \in {"cancel", "writeOff"} /\ actor'[c].op = actor'[b].op => b = c
      BY <1>1, <1>2, <3>1 DEF Held, Lawful, Requested
    <3>3. Placed(y)'
      BY <1>1 DEF Placed, None
    <3>4. ASSUME NEW b \in Actors, b # a PROVE Placed(actor[b])'
      <4> PICK z : z = actor[b]
        OBVIOUS
      <4>1. actor'[b] = z /\ Placed(z)
        BY <1>2, <3>4 DEF Held, Lawful, Requested
      <4>2. Placed(z)'
        BY <1>1, <1>3, <4>1 DEF Placed
      <4> QED BY <4>1, <4>2 DEF Placed
    <3>5. \A b \in Actors : Placed(actor[b])'
      BY <1>2, <3>3, <3>4 DEF Placed
    <3> QED BY <3>2, <3>5 DEF Requested
  <2> QED BY <2>1, <2>2, <2>3 DEF Lawful
<1>6. Out => Out'
  BY <1>1, <1>2, <1>3 DEF Out, Twice, Anew, Doomed, Early
<1>7. ASSUME InOrder PROVE InOrder'
  <2>1. OneScheduler' /\ ScheduledOnce'
    BY <1>1, <1>2, <1>3, <1>7 DEF InOrder, Orderly, OneScheduler, ScheduledOnce
  <2>2. ToBeScheduled' /\ PaidRecovers' /\ OffRecovers' /\ OpenBefore' /\ ClosedAfter'
    BY <1>1, <1>3, <1>4, <1>7 DEF InOrder, Orderly, ToBeScheduled, PaidRecovers, OffRecovers,
                                  OpenBefore, ClosedAfter, books
  <2>3. InTime'
    <3>1. op = "cancel" => \A s \in Schedules : posted[s][0] = 0
      BY DEF Held, Lawful, Asked
    <3>2. Kept(y)'
      BY <1>1, <3>1 DEF Kept, books
    <3> QED BY <1>1, <1>3, <1>7, <3>2, OthersInTime DEF InOrder, books
  <2>4. Accounts'
    <3>1. (\A b \in Actors : actor'[b].pc \notin {"insert", "events"}) <=> (\A b \in Actors : actor[b].pc \notin {"insert", "events"})
      BY <1>1, <1>2
    <3>2. Fresh' <=> Fresh
      BY <1>3, <1>4, <3>1 DEF Fresh
    <3>3. Outstanding' - Outstanding = writtenOff' - writtenOff
      <4>1. Outstanding' = Outstanding /\ writtenOff' = writtenOff
        BY <1>1, <1>3 DEF Outstanding, books
      <4> QED BY <4>1, IntsAfter DEF IntsHold
    <3>4. StillDeferred' = StillDeferred
      BY <1>1, SameStill DEF rows
    <3>5. Stands(a, actor'[a])
      BY <1>1
    <3>6. Balanced(a)
      BY <1>1, <1>2, <3>4, <3>5, StillBalanced DEF books
    <3> QED BY <1>7, <3>2, <3>3, <3>5, <3>6, AccountsKept DEF InOrder
  <2> QED BY <2>1, <2>2, <2>3, <2>4 DEF InOrder, Orderly
<1> QED BY <1>5, <1>6, <1>7 DEF Held

LEMMA RequestsHeld ==
    ASSUME Sound, Sound', Held, NEW a \in Actors, Cancel(a) \/ Refund(a) \/ Downgrade(a)
    PROVE  Held'
<1>1. asked \subseteq {"cancel", "downgrade", "writeOff", "return"}
  BY DEF Sound, Types
<1>2. CASE Cancel(a)
  BY <1>2, RequestHeld DEF Cancel
<1>3. CASE Refund(a)
  <2>1. PICK amount : Request(a, "refund", "find", amount)
    BY <1>3 DEF Refund
  <2>2. invoice = "paid" /\ UNCHANGED <<asked, invoice>> /\ asked' = asked \cup ({"refund"} \ {"refund"})
    BY <1>3 DEF Refund
  <2> QED BY <1>1, <2>1, <2>2, RequestHeld
<1>4. CASE Downgrade(a)
  <2>1. PICK amount : Request(a, "downgrade", "find", amount)
    BY <1>4 DEF Downgrade
  <2>2. /\ invoice # "new" /\ "downgrade" \notin asked /\ invoice' = invoice
        /\ asked' = asked \cup ({"downgrade"} \ {"refund"})
    BY <1>4 DEF Downgrade
  <2> QED BY <2>1, <2>2, RequestHeld
<1> QED BY <1>2, <1>3, <1>4

LEMMA WriteOffHeld ==
    ASSUME Sound, Sound', Held, NEW a \in Actors, WriteOff(a)
    PROVE  Held'
<1> PICK x, y : x = actor[a] /\ y = actor'[a]
  OBVIOUS
<1>0. /\ invoice = "unpaid" /\ "writeOff" \notin asked /\ Request(a, "writeOff", "read", 0)
      /\ invoice' = "uncollectible" /\ asked' = asked \cup {"writeOff"}
  BY DEF WriteOff
<1>1. /\ x.pc = "idle" /\ x.op = None /\ "writeOff" \in life
      /\ Stands(a, y) /\ y.pc = "read" /\ y.op = "writeOff" /\ UNCHANGED <<life, rows, books, debt>>
  BY <1>0, RequestLands DEF Sound, EventInv
<1>2. /\ \A b \in Actors : b # a => actor'[b] = actor[b]
      /\ actor'[a] = y /\ Moving(x) = 0 /\ Moving(y) = 0
  BY <1>1 DEF Stands, Moving
<1>3. \A b \in Actors : /\ actor[b].op # "writeOff" /\ actor[b].pc # "recover"
                        /\ actor[b].op = "refund" => "return" \in life
  BY <1>0 DEF Held, Lawful, Requested, Placed
<1>4. Scheduled' = Scheduled /\ Active' = Active /\ WritingOff = {} /\ WritingOff' # {}
  BY <1>1, <1>2, <1>3 DEF Scheduled, Active, WritingOff, rows
<1>5. Once' = Once /\ (Underway' <=> Underway) /\ (Unscheduled' <=> Unscheduled) /\ writtenOff = 0
  BY <1>0, <1>1, <1>2 DEF Once, Underway, Unscheduled, Early, Held, Lawful, Asked
<1>6. Lawful'
  <2>1. Asked'
    BY <1>0, <1>1, <1>4 DEF Held, Lawful, Asked, books
  <2>2. PaidOnce'
    BY <1>0, <1>1, <1>2, <1>4, <1>5 DEF Held, Lawful, PaidOnce, Billings, Early
  <2>3. Requested'
    <3>1. \A b, c \in Actors :
              actor'[b].op \in {"cancel", "writeOff"} /\ actor'[c].op = actor'[b].op => b = c
      BY <1>1, <1>2, <1>3 DEF Held, Lawful, Requested
    <3>2. Placed(y)'
      BY <1>0, <1>1 DEF Placed, None
    <3>3. ASSUME NEW b \in Actors, b # a PROVE Placed(actor[b])'
      <4> PICK z : z = actor[b]
        OBVIOUS
      <4>1. actor'[b] = z /\ Placed(z) /\ (z.op = "refund" => "return" \in life) /\ z.pc # "recover"
        BY <1>2, <1>3, <3>3 DEF Held, Lawful, Requested
      <4>2. Placed(z)'
        BY <1>0, <1>1, <1>4, <4>1 DEF Placed
      <4> QED BY <4>1, <4>2 DEF Placed
    <3>4. \A b \in Actors : Placed(actor[b])'
      BY <1>2, <3>2, <3>3 DEF Placed
    <3> QED BY <3>1, <3>4 DEF Requested
  <2> QED BY <2>1, <2>2, <2>3 DEF Lawful
<1>7. Out => Out'
  BY <1>1, <1>2, <1>4 DEF Out, Twice, Anew, Doomed, Early
<1>8. ASSUME InOrder PROVE InOrder'
  <2>1. OneScheduler' /\ ScheduledOnce'
    BY <1>1, <1>2, <1>4, <1>8 DEF InOrder, Orderly, OneScheduler, ScheduledOnce
  <2>2. ToBeScheduled'
    BY <1>0, <1>4, <1>5, <1>8 DEF InOrder, Orderly, ToBeScheduled
  <2>3. PaidRecovers' /\ OffRecovers' /\ OpenBefore' /\ ClosedAfter'
    BY <1>0, <1>4 DEF PaidRecovers, OffRecovers, OpenBefore, ClosedAfter
  <2>4. InTime'
    <3>1. Scheduled # {} => Active # {}
      <4>1. Once => Scheduled = {}
        BY <1>0 DEF Held, Lawful, PaidOnce
      <4>2. ~Once => Active = Scheduled
        BY <1>0, <1>1, <1>8 DEF InOrder, Orderly, OpenBefore
      <4> QED BY <4>1, <4>2
    <3>2. Kept(y)'
      BY <1>1, <1>4, <1>5, <3>1 DEF Kept, books
    <3> QED BY <1>1, <1>3, <1>8, <3>2, OthersInTime DEF InOrder, books
  <2>5. Accounts'
    <3>1. (\A b \in Actors : actor'[b].pc \notin {"insert", "events"}) <=> (\A b \in Actors : actor[b].pc \notin {"insert", "events"})
      BY <1>1, <1>2
    <3>2. Fresh' <=> Fresh
      BY <1>4, <1>5, <3>1 DEF Fresh
    <3>3. Outstanding' - Outstanding = writtenOff' - writtenOff
      <4>1. Outstanding' = writtenOff' /\ Outstanding = writtenOff
        BY <1>0, <1>1, <1>4 DEF Outstanding, books
      <4> QED BY <4>1
    <3>4. StillDeferred' = StillDeferred
      BY <1>1, SameStill DEF rows
    <3>5. Stands(a, actor'[a])
      BY <1>1
    <3>6. Balanced(a)
      BY <1>1, <1>2, <3>4, <3>5, StillBalanced DEF books
    <3> QED BY <1>8, <3>2, <3>3, <3>5, <3>6, AccountsKept DEF InOrder
  <2> QED BY <2>1, <2>2, <2>3, <2>4, <2>5 DEF InOrder, Orderly
<1> QED BY <1>6, <1>7, <1>8 DEF Held

\* A write-off found nothing to unwind, or any other request something or nothing.
LEMMA FindHeld ==
    ASSUME Sound, Sound', Held, NEW a \in Actors, FindSchedules(a), misled' = FALSE
    PROVE  Held'
<1> PICK x, y : x = actor[a] /\ y = actor'[a]
  OBVIOUS
<1>1. PICK left :
          /\ left \subseteq Active
          /\ IF x.op \in {"refund", "writeOff"} /\ Active # {} THEN Cardinality(left) = 1 ELSE left = Active
          /\ actor' = [actor EXCEPT ![a] = Continue(a, left, 0)]
  BY DEF FindSchedules
<1>2. /\ x.pc = "find" /\ UNCHANGED <<requests, rows, books, debt>>
      /\ x.op = "writeOff" => Scheduling = {}
  BY DEF FindSchedules, At
<1>3. left = {} => Active = {}
  BY <1>1, FS_EmptySet
<1>4. Active \subseteq Scheduled /\ Scheduled' = Scheduled /\ Active' = Active
  BY <1>2 DEF Active, Scheduled, None, rows
<1>5. /\ Shape /\ Placed(x) /\ x.op \in {"cancel", "refund", "downgrade", "writeOff"}
  BY <1>2, SweepingOps DEF Unwinds
<1>6. Continues(a, x, y, left, 0)
  <2> PICK taken : taken = 0
    OBVIOUS
  <2>1. /\ left \subseteq Scheduled /\ taken \in Nat
        /\ actor' = [actor EXCEPT ![a] = Continue(a, left, taken)]
        /\ x.pc \in {"find", "list", "remove", "close", "post"}
    BY <1>1, <1>2, <1>4
  <2>2. Continues(a, x, y, left, taken)
    BY <2>1, ContinueStands
  <2> QED BY <2>2
<1>7. /\ Stands(a, y) /\ y.pc \in {"list", "credit", "recognized", "idle"} /\ y.op \in {x.op, None} /\ Placed(y)
      /\ x.op # "writeOff" /\ (x.op = "cancel" => left = {}) => Kept(y)'
      /\ Moving(y) = 0
      /\ left = {} /\ x.op # "downgrade" => y = Idle /\ Kept(y)'
      /\ left # {} => /\ y.pc = "list" /\ y.op = x.op /\ y.want = x.want /\ y.take = x.take /\ y.taken = 0
  BY <1>6 DEF Continues
<1>8. Moving(x) = 0 /\ StillDeferred' = StillDeferred
  BY <1>2, SameStill DEF Moving, rows
<1>9. Balanced(a)
  BY <1>2, <1>7, <1>8, StillBalanced DEF books
<1>10. CASE x.op = "writeOff" => left # {}
  <2>1. ASSUME InOrder PROVE Kept(y)'
    <3>1. Kept(x)
      BY <2>1 DEF InOrder, InTime
    <3>2. CASE left # {} /\ x.op \in {"cancel", "writeOff"}
      BY <1>2, <1>7, <3>1, <3>2 DEF Kept, books
    <3> QED BY <1>7, <1>10, <3>2
  <2>2. x.op = "writeOff" => y.op = "writeOff"
    BY <1>7, <1>10
  <2> QED BY <1>2, <1>7, <1>9, <2>1, <2>2, UnwindKept DEF Unwinds, Resting, requests, rows, books
<1>11. CASE x.op = "writeOff" /\ left = {}
  <2>1. y = Idle /\ Kept(y)' /\ Active = {} /\ Scheduling = {} /\ y.pc = "idle" /\ y.op = None
    BY <1>2, <1>3, <1>7, <1>11 DEF Idle
  <2>2. /\ \A b \in Actors : b # a => actor'[b] = actor[b] /\ actor[b].op # "writeOff"
        /\ actor'[a] = y
    BY <1>7, <1>11 DEF Stands, Held, Lawful, Requested
  <2>3. WritingOff # {} /\ WritingOff' = {}
    BY <1>11, <2>1, <2>2 DEF WritingOff, None
  <2>4. \A pcs \in SUBSET Billings : \A b \in Actors : actor'[b].pc \in pcs <=> actor[b].pc \in pcs
    BY <1>2, <2>1, <2>2 DEF Billings, Early
  <2>5. Underway' = Underway /\ Recovering' = Recovering /\ Scheduling' = {}
    <3>1. Early \in SUBSET Billings /\ {"recover"} \in SUBSET Billings
          /\ {"check", "consume", "insert", "events"} \in SUBSET Billings
      BY DEF Billings, Early
    <3>2. /\ \A b \in Actors : actor'[b].pc \in Early <=> actor[b].pc \in Early
          /\ \A b \in Actors : actor'[b].pc \in {"recover"} <=> actor[b].pc \in {"recover"}
          /\ \A b \in Actors : actor'[b].pc \in {"check", "consume", "insert", "events"} <=>
                               actor[b].pc \in {"check", "consume", "insert", "events"}
      BY <2>4, <3>1
    <3> QED BY <2>1, <3>2 DEF Underway, Recovering, Scheduling
  <2>6. Once' = Once /\ Unscheduled' = Unscheduled
    BY <1>2 DEF Once, Unscheduled, requests
  <2>7. Lawful'
    <3>1. invoice # "new"
      BY <1>2, IssuedBefore DEF Held
    <3>2. Mild(a)
      BY <1>2, <1>4, <1>7, <1>11, <2>1, <2>2, <3>1, IdleOK DEF Mild, Billings, Early, requests, books
    <3> QED BY <1>7, <2>2, <3>2, LawfulKept DEF Held, Sound, EventInv
  <2>8. Out => Out'
    <3>1. ~Doomed
      BY <2>1 DEF Doomed, Scheduling
    <3>2. Anew => Anew'
      BY <1>2, <1>4, <2>2 DEF Anew, Early
    <3> QED BY <1>4, <3>1, <3>2 DEF Out, Twice
  <2>9. ASSUME InOrder PROVE InOrder'
    <3>1. Kept(x) /\ Scheduled = {}
      <4>1. Kept(x)
        BY <2>9 DEF InOrder, InTime
      <4> QED BY <1>2, <1>11, <2>1, <4>1 DEF Kept
    <3>2. OneScheduler' /\ ScheduledOnce'
      <4>1. \A b \in Actors : actor'[b].pc \notin {"consume", "insert", "events"}
        BY <2>5 DEF Scheduling
      <4> QED BY <4>1 DEF OneScheduler, ScheduledOnce
    <3>3. ToBeScheduled' /\ PaidRecovers' /\ OffRecovers' /\ OpenBefore' /\ ClosedAfter'
      BY <1>2, <1>4, <2>3, <2>5, <2>6, <2>9, <3>1 DEF InOrder, Orderly, ToBeScheduled, PaidRecovers,
          OffRecovers, OpenBefore, ClosedAfter, requests, books
    <3>4. InTime'
      BY <1>2, <1>4, <1>7, <2>1, <2>2, <2>9, OthersInTime DEF InOrder, books
    <3>5. Accounts'
      <4>1. {"insert", "events"} \in SUBSET Billings
        BY DEF Billings, Early
      <4>2. \A b \in Actors : actor'[b].pc \in {"insert", "events"} <=> actor[b].pc \in {"insert", "events"}
        BY <2>4, <4>1
      <4>3. Fresh' <=> Fresh
        BY <1>4, <2>5, <2>6, <4>2 DEF Fresh
      <4>4. Outstanding' - Outstanding = writtenOff' - writtenOff
        BY <1>2, <1>4, <3>1 DEF Outstanding, books
      <4>5. Stands(a, actor'[a])
        BY <1>7, <2>2
      <4> QED BY <1>9, <2>9, <4>3, <4>4, <4>5, AccountsKept DEF InOrder
    <3> QED BY <3>2, <3>3, <3>4, <3>5 DEF InOrder, Orderly
  <2> QED BY <2>7, <2>8, <2>9 DEF Held
<1> QED BY <1>10, <1>11

\* The schedule of an unwind is closed.
LEMMA CloseLands ==
    ASSUME Sound, Sound', Held, NEW a \in Actors, CloseSchedule(a), NEW x, x = actor[a], NEW y, y = actor'[a]
    PROVE  /\ Stands(a, y) /\ y.pc \in {"post", "list", "idle"} /\ y.op \in {x.op, None} /\ Placed(y)
           /\ x.left = {} => /\ y.pc # "list" /\ (Kept(x) => Kept(y)')
                             /\ Moving(y) = IF x.op = "writeOff" THEN 0 ELSE x.taken
                             /\ x.op = "writeOff" => y.op = None
           /\ x.left # {} => y.op = x.op \/ x.op # "writeOff"
<1>1. /\ x.pc = "close" /\ UNCHANGED <<requests, event, books, debt>>
      /\ actor' = [actor EXCEPT ![a] = IF x.op # "writeOff" /\ x.taken > 0
                                       THEN [x EXCEPT !.pc = "post"] ELSE Continue(a, x.left, x.taken)]
  BY DEF CloseSchedule, At
<1>2. /\ Shape /\ IsRecord(x) /\ Placed(x) /\ x.taken \in Nat /\ x.left \subseteq Scheduled
      /\ x.op \in {"cancel", "refund", "writeOff"} /\ x.schedule \in Scheduled \ x.left
  <2>1. /\ Shape /\ IsRecord(x) /\ Placed(x) /\ x.taken \in Nat
        /\ x.op \in {"cancel", "refund", "downgrade", "writeOff"}
    BY <1>1, SweepingOps DEF Unwinds
  <2> QED BY <1>1, <2>1 DEF Placed
<1>3. CASE x.op # "writeOff" /\ x.taken > 0
  <2> PICK r : r = [x EXCEPT !.pc = "post"]
    OBVIOUS
  <2>1. actor' = [actor EXCEPT ![a] = r]
    BY <1>1, <1>3
  <2>2. r = ActorRecord("post", x.op, x.schedule, x.todo, x.held, x.left, x.want, x.take, x.taken)
    BY <1>2 DEF IsRecord, ActorRecord
  <2>3. Lands(a, "post", x.op, x.schedule, x.todo, x.held, x.left, x.want, x.take, x.taken)
    BY <1>2, <2>1, <2>2, EntersLands DEF Enters
  <2>4. Stands(a, y) /\ y.pc = "post" /\ y.op = x.op /\ y.schedule = x.schedule /\ y.left = x.left /\ y.taken = x.taken
    BY <2>3 DEF Lands
  <2>5. Placed(y)
    BY <1>2, <1>3, <2>4 DEF Placed
  <2>6. Kept(x) => Kept(y)'
    BY <1>1, <1>3, <2>4 DEF Kept, books
  <2>7. Moving(y) = x.taken
    BY <2>4 DEF Moving
  <2> QED BY <1>3, <2>4, <2>5, <2>6, <2>7
<1>4. CASE ~(x.op # "writeOff" /\ x.taken > 0)
  <2> PICK left, taken : left = x.left /\ taken = x.taken
    OBVIOUS
  <2>1. /\ left \subseteq Scheduled /\ taken \in Nat
        /\ actor' = [actor EXCEPT ![a] = Continue(a, left, taken)]
        /\ x.pc \in {"find", "list", "remove", "close", "post"}
    BY <1>1, <1>2, <1>4
  <2>2. Continues(a, x, y, left, taken)
    BY <2>1, ContinueStands
  <2>3. /\ Stands(a, y) /\ y.op \in {x.op, None} /\ Placed(y)
        /\ left = {} => y = Idle /\ Kept(y)' /\ Moving(y) = 0
        /\ left # {} => y.pc = "list" /\ y.op = x.op
    BY <1>2, <2>2 DEF Continues
  <2>4. Idle.pc = "idle" /\ Idle.op = None
    BY DEF Idle
  <2>5. x.op # "writeOff" => x.taken = 0
    BY <1>2, <1>4
  <2> QED BY <2>3, <2>4, <2>5
<1> QED BY <1>3, <1>4

LEMMA CloseHeld ==
    ASSUME Separate, Sound, Sound', Held, NEW a \in Actors, CloseSchedule(a)
    PROVE  Held'
<1> PICK x, y : x = actor[a] /\ y = actor'[a]
  OBVIOUS
<1>1. /\ x.pc = "close" /\ UNCHANGED <<requests, event, books, debt>>
      /\ schedule' = [schedule EXCEPT ![x.schedule] = "canceled"]
  BY DEF CloseSchedule, At
<1>2. /\ Shape /\ Placed(x) /\ x.taken \in Nat
      /\ x.op \in {"cancel", "refund", "writeOff"} /\ x.op \in life /\ x.schedule \in Scheduled
  <2>1. /\ Shape /\ Placed(x) /\ x.taken \in Nat /\ x.op \in {"cancel", "refund", "downgrade", "writeOff"}
    BY <1>1, SweepingOps DEF Unwinds
  <2> QED BY <1>1, <2>1 DEF Placed, None
<1>3. /\ Stands(a, y) /\ y.pc \in {"post", "list", "idle"} /\ y.op \in {x.op, None} /\ Placed(y)
      /\ x.left = {} => /\ y.pc # "list" /\ (Kept(x) => Kept(y)')
                        /\ Moving(y) = IF x.op = "writeOff" THEN 0 ELSE x.taken
                        /\ x.op = "writeOff" => y.op = None
      /\ x.left # {} => y.op = x.op \/ x.op # "writeOff"
  BY CloseLands
<1>4. /\ Scheduled' = Scheduled /\ Active' = Active \ {x.schedule}
  <2>1. schedule \in [Schedules -> {None, "active", "canceled"}]
    BY <1>2 DEF Shape
  <2>2. \A s \in Schedules : schedule'[s] = IF s = x.schedule THEN "canceled" ELSE schedule[s]
    BY <1>1, <2>1
  <2> QED BY <1>2, <2>2 DEF Scheduled, Active, None
<1>5. /\ \A b \in Actors : b # a => actor'[b] = actor[b]
      /\ actor'[a] = y /\ Moving(x) = x.taken
  BY <1>1, <1>3 DEF Stands, Moving
<1>6. Lawful'
  <2>1. invoice # "new"
    BY <1>1, IssuedBefore DEF Held
  <2>2. ActorOK(y)
    BY <1>5 DEF Sound, EventInv, Shape
  <2>3. Mild(a)
    BY <1>1, <1>3, <1>4, <1>5, <2>1, <2>2 DEF Mild, Billings, Early, requests, books
  <2> QED BY <1>3, <1>5, <2>3, LawfulKept DEF Held, Sound, EventInv
<1>7. ~Twice => Scheduled = {x.schedule} /\ Active' = {} /\ x.left = {}
  <2>1. ~Twice => Scheduled = {x.schedule}
    BY <1>2 DEF Twice
  <2>2. Active \subseteq Scheduled
    BY DEF Active, Scheduled, None
  <2>3. ~Twice => x.left = {}
    BY <1>1, <1>2, NothingLeft
  <2> QED BY <1>4, <2>1, <2>2, <2>3
<1>8. \A b \in Actors : actor'[b].pc \in Early <=> actor[b].pc \in Early
  BY <1>1, <1>3, <1>5 DEF Early
<1>9. Out => Out'
  <2>1. Twice => Twice'
    BY <1>4 DEF Twice
  <2>2. Anew => Anew'
    BY <1>4, <1>8 DEF Anew
  <2>3. Doomed /\ ~Twice => Anew'
    <3>1. Doomed => \E b \in Actors : actor'[b].pc \in Early
      BY <1>8 DEF Doomed, Early
    <3> QED BY <1>4, <1>7, <3>1 DEF Anew
  <2> QED BY <2>1, <2>2, <2>3 DEF Out
<1>10. ASSUME ~Out', InOrder PROVE InOrder'
  <2>1. /\ ~Twice /\ Scheduled = {x.schedule} /\ Scheduled' = {x.schedule} /\ Active' = {} /\ x.left = {}
        /\ \A b \in Actors : actor[b].pc \notin Early /\ actor'[b].pc \notin Early
    <3>1. ~Twice
      BY <1>4, <1>10 DEF Out, Twice
    <3>2. Scheduled = {x.schedule} /\ Scheduled' = {x.schedule} /\ Active' = {} /\ x.left = {}
      BY <1>4, <1>7, <3>1
    <3>3. \A b \in Actors : actor'[b].pc \notin Early
      BY <1>10, <3>2 DEF Out, Anew
    <3> QED BY <1>8, <3>1, <3>2, <3>3
  <2>2. ~Recovering /\ ~Recovering' /\ y.pc \in {"post", "idle"}
    BY <1>3, <2>1 DEF Recovering, Early
  <2>3. WritingOff # {} => invoice = "uncollectible"
    BY <1>10, <2>2 DEF InOrder, Orderly, PaidRecovers
  <2>4. x.op # "writeOff" /\ ~Once /\ "writeOff" \in life => invoice = "paid" /\ "return" \notin life
    <3> SUFFICES ASSUME x.op # "writeOff", ~Once, "writeOff" \in life PROVE invoice = "paid" /\ "return" \notin life
      OBVIOUS
    <3>1. life \in Lives
      BY DEF Sound, Types
    <3>2. "cancel" \notin life /\ ("refund" \notin life \/ "return" \notin life)
      BY <3>1 DEF Separate, Once
    <3>3. x.op = "refund" /\ "return" \notin life
      BY <1>2, <3>2
    <3> QED BY <1>2, <3>3 DEF Placed
  <2>5. x.op # "writeOff" => WritingOff = {}
    <3> SUFFICES ASSUME x.op # "writeOff", NEW b \in WritingOff PROVE FALSE
      OBVIOUS
    <3>1. invoice = "uncollectible" /\ "writeOff" \in life
      <4>1. Placed(actor[b]) /\ actor[b].op = "writeOff"
        BY DEF WritingOff, Held, Lawful, Requested
      <4> QED BY <2>3, <4>1 DEF Placed, None
    <3>2. ~Once
      BY <2>1, <3>1 DEF Held, Lawful, PaidOnce
    <3> QED BY <2>4, <3>1, <3>2
  <2>6. \A b \in Actors : b # a => actor[b].op # "writeOff"
    BY <2>5 DEF WritingOff, Held, Lawful, Requested
  <2>7. WritingOff' = {}
    <3>1. y.op # "writeOff"
      BY <1>3, <2>1 DEF None
    <3> QED BY <1>5, <2>6, <3>1 DEF WritingOff
  <2>8. OneScheduler' /\ ScheduledOnce'
    <3>1. \A b \in Actors : /\ actor'[b].pc \in {"consume", "insert", "events"} => b # a /\ actor'[b] = actor[b]
                            /\ actor'[b].pc \notin {"consume", "insert"}
      BY <1>5, <2>1, <2>2 DEF Early
    <3> QED BY <1>10, <3>1 DEF InOrder, Orderly, OneScheduler, ScheduledOnce
  <2>9. ToBeScheduled' /\ PaidRecovers' /\ OffRecovers' /\ ClosedAfter'
    BY <1>1, <1>10, <2>1, <2>2, <2>7 DEF InOrder, Orderly, ToBeScheduled, PaidRecovers, OffRecovers,
        ClosedAfter, requests, books
  <2>10. OpenBefore'
    <3>1. x.op = "writeOff" => "writeOff" \in asked
      BY <1>2 DEF Placed
    <3>2. Once' = Once
      BY <1>1 DEF Once, requests
    <3> QED BY <1>1, <2>4, <3>1, <3>2 DEF OpenBefore, requests
  <2>11. Kept(x)
    BY <1>10 DEF InOrder, InTime
  <2>12. InTime'
    <3>1. Kept(y)'
      BY <1>3, <2>1, <2>11
    <3> QED BY <1>1, <1>3, <1>10, <2>6, <3>1, OthersInTime DEF InOrder, books
  <2>13. Accounts'
    <3> PICK f, g : f = (IF Fresh THEN Net ELSE 0) /\ g = (IF Fresh' THEN Net ELSE 0)
      OBVIOUS
    <3>1. f = 0 /\ g = 0
      BY <2>1 DEF Fresh
    <3>2. StillDeferred' = StillDeferred /\ IntsHold /\ deferred' = deferred /\ writtenOff' = writtenOff
      BY <1>1, SameStill, IntsAfter DEF books
    <3>3. Outstanding' - Outstanding = Moving(y) - Moving(x)
      <4>1. CASE x.op = "writeOff"
        <5>1. WritingOff # {} /\ writtenOff = x.taken /\ Moving(y) = 0
          BY <1>1, <1>3, <2>1, <2>11, <4>1 DEF WritingOff, Kept
        <5>2. Outstanding = x.taken /\ Outstanding' = 0
          BY <1>1, <2>1, <2>3, <2>7, <5>1 DEF Outstanding, requests
        <5> QED BY <1>2, <1>5, <5>1, <5>2
      <4>2. CASE x.op # "writeOff"
        <5>1. Outstanding' = Outstanding
          BY <1>1, <2>1, <2>5, <2>7, <3>2, <4>2 DEF Outstanding, requests
        <5>2. Moving(y) = Moving(x)
          BY <1>3, <1>5, <2>1, <4>2
        <5> QED BY <1>2, <1>5, <3>2, <5>1, <5>2 DEF IntsHold
      <4> QED BY <4>1, <4>2
    <3>4. deferred' = deferred + (StillDeferred' - StillDeferred) + (g - f)
                      - (Outstanding' - Outstanding) + Moving(y) - Moving(x)
      <4>1. Moving(y) \in Int /\ Moving(x) \in Int
        BY <1>2, <1>3, <1>5, <2>1
      <4>2. Outstanding \in Int /\ Outstanding' \in Int
        BY IntsAfter DEF IntsHold
      <4> PICK d, u, o, q, m, n : /\ d = deferred /\ u = StillDeferred /\ o = Outstanding /\ q = Outstanding'
                                  /\ m = Moving(x) /\ n = Moving(y)
        OBVIOUS
      <4>3. /\ d \in Int /\ u \in Int /\ o \in Int /\ q \in Int /\ m \in Int /\ n \in Int /\ q - o = n - m
        BY <3>2, <3>3, <4>1, <4>2 DEF IntsHold
      <4>4. d = d + (u - u) + (0 - 0) - (q - o) + n - m
        BY ONLY <4>3
      <4> QED BY <3>1, <3>2, <4>4, Zenon
    <3> QED BY <1>3, <1>10, <3>4, AccountsMoved DEF InOrder
  <2> QED BY <2>8, <2>9, <2>10, <2>12, <2>13 DEF InOrder, Orderly
<1> QED BY <1>6, <1>9, <1>10 DEF Held
----------------------------------------------------------------------------
(* Deferred Revenue matches the schedules.                                 *)

\* What was misled stays so.
LEMMA MisledStays ==
    ASSUME Types, [Next]_vars, misled' = FALSE
    PROVE  misled = FALSE
<1>1. misled \in BOOLEAN
  BY DEF Types
<1>2. CASE NextMonth \/ Return \/ UNCHANGED vars
  BY <1>2 DEF NextMonth, Return, vars
<1>3. ASSUME NEW a \in Actors, Worker(a) \/ Crash(a) PROVE misled = FALSE
  BY <1>3 DEF Worker, Requeue, ClaimDueEvents, RecordRecognition, RecognitionFails,
              MarkEventRecognized, MarkEventFailed, Crash
<1>4. ASSUME NEW a \in Actors, Billing(a) PROVE misled = FALSE
  <2>1. CASE CheckSchedule(a)
    BY <1>1, <2>1 DEF CheckSchedule
  <2>2. CASE ~CheckSchedule(a)
    BY <1>4, <2>2 DEF Billing, Issue, Settle, RecordWriteOffRecovery, ConsumeScheduleDebt,
                      CreateSchedule, CreateEvents
  <2> QED BY <2>1, <2>2
<1>5. ASSUME NEW a \in Actors, Unwinding(a) PROVE misled = FALSE
  <2>1. CASE RecordInvoiceWriteOff(a) \/ FindSchedules(a) \/ AddScheduleDebt(a)
    BY <1>1, <2>1 DEF RecordInvoiceWriteOff, FindSchedules, AddScheduleDebt
  <2>2. CASE ListPending(a)
    <3>1. \E p : misled' = (misled \/ p)
      BY <2>2 DEF ListPending
    <3> QED BY <1>1, <3>1
  <2>3. CASE RemoveEvent(a)
    <3>1. \E p : misled' = (misled \/ p)
      BY <2>3 DEF RemoveEvent
    <3> QED BY <1>1, <3>1
  <2>4. CASE ~(RecordInvoiceWriteOff(a) \/ FindSchedules(a) \/ ListPending(a) \/ RemoveEvent(a)
               \/ AddScheduleDebt(a))
    BY <1>5, <2>4 DEF Unwinding, Cancel, Refund, Downgrade, WriteOff, Request, ReadRecognized,
         CloseSchedule, PostUnwind, ListRecognized, ReverseRecognized, RecordDowngradeCredit
  <2> QED BY <2>1, <2>2, <2>3, <2>4
<1> QED BY <1>2, <1>3, <1>4, <1>5 DEF Next

LEMMA StepHeld ==
    ASSUME Separate, Sound, Sound', Held, [Next]_vars, faults' = 0, misled' = FALSE
    PROVE  Held'
<1>1. \A a \in Actors : ~Crash(a) /\ ~RecognitionFails(a)
  BY FaultsStay DEF Sound
<1>2. ASSUME NEW a \in Actors, Worker(a) PROVE Held'
  <2>1. ~MarkEventFailed(a)
    BY DEF MarkEventFailed, At, Sound, Books, OneAtATime
  <2> QED BY <1>1, <1>2, <2>1, RequeueHeld, ClaimHeld, RecordHeld, MarkHeld DEF Worker
<1>3. ASSUME NEW a \in Actors, Billing(a) PROVE Held'
  BY <1>3, IssueHeld, SettleHeld, RecoveryHeld, CheckHeld, ConsumeHeld, ScheduleHeld, EventsHeld DEF Billing
<1>4. ASSUME NEW a \in Actors, Unwinding(a) PROVE Held'
  <2>1. CASE Cancel(a) \/ Refund(a) \/ Downgrade(a) \/ WriteOff(a)
    BY <2>1, RequestsHeld, WriteOffHeld
  <2>2. CASE ReadRecognized(a) \/ RecordInvoiceWriteOff(a) \/ FindSchedules(a) \/ ListPending(a)
    BY <2>2, ReadHeld, WrittenOffHeld, FindHeld, ListHeld
  <2>3. CASE RemoveEvent(a) \/ CloseSchedule(a) \/ PostUnwind(a)
    BY <2>3, RemoveHeld, CloseHeld, PostHeld
  <2>4. CASE ListRecognized(a) \/ ReverseRecognized(a) \/ AddScheduleDebt(a) \/ RecordDowngradeCredit(a)
    BY <2>4, ListedHeld, ReverseHeld, DebtHeld, CreditHeld
  <2> QED BY <1>4, <2>1, <2>2, <2>3, <2>4 DEF Unwinding
<1>5. CASE NextMonth \/ Return
  BY <1>5, NextMonthHeld, ReturnHeld
<1>6. CASE UNCHANGED vars
  BY <1>6, SameHeld DEF vars, rows, books
<1> QED BY <1>1, <1>2, <1>3, <1>4, <1>5, <1>6 DEF Next

LEMMA StepDeferral ==
    Separate => (EventInv /\ Types /\ PostInv /\ DeferralInv /\ [Next]_vars => DeferralInv')
<1> SUFFICES ASSUME Separate, EventInv, Types, PostInv, DeferralInv, [Next]_vars, faults' = 0, ~misled'
             PROVE  Held'
  BY DEF DeferralInv, Held, InOrder
<1>1. EventInv' /\ Types' /\ PostInv'
  BY StepEvents, StepTyped, StepPosted
<1>2. misled' = FALSE
  BY <1>1 DEF Types
<1>3. faults = 0 /\ misled = FALSE
  BY <1>2, FaultsStay, MisledStays
<1>4. Held /\ Sound
  BY <1>3 DEF DeferralInv, Held, InOrder, PostInv, Sound
<1>5. Sound'
  BY <1>1 DEF PostInv, Sound
<1> QED BY <1>2, <1>4, <1>5, StepHeld

LEMMA NothingMoves ==
    ASSUME \A a \in Actors : Moving(actor[a]) = 0
    PROVE  InMotion = 0
<1> PICK f : f = [a \in Actors |-> Moving(actor[a])]
  OBVIOUS
<1>1. SumOver(f) = SumFunctionOnSet(f, Actors)
  <2>1. DOMAIN f = Actors
    OBVIOUS
  <2> QED BY <2>1, SumOverIs
<1>2. SumFunctionOnSet(f, Actors) = 0
  BY SumZero, RecognitionAssumption
<1> QED BY <1>1, <1>2 DEF InMotion

LEMMA InitDeferral == Init => DeferralInv
<1> SUFFICES ASSUME Init PROVE Held
  BY DEF DeferralInv, Held, InOrder
<1>1. \A a \in Actors : actor[a] = Idle /\ actor[a].pc = "idle" /\ actor[a].op = None /\ Moving(actor[a]) = 0
  BY DEF Init, Idle, Moving
<1>2. Scheduled = {} /\ WritingOff = {}
  BY <1>1 DEF Init, Scheduled, WritingOff, None
<1>3. /\ asked = {} /\ invoice = "new" /\ deferred = 0 /\ writtenOff = 0 /\ debt = 0
      /\ \A s \in Schedules : posted[s][0] = 0
  BY RecognitionAssumption DEF Init
<1>4. ~Underway /\ ~Unscheduled
  BY <1>1, <1>3 DEF Underway, Early, Unscheduled
<1>5. Lawful
  BY <1>1, <1>2, <1>3 DEF Lawful, Asked, PaidOnce, Requested, Placed, Billings, Early, None
<1>6. Orderly
  <2>1. OneScheduler /\ ScheduledOnce
    BY <1>1, <1>2 DEF OneScheduler, ScheduledOnce
  <2>2. Active = {}
    BY DEF Init, Active, None
  <2> QED BY <1>2, <1>3, <2>1, <2>2 DEF Orderly, ToBeScheduled, PaidRecovers, OffRecovers, OpenBefore, ClosedAfter
<1>7. InTime
  BY <1>1 DEF InTime, Kept, None
<1>8. Accounts
  <2>1. Gross = 0
    <3> PICK f : f = [s \in Schedules |-> Amount(s, Open)]
      OBVIOUS
    <3>1. ASSUME NEW s \in Schedules PROVE Amount(s, Open) = 0
      <4> PICK g : g = [m \in 1..Months |-> IF event[s][m].status \in Open THEN event[s][m].amount ELSE 0]
        OBVIOUS
      <4>1. \A m \in 1..Months : event[s][m].status = None
        BY DEF Init, NoEvent
      <4>2. \A m \in 1..Months : g[m] = 0
        BY <4>1 DEF Open, None
      <4>3. SumOver(g) = SumFunctionOnSet(g, 1..Months)
        <5>1. DOMAIN g = 1..Months
          OBVIOUS
        <5> QED BY <5>1, SumOverIs
      <4>4. SumFunctionOnSet(g, 1..Months) = 0
        BY <4>2, SumZero, MonthsFinite
      <4> QED BY <4>3, <4>4 DEF Amount
    <3>2. SumOver(f) = SumFunctionOnSet(f, Schedules)
      <4>1. DOMAIN f = Schedules
        OBVIOUS
      <4> QED BY <4>1, SumOverIs
    <3>3. SumFunctionOnSet(f, Schedules) = 0
      BY <3>1, SumZero, RecognitionAssumption
    <3> QED BY <3>2, <3>3 DEF Gross
  <2>2. InMotion = 0
    BY <1>1, NothingMoves
  <2> QED BY <1>3, <1>4, <2>1, <2>2, StillIs DEF Accounts, Fresh, Outstanding
<1> QED BY <1>5, <1>6, <1>7, <1>8 DEF Held, InOrder

LEMMA QuietDeferral ==
    ASSUME EventInv, Types, PostInv, DeferralInv, Quiet, faults = 0, ~misled, Cardinality(Scheduled) <= 1
    PROVE  deferred = StillDeferred + (IF Scheduled = {} /\ Unscheduled THEN Net - writtenOff ELSE 0)
<1>1. Lawful /\ (Out \/ (Orderly /\ Accounts)) /\ Sound
  BY DEF DeferralInv, PostInv, Sound
<1>2. \A a \in Actors : actor[a].pc = "idle" /\ actor[a].op = None /\ Moving(actor[a]) = 0
  BY DEF Quiet, Idle, Moving
<1>3. ~Twice
  <2> SUFFICES ASSUME NEW s \in Scheduled, NEW t \in Scheduled, s # t PROVE FALSE
    BY DEF Twice
  <2>1. IsFiniteSet(Scheduled)
    <3>1. Scheduled \subseteq Schedules
      BY DEF Scheduled
    <3> QED BY <3>1, FS_Subset, RecognitionAssumption
  <2>2. IsFiniteSet(Scheduled \ {s}) /\ Cardinality(Scheduled \ {s}) = Cardinality(Scheduled) - 1
    BY <2>1, FS_RemoveElement
  <2>3. Cardinality(Scheduled \ {s}) = 0
    BY <2>1, <2>2, FS_CardinalityType
  <2> QED BY <2>2, <2>3, FS_EmptySet
<1>4. ~Out /\ WritingOff = {} /\ ~Underway /\ ~Recovering
  BY <1>2, <1>3 DEF Out, Anew, Doomed, Early, WritingOff, Underway, Recovering, None
<1>5. InMotion = 0
  BY <1>2, NothingMoves
<1>6. Fresh <=> Scheduled = {} /\ Unscheduled
  BY <1>2, <1>4 DEF Fresh
<1>7. deferred = StillDeferred + (IF Fresh THEN Net ELSE 0) - Outstanding + 0
  BY <1>1, <1>4, <1>5 DEF Accounts
<1>8. writtenOff # 0 => invoice = "uncollectible"
  BY <1>1, <1>4 DEF Orderly, OffRecovers
<1>9. Outstanding = IF Fresh THEN writtenOff ELSE 0
  <2>1. CASE Scheduled # {}
    BY <1>4, <1>6, <1>8, <2>1 DEF Outstanding
  <2>2. CASE Scheduled = {} /\ Unscheduled
    BY <1>6, <2>2 DEF Outstanding
  <2>3. CASE Scheduled = {} /\ ~Unscheduled
    <3>1. invoice = "uncollectible" => Once
      BY <1>1, <1>4, <2>3 DEF Orderly, ToBeScheduled
    <3>2. invoice = "uncollectible" => Unscheduled
      BY <1>1, <3>1 DEF Once, Unscheduled, Lawful, Asked
    <3> QED BY <1>6, <1>8, <2>3, <3>2 DEF Outstanding
  <2> QED BY <2>1, <2>2, <2>3
<1>10. StillDeferred \in Int /\ writtenOff \in Int /\ Net \in Int
  BY <1>1, Ints
<1>11. CASE Fresh
  BY <1>6, <1>7, <1>9, <1>10, <1>11
<1>12. CASE ~Fresh
  BY <1>6, <1>7, <1>9, <1>10, <1>12
<1> QED BY <1>11, <1>12
----------------------------------------------------------------------------
(* A debt is drawn from what waits for a schedule.                         *)

\* How far a downgrade at record r is: it owes nothing before it is to be credited.
Owing(r) == r.op = "downgrade" =>
    /\ "downgrade" \in asked /\ r.want <= Net
    /\ r.pc \in {"recognized", "clawBack", "owe"} => r.take <= Net
    /\ r.pc # "credit" => debt = 0
Owes ==
    /\ "writeOff" \notin asked
    /\ debt <= Net /\ (debt # 0 => Fresh /\ "downgrade" \in asked)
    /\ \A a \in Actors : Owing(actor[a])
    /\ \A a, b \in Actors : actor[a].op = "downgrade" /\ actor[b].op = "downgrade" => a = b
DebtInv == faults # 0 \/ misled \/ "downgrade" \notin life \/ Owes

\* The downgrade of record y is where that of x was, or further.
Downgrades(x, y) == y.op = "downgrade" =>
    /\ x.op = "downgrade" /\ y.want = x.want
    /\ y.pc \in {"recognized", "clawBack", "owe"} => y.take <= Net
    /\ x.pc = "credit" => y.pc = "credit"

LEMMA OwesKept ==
    ASSUME Owes, Types, Shape, NEW a \in Actors, NEW x, x = actor[a], NEW y, Stands(a, y), Downgrades(x, y),
           debt' \in {0, debt}, debt' # 0 => Fresh',
           asked \subseteq asked', "writeOff" \notin asked'
    PROVE  Owes'
<1>1. /\ \A b \in Actors : b # a => actor'[b] = actor[b]
      /\ actor'[a] = y /\ 0 <= Net /\ debt \in Nat
  BY RecognitionAssumption DEF Stands, Shape
<1>2. debt' <= Net /\ (debt' # 0 => Fresh' /\ "downgrade" \in asked')
  BY <1>1 DEF Owes
<1>3. ASSUME NEW b \in Actors PROVE Owing(actor[b])'
  <2>1. CASE b = a
    BY <1>1, <2>1 DEF Owes, Owing, Downgrades
  <2>2. CASE b # a
    <3>1. actor'[b] = actor[b] /\ Owing(actor[b])
      BY <1>1, <2>2 DEF Owes
    <3> QED BY <3>1 DEF Owing
  <2> QED BY <2>1, <2>2
<1>4. \A b, c \in Actors : actor'[b].op = "downgrade" /\ actor'[c].op = "downgrade" => b = c
  <2>1. \A b \in Actors : actor'[b].op = "downgrade" => actor[b].op = "downgrade"
    BY <1>1 DEF Downgrades
  <2> QED BY <2>1 DEF Owes
<1> QED BY <1>2, <1>3, <1>4 DEF Owes

\* What waits goes on waiting, unless the actor at x goes away with it.
LEMMA FreshStays ==
    ASSUME Fresh, NEW a \in Actors, NEW x, x = actor[a], NEW y, Stands(a, y),
           Scheduled' = Scheduled, Unscheduled => Unscheduled' \/ y.pc \in Early,
           x.pc \in Early => y.pc \in Early, y.pc \notin {"insert", "events"}
    PROVE  Fresh'
<1>1. /\ \A b \in Actors : b # a => actor'[b] = actor[b]
      /\ actor'[a] = y
  BY DEF Stands
<1>2. \A b \in Actors : actor'[b].pc \notin {"insert", "events"}
  BY <1>1 DEF Fresh
<1>3. Underway => Underway'
  BY <1>1 DEF Underway
<1>4. y.pc \in Early => Underway'
  BY <1>1 DEF Underway
<1> QED BY <1>2, <1>3, <1>4 DEF Fresh

LEMMA WorkerAside ==
    ASSUME Shape, NEW a \in Actors, NEW x, x = actor[a], Worker(a)
    PROVE  /\ UNCHANGED <<requests, schedule, debt>>
           /\ \E y : Stands(a, y) /\ y.op = x.op /\ x.pc \notin Unwinds \cup Billings /\ y.pc \notin Billings
<1>1. UNCHANGED <<requests, schedule, debt>> /\ x.pc \in Claiming \cup {"idle", "claim"}
  BY DEF Worker, Requeue, ClaimDueEvents, RecordRecognition, RecognitionFails,
         MarkEventRecognized, MarkEventFailed, At, rows, Claiming
<1>2. PICK y : Reaches(a, y)
  BY WorkerReaches
<1>3. ActorOK(x) /\ ActorOK(y) /\ Stands(a, y) /\ actor'[a] = y
  BY <1>2 DEF Shape, Reaches, Stands
<1>4. y.pc \in Claiming \cup {"idle", "claim"}
  <2>1. CASE Done(a)
    BY <1>3, <2>1, DoneLands DEF Idle
  <2>2. CASE Requeue(a)
    BY <1>3, <2>2, GotoLands DEF Requeue, Lands
  <2>3. CASE ClaimDueEvents(a) /\ ~Done(a)
    <3>1. PICK s : SetsTodo(a, "recognize", s)
      BY <2>3 DEF ClaimDueEvents, SetsTodo
    <3> QED BY <1>3, <3>1, SetsTodoEnters, EntersLands DEF Lands, Claiming
  <2>4. CASE RecordRecognition(a)
    <3>1. PICK h : SetsHeld(a, "mark", h)
      BY <2>4 DEF RecordRecognition, SetsHeld
    <3> QED BY <1>3, <3>1, SetsHeldEnters, EntersLands DEF Lands, Claiming
  <2>5. CASE RecognitionFails(a)
    <3>1. PICK h : SetsHeld(a, "markFailed", h)
      BY <2>5 DEF RecognitionFails, SetsHeld
    <3> QED BY <1>3, <3>1, SetsHeldEnters, EntersLands DEF Lands, Claiming
  <2>6. CASE GoOn(a) /\ ~Done(a)
    <3>1. SetsTodoHeld(a, "recognize", x.todo \ x.held, {})
      BY <2>6 DEF GoOn, SetsTodoHeld, Shape
    <3> QED BY <1>3, <3>1, SetsTodoHeldEnters, EntersLands DEF Lands, Claiming
  <2>7. MarkEventRecognized(a) \/ MarkEventFailed(a) => GoOn(a)
    BY DEF MarkEventRecognized, MarkEventFailed
  <2> QED BY <2>1, <2>2, <2>3, <2>4, <2>5, <2>6, <2>7 DEF Worker
<1>5. /\ x.pc \notin Unwinds \cup Billings /\ y.pc \notin Unwinds \cup Billings
  BY <1>1, <1>4 DEF Claiming, Unwinds, Billings, Early
<1>6. x.op = None /\ y.op = None
  BY <1>3, <1>5, NoRequest
<1> QED BY <1>1, <1>3, <1>5, <1>6

LEMMA BillingOwes ==
    ASSUME Separate, Sound, Sound', Held, Owes, "downgrade" \in life, NEW a \in Actors, Billing(a)
    PROVE  Owes'
<1> PICK x, y : x = actor[a] /\ y = actor'[a]
  OBVIOUS
<1>1. /\ Shape /\ Types /\ ActorOK(x) /\ debt \in Nat /\ Net \in Nat /\ IsRecord(x)
      /\ "accrual" \notin life /\ "writeOff" \notin asked
  BY RecognitionAssumption DEF Sound, EventInv, Shape, Types, Owes, Separate, ActorOK
<1>2. CASE Issue(a)
  <2>1. actor' = actor /\ invoice = "new" /\ UNCHANGED <<debt, asked>>
    BY <1>1, <1>2 DEF Issue
  <2>2. debt = 0
    BY <2>1 DEF Owes, Held, Lawful, Asked
  <2>3. Stands(a, x) /\ Downgrades(x, x)
    BY <1>1, <2>1 DEF Stands, Shape, Downgrades, Owes, Owing
  <2> QED BY <1>1, <2>1, <2>2, <2>3, OwesKept
<1>3. ASSUME x.pc \notin Unwinds, Stands(a, y), y.pc \notin Unwinds, UNCHANGED asked,
             debt' \in {0, debt}, debt' # 0 => Fresh'
      PROVE  Owes'
  <2>1. ActorOK(y)
    BY DEF Sound, EventInv, Shape
  <2>2. Downgrades(x, y)
    BY <1>3, <2>1, NoRequest DEF Downgrades, None
  <2> QED BY <1>1, <1>3, <2>2, OwesKept
<1>4. CASE Settle(a)
  <2> PICK pc : pc = IF invoice = "uncollectible" THEN "recover" ELSE "check"
    OBVIOUS
  <2>1. x.pc = "idle" /\ Goto(a, pc) /\ UNCHANGED <<asked, schedule, debt>>
    BY <1>4 DEF Settle, At, rows
  <2>2. Stands(a, y) /\ y.pc = pc
    BY <1>1, <2>1, GotoLands DEF Lands
  <2>3. debt' # 0 => Fresh'
    BY <2>1, <2>2, FreshStays DEF Owes, Scheduled, Early
  <2> QED BY <1>3, <2>1, <2>2, <2>3 DEF Unwinds
<1>5. CASE RecordWriteOffRecovery(a)
  <2>1. x.pc = "recover" /\ Goto(a, "check") /\ UNCHANGED <<life, asked, invoice, schedule, debt>>
    BY <1>5 DEF RecordWriteOffRecovery, At, requests, rows
  <2>2. Stands(a, y) /\ y.pc = "check"
    BY <1>1, <2>1, GotoLands DEF Lands
  <2>3. debt' # 0 => Fresh'
    BY <2>1, <2>2, FreshStays DEF Owes, Scheduled, Unscheduled, Early
  <2> QED BY <1>3, <2>1, <2>2, <2>3 DEF Unwinds
<1>6. CASE CheckSchedule(a)
  <2>1. x.pc = "check" /\ UNCHANGED <<life, asked, invoice, schedule, debt>>
    BY <1>6 DEF CheckSchedule, At, requests, rows
  <2>2. Stands(a, y) /\ y.pc = IF Active # {} THEN "idle" ELSE "consume"
    <3>1. CASE Active # {}
      BY <1>1, <1>6, <3>1, DoneLands DEF CheckSchedule, Idle
    <3>2. CASE Active = {}
      BY <1>1, <1>6, <3>2, GotoLands DEF CheckSchedule, Lands
    <3> QED BY <3>1, <3>2
  <2>3. Fresh => Active = {}
    BY DEF Fresh, Active, Scheduled, None
  <2>4. debt' # 0 => Fresh'
    BY <2>1, <2>2, <2>3, FreshStays DEF Owes, Scheduled, Unscheduled, Early
  <2> QED BY <1>3, <2>1, <2>2, <2>4 DEF Unwinds
<1>7. CASE ConsumeScheduleDebt(a)
  <2>1. /\ x.pc = "consume" /\ UNCHANGED asked /\ debt' = debt - Least(debt, Net)
        /\ IF debt >= Net THEN Done(a) ELSE SetsWant(a, "insert", Net - debt)
    BY <1>7 DEF ConsumeScheduleDebt, At, SetsWant, requests
  <2>2. debt' = 0
    BY <1>1, <2>1 DEF Owes, Least
  <2>3. Stands(a, y) /\ y.pc \in {"idle", "insert"}
    BY <1>1, <2>1, DoneLands, SetsWantEnters, EntersLands DEF Lands, Idle
  <2> QED BY <1>3, <2>1, <2>2, <2>3 DEF Unwinds
<1>8. ASSUME x.pc \in {"insert", "events"}, UNCHANGED <<asked, debt>>, Stands(a, y), y.pc \notin Unwinds
      PROVE  Owes'
  <2>1. debt = 0
    BY <1>8 DEF Owes, Fresh
  <2> QED BY <1>3, <1>8, <2>1 DEF Unwinds
<1>9. CASE CreateSchedule(a)
  <2>1. PICK s : SetsSchedule(a, "events", s)
    BY <1>9 DEF CreateSchedule, SetsSchedule
  <2>2. x.pc = "insert" /\ UNCHANGED <<asked, debt>>
    BY <1>9 DEF CreateSchedule, At, requests
  <2>3. Stands(a, y) /\ y.pc = "events"
    BY <1>1, <2>1, SetsScheduleEnters, EntersLands DEF Lands
  <2> QED BY <1>8, <2>2, <2>3 DEF Unwinds
<1>10. CASE CreateEvents(a)
  <2>1. x.pc = "events" /\ UNCHANGED <<asked, debt>> /\ Stands(a, y) /\ y.pc = "idle"
    BY <1>1, <1>10, DoneLands DEF CreateEvents, At, requests, Idle
  <2> QED BY <1>8, <2>1 DEF Unwinds
<1> QED BY <1>2, <1>4, <1>5, <1>6, <1>7, <1>9, <1>10 DEF Billing

\* A step of an unwind that owes nothing leaves what waits alone.
LEMMA UnwindOwes ==
    ASSUME Sound, Sound', Held, Owes, NEW a \in Actors, NEW x, x = actor[a], NEW y, Stands(a, y),
           x.pc \in Unwinds, y.pc \in Resting,
           UNCHANGED <<life, asked, invoice, debt>>, Scheduled' = Scheduled, Downgrades(x, y)
    PROVE  Owes'
<1>1. x.pc \notin Early /\ y.pc \notin Early \cup {"insert", "events"}
  BY DEF Unwinds, Resting, Early
<1>2. debt' # 0 => Fresh'
  BY <1>1, FreshStays DEF Owes, Unscheduled
<1>3. Types /\ Shape /\ "writeOff" \notin asked
  BY DEF Owes, Sound, EventInv
<1> QED BY <1>2, <1>3, OwesKept

LEMMA DowngradeOwes ==
    ASSUME Sound, Sound', Held, Owes, NEW a \in Actors, Downgrade(a)
    PROVE  Owes'
<1> PICK x, y : x = actor[a] /\ y = actor'[a]
  OBVIOUS
<1>1. Shape /\ Types /\ Net \in Nat
  BY RecognitionAssumption DEF Sound, EventInv
<1>2. PICK amount \in Credits : Request(a, "downgrade", "find", amount)
  BY DEF Downgrade
<1>3. /\ x.pc = "idle" /\ SetsOpWant(a, "find", "downgrade", amount) /\ UNCHANGED debt
      /\ "downgrade" \notin asked /\ asked' = asked \cup {"downgrade"}
  BY <1>2 DEF Downgrade, Request, At, SetsOpWant
<1>4. Stands(a, y) /\ y.pc = "find" /\ y.op = "downgrade" /\ y.want = amount
  BY <1>1, <1>3, SetsOpWantEnters, EntersLands DEF Lands
<1>5. debt = 0 /\ \A b \in Actors : actor[b].op # "downgrade"
  BY <1>3 DEF Owes, Owing
<1>6. /\ \A b \in Actors : b # a => actor'[b] = actor[b]
      /\ actor'[a] = y /\ amount <= Net
  BY <1>2, <1>4, RecognitionAssumption DEF Stands
<1>7. ASSUME NEW b \in Actors PROVE Owing(actor[b])'
  BY <1>3, <1>4, <1>5, <1>6 DEF Owing
<1>8. \A b, c \in Actors : actor'[b].op = "downgrade" /\ actor'[c].op = "downgrade" => b = c
  BY <1>5, <1>6
<1> QED BY <1>1, <1>3, <1>5, <1>7, <1>8 DEF Owes

\* The part of a downgrade that was in no schedule comes out of what waits for one.
LEMMA DebtOwes ==
    ASSUME Sound, Sound', Held, Owes, NEW a \in Actors, AddScheduleDebt(a), misled' = FALSE
    PROVE  Owes'
<1> PICK x, y : x = actor[a] /\ y = actor'[a]
  OBVIOUS
<1>1. /\ x.pc = "owe" /\ Goto(a, "credit") /\ UNCHANGED <<life, asked, invoice, schedule>>
      /\ debt' = debt + x.take
  BY Zenon DEF AddScheduleDebt, At, requests, rows
<1>2. Fresh
  BY DEF AddScheduleDebt
<1>3. /\ Shape /\ Placed(x) /\ x.take \in Nat
  BY <1>1, SweepingOps DEF Unwinds
<1>4. x.op = "downgrade" /\ Owing(x)
  BY <1>1, <1>3 DEF Placed, Owes
<1>5. Stands(a, y) /\ y.pc = "credit" /\ y.op = "downgrade" /\ y.want = x.want
  BY <1>1, <1>3, <1>4, GotoLands DEF Lands
<1>6. debt' <= Net /\ "downgrade" \in asked
  BY <1>1, <1>3, <1>4 DEF Owing
<1>7. Fresh'
  BY <1>1, <1>2, <1>5, FreshStays DEF Scheduled, Unscheduled, Early
<1>8. /\ \A b \in Actors : b # a => actor'[b] = actor[b] /\ actor[b].op # "downgrade"
      /\ actor'[a] = y
  BY <1>4, <1>5 DEF Stands, Owes
<1>9. ASSUME NEW b \in Actors PROVE Owing(actor[b])'
  <2>1. CASE b = a
    BY <1>1, <1>4, <1>5, <1>8, <2>1 DEF Owing
  <2>2. CASE b # a
    BY <1>8, <2>2 DEF Owing
  <2> QED BY <2>1, <2>2
<1>10. \A b, c \in Actors : actor'[b].op = "downgrade" /\ actor'[c].op = "downgrade" => b = c
  BY <1>8
<1>11. "writeOff" \notin asked'
  BY <1>1 DEF Owes
<1> QED BY <1>1, <1>6, <1>7, <1>9, <1>10, <1>11 DEF Owes

LEMMA ContinueDowngrades ==
    ASSUME Shape, Owes, NEW a \in Actors, NEW x, x = actor[a], NEW left, NEW taken \in Nat,
           NEW y, y = Continue(a, left, taken), x.pc # "credit"
    PROVE  y.pc \in Resting /\ Downgrades(x, y)
<1>1. x.want \in Nat /\ Net \in Nat /\ Owing(x)
  BY RecognitionAssumption DEF Shape, ActorOK, Owes
<1>2. CASE left # {}
  BY <1>2, ContinueIs DEF Downgrades, Resting, Unwinds
<1>3. CASE left = {} /\ x.op # "downgrade"
  BY <1>3, ContinueIs DEF Downgrades, Resting, Idle, None
<1>4. CASE left = {} /\ x.op = "downgrade"
  BY <1>1, <1>4, ContinueIs DEF Downgrades, Owing, Resting, Unwinds
<1> QED BY <1>2, <1>3, <1>4

LEMMA RemoveOwes ==
    ASSUME Sound, Sound', Held, Owes, NEW a \in Actors, RemoveEvent(a)
    PROVE  Owes'
<1> PICK x, y : x = actor[a] /\ y = actor'[a]
  OBVIOUS
<1>1. x.pc = "remove" /\ UNCHANGED <<requests, schedule, books, debt>>
  BY DEF RemoveEvent, At
<1>2. /\ Shape /\ Shape' /\ Placed(x) /\ IsRecord(x) /\ x.op \in {"cancel", "refund", "downgrade", "writeOff"}
      /\ x.want \in Nat /\ x.take \in Nat /\ x.taken \in Nat /\ x.todo \subseteq Read
  <2>1. Shape'
    BY DEF Sound, EventInv
  <2> QED BY <1>1, <2>1, SweepingOps DEF Unwinds
<1>8. PICK e \in Latest(actor[a].todo) :
          LET me == actor[a]
              cut == IF Sweeps(a) THEN e.amount ELSE Least(me.take, e.amount)
              todo == me.todo \ {e}
              on == [me EXCEPT !.todo = todo, !.take = IF Sweeps(a) THEN @ ELSE @ - cut,
                               !.taken = @ + cut]
              whole == Sweeps(a) \/ (me.op = "refund" /\ cut = e.amount /\ \A f \in todo : f.amount = 0)
          IN actor' = [actor EXCEPT ![a] =
                   IF todo # {} /\ (Sweeps(a) \/ on.take > 0) THEN on
                   ELSE IF whole THEN [on EXCEPT !.pc = "close", !.todo = {}]
                   ELSE IF me.op = "refund" THEN [on EXCEPT !.pc = "post", !.todo = {}]
                   ELSE Continue(a, IF on.take = 0 THEN {} ELSE me.left, on.taken)]
  BY Zenon DEF RemoveEvent
<1> PICK cut, t : /\ cut = (IF Sweeps(a) THEN e.amount ELSE Least(x.take, e.amount))
                  /\ t = x.todo \ {e}
  OBVIOUS
<1> PICK k, n : k = (IF Sweeps(a) THEN x.take ELSE x.take - cut) /\ n = x.taken + cut
  OBVIOUS
<1> PICK on, left : /\ on = [x EXCEPT !.todo = t, !.take = k, !.taken = n]
                    /\ left = IF on.take = 0 THEN {} ELSE x.left
  OBVIOUS
<1>9. actor' = [actor EXCEPT ![a] =
          IF t # {} /\ (Sweeps(a) \/ on.take > 0) THEN on
          ELSE IF Sweeps(a) \/ (x.op = "refund" /\ cut = e.amount /\ \A f \in t : f.amount = 0)
               THEN [on EXCEPT !.pc = "close", !.todo = {}]
          ELSE IF x.op = "refund" THEN [on EXCEPT !.pc = "post", !.todo = {}]
          ELSE Continue(a, left, on.taken)]
  BY <1>8, SMTT(60)
<1>3. /\ e \in x.todo
      /\ \/ actor' = [actor EXCEPT ![a] = on]
         \/ actor' = [actor EXCEPT ![a] = [on EXCEPT !.pc = "close", !.todo = {}]] /\ x.op # "downgrade"
         \/ actor' = [actor EXCEPT ![a] = [on EXCEPT !.pc = "post", !.todo = {}]] /\ x.op # "downgrade"
         \/ actor' = [actor EXCEPT ![a] = Continue(a, left, on.taken)]
  <2>1. Sweeps(a) \/ x.op = "refund" => x.op # "downgrade"
    BY DEF Sweeps
  <2> QED BY <1>8, <1>9, <2>1, Zenon DEF Latest
<1>4. on = ActorRecord(x.pc, x.op, x.schedule, t, x.held, x.left, x.want, k, n)
  BY <1>2 DEF IsRecord, ActorRecord
<1>7. n \in Nat
  BY <1>2, <1>3 DEF Least, Read
<1>5. Stands(a, y)
  <2>1. \E r : actor' = [actor EXCEPT ![a] = r]
    BY <1>3, Zenon
  <2> QED BY <1>2, <2>1, ActorUpdated DEF Stands
<1>6. y.pc \in Resting /\ Downgrades(x, y)
  <2>1. CASE y = on
    BY <1>1, <1>4, <2>1 DEF ActorRecord, Downgrades, Resting, Unwinds
  <2>2. ASSUME NEW pc \in {"close", "post"}, y = [on EXCEPT !.pc = pc, !.todo = {}], x.op # "downgrade"
        PROVE  y.pc \in Resting /\ Downgrades(x, y)
    <3>1. y.pc = pc /\ y.op = x.op
      BY <1>4, <2>2 DEF ActorRecord
    <3> QED BY <2>2, <3>1 DEF Downgrades, Resting, Unwinds
  <2>3. CASE y = Continue(a, left, on.taken)
    <3>1. on.taken \in Nat
      BY <1>4, <1>7 DEF ActorRecord
    <3> QED BY <1>1, <1>2, <2>3, <3>1, ContinueDowngrades
  <2> QED BY <1>2, <1>3, <2>1, <2>2, <2>3, ActorUpdated DEF Stands
<1> QED BY <1>1, <1>5, <1>6, UnwindOwes DEF Unwinds, Scheduled, requests

LEMMA ListOwes ==
    ASSUME Sound, Sound', Held, Owes, NEW a \in Actors, ListPending(a)
    PROVE  Owes'
<1> PICK x, y : x = actor[a] /\ y = actor'[a]
  OBVIOUS
<1>1. x.pc = "list" /\ UNCHANGED <<requests, rows, books, debt>>
  BY DEF ListPending, At
<1>2. Shape /\ IsRecord(x) /\ x.taken \in Nat
  BY <1>1, SweepingOps DEF Unwinds
<1>7. PICK s \in actor[a].left :
          LET me == actor[a]
              pending == Rows({s}, {"pending"})
              seen == [me EXCEPT !.schedule = s, !.left = @ \ {s},
                                 !.take = IF Sweeps(a) THEN @ ELSE me.want - me.taken,
                                 !.taken = IF me.op = "cancel" THEN 0 ELSE @]
          IN actor' = [actor EXCEPT ![a] =
                 IF pending # {} /\ (me.op = "refund" => \E e \in pending : e.amount > 0)
                 THEN [seen EXCEPT !.pc = "remove", !.todo = pending]
                 ELSE IF Sweeps(a) THEN [seen EXCEPT !.pc = "close"]
                 ELSE Continue(a, me.left \ {s}, me.taken)]
  BY Zenon DEF ListPending
<1> PICK l, k, n, t :
        /\ l = x.left \ {s} /\ k = (IF Sweeps(a) THEN x.take ELSE x.want - x.taken)
        /\ n = (IF x.op = "cancel" THEN 0 ELSE x.taken) /\ t = Rows({s}, {"pending"})
  OBVIOUS
<1> PICK seen : seen = [x EXCEPT !.schedule = s, !.left = l, !.take = k, !.taken = n]
  OBVIOUS
<1>3. \/ actor' = [actor EXCEPT ![a] = [seen EXCEPT !.pc = "remove", !.todo = t]]
      \/ actor' = [actor EXCEPT ![a] = [seen EXCEPT !.pc = "close"]] /\ x.op # "downgrade"
      \/ actor' = [actor EXCEPT ![a] = Continue(a, l, x.taken)]
  <2>1. Sweeps(a) => x.op # "downgrade"
    BY DEF Sweeps
  <2>2. actor' = [actor EXCEPT ![a] =
            IF t # {} /\ (x.op = "refund" => \E e \in t : e.amount > 0)
            THEN [seen EXCEPT !.pc = "remove", !.todo = t]
            ELSE IF Sweeps(a) THEN [seen EXCEPT !.pc = "close"]
            ELSE Continue(a, l, x.taken)]
    BY <1>7, SMTT(30)
  <2> QED BY <2>1, <2>2, Zenon
<1>4. seen = ActorRecord(x.pc, x.op, s, x.todo, x.held, l, x.want, k, n)
  BY <1>2, <1>3 DEF IsRecord, ActorRecord
<1>5. Stands(a, y)
  BY <1>2, <1>3, ActorUpdated DEF Stands
<1>6. y.pc \in Resting /\ Downgrades(x, y)
  <2>1. CASE y = [seen EXCEPT !.pc = "remove", !.todo = t]
    BY <1>1, <1>4, <2>1 DEF ActorRecord, Downgrades, Resting, Unwinds
  <2>2. CASE y = [seen EXCEPT !.pc = "close"] /\ x.op # "downgrade"
    BY <1>1, <1>4, <2>2 DEF ActorRecord, Downgrades, Resting, Unwinds
  <2>3. CASE y = Continue(a, l, x.taken)
    BY <1>1, <1>2, <2>3, ContinueDowngrades
  <2> QED BY <1>2, <1>3, <2>1, <2>2, <2>3, ActorUpdated DEF Stands
<1> QED BY <1>1, <1>5, <1>6, UnwindOwes DEF Unwinds, Scheduled, requests, rows

LEMMA ReverseOwes ==
    ASSUME Sound, Sound', Held, Owes, NEW a \in Actors, ReverseRecognized(a)
    PROVE  Owes'
<1> PICK x, y : x = actor[a] /\ y = actor'[a]
  OBVIOUS
<1>1. x.pc = "clawBack" /\ UNCHANGED <<requests, schedule, books, debt>>
  BY DEF ReverseRecognized, At
<1>2. /\ Shape /\ IsRecord(x) /\ Placed(x) /\ x.op = "downgrade" /\ x.todo \subseteq Read
      /\ x.take \in Nat /\ Net \in Nat /\ Owing(x)
  <2>1. /\ Shape /\ IsRecord(x) /\ Placed(x) /\ x.todo \subseteq Read /\ x.take \in Nat
    BY <1>1, SweepingOps DEF Unwinds
  <2> QED BY <1>1, <2>1, RecognitionAssumption DEF Placed, Owes
<1>3. PICK e, cut, on :
          /\ e \in x.todo
          /\ cut = Least(x.take, e.amount)
          /\ on = [x EXCEPT !.todo = x.todo \ {e}, !.take = x.take - cut, !.taken = x.taken + cut]
          /\ actor' = [actor EXCEPT ![a] =
                 IF on.take = 0 THEN [on EXCEPT !.pc = "credit", !.todo = {}]
                 ELSE IF on.todo = {} THEN [on EXCEPT !.pc = "owe"] ELSE on]
  <2>1. PICK e \in Latest(actor[a].todo) :
            LET me == actor[a]
                cut == Least(me.take, e.amount)
                on == [me EXCEPT !.todo = @ \ {e}, !.take = @ - cut, !.taken = @ + cut]
            IN actor' = [actor EXCEPT ![a] =
                     IF on.take = 0 THEN [on EXCEPT !.pc = "credit", !.todo = {}]
                     ELSE IF on.todo = {} THEN [on EXCEPT !.pc = "owe"] ELSE on]
    BY Zenon DEF ReverseRecognized
  <2>2. e \in x.todo
    BY DEF Latest
  <2> QED BY <2>1, <2>2, Zenon
<1>4. e.amount \in Nat /\ cut \in Nat /\ x.take - cut <= Net
  BY <1>1, <1>2, <1>3 DEF Least, Read, Owing
<1>5. on = ActorRecord("clawBack", x.op, x.schedule, x.todo \ {e}, x.held, x.left, x.want,
                       x.take - cut, x.taken + cut)
  BY <1>1, <1>2, <1>3 DEF IsRecord, ActorRecord
<1>6. Stands(a, y) /\ y \in {[on EXCEPT !.pc = "credit", !.todo = {}], [on EXCEPT !.pc = "owe"], on}
  BY <1>2, <1>3, ActorUpdated DEF Stands
<1>7. /\ y.pc \in {"credit", "owe", "clawBack"} /\ y.op = x.op /\ y.want = x.want
      /\ y.take = x.take - cut
  <2>1. CASE y = [on EXCEPT !.pc = "credit", !.todo = {}]
    BY <1>5, <2>1 DEF ActorRecord
  <2>2. CASE y = [on EXCEPT !.pc = "owe"]
    BY <1>5, <2>2 DEF ActorRecord
  <2>3. CASE y = on
    BY <1>5, <2>3 DEF ActorRecord
  <2> QED BY <1>6, <2>1, <2>2, <2>3
<1>8. y.pc \in Resting /\ Downgrades(x, y)
  BY <1>1, <1>4, <1>7 DEF Downgrades, Resting, Unwinds
<1> QED BY <1>1, <1>6, <1>8, UnwindOwes DEF Unwinds, Scheduled, requests

LEMMA UnwindingOwes ==
    ASSUME Separate, Sound, Sound', Held, Owes, "downgrade" \in life, NEW a \in Actors, Unwinding(a), misled' = FALSE
    PROVE  Owes'
<1> PICK x, y : x = actor[a] /\ y = actor'[a]
  OBVIOUS
<1>1. /\ Shape /\ Types /\ ActorOK(x) /\ IsRecord(x) /\ Placed(x) /\ "writeOff" \notin life \cup asked /\ Owing(x)
  BY DEF Sound, EventInv, Shape, Types, Owes, Separate, ActorOK, Held, Lawful, Requested
<1>2. CASE Cancel(a) \/ Refund(a)
  <2>1. PICK op, want : op \in {"cancel", "refund"} /\ Request(a, op, "find", want)
    BY <1>2 DEF Cancel, Refund
  <2>2. UNCHANGED invoice /\ asked \subseteq asked' /\ asked' \subseteq asked \cup {"cancel"}
    BY <1>2 DEF Cancel, Refund
  <2>3. /\ x.pc = "idle" /\ Stands(a, y) /\ y.pc = "find" /\ y.op = op
        /\ UNCHANGED <<life, rows, books, debt>>
    BY <1>1, <2>1, RequestLands
  <2>4. Downgrades(x, y) /\ "writeOff" \notin asked'
    BY <1>1, <2>1, <2>2, <2>3 DEF Downgrades
  <2>5. debt' # 0 => Fresh'
    BY <2>2, <2>3, FreshStays DEF Owes, Scheduled, Unscheduled, Early, rows
  <2> QED BY <1>1, <2>2, <2>3, <2>4, <2>5, OwesKept
<1>3. CASE Downgrade(a)
  BY <1>3, DowngradeOwes
<1>4. ~WriteOff(a) /\ x.op # "writeOff"
  BY <1>1 DEF WriteOff, Request, Placed, None
<1>5. ~ReadRecognized(a) /\ ~RecordInvoiceWriteOff(a)
  BY <1>1, <1>4 DEF ReadRecognized, RecordInvoiceWriteOff, At, ActorOK, Stage, Unwinds
<1>6. ASSUME NEW left, NEW taken \in Nat, actor' = [actor EXCEPT ![a] = Continue(a, left, taken)],
             x.pc \in Unwinds \ {"credit"}, UNCHANGED <<requests, schedule, debt>>
      PROVE  Owes'
  <2>1. Stands(a, y) /\ y = Continue(a, left, taken)
    BY <1>1, <1>6, ActorUpdated DEF Stands
  <2>2. y.pc \in Resting /\ Downgrades(x, y)
    BY <1>1, <1>6, <2>1, ContinueDowngrades
  <2> QED BY <1>6, <2>1, <2>2, UnwindOwes DEF Scheduled, requests
<1>7. CASE FindSchedules(a)
  <2>1. x.pc = "find" /\ UNCHANGED <<requests, schedule, debt>>
    BY <1>7 DEF FindSchedules, At, rows
  <2>2. PICK left, taken : taken = 0 /\ actor' = [actor EXCEPT ![a] = Continue(a, left, taken)]
    BY <1>7 DEF FindSchedules
  <2> QED BY <1>6, <2>1, <2>2 DEF Unwinds
<1>8. CASE CloseSchedule(a)
  <2>1. /\ x.pc = "close" /\ UNCHANGED <<requests, event, books, debt>>
        /\ schedule' = [schedule EXCEPT ![x.schedule] = "canceled"]
    BY <1>8 DEF CloseSchedule, At
  <2>2. /\ Stands(a, y) /\ y.pc \in {"post", "list", "idle"} /\ y.op \in {x.op, None} /\ x.op # "downgrade"
    BY <1>1, <1>8, <2>1, CloseLands DEF Placed
  <2>3. Scheduled' = Scheduled
    BY <1>1, <2>1 DEF Placed, Scheduled, Shape, None
  <2>4. Downgrades(x, y)
    BY <2>2 DEF Downgrades, None
  <2> QED BY <2>1, <2>2, <2>3, <2>4, UnwindOwes DEF Unwinds, Resting, requests
<1>9. CASE PostUnwind(a)
  <2>1. /\ x.pc = "post" /\ UNCHANGED <<requests, schedule, debt>>
        /\ actor' = [actor EXCEPT ![a] = Continue(a, x.left, x.taken)]
    BY <1>9 DEF PostUnwind, At, rows
  <2>2. x.taken \in Nat
    BY <1>1 DEF ActorOK
  <2> QED BY <1>6, <2>1, <2>2 DEF Unwinds
<1>10. CASE ListRecognized(a)
  <2> PICK t, pc : t = Rows(Schedules, {"recognized"}) /\ pc = (IF t = {} THEN "owe" ELSE "clawBack")
    OBVIOUS
  <2>1. SetsTodo(a, pc, t) /\ pc \in {"owe", "clawBack"}
    BY <1>10 DEF ListRecognized, SetsTodo
  <2>2. x.pc = "recognized" /\ UNCHANGED <<requests, rows, debt>>
    BY <1>10 DEF ListRecognized, At
  <2>3. Stands(a, y) /\ y.pc = pc /\ y.op = x.op /\ y.want = x.want /\ y.take = x.take
    BY <1>1, <2>1, SetsTodoEnters, EntersLands DEF Lands
  <2>4. Downgrades(x, y)
    BY <1>1, <2>2, <2>3 DEF Downgrades, Owing
  <2> QED BY <2>1, <2>2, <2>3, <2>4, UnwindOwes DEF Unwinds, Resting, Scheduled, requests, rows
<1>11. CASE RecordDowngradeCredit(a)
  <2>1. x.pc = "credit" /\ Done(a) /\ UNCHANGED <<requests, rows, debt>>
    BY <1>11 DEF RecordDowngradeCredit, At
  <2>2. Stands(a, y) /\ y.pc = "idle" /\ y.op = None
    BY <1>1, <2>1, DoneLands DEF Idle
  <2>3. Downgrades(x, y)
    BY <2>2 DEF Downgrades, None
  <2> QED BY <2>1, <2>2, <2>3, UnwindOwes DEF Unwinds, Resting, Scheduled, requests, rows
<1>12. CASE ListPending(a) \/ RemoveEvent(a) \/ ReverseRecognized(a) \/ AddScheduleDebt(a)
  BY <1>12, ListOwes, RemoveOwes, ReverseOwes, DebtOwes
<1> QED BY <1>2, <1>3, <1>4, <1>5, <1>7, <1>8, <1>9, <1>10, <1>11, <1>12 DEF Unwinding

LEMMA StepOwes ==
    Separate => (EventInv /\ Types /\ PostInv /\ DeferralInv /\ DebtInv /\ [Next]_vars => DebtInv')
<1> SUFFICES ASSUME Separate, EventInv, Types, PostInv, DeferralInv, DebtInv, [Next]_vars,
                    faults' = 0, ~misled', "downgrade" \in life'
             PROVE  Owes'
  BY DEF DebtInv
<1>1. EventInv' /\ Types' /\ PostInv' /\ life' = life
  <2>1. life' = life
    <3>1. ASSUME NEW a \in Actors, Worker(a) \/ Crash(a) PROVE life' = life
      BY <3>1 DEF Worker, Requeue, ClaimDueEvents, RecordRecognition, RecognitionFails,
                  MarkEventRecognized, MarkEventFailed, Crash, requests
    <3>2. ASSUME NEW a \in Actors, Billing(a) PROVE life' = life
      BY <3>2 DEF Billing, Issue, Settle, RecordWriteOffRecovery, CheckSchedule,
                  ConsumeScheduleDebt, CreateSchedule, CreateEvents, requests
    <3>3. ASSUME NEW a \in Actors, Unwinding(a) PROVE life' = life
      <4>1. CASE Cancel(a) \/ Refund(a) \/ Downgrade(a) \/ WriteOff(a)
        BY <4>1 DEF Cancel, Refund, Downgrade, WriteOff, Request
      <4>2. CASE ReadRecognized(a) \/ RecordInvoiceWriteOff(a) \/ FindSchedules(a) \/ ListPending(a)
        BY <4>2 DEF ReadRecognized, RecordInvoiceWriteOff, FindSchedules, ListPending, requests
      <4>3. CASE RemoveEvent(a) \/ CloseSchedule(a) \/ PostUnwind(a)
        BY <4>3 DEF RemoveEvent, CloseSchedule, PostUnwind, requests
      <4>4. CASE ListRecognized(a) \/ ReverseRecognized(a) \/ AddScheduleDebt(a) \/ RecordDowngradeCredit(a)
        BY <4>4 DEF ListRecognized, ReverseRecognized, AddScheduleDebt, RecordDowngradeCredit, requests
      <4> QED BY <3>3, <4>1, <4>2, <4>3, <4>4 DEF Unwinding
    <3> QED BY <3>1, <3>2, <3>3 DEF Next, NextMonth, Return, vars, requests
  <2> QED BY <2>1, StepEvents, StepTyped, StepPosted
<1>2. misled' = FALSE
  BY <1>1 DEF Types
<1>3. faults = 0 /\ misled = FALSE
  BY <1>2, FaultsStay, MisledStays
<1>4. Held /\ Sound /\ Owes
  BY <1>1, <1>3 DEF DeferralInv, Held, InOrder, PostInv, Sound, DebtInv
<1>5. Sound' /\ "downgrade" \in life /\ "return" \notin life
  BY <1>1 DEF PostInv, Sound, Types, Separate
<1>6. ASSUME NEW a \in Actors, Worker(a) PROVE Owes'
  <2> PICK x : x = actor[a]
    OBVIOUS
  <2>1. UNCHANGED <<requests, schedule, debt>> /\ Types /\ Shape
    BY <1>4, <1>6, WorkerAside DEF Sound, EventInv
  <2>2. PICK y : Stands(a, y) /\ y.op = x.op /\ x.pc \notin Unwinds \cup Billings /\ y.pc \notin Billings
    BY <1>6, <2>1, WorkerAside
  <2>3. x.op = None
    BY <2>1, <2>2, NoRequest DEF Shape
  <2>4. Downgrades(x, y)
    BY <2>2, <2>3 DEF Downgrades, None
  <2>5. debt' # 0 => Fresh'
    BY <1>4, <2>1, <2>2, FreshStays DEF Owes, Scheduled, Unscheduled, Billings, Early, requests
  <2> QED BY <1>4, <2>1, <2>2, <2>4, <2>5, OwesKept DEF Owes, requests
<1>7. ~Return /\ \A a \in Actors : ~Crash(a)
  BY <1>2, <1>5, FaultsStay DEF Return
<1>8. CASE NextMonth \/ UNCHANGED vars
  <2>1. UNCHANGED <<life, asked, invoice, schedule, debt, actor>>
    BY <1>8 DEF NextMonth, vars, requests, rows
  <2> QED BY <1>4, <2>1 DEF Owes, Owing, Fresh, Unscheduled, Underway, Scheduled
<1> QED BY <1>2, <1>4, <1>5, <1>6, <1>7, <1>8, BillingOwes, UnwindingOwes DEF Next

LEMMA InitOwes == Init => DebtInv
<1> SUFFICES ASSUME Init PROVE Owes
  BY DEF DebtInv
<1>1. /\ asked = {} /\ debt = 0 /\ 0 <= Net
      /\ \A a \in Actors : actor[a].op = None
  BY RecognitionAssumption DEF Init, Idle
<1> QED BY <1>1 DEF Owes, Owing, None

LEMMA DeferralMatches == EventInv /\ Types /\ PostInv /\ DeferralInv /\ DebtInv => DeferredMatches
<1> SUFFICES ASSUME EventInv, Types, PostInv, DeferralInv, DebtInv,
                    Quiet, faults = 0, ~misled, Cardinality(Scheduled) <= 1
             PROVE  Waiting >= 0 /\ deferred = StillToRecognize + Waiting
  BY DEF DeferredMatches
<1>1. Lawful /\ Sound
  BY DEF DeferralInv, PostInv, Sound
<1>2. /\ Net \in Nat /\ writtenOff \in 0..Net /\ debt \in Nat /\ StillToRecognize \in Int
  <2>1. StillToRecognize = Gross
    BY DEF StillToRecognize, Gross, Open
  <2>2. Shape
    BY DEF EventInv
  <2> QED BY <2>1, <2>2, GrossNat, RecognitionAssumption DEF Types, Shape
<1>3. /\ debt <= Net
      /\ debt # 0 => writtenOff = 0 /\ Scheduled = {} /\ Unscheduled
  <2>1. CASE "downgrade" \notin life
    BY <1>1, <1>2, <2>1 DEF Lawful, Asked
  <2>2. CASE "downgrade" \in life
    <3>1. Owes /\ writtenOff = 0
      BY <1>1, <2>2 DEF DebtInv, Owes, Lawful, Asked
    <3>2. ~Underway
      BY DEF Underway, Quiet, Idle, Early
    <3> QED BY <3>1, <3>2 DEF Owes, Fresh
  <2> QED BY <2>1, <2>2
<1>4. deferred = StillDeferred + (IF Scheduled = {} /\ Unscheduled THEN Net - writtenOff ELSE 0)
  BY QuietDeferral
<1> QED BY <1>2, <1>3, <1>4 DEF StillDeferred, Waiting

\* DeferredMatches, where the lives of the invoice are Separate: whatever of worker,
\* payments, returns, cancellation, refunds, downgrade, write-off and its recovery happens
\* and however their statements interleave, unless one of them was misled a quiet Deferred
\* Revenue holds what the schedule will still recognize, and what waits for a schedule,
\* which no debt exceeds.  Between them every cent is in the schedule, not scheduled yet,
\* written off or in the hands of exactly one actor.
THEOREM DeferredRevenueMatches == Separate => (Spec => []DeferredMatches)
<1> SUFFICES ASSUME Separate PROVE Spec => []DeferredMatches
  OBVIOUS
<1>1. EventInv /\ Types /\ PostInv /\ DeferralInv /\ [Next]_vars => DeferralInv'
  BY StepDeferral
<1>2. Spec => []PostInv
  BY Always, AlwaysTyped, InitPosted, StepPosted, PTL DEF Spec
<1>3. Spec => []DeferralInv
  BY <1>1, <1>2, Always, AlwaysTyped, InitDeferral, PTL DEF Spec
<1>4. EventInv /\ Types /\ PostInv /\ DeferralInv /\ DebtInv /\ [Next]_vars => DebtInv'
  BY StepOwes
<1>5. Spec => []DebtInv
  BY <1>2, <1>3, <1>4, Always, AlwaysTyped, InitOwes, PTL DEF Spec
<1> QED BY <1>2, <1>3, <1>5, Always, AlwaysTyped, DeferralMatches, PTL
=============================================================================
