--------------------------- MODULE Refunds_proofs ---------------------------
(***************************************************************************)
(* However many approvals race and whatever dies in between, a note is     *)
(* refunded once at most; and as long as nothing fails, notes and books    *)
(* follow the gateway.                                                     *)
(*                                                                         *)
(* The first argument: an actor that is about to call the gateway for a    *)
(* note holds a note that is issued and not refunded yet, and holds it     *)
(* alone.  Only the approval that finds a note pending, or the insert of a *)
(* new one, starts such a hold; a note that is not issued was never        *)
(* refunded, and an approval is taken back only by the actor that holds    *)
(* it.  The second rests on the first and is told below.                   *)
(***************************************************************************)
EXTENDS Refunds, FunctionSums, TLAPS

Sending(a) == actor[a].pc \in {"manual", "refund"}

ActorRecord(p, n, s, t) == [pc |-> p, note |-> n, answer |-> s, tax |-> t]
NoteRecord(s, r, m, k, i) ==
    [status |-> s, refund |-> r, amount |-> m, maker |-> k, refundId |-> i]

\* The rows and records the actions update field by field.  What a note amounts to
\* and is taxed is a sum, and left open.
NoteShape ==
    note = [n \in Notes |-> NoteRecord(note[n].status, note[n].refund, note[n].amount,
                                      note[n].maker, note[n].refundId)]
SentShape == sent = [n \in Notes |-> [state |-> sent[n].state, count |-> sent[n].count, answer |-> sent[n].answer]]
ActorShape ==
    actor = [a \in Actors |-> ActorRecord(actor[a].pc, actor[a].note,
                                         actor[a].answer, actor[a].tax)]
Shape == NoteShape /\ SentShape /\ ActorShape /\ told \subseteq Told

HeldAlone ==
    /\ \A n \in Notes : sent[n].count \in 0..1
    /\ \A n \in Notes : note[n].status # "issued" => sent[n].count = 0
    /\ \A a \in Actors : actor[a].pc # "idle" => actor[a].note \in Notes
    /\ \A a \in Actors : Sending(a) =>
           note[actor[a].note].status = "issued" /\ sent[actor[a].note].count = 0
    /\ \A a, b \in Actors : Sending(a) /\ Sending(b) /\ actor[a].note = actor[b].note => a = b

OnceInv == Shape /\ HeldAlone

----------------------------------------------------------------------------
(* What an update of one row or one actor leaves of the others.            *)

\* Actor a stands at pc p with note n, the others where they were.
After(a, p, n) ==
    /\ \E s, t : actor' = [actor EXCEPT ![a] = ActorRecord(p, n, s, t)]
    /\ ActorShape'
    /\ actor'[a].pc = p /\ actor'[a].note = n
    /\ \A b \in Actors : b # a => actor'[b] = actor[b]

LEMMA ActorAfter ==
    ASSUME Shape, NEW a \in Actors, NEW p, NEW n, NEW s, NEW t,
           actor' = [actor EXCEPT ![a] = ActorRecord(p, n, s, t)]
    PROVE  After(a, p, n) /\ actor'[a].answer = s
<1>1. actor'[a] = ActorRecord(p, n, s, t) /\ \A b \in Actors : b # a => actor'[b] = actor[b]
  BY DEF Shape, ActorShape
<1>2. DOMAIN actor' = Actors /\ actor' = [b \in Actors |-> actor'[b]]
  BY DEF Shape, ActorShape
<1>3. \A b \in Actors : actor'[b] = ActorRecord(actor'[b].pc, actor'[b].note,
                                               actor'[b].answer, actor'[b].tax)
  BY <1>1 DEF Shape, ActorShape, ActorRecord
<1>4. ActorShape'
  BY <1>2, <1>3 DEF ActorShape
<1>5. actor'[a].pc = p /\ actor'[a].note = n /\ actor'[a].answer = s
  BY <1>1 DEF ActorRecord
<1>6. \E v, w : actor' = [actor EXCEPT ![a] = ActorRecord(p, n, v, w)]
  OBVIOUS
<1> QED BY <1>1, <1>4, <1>5, <1>6 DEF After

LEMMA Edited ==
    ASSUME NEW p, NEW n, NEW s, NEW t
    PROVE  /\ \A x : [ActorRecord(p, n, s, t) EXCEPT !.pc = x] = ActorRecord(x, n, s, t)
           /\ \A x : [ActorRecord(p, n, s, t) EXCEPT !.note = x] = ActorRecord(p, x, s, t)
           /\ \A x : [ActorRecord(p, n, s, t) EXCEPT !.answer = x] = ActorRecord(p, n, x, t)
           /\ \A x : [ActorRecord(p, n, s, t) EXCEPT !.tax = x] = ActorRecord(p, n, s, x)
BY DEF ActorRecord

LEMMA Goes ==
    ASSUME Shape, NEW a \in Actors
    PROVE  /\ Done(a) => After(a, "idle", None)
           /\ \A p : Goto(a, p) => After(a, p, actor[a].note)
           /\ \A p, n : actor' = [actor EXCEPT ![a].pc = p, ![a].note = n] => After(a, p, n)
           /\ \A p, s : actor' = [actor EXCEPT ![a].pc = p, ![a].answer = s]
                        => After(a, p, actor[a].note) /\ actor'[a].answer = s
           /\ \A p, t : actor' = [actor EXCEPT ![a].pc = p, ![a].tax = t]
                        => After(a, p, actor[a].note)
           /\ \A p, n, s : actor' = [actor EXCEPT ![a].pc = p, ![a].note = n, ![a].answer = s]
                           => After(a, p, n) /\ actor'[a].answer = s
<1> DEFINE x == actor[a]
<1>1. x = ActorRecord(x.pc, x.note, x.answer, x.tax) /\ a \in DOMAIN actor
  BY DEF Shape, ActorShape, ActorRecord
<1>2. Idle = ActorRecord("idle", None, None, 0)
  BY DEF Idle, ActorRecord
<1>3. Done(a) => After(a, "idle", None)
  BY <1>2, ActorAfter DEF Done
<1>4. \A p : [x EXCEPT !.pc = p] = ActorRecord(p, x.note, x.answer, x.tax)
  BY <1>1, Edited
<1>5. \A p : [actor EXCEPT ![a].pc = p] = [actor EXCEPT ![a] = ActorRecord(p, x.note, x.answer, x.tax)]
  BY <1>4
<1> HIDE DEF x
<1>6. \A p : Goto(a, p) => After(a, p, x.note)
  BY <1>5, ActorAfter DEF Goto
<1>7. ASSUME NEW p, NEW n, actor' = [actor EXCEPT ![a].pc = p, ![a].note = n]
      PROVE  After(a, p, n)
  <2>1. PICK f : f = [actor EXCEPT ![a] = ActorRecord(p, x.note, x.answer, x.tax)]
    OBVIOUS
  <2>2. [actor EXCEPT ![a].pc = p] = f
    BY <1>5, <2>1
  <2>3. [f[a] EXCEPT !.note = n] = ActorRecord(p, n, x.answer, x.tax)
    <3>1. f[a] = ActorRecord(p, x.note, x.answer, x.tax)
      BY <1>1, <2>1
    <3> QED BY <3>1, Edited
  <2>4. [f EXCEPT ![a].note = n] = [f EXCEPT ![a] = ActorRecord(p, n, x.answer, x.tax)]
    BY <2>3
  <2>5. [f EXCEPT ![a] = ActorRecord(p, n, x.answer, x.tax)] = [actor EXCEPT ![a] = ActorRecord(p, n, x.answer, x.tax)]
    BY <2>1
  <2>6. actor' = [[actor EXCEPT ![a].pc = p] EXCEPT ![a].note = n]
    BY <1>7
  <2>7. actor' = [actor EXCEPT ![a] = ActorRecord(p, n, x.answer, x.tax)]
    BY <2>2, <2>4, <2>5, <2>6
  <2> QED BY <2>7, ActorAfter
<1>8. ASSUME NEW p, NEW s, actor' = [actor EXCEPT ![a].pc = p, ![a].answer = s]
      PROVE  After(a, p, x.note) /\ actor'[a].answer = s
  <2>1. PICK f : f = [actor EXCEPT ![a] = ActorRecord(p, x.note, x.answer, x.tax)]
    OBVIOUS
  <2>2. [actor EXCEPT ![a].pc = p] = f
    BY <1>5, <2>1
  <2>3. [f[a] EXCEPT !.answer = s] = ActorRecord(p, x.note, s, x.tax)
    <3>1. f[a] = ActorRecord(p, x.note, x.answer, x.tax)
      BY <1>1, <2>1
    <3> QED BY <3>1, Edited
  <2>4. [f EXCEPT ![a].answer = s] = [f EXCEPT ![a] = ActorRecord(p, x.note, s, x.tax)]
    BY <2>3
  <2>5. [f EXCEPT ![a] = ActorRecord(p, x.note, s, x.tax)] = [actor EXCEPT ![a] = ActorRecord(p, x.note, s, x.tax)]
    BY <2>1
  <2>6. actor' = [[actor EXCEPT ![a].pc = p] EXCEPT ![a].answer = s]
    BY <1>8
  <2>7. actor' = [actor EXCEPT ![a] = ActorRecord(p, x.note, s, x.tax)]
    BY <2>2, <2>4, <2>5, <2>6
  <2> QED BY <2>7, ActorAfter
<1>9. ASSUME NEW p, NEW t, actor' = [actor EXCEPT ![a].pc = p, ![a].tax = t]
      PROVE  After(a, p, x.note)
  <2>1. PICK f : f = [actor EXCEPT ![a] = ActorRecord(p, x.note, x.answer, x.tax)]
    OBVIOUS
  <2>2. [actor EXCEPT ![a].pc = p] = f
    BY <1>5, <2>1
  <2>3. [f[a] EXCEPT !.tax = t] = ActorRecord(p, x.note, x.answer, t)
    <3>1. f[a] = ActorRecord(p, x.note, x.answer, x.tax)
      BY <1>1, <2>1
    <3> QED BY <3>1, Edited
  <2>4. [f EXCEPT ![a].tax = t] = [f EXCEPT ![a] = ActorRecord(p, x.note, x.answer, t)]
    BY <2>3
  <2>5. [f EXCEPT ![a] = ActorRecord(p, x.note, x.answer, t)] = [actor EXCEPT ![a] = ActorRecord(p, x.note, x.answer, t)]
    BY <2>1
  <2>6. actor' = [[actor EXCEPT ![a].pc = p] EXCEPT ![a].tax = t]
    BY <1>9
  <2>7. actor' = [actor EXCEPT ![a] = ActorRecord(p, x.note, x.answer, t)]
    BY <2>2, <2>4, <2>5, <2>6
  <2> QED BY <2>7, ActorAfter
<1>10. ASSUME NEW p, NEW n, NEW s,
              actor' = [actor EXCEPT ![a].pc = p, ![a].note = n, ![a].answer = s]
       PROVE  After(a, p, n) /\ actor'[a].answer = s
  <2>1. PICK f : f = [actor EXCEPT ![a] = ActorRecord(p, x.note, x.answer, x.tax)]
    OBVIOUS
  <2>2. PICK g : g = [actor EXCEPT ![a] = ActorRecord(p, n, x.answer, x.tax)]
    OBVIOUS
  <2>3. [actor EXCEPT ![a].pc = p] = f
    BY <1>5, <2>1
  <2>4. [f[a] EXCEPT !.note = n] = ActorRecord(p, n, x.answer, x.tax)
    <3>1. f[a] = ActorRecord(p, x.note, x.answer, x.tax)
      BY <1>1, <2>1
    <3> QED BY <3>1, Edited
  <2>5. [f EXCEPT ![a].note = n] = g
    BY <2>1, <2>2, <2>4
  <2>6. [g[a] EXCEPT !.answer = s] = ActorRecord(p, n, s, x.tax)
    <3>1. g[a] = ActorRecord(p, n, x.answer, x.tax)
      BY <1>1, <2>2
    <3> QED BY <3>1, Edited
  <2>7. [g EXCEPT ![a].answer = s] = [actor EXCEPT ![a] = ActorRecord(p, n, s, x.tax)]
    BY <2>2, <2>6
  <2>8. actor' = [[[actor EXCEPT ![a].pc = p] EXCEPT ![a].note = n] EXCEPT ![a].answer = s]
    BY <1>10
  <2>9. actor' = [actor EXCEPT ![a] = ActorRecord(p, n, s, x.tax)]
    BY <2>3, <2>5, <2>7, <2>8
  <2> QED BY <2>9, ActorAfter
<1> QED BY <1>3, <1>6, <1>7, <1>8, <1>9, <1>10 DEF x

\* The status of note n becomes s, and nobody else's changes.
Becomes(n, s) ==
    /\ NoteShape' /\ note'[n].status = s
    /\ \A m \in Notes : m # n => note'[m].status = note[m].status

\* Its refund becomes r.
Marks(n, r) ==
    note'[n].refund = r /\ \A m \in Notes : m # n => note'[m].refund = note[m].refund

LEMMA NoteUpdated ==
    ASSUME Shape, NEW n \in Notes, NEW r, NEW i, UpdateRefund(n, r, i)
    PROVE  Becomes(n, note[n].status) /\ Marks(n, r)
<1> DEFINE x == note[n]
<1>1. x = NoteRecord(x.status, x.refund, x.amount, x.maker, x.refundId) /\ n \in DOMAIN note
  BY DEF Shape, NoteShape, NoteRecord
<1>2. \A y : [note EXCEPT ![n].refund = r, ![n].refundId = i][n] = y
            => y = NoteRecord(x.status, r, x.amount, x.maker, i)
  <2>1. PICK f : f = [note EXCEPT ![n].refund = r]
    OBVIOUS
  <2>2. f[n] = NoteRecord(x.status, r, x.amount, x.maker, x.refundId) /\ n \in DOMAIN f
    BY <1>1, <2>1 DEF NoteRecord
  <2>3. [f EXCEPT ![n].refundId = i][n] = NoteRecord(x.status, r, x.amount, x.maker, i)
    BY <2>2 DEF NoteRecord
  <2>4. [note EXCEPT ![n].refund = r, ![n].refundId = i] = [f EXCEPT ![n].refundId = i]
    BY <2>1
  <2> QED BY <2>3, <2>4
<1>3. note'[n] = NoteRecord(x.status, r, x.amount, x.maker, i)
  BY <1>2 DEF UpdateRefund
<1>4. /\ DOMAIN note' = Notes /\ note' = [m \in Notes |-> note'[m]]
      /\ \A m \in Notes : m # n => note'[m] = note[m]
  BY DEF UpdateRefund, Shape, NoteShape
<1>5. \A m \in Notes : note'[m] = NoteRecord(note'[m].status, note'[m].refund, note'[m].amount,
                                            note'[m].maker, note'[m].refundId)
  BY <1>3, <1>4 DEF Shape, NoteShape, NoteRecord
<1>6. NoteShape'
  BY <1>4, <1>5 DEF NoteShape
<1> QED BY <1>3, <1>4, <1>6 DEF Becomes, Marks, NoteRecord

LEMMA StatusUpdated ==
    ASSUME Shape, NEW n \in Notes, NEW from, NEW to, UpdateStatus(n, from, to)
    PROVE  /\ Becomes(n, IF note[n].status = from THEN to ELSE note[n].status)
           /\ Marks(n, note[n].refund)
<1> DEFINE x == note[n]
           s == IF x.status = from THEN to ELSE x.status
<1>1. x = NoteRecord(x.status, x.refund, x.amount, x.maker, x.refundId) /\ n \in DOMAIN note
  BY DEF Shape, NoteShape, NoteRecord
<1>2. note'[n] = NoteRecord(s, x.refund, x.amount, x.maker, x.refundId)
  BY <1>1 DEF UpdateStatus, NoteRecord
<1>3. /\ DOMAIN note' = Notes /\ note' = [m \in Notes |-> note'[m]]
      /\ \A m \in Notes : m # n => note'[m] = note[m]
  BY DEF UpdateStatus, Shape, NoteShape
<1>4. \A m \in Notes : note'[m] = NoteRecord(note'[m].status, note'[m].refund, note'[m].amount,
                                            note'[m].maker, note'[m].refundId)
  BY <1>2, <1>3 DEF Shape, NoteShape, NoteRecord
<1>5. NoteShape'
  BY <1>3, <1>4 DEF NoteShape
<1> QED BY <1>2, <1>3, <1>5 DEF Becomes, Marks, NoteRecord

LEMMA NoteInserted ==
    ASSUME Shape, NEW n \in Notes, NEW m, NEW s, NEW r, NEW k, Insert(n, m, s, r, k)
    PROVE  note[n].status = None /\ Becomes(n, s) /\ Marks(n, r)
<1>1. note'[n] = NoteRecord(s, r, m, k, FALSE)
  BY DEF Insert, Shape, NoteShape, NoteRecord
<1>2. /\ DOMAIN note' = Notes /\ note' = [j \in Notes |-> note'[j]]
      /\ \A j \in Notes : j # n => note'[j] = note[j]
  BY DEF Insert, Shape, NoteShape
<1>3. \A j \in Notes : note'[j] = NoteRecord(note'[j].status, note'[j].refund, note'[j].amount,
                                            note'[j].maker, note'[j].refundId)
  BY <1>1, <1>2 DEF Shape, NoteShape, NoteRecord
<1>4. NoteShape'
  BY <1>2, <1>3 DEF NoteShape
<1> QED BY <1>1, <1>2, <1>4 DEF Becomes, Marks, NoteRecord, Insert

\* Note n's record at the gateway is replaced by one with state s, count k and answer r.
LEMMA RowReplaced ==
    ASSUME DOMAIN sent = Notes, NEW n \in Notes, NEW s, NEW k, NEW r,
           \A m \in Notes : sent[m] =
               [state |-> sent[m].state, count |-> sent[m].count, answer |-> sent[m].answer],
           sent' = [sent EXCEPT ![n] = [state |-> s, count |-> k, answer |-> r]]
    PROVE  /\ SentShape' /\ \A m \in Notes : m # n => sent'[m] = sent[m]
           /\ sent'[n].state = s /\ sent'[n].count = k /\ sent'[n].answer = r
<1>1. sent'[n] = [state |-> s, count |-> k, answer |-> r] /\ DOMAIN sent' = Notes
  OBVIOUS
<1>2. \A m \in Notes : m # n => sent'[m] = sent[m]
  OBVIOUS
<1>3. \A m \in Notes : sent'[m] =
          [state |-> sent'[m].state, count |-> sent'[m].count, answer |-> sent'[m].answer]
  BY <1>1, <1>2
<1>4. sent' = [m \in Notes |-> sent'[m]]
  OBVIOUS
<1>5. SentShape'
  BY <1>3, <1>4 DEF SentShape
<1> QED BY <1>1, <1>2, <1>5

LEMMA SentUpdated ==
    ASSUME Shape, HeldAlone, NEW n \in Notes
    PROVE  /\ \A s : sent' = [sent EXCEPT ![n].state = s]
                => SentShape' /\ \A m \in Notes : sent'[m].count = sent[m].count
           /\ \A s, r : sent' = [sent EXCEPT ![n] = [state |-> s, count |-> @.count + 1, answer |-> r]]
                => /\ SentShape' /\ sent'[n].count = sent[n].count + 1
                   /\ \A m \in Notes : m # n => sent'[m].count = sent[m].count
<1>1. DOMAIN sent = Notes /\ \A m \in Notes :
          sent[m] = [state |-> sent[m].state, count |-> sent[m].count, answer |-> sent[m].answer]
  BY DEF Shape, SentShape
<1>2. ASSUME NEW s, sent' = [sent EXCEPT ![n].state = s]
      PROVE  SentShape' /\ \A m \in Notes : sent'[m].count = sent[m].count
  <2> DEFINE row == [state |-> s, count |-> sent[n].count, answer |-> sent[n].answer]
  <2>1. [sent[n] EXCEPT !.state = s] = row
    BY <1>1
  <2>2. sent' = [sent EXCEPT ![n] = row]
    BY <1>2, <2>1
  <2> QED BY <1>1, <2>2, RowReplaced
<1>3. ASSUME NEW s, NEW r, sent' = [sent EXCEPT ![n] = [state |-> s, count |-> @.count + 1, answer |-> r]]
      PROVE  /\ SentShape' /\ sent'[n].count = sent[n].count + 1
             /\ \A m \in Notes : m # n => sent'[m].count = sent[m].count
  BY <1>1, <1>3, RowReplaced
<1> QED BY <1>2, <1>3

----------------------------------------------------------------------------
(* The steps.                                                              *)

\* An actor that stops calling, or never starts to, takes nothing from the others.
LEMMA LettingGo ==
    ASSUME Shape, HeldAlone, NEW a \in Actors, NEW p, NEW n,
           After(a, p, n), p \notin {"manual", "refund"}, p = "idle" \/ n \in Notes,
           \A m \in Notes : note'[m].status = note[m].status,
           \A m \in Notes : sent'[m].count = sent[m].count
    PROVE  HeldAlone'
<1>1. \A b \in Actors : Sending(b)' => b # a /\ Sending(b) /\ actor'[b].note = actor[b].note
  BY DEF After, Sending
<1>2. \A b \in Actors : actor'[b].pc # "idle" => actor'[b].note \in Notes
  BY DEF After, HeldAlone
<1>3. \A b \in Actors : Sending(b) => actor[b].note \in Notes
  BY DEF HeldAlone, Sending
<1>4. \A b \in Actors : Sending(b)' =>
          note'[actor'[b].note].status = "issued" /\ sent'[actor'[b].note].count = 0
  BY <1>1, <1>3 DEF HeldAlone
<1>5. \A b, c \in Actors : Sending(b)' /\ Sending(c)' /\ actor'[b].note = actor'[c].note => b = c
  BY <1>1 DEF HeldAlone
<1>6. \A m \in Notes : sent'[m].count \in 0..1 /\ (note'[m].status # "issued" => sent'[m].count = 0)
  BY DEF HeldAlone
<1> HIDE DEF Sending
<1> QED BY <1>2, <1>4, <1>5, <1>6 DEF HeldAlone

LEMMA StayingOut ==
    ASSUME OnceInv, NEW a \in Actors,
           \/ ReadPending(a) \/ MarkManual(a) \/ GatewayDeclines(a) \/ MarkRefundFailed(a)
           \/ RecordOutcome(a) \/ AllocateTax(a) \/ RecordRefund(a) \/ RefundPostFails(a)
           \/ RecordRefundTaxReversal(a) \/ ReadEvent(a) \/ AdvanceRefund(a) \/ Crash(a)
    PROVE  OnceInv'
<1> DEFINE n == actor[a].note
           Rest == NoteShape' /\ SentShape' /\ told' \subseteq Told
           Same == /\ \A m \in Notes : note'[m].status = note[m].status
                   /\ \A m \in Notes : sent'[m].count = sent[m].count
<1>1. Shape /\ HeldAlone
  BY DEF OnceInv
<1>2. actor[a].pc # "idle" => n \in Notes
  BY <1>1 DEF HeldAlone
<1>3. ASSUME NEW p, NEW m, After(a, p, m), p \notin {"manual", "refund"},
             p = "idle" \/ m \in Notes, Rest, Same
      PROVE  OnceInv'
  <2>1. HeldAlone'
    BY <1>1, <1>3, LettingGo
  <2>2. Shape'
    BY <1>3 DEF Shape, After
  <2> QED BY <2>1, <2>2 DEF OnceInv
<1>4. UNCHANGED <<note, sent, told>> => Rest /\ Same
  BY <1>1 DEF Shape, NoteShape, SentShape
<1>5. ASSUME NEW m \in Notes, NEW r, NEW i, UpdateRefund(m, r, i), UNCHANGED <<sent, told>>
      PROVE  Rest /\ Same
  BY <1>1, <1>5, NoteUpdated DEF Becomes, Shape, SentShape
<1> HIDE DEF Rest, Same
<1>6. CASE ReadPending(a)
  <2>1. PICK m \in Notes : actor' = [actor EXCEPT ![a].pc = "approve", ![a].note = m]
    BY <1>6 DEF ReadPending
  <2>2. After(a, "approve", m)
    BY <1>1, <2>1, Goes
  <2>3. UNCHANGED <<note, sent, told>>
    BY <1>6 DEF ReadPending, gateway
  <2> QED BY <1>3, <1>4, <2>2, <2>3
<1>7. CASE MarkManual(a)
  <2>1. n \in Notes /\ UpdateRefund(n, "manual_required", FALSE) /\ UNCHANGED <<sent, told>>
    BY <1>2, <1>7 DEF MarkManual, At, Mine, gateway
  <2>2. After(a, "idle", None)
    BY <1>1, <1>7, Goes DEF MarkManual
  <2> QED BY <1>3, <1>5, <2>1, <2>2
<1>8. CASE GatewayDeclines(a)
  <2>1. n \in Notes /\ sent' = [sent EXCEPT ![n].state = "declined"] /\ UNCHANGED <<note, told>>
    BY <1>2, <1>8 DEF GatewayDeclines, At, Mine
  <2>2. Rest /\ Same
    BY <1>1, <2>1, SentUpdated DEF Rest, Same, Shape, NoteShape
  <2>3. After(a, "failed", n)
    BY <1>1, <1>8, Goes DEF GatewayDeclines
  <2> QED BY <1>3, <2>1, <2>2, <2>3
<1>9. CASE MarkRefundFailed(a)
  <2>1. n \in Notes /\ UpdateRefund(n, "refund_failed", FALSE) /\ UNCHANGED <<sent, told>>
    BY <1>2, <1>9 DEF MarkRefundFailed, At, Mine, gateway
  <2>2. After(a, "idle", None)
    BY <1>1, <1>9, Goes DEF MarkRefundFailed
  <2> QED BY <1>3, <1>5, <2>1, <2>2
<1>10. CASE RecordOutcome(a)
  <2>1. n \in Notes /\ UNCHANGED <<sent, told>>
    BY <1>2, <1>10 DEF RecordOutcome, At, gateway
  <2>2. PICK r : UpdateRefund(n, r, TRUE)
    BY <1>10 DEF RecordOutcome, Mine
  <2>3. Rest /\ Same
    BY <1>5, <2>1, <2>2
  <2>4. After(a, "tax", n)
    BY <1>1, <1>10, Goes DEF RecordOutcome
  <2> QED BY <1>3, <2>1, <2>3, <2>4
<1>11. CASE AllocateTax(a)
  <2>1. \E t : actor' = [actor EXCEPT ![a].pc = "post", ![a].tax = t]
    BY <1>11 DEF AllocateTax
  <2>2. After(a, "post", n)
    BY <1>1, <2>1, Goes
  <2>3. n \in Notes /\ UNCHANGED <<note, sent, told>>
    BY <1>2, <1>11 DEF AllocateTax, At, gateway
  <2> QED BY <1>3, <1>4, <2>2, <2>3
<1>12. CASE RecordRefund(a) \/ RefundPostFails(a)
  <2>1. After(a, "postTax", n)
    BY <1>1, <1>12, Goes DEF RecordRefund, RefundPostFails
  <2>2. n \in Notes /\ UNCHANGED <<note, sent, told>>
    BY <1>2, <1>12 DEF RecordRefund, RefundPostFails, At, gateway
  <2> QED BY <1>3, <1>4, <2>1, <2>2
<1>13. CASE RecordRefundTaxReversal(a) \/ Crash(a)
  <2>1. After(a, "idle", None)
    BY <1>1, <1>13, Goes DEF RecordRefundTaxReversal, Crash
  <2>2. UNCHANGED <<note, sent, told>>
    BY <1>13 DEF RecordRefundTaxReversal, Crash, gateway
  <2> QED BY <1>3, <1>4, <2>1, <2>2
<1>14. CASE ReadEvent(a)
  <2>1. PICK e \in told : actor' = [actor EXCEPT ![a].pc = "advance", ![a].note = e.note,
                                                ![a].answer = Outcome(e)]
    BY <1>14 DEF ReadEvent
  <2>2. e.note \in Notes
    BY <1>1 DEF Shape, Told
  <2>3. After(a, "advance", e.note)
    BY <1>1, <2>1, Goes
  <2>4. UNCHANGED <<note, sent, told>>
    BY <1>14 DEF ReadEvent, gateway
  <2> QED BY <1>3, <1>4, <2>2, <2>3, <2>4
<1>15. CASE AdvanceRefund(a)
  <2>1. n \in Notes /\ UNCHANGED <<sent, told>>
    BY <1>2, <1>15 DEF AdvanceRefund, At, gateway
  <2>2. PICK r : UpdateRefund(n, r, TRUE)
    BY <1>15 DEF AdvanceRefund, Mine
  <2>3. Rest /\ Same
    BY <1>5, <2>1, <2>2
  <2>4. After(a, "idle", None)
    BY <1>1, <1>15, Goes DEF AdvanceRefund
  <2> QED BY <1>3, <2>3, <2>4
<1> QED BY <1>6, <1>7, <1>8, <1>9, <1>10, <1>11, <1>12, <1>13, <1>14, <1>15

\* A note that becomes issued, or is no longer pending, was not refunded.
LEMMA Claiming ==
    ASSUME OnceInv, NEW a \in Actors,
           CreateRefund(a) \/ RequestRefund(a) \/ Approve(a) \/ Reject(a) \/ RevertApproval(a)
    PROVE  OnceInv'
<1>1. Shape /\ HeldAlone
  BY DEF OnceInv
<1>2. /\ UNCHANGED <<sent, told>> /\ SentShape' /\ told' \subseteq Told
      /\ \A m \in Notes : sent'[m].count = sent[m].count
  BY <1>1
  DEF CreateRefund, RequestRefund, Approve, Reject, RevertApproval, gateway, Shape, SentShape
\* A new holder of a note nobody holds.
<1>3. ASSUME NEW n \in Notes, note[n].status # "issued", NEW s, Becomes(n, s),
             \/ ActorShape' /\ UNCHANGED actor
             \/ After(a, "idle", None)
             \/ s = "issued" /\ (After(a, "refund", n) \/ After(a, "manual", n))
      PROVE  OnceInv'
  <2>1. sent[n].count = 0 /\ \A b \in Actors : Sending(b) => actor[b].note # n
    BY <1>1, <1>3 DEF HeldAlone
  <2>2. \A b \in Actors : b # a => actor'[b] = actor[b]
    BY <1>3 DEF After
  <2>3. Sending(a)' => \/ actor'[a] = actor[a]
                       \/ s = "issued" /\ actor'[a].note = n
    <3>1. After(a, "idle", None) => ~Sending(a)'
      BY DEF Sending, After
    <3>2. After(a, "refund", n) \/ After(a, "manual", n) => actor'[a].note = n
      BY DEF After
    <3> QED BY <1>3, <3>1, <3>2
  <2>4. \A b \in Actors : actor'[b].pc # "idle" => actor'[b].note \in Notes
    BY <1>1, <1>3 DEF After, HeldAlone
  <2>5. \A m \in Notes : sent'[m].count \in 0..1 /\ (note'[m].status # "issued" => sent'[m].count = 0)
    BY <1>1, <1>2, <1>3, <2>1 DEF HeldAlone, Becomes
  <2>6. \A b \in Actors : Sending(b)' =>
            \/ b = a /\ s = "issued" /\ actor'[b].note = n
            \/ Sending(b) /\ actor'[b].note = actor[b].note /\ actor[b].note # n
    BY <2>1, <2>2, <2>3 DEF Sending
  <2>7. \A b \in Actors : Sending(b) => actor[b].note \in Notes
    BY <1>1 DEF HeldAlone, Sending
  <2>8. \A b \in Actors : Sending(b)' =>
            note'[actor'[b].note].status = "issued" /\ sent'[actor'[b].note].count = 0
    BY <1>1, <1>2, <1>3, <2>1, <2>6, <2>7 DEF HeldAlone, Becomes
  <2>9. \A b, c \in Actors : Sending(b)' /\ Sending(c)' /\ actor'[b].note = actor'[c].note => b = c
    BY <1>1, <2>6 DEF HeldAlone
  <2>10. Shape'
    BY <1>1, <1>2, <1>3 DEF Shape, After, Becomes
  <2> QED BY <2>4, <2>5, <2>8, <2>9, <2>10 DEF OnceInv, HeldAlone
<1>4. CASE CreateRefund(a)
  <2>1. PICK n \in Notes, m \in Amounts :
            /\ Insert(n, m, "issued", IF method = "offline" THEN "manual_required" ELSE "pending", FALSE)
            /\ IF method = "offline" THEN UNCHANGED actor
               ELSE actor' = [actor EXCEPT ![a].pc = "refund", ![a].note = n]
    BY <1>4 DEF CreateRefund
  <2>2. note[n].status = None /\ Becomes(n, "issued")
    BY <1>1, <2>1, NoteInserted
  <2>3. (ActorShape' /\ UNCHANGED actor) \/ After(a, "refund", n)
    BY <1>1, <2>1, Goes DEF Shape, ActorShape
  <2>4. None # "issued"
    BY DEF None
  <2> QED BY <1>3, <2>2, <2>3, <2>4
<1>5. CASE RequestRefund(a)
  <2>1. PICK n \in Notes, m \in Amounts : Insert(n, m, "pending_approval", None, TRUE)
    BY <1>5 DEF RequestRefund
  <2>2. note[n].status = None /\ Becomes(n, "pending_approval")
    BY <1>1, <2>1, NoteInserted
  <2>3. ActorShape' /\ UNCHANGED actor
    BY <1>1, <1>5 DEF RequestRefund, Shape, ActorShape
  <2>4. None # "issued"
    BY DEF None
  <2> QED BY <1>3, <2>2, <2>3, <2>4
<1> DEFINE n == actor[a].note
<1>6. CASE (Approve(a) \/ Reject(a)) /\ note[n].status # "issued"
  <2>1. n \in Notes
    BY <1>1, <1>6 DEF HeldAlone, Approve, Reject, At
  <2>2. CASE Approve(a)
    <3>1. UpdateStatus(n, "pending_approval", "issued")
      BY <2>2 DEF Approve, Mine
    <3>2. Becomes(n, IF note[n].status = "pending_approval" THEN "issued" ELSE note[n].status)
      BY <1>1, <2>1, <3>1, StatusUpdated
    <3>3. IF note[n].status = "pending_approval"
          THEN After(a, "refund", n) \/ After(a, "manual", n)
          ELSE After(a, "idle", None)
      BY <1>1, <2>2, Goes DEF Approve, Mine
    <3> QED BY <1>3, <1>6, <2>1, <3>2, <3>3
  <2>3. CASE Reject(a)
    <3>1. UpdateStatus(n, "pending_approval", "rejected") /\ After(a, "idle", None)
      BY <1>1, <2>3, Goes DEF Reject, Mine
    <3>2. \E s : Becomes(n, s)
      BY <1>1, <2>1, <3>1, StatusUpdated
    <3> QED BY <1>3, <1>6, <2>1, <3>1, <3>2
  <2> QED BY <1>6, <2>2, <2>3
\* Somebody else was quicker.
<1>7. CASE (Approve(a) \/ Reject(a)) /\ note[n].status = "issued"
  <2>1. n \in Notes
    BY <1>1, <1>7 DEF HeldAlone, Approve, Reject, At
  <2>2. \E to : UpdateStatus(n, "pending_approval", to)
    BY <1>7 DEF Approve, Reject, Mine
  <2>3. Becomes(n, note[n].status)
    BY <1>1, <1>7, <2>1, <2>2, StatusUpdated
  <2>4. After(a, "idle", None)
    BY <1>1, <1>7, Goes DEF Approve, Reject, Mine
  <2>5. \A m \in Notes : note'[m].status = note[m].status
    BY <2>3 DEF Becomes
  <2>6. HeldAlone'
    BY <1>1, <1>2, <2>4, <2>5, LettingGo
  <2>7. Shape'
    BY <1>2, <2>3, <2>4 DEF Shape, After, Becomes
  <2> QED BY <2>6, <2>7 DEF OnceInv
\* Only the holder takes its own approval back.
<1>8. CASE RevertApproval(a)
  <2>1. n \in Notes /\ Sending(a)
    BY <1>1, <1>8 DEF HeldAlone, RevertApproval, At, Sending
  <2>2. note[n].status = "issued" /\ sent[n].count = 0
    BY <1>1, <2>1 DEF HeldAlone
  <2>3. After(a, "idle", None) /\ UpdateStatus(n, "issued", "pending_approval")
    BY <1>1, <1>8, Goes DEF RevertApproval, Mine
  <2>4. Becomes(n, "pending_approval")
    BY <1>1, <2>1, <2>2, <2>3, StatusUpdated
  <2>5. \A b \in Actors : Sending(b)' =>
            b # a /\ Sending(b) /\ actor'[b].note = actor[b].note /\ actor[b].note # n
    BY <1>1, <2>1, <2>3 DEF After, Sending, HeldAlone
  <2>6. \A b \in Actors : Sending(b) => actor[b].note \in Notes
    BY <1>1 DEF HeldAlone, Sending
  <2>7. \A b \in Actors : Sending(b)' =>
            note'[actor'[b].note].status = "issued" /\ sent'[actor'[b].note].count = 0
    BY <1>1, <1>2, <2>4, <2>5, <2>6 DEF HeldAlone, Becomes
  <2>8. \A b, c \in Actors : Sending(b)' /\ Sending(c)' /\ actor'[b].note = actor'[c].note => b = c
    BY <1>1, <2>5 DEF HeldAlone
  <2>9. \A m \in Notes : sent'[m].count \in 0..1 /\ (note'[m].status # "issued" => sent'[m].count = 0)
    BY <1>1, <1>2, <2>2, <2>4 DEF HeldAlone, Becomes
  <2>10. \A b \in Actors : actor'[b].pc # "idle" => actor'[b].note \in Notes
    BY <1>1, <2>3 DEF After, HeldAlone
  <2>11. Shape'
    BY <1>2, <2>3, <2>4 DEF Shape, After, Becomes
  <2> QED BY <2>7, <2>8, <2>9, <2>10, <2>11 DEF OnceInv, HeldAlone
<1> QED BY <1>4, <1>5, <1>6, <1>7, <1>8

LEMMA Calling ==
    ASSUME OnceInv, NEW a \in Actors, GatewayRefunds(a)
    PROVE  OnceInv'
<1> DEFINE n == actor[a].note
<1>1. Shape /\ HeldAlone /\ Sending(a)
  BY DEF OnceInv, GatewayRefunds, At, Sending
<1>2. n \in Notes /\ note[n].status = "issued" /\ sent[n].count = 0
  BY <1>1 DEF HeldAlone, Sending
<1>3. PICK answer \in Answers, heard \in BOOLEAN :
          LET received == IF heard THEN answer ELSE None IN
          /\ sent' = [sent EXCEPT ![n] =
                 [state |-> IF answer = "requires_action" THEN "pending" ELSE answer,
                  count |-> @.count + 1, answer |-> received]]
          /\ IF answer \in {"succeeded", "failed"} THEN Tell(n, answer = "succeeded") ELSE UNCHANGED told
          /\ actor' = [actor EXCEPT ![a].pc = IF heard THEN "record" ELSE "failed",
                                    ![a].answer = received]
  BY DEF GatewayRefunds, Mine
<1>4. /\ SentShape' /\ sent'[n].count = 1
      /\ \A m \in Notes : m # n => sent'[m].count = sent[m].count
  <2>1. PICK s, r : sent' = [sent EXCEPT ![n] = [state |-> s, count |-> @.count + 1, answer |-> r]]
    BY <1>3
  <2>2. SentShape' /\ sent'[n].count = sent[n].count + 1
    BY <1>1, <1>2, <2>1, SentUpdated
  <2>3. \A m \in Notes : m # n => sent'[m].count = sent[m].count
    BY <1>1, <1>2, <2>1, SentUpdated
  <2> QED BY <1>2, <2>2, <2>3
<1>5. PICK p \in {"record", "failed"} : After(a, p, n)
  <2>1. PICK q : q = IF heard THEN "record" ELSE "failed"
    OBVIOUS
  <2>2. PICK r : r = IF heard THEN answer ELSE None
    OBVIOUS
  <2>3. actor' = [actor EXCEPT ![a].pc = q, ![a].answer = r]
    BY <1>3, <2>1, <2>2
  <2> QED BY <1>1, <2>1, <2>3, Goes
<1>6. note' = note
  BY DEF GatewayRefunds
<1>7. told' \subseteq Told
  <2>1. [note |-> n, succeeded |-> answer = "succeeded"] \in Told
    BY <1>2 DEF Told
  <2>2. told \subseteq Told
    BY <1>1 DEF Shape
  <2> QED BY <1>3, <2>1, <2>2 DEF Tell
<1>8. \A b \in Actors : Sending(b)' =>
          b # a /\ Sending(b) /\ actor'[b].note = actor[b].note /\ actor[b].note # n
  BY <1>1, <1>5 DEF After, Sending, HeldAlone
<1>9. \A b \in Actors : Sending(b) => actor[b].note \in Notes
  BY <1>1 DEF HeldAlone, Sending
<1>10. \A b \in Actors : Sending(b)' =>
           note'[actor'[b].note].status = "issued" /\ sent'[actor'[b].note].count = 0
  BY <1>1, <1>4, <1>6, <1>8, <1>9 DEF HeldAlone
<1>11. \A b, c \in Actors : Sending(b)' /\ Sending(c)' /\ actor'[b].note = actor'[c].note => b = c
  BY <1>1, <1>8 DEF HeldAlone
<1>12. \A m \in Notes : sent'[m].count \in 0..1 /\ (note'[m].status # "issued" => sent'[m].count = 0)
  BY <1>1, <1>2, <1>4, <1>6 DEF HeldAlone
<1>13. \A b \in Actors : actor'[b].pc # "idle" => actor'[b].note \in Notes
  BY <1>1, <1>2, <1>5 DEF After, HeldAlone
<1>14. Shape'
  BY <1>1, <1>4, <1>5, <1>6, <1>7 DEF Shape, After, NoteShape
<1> QED BY <1>10, <1>11, <1>12, <1>13, <1>14 DEF OnceInv, HeldAlone

LEMMA Settling ==
    ASSUME OnceInv, NEW n \in Notes, GatewaySettles(n)
    PROVE  OnceInv'
<1>1. Shape /\ HeldAlone /\ UNCHANGED <<note, actor>>
  BY DEF OnceInv, GatewaySettles
<1>2. PICK ok \in BOOLEAN :
          /\ sent' = [sent EXCEPT ![n].state = IF ok THEN "succeeded" ELSE "failed"]
          /\ Tell(n, ok)
  BY DEF GatewaySettles
<1>3. SentShape' /\ \A m \in Notes : sent'[m].count = sent[m].count
  BY <1>1, <1>2, SentUpdated
<1>4. told' \subseteq Told
  BY <1>1, <1>2 DEF Tell, Told, Shape
<1>5. HeldAlone'
  BY <1>1, <1>3 DEF HeldAlone, Sending
<1>6. Shape'
  BY <1>1, <1>3, <1>4 DEF Shape, NoteShape, ActorShape
<1> QED BY <1>5, <1>6 DEF OnceInv

LEMMA Started == Init => OnceInv
<1> SUFFICES ASSUME Init PROVE OnceInv
  OBVIOUS
<1>1. NoteShape /\ SentShape /\ ActorShape
  BY DEF Init, NoteShape, SentShape, ActorShape, NoteRecord, ActorRecord, Idle
<1>2. HeldAlone
  BY DEF Init, HeldAlone, Sending, Idle
<1> QED BY <1>1, <1>2 DEF OnceInv, Shape, Init

LEMMA Kept == OnceInv /\ [Next]_vars => OnceInv'
<1> SUFFICES ASSUME OnceInv, [Next]_vars PROVE OnceInv'
  OBVIOUS
<1>1. CASE UNCHANGED vars
  BY <1>1 DEF vars, gateway, OnceInv, Shape, NoteShape, SentShape, ActorShape, HeldAlone, Sending
<1>2. ASSUME NEW a \in Actors, Request(a) \/ ReadEvent(a) \/ AdvanceRefund(a) \/ Crash(a)
      PROVE  OnceInv'
  BY <1>2, StayingOut, Claiming, Calling DEF Request
<1>3. ASSUME NEW n \in Notes, GatewaySettles(n)
      PROVE  OnceInv'
  BY <1>3, Settling
<1>4. ASSUME NEW a \in Actors, ACHReturned(a)
      PROVE  OnceInv'
  BY <1>4
  DEF ACHReturned, gateway, OnceInv, Shape, NoteShape, SentShape, ActorShape, HeldAlone, Sending
<1> QED BY <1>1, <1>2, <1>3, <1>4 DEF Next

----------------------------------------------------------------------------
(* What Recurso makes of the gateway's answers, as long as nothing fails.  *)
(* A note's refund is not made before its one call, so whoever is about to *)
(* call finds the note untouched at the gateway; after that its state at   *)
(* the gateway only moves on, and an answer or an event that was true once *)
(* stays true until it is written down.                                    *)

Sure == {"succeeded", "failed"}
Taken == {"pending", "succeeded", "failed"}
Booking(a) == actor[a].pc \in {"record", "tax", "post"}

\* The refund was made, or it got an answer that RecordOutcome takes for that.
Passed(n) == Made(n) \/ sent[n].answer \in {"requires_action", "failed"}

\* Refund status r is true of note n.
TrueOf(n, r) ==
    /\ r = "processed" => sent[n].state \in Taken /\ Passed(n)
    /\ r = "refund_failed" => sent[n].state \in {"declined", "failed"}

Untouched ==
    /\ \A n \in Notes : note[n].status # "issued" => sent[n].state = None
    /\ \A a \in Actors : Sending(a) => sent[actor[a].note].state = None

StatusTrue == \A n \in Notes : TrueOf(n, note[n].refund)

Booked ==
    \A n \in Notes :
        /\ posted[n] => sent[n].state \in Taken
        /\ sent[n].state \in Taken =>
               posted[n] \/ \E a \in Actors : Booking(a) /\ actor[a].note = n

\* What an event says of a note is true.
Hears(n, succeeded) == sent[n].state \in (IF succeeded THEN Sure ELSE {"failed"})
EventsTrue == \A e \in told : Hears(e.note, e.succeeded)

\* Nobody was answered about a note before its call.
Unanswered == \A n \in Notes : sent[n].state = None => sent[n].answer = None

\* An actor knows what it acts upon.
Knows(a) ==
    LET n == actor[a].note IN
    /\ actor[a].pc = "failed" => sent[n].state = "declined"
    /\ Booking(a) => sent[n].state \in Taken
    /\ actor[a].pc = "record" /\ actor[a].answer # "pending" => Passed(n)
    /\ actor[a].pc = "advance" /\ actor[a].answer = "succeeded" => sent[n].state \in Sure /\ Made(n)
    /\ actor[a].pc = "advance" /\ actor[a].answer # "succeeded" => sent[n].state = "failed"

Right == StatusTrue /\ Booked /\ EventsTrue /\ Unanswered /\ \A a \in Actors : Knows(a)

FollowInv ==
    /\ faults \in Nat /\ posted = [n \in Notes |-> posted[n]]
    /\ Untouched
    /\ faults = 0 => Right

\* A step of one actor that changes nothing at the gateway.
LEMMA ActingRight ==
    ASSUME Right, UNCHANGED <<sent, told>>, NEW a \in Actors,
           \A m \in Notes : note'[m].refund = note[m].refund \/ TrueOf(m, note'[m].refund),
           \A m \in Notes : posted[m] => posted'[m],
           \A m \in Notes : posted'[m] => posted[m] \/ sent[m].state \in Taken,
           \A b \in Actors : b # a => actor'[b] = actor[b],
           Knows(a)',
           Booking(a) => posted'[actor[a].note] \/ (Booking(a)' /\ actor'[a].note = actor[a].note)
    PROVE  Right'
<1>1. StatusTrue'
  BY DEF Right, StatusTrue, TrueOf, Passed, Made
<1>2. EventsTrue' /\ Unanswered'
  BY DEF Right, EventsTrue, Hears, Unanswered
<1>3. ASSUME NEW b \in Actors
      PROVE  Knows(b)'
  <2>1. CASE b = a
    BY <2>1
  <2>2. CASE b # a
    BY <2>2 DEF Right, Knows, Booking, Passed, Made
  <2> QED BY <2>1, <2>2
<1>4. Booked'
  <2> SUFFICES ASSUME NEW n \in Notes
               PROVE  /\ posted'[n] => sent[n].state \in Taken
                      /\ sent[n].state \in Taken =>
                             posted'[n] \/ \E b \in Actors : Booking(b)' /\ actor'[b].note = n
    BY DEF Booked
  <2>1. posted'[n] => sent[n].state \in Taken
    BY DEF Right, Booked
  <2>2. ASSUME NEW b \in Actors, Booking(b), actor[b].note = n, ~posted'[n]
        PROVE  Booking(b)' /\ actor'[b].note = n
    BY <2>2 DEF Booking
  <2>3. ASSUME sent[n].state \in Taken, ~posted'[n]
        PROVE  \E b \in Actors : Booking(b)' /\ actor'[b].note = n
    <3>1. PICK b \in Actors : Booking(b) /\ actor[b].note = n
      BY <2>3 DEF Right, Booked
    <3> QED BY <2>2, <2>3, <3>1
  <2> QED BY <2>1, <2>3
<1> QED BY <1>1, <1>2, <1>3, <1>4 DEF Right

\* The gateway moves note n from one of the states `from` to state s.
LEMMA MovingOn ==
    ASSUME Shape, HeldAlone, Right, UNCHANGED <<note, posted>>, NEW n \in Notes, NEW s,
           sent'[n].state = s, told \subseteq told',
           \A m \in Notes : m # n => sent'[m].state = sent[m].state /\ sent'[m].answer = sent[m].answer,
           \/ sent[n].state = None /\ s \in Taken \cup {"declined"}
           \/ sent[n].state = "pending" /\ s \in Sure /\ sent'[n].answer = sent[n].answer
           \/ sent[n].state = "succeeded" /\ s = "failed" /\ sent'[n].answer = sent[n].answer,
           \A e \in told' : e \in told \/ (e.note = n /\ Hears(n, e.succeeded)'),
           \A b \in Actors : actor'[b] = actor[b] \/ Knows(b)',
           \A b \in Actors : Booking(b) => Booking(b)' /\ actor'[b].note = actor[b].note,
           s \in Taken => \/ sent[n].state \in Taken
                          \/ \E b \in Actors : Booking(b)' /\ actor'[b].note = n
    PROVE  Right'
<1>1. \A m \in Notes : /\ sent[m].state \in Taken => sent'[m].state \in Taken
                       /\ sent[m].state \in Sure => sent'[m].state \in Sure
                       /\ sent[m].state = "failed" => sent'[m].state = "failed"
                       /\ sent[m].state = "declined" => sent'[m].state = "declined"
                       /\ sent'[m].state \in Taken => sent[m].state \in Taken \/ m = n
  BY DEF Taken, Sure, None
<1>2. \A m \in Notes : \A succeeded : Hears(m, succeeded) => Hears(m, succeeded)'
  BY <1>1 DEF Hears
<1>3. /\ \A m \in Notes : Made(m) => Made(m)'
      /\ \A m \in Notes : Passed(m) => Passed(m)'
      /\ Unanswered'
  <2>1. \A m \in Notes : Made(m) => Made(m)'
    BY DEF Made
  <2>2. ASSUME NEW m \in Notes, Passed(m)
        PROVE  Passed(m)'
    <3>1. CASE Made(m)
      BY <2>1, <3>1 DEF Passed
    <3>2. CASE sent[m].answer \in {"requires_action", "failed"}
      <4>1. sent[m].state # None
        BY <3>2 DEF Right, Unanswered, None
      <4>2. sent'[m].answer = sent[m].answer
        BY <4>1
      <4> QED BY <3>2, <4>2 DEF Passed
    <3> QED BY <2>2, <3>1, <3>2 DEF Passed
  <2>3. Unanswered'
    BY DEF Right, Unanswered, Taken, Sure, None
  <2> QED BY <2>1, <2>2, <2>3
<1>7. StatusTrue'
  BY <1>1, <1>3 DEF Right, StatusTrue, TrueOf
<1>4. EventsTrue'
  <2>1. \A e \in told : e.note \in Notes
    BY DEF Shape, Told
  <2> QED BY <1>2, <2>1 DEF Right, EventsTrue
<1>5. ASSUME NEW b \in Actors
      PROVE  Knows(b)'
  <2>1. CASE actor'[b] # actor[b]
    BY <2>1
  <2>2. CASE actor'[b] = actor[b] /\ actor[b].pc = "idle"
    BY <2>2 DEF Knows, Booking
  <2>3. CASE actor'[b] = actor[b] /\ actor[b].pc # "idle"
    <3>1. actor[b].note \in Notes /\ Knows(b) /\ actor'[b] = actor[b]
      BY <2>3 DEF HeldAlone, Right
    <3> QED BY <1>1, <1>3, <3>1 DEF Knows, Booking
  <2> QED BY <2>1, <2>2, <2>3
<1>6. Booked'
  <2> SUFFICES ASSUME NEW m \in Notes
               PROVE  /\ posted'[m] => sent'[m].state \in Taken
                      /\ sent'[m].state \in Taken =>
                             posted'[m] \/ \E b \in Actors : Booking(b)' /\ actor'[b].note = m
    BY DEF Booked
  <2>1. posted'[m] => sent'[m].state \in Taken
    BY <1>1 DEF Right, Booked
  <2>2. CASE sent[m].state \in Taken
    <3>1. posted[m] \/ \E b \in Actors : Booking(b) /\ actor[b].note = m
      BY <2>2 DEF Right, Booked
    <3> QED BY <2>1, <3>1
  <2>3. CASE sent[m].state \notin Taken
    BY <1>1, <2>1, <2>3
  <2> QED BY <2>2, <2>3
<1> QED BY <1>3, <1>4, <1>5, <1>6, <1>7 DEF Right

\* A note leaves "issued", or an actor comes to call, only where nothing was sent.
LEMMA StillUntouched ==
    ASSUME Shape, HeldAlone, Untouched, \A m \in Notes : sent'[m].state = sent[m].state,
           \A m \in Notes : note'[m].status = note[m].status \/ sent[m].state = None,
           \A b \in Actors : Sending(b)' =>
               \/ Sending(b) /\ actor'[b].note = actor[b].note
               \/ actor'[b].note \in Notes /\ sent[actor'[b].note].state = None
    PROVE  Untouched'
<1>1. \A b \in Actors : Sending(b) => actor[b].note \in Notes
  BY DEF HeldAlone, Sending
<1>2. \A b \in Actors : Sending(b)' => sent'[actor'[b].note].state = None
  BY <1>1 DEF Untouched
<1>3. \A m \in Notes : note'[m].status # "issued" => sent'[m].state = None
  BY DEF Untouched
<1> QED BY <1>2, <1>3 DEF Untouched

\* Requests, approvals, marks and failures: what they write of a refund is true.
LEMMA Asking ==
    ASSUME OnceInv, FollowInv, NEW a \in Actors,
           \/ CreateRefund(a) \/ RequestRefund(a) \/ ReadPending(a) \/ Approve(a) \/ Reject(a)
           \/ MarkManual(a) \/ RevertApproval(a)
    PROVE  FollowInv'
<1> DEFINE n == actor[a].note
\* What they have in common.
<1>1. /\ Shape /\ HeldAlone /\ Untouched /\ UNCHANGED <<sent, told, posted>>
      /\ faults' \in Nat /\ posted' = [m \in Notes |-> posted'[m]]
      /\ faults' = 0 => Right /\ ~RevertApproval(a)
  <2>1. Shape /\ HeldAlone /\ Untouched /\ faults \in Nat /\ (faults = 0 => Right)
        /\ posted = [m \in Notes |-> posted[m]]
    BY DEF OnceInv, FollowInv
  <2>2. UNCHANGED <<sent, told, posted>>
    BY DEF CreateRefund, RequestRefund, ReadPending, Approve, Reject, MarkManual, RevertApproval,
           gateway, books
  <2>3. faults' = faults \/ (faults' = faults + 1)
    BY DEF CreateRefund, RequestRefund, ReadPending, Approve, Reject, MarkManual, RevertApproval,
           Fault
  <2>4. RevertApproval(a) => faults' = faults + 1
    BY DEF RevertApproval, Fault
  <2> QED BY <2>1, <2>2, <2>3, <2>4
<1>2. ASSUME NEW m \in Notes, NEW s, NEW r, Becomes(m, s), Marks(m, r),
             r = note[m].refund \/ TrueOf(m, r),
             note[m].status = s \/ sent[m].state = None,
             \/ UNCHANGED actor
             \/ After(a, "idle", None)
             \/ sent[m].state = None /\ (After(a, "refund", m) \/ After(a, "manual", m)),
             ~Booking(a)
      PROVE  FollowInv'
  <2>1. \A b \in Actors : b # a => actor'[b] = actor[b]
    BY <1>2 DEF After
  <2>2. Right => Knows(a)'
    <3>1. CASE UNCHANGED actor
      BY <1>1, <1>2, <3>1 DEF Right, Knows, Booking, Passed, Made
    <3>2. CASE actor'[a].pc \in {"idle", "refund", "manual"}
      BY <3>2 DEF Knows, Booking
    <3> QED BY <1>2, <3>1, <3>2 DEF After
  <2>3. \A j \in Notes : note'[j].refund = note[j].refund \/ TrueOf(j, note'[j].refund)
    BY <1>2 DEF Marks
  <2>4. Right => Right'
    BY <1>1, <1>2, <2>1, <2>2, <2>3, ActingRight
  <2>5. \A b \in Actors : Sending(b)' =>
            \/ Sending(b) /\ actor'[b].note = actor[b].note
            \/ actor'[b].note \in Notes /\ sent[actor'[b].note].state = None
    <3>1. CASE UNCHANGED actor
      BY <3>1 DEF Sending
    <3>2. After(a, "idle", None) => ~Sending(a)'
      BY DEF Sending, After
    <3>3. After(a, "refund", m) \/ After(a, "manual", m) => actor'[a].note = m
      BY DEF After
    <3> QED BY <1>2, <2>1, <3>1, <3>2, <3>3 DEF Sending
  <2>6. Untouched'
    BY <1>1, <1>2, <2>5, StillUntouched DEF Becomes
  <2> QED BY <1>1, <2>4, <2>6 DEF FollowInv
<1>3. CASE CreateRefund(a)
  <2>1. PICK m \in Notes, x \in Amounts :
            /\ Insert(m, x, "issued", IF method = "offline" THEN "manual_required" ELSE "pending", FALSE)
            /\ IF method = "offline" THEN UNCHANGED actor
               ELSE actor' = [actor EXCEPT ![a].pc = "refund", ![a].note = m]
    BY <1>3 DEF CreateRefund
  <2>2. PICK r \in {"manual_required", "pending"} : Insert(m, x, "issued", r, FALSE)
    BY <2>1
  <2>3. note[m].status = None /\ Becomes(m, "issued") /\ Marks(m, r)
    BY <1>1, <2>2, NoteInserted
  <2>4. sent[m].state = None
    BY <1>1, <2>3 DEF Untouched, None
  <2>5. UNCHANGED actor \/ After(a, "refund", m)
    BY <1>1, <2>1, Goes
  <2>6. TrueOf(m, r) /\ ~Booking(a)
    BY <1>3 DEF TrueOf, Booking, CreateRefund, At
  <2> QED BY <1>2, <2>3, <2>4, <2>5, <2>6
<1>4. CASE RequestRefund(a)
  <2>1. PICK m \in Notes, x \in Amounts : Insert(m, x, "pending_approval", None, TRUE)
    BY <1>4 DEF RequestRefund
  <2>2. note[m].status = None /\ Becomes(m, "pending_approval") /\ Marks(m, None)
    BY <1>1, <2>1, NoteInserted
  <2>3. sent[m].state = None
    BY <1>1, <2>2 DEF Untouched, None
  <2>4. UNCHANGED actor /\ TrueOf(m, None) /\ ~Booking(a)
    BY <1>4 DEF TrueOf, Booking, RequestRefund, At, None
  <2> QED BY <1>2, <2>2, <2>3, <2>4
<1>5. CASE ReadPending(a)
  <2>1. PICK m \in Notes : actor' = [actor EXCEPT ![a].pc = "approve", ![a].note = m]
    BY <1>5 DEF ReadPending
  <2>2. After(a, "approve", m)
    BY <1>1, <2>1, Goes
  <2>3. ~Booking(a) /\ UNCHANGED note
    BY <1>5 DEF ReadPending, At, Booking
  <2>4. /\ \A b \in Actors : b # a => actor'[b] = actor[b]
        /\ Knows(a)' /\ ~Sending(a)'
    BY <2>2 DEF After, Knows, Booking, Sending
  <2>5. Right => Right'
    BY <1>1, <2>3, <2>4, ActingRight
  <2>6. Untouched'
    BY <1>1, <2>3, <2>4 DEF Untouched, Sending
  <2> QED BY <1>1, <2>5, <2>6 DEF FollowInv
<1>6. CASE Approve(a) \/ Reject(a)
  <2>1. n \in Notes /\ ~Booking(a)
    BY <1>1, <1>6 DEF HeldAlone, Approve, Reject, At, Booking
  <2>2. PICK to \in {"issued", "rejected"} : UpdateStatus(n, "pending_approval", to)
    BY <1>6 DEF Approve, Reject, Mine
  <2>3. Becomes(n, IF note[n].status = "pending_approval" THEN to ELSE note[n].status)
    BY <1>1, <2>1, <2>2, StatusUpdated
  <2>4. Marks(n, note[n].refund)
    BY <1>1, <2>1, <2>2, StatusUpdated
  <2>5. note[n].status # "issued" => sent[n].state = None
    BY <1>1, <2>1 DEF Untouched
  <2>6. \/ After(a, "idle", None)
        \/ sent[n].state = None /\ (After(a, "refund", n) \/ After(a, "manual", n))
    BY <1>1, <1>6, <2>5, Goes DEF Approve, Reject, Mine
  <2>7. PICK s : s = IF note[n].status = "pending_approval" THEN to ELSE note[n].status
    OBVIOUS
  <2> QED BY <1>2, <2>1, <2>3, <2>4, <2>5, <2>6, <2>7
<1>7. CASE MarkManual(a)
  <2>1. n \in Notes /\ UpdateRefund(n, "manual_required", FALSE) /\ ~Booking(a)
    BY <1>1, <1>7 DEF HeldAlone, MarkManual, At, Mine, Booking
  <2>2. Becomes(n, note[n].status) /\ Marks(n, "manual_required") /\ TrueOf(n, "manual_required")
    BY <1>1, <2>1, NoteUpdated DEF TrueOf
  <2>3. After(a, "idle", None)
    BY <1>1, <1>7, Goes DEF MarkManual
  <2> QED BY <1>2, <2>1, <2>2, <2>3
<1>8. CASE RevertApproval(a)
  <2>1. n \in Notes /\ Sending(a) /\ ~Booking(a)
    BY <1>1, <1>8 DEF HeldAlone, RevertApproval, At, Sending, Booking
  <2>2. UpdateStatus(n, "issued", "pending_approval") /\ After(a, "idle", None)
    BY <1>1, <1>8, Goes DEF RevertApproval, Mine
  <2>3. PICK s : s = IF note[n].status = "issued" THEN "pending_approval" ELSE note[n].status
    OBVIOUS
  <2>4. Becomes(n, s) /\ Marks(n, note[n].refund)
    BY <1>1, <2>1, <2>2, <2>3, StatusUpdated
  <2>5. sent[n].state = None
    BY <1>1, <2>1 DEF Untouched
  <2> QED BY <1>2, <2>1, <2>2, <2>4, <2>5
<1> QED BY <1>3, <1>4, <1>5, <1>6, <1>7, <1>8

LEMMA Recording ==
    ASSUME OnceInv, FollowInv, NEW a \in Actors,
           \/ MarkRefundFailed(a) \/ RecordOutcome(a) \/ AllocateTax(a) \/ RecordRefund(a)
           \/ RefundPostFails(a) \/ RecordRefundTaxReversal(a) \/ ReadEvent(a)
           \/ AdvanceRefund(a) \/ Crash(a)
    PROVE  FollowInv'
<1> DEFINE n == actor[a].note
<1>1. Shape /\ HeldAlone /\ Untouched /\ faults \in Nat /\ (faults = 0 => Right)
      /\ posted = [m \in Notes |-> posted[m]]
  BY DEF OnceInv, FollowInv
<1>2. UNCHANGED <<sent, told>>
  BY DEF MarkRefundFailed, RecordOutcome, AllocateTax, RecordRefund, RefundPostFails,
         RecordRefundTaxReversal, ReadEvent, AdvanceRefund, Crash, gateway
<1>3. faults' \in Nat /\ (faults' = 0 => Right /\ ~RefundPostFails(a) /\ ~Crash(a))
  <2>1. RefundPostFails(a) \/ Crash(a) => faults' = faults + 1
    BY DEF RefundPostFails, Crash, Fault
  <2>2. faults' = faults \/ faults' = faults + 1
    BY <2>1 DEF MarkRefundFailed, RecordOutcome, AllocateTax, RecordRefund,
                RecordRefundTaxReversal, ReadEvent, AdvanceRefund
  <2> QED BY <1>1, <2>1, <2>2
\* Where a goes, and what it writes to the note.
<1>4. ASSUME NEW pc, NEW m, After(a, pc, m), pc \notin {"manual", "refund"},
             \A j \in Notes : note'[j].status = note[j].status,
             Right => \A j \in Notes : note'[j].refund = note[j].refund \/ TrueOf(j, note'[j].refund),
             posted' = [j \in Notes |-> posted'[j]],
             \A j \in Notes : posted[j] => posted'[j],
             Right => \A j \in Notes : posted'[j] => posted[j] \/ sent[j].state \in Taken,
             Right /\ ~RefundPostFails(a) /\ ~Crash(a) =>
                 /\ Knows(a)'
                 /\ Booking(a) => posted'[n] \/ (Booking(a)' /\ m = n)
      PROVE  FollowInv'
  <2>1. \A b \in Actors : b # a => actor'[b] = actor[b]
    BY <1>4 DEF After
  <2>2. ~Sending(a)' /\ actor'[a].note = m
    BY <1>4 DEF After, Sending
  <2>3. Right /\ ~RefundPostFails(a) /\ ~Crash(a) => Right'
    BY <1>2, <1>4, <2>1, <2>2, ActingRight
  <2>4. \A b \in Actors : Sending(b)' => Sending(b) /\ actor'[b].note = actor[b].note
    BY <2>1, <2>2 DEF Sending
  <2>5. Untouched'
    BY <1>1, <1>2, <1>4, <2>4, StillUntouched
  <2> QED BY <1>3, <1>4, <2>3, <2>5 DEF FollowInv
<1>5. CASE MarkRefundFailed(a)
  <2>1. UpdateRefund(n, "refund_failed", FALSE) /\ UNCHANGED posted /\ At(a, "failed")
    BY <1>5 DEF MarkRefundFailed, Mine, books
  <2>2. n \in Notes /\ After(a, "idle", None)
    BY <1>1, <1>5, <2>1, Goes DEF HeldAlone, At, MarkRefundFailed
  <2>3. Becomes(n, note[n].status) /\ Marks(n, "refund_failed")
    BY <1>1, <2>1, <2>2, NoteUpdated
  <2>4. Right => TrueOf(n, "refund_failed")
    BY <2>1 DEF Right, Knows, At, TrueOf
  <2>5. ~Booking(a) /\ Knows(a)'
    BY <2>1, <2>2 DEF Booking, At, Knows, After
  <2> QED BY <1>1, <1>4, <2>1, <2>2, <2>3, <2>4, <2>5 DEF Becomes, Marks
<1>6. CASE RecordOutcome(a)
  <2>1. UNCHANGED posted /\ At(a, "record") /\ Goto(a, "tax")
    BY <1>6 DEF RecordOutcome, books
  <2>2. PICK r : r = IF actor[a].answer = "pending" THEN "pending" ELSE "processed"
    OBVIOUS
  <2>3. UpdateRefund(n, r, TRUE)
    BY <1>6, <2>2 DEF RecordOutcome, Mine
  <2>4. n \in Notes /\ After(a, "tax", n)
    BY <1>1, <2>1, Goes DEF HeldAlone, At
  <2>5. Becomes(n, note[n].status) /\ Marks(n, r)
    BY <1>1, <2>3, <2>4, NoteUpdated
  <2>6. Right => TrueOf(n, r) /\ sent[n].state \in Taken
    BY <2>1, <2>2 DEF Right, Knows, At, TrueOf, Booking
  <2>7. Booking(a)' /\ (Right => Knows(a)')
    BY <1>2, <2>4, <2>6 DEF Booking, Knows, After
  <2> QED BY <1>1, <1>4, <2>1, <2>4, <2>5, <2>6, <2>7 DEF Becomes, Marks
<1>7. CASE AllocateTax(a)
  <2>1. UNCHANGED <<note, posted>> /\ At(a, "tax")
    BY <1>7 DEF AllocateTax, books
  <2>2. \E t : actor' = [actor EXCEPT ![a].pc = "post", ![a].tax = t]
    BY <1>7 DEF AllocateTax
  <2>3. n \in Notes /\ After(a, "post", n)
    BY <1>1, <2>1, <2>2, Goes DEF HeldAlone, At
  <2>4. Right => sent[n].state \in Taken
    BY <2>1 DEF Right, Knows, At, Booking
  <2>5. Booking(a)' /\ (Right => Knows(a)')
    BY <1>2, <2>3, <2>4 DEF Booking, Knows, After
  <2> QED BY <1>1, <1>4, <2>1, <2>3, <2>5
<1>8. CASE RecordRefund(a)
  <2>1. posted' = [posted EXCEPT ![n] = TRUE] /\ UNCHANGED note /\ At(a, "post")
    BY <1>8 DEF RecordRefund, Mine
  <2>2. n \in Notes /\ After(a, "postTax", n)
    BY <1>1, <1>8, <2>1, Goes DEF HeldAlone, At, RecordRefund
  <2>3. Right => sent[n].state \in Taken
    BY <2>1 DEF Right, Knows, At, Booking
  <2>4. Knows(a)'
    BY <2>2 DEF Booking, Knows, After
  <2>5. posted'[n] /\ \A j \in Notes : j # n => posted'[j] = posted[j]
    BY <1>1, <2>1, <2>2
  <2>6. posted' = [j \in Notes |-> posted'[j]]
    BY <1>1, <2>1
  <2>7. \A j \in Notes : posted[j] => posted'[j]
    BY <2>5
  <2>8. Right => \A j \in Notes : posted'[j] => posted[j] \/ sent[j].state \in Taken
    BY <2>3, <2>5
  <2>9. /\ \A j \in Notes : note'[j].status = note[j].status
        /\ \A j \in Notes : note'[j].refund = note[j].refund
        /\ "postTax" \notin {"manual", "refund"}
    BY <2>1
  <2> HIDE DEF n
  <2> QED BY <1>4, <2>2, <2>4, <2>5, <2>6, <2>7, <2>8, <2>9, Zenon
<1>9. CASE RefundPostFails(a)
  <2>1. UNCHANGED <<note, posted>> /\ After(a, "postTax", n)
    BY <1>1, <1>9, Goes DEF RefundPostFails, books
  <2> QED BY <1>1, <1>4, <1>9, <2>1
<1>10. CASE RecordRefundTaxReversal(a)
  <2>1. UNCHANGED <<note, posted>> /\ After(a, "idle", None) /\ At(a, "postTax")
    BY <1>1, <1>10, Goes DEF RecordRefundTaxReversal
  <2>2. ~Booking(a) /\ Knows(a)'
    BY <2>1 DEF Booking, At, Knows, After
  <2> QED BY <1>1, <1>4, <2>1, <2>2
<1>11. CASE Crash(a)
  <2>1. UNCHANGED <<note, posted>> /\ After(a, "idle", None)
    BY <1>1, <1>11, Goes DEF Crash, books
  <2> QED BY <1>1, <1>4, <1>11, <2>1
<1>12. CASE ReadEvent(a)
  <2>1. PICK e \in told : actor' = [actor EXCEPT ![a].pc = "advance", ![a].note = e.note,
                                                ![a].answer = Outcome(e)]
    BY <1>12 DEF ReadEvent
  <2>2. After(a, "advance", e.note) /\ actor'[a].answer = Outcome(e)
    <3>1. PICK m, ok : m = e.note /\ ok = Outcome(e)
      OBVIOUS
    <3>2. actor' = [actor EXCEPT ![a].pc = "advance", ![a].note = m, ![a].answer = ok]
      BY <2>1, <3>1
    <3>3. \A p, k, v : actor' = [actor EXCEPT ![a].pc = p, ![a].note = k, ![a].answer = v]
                      => After(a, p, k) /\ actor'[a].answer = v
      BY <1>1, Goes
    <3>4. After(a, "advance", m) /\ actor'[a].answer = ok
      BY <3>2, <3>3
    <3> QED BY <3>1, <3>4
  <2>3. UNCHANGED <<note, posted>> /\ ~Booking(a)
    BY <1>12 DEF ReadEvent, books, Booking, At
  <2>4. Right => Knows(a)'
    <3>1. UNCHANGED <<sent, told>> /\ e.note \in Notes
      BY <1>1, <1>12 DEF ReadEvent, gateway, Shape, Told
    <3>2. Right => Hears(e.note, e.succeeded)
      BY DEF Right, EventsTrue
    <3>3. e = [note |-> e.note, succeeded |-> e.succeeded]
      BY <1>1 DEF Shape, Told
    <3>4. e.succeeded = TRUE => Made(e.note)
      BY <3>3 DEF Made
    <3>5. e.succeeded \in BOOLEAN
      BY <1>1 DEF Shape, Told
    <3>6. actor'[a].pc = "advance" /\ actor'[a].note = e.note
      BY <2>2 DEF After
    <3>7. Outcome(e) = "succeeded" <=> e.succeeded = TRUE
      BY <3>5 DEF Outcome
    <3>8. Made(e.note)' <=> Made(e.note)
      BY <3>1 DEF Made
    <3> HIDE DEF n
    <3> QED BY <2>2, <3>1, <3>2, <3>4, <3>5, <3>6, <3>7, <3>8 DEF Knows, Booking, Hears
  <2> QED BY <1>1, <1>4, <2>2, <2>3, <2>4
<1>13. CASE AdvanceRefund(a)
  <2>1. UNCHANGED posted /\ At(a, "advance") /\ ~Booking(a)
    BY <1>13 DEF AdvanceRefund, books, At, Booking
  <2>2. PICK r : r = IF actor[a].answer = "succeeded" THEN "processed" ELSE "refund_failed"
    OBVIOUS
  <2>3. UpdateRefund(n, r, TRUE)
    BY <1>13, <2>2 DEF AdvanceRefund, Mine
  <2>4. n \in Notes /\ After(a, "idle", None)
    BY <1>1, <1>13, <2>1, Goes DEF HeldAlone, At, AdvanceRefund
  <2>5. Becomes(n, note[n].status) /\ Marks(n, r)
    BY <1>1, <2>3, <2>4, NoteUpdated
  <2>6. Right => TrueOf(n, r)
    BY <2>1, <2>2 DEF Right, Knows, At, TrueOf, Sure, Taken, Passed
  <2>7. Knows(a)'
    BY <2>4 DEF Booking, Knows, After
  <2> QED BY <1>1, <1>4, <2>1, <2>4, <2>5, <2>6, <2>7 DEF Becomes, Marks
<1> QED BY <1>5, <1>6, <1>7, <1>8, <1>9, <1>10, <1>11, <1>12, <1>13

\* What a step of the gateway changes of sent.
LEMMA StateUpdated ==
    ASSUME Shape, NEW n \in Notes
    PROVE  /\ \A s : sent' = [sent EXCEPT ![n].state = s]
                => sent'[n].state = s /\ \A m \in Notes : m # n => sent'[m].state = sent[m].state
           /\ \A s, r : sent' = [sent EXCEPT ![n] = [state |-> s, count |-> @.count + 1, answer |-> r]]
                => sent'[n].state = s /\ \A m \in Notes : m # n => sent'[m].state = sent[m].state
           /\ \A s : sent' = [sent EXCEPT ![n].state = s]
                => \A m \in Notes : sent'[m].answer = sent[m].answer
           /\ \A s, r : sent' = [sent EXCEPT ![n] = [state |-> s, count |-> @.count + 1, answer |-> r]]
                => sent'[n].answer = r /\ \A m \in Notes : m # n => sent'[m].answer = sent[m].answer
<1>1. DOMAIN sent = Notes /\ \A m \in Notes :
          sent[m] = [state |-> sent[m].state, count |-> sent[m].count, answer |-> sent[m].answer]
  BY DEF Shape, SentShape
<1>2. ASSUME NEW s, sent' = [sent EXCEPT ![n].state = s]
      PROVE  /\ sent'[n].state = s /\ \A m \in Notes : m # n => sent'[m].state = sent[m].state
             /\ \A m \in Notes : sent'[m].answer = sent[m].answer
  <2>1. sent'[n] = [sent[n] EXCEPT !.state = s] /\ \A m \in Notes : m # n => sent'[m] = sent[m]
    BY <1>1, <1>2
  <2> QED BY <1>1, <2>1
<1>3. ASSUME NEW s, NEW r, sent' = [sent EXCEPT ![n] = [state |-> s, count |-> @.count + 1, answer |-> r]]
      PROVE  /\ sent'[n].state = s /\ \A m \in Notes : m # n => sent'[m].state = sent[m].state
             /\ sent'[n].answer = r /\ \A m \in Notes : m # n => sent'[m].answer = sent[m].answer
  BY <1>1, <1>3, RowReplaced
<1> QED BY <1>2, <1>3

\* The one call for a note.
LEMMA Answered ==
    ASSUME OnceInv, FollowInv, NEW a \in Actors, GatewayDeclines(a) \/ GatewayRefunds(a)
    PROVE  FollowInv'
<1>1. /\ Shape /\ HeldAlone /\ Untouched /\ faults \in Nat /\ (faults = 0 => Right)
      /\ posted = [m \in Notes |-> posted[m]]
      /\ Sending(a) /\ ~Booking(a)
  BY DEF OnceInv, FollowInv, GatewayDeclines, GatewayRefunds, At, Sending, Booking
<1>2. PICK n \in Notes :
          n = actor[a].note /\ note[n].status = "issued" /\ sent[n].state = None
  BY <1>1 DEF HeldAlone, Sending, Untouched
<1>3. UNCHANGED <<note, posted>>
  BY DEF GatewayDeclines, GatewayRefunds, books
<1>4. ASSUME NEW s \in Taken, sent'[n].state = s,
             \A m \in Notes : m # n => sent'[m].state = sent[m].state /\ sent'[m].answer = sent[m].answer,
             NEW p \in {"failed", "record"}, After(a, p, n),
             told' = told \/ (\E made \in BOOLEAN : Tell(n, made) /\ s = IF made THEN "succeeded" ELSE "failed"),
             faults' \in Nat,
             faults' = 0 => /\ faults = 0
                            /\ p = "record"
                            /\ actor'[a].answer # "pending" => Passed(n)'
      PROVE  FollowInv'
  <2>1. \A b \in Actors : b # a => actor'[b] = actor[b]
    BY <1>4 DEF After
  <2>2. actor'[a].pc = p /\ actor'[a].note = n
    BY <1>4 DEF After
  <2>3. \A b \in Actors : Sending(b)' =>
            Sending(b) /\ actor'[b].note = actor[b].note /\ actor[b].note # n
    BY <1>1, <1>2, <2>1, <2>2 DEF Sending, HeldAlone
  <2>4. \A b \in Actors : Sending(b) => actor[b].note \in Notes
    BY <1>1 DEF HeldAlone, Sending
  <2>5. Untouched'
    BY <1>1, <1>2, <1>3, <1>4, <2>3, <2>4 DEF Untouched
  <2>6. ASSUME faults' = 0
        PROVE  Right'
    <3>1. Knows(a)' /\ (s \in Taken => Booking(a)')
      BY <1>4, <2>2, <2>6 DEF Knows, Booking
    <3>2. \A e \in told' : e \in told \/ (e.note = n /\ Hears(n, e.succeeded)')
      <4>1. CASE told' = told
        BY <4>1
      <4>2. ASSUME NEW made \in BOOLEAN, Tell(n, made), s = IF made THEN "succeeded" ELSE "failed"
            PROVE  \A e \in told' : e \in told \/ (e.note = n /\ Hears(n, e.succeeded)')
        <5>1. ASSUME NEW e \in told', e \notin told
              PROVE  e.note = n /\ e.succeeded = made
          BY <4>2, <5>1 DEF Tell
        <5>2. Hears(n, made)'
          BY <1>4, <4>2 DEF Hears, Sure
        <5> QED BY <5>1, <5>2
      <4> QED BY <1>4, <4>1, <4>2
    <3>3. \A b \in Actors : actor'[b] = actor[b] \/ Knows(b)'
      BY <2>1, <3>1
    <3>4. \A b \in Actors : Booking(b) => Booking(b)' /\ actor'[b].note = actor[b].note
      BY <1>1, <2>1 DEF Booking
    <3>5. s \in Taken => \E b \in Actors : Booking(b)' /\ actor'[b].note = n
      BY <2>2, <3>1
    <3>6. Right
      BY <1>1, <1>4, <2>6
    <3>7. told \subseteq told'
      BY <1>4 DEF Tell
    <3> QED BY <1>1, <1>2, <1>3, <1>4, <3>2, <3>3, <3>4, <3>5, <3>6, <3>7, MovingOn
  <2> QED BY <1>1, <1>3, <1>4, <2>5, <2>6 DEF FollowInv
<1>5. CASE GatewayDeclines(a)
  <2>1. sent' = [sent EXCEPT ![n].state = "declined"] /\ UNCHANGED <<told, faults>> /\ Goto(a, "failed")
    BY <1>2, <1>5 DEF GatewayDeclines, Mine
  <2>2. /\ sent'[n].state = "declined"
        /\ \A m \in Notes : m # n => sent'[m].state = sent[m].state /\ sent'[m].answer = sent[m].answer
    <3>1. sent'[n].state = "declined" /\ \A m \in Notes : m # n => sent'[m].state = sent[m].state
      BY <1>1, <1>2, <2>1, StateUpdated
    <3>2. \A m \in Notes : sent'[m].answer = sent[m].answer
      BY <1>1, <1>2, <2>1, StateUpdated
    <3> QED BY <3>1, <3>2
  <2>3. After(a, "failed", n)
    BY <1>1, <1>2, <2>1, Goes
  <2>4. actor'[a].pc = "failed"
    BY <2>3 DEF After
  <2>5. Untouched'
    <3>1. \A b \in Actors : Sending(b)' =>
              Sending(b) /\ actor'[b].note = actor[b].note /\ actor[b].note # n
      BY <1>1, <1>2, <2>3 DEF Sending, HeldAlone, After
    <3>2. \A b \in Actors : Sending(b) => actor[b].note \in Notes
      BY <1>1 DEF HeldAlone, Sending
    <3> QED BY <1>1, <1>2, <1>3, <2>2, <3>1, <3>2 DEF Untouched
  <2>6. Right => Right'
    <3>1. Knows(a)' /\ "declined" \notin Taken
      BY <2>2, <2>3 DEF Knows, Booking, Taken, After
    <3>2. \A b \in Actors : b # a => actor'[b] = actor[b]
      BY <2>3 DEF After
    <3>3. \A b \in Actors : Booking(b) => Booking(b)' /\ actor'[b].note = actor[b].note
      BY <1>1, <3>2 DEF Booking
    <3> QED BY <1>1, <1>2, <1>3, <2>1, <2>2, <3>1, <3>2, <3>3, MovingOn
  <2> QED BY <1>1, <1>3, <2>1, <2>5, <2>6 DEF FollowInv
<1>6. CASE GatewayRefunds(a)
  <2>1. PICK answer \in Answers, heard \in BOOLEAN :
            LET received == IF heard THEN answer ELSE None IN
            /\ sent' = [sent EXCEPT ![n] =
                   [state |-> IF answer = "requires_action" THEN "pending" ELSE answer,
                    count |-> @.count + 1, answer |-> received]]
            /\ IF answer \in {"succeeded", "failed"} THEN Tell(n, answer = "succeeded") ELSE UNCHANGED told
            /\ actor' = [actor EXCEPT ![a].pc = IF heard THEN "record" ELSE "failed",
                                      ![a].answer = received]
            /\ IF heard THEN UNCHANGED faults ELSE Fault
    BY <1>2, <1>6 DEF GatewayRefunds, Mine
  <2>2. PICK s : s = IF answer = "requires_action" THEN "pending" ELSE answer
    OBVIOUS
  <2>3. PICK p : p = IF heard THEN "record" ELSE "failed"
    OBVIOUS
  <2>4. PICK received : received = IF heard THEN answer ELSE None
    OBVIOUS
  <2>5. /\ sent'[n].state = s /\ sent'[n].answer = received
        /\ \A m \in Notes : m # n => sent'[m].state = sent[m].state /\ sent'[m].answer = sent[m].answer
    <3>1. sent' = [sent EXCEPT ![n] = [state |-> s, count |-> @.count + 1, answer |-> received]]
      BY <2>1, <2>2, <2>4
    <3>2. sent'[n].state = s /\ \A m \in Notes : m # n => sent'[m].state = sent[m].state
      BY <1>1, <1>2, <3>1, StateUpdated
    <3>3. sent'[n].answer = received /\ \A m \in Notes : m # n => sent'[m].answer = sent[m].answer
      BY <1>1, <1>2, <3>1, StateUpdated
    <3> QED BY <3>2, <3>3
  <2>6. After(a, p, n) /\ actor'[a].answer = received
    <3>1. \A q, v : actor' = [actor EXCEPT ![a].pc = q, ![a].answer = v]
                    => After(a, q, n) /\ actor'[a].answer = v
      BY <1>1, <1>2, Goes
    <3> QED BY <2>1, <2>3, <2>4, <3>1
  <2>7. faults' \in Nat /\ (faults' = 0 => faults = 0 /\ heard)
    BY <1>1, <2>1 DEF Fault
  <2>8. s \in Taken /\ answer \in {"succeeded", "pending", "requires_action", "failed"}
    BY <2>2 DEF Answers, Taken
  <2>9. told' = told \/ (\E made \in BOOLEAN : Tell(n, made) /\ s = IF made THEN "succeeded" ELSE "failed")
    BY <2>1, <2>2, <2>8
  <2>10. heard /\ answer # "pending" => Passed(n)'
    <3>1. CASE answer = "succeeded"
      BY <2>1, <3>1 DEF Tell, Passed, Made
    <3>2. CASE answer \in {"requires_action", "failed"} /\ heard
      BY <2>4, <2>5, <3>2 DEF Passed
    <3> QED BY <2>8, <3>1, <3>2
  <2>11. faults' = 0 => /\ faults = 0
                        /\ p = "record"
                        /\ actor'[a].answer # "pending" => Passed(n)'
    BY <2>3, <2>4, <2>6, <2>7, <2>10
  <2>12. p \in {"failed", "record"}
    BY <2>3
  <2> QED BY <1>4, <2>5, <2>6, <2>7, <2>8, <2>9, <2>11, <2>12
<1> QED BY <1>5, <1>6

LEMMA SettledRight ==
    ASSUME OnceInv, FollowInv, NEW n \in Notes, GatewaySettles(n)
    PROVE  FollowInv'
<1>1. /\ Shape /\ HeldAlone /\ Untouched /\ (faults = 0 => Right)
      /\ UNCHANGED <<note, posted, actor, faults>>
  BY DEF OnceInv, FollowInv, GatewaySettles, books
<1>2. PICK ok \in BOOLEAN :
          /\ sent[n].state \in (IF ok THEN {"pending"} ELSE {"pending", "succeeded"})
          /\ sent' = [sent EXCEPT ![n].state = IF ok THEN "succeeded" ELSE "failed"]
          /\ Tell(n, ok)
  BY DEF GatewaySettles
<1>3. PICK s : s = IF ok THEN "succeeded" ELSE "failed"
  OBVIOUS
<1>4. /\ sent'[n].state = s /\ \A m \in Notes : m # n => sent'[m].state = sent[m].state
      /\ \A m \in Notes : sent'[m].answer = sent[m].answer
  <2>1. sent' = [sent EXCEPT ![n].state = s]
    BY <1>2, <1>3
  <2>2. sent'[n].state = s /\ \A m \in Notes : m # n => sent'[m].state = sent[m].state
    BY <1>1, <2>1, StateUpdated
  <2>3. \A m \in Notes : sent'[m].answer = sent[m].answer
    BY <1>1, <2>1, StateUpdated
  <2> QED BY <2>2, <2>3
<1>5. sent[n].state # None /\ sent[n].state \in Taken
  BY <1>2 DEF None, Taken
<1>6. Untouched'
  <2>1. \A b \in Actors : Sending(b) => actor[b].note \in Notes /\ actor[b].note # n
    BY <1>1, <1>5 DEF HeldAlone, Sending, Untouched
  <2>2. \A b \in Actors : Sending(b)' => Sending(b) /\ actor'[b].note = actor[b].note
    BY <1>1 DEF Sending
  <2> QED BY <1>1, <1>4, <1>5, <2>1, <2>2 DEF Untouched
<1>7. Right => Right'
  <2>1. \A e \in told' : e \in told \/ (e.note = n /\ Hears(n, e.succeeded)')
    BY <1>2, <1>3, <1>4 DEF Tell, Hears, Sure
  <2>2. \A b \in Actors : Booking(b) => Booking(b)' /\ actor'[b].note = actor[b].note
    BY <1>1 DEF Booking
  <2>3. told \subseteq told' /\ s \in Sure /\ (sent[n].state = "pending" \/ (s = "failed" /\ sent[n].state = "succeeded"))
    BY <1>2, <1>3 DEF Tell, Sure
  <2> QED BY <1>1, <1>2, <1>3, <1>4, <1>5, <2>1, <2>2, <2>3, MovingOn
<1> QED BY <1>1, <1>6, <1>7 DEF FollowInv

LEMMA StartedRight == Init => FollowInv
<1> SUFFICES ASSUME Init PROVE FollowInv
  OBVIOUS
<1>1. /\ \A n \in Notes : note[n].refund = None /\ sent[n].state = None /\ sent[n].answer = None /\ ~posted[n]
      /\ \A a \in Actors : actor[a].pc = "idle"
      /\ told = {} /\ faults = 0 /\ posted = [n \in Notes |-> posted[n]]
  BY DEF Init, Idle
<1>2. Untouched
  BY <1>1 DEF Untouched, Sending
<1>3. Right
  BY <1>1 DEF Right, StatusTrue, TrueOf, Booked, EventsTrue, Unanswered, Knows, Booking, Taken, None
<1> QED BY <1>1, <1>2, <1>3 DEF FollowInv

LEMMA Followed == OnceInv /\ FollowInv /\ [Next]_vars => FollowInv'
<1> SUFFICES ASSUME OnceInv, FollowInv, [Next]_vars PROVE FollowInv'
  OBVIOUS
<1>1. ASSUME UNCHANGED <<note, sent, told, posted, actor, faults>>
      PROVE  FollowInv'
  BY <1>1 DEF FollowInv, Untouched, Sending, Right, StatusTrue, TrueOf, Booked, Booking,
              EventsTrue, Hears, Unanswered, Knows, Passed, Made
<1>2. CASE UNCHANGED vars
  BY <1>1, <1>2 DEF vars, gateway, books
<1>3. ASSUME NEW a \in Actors, Request(a) \/ ReadEvent(a) \/ AdvanceRefund(a) \/ Crash(a)
      PROVE  FollowInv'
  BY <1>3, Asking, Recording, Answered DEF Request
<1>4. ASSUME NEW n \in Notes, GatewaySettles(n)
      PROVE  FollowInv'
  BY <1>4, SettledRight
<1>5. ASSUME NEW a \in Actors, ACHReturned(a)
      PROVE  FollowInv'
  BY <1>1, <1>5 DEF ACHReturned, gateway, books
<1> QED BY <1>2, <1>3, <1>4, <1>5 DEF Next

----------------------------------------------------------------------------

\* For any number of actors, notes and failures, CreditNoteService sends no note's
\* refund to the gateway twice.
THEOREM EachNoteIsRefundedOnce == Spec => []RefundedOnce
<1>1. OnceInv => RefundedOnce
  BY DEF OnceInv, HeldAlone, RefundedOnce
<1> QED BY <1>1, Started, Kept, PTL DEF Spec

\* As long as nothing fails, what a note says of its refund, and whether it is booked,
\* follows what the gateway has made of it, in whatever order answers and events come,
\* but for the answers RecordOutcome takes for a refund that was made.
THEOREM NotesFollowTheGateway == Spec => []NoteFollowsGateway
<1>1. ASSUME FollowInv PROVE NoteFollowsGateway
  <2>1. ASSUME faults = 0, NEW n \in Notes
        PROVE  /\ note[n].refund = "refund_failed" => sent[n].state \in {"declined", "failed"}
               /\ note[n].refund = "processed" =>
                      Made(n) \/ sent[n].answer \in {"requires_action", "failed"}
               /\ Quiet => (posted[n] <=> sent[n].state \in {"pending", "succeeded", "failed"})
    <3>1. StatusTrue /\ Booked
      BY <1>1, <2>1 DEF FollowInv, Right
    <3>2. Quiet => \A a \in Actors : ~Booking(a)
      BY DEF Quiet, Idle, Booking
    <3> QED BY <3>1, <3>2 DEF StatusTrue, TrueOf, Booked, Passed, Taken
  <2> QED BY <2>1 DEF NoteFollowsGateway
<1> QED BY <1>1, Started, Kept, StartedRight, Followed, PTL DEF Spec

----------------------------------------------------------------------------
(* Types.  That the tax booked for a refund is within the invoice's tax    *)
(* rests on the portion growing with the amount; that the sum of the       *)
(* active refunds is a number at all, on the sums of FunctionSums.         *)

LEMMA QuotientGrows ==
    ASSUME NEW x \in Nat, NEW y \in Nat, x <= y, NEW d \in Nat \ {0}
    PROVE  x \div d \in Nat /\ y \div d \in Nat /\ x \div d <= y \div d
<1>1. \A z \in Nat : z \div d \in Nat
  OBVIOUS
<1>2. x \div d <= y \div d
  OBVIOUS
<1> QED BY <1>1, <1>2

\* RefundTaxPortion is within the tax and grows with the amount.
LEMMA PortionGrows ==
    ASSUME NEW x \in Nat, NEW y \in Nat, x <= y
    PROVE  /\ RefundTaxPortion(x) \in 0..Tax
           /\ RefundTaxPortion(x) <= RefundTaxPortion(y)
<1> DEFINE r(z) == (2 * z * Tax + Paid) \div (2 * Paid)
<1>1. Paid \in Nat \ {0} /\ Tax \in Nat /\ 2 * Paid \in Nat \ {0}
  BY RefundsAssumption
<1>2. x * Tax <= y * Tax /\ x * Tax \in Nat /\ y * Tax \in Nat
  BY <1>1
<1>3. 2 * x * Tax = 2 * (x * Tax) /\ 2 * y * Tax = 2 * (y * Tax)
  BY <1>1
<1>4. /\ 2 * x * Tax + Paid \in Nat /\ 2 * y * Tax + Paid \in Nat
      /\ 2 * x * Tax + Paid <= 2 * y * Tax + Paid
  BY <1>1, <1>2, <1>3
<1>5. r(x) \in Nat /\ r(x) <= r(y) /\ r(y) \in Nat
  BY <1>1, <1>4, QuotientGrows
<1> HIDE DEF r
<1>6. \A z : RefundTaxPortion(z) = IF z <= 0 THEN 0 ELSE IF r(z) > Tax THEN Tax ELSE r(z)
  BY DEF RefundTaxPortion, r
<1> QED BY <1>1, <1>5, <1>6

Pcs == {"idle", "approve", "manual", "refund", "failed", "record", "tax", "post", "postTax", "advance"}
RefundStates == {None, "pending", "processed", "refund_failed", "manual_required"}

NoteTyped == note \in [Notes -> Note]
ActorTyped ==
    /\ actor \in [Actors -> Actor]
    /\ \A a \in Actors : actor[a].tax \in 0..Tax
    /\ \A a \in Actors : actor[a].pc # "idle" => actor[a].note \in Notes

LEMMA ActorRetyped ==
    ASSUME ActorTyped, NEW a \in Actors
    PROVE  /\ Done(a) => ActorTyped'
           /\ \A p \in Pcs \ {"idle"} : Goto(a, p) /\ actor[a].note \in Notes => ActorTyped'
           /\ \A p \in Pcs, n \in Notes : actor' = [actor EXCEPT ![a].pc = p, ![a].note = n] => ActorTyped'
           /\ \A p \in Pcs, s \in Answers \cup {None} : actor' = [actor EXCEPT ![a].pc = p, ![a].answer = s]
                 /\ actor[a].note \in Notes => ActorTyped'
           /\ \A p \in Pcs, t \in 0..Tax : actor' = [actor EXCEPT ![a].pc = p, ![a].tax = t]
                 /\ actor[a].note \in Notes => ActorTyped'
           /\ \A p \in Pcs, n \in Notes, s \in Answers \cup {None} :
                 actor' = [actor EXCEPT ![a].pc = p, ![a].note = n, ![a].answer = s] => ActorTyped'
<1> DEFINE Record == [pc : Pcs, note : Notes \cup {None}, answer : Answers \cup {None}, tax : Int]
<1>0. 0 \in 0..Tax /\ 0..Tax \subseteq Int
  BY RefundsAssumption
<1>8. Actor = Record
  BY DEF Actor, Pcs
\* The record of a is replaced by another.
<1>9. ASSUME NEW r \in Record, r.tax \in 0..Tax, r.pc # "idle" => r.note \in Notes,
             actor' = [actor EXCEPT ![a] = r]
      PROVE  ActorTyped'
  <2> HIDE DEF Record
  <2> QED BY <1>8, <1>9 DEF ActorTyped
<1>10. actor[a] \in Record /\ actor[a].tax \in 0..Tax
  BY <1>8 DEF ActorTyped
<1>1. Done(a) => ActorTyped'
  BY <1>0 DEF ActorTyped, Actor, Done, Idle
<1>2. ASSUME NEW p \in Pcs \ {"idle"}, Goto(a, p), actor[a].note \in Notes PROVE ActorTyped'
  BY <1>2 DEF ActorTyped, Actor, Goto, Pcs
<1>3. ASSUME NEW p \in Pcs, NEW n \in Notes, actor' = [actor EXCEPT ![a].pc = p, ![a].note = n]
      PROVE  ActorTyped'
  <2>1. PICK r : r = [actor[a] EXCEPT !.pc = p, !.note = n]
    OBVIOUS
  <2>2. r \in Record /\ r.tax \in 0..Tax /\ r.note \in Notes
    BY <1>10, <2>1
  <2>3. actor' = [actor EXCEPT ![a] = r]
    BY <1>3, <2>1
  <2> QED BY <1>9, <2>2, <2>3
<1>4. ASSUME NEW p \in Pcs, NEW s \in Answers \cup {None},
             actor' = [actor EXCEPT ![a].pc = p, ![a].answer = s], actor[a].note \in Notes
      PROVE  ActorTyped'
  <2>1. PICK r : r = [actor[a] EXCEPT !.pc = p, !.answer = s]
    OBVIOUS
  <2>2. r \in Record /\ r.tax \in 0..Tax /\ r.note \in Notes
    BY <1>4, <1>10, <2>1
  <2>3. actor' = [actor EXCEPT ![a] = r]
    BY <1>4, <2>1
  <2> QED BY <1>9, <2>2, <2>3
<1>5. ASSUME NEW p \in Pcs, NEW t \in 0..Tax, actor' = [actor EXCEPT ![a].pc = p, ![a].tax = t],
             actor[a].note \in Notes
      PROVE  ActorTyped'
  <2>1. PICK r : r = [actor[a] EXCEPT !.pc = p, !.tax = t]
    OBVIOUS
  <2>2. r \in Record /\ r.tax \in 0..Tax /\ r.note \in Notes
    BY <1>0, <1>5, <1>10, <2>1
  <2>3. actor' = [actor EXCEPT ![a] = r]
    BY <1>5, <2>1
  <2> QED BY <1>9, <2>2, <2>3
<1>6. ASSUME NEW p \in Pcs, NEW n \in Notes, NEW s \in Answers \cup {None},
             actor' = [actor EXCEPT ![a].pc = p, ![a].note = n, ![a].answer = s] PROVE ActorTyped'
  <2>1. PICK r : r = [actor[a] EXCEPT !.pc = p, !.note = n, !.answer = s]
    OBVIOUS
  <2>2. r \in Record /\ r.tax \in 0..Tax /\ r.note \in Notes
    BY <1>10, <2>1
  <2>3. actor' = [actor EXCEPT ![a] = r]
    BY <1>6, <2>1
  <2> QED BY <1>9, <2>2, <2>3
<1> QED BY <1>1, <1>2, <1>3, <1>4, <1>5, <1>6

LEMMA NoteRetyped ==
    ASSUME NoteTyped, NEW n \in Notes
    PROVE  /\ \A r \in RefundStates, i \in BOOLEAN : UpdateRefund(n, r, i) => NoteTyped'
           /\ \A to \in {"pending_approval", "issued", "rejected"} : \A from : UpdateStatus(n, from, to) => NoteTyped'
           /\ \A m \in Amounts, s \in {"pending_approval", "issued"}, r \in RefundStates, k \in BOOLEAN :
                 Insert(n, m, s, r, k) => NoteTyped'
<1>1. ASSUME NEW r \in RefundStates, NEW i \in BOOLEAN, UpdateRefund(n, r, i) PROVE NoteTyped'
  <2>1. PICK x : x = [note[n] EXCEPT !.refund = r, !.refundId = i]
    OBVIOUS
  <2>2. note[n] \in Note
    BY DEF NoteTyped
  <2>3. x \in Note
    BY <2>1, <2>2 DEF Note, RefundStates
  <2>4. note' = [note EXCEPT ![n] = x]
    BY <1>1, <2>1 DEF UpdateRefund
  <2> QED BY <2>3, <2>4 DEF NoteTyped
<1>2. ASSUME NEW to \in {"pending_approval", "issued", "rejected"}, NEW from,
             UpdateStatus(n, from, to)
      PROVE  NoteTyped'
  BY <1>2 DEF NoteTyped, Note, UpdateStatus
<1>3. ASSUME NEW m \in Amounts, NEW s \in {"pending_approval", "issued"}, NEW r \in RefundStates, NEW k \in BOOLEAN,
             Insert(n, m, s, r, k) PROVE NoteTyped'
  BY <1>3, RefundsAssumption DEF NoteTyped, Note, Insert, RefundStates
<1> QED BY <1>1, <1>2, <1>3

LEMMA SumOverIs == ASSUME NEW f PROVE SumOver(f) = SumFunctionOnSet(f, DOMAIN f)
BY Zenon DEF SumOver, FoldFunction, SumFunctionOnSet

LEMMA AmountIs ==
    ASSUME NEW ns
    PROVE  AmountOf(ns) = SumFunctionOnSet([m \in Notes |-> IF m \in ns THEN note[m].amount ELSE 0], Notes)
<1> DEFINE f == [m \in Notes |-> IF m \in ns THEN note[m].amount ELSE 0]
<1>1. AmountOf(ns) = SumOver(f)
  BY Zenon DEF AmountOf
<1>2. DOMAIN f = Notes
  OBVIOUS
<1> HIDE DEF f
<1>3. SumOver(f) = SumFunctionOnSet(f, Notes)
  BY <1>2, SumOverIs
<1> QED BY <1>1, <1>3 DEF f

LEMMA AmountNat == ASSUME NoteTyped, NEW ns PROVE AmountOf(ns) \in Nat
<1> DEFINE f == [m \in Notes |-> IF m \in ns THEN note[m].amount ELSE 0]
<1>1. \A m \in Notes : f[m] \in Nat
  BY DEF NoteTyped, Note
<1>2. AmountOf(ns) = SumFunctionOnSet(f, Notes)
  BY AmountIs
<1> HIDE DEF f
<1> QED BY <1>1, <1>2, SumNat, RefundsAssumption

LEMMA SliceTyped ==
    ASSUME NEW x \in Nat, NEW y \in Nat
    PROVE  RefundTaxSlice(x, y) \in 0..Tax
<1>1. RefundTaxPortion(y) \in 0..Tax /\ RefundTaxPortion(x + y) \in 0..Tax
  BY PortionGrows
<1>2. RefundTaxPortion(y) <= RefundTaxPortion(y + x)
  BY PortionGrows
<1>3. y + x = x + y
  OBVIOUS
<1>4. Tax \in Nat
  BY RefundsAssumption
<1> HIDE DEF RefundTaxPortion
<1> QED BY <1>1, <1>2, <1>3, <1>4 DEF RefundTaxSlice

TypeInv == TypeOK /\ ActorTyped

LEMMA FaultTyped == TypeOK /\ (Fault \/ UNCHANGED faults) => faults' \in 0..MaxFaults
BY RefundsAssumption DEF TypeOK, Fault

\* What every action of an actor leaves typed.
LEMMA RequestTyped ==
    ASSUME TypeInv, NEW a \in Actors,
           Request(a) \/ ReadEvent(a) \/ AdvanceRefund(a) \/ Crash(a)
    PROVE  TypeInv'
<1> DEFINE n == Mine(a)
<1>1. TypeOK /\ ActorTyped /\ NoteTyped
  BY DEF TypeInv, TypeOK, NoteTyped
<1>2. \A p \in Pcs \ {"idle"} : At(a, p) => n \in Notes
  BY <1>1 DEF ActorTyped, At, Mine
<1>3. ASSUME UNCHANGED <<invoice, gateway, books, overlapped>>, Fault \/ UNCHANGED faults,
             NoteTyped', ActorTyped'
      PROVE  TypeInv'
  BY <1>1, <1>3, FaultTyped DEF TypeInv, TypeOK, NoteTyped, ActorTyped, invoice, gateway, books
<1>4. UNCHANGED note => NoteTyped'
  BY <1>1 DEF NoteTyped
<1>5. UNCHANGED actor => ActorTyped'
  BY <1>1 DEF ActorTyped
<1>6. CASE CreateRefund(a)
  <2>1. PICK m \in Notes, x \in Amounts :
            /\ Insert(m, x, "issued", IF method = "offline" THEN "manual_required" ELSE "pending", FALSE)
            /\ IF method = "offline" THEN UNCHANGED actor
               ELSE actor' = [actor EXCEPT ![a].pc = "refund", ![a].note = m]
    BY <1>6 DEF CreateRefund
  <2>2. NoteTyped'
    BY <1>1, <2>1, NoteRetyped DEF RefundStates
  <2>3. ActorTyped'
    BY <1>1, <1>5, <2>1, ActorRetyped DEF Pcs
  <2> QED BY <1>3, <1>6, <2>2, <2>3 DEF CreateRefund
<1>7. CASE RequestRefund(a)
  <2>1. NoteTyped'
    BY <1>1, <1>7, NoteRetyped DEF RequestRefund, RefundStates
  <2> QED BY <1>3, <1>5, <1>7, <2>1 DEF RequestRefund
<1>8. CASE ReadPending(a)
  <2>1. ActorTyped'
    BY <1>1, <1>8, ActorRetyped DEF ReadPending, Pcs
  <2> QED BY <1>3, <1>4, <1>8, <2>1 DEF ReadPending
<1>9. CASE Approve(a) \/ Reject(a)
  <2>1. n \in Notes
    BY <1>2, <1>9 DEF Approve, Reject, Pcs
  <2>2. NoteTyped'
    BY <1>1, <1>9, <2>1, NoteRetyped DEF Approve, Reject
  <2>3. ActorTyped'
    BY <1>1, <1>9, <2>1, ActorRetyped DEF Approve, Reject, Pcs, Mine
  <2> QED BY <1>3, <1>9, <2>2, <2>3 DEF Approve, Reject
<1>10. CASE MarkManual(a)
  <2>1. n \in Notes
    BY <1>2, <1>10 DEF MarkManual, Pcs
  <2>2. NoteTyped' /\ ActorTyped'
    BY <1>1, <1>10, <2>1, NoteRetyped, ActorRetyped DEF MarkManual, RefundStates
  <2> QED BY <1>3, <1>10, <2>2 DEF MarkManual
<1>11. CASE RevertApproval(a)
  <2>1. n \in Notes
    BY <1>2, <1>11 DEF RevertApproval, Pcs
  <2>2. NoteTyped' /\ ActorTyped'
    BY <1>1, <1>11, <2>1, NoteRetyped, ActorRetyped DEF RevertApproval
  <2> QED BY <1>3, <1>11, <2>2 DEF RevertApproval
<1>12. CASE GatewayDeclines(a)
  <2>1. n \in Notes
    BY <1>2, <1>12 DEF GatewayDeclines, Pcs
  <2>2. ActorTyped'
    BY <1>1, <1>12, <2>1, ActorRetyped DEF GatewayDeclines, Pcs, Mine
  <2>3. sent' \in [Notes -> Sent]
    BY <1>1, <1>12, <2>1 DEF GatewayDeclines, TypeOK, Sent
  <2> QED BY <1>1, <1>4, <1>12, <2>2, <2>3, FaultTyped
          DEF GatewayDeclines, TypeInv, TypeOK, NoteTyped, ActorTyped, invoice, books
<1>13. CASE GatewayRefunds(a)
  <2>1. n \in Notes
    BY <1>2, <1>13 DEF GatewayRefunds, Pcs
  <2>2. PICK answer \in Answers, heard, made \in BOOLEAN, received \in Answers \cup {None} :
            /\ sent' = [sent EXCEPT ![n] =
                   [state |-> IF answer = "requires_action" THEN "pending" ELSE answer,
                    count |-> @.count + 1, answer |-> received]]
            /\ Tell(n, made) \/ UNCHANGED told
            /\ actor' = [actor EXCEPT ![a].pc = IF heard THEN "record" ELSE "failed", ![a].answer = received]
            /\ IF heard THEN UNCHANGED faults ELSE Fault
    <3>1. PICK answer \in Answers, heard \in BOOLEAN :
              LET received == IF heard THEN answer ELSE None IN
              /\ sent' = [sent EXCEPT ![n] =
                     [state |-> IF answer = "requires_action" THEN "pending" ELSE answer,
                      count |-> @.count + 1, answer |-> received]]
              /\ IF answer \in {"succeeded", "failed"} THEN Tell(n, answer = "succeeded") ELSE UNCHANGED told
              /\ actor' = [actor EXCEPT ![a].pc = IF heard THEN "record" ELSE "failed",
                                        ![a].answer = received]
              /\ IF heard THEN UNCHANGED faults ELSE Fault
      BY <1>13 DEF GatewayRefunds, Mine
    <3>2. (IF heard THEN answer ELSE None) \in Answers \cup {None} /\ (answer = "succeeded") \in BOOLEAN
      OBVIOUS
    <3>3. Tell(n, answer = "succeeded") \/ UNCHANGED told
      BY <3>1
    <3> QED BY <3>1, <3>2, <3>3
  <2>3. ActorTyped'
    BY <1>1, <2>1, <2>2, ActorRetyped DEF Pcs, Mine
  <2>4. sent' \in [Notes -> Sent]
    BY <1>1, <2>1, <2>2 DEF TypeOK, Sent, Answers
  <2>5. told' \subseteq Told
    <3>1. [note |-> n, succeeded |-> made] \in Told
      BY <2>1 DEF Told
    <3> HIDE DEF n
    <3> QED BY <1>1, <2>2, <3>1 DEF TypeOK, Tell
  <2> QED BY <1>1, <1>4, <1>13, <2>2, <2>3, <2>4, <2>5, FaultTyped
          DEF GatewayRefunds, TypeInv, TypeOK, NoteTyped, ActorTyped, invoice, books
<1>14. CASE MarkRefundFailed(a)
  <2>1. n \in Notes
    BY <1>2, <1>14 DEF MarkRefundFailed, Pcs
  <2>2. NoteTyped' /\ ActorTyped'
    BY <1>1, <1>14, <2>1, NoteRetyped, ActorRetyped DEF MarkRefundFailed, RefundStates
  <2> QED BY <1>3, <1>14, <2>2 DEF MarkRefundFailed
<1>15. CASE RecordOutcome(a)
  <2>1. n \in Notes
    BY <1>2, <1>15 DEF RecordOutcome, Pcs
  <2>2. NoteTyped'
    BY <1>1, <1>15, <2>1, NoteRetyped DEF RecordOutcome, RefundStates
  <2>3. ActorTyped'
    BY <1>1, <1>15, <2>1, ActorRetyped DEF RecordOutcome, Pcs, Mine
  <2> QED BY <1>3, <1>15, <2>2, <2>3 DEF RecordOutcome
<1>16. CASE AllocateTax(a)
  <2>1. n \in Notes
    BY <1>2, <1>16 DEF AllocateTax, Pcs
  <2> DEFINE prior == AmountOf(ActiveRefunds) - note[n].amount
             t == RefundTaxSlice(note[n].amount, IF prior < 0 THEN 0 ELSE prior)
  <2>2. actor' = [actor EXCEPT ![a].pc = "post", ![a].tax = t]
    BY <1>16 DEF AllocateTax
  <2>3. note[n].amount \in Nat
    BY <1>1, <2>1 DEF NoteTyped, Note
  <2>4. AmountOf(ActiveRefunds) \in Nat
    BY <1>1, AmountNat
  <2>5. t \in 0..Tax
    <3>1. (IF prior < 0 THEN 0 ELSE prior) \in Nat
      BY <2>3, <2>4
    <3> HIDE DEF prior
    <3> QED BY <2>3, <3>1, SliceTyped
  <2> HIDE DEF t
  <2>6. ActorTyped'
    BY <1>1, <2>1, <2>2, <2>5, ActorRetyped DEF Pcs, Mine
  <2>7. overlapped' \in BOOLEAN /\ UNCHANGED <<invoice, note, gateway, books, faults>>
    BY <1>1, <1>16 DEF AllocateTax, TypeOK
  <2> QED BY <1>1, <1>4, <2>6, <2>7
          DEF TypeInv, TypeOK, NoteTyped, ActorTyped, invoice, gateway, books
<1>17. CASE RecordRefund(a)
  <2>1. n \in Notes
    BY <1>2, <1>17 DEF RecordRefund, Pcs
  <2>2. ActorTyped'
    BY <1>1, <1>17, <2>1, ActorRetyped DEF RecordRefund, Pcs, Mine
  <2>3. posted' \in [Notes -> BOOLEAN]
    BY <1>1, <1>17, <2>1 DEF RecordRefund, TypeOK
  <2> QED BY <1>1, <1>4, <1>17, <2>2, <2>3
          DEF RecordRefund, TypeInv, TypeOK, NoteTyped, ActorTyped, invoice, gateway
<1>18. CASE RefundPostFails(a)
  <2>1. n \in Notes
    BY <1>2, <1>18 DEF RefundPostFails, Pcs
  <2>2. ActorTyped'
    BY <1>1, <1>18, <2>1, ActorRetyped DEF RefundPostFails, Pcs, Mine
  <2> QED BY <1>3, <1>4, <1>18, <2>2 DEF RefundPostFails
<1>19. CASE RecordRefundTaxReversal(a)
  <2>1. n \in Notes /\ ActorTyped'
    BY <1>1, <1>2, <1>19, ActorRetyped DEF RecordRefundTaxReversal, Pcs
  <2>2. actor[a].tax \in 0..Tax
    BY <1>1 DEF ActorTyped
  <2>3. taxed' \in [Notes -> 0..Tax]
    BY <1>1, <1>19, <2>1, <2>2 DEF RecordRefundTaxReversal, TypeOK
  <2> QED BY <1>1, <1>4, <1>19, <2>1, <2>3
          DEF RecordRefundTaxReversal, TypeInv, TypeOK, NoteTyped, ActorTyped, invoice, gateway
<1>20. CASE ReadEvent(a)
  <2>1. PICK e \in told : actor' = [actor EXCEPT ![a].pc = "advance", ![a].note = e.note, ![a].answer = Outcome(e)]
    BY <1>20 DEF ReadEvent
  <2>2. e.note \in Notes /\ e.succeeded \in BOOLEAN
    BY <1>1 DEF TypeOK, Told
  <2>3. PICK k \in Notes, ok \in Answers \cup {None} : k = e.note /\ ok = Outcome(e)
    BY <2>2 DEF Outcome, Answers
  <2>4. ActorTyped'
    BY <1>1, <2>1, <2>3, ActorRetyped DEF Pcs
  <2> QED BY <1>3, <1>4, <1>20, <2>4 DEF ReadEvent
<1>21. CASE AdvanceRefund(a)
  <2>1. n \in Notes
    BY <1>2, <1>21 DEF AdvanceRefund, Pcs
  <2>2. NoteTyped' /\ ActorTyped'
    BY <1>1, <1>21, <2>1, NoteRetyped, ActorRetyped DEF AdvanceRefund, RefundStates
  <2> QED BY <1>3, <1>21, <2>2 DEF AdvanceRefund
<1>22. CASE Crash(a)
  <2>1. ActorTyped'
    BY <1>1, <1>22, ActorRetyped DEF Crash
  <2> QED BY <1>3, <1>4, <1>22, <2>1 DEF Crash
<1> QED BY <1>6, <1>7, <1>8, <1>9, <1>10, <1>11, <1>12, <1>13, <1>14, <1>15, <1>16, <1>17,
           <1>18, <1>19, <1>20, <1>21, <1>22 DEF Request

LEMMA TypeKept == TypeInv /\ [Next]_vars => TypeInv'
<1> SUFFICES ASSUME TypeInv, [Next]_vars PROVE TypeInv'
  OBVIOUS
<1>1. CASE UNCHANGED vars
  BY <1>1 DEF vars, invoice, gateway, books, TypeInv, TypeOK, ActorTyped
<1>2. ASSUME NEW n \in Notes, GatewaySettles(n)
      PROVE  TypeInv'
  <2>1. PICK ok \in BOOLEAN : sent' = [sent EXCEPT ![n].state = IF ok THEN "succeeded" ELSE "failed"] /\ Tell(n, ok)
    BY <1>2 DEF GatewaySettles
  <2>2. sent' \in [Notes -> Sent]
    BY <2>1 DEF TypeInv, TypeOK, Sent
  <2>3. told' \subseteq Told
    BY <2>1 DEF TypeInv, TypeOK, Told, Tell
  <2> QED BY <1>2, <2>2, <2>3 DEF GatewaySettles, TypeInv, TypeOK, ActorTyped, invoice, books
<1>3. ASSUME NEW a \in Actors, ACHReturned(a)
      PROVE  TypeInv'
  BY <1>3 DEF ACHReturned, TypeInv, TypeOK, ActorTyped, gateway, books
<1> QED BY <1>1, <1>2, <1>3, RequestTyped DEF Next

LEMMA TypeStarts == Init => TypeInv
<1> SUFFICES ASSUME Init PROVE TypeInv
  OBVIOUS
<1>1. 0 \in 0..Tax /\ 0 \in 0..MaxFaults
  BY RefundsAssumption
<1>2. note \in [Notes -> Note] /\ sent \in [Notes -> Sent]
  BY DEF Init, Note, Sent
<1>3. actor \in [Actors -> Actor] /\ ActorTyped
  BY <1>1 DEF Init, Idle, Actor, ActorTyped
<1> QED BY <1>1, <1>2, <1>3 DEF Init, TypeInv, TypeOK

\* Every variable keeps its type; in particular no note's share of the tax is negative or
\* more than the invoice's tax.
THEOREM RefundsTypeCorrect == Spec => []TypeOK
<1>1. TypeInv => TypeOK
  BY DEF TypeInv
<1> QED BY <1>1, TypeStarts, TypeKept, PTL DEF Spec

----------------------------------------------------------------------------
(* Refunds within what was paid.  The notes issued without an approval     *)
(* that are refunded, or may yet be, are all active as long as nothing     *)
(* fails, so the insert of a new one sees them all.                        *)

Unrefunded == {None, "pending", "succeeded"}
Live == {n \in Notes : ~note[n].maker /\ note[n].status # None /\ sent[n].state \in Unrefunded}
Direct == \A n \in Notes : note[n].status # None /\ ~note[n].maker => note[n].refund # None
PaidInv == Direct /\ (faults = 0 => AmountOf(Live) <= Paid)

\* What a step that inserts no note leaves of the notes.
Frozen ==
    /\ \A m \in Notes : note'[m].amount = note[m].amount /\ note'[m].maker = note[m].maker
    /\ \A m \in Notes : note'[m].status # None => note[m].status # None
    /\ \A m \in Notes : note'[m].refund # None \/ note'[m].refund = note[m].refund

LEMMA Freezing ==
    ASSUME NoteTyped
    PROVE  /\ UNCHANGED note => Frozen
           /\ \A n \in Notes, r \in RefundStates \ {None}, i \in BOOLEAN : UpdateRefund(n, r, i) => Frozen
           /\ \A n \in Notes : \A to : \A from \in {"pending_approval", "issued"} : UpdateStatus(n, from, to) => Frozen
<1>1. ASSUME NEW n \in Notes, NEW r \in RefundStates \ {None}, NEW i \in BOOLEAN,
             UpdateRefund(n, r, i)
      PROVE  Frozen
  BY <1>1 DEF NoteTyped, Note, UpdateRefund, Frozen
<1>2. ASSUME NEW n \in Notes, NEW to, NEW from \in {"pending_approval", "issued"},
             UpdateStatus(n, from, to)
      PROVE  Frozen
  BY <1>2 DEF NoteTyped, Note, UpdateStatus, Frozen, None
<1> QED BY <1>1, <1>2 DEF Frozen

LEMMA AmountGrows ==
    ASSUME NoteTyped, NEW ns, NEW ms, \A m \in Notes : m \in ns => m \in ms
    PROVE  AmountOf(ns) <= AmountOf(ms)
<1> DEFINE f == [m \in Notes |-> IF m \in ns THEN note[m].amount ELSE 0]
           g == [m \in Notes |-> IF m \in ms THEN note[m].amount ELSE 0]
<1>1. \A m \in Notes : f[m] \in Int /\ g[m] \in Int /\ f[m] <= g[m]
  BY DEF NoteTyped, Note
<1>2. AmountOf(ns) = SumFunctionOnSet(f, Notes) /\ AmountOf(ms) = SumFunctionOnSet(g, Notes)
  BY AmountIs
<1> HIDE DEF f, g
<1> QED BY <1>1, <1>2, SumAtMost, RefundsAssumption

\* Amounts that stay sum up to the same.
LEMMA AmountStays ==
    ASSUME \A m \in Notes : note'[m].amount = note[m].amount, NEW ns
    PROVE  AmountOf(ns)' = AmountOf(ns)
<1> DEFINE f == [m \in Notes |-> IF m \in ns THEN note[m].amount ELSE 0]
<1>1. f' = f
  OBVIOUS
<1>2. AmountOf(ns) = SumOver(f)
  BY Zenon DEF AmountOf
<1>3. AmountOf(ns)' = SumOver(f')
  BY Zenon DEF AmountOf
<1> HIDE DEF f
<1> QED BY <1>1, <1>2, <1>3

LEMMA LiveShrinks ==
    ASSUME TypeInv, NoteTyped', PaidInv, Frozen, faults \in Nat, faults' = 0 => faults = 0,
           \A m \in Notes : sent'[m].state \in Unrefunded => sent[m].state \in Unrefunded
    PROVE  PaidInv'
<1>1. NoteTyped
  BY DEF TypeInv, TypeOK, NoteTyped
<1>2. Direct'
  BY DEF PaidInv, Direct, Frozen
<1>3. PICK live : live = Live'
  OBVIOUS
<1>4. AmountOf(Live)' = AmountOf(live)'
  BY <1>3 DEF AmountOf
<1>5. AmountOf(live)' = AmountOf(live)
  BY AmountStays DEF Frozen
<1>6. \A m \in Notes : m \in live => m \in Live
  BY <1>3 DEF Live, Frozen
<1>7. AmountOf(live) <= AmountOf(Live)
  BY <1>1, <1>6, AmountGrows
<1>8. AmountOf(live) \in Nat /\ AmountOf(Live) \in Nat /\ Paid \in Nat
  BY <1>1, AmountNat, RefundsAssumption
<1>9. AmountOf(Live)' \in Nat /\ AmountOf(Live)' <= AmountOf(Live)
  BY <1>4, <1>5, <1>7, <1>8
<1>10. faults' = 0 => AmountOf(Live)' <= Paid
  BY <1>8, <1>9 DEF PaidInv
<1> QED BY <1>2, <1>10 DEF PaidInv

\* The insert of a note that is issued at once: it counts every live note.
LEMMA InsertWithin ==
    ASSUME TypeInv, NoteTyped', PaidInv, UNCHANGED <<sent, faults>>, faults = 0 => StatusTrue,
           NEW n \in Notes, NEW x \in Amounts, NEW s, NEW r \in RefundStates \ {None},
           Insert(n, x, s, r, FALSE)
    PROVE  PaidInv'
<1>1. NoteTyped /\ x \in Nat /\ Paid \in Nat \ {0}
  BY RefundsAssumption DEF TypeInv, TypeOK, NoteTyped
<1>2. /\ note'[n].amount = x /\ note'[n].refund = r
      /\ \A m \in Notes : m # n => note'[m] = note[m]
  BY <1>1 DEF Insert, NoteTyped
<1>3. Direct'
  BY <1>2 DEF PaidInv, Direct
<1>4. ASSUME faults = 0
      PROVE  AmountOf(Live)' <= Paid
  <2>1. \A m \in Notes : m # n /\ m \in Live' => m \in ActiveRefunds
    <3>1. \A m \in Notes : note[m].refund \in RefundStates
      BY <1>1 DEF NoteTyped, Note, RefundStates
    <3> QED BY <1>2, <1>4, <3>1
            DEF Live, ActiveRefunds, PaidInv, Direct, StatusTrue, TrueOf, Unrefunded, RefundStates, None
  <2> DEFINE active == [m \in Notes |-> IF m \in ActiveRefunds THEN note[m].amount ELSE 0]
             f == [m \in Notes |-> IF m \in Live' THEN note'[m].amount ELSE 0]
             g == [m \in Notes |-> IF m = n THEN x ELSE active[m]]
  <2>2. AmountOf(Live)' = SumFunctionOnSet(f, Notes)
    <3>1. PICK live : live = Live'
      OBVIOUS
    <3>2. AmountOf(Live)' = AmountOf(live)'
      BY <3>1 DEF AmountOf
    <3>3. AmountOf(live)' = SumFunctionOnSet([m \in Notes |-> IF m \in live THEN note'[m].amount ELSE 0], Notes)
      <4> DEFINE h == [m \in Notes |-> IF m \in live THEN note'[m].amount ELSE 0]
      <4>1. AmountOf(live)' = SumOver(h)
        BY Zenon DEF AmountOf
      <4>2. DOMAIN h = Notes
        OBVIOUS
      <4> HIDE DEF h
      <4>3. SumOver(h) = SumFunctionOnSet(h, Notes)
        BY <4>2, SumOverIs
      <4> QED BY <4>1, <4>3 DEF h
    <3> QED BY <3>1, <3>2, <3>3
  <2>3. AmountOf(ActiveRefunds) = SumFunctionOnSet(active, Notes)
    BY AmountIs
  <2>4. \A m \in Notes : active[m] \in Nat /\ note[m].amount \in Nat
    BY <1>1 DEF NoteTyped, Note
  <2>5. \A m \in Notes : f[m] \in Int /\ g[m] \in Int /\ f[m] <= g[m]
    <3>1. \A m \in Notes : f[m] = IF m \in Live' THEN note'[m].amount ELSE 0
      OBVIOUS
    <3>2. \A m \in Notes : g[m] = IF m = n THEN x ELSE active[m]
      OBVIOUS
    <3>3. \A m \in Notes : m \in ActiveRefunds => active[m] = note[m].amount
      OBVIOUS
    <3> HIDE DEF f, g, active
    <3> QED BY <1>1, <1>2, <2>1, <2>4, <3>1, <3>2, <3>3
  <2>6. \A m \in Notes : active[m] \in Int /\ g[m] \in Int /\ (m # n => g[m] = active[m])
    BY <2>4, <2>5
  <2>7. g[n] = x
    OBVIOUS
  <2> HIDE DEF f, g, active
  <2>8. SumFunctionOnSet(f, Notes) <= SumFunctionOnSet(g, Notes)
    BY <2>5, SumAtMost, RefundsAssumption
  <2>9. SumFunctionOnSet(g, Notes) = SumFunctionOnSet(active, Notes) - active[n] + g[n]
    BY <2>6, SumReplace, RefundsAssumption
  <2>10. AmountOf(ActiveRefunds) + x <= Paid
    <3>1. AmountOf(ActiveRefunds) + x <= (IF reopened THEN 0 ELSE Paid)
      BY Zenon DEF Insert
    <3>2. AmountOf(ActiveRefunds) \in Nat
      BY <1>1, AmountNat
    <3> QED BY <1>1, <3>1, <3>2
  <2>11. /\ SumFunctionOnSet(f, Notes) \in Int /\ SumFunctionOnSet(g, Notes) \in Int
         /\ SumFunctionOnSet(active, Notes) \in Int
    BY <2>5, <2>6, SumInt, RefundsAssumption
  <2> QED BY <1>1, <2>2, <2>3, <2>4, <2>7, <2>8, <2>9, <2>10, <2>11
<1> QED BY <1>3, <1>4 DEF PaidInv

\* An insert that waits for an approval.
LEMMA RequestWithin ==
    ASSUME TypeInv, NoteTyped', PaidInv, UNCHANGED <<sent, faults>>,
           NEW n \in Notes, NEW x, NEW s, NEW r, Insert(n, x, s, r, TRUE)
    PROVE  PaidInv'
<1>1. NoteTyped /\ Paid \in Nat
  BY RefundsAssumption DEF TypeInv, TypeOK, NoteTyped
<1>2. note'[n].maker = TRUE /\ note[n].status = None /\ \A m \in Notes : m # n => note'[m] = note[m]
  BY <1>1 DEF Insert, NoteTyped
<1>3. Direct'
  BY <1>2 DEF PaidInv, Direct
<1>4. Live' = Live
  BY <1>2 DEF Live
<1> DEFINE f == [m \in Notes |-> IF m \in Live THEN note[m].amount ELSE 0]
<1>5. f' = f
  BY <1>2, <1>4 DEF Live
<1>6. AmountOf(Live) = SumOver(f) /\ AmountOf(Live)' = SumOver(f')
  BY Zenon DEF AmountOf
<1>7. AmountOf(Live)' = AmountOf(Live)
  <2> HIDE DEF f
  <2> QED BY <1>5, <1>6
<1> QED BY <1>3, <1>7 DEF PaidInv

LEMMA PaidStarts == Init => PaidInv
<1> SUFFICES ASSUME Init PROVE PaidInv
  OBVIOUS
<1>1. Live = {}
  BY DEF Init, Live
<1> DEFINE f == [m \in Notes |-> IF m \in {} THEN note[m].amount ELSE 0]
<1>2. \A m \in Notes : f[m] = 0
  OBVIOUS
<1>3. AmountOf({}) = SumFunctionOnSet(f, Notes)
  BY AmountIs
<1> HIDE DEF f
<1>4. AmountOf({}) = 0
  BY <1>2, <1>3, SumZero, RefundsAssumption
<1>5. AmountOf(Live) <= Paid
  BY <1>1, <1>4, RefundsAssumption
<1>6. Direct
  BY DEF Init, Direct
<1> QED BY <1>5, <1>6 DEF PaidInv

LEMMA PaidKept == TypeInv /\ TypeInv' /\ OnceInv /\ FollowInv /\ PaidInv /\ [Next]_vars => PaidInv'
<1> SUFFICES ASSUME TypeInv, TypeInv', OnceInv, FollowInv, PaidInv, [Next]_vars PROVE PaidInv'
  OBVIOUS
<1>1. /\ NoteTyped /\ NoteTyped' /\ ActorTyped /\ HeldAlone /\ Untouched /\ faults \in Nat
      /\ sent \in [Notes -> Sent]
  BY RefundsAssumption DEF TypeInv, TypeOK, NoteTyped, OnceInv, FollowInv
<1>2. faults = 0 => StatusTrue
  BY DEF FollowInv, Right
<1>3. Fault \/ UNCHANGED faults => (faults' = 0 => faults = 0)
  BY <1>1 DEF Fault
<1>4. ASSUME Frozen, Fault \/ UNCHANGED faults, UNCHANGED sent
      PROVE  PaidInv'
  BY <1>1, <1>3, <1>4, LiveShrinks
<1>5. ASSUME Fault \/ UNCHANGED faults, UNCHANGED note, NEW n \in Notes, NEW s,
             sent[n].state \in Unrefunded \/ s \notin Unrefunded,
             sent'[n].state = s, \A m \in Notes : m # n => sent'[m].state = sent[m].state
      PROVE  PaidInv'
  <2>1. Frozen
    BY <1>1, <1>5, Freezing
  <2>2. \A m \in Notes : sent'[m].state \in Unrefunded => sent[m].state \in Unrefunded
    BY <1>5
  <2> QED BY <1>1, <1>3, <1>5, <2>1, <2>2, LiveShrinks
<1>6. ASSUME NEW a \in Actors, actor[a].pc # "idle"
      PROVE  Mine(a) \in Notes
  BY <1>1, <1>6 DEF ActorTyped, Mine
<1>7. CASE UNCHANGED vars
  BY <1>1, <1>4, <1>7, Freezing DEF vars, gateway
<1>8. ASSUME NEW a \in Actors, CreateRefund(a)
      PROVE  PaidInv'
  <2>1. PICK n \in Notes, x \in Amounts :
            Insert(n, x, "issued", IF method = "offline" THEN "manual_required" ELSE "pending", FALSE)
    BY <1>8 DEF CreateRefund
  <2>2. (IF method = "offline" THEN "manual_required" ELSE "pending") \in RefundStates \ {None}
    BY DEF RefundStates, None
  <2>3. UNCHANGED <<sent, faults>>
    BY <1>8 DEF CreateRefund, gateway
  <2> QED BY <1>1, <1>2, <2>1, <2>2, <2>3, InsertWithin
<1>9. ASSUME NEW a \in Actors, RequestRefund(a)
      PROVE  PaidInv'
  <2>1. UNCHANGED <<sent, faults>>
    BY <1>9 DEF RequestRefund, gateway
  <2> QED BY <1>1, <1>9, <2>1, RequestWithin DEF RequestRefund
<1>10. ASSUME NEW a \in Actors,
              \/ ReadPending(a) \/ AllocateTax(a) \/ RecordRefund(a) \/ RefundPostFails(a)
              \/ RecordRefundTaxReversal(a) \/ ReadEvent(a) \/ ACHReturned(a) \/ Crash(a)
       PROVE  PaidInv'
  <2>1. UNCHANGED <<note, sent>> /\ (Fault \/ UNCHANGED faults)
    BY <1>10 DEF ReadPending, AllocateTax, RecordRefund, RefundPostFails, RecordRefundTaxReversal,
                 ReadEvent, ACHReturned, Crash, gateway
  <2> QED BY <1>1, <1>4, <2>1, Freezing
<1>11. ASSUME NEW a \in Actors, Approve(a) \/ Reject(a) \/ RevertApproval(a)
       PROVE  PaidInv'
  <2>1. Mine(a) \in Notes
    BY <1>6, <1>11 DEF Approve, Reject, RevertApproval, At
  <2>2. \E to : \E from \in {"pending_approval", "issued"} : UpdateStatus(Mine(a), from, to)
    BY <1>11 DEF Approve, Reject, RevertApproval
  <2>3. UNCHANGED sent /\ (Fault \/ UNCHANGED faults)
    BY <1>11 DEF Approve, Reject, RevertApproval, gateway
  <2> QED BY <1>1, <1>4, <2>1, <2>2, <2>3, Freezing
<1>12. ASSUME NEW a \in Actors,
              MarkManual(a) \/ MarkRefundFailed(a) \/ RecordOutcome(a) \/ AdvanceRefund(a)
       PROVE  PaidInv'
  <2>1. Mine(a) \in Notes
    BY <1>6, <1>12 DEF MarkManual, MarkRefundFailed, RecordOutcome, AdvanceRefund, At
  <2>2. \E r \in RefundStates \ {None}, i \in BOOLEAN : UpdateRefund(Mine(a), r, i)
    <3>1. {"processed", "pending", "refund_failed", "manual_required"} \subseteq RefundStates \ {None}
      BY DEF RefundStates, None
    <3> QED BY <1>12, <3>1 DEF MarkManual, MarkRefundFailed, RecordOutcome, AdvanceRefund
  <2>3. UNCHANGED <<sent, faults>>
    BY <1>12 DEF MarkManual, MarkRefundFailed, RecordOutcome, AdvanceRefund, gateway
  <2> QED BY <1>1, <1>4, <2>1, <2>2, <2>3, Freezing
<1>13. ASSUME NEW a \in Actors, GatewayDeclines(a) \/ GatewayRefunds(a)
       PROVE  PaidInv'
  <2>1. Mine(a) \in Notes /\ Sending(a)
    BY <1>6, <1>13 DEF GatewayDeclines, GatewayRefunds, At, Sending
  <2>2. sent[Mine(a)].state \in Unrefunded
    BY <1>1, <2>1 DEF Untouched, Mine, Unrefunded
  <2>3. UNCHANGED note /\ (Fault \/ UNCHANGED faults)
    BY <1>13 DEF GatewayDeclines, GatewayRefunds
  <2>4. \E s : /\ sent'[Mine(a)].state = s
               /\ \A m \in Notes : m # Mine(a) => sent'[m].state = sent[m].state
    BY <1>1, <1>13, <2>1 DEF GatewayDeclines, GatewayRefunds, Sent
  <2> QED BY <1>5, <2>1, <2>2, <2>3, <2>4
<1>14. ASSUME NEW n \in Notes, GatewaySettles(n)
       PROVE  PaidInv'
  <2>1. sent[n].state \in Unrefunded /\ UNCHANGED <<note, faults>>
    BY <1>14 DEF GatewaySettles, Unrefunded
  <2>2. \E s : sent' = [sent EXCEPT ![n].state = s]
    BY <1>14 DEF GatewaySettles
  <2>3. \E s : /\ sent'[n].state = s
               /\ \A m \in Notes : m # n => sent'[m].state = sent[m].state
    BY <1>1, <2>2 DEF Sent
  <2> QED BY <1>5, <2>1, <2>3
<1> QED BY <1>7, <1>8, <1>9, <1>10, <1>11, <1>12, <1>13, <1>14 DEF Next, Request

\* As long as nothing fails, CreateRefundWithinLimit keeps the refunds issued without an
\* approval within what was paid, for any number of requests and notes.
THEOREM RefundsStayWithinPaid == Spec => []RefundsWithinPaid
<1>1. ASSUME TypeInv, FollowInv, PaidInv PROVE RefundsWithinPaid
  <2> DEFINE taken == {n \in Notes : ~note[n].maker /\ sent[n].state \in {"pending", "succeeded"}}
  <2>1. NoteTyped /\ Paid \in Nat
    BY <1>1, RefundsAssumption DEF TypeInv, TypeOK, NoteTyped
  <2>2. \A n \in Notes : n \in taken => n \in Live
    BY <1>1 DEF Live, Unrefunded, FollowInv, Untouched, None
  <2> HIDE DEF taken
  <2>3. AmountOf(taken) <= AmountOf(Live)
    BY <2>1, <2>2, AmountGrows
  <2>4. AmountOf(taken) \in Nat /\ AmountOf(Live) \in Nat
    BY <2>1, AmountNat
  <2>5. faults = 0 => AmountOf(taken) <= Paid
    BY <1>1, <2>1, <2>3, <2>4 DEF PaidInv
  <2> QED BY <2>5 DEF RefundsWithinPaid, taken
<1> QED BY <1>1, TypeStarts, TypeKept, Started, Kept, StartedRight, Followed, PaidStarts, PaidKept, PTL
        DEF Spec

----------------------------------------------------------------------------
(* The tax.  A refund nobody else's overlaps allocates its slice when the  *)
(* active refunds are exactly the settled ones and itself; the slices      *)
(* booked are then the tax of what the settled notes sum up to.            *)

TakenNow == {"pending", "succeeded"}
\* Where an actor is only on the way to the gateway or back.
Online == {"refund", "failed", "record", "tax", "post", "postTax"}
Booker(a) == actor[a].pc \in {"record", "tax", "post", "postTax"}
Posting(a) == actor[a].pc \in {"post", "postTax"}
\* What TaxAddsUp is about: nothing failed, overlapped or came back.
Calm == faults = 0 /\ ~overlapped /\ \A n \in Notes : sent[n].state # "failed"
Settled == {n \in Notes : sent[n].state \in TakenNow /\ \A a \in Actors : Booker(a) => actor[a].note # n}

OfflineInv ==
    /\ \A a \in Actors : actor[a].pc = "manual" => method = "offline"
    /\ \A a \in Actors : actor[a].pc \in Online => method # "offline"
    /\ \A n \in Notes : note[n].refund = "manual_required" => method = "offline"

\* A refund marked pending that the gateway has not taken is still being asked for, and
\* one it has taken that is not marked is about to be.
Asked == \A n \in Notes : note[n].refund = "pending" /\ sent[n].state \notin TakenNow =>
             \E a \in Actors : actor[a].pc \in {"refund", "failed"} /\ actor[a].note = n
Recorded == \A n \in Notes : sent[n].state \in TakenNow /\ note[n].refund \notin {"pending", "processed"} =>
             \E a \in Actors : actor[a].pc = "record" /\ actor[a].note = n
Bookers ==
    /\ \A a, b \in Actors : Booker(a) /\ Booker(b) /\ actor[a].note = actor[b].note => a = b
    /\ \A a \in Actors : Booker(a) => sent[actor[a].note].state \in TakenNow
    /\ \A a, b \in Actors : Posting(a) /\ Posting(b) => a = b

Taxes ==
    /\ \A n \in Notes : n \notin Settled => taxed[n] = 0
    /\ SumOver(taxed) = RefundTaxPortion(AmountOf(Settled))
    /\ \A a \in Actors : Posting(a) =>
           SumOver(taxed) + actor[a].tax = RefundTaxPortion(AmountOf(Settled \cup {actor[a].note}))


----------------------------------------------------------------------------

\* Where actor a stands and what note n says decide.
LEMMA OfflineStep ==
    ASSUME OfflineInv, UNCHANGED method, NEW a \in Actors,
           \A b \in Actors : b # a => actor'[b] = actor[b],
           actor'[a] = actor[a] \/ (actor'[a].pc = "manual" => method = "offline"),
           actor'[a] = actor[a] \/ (actor'[a].pc \in Online => method # "offline"),
           \A m \in Notes : note'[m].refund = note[m].refund
                            \/ (note'[m].refund = "manual_required" => method = "offline")
    PROVE  OfflineInv'
<1>1. \A b \in Actors : actor'[b].pc = "manual" => method = "offline"
  BY DEF OfflineInv
<1>2. \A b \in Actors : actor'[b].pc \in Online => method # "offline"
  BY DEF OfflineInv
<1>3. \A m \in Notes : note'[m].refund = "manual_required" => method = "offline"
  BY DEF OfflineInv
<1> QED BY <1>1, <1>2, <1>3 DEF OfflineInv

LEMMA OfflineKept == OnceInv /\ OfflineInv /\ [Next]_vars => OfflineInv'
<1> SUFFICES ASSUME OnceInv, OfflineInv, [Next]_vars PROVE OfflineInv'
  OBVIOUS
<1>1. Shape /\ HeldAlone
  BY DEF OnceInv
<1>2. CASE UNCHANGED <<note, actor, method>>
  BY <1>2 DEF OfflineInv
<1>3. ASSUME NEW a \in Actors, NEW p, NEW n, After(a, p, n), UNCHANGED method,
             p = "manual" => method = "offline", p \in Online => method # "offline",
             \A m \in Notes : note'[m].refund = note[m].refund
                            \/ (note'[m].refund = "manual_required" => method = "offline")
      PROVE  OfflineInv'
  BY <1>3, OfflineStep DEF After
<1>4. ASSUME NEW a \in Actors, CreateRefund(a)
      PROVE  OfflineInv'
  <2>1. PICK n \in Notes, x \in Amounts :
            /\ Insert(n, x, "issued", IF method = "offline" THEN "manual_required" ELSE "pending", FALSE)
            /\ IF method = "offline" THEN UNCHANGED actor
               ELSE actor' = [actor EXCEPT ![a].pc = "refund", ![a].note = n]
    BY <1>4 DEF CreateRefund
  <2>2. PICK r : r = IF method = "offline" THEN "manual_required" ELSE "pending"
    OBVIOUS
  <2>3. Marks(n, r) /\ UNCHANGED method
    BY <1>1, <1>4, <2>1, <2>2, NoteInserted DEF CreateRefund, invoice
  <2>4. CASE method = "offline"
    BY <2>1, <2>3, <2>4, OfflineStep DEF Marks
  <2>5. CASE method # "offline"
    <3>1. After(a, "refund", n)
      BY <1>1, <2>1, <2>5, Goes
    <3> QED BY <1>3, <2>2, <2>3, <2>5, <3>1 DEF Marks
  <2> QED BY <2>4, <2>5
<1>5. ASSUME NEW a \in Actors, RequestRefund(a)
      PROVE  OfflineInv'
  <2>1. PICK n \in Notes, x \in Amounts : Insert(n, x, "pending_approval", None, TRUE)
    BY <1>5 DEF RequestRefund
  <2>2. Marks(n, None) /\ UNCHANGED <<method, actor>>
    BY <1>1, <1>5, <2>1, NoteInserted DEF RequestRefund, invoice
  <2> QED BY <2>2, OfflineStep DEF Marks, None
<1>6. ASSUME NEW a \in Actors, Approve(a) \/ Reject(a) \/ RevertApproval(a)
      PROVE  OfflineInv'
  <2>1. Mine(a) \in Notes
    BY <1>1, <1>6 DEF Approve, Reject, RevertApproval, At, HeldAlone, Mine
  <2>2. Marks(Mine(a), note[Mine(a)].refund) /\ UNCHANGED method
    BY <1>1, <1>6, <2>1, StatusUpdated DEF Approve, Reject, RevertApproval, invoice
  <2>3. \/ After(a, "idle", None)
        \/ method = "offline" /\ After(a, "manual", Mine(a))
        \/ method # "offline" /\ After(a, "refund", Mine(a))
    BY <1>1, <1>6, Goes DEF Approve, Reject, RevertApproval, Mine
  <2>4. \A m \in Notes : note'[m].refund = note[m].refund
    BY <2>2 DEF Marks
  <2> QED BY <1>3, <2>2, <2>3, <2>4 DEF Online
<1>7. ASSUME NEW a \in Actors,
             \/ ReadPending(a) \/ ReadEvent(a) \/ Crash(a) \/ RecordRefundTaxReversal(a)
      PROVE  OfflineInv'
  <2>1. \E p \in {"approve", "advance", "idle"} : \E n : After(a, p, n)
    <3>1. CASE ReadEvent(a)
      <4>1. PICK e \in told : actor' = [actor EXCEPT ![a].pc = "advance", ![a].note = e.note, ![a].answer = Outcome(e)]
        BY <3>1 DEF ReadEvent
      <4>2. PICK n, ok : n = e.note /\ ok = Outcome(e)
        OBVIOUS
      <4>3. actor' = [actor EXCEPT ![a].pc = "advance", ![a].note = n, ![a].answer = ok]
        BY <4>1, <4>2
      <4>4. After(a, "advance", n)
        BY <1>1, <4>3, Goes
      <4> QED BY <4>4
    <3>2. CASE ReadPending(a)
      <4>1. PICK n \in Notes : actor' = [actor EXCEPT ![a].pc = "approve", ![a].note = n]
        BY <3>2 DEF ReadPending
      <4>2. After(a, "approve", n)
        BY <1>1, <4>1, Goes
      <4> QED BY <4>2
    <3> QED BY <1>1, <1>7, <3>1, <3>2, Goes DEF Crash, RecordRefundTaxReversal
  <2>2. UNCHANGED <<note, method>>
    BY <1>7 DEF ReadPending, ReadEvent, Crash, RecordRefundTaxReversal, invoice
  <2> QED BY <1>3, <2>1, <2>2 DEF Online
<1>8. ASSUME NEW a \in Actors, MarkManual(a) \/ MarkRefundFailed(a) \/ AdvanceRefund(a)
      PROVE  OfflineInv'
  <2>1. Mine(a) \in Notes
    BY <1>1, <1>8 DEF MarkManual, MarkRefundFailed, AdvanceRefund, At, HeldAlone, Mine
  <2>2. PICK r : /\ r = "manual_required" => method = "offline"
                 /\ \E i : UpdateRefund(Mine(a), r, i)
    <3>1. CASE MarkManual(a)
      BY <3>1 DEF MarkManual, OfflineInv, At
    <3>2. CASE MarkRefundFailed(a)
      BY <3>2, "refund_failed" # "manual_required" DEF MarkRefundFailed
    <3>3. CASE AdvanceRefund(a)
      <4>1. PICK r \in {"processed", "refund_failed"} : UpdateRefund(Mine(a), r, TRUE)
        BY <3>3 DEF AdvanceRefund
      <4> QED BY <4>1
    <3> QED BY <1>8, <3>1, <3>2, <3>3
  <2>3. Marks(Mine(a), r)
    BY <1>1, <2>1, <2>2, NoteUpdated
  <2>4. After(a, "idle", None) /\ UNCHANGED method
    BY <1>1, <1>8, Goes DEF MarkManual, MarkRefundFailed, AdvanceRefund, invoice
  <2> QED BY <1>3, <2>2, <2>3, <2>4 DEF Marks, Online
<1>9. ASSUME NEW a \in Actors,
             \/ GatewayDeclines(a) \/ GatewayRefunds(a) \/ RecordOutcome(a) \/ AllocateTax(a)
             \/ RecordRefund(a) \/ RefundPostFails(a)
      PROVE  OfflineInv'
  <2>1. actor[a].pc \in Online /\ actor[a].pc # "idle" /\ UNCHANGED method
    BY <1>9
    DEF GatewayDeclines, GatewayRefunds, RecordOutcome, AllocateTax, RecordRefund, RefundPostFails,
                At, Online, invoice
  <2>2. \E p, n : After(a, p, n) /\ p # "manual"
    <3>1. CASE AllocateTax(a)
      <4>1. \E t : actor' = [actor EXCEPT ![a].pc = "post", ![a].tax = t]
        BY <3>1 DEF AllocateTax
      <4>2. After(a, "post", actor[a].note)
        BY <1>1, <4>1, Goes
      <4> QED BY <4>2
    <3>2. CASE GatewayRefunds(a)
      <4>1. PICK p \in {"record", "failed"}, ok \in Answers \cup {None} :
                   actor' = [actor EXCEPT ![a].pc = p, ![a].answer = ok]
        BY <3>2 DEF GatewayRefunds
      <4>2. After(a, p, actor[a].note)
        BY <1>1, <4>1, Goes
      <4> QED BY <4>2
    <3>3. CASE GatewayDeclines(a) \/ RecordOutcome(a) \/ RecordRefund(a) \/ RefundPostFails(a)
      <4>1. PICK p \in {"failed", "tax", "postTax"} : Goto(a, p)
        BY <3>3 DEF GatewayDeclines, RecordOutcome, RecordRefund, RefundPostFails
      <4>2. After(a, p, actor[a].note)
        BY <1>1, <4>1, Goes
      <4> QED BY <4>1, <4>2
    <3> QED BY <1>9, <3>1, <3>2, <3>3
  <2>3. method # "offline"
    BY <2>1 DEF OfflineInv
  <2>4. \A m \in Notes : note'[m].refund = note[m].refund \/ note'[m].refund # "manual_required"
    <3>1. CASE RecordOutcome(a)
      <4>1. PICK r \in {"processed", "pending"} : UpdateRefund(Mine(a), r, TRUE)
        BY <3>1 DEF RecordOutcome
      <4>2. Mine(a) \in Notes
        BY <1>1, <2>1 DEF HeldAlone, Mine
      <4> QED BY <1>1, <4>1, <4>2, NoteUpdated DEF Marks
    <3> QED BY <1>9, <3>1
            DEF GatewayDeclines, GatewayRefunds, AllocateTax, RecordRefund, RefundPostFails
  <2> QED BY <1>3, <2>1, <2>2, <2>3, <2>4
<1>10. ASSUME NEW a \in Actors, ACHReturned(a)
       PROVE  OfflineInv'
  BY <1>2, <1>10 DEF ACHReturned
<1>11. ASSUME NEW n \in Notes, GatewaySettles(n)
       PROVE  OfflineInv'
  BY <1>2, <1>11 DEF GatewaySettles, invoice
<1>12. CASE UNCHANGED vars
  BY <1>2, <1>12 DEF vars, invoice
<1> QED BY <1>4, <1>5, <1>6, <1>7, <1>8, <1>9, <1>10, <1>11, <1>12 DEF Next, Request

----------------------------------------------------------------------------

\* Only a and what it says of note n change.
LEMMA Answering ==
    ASSUME Asked, Recorded, NEW a \in Actors, NEW n \in Notes,
           \A b \in Actors : b # a => actor'[b] = actor[b],
           \A m \in Notes : m # n => note'[m].refund = note[m].refund /\ sent'[m].state = sent[m].state,
           actor[a].pc \in {"refund", "failed", "record"} => actor[a].note = n,
           note'[n].refund = "pending" /\ sent'[n].state \notin TakenNow =>
               \/ actor'[a].pc \in {"refund", "failed"} /\ actor'[a].note = n
               \/ UNCHANGED <<note, sent>> /\ actor[a].pc \notin {"refund", "failed"},
           sent'[n].state \in TakenNow /\ note'[n].refund \notin {"pending", "processed"} =>
               \/ actor'[a].pc = "record" /\ actor'[a].note = n
               \/ UNCHANGED <<note, sent>> /\ actor[a].pc # "record"
    PROVE  Asked' /\ Recorded'
<1>1. ASSUME NEW m \in Notes, note'[m].refund = "pending", sent'[m].state \notin TakenNow
      PROVE  \E b \in Actors : actor'[b].pc \in {"refund", "failed"} /\ actor'[b].note = m
  <2>1. CASE m = n /\ actor'[a].pc \in {"refund", "failed"} /\ actor'[a].note = n
    BY <2>1
  <2>2. CASE m # n \/ (UNCHANGED <<note, sent>> /\ actor[a].pc \notin {"refund", "failed"})
    <3>1. note[m].refund = "pending" /\ sent[m].state \notin TakenNow
      BY <1>1, <2>2
    <3>2. PICK b \in Actors : actor[b].pc \in {"refund", "failed"} /\ actor[b].note = m
      BY <3>1 DEF Asked
    <3>3. b # a
      BY <2>2, <3>2
    <3> QED BY <3>2, <3>3
  <2> QED BY <1>1, <2>1, <2>2
<1>2. ASSUME NEW m \in Notes, sent'[m].state \in TakenNow, note'[m].refund \notin {"pending", "processed"}
      PROVE  \E b \in Actors : actor'[b].pc = "record" /\ actor'[b].note = m
  <2>1. CASE m = n /\ actor'[a].pc = "record" /\ actor'[a].note = n
    BY <2>1
  <2>2. CASE m # n \/ (UNCHANGED <<note, sent>> /\ actor[a].pc # "record")
    <3>1. sent[m].state \in TakenNow /\ note[m].refund \notin {"pending", "processed"}
      BY <1>2, <2>2
    <3>2. PICK b \in Actors : actor[b].pc = "record" /\ actor[b].note = m
      BY <3>1 DEF Recorded
    <3>3. b # a
      BY <2>2, <3>2
    <3> QED BY <3>2, <3>3
  <2> QED BY <1>2, <2>1, <2>2
<1> QED BY <1>1, <1>2 DEF Asked, Recorded

\* The sum of the amounts of a set of notes that keep theirs.
LEMMA AmountKept ==
    ASSUME NEW ns, \A m \in Notes : m \in ns => note'[m].amount = note[m].amount
    PROVE  AmountOf(ns)' = AmountOf(ns)
<1> DEFINE f == [m \in Notes |-> IF m \in ns THEN note[m].amount ELSE 0]
<1>1. f' = f
  OBVIOUS
<1>2. AmountOf(ns) = SumOver(f) /\ AmountOf(ns)' = SumOver(f')
  BY Zenon DEF AmountOf
<1> HIDE DEF f
<1> QED BY <1>1, <1>2

LEMMA TaxesKept ==
    ASSUME Taxes, UNCHANGED taxed, Settled' = Settled,
           \A a \in Actors : Posting(a)' =>
               Posting(a) /\ actor'[a].tax = actor[a].tax /\ actor'[a].note = actor[a].note,
           \A m \in Notes : sent[m].state \in TakenNow => note'[m].amount = note[m].amount,
           \A a \in Actors : Posting(a) => sent[actor[a].note].state \in TakenNow
    PROVE  Taxes'
<1>1. \A n \in Notes : n \notin Settled' => taxed'[n] = 0
  BY DEF Taxes
<1>2. PICK s : s = Settled
  OBVIOUS
<1>3. \A m \in Notes : m \in s => sent[m].state \in TakenNow
  BY <1>2 DEF Settled
<1>4. AmountOf(s)' = AmountOf(s)
  BY <1>3, AmountKept
<1>5. AmountOf(Settled)' = AmountOf(s)'
  BY <1>2 DEF AmountOf
<1>6. SumOver(taxed) = RefundTaxPortion(AmountOf(Settled))
  BY DEF Taxes
<1>7. SumOver(taxed)' = RefundTaxPortion(AmountOf(Settled)')
  BY <1>2, <1>4, <1>5, <1>6
<1>8. ASSUME NEW a \in Actors, Posting(a)'
      PROVE  SumOver(taxed)' + actor'[a].tax = RefundTaxPortion(AmountOf(Settled \cup {actor[a].note})')
  <2>1. Posting(a) /\ actor'[a].tax = actor[a].tax /\ actor'[a].note = actor[a].note
    BY <1>8
  <2>2. PICK t : t = Settled \cup {actor[a].note}
    OBVIOUS
  <2>3. t = (Settled \cup {actor[a].note})'
    BY <2>1, <2>2
  <2>4. \A m \in Notes : m \in t => sent[m].state \in TakenNow
    BY <1>2, <1>3, <2>1, <2>2
  <2>5. AmountOf(t)' = AmountOf(t)
    BY <2>4, AmountKept
  <2>6. AmountOf(Settled \cup {actor[a].note})' = AmountOf(t)'
    BY <2>3 DEF AmountOf
  <2>7. SumOver(taxed) + actor[a].tax = RefundTaxPortion(AmountOf(Settled \cup {actor[a].note}))
    BY <2>1 DEF Taxes
  <2> QED BY <2>1, <2>2, <2>5, <2>6, <2>7
<1> QED BY <1>1, <1>7, <1>8 DEF Taxes

\* A step that neither takes a note nor finishes one leaves the taxes alone.
LEMMA BooksStay ==
    ASSUME Bookers, Taxes, UNCHANGED taxed,
           \A b \in Actors : Booker(b)' <=> Booker(b),
           \A b \in Actors : Booker(b)' => actor'[b].note = actor[b].note,
           \A b \in Actors : Posting(b)' => Posting(b) /\ actor'[b].tax = actor[b].tax,
           \A m \in Notes : sent'[m].state \in TakenNow <=> sent[m].state \in TakenNow,
           \A m \in Notes : sent[m].state \in TakenNow => note'[m].amount = note[m].amount,
           \A b \in Actors : Booker(b) => actor[b].note \in Notes
    PROVE  Bookers' /\ Taxes'
<1>1. \A b \in Actors : Posting(b) => Booker(b)
  BY DEF Posting, Booker
<1>2. Settled' = Settled
  BY DEF Settled
<1>3. Bookers'
  <2>1. \A b, c \in Actors : Booker(b)' /\ Booker(c)' /\ actor'[b].note = actor'[c].note => b = c
    BY DEF Bookers
  <2>2. \A b \in Actors : Booker(b)' => sent'[actor'[b].note].state \in TakenNow
    BY DEF Bookers
  <2>3. \A b, c \in Actors : Posting(b)' /\ Posting(c)' => b = c
    BY DEF Bookers
  <2> QED BY <2>1, <2>2, <2>3 DEF Bookers
<1>4. \A b \in Actors : Posting(b)' => Posting(b) /\ actor'[b].tax = actor[b].tax /\ actor'[b].note = actor[b].note
  <2>1. \A b \in Actors : Posting(b)' => Booker(b)'
    BY DEF Posting, Booker
  <2> QED BY <2>1
<1>5. \A b \in Actors : Posting(b) => sent[actor[b].note].state \in TakenNow
  BY <1>1 DEF Bookers
<1>6. Taxes'
  BY <1>2, <1>4, <1>5, TaxesKept
<1> QED BY <1>3, <1>6

\* ... where actor a is no booker, before or after.
LEMMA BystanderStep ==
    ASSUME Bookers, Taxes, UNCHANGED taxed, HeldAlone, NEW a \in Actors,
           \A b \in Actors : b # a => actor'[b] = actor[b],
           ~Booker(a), ~Booker(a)',
           \A m \in Notes : sent'[m].state \in TakenNow <=> sent[m].state \in TakenNow,
           \A m \in Notes : sent[m].state \in TakenNow => note'[m].amount = note[m].amount
    PROVE  Bookers' /\ Taxes'
<1>1. \A b \in Actors : Booker(b)' <=> Booker(b)
  BY DEF Booker
<1>2. \A b \in Actors : Booker(b)' => actor'[b].note = actor[b].note
  BY DEF Booker
<1>3. \A b \in Actors : Posting(b)' => Posting(b) /\ actor'[b].tax = actor[b].tax
  BY DEF Posting, Booker
<1>4. \A b \in Actors : Booker(b) => actor[b].note \in Notes
  BY DEF Booker, HeldAlone
<1> QED BY <1>1, <1>2, <1>3, <1>4, BooksStay

\* The refund of n is taken, and a holds it.
LEMMA TakingStep ==
    ASSUME Bookers, Taxes, UNCHANGED <<taxed, note>>, HeldAlone, NEW a \in Actors, NEW n \in Notes,
           \A b \in Actors : b # a => actor'[b] = actor[b],
           ~Booker(a), actor'[a].pc = "record", actor'[a].note = n,
           sent[n].state \notin TakenNow, sent'[n].state \in TakenNow,
           \A m \in Notes : m # n => sent'[m].state = sent[m].state
    PROVE  Bookers' /\ Taxes'
<1>1. \A b \in Actors : b # a => (Booker(b)' <=> Booker(b)) /\ (Posting(b)' <=> Posting(b))
  BY DEF Booker, Posting
<1>2. Booker(a)' /\ ~Posting(a)'
  BY DEF Booker, Posting
<1>3. \A b \in Actors : Booker(b) => actor[b].note \in Notes /\ actor[b].note # n /\ b # a
  BY DEF Booker, HeldAlone, Bookers
<1>4. Settled' = Settled
  <2>1. ASSUME NEW m \in Notes, m # n
        PROVE  m \in Settled' <=> m \in Settled
    <3>1. (\A b \in Actors : Booker(b)' => actor'[b].note # m) <=> (\A b \in Actors : Booker(b) => actor[b].note # m)
      BY <1>1, <1>2, <1>3, <2>1
    <3> QED BY <2>1, <3>1 DEF Settled
  <2>2. n \notin Settled' /\ n \notin Settled
    BY <1>2 DEF Settled
  <2>3. \A x : x \in Settled' => x \in Notes
    BY DEF Settled
  <2>4. \A x : x \in Settled => x \in Notes
    BY DEF Settled
  <2>5. \A x : x \in Settled' <=> x \in Settled
    BY <2>1, <2>2, <2>3, <2>4
  <2> HIDE DEF Settled
  <2> QED BY <2>5
<1>5. Bookers'
  <2>1. \A b, c \in Actors : Booker(b)' /\ Booker(c)' /\ actor'[b].note = actor'[c].note => b = c
    BY <1>1, <1>3 DEF Bookers
  <2>2. \A b \in Actors : Booker(b)' => sent'[actor'[b].note].state \in TakenNow
    BY <1>1, <1>3 DEF Bookers
  <2>3. \A b, c \in Actors : Posting(b)' /\ Posting(c)' => b = c
    BY <1>1, <1>2 DEF Bookers
  <2> QED BY <2>1, <2>2, <2>3 DEF Bookers
<1>6. \A b \in Actors : Posting(b)' => Posting(b) /\ actor'[b].tax = actor[b].tax /\ actor'[b].note = actor[b].note
  BY <1>1, <1>2
<1>7. \A b \in Actors : Posting(b) => sent[actor[b].note].state \in TakenNow
  BY DEF Bookers, Posting, Booker
<1>8. Taxes'
  BY <1>4, <1>6, <1>7, TaxesKept
<1> QED BY <1>5, <1>8

LEMMA AmountAdds ==
    ASSUME NoteTyped, NEW ns, NEW n \in Notes, n \notin ns
    PROVE  AmountOf(ns \cup {n}) = AmountOf(ns) + note[n].amount
<1> DEFINE f == [m \in Notes |-> IF m \in ns THEN note[m].amount ELSE 0]
           g == [m \in Notes |-> IF m \in ns \cup {n} THEN note[m].amount ELSE 0]
<1>1. \A m \in Notes : f[m] \in Int /\ g[m] \in Int
  BY DEF NoteTyped, Note
<1>2. \A m \in Notes : m # n => g[m] = f[m]
  OBVIOUS
<1>3. f[n] = 0 /\ g[n] = note[n].amount /\ note[n].amount \in Int
  BY DEF NoteTyped, Note
<1>4. AmountOf(ns) = SumFunctionOnSet(f, Notes) /\ AmountOf(ns \cup {n}) = SumFunctionOnSet(g, Notes)
  BY AmountIs
<1> HIDE DEF f, g
<1>5. SumFunctionOnSet(g, Notes) = SumFunctionOnSet(f, Notes) - f[n] + g[n]
  BY <1>1, <1>2, SumReplace, RefundsAssumption
<1>6. SumFunctionOnSet(f, Notes) \in Int
  BY <1>1, SumInt, RefundsAssumption
<1> QED BY <1>3, <1>4, <1>5, <1>6

\* The slice is what the tax of the sum grows by: nobody else is under way.
LEMMA AllocatingStep ==
    ASSUME TypeInv, OnceInv, Right, OfflineInv, Calm, Calm', Asked, Recorded, Bookers, Taxes,
           NEW a \in Actors, AllocateTax(a)
    PROVE  Bookers' /\ Taxes'
<1> DEFINE n == Mine(a)
           prior == AmountOf(ActiveRefunds) - note[n].amount
           t == RefundTaxSlice(note[n].amount, IF prior < 0 THEN 0 ELSE prior)
<1>1. /\ NoteTyped /\ ActorTyped /\ HeldAlone /\ Shape /\ At(a, "tax")
      /\ taxed \in [Notes -> 0..Tax]
      /\ UNCHANGED <<note, sent, taxed>>
  BY DEF TypeInv, TypeOK, NoteTyped, OnceInv, AllocateTax, gateway, books
<1>2. n \in Notes /\ n = actor[a].note /\ Booker(a) /\ ~Posting(a)
  BY <1>1 DEF HeldAlone, At, Mine, Booker, Posting
<1>3. \A b \in Actors : b # a => actor[b].pc \notin Online
  BY DEF AllocateTax, Calm, Online
<1>4. actor' = [actor EXCEPT ![a].pc = "post", ![a].tax = t]
  BY DEF AllocateTax
<1>5. /\ \A b \in Actors : b # a => actor'[b] = actor[b]
      /\ actor'[a].pc = "post" /\ actor'[a].note = n /\ actor'[a].tax = t
  <2> HIDE DEF t, n
  <2> QED BY <1>1, <1>2, <1>4 DEF ActorTyped, Actor
<1>6. method # "offline"
  BY <1>1 DEF OfflineInv, Online, At
<1>7. sent[n].state \in TakenNow /\ n \notin Settled
  BY <1>2 DEF Bookers, Settled
<1>8. ActiveRefunds = Settled \cup {n}
  <2>1. ASSUME NEW m \in Notes PROVE m \in ActiveRefunds <=> m \in Settled \cup {n}
    <3>1. \A b \in Actors : Booker(b) => b = a
      BY <1>3 DEF Booker, Online
    <3>2. m \in Settled \cup {n} <=> sent[m].state \in TakenNow
      BY <1>2, <1>7, <3>1 DEF Settled
    <3>3. \A b \in Actors : actor[b].pc \notin {"refund", "failed", "record"}
      BY <1>1, <1>3 DEF Online, At
    <3>4. note[m].refund = "pending" => sent[m].state \in TakenNow
      BY <3>3 DEF Asked
    <3>5. sent[m].state \in TakenNow => note[m].refund \in {"pending", "processed"}
      BY <3>3 DEF Recorded
    <3>6. note[m].refund = "processed" => sent[m].state \in TakenNow
      BY DEF Right, StatusTrue, TrueOf, Taken, Calm, TakenNow
    <3>7. note[m].refund # "manual_required"
      BY <1>6 DEF OfflineInv
    <3>8. m \in ActiveRefunds <=> note[m].refund \in {"pending", "processed"}
      BY <3>7 DEF ActiveRefunds
    <3> QED BY <3>2, <3>4, <3>5, <3>6, <3>8
  <2>2. \A m : m \in ActiveRefunds => m \in Notes
    BY DEF ActiveRefunds
  <2>3. \A m : m \in Settled \cup {n} => m \in Notes
    BY <1>2 DEF Settled
  <2>4. \A m : m \in ActiveRefunds <=> m \in Settled \cup {n}
    BY <2>1, <2>2, <2>3
  <2> HIDE DEF ActiveRefunds, Settled, n
  <2> QED BY <2>4
<1>9. AmountOf(Settled) \in Nat /\ note[n].amount \in Nat
  BY <1>1, <1>2, AmountNat DEF NoteTyped, Note
<1>10. AmountOf(Settled \cup {n}) = AmountOf(Settled) + note[n].amount
  <2> HIDE DEF n
  <2> QED BY <1>1, <1>2, <1>7, AmountAdds
<1>11. AmountOf(ActiveRefunds) = AmountOf(Settled) + note[n].amount
  <2> HIDE DEF n
  <2> QED BY <1>8, <1>10
<1>12. (IF prior < 0 THEN 0 ELSE prior) = AmountOf(Settled)
  BY <1>9, <1>11
<1>13. t = RefundTaxPortion(AmountOf(Settled \cup {n})) - RefundTaxPortion(AmountOf(Settled))
  <2>1. t = RefundTaxSlice(note[n].amount, AmountOf(Settled))
    <3> HIDE DEF prior, n
    <3> QED BY <1>12
  <2> HIDE DEF t, n
  <2> QED BY <1>10, <2>1 DEF RefundTaxSlice
<1>14. RefundTaxPortion(AmountOf(Settled)) \in Nat /\ RefundTaxPortion(AmountOf(Settled \cup {n})) \in Nat
  <2>1. AmountOf(Settled \cup {n}) \in Nat
    BY <1>9, <1>10
  <2> HIDE DEF n, Settled
  <2>2. \A x \in Nat : RefundTaxPortion(x) \in 0..Tax
    BY PortionGrows
  <2>3. 0..Tax \subseteq Nat
    BY RefundsAssumption
  <2> QED BY <1>9, <2>1, <2>2, <2>3
<1> HIDE DEF t, prior
<1>15. Settled' = Settled
  <2>1. \A b \in Actors : (Booker(b)' <=> Booker(b)) /\ (Booker(b) => actor'[b].note = actor[b].note)
    BY <1>2, <1>5 DEF Booker
  <2> QED BY <1>1, <2>1 DEF Settled
<1>16. \A b \in Actors : Posting(b)' => b = a
  BY <1>3, <1>5 DEF Posting, Online
<1>17. Bookers'
  <2>1. \A b \in Actors : Booker(b)' => b = a
    BY <1>3, <1>5 DEF Booker, Online
  <2>2. sent'[actor'[a].note].state \in TakenNow
    BY <1>1, <1>5, <1>7
  <2> QED BY <1>16, <2>1, <2>2 DEF Bookers
<1>18. PICK k, s, r : k = n /\ s = Settled /\ r = Settled \cup {n}
  OBVIOUS
<1>19. AmountOf(Settled)' = AmountOf(Settled) /\ AmountOf(Settled \cup {actor[a].note})' = AmountOf(r)
  <2>1. AmountOf(s)' = AmountOf(s) /\ AmountOf(r)' = AmountOf(r)
    BY <1>1, AmountStays
  <2>2. AmountOf(Settled)' = AmountOf(s)'
    BY <1>15, <1>18 DEF AmountOf
  <2>3. (Settled \cup {actor[a].note})' = r
    BY <1>5, <1>15, <1>18
  <2>4. AmountOf(Settled \cup {actor[a].note})' = AmountOf(r)'
    BY <2>3 DEF AmountOf
  <2> QED BY <1>18, <2>1, <2>2, <2>4
<1>20. SumOver(taxed) = RefundTaxPortion(AmountOf(Settled))
  BY DEF Taxes
<1>21. SumOver(taxed)' = SumOver(taxed)
  BY <1>1
<1>22. SumOver(taxed)' = RefundTaxPortion(AmountOf(Settled)')
  BY <1>19, <1>20, <1>21
<1>23. SumOver(taxed)' + actor'[a].tax = RefundTaxPortion(AmountOf(Settled \cup {actor[a].note})')
  <2>1. SumOver(taxed)' + actor'[a].tax = RefundTaxPortion(AmountOf(Settled \cup {n}))
    BY <1>5, <1>13, <1>14, <1>20, <1>21
  <2> QED BY <1>18, <1>19, <2>1
<1>24. \A m \in Notes : m \notin Settled' => taxed'[m] = 0
  BY <1>1, <1>15 DEF Taxes
<1>25. Taxes'
  BY <1>16, <1>22, <1>23, <1>24 DEF Taxes
<1> QED BY <1>17, <1>25

\* The slice is booked, and its note settled.
LEMMA ReversingStep ==
    ASSUME TypeInv, OnceInv, Bookers, Taxes, NEW a \in Actors, RecordRefundTaxReversal(a)
    PROVE  Bookers' /\ Taxes'
<1> DEFINE n == Mine(a)
           t == actor[a].tax
<1>1. /\ NoteTyped /\ ActorTyped /\ HeldAlone /\ Shape /\ At(a, "postTax") /\ Done(a)
      /\ taxed \in [Notes -> 0..Tax]
      /\ UNCHANGED <<note, sent>> /\ taxed' = [taxed EXCEPT ![n] = t]
  BY DEF TypeInv, TypeOK, NoteTyped, OnceInv, RecordRefundTaxReversal, gateway, books
<1>2. n \in Notes /\ n = actor[a].note /\ Booker(a) /\ Posting(a) /\ t \in 0..Tax
  BY <1>1 DEF HeldAlone, At, Mine, Booker, Posting, ActorTyped
<1>3. /\ \A b \in Actors : b # a => actor'[b] = actor[b]
      /\ actor'[a].pc = "idle"
  BY <1>1, Goes DEF After
<1>4. sent[n].state \in TakenNow /\ n \notin Settled
  BY <1>2 DEF Bookers, Settled
<1>5. Settled' = Settled \cup {n}
  <2>1. ASSUME NEW m \in Notes PROVE m \in Settled' <=> m \in Settled \cup {n}
    <3>1. \A b \in Actors : b # a => (Booker(b)' <=> Booker(b))
      BY <1>3 DEF Booker
    <3>2. ~Booker(a)'
      BY <1>3 DEF Booker
    <3>3. CASE m = n
      <4>1. \A b \in Actors : Booker(b)' => actor'[b].note # n
        BY <1>2, <1>3, <3>1, <3>2 DEF Bookers
      <4> QED BY <1>1, <1>4, <3>3, <4>1 DEF Settled
    <3>4. CASE m # n
      <4>1. (\A b \in Actors : Booker(b)' => actor'[b].note # m) <=> (\A b \in Actors : Booker(b) => actor[b].note # m)
        BY <1>2, <1>3, <3>1, <3>2, <3>4
      <4> HIDE DEF n
      <4> QED BY <1>1, <3>4, <4>1 DEF Settled
    <3> QED BY <3>3, <3>4
  <2>2. \A m : m \in Settled' => m \in Notes
    BY DEF Settled
  <2>3. \A m : m \in Settled \cup {n} => m \in Notes
    BY <1>2 DEF Settled
  <2>4. \A m : m \in Settled' <=> m \in Settled \cup {n}
    BY <2>1, <2>2, <2>3
  <2> HIDE DEF Settled, n
  <2> QED BY <2>4
<1>6. taxed[n] = 0
  BY <1>2, <1>4 DEF Taxes
<1>7. SumOver(taxed)' = SumOver(taxed) + t
  <2>1. DOMAIN taxed = Notes /\ DOMAIN taxed' = Notes
    BY <1>1
  <2>2. SumOver(taxed) = SumFunctionOnSet(taxed, Notes) /\ SumOver(taxed') = SumFunctionOnSet(taxed', Notes)
    BY <2>1, SumOverIs
  <2>3. 0..Tax \subseteq Int
    OBVIOUS
  <2>4. taxed'[n] = t /\ \A m \in Notes : taxed'[m] = IF m = n THEN t ELSE taxed[m]
    <3> HIDE DEF n, t
    <3> QED BY <1>1, <1>2
  <2>5. \A m \in Notes : taxed[m] \in Int /\ taxed'[m] \in Int /\ (m # n => taxed'[m] = taxed[m])
    <3> HIDE DEF n, t
    <3> QED BY <1>1, <1>2, <2>3, <2>4
  <2>6. SumFunctionOnSet(taxed', Notes) = SumFunctionOnSet(taxed, Notes) - taxed[n] + taxed'[n]
    <3> HIDE DEF n, t
    <3> QED BY <1>2, <2>5, SumReplace, RefundsAssumption
  <2>7. SumFunctionOnSet(taxed, Notes) \in Int
    BY <2>5, SumInt, RefundsAssumption
  <2>8. t \in Int
    BY <1>2, <2>3
  <2> HIDE DEF n, t
  <2> QED BY <1>6, <2>2, <2>4, <2>6, <2>7, <2>8
<1>8. \A b \in Actors : ~Posting(b)'
  BY <1>2, <1>3 DEF Bookers, Posting
<1>9. Bookers'
  <2>1. \A b \in Actors : Booker(b)' => b # a /\ Booker(b) /\ actor'[b] = actor[b]
    BY <1>3 DEF Booker
  <2> QED BY <1>1, <1>8, <2>1 DEF Bookers
<1>10. SumOver(taxed)' = RefundTaxPortion(AmountOf(Settled)')
  <2>1. SumOver(taxed) + t = RefundTaxPortion(AmountOf(Settled \cup {n}))
    BY <1>2 DEF Taxes
  <2>2. PICK r : r = Settled \cup {n}
    OBVIOUS
  <2>3. AmountOf(r)' = AmountOf(r)
    BY <1>1, AmountStays
  <2>4. AmountOf(Settled)' = AmountOf(r)'
    BY <1>5, <2>2 DEF AmountOf
  <2> HIDE DEF n, t
  <2> QED BY <1>7, <2>1, <2>2, <2>3, <2>4
<1>11. \A m \in Notes : m \notin Settled' => taxed'[m] = 0
  BY <1>1, <1>2, <1>5 DEF Taxes
<1>12. Taxes'
  BY <1>8, <1>10, <1>11 DEF Taxes
<1> QED BY <1>9, <1>12

CalmTaxes == Asked /\ Recorded /\ Bookers /\ Taxes

\* Nothing calm ever was otherwise.
LEMMA CalmBefore ==
    ASSUME TypeInv, OnceInv, FollowInv, [Next]_vars, Calm'
    PROVE  Calm
<1>1. faults \in Nat /\ sent \in [Notes -> Sent] /\ Untouched /\ HeldAlone
  BY RefundsAssumption DEF TypeInv, TypeOK, FollowInv, OnceInv
<1>2. ASSUME NEW a \in Actors, Request(a) \/ ReadEvent(a) \/ AdvanceRefund(a) \/ ACHReturned(a) \/ Crash(a)
      PROVE  /\ Fault \/ UNCHANGED faults
             /\ overlapped => overlapped'
             /\ \/ UNCHANGED sent
                \/ /\ GatewayDeclines(a) \/ GatewayRefunds(a)
                   /\ Sending(a)
                   /\ \E s : sent' = [sent EXCEPT ![Mine(a)] = s] \/ sent' = [sent EXCEPT ![Mine(a)].state = s]
  <2>1. CASE GatewayRefunds(a)
    <3>1. Fault \/ UNCHANGED faults
      BY <2>1 DEF GatewayRefunds
    <3>2. \E s, r : sent' = [sent EXCEPT ![Mine(a)] = [state |-> s, count |-> @.count + 1, answer |-> r]]
      BY <2>1 DEF GatewayRefunds
    <3>3. UNCHANGED overlapped /\ Sending(a)
      BY <2>1 DEF GatewayRefunds, Sending, At
    <3> QED BY <2>1, <3>1, <3>2, <3>3
  <2>2. CASE GatewayDeclines(a)
    BY <2>2 DEF GatewayDeclines, Sending, At
  <2>3. CASE AllocateTax(a)
    BY <2>3 DEF AllocateTax, gateway
  <2>4. CASE \/ CreateRefund(a) \/ RequestRefund(a) \/ ReadPending(a) \/ Approve(a) \/ Reject(a)
             \/ MarkManual(a) \/ RevertApproval(a) \/ MarkRefundFailed(a) \/ RecordOutcome(a)
             \/ RecordRefund(a) \/ RefundPostFails(a) \/ RecordRefundTaxReversal(a)
             \/ ReadEvent(a) \/ AdvanceRefund(a) \/ ACHReturned(a) \/ Crash(a)
    <3>1. Fault \/ UNCHANGED faults
      BY <2>4
      DEF CreateRefund, RequestRefund, ReadPending, Approve, Reject, MarkManual, RevertApproval,
           MarkRefundFailed, RecordOutcome, RecordRefund, RefundPostFails, RecordRefundTaxReversal,
           ReadEvent, AdvanceRefund, ACHReturned, Crash
    <3>2. UNCHANGED <<overlapped, sent>>
      BY <2>4
      DEF CreateRefund, RequestRefund, ReadPending, Approve, Reject, MarkManual, RevertApproval,
           MarkRefundFailed, RecordOutcome, RecordRefund, RefundPostFails, RecordRefundTaxReversal,
           ReadEvent, AdvanceRefund, ACHReturned, Crash, gateway
    <3> QED BY <3>1, <3>2
  <2> QED BY <1>2, <2>1, <2>2, <2>3, <2>4 DEF Request
<1>3. ASSUME NEW a \in Actors, Request(a) \/ ReadEvent(a) \/ AdvanceRefund(a) \/ ACHReturned(a) \/ Crash(a)
      PROVE  Calm
  <2>1. faults = 0 /\ ~overlapped
    BY <1>1, <1>2, <1>3 DEF Calm, Fault
  <2>2. ASSUME NEW n \in Notes, sent[n].state = "failed"
        PROVE  FALSE
    <3>1. ~UNCHANGED sent
      BY <2>2 DEF Calm
    <3>2. Sending(a)
      BY <1>2, <1>3, <3>1
    <3>3. Mine(a) # n
      BY <1>1, <2>2, <3>2 DEF Untouched, Mine, None
    <3>4. sent'[n] = sent[n]
      BY <1>1, <1>2, <1>3, <3>1, <3>3
    <3> QED BY <2>2, <3>4 DEF Calm
  <2> QED BY <2>1, <2>2 DEF Calm
<1>4. ASSUME NEW n \in Notes, GatewaySettles(n)
      PROVE  Calm
  <2>1. /\ sent[n].state \in {"pending", "succeeded"} /\ UNCHANGED <<overlapped, faults>>
        /\ \E s : sent' = [sent EXCEPT ![n].state = s]
    BY <1>4 DEF GatewaySettles
  <2>2. \A m \in Notes : m # n => sent'[m] = sent[m]
    BY <1>1, <2>1
  <2> QED BY <2>1, <2>2 DEF Calm
<1>5. CASE UNCHANGED vars
  BY <1>5 DEF vars, gateway, Calm
<1> QED BY <1>3, <1>4, <1>5 DEF Next

LEMMA CalmTaxesKept ==
    ASSUME TypeInv, OnceInv, FollowInv, OfflineInv, CalmTaxes, Calm, Calm', [Next]_vars
    PROVE  CalmTaxes'
<1>1. /\ NoteTyped /\ ActorTyped /\ HeldAlone /\ Shape /\ Untouched /\ Right
      /\ sent \in [Notes -> Sent] /\ faults = 0 /\ ~Fault
      /\ Asked /\ Recorded /\ Bookers /\ Taxes
  BY DEF TypeInv, TypeOK, NoteTyped, OnceInv, FollowInv, Calm, CalmTaxes, Fault
\* A bystander that changes nothing at the gateway, and of the notes only n's.
<1>2. ASSUME NEW a \in Actors, NEW p, NEW m, After(a, p, m), p \notin {"record", "tax", "post", "postTax"},
             ~Booker(a), NEW n \in Notes, UNCHANGED <<taxed, sent>>,
             \A k \in Notes : k # n => note'[k].refund = note[k].refund,
             \A k \in Notes : sent[k].state \in TakenNow => note'[k].amount = note[k].amount,
             actor[a].pc \in {"refund", "failed"} => actor[a].note = n,
             \/ note'[n].refund = "pending" /\ p = "refund" /\ m = n /\ sent[n].state = None
             \/ note'[n].refund = "processed" /\ sent[n].state \in TakenNow
             \/ note'[n].refund # "pending" /\ sent[n].state \notin TakenNow
             \/ UNCHANGED note /\ actor[a].pc \notin {"refund", "failed"}
      PROVE  CalmTaxes'
  <2>1. (\A b \in Actors : b # a => actor'[b] = actor[b]) /\ actor'[a].pc = p /\ actor'[a].note = m
    BY <1>2 DEF After
  <2>2. ~Booker(a)' /\ actor[a].pc # "record"
    BY <1>2, <2>1 DEF Booker
  <2>3. Bookers' /\ Taxes'
    BY <1>1, <1>2, <2>1, <2>2, BystanderStep
  <2>4. Asked' /\ Recorded'
    BY <1>1, <1>2, <2>1, <2>2, Answering DEF None, TakenNow
  <2> QED BY <2>3, <2>4 DEF CalmTaxes
<1>3. ASSUME UNCHANGED <<note, sent, actor, taxed>>
      PROVE  CalmTaxes'
  <2>1. /\ \A b \in Actors : Booker(b)' <=> Booker(b)
        /\ \A b \in Actors : Posting(b)' <=> Posting(b)
        /\ \A b \in Actors : Booker(b) => actor[b].note \in Notes
    BY <1>1, <1>3 DEF Booker, Posting, HeldAlone
  <2>2. Bookers' /\ Taxes'
    BY <1>1, <1>3, <2>1, BooksStay
  <2>3. Asked' /\ Recorded'
    BY <1>1, <1>3 DEF Asked, Recorded
  <2> QED BY <2>2, <2>3 DEF CalmTaxes
<1>4. ASSUME NEW a \in Actors, CreateRefund(a)
      PROVE  CalmTaxes'
  <2>1. PICK n \in Notes, x \in Amounts :
            /\ Insert(n, x, "issued", IF method = "offline" THEN "manual_required" ELSE "pending", FALSE)
            /\ IF method = "offline" THEN UNCHANGED actor
               ELSE actor' = [actor EXCEPT ![a].pc = "refund", ![a].note = n]
    BY <1>4 DEF CreateRefund
  <2>2. PICK r : r = IF method = "offline" THEN "manual_required" ELSE "pending"
    OBVIOUS
  <2>3. Marks(n, r) /\ note[n].status = None
    BY <1>1, <2>1, <2>2, NoteInserted
  <2>4. sent[n].state = None
    BY <1>1, <2>3 DEF Untouched, None
  <2>5. \A k \in Notes : k # n => note'[k] = note[k]
    BY <1>1, <2>1 DEF Insert, NoteTyped
  <2>6. UNCHANGED <<taxed, sent>> /\ ~Booker(a) /\ actor[a].pc \notin {"refund", "failed", "record"}
    BY <1>4 DEF CreateRefund, gateway, books, Booker, At
  <2>7. /\ \A k \in Notes : k # n => note'[k].refund = note[k].refund
        /\ \A k \in Notes : sent[k].state \in TakenNow => note'[k].amount = note[k].amount
    BY <2>4, <2>5 DEF TakenNow, None
  <2>8. CASE method = "offline"
    <3>1. actor' = actor
      BY <2>1, <2>8
    <3>2. Bookers' /\ Taxes'
      BY <1>1, <2>6, <2>7, <3>1, BystanderStep DEF Booker
    <3>3. note'[n].refund # "pending" /\ sent'[n].state \notin TakenNow
      BY <2>2, <2>3, <2>4, <2>6, <2>8 DEF Marks, TakenNow, None
    <3>4. Asked' /\ Recorded'
      BY <1>1, <2>6, <2>7, <3>1, <3>3, Answering
    <3> QED BY <3>2, <3>4 DEF CalmTaxes
  <2>9. CASE method # "offline"
    <3>1. After(a, "refund", n)
      BY <1>1, <2>1, <2>9, Goes
    <3>2. note'[n].refund = "pending"
      BY <2>2, <2>3, <2>9 DEF Marks
    <3> QED BY <1>2, <2>4, <2>6, <2>7, <3>1, <3>2
  <2> QED BY <2>8, <2>9
<1>5. ASSUME NEW a \in Actors, RequestRefund(a)
      PROVE  CalmTaxes'
  <2>1. PICK n \in Notes, x \in Amounts : Insert(n, x, "pending_approval", None, TRUE)
    BY <1>5 DEF RequestRefund
  <2>2. Marks(n, None) /\ note[n].status = None
    BY <1>1, <2>1, NoteInserted
  <2>3. sent[n].state = None
    BY <1>1, <2>2 DEF Untouched, None
  <2>4. \A k \in Notes : k # n => note'[k] = note[k]
    BY <1>1, <2>1 DEF Insert, NoteTyped
  <2>5. UNCHANGED <<taxed, sent, actor>> /\ ~Booker(a) /\ actor[a].pc \notin {"refund", "failed", "record"}
    BY <1>5 DEF RequestRefund, gateway, books, Booker, At
  <2>6. /\ \A k \in Notes : k # n => note'[k].refund = note[k].refund
        /\ \A k \in Notes : sent[k].state \in TakenNow => note'[k].amount = note[k].amount
    BY <2>3, <2>4 DEF TakenNow, None
  <2>7. Bookers' /\ Taxes'
    BY <1>1, <2>5, <2>6, BystanderStep DEF Booker
  <2>8. note'[n].refund # "pending" /\ sent'[n].state \notin TakenNow
    BY <2>2, <2>3, <2>5 DEF Marks, TakenNow, None
  <2>9. Asked' /\ Recorded'
    BY <1>1, <2>5, <2>6, <2>8, Answering
  <2> QED BY <2>7, <2>9 DEF CalmTaxes
<1>6. ASSUME NEW a \in Actors, ReadPending(a) \/ ReadEvent(a)
      PROVE  CalmTaxes'
  <2>1. UNCHANGED <<note, sent, taxed>> /\ ~Booker(a) /\ actor[a].pc \notin {"refund", "failed", "record"}
    BY <1>6 DEF ReadPending, ReadEvent, gateway, books, Booker, At
  <2>2. \E p \in {"approve", "advance"}, m \in Notes : After(a, p, m)
    <3>1. CASE ReadEvent(a)
      <4>1. PICK e \in told : actor' = [actor EXCEPT ![a].pc = "advance", ![a].note = e.note, ![a].answer = Outcome(e)]
        BY <3>1 DEF ReadEvent
      <4>2. PICK m, ok : m = e.note /\ ok = Outcome(e)
        OBVIOUS
      <4>3. actor' = [actor EXCEPT ![a].pc = "advance", ![a].note = m, ![a].answer = ok]
        BY <4>1, <4>2
      <4>4. After(a, "advance", m)
        BY <1>1, <4>3, Goes
      <4>5. m \in Notes
        BY <1>1, <4>2 DEF Shape, Told
      <4> QED BY <4>4, <4>5
    <3>2. CASE ReadPending(a)
      <4>1. PICK m \in Notes : actor' = [actor EXCEPT ![a].pc = "approve", ![a].note = m]
        BY <3>2 DEF ReadPending
      <4>2. After(a, "approve", m)
        BY <1>1, <4>1, Goes
      <4> QED BY <4>2
    <3> QED BY <1>6, <3>1, <3>2
  <2> QED BY <1>2, <2>1, <2>2
<1>7. ASSUME NEW a \in Actors, Approve(a) \/ Reject(a)
      PROVE  CalmTaxes'
  <2> DEFINE n == Mine(a)
  <2>1. n \in Notes /\ ~Booker(a) /\ UNCHANGED <<sent, taxed>> /\ actor[a].pc \notin {"refund", "failed", "record"}
    BY <1>1, <1>7 DEF Approve, Reject, At, HeldAlone, Mine, Booker, gateway, books
  <2>2. Marks(n, note[n].refund) /\ Frozen
    BY <1>1, <1>7, <2>1, StatusUpdated, Freezing DEF Approve, Reject
  <2>3. PICK p, m : p \in {"idle", "manual", "refund"} /\ After(a, p, m)
    <3>1. Done(a) \/ Goto(a, "manual") \/ Goto(a, "refund")
      BY <1>7 DEF Approve, Reject
    <3>2. \/ After(a, "idle", None)
          \/ After(a, "manual", actor[a].note)
          \/ After(a, "refund", actor[a].note)
      BY <1>1, <3>1, Goes
    <3> HIDE DEF n
    <3> QED BY ONLY <3>2
  <2>4. \A k \in Notes : note'[k].refund = note[k].refund /\ note'[k].amount = note[k].amount
    BY <2>2 DEF Marks, Frozen
  <2>5. (\A b \in Actors : b # a => actor'[b] = actor[b]) /\ actor'[a].pc \in {"idle", "manual", "refund"}
    BY <2>3 DEF After
  <2>6. Bookers' /\ Taxes'
    <3>1. ~Booker(a)'
      BY <2>5 DEF Booker
    <3> QED BY <1>1, <2>1, <2>4, <2>5, <3>1, BystanderStep
  <2>7. Asked' /\ Recorded'
    <3>1. \A b \in Actors : actor[b].pc \in {"refund", "failed", "record"} => actor'[b] = actor[b]
      BY <2>1, <2>5
    <3> QED BY <1>1, <2>1, <2>4, <3>1 DEF Asked, Recorded
  <2> QED BY <2>6, <2>7 DEF CalmTaxes
<1>8. ASSUME NEW a \in Actors, MarkManual(a)
      PROVE  CalmTaxes'
  <2> DEFINE n == Mine(a)
  <2>1. n \in Notes /\ ~Booker(a) /\ UNCHANGED <<sent, taxed>> /\ actor[a].pc = "manual" /\ Sending(a)
    BY <1>1, <1>8 DEF MarkManual, At, HeldAlone, Mine, Booker, gateway, books, Sending
  <2>2. Marks(n, "manual_required") /\ Frozen /\ After(a, "idle", None)
    <3>1. UpdateRefund(n, "manual_required", FALSE) /\ Done(a)
      BY <1>8 DEF MarkManual
    <3>2. "manual_required" \in RefundStates \ {None}
      BY DEF RefundStates, None
    <3> QED BY <1>1, <2>1, <3>1, <3>2, NoteUpdated, Freezing, Goes
  <2>3. sent[n].state = None
    BY <1>1, <2>1 DEF Untouched, Mine
  <2>4. note'[n].refund # "pending" /\ sent[n].state \notin TakenNow
    BY <2>2, <2>3 DEF Marks, TakenNow, None
  <2> QED BY <1>2, <2>1, <2>2, <2>4 DEF Marks, Frozen
<1>9. ASSUME NEW a \in Actors, GatewayDeclines(a)
      PROVE  CalmTaxes'
  <2> DEFINE n == Mine(a)
  <2>1. n \in Notes /\ n = actor[a].note /\ ~Booker(a) /\ UNCHANGED <<note, taxed>> /\ Sending(a) /\ actor[a].pc = "refund"
    BY <1>1, <1>9 DEF GatewayDeclines, At, HeldAlone, Mine, Booker, books, Sending
  <2>2. sent[n].state = None
    BY <1>1, <2>1 DEF Untouched
  <2>3. sent'[n].state = "declined" /\ \A m \in Notes : m # n => sent'[m].state = sent[m].state
    BY <1>1, <1>9, <2>1, StateUpdated DEF GatewayDeclines
  <2>4. After(a, "failed", n)
    <3>1. Goto(a, "failed")
      BY <1>9 DEF GatewayDeclines
    <3>2. \A p : Goto(a, p) => After(a, p, actor[a].note)
      BY <1>1, Goes
    <3> QED BY <2>1, <3>1, <3>2
  <2>5. (\A b \in Actors : b # a => actor'[b] = actor[b]) /\ actor'[a].pc = "failed" /\ actor'[a].note = n
    BY <2>4 DEF After
  <2>6. \A m \in Notes : sent'[m].state \in TakenNow <=> sent[m].state \in TakenNow
    BY <2>2, <2>3 DEF TakenNow, None
  <2>7. Bookers' /\ Taxes'
    BY <1>1, <2>1, <2>5, <2>6, BystanderStep DEF Booker
  <2>8. Asked' /\ Recorded'
    <3>1. sent'[n].state \notin TakenNow
      BY <2>3 DEF TakenNow
    <3> HIDE DEF n
    <3> QED BY <1>1, <2>1, <2>3, <2>5, <3>1, Answering
  <2> QED BY <2>7, <2>8 DEF CalmTaxes
<1>10. ASSUME NEW a \in Actors, GatewayRefunds(a)
       PROVE  CalmTaxes'
  <2> DEFINE n == Mine(a)
  <2>1. n \in Notes /\ n = actor[a].note /\ ~Booker(a) /\ UNCHANGED <<note, taxed>> /\ Sending(a) /\ actor[a].pc = "refund"
    BY <1>1, <1>10 DEF GatewayRefunds, At, HeldAlone, Mine, Booker, books, Sending
  <2>2. sent[n].state = None
    BY <1>1, <2>1 DEF Untouched
  <2>3. PICK s \in Taken, received \in Answers :
            /\ sent' = [sent EXCEPT ![n] = [state |-> s, count |-> @.count + 1, answer |-> received]]
            /\ actor' = [actor EXCEPT ![a].pc = "record", ![a].answer = received]
    <3>1. PICK answer \in Answers :
              /\ sent' = [sent EXCEPT ![n] =
                     [state |-> IF answer = "requires_action" THEN "pending" ELSE answer,
                      count |-> @.count + 1, answer |-> answer]]
              /\ actor' = [actor EXCEPT ![a].pc = "record", ![a].answer = answer]
      BY <1>1, <1>10 DEF GatewayRefunds
    <3>2. (IF answer = "requires_action" THEN "pending" ELSE answer) \in Taken
      BY DEF Answers, Taken
    <3> QED BY <3>1, <3>2
  <2>5. sent'[n].state = s /\ \A m \in Notes : m # n => sent'[m].state = sent[m].state
    BY <1>1, <2>1, <2>3, StateUpdated
  <2>4. s \in TakenNow
    BY <2>1, <2>5 DEF Calm, Taken, TakenNow
  <2>6. After(a, "record", n)
    <3>1. \A q, v : actor' = [actor EXCEPT ![a].pc = q, ![a].answer = v] => After(a, q, actor[a].note)
      BY <1>1, Goes
    <3>2. After(a, "record", actor[a].note)
      BY <2>3, <3>1
    <3> HIDE DEF n
    <3> QED BY <2>1, <3>2
  <2>7. (\A b \in Actors : b # a => actor'[b] = actor[b]) /\ actor'[a].pc = "record" /\ actor'[a].note = n
    BY <2>6 DEF After
  <2>8. sent[n].state \notin TakenNow
    BY <2>2 DEF TakenNow, None
  <2> HIDE DEF n
  <2>9. Bookers' /\ Taxes'
    BY <1>1, <2>1, <2>4, <2>5, <2>7, <2>8, TakingStep
  <2>10. Asked' /\ Recorded'
    BY <1>1, <2>1, <2>4, <2>5, <2>7, Answering
  <2> QED BY <2>9, <2>10 DEF CalmTaxes
<1>11. ASSUME NEW a \in Actors, MarkRefundFailed(a)
       PROVE  CalmTaxes'
  <2> DEFINE n == Mine(a)
  <2>1. n \in Notes /\ n = actor[a].note /\ ~Booker(a) /\ UNCHANGED <<sent, taxed>> /\ actor[a].pc = "failed"
    BY <1>1, <1>11 DEF MarkRefundFailed, At, HeldAlone, Mine, Booker, gateway, books
  <2>2. Marks(n, "refund_failed") /\ Frozen /\ After(a, "idle", None)
    <3>1. UpdateRefund(n, "refund_failed", FALSE) /\ Done(a)
      BY <1>11 DEF MarkRefundFailed
    <3>2. "refund_failed" \in RefundStates \ {None}
      BY DEF RefundStates, None
    <3> QED BY <1>1, <2>1, <3>1, <3>2, NoteUpdated, Freezing, Goes
  <2>3. note'[n].refund # "pending" /\ sent[n].state \notin TakenNow
    BY <1>1, <2>1, <2>2 DEF Marks, TakenNow, Right, Knows
  <2> QED BY <1>2, <2>1, <2>2, <2>3 DEF Marks, Frozen
<1>12. ASSUME NEW a \in Actors, RecordOutcome(a)
       PROVE  CalmTaxes'
  <2> DEFINE n == Mine(a)
  <2>1. n \in Notes /\ n = actor[a].note /\ Booker(a) /\ UNCHANGED <<sent, taxed>> /\ actor[a].pc = "record"
    BY <1>1, <1>12 DEF RecordOutcome, At, HeldAlone, Mine, Booker, gateway, books
  <2>2. PICK r \in {"processed", "pending"} : UpdateRefund(n, r, TRUE)
    BY <1>12 DEF RecordOutcome
  <2>3. Marks(n, r) /\ Frozen /\ After(a, "tax", n)
    <3>1. r \in RefundStates \ {None}
      BY DEF RefundStates, None
    <3>2. Marks(n, r)
      BY <1>1, <2>1, <2>2, NoteUpdated
    <3>3. Frozen
      BY <1>1, <2>1, <2>2, <3>1, Freezing
    <3>4. After(a, "tax", actor[a].note)
      BY <1>1, <1>12, Goes DEF RecordOutcome
    <3> HIDE DEF n
    <3> QED BY <2>1, <3>2, <3>3, <3>4
  <2>4. (\A b \in Actors : b # a => actor'[b] = actor[b]) /\ actor'[a].pc = "tax" /\ actor'[a].note = n
    BY <2>3 DEF After
  <2>5. Bookers' /\ Taxes'
    <3>1. \A b \in Actors : (Booker(b)' <=> Booker(b)) /\ (Booker(b)' => actor'[b].note = actor[b].note)
      BY <2>1, <2>4 DEF Booker
    <3>2. \A b \in Actors : Posting(b)' => Posting(b) /\ actor'[b].tax = actor[b].tax
      BY <2>4 DEF Posting
    <3>3. \A b \in Actors : Booker(b) => actor[b].note \in Notes
      BY <1>1 DEF Booker, HeldAlone
    <3> HIDE DEF n
    <3> QED BY <1>1, <2>1, <2>3, <3>1, <3>2, <3>3, BooksStay DEF Frozen
  <2>6. Asked' /\ Recorded'
    <3>1. sent'[n].state \in TakenNow
      BY <1>1, <2>1 DEF Bookers
    <3>2. note'[n].refund \in {"pending", "processed"}
      BY <2>2, <2>3 DEF Marks
    <3>3. \A m \in Notes : m # n => note'[m].refund = note[m].refund /\ sent'[m].state = sent[m].state
      BY <2>1, <2>3 DEF Marks
    <3> HIDE DEF n
    <3> QED BY <1>1, <2>1, <2>4, <3>1, <3>2, <3>3, Answering
  <2> QED BY <2>5, <2>6 DEF CalmTaxes
<1>13. ASSUME NEW a \in Actors, AllocateTax(a) \/ RecordRefund(a) \/ RecordRefundTaxReversal(a)
       PROVE  CalmTaxes'
  <2>1. UNCHANGED <<note, sent>> /\ actor[a].pc \notin {"refund", "failed", "record"}
    BY <1>13 DEF AllocateTax, RecordRefund, RecordRefundTaxReversal, At, gateway
  <2>2. \A b \in Actors : b # a => actor'[b] = actor[b]
    <3>1. AllocateTax(a) => \E t : actor' = [actor EXCEPT ![a].pc = "post", ![a].tax = t]
      BY DEF AllocateTax
    <3>2. \E p, m : After(a, p, m)
      BY <1>1, <1>13, <3>1, Goes DEF RecordRefund, RecordRefundTaxReversal
    <3> QED BY <3>2 DEF After
  <2>3. Asked' /\ Recorded'
    <3>1. \A b \in Actors : actor[b].pc \in {"refund", "failed", "record"} => actor'[b] = actor[b]
      BY <2>1, <2>2
    <3> QED BY <1>1, <2>1, <3>1 DEF Asked, Recorded
  <2>4. CASE RecordRefund(a)
    <3>1. UNCHANGED taxed /\ actor[a].pc = "post" /\ Goto(a, "postTax")
      BY <2>4 DEF RecordRefund, At
    <3>2. actor'[a].pc = "postTax" /\ actor'[a].note = actor[a].note /\ actor'[a].tax = actor[a].tax
      BY <1>1, <3>1 DEF Goto, ActorTyped, Actor
    <3>3. \A b \in Actors : (Booker(b)' <=> Booker(b)) /\ (Booker(b)' => actor'[b].note = actor[b].note)
      BY <2>2, <3>1, <3>2 DEF Booker
    <3>4. \A b \in Actors : Posting(b)' => Posting(b) /\ actor'[b].tax = actor[b].tax
      BY <2>2, <3>1, <3>2 DEF Posting
    <3>5. \A b \in Actors : Booker(b) => actor[b].note \in Notes
      BY <1>1 DEF Booker, HeldAlone
    <3>6. Bookers' /\ Taxes'
      BY <1>1, <2>1, <3>1, <3>3, <3>4, <3>5, BooksStay
    <3> QED BY <2>3, <3>6 DEF CalmTaxes
  <2>5. CASE AllocateTax(a)
    BY <1>1, <2>3, <2>5, AllocatingStep DEF CalmTaxes
  <2>6. CASE RecordRefundTaxReversal(a)
    BY <1>1, <2>3, <2>6, ReversingStep DEF CalmTaxes
  <2> QED BY <1>13, <2>4, <2>5, <2>6
<1>14. ASSUME NEW a \in Actors, AdvanceRefund(a)
       PROVE  CalmTaxes'
  <2> DEFINE n == Mine(a)
  <2>1. n \in Notes /\ n = actor[a].note /\ ~Booker(a) /\ UNCHANGED <<sent, taxed>> /\ actor[a].pc = "advance"
    BY <1>1, <1>14 DEF AdvanceRefund, At, HeldAlone, Mine, Booker, gateway, books
  <2>2. sent[n].state \in TakenNow /\ actor[a].answer = "succeeded"
    BY <1>1, <2>1 DEF Right, Knows, Sure, Calm, TakenNow
  <2>3. Marks(n, "processed") /\ Frozen /\ After(a, "idle", None)
    <3>1. UpdateRefund(n, "processed", TRUE) /\ Done(a)
      BY <1>14, <2>2 DEF AdvanceRefund
    <3>2. "processed" \in RefundStates \ {None}
      BY DEF RefundStates, None
    <3> QED BY <1>1, <2>1, <3>1, <3>2, NoteUpdated, Freezing, Goes
  <2>4. note'[n].refund = "processed"
    BY <2>3 DEF Marks
  <2> QED BY <1>2, <2>1, <2>2, <2>3, <2>4 DEF Marks, Frozen
<1>15. ASSUME NEW n \in Notes, GatewaySettles(n)
       PROVE  CalmTaxes'
  <2>1. PICK ok \in BOOLEAN :
            /\ sent[n].state \in (IF ok THEN {"pending"} ELSE {"pending", "succeeded"})
            /\ sent' = [sent EXCEPT ![n].state = IF ok THEN "succeeded" ELSE "failed"]
    BY <1>15 DEF GatewaySettles
  <2>2. UNCHANGED <<note, taxed, actor>>
    BY <1>15 DEF GatewaySettles, books
  <2>3. /\ sent'[n].state \in {"succeeded", "failed"}
        /\ \A m \in Notes : m # n => sent'[m].state = sent[m].state
    BY <1>1, <2>1, StateUpdated
  <2>4. \A m \in Notes : sent'[m].state \in TakenNow <=> sent[m].state \in TakenNow
    BY <2>1, <2>3 DEF Calm, TakenNow
  <2>5. Asked' /\ Recorded'
    BY <1>1, <2>2, <2>4 DEF Asked, Recorded
  <2>6. Bookers' /\ Taxes'
    <3>1. /\ \A b \in Actors : Booker(b)' <=> Booker(b)
          /\ \A b \in Actors : Posting(b)' <=> Posting(b)
          /\ \A b \in Actors : Booker(b) => actor[b].note \in Notes
      BY <1>1, <2>2 DEF Booker, Posting, HeldAlone
    <3> QED BY <1>1, <2>2, <2>4, <3>1, BooksStay
  <2> QED BY <2>5, <2>6 DEF CalmTaxes
<1>16. ASSUME NEW a \in Actors, ACHReturned(a)
       PROVE  CalmTaxes'
  BY <1>3, <1>16 DEF ACHReturned, gateway, books
<1>17. ASSUME NEW a \in Actors, RevertApproval(a) \/ RefundPostFails(a) \/ Crash(a)
       PROVE  FALSE
  BY <1>1, <1>17 DEF RevertApproval, RefundPostFails, Crash
<1>18. CASE UNCHANGED vars
  BY <1>3, <1>18 DEF vars, gateway, books
<1> QED BY <1>4, <1>5, <1>6, <1>7, <1>8, <1>9, <1>10, <1>11, <1>12, <1>13, <1>14, <1>15, <1>16, <1>17, <1>18
        DEF Next, Request

\* The inductive invariant of TaxAddsUp.
TaxesInv == OfflineInv /\ (Calm => CalmTaxes)

LEMMA TaxesStart == Init => TaxesInv
<1> SUFFICES ASSUME Init PROVE TaxesInv
  OBVIOUS
<1>1. /\ \A a \in Actors : actor[a].pc = "idle"
      /\ \A n \in Notes : note[n].refund = None /\ sent[n].state = None /\ taxed[n] = 0
      /\ taxed = [n \in Notes |-> 0]
  BY DEF Init, Idle
<1>2. OfflineInv
  BY <1>1 DEF OfflineInv, Online, None
<1>3. Asked /\ Recorded /\ Bookers
  BY <1>1 DEF Asked, Recorded, Bookers, Booker, Posting, TakenNow, None
<1>4. Settled = {} /\ \A a \in Actors : ~Posting(a)
  BY <1>1 DEF Settled, TakenNow, None, Posting
<1>5. SumOver(taxed) = 0
  <2>1. SumOver(taxed) = SumFunctionOnSet(taxed, Notes)
    BY <1>1, SumOverIs
  <2> QED BY <1>1, <2>1, SumZero, RefundsAssumption
<1>6. AmountOf({}) = 0
  <2> DEFINE f == [m \in Notes |-> IF m \in {} THEN note[m].amount ELSE 0]
  <2>1. \A m \in Notes : f[m] = 0
    OBVIOUS
  <2>2. AmountOf({}) = SumFunctionOnSet(f, Notes)
    BY AmountIs
  <2> HIDE DEF f
  <2> QED BY <2>1, <2>2, SumZero, RefundsAssumption
<1>7. Taxes
  BY <1>1, <1>4, <1>5, <1>6 DEF Taxes, RefundTaxPortion
<1> QED BY <1>2, <1>3, <1>7 DEF TaxesInv, CalmTaxes

LEMMA TaxesKeep == TypeInv /\ OnceInv /\ FollowInv /\ TaxesInv /\ [Next]_vars => TaxesInv'
<1> SUFFICES ASSUME TypeInv, OnceInv, FollowInv, TaxesInv, [Next]_vars PROVE TaxesInv'
  OBVIOUS
<1>1. OfflineInv'
  BY OfflineKept DEF TaxesInv
<1>2. ASSUME Calm' PROVE CalmTaxes'
  <2>1. Calm
    BY <1>2, CalmBefore
  <2> QED BY <1>2, <2>1, CalmTaxesKept DEF TaxesInv
<1> QED BY <1>1, <1>2 DEF TaxesInv

\* The slices of RefundTaxSlice booked for refunds that do not overlap sum up to the tax
\* of what was refunded, however many refunds there were and in whatever amounts.
THEOREM TaxSlicesAddUp == Spec => []TaxAddsUp
<1>1. ASSUME TaxesInv PROVE TaxAddsUp
  <2> DEFINE taken == {n \in Notes : sent[n].state \in {"pending", "succeeded"}}
  <2>1. ASSUME faults = 0, Quiet, ~overlapped, \A n \in Notes : sent[n].state # "failed"
        PROVE  SumOver(taxed) = RefundTaxPortion(AmountOf(taken))
    <3>1. Taxes
      BY <1>1, <2>1 DEF TaxesInv, Calm, CalmTaxes
    <3>2. Settled = taken
      BY <2>1 DEF Settled, TakenNow, Quiet, Idle, Booker
    <3> QED BY <3>1, <3>2 DEF Taxes
  <2> QED BY <2>1 DEF TaxAddsUp
<1> QED BY <1>1, TypeStarts, TypeKept, Started, Kept, StartedRight, Followed, TaxesStart, TaxesKeep, PTL
        DEF Spec
==============================================================================
