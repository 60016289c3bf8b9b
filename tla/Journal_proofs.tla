-------------------------- MODULE Journal_proofs --------------------------
(* Lemmas about the operators of Journal: what posting preserves. *)
EXTENDS Journal, FunctionSums, FiniteSetTheorems, WellFoundedInduction, TLAPS

\* A finite nonempty set of occurrences has a latest one.
LEMMA LatestExists ==
    ASSUME NEW S \in SUBSET Nat, IsFiniteSet(S), S # {}
    PROVE  \E m \in S : \A p \in S : p <= m
<1> DEFINE From(s) == {p \in S : p >= s}
           T == {From(s) : s \in S}
<1>1. T \subseteq FiniteSubsetsOf(S)
  <2>1. \A s \in S : From(s) \in SUBSET S
    OBVIOUS
  <2>2. \A s \in S : IsFiniteSet(From(s))
    BY <2>1, FS_Subset
  <2> QED BY <2>1, <2>2 DEF FiniteSubsetsOf
<1>2. T # {}
  OBVIOUS
<1>3. PICK x \in T : \A y \in T : <<y, x>> \notin StrictSubsetOrdering(S)
  BY <1>1, <1>2, FS_StrictSubsetOrderingWellFounded, WFMin
<1>4. PICK m \in S : x = From(m)
  OBVIOUS
<1>5. ASSUME NEW p \in S, ~(p <= m) PROVE FALSE
  <2>1. From(p) \subseteq From(m) /\ From(p) # From(m)
    <3>1. p \in Nat /\ m \in Nat /\ p > m
      BY <1>5
    <3>2. \A q \in S : q >= p => q >= m
      BY <3>1
    <3>3. m \in From(m) /\ m \notin From(p)
      BY <3>1
    <3>4. From(p) \subseteq From(m)
      BY <3>2
    <3> QED BY <3>3, <3>4
  <2>2. <<From(p), x>> \in StrictSubsetOrdering(S)
    BY <2>1, <1>4, <1>1 DEF StrictSubsetOrdering, FiniteSubsetsOf
  <2> QED BY <2>2, <1>3
<1> QED BY <1>5

\* Latest picks a posted occurrence, and none is later.
LEMMA LatestProperty ==
    ASSUME NEW j, IsJournal(j), NEW c \in Codes, DOMAIN j[c] # {}
    PROVE  /\ Latest(j, c) \in DOMAIN j[c]
           /\ \A p \in DOMAIN j[c] : p <= Latest(j, c)
<1>1. DOMAIN j[c] \in SUBSET Nat /\ IsFiniteSet(DOMAIN j[c])
  BY DEF IsJournal
<1>2. \E m \in DOMAIN j[c] : \A p \in DOMAIN j[c] : p <= m
  BY <1>1, LatestExists
<1> QED BY <1>2 DEF Latest

LEMMA CountType ==
    ASSUME NEW j, IsJournal(j), NEW c \in Codes
    PROVE  Count(j, c) \in Nat
BY FS_CardinalityType DEF IsJournal, Count

\* What Post does to one code: the posted occurrences grow by the new legs',
\* and no posted amount ever changes.
LEMMA PostDomain ==
    ASSUME NEW j, NEW legs, NEW c \in Codes
    PROVE  /\ DOMAIN Post(j, legs)[c] = DOMAIN j[c] \cup {l.occ : l \in {m \in legs : m.code = c}}
           /\ \A o \in DOMAIN j[c] : Post(j, legs)[c][o] = j[c][o]
           /\ \A o \in DOMAIN Post(j, legs)[c] \ DOMAIN j[c] :
                \E l \in legs : l.code = c /\ l.occ = o /\ Post(j, legs)[c][o] = l.amount
<1> DEFINE new == {l \in legs : l.code = c}
           occs == {l.occ : l \in new}
<1>1. Post(j, legs)[c] = [o \in DOMAIN j[c] \cup occs |->
                            IF o \in DOMAIN j[c] THEN j[c][o]
                            ELSE (CHOOSE l \in new : l.occ = o).amount]
  BY DEF Post
<1>2. ASSUME NEW o \in occs, o \notin DOMAIN j[c]
      PROVE  \E l \in legs : l.code = c /\ l.occ = o /\ Post(j, legs)[c][o] = l.amount
  <2> DEFINE l == CHOOSE k \in new : k.occ = o
  <2>1. l \in new /\ l.occ = o
    BY <1>2
  <2>2. Post(j, legs)[c][o] = l.amount
    BY <1>1, <1>2
  <2> QED BY <2>1, <2>2
<1> QED BY <1>1, <1>2

\* Posting finitely or infinitely many legs of bounded type keeps a journal a
\* journal, as long as the legs are finitely many.
LEMMA PostIsJournal ==
    ASSUME NEW j, IsJournal(j), NEW legs \in SUBSET Legs, IsFiniteSet(legs)
    PROVE  IsJournal(Post(j, legs))
<1> DEFINE k == Post(j, legs)
<1>1. k = [c \in Codes |-> [o \in DOMAIN k[c] |-> k[c][o]]]
  BY DEF Post
<1>2. ASSUME NEW c \in Codes
      PROVE  /\ IsFiniteSet(DOMAIN k[c])
             /\ \A o \in DOMAIN k[c] : o \in Nat /\ k[c][o] \in Nat
  <2> DEFINE new == {l \in legs : l.code = c}
  <2>1. DOMAIN k[c] = DOMAIN j[c] \cup {l.occ : l \in new}
    BY PostDomain
  <2>2. IsFiniteSet(new)
    BY FS_Subset
  <2>3. IsFiniteSet({l.occ : l \in new})
    <3> DEFINE f == [l \in new |-> l.occ]
    <3>1. f \in Surjection(new, {l.occ : l \in new})
      BY DEF Surjection
    <3> HIDE DEF f, new
    <3> QED BY <2>2, <3>1, FS_Surjection
  <2>4. IsFiniteSet(DOMAIN k[c])
    <3>1. IsFiniteSet(DOMAIN j[c])
      BY DEF IsJournal
    <3> HIDE DEF new, k
    <3> QED BY <2>1, <2>3, <3>1, FS_Union
  <2>5. \A l \in legs : l.occ \in Nat /\ l.amount \in Nat
    BY DEF Legs
  <2>6. ASSUME NEW o \in DOMAIN k[c] PROVE o \in Nat /\ k[c][o] \in Nat
    <3>1. CASE o \in DOMAIN j[c]
      BY <3>1, PostDomain DEF IsJournal
    <3>2. CASE o \notin DOMAIN j[c]
      <4>1. \E l \in legs : l.code = c /\ l.occ = o /\ k[c][o] = l.amount
        BY <3>2, PostDomain
      <4> QED BY <4>1, <2>5
    <3> QED BY <3>1, <3>2
  <2> QED BY <2>4, <2>6
<1> QED BY <1>1, <1>2 DEF IsJournal

LEMMA BetweenPrefixes ==
    ASSUME NEW n \in Nat, NEW S, 0..(n - 1) \subseteq S, S \subseteq 0..n
    PROVE  S = 0..(n - 1) \/ S = 0..n
<1>1. \A o \in 0..n : o \in 0..(n - 1) \/ o = n
  OBVIOUS
<1>2. CASE n \in S
  BY <1>1, <1>2
<1>3. CASE n \notin S
  BY <1>1, <1>3
<1> QED BY <1>2, <1>3

LEMMA PrefixCount ==
    ASSUME NEW n \in Nat
    PROVE  Cardinality(0..(n - 1)) = n /\ Cardinality(0..n) = n + 1
BY FS_Interval

\* Any pending legs may be posted, in any order and however often: bookings and
\* inverses still alternate.
LEMMA PostAlternates ==
    ASSUME NEW j, IsJournal(j), NEW b \in Codes, NEW i \in Codes,
           NEW pending, NEW legs \in SUBSET pending,
           Alternates(j, pending, b, i)
    PROVE  Alternates(Post(j, legs), pending, b, i)
<1> DEFINE k == Post(j, legs)
           n == Count(j, i)
<1>1. n \in Nat
  BY CountType
<1>2. /\ DOMAIN j[b] \subseteq DOMAIN k[b]
      /\ \A o \in DOMAIN k[b] : o \in DOMAIN j[b] \/ o \in 0..n
      /\ \A o \in DOMAIN j[b] : k[b][o] = j[b][o]
  BY PostDomain DEF Alternates
<1>3. DOMAIN k[b] = 0..(n - 1) \/ DOMAIN k[b] = 0..n
  <2>1. 0..(n - 1) \subseteq DOMAIN j[b] /\ DOMAIN j[b] \subseteq 0..n
    BY <1>1 DEF Alternates
  <2>2. 0..(n - 1) \subseteq DOMAIN k[b] /\ DOMAIN k[b] \subseteq 0..n
    BY <1>2, <2>1
  <2> QED BY <1>1, <2>2, BetweenPrefixes
<1>4. /\ DOMAIN j[i] \subseteq DOMAIN k[i]
      /\ \A o \in DOMAIN k[i] : o \in DOMAIN j[i] \/ o \in DOMAIN j[b]
  <2>1. DOMAIN j[i] \subseteq DOMAIN k[i]
    BY PostDomain
  <2>2. ASSUME NEW o \in DOMAIN k[i], o \notin DOMAIN j[i]
        PROVE  o \in DOMAIN j[b]
    <3>1. PICK l \in legs : l.code = i /\ l.occ = o
      BY <2>2, PostDomain
    <3> QED BY <3>1 DEF Alternates
  <2> QED BY <2>1, <2>2
<1>5. \A o \in DOMAIN k[i] : o \in DOMAIN j[b] /\ k[i][o] = j[b][o]
  BY <1>1, PostDomain DEF Alternates
<1>6. DOMAIN k[i] = 0..(n - 1) \/ (DOMAIN k[i] = 0..n /\ DOMAIN j[b] = 0..n)
  <2>1. DOMAIN j[i] = 0..(n - 1)
    BY DEF Alternates
  <2>2. CASE DOMAIN j[b] = 0..(n - 1)
    BY <1>4, <2>1, <2>2
  <2>3. CASE DOMAIN j[b] = 0..n
    <3>1. 0..(n - 1) \subseteq DOMAIN k[i] /\ DOMAIN k[i] \subseteq 0..n
      BY <1>1, <1>4, <2>1, <2>3
    <3> QED BY <1>1, <2>3, <3>1, BetweenPrefixes
  <2> QED BY <2>2, <2>3 DEF Alternates
<1>7. CASE DOMAIN k[i] = 0..(n - 1)
  <2>1. Count(k, i) = n
    BY <1>1, <1>7, PrefixCount DEF Count
  <2> QED BY <1>1, <1>2, <1>3, <1>5, <1>7, <2>1 DEF Alternates
<1>8. CASE DOMAIN k[i] = 0..n /\ DOMAIN j[b] = 0..n
  <2>1. Count(k, i) = n + 1
    BY <1>1, <1>8, PrefixCount DEF Count
  <2>2. DOMAIN k[b] = 0..n
    BY <1>1, <1>2, <1>3, <1>8
  <2> QED BY <1>1, <1>2, <1>5, <1>8, <2>1, <2>2 DEF Alternates
<1> QED BY <1>6, <1>7, <1>8

\* One step of BookingCycle, or none: what posting pending legs does to a pair.
LEMMA PostCycles ==
    ASSUME NEW j, IsJournal(j), NEW b \in Codes, NEW i \in Codes,
           NEW pending, NEW legs \in SUBSET pending, IsJournal(Post(j, legs)),
           Alternates(j, pending, b, i)
    PROVE  LET k == Post(j, legs)
           IN  \/ k[b] = j[b] /\ k[i] = j[i]
               \/ /\ j[b] = j[i] /\ k[i] = j[i]
                  /\ \E n \in DOMAIN k[b] : /\ DOMAIN j[b] = 0..(n - 1) /\ DOMAIN k[b] = 0..n
                                           /\ k[b][n] \in Nat
                  /\ \A o \in DOMAIN j[b] : k[b][o] = j[b][o]
               \/ j[b] # j[i] /\ k[b] = j[b] /\ k[i] = j[b]
<1> DEFINE k == Post(j, legs)
           n == Count(j, i)
<1>1. n \in Nat
  BY CountType
<1>2. \A c \in {b, i} : /\ j[c] = [o \in DOMAIN j[c] |-> j[c][o]]
                        /\ k[c] = [o \in DOMAIN k[c] |-> k[c][o]]
                        /\ \A o \in DOMAIN k[c] : k[c][o] \in Nat
                        /\ DOMAIN j[c] \subseteq DOMAIN k[c]
                        /\ \A o \in DOMAIN j[c] : k[c][o] = j[c][o]
  <2>1. ASSUME NEW c \in Codes
        PROVE  /\ j[c] = [o \in DOMAIN j[c] |-> j[c][o]]
               /\ k[c] = [o \in DOMAIN k[c] |-> k[c][o]]
               /\ \A o \in DOMAIN k[c] : k[c][o] \in Nat
    <3>1. j[c] = [d \in Codes |-> [o \in DOMAIN j[d] |-> j[d][o]]][c]
      BY DEF IsJournal
    <3>2. k[c] = [d \in Codes |-> [o \in DOMAIN k[d] |-> k[d][o]]][c]
      BY DEF IsJournal
    <3>3. \A o \in DOMAIN k[c] : k[c][o] \in Nat
      BY DEF IsJournal
    <3> QED BY <3>1, <3>2, <3>3
  <2> QED BY <2>1, PostDomain
<1>3. /\ DOMAIN j[i] = 0..(n - 1)
      /\ DOMAIN j[b] = 0..(n - 1) \/ DOMAIN j[b] = 0..n
      /\ \A o \in DOMAIN j[i] : j[i][o] = j[b][o]
      /\ DOMAIN k[b] \subseteq DOMAIN j[b] \cup 0..n
      /\ \A o \in DOMAIN k[i] \ DOMAIN j[i] : o \in DOMAIN j[b] /\ k[i][o] = j[b][o]
  <2>1. DOMAIN k[b] \subseteq DOMAIN j[b] \cup 0..n
    BY PostDomain DEF Alternates
  <2>2. \A o \in DOMAIN k[i] \ DOMAIN j[i] : o \in DOMAIN j[b] /\ k[i][o] = j[b][o]
    <3> SUFFICES ASSUME NEW o \in DOMAIN k[i] \ DOMAIN j[i]
                 PROVE  o \in DOMAIN j[b] /\ k[i][o] = j[b][o]
      OBVIOUS
    <3>1. PICK l \in legs : l.code = i /\ l.occ = o /\ k[i][o] = l.amount
      BY PostDomain
    <3> QED BY <3>1 DEF Alternates
  <2> QED BY <2>1, <2>2 DEF Alternates
<1> HIDE DEF k, n
<1>4. CASE DOMAIN j[b] = 0..(n - 1)
  <2>1. j[b] = j[i]
    BY <1>2, <1>3, <1>4
  <2>2. k[i] = j[i]
    <3>1. DOMAIN k[i] = DOMAIN j[i]
      BY <1>2, <1>3, <1>4
    <3> QED BY <1>2, <3>1
  <2>4. DOMAIN k[b] = 0..(n - 1) \/ DOMAIN k[b] = 0..n
    <3>1. 0..(n - 1) \subseteq DOMAIN k[b]
      BY <1>2, <1>4
    <3>2. DOMAIN k[b] \subseteq 0..n
      BY <1>1, <1>3, <1>4
    <3> QED BY <1>1, <3>1, <3>2, BetweenPrefixes
  <2>5. CASE DOMAIN k[b] = 0..(n - 1)
    BY <1>2, <1>4, <2>2, <2>5 DEF k
  <2>6. CASE DOMAIN k[b] = 0..n
    <3>1. n \in 0..n
      BY <1>1
    <3>2. n \in DOMAIN k[b] /\ k[b][n] \in Nat
      BY <1>2, <2>6, <3>1
    <3> QED BY <1>2, <1>4, <2>1, <2>2, <2>6, <3>2 DEF k
  <2> QED BY <2>4, <2>5, <2>6
<1>5. CASE DOMAIN j[b] = 0..n
  <2>1. j[b] # j[i]
    BY <1>1, <1>3, <1>5
  <2>2. k[b] = j[b]
    <3>1. DOMAIN k[b] = DOMAIN j[b]
      BY <1>2, <1>3, <1>5
    <3> QED BY <1>2, <3>1
  <2>3. DOMAIN k[i] = 0..(n - 1) \/ DOMAIN k[i] = 0..n
    <3>1. 0..(n - 1) \subseteq DOMAIN k[i]
      BY <1>2, <1>3
    <3>2. DOMAIN k[i] \subseteq 0..n
      BY <1>1, <1>3, <1>5
    <3> QED BY <1>1, <3>1, <3>2, BetweenPrefixes
  <2>4. CASE DOMAIN k[i] = 0..(n - 1)
    <3>1. k[i] = j[i]
      BY <1>2, <1>3, <2>4
    <3> QED BY <2>2, <3>1 DEF k
  <2>5. CASE DOMAIN k[i] = 0..n
    <3>1. \A o \in 0..n : k[i][o] = j[b][o]
      BY <1>2, <1>3, <2>5
    <3>2. k[i] = j[b]
      BY <1>2, <1>5, <2>5, <3>1
    <3> QED BY <2>1, <2>2, <3>2 DEF k
  <2> QED BY <2>3, <2>4, <2>5
<1> QED BY <1>3, <1>4, <1>5

\* What is posted for a code is a natural number.
LEMMA PostedNat ==
  ASSUME NEW j, IsJournal(j), NEW c \in Codes
  PROVE  Posted(j, c) \in Nat
<1>1. IsFiniteSet(DOMAIN j[c]) /\ \A o \in DOMAIN j[c] : j[c][o] \in Nat
  BY DEF IsJournal
<1>2. SumFunctionOnSet(j[c], DOMAIN j[c]) \in Nat
  BY <1>1, SumNat
<1> QED BY <1>2 DEF Posted, SumFunction

\* The receivable is what is billed and taken back less what is paid, credited and
\* written off; the cash, what was paid less what was taken back.
LEMMA BalanceSums ==
  ASSUME NEW j, IsJournal(j)
  PROVE  LET P(c) == Posted(j, c)
         IN  /\ Balance(j, "AR") =
                  (P("invoice") + P("reversal") + P("recovery") + P("recoveryTax") + P("badDebtRecovery"))
                - (P("payment") + P("credit") + P("tds") + P("drain")
                     + (P("writeOff") + P("writeOffTax") + P("badDebt")))
             /\ Balance(j, "Cash") = P("payment") - P("reversal")
<1> DEFINE P(c) == Posted(j, c)
<1>0. PICK f : f = [c \in Codes |-> P(c)]
  OBVIOUS
<1>1. Codes = {"invoice", "payment", "tax", "credit", "tds", "drain", "reversal", "writeOff",
               "writeOffTax", "recovery", "recoveryTax", "badDebt", "badDebtRecovery"}
  BY DEF Codes, Entry
<1>2. /\ {c \in Codes : Entry[c].dr = "AR"} = {"invoice", "reversal", "recovery", "recoveryTax", "badDebtRecovery"}
      /\ {c \in Codes : Entry[c].dr = "Cash"} = {"payment"}
      /\ {c \in Codes : Entry[c].cr = "Cash"} = {"reversal"}
      /\ {c \in Codes : Entry[c].cr = "AR"} = {"payment", "credit", "tds", "drain", "writeOff"} \cup {"writeOffTax"} \cup {"badDebt"}
  BY <1>1 DEF Entry
<1>3. \A c \in Codes : f[c] \in Int /\ f[c] = P(c)
  BY <1>0, PostedNat
<1> DEFINE D0 == {}
<1>20. /\ IsFiniteSet(D0) /\ SumFunctionOnSet(f, D0) = 0 /\ D0 = {}
  BY FS_EmptySet, SumEmpty
<1> HIDE DEF D0
<1> DEFINE D1 == D0 \cup {"invoice"}
<1>21. /\ IsFiniteSet(D1) /\ D1 = {"invoice"}
      /\ SumFunctionOnSet(f, D1) = f["invoice"]
  <2>1. "invoice" \in Codes /\ "invoice" \notin D0 /\ \A e \in D0 \cup {"invoice"} : f[e] \in Int
    BY <1>1, <1>3, <1>20
  <2>2. IsFiniteSet(D1) /\ SumFunctionOnSet(f, D1) = f["invoice"] + SumFunctionOnSet(f, D0)
    BY <1>20, <2>1, SumAdd
  <2> QED BY <1>3, <1>20, <2>1, <2>2
<1> HIDE DEF D1
<1> DEFINE D2 == D1 \cup {"reversal"}
<1>22. /\ IsFiniteSet(D2) /\ D2 = {"invoice", "reversal"}
      /\ SumFunctionOnSet(f, D2) = f["invoice"] + f["reversal"]
  <2>1. "reversal" \in Codes /\ "reversal" \notin D1 /\ \A e \in D1 \cup {"reversal"} : f[e] \in Int
    BY <1>1, <1>3, <1>21
  <2>2. IsFiniteSet(D2) /\ SumFunctionOnSet(f, D2) = f["reversal"] + SumFunctionOnSet(f, D1)
    BY <1>21, <2>1, SumAdd
  <2> QED BY <1>3, <1>21, <2>1, <2>2
<1> HIDE DEF D2
<1> DEFINE D3 == D2 \cup {"recovery"}
<1>23. /\ IsFiniteSet(D3) /\ D3 = {"invoice", "reversal", "recovery"}
      /\ SumFunctionOnSet(f, D3) = f["invoice"] + f["reversal"] + f["recovery"]
  <2>1. "recovery" \in Codes /\ "recovery" \notin D2 /\ \A e \in D2 \cup {"recovery"} : f[e] \in Int
    BY <1>1, <1>3, <1>22
  <2>2. IsFiniteSet(D3) /\ SumFunctionOnSet(f, D3) = f["recovery"] + SumFunctionOnSet(f, D2)
    BY <1>22, <2>1, SumAdd
  <2> QED BY <1>3, <1>22, <2>1, <2>2
<1> HIDE DEF D3
<1> DEFINE D4 == D3 \cup {"recoveryTax"}
<1>24. /\ IsFiniteSet(D4) /\ D4 = {"invoice", "reversal", "recovery", "recoveryTax"}
      /\ SumFunctionOnSet(f, D4) = f["invoice"] + f["reversal"] + f["recovery"] + f["recoveryTax"]
  <2>1. "recoveryTax" \in Codes /\ "recoveryTax" \notin D3 /\ \A e \in D3 \cup {"recoveryTax"} : f[e] \in Int
    BY <1>1, <1>3, <1>23
  <2>2. IsFiniteSet(D4) /\ SumFunctionOnSet(f, D4) = f["recoveryTax"] + SumFunctionOnSet(f, D3)
    BY <1>23, <2>1, SumAdd
  <2> QED BY <1>3, <1>23, <2>1, <2>2
<1> HIDE DEF D4
<1> DEFINE D5 == D4 \cup {"badDebtRecovery"}
<1>25. /\ IsFiniteSet(D5) /\ D5 = {"invoice", "reversal", "recovery", "recoveryTax", "badDebtRecovery"}
      /\ SumFunctionOnSet(f, D5) = f["invoice"] + f["reversal"] + f["recovery"] + f["recoveryTax"] + f["badDebtRecovery"]
  <2>1. "badDebtRecovery" \in Codes /\ "badDebtRecovery" \notin D4 /\ \A e \in D4 \cup {"badDebtRecovery"} : f[e] \in Int
    BY <1>1, <1>3, <1>24
  <2>2. IsFiniteSet(D5) /\ SumFunctionOnSet(f, D5) = f["badDebtRecovery"] + SumFunctionOnSet(f, D4)
    BY <1>24, <2>1, SumAdd
  <2> QED BY <1>3, <1>24, <2>1, <2>2
<1> HIDE DEF D5
<1> DEFINE E0 == {}
<1>26. /\ IsFiniteSet(E0) /\ SumFunctionOnSet(f, E0) = 0 /\ E0 = {}
  BY FS_EmptySet, SumEmpty
<1> HIDE DEF E0
<1> DEFINE E1 == E0 \cup {"payment"}
<1>27. /\ IsFiniteSet(E1) /\ E1 = {"payment"}
      /\ SumFunctionOnSet(f, E1) = f["payment"]
  <2>1. "payment" \in Codes /\ "payment" \notin E0 /\ \A e \in E0 \cup {"payment"} : f[e] \in Int
    BY <1>1, <1>3, <1>26
  <2>2. IsFiniteSet(E1) /\ SumFunctionOnSet(f, E1) = f["payment"] + SumFunctionOnSet(f, E0)
    BY <1>26, <2>1, SumAdd
  <2> QED BY <1>3, <1>26, <2>1, <2>2
<1> HIDE DEF E1
<1> DEFINE E2 == E1 \cup {"credit"}
<1>28. /\ IsFiniteSet(E2) /\ E2 = {"payment", "credit"}
      /\ SumFunctionOnSet(f, E2) = f["payment"] + f["credit"]
  <2>1. "credit" \in Codes /\ "credit" \notin E1 /\ \A e \in E1 \cup {"credit"} : f[e] \in Int
    BY <1>1, <1>3, <1>27
  <2>2. IsFiniteSet(E2) /\ SumFunctionOnSet(f, E2) = f["credit"] + SumFunctionOnSet(f, E1)
    BY <1>27, <2>1, SumAdd
  <2> QED BY <1>3, <1>27, <2>1, <2>2
<1> HIDE DEF E2
<1> DEFINE E3 == E2 \cup {"tds"}
<1>29. /\ IsFiniteSet(E3) /\ E3 = {"payment", "credit", "tds"}
      /\ SumFunctionOnSet(f, E3) = f["payment"] + f["credit"] + f["tds"]
  <2>1. "tds" \in Codes /\ "tds" \notin E2 /\ \A e \in E2 \cup {"tds"} : f[e] \in Int
    BY <1>1, <1>3, <1>28
  <2>2. IsFiniteSet(E3) /\ SumFunctionOnSet(f, E3) = f["tds"] + SumFunctionOnSet(f, E2)
    BY <1>28, <2>1, SumAdd
  <2> QED BY <1>3, <1>28, <2>1, <2>2
<1> HIDE DEF E3
<1> DEFINE E4 == E3 \cup {"drain"}
<1>30. /\ IsFiniteSet(E4) /\ E4 = {"payment", "credit", "tds", "drain"}
      /\ SumFunctionOnSet(f, E4) = f["payment"] + f["credit"] + f["tds"] + f["drain"]
  <2>1. "drain" \in Codes /\ "drain" \notin E3 /\ \A e \in E3 \cup {"drain"} : f[e] \in Int
    BY <1>1, <1>3, <1>29
  <2>2. IsFiniteSet(E4) /\ SumFunctionOnSet(f, E4) = f["drain"] + SumFunctionOnSet(f, E3)
    BY <1>29, <2>1, SumAdd
  <2> QED BY <1>3, <1>29, <2>1, <2>2
<1> HIDE DEF E4
<1> DEFINE E5 == E4 \cup {"writeOff"}
<1>31. /\ IsFiniteSet(E5) /\ E5 = {"payment", "credit", "tds", "drain", "writeOff"}
      /\ SumFunctionOnSet(f, E5) = f["payment"] + f["credit"] + f["tds"] + f["drain"] + f["writeOff"]
  <2>1. "writeOff" \in Codes /\ "writeOff" \notin E4 /\ \A e \in E4 \cup {"writeOff"} : f[e] \in Int
    BY <1>1, <1>3, <1>30
  <2>2. IsFiniteSet(E5) /\ SumFunctionOnSet(f, E5) = f["writeOff"] + SumFunctionOnSet(f, E4)
    BY <1>30, <2>1, SumAdd
  <2> QED BY <1>3, <1>30, <2>1, <2>2
<1> HIDE DEF E5
<1> DEFINE E6 == E5 \cup {"writeOffTax"}
<1>32. /\ IsFiniteSet(E6) /\ E6 = {"payment", "credit", "tds", "drain", "writeOff", "writeOffTax"}
      /\ SumFunctionOnSet(f, E6) = f["payment"] + f["credit"] + f["tds"] + f["drain"] + f["writeOff"] + f["writeOffTax"]
  <2>1. "writeOffTax" \in Codes /\ "writeOffTax" \notin E5 /\ \A e \in E5 \cup {"writeOffTax"} : f[e] \in Int
    BY <1>1, <1>3, <1>31
  <2>2. IsFiniteSet(E6) /\ SumFunctionOnSet(f, E6) = f["writeOffTax"] + SumFunctionOnSet(f, E5)
    BY <1>31, <2>1, SumAdd
  <2> QED BY <1>3, <1>31, <2>1, <2>2
<1> HIDE DEF E6
<1> DEFINE E7 == E6 \cup {"badDebt"}
<1>33. /\ IsFiniteSet(E7) /\ E7 = {"payment", "credit", "tds", "drain", "writeOff", "writeOffTax", "badDebt"}
      /\ SumFunctionOnSet(f, E7) = f["payment"] + f["credit"] + f["tds"] + f["drain"] + f["writeOff"] + f["writeOffTax"] + f["badDebt"]
  <2>1. "badDebt" \in Codes /\ "badDebt" \notin E6 /\ \A e \in E6 \cup {"badDebt"} : f[e] \in Int
    BY <1>1, <1>3, <1>32
  <2>2. IsFiniteSet(E7) /\ SumFunctionOnSet(f, E7) = f["badDebt"] + SumFunctionOnSet(f, E6)
    BY <1>32, <2>1, SumAdd
  <2> QED BY <1>3, <1>32, <2>1, <2>2
<1> HIDE DEF E7
<1>8. \A c \in {"payment", "reversal"} : SumFunctionOnSet(f, {c}) = f[c]
  <2> TAKE c \in {"payment", "reversal"}
  <2>1. f[c] \in Int
    BY <1>1, <1>3
  <2>2. IsFiniteSet({}) /\ c \notin {} /\ (\A x \in {} \cup {c} : f[x] \in Int) /\ {} \cup {c} = {c}
    BY <2>1, FS_EmptySet
  <2>3. SumFunctionOnSet(f, {} \cup {c}) = f[c] + SumFunctionOnSet(f, {})
    BY ONLY <2>2, SumAdd
  <2>4. SumFunctionOnSet(f, {}) = 0
    BY SumEmpty
  <2> QED BY <2>1, <2>2, <2>3, <2>4
<1>9. \A account \in {"AR", "Cash"} : Balance(j, account) =
        SumFunctionOnSet(f, {c \in Codes : Entry[c].dr = account})
      - SumFunctionOnSet(f, {c \in Codes : Entry[c].cr = account})
  BY <1>0 DEF Balance
<1>10. \A c \in {"invoice", "payment", "credit", "tds", "drain", "reversal", "writeOff",
               "writeOffTax", "recovery", "recoveryTax", "badDebt", "badDebtRecovery"} : f[c] = P(c) /\ P(c) \in Int
  BY <1>1, <1>3
<1> HIDE DEF P
<1>11. Balance(j, "Cash") = P("payment") - P("reversal")
  BY <1>2, <1>8, <1>9, <1>10
<1>12. Balance(j, "AR") = (f["invoice"] + f["reversal"] + f["recovery"] + f["recoveryTax"] + f["badDebtRecovery"])
          - (f["payment"] + f["credit"] + f["tds"] + f["drain"] + f["writeOff"] + f["writeOffTax"] + f["badDebt"])
  <2>1. D5 = {c \in Codes : Entry[c].dr = "AR"} /\ E7 = {c \in Codes : Entry[c].cr = "AR"}
    BY <1>2, <1>25, <1>33
  <2> QED BY <2>1, <1>25, <1>33, <1>9
<1>13. Balance(j, "AR") =
                  (P("invoice") + P("reversal") + P("recovery") + P("recoveryTax") + P("badDebtRecovery"))
                - (P("payment") + P("credit") + P("tds") + P("drain")
                     + (P("writeOff") + P("writeOffTax") + P("badDebt")))
  BY <1>10, <1>12
<1> QED BY <1>11, <1>13 DEF P
=============================================================================
