---------------------------- MODULE FunctionSums ----------------------------
(***************************************************************************)
(* What SumFunctionOnSet(f, D) of the community modules comes to on a      *)
(* finite set D.  The library defines it by a fold over a CHOOSEn order;   *)
(* here the fold is unfolded once, and the facts the invariants need       *)
(* follow, each from a smallest subset of D that would refute it.          *)
(***************************************************************************)
EXTENDS Integers, Functions, FiniteSetTheorems, TLAPS

\* g sums f up on every subset of D.
Chosen(s) == CHOOSE x \in s : TRUE
SumStep(g, f, s) == IF s = {} THEN 0 ELSE f[Chosen(s)] + g[s \ {Chosen(s)}]
SumsUp(g, f, D) == g = [s \in SUBSET D |-> SumStep(g, f, s)]

\* The fold, written with the function the library chooses.
LEMMA SumChosen ==
  ASSUME NEW f, NEW D
  PROVE  SumFunctionOnSet(f, D) = (CHOOSE g : SumsUp(g, f, D))[D]
BY Zenon DEF SumFunctionOnSet, FoldFunctionOnSet, MapThenFoldSet, SumsUp, SumStep, Chosen

\* A set that is not empty has a chosen element.
LEMMA ChosenIn == ASSUME NEW s, s # {} PROVE Chosen(s) \in s
BY Zenon DEF Chosen

\* A function that sums up does so on each subset.
LEMMA SumsUpAt ==
  ASSUME NEW g, NEW f, NEW D, SumsUp(g, f, D), NEW s \in SUBSET D
  PROVE  g[s] = SumStep(g, f, s)
<1>1. g = [t \in SUBSET D |-> SumStep(g, f, t)]
  BY DEF SumsUp
<1> DEFINE r == [t \in SUBSET D |-> SumStep(g, f, t)]
<1>2. r[s] = SumStep(g, f, s)
  OBVIOUS
<1>3. g = r
  BY <1>1
<1> HIDE DEF r
<1> QED BY <1>2, <1>3, Zenon

\* A set of subsets of a finite set has a member none of whose parts is in it.
LEMMA MinimalSet ==
  ASSUME NEW D, IsFiniteSet(D), NEW T, T \subseteq SUBSET D, T # {}
  PROVE \E x \in T : \A y \in SUBSET x : y # x => y \notin T
<1>1. FiniteSubsetsOf(D) = SUBSET D
  BY FS_FiniteSubsetsOfFinite
<1>2. IsWellFoundedOn(StrictSubsetOrdering(D), SUBSET D)
  BY <1>1, FS_StrictSubsetOrderingWellFounded
<1>3. \E x \in T : \A y \in T : ~(<<y, x>> \in StrictSubsetOrdering(D))
  BY <1>2, WFMin, Zenon
<1>4. PICK x \in T : \A y \in T : ~(<<y, x>> \in StrictSubsetOrdering(D))
  BY <1>3
<1>5. ASSUME NEW y \in SUBSET x, y # x, y \in T PROVE FALSE
  <2>1. <<y, x>> \in StrictSubsetOrdering(D)
    BY <1>5 DEF StrictSubsetOrdering
  <2> QED BY <2>1, <1>4, <1>5
<1> QED BY <1>4, <1>5

\* Functions that sum up agree where both do.
LEMMA SumsAgree ==
  ASSUME NEW f, NEW A, NEW B, NEW g, NEW h, SumsUp(g, f, A), SumsUp(h, f, B),
         NEW D, IsFiniteSet(D), D \subseteq A, D \subseteq B
  PROVE  g[D] = h[D]
<1> DEFINE T == {s \in SUBSET D : g[s] # h[s]}
<1> SUFFICES ASSUME T # {} PROVE FALSE
  <2>1. D \in SUBSET D
    OBVIOUS
  <2> QED BY <2>1, Zenon
<1>1. PICK s \in T : \A y \in SUBSET s : y # s => y \notin T
  <2>1. T \subseteq SUBSET D
    OBVIOUS
  <2> HIDE DEF T
  <2> QED BY <2>1, MinimalSet
<1>2. s \in SUBSET A /\ s \in SUBSET B /\ s \in SUBSET D /\ g[s] # h[s]
  OBVIOUS
<1>3. g[s] = SumStep(g, f, s) /\ h[s] = SumStep(h, f, s)
  BY <1>2, SumsUpAt, Zenon
<1>4. s # {}
  BY <1>2, <1>3 DEF SumStep
<1>5. g[s \ {Chosen(s)}] = h[s \ {Chosen(s)}]
  <2>1. Chosen(s) \in s
    BY <1>4, ChosenIn
  <2>2. s \ {Chosen(s)} \in SUBSET s /\ s \ {Chosen(s)} # s /\ s \ {Chosen(s)} \in SUBSET D
    BY <2>1, <1>2
  <2> QED BY <2>2, <1>1
<1> QED BY <1>2, <1>3, <1>4, <1>5 DEF SumStep

\* There is a function that sums up.
LEMMA SumsUpExists ==
  ASSUME NEW D, IsFiniteSet(D), NEW f
  PROVE \E g : SumsUp(g, f, D)
<1> DEFINE T == {s \in SUBSET D : ~\E g : SumsUp(g, f, s)}
<1> SUFFICES ASSUME T # {} PROVE FALSE
  <2>1. D \in SUBSET D
    OBVIOUS
  <2> QED BY <2>1, Zenon
<1>1. PICK x \in T : \A y \in SUBSET x : y # x => y \notin T
  <2>1. T \subseteq SUBSET D
    OBVIOUS
  <2> HIDE DEF T
  <2> QED BY <2>1, MinimalSet
<1>2. x \in SUBSET D /\ ~\E g : SumsUp(g, f, x)
  OBVIOUS
<1> DEFINE G(y) == CHOOSE g : SumsUp(g, f, y)
<1>3. ASSUME NEW y \in SUBSET x, y # x PROVE SumsUp(G(y), f, y)
  <2>1. \E g : SumsUp(g, f, y)
    BY <1>1, <1>2, <1>3
  <2> QED BY <2>1, Zenon
<1> HIDE DEF T, G
<1> DEFINE Last == IF x = {} THEN 0 ELSE f[Chosen(x)] + G(x \ {Chosen(x)})[x \ {Chosen(x)}]
           h == [y \in SUBSET x |-> IF y = x THEN Last ELSE G(y)[y]]
<1>4. ASSUME NEW s \in SUBSET x PROVE h[s] = SumStep(h, f, s)
  <2>1. CASE s = {}
    <3>1. h[s] = 0
      <4>1. CASE s = x
        BY <4>1, <2>1
      <4>2. CASE s # x
        <5>1. G(s)[s] = SumStep(G(s), f, s)
          <6>1. s \in SUBSET s
            OBVIOUS
          <6> QED BY <4>2, <1>3, SumsUpAt, <6>1
        <5> QED BY <5>1, <2>1, <4>2 DEF SumStep
      <4> QED BY <4>1, <4>2
    <3> HIDE DEF h
    <3> QED BY <3>1, <2>1 DEF SumStep
  <2>2. CASE s # {}
    <3> DEFINE r == s \ {Chosen(s)}
    <3>1. r \in SUBSET s /\ r # s /\ r \in SUBSET x /\ r # x
      BY <2>2, ChosenIn
    <3>2. h[r] = G(r)[r]
      <4> HIDE DEF r
      <4> QED BY <3>1
    <3>3. h[s] = f[Chosen(s)] + h[r]
      <4>1. CASE s = x
        <5>1. h[s] = f[Chosen(s)] + G(r)[r]
          BY <4>1, <2>2
        <5> HIDE DEF h, r
        <5> QED BY <5>1, <3>2
      <4>2. CASE s # x
        <5>1. h[s] = G(s)[s]
          BY <4>2
        <5>2. G(s)[s] = f[Chosen(s)] + G(s)[r]
          <6>1. s \in SUBSET s
            OBVIOUS
          <6>2. G(s)[s] = SumStep(G(s), f, s)
            BY <4>2, <1>3, SumsUpAt, <6>1
          <6> QED BY <6>2, <2>2 DEF SumStep
        <5>3. G(s)[r] = G(r)[r]
          <6>1. IsFiniteSet(r)
            BY <3>1, <1>2, FS_Subset
          <6>2. SumsUp(G(s), f, s) /\ SumsUp(G(r), f, r)
            BY <4>2, <3>1, <1>3
          <6> HIDE DEF r
          <6> QED BY <6>1, <6>2, <3>1, SumsAgree
        <5> HIDE DEF h, r
        <5> QED BY <5>1, <5>2, <5>3, <3>2
      <4> QED BY <4>1, <4>2
    <3> HIDE DEF h
    <3> QED BY <3>3, <2>2 DEF SumStep
  <2> QED BY <2>1, <2>2
<1>5. h = [s \in SUBSET x |-> h[s]]
  OBVIOUS
<1> HIDE DEF h
<1>6. h = [s \in SUBSET x |-> SumStep(h, f, s)]
  BY <1>4, <1>5
<1> QED BY <1>2, <1>6 DEF SumsUp

\* One step of the fold.
LEMMA SumUnfold ==
  ASSUME NEW D, IsFiniteSet(D), NEW f
  PROVE  SumFunctionOnSet(f, D) = IF D = {} THEN 0
            ELSE f[Chosen(D)] + SumFunctionOnSet(f, D \ {Chosen(D)})
<1> DEFINE G(y) == CHOOSE g : SumsUp(g, f, y)
           r == D \ {Chosen(D)}
<1>1. IsFiniteSet(r) /\ r \subseteq D
  BY FS_Subset
<1>2. SumsUp(G(D), f, D) /\ SumsUp(G(r), f, r)
  <2> HIDE DEF r
  <2>1. \E g : SumsUp(g, f, D)
    BY SumsUpExists
  <2>2. \E g : SumsUp(g, f, r)
    BY <1>1, SumsUpExists
  <2> QED BY <2>1, <2>2, Zenon
<1>3. SumFunctionOnSet(f, D) = G(D)[D] /\ SumFunctionOnSet(f, r) = G(r)[r]
  BY SumChosen
<1> HIDE DEF G
<1>4. G(D)[D] = SumStep(G(D), f, D)
  <2>1. D \in SUBSET D
    OBVIOUS
  <2> QED BY <1>2, <2>1, SumsUpAt
<1>5. G(D)[r] = G(r)[r]
  <2> HIDE DEF r
  <2> QED BY <1>1, <1>2, SumsAgree
<1> QED BY <1>3, <1>4, <1>5 DEF SumStep

\* Nothing adds up to 0.
LEMMA SumEmpty == ASSUME NEW f PROVE SumFunctionOnSet(f, {}) = 0
BY SumUnfold, FS_EmptySet

\* Integers add up to an integer.
LEMMA SumInt ==
  ASSUME NEW D, IsFiniteSet(D), NEW f, \A d \in D : f[d] \in Int
  PROVE  SumFunctionOnSet(f, D) \in Int
<1> DEFINE T == {s \in SUBSET D : SumFunctionOnSet(f, s) \notin Int}
<1> SUFFICES ASSUME T # {} PROVE FALSE
  <2>1. D \in SUBSET D
    OBVIOUS
  <2> QED BY <2>1, Zenon
<1>1. PICK x \in T : \A y \in SUBSET x : y # x => y \notin T
  <2>1. T \subseteq SUBSET D
    OBVIOUS
  <2> HIDE DEF T
  <2> QED BY <2>1, MinimalSet
<1>2. x \in SUBSET D /\ SumFunctionOnSet(f, x) \notin Int
  OBVIOUS
<1>3. IsFiniteSet(x)
  BY <1>2, FS_Subset
<1>4. x # {}
  BY <1>2, SumEmpty
<1>5. Chosen(x) \in x
  BY <1>4, ChosenIn
<1>6. SumFunctionOnSet(f, x \ {Chosen(x)}) \in Int
  <2>1. x \ {Chosen(x)} \in SUBSET x /\ x \ {Chosen(x)} # x /\ x \ {Chosen(x)} \in SUBSET D
    BY <1>5, <1>2
  <2> QED BY <2>1, <1>1
<1>7. SumFunctionOnSet(f, x) = f[Chosen(x)] + SumFunctionOnSet(f, x \ {Chosen(x)})
  BY <1>3, <1>4, SumUnfold
<1> QED BY <1>2, <1>5, <1>6, <1>7

\* Any element can be taken first, not only the chosen one.
LEMMA SumRemove ==
  ASSUME NEW D, IsFiniteSet(D), NEW f, \A d \in D : f[d] \in Int, NEW d \in D
  PROVE  SumFunctionOnSet(f, D) = f[d] + SumFunctionOnSet(f, D \ {d})
<1> DEFINE Good(s) == \A e \in s : SumFunctionOnSet(f, s) = f[e] + SumFunctionOnSet(f, s \ {e})
           T == {s \in SUBSET D : ~Good(s)}
<1> SUFFICES ASSUME T # {} PROVE FALSE
  <2>1. D \in SUBSET D
    OBVIOUS
  <2>2. Good(D)
    BY <2>1
  <2> QED BY <2>2
<1>1. PICK x \in T : \A y \in SUBSET x : y # x => y \notin T
  <2>1. T \subseteq SUBSET D
    OBVIOUS
  <2> HIDE DEF T
  <2> QED BY <2>1, MinimalSet
<1>2. x \in SUBSET D /\ ~Good(x)
  OBVIOUS
<1>3. ASSUME NEW y \in SUBSET x, y # x PROVE Good(y)
  BY <1>1, <1>2, <1>3
<1> HIDE DEF T
<1>4. PICK e \in x : SumFunctionOnSet(f, x) # f[e] + SumFunctionOnSet(f, x \ {e})
  BY <1>2
<1> DEFINE p == Chosen(x)
<1>5. p \in x /\ IsFiniteSet(x)
  BY <1>2, <1>4, ChosenIn, FS_Subset
<1>6. SumFunctionOnSet(f, x) = f[p] + SumFunctionOnSet(f, x \ {p})
  BY <1>4, <1>5, SumUnfold
<1>7. e # p
  BY <1>4, <1>6
<1> HIDE DEF p
<1>8. SumFunctionOnSet(f, x \ {p}) = f[e] + SumFunctionOnSet(f, (x \ {p}) \ {e})
  <2>1. Good(x \ {p})
    <3> HIDE DEF Good
    <3> QED BY <1>3, <1>5
  <2> QED BY <2>1, <1>4, <1>7
<1>9. SumFunctionOnSet(f, x \ {e}) = f[p] + SumFunctionOnSet(f, (x \ {e}) \ {p})
  <2>1. Good(x \ {e})
    <3> HIDE DEF Good
    <3> QED BY <1>3, <1>4
  <2> QED BY <2>1, <1>5, <1>7
<1>10. (x \ {p}) \ {e} = (x \ {e}) \ {p}
  OBVIOUS
<1>11. SumFunctionOnSet(f, (x \ {e}) \ {p}) \in Int
  <2>1. (x \ {e}) \ {p} \subseteq D
    BY <1>2
  <2>2. IsFiniteSet((x \ {e}) \ {p})
    BY <2>1, FS_Subset
  <2> QED BY <2>1, <2>2, SumInt
<1>12. f[e] \in Int /\ f[p] \in Int
  BY <1>2, <1>4, <1>5
<1> DEFINE rest == SumFunctionOnSet(f, (x \ {e}) \ {p})
<1>13. /\ SumFunctionOnSet(f, x \ {p}) = f[e] + rest
       /\ SumFunctionOnSet(f, x \ {e}) = f[p] + rest
  BY <1>8, <1>9, <1>10, Zenon
<1>14. rest \in Int
  BY <1>11
<1> HIDE DEF rest, T, Good
<1> QED BY <1>4, <1>6, <1>12, <1>13, <1>14

\* Equal functions have equal sums.
LEMMA SumSame ==
  ASSUME NEW D, IsFiniteSet(D), NEW f, NEW g, \A d \in D : f[d] = g[d]
  PROVE  SumFunctionOnSet(f, D) = SumFunctionOnSet(g, D)
<1> DEFINE T == {s \in SUBSET D : SumFunctionOnSet(f, s) # SumFunctionOnSet(g, s)}
<1> SUFFICES ASSUME T # {} PROVE FALSE
  <2>1. D \in SUBSET D
    OBVIOUS
  <2> QED BY <2>1, Zenon
<1>1. PICK x \in T : \A y \in SUBSET x : y # x => y \notin T
  <2>1. T \subseteq SUBSET D
    OBVIOUS
  <2> HIDE DEF T
  <2> QED BY <2>1, MinimalSet
<1>2. x \in SUBSET D /\ SumFunctionOnSet(f, x) # SumFunctionOnSet(g, x)
  OBVIOUS
<1>3. IsFiniteSet(x)
  BY <1>2, FS_Subset
<1>4. x # {}
  BY <1>2, SumEmpty
<1>5. Chosen(x) \in x
  BY <1>4, ChosenIn
<1>6. SumFunctionOnSet(f, x \ {Chosen(x)}) = SumFunctionOnSet(g, x \ {Chosen(x)})
  <2>1. x \ {Chosen(x)} \in SUBSET x /\ x \ {Chosen(x)} # x /\ x \ {Chosen(x)} \in SUBSET D
    BY <1>5, <1>2
  <2> QED BY <2>1, <1>1
<1>7. /\ SumFunctionOnSet(f, x) = f[Chosen(x)] + SumFunctionOnSet(f, x \ {Chosen(x)})
      /\ SumFunctionOnSet(g, x) = g[Chosen(x)] + SumFunctionOnSet(g, x \ {Chosen(x)})
  BY <1>3, <1>4, SumUnfold
<1> QED BY <1>2, <1>5, <1>6, <1>7

\* A sum of less is not more.
LEMMA SumAtMost ==
  ASSUME NEW D, IsFiniteSet(D), NEW f, NEW g,
         \A d \in D : f[d] \in Int /\ g[d] \in Int /\ f[d] <= g[d]
  PROVE  SumFunctionOnSet(f, D) <= SumFunctionOnSet(g, D)
<1> DEFINE T == {s \in SUBSET D : ~(SumFunctionOnSet(f, s) <= SumFunctionOnSet(g, s))}
<1> SUFFICES ASSUME T # {} PROVE FALSE
  <2>1. D \in SUBSET D
    OBVIOUS
  <2> QED BY <2>1, Zenon
<1>1. PICK x \in T : \A y \in SUBSET x : y # x => y \notin T
  <2>1. T \subseteq SUBSET D
    OBVIOUS
  <2> HIDE DEF T
  <2> QED BY <2>1, MinimalSet
<1>2. x \in SUBSET D /\ ~(SumFunctionOnSet(f, x) <= SumFunctionOnSet(g, x))
  OBVIOUS
<1>3. IsFiniteSet(x)
  BY <1>2, FS_Subset
<1>4. x # {}
  BY <1>2, SumEmpty
<1> DEFINE p == Chosen(x)
<1>5. p \in x /\ p \in D
  BY <1>2, <1>4, ChosenIn
<1>6. SumFunctionOnSet(f, x \ {p}) <= SumFunctionOnSet(g, x \ {p})
  <2>1. x \ {p} \in SUBSET x /\ x \ {p} # x /\ x \ {p} \in SUBSET D
    BY <1>5, <1>2
  <2> QED BY <2>1, <1>1
<1>7. /\ SumFunctionOnSet(f, x) = f[p] + SumFunctionOnSet(f, x \ {p})
      /\ SumFunctionOnSet(g, x) = g[p] + SumFunctionOnSet(g, x \ {p})
  BY <1>3, <1>4, SumUnfold
<1>8. SumFunctionOnSet(f, x \ {p}) \in Int /\ SumFunctionOnSet(g, x \ {p}) \in Int
  <2>1. x \ {p} \subseteq D /\ IsFiniteSet(x \ {p})
    BY <1>2, FS_Subset
  <2>2. \A d \in x \ {p} : f[d] \in Int /\ g[d] \in Int
    BY <2>1
  <2> HIDE DEF p
  <2> QED BY <2>1, <2>2, SumInt
<1> QED BY <1>2, <1>5, <1>6, <1>7, <1>8

\* Zeros add up to 0.
LEMMA SumZero ==
  ASSUME NEW D, IsFiniteSet(D), NEW f, \A d \in D : f[d] = 0
  PROVE  SumFunctionOnSet(f, D) = 0
<1> DEFINE T == {s \in SUBSET D : SumFunctionOnSet(f, s) # 0}
<1> SUFFICES ASSUME T # {} PROVE FALSE
  <2>1. D \in SUBSET D
    OBVIOUS
  <2> QED BY <2>1, Zenon
<1>1. PICK x \in T : \A y \in SUBSET x : y # x => y \notin T
  <2>1. T \subseteq SUBSET D
    OBVIOUS
  <2> HIDE DEF T
  <2> QED BY <2>1, MinimalSet
<1>2. x \in SUBSET D /\ SumFunctionOnSet(f, x) # 0
  OBVIOUS
<1>3. IsFiniteSet(x)
  BY <1>2, FS_Subset
<1>4. x # {}
  BY <1>2, SumEmpty
<1>5. Chosen(x) \in x
  BY <1>4, ChosenIn
<1>6. SumFunctionOnSet(f, x \ {Chosen(x)}) = 0
  <2>1. x \ {Chosen(x)} \in SUBSET x /\ x \ {Chosen(x)} # x /\ x \ {Chosen(x)} \in SUBSET D
    BY <1>5, <1>2
  <2> QED BY <2>1, <1>1
<1>7. SumFunctionOnSet(f, x) = f[Chosen(x)] + SumFunctionOnSet(f, x \ {Chosen(x)})
  BY <1>3, <1>4, SumUnfold
<1> QED BY <1>2, <1>5, <1>6, <1>7

\* Naturals add up to a natural ...
LEMMA SumNat ==
  ASSUME NEW D, IsFiniteSet(D), NEW f, \A d \in D : f[d] \in Nat
  PROVE  SumFunctionOnSet(f, D) \in Nat
<1> DEFINE z == [d \in D |-> 0]
<1>1. SumFunctionOnSet(z, D) = 0
  <2>1. \A d \in D : z[d] = 0
    OBVIOUS
  <2> HIDE DEF z
  <2> QED BY <2>1, SumZero
<1>2. SumFunctionOnSet(z, D) <= SumFunctionOnSet(f, D)
  <2>1. \A d \in D : z[d] \in Int /\ f[d] \in Int /\ z[d] <= f[d]
    OBVIOUS
  <2> HIDE DEF z
  <2> QED BY <2>1, SumAtMost
<1>3. SumFunctionOnSet(f, D) \in Int
  BY SumInt
<1> QED BY <1>1, <1>2, <1>3

\* ... that none of them exceeds.
LEMMA SumPart ==
  ASSUME NEW D, IsFiniteSet(D), NEW f, \A d \in D : f[d] \in Nat, NEW d \in D
  PROVE  f[d] <= SumFunctionOnSet(f, D)
<1>1. SumFunctionOnSet(f, D) = f[d] + SumFunctionOnSet(f, D \ {d})
  BY SumRemove
<1>2. SumFunctionOnSet(f, D \ {d}) \in Nat
  <2>1. IsFiniteSet(D \ {d})
    BY FS_Subset
  <2> QED BY <2>1, SumNat
<1> QED BY <1>1, <1>2

\* A sum one of whose terms changes.
LEMMA SumReplace ==
  ASSUME NEW D, IsFiniteSet(D), NEW d \in D, NEW f, NEW g,
         \A e \in D : f[e] \in Int /\ g[e] \in Int,
         \A e \in D : e # d => g[e] = f[e]
  PROVE  SumFunctionOnSet(g, D) = SumFunctionOnSet(f, D) - f[d] + g[d]
<1> DEFINE r == D \ {d}
<1>1. IsFiniteSet(r) /\ \A e \in r : e \in D /\ g[e] = f[e]
  BY FS_Subset
<1>2. SumFunctionOnSet(f, D) = f[d] + SumFunctionOnSet(f, r) /\ SumFunctionOnSet(g, D) = g[d] + SumFunctionOnSet(g, r)
  BY SumRemove
<1> HIDE DEF r
<1>3. SumFunctionOnSet(f, r) = SumFunctionOnSet(g, r) /\ SumFunctionOnSet(f, r) \in Int
  BY <1>1, SumSame, SumInt
<1> QED BY <1>2, <1>3

\* The sum of a sum of functions.
LEMMA SumOfSums ==
  ASSUME NEW D, IsFiniteSet(D), NEW f, NEW g, NEW h,
         \A d \in D : f[d] \in Int /\ g[d] \in Int /\ h[d] = f[d] + g[d]
  PROVE  SumFunctionOnSet(h, D) = SumFunctionOnSet(f, D) + SumFunctionOnSet(g, D)
<1> DEFINE T == {s \in SUBSET D : SumFunctionOnSet(h, s) # SumFunctionOnSet(f, s) + SumFunctionOnSet(g, s)}
<1> SUFFICES ASSUME T # {} PROVE FALSE
  <2>1. D \in SUBSET D
    OBVIOUS
  <2> QED BY <2>1, Zenon
<1>1. PICK x \in T : \A y \in SUBSET x : y # x => y \notin T
  <2>1. T \subseteq SUBSET D
    OBVIOUS
  <2> HIDE DEF T
  <2> QED BY <2>1, MinimalSet
<1>2. x \in SUBSET D /\ SumFunctionOnSet(h, x) # SumFunctionOnSet(f, x) + SumFunctionOnSet(g, x)
  OBVIOUS
<1>3. IsFiniteSet(x)
  BY <1>2, FS_Subset
<1>4. x # {}
  BY <1>2, SumEmpty
<1> DEFINE p == Chosen(x)
<1>5. p \in x /\ p \in D
  BY <1>2, <1>4, ChosenIn
<1>6. SumFunctionOnSet(h, x \ {p}) = SumFunctionOnSet(f, x \ {p}) + SumFunctionOnSet(g, x \ {p})
  <2>1. x \ {p} \in SUBSET x /\ x \ {p} # x /\ x \ {p} \in SUBSET D
    BY <1>5, <1>2
  <2> QED BY <2>1, <1>1
<1>7. /\ SumFunctionOnSet(f, x) = f[p] + SumFunctionOnSet(f, x \ {p})
      /\ SumFunctionOnSet(g, x) = g[p] + SumFunctionOnSet(g, x \ {p})
      /\ SumFunctionOnSet(h, x) = h[p] + SumFunctionOnSet(h, x \ {p})
  BY <1>3, <1>4, SumUnfold
<1>8. SumFunctionOnSet(f, x \ {p}) \in Int /\ SumFunctionOnSet(g, x \ {p}) \in Int
  <2>1. x \ {p} \subseteq D /\ IsFiniteSet(x \ {p})
    BY <1>2, FS_Subset
  <2>2. \A d \in x \ {p} : f[d] \in Int /\ g[d] \in Int
    BY <2>1
  <2> HIDE DEF p
  <2> QED BY <2>1, <2>2, SumInt
<1>9. f[p] \in Int /\ g[p] \in Int /\ h[p] = f[p] + g[p]
  BY <1>5
<1> HIDE DEF p, T
<1> QED BY <1>2, <1>6, <1>7, <1>8, <1>9

\* One more summand ...
LEMMA SumAdd ==
  ASSUME NEW S, IsFiniteSet(S), NEW d, d \notin S, NEW f, \A e \in S \cup {d} : f[e] \in Int
  PROVE  /\ SumFunctionOnSet(f, S \cup {d}) = f[d] + SumFunctionOnSet(f, S)
         /\ IsFiniteSet(S \cup {d}) /\ SumFunctionOnSet(f, S) \in Int
<1>1. IsFiniteSet(S \cup {d})
  BY FS_AddElement
<1>2. (S \cup {d}) \ {d} = S
  OBVIOUS
<1> QED BY <1>1, <1>2, SumRemove, SumInt

\* A part of naturals adds up to no more than all of them.
LEMMA SumSubset ==
  ASSUME NEW D, IsFiniteSet(D), NEW f, \A d \in D : f[d] \in Nat, NEW V \in SUBSET D
  PROVE  SumFunctionOnSet(f, V) <= SumFunctionOnSet(f, D)
<1> DEFINE T == {s \in SUBSET D : V \subseteq s /\ ~(SumFunctionOnSet(f, V) <= SumFunctionOnSet(f, s))}
<1> SUFFICES ASSUME T # {} PROVE FALSE
  <2>1. D \in SUBSET D
    OBVIOUS
  <2> QED BY <2>1, Zenon
<1>1. PICK x \in T : \A y \in SUBSET x : y # x => y \notin T
  <2>1. T \subseteq SUBSET D
    OBVIOUS
  <2> HIDE DEF T
  <2> QED BY <2>1, MinimalSet
<1>2. x \in SUBSET D /\ V \subseteq x /\ ~(SumFunctionOnSet(f, V) <= SumFunctionOnSet(f, x))
  OBVIOUS
<1>3. IsFiniteSet(V) /\ IsFiniteSet(x)
  BY <1>2, FS_Subset
<1>4. SumFunctionOnSet(f, V) \in Nat /\ SumFunctionOnSet(f, x) \in Nat
  BY <1>2, <1>3, SumNat
<1>5. PICK e \in x : e \notin V
  BY <1>2, <1>4
<1> DEFINE y == x \ {e}
<1>6. SumFunctionOnSet(f, x) = f[e] + SumFunctionOnSet(f, y)
  BY <1>2, <1>3, SumRemove
<1>7. y \in SUBSET x /\ y # x /\ y \in SUBSET D /\ V \subseteq y
  BY <1>2, <1>5
<1>8. SumFunctionOnSet(f, V) <= SumFunctionOnSet(f, y)
  BY <1>1, <1>7
<1>9. SumFunctionOnSet(f, y) \in Nat
  <2>1. IsFiniteSet(y) /\ \A d \in y : f[d] \in Nat
    BY <1>2, <1>3, FS_Subset
  <2> HIDE DEF y
  <2> QED BY <2>1, SumNat
<1>10. f[e] \in Nat
  BY <1>2
<1> HIDE DEF y, T
<1> QED BY <1>2, <1>4, <1>6, <1>8, <1>9, <1>10
=============================================================================
