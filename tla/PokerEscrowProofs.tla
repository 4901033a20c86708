------------------------- MODULE PokerEscrowProofs -------------------------
(***************************************************************************)
(* The contract's money adds up for any number of accounts, seats, buy-ins *)
(* and outcomes: proofs of RefundsCovered, SettledToTheChip and            *)
(* DisputesGoThrough. Total and FoldLeft are folds over sets, and what     *)
(* such a fold returns is proved first, by induction over finite sets.     *)
(***************************************************************************)
EXTENDS PokerEscrow, FiniteSetTheorems, WellFoundedInduction, TLAPS

-----------------------------------------------------------------------------
(* Sums over finite sets *)

\* Induction over the subsets of a finite set, for a set of them rather than a
\* predicate.
LEMMA SubsetInduction ==
  ASSUME NEW D, IsFiniteSet(D), NEW C \in SUBSET (SUBSET D),
         \A S \in SUBSET D : (\A U \in SUBSET S : U # S => U \in C) => S \in C
  PROVE  C = SUBSET D
<1> SUFFICES ASSUME (SUBSET D) \ C # {} PROVE FALSE
  OBVIOUS
<1>1. FiniteSubsetsOf(D) = SUBSET D
  BY FS_FiniteSubsetsOfFinite
<1>2. IsWellFoundedOn(StrictSubsetOrdering(D), SUBSET D)
  <2>1. IsWellFoundedOn(StrictSubsetOrdering(D), FiniteSubsetsOf(D))
    BY FS_StrictSubsetOrderingWellFounded
  <2> QED BY <1>1, <2>1
<1>3. PICK S \in (SUBSET D) \ C :
        \A U \in (SUBSET D) \ C : ~ (<<U, S>> \in StrictSubsetOrdering(D))
  <2> DEFINE T == (SUBSET D) \ C
             R == StrictSubsetOrdering(D)
  <2>1. IsWellFoundedOn(R, SUBSET D) /\ T \subseteq SUBSET D /\ T # {}
    BY <1>2
  <2> HIDE DEF T, R
  <2>2. \E S \in T : \A U \in T : ~ (<<U, S>> \in R)
    BY <2>1, WFMin
  <2> QED BY <2>2 DEF T, R
<1>4. \A U \in SUBSET S : U # S => U \in C
  BY <1>3 DEF StrictSubsetOrdering
<1> QED BY <1>3, <1>4

\* g adds up f over every subset of S, an element chosen by pick at a time.
Adds(g, f, pick, S) ==
  \A s \in SUBSET S :
    g[s] = IF s = {} THEN 0 ELSE f[pick[s]] + g[s \ {pick[s]}]

Picks(pick, W) == \A s \in SUBSET W : s # {} => pick[s] \in s

LEMMA AddsUnique ==
  ASSUME NEW W, IsFiniteSet(W), NEW f, NEW pick, Picks(pick, W),
         NEW S \in SUBSET W, NEW U \in SUBSET W, NEW g, NEW h,
         Adds(g, f, pick, S), Adds(h, f, pick, U)
  PROVE  \A s \in SUBSET (S \cap U) : g[s] = h[s]
<1> DEFINE D == S \cap U
           C == {s \in SUBSET D : g[s] = h[s]}
<1>1. IsFiniteSet(D)
  BY FS_Subset
<1>2. ASSUME NEW s \in SUBSET D, \A u \in SUBSET s : u # s => u \in C
      PROVE  s \in C
  <2>1. CASE s = {}
    BY <2>1 DEF Adds
  <2>2. CASE s # {}
    <3>1. pick[s] \in s
      BY <2>2 DEF Picks
    <3>2. s \ {pick[s]} \in C
      BY <1>2, <3>1
    <3>3. g[s \ {pick[s]}] = h[s \ {pick[s]}]
      BY <3>2
    <3>4. g[s] = f[pick[s]] + g[s \ {pick[s]}]
      BY <2>2 DEF Adds
    <3>5. h[s] = f[pick[s]] + h[s \ {pick[s]}]
      BY <2>2 DEF Adds
    <3> QED BY <3>3, <3>4, <3>5
  <2> QED BY <2>1, <2>2
<1>3. C = SUBSET D
  <2>1. C \in SUBSET (SUBSET D)
    OBVIOUS
  <2> HIDE DEF C
  <2>2. \A s \in SUBSET D : (\A u \in SUBSET s : u # s => u \in C) => s \in C
    BY <1>2
  <2> HIDE DEF D
  <2> QED BY <1>1, <2>1, <2>2, SubsetInduction
<1> QED BY <1>3

Adding(W, f, pick, S) == CHOOSE g : g \in [SUBSET S -> Int] /\ Adds(g, f, pick, S)

LEMMA AddsExists ==
  ASSUME NEW W, IsFiniteSet(W), NEW f, \A x \in W : f[x] \in Int,
         NEW pick, Picks(pick, W)
  PROVE  \E g \in [SUBSET W -> Int] : Adds(g, f, pick, W)
<1> DEFINE C == {S \in SUBSET W : \E g \in [SUBSET S -> Int] : Adds(g, f, pick, S)}
           G(S) == Adding(W, f, pick, S)
<1>1. ASSUME NEW S \in C
      PROVE  G(S) \in [SUBSET S -> Int] /\ Adds(G(S), f, pick, S)
  BY DEF Adding
<1>2. ASSUME NEW S \in SUBSET W, \A U \in SUBSET S : U # S => U \in C
      PROVE  S \in C
  <2> HIDE DEF C, G
  <2>1. CASE S = {}
    <3> DEFINE g == [s \in SUBSET S |-> 0]
    <3>1. g \in [SUBSET S -> Int] /\ Adds(g, f, pick, S)
      BY <2>1 DEF Adds
    <3> QED BY <3>1 DEF C
  <2>2. CASE S # {}
    <3> DEFINE r == S \ {pick[S]}
               g == [s \in SUBSET S |-> IF s = S THEN f[pick[S]] + G(r)[r] ELSE G(s)[s]]
    <3>1. pick[S] \in S /\ r \in C /\ r \in SUBSET S /\ r # S
      BY <1>2, <2>2 DEF Picks
    <3>2. \A s \in SUBSET S : s # S => G(s) \in [SUBSET s -> Int] /\ Adds(G(s), f, pick, s)
      BY <1>1, <1>2
    <3>3. \A s \in SUBSET S : s # S => G(s)[s] \in Int
      BY <3>2
    <3>4. f[pick[S]] \in Int /\ G(r)[r] \in Int
      BY <3>1, <3>3
    <3> HIDE DEF r
    <3>5. \A s \in SUBSET S : g[s] \in Int
      BY <3>3, <3>4
    <3>6. g \in [SUBSET S -> Int]
      <4> HIDE DEF g
      <4>1. g = [s \in SUBSET S |-> g[s]]
        BY DEF g
      <4> QED BY <3>5, <4>1
    <3>7. ASSUME NEW s \in SUBSET S
          PROVE  g[s] = IF s = {} THEN 0 ELSE f[pick[s]] + g[s \ {pick[s]}]
      <4>1. CASE s = S
        <5>1. g[r] = G(r)[r]
          BY <3>1
        <5> QED BY <2>2, <4>1, <5>1 DEF r
      <4>2. CASE s # S /\ s = {}
        <5>1. G(s)[s] = 0
          BY <3>2, <4>2 DEF Adds
        <5> QED BY <4>2, <5>1
      <4>3. CASE s # S /\ s # {}
        <5> DEFINE q == s \ {pick[s]}
        <5>1. pick[s] \in s
          BY <4>3 DEF Picks
        <5>2. q \in SUBSET S /\ q # S /\ q \in SUBSET s /\ q \in SUBSET W /\ s \in SUBSET W
          BY <5>1
        <5>3. G(s)[s] = f[pick[s]] + G(s)[q]
          BY <3>2, <4>3 DEF Adds
        <5>4. Adds(G(s), f, pick, s) /\ Adds(G(q), f, pick, q)
          BY <3>2, <4>3, <5>2
        <5> HIDE DEF q
        <5>5. G(s)[q] = G(q)[q]
          <6> DEFINE gs == G(s)
                     gq == G(q)
          <6>1. Adds(gs, f, pick, s) /\ Adds(gq, f, pick, q)
            BY <5>4
          <6> HIDE DEF gs, gq
          <6>2. \A u \in SUBSET (s \cap q) : gs[u] = gq[u]
            BY <5>2, <6>1, AddsUnique
          <6>3. gs[q] = gq[q]
            BY <5>2, <6>2
          <6> QED BY <6>3 DEF gs, gq
        <5>6. g[s] = G(s)[s] /\ g[q] = G(q)[q]
          BY <4>3, <5>2
        <5> QED BY <4>3, <5>3, <5>5, <5>6 DEF q
      <4> QED BY <4>1, <4>2, <4>3
    <3> HIDE DEF g
    <3>8. Adds(g, f, pick, S)
      BY <3>7 DEF Adds
    <3> QED BY <3>6, <3>8 DEF C
  <2> QED BY <2>1, <2>2
<1>3. C = SUBSET W
  <2>1. C \in SUBSET (SUBSET W)
    OBVIOUS
  <2> HIDE DEF C
  <2>2. \A S \in SUBSET W : (\A U \in SUBSET S : U # S => U \in C) => S \in C
    BY <1>2
  <2> QED BY <2>1, <2>2, SubsetInduction
<1> QED BY <1>3

\* The order in which MapThenSumSet takes the elements of a set.
SomeOf(W) == [s \in SUBSET W |-> CHOOSE x \in s : TRUE]

LEMMA SomeOfPicks ==
  ASSUME NEW W
  PROVE  Picks(SomeOf(W), W)
<1>1. ASSUME NEW s \in SUBSET W, s # {} PROVE SomeOf(W)[s] \in s
  BY <1>1 DEF SomeOf
<1> QED BY <1>1 DEF Picks

LEMMA TotalAdds ==
  ASSUME NEW W, IsFiniteSet(W), NEW f, \A x \in W : f[x] \in Int
  PROVE  \E g \in [SUBSET W -> Int] : Adds(g, f, SomeOf(W), W) /\ Total(f, W) = g[W]
<1> DEFINE B(g) == [s \in SUBSET W |-> IF s = {} THEN 0
                      ELSE f[CHOOSE x \in s : TRUE] + g[s \ {CHOOSE x \in s : TRUE}]]
           iter == CHOOSE g : g = B(g)
<1>1. Total(f, W) = iter[W]
  BY DEF Total, MapThenSumSet, MapThenFoldSet
<1>2. PICK g \in [SUBSET W -> Int] : Adds(g, f, SomeOf(W), W)
  BY SomeOfPicks, AddsExists
<1>3. g = B(g)
  <2>1. \A s \in SUBSET W : g[s] = B(g)[s]
    BY <1>2 DEF Adds, SomeOf
  <2>2. g = [s \in SUBSET W |-> g[s]]
    BY <1>2
  <2> QED BY <2>1, <2>2
<1>4. iter = B(iter)
  <2> HIDE DEF B
  <2> QED BY <1>3
<1> HIDE DEF iter
<1>5. \A s \in SUBSET W : iter[s] = IF s = {} THEN 0
                      ELSE f[CHOOSE x \in s : TRUE] + iter[s \ {CHOOSE x \in s : TRUE}]
  BY <1>4
<1>6. Adds(iter, f, SomeOf(W), W)
  BY <1>5 DEF Adds, SomeOf
<1>7. \A s \in SUBSET (W \cap W) : iter[s] = g[s]
  <2>1. W \in SUBSET W
    OBVIOUS
  <2> QED BY <1>2, <1>6, <2>1, SomeOfPicks, AddsUnique
<1>8. iter[W] = g[W]
  BY <1>7
<1> QED BY <1>1, <1>2, <1>8

LEMMA TotalOfNone ==
  ASSUME NEW f
  PROVE  Total(f, {}) = 0
<1>1. IsFiniteSet({})
  BY FS_EmptySet
<1>2. \A x \in {} : f[x] \in Int
  OBVIOUS
<1>3. PICK g \in [SUBSET {} -> Int] : Adds(g, f, SomeOf({}), {}) /\ Total(f, {}) = g[{}]
  BY <1>1, <1>2, TotalAdds
<1> QED BY <1>3 DEF Adds

\* Whatever element MapThenSumSet starts with, the rest is the sum of the rest.
LEMMA TotalFirst ==
  ASSUME NEW W, IsFiniteSet(W), W # {}, NEW f, \A x \in W : f[x] \in Int
  PROVE  \E p \in W : Total(f, W) = f[p] + Total(f, W \ {p}) /\ Total(f, W \ {p}) \in Int
<1> DEFINE p == SomeOf(W)[W]
           V == W \ {p}
<1>1. p \in W /\ V \in SUBSET W /\ W \in SUBSET W
  BY SomeOfPicks DEF Picks
<1>2. PICK g \in [SUBSET W -> Int] : Adds(g, f, SomeOf(W), W) /\ Total(f, W) = g[W]
  BY TotalAdds
<1>3. g[W] = f[p] + g[V]
  BY <1>1, <1>2 DEF Adds
<1> HIDE DEF p, V
<1>4. IsFiniteSet(V) /\ \A x \in V : f[x] \in Int
  BY <1>1, FS_Subset
<1>5. PICK h \in [SUBSET V -> Int] : Adds(h, f, SomeOf(V), V) /\ Total(f, V) = h[V]
  BY <1>4, TotalAdds
<1>6. Adds(h, f, SomeOf(W), V)
  <2>1. \A s \in SUBSET V : SomeOf(V)[s] = SomeOf(W)[s]
    BY <1>1 DEF SomeOf
  <2> QED BY <1>5, <2>1 DEF Adds
<1>7. g[V] = h[V]
  <2>1. \A s \in SUBSET (W \cap V) : g[s] = h[s]
    BY <1>1, <1>2, <1>6, SomeOfPicks, AddsUnique
  <2>2. V \in SUBSET (W \cap V)
    BY <1>1
  <2> QED BY <2>1, <2>2
<1>8. Total(f, W) = f[p] + Total(f, V)
  BY <1>2, <1>3, <1>5, <1>7
<1>9. Total(f, V) \in Int
  <2>1. V \in SUBSET V
    OBVIOUS
  <2> QED BY <1>5, <2>1
<1> QED BY <1>1, <1>8, <1>9 DEF V

\* Any element can be taken out of a sum.
LEMMA TotalTakeOut ==
  ASSUME NEW W, IsFiniteSet(W), NEW f, \A x \in W : f[x] \in Int
  PROVE  /\ Total(f, W) \in Int
         /\ \A x \in W : Total(f, W) = f[x] + Total(f, W \ {x})
<1> DEFINE Good(S) == /\ Total(f, S) \in Int
                      /\ \A x \in S : Total(f, S) = f[x] + Total(f, S \ {x})
           C == {S \in SUBSET W : Good(S)}
<1>1. ASSUME NEW S \in SUBSET W, \A U \in SUBSET S : U # S => U \in C
      PROVE  S \in C
  <2>1. IsFiniteSet(S) /\ \A x \in S : f[x] \in Int
    BY FS_Subset
  <2>2. CASE S = {}
    <3>1. Total(f, S) = 0
      BY <2>2, TotalOfNone
    <3> QED BY <2>2, <3>1
  <2>3. CASE S # {}
    <3>1. PICK p \in S : Total(f, S) = f[p] + Total(f, S \ {p}) /\ Total(f, S \ {p}) \in Int
      BY <2>1, <2>3, TotalFirst
    <3>2. ASSUME NEW x \in S PROVE Total(f, S) = f[x] + Total(f, S \ {x})
      <4>1. CASE x = p
        BY <3>1, <4>1
      <4>2. CASE x # p
        <5> DEFINE Sp == S \ {p}
                   Sx == S \ {x}
                   Spx == S \ {p, x}
        <5>1. /\ Sp \in SUBSET S /\ Sp # S /\ Sx \in SUBSET S /\ Sx # S
              /\ Spx \in SUBSET S /\ Spx # S /\ x \in Sp /\ p \in Sx
              /\ Sp \ {x} = Spx /\ Sx \ {p} = Spx
          BY <4>2
        <5> HIDE DEF Sp, Sx, Spx
        <5>2. Good(Sp) /\ Good(Sx) /\ Good(Spx)
          BY <1>1, <5>1
        <5>3. /\ Total(f, Sp) = f[x] + Total(f, Spx)
              /\ Total(f, Sx) = f[p] + Total(f, Spx)
              /\ Total(f, Spx) \in Int
          BY <5>1, <5>2
        <5>4. Total(f, S) = f[p] + Total(f, Sp)
          BY <3>1 DEF Sp
        <5>5. f[x] \in Int /\ f[p] \in Int
          BY <2>1
        <5>6. Total(f, S) = f[x] + Total(f, Sx)
          BY <5>3, <5>4, <5>5
        <5> QED BY <5>6 DEF Sx
      <4> QED BY <4>1, <4>2
    <3>3. Total(f, S) \in Int
      BY <2>1, <3>1
    <3> QED BY <3>2, <3>3
  <2> QED BY <2>2, <2>3
<1>2. C = SUBSET W
  <2>1. C \in SUBSET (SUBSET W)
    OBVIOUS
  <2> HIDE DEF C
  <2>2. \A S \in SUBSET W : (\A U \in SUBSET S : U # S => U \in C) => S \in C
    BY <1>1
  <2> QED BY <2>1, <2>2, SubsetInduction
<1> QED BY <1>2

LEMMA TotalOfOne ==
  ASSUME NEW f, NEW x, f[x] \in Int
  PROVE  Total(f, {x}) = f[x]
<1>1. IsFiniteSet({x}) /\ \A y \in {x} : f[y] \in Int
  BY FS_Singleton
<1>2. Total(f, {x}) = f[x] + Total(f, {x} \ {x})
  BY <1>1, TotalTakeOut
<1>3. {x} \ {x} = {}
  OBVIOUS
<1> QED BY <1>2, <1>3, TotalOfNone

\* Greater terms make a greater sum.
LEMMA TotalMonotone ==
  ASSUME NEW W, IsFiniteSet(W), NEW f, NEW g,
         \A x \in W : f[x] \in Int /\ g[x] \in Int /\ f[x] <= g[x]
  PROVE  Total(f, W) <= Total(g, W)
<1> DEFINE C == {S \in SUBSET W : Total(f, S) <= Total(g, S)}
<1>1. ASSUME NEW S \in SUBSET W, \A U \in SUBSET S : U # S => U \in C
      PROVE  S \in C
  <2>1. IsFiniteSet(S) /\ (\A x \in S : f[x] \in Int) /\ (\A x \in S : g[x] \in Int)
    BY FS_Subset
  <2>2. CASE S = {}
    <3>1. Total(f, S) = 0 /\ Total(g, S) = 0
      BY <2>2, TotalOfNone
    <3> QED BY <3>1
  <2>3. CASE S # {}
    <3>1. PICK p \in S : TRUE
      BY <2>3
    <3> DEFINE V == S \ {p}
    <3>2. V \in SUBSET S /\ V # S
      BY <3>1
    <3>3. Total(f, S) = f[p] + Total(f, V) /\ Total(g, S) = g[p] + Total(g, V)
      BY <2>1, <3>1, TotalTakeOut
    <3>4. Total(f, V) <= Total(g, V)
      BY <1>1, <3>2
    <3>5. Total(f, V) \in Int /\ Total(g, V) \in Int
      <4>1. IsFiniteSet(V) /\ (\A x \in V : f[x] \in Int) /\ (\A x \in V : g[x] \in Int)
        BY <2>1, <3>2, FS_Subset
      <4> HIDE DEF V
      <4> QED BY <4>1, TotalTakeOut
    <3>6. f[p] \in Int /\ g[p] \in Int /\ f[p] <= g[p]
      BY <3>1
    <3> HIDE DEF V
    <3>7. Total(f, S) <= Total(g, S)
      BY <3>3, <3>4, <3>5, <3>6
    <3> QED BY <3>7
  <2> QED BY <2>2, <2>3
<1>2. C = SUBSET W
  <2>1. C \in SUBSET (SUBSET W)
    OBVIOUS
  <2> HIDE DEF C
  <2>2. \A S \in SUBSET W : (\A U \in SUBSET S : U # S => U \in C) => S \in C
    BY <1>1
  <2> QED BY <2>1, <2>2, SubsetInduction
<1> QED BY <1>2

\* Equal terms make equal sums.
LEMMA TotalSame ==
  ASSUME NEW W, IsFiniteSet(W), NEW f, NEW g, \A x \in W : f[x] \in Int /\ g[x] = f[x]
  PROVE  Total(f, W) = Total(g, W)
<1>1. \A x \in W : f[x] \in Int /\ g[x] \in Int /\ f[x] <= g[x] /\ g[x] <= f[x]
  OBVIOUS
<1>2. Total(f, W) <= Total(g, W) /\ Total(g, W) <= Total(f, W)
  BY <1>1, TotalMonotone
<1>3. Total(f, W) \in Int /\ Total(g, W) \in Int
  BY <1>1, TotalTakeOut
<1> QED BY <1>2, <1>3

\* Terms that are no less and add up to no more are the same.
LEMMA TotalTight ==
  ASSUME NEW W, IsFiniteSet(W), NEW f, NEW g,
         \A x \in W : f[x] \in Int /\ g[x] \in Int /\ f[x] <= g[x],
         Total(g, W) <= Total(f, W), NEW x \in W
  PROVE  f[x] = g[x]
<1> DEFINE V == W \ {x}
<1>1. V \in SUBSET W
  OBVIOUS
<1>2. Total(f, W) = f[x] + Total(f, V) /\ Total(g, W) = g[x] + Total(g, V)
  <2>1. (\A y \in W : f[y] \in Int) /\ (\A y \in W : g[y] \in Int)
    OBVIOUS
  <2> QED BY <2>1, TotalTakeOut
<1>3. IsFiniteSet(V) /\ \A y \in V : f[y] \in Int /\ g[y] \in Int /\ f[y] <= g[y]
  BY <1>1, FS_Subset
<1> HIDE DEF V
<1>4. Total(f, V) <= Total(g, V)
  BY <1>3, TotalMonotone
<1>5. Total(f, V) \in Int /\ Total(g, V) \in Int
  BY <1>3, TotalTakeOut
<1>6. f[x] \in Int /\ g[x] \in Int /\ f[x] <= g[x]
  OBVIOUS
<1> QED BY <1>2, <1>4, <1>5, <1>6

LEMMA TotalPlus ==
  ASSUME NEW W, IsFiniteSet(W), NEW f, NEW g, NEW h,
         \A x \in W : f[x] \in Int /\ g[x] \in Int /\ h[x] = f[x] + g[x]
  PROVE  Total(h, W) = Total(f, W) + Total(g, W)
<1> DEFINE C == {S \in SUBSET W : Total(h, S) = Total(f, S) + Total(g, S)}
<1>1. ASSUME NEW S \in SUBSET W, \A U \in SUBSET S : U # S => U \in C
      PROVE  S \in C
  <2>1. /\ IsFiniteSet(S)
        /\ (\A x \in S : f[x] \in Int) /\ (\A x \in S : g[x] \in Int)
        /\ (\A x \in S : h[x] \in Int)
    BY FS_Subset
  <2>2. CASE S = {}
    <3>1. Total(f, S) = 0 /\ Total(g, S) = 0 /\ Total(h, S) = 0
      BY <2>2, TotalOfNone
    <3> QED BY <3>1
  <2>3. CASE S # {}
    <3>1. PICK p \in S : TRUE
      BY <2>3
    <3> DEFINE V == S \ {p}
    <3>2. V \in SUBSET S /\ V # S
      BY <3>1
    <3>3. /\ Total(f, S) = f[p] + Total(f, V) /\ Total(g, S) = g[p] + Total(g, V)
          /\ Total(h, S) = h[p] + Total(h, V)
      BY <2>1, <3>1, TotalTakeOut
    <3>4. Total(h, V) = Total(f, V) + Total(g, V)
      BY <1>1, <3>2
    <3>5. Total(f, V) \in Int /\ Total(g, V) \in Int
      <4>1. IsFiniteSet(V) /\ (\A x \in V : f[x] \in Int) /\ (\A x \in V : g[x] \in Int)
        BY <2>1, <3>2, FS_Subset
      <4> HIDE DEF V
      <4> QED BY <4>1, TotalTakeOut
    <3>6. f[p] \in Int /\ g[p] \in Int /\ h[p] = f[p] + g[p]
      BY <3>1
    <3> HIDE DEF V
    <3>7. Total(h, S) = Total(f, S) + Total(g, S)
      BY <3>3, <3>4, <3>5, <3>6
    <3> QED BY <3>7
  <2> QED BY <2>2, <2>3
<1>2. C = SUBSET W
  <2>1. C \in SUBSET (SUBSET W)
    OBVIOUS
  <2> HIDE DEF C
  <2>2. \A S \in SUBSET W : (\A U \in SUBSET S : U # S => U \in C) => S \in C
    BY <1>1
  <2> QED BY <2>1, <2>2, SubsetInduction
<1> QED BY <1>2

\* Adding up a sequence from its left end gives the sum of its elements.
GreatestOf(W) == [s \in SUBSET W |-> CHOOSE x \in s : \A y \in s : x >= y]

LEMMA GreatestOfPicks ==
  ASSUME NEW W \in SUBSET Int, IsFiniteSet(W)
  PROVE  Picks(GreatestOf(W), W)
<1> DEFINE C == {S \in SUBSET W : S # {} => \E x \in S : \A y \in S : x >= y}
<1>1. ASSUME NEW S \in SUBSET W, \A U \in SUBSET S : U # S => U \in C
      PROVE  S \in C
  <2> SUFFICES ASSUME S # {} PROVE \E x \in S : \A y \in S : x >= y
    OBVIOUS
  <2>1. PICK p \in S : TRUE
    OBVIOUS
  <2>2. S \ {p} \in C
    BY <1>1, <2>1
  <2>3. CASE S \ {p} = {}
    BY <2>1, <2>3
  <2>4. CASE S \ {p} # {}
    <3>1. PICK x \in S \ {p} : \A y \in S \ {p} : x >= y
      BY <2>2, <2>4
    <3>2. CASE x >= p
      BY <3>1, <3>2
    <3>3. CASE ~ (x >= p)
      <4>1. p >= p /\ \A y \in S \ {p} : p >= y
        BY <3>1, <3>3
      <4> QED BY <4>1
    <3> QED BY <3>2, <3>3
  <2> QED BY <2>3, <2>4
<1>2. C = SUBSET W
  <2>1. C \in SUBSET (SUBSET W)
    OBVIOUS
  <2> HIDE DEF C
  <2>2. \A S \in SUBSET W : (\A U \in SUBSET S : U # S => U \in C) => S \in C
    BY <1>1
  <2> QED BY <2>1, <2>2, SubsetInduction
<1>3. ASSUME NEW s \in SUBSET W, s # {} PROVE GreatestOf(W)[s] \in s
  <2>1. \E x \in s : \A y \in s : x >= y
    BY <1>2, <1>3
  <2> QED BY <2>1 DEF GreatestOf
<1> QED BY <1>3 DEF Picks

LEMMA FoldAddsUp ==
  ASSUME NEW f, DOMAIN f \in SUBSET Int, IsFiniteSet(DOMAIN f), \A x \in DOMAIN f : f[x] \in Int
  PROVE  ChipConservation(f) <=> Total(f, DOMAIN f) = 0
<1> DEFINE W == DOMAIN f
           B(g) == [s \in SUBSET W |-> IF s = {} THEN 0
                      ELSE g[s \ {CHOOSE x \in s : \A y \in s : x >= y}]
                             + f[CHOOSE x \in s : \A y \in s : x >= y]]
           iter == CHOOSE g : g = B(g)
<1>1. ChipConservation(f) <=> iter[W] = 0
  BY DEF ChipConservation, FoldLeft, MapThenFoldSet, Max
<1> HIDE DEF W
<1>2. W \in SUBSET Int /\ IsFiniteSet(W) /\ \A x \in W : f[x] \in Int
  BY DEF W
<1>3. Picks(GreatestOf(W), W)
  BY <1>2, GreatestOfPicks
<1>4. PICK g \in [SUBSET W -> Int] : Adds(g, f, GreatestOf(W), W)
  BY <1>2, <1>3, AddsExists
<1>5. g = B(g)
  <2>1. ASSUME NEW s \in SUBSET W PROVE g[s] = B(g)[s]
    <3> DEFINE p == CHOOSE x \in s : \A y \in s : x >= y
    <3>1. GreatestOf(W)[s] = p
      BY DEF GreatestOf
    <3>2. CASE s = {}
      BY <1>4, <3>2 DEF Adds
    <3>3. CASE s # {}
      <4>1. p \in s
        BY <1>3, <3>1, <3>3 DEF Picks
      <4>2. g[s] = f[p] + g[s \ {p}]
        BY <1>4, <3>1, <3>3 DEF Adds
      <4>3. f[p] \in Int /\ g[s \ {p}] \in Int
        BY <1>2, <1>4, <4>1
      <4>4. B(g)[s] = g[s \ {p}] + f[p]
        BY <3>3
      <4> HIDE DEF p, B
      <4> QED BY <4>2, <4>3, <4>4
    <3> QED BY <3>2, <3>3
  <2>2. g = [s \in SUBSET W |-> g[s]]
    BY <1>4
  <2> QED BY <2>1, <2>2
<1>6. iter = B(iter)
  <2> HIDE DEF B
  <2> QED BY <1>5
<1> HIDE DEF iter
<1> DEFINE C == {S \in SUBSET W : iter[S] = Total(f, S)}
<1>7. ASSUME NEW S \in SUBSET W, \A U \in SUBSET S : U # S => U \in C
      PROVE  S \in C
  <2> DEFINE p == CHOOSE x \in S : \A y \in S : x >= y
             V == S \ {p}
  <2>1. IsFiniteSet(S) /\ \A x \in S : f[x] \in Int
    BY <1>2, FS_Subset
  <2>2. CASE S = {}
    <3>1. iter[S] = 0
      BY <1>6, <2>2
    <3> QED BY <2>2, <3>1, TotalOfNone
  <2>3. CASE S # {}
    <3>1. p \in S
      BY <1>3, <2>3 DEF Picks, GreatestOf
    <3>2. iter[S] = iter[V] + f[p]
      BY <1>6, <2>3
    <3>3. V \in SUBSET S /\ V # S
      BY <3>1
    <3> HIDE DEF p
    <3>4. Total(f, S) = f[p] + Total(f, V)
      BY <2>1, <3>1, TotalTakeOut
    <3> HIDE DEF V
    <3>5. iter[V] = Total(f, V)
      BY <1>7, <3>3
    <3>6. Total(f, V) \in Int /\ f[p] \in Int
      <4>1. IsFiniteSet(V) /\ \A x \in V : f[x] \in Int
        BY <2>1, <3>3, FS_Subset
      <4> QED BY <2>1, <3>1, <4>1, TotalTakeOut
    <3>7. iter[S] = Total(f, S)
      BY <3>2, <3>4, <3>5, <3>6
    <3> QED BY <3>7
  <2> QED BY <2>2, <2>3
<1>8. C = SUBSET W
  <2>1. C \in SUBSET (SUBSET W)
    OBVIOUS
  <2> HIDE DEF C
  <2>2. \A S \in SUBSET W : (\A U \in SUBSET S : U # S => U \in C) => S \in C
    BY <1>7
  <2> QED BY <1>2, <2>1, <2>2, SubsetInduction
<1>9. iter[W] = Total(f, W)
  BY <1>8
<1> QED BY <1>1, <1>9 DEF W

-----------------------------------------------------------------------------
(* The contract *)

Open == {i \in Seats : ~players[i].withdrawn}

\* Every seat has one owner, and money was paid only to seats: until a game
\* ends nobody has been paid, and once it is settled nobody is left to be.
EInv ==
  /\ state \in {"open", "playing", "settled", "abandoned"}
  /\ players \in Seq(Player)
  /\ \A i, j \in Seats : players[i].addr = players[j].addr => i = j
  /\ totalEscrow \in Int /\ balance \in Int
  /\ paid \in [Accounts -> Int]
  /\ state \in {"open", "playing"} => /\ Open = Seats
                                      /\ \A a \in Accounts : paid[a] = 0
  /\ state = "settled" => Open = {} /\ agreed \in [Seats -> Int]
  /\ RefundsCovered
  /\ SettledToTheChip

LEMMA SeatsAreFinite ==
  ASSUME players \in Seq(Player)
  PROVE  /\ IsFiniteSet(Seats) /\ Seats \in SUBSET Int
         /\ \A S \in SUBSET Seats : IsFiniteSet(S)
<1>1. Len(players) \in Int
  OBVIOUS
<1>2. IsFiniteSet(1 .. Len(players))
  BY <1>1, FS_Interval
<1>3. IsFiniteSet(Seats)
  BY <1>2 DEF Seats
<1>4. Seats \in SUBSET Int
  BY <1>1 DEF Seats
<1> QED BY <1>3, <1>4, FS_Subset

\* What a seat is: an account, a positive buy-in and two flags.
LEMMA SeatFacts ==
  ASSUME EInv, NEW i \in Seats
  PROVE  /\ players[i] \in Player /\ players[i].addr \in Accounts
         /\ players[i].buyIn \in Nat /\ players[i].buyIn \in Deposits
         /\ players[i].withdrawn \in BOOLEAN
<1>1. players[i] \in Player
  BY DEF EInv, Seats
<1> QED BY <1>1, EscrowAssumption DEF Player

LEMMA JoinKeeps ==
  ASSUME EInv, NEW a \in Accounts, NEW value \in Deposits, JoinTable(a, value)
  PROVE  EInv'
<1> DEFINE n == Len(players) + 1
           p == [addr |-> a, buyIn |-> value, withdrawn |-> FALSE, slashed |-> FALSE]
<1>1. /\ state = "open" /\ players \in Seq(Player) /\ ~Seated(a)
      /\ players' = Append(players, p)
      /\ totalEscrow' = totalEscrow + value /\ balance' = balance + value
      /\ state' \in {"open", "playing"} /\ paid' = paid
  BY DEF JoinTable, EInv
<1>2. p \in Player /\ value \in Int
  BY EscrowAssumption DEF Player
<1>3. players' \in Seq(Player) /\ Len(players') = n /\ n \in Nat
  BY <1>1, <1>2
<1>4. Seats' = Seats \cup {n} /\ n \notin Seats /\ n \in Seats'
  <2>1. Len(players) \in Nat
    BY <1>1
  <2> QED BY <1>3, <2>1 DEF Seats
<1>5. players'[n] = p /\ \A i \in Seats : players'[i] = players[i]
  BY <1>1, <1>2 DEF Seats
<1> HIDE DEF n
<1>6. p.addr = a /\ p.buyIn = value /\ p.withdrawn = FALSE
  OBVIOUS
<1> HIDE DEF p
<1>7. \A i, j \in Seats' : players'[i].addr = players'[j].addr => i = j
  <2>1. \A i, j \in Seats : players[i].addr = players[j].addr => i = j
    BY DEF EInv
  <2>2. \A i \in Seats : players[i].addr # a
    BY <1>1 DEF Seated
  <2> QED BY <1>4, <1>5, <1>6, <2>1, <2>2
<1>8. Open' = Seats'
  <2>1. \A i \in Seats : ~players[i].withdrawn
    BY <1>1 DEF EInv, Open
  <2>2. \A i \in Seats' : ~players'[i].withdrawn
    BY <1>4, <1>5, <1>6, <2>1
  <2> QED BY <2>2 DEF Open
<1>9. Total(BuyIns, Open)' = totalEscrow'
  <2> DEFINE old == BuyIns
             new == BuyIns'
  <2>1. Open' = Seats \cup {n} /\ Open = Seats
    BY <1>1, <1>4, <1>8 DEF EInv
  <2>2. \A i \in Seats : old[i] \in Int /\ new[i] = old[i]
    <3>1. \A i \in Seats : old[i] = players[i].buyIn
      BY DEF BuyIns
    <3>2. \A i \in Seats' : new[i] = players'[i].buyIn
      BY DEF BuyIns
    <3> QED BY <1>4, <1>5, <3>1, <3>2, SeatFacts
  <2>3. new[n] = value
    BY <1>4, <1>5, <1>6 DEF BuyIns
  <2> HIDE DEF old, new
  <2>4. IsFiniteSet(Seats) /\ IsFiniteSet(Seats \cup {n})
    BY <1>1, SeatsAreFinite, FS_AddElement
  <2>5. Total(new, Seats) = Total(old, Seats)
    BY <2>2, <2>4, TotalSame
  <2>6. \A i \in Seats \cup {n} : new[i] \in Int
    BY <1>2, <2>2, <2>3
  <2>7. Total(new, Seats \cup {n}) = new[n] + Total(new, (Seats \cup {n}) \ {n})
    BY <2>4, <2>6, TotalTakeOut
  <2>8. (Seats \cup {n}) \ {n} = Seats
    BY <1>4
  <2>9. Total(old, Seats) = totalEscrow
    BY <1>1, <2>1 DEF EInv, RefundsCovered, old, Open
  <2>10. totalEscrow \in Int
    BY DEF EInv
  <2>11. Total(new, Seats \cup {n}) = totalEscrow'
    <3>1. Total(new, Seats \cup {n}) = value + totalEscrow
      BY <2>3, <2>5, <2>7, <2>8, <2>9
    <3>2. value + totalEscrow = totalEscrow + value
      BY <1>2, <2>10
    <3> QED BY <1>1, <3>1, <3>2
  <2>12. Total(BuyIns, Open)' = Total(new, Open')
    BY DEF new
  <2> QED BY <2>1, <2>11, <2>12
<1>10. balance' = totalEscrow' /\ totalEscrow' \in Int
  <2>1. balance = totalEscrow /\ totalEscrow \in Int
    BY <1>1 DEF EInv, RefundsCovered
  <2> QED BY <1>1, <1>2, <2>1
<1>11. RefundsCovered'
  BY <1>9, <1>10 DEF RefundsCovered, Open
<1>12. SettledToTheChip' /\ state' # "settled"
  BY <1>1 DEF SettledToTheChip
<1>13. paid' \in [Accounts -> Int] /\ \A b \in Accounts : paid'[b] = 0
  BY <1>1 DEF EInv
<1> QED BY <1>1, <1>3, <1>7, <1>8, <1>10, <1>11, <1>12, <1>13 DEF EInv

\* A step that leaves the seats and the money alone and ends no game.
LEMMA WaitKeeps ==
  ASSUME EInv, UNCHANGED <<players, totalEscrow, balance, paid, agreed>>,
         state' = state \/ (state' = "abandoned" /\ state = "playing")
  PROVE  EInv'
<1>1. Seats' = Seats /\ Open' = Open /\ BuyIns' = BuyIns
  BY DEF Seats, Open, BuyIns
<1>2. Total(BuyIns, Open)' = Total(BuyIns, Open)
  BY <1>1
<1>3. RefundsCovered'
  BY <1>2 DEF EInv, RefundsCovered, Open
<1>4. SettledToTheChip'
  BY <1>1 DEF EInv, SettledToTheChip
<1> QED BY <1>1, <1>3, <1>4 DEF EInv

\* What a payout transfers to the account of a seat is that seat's amount.
LEMMA TransferredToSeat ==
  ASSUME EInv, NEW amount, NEW i \in Seats, amount[i] \in Int
  PROVE  Transferred(amount)[players[i].addr] = paid[players[i].addr] + amount[i]
<1>1. players[i].addr \in Accounts
  BY SeatFacts
<1>2. {j \in Seats : players[j].addr = players[i].addr} = {i}
  BY DEF EInv
<1>3. Total(amount, {i}) = amount[i]
  BY TotalOfOne
<1> QED BY <1>1, <1>2, <1>3 DEF Transferred

LEMMA TransferredType ==
  ASSUME EInv, NEW amount, \A i \in Seats : amount[i] \in Int
  PROVE  Transferred(amount) \in [Accounts -> Int]
<1> SUFFICES ASSUME NEW a \in Accounts
             PROVE  paid[a] + Total(amount, {i \in Seats : players[i].addr = a}) \in Int
  BY DEF Transferred
<1> DEFINE S == {i \in Seats : players[i].addr = a}
<1>1. S \in SUBSET Seats
  OBVIOUS
<1>2. IsFiniteSet(S) /\ \A i \in S : amount[i] \in Int
  BY <1>1, SeatsAreFinite DEF EInv
<1> HIDE DEF S
<1>3. Total(amount, S) \in Int
  BY <1>2, TotalTakeOut
<1>4. paid[a] \in Int
  BY DEF EInv
<1> QED BY <1>3, <1>4 DEF S

\* The deltas of an outcome add up to nothing, so the amounts due cannot come
\* to less than was paid in, and no seat can be let off.
LEMMA ReportKeeps ==
  ASSUME EInv, NEW a \in Accounts, NEW deltas \in [Seats -> Deltas], NEW signatures,
         ReportOutcome(a, deltas, signatures)
  PROVE  EInv'
<1> DEFINE payout == [i \in Seats |-> players[i].buyIn + deltas[i]]
           due == [i \in Seats |-> IF players[i].withdrawn THEN 0 ELSE Due(i, payout)]
           sum == Total(due, Seats)
<1>1. /\ state = "playing" /\ state' = "settled" /\ agreed' = deltas
      /\ ChipConservation(deltas)
      /\ sum <= totalEscrow /\ sum <= balance
      /\ totalEscrow' = totalEscrow - sum /\ balance' = balance - sum
      /\ players' = [i \in Seats |-> SettleSeat(players[i], payout[i])]
      /\ paid' = Transferred(due)
  BY DEF ReportOutcome, ExecutePayouts
<1>2. /\ Open = Seats /\ \A b \in Accounts : paid[b] = 0
      /\ totalEscrow = Total(BuyIns, Seats) /\ balance = totalEscrow
  BY <1>1 DEF EInv, RefundsCovered, Open
<1>3. \A i \in Seats : /\ BuyIns[i] = players[i].buyIn /\ players[i].buyIn \in Nat
                       /\ ~players[i].withdrawn /\ deltas[i] \in Int
                       /\ payout[i] = players[i].buyIn + deltas[i]
  BY <1>2, SeatFacts, EscrowAssumption DEF BuyIns, Open
<1>4. \A i \in Seats : due[i] = Due(i, payout)
  BY <1>3
<1> HIDE DEF payout
<1>5. \A i \in Seats : /\ payout[i] \in Int /\ due[i] \in Int /\ payout[i] <= due[i]
                       /\ BuyIns[i] \in Int
  BY <1>3, <1>4 DEF Due
<1> HIDE DEF due
<1>6. IsFiniteSet(Seats) /\ Seats \in SUBSET Int
  BY SeatsAreFinite DEF EInv
<1>7. Total(deltas, Seats) = 0
  <2>1. DOMAIN deltas = Seats
    OBVIOUS
  <2> QED BY <1>1, <1>3, <1>6, <2>1, FoldAddsUp
<1>8. Total(payout, Seats) = Total(BuyIns, Seats) /\ Total(payout, Seats) \in Int
  <2>1. Total(payout, Seats) = Total(BuyIns, Seats) + Total(deltas, Seats)
    <3>1. \A i \in Seats : /\ BuyIns[i] \in Int /\ deltas[i] \in Int
                           /\ payout[i] = BuyIns[i] + deltas[i]
      BY <1>3, <1>5
    <3> DEFINE paidIn == BuyIns
    <3>2. \A i \in Seats : /\ paidIn[i] \in Int /\ deltas[i] \in Int
                           /\ payout[i] = paidIn[i] + deltas[i]
      BY <3>1
    <3> HIDE DEF paidIn
    <3>3. Total(payout, Seats) = Total(paidIn, Seats) + Total(deltas, Seats)
      BY <1>6, <3>2, TotalPlus
    <3> QED BY <3>3 DEF paidIn
  <2>2. Total(BuyIns, Seats) \in Int
    BY <1>5, <1>6, TotalTakeOut
  <2> QED BY <1>7, <2>1, <2>2
<1>9. \A i \in Seats : due[i] = payout[i]
  <2>1. Total(due, Seats) <= Total(payout, Seats)
    BY <1>1, <1>2, <1>8
  <2>2. \A i \in Seats : payout[i] \in Int /\ due[i] \in Int /\ payout[i] <= due[i]
    BY <1>5
  <2>3. IsFiniteSet(Seats)
    BY <1>6
  <2> HIDE DEF sum
  <2>4. ASSUME NEW i \in Seats PROVE payout[i] = due[i]
    BY <2>1, <2>2, <2>3, TotalTight
  <2> QED BY <2>4
<1>10. sum = totalEscrow /\ totalEscrow \in Int
  <2>1. Total(payout, Seats) = Total(due, Seats)
    BY <1>5, <1>6, <1>9, TotalSame
  <2> QED BY <1>2, <1>8, <2>1
<1> HIDE DEF sum
<1>11. balance' = 0 /\ totalEscrow' = 0
  BY <1>1, <1>2, <1>10
<1>12. players' \in Seq(Player) /\ Seats' = Seats
  <2>1. \A i \in Seats : players'[i] \in Player
    BY <1>1, SeatFacts DEF SettleSeat, Player
  <2>2. Len(players) \in Nat /\ Seats = 1 .. Len(players)
    BY DEF EInv, Seats
  <2>3. players' \in [1 .. Len(players) -> Player]
    BY <1>1, <2>1, <2>2
  <2>4. players' \in Seq(Player) /\ Len(players') = Len(players)
    BY <2>2, <2>3
  <2> QED BY <2>4 DEF Seats
<1>13. \A i \in Seats : /\ players'[i].addr = players[i].addr
                        /\ players'[i].buyIn = players[i].buyIn
                        /\ players'[i].withdrawn
  <2> SUFFICES ASSUME NEW i \in Seats
               PROVE  /\ players'[i].addr = players[i].addr
                      /\ players'[i].buyIn = players[i].buyIn
                      /\ players'[i].withdrawn
    OBVIOUS
  <2>1. players[i] \in Player
    BY SeatFacts
  <2>2. players'[i] = [players[i] EXCEPT !.withdrawn = TRUE]
    BY <1>1 DEF SettleSeat
  <2> QED BY <2>1, <2>2 DEF Player
<1>14. Open' = {}
  BY <1>12, <1>13 DEF Open
<1>15. ASSUME NEW i \in Seats
       PROVE  paid'[players'[i].addr] = players'[i].buyIn + agreed'[i]
  <2>1. paid'[players[i].addr] = paid[players[i].addr] + due[i]
    BY <1>1, <1>5, TransferredToSeat
  <2>2. paid[players[i].addr] = 0
    BY <1>2, SeatFacts
  <2>3. due[i] = players[i].buyIn + deltas[i] /\ due[i] \in Int
    BY <1>3, <1>5, <1>9
  <2> QED BY <1>1, <1>13, <2>1, <2>2, <2>3
<1>16. SettledToTheChip'
  BY <1>11, <1>12, <1>15 DEF SettledToTheChip
<1>17. RefundsCovered'
  BY <1>1 DEF RefundsCovered
<1>18. \A i, j \in Seats' : players'[i].addr = players'[j].addr => i = j
  BY <1>12, <1>13 DEF EInv
<1>19. paid' \in [Accounts -> Int]
  BY <1>1, <1>5, TransferredType
<1>20. agreed' \in [Seats' -> Int]
  BY <1>1, <1>3, <1>12
<1> QED BY <1>1, <1>11, <1>12, <1>14, <1>16, <1>17, <1>18, <1>19, <1>20 DEF EInv

LEMMA NobodyEligible ==
  ASSUME EInv, NEW s \in Seats, state = "settled"
  PROVE  Eligible(s) = {}
  BY DEF EInv, Eligible, Open

LEMMA DisputeKeeps ==
  ASSUME EInv, NEW a \in Accounts, NEW s \in Seats, SubmitDispute(a, s)
  PROVE  EInv'
<1> DEFINE gains == [i \in Seats |-> IF i \in Eligible(s) THEN SlashShare(s) ELSE 0]
<1>1. /\ state = "settled" /\ state' = "settled" /\ UNCHANGED <<totalEscrow, agreed>>
      /\ players' = [players EXCEPT ![s].slashed = TRUE]
      /\ balance' = balance - Total(gains, Seats)
      /\ paid' = Transferred(gains)
  BY DEF SubmitDispute, Disputable, ExecuteSlash
<1>2. \A i \in Seats : gains[i] = 0
  BY <1>1, NobodyEligible
<1> HIDE DEF gains
<1>3. \A S \in SUBSET Seats : Total(gains, S) = 0
  <2> SUFFICES ASSUME NEW S \in SUBSET Seats PROVE Total(gains, S) = 0
    OBVIOUS
  <2>1. IsFiniteSet(S) /\ \A i \in S : gains[i] \in Int /\ gains[i] = 0
    BY <1>2, SeatsAreFinite DEF EInv
  <2>2. \A i \in S : gains[i] \in Int /\ gains[i] \in Int /\ gains[i] = gains[i] + gains[i]
    BY <2>1
  <2>3. Total(gains, S) = Total(gains, S) + Total(gains, S)
    BY <2>1, <2>2, TotalPlus
  <2>4. Total(gains, S) \in Int
    BY <2>1, TotalTakeOut
  <2>5. \A n \in Int : n = n + n => n = 0
    OBVIOUS
  <2> QED BY <2>3, <2>4, <2>5, Zenon
<1>4. balance' = balance
  <2>1. Total(gains, Seats) = 0 /\ balance \in Int
    BY <1>3 DEF EInv
  <2> QED BY <1>1, <2>1
<1>5. paid' = paid
  <2>1. \A b \in Accounts :
          paid[b] + Total(gains, {i \in Seats : players[i].addr = b}) = paid[b]
    <3> SUFFICES ASSUME NEW b \in Accounts
                 PROVE  paid[b] + Total(gains, {i \in Seats : players[i].addr = b}) = paid[b]
      OBVIOUS
    <3>1. Total(gains, {i \in Seats : players[i].addr = b}) = 0
      BY <1>3
    <3>2. paid[b] \in Int
      BY DEF EInv
    <3> QED BY <3>1, <3>2
  <2>2. paid' = [b \in Accounts |->
                   paid[b] + Total(gains, {i \in Seats : players[i].addr = b})]
    BY <1>1 DEF Transferred
  <2> QED BY <2>1, <2>2 DEF EInv
<1>6. players' \in Seq(Player) /\ Seats' = Seats
  <2> DEFINE p == [players[s] EXCEPT !.slashed = TRUE]
  <2>1. p \in Player
    BY SeatFacts DEF Player
  <2>2. players' = [players EXCEPT ![s] = p]
    BY <1>1
  <2> HIDE DEF p
  <2>3. players \in Seq(Player) /\ s \in 1 .. Len(players)
    BY DEF EInv, Seats
  <2>4. players' \in Seq(Player) /\ Len(players') = Len(players)
    BY <2>1, <2>2, <2>3
  <2> QED BY <2>4 DEF Seats
<1>7. \A i \in Seats : /\ players'[i].addr = players[i].addr
                       /\ players'[i].buyIn = players[i].buyIn
                       /\ players'[i].withdrawn = players[i].withdrawn
  <2> SUFFICES ASSUME NEW i \in Seats
               PROVE  /\ players'[i].addr = players[i].addr
                      /\ players'[i].buyIn = players[i].buyIn
                      /\ players'[i].withdrawn = players[i].withdrawn
    OBVIOUS
  <2>1. players[i] \in Player /\ players \in Seq(Player) /\ i \in 1 .. Len(players)
    BY SeatFacts DEF EInv, Seats
  <2>2. players'[i] = players[i] \/ players'[i] = [players[i] EXCEPT !.slashed = TRUE]
    <3>1. DOMAIN players = 1 .. Len(players)
      BY <2>1
    <3>2. CASE i = s
      BY <1>1, <2>1, <3>1, <3>2
    <3>3. CASE i # s
      BY <1>1, <2>1, <3>1, <3>3
    <3> QED BY <3>2, <3>3
  <2> QED BY <2>1, <2>2 DEF Player
<1>8. Open' = {}
  BY <1>1, <1>6, <1>7 DEF EInv, Open
<1>9. SettledToTheChip'
  BY <1>1, <1>4, <1>5, <1>6, <1>7 DEF EInv, SettledToTheChip
<1>10. RefundsCovered'
  BY <1>1 DEF RefundsCovered
<1>11. \A i, j \in Seats' : players'[i].addr = players'[j].addr => i = j
  BY <1>6, <1>7 DEF EInv
<1> QED BY <1>1, <1>4, <1>5, <1>6, <1>8, <1>9, <1>10, <1>11 DEF EInv

LEMMA RefundKeeps ==
  ASSUME EInv, NEW a \in Accounts, Refund(a)
  PROVE  EInv'
<1> DEFINE i == PlayerIndex(a)
           amount == players[i].buyIn
           to == players[i].addr
<1>1. /\ state = "abandoned" /\ state' = "abandoned" /\ agreed' = agreed
      /\ i \in Seats /\ ~players[i].withdrawn
      /\ players' = [players EXCEPT ![i] = [players[i] EXCEPT !.withdrawn = TRUE]]
      /\ totalEscrow' = totalEscrow - amount /\ balance' = balance - amount
      /\ paid' = [paid EXCEPT ![to] = @ + amount]
  BY DEF Refund, RefundSeat
<1> HIDE DEF i
<1>2. players[i] \in Player /\ amount \in Int /\ to \in Accounts
  BY <1>1, SeatFacts
<1>3. players' \in Seq(Player) /\ Seats' = Seats /\ DOMAIN players = 1 .. Len(players)
  <2> DEFINE p == [players[i] EXCEPT !.withdrawn = TRUE]
  <2>1. p \in Player
    BY <1>2 DEF Player
  <2>2. players' = [players EXCEPT ![i] = p]
    BY <1>1
  <2> HIDE DEF p
  <2>3. players \in Seq(Player) /\ i \in 1 .. Len(players)
    BY <1>1 DEF EInv, Seats
  <2>4. players' \in Seq(Player) /\ Len(players') = Len(players)
    BY <2>1, <2>2, <2>3
  <2> QED BY <2>3, <2>4 DEF Seats
<1>4. \A j \in Seats : /\ players'[j].addr = players[j].addr
                       /\ players'[j].buyIn = players[j].buyIn
                       /\ players'[j].withdrawn <=> (players[j].withdrawn \/ j = i)
  <2> SUFFICES ASSUME NEW j \in Seats
               PROVE  /\ players'[j].addr = players[j].addr
                      /\ players'[j].buyIn = players[j].buyIn
                      /\ players'[j].withdrawn <=> (players[j].withdrawn \/ j = i)
    OBVIOUS
  <2>1. players[j] \in Player /\ j \in 1 .. Len(players)
    BY SeatFacts DEF EInv, Seats
  <2>2. CASE j = i
    <3>1. players'[j] = [players[i] EXCEPT !.withdrawn = TRUE]
      BY <1>1, <1>3, <2>1, <2>2
    <3> QED BY <1>2, <2>2, <3>1 DEF Player
  <2>3. CASE j # i
    <3>1. players'[j] = players[j]
      BY <1>1, <1>3, <2>1, <2>3
    <3> QED BY <2>3, <3>1
  <2> QED BY <2>2, <2>3
<1>5. Open' = Open \ {i} /\ i \in Open
  BY <1>1, <1>3, <1>4 DEF Open
<1>6. Total(BuyIns, Open)' = totalEscrow'
  <2> DEFINE old == BuyIns
             new == BuyIns'
             V == Open \ {i}
  <2>1. \A j \in Seats : old[j] \in Int /\ new[j] = old[j]
    <3>1. \A j \in Seats : old[j] = players[j].buyIn
      BY DEF BuyIns
    <3>2. \A j \in Seats' : new[j] = players'[j].buyIn
      BY DEF BuyIns
    <3> QED BY <1>3, <1>4, <3>1, <3>2, SeatFacts
  <2>2. old[i] = amount
    BY <1>1 DEF BuyIns
  <2>3. Total(old, Open) = totalEscrow /\ totalEscrow \in Int
    BY <1>1 DEF EInv, RefundsCovered, Open
  <2> HIDE DEF old, new, V
  <2>4. /\ IsFiniteSet(Open) /\ (\A j \in Open : old[j] \in Int)
        /\ IsFiniteSet(V) /\ (\A j \in V : old[j] \in Int /\ new[j] = old[j])
    <3>1. Open \in SUBSET Seats /\ V \in SUBSET Seats
      BY DEF Open, V
    <3> QED BY <2>1, <3>1, SeatsAreFinite DEF EInv
  <2>5. Total(old, Open) = old[i] + Total(old, V) /\ Total(old, V) \in Int
    BY <1>5, <2>4, TotalTakeOut DEF V
  <2>6. Total(old, V) = Total(new, V)
    BY <2>4, TotalSame
  <2>7. Total(new, V) = totalEscrow - amount
    BY <1>2, <2>2, <2>3, <2>5, <2>6
  <2>8. Total(BuyIns, Open)' = Total(new, Open')
    BY DEF new
  <2> QED BY <1>1, <1>5, <2>7, <2>8 DEF V
<1>7. balance' = totalEscrow' /\ totalEscrow' \in Int
  <2>1. balance = totalEscrow /\ totalEscrow \in Int
    BY <1>1 DEF EInv, RefundsCovered
  <2> QED BY <1>1, <1>2, <2>1
<1>8. RefundsCovered' /\ SettledToTheChip'
  BY <1>1, <1>6, <1>7 DEF RefundsCovered, SettledToTheChip, Open
<1>9. paid' \in [Accounts -> Int]
  <2>1. paid \in [Accounts -> Int] /\ paid[to] \in Int /\ paid[to] + amount \in Int
    BY <1>2 DEF EInv
  <2> HIDE DEF to, amount
  <2> QED BY <1>1, <2>1
<1>10. \A j, k \in Seats' : players'[j].addr = players'[k].addr => j = k
  BY <1>3, <1>4 DEF EInv
<1> QED BY <1>1, <1>3, <1>7, <1>8, <1>9, <1>10 DEF EInv

LEMMA EscrowInit == Init => EInv
<1> SUFFICES ASSUME Init PROVE EInv
  OBVIOUS
<1>1. players = << >> /\ Len(players) = 0 /\ players \in Seq(Player)
  BY DEF Init
<1>2. Seats = {}
  BY <1>1 DEF Seats
<1>3. {i \in Seats : ~players[i].withdrawn} = {}
  BY <1>2
<1>4. RefundsCovered
  BY <1>3, TotalOfNone DEF Init, RefundsCovered
<1> QED BY <1>1, <1>2, <1>4 DEF Init, EInv, Open, SettledToTheChip

LEMMA EscrowStep == EInv /\ [Next]_vars => EInv'
<1> SUFFICES ASSUME EInv, [Next]_vars PROVE EInv'
  OBVIOUS
<1>1. CASE Mine \/ MarkAbandoned \/ UNCHANGED vars
  BY <1>1, WaitKeeps DEF Mine, MarkAbandoned, vars
<1>2. ASSUME NEW a \in Accounts, NEW value \in Deposits, JoinTable(a, value) PROVE EInv'
  BY <1>2, JoinKeeps
<1>3. ASSUME NEW a \in Accounts, NEW deltas \in [Seats -> Deltas],
             NEW signatures \in 0 .. MaxSeats, ReportOutcome(a, deltas, signatures)
      PROVE  EInv'
  BY <1>3, ReportKeeps
<1>4. ASSUME NEW a \in Accounts, NEW s \in Seats, SubmitDispute(a, s) PROVE EInv'
  BY <1>4, DisputeKeeps
<1>5. ASSUME NEW a \in Accounts, Refund(a) PROVE EInv'
  BY <1>5, RefundKeeps
<1> QED BY <1>1, <1>2, <1>3, <1>4, <1>5 DEF Next

LEMMA EscrowInvariance == Spec => []EInv
  BY EscrowInit, EscrowStep, PTL DEF Spec

-----------------------------------------------------------------------------

\* Until a table is settled the contract holds the buy-in of every seat that has
\* not been given it back, whoever joined with whatever and refunds in whatever
\* order (joinTable, refund).
THEOREM RefundsTheorem == Spec => []RefundsCovered
<1>1. EInv => RefundsCovered
  BY DEF EInv
<1> QED BY <1>1, EscrowInvariance, PTL

\* A settled table has paid every seat its buy-in and its delta to the chip: a
\* reported outcome by which a seat loses more than it has would cost the
\* contract more than it holds (_executePayouts).
THEOREM SettledTheorem == Spec => []SettledToTheChip
<1>1. EInv => SettledToTheChip
  BY DEF EInv
<1> QED BY <1>1, EscrowInvariance, PTL

\* A dispute in its window never fails for want of money, for the settlement
\* left nobody to share a slash with (_executeSlash).
THEOREM DisputesTheorem == Spec => []DisputesGoThrough
<1>1. ASSUME EInv, NEW s \in Seats, Disputable(s) PROVE SlashCovered(s)
  <2>1. Eligible(s) = {}
    BY <1>1, NobodyEligible DEF Disputable
  <2> QED BY <2>1 DEF SlashCovered
<1>2. EInv => DisputesGoThrough
  BY <1>1 DEF DisputesGoThrough
<1> QED BY <1>2, EscrowInvariance, PTL
=============================================================================
