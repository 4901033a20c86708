--------------------------- MODULE SeatingLemmas ---------------------------
(***************************************************************************)
(* What the walks around the table and the sums over it return, for every  *)
(* number of seats.                                                        *)
(***************************************************************************)
EXTENDS Seating, FiniteSetTheorems, WellFoundedInduction, TLAPS

\* Every non-empty set of naturals has a smallest member.
LEMMA LeastExists ==
  ASSUME NEW D \in SUBSET Nat, D # {}
  PROVE  Least(D) \in D /\ \A y \in D : Least(D) <= y
<1>1. IsWellFoundedOn(OpToRel(<, Nat), Nat)
  BY NatLessThanWellFounded
<1>2. PICK x \in D : \A y \in D : ~ (<<y, x>> \in OpToRel(<, Nat))
  BY <1>1, WFMin
<1>3. \A y \in D : ~ (y < x)
  BY <1>2 DEF OpToRel
<1>4. \A y \in D : x <= y
  BY <1>3
<1> QED BY <1>4 DEF Least

\* Induction over the naturals, for a set rather than for a predicate.
LEMMA SetInduction ==
  ASSUME NEW S \in SUBSET Nat, 0 \in S, \A n \in S : n + 1 \in S
  PROVE  S = Nat
<1> SUFFICES ASSUME Nat \ S # {} PROVE FALSE
  OBVIOUS
<1> DEFINE m == Least(Nat \ S)
<1>1. m \in Nat \ S /\ \A y \in Nat \ S : m <= y
  BY LeastExists
<1>2. m - 1 \in Nat
  BY <1>1
<1>3. m - 1 \in S
  BY <1>1, <1>2
<1> QED BY <1>1, <1>3

\* Walking from any seat towards a non-empty set of seats ends in that set.
LEMMA FirstAfterFinds ==
  ASSUME NEW wanted \in SUBSET Seats, wanted # {}, NEW from \in Seats
  PROVE  FirstAfter(wanted, from) \in wanted
<1> USE SeatingAssumption
<1>1. PICK w \in wanted : TRUE
  OBVIOUS
<1>2. \E k \in 1 .. N : (from + k) % N = w
  <2>1. CASE w > from
    <3>1. (from + (w - from)) % N = w
      BY <2>1 DEF Seats
    <3> QED BY <2>1, <3>1 DEF Seats
  <2>2. CASE w <= from
    <3>1. (from + (w - from + N)) = w + N
      BY DEF Seats
    <3>2. (w + N) % N = w
      BY DEF Seats
    <3>3. w - from + N \in 1 .. N
      BY <2>2 DEF Seats
    <3> QED BY <3>1, <3>2, <3>3
  <2> QED BY <2>1, <2>2 DEF Seats
<1>3. StepsTo(wanted, from) # {} /\ StepsTo(wanted, from) \in SUBSET Nat
  BY <1>1, <1>2 DEF StepsTo
<1>4. Least(StepsTo(wanted, from)) \in StepsTo(wanted, from)
  BY <1>3, LeastExists
<1> QED BY <1>4 DEF FirstAfter, StepsTo

-----------------------------------------------------------------------------
(* Sums *)

\* u holds the sums of the first 0, 1, ... n values of f.
PartialSums(u, f, n) ==
  u = [k \in 0 .. n |-> IF k = 0 THEN 0 ELSE u[k - 1] + f[k - 1]]

LEMMA PartialSumsExist ==
  ASSUME NEW f \in [Seats -> Int]
  PROVE  \E u : PartialSums(u, f, N)
<1> USE SeatingAssumption
<1> DEFINE T == {n \in Nat : n <= N => \E u \in [0 .. n -> Int] : PartialSums(u, f, n)}
<1>1. 0 \in T
  <2> DEFINE u == [k \in 0 .. 0 |-> 0]
  <2>1. u \in [0 .. 0 -> Int] /\ PartialSums(u, f, 0)
    BY DEF PartialSums
  <2> QED BY <2>1
<1>2. ASSUME NEW n \in T PROVE n + 1 \in T
  <2> SUFFICES ASSUME n + 1 <= N
               PROVE  \E u \in [0 .. n + 1 -> Int] : PartialSums(u, f, n + 1)
    OBVIOUS
  <2>1. PICK u \in [0 .. n -> Int] : PartialSums(u, f, n)
    OBVIOUS
  <2>2. f[n] \in Int
    BY DEF Seats
  <2> DEFINE v == [k \in 0 .. n + 1 |-> IF k = n + 1 THEN u[n] + f[n] ELSE u[k]]
  <2>3. v \in [0 .. n + 1 -> Int]
    BY <2>1, <2>2
  <2>4. \A k \in 0 .. n + 1 : v[k] = IF k = 0 THEN 0 ELSE v[k - 1] + f[k - 1]
    <3> TAKE k \in 0 .. n + 1
    <3>1. \A j \in 0 .. n : u[j] = IF j = 0 THEN 0 ELSE u[j - 1] + f[j - 1]
      BY <2>1 DEF PartialSums
    <3>2. CASE k = n + 1
      BY <3>2
    <3>3. CASE k # n + 1
      BY <3>1, <3>3
    <3> QED BY <3>2, <3>3
  <2>5. PartialSums(v, f, n + 1)
    BY <2>3, <2>4 DEF PartialSums
  <2> QED BY <2>3, <2>5
<1>3. T = Nat
  <2> HIDE DEF T
  <2>1. T \in SUBSET Nat
    BY DEF T
  <2> QED BY <1>1, <1>2, <2>1, SetInduction
<1> QED BY <1>3

\* A sum over the seats is the last of its partial sums.
LEMMA SumOverIsPartialSum ==
  ASSUME NEW f \in [Seats -> Int]
  PROVE  \E u : PartialSums(u, f, N) /\ SumOver(f) = u[N]
<1> DEFINE u == CHOOSE u : PartialSums(u, f, N)
<1>1. PartialSums(u, f, N)
  BY PartialSumsExist
<1>2. SumOver(f) = u[N]
  BY DEF SumOver, PartialSums
<1> QED BY <1>1, <1>2

LEMMA SumOverNat ==
  ASSUME NEW f \in [Seats -> Nat]
  PROVE  SumOver(f) \in Nat
<1> USE SeatingAssumption
<1>1. PICK u : PartialSums(u, f, N) /\ SumOver(f) = u[N]
  BY SumOverIsPartialSum
<1> DEFINE T == {n \in Nat : n <= N => u[n] \in Nat}
<1>2. 0 \in T
  BY <1>1 DEF PartialSums
<1>3. ASSUME NEW n \in T PROVE n + 1 \in T
  <2> SUFFICES ASSUME n + 1 <= N PROVE u[n + 1] \in Nat
    OBVIOUS
  <2>1. u[n + 1] = u[n] + f[n]
    BY <1>1 DEF PartialSums
  <2>2. f[n] \in Nat
    BY DEF Seats
  <2> QED BY <2>1, <2>2
<1>4. T = Nat
  <2> HIDE DEF T
  <2>1. T \in SUBSET Nat
    BY DEF T
  <2> QED BY <1>2, <1>3, <2>1, SetInduction
<1> QED BY <1>1, <1>4

\* Whatever accumulates the values of f seat by seat ends in the sum.
LEMMA SumOverByParts ==
  ASSUME NEW f \in [Seats -> Int], NEW v, v[0] = 0,
         \A n \in Seats : v[n + 1] = v[n] + f[n]
  PROVE  SumOver(f) = v[N]
<1> USE SeatingAssumption
<1>1. PICK u : PartialSums(u, f, N) /\ SumOver(f) = u[N]
  BY SumOverIsPartialSum
<1> DEFINE T == {n \in Nat : n <= N => u[n] = v[n]}
<1>2. 0 \in T
  BY <1>1 DEF PartialSums
<1>3. ASSUME NEW n \in T PROVE n + 1 \in T
  <2> SUFFICES ASSUME n + 1 <= N PROVE u[n + 1] = v[n + 1]
    OBVIOUS
  <2>1. u[n + 1] = u[n] + f[n]
    BY <1>1 DEF PartialSums
  <2>2. n \in Seats /\ u[n] = v[n]
    BY DEF Seats
  <2> QED BY <2>1, <2>2
<1>4. T = Nat
  <2> HIDE DEF T
  <2>1. T \in SUBSET Nat
    BY DEF T
  <2> QED BY <1>2, <1>3, <2>1, SetInduction
<1> QED BY <1>1, <1>4

\* The sums so far of f.
Upto(f) == CHOOSE u : PartialSums(u, f, N)

LEMMA UptoSums ==
  ASSUME NEW f \in [Seats -> Int]
  PROVE  /\ Upto(f)[0] = 0 /\ Upto(f)[N] = SumOver(f)
         /\ \A n \in Seats : Upto(f)[n] \in Int /\ Upto(f)[n + 1] = Upto(f)[n] + f[n]
<1> USE SeatingAssumption
<1> DEFINE u == Upto(f)
<1>1. PartialSums(u, f, N)
  BY PartialSumsExist DEF Upto
<1> HIDE DEF u
<1>2. u[0] = 0 /\ \A n \in Seats : u[n + 1] = u[n] + f[n]
  <2>1. \A k \in 0 .. N : u[k] = IF k = 0 THEN 0 ELSE u[k - 1] + f[k - 1]
    BY <1>1 DEF PartialSums
  <2>2. u[0] = 0
    BY <2>1
  <2>3. ASSUME NEW n \in Seats PROVE u[n + 1] = u[n] + f[n]
    <3>1. n + 1 \in 0 .. N /\ n + 1 # 0 /\ (n + 1) - 1 = n
      BY DEF Seats
    <3> QED BY <2>1, <3>1
  <2> QED BY <2>2, <2>3
<1> DEFINE T == {n \in Nat : n <= N => u[n] \in Int}
<1>3. 0 \in T
  BY <1>2
<1>4. ASSUME NEW n \in T PROVE n + 1 \in T
  <2> SUFFICES ASSUME n + 1 <= N PROVE u[n + 1] \in Int
    OBVIOUS
  <2>1. n \in Seats /\ u[n] \in Int /\ f[n] \in Int
    BY DEF Seats
  <2> QED BY <1>2, <2>1
<1>5. T = Nat
  <2> HIDE DEF T
  <2>1. T \in SUBSET Nat
    BY DEF T
  <2> QED BY <1>3, <1>4, <2>1, SetInduction
<1>6. \A n \in Seats : u[n] \in Int
  BY <1>5 DEF Seats
<1>7. u[N] = SumOver(f)
  BY <1>2, SumOverByParts
<1> QED BY <1>2, <1>6, <1>7 DEF u

LEMMA SumOverInt ==
  ASSUME NEW f \in [Seats -> Int]
  PROVE  SumOver(f) \in Int
<1>1. /\ Upto(f)[N] = SumOver(f)
      /\ \A n \in Seats : Upto(f)[n] \in Int /\ Upto(f)[n + 1] = Upto(f)[n] + f[n]
  BY UptoSums
<1>2. N - 1 \in Seats /\ (N - 1) + 1 = N
  BY SeatingAssumption DEF Seats
<1> QED BY <1>1, <1>2

LEMMA SumOverPlus ==
  ASSUME NEW f \in [Seats -> Int], NEW g \in [Seats -> Int]
  PROVE  SumOver([s \in Seats |-> f[s] + g[s]]) = SumOver(f) + SumOver(g)
<1> USE SeatingAssumption
<1> DEFINE u == Upto(f)
           w == Upto(g)
           h == [s \in Seats |-> f[s] + g[s]]
           v == [n \in 0 .. N |-> u[n] + w[n]]
<1>1. u[0] = 0 /\ u[N] = SumOver(f) /\ \A n \in Seats : u[n] \in Int /\ u[n + 1] = u[n] + f[n]
  BY UptoSums
<1>2. w[0] = 0 /\ w[N] = SumOver(g) /\ \A n \in Seats : w[n] \in Int /\ w[n + 1] = w[n] + g[n]
  BY UptoSums
<1> HIDE DEF u, w
<1>3. h \in [Seats -> Int]
  OBVIOUS
<1>4. v[0] = 0 /\ v[N] = SumOver(f) + SumOver(g)
  BY <1>1, <1>2
<1>5. ASSUME NEW n \in Seats PROVE v[n + 1] = v[n] + h[n]
  <2>1. v[n + 1] = u[n + 1] + w[n + 1] /\ v[n] = u[n] + w[n]
    BY DEF Seats
  <2>2. h[n] = f[n] + g[n] /\ f[n] \in Int /\ g[n] \in Int
    OBVIOUS
  <2> QED BY <1>1, <1>2, <2>1, <2>2
<1> HIDE DEF h, v
<1>6. SumOver(h) = v[N]
  BY <1>3, <1>4, <1>5, SumOverByParts
<1> QED BY <1>4, <1>6 DEF h

\* A constant summed over some of the seats.
LEMMA SumOverConstant ==
  ASSUME NEW S \in SUBSET Seats, NEW c \in Int
  PROVE  SumOver([s \in Seats |-> IF s \in S THEN c ELSE 0]) = c * Cardinality(S)
<1> USE SeatingAssumption
<1> DEFINE f == [s \in Seats |-> IF s \in S THEN c ELSE 0]
           first(n) == {s \in S : s < n}
           v == [n \in 0 .. N |-> c * Cardinality(first(n))]
<1>1. f \in [Seats -> Int]
  OBVIOUS
<1>2. \A s \in S : s \in Int /\ 0 <= s /\ s < N
  BY DEF Seats
<1>3. IsFiniteSet(S)
  <2>1. IsFiniteSet(0 .. N - 1)
    BY FS_Interval
  <2> QED BY <2>1, FS_Subset DEF Seats
<1>4. \A n \in 0 .. N : IsFiniteSet(first(n)) /\ Cardinality(first(n)) \in Nat
  <2> TAKE n \in 0 .. N
  <2>1. first(n) \subseteq S
    OBVIOUS
  <2> HIDE DEF first
  <2> QED BY <1>3, <2>1, FS_Subset, FS_CardinalityType
<1>5. first(0) = {} /\ first(N) = S
  BY <1>2
<1>6. v[0] = 0 /\ v[N] = c * Cardinality(S)
  <2>1. v[0] = c * Cardinality(first(0)) /\ v[N] = c * Cardinality(first(N))
    OBVIOUS
  <2>2. Cardinality(first(0)) = 0 /\ c * 0 = 0
    BY <1>5, FS_EmptySet
  <2> HIDE DEF v, first
  <2> QED BY <1>5, <2>1, <2>2
<1>7. ASSUME NEW n \in Seats PROVE v[n + 1] = v[n] + f[n]
  <2>1. n \in 0 .. N /\ n + 1 \in 0 .. N
    BY DEF Seats
  <2>2. n \in Int /\ \A s \in S : (s < n + 1 <=> s < n \/ s = n) /\ ~ (n < n)
    BY <1>2, <2>1
  <2>3. v[n] = c * Cardinality(first(n)) /\ v[n + 1] = c * Cardinality(first(n + 1))
    BY <2>1
  <2>4. CASE n \in S
    <3>1. first(n + 1) = first(n) \cup {n} /\ n \notin first(n)
      BY <2>2, <2>4
    <3>2. Cardinality(first(n + 1)) = Cardinality(first(n)) + 1
      BY <1>4, <2>1, <3>1, FS_AddElement
    <3>3. \A k \in Nat : c * (k + 1) = c * k + c
      OBVIOUS
    <3>4. f[n] = c
      BY <2>4
    <3> HIDE DEF v, f, first
    <3>5. c * (Cardinality(first(n)) + 1) = c * Cardinality(first(n)) + c
      BY <1>4, <2>1, <3>3
    <3> QED BY <2>3, <3>2, <3>4, <3>5
  <2>5. CASE n \notin S
    <3>1. first(n + 1) = first(n)
      BY <2>2, <2>5
    <3>2. f[n] = 0
      BY <2>5
    <3>3. v[n] \in Int
      BY <1>4, <2>1, <2>3
    <3> HIDE DEF v, f, first
    <3> QED BY <2>3, <3>1, <3>2, <3>3
  <2> QED BY <2>4, <2>5
<1> HIDE DEF f, v
<1>8. SumOver(f) = v[N]
  BY <1>1, <1>6, <1>7, SumOverByParts
<1> QED BY <1>6, <1>8 DEF f

LEMMA SumOverZero == SumOver([s \in Seats |-> 0]) = 0
<1>1. SumOver([s \in Seats |-> IF s \in {} THEN 0 ELSE 0]) = 0 * Cardinality({})
  BY SumOverConstant
<1>2. [s \in Seats |-> IF s \in {} THEN 0 ELSE 0] = [s \in Seats |-> 0]
  OBVIOUS
<1>3. 0 * Cardinality({}) = 0
  BY FS_EmptySet
<1> QED BY <1>1, <1>2, <1>3

LEMMA SumOverSingle ==
  ASSUME NEW w \in Seats, NEW c \in Int
  PROVE  SumOver([s \in Seats |-> IF s = w THEN c ELSE 0]) = c
<1>1. SumOver([s \in Seats |-> IF s \in {w} THEN c ELSE 0]) = c * Cardinality({w})
  BY SumOverConstant
<1>2. [s \in Seats |-> IF s \in {w} THEN c ELSE 0] = [s \in Seats |-> IF s = w THEN c ELSE 0]
  OBVIOUS
<1>3. Cardinality({w}) = 1 /\ c * 1 = c
  BY FS_Singleton
<1> QED BY <1>1, <1>2, <1>3

LEMMA SumOverMonotone ==
  ASSUME NEW f \in [Seats -> Int], NEW g \in [Seats -> Int], \A s \in Seats : f[s] <= g[s]
  PROVE  SumOver(f) <= SumOver(g)
<1> DEFINE d == [s \in Seats |-> g[s] - f[s]]
<1>1. d \in [Seats -> Nat] /\ d \in [Seats -> Int]
  OBVIOUS
<1>2. g = [s \in Seats |-> f[s] + d[s]]
  OBVIOUS
<1> HIDE DEF d
<1>3. SumOver(g) = SumOver(f) + SumOver(d)
  BY <1>1, <1>2, SumOverPlus
<1>4. SumOver(d) \in Nat /\ SumOver(f) \in Int
  BY <1>1, SumOverNat, SumOverInt
<1> QED BY <1>3, <1>4

\* No term of a sum of naturals exceeds the sum.
LEMMA SumOverTerm ==
  ASSUME NEW f \in [Seats -> Nat], NEW w \in Seats
  PROVE  f[w] <= SumOver(f)
<1> DEFINE c == f[w]
           g == [s \in Seats |-> IF s = w THEN c ELSE 0]
<1>1. c \in Nat /\ \A s \in Seats : f[s] \in Nat
  OBVIOUS
<1>2. g \in [Seats -> Int] /\ f \in [Seats -> Int] /\ \A s \in Seats : g[s] <= f[s]
  BY <1>1
<1> HIDE DEF c
<1>3. SumOver(g) = c
  BY <1>1, SumOverSingle
<1> HIDE DEF g
<1>4. SumOver(g) <= SumOver(f)
  BY <1>2, SumOverMonotone
<1> QED BY <1>3, <1>4 DEF c

\* Two functions that differ at one seat.
LEMMA SumOverChange ==
  ASSUME NEW f \in [Seats -> Int], NEW g \in [Seats -> Int], NEW w \in Seats,
         \A s \in Seats \ {w} : f[s] = g[s]
  PROVE  SumOver(g) = SumOver(f) + (g[w] - f[w])
<1> DEFINE c == g[w] - f[w]
           d == [s \in Seats |-> IF s = w THEN c ELSE 0]
<1>1. c \in Int
  OBVIOUS
<1> HIDE DEF c
<1>2. d \in [Seats -> Int] /\ SumOver(d) = c
  BY <1>1, SumOverSingle
<1>3. g = [s \in Seats |-> f[s] + d[s]]
  BY DEF c
<1> HIDE DEF d
<1>4. SumOver(g) = SumOver(f) + SumOver(d)
  BY <1>2, <1>3, SumOverPlus
<1> QED BY <1>2, <1>4 DEF c

\* A table of numbers has one sum, by rows or by columns.
LEMMA SumOverExchange ==
  ASSUME NEW A \in [Seats -> [Seats -> Int]]
  PROVE  SumOver([q \in Seats |-> SumOver(A[q])])
           = SumOver([r \in Seats |-> SumOver([q \in Seats |-> A[q][r]])])
<1> USE SeatingAssumption
<1> DEFINE col(r) == [q \in Seats |-> A[q][r]]
           rows == [q \in Seats |-> SumOver(A[q])]
           part(n) == [r \in Seats |-> Upto(col(r))[n]]
           v == [n \in 0 .. N |-> SumOver(part(n))]
<1>1. \A q \in Seats : A[q] \in [Seats -> Int]
  OBVIOUS
<1>2. rows \in [Seats -> Int]
  BY <1>1, SumOverInt
<1>3. ASSUME NEW r \in Seats
      PROVE  /\ Upto(col(r))[0] = 0 /\ Upto(col(r))[N] = SumOver(col(r))
             /\ \A n \in Seats : /\ Upto(col(r))[n] \in Int
                                 /\ Upto(col(r))[n + 1] = Upto(col(r))[n] + A[n][r]
  <2>1. col(r) \in [Seats -> Int] /\ \A n \in Seats : col(r)[n] = A[n][r]
    OBVIOUS
  <2> HIDE DEF col
  <2> QED BY <2>1, UptoSums
<1>4. v[0] = 0
  <2>1. part(0) = [r \in Seats |-> 0]
    BY <1>3
  <2>2. v[0] = SumOver(part(0))
    OBVIOUS
  <2> HIDE DEF v, part
  <2> QED BY <2>1, <2>2, SumOverZero
<1>5. v[N] = SumOver([r \in Seats |-> SumOver(col(r))])
  <2>1. part(N) = [r \in Seats |-> SumOver(col(r))]
    BY <1>3
  <2>2. v[N] = SumOver(part(N))
    OBVIOUS
  <2> HIDE DEF v, part, col
  <2> QED BY <2>1, <2>2
<1>6. ASSUME NEW n \in Seats PROVE v[n + 1] = v[n] + rows[n]
  <2>1. part(n) \in [Seats -> Int] /\ A[n] \in [Seats -> Int]
    BY <1>1, <1>3
  <2>2. part(n + 1) = [r \in Seats |-> part(n)[r] + A[n][r]]
    BY <1>3
  <2>3. v[n] = SumOver(part(n)) /\ v[n + 1] = SumOver(part(n + 1)) /\ rows[n] = SumOver(A[n])
    BY DEF Seats
  <2> HIDE DEF part, v, rows
  <2> QED BY <2>1, <2>2, <2>3, SumOverPlus
<1> HIDE DEF rows, v
<1>7. SumOver(rows) = v[N]
  BY <1>2, <1>4, <1>6, SumOverByParts
<1> QED BY <1>5, <1>7 DEF rows
=============================================================================
