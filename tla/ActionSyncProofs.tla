------------------------- MODULE ActionSyncProofs -------------------------
(***************************************************************************)
(* Proofs about ActionSync, for every number of seats, every length of a   *)
(* hand and every order of delivery: the replicas that lost no action      *)
(* apply the same actions in the first hand.                               *)
(*                                                                         *)
(* An action is told by the seat it belongs to, under the number that      *)
(* seat's sequencer has reached, or, when the seat stopped, by whoever     *)
(* folds it. The invariant says that whatever tells of an action of the    *)
(* first hand - a message that waits, travels or is held back, or a        *)
(* history - tells the same of a given number and seat. The turn rule of   *)
(* the machine does the rest: two histories that agree so far expect the   *)
(* same seat.                                                              *)
(***************************************************************************)
EXTENDS ActionSync, SeatingLemmas

Acts == [by : Seats, type : {"play", "fold"}]

Machines == [hand : 0 .. MaxHands, street : Nat, done : Seq(Acts)]

Messages == [hand : 1 .. MaxHands, seq : Nat \ {0}, act : Acts]

-----------------------------------------------------------------------------
(* The machine *)

\* Whose turn it is after the actions `done` of hand h.
Turn(h, done) == CurrentPlayer([hand |-> h, street |-> 1, done |-> done])

\* Every action of the history was taken by the seat whose turn it was.
InTurn(m) ==
  \A k \in 1 .. Len(m.done) : m.done[k].by = Turn(m.hand, SubSeq(m.done, 1, k - 1))

LEMMA TurnIs ==
  ASSUME NEW m \in Machines
  PROVE  CurrentPlayer(m) = Turn(m.hand, m.done)
BY DEF Turn, CurrentPlayer, Folded, Dealer, Machines

\* What one action does to a machine.
LEMMA ApplyActionIs ==
  ASSUME NEW m \in Machines, NEW a \in Acts
  PROVE  LET x == ApplyAction(m, a) IN
         /\ x \in Machines /\ x.hand = m.hand /\ x.street = m.street
         /\ \A k \in 1 .. Len(m.done) : x.done[k] = m.done[k]
         /\ Accepts(m, a) => Len(x.done) = Len(m.done) + 1 /\ x.done[Len(m.done) + 1] = a
         /\ ~ Accepts(m, a) => x = m
<1>1. CASE Accepts(m, a)
  <2>1. ApplyAction(m, a) = [m EXCEPT !.done = Append(@, a)]
    BY <1>1 DEF ApplyAction
  <2>2. m.done \in Seq(Acts)
    BY DEF Machines
  <2>3. Append(m.done, a) \in Seq(Acts) /\ Len(Append(m.done, a)) = Len(m.done) + 1
        /\ Append(m.done, a)[Len(m.done) + 1] = a
        /\ \A k \in 1 .. Len(m.done) : Append(m.done, a)[k] = m.done[k]
    BY <2>2
  <2> DEFINE x == [m EXCEPT !.done = Append(@, a)]
  <2>4. x \in Machines /\ x.hand = m.hand /\ x.street = m.street /\ x.done = Append(m.done, a)
    BY <2>3 DEF Machines
  <2>5. ApplyAction(m, a) = x
    BY <2>1
  <2> HIDE DEF x
  <2> QED BY <1>1, <2>3, <2>4, <2>5
<1>2. CASE ~ Accepts(m, a)
  BY <1>2 DEF ApplyAction
<1> QED BY <1>1, <1>2

\* The machine refuses an action that is out of turn.
LEMMA ApplyActionInTurn ==
  ASSUME NEW m \in Machines, NEW a \in Acts, InTurn(m)
  PROVE  InTurn(ApplyAction(m, a))
<1> DEFINE x == ApplyAction(m, a)
<1>1. x \in Machines /\ x.hand = m.hand
      /\ \A k \in 1 .. Len(m.done) : x.done[k] = m.done[k]
  BY ApplyActionIs
<1>2. CASE ~ Accepts(m, a)
  BY <1>2, ApplyActionIs
<1>3. CASE Accepts(m, a)
  <2>1. Len(x.done) = Len(m.done) + 1 /\ x.done[Len(m.done) + 1] = a
    BY <1>3, ApplyActionIs
  <2>2. a.by = Turn(m.hand, m.done)
    BY <1>3, TurnIs DEF Accepts
  <2> HIDE DEF x
  <2>3. x.done \in Seq(Acts) /\ m.done \in Seq(Acts) /\ Len(m.done) \in Nat
    BY <1>1 DEF Machines
  <2>4. ASSUME NEW k \in 1 .. Len(x.done)
        PROVE  SubSeq(x.done, 1, k - 1) = SubSeq(m.done, 1, k - 1)
    BY <1>1, <2>1, <2>3
  <2>5. SubSeq(m.done, 1, Len(m.done)) = m.done
    BY <2>3
  <2>6. ASSUME NEW k \in 1 .. Len(x.done)
        PROVE  x.done[k].by = Turn(x.hand, SubSeq(x.done, 1, k - 1))
    <3>1. CASE k \in 1 .. Len(m.done)
      BY <1>1, <2>4, <3>1 DEF InTurn
    <3>2. CASE k = Len(m.done) + 1
      <4>1. k - 1 = Len(m.done)
        BY <2>3, <3>2
      <4> QED BY <1>1, <2>1, <2>2, <2>4, <2>5, <3>2, <4>1
    <3> QED BY <2>1, <2>3, <3>1, <3>2
  <2>7. InTurn(x)
    BY <2>6 DEF InTurn
  <2> QED BY <2>7 DEF x
<1> QED BY <1>2, <1>3

-----------------------------------------------------------------------------
(* The sequencer *)

\* push releases messages that were held, under consecutive numbers.
LEMMA ReadyIs ==
  ASSUME NEW p \in SUBSET Messages, IsFiniteSet(p), NEW n \in Nat \ {0}
  PROVE  /\ Ready(n, p) \in Seq(p)
         /\ \A i \in 1 .. Len(Ready(n, p)) : Ready(n, p)[i].seq = n + i - 1
<1> DEFINE c == Cardinality(p)
           free == {j \in 0 .. c : \A q \in p : q.seq # n + j}
           k == Least(free)
<1>1. c \in Nat
  BY FS_CardinalityType
<1>2. free # {}
  <2> SUFFICES ASSUME \A j \in 0 .. c : \E q \in p : q.seq = n + j
               PROVE  FALSE
    OBVIOUS
  <2> DEFINE f == [j \in 0 .. c |-> CHOOSE q \in p : q.seq = n + j]
  <2>1. ASSUME NEW j \in 0 .. c
        PROVE  f[j] \in p /\ f[j].seq = n + j
    OBVIOUS
  <2>2. f \in [0 .. c -> p]
    OBVIOUS
  <2>3. IsFiniteSet(0 .. c) /\ Cardinality(0 .. c) = c + 1
    <3> HIDE DEF c
    <3> QED BY <1>1, FS_Interval
  <2>4. Cardinality(p) < Cardinality(0 .. c)
    BY <1>1, <2>3
  <2> DEFINE D == 0 .. c
  <2> HIDE DEF f, c
  <2>5. PICK x, y \in 0 .. c : x # y /\ f[x] = f[y]
    <3>1. f \in [D -> p] /\ IsFiniteSet(D) /\ Cardinality(p) < Cardinality(D)
      BY <2>2, <2>3, <2>4
    <3>2. \E x, y \in D : x # y /\ f[x] = f[y]
      <4> HIDE DEF D
      <4> QED BY <3>1, FS_PigeonHole
    <3> QED BY <3>2
  <2>6. x \in Int /\ y \in Int /\ f[x].seq = n + x /\ f[y].seq = n + y
    BY <1>1, <2>1
  <2> QED BY <2>5, <2>6
<1>3. free \in SUBSET Nat
  BY <1>1
<1>4. k \in free /\ \A j \in free : k <= j
  <2> HIDE DEF free
  <2> QED BY <1>2, <1>3, LeastExists
<1>5. ASSUME NEW i \in 1 .. k
      PROVE  \E q \in p : q.seq = n + i - 1
  <2>1. k \in 0 .. c
    <3> HIDE DEF k
    <3> QED BY <1>4
  <2>2. i - 1 \in 0 .. c /\ ~ (k <= i - 1) /\ n + (i - 1) = n + i - 1
    <3> HIDE DEF k, c
    <3> QED BY <1>1, <2>1
  <2>3. i - 1 \notin free
    <3> HIDE DEF k, free
    <3> QED BY <1>4, <2>2
  <2> HIDE DEF k, c
  <2> QED BY <2>2, <2>3
<1> DEFINE ready == [i \in 1 .. k |-> CHOOSE q \in p : q.seq = n + i - 1]
<1>6. Ready(n, p) = ready
  BY DEF Ready
<1>7. ASSUME NEW i \in 1 .. k
      PROVE  ready[i] \in p /\ ready[i].seq = n + i - 1
  <2> HIDE DEF k
  <2> QED BY <1>5
<1>8. k \in Nat
  <2> HIDE DEF k
  <2> QED BY <1>3, <1>4
<1>9. ready \in Seq(p) /\ Len(ready) = k
  <2>1. ready \in [1 .. k -> p] /\ DOMAIN ready = 1 .. k
    <3> HIDE DEF k
    <3> QED BY <1>7
  <2> HIDE DEF ready, k
  <2> QED BY <1>8, <2>1
<1> HIDE DEF ready, k
<1> QED BY <1>6, <1>7, <1>9

\* u[i] is the machine after the first i actions of `ready`.
Applied(u, m, ready, n) ==
  u = [i \in 0 .. n |-> IF i = 0 THEN m ELSE ApplyAction(u[i - 1], ready[i].act)]

LEMMA AppliedExists ==
  ASSUME NEW m, NEW ready, NEW n \in Nat
  PROVE  \E u : Applied(u, m, ready, n)
<1> DEFINE T == {k \in Nat : \E u : Applied(u, m, ready, k)}
<1>1. 0 \in T
  <2> DEFINE u == [i \in 0 .. 0 |-> m]
  <2>1. Applied(u, m, ready, 0)
    BY DEF Applied
  <2> QED BY <2>1
<1>2. ASSUME NEW k \in T PROVE k + 1 \in T
  <2>1. PICK u : Applied(u, m, ready, k)
    OBVIOUS
  <2> DEFINE v == [j \in 0 .. k + 1 |->
                     IF j <= k THEN u[j] ELSE ApplyAction(u[k], ready[k + 1].act)]
             more(w, j) == IF j = 0 THEN m ELSE ApplyAction(w[j - 1], ready[j].act)
  <2>2. u = [j \in 0 .. k |-> more(u, j)]
    BY <2>1 DEF Applied
  <2>3. \A j \in 0 .. k + 1 : v[j] = more(v, j)
    <3> SUFFICES ASSUME NEW j \in 0 .. k + 1 PROVE v[j] = more(v, j)
      OBVIOUS
    <3>1. CASE j = k + 1
      <4>1. v[j] = ApplyAction(u[k], ready[k + 1].act) /\ v[k] = u[k]
        BY <3>1
      <4>2. j - 1 = k /\ j # 0
        BY <3>1
      <4> HIDE DEF v
      <4> QED BY <3>1, <4>1, <4>2
    <3>2. CASE j = 0
      <4>1. v[0] = u[0] /\ u[0] = m
        BY <2>2
      <4> HIDE DEF v
      <4> QED BY <3>2, <4>1
    <3>3. CASE j \in 1 .. k
      <4>1. v[j] = u[j] /\ v[j - 1] = u[j - 1] /\ j \in 0 .. k /\ j # 0
        BY <3>3
      <4>2. u[j] = ApplyAction(u[j - 1], ready[j].act)
        <5> HIDE DEF v
        <5> QED BY <2>2, <4>1
      <4> HIDE DEF v
      <4> QED BY <4>1, <4>2
    <3> QED BY <3>1, <3>2, <3>3
  <2>4. v = [j \in 0 .. k + 1 |-> more(v, j)]
    <3>1. v = [j \in 0 .. k + 1 |-> v[j]]
      OBVIOUS
    <3> HIDE DEF v
    <3> QED BY <2>3, <3>1
  <2>5. Applied(v, m, ready, k + 1)
    <3> HIDE DEF v
    <3> QED BY <2>4 DEF Applied
  <2> QED BY <2>5
<1>3. T = Nat
  <2> HIDE DEF T
  <2>1. T \in SUBSET Nat
    BY DEF T
  <2> QED BY <1>1, <1>2, <2>1, SetInduction
<1> QED BY <1>3

\* The machine after n of the actions: the history so far stays, only actions
\* in turn are added, and all of them unless some were refused.
Grown(x, m, ready, n) ==
  /\ x \in Machines /\ x.hand = m.hand /\ x.street = m.street
  /\ Len(m.done) <= Len(x.done) /\ Len(x.done) <= Len(m.done) + n
  /\ \A k \in 1 .. Len(m.done) : x.done[k] = m.done[k]
  /\ InTurn(m) => InTurn(x)
  /\ Len(x.done) = Len(m.done) + n =>
       \A j \in 1 .. n : x.done[Len(m.done) + j] = ready[j].act

LEMMA GrownOnce ==
  ASSUME NEW m \in Machines, NEW ready \in Seq(Messages), NEW n \in Nat,
         n + 1 <= Len(ready), NEW x, Grown(x, m, ready, n)
  PROVE  Grown(ApplyAction(x, ready[n + 1].act), m, ready, n + 1)
<1> DEFINE a == ready[n + 1].act
           y == ApplyAction(x, a)
<1>1. a \in Acts
  <2>1. n + 1 \in 1 .. Len(ready)
    OBVIOUS
  <2>2. ready[n + 1] \in Messages
    BY <2>1
  <2> QED BY <2>2 DEF Messages
<1>2. x \in Machines
  BY DEF Grown
<1> HIDE DEF a
<1>3. /\ y \in Machines /\ y.hand = x.hand /\ y.street = x.street
      /\ \A k \in 1 .. Len(x.done) : y.done[k] = x.done[k]
      /\ Accepts(x, a) => Len(y.done) = Len(x.done) + 1 /\ y.done[Len(x.done) + 1] = a
      /\ ~ Accepts(x, a) => y = x
  BY <1>1, <1>2, ApplyActionIs
<1>4. InTurn(x) => InTurn(y)
  BY <1>1, <1>2, ApplyActionInTurn
<1> HIDE DEF y
<1> DEFINE lm == Len(m.done)
           lx == Len(x.done)
           ly == Len(y.done)
<1>5. lx \in Nat /\ lm \in Nat /\ ly \in Nat
  <2>1. x.done \in Seq(Acts) /\ m.done \in Seq(Acts) /\ y.done \in Seq(Acts)
    BY <1>2, <1>3 DEF Machines
  <2> QED BY <2>1
<1>6. /\ lm <= lx /\ lx <= lm + n
      /\ \A k \in 1 .. lm : x.done[k] = m.done[k]
      /\ lx = lm + n => \A j \in 1 .. n : x.done[lm + j] = ready[j].act
      /\ x.hand = m.hand /\ x.street = m.street /\ (InTurn(m) => InTurn(x))
  BY DEF Grown
<1>7. /\ \A k \in 1 .. lx : y.done[k] = x.done[k]
      /\ Accepts(x, a) => ly = lx + 1 /\ y.done[lx + 1] = a
      /\ ~ Accepts(x, a) => ly = lx
  BY <1>3
<1> HIDE DEF lm, lx, ly
<1>8. lm <= ly /\ ly <= lm + (n + 1)
  BY <1>5, <1>6, <1>7
<1>9. \A k \in 1 .. lm : y.done[k] = m.done[k]
  BY <1>5, <1>6, <1>7
<1>10. ASSUME ly = lm + (n + 1), NEW j \in 1 .. n + 1
       PROVE  y.done[lm + j] = ready[j].act
  <2>1. Accepts(x, a)
    BY <1>5, <1>6, <1>7, <1>10
  <2>2. lx = lm + n
    BY <1>5, <1>7, <1>10, <2>1
  <2>3. CASE j = n + 1
    <3>1. lm + j = lx + 1
      BY <1>5, <2>2, <2>3
    <3> QED BY <1>7, <2>1, <2>3, <3>1 DEF a
  <2>4. CASE j # n + 1
    <3>1. j \in 1 .. n /\ lm + j \in 1 .. lx
      BY <1>5, <2>2, <2>4
    <3> QED BY <1>6, <1>7, <2>2, <3>1
  <2> QED BY <2>3, <2>4
<1>11. y \in Machines /\ y.hand = m.hand /\ y.street = m.street /\ (InTurn(m) => InTurn(y))
  BY <1>3, <1>4, <1>6
<1>12. Grown(y, m, ready, n + 1)
  BY <1>8, <1>9, <1>10, <1>11 DEF Grown, lm, ly
<1> QED BY <1>12 DEF y, a

LEMMA ApplyAllGrows ==
  ASSUME NEW m \in Machines, NEW ready \in Seq(Messages)
  PROVE  Grown(ApplyAll(m, ready), m, ready, Len(ready))
<1> DEFINE u == CHOOSE u : Applied(u, m, ready, Len(ready))
           T == {n \in Nat : n <= Len(ready) => Grown(u[n], m, ready, n)}
<1>1. Len(ready) \in Nat
  OBVIOUS
<1>2. Applied(u, m, ready, Len(ready))
  BY <1>1, AppliedExists
<1>3. ApplyAll(m, ready) = u[Len(ready)]
  BY DEF ApplyAll, Applied
<1> HIDE DEF u
<1>4. u[0] = m /\ \A n \in 1 .. Len(ready) : u[n] = ApplyAction(u[n - 1], ready[n].act)
  BY <1>1, <1>2 DEF Applied
<1>5. 0 \in T
  <2>1. m.done \in Seq(Acts)
    BY DEF Machines
  <2>2. Grown(m, m, ready, 0)
    BY <2>1 DEF Grown
  <2> QED BY <1>4, <2>2
<1>6. ASSUME NEW n \in T PROVE n + 1 \in T
  <2> SUFFICES ASSUME n + 1 <= Len(ready) PROVE Grown(u[n + 1], m, ready, n + 1)
    OBVIOUS
  <2>1. n \in Nat /\ Grown(u[n], m, ready, n)
    BY <1>1
  <2>2. u[n + 1] = ApplyAction(u[n], ready[n + 1].act)
    BY <1>1, <1>4, <2>1
  <2> HIDE DEF T
  <2> QED BY <2>1, <2>2, GrownOnce
<1>7. T = Nat
  <2> HIDE DEF T
  <2>1. T \in SUBSET Nat
    BY DEF T
  <2> QED BY <1>5, <1>6, <2>1, SetInduction
<1>8. Grown(u[Len(ready)], m, ready, Len(ready))
  BY <1>1, <1>7
<1> QED BY <1>3, <1>8

\* A machine that is not betting, or that waits for a seat none of the actions
\* is of, stays as it is.
LEMMA ApplyAllIdle ==
  ASSUME NEW m, NEW ready, Len(ready) \in Nat,
         \A i \in 1 .. Len(ready) : ~ Accepts(m, ready[i].act)
  PROVE  ApplyAll(m, ready) = m
<1> DEFINE u == CHOOSE u : Applied(u, m, ready, Len(ready))
           T == {n \in Nat : n <= Len(ready) => u[n] = m}
<1>1. Applied(u, m, ready, Len(ready))
  BY AppliedExists
<1>2. ApplyAll(m, ready) = u[Len(ready)]
  BY DEF ApplyAll, Applied
<1> HIDE DEF u
<1>3. u[0] = m /\ \A n \in 1 .. Len(ready) : u[n] = ApplyAction(u[n - 1], ready[n].act)
  BY <1>1 DEF Applied
<1>4. 0 \in T
  BY <1>3
<1>5. ASSUME NEW n \in T PROVE n + 1 \in T
  <2> SUFFICES ASSUME n + 1 <= Len(ready) PROVE u[n + 1] = m
    OBVIOUS
  <2>1. n \in Nat /\ u[n] = m /\ n + 1 \in 1 .. Len(ready)
    OBVIOUS
  <2>2. u[n + 1] = ApplyAction(m, ready[n + 1].act)
    BY <1>3, <2>1
  <2> QED BY <2>1, <2>2 DEF ApplyAction
<1>6. T = Nat
  <2> HIDE DEF T
  <2>1. T \in SUBSET Nat
    BY DEF T
  <2> QED BY <1>4, <1>5, <2>1, SetInduction
<1>7. u[Len(ready)] = m
  BY <1>6
<1> QED BY <1>2, <1>7

-----------------------------------------------------------------------------
(* The invariant *)

Envelopes == [from : Seats, to : Seats, seq : Int, msg : Messages]

TypesOK ==
  /\ handNum \in [Seats -> 1 .. MaxHands]
  /\ machine \in [Seats -> Machines]
  /\ nextSeq \in [Seats -> Nat \ {0}]
  /\ pending \in [Seats -> SUBSET Messages]
  /\ outbox \in [Seats -> SUBSET Messages]
  /\ gone \in [Seats -> SUBSET silent]
  /\ betting \in [Seats -> BOOLEAN]
  /\ ticks \in [Seats -> Nat]
  /\ envSeq \in [Seats -> Int]
  /\ wire \in SUBSET Envelopes
  /\ missed \in SUBSET Seats
  /\ silent \in SUBSET Seats

\* A replica speaks for itself and for seats that stopped, and nobody else
\* speaks for it; until its first hand has settled it has neither a timer nor a
\* later hand, and its sequencer counts what its machine has applied.
ReplicaOK(r) ==
  /\ IsFiniteSet(pending[r])
  /\ \A m \in outbox[r] : m.act.by \in {r} \cup silent
  /\ \A m \in pending[r] : m.act.by # r
  /\ machine[r].hand = 0 =>
       /\ machine[r] = NoMachine
       /\ handNum[r] = 1 /\ nextSeq[r] = 1 /\ pending[r] = {}
       /\ ticks[r] = 0 /\ ~ betting[r]
  /\ machine[r].hand = 1 =>
       /\ InTurn(machine[r])
       /\ ticks[r] > 0 \/ handNum[r] > 1 => Settled(machine[r])
       /\ betting[r] => InBetting(machine[r]) /\ CurrentPlayer(machine[r]) = r
       /\ handNum[r] = 1 /\ r \notin missed => nextSeq[r] = Len(machine[r].done) + 1

WireOK ==
  \A e \in wire : e.msg.act.by \in {e.from} \cup silent /\ e.to # e.from

\* m waits to be broadcast, is on its way, or is held back.
Afoot(m) ==
  \/ \E e \in wire : e.msg = m
  \/ \E q \in Seats : m \in outbox[q] \/ m \in pending[q]

\* No replica plays the second hand, or speaks of it, before all are in it.
Together ==
  /\ \A m \in Messages : Afoot(m) /\ m.hand > 1 => \A q \in Seats : handNum[q] > 1
  /\ \A r \in Seats : machine[r].hand > 1 => \A q \in Seats : handNum[q] > 1

\* The message that action a is number k of the first hand.
First(k, a) == [hand |-> 1, seq |-> k, act |-> a]

\* Replica q lost nothing and has applied a as number k of the first hand.
Played(q, k, a) ==
  /\ q \notin missed /\ machine[q].hand = 1
  /\ k \in 1 .. Len(machine[q].done) /\ machine[q].done[k] = a

Said(k, a) == Afoot(First(k, a)) \/ \E q \in Seats : Played(q, k, a)

\* One number and one seat name one action of the first hand; a seat that
\* stopped only folds, and a seat that plays has counted what it did.
OneStory ==
  \A k \in Nat \ {0}, a \in Acts :
    Said(k, a) =>
      /\ \A b \in Acts : Said(k, b) /\ b.by = a.by => b = a
      /\ a.by \in silent => a.type = "fold"
      /\ a.by \notin silent /\ handNum[a.by] = 1 => k < nextSeq[a.by]

SInv ==
  TypesOK /\ (\A r \in Seats : ReplicaOK(r)) /\ WireOK /\ Together /\ OneStory

-----------------------------------------------------------------------------
(* What a step that leaves a part alone keeps *)

LEMMA ReplicaStays ==
  ASSUME NEW q \in Seats, ReplicaOK(q), silent' = silent,
         pending'[q] = pending[q], outbox'[q] = outbox[q],
         machine'[q] = machine[q], handNum'[q] = handNum[q],
         nextSeq'[q] = nextSeq[q], ticks'[q] = ticks[q], betting'[q] = betting[q],
         q \in missed => q \in missed'
  PROVE  ReplicaOK(q)'
BY DEF ReplicaOK

LEMMA TogetherStays ==
  ASSUME TypesOK, TypesOK', Together,
         \A m \in Messages : Afoot(m)' => Afoot(m),
         \A q \in Seats : machine'[q].hand > 1 => machine[q].hand > 1,
         \A q \in Seats : handNum[q] <= handNum'[q]
  PROVE  Together'
<1>1. \A q \in Seats : handNum[q] \in Int /\ handNum'[q] \in Int
  BY DEF TypesOK
<1>2. (\A q \in Seats : handNum[q] > 1) => \A q \in Seats : handNum'[q] > 1
  BY <1>1
<1> QED BY <1>2 DEF Together

\* What is said of the first hand grows by at most action a under number n.
LEMMA StoryGrows ==
  ASSUME TypesOK, TypesOK', OneStory, silent' = silent,
         NEW n \in Nat \ {0}, NEW a \in Acts,
         \A k \in Nat \ {0}, b \in Acts : Said(k, b)' => Said(k, b) \/ (k = n /\ b = a),
         \A b \in Acts : Said(n, b) /\ b.by = a.by => b = a,
         a.by \in silent => a.type = "fold",
         a.by \notin silent /\ handNum'[a.by] = 1 => n < nextSeq'[a.by],
         \A q \in Seats : handNum'[q] = 1 => handNum[q] = 1 /\ nextSeq[q] <= nextSeq'[q]
  PROVE  OneStory'
<1> SUFFICES ASSUME NEW k \in Nat \ {0}, NEW b \in Acts, Said(k, b)'
             PROVE  /\ \A c \in Acts : Said(k, c)' /\ c.by = b.by => c = b
                    /\ b.by \in silent => b.type = "fold"
                    /\ b.by \notin silent /\ handNum'[b.by] = 1 => k < nextSeq'[b.by]
  BY DEF OneStory
<1>1. ASSUME NEW c \in Acts, Said(k, c)', c.by = b.by PROVE c = b
  <2>1. (Said(k, b) \/ (k = n /\ b = a)) /\ (Said(k, c) \/ (k = n /\ c = a))
    BY <1>1
  <2>2. Said(k, b) /\ Said(k, c) => c = b
    BY <1>1 DEF OneStory
  <2> QED BY <1>1, <2>1, <2>2
<1>2. b.by \in silent => b.type = "fold"
  BY DEF OneStory
<1>3. ASSUME b.by \notin silent, handNum'[b.by] = 1 PROVE k < nextSeq'[b.by]
  <2>1. b.by \in Seats
    BY DEF Acts
  <2>2. CASE Said(k, b)
    <3>1. handNum[b.by] = 1 /\ nextSeq[b.by] <= nextSeq'[b.by]
      BY <1>3, <2>1
    <3>2. k < nextSeq[b.by]
      BY <1>3, <2>2, <3>1 DEF OneStory
    <3>3. nextSeq[b.by] \in Int /\ nextSeq'[b.by] \in Int
      BY <2>1 DEF TypesOK
    <3> QED BY <3>1, <3>2, <3>3
  <2>3. CASE k = n /\ b = a
    BY <1>3, <2>3
  <2> QED BY <2>2, <2>3
<1> QED BY <1>1, <1>2, <1>3

LEMMA StoryStays ==
  ASSUME TypesOK, TypesOK', OneStory, silent' = silent,
         \A k \in Nat \ {0}, b \in Acts : Said(k, b)' => Said(k, b),
         \A q \in Seats : handNum'[q] = 1 => handNum[q] = 1 /\ nextSeq[q] <= nextSeq'[q]
  PROVE  OneStory'
<1> SUFFICES ASSUME NEW k \in Nat \ {0}, NEW b \in Acts, Said(k, b)'
             PROVE  /\ \A c \in Acts : Said(k, c)' /\ c.by = b.by => c = b
                    /\ b.by \in silent => b.type = "fold"
                    /\ b.by \notin silent /\ handNum'[b.by] = 1 => k < nextSeq'[b.by]
  BY DEF OneStory
<1>1. Said(k, b)
  OBVIOUS
<1>2. \A c \in Acts : Said(k, c)' /\ c.by = b.by => c = b
  BY <1>1 DEF OneStory
<1>3. b.by \in silent => b.type = "fold"
  BY <1>1 DEF OneStory
<1>4. ASSUME b.by \notin silent, handNum'[b.by] = 1 PROVE k < nextSeq'[b.by]
  <2>1. b.by \in Seats
    BY DEF Acts
  <2>2. handNum[b.by] = 1 /\ nextSeq[b.by] <= nextSeq'[b.by]
    BY <1>4, <2>1
  <2>3. k < nextSeq[b.by]
    BY <1>1, <1>4, <2>2 DEF OneStory
  <2>4. nextSeq[b.by] \in Int /\ nextSeq'[b.by] \in Int
    BY <2>1 DEF TypesOK
  <2> QED BY <2>2, <2>3, <2>4
<1> QED BY <1>2, <1>3, <1>4

\* A step that neither adds a message nor touches a history.
LEMMA Quiet ==
  ASSUME SInv, TypesOK', silent' = silent, handNum' = handNum, nextSeq' = nextSeq,
         \A m \in Messages : Afoot(m)' => Afoot(m),
         \A q \in Seats : machine'[q].hand = machine[q].hand /\ machine'[q].done = machine[q].done,
         missed \subseteq missed'
  PROVE  Together' /\ OneStory'
<1>1. \A q \in Seats : handNum[q] \in Int /\ nextSeq[q] \in Int
  BY DEF SInv, TypesOK
<1>2. ASSUME NEW k \in Nat \ {0}, NEW b \in Acts, Said(k, b)'
      PROVE  Said(k, b)
  <2>1. CASE Afoot(First(k, b))'
    <3>1. 1 \in 1 .. MaxHands
      BY SyncAssumption
    <3>2. First(k, b) \in Messages
      BY <3>1 DEF First, Messages
    <3> QED BY <2>1, <3>2 DEF Said
  <2>2. ASSUME NEW q \in Seats, Played(q, k, b)' PROVE Played(q, k, b)
    BY <2>2 DEF Played
  <2> QED BY <1>2, <2>1, <2>2 DEF Said
<1>3. Together'
  BY <1>1, TogetherStays DEF SInv
<1>4. OneStory'
  BY <1>1, <1>2, StoryStays DEF SInv
<1> QED BY <1>3, <1>4

-----------------------------------------------------------------------------
(* The actions *)

LEMMA InitStory ==
  ASSUME Init PROVE SInv
<1> USE SyncAssumption
<1>1. 1 \in 1 .. MaxHands /\ NoMachine \in Machines
  BY DEF NoMachine, Machines
<1>2. TypesOK
  BY <1>1 DEF Init, TypesOK
<1>3. ASSUME NEW r \in Seats PROVE ReplicaOK(r)
  <2>1. IsFiniteSet({})
    BY FS_EmptySet
  <2>2. /\ pending[r] = {} /\ outbox[r] = {} /\ machine[r] = NoMachine
        /\ handNum[r] = 1 /\ nextSeq[r] = 1 /\ ticks[r] = 0 /\ betting[r] = FALSE
    BY DEF Init
  <2>3. machine[r].hand # 1
    BY <2>2 DEF NoMachine
  <2> QED BY <2>1, <2>2, <2>3 DEF ReplicaOK
<1>4. WireOK
  BY DEF Init, WireOK
<1>5. \A m : ~ Afoot(m)
  BY DEF Init, Afoot
<1>6. \A q \in Seats : machine[q].hand = 0
  BY DEF Init, NoMachine
<1>7. Together
  BY <1>5, <1>6 DEF Together
<1>8. \A k, a : ~ Said(k, a)
  BY <1>5, <1>6 DEF Said, Played
<1>9. OneStory
  BY <1>8 DEF OneStory
<1> QED BY <1>2, <1>3, <1>4, <1>7, <1>9 DEF SInv

LEMMA InstallStory ==
  ASSUME SInv, NEW r \in Present, Install(r) PROVE SInv'
<1> USE DEF Install
<1>1. r \in Seats /\ handNum[r] \in 1 .. MaxHands
  BY DEF Present, SInv, TypesOK
<1>2. NewMachine(handNum[r]) \in Machines
  BY <1>1, SyncAssumption DEF NewMachine, Machines
<1>3. TypesOK'
  BY <1>1, <1>2 DEF SInv, TypesOK
<1>4. machine'[r] = NewMachine(handNum[r]) /\ \A q \in Seats \ {r} : machine'[q] = machine[q]
  BY <1>1 DEF SInv, TypesOK
<1>5. handNum[r] = 1 => machine[r].hand = 0
  <2>1. machine[r].hand \in 0 .. MaxHands
    BY <1>1 DEF SInv, TypesOK, Machines
  <2> QED BY <2>1
<1>6. ASSUME NEW q \in Seats PROVE ReplicaOK(q)'
  <2>1. CASE q # r
    BY <1>4, <2>1, ReplicaStays DEF SInv
  <2>2. CASE q = r
    <3>1. /\ machine'[r].hand = handNum[r] /\ machine'[r].done = <<>>
      BY <1>4 DEF NewMachine
    <3>2. ReplicaOK(r)
      BY <1>1 DEF SInv
    <3>3. machine'[r].hand # 0
      BY <1>1, <3>1
    <3>4. IsFiniteSet(pending'[r])
          /\ (\A m \in outbox'[r] : m.act.by \in {r} \cup silent')
          /\ (\A m \in pending'[r] : m.act.by # r)
      BY <3>2 DEF ReplicaOK
    <3>5. ASSUME machine'[r].hand = 1
          PROVE  /\ handNum'[r] = 1 /\ nextSeq'[r] = 1 /\ ticks'[r] = 0 /\ ~ betting'[r]
      BY <1>5, <3>1, <3>2, <3>5 DEF ReplicaOK
    <3>6. InTurn(machine'[r]) /\ Len(machine'[r].done) = 0
      BY <3>1 DEF InTurn
    <3> QED BY <2>2, <3>3, <3>4, <3>5, <3>6 DEF ReplicaOK
  <2> QED BY <2>1, <2>2
<1>7. WireOK'
  BY DEF SInv, WireOK
<1>8. \A m : Afoot(m)' <=> Afoot(m)
  BY DEF Afoot
<1>9. Together'
  <2>1. \A q \in Seats : handNum[q] \in Int
    BY DEF SInv, TypesOK
  <2>2. ASSUME machine'[r].hand > 1 PROVE \A q \in Seats : handNum'[q] > 1
    <3>1. handNum[r] > 1
      BY <1>4, <2>2 DEF NewMachine
    <3> QED BY <3>1
  <2>3. ASSUME NEW s \in Seats, machine'[s].hand > 1 PROVE \A q \in Seats : handNum'[q] > 1
    <3>1. CASE s = r
      BY <2>2, <2>3, <3>1
    <3>2. CASE s # r
      BY <1>4, <2>3, <3>2 DEF SInv, Together
    <3> QED BY <3>1, <3>2
  <2>4. \A m \in Messages : Afoot(m)' /\ m.hand > 1 => \A q \in Seats : handNum'[q] > 1
    BY <1>8 DEF SInv, Together
  <2> QED BY <2>3, <2>4 DEF Together
<1>10. OneStory'
  <2>1. ASSUME NEW k \in Nat \ {0}, NEW b \in Acts, Said(k, b)' PROVE Said(k, b)
    <3>1. ASSUME NEW q \in Seats, Played(q, k, b)' PROVE Played(q, k, b)
      <4>1. q # r
        BY <1>4, <3>1 DEF Played, NewMachine
      <4> QED BY <1>4, <3>1, <4>1 DEF Played
    <3> QED BY <1>8, <2>1, <3>1 DEF Said
  <2>2. \A q \in Seats : nextSeq[q] <= nextSeq'[q]
    BY DEF SInv, TypesOK
  <2> QED BY <1>3, <2>1, <2>2, StoryStays DEF SInv
<1> QED BY <1>3, <1>6, <1>7, <1>9, <1>10 DEF SInv

LEMMA OpenStreetStory ==
  ASSUME SInv, NEW r \in Present, OpenStreet(r) PROVE SInv'
<1> USE DEF OpenStreet
<1>1. r \in Seats /\ machine[r] \in Machines
  BY DEF Present, SInv, TypesOK
<1> DEFINE m == machine[r]
           x == [machine[r] EXCEPT !.street = @ + 1]
<1>2. x \in Machines /\ x.hand = m.hand /\ x.done = m.done
  BY <1>1 DEF Machines
<1>3. machine' = [machine EXCEPT ![r] = x]
  OBVIOUS
<1>4. machine'[r] = x /\ \A q \in Seats \ {r} : machine'[q] = machine[q]
  BY <1>1, <1>3 DEF SInv, TypesOK
<1>5. TypesOK'
  <2> HIDE DEF x
  <2> QED BY <1>2, <1>3 DEF SInv, TypesOK
<1>6. Awaiting(m) /\ m.hand > 0
  BY DEF Awaiting
<1> HIDE DEF x
<1>7. ASSUME NEW q \in Seats PROVE ReplicaOK(q)'
  <2>1. CASE q # r
    BY <1>4, <2>1, ReplicaStays DEF SInv
  <2>2. CASE q = r
    <3>1. ReplicaOK(r)
      BY <1>1 DEF SInv
    <3>2. Settled(m) => Settled(x)
      BY <1>2 DEF Settled, Folded
    <3>3. InTurn(m) => InTurn(x)
      BY <1>2 DEF InTurn
    <3>4. ~ InBetting(m)
      BY <1>6 DEF InBetting
    <3>5. machine'[r].hand # 0 /\ machine'[r].hand = m.hand
      BY <1>2, <1>4, <1>6
    <3>6. m.hand = 1 => ~ betting'[r]
      BY <3>1, <3>4 DEF ReplicaOK
    <3> HIDE DEF m
    <3>7. machine[r] = m
      BY DEF m
    <3>8. machine'[r].hand = 1 =>
            /\ InTurn(machine'[r])
            /\ ticks'[r] > 0 \/ handNum'[r] > 1 => Settled(machine'[r])
            /\ handNum'[r] = 1 /\ r \notin missed' => nextSeq'[r] = Len(machine'[r].done) + 1
      BY <1>2, <1>4, <3>1, <3>2, <3>3, <3>5, <3>7 DEF ReplicaOK
    <3> QED BY <2>2, <3>1, <3>5, <3>6, <3>8 DEF ReplicaOK
  <2> QED BY <2>1, <2>2
<1>8. WireOK'
  BY DEF SInv, WireOK
<1>9. \A n : Afoot(n)' => Afoot(n)
  BY DEF Afoot
<1>10. \A q \in Seats : machine'[q].hand = machine[q].hand /\ machine'[q].done = machine[q].done
  BY <1>2, <1>4
<1>11. Together' /\ OneStory'
  BY <1>5, <1>9, <1>10, Quiet
<1> QED BY <1>5, <1>7, <1>8, <1>11 DEF SInv

\* A vote that is confirmed when the seat is not the one to act, or a turn that
\* needs no fold.
LEMMA IdleStory ==
  ASSUME SInv, gone' \in [Seats -> SUBSET silent],
         UNCHANGED <<handNum, machine, nextSeq, pending, betting, ticks, outbox, envSeq,
                     wire, missed, silent>>
  PROVE  SInv'
<1>1. TypesOK'
  BY DEF SInv, TypesOK
<1>2. \A q \in Seats : ReplicaOK(q)'
  BY ReplicaStays DEF SInv
<1>3. WireOK'
  BY DEF SInv, WireOK
<1>4. \A n : Afoot(n)' => Afoot(n)
  BY DEF Afoot
<1>5. Together' /\ OneStory'
  BY <1>1, <1>4, Quiet
<1> QED BY <1>1, <1>2, <1>3, <1>5 DEF SInv

LEMMA UpdateStory ==
  ASSUME SInv, NEW r \in Present, Update(r) PROVE SInv'
<1>1. r \in Seats /\ machine[r] \in Machines
  BY DEF Present, SInv, TypesOK
<1> DEFINE m == machine[r]
<1>2. /\ m # NoMachine
      /\ betting'[r] => InBetting(m) /\ CurrentPlayer(m) = r
      /\ ticks'[r] > 0 => Settled(m) \/ ticks[r] > 0
      /\ \A q \in Seats \ {r} : betting'[q] = betting[q] /\ ticks'[q] = ticks[q]
  BY <1>1 DEF Update, SInv, TypesOK
<1>3. ticks' \in [Seats -> Nat] /\ betting' \in [Seats -> BOOLEAN]
  <2>1. CASE Settled(m)
    <3>1. ticks' = [ticks EXCEPT ![r] = @ + 1] /\ betting' = [betting EXCEPT ![r] = FALSE]
      BY <2>1 DEF Update
    <3>2. ticks[r] + 1 \in Nat
      BY <1>1 DEF SInv, TypesOK
    <3> QED BY <1>1, <3>1, <3>2 DEF SInv, TypesOK
  <2>2. CASE ~ Settled(m)
    <3>1. ticks' = ticks /\ betting' = [betting EXCEPT ![r] = InBetting(m) /\ CurrentPlayer(m) = r]
      BY <2>2 DEF Update
    <3>2. (InBetting(m) /\ CurrentPlayer(m) = r) \in BOOLEAN
      OBVIOUS
    <3> HIDE DEF m
    <3> QED BY <3>1, <3>2 DEF SInv, TypesOK
  <2> QED BY <2>1, <2>2
<1>4. UNCHANGED <<handNum, machine, nextSeq, pending, gone, outbox, envSeq, wire, missed, silent>>
  BY DEF Update
<1>5. TypesOK'
  BY <1>3, <1>4 DEF SInv, TypesOK
<1>6. ASSUME NEW q \in Seats PROVE ReplicaOK(q)'
  <2>1. CASE q # r
    BY <1>2, <1>4, <2>1, ReplicaStays DEF SInv
  <2>2. CASE q = r
    <3>1. ReplicaOK(r)
      BY <1>1 DEF SInv
    <3>2. machine[r].hand # 0
      BY <1>2, <3>1 DEF ReplicaOK
    <3>3. ticks'[r] > 0 \/ handNum'[r] > 1 => Settled(m) \/ ticks[r] > 0 \/ handNum[r] > 1
      BY <1>2, <1>4
    <3> QED BY <1>2, <1>4, <2>2, <3>1, <3>2, <3>3 DEF ReplicaOK
  <2> QED BY <2>1, <2>2
<1>7. WireOK'
  BY <1>4 DEF SInv, WireOK
<1>8. \A n : Afoot(n)' => Afoot(n)
  BY <1>4 DEF Afoot
<1>9. Together' /\ OneStory'
  BY <1>4, <1>5, <1>8, Quiet
<1> QED BY <1>5, <1>6, <1>7, <1>9 DEF SInv

LEMMA DropStaleStory ==
  ASSUME SInv, NEW r \in Present, NEW e \in wire, DropStale(r, e) PROVE SInv'
<1> USE DEF DropStale
<1>1. r \in Seats
  BY DEF Present, SInv, TypesOK
<1>2. TypesOK'
  BY <1>1 DEF SInv, TypesOK
<1>3. \A q \in Seats : ReplicaOK(q)'
  BY ReplicaStays DEF SInv
<1>4. WireOK'
  BY DEF SInv, WireOK
<1>5. \A n : Afoot(n)' => Afoot(n)
  BY DEF Afoot
<1>6. Together' /\ OneStory'
  BY <1>2, <1>5, Quiet
<1> QED BY <1>2, <1>3, <1>4, <1>6 DEF SInv

LEMMA BroadcastStory ==
  ASSUME SInv, NEW r \in Present, NEW msg \in outbox[r], Broadcast(r, msg) PROVE SInv'
<1>1. r \in Seats /\ msg \in Messages /\ envSeq[r] \in Int /\ envSeq[r] + 1 \in Int
  BY DEF Present, SInv, TypesOK
<1> DEFINE new == {[from |-> r, to |-> q, seq |-> envSeq[r] + 1, msg |-> msg] : q \in Present \ {r}}
<1>2. new \in SUBSET Envelopes
      /\ \A e \in new : e.msg = msg /\ e.from = r /\ e.to # r
  BY <1>1 DEF Envelopes, Present
<1> HIDE DEF new
<1>3. /\ outbox' = [outbox EXCEPT ![r] = @ \ {msg}]
      /\ envSeq' = [envSeq EXCEPT ![r] = @ + 1]
      /\ wire' = wire \cup new
      /\ UNCHANGED <<handNum, machine, nextSeq, pending, gone, betting, ticks, missed, silent>>
  BY DEF Broadcast, new
<1>4. TypesOK'
  <2>1. wire' \in SUBSET Envelopes
    BY <1>2, <1>3 DEF SInv, TypesOK
  <2>2. outbox' \in [Seats -> SUBSET Messages] /\ envSeq' \in [Seats -> Int]
    BY <1>1, <1>3 DEF SInv, TypesOK
  <2> QED BY <1>3, <2>1, <2>2 DEF SInv, TypesOK
<1>5. outbox'[r] \subseteq outbox[r] /\ \A q \in Seats \ {r} : outbox'[q] = outbox[q]
  BY <1>1, <1>3 DEF SInv, TypesOK
<1>6. ASSUME NEW q \in Seats PROVE ReplicaOK(q)'
  <2>1. CASE q # r
    BY <1>3, <1>5, <2>1, ReplicaStays DEF SInv
  <2>2. CASE q = r
    <3>1. ReplicaOK(r)
      BY <1>1 DEF SInv
    <3> QED BY <1>3, <1>5, <2>2, <3>1 DEF ReplicaOK
  <2> QED BY <2>1, <2>2
<1>7. WireOK'
  <2>1. msg.act.by \in {r} \cup silent
    BY <1>1 DEF SInv, ReplicaOK
  <2> QED BY <1>2, <1>3, <2>1 DEF SInv, WireOK
<1>8. ASSUME NEW n, Afoot(n)' PROVE Afoot(n)
  <2>1. ASSUME NEW e \in wire', e.msg = n PROVE Afoot(n)
    <3>1. CASE e \in wire
      BY <2>1, <3>1 DEF Afoot
    <3>2. CASE e \in new
      BY <1>1, <1>2, <2>1, <3>2 DEF Afoot
    <3> QED BY <1>3, <2>1, <3>1, <3>2
  <2>2. ASSUME NEW q \in Seats, n \in outbox'[q] \/ n \in pending'[q] PROVE Afoot(n)
    BY <1>3, <1>5, <2>2 DEF Afoot
  <2> QED BY <1>8, <2>1, <2>2 DEF Afoot
<1>9. Together' /\ OneStory'
  BY <1>3, <1>4, <1>8, Quiet
<1> QED BY <1>4, <1>6, <1>7, <1>9 DEF SInv

LEMMA StartNextHandStory ==
  ASSUME SInv, NEW r \in Present, StartNextHand(r) PROVE SInv'
<1>1. r \in Seats /\ ticks[r] \in Nat /\ handNum[r] \in 1 .. MaxHands /\ MaxHands \in Nat
  BY SyncAssumption DEF Present, SInv, TypesOK
<1>2. /\ ticks[r] > 0 /\ handNum[r] < MaxHands
      /\ ticks' = [ticks EXCEPT ![r] = @ - 1]
      /\ handNum' = [handNum EXCEPT ![r] = @ + 1]
      /\ nextSeq' = [nextSeq EXCEPT ![r] = 1]
      /\ pending' = [pending EXCEPT ![r] = {}]
      /\ missed \subseteq missed' /\ missed' \in SUBSET Seats
      /\ \A q \in Seats \ {r} : q \in missed' => q \in missed
      /\ UNCHANGED <<machine, gone, betting, outbox, envSeq, wire, silent>>
  BY <1>1 DEF StartNextHand, SInv, TypesOK
<1>3. ticks[r] - 1 \in Nat /\ handNum[r] + 1 \in 1 .. MaxHands
  BY <1>1, <1>2
<1>4. TypesOK'
  BY <1>1, <1>2, <1>3 DEF SInv, TypesOK
<1>5. /\ handNum'[r] = handNum[r] + 1 /\ handNum'[r] > 1 /\ pending'[r] = {}
      /\ \A q \in Seats \ {r} : /\ ticks'[q] = ticks[q] /\ handNum'[q] = handNum[q]
                                /\ nextSeq'[q] = nextSeq[q] /\ pending'[q] = pending[q]
  BY <1>1, <1>2 DEF SInv, TypesOK
<1>6. ASSUME NEW q \in Seats PROVE ReplicaOK(q)'
  <2>1. CASE q # r
    BY <1>2, <1>5, <2>1, ReplicaStays DEF SInv
  <2>2. CASE q = r
    <3>1. ReplicaOK(r)
      BY <1>1 DEF SInv
    <3>2. machine[r].hand # 0 /\ (machine[r].hand = 1 => Settled(machine[r]))
      BY <1>1, <1>2, <3>1 DEF ReplicaOK
    <3>3. IsFiniteSet(pending'[r]) /\ pending'[r] = {}
      BY <1>5, FS_EmptySet
    <3>4. handNum'[r] # 1
      BY <1>1, <1>5
    <3> QED BY <1>2, <2>2, <3>1, <3>2, <3>3, <3>4 DEF ReplicaOK
  <2> QED BY <2>1, <2>2
<1>7. WireOK'
  BY <1>2 DEF SInv, WireOK
<1>8. ASSUME NEW n, Afoot(n)' PROVE Afoot(n)
  <2>1. \A q \in Seats : pending'[q] \subseteq pending[q]
    BY <1>5
  <2> QED BY <1>2, <1>8, <2>1 DEF Afoot
<1>9. \A q \in Seats : handNum[q] \in Int /\ handNum[q] <= handNum'[q]
  <2>1. \A q \in Seats : handNum[q] \in Int
    BY DEF SInv, TypesOK
  <2> QED BY <1>5, <2>1
<1>10. Together'
  BY <1>2, <1>4, <1>8, <1>9, TogetherStays DEF SInv
<1>11. OneStory'
  <2>1. ASSUME NEW k \in Nat \ {0}, NEW b \in Acts, Said(k, b)' PROVE Said(k, b)
    <3>1. ASSUME NEW q \in Seats, Played(q, k, b)' PROVE Played(q, k, b)
      BY <1>2, <3>1 DEF Played
    <3> QED BY <1>8, <2>1, <3>1 DEF Said
  <2>2. ASSUME NEW q \in Seats, handNum'[q] = 1
        PROVE  handNum[q] = 1 /\ nextSeq[q] <= nextSeq'[q]
    <3>1. q # r
      BY <1>5, <2>2
    <3>2. nextSeq[q] \in Int
      BY DEF SInv, TypesOK
    <3> QED BY <1>5, <2>2, <3>1, <3>2
  <2> QED BY <1>2, <1>4, <2>1, <2>2, StoryStays DEF SInv
<1> QED BY <1>4, <1>6, <1>7, <1>10, <1>11 DEF SInv

\* Replica r takes a number for an action whose turn it is.
LEMMA EmitStory ==
  ASSUME SInv, NEW r \in Present, NEW a \in Acts,
         a.by = r \/ (a.by \in silent /\ a.type = "fold"),
         machine[r].hand # 0, machine[r].hand = 1 => Accepts(machine[r], a),
         machine' = [machine EXCEPT ![r] = ApplyAction(@, a)], Emit(r, a),
         gone' \in [Seats -> SUBSET silent], betting' \in [Seats -> BOOLEAN],
         \A q \in Seats \ {r} : betting'[q] = betting[q],
         machine[r].hand = 1 => ~ betting'[r],
         UNCHANGED <<handNum, pending, ticks, envSeq, wire, missed, silent>>
  PROVE  SInv'
<1> DEFINE m == machine[r]
           x == ApplyAction(m, a)
           msg == PlayerAction(r, a)
<1>1. /\ r \in Seats /\ r \notin silent /\ m \in Machines /\ m.hand \in 0 .. MaxHands
      /\ nextSeq[r] \in Nat \ {0} /\ handNum[r] \in 1 .. MaxHands
  BY DEF Present, SInv, TypesOK, Machines
<1>2. /\ x \in Machines /\ x.hand = m.hand
      /\ \A k \in 1 .. Len(m.done) : x.done[k] = m.done[k]
      /\ Accepts(m, a) => Len(x.done) = Len(m.done) + 1 /\ x.done[Len(m.done) + 1] = a
      /\ ~ Accepts(m, a) => x = m
  BY <1>1, ApplyActionIs
<1>3. InTurn(m) => InTurn(x)
  BY <1>1, ApplyActionInTurn
<1>4. msg \in Messages /\ msg.hand = handNum[r] /\ msg.seq = nextSeq[r] /\ msg.act = a
  BY <1>1 DEF PlayerAction, Messages
<1>5. /\ machine' = [machine EXCEPT ![r] = x]
      /\ outbox' = [outbox EXCEPT ![r] = @ \cup {msg}]
      /\ nextSeq' = [nextSeq EXCEPT ![r] = @ + 1]
  BY DEF Emit
<1> HIDE DEF x, msg
<1>6. TypesOK'
  <2>1. outbox' \in [Seats -> SUBSET Messages]
    <3>1. outbox \in [Seats -> SUBSET Messages] /\ outbox[r] \cup {msg} \in SUBSET Messages
      BY <1>1, <1>4 DEF SInv, TypesOK
    <3> QED BY <1>5, <3>1
  <2>2. nextSeq' \in [Seats -> Nat \ {0}]
    <3>1. nextSeq \in [Seats -> Nat \ {0}] /\ nextSeq[r] + 1 \in Nat \ {0}
      BY <1>1 DEF SInv, TypesOK
    <3> QED BY <1>5, <3>1
  <2>3. machine' \in [Seats -> Machines]
    BY <1>2, <1>5 DEF SInv, TypesOK
  <2> QED BY <2>1, <2>2, <2>3 DEF SInv, TypesOK
<1>7. /\ machine'[r] = x /\ outbox'[r] = outbox[r] \cup {msg} /\ nextSeq'[r] = nextSeq[r] + 1
      /\ \A q \in Seats \ {r} : machine'[q] = machine[q] /\ outbox'[q] = outbox[q]
                                /\ nextSeq'[q] = nextSeq[q]
  BY <1>1, <1>5 DEF SInv, TypesOK
<1> HIDE DEF m
<1>8. ReplicaOK(r) /\ machine[r] = m
  BY <1>1 DEF SInv, m
<1>9. m.hand = 1 =>
        /\ Accepts(m, a) /\ ticks[r] = 0 /\ handNum[r] = 1
        /\ r \notin missed => nextSeq[r] = Len(m.done) + 1
  <2> SUFFICES ASSUME m.hand = 1
               PROVE  /\ Accepts(m, a) /\ ticks[r] = 0 /\ handNum[r] = 1
                      /\ r \notin missed => nextSeq[r] = Len(m.done) + 1
    OBVIOUS
  <2>1. Accepts(m, a) /\ ~ Settled(m)
    BY <1>8 DEF Accepts, InBetting
  <2>2. ~ (ticks[r] > 0) /\ ~ (handNum[r] > 1)
    BY <1>8, <2>1 DEF ReplicaOK
  <2>3. ticks[r] = 0 /\ handNum[r] = 1
    <3>1. ticks[r] \in Nat
      BY <1>1 DEF SInv, TypesOK
    <3> QED BY <1>1, <2>2, <3>1
  <2> QED BY <1>8, <2>1, <2>3 DEF ReplicaOK
<1>10. m.hand # 1 => \A q \in Seats : handNum[q] > 1
  <2>1. m.hand > 1 \/ m.hand = 1
    BY <1>1, <1>8
  <2> QED BY <1>1, <1>8, <2>1 DEF SInv, Together
<1>11. ASSUME NEW q \in Seats PROVE ReplicaOK(q)'
  <2>1. CASE q # r
    BY <1>7, <2>1, ReplicaStays DEF SInv
  <2>2. CASE q = r
    <3>1. \A n \in outbox'[r] : n.act.by \in {r} \cup silent'
      BY <1>4, <1>7, <1>8 DEF ReplicaOK
    <3>2. IsFiniteSet(pending'[r]) /\ \A n \in pending'[r] : n.act.by # r
      BY <1>8 DEF ReplicaOK
    <3>3. machine'[r].hand = m.hand /\ m.hand # 0
      BY <1>2, <1>7, <1>8
    <3>4. ASSUME m.hand = 1
          PROVE  /\ InTurn(machine'[r]) /\ ticks'[r] = 0 /\ handNum'[r] = 1 /\ ~ betting'[r]
                 /\ r \notin missed' => nextSeq'[r] = Len(machine'[r].done) + 1
      <4>1. InTurn(x) /\ Len(x.done) = Len(m.done) + 1
        BY <1>2, <1>3, <1>8, <1>9, <3>4 DEF ReplicaOK
      <4> QED BY <1>7, <1>8, <1>9, <3>4, <4>1
    <3> QED BY <2>2, <3>1, <3>2, <3>3, <3>4 DEF ReplicaOK
  <2> QED BY <2>1, <2>2
<1>12. WireOK'
  BY DEF SInv, WireOK
<1>13. ASSUME NEW n, Afoot(n)' PROVE Afoot(n) \/ n = msg
  BY <1>7, <1>13 DEF Afoot
<1>14. Together'
  <2>1. ASSUME NEW n \in Messages, Afoot(n)', n.hand > 1 PROVE \A q \in Seats : handNum'[q] > 1
    <3>1. CASE Afoot(n)
      BY <2>1, <3>1 DEF SInv, Together
    <3>2. CASE n = msg
      <4>1. m.hand # 1
        BY <1>4, <1>9, <2>1, <3>2
      <4> QED BY <1>10, <4>1
    <3> QED BY <1>13, <2>1, <3>1, <3>2
  <2>2. \A q \in Seats : machine'[q].hand = machine[q].hand
    BY <1>2, <1>7, <1>8
  <2> QED BY <2>1, <2>2 DEF SInv, Together
<1>15. OneStory'
  <2>1. CASE m.hand = 1
    <3>1. ASSUME NEW k \in Nat \ {0}, NEW b \in Acts, Said(k, b)'
          PROVE  Said(k, b) \/ (k = nextSeq[r] /\ b = a)
      <4>1. CASE Afoot(First(k, b))'
        <5>1. CASE Afoot(First(k, b))
          BY <5>1 DEF Said
        <5>2. CASE First(k, b) = msg
          BY <1>4, <5>2 DEF First
        <5> QED BY <1>13, <4>1, <5>1, <5>2
      <4>2. ASSUME NEW q \in Seats, Played(q, k, b)'
            PROVE  Played(q, k, b) \/ (k = nextSeq[r] /\ b = a)
        <5>1. CASE q # r
          BY <1>7, <4>2, <5>1 DEF Played
        <5>2. CASE q = r
          <6>1. /\ r \notin missed /\ k \in 1 .. Len(x.done) /\ x.done[k] = b
            BY <1>7, <4>2, <5>2 DEF Played
          <6>2. Len(x.done) = Len(m.done) + 1 /\ x.done[Len(m.done) + 1] = a
                /\ nextSeq[r] = Len(m.done) + 1
            BY <1>2, <1>9, <2>1, <6>1
          <6>3. Len(m.done) \in Nat
            BY <1>1, <1>8 DEF Machines
          <6>4. k \in 1 .. Len(m.done) \/ k = Len(m.done) + 1
            BY <6>1, <6>2, <6>3
          <6>5. k \in 1 .. Len(m.done) => Played(r, k, b)
            BY <1>2, <1>8, <2>1, <6>1 DEF Played
          <6> QED BY <5>2, <6>1, <6>2, <6>4, <6>5
        <5> QED BY <5>1, <5>2
      <4> QED BY <3>1, <4>1, <4>2 DEF Said
    <3>2. ASSUME NEW b \in Acts, Said(nextSeq[r], b), b.by = a.by PROVE b = a
      <4>1. CASE a.by = r
        <5>1. nextSeq[r] < nextSeq[r]
          BY <1>1, <1>9, <2>1, <3>2, <4>1 DEF SInv, OneStory
        <5> QED BY <1>1, <5>1
      <4>2. CASE a.by \in silent /\ a.type = "fold"
        <5>1. b.type = "fold"
          BY <1>1, <3>2, <4>2 DEF SInv, OneStory
        <5> QED BY <3>2, <4>2, <5>1 DEF Acts
      <4> QED BY <4>1, <4>2
    <3>3. a.by \notin silent => nextSeq[r] < nextSeq'[a.by]
      BY <1>1, <1>7
    <3>4. \A q \in Seats : nextSeq[q] <= nextSeq'[q]
      <4>1. \A q \in Seats : nextSeq[q] \in Nat
        BY DEF SInv, TypesOK
      <4> QED BY <1>7, <4>1
    <3>5. /\ \A q \in Seats : handNum'[q] = 1 => handNum[q] = 1 /\ nextSeq[q] <= nextSeq'[q]
          /\ a.by \notin silent /\ handNum'[a.by] = 1 => nextSeq[r] < nextSeq'[a.by]
          /\ a.by \in silent => a.type = "fold"
      BY <1>1, <3>3, <3>4
    <3>6. TypesOK /\ OneStory /\ silent' = silent
      BY DEF SInv
    <3> QED BY <1>1, <1>6, <3>1, <3>2, <3>5, <3>6, StoryGrows
  <2>2. CASE m.hand # 1
    <3>1. ASSUME NEW k \in Nat \ {0}, NEW b \in Acts, Said(k, b)' PROVE Said(k, b)
      <4>1. CASE Afoot(First(k, b))'
        <5>1. First(k, b) # msg
          <6>1. handNum[r] # 1
            BY <1>1, <1>10, <2>2
          <6> QED BY <1>4, <6>1 DEF First
        <5> QED BY <1>13, <4>1, <5>1 DEF Said
      <4>2. ASSUME NEW q \in Seats, Played(q, k, b)' PROVE Played(q, k, b)
        <5>1. q # r
          BY <1>2, <1>7, <2>2, <4>2 DEF Played
        <5> QED BY <1>7, <4>2, <5>1 DEF Played
      <4> QED BY <3>1, <4>1, <4>2 DEF Said
    <3>2. \A q \in Seats : handNum'[q] # 1
      <4>1. \A q \in Seats : handNum[q] > 1
        BY <1>10, <2>2
      <4>2. \A q \in Seats : handNum[q] \in Int
        BY DEF SInv, TypesOK
      <4> QED BY <4>1, <4>2
    <3> QED BY <1>6, <3>1, <3>2, StoryStays DEF SInv
  <2> QED BY <2>1, <2>2
<1> QED BY <1>6, <1>11, <1>12, <1>14, <1>15 DEF SInv

LEMMA ApplyAndBroadcastStory ==
  ASSUME SInv, NEW r \in Present, NEW type \in {"play", "fold"}, ApplyAndBroadcast(r, type)
  PROVE  SInv'
<1> DEFINE a == [by |-> r, type |-> type]
<1>1. r \in Seats /\ ReplicaOK(r) /\ betting[r] /\ a \in Acts
  BY DEF Present, SInv, ApplyAndBroadcast, Acts
<1>2. machine[r].hand # 0
  BY <1>1 DEF ReplicaOK
<1>3. machine[r].hand = 1 => Accepts(machine[r], a)
  BY <1>1 DEF ReplicaOK, Accepts
<1>4. /\ betting' \in [Seats -> BOOLEAN] /\ ~ betting'[r]
      /\ \A q \in Seats \ {r} : betting'[q] = betting[q]
  BY <1>1 DEF ApplyAndBroadcast, SInv, TypesOK
<1>5. gone' \in [Seats -> SUBSET silent]
  BY DEF ApplyAndBroadcast, SInv, TypesOK
<1>6. a.by = r
  OBVIOUS
<1>7. machine' = [machine EXCEPT ![r] = ApplyAction(@, a)] /\ Emit(r, a)
      /\ UNCHANGED <<handNum, pending, ticks, envSeq, wire, missed, silent>>
  BY DEF ApplyAndBroadcast
<1> HIDE DEF a
<1> QED BY <1>1, <1>2, <1>3, <1>4, <1>5, <1>6, <1>7, EmitStory

\* The fold of a seat that stopped.
LEMMA FoldStory ==
  ASSUME SInv, NEW r \in Present, NEW s \in silent, Fold(r, s),
         gone' \in [Seats -> SUBSET silent],
         UNCHANGED <<handNum, pending, betting, ticks, envSeq, wire, missed, silent>>
  PROVE  SInv'
<1> DEFINE a == [by |-> s, type |-> "fold"]
<1>1. r \in Seats /\ r \notin silent /\ ReplicaOK(r) /\ a \in Acts
  BY DEF Present, SInv, TypesOK, Acts
<1>2. CASE Accepts(machine[r], a)
  <2>1. machine[r].hand # 0 /\ CurrentPlayer(machine[r]) = s
    <3>1. InBetting(machine[r]) /\ CurrentPlayer(machine[r]) = s
      BY <1>2 DEF Accepts
    <3>2. machine[r].hand > 0
      BY <3>1 DEF InBetting
    <3> QED BY <3>1, <3>2
  <2>2. machine[r].hand = 1 => ~ betting'[r]
    BY <1>1, <2>1 DEF ReplicaOK
  <2>3. a.by \in silent /\ a.type = "fold"
    OBVIOUS
  <2>4. machine' = [machine EXCEPT ![r] = ApplyAction(@, a)] /\ Emit(r, a)
    BY <1>2 DEF Fold
  <2>5. betting' \in [Seats -> BOOLEAN] /\ betting' = betting
    BY DEF SInv, TypesOK
  <2> HIDE DEF a
  <2> QED BY <1>1, <1>2, <2>1, <2>2, <2>3, <2>4, <2>5, EmitStory
<1>3. CASE ~ Accepts(machine[r], a)
  <2>1. UNCHANGED <<machine, nextSeq, outbox>>
    BY <1>3 DEF Fold
  <2> QED BY <2>1, IdleStory
<1> QED BY <1>2, <1>3

LEMMA ForceFoldStory ==
  ASSUME SInv, NEW r \in Present, NEW s \in silent, ForceFold(r, s) PROVE SInv'
<1>1. gone' \in [Seats -> SUBSET silent]
  BY DEF ForceFold, SInv, TypesOK
<1> QED BY <1>1, FoldStory DEF ForceFold

LEMMA FoldGoneStory ==
  ASSUME SInv, NEW r \in Present, FoldGoneIfCurrent(r) PROVE SInv'
<1>1. gone' \in [Seats -> SUBSET silent] /\ r \in Seats
  BY DEF FoldGoneIfCurrent, SInv, TypesOK, Present
<1>2. UNCHANGED <<handNum, pending, betting, ticks, envSeq, wire, missed, silent>>
  BY DEF FoldGoneIfCurrent
<1> DEFINE s == CurrentPlayer(machine[r])
<1>3. CASE InBetting(machine[r]) /\ s \in gone[r]
  <2>1. s \in silent /\ Fold(r, s)
    BY <1>1, <1>3 DEF FoldGoneIfCurrent, SInv, TypesOK
  <2> HIDE DEF s
  <2> QED BY <1>1, <1>2, <2>1, FoldStory
<1>4. CASE ~ (InBetting(machine[r]) /\ s \in gone[r])
  <2>1. UNCHANGED <<machine, nextSeq, outbox>>
    BY <1>4 DEF FoldGoneIfCurrent
  <2> QED BY <1>1, <1>2, <2>1, IdleStory
<1> QED BY <1>3, <1>4

\* An action that arrives releases those that waited for it: each was said, and
\* a replica that loses none applies each under its own number.
LEMMA OnPlayerActionStory ==
  ASSUME SInv, NEW r \in Present, NEW e \in wire, OnPlayerAction(r, e) PROVE SInv'
<1> DEFINE held == Put(pending[r], e.msg)
           ready == Ready(nextSeq[r], held)
           m == machine[r]
           x == ApplyAll(m, ready)
<1>1. /\ r \in Seats /\ r \notin silent /\ m \in Machines /\ m.hand \in 0 .. MaxHands
      /\ nextSeq[r] \in Nat \ {0} /\ handNum[r] \in 1 .. MaxHands
      /\ ticks[r] \in Nat
  BY DEF Present, SInv, TypesOK, Machines
<1>2. e \in Envelopes /\ e.msg \in Messages /\ e.to = r /\ e.msg.act.by # r
  <2>1. e \in Envelopes /\ e.to = r
    BY DEF OnPlayerAction, SInv, TypesOK
  <2>2. e.msg.act.by \in {e.from} \cup silent /\ e.to # e.from
    BY DEF SInv, WireOK
  <2> QED BY <1>1, <2>1, <2>2 DEF Envelopes
<1>3. ReplicaOK(r)
  BY <1>1 DEF SInv
<1>4. held \in SUBSET Messages /\ IsFiniteSet(held)
      /\ \A n \in held : (n \in pending[r] \/ n = e.msg) /\ n.act.by # r
  <2>1. pending[r] \in SUBSET Messages /\ IsFiniteSet(pending[r])
        /\ \A n \in pending[r] : n.act.by # r
    BY <1>1, <1>3 DEF SInv, TypesOK, ReplicaOK
  <2> DEFINE rest == {q \in pending[r] : q.seq # e.msg.seq}
  <2>2. IsFiniteSet(rest)
    BY <2>1, FS_Subset
  <2>3. IsFiniteSet(rest \cup {e.msg})
    <3> HIDE DEF rest
    <3> QED BY <2>2, FS_AddElement
  <2>4. held = rest \cup {e.msg}
    BY DEF Put
  <2> QED BY <1>2, <2>1, <2>3, <2>4
<1> HIDE DEF held
<1>5. ready \in Seq(held) /\ \A i \in 1 .. Len(ready) : ready[i].seq = nextSeq[r] + i - 1
  BY <1>1, <1>4, ReadyIs
<1>6. /\ wire' = wire \ {e} /\ missed \subseteq missed' /\ missed' \in SUBSET Seats
      /\ \A q \in Seats \ {r} : q \in missed' => q \in missed
      /\ UNCHANGED <<handNum, gone, betting, ticks, outbox, envSeq, silent>>
  <2>1. missed' = missed \cup {r} \/ missed' = missed
    BY DEF OnPlayerAction
  <2>2. wire' = wire \ {e} /\ UNCHANGED <<handNum, gone, betting, ticks, outbox, envSeq, silent>>
    BY DEF OnPlayerAction
  <2>3. missed \in SUBSET Seats
    BY DEF SInv, TypesOK
  <2> QED BY <1>1, <2>1, <2>2, <2>3
<1>7. CASE m = NoMachine
  <2>1. UNCHANGED <<machine, nextSeq, pending>>
    BY <1>7 DEF OnPlayerAction
  <2>2. TypesOK'
    BY <1>6, <2>1 DEF SInv, TypesOK
  <2>3. \A q \in Seats : ReplicaOK(q)'
    BY <1>6, <2>1, ReplicaStays DEF SInv
  <2>4. WireOK'
    BY <1>6 DEF SInv, WireOK
  <2>5. \A n : Afoot(n)' => Afoot(n)
    BY <1>6, <2>1 DEF Afoot
  <2>6. Together' /\ OneStory'
    BY <1>6, <2>1, <2>2, <2>5, Quiet
  <2> QED BY <2>2, <2>3, <2>4, <2>6 DEF SInv
<1>8. CASE m # NoMachine
  <2>1. /\ pending' = [pending EXCEPT ![r] = held \ {ready[i] : i \in 1 .. Len(ready)}]
        /\ nextSeq' = [nextSeq EXCEPT ![r] = @ + Len(ready)]
        /\ machine' = [machine EXCEPT ![r] = x]
        /\ missed' = IF Len(x.done) < Len(m.done) + Len(ready)
                     THEN missed \cup {r} ELSE missed
    BY <1>8 DEF OnPlayerAction, held
  <2> DEFINE len == Len(ready)
             lm == Len(m.done)
             lx == Len(x.done)
  <2>2. len \in Nat /\ ready \in Seq(Messages)
        /\ \A i \in 1 .. len : ready[i] \in held /\ ready[i] \in Messages
    BY <1>4, <1>5
  <2> HIDE DEF ready
  <2>3. Grown(x, m, ready, len)
    BY <1>1, <2>2, ApplyAllGrows
  <2>4. /\ x \in Machines /\ x.hand = m.hand
        /\ lm \in Nat /\ lx \in Nat /\ lm <= lx /\ lx <= lm + len
        /\ \A k \in 1 .. lm : x.done[k] = m.done[k]
        /\ InTurn(m) => InTurn(x)
        /\ lx = lm + len => \A j \in 1 .. len : x.done[lm + j] = ready[j].act
    <3>1. x \in Machines
      BY <2>3 DEF Grown
    <3>2. lm \in Nat /\ lx \in Nat
      <4> HIDE DEF x
      <4>1. x.done \in Seq(Acts) /\ m.done \in Seq(Acts)
        BY <1>1, <3>1 DEF Machines
      <4> QED BY <4>1
    <3> QED BY <2>3, <3>1, <3>2 DEF Grown
  <2>5. m.hand # 0
    BY <1>3, <1>8 DEF ReplicaOK
  \* A machine whose hand has settled, or whose own player is to act, stays.
  <2>6. m.hand = 1 /\ (Settled(m) \/ betting[r]) => x = m
    <3> SUFFICES ASSUME m.hand = 1, Settled(m) \/ betting[r] PROVE x = m
      OBVIOUS
    <3>1. ASSUME NEW i \in 1 .. len PROVE ~ Accepts(m, ready[i].act)
      <4>1. ready[i].act.by # r
        BY <1>4, <2>2
      <4>2. ~ InBetting(m) \/ CurrentPlayer(m) = r
        BY <1>3 DEF ReplicaOK, InBetting
      <4> QED BY <4>1, <4>2 DEF Accepts
    <3> HIDE DEF m
    <3> QED BY <2>2, <3>1, ApplyAllIdle
  <2> HIDE DEF x
  <2>7. m.hand = 1 /\ x # m => handNum[r] = 1 /\ ticks[r] = 0 /\ ~ betting[r]
    BY <1>1, <1>3, <2>6 DEF ReplicaOK
  <2>8. /\ machine'[r] = x /\ nextSeq'[r] = nextSeq[r] + len /\ pending'[r] \subseteq held
        /\ \A q \in Seats \ {r} : machine'[q] = machine[q] /\ nextSeq'[q] = nextSeq[q]
                                  /\ pending'[q] = pending[q]
    <3>1. pending'[r] \subseteq held /\ \A q \in Seats \ {r} : pending'[q] = pending[q]
      BY <1>1, <2>1 DEF SInv, TypesOK
    <3> QED BY <1>1, <2>1, <3>1 DEF SInv, TypesOK
  <2>9. r \notin missed' => r \notin missed /\ lx = lm + len
    <3> HIDE DEF lm, lx, len
    <3>1. missed' = IF lx < lm + len THEN missed \cup {r} ELSE missed
      BY <2>1 DEF lm, lx, len
    <3> QED BY <2>2, <2>4, <3>1
  <2>10. TypesOK'
    <3>1. pending' \in [Seats -> SUBSET Messages]
      BY <1>4, <2>1 DEF SInv, TypesOK
    <3>2. nextSeq' \in [Seats -> Nat \ {0}]
      BY <1>1, <2>1, <2>2 DEF SInv, TypesOK
    <3>3. machine' \in [Seats -> Machines]
      BY <2>1, <2>4 DEF SInv, TypesOK
    <3> QED BY <1>6, <3>1, <3>2, <3>3 DEF SInv, TypesOK
  <2> HIDE DEF m
  <2>11. machine[r] = m
    BY DEF m
  <2>12. m.hand = 1 /\ handNum[r] = 1 /\ r \notin missed => nextSeq[r] = lm + 1
    BY <1>3, <2>11 DEF ReplicaOK
  <2> HIDE DEF len, lm
  <2>13. ASSUME NEW q \in Seats PROVE ReplicaOK(q)'
    <3>1. CASE q # r
      BY <1>6, <2>8, <3>1, ReplicaStays DEF SInv
    <3>2. CASE q = r
      <4>1. IsFiniteSet(pending'[r]) /\ \A n \in pending'[r] : n.act.by # r
        BY <1>4, <2>8, FS_Subset
      <4>2. \A n \in outbox'[r] : n.act.by \in {r} \cup silent'
        BY <1>3, <1>6 DEF ReplicaOK
      <4>3. machine'[r].hand = m.hand /\ m.hand # 0
        BY <2>4, <2>5, <2>8, <2>11
      <4>4. ASSUME m.hand = 1, r \notin missed', handNum[r] = 1
            PROVE  nextSeq'[r] = lx + 1
        <5> HIDE DEF lx
        <5>1. r \notin missed /\ lx = lm + len
          BY <2>9, <4>4
        <5>2. nextSeq[r] = lm + 1 /\ nextSeq'[r] = nextSeq[r] + len
          BY <2>8, <2>12, <4>4, <5>1
        <5>3. lm \in Int /\ len \in Int
          BY <2>2, <2>4
        <5> QED BY <5>1, <5>2, <5>3
      <4>5. ASSUME m.hand = 1
            PROVE  /\ InTurn(x)
                   /\ ticks[r] > 0 \/ handNum[r] > 1 => Settled(x)
                   /\ betting[r] => InBetting(x) /\ CurrentPlayer(x) = r
        <5>1. InTurn(m) /\ (ticks[r] > 0 \/ handNum[r] > 1 => Settled(m))
              /\ (betting[r] => InBetting(m) /\ CurrentPlayer(m) = r)
          BY <1>3, <2>11, <4>5 DEF ReplicaOK
        <5>2. CASE x = m
          BY <5>1, <5>2
        <5>3. CASE x # m
          BY <2>4, <2>7, <2>11, <4>5, <5>1, <5>3
        <5> QED BY <5>2, <5>3
      <4>6. machine'[r].hand = 1 =>
              /\ InTurn(machine'[r])
              /\ ticks'[r] > 0 \/ handNum'[r] > 1 => Settled(machine'[r])
              /\ betting'[r] => InBetting(machine'[r]) /\ CurrentPlayer(machine'[r]) = r
              /\ handNum'[r] = 1 /\ r \notin missed' =>
                   nextSeq'[r] = Len(machine'[r].done) + 1
        BY <1>6, <2>8, <4>3, <4>4, <4>5
      <4> QED BY <3>2, <4>1, <4>2, <4>3, <4>6 DEF ReplicaOK
    <3> QED BY <3>1, <3>2
  <2>14. WireOK'
    BY <1>6 DEF SInv, WireOK
  <2>15. Afoot(e.msg) /\ \A n \in held : Afoot(n)
    BY <1>1, <1>4 DEF Afoot
  <2>16. ASSUME NEW n, Afoot(n)' PROVE Afoot(n)
    <3>1. ASSUME NEW q \in Seats, n \in pending'[q] PROVE Afoot(n)
      <4>1. CASE q = r
        BY <2>8, <2>15, <3>1, <4>1
      <4>2. CASE q # r
        BY <2>8, <3>1, <4>2 DEF Afoot
      <4> QED BY <4>1, <4>2
    <3> QED BY <1>6, <2>16, <3>1 DEF Afoot
  <2>17. \A q \in Seats : machine'[q].hand = machine[q].hand
    BY <2>4, <2>8, <2>11
  <2>18. \A q \in Seats : handNum[q] \in Int /\ nextSeq[q] \in Int
    BY DEF SInv, TypesOK
  <2>19. Together'
    BY <1>6, <2>10, <2>16, <2>17, <2>18, TogetherStays DEF SInv
  <2>20. OneStory'
    <3>1. ASSUME NEW k \in Nat \ {0}, NEW b \in Acts, Said(k, b)' PROVE Said(k, b)
      <4>1. ASSUME NEW q \in Seats \ {r}, Played(q, k, b)' PROVE Played(q, k, b)
        BY <1>6, <2>8, <4>1 DEF Played
      <4>2. ASSUME Played(r, k, b)' PROVE Said(k, b)
        <5>1. /\ r \notin missed' /\ m.hand = 1 /\ k \in 1 .. lx /\ x.done[k] = b
          BY <2>4, <2>8, <4>2 DEF Played
        <5>2. r \notin missed /\ lx = lm + len
          BY <2>9, <5>1
        <5>3. CASE k \in 1 .. lm
          <6>1. m.done[k] = b
            BY <2>4, <5>1, <5>3
          <6>2. Played(r, k, b)
            BY <2>11, <5>1, <5>2, <5>3, <6>1 DEF Played, lm
          <6> QED BY <1>1, <6>2 DEF Said
        <5>4. CASE k \notin 1 .. lm
          <6>1. k - lm \in 1 .. len /\ lm + (k - lm) = k
            BY <2>2, <2>4, <5>1, <5>2, <5>4
          <6> DEFINE j == k - lm
          <6>2. x.done[k] = ready[j].act
            BY <2>4, <5>2, <6>1
          <6>3. x # m
            <7>1. lx # lm
              BY <2>2, <2>4, <5>1, <5>2, <6>1
            <7> QED BY <7>1 DEF lm
          <6>4. handNum[r] = 1 /\ nextSeq[r] = lm + 1
            BY <2>7, <2>12, <5>1, <5>2, <6>3
          <6>5. ready[j] \in held /\ ready[j] \in Messages /\ ready[j].seq = nextSeq[r] + j - 1
            BY <1>5, <2>2, <6>1 DEF len
          <6>6. ready[j].seq = k
            BY <2>4, <6>1, <6>4, <6>5
          <6>7. ready[j].hand = 1
            <7>1. ~ (ready[j].hand > 1)
              BY <1>1, <2>15, <6>4, <6>5 DEF SInv, Together
            <7> QED BY <6>5, <7>1, SyncAssumption DEF Messages
          <6>8. ready[j] = First(k, b)
            BY <5>1, <6>2, <6>5, <6>6, <6>7 DEF First, Messages
          <6> QED BY <2>15, <6>5, <6>8 DEF Said
        <5> QED BY <5>3, <5>4
      <4>3. Afoot(First(k, b))' => Afoot(First(k, b))
        <5>1. \A n : Afoot(n)' => Afoot(n)
          BY <2>16
        <5> QED BY <5>1
      <4> QED BY <3>1, <4>1, <4>2, <4>3 DEF Said
    <3>2. \A q \in Seats : nextSeq[q] <= nextSeq'[q]
      BY <2>2, <2>8, <2>18
    <3> QED BY <1>6, <2>10, <3>1, <3>2, StoryStays DEF SInv
  <2> QED BY <2>10, <2>13, <2>14, <2>19, <2>20 DEF SInv
<1> QED BY <1>7, <1>8

-----------------------------------------------------------------------------
(* The theorems *)

LEMMA NextStory ==
  ASSUME Slow = {}, SInv, [Next]_vars PROVE SInv'
<1>1. CASE UNCHANGED vars
  <2>1. gone' \in [Seats -> SUBSET silent]
    BY <1>1 DEF vars, SInv, TypesOK
  <2> QED BY <1>1, <2>1, IdleStory DEF vars
<1>2. ASSUME NEW r \in Present, Progress(r, silent) PROVE SInv'
  <2>1. CASE Install(r)
    BY <2>1, InstallStory
  <2>2. CASE OpenStreet(r)
    BY <2>2, OpenStreetStory
  <2>3. ASSUME NEW type \in {"play", "fold"}, ApplyAndBroadcast(r, type) PROVE SInv'
    BY <2>3, ApplyAndBroadcastStory
  <2>4. ASSUME NEW s \in silent, ForceFold(r, s) PROVE SInv'
    BY <2>4, ForceFoldStory
  <2>5. CASE FoldGoneIfCurrent(r)
    BY <2>5, FoldGoneStory
  <2>6. ASSUME NEW msg \in outbox[r], Broadcast(r, msg) PROVE SInv'
    BY <2>6, BroadcastStory
  <2>7. ASSUME NEW e \in wire, DropStale(r, e) PROVE SInv'
    BY <2>7, DropStaleStory
  <2>8. ASSUME NEW e \in wire, OnPlayerAction(r, e) PROVE SInv'
    BY <2>8, OnPlayerActionStory
  <2>9. CASE Update(r)
    BY <2>9, UpdateStory
  <2> QED BY <1>2, <2>1, <2>2, <2>3, <2>4, <2>5, <2>6, <2>7, <2>8, <2>9 DEF Progress
<1>3. ASSUME NEW r \in Present, StartNextHand(r) PROVE SInv'
  BY <1>3, StartNextHandStory
<1>4. silent \cup Slow = silent
  OBVIOUS
<1> QED BY <1>1, <1>2, <1>3, <1>4 DEF Next

LEMMA StoryInvariance ==
  ASSUME Slow = {} PROVE Spec => []SInv
<1>1. Init => SInv
  BY InitStory
<1>2. SInv /\ [Next]_vars => SInv'
  BY NextStory
<1> QED BY <1>1, <1>2, PTL DEF Spec

\* Two histories of the first hand, as far as both have come.
FirstHandShared ==
  \A r, s \in Present \ missed :
    machine[r].hand = 1 /\ machine[s].hand = 1 =>
      \A i \in 1 .. Len(machine[r].done) :
        i <= Len(machine[s].done) => machine[r].done[i] = machine[s].done[i]

LEMMA StoriesAgree ==
  ASSUME SInv PROVE FirstHandShared
<1> SUFFICES ASSUME NEW r \in Seats \ missed, NEW s \in Seats \ missed,
                    machine[r].hand = 1, machine[s].hand = 1
             PROVE  \A i \in 1 .. Len(machine[r].done) :
                      i <= Len(machine[s].done) => machine[r].done[i] = machine[s].done[i]
  BY DEF FirstHandShared, Present
<1> DEFINE p == machine[r].done
           q == machine[s].done
           D == {i \in 1 .. Len(p) : i <= Len(q) /\ p[i] # q[i]}
<1>1. p \in Seq(Acts) /\ q \in Seq(Acts) /\ Len(p) \in Nat /\ Len(q) \in Nat
  <2>1. machine[r] \in Machines /\ machine[s] \in Machines
    BY DEF SInv, TypesOK
  <2>2. p \in Seq(Acts) /\ q \in Seq(Acts)
    BY <2>1 DEF Machines
  <2> HIDE DEF p, q
  <2> QED BY <2>2
<1>2. /\ \A k \in 1 .. Len(p) : p[k].by = Turn(1, SubSeq(p, 1, k - 1))
      /\ \A k \in 1 .. Len(q) : q[k].by = Turn(1, SubSeq(q, 1, k - 1))
  <2>1. InTurn(machine[r]) /\ InTurn(machine[s])
    BY DEF SInv, ReplicaOK
  <2> QED BY <2>1 DEF InTurn
<1>3. /\ \A k \in 1 .. Len(p) : Said(k, p[k])
      /\ \A k \in 1 .. Len(q) : Said(k, q[k])
  BY DEF Said, Played
<1> HIDE DEF p, q
<1>4. D = {}
  <2> SUFFICES ASSUME D # {} PROVE FALSE
    OBVIOUS
  <2> DEFINE k == Least(D)
  <2>1. D \in SUBSET Nat
    BY <1>1
  <2>2. k \in D /\ \A i \in D : k <= i
    <3> HIDE DEF D
    <3> QED BY <2>1, LeastExists
  <2>3. k \in 1 .. Len(p) /\ k \in 1 .. Len(q) /\ p[k] # q[k]
    <3> HIDE DEF k
    <3> QED BY <1>1, <2>2
  <2>4. ASSUME NEW i \in 1 .. k - 1 PROVE p[i] = q[i]
    <3> HIDE DEF k
    <3>1. i \notin D
      <4> HIDE DEF D
      <4> QED BY <2>2, <2>3
    <3> QED BY <1>1, <2>3, <3>1
  <2> HIDE DEF k, D
  <2>5. SubSeq(p, 1, k - 1) = SubSeq(q, 1, k - 1)
    <3>1. SubSeq(p, 1, k - 1) = [i \in 1 .. k - 1 |-> p[i]]
          /\ SubSeq(q, 1, k - 1) = [i \in 1 .. k - 1 |-> q[i]]
      BY <1>1, <2>3
    <3> QED BY <2>4, <3>1
  <2>6. p[k].by = q[k].by
    BY <1>2, <2>3, <2>5
  <2>7. p[k] \in Acts /\ q[k] \in Acts /\ k \in Nat \ {0}
    BY <1>1, <2>3
  <2>8. p[k] = q[k]
    BY <1>3, <2>3, <2>6, <2>7 DEF SInv, OneStory
  <2> QED BY <2>3, <2>8
<1>5. \A i \in 1 .. Len(p) : i <= Len(q) => p[i] = q[i]
  BY <1>4
<1> QED BY <1>5 DEF p, q

\* In the first hand two replicas that lost no action have applied the same
\* ones, as far as both have come: for every number of seats, whichever of them
\* are silent and whenever the others vote them out, in every order of delivery,
\* and also while the other replicas play on (actionSequencer, forceFold,
\* foldGoneIfCurrent). Only silent seats are voted out: a fold of a seat that
\* plays can carry the number of its own action.
THEOREM FirstHandSharedTheorem ==
  ASSUME Slow = {} PROVE Spec => []FirstHandShared
<1>1. SInv => FirstHandShared
  BY StoriesAgree
<1> QED BY <1>1, StoryInvariance, PTL

LEMMA OneHand ==
  ASSUME MaxHands = 1, SInv, FirstHandShared PROVE SameHistory
<1> SUFFICES ASSUME NEW r \in Present \ missed, NEW s \in Present \ missed,
                    machine[r].hand = machine[s].hand,
                    NEW i \in 1 .. Len(machine[r].done), i <= Len(machine[s].done)
             PROVE  machine[r].done[i] = machine[s].done[i]
  BY DEF SameHistory
<1>1. r \in Seats /\ machine[r] \in Machines
  BY DEF Present, SInv, TypesOK
<1>2. machine[r].hand \in 0 .. 1
  BY <1>1 DEF Machines
<1>3. CASE machine[r].hand = 1
  BY <1>3 DEF FirstHandShared
<1>4. CASE machine[r].hand = 0
  <2>1. machine[r] = NoMachine
    BY <1>1, <1>4 DEF SInv, ReplicaOK
  <2> QED BY <2>1 DEF NoMachine
<1> QED BY <1>2, <1>3, <1>4

\* SameHistory of a table that plays one hand.
THEOREM SameHistoryTheorem ==
  ASSUME Slow = {}, MaxHands = 1 PROVE Spec => []SameHistory
<1>1. SInv /\ FirstHandShared => SameHistory
  BY OneHand
<1> QED BY <1>1, StoryInvariance, FirstHandSharedTheorem, PTL
=============================================================================
