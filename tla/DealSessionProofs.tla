-------------------------- MODULE DealSessionProofs --------------------------
(***************************************************************************)
(* Whatever stale, repeated, early or delegated peels a replica is offered,*)
(* a card it reads has every layer of encryption off, and no card can be   *)
(* read before its time: for any number of seats, any plan of the hand,    *)
(* any buffer, timeouts and silent seats.                                  *)
(*                                                                         *)
(* For the second half: a layer that is off a card was taken off by a peel *)
(* of that card that was really made, by the seat itself or by a survivor  *)
(* that holds its key, in a sequence of the plan its maker had come to,    *)
(* and never by the recipient of a hole card before it is revealed.        *)
(*                                                                         *)
(* The last part is the refinement of SharedDeal. A session has seen the   *)
(* turns before the card and the seat it is at; those are turns that were  *)
(* taken. If every peel comes once, a seat is only offered peels of turns  *)
(* it has not seen, and it has seen what it peeled itself: whether it      *)
(* takes, buffers, parks or refuses a peel, it takes no turn of its own    *)
(* twice and none before its time.                                         *)
(***************************************************************************)
EXTENDS DealSession, SeatingLemmas, FiniteSetTheorems, SequenceTheorems

JobType == [card : Cards, to : 0 .. N]

-----------------------------------------------------------------------------
(* The plan *)

\* The players of the showdown can be numbered in table order.
LEMMA SeatOfRank ==
  ASSUME NEW i \in 1 .. Cardinality(Left)
  PROVE  /\ RemainingShowdownIDs[i] \in Seats
         /\ Cardinality({q \in Left : q < RemainingShowdownIDs[i]}) = i - 1
<1> USE SeatingAssumption, DealAssumption
<1> DEFINE below(m) == {q \in Left : q < m}
           reached == {m \in 0 .. N : Cardinality(below(m)) >= i}
           first == Least(reached)
<1>1. IsFiniteSet(Left) /\ Cardinality(Left) \in Nat
  <2>1. 0 \in Int /\ N - 1 \in Int
    OBVIOUS
  <2>2. IsFiniteSet(Seats)
    BY <2>1, FS_Interval DEF Seats
  <2> QED BY <2>2, FS_Subset, FS_CardinalityType
<1>2. \A m : IsFiniteSet(below(m)) /\ Cardinality(below(m)) \in Nat
  BY <1>1, FS_Subset, FS_CardinalityType
<1>0. \A q \in Left : q \in Int /\ 0 <= q /\ q < N
  BY DEF Seats
<1>3. below(N) = Left /\ below(0) = {}
  <2>1. below(N) = Left
    BY <1>0
  <2>2. below(0) = {}
    BY <1>0
  <2> QED BY <2>1, <2>2
<1>4. N \in reached /\ 0 \notin reached
  <2>1. Cardinality(below(0)) = 0
    BY <1>3, FS_EmptySet
  <2> HIDE DEF below
  <2> QED BY <1>1, <1>3, <2>1
<1>5. first \in reached /\ \A m \in reached : first <= m
  <2> HIDE DEF below
  <2> QED BY <1>4, LeastExists
<1> HIDE DEF first
<1> DEFINE p == first - 1
<1>6. p \in Seats /\ p \notin reached
  <2> HIDE DEF below
  <2>1. first \in 0 .. N /\ first # 0
    BY <1>4, <1>5
  <2>2. p \notin reached
    BY <1>5, <2>1
  <2> QED BY <2>1, <2>2 DEF Seats
<1>7. below(first) = IF p \in Left THEN below(p) \cup {p} ELSE below(p)
  <2>1. first \in Int /\ p = first - 1
    BY <1>5
  <2>2. \A q \in Left : q < first <=> q < p \/ q = p
    BY <1>0, <2>1
  <2> HIDE DEF p
  <2>3. CASE p \in Left
    BY <2>2, <2>3
  <2>4. CASE p \notin Left
    BY <2>2, <2>4
  <2> QED BY <2>3, <2>4
<1>8. p \notin below(p)
  BY <1>6 DEF Seats
<1>9. Cardinality(below(p)) < i /\ Cardinality(below(first)) >= i
  <2>1. p \in 0 .. N
    BY <1>6 DEF Seats
  <2> HIDE DEF below, p
  <2>2. Cardinality(below(p)) \in Nat /\ ~ (Cardinality(below(p)) >= i)
    BY <1>2, <1>6, <2>1
  <2> QED BY <1>1, <1>5, <2>2
<1>10. p \in Left /\ Cardinality(below(p)) = i - 1
  <2>1. Cardinality(below(p) \cup {p}) = Cardinality(below(p)) + 1
    <3>1. IsFiniteSet(below(p))
      BY <1>2
    <3> HIDE DEF below, p
    <3> QED BY <1>8, <3>1, FS_AddElement
  <2>2. p \in Left
    <3> SUFFICES ASSUME p \notin Left PROVE FALSE
      OBVIOUS
    <3>1. below(first) = below(p)
      BY <1>7
    <3>2. Cardinality(below(first)) = Cardinality(below(p))
      BY <3>1
    <3>3. Cardinality(below(p)) \in Nat /\ i \in Nat
      BY <1>1, <1>2
    <3> HIDE DEF below
    <3> QED BY <1>9, <3>2, <3>3
  <2>3. below(first) = below(p) \cup {p}
    BY <1>7, <2>2
  <2> HIDE DEF below
  <2>4. Cardinality(below(first)) = Cardinality(below(p)) + 1
    BY <2>1, <2>3
  <2>5. Cardinality(below(p)) \in Nat
    BY <1>2
  <2> QED BY <1>1, <1>9, <2>2, <2>4, <2>5
<1>11. /\ RemainingShowdownIDs[i] \in Left
       /\ Cardinality({q \in Left : q < RemainingShowdownIDs[i]}) = i - 1
  BY <1>10 DEF RemainingShowdownIDs
<1> QED BY <1>11

LEMMA HoleJobsTyped == HoleJobs \in Seq(JobType) /\ Len(HoleJobs) >= 1
<1> USE SeatingAssumption, DealAssumption
<1>1. Rounds * N \in Nat /\ Rounds * N >= 1 /\ Rounds * N <= 2 * N
  <2>1. CASE Rounds = 1
    BY <2>1
  <2>2. CASE Rounds = 2
    BY <2>2
  <2> QED BY <2>1, <2>2
<1>2. ASSUME NEW j \in 1 .. Rounds * N
      PROVE  [card |-> j - 1, to |-> (Dealer + j) % N] \in JobType
  <2>1. (Dealer + j) % N \in 0 .. N
    BY <1>1 DEF Seats
  <2>2. j - 1 \in Cards
    BY <1>1 DEF Cards
  <2> QED BY <2>1, <2>2 DEF JobType
<1> QED BY <1>1, <1>2 DEF HoleJobs

LEMMA StreetJobsTyped ==
  ASSUME NEW s \in 1 .. 3
  PROVE  StreetJobs(s) \in Seq(JobType) /\ Len(StreetJobs(s)) >= 1
<1> USE SeatingAssumption
<1> DEFINE public(i) == [card |-> 2 * N + i, to |-> Everyone]
<1>1. \A i \in {1, 2, 3, 5, 7} : public(i) \in JobType
  BY DEF JobType, Cards, Everyone
<1>2. StreetJobs(s) = CASE s = 1 -> <<public(1), public(2), public(3)>>
                        [] s = 2 -> <<public(5)>>
                        [] s = 3 -> <<public(7)>>
  BY DEF StreetJobs
<1> HIDE DEF public
<1> QED BY <1>1, <1>2

LEMMA RevealJobsTyped ==
  ASSUME NEW p \in Seats
  PROVE  RevealJobs(p) \in Seq(JobType) /\ Len(RevealJobs(p)) >= 1
<1> USE SeatingAssumption, DealAssumption
<1>1. ASSUME NEW k \in 1 .. Rounds PROVE HoleCardIndex(p, k - 1) \in Cards
  <2> DEFINE turn == (p - Dealer - 1 + N) % N
  <2>1. turn \in 0 .. N - 1
    BY DEF Seats
  <2>2. (k - 1) * N \in {0, N}
    <3>1. k - 1 \in {0, 1}
      OBVIOUS
    <3> QED BY <3>1
  <2> HIDE DEF turn
  <2>3. (k - 1) * N + turn \in Cards
    BY <2>1, <2>2 DEF Cards
  <2> QED BY <2>3 DEF HoleCardIndex, turn
<1>2. \A k \in 1 .. Rounds : [card |-> HoleCardIndex(p, k - 1), to |-> Everyone] \in JobType
  BY <1>1 DEF JobType, Everyone
<1> QED BY <1>2 DEF RevealJobs

\* Every sequence of the plan is a non-empty sequence of jobs.
LEMMA PlanTyped ==
  /\ Len(Plan) \in Nat /\ Len(Plan) = 1 + LastStreet + Cardinality(Left)
  /\ \A k \in 1 .. Len(Plan) : Plan[k] \in Seq(JobType) /\ Len(Plan[k]) >= 1
<1> USE SeatingAssumption, DealAssumption
<1> DEFINE S == {jobs \in Seq(JobType) : Len(jobs) >= 1}
           streets == [s \in 1 .. LastStreet |-> StreetJobs(s)]
           reveals == [i \in 1 .. Cardinality(Left) |-> RevealJobs(RemainingShowdownIDs[i])]
<1>1. Cardinality(Left) \in Nat
  <2>1. 0 \in Int /\ N - 1 \in Int
    OBVIOUS
  <2>2. IsFiniteSet(Seats)
    BY <2>1, FS_Interval DEF Seats
  <2> QED BY <2>2, FS_Subset, FS_CardinalityType
<1>2. <<HoleJobs>> \in Seq(S) /\ Len(<<HoleJobs>>) = 1
  BY HoleJobsTyped
<1>3. streets \in Seq(S) /\ Len(streets) = LastStreet
  <2>1. \A s \in 1 .. LastStreet : StreetJobs(s) \in S
    BY StreetJobsTyped
  <2> HIDE DEF S
  <2> QED BY <2>1
<1>4. reveals \in Seq(S) /\ Len(reveals) = Cardinality(Left)
  <2>1. \A i \in 1 .. Cardinality(Left) : RevealJobs(RemainingShowdownIDs[i]) \in S
    BY SeatOfRank, RevealJobsTyped
  <2> HIDE DEF S
  <2> QED BY <1>1, <2>1
<1>5. Plan = (<<HoleJobs>> \o streets) \o reveals
  BY DEF Plan
<1> HIDE DEF S, streets, reveals
<1>6. <<HoleJobs>> \o streets \in Seq(S) /\ Len(<<HoleJobs>> \o streets) = 1 + LastStreet
  BY <1>2, <1>3, ConcatProperties
<1>7. Plan \in Seq(S) /\ Len(Plan) = 1 + LastStreet + Cardinality(Left)
  BY <1>4, <1>5, <1>6, ConcatProperties
<1>8. \A k \in 1 .. Len(Plan) : Plan[k] \in S
  BY <1>7, ElementOfSeq
<1> QED BY <1>1, <1>7, <1>8 DEF S

-----------------------------------------------------------------------------
(* One card *)

\* The layers off a card after the first n of its turns.
Off(job, n) == {Peelers(job)[i] : i \in 1 .. n}

\* The turns of a card: seats, each once, all of them but the recipient.
LEMMA PeelersTyped ==
  ASSUME NEW job \in JobType
  PROVE  /\ Len(Peelers(job)) \in Nat
         /\ \A i \in 1 .. Len(Peelers(job)) : Peelers(job)[i] \in Seats
         /\ job.to = Everyone => Off(job, Len(Peelers(job))) = Seats
         /\ job.to \in Seats => Off(job, Len(Peelers(job))) = Seats \ {job.to}
<1> USE SeatingAssumption
<1>1. CASE job.to = Everyone
  <2>1. Peelers(job) = [i \in 1 .. N |-> i - 1]
    BY <1>1 DEF Peelers
  <2>2. Len(Peelers(job)) = N
    BY <2>1
  <2>3. \A i \in 1 .. N : Peelers(job)[i] = i - 1
    BY <2>1
  <2>4. \A q \in Seats : q + 1 \in 1 .. N /\ Peelers(job)[q + 1] = q
    BY <2>3 DEF Seats
  <2>5. Off(job, N) = Seats
    BY <2>3, <2>4 DEF Off, Seats
  <2> QED BY <1>1, <2>2, <2>3, <2>5 DEF Everyone, Seats
<1>2. CASE job.to # Everyone
  <2> DEFINE t == job.to
  <2>1. t \in Seats
    BY <1>2 DEF JobType, Everyone, Seats
  <2>2. Peelers(job) = [i \in 1 .. N - 1 |-> IF i <= t THEN i - 1 ELSE i]
    BY <1>2 DEF Peelers
  <2> HIDE DEF t
  <2>3. Len(Peelers(job)) = N - 1
    BY <2>2
  <2>4. \A i \in 1 .. N - 1 : /\ Peelers(job)[i] = IF i <= t THEN i - 1 ELSE i
                              /\ Peelers(job)[i] \in Seats \ {t}
    BY <2>1, <2>2 DEF Seats
  <2>5. \A q \in Seats \ {t} : \E i \in 1 .. N - 1 : Peelers(job)[i] = q
    <3> SUFFICES ASSUME NEW q \in Seats \ {t}
                 PROVE  \E i \in 1 .. N - 1 : Peelers(job)[i] = q
      OBVIOUS
    <3>1. CASE q < t
      <4>1. q + 1 \in 1 .. N - 1 /\ q + 1 <= t
        BY <2>1, <3>1 DEF Seats
      <4> QED BY <2>4, <4>1 DEF Seats
    <3>2. CASE q > t
      <4>1. q \in 1 .. N - 1 /\ ~ (q <= t)
        BY <2>1, <3>2 DEF Seats
      <4> QED BY <2>4, <4>1
    <3> QED BY <2>1, <3>1, <3>2 DEF Seats
  <2>6. Off(job, N - 1) = Seats \ {t}
    BY <2>4, <2>5 DEF Off
  <2> QED BY <1>2, <2>3, <2>4, <2>6 DEF t
<1> QED BY <1>1, <1>2

LEMMA OffGrows ==
  ASSUME NEW job, NEW n \in Nat
  PROVE  Off(job, 0) = {} /\ Off(job, n + 1) = Off(job, n) \cup {Peelers(job)[n + 1]}
<1>1. 1 .. n + 1 = (1 .. n) \cup {n + 1}
  OBVIOUS
<1> QED BY <1>1 DEF Off

-----------------------------------------------------------------------------
(* The session *)

\* What it has read is whole; the layers off the card at hand are those of the
\* turns taken.
Whole(d) ==
  /\ d \in Session
  /\ \A c \in d.read : c.layers = Seats
  /\ d.busy => /\ d.at >= 1 /\ d.job \in 1 .. Len(Plan[d.at])
               /\ d.next <= Len(Peelers(Job(d)))
               /\ d.current = Off(Job(d), d.next)

LEMMA JobTyped ==
  ASSUME NEW d, Whole(d), d.busy
  PROVE  Job(d) \in JobType /\ d.at \in 1 .. Len(Plan)
<1>1. d.at \in 1 .. Len(Plan) /\ d.job \in 1 .. Len(Plan[d.at])
  BY PlanTyped DEF Whole, Session
<1> QED BY <1>1, PlanTyped, ElementOfSeq DEF Job

LEMMA InstallWhole ==
  ASSUME NEW d \in Session, \A c \in d.read : c.layers = Seats,
         NEW k \in 1 .. Len(Plan), NEW j \in 1 .. Len(Plan[k])
  PROVE  Whole(InstallJob(d, k, j))
<1> DEFINE e == InstallJob(d, k, j)
<1>1. k \in 0 .. Len(Plan) /\ j \in Nat /\ k >= 1
  BY PlanTyped
<1>2. /\ e \in Session /\ e.read = d.read
      /\ e.at = k /\ e.job = j /\ e.next = 0 /\ e.current = {}
  BY <1>1 DEF InstallJob, Session, Layers
<1> HIDE DEF e
<1>3. Job(e) = Plan[k][j] /\ Plan[k][j] \in JobType
  BY <1>2, PlanTyped, ElementOfSeq DEF Job
<1>4. 0 <= Len(Peelers(Job(e)))
  BY <1>3, PeelersTyped
<1>5. Off(Job(e), 0) = {}
  BY OffGrows
<1> QED BY <1>1, <1>2, <1>4, <1>5 DEF Whole, e

\* A card that is read has every layer off.
LEMMA AdvanceWhole ==
  ASSUME NEW d, Whole(d), d.busy, JobComplete(d), NEW r \in Seats
  PROVE  Whole(Advance(d, r))
<1> USE SeatingAssumption
<1> DEFINE job == Job(d)
           off == IF job.to = r THEN d.current \cup {r} ELSE d.current
           learnt == IF job.to \in {r, Everyone} THEN {[card |-> job.card, layers |-> off]} ELSE {}
           done == [d EXCEPT !.read = @ \cup learnt]
<1>1. d \in Session /\ job \in JobType /\ d.at \in 1 .. Len(Plan) /\ d.job \in 1 .. Len(Plan[d.at])
  BY JobTyped DEF Whole
<1>2. d.current = Off(job, Len(Peelers(job)))
  BY DEF Whole, JobComplete
<1> HIDE DEF job
<1>3. \A c \in learnt : c \in [card : Cards, layers : Layers] /\ c.layers = Seats
  <2>1. job.to \in {r, Everyone} => off = Seats
    <3>1. r # Everyone
      BY DEF Seats, Everyone
    <3> QED BY <1>1, <1>2, <3>1, PeelersTyped
  <2>2. job.card \in Cards /\ Seats \in Layers
    BY <1>1 DEF JobType, Layers
  <2> HIDE DEF off
  <2>3. [card |-> job.card, layers |-> Seats] \in [card : Cards, layers : Layers]
    BY <2>2
  <2>4. \A c \in learnt : c = [card |-> job.card, layers |-> Seats]
    BY <2>1
  <2> QED BY <2>3, <2>4
<1> HIDE DEF learnt
<1>4. /\ done \in Session /\ \A c \in done.read : c.layers = Seats
      /\ done.at = d.at /\ done.job = d.job
  BY <1>1, <1>3 DEF Session, Whole
<1> HIDE DEF done
<1>5. CASE d.job < Len(Plan[d.at])
  <2>1. d.job + 1 \in 1 .. Len(Plan[d.at])
    BY <1>1, <1>5, PlanTyped
  <2>2. Whole(InstallJob(done, d.at, d.job + 1))
    BY <1>1, <1>4, <2>1, InstallWhole
  <2> QED BY <1>5, <2>2 DEF Advance, done, learnt, job
<1>6. CASE ~ (d.job < Len(Plan[d.at]))
  <2> DEFINE e == [done EXCEPT !.busy = FALSE, !.next = 0, !.current = {},
                               !.applied = {}, !.pending = {}]
  <2>1. e \in Session /\ e.read = done.read /\ e.busy = FALSE
    BY <1>4 DEF Session, Layers
  <2> HIDE DEF e
  <2>2. Whole(e)
    BY <1>4, <2>1 DEF Whole
  <2> QED BY <1>6, <2>2 DEF Advance, e, done, learnt, job
<1> QED BY <1>5, <1>6

\* A peel of the expected seat takes its layer off.
LEMMA ApplyWhole ==
  ASSUME NEW d, Whole(d), d.busy, ~ JobComplete(d),
         NEW m \in Peel, m.seat = ExpectedPeeler(d), m.from = d.current
  PROVE  Whole(Apply(d, m))
<1> DEFINE next == d.next + 1
           current == m.from \cup {m.seat}
           applied == d.applied \cup {m}
           e == [d EXCEPT !.next = next, !.current = current, !.applied = applied]
<1>1. d \in Session /\ Job(d) \in JobType
  BY JobTyped DEF Whole
<1>2. /\ next \in Nat /\ next <= Len(Peelers(Job(d)))
      /\ current = Off(Job(d), next)
  <2>1. d.next \in Nat /\ d.next <= Len(Peelers(Job(d))) /\ d.next # Len(Peelers(Job(d)))
    BY <1>1 DEF Whole, Session, JobComplete
  <2>2. Len(Peelers(Job(d))) \in Nat
    BY <1>1, PeelersTyped
  <2>3. current = Off(Job(d), d.next) \cup {Peelers(Job(d))[d.next + 1]}
    BY DEF Whole, ExpectedPeeler
  <2>4. next \in Nat /\ next <= Len(Peelers(Job(d)))
    BY <2>1, <2>2
  <2>5. current = Off(Job(d), d.next + 1)
    BY <2>1, <2>3, OffGrows
  <2> QED BY <2>4, <2>5
<1>3. current \in Layers /\ applied \in SUBSET Peel
  BY <1>1 DEF Peel, Layers, Session
<1> HIDE DEF next, current, applied
<1>4. /\ e \in Session /\ e.read = d.read /\ e.at = d.at /\ e.job = d.job
      /\ e.next = next /\ e.current = current
  BY <1>1, <1>2, <1>3 DEF Session
<1>5. Apply(d, m) = e
  BY <1>1 DEF Apply, Session, next, current, applied
<1> HIDE DEF e
<1>6. Job(e) = Job(d)
  BY <1>4 DEF Job
<1> QED BY <1>2, <1>4, <1>5, <1>6 DEF Whole

-----------------------------------------------------------------------------
(* A call *)

CallType == [d : Session, early : Seq(Peel), own : SUBSET Peel, err : BOOLEAN]

\* What every call leaves behind.
Fine(x) == x \in CallType /\ Whole(x.d)

LEMMA ReplaceFine ==
  ASSUME NEW x, Fine(x), NEW e, Whole(e)
  PROVE  /\ Fine([x EXCEPT !.d = e])
         /\ Fine([x EXCEPT !.d = e, !.err = TRUE])
<1>1. e \in Session
  BY DEF Whole
<1> QED BY <1>1 DEF Fine, CallType

LEMMA ErrFine ==
  ASSUME NEW x, Fine(x), NEW err \in BOOLEAN
  PROVE  Fine([x EXCEPT !.err = err])
  BY DEF Fine, CallType

LEMMA OwnFine ==
  ASSUME NEW x, Fine(x), NEW e, Whole(e), NEW own \in SUBSET Peel
  PROVE  Fine([x EXCEPT !.d = e, !.own = @ \cup own])
<1> DEFINE more == x.own \cup own
<1>1. e \in Session /\ more \in SUBSET Peel
  BY DEF Whole, Fine, CallType
<1>2. [x EXCEPT !.d = e, !.own = @ \cup own] = [x EXCEPT !.d = e, !.own = more]
  BY DEF Fine, CallType
<1> HIDE DEF more
<1> QED BY <1>1, <1>2 DEF Fine, CallType

\* The layers and the read cards do not depend on what is buffered.
LEMMA PendingWhole ==
  ASSUME NEW d, Whole(d), NEW some \in SUBSET Peel
  PROVE  LET e == [d EXCEPT !.pending = some]
         IN  /\ Whole(e)
             /\ e.busy = d.busy /\ e.current = d.current
             /\ (JobComplete(e) <=> JobComplete(d))
             /\ ExpectedPeeler(e) = ExpectedPeeler(d)
<1> DEFINE e == [d EXCEPT !.pending = some]
<1>1. /\ e \in Session /\ e.busy = d.busy /\ e.current = d.current /\ e.read = d.read
      /\ e.at = d.at /\ e.job = d.job /\ e.next = d.next
  BY DEF Whole, Session
<1> HIDE DEF e
<1>2. Job(e) = Job(d)
  BY <1>1 DEF Job
<1> QED BY <1>1, <1>2 DEF Whole, JobComplete, ExpectedPeeler, e

\* While the card is unfinished a seat is due.
LEMMA PeelerDue ==
  ASSUME NEW d, Whole(d), d.busy, ~ JobComplete(d)
  PROVE  ExpectedPeeler(d) \in Seats
<1>1. d.next \in Nat /\ d.next <= Len(Peelers(Job(d))) /\ d.next # Len(Peelers(Job(d)))
  BY DEF Whole, Session, JobComplete
<1>2. Len(Peelers(Job(d))) \in Nat
      /\ \A i \in 1 .. Len(Peelers(Job(d))) : Peelers(Job(d))[i] \in Seats
  BY JobTyped, PeelersTyped
<1>3. d.next + 1 \in 1 .. Len(Peelers(Job(d)))
  BY <1>1, <1>2
<1> QED BY <1>2, <1>3 DEF ExpectedPeeler

LEMMA NewPeelTyped ==
  ASSUME NEW d, Whole(d), d.busy, NEW q \in Seats, NEW by \in Seats
  PROVE  /\ NewPeel(d, q, by) \in Peel
         /\ NewPeel(d, q, by).seat = q /\ NewPeel(d, q, by).from = d.current
<1>1. Job(d).card \in Cards /\ d.at \in 1 .. Len(Plan)
  BY JobTyped DEF JobType
<1>2. d.current \in Layers
  BY DEF Whole, Session
<1> QED BY <1>1, <1>2 DEF NewPeel, Peel

LEMMA TurnFine ==
  ASSUME NEW x, Fine(x), NEW r \in Seats, NEW helped
  PROVE  Fine(Turn(x, r, helped))
<1> DEFINE d == x.d
           q == ExpectedPeeler(d)
           buffered == {m \in d.pending : m.seat = q}
           m == CHOOSE m \in buffered : TRUE
           some == d.pending \ {m}
           taken == [d EXCEPT !.pending = some]
           own == NewPeel(d, q, r)
<1>1. Whole(d) /\ d.pending \in SUBSET Peel
  BY DEF Fine, Whole, Session
<1>2. CASE x.err \/ ~ d.busy
  BY <1>2 DEF Turn
<1>3. CASE ~ x.err /\ d.busy /\ JobComplete(d)
  <2>1. Turn(x, r, helped) = [x EXCEPT !.d = Advance(d, r)]
    BY <1>3 DEF Turn
  <2>2. Whole(Advance(d, r))
    BY <1>1, <1>3, AdvanceWhole
  <2>3. Fine([x EXCEPT !.d = Advance(d, r)])
    BY <2>2, ReplaceFine
  <2> HIDE DEF d
  <2> QED BY <2>1, <2>3
<1>4. CASE ~ x.err /\ d.busy /\ ~ JobComplete(d) /\ q # r /\ buffered # {}
  <2>1. m \in Peel /\ m.seat = q
    BY <1>1, <1>4
  <2>2. [d EXCEPT !.pending = @ \ {m}] = taken
    BY <1>1 DEF Whole, Session
  <2>3. Turn(x, r, helped) = IF Verifies(d, m) THEN [x EXCEPT !.d = Apply(taken, m)]
                             ELSE [x EXCEPT !.d = taken, !.err = TRUE]
    BY <1>4, <2>2 DEF Turn
  <2>4. some \in SUBSET Peel
    BY <1>1
  <2> HIDE DEF m, some, d
  <2>5. /\ Whole(taken) /\ taken.busy /\ ~ JobComplete(taken)
        /\ ExpectedPeeler(taken) = q /\ taken.current = d.current
    BY <1>1, <1>4, <2>4, PendingWhole
  <2> HIDE DEF taken
  <2>6. CASE Verifies(d, m)
    <3>1. m.from = taken.current
      BY <2>5, <2>6 DEF Verifies
    <3>2. Whole(Apply(taken, m))
      BY <2>1, <2>5, <3>1, ApplyWhole
    <3>3. Fine([x EXCEPT !.d = Apply(taken, m)])
      BY <3>2, ReplaceFine
    <3> QED BY <2>3, <2>6, <3>3
  <2>7. CASE ~ Verifies(d, m)
    <3>1. Fine([x EXCEPT !.d = taken, !.err = TRUE])
      BY <2>5, ReplaceFine
    <3> QED BY <2>3, <2>7, <3>1
  <2> QED BY <2>6, <2>7
<1>5. CASE ~ x.err /\ d.busy /\ ~ JobComplete(d) /\ ~ (q # r /\ buffered # {})
  <2>1. \/ Turn(x, r, helped) = x
        \/ Turn(x, r, helped) = [x EXCEPT !.d = Apply(d, own), !.own = @ \cup {own}]
    BY <1>5 DEF Turn
  <2>2. own \in Peel /\ own.seat = q /\ own.from = d.current
    BY <1>1, <1>5, PeelerDue, NewPeelTyped
  <2>3. {own} \in SUBSET Peel
    BY <2>2
  <2> HIDE DEF own, d
  <2>4. Whole(Apply(d, own))
    BY <1>1, <1>5, <2>2, ApplyWhole
  <2>5. Fine([x EXCEPT !.d = Apply(d, own), !.own = @ \cup {own}])
    BY <2>3, <2>4, OwnFine
  <2> QED BY <2>1, <2>5
<1> QED BY <1>2, <1>3, <1>4, <1>5

-----------------------------------------------------------------------------
(* The loops of a call *)

LEMMA OnceIs ==
  ASSUME NEW v
  PROVE  Once({v}) = v
  BY DEF Once

\* The results u[0], u[1], ... of the first n turns.
Settling(u, x, r, helped, n) ==
  u = [k \in 0 .. n |->
         IF k = 0 THEN x ELSE Once({Turn(y, r, helped) : y \in {u[k - 1]}})]

LEMMA SettlingExists ==
  ASSUME NEW x, NEW r, NEW helped, NEW n \in Nat
  PROVE  \E u : Settling(u, x, r, helped, n)
<1> DEFINE more(w, j) == IF j = 0 THEN x
                         ELSE Once({Turn(y, r, helped) : y \in {w[j - 1]}})
           T == {k \in Nat : \E u : Settling(u, x, r, helped, k)}
<1>1. 0 \in T
  <2> DEFINE u == [k \in 0 .. 0 |-> x]
  <2>1. Settling(u, x, r, helped, 0)
    BY DEF Settling
  <2> QED BY <2>1
<1>2. ASSUME NEW k \in T PROVE k + 1 \in T
  <2>1. PICK u : Settling(u, x, r, helped, k)
    OBVIOUS
  <2> DEFINE last == Once({Turn(y, r, helped) : y \in {u[k]}})
             v == [j \in 0 .. k + 1 |-> IF j <= k THEN u[j] ELSE last]
  <2>2. u = [j \in 0 .. k |-> more(u, j)]
    BY <2>1 DEF Settling
  <2>3. \A j \in 0 .. k + 1 : v[j] = more(v, j)
    <3> SUFFICES ASSUME NEW j \in 0 .. k + 1 PROVE v[j] = more(v, j)
      OBVIOUS
    <3>1. CASE j = k + 1
      <4>1. v[j] = last /\ v[k] = u[k]
        BY <3>1
      <4>2. j - 1 = k /\ j # 0
        BY <3>1
      <4> HIDE DEF v
      <4> QED BY <3>1, <4>1, <4>2
    <3>2. CASE j = 0
      <4>1. v[0] = u[0] /\ u[0] = x
        BY <2>2
      <4> HIDE DEF v
      <4> QED BY <3>2, <4>1
    <3>3. CASE j \in 1 .. k
      <4>1. v[j] = u[j] /\ v[j - 1] = u[j - 1] /\ j \in 0 .. k /\ j # 0
        BY <3>3
      <4>2. u[j] = more(u, j)
        <5> HIDE DEF v, more
        <5> QED BY <2>2, <4>1
      <4> HIDE DEF v
      <4> QED BY <4>1, <4>2
    <3> QED BY <3>1, <3>2, <3>3
  <2>4. v = [j \in 0 .. k + 1 |-> more(v, j)]
    <3>1. v = [j \in 0 .. k + 1 |-> v[j]]
      OBVIOUS
    <3> HIDE DEF v, more
    <3> QED BY <2>3, <3>1
  <2>5. Settling(v, x, r, helped, k + 1)
    <3> HIDE DEF v
    <3> QED BY <2>4 DEF Settling
  <2> QED BY <2>5
<1>3. T = Nat
  <2> HIDE DEF T
  <2>1. T \in SUBSET Nat
    BY DEF T
  <2> QED BY <1>1, <1>2, <2>1, SetInduction
<1> QED BY <1>3

\* u are the results of the turns, the last one that of Settle.
SettlesTo(u, n, x, r, helped) ==
  /\ n \in Nat /\ u[0] = x
  /\ \A k \in 1 .. n : u[k] = Turn(u[k - 1], r, helped)
  /\ Settle(x, r, helped) = u[n]

LEMMA SettleIsTurns ==
  ASSUME NEW x, NEW r, NEW helped
  PROVE  \E u, n : SettlesTo(u, n, x, r, helped)
<1> DEFINE n == 2 * N * (N + 1)
           u == CHOOSE u : Settling(u, x, r, helped, n)
<1>1. n \in Nat
  BY SeatingAssumption
<1> HIDE DEF n
<1>2. Settling(u, x, r, helped, n)
  BY <1>1, SettlingExists
<1>3. Settle(x, r, helped) = u[n]
  BY DEF Settle, Settling, n
<1> HIDE DEF u
<1>4. u[0] = x /\ \A k \in 1 .. n : u[k] = Turn(u[k - 1], r, helped)
  <2>1. \A k \in 0 .. n : u[k] = IF k = 0 THEN x
                                 ELSE Once({Turn(y, r, helped) : y \in {u[k - 1]}})
    BY <1>2 DEF Settling
  <2>2. \A y : Once({Turn(z, r, helped) : z \in {y}}) = Turn(y, r, helped)
    <3> TAKE y
    <3>1. {Turn(z, r, helped) : z \in {y}} = {Turn(y, r, helped)}
      OBVIOUS
    <3> QED BY <3>1, OnceIs
  <2>3. u[0] = x
    <3>1. 0 \in 0 .. n
      BY <1>1
    <3> QED BY <2>1, <3>1, Zenon
  <2>4. ASSUME NEW k \in 1 .. n PROVE u[k] = Turn(u[k - 1], r, helped)
    <3>1. k \in 0 .. n /\ k # 0
      BY <1>1
    <3>2. u[k] = Once({Turn(y, r, helped) : y \in {u[k - 1]}})
      BY <2>1, <3>1
    <3> QED BY <2>2, <3>2
  <2> QED BY <2>3, <2>4
<1>5. SettlesTo(u, n, x, r, helped)
  BY <1>1, <1>3, <1>4 DEF SettlesTo
<1> QED BY <1>5

LEMMA SettleFine ==
  ASSUME NEW x, Fine(x), NEW r \in Seats, NEW helped
  PROVE  Fine(Settle(x, r, helped))
<1>1. PICK u, n : SettlesTo(u, n, x, r, helped)
  BY SettleIsTurns
<1>3. n \in Nat /\ Settle(x, r, helped) = u[n]
  BY <1>1 DEF SettlesTo
<1>4. u[0] = x /\ \A k \in 1 .. n : u[k] = Turn(u[k - 1], r, helped)
  BY <1>1 DEF SettlesTo
<1> DEFINE T == {k \in Nat : k <= n => Fine(u[k])}
<1>5. 0 \in T
  <2>1. Fine(u[0])
    BY <1>4
  <2> QED BY <2>1
<1>6. ASSUME NEW k \in T PROVE k + 1 \in T
  <2> SUFFICES ASSUME k + 1 <= n PROVE Fine(u[k + 1])
    OBVIOUS
  <2>1. Fine(u[k]) /\ k + 1 \in 1 .. n /\ (k + 1) - 1 = k
    BY <1>3
  <2>2. u[k + 1] = Turn(u[k], r, helped)
    BY <1>4, <2>1
  <2>3. Fine(Turn(u[k], r, helped))
    BY <2>1, TurnFine
  <2> QED BY <2>2, <2>3
<1>7. T = Nat
  <2> HIDE DEF T
  <2>1. T \in SUBSET Nat
    BY DEF T
  <2> QED BY <1>5, <1>6, <2>1, SetInduction
<1> QED BY <1>3, <1>7

LEMMA SessionPeelFine ==
  ASSUME NEW x, Fine(x), x.d.busy, NEW r \in Seats, NEW m \in Peel
  PROVE  Fine(SessionPeel(x, r, m))
<1> DEFINE d == x.d
           turns == Peelers(Job(d))
           some == d.pending \cup {m}
           isPeeler == \E i \in 1 .. Len(turns) : turns[i] = m.seat
           peeled == \E i \in 1 .. d.next : turns[i] = m.seat
<1>1. Whole(d) /\ d.pending \in SUBSET Peel
  BY DEF Fine, Whole, Session
<1>2. CASE SessionPeel(x, r, m) \in {[x EXCEPT !.err = TRUE], [x EXCEPT !.err = m \notin d.applied],
                                     [x EXCEPT !.err = m \notin d.pending]}
  <2>1. Fine([x EXCEPT !.err = TRUE])
    BY ErrFine
  <2>2. Fine([x EXCEPT !.err = m \notin d.applied])
    BY ErrFine
  <2>3. Fine([x EXCEPT !.err = m \notin d.pending])
    BY ErrFine
  <2> QED BY <1>2, <2>1, <2>2, <2>3
<1>3. CASE /\ isPeeler /\ ~ peeled /\ m.seat = ExpectedPeeler(d) /\ Verifies(d, m)
           /\ SessionPeel(x, r, m) = Settle([x EXCEPT !.d = Apply(d, m)], r, {})
  <2>1. ~ JobComplete(d)
    BY <1>3 DEF JobComplete
  <2>2. Whole(Apply(d, m))
    BY <1>1, <1>3, <2>1, ApplyWhole DEF Verifies
  <2>3. Fine([x EXCEPT !.d = Apply(d, m)])
    BY <2>2, ReplaceFine
  <2> HIDE DEF d
  <2>4. Fine(Settle([x EXCEPT !.d = Apply(d, m)], r, {}))
    BY <2>3, SettleFine
  <2> QED BY <1>3, <2>4
<1>4. CASE SessionPeel(x, r, m) = [x EXCEPT !.d.pending = @ \cup {m}]
  <2> DEFINE e == [d EXCEPT !.pending = some]
  <2>1. [x EXCEPT !.d.pending = @ \cup {m}] = [x EXCEPT !.d = e]
    BY DEF Fine, CallType, Session
  <2>2. some \in SUBSET Peel
    BY <1>1
  <2> HIDE DEF some, d
  <2>3. Whole(e)
    BY <1>1, <2>2, PendingWhole
  <2> HIDE DEF e
  <2>4. Fine([x EXCEPT !.d = e])
    BY <2>3, ReplaceFine
  <2> QED BY <1>4, <2>1, <2>4
<1>5. \/ SessionPeel(x, r, m) \in {[x EXCEPT !.err = TRUE], [x EXCEPT !.err = m \notin d.applied],
                                   [x EXCEPT !.err = m \notin d.pending]}
      \/ /\ isPeeler /\ ~ peeled /\ m.seat = ExpectedPeeler(d) /\ Verifies(d, m)
         /\ SessionPeel(x, r, m) = Settle([x EXCEPT !.d = Apply(d, m)], r, {})
      \/ SessionPeel(x, r, m) = [x EXCEPT !.d.pending = @ \cup {m}]
  BY DEF SessionPeel
<1> QED BY <1>2, <1>3, <1>4, <1>5

LEMMA ParkTyped ==
  ASSUME NEW parked \in Seq(Peel), NEW m \in Peel
  PROVE  Park(parked, m) \in Seq(Peel)
  BY AppendProperties DEF Park

LEMMA EarlyFine ==
  ASSUME NEW x, Fine(x), NEW parked \in Seq(Peel)
  PROVE  Fine([x EXCEPT !.early = parked])
  BY DEF Fine, CallType

LEMMA RedeliverFine ==
  ASSUME NEW y, Fine(y), NEW r \in Seats, NEW m \in Peel
  PROVE  Fine(Redeliver(y, r, m))
<1>1. CASE y.err
  BY <1>1 DEF Redeliver
<1>2. CASE ~ y.err /\ Premature(y.d, m)
  <2> DEFINE parked == Park(y.early, m)
  <2>1. parked \in Seq(Peel)
    BY ParkTyped DEF Fine, CallType
  <2>2. Redeliver(y, r, m) = [y EXCEPT !.early = parked]
    BY <1>2 DEF Redeliver, Fine, CallType
  <2> HIDE DEF parked
  <2>3. Fine([y EXCEPT !.early = parked])
    BY <2>1, EarlyFine
  <2> QED BY <2>2, <2>3
<1>3. CASE ~ y.err /\ ~ Premature(y.d, m)
  <2>1. Redeliver(y, r, m) = SessionPeel(y, r, m) /\ y.d.busy
    BY <1>3 DEF Redeliver, Premature
  <2> QED BY <2>1, SessionPeelFine
<1> QED BY <1>1, <1>2, <1>3

\* The same for a pass over the parked peels.
Draining(u, x, r, n) ==
  u = [k \in 0 .. n |->
         IF k = 0 THEN [x EXCEPT !.early = <<>>]
         ELSE Once({Redeliver(y, r, x.early[k]) : y \in {u[k - 1]}})]

LEMMA DrainingExists ==
  ASSUME NEW x, NEW r, NEW n \in Nat
  PROVE  \E u : Draining(u, x, r, n)
<1> DEFINE more(w, j) == IF j = 0 THEN [x EXCEPT !.early = <<>>]
                         ELSE Once({Redeliver(y, r, x.early[j]) : y \in {w[j - 1]}})
           T == {k \in Nat : \E u : Draining(u, x, r, k)}
<1>1. 0 \in T
  <2> DEFINE u == [k \in 0 .. 0 |-> [x EXCEPT !.early = <<>>]]
  <2>1. Draining(u, x, r, 0)
    BY DEF Draining
  <2> QED BY <2>1
<1>2. ASSUME NEW k \in T PROVE k + 1 \in T
  <2>1. PICK u : Draining(u, x, r, k)
    OBVIOUS
  <2> DEFINE last == Once({Redeliver(y, r, x.early[k + 1]) : y \in {u[k]}})
             v == [j \in 0 .. k + 1 |-> IF j <= k THEN u[j] ELSE last]
  <2>2. u = [j \in 0 .. k |-> more(u, j)]
    BY <2>1 DEF Draining
  <2>3. \A j \in 0 .. k + 1 : v[j] = more(v, j)
    <3> SUFFICES ASSUME NEW j \in 0 .. k + 1 PROVE v[j] = more(v, j)
      OBVIOUS
    <3>1. CASE j = k + 1
      <4>1. v[j] = last /\ v[k] = u[k]
        BY <3>1
      <4>2. j - 1 = k /\ j # 0
        BY <3>1
      <4> HIDE DEF v
      <4> QED BY <3>1, <4>1, <4>2
    <3>2. CASE j = 0
      <4>1. v[0] = u[0] /\ u[0] = [x EXCEPT !.early = <<>>]
        BY <2>2
      <4> HIDE DEF v
      <4> QED BY <3>2, <4>1
    <3>3. CASE j \in 1 .. k
      <4>1. v[j] = u[j] /\ v[j - 1] = u[j - 1] /\ j \in 0 .. k /\ j # 0
        BY <3>3
      <4>2. u[j] = more(u, j)
        <5> HIDE DEF v, more
        <5> QED BY <2>2, <4>1
      <4> HIDE DEF v
      <4> QED BY <4>1, <4>2
    <3> QED BY <3>1, <3>2, <3>3
  <2>4. v = [j \in 0 .. k + 1 |-> more(v, j)]
    <3>1. v = [j \in 0 .. k + 1 |-> v[j]]
      OBVIOUS
    <3> HIDE DEF v, more
    <3> QED BY <2>3, <3>1
  <2>5. Draining(v, x, r, k + 1)
    <3> HIDE DEF v
    <3> QED BY <2>4 DEF Draining
  <2> QED BY <2>5
<1>3. T = Nat
  <2> HIDE DEF T
  <2>1. T \in SUBSET Nat
    BY DEF T
  <2> QED BY <1>1, <1>2, <2>1, SetInduction
<1> QED BY <1>3

\* u are the results of the deliveries, the last one that of the pass.
DrainsTo(u, x, r) ==
  /\ u[0] = [x EXCEPT !.early = <<>>]
  /\ \A k \in 1 .. Len(x.early) : u[k] = Redeliver(u[k - 1], r, x.early[k])
  /\ DrainPeels(x, r) = u[Len(x.early)]

LEMMA DrainPeelsIsPass ==
  ASSUME NEW x, NEW r, Len(x.early) \in Nat
  PROVE  \E u : DrainsTo(u, x, r)
<1> DEFINE n == Len(x.early)
           first == [x EXCEPT !.early = <<>>]
           u == CHOOSE u : Draining(u, x, r, n)
<1>1. n \in Nat
  OBVIOUS
<1>2. DrainPeels(x, r) = u[n]
  BY DEF DrainPeels, Draining
<1> HIDE DEF n
<1>3. Draining(u, x, r, n)
  BY <1>1, DrainingExists
<1> HIDE DEF u
<1>5. u[0] = first /\ \A k \in 1 .. n : u[k] = Redeliver(u[k - 1], r, x.early[k])
  <2>1. \A k \in 0 .. n : u[k] = IF k = 0 THEN first
                                 ELSE Once({Redeliver(y, r, x.early[k]) : y \in {u[k - 1]}})
    BY <1>3 DEF Draining
  <2>2. \A y, m : Once({Redeliver(z, r, m) : z \in {y}}) = Redeliver(y, r, m)
    <3> TAKE y, m
    <3>1. {Redeliver(z, r, m) : z \in {y}} = {Redeliver(y, r, m)}
      OBVIOUS
    <3> QED BY <3>1, OnceIs
  <2> HIDE DEF first
  <2>3. u[0] = first
    <3>1. 0 \in 0 .. n
      BY <1>1
    <3> QED BY <2>1, <3>1, Zenon
  <2>4. ASSUME NEW k \in 1 .. n PROVE u[k] = Redeliver(u[k - 1], r, x.early[k])
    <3>1. k \in 0 .. n /\ k # 0
      BY <1>1
    <3>2. u[k] = Once({Redeliver(y, r, x.early[k]) : y \in {u[k - 1]}})
      BY <2>1, <3>1
    <3> QED BY <2>2, <3>2
  <2> QED BY <2>3, <2>4
<1>6. DrainsTo(u, x, r)
  BY <1>2, <1>5 DEF DrainsTo, n
<1> QED BY <1>6

LEMMA DrainPeelsFine ==
  ASSUME NEW x, Fine(x), NEW r \in Seats
  PROVE  Fine(DrainPeels(x, r))
<1> DEFINE n == Len(x.early)
           first == [x EXCEPT !.early = <<>>]
<1>1. n \in Nat /\ \A k \in 1 .. n : x.early[k] \in Peel
  BY ElementOfSeq DEF Fine, CallType
<1>2. Fine(first)
  BY EmptySeq, EarlyFine
<1>3. PICK u : DrainsTo(u, x, r)
  BY <1>1, DrainPeelsIsPass
<1>4. DrainPeels(x, r) = u[n]
  BY <1>3 DEF DrainsTo
<1>5. u[0] = first /\ \A k \in 1 .. n : u[k] = Redeliver(u[k - 1], r, x.early[k])
  BY <1>3 DEF DrainsTo
<1> HIDE DEF n
<1> HIDE DEF first
<1> DEFINE T == {k \in Nat : k <= n => Fine(u[k])}
<1>6. 0 \in T
  <2>1. Fine(u[0])
    BY <1>2, <1>5
  <2> QED BY <2>1
<1>7. ASSUME NEW k \in T PROVE k + 1 \in T
  <2> SUFFICES ASSUME k + 1 <= n PROVE Fine(u[k + 1])
    OBVIOUS
  <2>1. Fine(u[k]) /\ k + 1 \in 1 .. n /\ (k + 1) - 1 = k
    BY <1>1
  <2>2. u[k + 1] = Redeliver(u[k], r, x.early[k + 1])
    BY <1>5, <2>1
  <2>3. Fine(Redeliver(u[k], r, x.early[k + 1]))
    BY <1>1, <2>1, RedeliverFine
  <2> QED BY <2>2, <2>3
<1>8. T = Nat
  <2> HIDE DEF T
  <2>1. T \in SUBSET Nat
    BY DEF T
  <2> QED BY <1>6, <1>7, <2>1, SetInduction
<1> QED BY <1>1, <1>4, <1>8

LEMMA DelegateFine ==
  ASSUME NEW x, Fine(x), NEW r \in Seats, NEW absent
  PROVE  Fine(Delegate(x, r, absent))
  BY SettleFine DEF Delegate

LEMMA FollowUpFine ==
  ASSUME NEW x, Fine(x), NEW r \in Seats, NEW absent
  PROVE  Fine(FollowUp(x, r, absent))
<1> DEFINE y == DrainPeels(x, r)
           next(z) == IF z.err THEN z ELSE Delegate(z, r, absent)
<1>1. Fine(y)
  BY DrainPeelsFine
<1> HIDE DEF y
<1>2. Fine(next(y))
  BY <1>1, DelegateFine
<1>3. Once({next(z) : z \in {y}}) = next(y)
  <2> HIDE DEF next
  <2>1. {next(z) : z \in {y}} = {next(y)}
    OBVIOUS
  <2> QED BY <2>1 DEF Once
<1>4. FollowUp(x, r, absent) = IF x.err THEN x ELSE Once({next(z) : z \in {y}})
  BY DEF FollowUp, y
<1> HIDE DEF next
<1> QED BY <1>2, <1>3, <1>4

-----------------------------------------------------------------------------
(* The hand *)

\* The inductive invariant.
IInv == TypeOK /\ \A r \in Seats : Whole(deal[r])

LEMMA SendPeelTyped ==
  ASSUME NEW r \in Seats, NEW out \in SUBSET Peel
  PROVE  SendPeel(r, out) \in SUBSET Packet
  BY DEF SendPeel, Packet

\* What a call writes back.
LEMMA InstallKeeps ==
  ASSUME IInv, NEW r \in Seats, NEW x, Fine(x), NEW rest \in SUBSET Packet,
         Install(r, x, rest)
  PROVE  /\ deal' \in [Seats -> Session] /\ \A q \in Seats : Whole(deal'[q])
         /\ early' \in [Seats -> Seq(Peel)]
         /\ made' \in SUBSET Peel /\ flight' \in SUBSET Packet
<1>1. /\ x.d \in Session /\ Whole(x.d) /\ x.early \in Seq(Peel) /\ x.own \in SUBSET Peel
  BY DEF Fine, CallType
<1>2. deal \in [Seats -> Session] /\ early \in [Seats -> Seq(Peel)] /\ made \in SUBSET Peel
  BY DEF IInv, TypeOK
<1>3. deal' = [deal EXCEPT ![r] = x.d] /\ early' = [early EXCEPT ![r] = x.early]
  BY DEF Install
<1>4. \A q \in Seats : Whole(deal'[q])
  <2> SUFFICES ASSUME NEW q \in Seats PROVE Whole(deal'[q])
    OBVIOUS
  <2>1. deal'[q] = IF q = r THEN x.d ELSE deal[q]
    BY <1>2, <1>3
  <2> QED BY <1>1, <2>1 DEF IInv
<1>5. made' \in SUBSET Peel
  BY <1>1, <1>2 DEF Install
<1>6. flight' \in SUBSET Packet
  <2>1. SendPeel(r, x.own) \in SUBSET Packet
    BY <1>1, SendPeelTyped
  <2> QED BY <2>1 DEF Install
<1>7. deal' \in [Seats -> Session] /\ early' \in [Seats -> Seq(Peel)]
  BY <1>1, <1>2, <1>3
<1> QED BY <1>4, <1>5, <1>6, <1>7

LEMMA NowFine ==
  ASSUME IInv, NEW r \in Seats
  PROVE  Fine(Result(deal[r], early[r], {}, FALSE))
  BY DEF IInv, TypeOK, Fine, CallType, Result

LEMMA StartSequenceKeeps ==
  ASSUME IInv, NEW r \in Seats, NEW k \in 1 .. Len(Plan), StartSequence(r, k)
  PROVE  IInv'
<1> DEFINE begun == Result(InstallJob(deal[r], k, 1), early[r], {}, FALSE)
           x == FollowUp(Settle(begun, r, {}), r, gone[r])
<1>1. Whole(InstallJob(deal[r], k, 1))
  <2>1. deal[r] \in Session /\ \A c \in deal[r].read : c.layers = Seats
    BY DEF IInv, Whole
  <2>2. 1 \in 1 .. Len(Plan[k])
    BY PlanTyped
  <2> QED BY <2>1, <2>2, InstallWhole
<1>2. Fine(begun)
  BY <1>1 DEF Fine, CallType, Result, Whole, IInv, TypeOK
<1> HIDE DEF begun
<1>3. Fine(x)
  BY <1>2, SettleFine, FollowUpFine
<1>4. /\ Install(r, x, flight)
      /\ mode' = [mode EXCEPT ![r] = IF x.err THEN "failed" ELSE "started"]
      /\ woken' = [woken EXCEPT ![r] = SignalPeelProgress(x, k)]
      /\ at' = [at EXCEPT ![r] = k] /\ UNCHANGED <<gone, silent>>
  BY DEF StartSequence, begun
<1> HIDE DEF x
<1>5. flight \in SUBSET Packet
  BY DEF IInv, TypeOK
<1>6. /\ deal' \in [Seats -> Session] /\ \A q \in Seats : Whole(deal'[q])
      /\ early' \in [Seats -> Seq(Peel)] /\ made' \in SUBSET Peel /\ flight' \in SUBSET Packet
  BY <1>3, <1>4, <1>5, InstallKeeps
<1>7. k \in 0 .. Len(Plan)
  BY PlanTyped
<1>8. SignalPeelProgress(x, k) \in BOOLEAN
  BY DEF SignalPeelProgress
<1>9. at' \in [Seats -> 0 .. Len(Plan)] /\ woken' \in [Seats -> BOOLEAN]
      /\ mode' \in [Seats -> {"idle", "started", "waiting", "deaf", "failed"}]
  BY <1>4, <1>7, <1>8 DEF IInv, TypeOK
<1> QED BY <1>4, <1>6, <1>9 DEF IInv, TypeOK

\* The kinds of sequences are numbers of the plan.
LEMMA StartInPlan ==
  ASSUME NEW r \in Seats, StartHoles(r) \/ StartStreet(r) \/ StartReveal(r)
  PROVE  \E k \in 1 .. Len(Plan) : StartSequence(r, k)
<1>1. /\ Len(Plan) = 1 + LastStreet + Cardinality(Left) /\ Len(Plan) \in Nat
      /\ LastStreet \in 0 .. 3
  BY PlanTyped, DealAssumption
<1>2. Cardinality(Left) \in Nat
  <2>1. 0 \in Int /\ N - 1 \in Int
    BY SeatingAssumption
  <2>2. IsFiniteSet(Seats)
    BY <2>1, FS_Interval DEF Seats
  <2> QED BY <2>2, FS_Subset, FS_CardinalityType, DealAssumption
<1>3. CASE StartHoles(r)
  <2>1. 1 \in 1 .. Len(Plan)
    BY <1>1, <1>2
  <2> QED BY <1>3, <2>1 DEF StartHoles
<1>4. CASE StartStreet(r)
  <2>1. PICK street \in 1 .. LastStreet : StartSequence(r, 1 + street)
    BY <1>4 DEF StartStreet
  <2>2. 1 + street \in 1 .. Len(Plan)
    BY <1>1, <1>2
  <2> QED BY <2>1, <2>2
<1>5. CASE StartReveal(r)
  <2>1. PICK i \in 1 .. Cardinality(Left) : StartSequence(r, 1 + LastStreet + i)
    BY <1>5 DEF StartReveal
  <2>2. 1 + LastStreet + i \in 1 .. Len(Plan)
    BY <1>1, <1>2
  <2> QED BY <2>1, <2>2
<1> QED BY <1>3, <1>4, <1>5

LEMMA HandlePeelKeeps ==
  ASSUME IInv, NEW r \in Seats, NEW pkt \in flight, HandlePeel(r, pkt)
  PROVE  IInv'
<1> DEFINE now == Result(deal[r], early[r], {}, FALSE)
           m == pkt.msg
           parked == Park(early[r], m)
           premature == Premature(deal[r], m)
           x == IF premature THEN [now EXCEPT !.early = Park(@, m)]
                ELSE FollowUp(SessionPeel(now, r, m), r, gone[r])
<1>1. Fine(now) /\ flight \in SUBSET Packet /\ m \in Peel /\ early[r] \in Seq(Peel)
      /\ now.d = deal[r] /\ now.early = early[r]
  BY NowFine DEF IInv, TypeOK, Packet, Result
<1>2. /\ Install(r, x, flight \ {pkt})
      /\ woken' = [woken EXCEPT ![r] = @ \/ (~ premature /\ SignalPeelProgress(x, at[r]))]
      /\ UNCHANGED <<gone, at, mode, silent>>
  BY DEF HandlePeel
<1> HIDE DEF now, m
<1>3. Fine(x)
  <2>1. CASE premature
    <3>1. parked \in Seq(Peel) /\ x = [now EXCEPT !.early = parked]
      BY <1>1, <2>1, ParkTyped DEF Fine, CallType
    <3> HIDE DEF parked, x
    <3>2. Fine([now EXCEPT !.early = parked])
      BY <1>1, <3>1, EarlyFine
    <3> QED BY <3>1, <3>2
  <2>2. CASE ~ premature
    <3>1. x = FollowUp(SessionPeel(now, r, m), r, gone[r]) /\ now.d.busy
      BY <1>1, <2>2 DEF Premature
    <3> HIDE DEF x
    <3>2. Fine(SessionPeel(now, r, m))
      BY <1>1, <3>1, SessionPeelFine
    <3> QED BY <3>1, <3>2, FollowUpFine
  <2> QED BY <2>1, <2>2
<1> HIDE DEF x, premature
<1>4. flight \ {pkt} \in SUBSET Packet
  BY <1>1
<1>5. /\ deal' \in [Seats -> Session] /\ \A q \in Seats : Whole(deal'[q])
      /\ early' \in [Seats -> Seq(Peel)] /\ made' \in SUBSET Peel /\ flight' \in SUBSET Packet
  BY <1>2, <1>3, <1>4, InstallKeeps
<1>6. woken' \in [Seats -> BOOLEAN]
  BY <1>2 DEF IInv, TypeOK
<1> QED BY <1>2, <1>5, <1>6 DEF IInv, TypeOK

LEMMA RecoverKeeps ==
  ASSUME IInv, NEW r \in Seats, NEW g \in Suspects, Recover(r, g)
  PROVE  IInv'
<1> DEFINE x == Delegate(Result(deal[r], early[r], {}, FALSE), r, gone'[r])
<1>1. Fine(x)
  BY NowFine, DelegateFine
<1>2. /\ Install(r, x, flight) /\ UNCHANGED <<at, mode, silent>>
      /\ gone' = [gone EXCEPT ![r] = @ \cup {g}]
      /\ woken' = [woken EXCEPT ![r] = @ \/ (x.own # {} /\ SignalPeelProgress(x, at[r]))]
  BY DEF Recover, MarkGone
<1> HIDE DEF x
<1>3. flight \in SUBSET Packet /\ silent \in {{}, Silent} /\ g \in Seats
  BY DealAssumption DEF IInv, TypeOK, Suspects
<1>4. /\ deal' \in [Seats -> Session] /\ \A q \in Seats : Whole(deal'[q])
      /\ early' \in [Seats -> Seq(Peel)] /\ made' \in SUBSET Peel /\ flight' \in SUBSET Packet
  BY <1>1, <1>2, <1>3, InstallKeeps
<1>5. gone' \in [Seats -> SUBSET Seats] /\ woken' \in [Seats -> BOOLEAN]
  BY <1>2, <1>3 DEF IInv, TypeOK
<1> QED BY <1>2, <1>4, <1>5 DEF IInv, TypeOK

\* Waits and deadlines only move the driver.
LEMMA DriverKeeps ==
  ASSUME IInv, NEW r \in Seats,
         \/ WaitHoles(r) \/ WaitStreet(r) \/ WaitReveal(r) \/ Wake(r)
         \/ Kick(r) \/ DealTimeout(r)
  PROVE  IInv'
<1>1. UNCHANGED <<deal, early, gone, at, woken, made, flight, silent>>
  BY DEF WaitHoles, WaitStreet, WaitReveal, WaitSequence, Wake, Kick, DealTimeout
<1>2. \E now \in {"idle", "waiting", "deaf", "failed"} : mode' = [mode EXCEPT ![r] = now]
  BY DEF WaitHoles, WaitStreet, WaitReveal, WaitSequence, Wake, Kick, DealTimeout
<1>3. mode' \in [Seats -> {"idle", "started", "waiting", "deaf", "failed"}]
  BY <1>2 DEF IInv, TypeOK
<1> QED BY <1>1, <1>3 DEF IInv, TypeOK

LEMMA StepKeeps == IInv /\ [Next]_vars => IInv'
<1> SUFFICES ASSUME IInv, [Next]_vars PROVE IInv'
  OBVIOUS
<1>1. ASSUME NEW r \in Seats, StartHoles(r) \/ StartStreet(r) \/ StartReveal(r) PROVE IInv'
  BY <1>1, StartInPlan, StartSequenceKeeps
<1>2. ASSUME NEW r \in Seats, Receive(r) PROVE IInv'
  BY <1>2, HandlePeelKeeps DEF Receive
<1>3. ASSUME NEW r \in Seats,
             \/ WaitHoles(r) \/ WaitStreet(r) \/ WaitReveal(r) \/ Wake(r)
             \/ Kick(r) \/ DealTimeout(r)
      PROVE  IInv'
  BY <1>3, DriverKeeps
<1>4. ASSUME NEW r \in Seats, NEW g \in Suspects, Recover(r, g) PROVE IInv'
  BY <1>4, RecoverKeeps
<1>5. CASE UNCHANGED vars
  BY <1>5 DEF vars, IInv, TypeOK
<1> QED BY <1>1, <1>2, <1>3, <1>4, <1>5 DEF Next

LEMMA InitKeeps == Init => IInv
<1> SUFFICES ASSUME Init PROVE IInv
  OBVIOUS
<1>1. NewSession \in Session /\ ~ NewSession.busy /\ NewSession.read = {}
  <2>1. 0 \in 0 .. Len(Plan)
    BY PlanTyped
  <2> QED BY <2>1 DEF NewSession, Session, Layers
<1>2. \A r \in Seats : Whole(deal[r])
  BY <1>1 DEF Init, Whole
<1>3. deal \in [Seats -> Session] /\ at \in [Seats -> 0 .. Len(Plan)]
  BY <1>1, PlanTyped DEF Init
<1>4. early \in [Seats -> Seq(Peel)]
  BY EmptySeq DEF Init
<1> QED BY <1>2, <1>3, <1>4 DEF Init, IInv, TypeOK

LEMMA Invariance == Spec => []IInv
  BY InitKeeps, StepKeeps, PTL DEF Spec

\* For any number of seats, plan, buffer, timeouts and silent seats, sessions,
\* parked peels, drivers and packets keep their types; in particular every
\* sequence a driver starts is one of the plan.
THEOREM DealTypeCorrect == Spec => []TypeOK
<1>1. IInv => TypeOK
  BY DEF IInv
<1> QED BY <1>1, Invariance, PTL

\* What a seat reads as a card has every layer of encryption off: no order of
\* stale, repeated, buffered or delegated peels makes a session read a card
\* with a turn skipped or taken twice.
THEOREM EveryCardWholeTheorem == Spec => []EveryCardWhole
<1>1. IInv => EveryCardWhole
  BY DEF IInv, Whole, EveryCardWhole
<1> QED BY <1>1, Invariance, PTL

-----------------------------------------------------------------------------
(* Secrecy *)

\* For every layer that is off card c there is a peel among the peels S.
Covered(c, layers, S) == \A s \in layers : \E o \in S : o.card = c /\ o.seat = s

\* Peel m takes its turn in a job of its sequence, on top of other peels of S.
PeelOK(m, S) ==
  /\ \E j \in 1 .. Len(Plan[m.at]) : Plan[m.at][j].card = m.card /\ Plan[m.at][j].to # m.seat
  /\ Covered(m.card, m.from, S)

\* A session of sequence k holds what was peeled, among the peels S.
SessionKnown(d, k, S) ==
  /\ d.at = k
  /\ d.pending \subseteq S
  /\ d.busy => Covered(Job(d).card, d.current, S)

\* What a call of seat r in sequence k leaves: it made peels for itself and for
\* the seats in `absent`, and holds nothing that was not peeled.
Known(x, r, k, absent, S) ==
  /\ Fine(x)
  /\ SessionKnown(x.d, k, S \cup x.own)
  /\ \A i \in 1 .. Len(x.early) : x.early[i] \in S
  /\ \A m \in x.own : /\ m.by = r /\ m.at = k /\ m.seat \in {r} \cup absent
                      /\ PeelOK(m, S \cup x.own)

LEMMA CoveredGrows ==
  ASSUME NEW c, NEW layers, NEW S, NEW T, S \subseteq T
  PROVE  /\ Covered(c, layers, S) => Covered(c, layers, T)
         /\ \A m : PeelOK(m, S) => PeelOK(m, T)
<1>1. \A a, b : Covered(a, b, S) => Covered(a, b, T)
  BY DEF Covered
<1> QED BY <1>1 DEF PeelOK

\* The turns of a job are never its recipient's.
LEMMA RecipientLeftOut ==
  ASSUME NEW job \in JobType, NEW i \in 1 .. Len(Peelers(job))
  PROVE  Peelers(job)[i] # job.to
<1>1. CASE job.to = Everyone
  BY <1>1, PeelersTyped, SeatingAssumption DEF Everyone, Seats
<1>2. CASE job.to \in Seats
  <2>1. Peelers(job)[i] \in Off(job, Len(Peelers(job)))
    BY DEF Off
  <2> QED BY <1>2, <2>1, PeelersTyped
<1> QED BY <1>1, <1>2, SeatingAssumption DEF JobType, Everyone, Seats

LEMMA ExpectedNotRecipient ==
  ASSUME NEW d, Whole(d), d.busy, ~ JobComplete(d)
  PROVE  /\ ExpectedPeeler(d) # Job(d).to
         /\ d.job \in 1 .. Len(Plan[d.at]) /\ Job(d) = Plan[d.at][d.job]
<1>1. d.next \in Nat /\ d.next <= Len(Peelers(Job(d))) /\ d.next # Len(Peelers(Job(d)))
  BY DEF Whole, Session, JobComplete
<1>2. Job(d) \in JobType /\ Len(Peelers(Job(d))) \in Nat
  BY JobTyped, PeelersTyped
<1>3. d.next + 1 \in 1 .. Len(Peelers(Job(d)))
  BY <1>1, <1>2
<1>4. ExpectedPeeler(d) # Job(d).to
  BY <1>2, <1>3, RecipientLeftOut DEF ExpectedPeeler
<1> QED BY <1>4 DEF Whole, Job

-----------------------------------------------------------------------------
(* The session *)

\* A new job has all its layers on and nothing pending.
LEMMA AdvanceKnown ==
  ASSUME NEW d, Whole(d), NEW k, NEW S, SessionKnown(d, k, S), NEW r
  PROVE  SessionKnown(Advance(d, r), k, S)
<1> DEFINE e == Advance(d, r)
           off == IF Job(d).to = r THEN d.current \cup {r} ELSE d.current
           learnt == IF Job(d).to \in {r, Everyone}
                     THEN {[card |-> Job(d).card, layers |-> off]} ELSE {}
           read == d.read \cup learnt
           done == [d EXCEPT !.read = read]
<1>1. d \in Session /\ d.at = k
  BY DEF Whole, SessionKnown
<1>2. e = IF d.job < Len(Plan[d.at]) THEN InstallJob(done, d.at, d.job + 1)
          ELSE [done EXCEPT !.busy = FALSE, !.next = 0, !.current = {},
                            !.applied = {}, !.pending = {}]
  BY <1>1 DEF Advance, Session
<1> HIDE DEF read
<1>3. e.at = k /\ e.pending = {} /\ e.current = {}
  <2>1. CASE d.job < Len(Plan[d.at])
    BY <1>1, <1>2, <2>1 DEF InstallJob, Session
  <2>2. CASE ~ (d.job < Len(Plan[d.at]))
    BY <1>1, <1>2, <2>2 DEF Session
  <2> QED BY <2>1, <2>2
<1> HIDE DEF e
<1> QED BY <1>3 DEF SessionKnown, Covered, e

\* A peel of the current card on the current layers.
LEMMA ApplyKnown ==
  ASSUME NEW d, Whole(d), NEW k, NEW S, SessionKnown(d, k, S), d.busy,
         NEW m \in S, m.card = Job(d).card, m.from = d.current
  PROVE  SessionKnown(Apply(d, m), k, S)
<1> DEFINE next == d.next + 1
           current == m.from \cup {m.seat}
           applied == d.applied \cup {m}
           e == [d EXCEPT !.next = next, !.current = current, !.applied = applied]
<1>1. d \in Session
  BY DEF Whole
<1>2. Apply(d, m) = e
  BY <1>1 DEF Apply, Session
<1> HIDE DEF next, current, applied
<1>3. /\ e.at = d.at /\ e.job = d.job /\ e.current = current
      /\ e.pending = d.pending /\ e.busy = d.busy
  BY <1>1 DEF Session
<1> HIDE DEF e
<1>4. Job(e) = Job(d)
  BY <1>3 DEF Job
<1>5. Covered(Job(d).card, current, S)
  BY DEF Covered, SessionKnown, current
<1> QED BY <1>2, <1>3, <1>4, <1>5 DEF SessionKnown

LEMMA PendingKnown ==
  ASSUME NEW d, Whole(d), NEW k, NEW S, SessionKnown(d, k, S), NEW some \in SUBSET S
  PROVE  LET e == [d EXCEPT !.pending = some]
         IN  SessionKnown(e, k, S) /\ Job(e) = Job(d)
<1> DEFINE e == [d EXCEPT !.pending = some]
<1>1. /\ e.at = d.at /\ e.job = d.job /\ e.current = d.current
      /\ e.pending = some /\ e.busy = d.busy
  BY DEF Whole, Session
<1> HIDE DEF e
<1>2. Job(e) = Job(d)
  BY <1>1 DEF Job
<1> QED BY <1>1, <1>2 DEF SessionKnown, e

-----------------------------------------------------------------------------
(* A call *)

LEMMA KnownGrows ==
  ASSUME NEW d, NEW k, NEW S, NEW T, S \subseteq T, SessionKnown(d, k, S)
  PROVE  SessionKnown(d, k, T)
<1>1. d.at = k /\ d.pending \subseteq T
  BY DEF SessionKnown
<1>2. d.busy => Covered(Job(d).card, d.current, T)
  BY CoveredGrows DEF SessionKnown
<1> QED BY <1>1, <1>2 DEF SessionKnown

\* Only the session of a call changes.
LEMMA ReplaceKnown ==
  ASSUME NEW x, NEW r, NEW k, NEW absent, NEW S, Known(x, r, k, absent, S),
         NEW e, Whole(e), SessionKnown(e, k, S \cup x.own)
  PROVE  /\ Known([x EXCEPT !.d = e], r, k, absent, S)
         /\ Known([x EXCEPT !.d = e, !.err = TRUE], r, k, absent, S)
<1>1. Fine([x EXCEPT !.d = e]) /\ Fine([x EXCEPT !.d = e, !.err = TRUE])
  BY ReplaceFine DEF Known
<1> DEFINE y == [x EXCEPT !.d = e]
           z == [x EXCEPT !.d = e, !.err = TRUE]
<1>2. y.d = e /\ y.early = x.early /\ y.own = x.own /\ z.d = e /\ z.early = x.early /\ z.own = x.own
  BY DEF Known, Fine, CallType
<1> HIDE DEF y, z
<1>3. Known(y, r, k, absent, S)
  BY <1>1, <1>2 DEF Known, y
<1>4. Known(z, r, k, absent, S)
  BY <1>1, <1>2 DEF Known, z
<1> QED BY <1>3, <1>4 DEF y, z

LEMMA MovedKnown ==
  ASSUME NEW x, NEW r, NEW k, NEW absent, NEW S, Known(x, r, k, absent, S),
         NEW e, Whole(e), SessionKnown(e, k, S \cup x.own)
  PROVE  Known([x EXCEPT !.d = e], r, k, absent, S)
<1> DEFINE y == [x EXCEPT !.d = e]
           z == [x EXCEPT !.d = e, !.err = TRUE]
<1>1. Known(y, r, k, absent, S) /\ Known(z, r, k, absent, S)
  BY ReplaceKnown
<1> QED BY <1>1

\* A peel the seat makes with its own key, or with that of a seat it peels for.
LEMMA OwnKnown ==
  ASSUME NEW x, NEW r \in Seats, NEW k, NEW absent, NEW S, Known(x, r, k, absent, S),
         x.d.busy, ~ JobComplete(x.d), ExpectedPeeler(x.d) \in {r} \cup absent
  PROVE  LET o == NewPeel(x.d, ExpectedPeeler(x.d), r)
         IN  Known([x EXCEPT !.d = Apply(x.d, o), !.own = @ \cup {o}], r, k, absent, S)
<1> DEFINE d == x.d
           q == ExpectedPeeler(d)
           o == NewPeel(d, q, r)
           own == x.own \cup {o}
           e == Apply(d, o)
           y == [x EXCEPT !.d = e, !.own = own]
<1>1. Whole(d) /\ SessionKnown(d, k, S \cup x.own) /\ q \in Seats /\ x \in CallType
  BY PeelerDue DEF Known, Fine
<1>2. /\ o \in Peel /\ o.seat = q /\ o.from = d.current
      /\ o.card = Job(d).card /\ o.by = r /\ o.at = k
  BY <1>1, NewPeelTyped DEF NewPeel, SessionKnown
<1> HIDE DEF o
<1>3. Whole(e)
  BY <1>1, <1>2, ApplyWhole
<1>4. SessionKnown(e, k, S \cup own)
  <2> DEFINE T == S \cup own
  <2>1. SessionKnown(d, k, T) /\ o \in T
    BY <1>1, KnownGrows
  <2> HIDE DEF d, own, T
  <2>2. SessionKnown(Apply(d, o), k, T)
    BY <1>1, <1>2, <2>1, ApplyKnown DEF d
  <2> QED BY <2>2 DEF T
<1>5. PeelOK(o, S \cup own)
  <2>1. /\ q # Job(d).to /\ d.job \in 1 .. Len(Plan[d.at])
        /\ Job(d) = Plan[d.at][d.job] /\ d.at = k
    BY <1>1, ExpectedNotRecipient DEF SessionKnown
  <2>2. Covered(o.card, o.from, S \cup own)
    <3>1. Covered(Job(d).card, d.current, S \cup x.own)
      BY <1>1 DEF SessionKnown
    <3> HIDE DEF d
    <3> QED BY <1>2, <3>1, CoveredGrows
  <2> QED BY <1>2, <2>1, <2>2 DEF PeelOK
<1>6. ASSUME NEW m \in own
      PROVE  /\ m.by = r /\ m.at = k /\ m.seat \in {r} \cup absent
             /\ PeelOK(m, S \cup own)
  <2>1. CASE m = o
    BY <1>2, <1>5, <2>1
  <2>2. CASE m \in x.own
    <3>1. PeelOK(m, S \cup x.own) /\ m.by = r /\ m.at = k /\ m.seat \in {r} \cup absent
      BY <2>2 DEF Known
    <3> QED BY <3>1, CoveredGrows
  <2> QED BY <2>1, <2>2
<1>7. [x EXCEPT !.d = Apply(x.d, o), !.own = @ \cup {o}] = y
  BY <1>1 DEF CallType
<1>8. Fine(y)
  <2>1. {o} \in SUBSET Peel
    BY <1>2
  <2>2. Fine([x EXCEPT !.d = e, !.own = @ \cup {o}])
    BY <1>3, <2>1, OwnFine DEF Known
  <2> QED BY <1>7, <2>2
<1>9. \A i \in 1 .. Len(x.early) : x.early[i] \in S
  BY DEF Known
<1> HIDE DEF d, e, own
<1>10. y.d = e /\ y.early = x.early /\ y.own = own
  BY <1>1 DEF CallType
<1> HIDE DEF y
<1>11. Known(y, r, k, absent, S)
  BY <1>4, <1>6, <1>8, <1>9, <1>10 DEF Known
<1> QED BY <1>7, <1>11 DEF o, q, d

LEMMA TurnKnown ==
  ASSUME NEW x, NEW r \in Seats, NEW k, NEW absent, NEW S, Known(x, r, k, absent, S),
         NEW helped, helped \subseteq absent
  PROVE  Known(Turn(x, r, helped), r, k, absent, S)
<1> DEFINE d == x.d
           q == ExpectedPeeler(d)
           buffered == {m \in d.pending : m.seat = q}
           m == CHOOSE m \in buffered : TRUE
           some == d.pending \ {m}
           taken == [d EXCEPT !.pending = some]
           own == NewPeel(d, q, r)
           T == S \cup x.own
<1>1. Whole(d) /\ d.pending \in SUBSET Peel /\ d.pending \subseteq T /\ SessionKnown(d, k, T)
  BY DEF Known, Fine, Whole, Session, SessionKnown
<1>2. CASE x.err \/ ~ d.busy
  BY <1>2 DEF Turn
<1>3. CASE ~ x.err /\ d.busy /\ JobComplete(d)
  <2>1. Turn(x, r, helped) = [x EXCEPT !.d = Advance(d, r)]
    BY <1>3 DEF Turn
  <2>2. Whole(Advance(d, r)) /\ SessionKnown(Advance(d, r), k, T)
    BY <1>1, <1>3, AdvanceWhole, AdvanceKnown
  <2>3. Known([x EXCEPT !.d = Advance(d, r)], r, k, absent, S)
    BY <2>2, ReplaceKnown
  <2> HIDE DEF d
  <2> QED BY <2>1, <2>3
<1>4. CASE ~ x.err /\ d.busy /\ ~ JobComplete(d) /\ q # r /\ buffered # {}
  <2>1. m \in Peel /\ m.seat = q /\ m \in T
    BY <1>1, <1>4
  <2>2. [d EXCEPT !.pending = @ \ {m}] = taken
    BY <1>1 DEF Whole, Session
  <2>3. Turn(x, r, helped) = IF Verifies(d, m) THEN [x EXCEPT !.d = Apply(taken, m)]
                             ELSE [x EXCEPT !.d = taken, !.err = TRUE]
    BY <1>4, <2>2 DEF Turn
  <2>4. some \in SUBSET Peel /\ some \in SUBSET T
    BY <1>1
  <2> HIDE DEF m, some, d, T
  <2>5. /\ Whole(taken) /\ taken.busy /\ ~ JobComplete(taken)
        /\ ExpectedPeeler(taken) = q /\ taken.current = d.current
    BY <1>1, <1>4, <2>4, PendingWhole
  <2>6. SessionKnown(taken, k, T) /\ Job(taken) = Job(d)
    BY <1>1, <2>4, PendingKnown
  <2> HIDE DEF taken
  <2>7. CASE Verifies(d, m)
    <3>1. m.from = taken.current /\ m.card = Job(taken).card
      BY <2>5, <2>6, <2>7 DEF Verifies
    <3>2. Whole(Apply(taken, m)) /\ SessionKnown(Apply(taken, m), k, T)
      BY <2>1, <2>5, <2>6, <3>1, ApplyWhole, ApplyKnown
    <3>3. Known([x EXCEPT !.d = Apply(taken, m)], r, k, absent, S)
      BY <3>2, ReplaceKnown DEF T
    <3> QED BY <2>3, <2>7, <3>3
  <2>8. CASE ~ Verifies(d, m)
    <3>1. Known([x EXCEPT !.d = taken, !.err = TRUE], r, k, absent, S)
      BY <2>5, <2>6, ReplaceKnown DEF T
    <3> QED BY <2>3, <2>8, <3>1
  <2> QED BY <2>7, <2>8
<1>5. CASE ~ x.err /\ d.busy /\ ~ JobComplete(d) /\ ~ (q # r /\ buffered # {})
  <2>1. \/ Turn(x, r, helped) = x
        \/ /\ q \in {r} \cup helped
           /\ Turn(x, r, helped) = [x EXCEPT !.d = Apply(d, own), !.own = @ \cup {own}]
    BY <1>5 DEF Turn
  <2>2. q \in {r} \cup helped
          => Known([x EXCEPT !.d = Apply(d, own), !.own = @ \cup {own}], r, k, absent, S)
    BY <1>5, OwnKnown
  <2> HIDE DEF own, d
  <2> QED BY <2>1, <2>2
<1> QED BY <1>2, <1>3, <1>4, <1>5

LEMMA SettleKnown ==
  ASSUME NEW x, NEW r \in Seats, NEW k, NEW absent, NEW S, Known(x, r, k, absent, S),
         NEW helped, helped \subseteq absent
  PROVE  Known(Settle(x, r, helped), r, k, absent, S)
<1>1. PICK u, n : SettlesTo(u, n, x, r, helped)
  BY SettleIsTurns
<1>2. n \in Nat /\ Settle(x, r, helped) = u[n]
  BY <1>1 DEF SettlesTo
<1>3. u[0] = x /\ \A i \in 1 .. n : u[i] = Turn(u[i - 1], r, helped)
  BY <1>1 DEF SettlesTo
<1> DEFINE T == {i \in Nat : i <= n => Known(u[i], r, k, absent, S)}
<1>4. 0 \in T
  <2>1. Known(u[0], r, k, absent, S)
    BY <1>3
  <2> QED BY <2>1
<1>5. ASSUME NEW i \in T PROVE i + 1 \in T
  <2> SUFFICES ASSUME i + 1 <= n PROVE Known(u[i + 1], r, k, absent, S)
    OBVIOUS
  <2>1. Known(u[i], r, k, absent, S) /\ i + 1 \in 1 .. n /\ (i + 1) - 1 = i
    BY <1>2
  <2>2. u[i + 1] = Turn(u[i], r, helped)
    BY <1>3, <2>1
  <2>3. Known(Turn(u[i], r, helped), r, k, absent, S)
    BY <2>1, TurnKnown
  <2> QED BY <2>2, <2>3
<1>6. T = Nat
  <2> HIDE DEF T
  <2>1. T \in SUBSET Nat
    BY DEF T
  <2> QED BY <1>4, <1>5, <2>1, SetInduction
<1> QED BY <1>2, <1>6

LEMMA ErrKnown ==
  ASSUME NEW x, NEW r, NEW k, NEW absent, NEW S, Known(x, r, k, absent, S),
         NEW err \in BOOLEAN
  PROVE  Known([x EXCEPT !.err = err], r, k, absent, S)
<1> DEFINE y == [x EXCEPT !.err = err]
<1>1. Fine(y)
  BY ErrFine DEF Known
<1>2. y.d = x.d /\ y.early = x.early /\ y.own = x.own
  BY DEF Known, Fine, CallType
<1> HIDE DEF y
<1>3. Known(y, r, k, absent, S)
  BY <1>1, <1>2 DEF Known
<1> QED BY <1>3 DEF y

LEMMA EarlyKnown ==
  ASSUME NEW x, NEW r, NEW k, NEW absent, NEW S, Known(x, r, k, absent, S),
         NEW parked \in Seq(Peel), \A i \in 1 .. Len(parked) : parked[i] \in S
  PROVE  Known([x EXCEPT !.early = parked], r, k, absent, S)
<1> DEFINE y == [x EXCEPT !.early = parked]
<1>1. Fine(y)
  BY EarlyFine DEF Known
<1>2. y.d = x.d /\ y.early = parked /\ y.own = x.own
  BY DEF Known, Fine, CallType
<1> HIDE DEF y
<1>3. Known(y, r, k, absent, S)
  BY <1>1, <1>2 DEF Known
<1> QED BY <1>3 DEF y

LEMMA ParkKnown ==
  ASSUME NEW S, NEW parked \in Seq(Peel), \A i \in 1 .. Len(parked) : parked[i] \in S,
         NEW m \in Peel, m \in S
  PROVE  Park(parked, m) \in Seq(Peel)
         /\ \A i \in 1 .. Len(Park(parked, m)) : Park(parked, m)[i] \in S
<1> DEFINE more == Append(parked, m)
<1>1. /\ more \in Seq(Peel) /\ Len(more) = Len(parked) + 1
      /\ \A i \in 1 .. Len(parked) : more[i] = parked[i]
      /\ more[Len(parked) + 1] = m
  BY AppendProperties
<1>2. Len(parked) \in Nat
  OBVIOUS
<1> HIDE DEF more
<1>3. \A i \in 1 .. Len(more) : more[i] \in S
  <2> SUFFICES ASSUME NEW i \in 1 .. Len(more) PROVE more[i] \in S
    OBVIOUS
  <2>1. CASE i = Len(parked) + 1
    BY <1>1, <2>1
  <2>2. CASE i # Len(parked) + 1
    <3>1. i \in 1 .. Len(parked)
      BY <1>1, <1>2, <2>2
    <3> QED BY <1>1, <3>1
  <2> QED BY <2>1, <2>2
<1> QED BY <1>1, <1>3 DEF Park, more

LEMMA SessionPeelKnown ==
  ASSUME NEW x, NEW r \in Seats, NEW k, NEW absent, NEW S, Known(x, r, k, absent, S),
         x.d.busy, NEW m \in Peel, m \in S
  PROVE  Known(SessionPeel(x, r, m), r, k, absent, S)
<1> DEFINE d == x.d
           turns == Peelers(Job(d))
           some == d.pending \cup {m}
           isPeeler == \E i \in 1 .. Len(turns) : turns[i] = m.seat
           peeled == \E i \in 1 .. d.next : turns[i] = m.seat
           T == S \cup x.own
<1>1. /\ Whole(d) /\ d.pending \in SUBSET Peel /\ d.pending \subseteq T
      /\ SessionKnown(d, k, T) /\ m \in T
  BY DEF Known, Fine, Whole, Session, SessionKnown
<1>2. CASE SessionPeel(x, r, m) \in {[x EXCEPT !.err = TRUE], [x EXCEPT !.err = m \notin d.applied],
                                     [x EXCEPT !.err = m \notin d.pending]}
  <2>1. Known([x EXCEPT !.err = TRUE], r, k, absent, S)
    BY ErrKnown
  <2>2. Known([x EXCEPT !.err = m \notin d.applied], r, k, absent, S)
    BY ErrKnown
  <2>3. Known([x EXCEPT !.err = m \notin d.pending], r, k, absent, S)
    BY ErrKnown
  <2> QED BY <1>2, <2>1, <2>2, <2>3
<1>3. CASE /\ isPeeler /\ ~ peeled /\ m.seat = ExpectedPeeler(d) /\ Verifies(d, m)
           /\ SessionPeel(x, r, m) = Settle([x EXCEPT !.d = Apply(d, m)], r, {})
  <2>1. ~ JobComplete(d)
    BY <1>3 DEF JobComplete
  <2>2. m.card = Job(d).card /\ m.from = d.current
    BY <1>3 DEF Verifies
  <2> HIDE DEF T
  <2>3. Whole(Apply(d, m)) /\ SessionKnown(Apply(d, m), k, T)
    BY <1>1, <1>3, <2>1, <2>2, ApplyWhole, ApplyKnown
  <2>4. Known([x EXCEPT !.d = Apply(d, m)], r, k, absent, S)
    BY <2>3, ReplaceKnown DEF T
  <2> HIDE DEF d
  <2>5. Known(Settle([x EXCEPT !.d = Apply(d, m)], r, {}), r, k, absent, S)
    BY <2>4, SettleKnown
  <2> QED BY <1>3, <2>5
<1>4. CASE SessionPeel(x, r, m) = [x EXCEPT !.d.pending = @ \cup {m}]
  <2> DEFINE e == [d EXCEPT !.pending = some]
  <2>1. [x EXCEPT !.d.pending = @ \cup {m}] = [x EXCEPT !.d = e]
    BY DEF Known, Fine, CallType, Session
  <2>2. some \in SUBSET Peel /\ some \in SUBSET T
    BY <1>1
  <2> HIDE DEF some, d, T
  <2>3. Whole(e) /\ SessionKnown(e, k, T)
    BY <1>1, <2>2, PendingWhole, PendingKnown
  <2> HIDE DEF e
  <2>4. Known([x EXCEPT !.d = e], r, k, absent, S)
    BY <2>3, ReplaceKnown DEF T
  <2> QED BY <1>4, <2>1, <2>4
<1>5. \/ SessionPeel(x, r, m) \in {[x EXCEPT !.err = TRUE], [x EXCEPT !.err = m \notin d.applied],
                                   [x EXCEPT !.err = m \notin d.pending]}
      \/ /\ isPeeler /\ ~ peeled /\ m.seat = ExpectedPeeler(d) /\ Verifies(d, m)
         /\ SessionPeel(x, r, m) = Settle([x EXCEPT !.d = Apply(d, m)], r, {})
      \/ SessionPeel(x, r, m) = [x EXCEPT !.d.pending = @ \cup {m}]
  BY DEF SessionPeel
<1> QED BY <1>2, <1>3, <1>4, <1>5

LEMMA RedeliverKnown ==
  ASSUME NEW y, NEW r \in Seats, NEW k, NEW absent, NEW S, Known(y, r, k, absent, S),
         NEW m \in Peel, m \in S
  PROVE  Known(Redeliver(y, r, m), r, k, absent, S)
<1>1. CASE y.err
  BY <1>1 DEF Redeliver
<1>2. CASE ~ y.err /\ Premature(y.d, m)
  <2> DEFINE parked == Park(y.early, m)
  <2>1. parked \in Seq(Peel) /\ \A i \in 1 .. Len(parked) : parked[i] \in S
    BY ParkKnown DEF Known, Fine, CallType
  <2>2. Redeliver(y, r, m) = [y EXCEPT !.early = parked]
    BY <1>2 DEF Redeliver, Known, Fine, CallType
  <2> HIDE DEF parked
  <2>3. Known([y EXCEPT !.early = parked], r, k, absent, S)
    BY <2>1, EarlyKnown
  <2> QED BY <2>2, <2>3
<1>3. CASE ~ y.err /\ ~ Premature(y.d, m)
  <2>1. Redeliver(y, r, m) = SessionPeel(y, r, m) /\ y.d.busy
    BY <1>3 DEF Redeliver, Premature
  <2> QED BY <2>1, SessionPeelKnown
<1> QED BY <1>1, <1>2, <1>3

LEMMA DrainPeelsKnown ==
  ASSUME NEW x, NEW r \in Seats, NEW k, NEW absent, NEW S, Known(x, r, k, absent, S)
  PROVE  Known(DrainPeels(x, r), r, k, absent, S)
<1> DEFINE n == Len(x.early)
           first == [x EXCEPT !.early = <<>>]
<1>1. n \in Nat /\ \A i \in 1 .. n : x.early[i] \in Peel /\ x.early[i] \in S
  BY ElementOfSeq DEF Known, Fine, CallType
<1>2. Known(first, r, k, absent, S)
  <2>1. <<>> \in Seq(Peel) /\ \A i \in 1 .. Len(<<>>) : <<>>[i] \in S
    BY EmptySeq
  <2> QED BY <2>1, EarlyKnown
<1>3. PICK u : DrainsTo(u, x, r)
  BY <1>1, DrainPeelsIsPass
<1>4. DrainPeels(x, r) = u[n]
  BY <1>3 DEF DrainsTo
<1>5. u[0] = first /\ \A i \in 1 .. n : u[i] = Redeliver(u[i - 1], r, x.early[i])
  BY <1>3 DEF DrainsTo
<1> HIDE DEF n, first
<1> DEFINE T == {i \in Nat : i <= n => Known(u[i], r, k, absent, S)}
<1>6. 0 \in T
  <2>1. Known(u[0], r, k, absent, S)
    BY <1>2, <1>5
  <2> QED BY <2>1
<1>7. ASSUME NEW i \in T PROVE i + 1 \in T
  <2> SUFFICES ASSUME i + 1 <= n PROVE Known(u[i + 1], r, k, absent, S)
    OBVIOUS
  <2>1. Known(u[i], r, k, absent, S) /\ i + 1 \in 1 .. n /\ (i + 1) - 1 = i
    BY <1>1
  <2>2. u[i + 1] = Redeliver(u[i], r, x.early[i + 1])
    BY <1>5, <2>1
  <2>3. Known(Redeliver(u[i], r, x.early[i + 1]), r, k, absent, S)
    BY <1>1, <2>1, RedeliverKnown
  <2> QED BY <2>2, <2>3
<1>8. T = Nat
  <2> HIDE DEF T
  <2>1. T \in SUBSET Nat
    BY DEF T
  <2> QED BY <1>6, <1>7, <2>1, SetInduction
<1> QED BY <1>1, <1>4, <1>8

LEMMA DelegateKnown ==
  ASSUME NEW x, NEW r \in Seats, NEW k, NEW absent, NEW S, Known(x, r, k, absent, S)
  PROVE  Known(Delegate(x, r, absent), r, k, absent, S)
  BY SettleKnown DEF Delegate

LEMMA FollowUpKnown ==
  ASSUME NEW x, NEW r \in Seats, NEW k, NEW absent, NEW S, Known(x, r, k, absent, S)
  PROVE  Known(FollowUp(x, r, absent), r, k, absent, S)
<1> DEFINE y == DrainPeels(x, r)
           next(z) == IF z.err THEN z ELSE Delegate(z, r, absent)
<1>1. Known(y, r, k, absent, S)
  BY DrainPeelsKnown
<1> HIDE DEF y
<1>2. Known(next(y), r, k, absent, S)
  BY <1>1, DelegateKnown
<1>3. Once({next(z) : z \in {y}}) = next(y)
  <2> HIDE DEF next
  <2>1. {next(z) : z \in {y}} = {next(y)}
    OBVIOUS
  <2> QED BY <2>1 DEF Once
<1>4. FollowUp(x, r, absent) = IF x.err THEN x ELSE Once({next(z) : z \in {y}})
  BY DEF FollowUp, y
<1> HIDE DEF next
<1> QED BY <1>2, <1>3, <1>4

-----------------------------------------------------------------------------
(* The jobs of the plan *)

\* Which sequence is where in the plan.
LEMMA PlanIs ==
  ASSUME NEW k \in 1 .. Len(Plan)
  PROVE  \/ k = 1 /\ Plan[k] = HoleJobs
         \/ k - 1 \in 1 .. LastStreet /\ k - 1 \in 1 .. 3 /\ Plan[k] = StreetJobs(k - 1)
         \/ /\ k - (1 + LastStreet) \in 1 .. Cardinality(Left)
            /\ Plan[k] = RevealJobs(RemainingShowdownIDs[k - (1 + LastStreet)])
<1> USE SeatingAssumption, DealAssumption
<1> DEFINE S == Seq(JobType)
           streets == [s \in 1 .. LastStreet |-> StreetJobs(s)]
           reveals == [i \in 1 .. Cardinality(Left) |-> RevealJobs(RemainingShowdownIDs[i])]
           front == <<HoleJobs>> \o streets
<1>1. Cardinality(Left) \in Nat
  <2>1. 0 \in Int /\ N - 1 \in Int
    OBVIOUS
  <2>2. IsFiniteSet(Seats)
    BY <2>1, FS_Interval DEF Seats
  <2> QED BY <2>2, FS_Subset, FS_CardinalityType
<1>2. <<HoleJobs>> \in Seq(S) /\ Len(<<HoleJobs>>) = 1 /\ <<HoleJobs>>[1] = HoleJobs
  BY HoleJobsTyped
<1>3. streets \in Seq(S) /\ Len(streets) = LastStreet
      /\ \A s \in 1 .. LastStreet : streets[s] = StreetJobs(s) /\ s \in 1 .. 3
  <2>1. \A s \in 1 .. LastStreet : StreetJobs(s) \in S /\ s \in 1 .. 3
    BY StreetJobsTyped
  <2> HIDE DEF S
  <2> QED BY <2>1
<1>4. reveals \in Seq(S) /\ Len(reveals) = Cardinality(Left)
      /\ \A i \in 1 .. Cardinality(Left) : reveals[i] = RevealJobs(RemainingShowdownIDs[i])
  <2>1. \A i \in 1 .. Cardinality(Left) : RevealJobs(RemainingShowdownIDs[i]) \in S
    BY SeatOfRank, RevealJobsTyped
  <2> HIDE DEF S
  <2> QED BY <1>1, <2>1
<1>5. Plan = front \o reveals
  BY DEF Plan
<1> HIDE DEF S, streets, reveals
<1>6. front \in Seq(S) /\ Len(front) = 1 + LastStreet
      /\ \A i \in 1 .. 1 + LastStreet :
           front[i] = IF i <= 1 THEN <<HoleJobs>>[i] ELSE streets[i - 1]
  BY <1>2, <1>3, ConcatProperties
<1> HIDE DEF front
<1>7. /\ Len(Plan) = 1 + LastStreet + Cardinality(Left)
      /\ Plan[k] = IF k <= 1 + LastStreet THEN front[k] ELSE reveals[k - (1 + LastStreet)]
  <2>1. front \in Seq(S) /\ reveals \in Seq(S)
    BY <1>4, <1>6
  <2>2. /\ Len(front \o reveals) = Len(front) + Len(reveals)
        /\ \A i \in 1 .. Len(front) + Len(reveals) :
             (front \o reveals)[i] = IF i <= Len(front) THEN front[i] ELSE reveals[i - Len(front)]
    BY <2>1, ConcatProperties
  <2>3. Len(front) = 1 + LastStreet /\ Len(reveals) = Cardinality(Left)
    BY <1>4, <1>6
  <2>4. Len(Plan) = Len(front) + Len(reveals)
    BY <1>5, <2>2
  <2>5. k \in 1 .. Len(front) + Len(reveals)
    BY <2>4
  <2> QED BY <1>5, <2>2, <2>3, <2>4, <2>5
<1>8. CASE k = 1
  <2>1. 1 \in 1 .. 1 + LastStreet
    OBVIOUS
  <2> QED BY <1>2, <1>6, <1>7, <1>8, <2>1
<1>9. CASE k # 1 /\ k <= 1 + LastStreet
  <2>1. k - 1 \in 1 .. LastStreet /\ k \in 1 .. 1 + LastStreet /\ ~ (k <= 1)
    BY <1>9
  <2>2. Plan[k] = streets[k - 1]
    BY <1>6, <1>7, <1>9, <2>1
  <2> QED BY <1>3, <2>1, <2>2
<1>10. CASE ~ (k <= 1 + LastStreet)
  <2>1. k - (1 + LastStreet) \in 1 .. Cardinality(Left)
    BY <1>1, <1>7, <1>10
  <2> QED BY <1>4, <1>7, <1>10, <2>1
<1> QED BY <1>8, <1>9, <1>10

LEMMA SequenceKinds ==
  ASSUME NEW k \in 1 .. Len(Plan)
  PROVE  \/ Plan[k] = HoleJobs
         \/ \E s \in 1 .. 3 : Plan[k] = StreetJobs(s)
         \/ \E p : Plan[k] = RevealJobs(p)
  BY PlanIs

\* Only hole cards are dealt to a seat, and each of them once.
LEMMA PrivateJobs ==
  ASSUME NEW k \in 1 .. Len(Plan), NEW j \in 1 .. Len(Plan[k]), Plan[k][j].to # Everyone
  PROVE  Plan[k][j].to = Recipient(Plan[k][j].card)
<1> USE SeatingAssumption, DealAssumption
<1>1. CASE Plan[k] = HoleJobs
  <2>1. Rounds * N \in Nat
    OBVIOUS
  <2> DEFINE n == Rounds * N
  <2>2. HoleJobs = [i \in 1 .. n |-> [card |-> i - 1, to |-> (Dealer + i) % N]]
    BY DEF HoleJobs
  <2> HIDE DEF n
  <2>3. Len(HoleJobs) = n
    BY <2>1, <2>2 DEF n
  <2>4. j \in 1 .. n /\ HoleJobs[j].card = j - 1
    <3>1. j \in 1 .. Len(HoleJobs)
      BY <1>1
    <3>2. j \in 1 .. n
      BY <2>3, <3>1
    <3> QED BY <2>2, <3>2
  <2>5. j - 1 < n /\ (j - 1) + 1 = j
    BY <2>1, <2>4 DEF n
  <2> QED BY <1>1, <2>4, <2>5 DEF Recipient, n
<1>2. ASSUME NEW s \in 1 .. 3, Plan[k] = StreetJobs(s) PROVE Plan[k][j].to = Everyone
  <2> DEFINE public(i) == [card |-> 2 * N + i, to |-> Everyone]
  <2>1. StreetJobs(s) = CASE s = 1 -> <<public(1), public(2), public(3)>>
                          [] s = 2 -> <<public(5)>>
                          [] s = 3 -> <<public(7)>>
    BY DEF StreetJobs
  <2>2. \A i : public(i).to = Everyone
    OBVIOUS
  <2> HIDE DEF public
  <2>3. CASE s = 1
    <3>1. j \in 1 .. 3 /\ Plan[k] = <<public(1), public(2), public(3)>>
      BY <1>2, <2>1, <2>3
    <3>2. Plan[k][j] \in {public(1), public(2), public(3)}
      BY <3>1
    <3> QED BY <2>2, <3>2
  <2>4. CASE s = 2
    <3>1. j = 1 /\ Plan[k] = <<public(5)>>
      BY <1>2, <2>1, <2>4
    <3> QED BY <2>2, <3>1
  <2>5. CASE s = 3
    <3>1. j = 1 /\ Plan[k] = <<public(7)>>
      BY <1>2, <2>1, <2>5
    <3> QED BY <2>2, <3>1
  <2> QED BY <2>3, <2>4, <2>5
<1>3. ASSUME NEW p, Plan[k] = RevealJobs(p) PROVE Plan[k][j].to = Everyone
  <2>1. j \in 1 .. Rounds
    BY <1>3 DEF RevealJobs
  <2> QED BY <1>3, <2>1 DEF RevealJobs
<1> QED BY <1>1, <1>2, <1>3, SequenceKinds

\* Every card has a recipient.
LEMMA RecipientTyped ==
  ASSUME NEW c \in Cards
  PROVE  Recipient(c) \in 0 .. N
<1> USE SeatingAssumption, DealAssumption
<1>1. CASE c < Rounds * N
  <2> DEFINE n == Rounds * N
  <2>1. n \in Nat
    OBVIOUS
  <2>2. HoleJobs = [i \in 1 .. n |-> [card |-> i - 1, to |-> (Dealer + i) % N]]
    BY DEF HoleJobs
  <2>3. c \in Nat /\ c + 1 \in 1 .. n
    BY <1>1 DEF Cards
  <2> HIDE DEF n
  <2>4. HoleJobs[c + 1].to = (Dealer + (c + 1)) % N
    BY <2>2, <2>3
  <2>5. Dealer + (c + 1) \in Int
    BY <2>3 DEF Seats
  <2>6. \A i \in Int : i % N \in 0 .. N
    OBVIOUS
  <2>7. (Dealer + (c + 1)) % N \in 0 .. N
    BY <2>5, <2>6
  <2>8. Recipient(c) = HoleJobs[c + 1].to
    BY <1>1 DEF Recipient
  <2> QED BY <2>4, <2>7, <2>8
<1>2. CASE ~ (c < Rounds * N)
  BY <1>2 DEF Recipient, Everyone
<1> QED BY <1>1, <1>2

\* A sequence in which a card is opened to all is not before its time.
LEMMA PublicJobs ==
  ASSUME NEW k \in 1 .. Len(Plan), NEW j \in 1 .. Len(Plan[k]), Plan[k][j].to = Everyone
  PROVE  PublicAt(Plan[k][j].card) <= k /\ PublicAt(Plan[k][j].card) \in Nat
<1> DEFINE c == Plan[k][j].card
           D == {i \in 1 .. Len(Plan) :
                   \E n \in 1 .. Len(Plan[i]) : Plan[i][n] = [card |-> c, to |-> Everyone]}
                  \cup {Len(Plan) + 1}
<1>1. Plan[k][j] \in JobType
  BY PlanTyped, ElementOfSeq
<1>2. Plan[k][j] = [card |-> c, to |-> Everyone]
  BY <1>1 DEF JobType
<1>3. k \in D
  BY <1>2
<1>4. D \in SUBSET Nat
  BY PlanTyped
<1>5. PublicAt(c) = Least(D)
  BY DEF PublicAt
<1> HIDE DEF D
<1>6. Least(D) \in D /\ Least(D) <= k
  BY <1>3, <1>4, LeastExists
<1>7. Least(D) \in Nat
  BY <1>4, <1>6
<1>8. PublicAt(c) <= k /\ PublicAt(c) \in Nat
  BY <1>5, <1>6, <1>7
<1> QED BY <1>8

-----------------------------------------------------------------------------
(* The hand *)

\* A peel took its turn, in a sequence its maker had come to, with the maker's
\* own key or one that was reconstructed for it.
MadeOK(m) ==
  /\ PeelOK(m, made)
  /\ m.at <= at[m.by]
  /\ m.seat = m.by \/ m.seat \in gone[m.by]

\* The inductive invariant.
SecretInv ==
  /\ IInv
  /\ \A r \in Seats : /\ SessionKnown(deal[r], at[r], made)
                      /\ \A i \in 1 .. Len(early[r]) : early[r][i] \in made
  /\ \A pkt \in flight : pkt.msg \in made
  /\ \A m \in made : MadeOK(m)

\* What a call writes back.
LEMMA InstallKnown ==
  ASSUME SecretInv, IInv', NEW r \in Seats, NEW x, NEW absent, NEW rest \in SUBSET flight,
         Known(x, r, at'[r], absent, made), Install(r, x, rest), absent \subseteq gone'[r],
         \A q \in Seats : at[q] <= at'[q] /\ gone[q] \subseteq gone'[q] /\ (q # r => at'[q] = at[q])
  PROVE  SecretInv'
<1> DEFINE k == at'[r]
<1>1. /\ deal \in [Seats -> Session] /\ early \in [Seats -> Seq(Peel)] /\ made \subseteq Peel
      /\ at \in [Seats -> 0 .. Len(Plan)] /\ at' \in [Seats -> 0 .. Len(Plan)]
  BY DEF SecretInv, IInv, TypeOK
<1>2. /\ deal' = [deal EXCEPT ![r] = x.d] /\ early' = [early EXCEPT ![r] = x.early]
      /\ made' = made \cup x.own /\ flight' \subseteq rest \cup SendPeel(r, x.own)
  BY DEF Install
<1>3. made \subseteq made'
  BY <1>2
<1>4. ASSUME NEW q \in Seats
      PROVE  /\ SessionKnown(deal'[q], at'[q], made')
             /\ \A i \in 1 .. Len(early'[q]) : early'[q][i] \in made'
  <2>1. CASE q = r
    <3>1. deal'[q] = x.d /\ early'[q] = x.early
      BY <1>1, <1>2, <2>1
    <3>2. /\ SessionKnown(x.d, at'[r], made \cup x.own)
          /\ \A i \in 1 .. Len(x.early) : x.early[i] \in made
      BY DEF Known
    <3> QED BY <1>2, <1>3, <2>1, <3>1, <3>2
  <2>2. CASE q # r
    <3>1. deal'[q] = deal[q] /\ early'[q] = early[q] /\ at'[q] = at[q]
      BY <1>1, <1>2, <2>2
    <3>2. /\ SessionKnown(deal[q], at[q], made)
          /\ \A i \in 1 .. Len(early[q]) : early[q][i] \in made
      BY DEF SecretInv
    <3>3. SessionKnown(deal[q], at[q], made')
      BY <1>3, <3>2, KnownGrows
    <3> QED BY <1>3, <3>1, <3>2, <3>3
  <2> QED BY <2>1, <2>2
<1>5. ASSUME NEW pkt \in flight' PROVE pkt.msg \in made'
  <2>1. CASE pkt \in rest
    BY <1>3, <2>1 DEF SecretInv
  <2>2. CASE pkt \in SendPeel(r, x.own)
    <3>1. pkt.msg \in x.own
      BY <2>2 DEF SendPeel
    <3> QED BY <1>2, <3>1
  <2> QED BY <1>2, <2>1, <2>2
<1>6. ASSUME NEW m \in made'
      PROVE  /\ PeelOK(m, made') /\ m.at <= at'[m.by]
             /\ m.seat = m.by \/ m.seat \in gone'[m.by]
  <2>1. CASE m \in made
    <3>1. PeelOK(m, made) /\ m.at <= at[m.by] /\ (m.seat = m.by \/ m.seat \in gone[m.by])
      BY <2>1 DEF SecretInv, MadeOK
    <3>2. PeelOK(m, made')
      BY <1>3, <3>1, CoveredGrows
    <3>3. m.by \in Seats /\ m.at \in Int
      BY <1>1, <2>1 DEF Peel
    <3>4. at[m.by] \in Int /\ at'[m.by] \in Int /\ at[m.by] <= at'[m.by]
      BY <1>1, <3>3
    <3>5. m.at <= at'[m.by]
      BY <3>1, <3>3, <3>4
    <3> QED BY <3>1, <3>2, <3>3, <3>5
  <2>2. CASE m \in x.own
    <3>1. m.by = r /\ m.at = at'[r] /\ m.seat \in {r} \cup absent /\ PeelOK(m, made \cup x.own)
      BY <2>2 DEF Known
    <3>2. at'[r] \in Int
      BY <1>1
    <3> QED BY <1>2, <3>1, <3>2
  <2> QED BY <1>2, <2>1, <2>2
<1>7. \A m \in made' : MadeOK(m)'
  BY <1>6 DEF MadeOK
<1> QED BY <1>4, <1>5, <1>7 DEF SecretInv

\* Before a call the seat holds what it held.
LEMMA NowKnown ==
  ASSUME SecretInv, NEW r \in Seats, NEW absent
  PROVE  Known(Result(deal[r], early[r], {}, FALSE), r, at[r], absent, made)
<1> DEFINE now == Result(deal[r], early[r], {}, FALSE)
<1>1. Fine(now)
  BY NowFine DEF SecretInv
<1>2. now.d = deal[r] /\ now.early = early[r] /\ now.own = {}
  BY DEF Result
<1>3. /\ SessionKnown(deal[r], at[r], made)
      /\ \A i \in 1 .. Len(early[r]) : early[r][i] \in made
  BY DEF SecretInv
<1>4. made \cup {} = made
  OBVIOUS
<1> HIDE DEF now
<1>5. Known(now, r, at[r], absent, made)
  BY <1>1, <1>2, <1>3, <1>4 DEF Known
<1> QED BY <1>5 DEF now

LEMMA StartSequenceSecret ==
  ASSUME SecretInv, IInv', NEW r \in Seats, NEW k \in 1 .. Len(Plan), StartSequence(r, k)
  PROVE  SecretInv'
<1> DEFINE d == InstallJob(deal[r], k, 1)
           begun == Result(d, early[r], {}, FALSE)
           x == FollowUp(Settle(begun, r, {}), r, gone[r])
<1>1. deal[r] \in Session /\ at \in [Seats -> 0 .. Len(Plan)]
  BY DEF SecretInv, IInv, TypeOK
<1>2. Whole(d)
  <2>1. \A c \in deal[r].read : c.layers = Seats
    BY DEF SecretInv, IInv, Whole
  <2>2. 1 \in 1 .. Len(Plan[k])
    BY PlanTyped
  <2> QED BY <1>1, <2>1, <2>2, InstallWhole
<1>3. d.at = k /\ d.pending = {} /\ d.current = {}
  BY <1>1 DEF InstallJob, Session
<1> HIDE DEF d
<1>4. SessionKnown(d, k, made)
  BY <1>3 DEF SessionKnown, Covered
<1>5. Known(begun, r, k, gone[r], made)
  <2>1. Fine(begun)
    BY <1>2 DEF Fine, CallType, Result, Whole, SecretInv, IInv, TypeOK
  <2>2. begun.d = d /\ begun.early = early[r] /\ begun.own = {}
    BY DEF Result
  <2>3. \A i \in 1 .. Len(early[r]) : early[r][i] \in made
    BY DEF SecretInv
  <2>4. made \cup {} = made
    OBVIOUS
  <2> HIDE DEF begun
  <2> QED BY <1>4, <2>1, <2>2, <2>3, <2>4 DEF Known
<1>6. /\ Install(r, x, flight) /\ at[r] = k - 1
      /\ at' = [at EXCEPT ![r] = k] /\ UNCHANGED gone
  BY DEF StartSequence, begun, d
<1> HIDE DEF begun
<1>7. Known(Settle(begun, r, {}), r, k, gone[r], made)
  BY <1>5, SettleKnown
<1>8. Known(x, r, k, gone[r], made)
  BY <1>7, FollowUpKnown
<1> HIDE DEF x
<1>9. at'[r] = k /\ \A q \in Seats : at[q] <= at'[q] /\ (q # r => at'[q] = at[q])
  BY <1>1, <1>6
<1> QED BY <1>6, <1>8, <1>9, InstallKnown

LEMMA HandlePeelSecret ==
  ASSUME SecretInv, IInv', NEW r \in Seats, NEW pkt \in flight, HandlePeel(r, pkt)
  PROVE  SecretInv'
<1> DEFINE now == Result(deal[r], early[r], {}, FALSE)
           m == pkt.msg
           parked == Park(early[r], m)
           premature == Premature(deal[r], m)
           x == IF premature THEN [now EXCEPT !.early = Park(@, m)]
                ELSE FollowUp(SessionPeel(now, r, m), r, gone[r])
<1>1. /\ m \in Peel /\ m \in made /\ early[r] \in Seq(Peel)
      /\ now.d = deal[r] /\ now.early = early[r]
  BY DEF SecretInv, IInv, TypeOK, Packet, Result
<1>2. Known(now, r, at[r], gone[r], made)
  BY NowKnown
<1>3. Install(r, x, flight \ {pkt}) /\ UNCHANGED <<gone, at>>
  BY DEF HandlePeel
<1> HIDE DEF now, m
<1>4. Known(x, r, at[r], gone[r], made)
  <2>1. CASE premature
    <3>1. \A i \in 1 .. Len(early[r]) : early[r][i] \in made
      BY DEF SecretInv
    <3>2. /\ parked \in Seq(Peel) /\ x = [now EXCEPT !.early = parked]
          /\ \A i \in 1 .. Len(parked) : parked[i] \in made
      BY <1>1, <1>2, <2>1, <3>1, ParkKnown DEF Known, Fine, CallType
    <3> HIDE DEF parked, x
    <3>3. Known([now EXCEPT !.early = parked], r, at[r], gone[r], made)
      BY <1>2, <3>2, EarlyKnown
    <3> QED BY <3>2, <3>3
  <2>2. CASE ~ premature
    <3>1. x = FollowUp(SessionPeel(now, r, m), r, gone[r]) /\ now.d.busy
      BY <1>1, <2>2 DEF Premature
    <3> HIDE DEF x
    <3>2. Known(SessionPeel(now, r, m), r, at[r], gone[r], made)
      BY <1>1, <1>2, <3>1, SessionPeelKnown
    <3> QED BY <3>1, <3>2, FollowUpKnown
  <2> QED BY <2>1, <2>2
<1> HIDE DEF x, premature
<1>5. flight \ {pkt} \in SUBSET flight
  OBVIOUS
<1>6. \A q \in Seats : at[q] <= at'[q] /\ (q # r => at'[q] = at[q]) /\ gone[q] \subseteq gone'[q]
  BY <1>3 DEF SecretInv, IInv, TypeOK
<1>7. at'[r] = at[r] /\ gone[r] \subseteq gone'[r]
  BY <1>3
<1>8. Known(x, r, at'[r], gone[r], made)
  BY <1>4, <1>7
<1> QED BY <1>3, <1>5, <1>6, <1>7, <1>8, InstallKnown

\* A survivor peels for the seats whose keys it holds by then.
LEMMA RecoverSecret ==
  ASSUME SecretInv, IInv', NEW r \in Seats, NEW g \in Suspects, Recover(r, g)
  PROVE  SecretInv'
<1> DEFINE x == Delegate(Result(deal[r], early[r], {}, FALSE), r, gone'[r])
<1>1. /\ Install(r, x, flight) /\ UNCHANGED at
      /\ gone' = [gone EXCEPT ![r] = @ \cup {g}]
  BY DEF Recover, MarkGone
<1>2. Known(x, r, at[r], gone'[r], made)
  BY NowKnown, DelegateKnown
<1> HIDE DEF x
<1>3. \A q \in Seats : at[q] <= at'[q] /\ (q # r => at'[q] = at[q])
  BY <1>1 DEF SecretInv, IInv, TypeOK
<1>4. \A q \in Seats : gone[q] \subseteq gone'[q]
  BY <1>1 DEF SecretInv, IInv, TypeOK
<1>5. Known(x, r, at'[r], gone'[r], made) /\ gone'[r] \subseteq gone'[r]
  BY <1>1, <1>2
<1> QED BY <1>1, <1>3, <1>4, <1>5, InstallKnown

\* What the other steps leave alone.
LEMMA RestSecret ==
  ASSUME SecretInv, IInv', UNCHANGED <<deal, early, gone, at, made, flight>>
  PROVE  SecretInv'
  BY DEF SecretInv, MadeOK

LEMMA StepSecret == SecretInv /\ [Next]_vars => SecretInv'
<1> SUFFICES ASSUME SecretInv, [Next]_vars PROVE SecretInv'
  OBVIOUS
<1>1. IInv'
  BY StepKeeps DEF SecretInv
<1>2. ASSUME NEW r \in Seats, StartHoles(r) \/ StartStreet(r) \/ StartReveal(r) PROVE SecretInv'
  <2>1. \E k \in 1 .. Len(Plan) : StartSequence(r, k)
    BY <1>2, StartInPlan
  <2> QED BY <1>1, <2>1, StartSequenceSecret
<1>3. ASSUME NEW r \in Seats, Receive(r) PROVE SecretInv'
  BY <1>1, <1>3, HandlePeelSecret DEF Receive
<1>4. ASSUME NEW r \in Seats,
             \/ WaitHoles(r) \/ WaitStreet(r) \/ WaitReveal(r) \/ Wake(r)
             \/ Kick(r) \/ DealTimeout(r)
      PROVE  SecretInv'
  <2>1. UNCHANGED <<deal, early, gone, at, made, flight>>
    BY <1>4 DEF WaitHoles, WaitStreet, WaitReveal, WaitSequence, Wake, Kick, DealTimeout
  <2> QED BY <1>1, <2>1, RestSecret
<1>5. ASSUME NEW r \in Seats, NEW g \in Suspects, Recover(r, g) PROVE SecretInv'
  BY <1>1, <1>5, RecoverSecret
<1>6. CASE UNCHANGED vars
  BY <1>1, <1>6, RestSecret DEF vars
<1> QED BY <1>2, <1>3, <1>4, <1>5, <1>6 DEF Next

LEMMA InitSecret == Init => SecretInv
<1> SUFFICES ASSUME Init PROVE SecretInv
  OBVIOUS
<1>1. NewSession.at = 0 /\ ~ NewSession.busy /\ NewSession.pending = {}
  BY DEF NewSession
<1>2. \A r \in Seats : SessionKnown(deal[r], at[r], made)
  BY <1>1 DEF Init, SessionKnown
<1>3. \A r \in Seats : \A i \in 1 .. Len(early[r]) : early[r][i] \in made
  BY DEF Init
<1> QED BY <1>2, <1>3, InitKeeps DEF Init, SecretInv

LEMMA SecretInvariance == Spec => []SecretInv
  BY InitSecret, StepSecret, PTL DEF Spec

-----------------------------------------------------------------------------
\* A seat that has peeled a card for everyone to see had come to its sequence.
LEMMA OwnerConsents ==
  ASSUME SecretInv, NEW o \in made, o.by = o.seat, o.seat \in Owners(o.card)
  PROVE  at[o.seat] >= PublicAt(o.card)
<1>1. o \in Peel /\ at \in [Seats -> 0 .. Len(Plan)]
  BY DEF SecretInv, IInv, TypeOK
<1>2. PeelOK(o, made) /\ o.at <= at[o.seat]
  BY DEF SecretInv, MadeOK
<1>3. o.at \in 1 .. Len(Plan) /\ o.seat \in Seats /\ at[o.seat] \in Int
  BY <1>1 DEF Peel
<1>4. PICK j \in 1 .. Len(Plan[o.at]) : Plan[o.at][j].card = o.card /\ Plan[o.at][j].to # o.seat
  BY <1>2 DEF PeelOK
<1>5. Plan[o.at][j].to = Everyone
  <2> SUFFICES ASSUME Plan[o.at][j].to # Everyone PROVE FALSE
    OBVIOUS
  <2>1. Plan[o.at][j].to = Recipient(o.card)
    BY <1>3, <1>4, PrivateJobs
  <2>2. Owners(o.card) = {Recipient(o.card)}
    BY <2>1 DEF Owners
  <2> QED BY <1>4, <2>1, <2>2
<1>6. PublicAt(o.card) <= o.at /\ PublicAt(o.card) \in Nat
  BY <1>3, <1>4, <1>5, PublicJobs
<1> QED BY <1>2, <1>3, <1>6

\* For any number of seats, plan of the hand, copies, timeouts and schedule:
\* a card is never readable without its owners' consent, that is before its
\* recipient, or for a card of the board every seat that is not timed out, has
\* come to the sequence that makes it public.
THEOREM SecretTheorem == Spec => []SecretUntilPublic
<1>1. SecretInv => SecretUntilPublic
  <2> SUFFICES ASSUME SecretInv,
                      NEW c \in {m.card : m \in made}, NEW q \in Seats, CanRead(q, c),
                      Recipient(c) \notin {q} \cup gone[q],
                      NEW s \in Owners(c) \ ({q} \cup TimedOut)
               PROVE  at[s] >= PublicAt(c)
    BY DEF SecretUntilPublic
  <2>1. PICK m \in made : m.card = c /\ Seats \ (m.from \cup {m.seat}) \subseteq {q} \cup gone[q]
    BY DEF CanRead
  <2>2. s \in Seats
    <3>1. c \in Cards
      BY <2>1 DEF SecretInv, IInv, TypeOK, Peel
    <3>2. Recipient(c) \in 0 .. N
      BY <3>1, RecipientTyped
    <3> QED BY <3>2, SeatingAssumption DEF Owners, Seats, Everyone
  <2>3. \A p \in Seats : s \notin gone[p]
    BY DEF TimedOut
  <2>4. \E o \in made : o.card = c /\ o.seat = s
    <3>1. s \in m.from \cup {m.seat}
      BY <2>1, <2>2, <2>3
    <3>2. Covered(m.card, m.from, made)
      BY DEF SecretInv, MadeOK, PeelOK
    <3> QED BY <2>1, <3>1, <3>2 DEF Covered
  <2>5. PICK o \in made : o.card = c /\ o.seat = s
    BY <2>4
  <2>6. o.by = s
    <3>1. o.by \in Seats
      BY DEF SecretInv, IInv, TypeOK, Peel
    <3> QED BY <2>3, <2>5, <3>1 DEF SecretInv, MadeOK
  <2> QED BY <2>5, <2>6, OwnerConsents
<1> QED BY <1>1, SecretInvariance, PTL

-----------------------------------------------------------------------------
(* One deal: the cards of the plan *)

LEMMA StreetCards ==
  ASSUME NEW s \in 1 .. 3, NEW j \in 1 .. Len(StreetJobs(s))
  PROVE  \/ s = 1 /\ j \in 1 .. 3 /\ StreetJobs(s)[j].card = 2 * N + j
         \/ s = 2 /\ j = 1 /\ StreetJobs(s)[j].card = 2 * N + 5
         \/ s = 3 /\ j = 1 /\ StreetJobs(s)[j].card = 2 * N + 7
<1> DEFINE public(i) == [card |-> 2 * N + i, to |-> Everyone]
<1>1. StreetJobs(s) = CASE s = 1 -> <<public(1), public(2), public(3)>>
                        [] s = 2 -> <<public(5)>>
                        [] s = 3 -> <<public(7)>>
  BY DEF StreetJobs
<1>2. \A i : public(i).card = 2 * N + i
  OBVIOUS
<1> HIDE DEF public
<1>3. CASE s = 1
  <2>1. StreetJobs(s) = <<public(1), public(2), public(3)>>
    BY <1>1, <1>3
  <2>2. j \in 1 .. 3
    BY <2>1
  <2>3. StreetJobs(s)[j] = public(j)
    BY <2>1, <2>2
  <2> QED BY <1>2, <1>3, <2>2, <2>3
<1>4. CASE s = 2
  <2>1. StreetJobs(s) = <<public(5)>>
    BY <1>1, <1>4
  <2>2. j = 1 /\ StreetJobs(s)[1] = public(5)
    BY <2>1
  <2> QED BY <1>2, <1>4, <2>2
<1>5. CASE s = 3
  <2>1. StreetJobs(s) = <<public(7)>>
    BY <1>1, <1>5
  <2>2. j = 1 /\ StreetJobs(s)[1] = public(7)
    BY <2>1
  <2> QED BY <1>2, <1>5, <2>2
<1> QED BY <1>3, <1>4, <1>5

\* How many seats after the first one to be dealt.
DealtAfter(p) == (p - Dealer - 1 + N) % N

LEMMA DealtAfterTyped ==
  ASSUME NEW p \in Seats, NEW q \in Seats
  PROVE  DealtAfter(p) \in 0 .. N - 1 /\ (DealtAfter(p) = DealtAfter(q) => p = q)
<1> USE SeatingAssumption, DealAssumption
<1>1. ASSUME NEW x \in 0 .. 2 * N - 2
      PROVE  x % N = IF x < N THEN x ELSE x - N
  <2>1. CASE x < N
    BY <2>1
  <2>2. CASE x >= N
    <3> DEFINE y == x - N
    <3>1. y \in 0 .. N - 1 /\ x = y + N
      BY <2>2
    <3>2. y % N = y /\ (y + N) % N = y
      BY <3>1
    <3> QED BY <2>2, <3>1, <3>2
  <2> QED BY <2>1, <2>2
<1> DEFINE a == p - Dealer - 1 + N
           b == q - Dealer - 1 + N
<1>2. a \in 0 .. 2 * N - 2 /\ b \in 0 .. 2 * N - 2 /\ a - b = p - q
  BY DEF Seats
<1>3. p \in Int /\ q \in Int /\ p - q < N /\ q - p < N
  BY DEF Seats
<1>4. DealtAfter(p) = a % N /\ DealtAfter(q) = b % N
  BY DEF DealtAfter
<1> HIDE DEF a, b
<1>5. DealtAfter(p) = (IF a < N THEN a ELSE a - N) /\ DealtAfter(q) = (IF b < N THEN b ELSE b - N)
  BY <1>1, <1>2, <1>4
<1> QED BY <1>2, <1>3, <1>5

LEMMA RevealCards ==
  ASSUME NEW p \in Seats, NEW j \in 1 .. Len(RevealJobs(p))
  PROVE  \/ j = 1 /\ RevealJobs(p)[j].card = DealtAfter(p)
         \/ j = 2 /\ RevealJobs(p)[j].card = N + DealtAfter(p)
<1> USE SeatingAssumption, DealAssumption
<1>1. j \in 1 .. Rounds /\ RevealJobs(p)[j].card = HoleCardIndex(p, j - 1)
  <2>1. j \in 1 .. Rounds
    BY DEF RevealJobs
  <2> QED BY <2>1 DEF RevealJobs
<1>2. DealtAfter(p) \in Int
  BY DealtAfterTyped
<1>3. HoleCardIndex(p, j - 1) = (j - 1) * N + DealtAfter(p)
  BY DEF HoleCardIndex, DealtAfter
<1>4. j = 1 \/ j = 2
  BY <1>1
<1> QED BY <1>1, <1>2, <1>3, <1>4

LEMMA HoleCards ==
  ASSUME NEW j \in 1 .. Len(HoleJobs)
  PROVE  HoleJobs[j].card = j - 1
<1> USE SeatingAssumption, DealAssumption
<1> DEFINE n == Rounds * N
<1>1. n \in Nat
  OBVIOUS
<1>2. HoleJobs = [i \in 1 .. n |-> [card |-> i - 1, to |-> (Dealer + i) % N]]
  BY DEF HoleJobs
<1> HIDE DEF n
<1>3. Len(HoleJobs) = n
  BY <1>1, <1>2
<1>4. j \in 1 .. n
  BY <1>3
<1> QED BY <1>2, <1>4

\* A sequence goes through its cards in their order.
LEMMA CardsInOrder ==
  ASSUME NEW k \in 1 .. Len(Plan), NEW i \in 1 .. Len(Plan[k]), NEW j \in 1 .. Len(Plan[k]), i < j
  PROVE  Plan[k][i].card < Plan[k][j].card
<1> USE SeatingAssumption
<1>1. CASE Plan[k] = HoleJobs
  <2>1. HoleJobs[i].card = i - 1 /\ HoleJobs[j].card = j - 1
    BY <1>1, HoleCards
  <2> QED BY <1>1, <2>1
<1>2. ASSUME NEW s \in 1 .. 3, Plan[k] = StreetJobs(s)
      PROVE  Plan[k][i].card < Plan[k][j].card
  <2>1. \/ s = 1 /\ i \in 1 .. 3 /\ StreetJobs(s)[i].card = 2 * N + i
        \/ s \in {2, 3} /\ i = 1
    BY <1>2, StreetCards
  <2>2. \/ s = 1 /\ j \in 1 .. 3 /\ StreetJobs(s)[j].card = 2 * N + j
        \/ s \in {2, 3} /\ j = 1
    BY <1>2, StreetCards
  <2> QED BY <1>2, <2>1, <2>2
<1>3. ASSUME NEW p \in Seats, Plan[k] = RevealJobs(p)
      PROVE  Plan[k][i].card < Plan[k][j].card
  <2>1. (i = 1 /\ RevealJobs(p)[i].card = DealtAfter(p)) \/ i = 2
    BY <1>3, RevealCards
  <2>2. j = 1 \/ (j = 2 /\ RevealJobs(p)[j].card = N + DealtAfter(p))
    BY <1>3, RevealCards
  <2>3. DealtAfter(p) \in Int
    BY DealtAfterTyped
  <2> QED BY <1>3, <2>1, <2>2, <2>3
<1> QED BY <1>1, <1>2, <1>3, PlanIs, SeatOfRank

LEMMA CardsApart ==
  ASSUME NEW c \in Int, c >= 2 * N + 1
  PROVE  ~ (c <= 2 * N - 1)
  BY SeatingAssumption

\* After the hole cards, a card comes in one sequence only: the streets' cards
\* are no hole cards, and every hole card has one owner to reveal it.
LEMMA OneReveal ==
  ASSUME NEW k \in 2 .. Len(Plan), NEW l \in 2 .. Len(Plan),
         NEW i \in 1 .. Len(Plan[k]), NEW j \in 1 .. Len(Plan[l]),
         Plan[k][i].card = Plan[l][j].card
  PROVE  k = l
<1> USE SeatingAssumption, DealAssumption
<1> DEFINE rank(m) == m - (1 + LastStreet)
           owner(m) == RemainingShowdownIDs[rank(m)]
           isStreet(m) == m - 1 \in 1 .. 3 /\ Plan[m] = StreetJobs(m - 1)
           isReveal(m) == rank(m) \in 1 .. Cardinality(Left) /\ Plan[m] = RevealJobs(owner(m))
<1>1. Len(Plan) \in Nat
  BY PlanTyped
<1>2. \A m \in 2 .. Len(Plan) : isStreet(m) \/ isReveal(m)
  <2> SUFFICES ASSUME NEW m \in 2 .. Len(Plan) PROVE isStreet(m) \/ isReveal(m)
    OBVIOUS
  <2>1. m \in 1 .. Len(Plan) /\ m # 1
    BY <1>1
  <2> QED BY <2>1, PlanIs
<1>3. \A m \in 2 .. Len(Plan) : isReveal(m) => /\ owner(m) \in Seats
                                               /\ Cardinality({q \in Left : q < owner(m)}) = rank(m) - 1
  BY SeatOfRank
<1>4. ASSUME NEW m \in 2 .. Len(Plan), isReveal(m), NEW n \in 1 .. Len(Plan[m])
      PROVE  /\ Plan[m][n].card \in 0 .. 2 * N - 1
             /\ Plan[m][n].card \in {DealtAfter(owner(m)), N + DealtAfter(owner(m))}
  <2>1. owner(m) \in Seats
    BY <1>3, <1>4
  <2>2. DealtAfter(owner(m)) \in 0 .. N - 1
    BY <2>1, DealtAfterTyped
  <2>3. Plan[m][n].card \in {DealtAfter(owner(m)), N + DealtAfter(owner(m))}
    <3> HIDE DEF owner
    <3>1. Plan[m] = RevealJobs(owner(m)) /\ n \in 1 .. Len(RevealJobs(owner(m)))
      BY <1>4
    <3> QED BY <2>1, <3>1, RevealCards
  <2> DEFINE c == Plan[m][n].card
             a == DealtAfter(owner(m))
  <2> HIDE DEF owner, c, a
  <2>4. a \in 0 .. N - 1 /\ c \in {a, N + a}
    BY <2>2, <2>3 DEF a, c
  <2>5. c \in 0 .. 2 * N - 1
    BY <2>4
  <2> QED BY <2>3, <2>5 DEF c
<1>5. ASSUME NEW m \in 2 .. Len(Plan), isStreet(m), NEW n \in 1 .. Len(Plan[m])
      PROVE  \/ m = 2 /\ Plan[m][n].card \in 2 * N + 1 .. 2 * N + 3
             \/ m = 3 /\ Plan[m][n].card = 2 * N + 5
             \/ m = 4 /\ Plan[m][n].card = 2 * N + 7
  <2> DEFINE s == m - 1
  <2>1. s \in 1 .. 3 /\ Plan[m] = StreetJobs(s) /\ m = s + 1
    BY <1>1, <1>5
  <2> HIDE DEF s
  <2>2. \/ s = 1 /\ n \in 1 .. 3 /\ Plan[m][n].card = 2 * N + n
        \/ s = 2 /\ n = 1 /\ Plan[m][n].card = 2 * N + 5
        \/ s = 3 /\ n = 1 /\ Plan[m][n].card = 2 * N + 7
    BY <2>1, StreetCards
  <2> DEFINE c == Plan[m][n].card
  <2> HIDE DEF c
  <2>3. \/ m = 2 /\ n \in 1 .. 3 /\ c = 2 * N + n
        \/ m = 3 /\ c = 2 * N + 5
        \/ m = 4 /\ c = 2 * N + 7
    BY <2>1, <2>2 DEF c
  <2>4. n \in 1 .. 3 /\ c = 2 * N + n => c \in 2 * N + 1 .. 2 * N + 3
    OBVIOUS
  <2> QED BY <2>3, <2>4 DEF c
<1>6. CASE isStreet(k) /\ isStreet(l)
  <2> HIDE DEF isStreet
  <2>1. \/ k = 2 /\ Plan[k][i].card \in 2 * N + 1 .. 2 * N + 3
        \/ k = 3 /\ Plan[k][i].card = 2 * N + 5
        \/ k = 4 /\ Plan[k][i].card = 2 * N + 7
    BY <1>5, <1>6
  <2>2. \/ l = 2 /\ Plan[l][j].card \in 2 * N + 1 .. 2 * N + 3
        \/ l = 3 /\ Plan[l][j].card = 2 * N + 5
        \/ l = 4 /\ Plan[l][j].card = 2 * N + 7
    BY <1>5, <1>6
  <2> QED BY <2>1, <2>2
<1>7. CASE isReveal(k) /\ isReveal(l)
  <2> DEFINE p == owner(k)
             q == owner(l)
  <2>1. p \in Seats /\ q \in Seats
    BY <1>3, <1>7
  <2>2. Plan[k][i].card \in {DealtAfter(p), N + DealtAfter(p)}
    BY <1>4, <1>7
  <2>3. Plan[l][j].card \in {DealtAfter(q), N + DealtAfter(q)}
    BY <1>4, <1>7
  <2>4. DealtAfter(p) = DealtAfter(q)
    <3>1. DealtAfter(p) \in 0 .. N - 1 /\ DealtAfter(q) \in 0 .. N - 1
      BY <2>1, DealtAfterTyped
    <3> HIDE DEF p, q
    <3> QED BY <2>2, <2>3, <3>1
  <2>5. owner(k) = owner(l)
    <3> HIDE DEF owner
    <3> QED BY <2>1, <2>4, DealtAfterTyped
  <2>6. rank(k) - 1 = rank(l) - 1
    BY <1>3, <1>7, <2>5
  <2> QED BY <1>1, <2>6
<1>8. CASE isStreet(k) /\ isReveal(l)
  <2> HIDE DEF isStreet, isReveal
  <2>1. Plan[k][i].card >= 2 * N + 1 /\ Plan[l][j].card <= 2 * N - 1 /\ Plan[k][i].card \in Int
    <3>1. Plan[l][j].card \in 0 .. 2 * N - 1
      BY <1>4, <1>8
    <3>2. \/ Plan[k][i].card \in 2 * N + 1 .. 2 * N + 3
          \/ Plan[k][i].card = 2 * N + 5 \/ Plan[k][i].card = 2 * N + 7
      BY <1>5, <1>8
    <3> QED BY <3>1, <3>2
  <2> QED BY <2>1, CardsApart
<1>9. CASE isReveal(k) /\ isStreet(l)
  <2> HIDE DEF isStreet, isReveal
  <2>1. Plan[l][j].card >= 2 * N + 1 /\ Plan[k][i].card <= 2 * N - 1 /\ Plan[l][j].card \in Int
    <3>1. Plan[k][i].card \in 0 .. 2 * N - 1
      BY <1>4, <1>9
    <3>2. \/ Plan[l][j].card \in 2 * N + 1 .. 2 * N + 3
          \/ Plan[l][j].card = 2 * N + 5 \/ Plan[l][j].card = 2 * N + 7
      BY <1>5, <1>9
    <3> QED BY <3>1, <3>2
  <2> QED BY <2>1, CardsApart
<1> QED BY <1>2, <1>6, <1>7, <1>8, <1>9

\* The seats take their turns at a card in their order.
LEMMA PeelersInOrder ==
  ASSUME NEW job \in JobType, NEW i \in 1 .. Len(Peelers(job)), NEW j \in 1 .. Len(Peelers(job)), i < j
  PROVE  Peelers(job)[i] < Peelers(job)[j]
<1> USE SeatingAssumption
<1>1. CASE job.to = Everyone
  <2>1. Peelers(job) = [n \in 1 .. N |-> n - 1]
    BY <1>1 DEF Peelers
  <2>2. Len(Peelers(job)) = N
    BY <2>1
  <2>3. i \in 1 .. N /\ j \in 1 .. N
    BY <2>2
  <2>4. Peelers(job)[i] = i - 1 /\ Peelers(job)[j] = j - 1
    BY <2>1, <2>3
  <2> QED BY <2>3, <2>4
<1>2. CASE job.to # Everyone
  <2> DEFINE t == job.to
  <2>1. t \in Seats
    BY <1>2 DEF JobType, Everyone, Seats
  <2>2. Peelers(job) = [n \in 1 .. N - 1 |-> IF n <= t THEN n - 1 ELSE n]
    BY <1>2 DEF Peelers
  <2> HIDE DEF t
  <2>3. Len(Peelers(job)) = N - 1
    BY <2>2
  <2>4. i \in 1 .. N - 1 /\ j \in 1 .. N - 1
    BY <2>3
  <2>5. /\ Peelers(job)[i] = (IF i <= t THEN i - 1 ELSE i)
        /\ Peelers(job)[j] = (IF j <= t THEN j - 1 ELSE j)
    BY <2>2, <2>4
  <2> QED BY <2>1, <2>4, <2>5 DEF Seats
<1> QED BY <1>1, <1>2

-----------------------------------------------------------------------------
(* One deal: the turns behind a session *)

\* The turn a peel takes.
TurnOf(m) == [at |-> m.at, card |-> m.card, seat |-> m.seat]
TurnsOf(S) == {TurnOf(m) : m \in S}

\* The turns a session has seen: those of the sequences before, of the cards
\* before in its own, and of the seats whose layer is off the card at hand.
Past(d) ==
  {t \in Shared!Turns :
     \/ t.at < d.at
     \/ t.at = d.at /\ \/ ~ d.busy
                       \/ t.card < Job(d).card
                       \/ t.card = Job(d).card /\ t.seat \in d.current}

LEMMA TurnIs ==
  ASSUME NEW t
  PROVE  t \in Shared!Turns
           <=> \E k \in 1 .. Len(Plan) : \E j \in 1 .. Len(Plan[k]) :
                 \E i \in 1 .. Len(Peelers(Plan[k][j])) :
                   t = [at |-> k, card |-> Plan[k][j].card, seat |-> Peelers(Plan[k][j])[i]]
<1>1. \A k, job : t \in Shared!TurnsOf(k, job)
        <=> \E i \in 1 .. Len(Peelers(job)) : t = [at |-> k, card |-> job.card, seat |-> Peelers(job)[i]]
  BY DEF Shared!TurnsOf
<1>2. t \in Shared!Turns
        <=> \E k \in 1 .. Len(Plan) : \E j \in 1 .. Len(Plan[k]) : t \in Shared!TurnsOf(k, Plan[k][j])
  BY DEF Shared!Turns
<1> QED BY <1>1, <1>2, Zenon

LEMMA TurnTyped ==
  ASSUME NEW t \in Shared!Turns
  PROVE  /\ t.at \in 1 .. Len(Plan) /\ t.card \in Cards /\ t.seat \in Seats
         /\ t = [at |-> t.at, card |-> t.card, seat |-> t.seat]
         /\ \E j \in 1 .. Len(Plan[t.at]) :
              /\ t.card = Plan[t.at][j].card /\ Plan[t.at][j] \in JobType
              /\ \E i \in 1 .. Len(Peelers(Plan[t.at][j])) : t.seat = Peelers(Plan[t.at][j])[i]
<1>1. PICK k \in 1 .. Len(Plan) : \E j \in 1 .. Len(Plan[k]) :
             \E i \in 1 .. Len(Peelers(Plan[k][j])) :
               t = [at |-> k, card |-> Plan[k][j].card, seat |-> Peelers(Plan[k][j])[i]]
  BY TurnIs
<1>2. PICK j \in 1 .. Len(Plan[k]) : \E i \in 1 .. Len(Peelers(Plan[k][j])) :
             t = [at |-> k, card |-> Plan[k][j].card, seat |-> Peelers(Plan[k][j])[i]]
  BY <1>1
<1>3. PICK i \in 1 .. Len(Peelers(Plan[k][j])) :
             t = [at |-> k, card |-> Plan[k][j].card, seat |-> Peelers(Plan[k][j])[i]]
  BY <1>2
<1>4. Plan[k][j] \in JobType
  BY PlanTyped, ElementOfSeq
<1>5. Plan[k][j].card \in Cards /\ Peelers(Plan[k][j])[i] \in Seats
  BY <1>4, PeelersTyped DEF JobType
<1> QED BY <1>3, <1>4, <1>5

LEMMA PastIs ==
  ASSUME NEW d, NEW t
  PROVE  t \in Past(d)
           <=> /\ t \in Shared!Turns
               /\ \/ t.at < d.at
                  \/ t.at = d.at /\ \/ ~ d.busy
                                    \/ t.card < Job(d).card
                                    \/ t.card = Job(d).card /\ t.seat \in d.current
  BY DEF Past

\* Only where a session is, and the layers off its card, decide what it has seen.
LEMMA SamePast ==
  ASSUME NEW d, NEW e, e.at = d.at, e.busy = d.busy, e.current = d.current,
         d.busy => Job(e) = Job(d)
  PROVE  Past(e) = Past(d)
<1>1. \A t : t \in Past(e) <=> t \in Past(d)
  BY PastIs
<1> QED BY <1>1

\* While the card is unfinished a turn is due, the next one.
Due(d) == [at |-> d.at, card |-> Job(d).card, seat |-> ExpectedPeeler(d)]

LEMMA TurnDue ==
  ASSUME NEW d, Whole(d), d.busy, ~ JobComplete(d)
  PROVE  Due(d) \in Shared!Turns /\ Due(d) \notin Past(d)
<1> DEFINE job == Job(d)
           n == d.next + 1
           t == Due(d)
<1>1. /\ d.next \in Nat /\ d.next <= Len(Peelers(job)) /\ d.next # Len(Peelers(job))
      /\ d.at \in 1 .. Len(Plan) /\ job \in JobType /\ Len(Peelers(job)) \in Nat
      /\ d.job \in 1 .. Len(Plan[d.at]) /\ job = Plan[d.at][d.job]
      /\ d.current = Off(job, d.next)
  BY JobTyped, PeelersTyped DEF Whole, Session, JobComplete, Job
<1>2. n \in 1 .. Len(Peelers(job)) /\ ExpectedPeeler(d) = Peelers(job)[n]
  BY <1>1 DEF ExpectedPeeler
<1>3. t \in Shared!Turns
  <2>1. t = [at |-> d.at, card |-> Plan[d.at][d.job].card, seat |-> Peelers(Plan[d.at][d.job])[n]]
    BY <1>1, <1>2 DEF Due
  <2>2. n \in 1 .. Len(Peelers(Plan[d.at][d.job]))
    BY <1>1, <1>2
  <2> HIDE DEF n, job, t
  <2> QED BY <1>1, <2>1, <2>2, TurnIs
<1>4. ExpectedPeeler(d) \notin d.current
  <2> SUFFICES ASSUME NEW i \in 1 .. d.next PROVE Peelers(job)[i] # Peelers(job)[n]
    BY <1>1, <1>2 DEF Off
  <2>1. i \in 1 .. Len(Peelers(job)) /\ i < n
    BY <1>1
  <2> HIDE DEF job, n
  <2>2. Peelers(job)[i] < Peelers(job)[n]
    BY <1>1, <1>2, <2>1, PeelersInOrder
  <2>3. Peelers(job)[i] \in Int /\ Peelers(job)[n] \in Int
    BY <1>1, <1>2, <2>1, PeelersTyped DEF Seats
  <2> QED BY <2>2, <2>3
<1>5. job.card \in Int /\ d.at \in Int
  BY <1>1 DEF JobType, Cards
<1>6. t.at = d.at /\ t.card = job.card /\ t.seat = ExpectedPeeler(d)
  BY DEF Due
<1> HIDE DEF job, t
<1>7. ~ (t.at < d.at) /\ ~ (t.card < job.card)
  BY <1>5, <1>6
<1>8. t \notin Past(d)
  BY <1>4, <1>6, <1>7, PastIs DEF job
<1> QED BY <1>3, <1>8 DEF t

\* A session that takes the turn due has seen that one more.
LEMMA TurnTaken ==
  ASSUME NEW d, Whole(d), d.busy, ~ JobComplete(d),
         NEW e, e.at = d.at, e.busy = d.busy, Job(e) = Job(d),
         e.current = d.current \cup {ExpectedPeeler(d)}
  PROVE  Past(e) = Past(d) \cup {Due(d)}
<1> DEFINE t == Due(d)
<1>1. t \in Shared!Turns
  BY TurnDue
<1>2. t.at = d.at /\ t.card = Job(d).card /\ t.seat = ExpectedPeeler(d)
  BY DEF Due
<1>0. t = [at |-> d.at, card |-> Job(d).card, seat |-> ExpectedPeeler(d)]
  BY DEF Due
<1> HIDE DEF t
<1>3. ASSUME NEW u PROVE u \in Past(e) <=> u \in Past(d) \/ u = t
  <2>1. CASE u \in Shared!Turns
    <3>1. u = [at |-> u.at, card |-> u.card, seat |-> u.seat]
      BY <2>1, TurnTyped
    <3>2. u.at = d.at /\ u.card = Job(d).card /\ u.seat = ExpectedPeeler(d) => u = t
      BY <1>0, <3>1
    <3> QED BY <1>2, <2>1, <3>2, PastIs
  <2>2. CASE u \notin Shared!Turns
    BY <1>1, <2>2, PastIs
  <2> QED BY <2>1, <2>2
<1> QED BY <1>3 DEF t

\* A turn of a sequence belongs to a card of it.
LEMMA TurnsInOrder ==
  ASSUME NEW t \in Shared!Turns, NEW j \in 1 .. Len(Plan[t.at])
  PROVE  /\ j = 1 => t.card >= Plan[t.at][j].card
         /\ j = Len(Plan[t.at]) => t.card <= Plan[t.at][j].card
         /\ j < Len(Plan[t.at]) => (t.card < Plan[t.at][j + 1].card <=> t.card <= Plan[t.at][j].card)
         /\ t.card = Plan[t.at][j].card
              => \E i \in 1 .. Len(Peelers(Plan[t.at][j])) : t.seat = Peelers(Plan[t.at][j])[i]
<1> DEFINE k == t.at
           jobs == Plan[k]
           l == Len(jobs)
<1>1. k \in 1 .. Len(Plan)
  BY TurnTyped
<1>2. jobs \in Seq(JobType) /\ l \in Nat
  BY <1>1, PlanTyped
<1>3. PICK n \in 1 .. l : /\ t.card = jobs[n].card
                          /\ \E i \in 1 .. Len(Peelers(jobs[n])) : t.seat = Peelers(jobs[n])[i]
  BY TurnTyped
<1>4. \A a \in 1 .. l : jobs[a].card \in Int
  <2>1. \A a \in 1 .. l : jobs[a] \in JobType
    BY <1>2, ElementOfSeq
  <2> HIDE DEF jobs, l
  <2> QED BY <2>1 DEF JobType, Cards
<1>5. \A a, b \in 1 .. l : a < b => jobs[a].card < jobs[b].card
  BY <1>1, CardsInOrder
<1>6. j \in 1 .. l
  OBVIOUS
<1> HIDE DEF jobs, l, k
<1>7. j = 1 => t.card >= jobs[j].card
  <2>1. CASE n = j
    BY <1>3, <1>4, <2>1
  <2>2. CASE j = 1 /\ n # j
    <3>1. j < n
      BY <2>2
    <3> QED BY <1>3, <1>4, <1>5, <1>6, <3>1
  <2> QED BY <2>1, <2>2
<1>8. j = l => t.card <= jobs[j].card
  <2>1. CASE n = j
    BY <1>3, <1>4, <2>1
  <2>2. CASE j = l /\ n # j
    <3>1. n < j
      BY <1>2, <2>2
    <3> QED BY <1>3, <1>4, <1>5, <1>6, <3>1
  <2> QED BY <2>1, <2>2
<1>9. ASSUME j < l PROVE t.card < jobs[j + 1].card <=> t.card <= jobs[j].card
  <2>1. j + 1 \in 1 .. l /\ jobs[j].card < jobs[j + 1].card
    <3>1. j + 1 \in 1 .. l /\ j < j + 1
      BY <1>2, <1>6, <1>9
    <3> QED BY <1>5, <1>6, <3>1
  <2>2. CASE n <= j
    <3>1. n = j \/ n < j
      BY <1>6, <2>2
    <3>2. jobs[n].card <= jobs[j].card
      BY <1>4, <1>5, <1>6, <3>1
    <3> QED BY <1>3, <1>4, <1>6, <2>1, <3>2
  <2>3. CASE n > j
    <3>1. n = j + 1 \/ j + 1 < n
      BY <1>6, <2>3
    <3>2. jobs[n].card >= jobs[j + 1].card
      BY <1>4, <1>5, <2>1, <3>1
    <3> QED BY <1>3, <1>4, <1>6, <2>1, <3>2
  <2> QED BY <1>6, <2>2, <2>3
<1>10. ASSUME t.card = jobs[j].card
       PROVE  \E i \in 1 .. Len(Peelers(jobs[j])) : t.seat = Peelers(jobs[j])[i]
  <2>1. n = j
    <3>1. jobs[n].card = jobs[j].card /\ jobs[n].card \in Int
      BY <1>3, <1>4, <1>10
    <3>2. ~ (jobs[n].card < jobs[j].card) /\ ~ (jobs[j].card < jobs[n].card)
      BY <3>1
    <3>3. ~ (n < j) /\ ~ (j < n)
      BY <1>5, <1>6, <3>2
    <3> QED BY <1>6, <3>3
  <2> QED BY <1>3, <2>1
<1> QED BY <1>7, <1>8, <1>9, <1>10 DEF jobs, l, k

\* Starting the sequence that follows, or the card that follows, adds nothing.
LEMMA InstallPast ==
  ASSUME NEW d \in Session, ~ d.busy, NEW k \in 1 .. Len(Plan), d.at = k - 1
  PROVE  Past(InstallJob(d, k, 1)) = Past(d)
<1> DEFINE e == InstallJob(d, k, 1)
<1>1. e.at = k /\ e.busy /\ e.job = 1 /\ e.current = {}
  BY DEF InstallJob, Session
<1> HIDE DEF e
<1>2. Job(e) = Plan[k][1]
  BY <1>1 DEF Job
<1>3. ASSUME NEW t PROVE t \in Past(e) <=> t \in Past(d)
  <2>1. CASE t \in Shared!Turns
    <3>1. t.at \in Int /\ t.card \in Int
      BY <2>1, TurnTyped, PlanTyped DEF Cards
    <3>2. t.at = k => ~ (t.card < Plan[k][1].card)
      <4> SUFFICES ASSUME t.at = k PROVE ~ (t.card < Plan[k][1].card)
        OBVIOUS
      <4>1. 1 \in 1 .. Len(Plan[k]) /\ Plan[k] \in Seq(JobType)
        BY PlanTyped
      <4>2. Plan[k][1].card \in Int
        <5>1. Plan[k][1] \in JobType
          BY <4>1, ElementOfSeq
        <5> QED BY <5>1 DEF JobType, Cards
      <4>3. t.card >= Plan[k][1].card
        BY <2>1, <4>1, TurnsInOrder
      <4> QED BY <3>1, <4>2, <4>3
    <3>3. t.at < k <=> t.at < d.at \/ t.at = d.at
      BY <3>1
    <3>4. t \in Past(e) <=> t.at < k
      BY <1>1, <1>2, <2>1, <3>2, PastIs
    <3>5. t \in Past(d) <=> t.at < d.at \/ t.at = d.at
      BY <2>1, PastIs
    <3> QED BY <3>3, <3>4, <3>5
  <2>2. CASE t \notin Shared!Turns
    BY <2>2, PastIs
  <2> QED BY <2>1, <2>2
<1> QED BY <1>3 DEF e

LEMMA TurnSeat ==
  ASSUME NEW t \in Shared!Turns, NEW j \in 1 .. Len(Plan[t.at]), t.card = Plan[t.at][j].card
  PROVE  \E i \in 1 .. Len(Peelers(Plan[t.at][j])) : t.seat = Peelers(Plan[t.at][j])[i]
  BY TurnsInOrder

\* The layers that are off a card when a turn at it comes.
LayersBefore(t) ==
  {u.seat : u \in {u \in Shared!Turns : u.at = t.at /\ u.card = t.card /\ u.seat < t.seat}}

LEMMA LayersDue ==
  ASSUME NEW d, Whole(d), d.busy, ~ JobComplete(d)
  PROVE  d.current = LayersBefore(Due(d))
<1> DEFINE job == Job(d)
           n == d.next + 1
           t == Due(d)
           turn(q) == [at |-> d.at, card |-> job.card, seat |-> q]
<1>1. /\ d.next \in Nat /\ d.next <= Len(Peelers(job)) /\ d.next # Len(Peelers(job))
      /\ d.at \in 1 .. Len(Plan) /\ job \in JobType /\ Len(Peelers(job)) \in Nat
      /\ d.job \in 1 .. Len(Plan[d.at]) /\ job = Plan[d.at][d.job]
      /\ d.current = Off(job, d.next)
  BY JobTyped, PeelersTyped DEF Whole, Session, JobComplete, Job
<1>2. n \in 1 .. Len(Peelers(job)) /\ ExpectedPeeler(d) = Peelers(job)[n]
  BY <1>1 DEF ExpectedPeeler
<1>3. t.at = d.at /\ t.card = job.card /\ t.seat = Peelers(job)[n]
  BY <1>2 DEF Due
<1> HIDE DEF t
<1>4. ASSUME NEW i \in 1 .. Len(Peelers(job))
      PROVE  /\ turn(Peelers(job)[i]) \in Shared!Turns
             /\ Peelers(job)[i] < Peelers(job)[n] <=> i < n
  <2>1. turn(Peelers(job)[i])
          = [at |-> d.at, card |-> Plan[d.at][d.job].card, seat |-> Peelers(Plan[d.at][d.job])[i]]
        /\ i \in 1 .. Len(Peelers(Plan[d.at][d.job]))
    BY <1>1
  <2> HIDE DEF job, n
  <2>2. turn(Peelers(job)[i]) \in Shared!Turns
    BY <1>1, <2>1, TurnIs
  <2>3. i < n => Peelers(job)[i] < Peelers(job)[n]
    BY <1>1, <1>2, PeelersInOrder
  <2>4. n < i => Peelers(job)[n] < Peelers(job)[i]
    BY <1>1, <1>2, PeelersInOrder
  <2>5. Peelers(job)[i] \in Int /\ Peelers(job)[n] \in Int /\ i \in Int /\ n \in Int
    BY <1>1, <1>2, PeelersTyped DEF Seats
  <2> QED BY <2>2, <2>3, <2>4, <2>5
<1>5. ASSUME NEW q \in d.current PROVE q \in LayersBefore(t)
  <2>1. PICK i \in 1 .. d.next : q = Peelers(job)[i]
    BY <1>1 DEF Off
  <2>2. i \in 1 .. Len(Peelers(job)) /\ i < n
    BY <1>1
  <2>3. turn(q) \in Shared!Turns /\ q < t.seat
    BY <1>3, <1>4, <2>1, <2>2
  <2>4. turn(q).at = t.at /\ turn(q).card = t.card /\ turn(q).seat = q
    BY <1>3
  <2> HIDE DEF turn
  <2> QED BY <2>3, <2>4 DEF LayersBefore
<1>6. ASSUME NEW u \in Shared!Turns, u.at = t.at, u.card = t.card, u.seat < t.seat
      PROVE  u.seat \in d.current
  <2>1. u.at = d.at /\ u.card = Plan[d.at][d.job].card
    BY <1>1, <1>3, <1>6
  <2>2. PICK i \in 1 .. Len(Peelers(job)) : u.seat = Peelers(job)[i]
    BY <1>1, <2>1, TurnSeat
  <2>3. i < n
    BY <1>3, <1>4, <1>6, <2>2
  <2>4. i \in 1 .. d.next
    BY <1>1, <2>3
  <2> QED BY <1>1, <2>2, <2>4 DEF Off
<1> QED BY <1>5, <1>6 DEF LayersBefore, t

\* What a session has seen when the card at hand is finished.
LEMMA CompletePast ==
  ASSUME NEW d, Whole(d), d.busy, JobComplete(d), NEW t \in Shared!Turns
  PROVE  t \in Past(d) <=> t.at < d.at \/ (t.at = d.at /\ t.card <= Job(d).card)
<1>1. /\ d.at \in 1 .. Len(Plan) /\ Job(d) \in JobType
      /\ d.job \in 1 .. Len(Plan[d.at]) /\ Job(d) = Plan[d.at][d.job]
      /\ d.current = Off(Job(d), Len(Peelers(Job(d))))
  BY JobTyped DEF Whole, JobComplete, Job
<1>2. t.card \in Int /\ Job(d).card \in Int
  BY <1>1, TurnTyped DEF JobType, Cards
<1>3. t.at = d.at /\ t.card = Job(d).card => t.seat \in d.current
  <2> SUFFICES ASSUME t.at = d.at, t.card = Job(d).card PROVE t.seat \in d.current
    OBVIOUS
  <2>1. \E i \in 1 .. Len(Peelers(Job(d))) : t.seat = Peelers(Job(d))[i]
    BY <1>1, TurnSeat
  <2> QED BY <1>1, <2>1 DEF Off
<1>4. t.card <= Job(d).card <=> t.card < Job(d).card \/ t.card = Job(d).card
  BY <1>2
<1>5. t \in Past(d)
        <=> \/ t.at < d.at
            \/ t.at = d.at /\ \/ t.card < Job(d).card
                              \/ t.card = Job(d).card /\ t.seat \in d.current
  BY PastIs
<1> QED BY <1>3, <1>4, <1>5

LEMMA AdvancePast ==
  ASSUME NEW d, Whole(d), d.busy, JobComplete(d), NEW r
  PROVE  Past(Advance(d, r)) = Past(d) /\ Advance(d, r).pending = {}
<1> DEFINE e == Advance(d, r)
           off == IF Job(d).to = r THEN d.current \cup {r} ELSE d.current
           learnt == IF Job(d).to \in {r, Everyone}
                     THEN {[card |-> Job(d).card, layers |-> off]} ELSE {}
           read == d.read \cup learnt
           done == [d EXCEPT !.read = read]
<1>1. d \in Session /\ d.at \in 1 .. Len(Plan) /\ d.job \in 1 .. Len(Plan[d.at])
      /\ Job(d) = Plan[d.at][d.job]
  BY JobTyped DEF Whole, Job
<1>2. e = IF d.job < Len(Plan[d.at]) THEN InstallJob(done, d.at, d.job + 1)
          ELSE [done EXCEPT !.busy = FALSE, !.next = 0, !.current = {},
                            !.applied = {}, !.pending = {}]
  BY <1>1 DEF Advance, Session
<1> HIDE DEF read
<1>3. CASE d.job < Len(Plan[d.at])
  <2>1. e.at = d.at /\ e.busy /\ e.job = d.job + 1 /\ e.current = {} /\ e.pending = {}
    BY <1>1, <1>2, <1>3 DEF InstallJob, Session
  <2> HIDE DEF e
  <2>2. Job(e) = Plan[d.at][d.job + 1]
    BY <2>1 DEF Job
  <2>3. ASSUME NEW t \in Shared!Turns PROVE t \in Past(e) <=> t \in Past(d)
    <3>1. t \in Past(e) <=> t.at < d.at \/ (t.at = d.at /\ t.card < Plan[d.at][d.job + 1].card)
      <4>1. t \in Past(e)
              <=> \/ t.at < e.at
                  \/ t.at = e.at /\ \/ ~ e.busy
                                    \/ t.card < Job(e).card
                                    \/ t.card = Job(e).card /\ t.seat \in e.current
        BY PastIs
      <4> QED BY <2>1, <2>2, <4>1
    <3>2. t.at = d.at => (t.card < Plan[d.at][d.job + 1].card <=> t.card <= Job(d).card)
      BY <1>1, <1>3, TurnsInOrder
    <3>3. t \in Past(d) <=> t.at < d.at \/ (t.at = d.at /\ t.card <= Job(d).card)
      BY CompletePast
    <3> QED BY <3>1, <3>2, <3>3
  <2>4. Past(e) = Past(d)
    BY <2>3, PastIs
  <2> QED BY <2>1, <2>4 DEF e
<1>4. CASE ~ (d.job < Len(Plan[d.at]))
  <2>1. e.at = d.at /\ ~ e.busy /\ e.pending = {}
    BY <1>1, <1>2, <1>4 DEF Session
  <2>2. d.job = Len(Plan[d.at])
    BY <1>1, <1>4, PlanTyped
  <2> HIDE DEF e
  <2>3. ASSUME NEW t \in Shared!Turns PROVE t \in Past(e) <=> t \in Past(d)
    <3>1. t \in Past(e) <=> t.at < d.at \/ t.at = d.at
      BY <2>1, PastIs
    <3>2. t.at = d.at => t.card <= Job(d).card
      BY <1>1, <2>2, TurnsInOrder
    <3>3. t \in Past(d) <=> t.at < d.at \/ (t.at = d.at /\ t.card <= Job(d).card)
      BY CompletePast
    <3> QED BY <3>1, <3>2, <3>3
  <2>4. Past(e) = Past(d)
    BY <2>3, PastIs
  <2> QED BY <2>1, <2>4 DEF e
<1> QED BY <1>3, <1>4

\* The turns a session has seen are the first ones of the deal.
LEMMA PastClosed ==
  ASSUME NEW d, Whole(d), NEW t \in Past(d), NEW u \in Shared!Turns, Shared!Before(u, t)
  PROVE  u \in Past(d)
<1>1. /\ t \in Shared!Turns /\ t.at \in Int /\ u.at \in Int /\ d.at \in Int
      /\ t.card \in Int /\ u.card \in Int /\ t.seat \in Int /\ u.seat \in Int
  <2>1. t \in Shared!Turns
    BY PastIs
  <2>2. t.at \in Int /\ u.at \in Int
    BY <2>1, TurnTyped, PlanTyped
  <2>3. t.card \in Int /\ u.card \in Int /\ t.seat \in Int /\ u.seat \in Int
    BY <2>1, TurnTyped DEF Cards, Seats
  <2>4. d.at \in Int
    BY PlanTyped DEF Whole, Session
  <2> QED BY <2>1, <2>2, <2>3, <2>4
<1>2. \/ u.at < t.at
      \/ u.at = t.at /\ u.card < t.card
      \/ u.at = t.at /\ u.card = t.card /\ u.seat < t.seat
  BY DEF Shared!Before
<1>3. \/ t.at < d.at
      \/ t.at = d.at /\ ~ d.busy
      \/ t.at = d.at /\ d.busy /\ t.card < Job(d).card
      \/ t.at = d.at /\ d.busy /\ t.card = Job(d).card /\ t.seat \in d.current
  BY PastIs
<1>4. CASE u.at < d.at
  BY <1>4, PastIs
<1>5. CASE u.at = d.at /\ ~ d.busy
  BY <1>5, PastIs
<1>6. CASE ~ (u.at < d.at) /\ ~ (u.at = d.at /\ ~ d.busy)
  <2>1. u.at = t.at /\ t.at = d.at /\ d.busy
    BY <1>1, <1>2, <1>3, <1>6
  <2>2. Job(d) \in JobType /\ Job(d).card \in Int
    BY <2>1, JobTyped DEF JobType, Cards
  <2>3. CASE u.card < Job(d).card
    BY <2>1, <2>3, PastIs
  <2>4. CASE ~ (u.card < Job(d).card)
    <3>1. u.card = Job(d).card /\ t.card = Job(d).card /\ u.seat < t.seat /\ t.seat \in d.current
      BY <1>1, <1>2, <1>3, <2>1, <2>2, <2>4
    <3>2. /\ d.job \in 1 .. Len(Plan[d.at]) /\ Job(d) = Plan[d.at][d.job]
          /\ d.current = Off(Job(d), d.next)
          /\ d.next \in Nat /\ d.next <= Len(Peelers(Job(d))) /\ Len(Peelers(Job(d))) \in Nat
      BY <2>1, <2>2, PeelersTyped DEF Whole, Session, Job
    <3>3. PICK i \in 1 .. Len(Peelers(Job(d))) : u.seat = Peelers(Job(d))[i]
      BY <2>1, <3>1, <3>2, TurnSeat
    <3>4. PICK n \in 1 .. d.next : t.seat = Peelers(Job(d))[n]
      BY <3>1, <3>2 DEF Off
    <3>5. n \in 1 .. Len(Peelers(Job(d)))
      BY <3>2
    <3>6. i < n
      <4> SUFFICES ASSUME ~ (i < n) PROVE FALSE
        OBVIOUS
      <4>1. n = i \/ n < i
        BY <3>5
      <4>2. t.seat = u.seat \/ t.seat < u.seat
        BY <2>2, <3>3, <3>4, <3>5, <4>1, PeelersInOrder
      <4> QED BY <1>1, <3>1, <4>2
    <3>7. i \in 1 .. d.next
      BY <3>2, <3>6
    <3>8. u.seat \in d.current
      BY <3>2, <3>3, <3>7 DEF Off
    <3> QED BY <2>1, <3>1, <3>8, PastIs
  <2> QED BY <2>3, <2>4
<1> QED BY <1>4, <1>5, <1>6

-----------------------------------------------------------------------------
(* One deal: a call *)

Parked(parked) == {parked[i] : i \in 1 .. Len(parked)}

\* The peels that may still reach a session, in its buffer, parked or elsewhere
\* (rest), are different peels of S, and of turns it has not seen.
Apart(d, parked, rest, S) ==
  /\ \A m \in d.pending \cup Parked(parked) \cup rest : m \in S /\ TurnOf(m) \notin Past(d)
  /\ d.pending \cap Parked(parked) = {}
  /\ rest \cap (d.pending \cup Parked(parked)) = {}
  /\ \A i, j \in 1 .. Len(parked) : parked[i] = parked[j] => i = j

\* The seats r peels for.
Mine(r, absent) == {r} \cup {g \in absent : r = DesignatedSurvivor(absent)}

\* The peels S a call of seat r finds: one for each turn, on top of those before
\* it, made by r if the seat is one r peels for, and none beyond the hole cards
\* while r deals them.
Setting(r, k, absent, S) ==
  /\ S \subseteq Peel
  /\ \A m \in S : TurnOf(m) \in Shared!Turns /\ m.from = LayersBefore(TurnOf(m))
  /\ \A m, o \in S : TurnOf(m) = TurnOf(o) => m = o
  /\ \A m \in S : m.seat \in Mine(r, absent) => m.by = r
  /\ k < 2 => \A m \in S : m.at < 2

\* What a call has left: its session has seen turns that were taken, among them
\* all that r took, and holds peels of the card at hand; the peels it made take
\* new turns; nothing was refused.
InStep(x, r, absent, S, rest) ==
  /\ Past(x.d) \subseteq TurnsOf(S \cup x.own)
  /\ \A m \in S : m.by = r => TurnOf(m) \in Past(x.d)
  /\ \A m \in x.own : /\ TurnOf(m) \in Past(x.d) /\ TurnOf(m) \notin TurnsOf(S)
                      /\ m.seat \in Mine(r, absent) /\ m.from = LayersBefore(TurnOf(m))
  /\ \A m, o \in x.own : TurnOf(m) = TurnOf(o) => m = o
  /\ Apart(x.d, x.early, rest, S)
  /\ \A m \in x.d.pending : m.card = Job(x.d).card
  /\ ~ x.err

\* A peel of the card at hand that a session has not seen is of its sequence:
\* it is not of an earlier one, whose turns are all seen, and no other brings
\* the card once the hole cards are dealt.
LEMMA PeelOfSequence ==
  ASSUME NEW r, NEW k, NEW absent, NEW S, Setting(r, k, absent, S),
         NEW d, Whole(d), d.busy, d.at = k,
         NEW m \in S, TurnOf(m) \notin Past(d), m.card = Job(d).card
  PROVE  m.at = k
<1> DEFINE t == TurnOf(m)
<1>1. t \in Shared!Turns /\ t.at = m.at /\ t.card = m.card
  BY DEF Setting, TurnOf
<1> HIDE DEF t
<1>2. PICK j \in 1 .. Len(Plan[m.at]) : m.card = Plan[m.at][j].card
  BY <1>1, TurnTyped
<1>3. m.at \in 1 .. Len(Plan) /\ k \in 1 .. Len(Plan) /\ Len(Plan) \in Nat
  BY <1>1, TurnTyped, JobTyped, PlanTyped
<1>4. d.job \in 1 .. Len(Plan[k]) /\ Job(d) = Plan[k][d.job]
  BY DEF Whole, Job
<1>5. ~ (m.at < k)
  BY <1>1, PastIs DEF t
<1>6. k < 2 => m.at < 2
  BY DEF Setting
<1>7. CASE m.at \in 2 .. Len(Plan) /\ k \in 2 .. Len(Plan)
  BY <1>2, <1>4, <1>7, OneReveal
<1> QED BY <1>3, <1>5, <1>6, <1>7

LEMMA ApplyPast ==
  ASSUME NEW d, Whole(d), d.busy, ~ JobComplete(d),
         NEW m, m.seat = ExpectedPeeler(d), m.from = d.current, m.card = Job(d).card, m.at = d.at
  PROVE  /\ Past(Apply(d, m)) = Past(d) \cup {TurnOf(m)}
         /\ Apply(d, m).pending = d.pending /\ Job(Apply(d, m)) = Job(d)
         /\ TurnOf(m) \notin Past(d)
<1> DEFINE next == d.next + 1
           current == m.from \cup {m.seat}
           applied == d.applied \cup {m}
           e == [d EXCEPT !.next = next, !.current = current, !.applied = applied]
           t == TurnOf(m)
<1>1. d \in Session
  BY DEF Whole
<1>2. Apply(d, m) = e
  BY <1>1 DEF Apply, Session
<1> HIDE DEF next, current, applied
<1>3. /\ e.at = d.at /\ e.job = d.job /\ e.current = current
      /\ e.pending = d.pending /\ e.busy = d.busy
  BY <1>1 DEF Session
<1> HIDE DEF e
<1>4. Job(e) = Job(d)
  BY <1>3 DEF Job
<1>5. e.current = d.current \cup {ExpectedPeeler(d)}
  <2>1. current = d.current \cup {ExpectedPeeler(d)}
    BY DEF current
  <2> QED BY <1>3, <2>1
<1>6. t = Due(d)
  BY DEF TurnOf, Due
<1> HIDE DEF t
<1>7. Past(e) = Past(d) \cup {t}
  BY <1>3, <1>4, <1>5, <1>6, TurnTaken
<1>8. t \notin Past(d)
  BY <1>6, TurnDue
<1> QED BY <1>2, <1>3, <1>4, <1>7, <1>8 DEF t

-----------------------------------------------------------------------------
(* Where the peels are *)

\* Nothing new is seen.
LEMMA ApartKept ==
  ASSUME NEW d, NEW parked, NEW rest, NEW S, Apart(d, parked, rest, S),
         NEW e, Past(e) = Past(d), e.pending \subseteq d.pending,
         NEW less, less \subseteq rest
  PROVE  Apart(e, parked, less, S)
  BY DEF Apart

\* A turn is seen that is none of those.
LEMMA ApartTaken ==
  ASSUME NEW d, NEW parked, NEW rest, NEW S, Apart(d, parked, rest, S),
         NEW e, NEW t, Past(e) = Past(d) \cup {t}, e.pending \subseteq d.pending,
         \A h \in e.pending \cup Parked(parked) \cup rest : TurnOf(h) # t
  PROVE  Apart(e, parked, rest, S)
  BY DEF Apart

\* A peel is buffered.
LEMMA ApartBuffered ==
  ASSUME NEW d, NEW parked, NEW rest, NEW S, NEW m, m \notin rest,
         Apart(d, parked, rest \cup {m}, S),
         NEW e, Past(e) = Past(d), e.pending = d.pending \cup {m}
  PROVE  Apart(e, parked, rest, S)
  BY DEF Apart

LEMMA ParkedGrows ==
  ASSUME NEW parked \in Seq(Peel), NEW m \in Peel, m \notin Parked(parked),
         \A i, j \in 1 .. Len(parked) : parked[i] = parked[j] => i = j
  PROVE  /\ Parked(Park(parked, m)) \subseteq Parked(parked) \cup {m}
         /\ \A i, j \in 1 .. Len(Park(parked, m)) : Park(parked, m)[i] = Park(parked, m)[j] => i = j
<1> DEFINE more == Append(parked, m)
           n == Len(parked)
<1>1. /\ Len(more) = n + 1 /\ more[n + 1] = m
      /\ \A i \in 1 .. n : more[i] = parked[i]
  BY AppendProperties
<1>2. n \in Nat
  OBVIOUS
<1>3. \A i \in 1 .. n : parked[i] # m
  BY DEF Parked
<1> HIDE DEF more, n
<1>4. 1 .. n + 1 = (1 .. n) \cup {n + 1}
  BY <1>2
<1>5. Parked(more) \subseteq Parked(parked) \cup {m}
  BY <1>1, <1>4 DEF Parked, n
<1>6. \A i, j \in 1 .. Len(more) : more[i] = more[j] => i = j
  <2>1. \A i, j \in 1 .. n : more[i] = more[j] => i = j
    BY <1>1 DEF n
  <2>2. \A i \in 1 .. n : more[i] # more[n + 1]
    BY <1>1, <1>3
  <2> QED BY <1>1, <1>4, <2>1, <2>2
<1> QED BY <1>5, <1>6 DEF Park, more

\* A peel is parked, or dropped if there is no room.
LEMMA ApartParked ==
  ASSUME NEW d, NEW parked \in Seq(Peel), NEW rest, NEW S, NEW m \in Peel, m \notin rest,
         Apart(d, parked, rest \cup {m}, S)
  PROVE  Apart(d, Park(parked, m), rest, S)
<1>1. m \notin Parked(parked) /\ m \notin d.pending /\ m \in S /\ TurnOf(m) \notin Past(d)
  BY DEF Apart
<1>2. \A i, j \in 1 .. Len(parked) : parked[i] = parked[j] => i = j
  BY DEF Apart
<1> DEFINE q == Park(parked, m)
<1>3. /\ Parked(q) \subseteq Parked(parked) \cup {m}
      /\ \A i, j \in 1 .. Len(q) : q[i] = q[j] => i = j
  BY <1>1, <1>2, ParkedGrows
<1> HIDE DEF q
<1>4. Apart(d, q, rest, S)
  BY <1>1, <1>3 DEF Apart
<1> QED BY <1>4 DEF q

-----------------------------------------------------------------------------
(* The steps of a call *)

\* The session of a call is replaced by one that has seen no less.
LEMMA ReplaceInStep ==
  ASSUME NEW x \in CallType, NEW r, NEW absent, NEW S, NEW rest, InStep(x, r, absent, S, rest),
         NEW e, Past(x.d) \subseteq Past(e), Past(e) \subseteq TurnsOf(S \cup x.own),
         NEW less, Apart(e, x.early, less, S), \A m \in e.pending : m.card = Job(e).card
  PROVE  InStep([x EXCEPT !.d = e], r, absent, S, less)
<1> DEFINE y == [x EXCEPT !.d = e]
<1>1. y.d = e /\ y.early = x.early /\ y.own = x.own /\ y.err = x.err
  BY DEF CallType
<1> HIDE DEF y
<1>2. InStep(y, r, absent, S, less)
  BY <1>1 DEF InStep
<1> QED BY <1>2 DEF y

\* The rest of the call goes on without some peels.
LEMMA LessInStep ==
  ASSUME NEW x, NEW r, NEW absent, NEW S, NEW rest, InStep(x, r, absent, S, rest),
         NEW less, less \subseteq rest
  PROVE  InStep(x, r, absent, S, less)
<1>1. Apart(x.d, x.early, less, S)
  BY ApartKept DEF InStep
<1> QED BY <1>1 DEF InStep

\* A peel that was made takes the turn due.
LEMMA TakeInStep ==
  ASSUME NEW x, NEW r, NEW k, NEW absent, NEW S, Known(x, r, k, absent, S),
         Setting(r, k, absent, S), NEW rest, InStep(x, r, absent, S, rest),
         NEW d, Whole(d), d.busy, ~ JobComplete(d), d.at = k, Past(d) = Past(x.d),
         Job(d) = Job(x.d), NEW m \in S, TurnOf(m) \notin Past(x.d),
         m.seat = ExpectedPeeler(d), m.card = Job(d).card, m.from = d.current,
         d.pending \subseteq x.d.pending,
         NEW less, less \subseteq rest, m \notin d.pending \cup Parked(x.early) \cup less
  PROVE  InStep([x EXCEPT !.d = Apply(d, m)], r, absent, S, less)
<1> DEFINE e == Apply(d, m)
           t == TurnOf(m)
<1>1. m.at = k
  BY PeelOfSequence
<1>2. Past(e) = Past(d) \cup {t} /\ e.pending = d.pending /\ Job(e) = Job(d)
  BY <1>1, ApplyPast
<1>3. t \in TurnsOf(S \cup x.own)
  BY DEF TurnsOf
<1> HIDE DEF e
<1>4. Apart(d, x.early, less, S)
  BY ApartKept DEF InStep
<1>5. \A h \in e.pending \cup Parked(x.early) \cup less : TurnOf(h) # t
  BY <1>2, <1>4 DEF Apart, Setting
<1> HIDE DEF t
<1>6. Apart(e, x.early, less, S)
  BY <1>2, <1>4, <1>5, ApartTaken
<1>7. Past(x.d) \subseteq Past(e) /\ Past(e) \subseteq TurnsOf(S \cup x.own)
  BY <1>2, <1>3 DEF InStep
<1>8. \A h \in e.pending : h.card = Job(e).card
  BY <1>2 DEF InStep
<1>9. InStep([x EXCEPT !.d = e], r, absent, S, less)
  BY <1>6, <1>7, <1>8, ReplaceInStep DEF Known, Fine
<1> QED BY <1>9 DEF e

\* A peel of the seat that is due lies on top of those before it.
LEMMA DueVerifies ==
  ASSUME NEW r, NEW k, NEW absent, NEW S, Setting(r, k, absent, S),
         NEW d, Whole(d), d.busy, ~ JobComplete(d), d.at = k,
         NEW m \in S, TurnOf(m) \notin Past(d),
         m.seat = ExpectedPeeler(d), m.card = Job(d).card
  PROVE  m.from = d.current
<1>1. m.at = k
  BY PeelOfSequence
<1>2. TurnOf(m) = Due(d)
  BY <1>1 DEF TurnOf, Due
<1>3. m.from = LayersBefore(TurnOf(m))
  BY DEF Setting
<1> QED BY <1>2, <1>3, LayersDue

\* The seat takes a turn that is its own.
LEMMA OwnInStep ==
  ASSUME NEW x, NEW r \in Seats, NEW k, NEW absent, NEW S, Known(x, r, k, absent, S),
         Setting(r, k, absent, S), NEW rest, InStep(x, r, absent, S, rest),
         x.d.busy, ~ JobComplete(x.d), ExpectedPeeler(x.d) \in Mine(r, absent)
  PROVE  LET o == NewPeel(x.d, ExpectedPeeler(x.d), r)
         IN  InStep([x EXCEPT !.d = Apply(x.d, o), !.own = @ \cup {o}], r, absent, S, rest)
<1> DEFINE d == x.d
           q == ExpectedPeeler(d)
           o == NewPeel(d, q, r)
           own == x.own \cup {o}
           e == Apply(d, o)
           y == [x EXCEPT !.d = e, !.own = own]
           t == TurnOf(o)
<1>1. Whole(d) /\ x \in CallType
  BY DEF Known, Fine
<1>2. o.seat = q /\ o.from = d.current /\ o.card = Job(d).card /\ o.by = r /\ o.at = d.at
  BY DEF NewPeel
<1> HIDE DEF o
<1>3. Past(e) = Past(d) \cup {t} /\ e.pending = d.pending /\ Job(e) = Job(d) /\ t \notin Past(d)
  BY <1>1, <1>2, ApplyPast
<1>14. o.from = LayersBefore(t)
  <2>1. t = Due(d)
    BY <1>2 DEF TurnOf, Due
  <2> QED BY <1>1, <1>2, <2>1, LayersDue
<1> HIDE DEF e
<1>4. \A m \in S : TurnOf(m) # t
  <2> SUFFICES ASSUME NEW m \in S, TurnOf(m) = t PROVE FALSE
    OBVIOUS
  <2>1. m.seat = q
    <3>1. TurnOf(m).seat = m.seat /\ t.seat = o.seat
      BY DEF TurnOf
    <3> QED BY <1>2, <3>1
  <2>2. m.by = r
    BY <2>1 DEF Setting
  <2>3. TurnOf(m) \in Past(d)
    BY <2>2 DEF InStep
  <2> QED BY <1>3, <2>3
<1>5. \A m \in x.own : TurnOf(m) # t
  BY <1>3 DEF InStep
<1>6. Apart(e, x.early, rest, S)
  <2>1. Apart(d, x.early, rest, S)
    BY DEF InStep
  <2>2. \A h \in e.pending \cup Parked(x.early) \cup rest : TurnOf(h) # t
    BY <1>3, <1>4, <2>1 DEF Apart
  <2> HIDE DEF d, t
  <2> QED BY <1>3, <2>1, <2>2, ApartTaken
<1>7. Past(e) \subseteq TurnsOf(S \cup own)
  <2>1. t \in TurnsOf(S \cup own)
    BY DEF TurnsOf
  <2>2. TurnsOf(S \cup x.own) \subseteq TurnsOf(S \cup own)
    BY DEF TurnsOf
  <2> HIDE DEF own, t
  <2> QED BY <1>3, <2>1, <2>2 DEF InStep
<1>8. \A m \in S : m.by = r => TurnOf(m) \in Past(e)
  BY <1>3 DEF InStep
<1>9. \A m \in own : /\ TurnOf(m) \in Past(e) /\ TurnOf(m) \notin TurnsOf(S)
                     /\ m.seat \in Mine(r, absent) /\ m.from = LayersBefore(TurnOf(m))
  <2>1. t \notin TurnsOf(S)
    BY <1>4 DEF TurnsOf
  <2> QED BY <1>2, <1>3, <1>14, <2>1 DEF InStep
<1>15. \A m \in e.pending : m.card = Job(e).card
  BY <1>3 DEF InStep
<1>10. \A m, p \in own : TurnOf(m) = TurnOf(p) => m = p
  BY <1>5 DEF InStep
<1>11. [x EXCEPT !.d = Apply(x.d, o), !.own = @ \cup {o}] = y
  BY <1>1 DEF CallType, e
<1> HIDE DEF d, own
<1>12. y.d = e /\ y.early = x.early /\ y.own = own /\ y.err = x.err
  BY <1>1 DEF CallType
<1> HIDE DEF y
<1>13. InStep(y, r, absent, S, rest)
  BY <1>6, <1>7, <1>8, <1>9, <1>10, <1>12, <1>15 DEF InStep
<1> QED BY <1>11, <1>13 DEF o, q, d

-----------------------------------------------------------------------------
(* One deal: the loops of a call *)

LEMMA TurnInStep ==
  ASSUME NEW x, NEW r \in Seats, NEW k, NEW absent, NEW S, Known(x, r, k, absent, S),
         Setting(r, k, absent, S), NEW rest, InStep(x, r, absent, S, rest),
         NEW helped, helped \subseteq Mine(r, absent)
  PROVE  InStep(Turn(x, r, helped), r, absent, S, rest)
<1> DEFINE d == x.d
           q == ExpectedPeeler(d)
           buffered == {m \in d.pending : m.seat = q}
           m == CHOOSE m \in buffered : TRUE
           some == d.pending \ {m}
           taken == [d EXCEPT !.pending = some]
           own == NewPeel(d, q, r)
           T == S \cup x.own
<1>1. /\ Whole(d) /\ d.pending \in SUBSET Peel /\ d.pending \subseteq T /\ SessionKnown(d, k, T)
      /\ d.at = k /\ x \in CallType
  BY DEF Known, Fine, Whole, Session, SessionKnown
<1>2. CASE x.err \/ ~ d.busy
  BY <1>2 DEF Turn
<1>3. CASE ~ x.err /\ d.busy /\ JobComplete(d)
  <2> DEFINE e == Advance(d, r)
  <2>1. Turn(x, r, helped) = [x EXCEPT !.d = e]
    BY <1>3 DEF Turn
  <2>2. Past(e) = Past(d) /\ e.pending = {}
    BY <1>1, <1>3, AdvancePast
  <2> HIDE DEF e
  <2>3. Apart(e, x.early, rest, S)
    BY <2>2, ApartKept DEF InStep
  <2>4. Past(e) \subseteq TurnsOf(S \cup x.own)
    BY <2>2 DEF InStep
  <2>5. InStep([x EXCEPT !.d = e], r, absent, S, rest)
    <3>1. \A h \in e.pending : h.card = Job(e).card
      BY <2>2
    <3> QED BY <1>1, <2>2, <2>3, <2>4, <3>1, ReplaceInStep
  <2> QED BY <2>1, <2>5
<1>4. CASE ~ x.err /\ d.busy /\ ~ JobComplete(d) /\ q # r /\ buffered # {}
  <2>1. m \in Peel /\ m.seat = q /\ m \in T /\ m \in d.pending
    BY <1>1, <1>4
  <2>2. [d EXCEPT !.pending = @ \ {m}] = taken
    BY <1>1 DEF Whole, Session
  <2>3. Turn(x, r, helped) = IF Verifies(d, m) THEN [x EXCEPT !.d = Apply(taken, m)]
                             ELSE [x EXCEPT !.d = taken, !.err = TRUE]
    BY <1>4, <2>2 DEF Turn
  <2>4. some \in SUBSET Peel /\ some \in SUBSET T /\ some \subseteq d.pending /\ m \notin some
    BY <1>1
  <2> HIDE DEF m, some, T
  <2>5. m \in S /\ TurnOf(m) \notin Past(d) /\ m \notin Parked(x.early) \cup rest
    BY <2>1 DEF InStep, Apart
  <2>6. taken.pending = some /\ taken.at = d.at /\ taken.busy = d.busy /\ taken.current = d.current
    BY <1>1 DEF Whole, Session
  <2> HIDE DEF d
  <2>7. /\ Whole(taken) /\ taken.busy /\ ~ JobComplete(taken)
        /\ ExpectedPeeler(taken) = q
    BY <1>1, <1>4, <2>4, PendingWhole
  <2>8. Job(taken) = Job(d)
    BY <1>1, <2>4, PendingKnown
  <2> HIDE DEF taken
  <2>9. Past(taken) = Past(d)
    BY <2>6, <2>8, SamePast
  <2>10. m.card = Job(taken).card /\ m.from = taken.current
    <3>1. m.card = Job(taken).card
      BY <2>1, <2>8 DEF InStep, d
    <3>2. taken.at = k /\ TurnOf(m) \notin Past(taken) /\ m.seat = ExpectedPeeler(taken)
      BY <1>1, <2>1, <2>5, <2>6, <2>7, <2>9
    <3> QED BY <2>5, <2>7, <3>1, <3>2, DueVerifies
  <2>11. Turn(x, r, helped) = [x EXCEPT !.d = Apply(taken, m)]
    BY <2>3, <2>6, <2>8, <2>10 DEF Verifies
  <2>12. /\ taken.at = k /\ taken.pending \subseteq x.d.pending /\ Past(taken) = Past(x.d)
         /\ TurnOf(m) \notin Past(x.d) /\ Job(taken) = Job(x.d)
         /\ m \notin taken.pending \cup Parked(x.early) \cup rest
    BY <1>1, <2>4, <2>5, <2>6, <2>8, <2>9 DEF d
  <2>13. InStep([x EXCEPT !.d = Apply(taken, m)], r, absent, S, rest)
    BY <2>1, <2>5, <2>7, <2>10, <2>12, TakeInStep
  <2> QED BY <2>11, <2>13
<1>5. CASE ~ x.err /\ d.busy /\ ~ JobComplete(d) /\ ~ (q # r /\ buffered # {})
  <2>1. \/ Turn(x, r, helped) = x
        \/ /\ q \in {r} \cup helped
           /\ Turn(x, r, helped) = [x EXCEPT !.d = Apply(d, own), !.own = @ \cup {own}]
    BY <1>5 DEF Turn
  <2>2. q \in {r} \cup helped => q \in Mine(r, absent)
    BY DEF Mine
  <2>3. q \in Mine(r, absent)
          => InStep([x EXCEPT !.d = Apply(d, own), !.own = @ \cup {own}], r, absent, S, rest)
    BY <1>5, OwnInStep
  <2> HIDE DEF own, d
  <2> QED BY <2>1, <2>2, <2>3
<1> QED BY <1>2, <1>3, <1>4, <1>5

LEMMA SettleInStep ==
  ASSUME NEW x, NEW r \in Seats, NEW k, NEW absent, NEW S, Known(x, r, k, absent, S),
         Setting(r, k, absent, S), NEW rest, InStep(x, r, absent, S, rest),
         NEW helped, helped \subseteq Mine(r, absent), helped \subseteq absent
  PROVE  InStep(Settle(x, r, helped), r, absent, S, rest)
<1>1. PICK u, n : SettlesTo(u, n, x, r, helped)
  BY SettleIsTurns
<1>2. n \in Nat /\ Settle(x, r, helped) = u[n]
  BY <1>1 DEF SettlesTo
<1>3. u[0] = x /\ \A i \in 1 .. n : u[i] = Turn(u[i - 1], r, helped)
  BY <1>1 DEF SettlesTo
<1> DEFINE T == {i \in Nat : i <= n => /\ Known(u[i], r, k, absent, S)
                                       /\ InStep(u[i], r, absent, S, rest)}
<1>4. 0 \in T
  <2>1. Known(u[0], r, k, absent, S) /\ InStep(u[0], r, absent, S, rest)
    BY <1>3
  <2> QED BY <2>1
<1>5. ASSUME NEW i \in T PROVE i + 1 \in T
  <2> SUFFICES ASSUME i + 1 <= n
               PROVE  Known(u[i + 1], r, k, absent, S) /\ InStep(u[i + 1], r, absent, S, rest)
    OBVIOUS
  <2>1. /\ Known(u[i], r, k, absent, S) /\ InStep(u[i], r, absent, S, rest)
        /\ i + 1 \in 1 .. n /\ (i + 1) - 1 = i
    BY <1>2
  <2>2. u[i + 1] = Turn(u[i], r, helped)
    BY <1>3, <2>1
  <2>3. Known(Turn(u[i], r, helped), r, k, absent, S)
    BY <2>1, TurnKnown
  <2>4. InStep(Turn(u[i], r, helped), r, absent, S, rest)
    BY <2>1, TurnInStep
  <2> QED BY <2>2, <2>3, <2>4
<1>6. T = Nat
  <2> HIDE DEF T
  <2>1. T \in SUBSET Nat
    BY DEF T
  <2> QED BY <1>4, <1>5, <2>1, SetInduction
<1> QED BY <1>2, <1>6

\* A peel of the card at hand that comes to the session is taken or buffered.
LEMMA SessionPeelInStep ==
  ASSUME NEW x, NEW r \in Seats, NEW k, NEW absent, NEW S, Known(x, r, k, absent, S),
         Setting(r, k, absent, S), NEW m \in Peel, m \in S, NEW rest, m \notin rest,
         InStep(x, r, absent, S, rest \cup {m}), x.d.busy, m.card = Job(x.d).card
  PROVE  InStep(SessionPeel(x, r, m), r, absent, S, rest)
<1> DEFINE d == x.d
           turns == Peelers(Job(d))
           some == d.pending \cup {m}
           isPeeler == \E i \in 1 .. Len(turns) : turns[i] = m.seat
           peeled == \E i \in 1 .. d.next : turns[i] = m.seat
           T == S \cup x.own
<1>1. /\ Whole(d) /\ d.pending \in SUBSET Peel /\ d.pending \subseteq T
      /\ SessionKnown(d, k, T) /\ m \in T /\ d.at = k /\ x \in CallType
  BY DEF Known, Fine, Whole, Session, SessionKnown
<1>2. TurnOf(m) \notin Past(d) /\ m \notin d.pending \cup Parked(x.early) \cup rest
  BY DEF InStep, Apart
<1>3. m.at = k /\ TurnOf(m) \in Shared!Turns
  BY <1>1, <1>2, PeelOfSequence DEF Setting
<1>4. /\ TurnOf(m).at = d.at /\ TurnOf(m).card = Job(d).card /\ TurnOf(m).seat = m.seat
      /\ d.job \in 1 .. Len(Plan[d.at]) /\ Job(d) = Plan[d.at][d.job]
  BY <1>1, <1>3 DEF TurnOf, Whole, Job
<1>5. isPeeler
  <2> DEFINE t == TurnOf(m)
  <2>1. t \in Shared!Turns /\ d.job \in 1 .. Len(Plan[t.at]) /\ t.card = Plan[t.at][d.job].card
    BY <1>3, <1>4
  <2> HIDE DEF t, d
  <2>2. \E i \in 1 .. Len(Peelers(Plan[t.at][d.job])) : t.seat = Peelers(Plan[t.at][d.job])[i]
    BY <2>1, TurnSeat
  <2>3. t.seat = m.seat /\ Plan[t.at][d.job] = Job(d)
    BY <1>4 DEF t
  <2> QED BY <2>2, <2>3
<1>6. ~ peeled
  <2> SUFFICES ASSUME peeled PROVE FALSE
    OBVIOUS
  <2>1. m.seat \in d.current
    BY <1>1 DEF Whole, Off
  <2> HIDE DEF d
  <2>2. TurnOf(m) \in Past(d)
    BY <1>3, <1>4, <2>1, PastIs
  <2> QED BY <1>2, <2>2
<1>7. m.seat # r
  <2> SUFFICES ASSUME m.seat = r PROVE FALSE
    OBVIOUS
  <2>1. m.by = r
    BY DEF Setting, Mine
  <2> QED BY <1>2, <2>1 DEF InStep
<1>8. ASSUME NEW h \in d.pending PROVE h.seat # m.seat
  <2> SUFFICES ASSUME h.seat = m.seat PROVE FALSE
    OBVIOUS
  <2>1. h \in S /\ TurnOf(h) \notin Past(d) /\ h.card = Job(d).card
    BY DEF InStep, Apart
  <2>2. h.at = k
    BY <1>1, <2>1, PeelOfSequence
  <2>3. TurnOf(h) = TurnOf(m)
    BY <1>3, <2>1, <2>2 DEF TurnOf
  <2>4. h = m
    BY <2>1, <2>3 DEF Setting
  <2> QED BY <1>2, <2>4
<1>9. CASE m.seat = ExpectedPeeler(d)
  <2>1. ~ JobComplete(d)
    BY <1>5, <1>6 DEF JobComplete
  <2>2. m.from = d.current
    BY <1>1, <1>2, <1>9, <2>1, DueVerifies
  <2>3. SessionPeel(x, r, m) = Settle([x EXCEPT !.d = Apply(d, m)], r, {})
    <3>1. Verifies(d, m)
      BY <2>2 DEF Verifies
    <3> QED BY <1>5, <1>6, <1>7, <1>9, <3>1 DEF SessionPeel
  <2> HIDE DEF T
  <2>4. Whole(Apply(d, m)) /\ SessionKnown(Apply(d, m), k, T)
    BY <1>1, <1>9, <2>1, <2>2, ApplyWhole, ApplyKnown
  <2>5. Known([x EXCEPT !.d = Apply(d, m)], r, k, absent, S)
    <3> DEFINE e == Apply(d, m)
    <3>1. Whole(e) /\ SessionKnown(e, k, S \cup x.own)
      BY <2>4 DEF T
    <3> HIDE DEF e
    <3>2. Known([x EXCEPT !.d = e], r, k, absent, S)
      BY <3>1, MovedKnown
    <3> QED BY <3>2 DEF e
  <2>6. InStep([x EXCEPT !.d = Apply(d, m)], r, absent, S, rest)
    <3> DEFINE all == rest \cup {m}
    <3>1. rest \subseteq all /\ InStep(x, r, absent, S, all)
      OBVIOUS
    <3>2. /\ Past(d) = Past(x.d) /\ TurnOf(m) \notin Past(x.d) /\ d.pending \subseteq x.d.pending
          /\ Job(d) = Job(x.d) /\ m.card = Job(d).card
      BY <1>2
    <3> HIDE DEF all, d
    <3> QED BY <1>1, <1>2, <1>9, <2>1, <2>2, <3>1, <3>2, TakeInStep DEF d
  <2> HIDE DEF d
  <2>7. InStep(Settle([x EXCEPT !.d = Apply(d, m)], r, {}), r, absent, S, rest)
    BY <2>5, <2>6, SettleInStep
  <2> QED BY <2>3, <2>7
<1>10. CASE m.seat # ExpectedPeeler(d)
  <2> DEFINE e == [d EXCEPT !.pending = some]
  <2>1. SessionPeel(x, r, m) = [x EXCEPT !.d.pending = @ \cup {m}]
    BY <1>5, <1>6, <1>7, <1>8, <1>10 DEF SessionPeel
  <2>2. [x EXCEPT !.d.pending = @ \cup {m}] = [x EXCEPT !.d = e]
    BY DEF Known, Fine, CallType, Session
  <2>3. some \in SUBSET Peel /\ some \in SUBSET T
    BY <1>1
  <2>4. e.pending = some /\ e.at = d.at /\ e.busy = d.busy /\ e.current = d.current
    BY <1>1 DEF Whole, Session
  <2>5. some = x.d.pending \cup {m} /\ m.card = Job(d).card
    OBVIOUS
  <2> HIDE DEF some, d, T
  <2>6. Job(e) = Job(d)
    BY <1>1, <2>3, PendingKnown
  <2> HIDE DEF e
  <2>7. Past(e) = Past(d)
    BY <2>4, <2>6, SamePast
  <2>8. Apart(e, x.early, rest, S)
    BY <2>4, <2>5, <2>7, ApartBuffered DEF InStep, d
  <2>9. Past(x.d) \subseteq Past(e) /\ Past(e) \subseteq TurnsOf(S \cup x.own)
    BY <2>7 DEF InStep, d
  <2>10. \A h \in e.pending : h.card = Job(e).card
    BY <2>4, <2>5, <2>6 DEF InStep, d
  <2>11. InStep([x EXCEPT !.d = e], r, absent, S, rest)
    BY <1>1, <2>8, <2>9, <2>10, ReplaceInStep
  <2> QED BY <2>1, <2>2, <2>11
<1> QED BY <1>9, <1>10

LEMMA ParkInStep ==
  ASSUME NEW x \in CallType, NEW r, NEW absent, NEW S, NEW m \in Peel, NEW rest, m \notin rest,
         InStep(x, r, absent, S, rest \cup {m})
  PROVE  InStep([x EXCEPT !.early = Park(x.early, m)], r, absent, S, rest)
<1> DEFINE parked == Park(x.early, m)
           y == [x EXCEPT !.early = parked]
<1>1. Apart(x.d, parked, rest, S)
  <2>1. x.early \in Seq(Peel)
    BY DEF CallType
  <2>2. Apart(x.d, x.early, rest \cup {m}, S)
    BY DEF InStep
  <2> QED BY <2>1, <2>2, ApartParked
<1> HIDE DEF parked
<1>2. y.d = x.d /\ y.early = parked /\ y.own = x.own /\ y.err = x.err
  BY DEF CallType
<1> HIDE DEF y
<1>3. InStep(y, r, absent, S, rest)
  BY <1>1, <1>2 DEF InStep
<1> QED BY <1>3 DEF y, parked

LEMMA RedeliverInStep ==
  ASSUME NEW y, NEW r \in Seats, NEW k, NEW absent, NEW S, Known(y, r, k, absent, S),
         Setting(r, k, absent, S), NEW m \in Peel, m \in S, NEW rest, m \notin rest,
         InStep(y, r, absent, S, rest \cup {m})
  PROVE  InStep(Redeliver(y, r, m), r, absent, S, rest)
<1>1. y \in CallType /\ ~ y.err
  BY DEF Known, Fine, InStep
<1>2. CASE Premature(y.d, m)
  <2>1. Redeliver(y, r, m) = [y EXCEPT !.early = Park(y.early, m)]
    BY <1>1, <1>2 DEF Redeliver, CallType
  <2>2. InStep([y EXCEPT !.early = Park(y.early, m)], r, absent, S, rest)
    BY <1>1, ParkInStep
  <2> QED BY <2>1, <2>2
<1>3. CASE ~ Premature(y.d, m)
  <2>1. Redeliver(y, r, m) = SessionPeel(y, r, m) /\ y.d.busy /\ m.card = Job(y.d).card
    BY <1>1, <1>3 DEF Redeliver, Premature, ValidateIncoming
  <2> QED BY <2>1, SessionPeelInStep
<1> QED BY <1>2, <1>3

LEMMA DrainPeelsInStep ==
  ASSUME NEW x, NEW r \in Seats, NEW k, NEW absent, NEW S, Known(x, r, k, absent, S),
         Setting(r, k, absent, S), NEW rest, InStep(x, r, absent, S, rest)
  PROVE  InStep(DrainPeels(x, r), r, absent, S, rest)
<1> DEFINE n == Len(x.early)
           first == [x EXCEPT !.early = <<>>]
           left(i) == rest \cup {x.early[j] : j \in i + 1 .. n}
<1>1. n \in Nat /\ \A i \in 1 .. n : x.early[i] \in Peel /\ x.early[i] \in S
  BY ElementOfSeq DEF Known, Fine, CallType
<1>2. Known(first, r, k, absent, S)
  <2>1. <<>> \in Seq(Peel) /\ \A i \in 1 .. Len(<<>>) : <<>>[i] \in S
    BY EmptySeq
  <2> QED BY <2>1, EarlyKnown
<1>3. InStep(first, r, absent, S, left(0))
  <2>1. first.d = x.d /\ first.early = <<>> /\ first.own = x.own /\ first.err = x.err
    BY DEF Known, Fine, CallType
  <2>2. left(0) = rest \cup Parked(x.early)
    BY <1>1 DEF Parked
  <2>3. Parked(<<>>) = {} /\ Len(<<>>) = 0
    BY DEF Parked
  <2> DEFINE all == left(0)
  <2>4. Apart(x.d, x.early, rest, S) /\ all = rest \cup Parked(x.early)
    BY <2>2 DEF InStep
  <2> HIDE DEF all
  <2>5. Apart(x.d, <<>>, all, S)
    BY <2>3, <2>4 DEF Apart
  <2> HIDE DEF first
  <2>6. InStep(first, r, absent, S, all)
    BY <2>1, <2>5 DEF InStep
  <2> QED BY <2>6 DEF all
<1>4. PICK u : DrainsTo(u, x, r)
  BY <1>1, DrainPeelsIsPass
<1>5. DrainPeels(x, r) = u[n]
  BY <1>4 DEF DrainsTo
<1>6. u[0] = first /\ \A i \in 1 .. n : u[i] = Redeliver(u[i - 1], r, x.early[i])
  BY <1>4 DEF DrainsTo
<1>7. ASSUME NEW i \in Nat, i + 1 <= n
      PROVE  left(i) = left(i + 1) \cup {x.early[i + 1]} /\ x.early[i + 1] \notin left(i + 1)
  <2>1. i + 1 .. n = (i + 2 .. n) \cup {i + 1} /\ (i + 1) + 1 = i + 2
    BY <1>1, <1>7
  <2>2. i + 1 \in 1 .. n /\ \A j \in i + 2 .. n : j \in 1 .. n /\ j # i + 1
    BY <1>1, <1>7
  <2>3. x.early[i + 1] \notin rest
    BY <2>2 DEF InStep, Apart, Parked
  <2>4. \A j \in i + 2 .. n : x.early[j] # x.early[i + 1]
    BY <2>2 DEF InStep, Apart
  <2> QED BY <2>1, <2>3, <2>4
<1>8. left(n) = rest
  BY <1>1
<1> HIDE DEF n, first, left
<1> DEFINE T == {i \in Nat : i <= n => /\ Known(u[i], r, k, absent, S)
                                       /\ InStep(u[i], r, absent, S, left(i))}
<1>9. 0 \in T
  <2>1. Known(u[0], r, k, absent, S) /\ InStep(u[0], r, absent, S, left(0))
    BY <1>2, <1>3, <1>6
  <2> QED BY <2>1
<1>10. ASSUME NEW i \in T PROVE i + 1 \in T
  <2> SUFFICES ASSUME i + 1 <= n
               PROVE  /\ Known(u[i + 1], r, k, absent, S)
                      /\ InStep(u[i + 1], r, absent, S, left(i + 1))
    OBVIOUS
  <2>1. /\ Known(u[i], r, k, absent, S) /\ InStep(u[i], r, absent, S, left(i))
        /\ i + 1 \in 1 .. n /\ (i + 1) - 1 = i
    BY <1>1
  <2>2. u[i + 1] = Redeliver(u[i], r, x.early[i + 1])
    BY <1>6, <2>1
  <2> DEFINE m == x.early[i + 1]
             less == left(i + 1)
  <2>3. m \in Peel /\ m \in S /\ m \notin less /\ InStep(u[i], r, absent, S, less \cup {m})
    BY <1>1, <1>7, <2>1
  <2>4. Known(Redeliver(u[i], r, m), r, k, absent, S)
    BY <2>1, <2>3, RedeliverKnown
  <2> HIDE DEF m, less
  <2>5. InStep(Redeliver(u[i], r, m), r, absent, S, less)
    BY <2>1, <2>3, RedeliverInStep
  <2> QED BY <2>2, <2>4, <2>5 DEF m, less
<1>11. T = Nat
  <2> HIDE DEF T
  <2>1. T \in SUBSET Nat
    BY DEF T
  <2> QED BY <1>9, <1>10, <2>1, SetInduction
<1>12. InStep(u[n], r, absent, S, left(n))
  BY <1>1, <1>11
<1> QED BY <1>5, <1>8, <1>12

LEMMA DelegateInStep ==
  ASSUME NEW x, NEW r \in Seats, NEW k, NEW absent, NEW S, Known(x, r, k, absent, S),
         Setting(r, k, absent, S), NEW rest, InStep(x, r, absent, S, rest)
  PROVE  InStep(Delegate(x, r, absent), r, absent, S, rest)
<1>1. CASE r = DesignatedSurvivor(absent)
  <2>1. absent \subseteq Mine(r, absent)
    BY <1>1 DEF Mine
  <2>2. InStep(Settle(x, r, absent), r, absent, S, rest)
    BY <2>1, SettleInStep
  <2> QED BY <1>1, <2>2 DEF Delegate
<1>2. CASE r # DesignatedSurvivor(absent)
  BY <1>2 DEF Delegate
<1> QED BY <1>1, <1>2

LEMMA FollowUpInStep ==
  ASSUME NEW x, NEW r \in Seats, NEW k, NEW absent, NEW S, Known(x, r, k, absent, S),
         Setting(r, k, absent, S), NEW rest, InStep(x, r, absent, S, rest)
  PROVE  InStep(FollowUp(x, r, absent), r, absent, S, rest)
<1> DEFINE y == DrainPeels(x, r)
           next(z) == IF z.err THEN z ELSE Delegate(z, r, absent)
<1>1. Known(y, r, k, absent, S) /\ InStep(y, r, absent, S, rest)
  BY DrainPeelsKnown, DrainPeelsInStep
<1> HIDE DEF y
<1>2. InStep(next(y), r, absent, S, rest)
  BY <1>1, DelegateInStep
<1>3. Once({next(z) : z \in {y}}) = next(y)
  <2> HIDE DEF next
  <2>1. {next(z) : z \in {y}} = {next(y)}
    OBVIOUS
  <2> QED BY <2>1 DEF Once
<1>4. FollowUp(x, r, absent) = IF x.err THEN x ELSE Once({next(z) : z \in {y}})
  BY DEF FollowUp, y
<1> HIDE DEF next
<1> QED BY <1>2, <1>3, <1>4

-----------------------------------------------------------------------------
(* One deal: the table *)

\* The peels on their way to seat r among the packets F.
Coming(r, F) == {pkt.msg : pkt \in {pkt \in F : pkt.to = r}}

\* Seat m.by is at the table, and peels for itself or, as the first seat at the
\* table, for one that has left it.
Maker(m) ==
  /\ m.by \notin silent
  /\ m.seat = m.by \/ (m.seat \in silent /\ \A q \in Seats \ silent : m.by <= q)

\* One peel for every turn, on top of those before it, its maker has seen it,
\* and every session has seen only turns that were taken and buffers peels of
\* the card at hand.
OneDeal ==
  /\ \A r \in Seats : Past(deal[r]) \subseteq TurnsOf(made)
  /\ \A r \in Seats : \A m \in deal[r].pending : m.card = Job(deal[r]).card
  /\ \A m \in made : m.from = LayersBefore(TurnOf(m))
  /\ \A m \in made : Maker(m) /\ TurnOf(m) \in Past(deal[m.by])
  /\ \A m, o \in made : TurnOf(m) = TurnOf(o) => m = o
  /\ \A r \in Seats : Apart(deal[r], early[r], Coming(r, flight), made)
  /\ \A pkt \in flight : pkt.copy = "gossip"

\* The streets begin when all seats at the table have the hole cards, a
\* sequence when its predecessor is finished; nobody is taken for gone who is
\* at the table.
Gates ==
  /\ \A q, r \in Seats \ silent : deal[q].at >= 2 => SequenceDone(deal[r], 1)
  /\ \A r \in Seats : mode[r] = "idle" \/ woken[r] => ~ deal[r].busy
  /\ \A r \in Seats : gone[r] \subseteq silent \ {r}

\* The inductive invariant.
DealInv == SecretInv /\ OneDeal /\ Gates

\* One copy of every peel, and nobody who deals is timed out; a showdown has
\* seen the streets.
OneCopyEach == Echoed = {} /\ Slow = {} /\ (Left = {} \/ LastStreet >= 1)

\* What a call finds.
LEMMA SettingNow ==
  ASSUME DealInv, NEW r \in Seats \ silent, NEW k, NEW absent, absent \subseteq silent \ {r},
         k < 2 => ~ SequenceDone(deal[r], 1)
  PROVE  Setting(r, k, absent, made)
<1>1. made \subseteq Peel /\ at \in [Seats -> 0 .. Len(Plan)]
  BY DEF DealInv, SecretInv, IInv, TypeOK
<1>2. \A m \in made : TurnOf(m) \in Shared!Turns /\ m.from = LayersBefore(TurnOf(m))
  BY PastIs DEF DealInv, OneDeal
<1>3. \A m, o \in made : TurnOf(m) = TurnOf(o) => m = o
  BY DEF DealInv, OneDeal
<1>4. ASSUME NEW m \in made, m.seat \in Mine(r, absent) PROVE m.by = r
  <2>1. m.by \in Seats \ silent /\ m.seat \in Seats
        /\ (m.seat = m.by \/ (m.seat \in silent /\ \A q \in Seats \ silent : m.by <= q))
    BY <1>1 DEF DealInv, OneDeal, Maker, Peel
  <2>2. CASE m.seat = r
    BY <2>1, <2>2
  <2>3. CASE m.seat \in absent /\ r = DesignatedSurvivor(absent)
    <3>1. m.by <= r
      BY <2>1, <2>3
    <3>2. m.by \in Seats \ absent
      BY <2>1
    <3>3. r <= m.by
      <4> DEFINE D == Seats \ absent
      <4>1. D \in SUBSET Nat /\ m.by \in D
        BY <3>2 DEF Seats
      <4>2. r = Least(D)
        BY <2>3 DEF DesignatedSurvivor
      <4> HIDE DEF D
      <4> QED BY <4>1, <4>2, LeastExists
    <3> QED BY <2>1, <3>1, <3>3 DEF Seats
  <2> QED BY <1>4, <2>2, <2>3 DEF Mine
<1>5. ASSUME k < 2, NEW m \in made PROVE m.at < 2
  <2> SUFFICES ASSUME ~ (m.at < 2) PROVE FALSE
    OBVIOUS
  <2>1. m.by \in Seats /\ m.by \notin silent /\ m.at \in Int
    BY <1>1, PlanTyped DEF DealInv, OneDeal, Maker, Peel
  <2>2. m.at <= at[m.by]
    BY DEF DealInv, SecretInv, MadeOK
  <2>3. deal[m.by].at = at[m.by] /\ at[m.by] \in Int
    BY <1>1, <2>1, PlanTyped DEF DealInv, SecretInv, SessionKnown
  <2>4. deal[m.by].at >= 2
    BY <2>1, <2>2, <2>3
  <2> QED BY <1>5, <2>1, <2>4 DEF DealInv, Gates
<1> QED BY <1>1, <1>2, <1>3, <1>4, <1>5 DEF Setting

\* Before a call the session has seen what its seat did.
LEMMA NowInStep ==
  ASSUME DealInv, NEW r \in Seats \ silent, NEW absent, NEW d, Past(d) = Past(deal[r]),
         d.pending \subseteq deal[r].pending, \A m \in d.pending : m.card = Job(d).card
  PROVE  InStep(Result(d, early[r], {}, FALSE), r, absent, made, Coming(r, flight))
<1> DEFINE x == Result(d, early[r], {}, FALSE)
<1>1. x.d = d /\ x.early = early[r] /\ x.own = {} /\ ~ x.err
  BY DEF Result
<1>2. Apart(deal[r], early[r], Coming(r, flight), made)
  BY DEF DealInv, OneDeal
<1>3. Apart(d, early[r], Coming(r, flight), made)
  BY <1>2, ApartKept
<1>4. made \cup {} = made
  OBVIOUS
<1>5. \A m \in made : m.by = r => TurnOf(m) \in Past(d)
  BY DEF DealInv, OneDeal
<1>6. Past(d) \subseteq TurnsOf(made)
  BY DEF DealInv, OneDeal
<1> HIDE DEF x
<1>7. InStep(x, r, absent, made, Coming(r, flight))
  BY <1>1, <1>3, <1>4, <1>5, <1>6 DEF InStep
<1> QED BY <1>7 DEF x

\* What a call writes back.
LEMMA InstallOneDeal ==
  ASSUME DealInv, Echoed = {}, NEW r \in Seats \ silent, NEW x, NEW k, NEW absent, NEW rest \in SUBSET flight,
         absent \subseteq silent \ {r}, Known(x, r, k, absent, made),
         InStep(x, r, absent, made, Coming(r, rest)), Install(r, x, rest), silent' = silent
  PROVE  OneDeal'
<1>1. /\ deal \in [Seats -> Session] /\ early \in [Seats -> Seq(Peel)]
      /\ made \subseteq Peel /\ flight \subseteq Packet
  BY DEF DealInv, SecretInv, IInv, TypeOK
<1>2. /\ deal' = [deal EXCEPT ![r] = x.d] /\ early' = [early EXCEPT ![r] = x.early]
      /\ made' = made \cup x.own /\ flight' \subseteq rest \cup SendPeel(r, x.own)
  BY DEF Install
<1>3. deal'[r] = x.d /\ early'[r] = x.early
      /\ \A q \in Seats \ {r} : deal'[q] = deal[q] /\ early'[q] = early[q]
  BY <1>1, <1>2
<1>4. TurnsOf(made) \subseteq TurnsOf(made')
  BY <1>2 DEF TurnsOf
<1>5. \A o \in x.own : TurnOf(o) \notin TurnsOf(made) /\ o \notin made
  BY DEF InStep, TurnsOf
<1>6. ASSUME NEW q \in Seats PROVE Past(deal'[q]) \subseteq TurnsOf(made')
  <2>1. CASE q = r
    BY <1>2, <1>3, <2>1 DEF InStep
  <2>2. CASE q # r
    <3>1. Past(deal[q]) \subseteq TurnsOf(made)
      BY DEF DealInv, OneDeal
    <3> QED BY <1>3, <1>4, <2>2, <3>1
  <2> QED BY <2>1, <2>2
<1>7. ASSUME NEW m \in made' PROVE Maker(m)' /\ TurnOf(m) \in Past(deal'[m.by])
  <2>1. CASE m \in made
    <3>1. Maker(m) /\ TurnOf(m) \in Past(deal[m.by]) /\ m.by \in Seats
      BY <1>1, <2>1 DEF DealInv, OneDeal, Peel
    <3>2. Maker(m)'
      BY <3>1 DEF Maker
    <3>3. TurnOf(m) \in Past(deal'[m.by])
      <4>1. CASE m.by = r
        <5>1. TurnOf(m) \in Past(x.d)
          BY <2>1, <4>1 DEF InStep
        <5> QED BY <1>3, <4>1, <5>1
      <4>2. CASE m.by # r
        BY <1>3, <3>1, <4>2
      <4> QED BY <4>1, <4>2
    <3> QED BY <3>2, <3>3
  <2>2. CASE m \in x.own
    <3>1. TurnOf(m) \in Past(x.d) /\ m.seat \in Mine(r, absent) /\ m.by = r
      BY <2>2 DEF InStep, Known
    <3>2. m.seat = r \/ (m.seat \in absent /\ r = DesignatedSurvivor(absent))
      BY <3>1 DEF Mine
    <3>3. r = DesignatedSurvivor(absent) => \A q \in Seats \ silent : r <= q
      <4> SUFFICES ASSUME r = DesignatedSurvivor(absent), NEW q \in Seats \ silent PROVE r <= q
        OBVIOUS
      <4> DEFINE D == Seats \ absent
      <4>1. D \in SUBSET Nat /\ q \in D
        BY DEF Seats
      <4>2. r = Least(D)
        BY DEF DesignatedSurvivor
      <4> HIDE DEF D
      <4> QED BY <4>1, <4>2, LeastExists
    <3>4. m.by \notin silent /\ (m.seat = m.by \/ (m.seat \in silent /\ \A q \in Seats \ silent : m.by <= q))
      BY <3>1, <3>2, <3>3
    <3>5. Maker(m)'
      BY <3>4 DEF Maker
    <3> QED BY <1>3, <3>1, <3>5
  <2> QED BY <1>2, <2>1, <2>2
<1>8. ASSUME NEW m \in made', NEW o \in made', TurnOf(m) = TurnOf(o) PROVE m = o
  <2>1. CASE m \in made /\ o \in made
    BY <1>8, <2>1 DEF DealInv, OneDeal
  <2>2. CASE m \in x.own /\ o \in x.own
    BY <1>8, <2>2 DEF InStep
  <2>3. \A p \in made : TurnOf(p) \in TurnsOf(made)
    BY DEF TurnsOf
  <2> QED BY <1>2, <1>5, <1>8, <2>1, <2>2, <2>3
<1>9. SendPeel(r, x.own) \subseteq [to : Seats \ {r}, msg : x.own, copy : {"gossip"}]
  BY DEF SendPeel
<1>10. ASSUME NEW q \in Seats PROVE Apart(deal'[q], early'[q], Coming(q, flight'), made')
  <2>1. CASE q = r
    <3>1. Coming(r, flight') \subseteq Coming(r, rest)
      BY <1>2, <1>9 DEF Coming
    <3>2. Apart(x.d, x.early, Coming(r, rest), made)
      BY DEF InStep
    <3>3. Apart(x.d, x.early, Coming(r, flight'), made)
      BY <3>1, <3>2, ApartKept
    <3>4. Apart(x.d, x.early, Coming(r, flight'), made')
      BY <1>2, <3>3 DEF Apart
    <3> QED BY <1>3, <2>1, <3>4
  <2>2. CASE q # r
    <3>1. Coming(q, flight') \subseteq Coming(q, flight) \cup x.own
      BY <1>2, <1>9 DEF Coming
    <3>2. Apart(deal[q], early[q], Coming(q, flight), made)
      BY DEF DealInv, OneDeal
    <3>3. \A o \in x.own : TurnOf(o) \notin Past(deal[q]) /\ o \notin made
      BY <1>5 DEF DealInv, OneDeal
    <3> DEFINE C == Coming(q, flight')
               D == Coming(q, flight)
    <3>4. \A m \in deal[q].pending \cup Parked(early[q]) \cup C : m \in made' /\ TurnOf(m) \notin Past(deal[q])
      BY <1>2, <3>1, <3>2, <3>3 DEF Apart
    <3>5. C \cap (deal[q].pending \cup Parked(early[q])) = {}
      <4> HIDE DEF C, D
      <4>1. \A m \in deal[q].pending \cup Parked(early[q]) : m \in made /\ m \notin D
        BY <3>2 DEF Apart, D
      <4>2. C \subseteq D \cup x.own
        BY <3>1 DEF C, D
      <4> QED BY <3>3, <4>1, <4>2
    <3> HIDE DEF C
    <3>6. Apart(deal[q], early[q], C, made')
      BY <3>2, <3>4, <3>5 DEF Apart
    <3> QED BY <1>3, <2>2, <3>6 DEF C
  <2> QED BY <2>1, <2>2
<1>11. ASSUME NEW pkt \in flight' PROVE pkt.copy = "gossip"
  <2>1. CASE pkt \in rest
    BY <2>1 DEF DealInv, OneDeal
  <2>2. CASE pkt \in SendPeel(r, x.own)
    BY <1>9, <2>2
  <2> QED BY <1>2, <2>1, <2>2
<1>12. ASSUME NEW q \in Seats, NEW m \in deal'[q].pending PROVE m.card = Job(deal'[q]).card
  <2>1. CASE q = r
    BY <1>3, <1>12, <2>1 DEF InStep
  <2>2. CASE q # r
    BY <1>3, <1>12, <2>2 DEF DealInv, OneDeal
  <2> QED BY <2>1, <2>2
<1>13. ASSUME NEW m \in made' PROVE m.from = LayersBefore(TurnOf(m))
  BY <1>2 DEF DealInv, OneDeal, InStep
<1> QED BY <1>6, <1>7, <1>8, <1>10, <1>11, <1>12, <1>13 DEF OneDeal

\* A call plays turns of its seat and of seats it peels for, after all that
\* come before them.
LEMMA CallPlays ==
  ASSUME NEW r \in Seats, NEW x, NEW k, NEW absent, NEW rest, absent \subseteq Suspects,
         Known(x, r, k, absent, made), InStep(x, r, absent, made, Coming(r, rest)),
         Install(r, x, rest), silent' = silent
  PROVE  (\E s \in Shared!Seats : Shared!Play(s)) \/ (TurnsOf(made)' = TurnsOf(made) /\ Suspects' = Suspects)
<1> DEFINE done == TurnsOf(made)
           next == TurnsOf(made)'
           new == next \ done
<1>1. made' = made \cup x.own /\ Suspects' = Suspects
  BY DEF Install, Suspects
<1>2. next = TurnsOf(made \cup x.own) /\ done \subseteq next
  BY <1>1 DEF TurnsOf
<1>3. \A t \in new : \E m \in x.own : t = TurnOf(m)
  BY <1>1 DEF TurnsOf
<1>4. ASSUME NEW t \in new
      PROVE  /\ t \in Shared!Turns /\ t.seat \in {r} \cup Suspects
             /\ \A u \in Shared!Turns : Shared!Before(u, t) => u \in next
  <2>1. PICK m \in x.own : t = TurnOf(m)
    BY <1>3
  <2>2. t \in Past(x.d) /\ m.seat \in {r} \cup absent /\ Whole(x.d)
    BY <2>1 DEF InStep, Known, Fine
  <2>3. t \in Shared!Turns /\ t.seat = m.seat
    BY <2>1, <2>2, PastIs DEF TurnOf
  <2>4. Past(x.d) \subseteq next
    BY <1>2 DEF InStep
  <2>5. \A u \in Shared!Turns : Shared!Before(u, t) => u \in Past(x.d)
    BY <2>2, PastClosed
  <2> QED BY <2>2, <2>3, <2>4, <2>5
<1>5. CASE new = {}
  <2>1. next = done
    BY <1>2, <1>5
  <2> QED BY <1>1, <2>1
<1>6. CASE new # {}
  <2>1. done = {[at |-> m.at, card |-> m.card, seat |-> m.seat] : m \in made}
    BY DEF TurnsOf, TurnOf
  <2>2. next = {[at |-> m.at, card |-> m.card, seat |-> m.seat] : m \in made}'
    BY DEF TurnsOf, TurnOf
  <2> HIDE DEF done, next
  <2>3. Shared!Play(r)
    BY <1>1, <1>2, <1>4, <1>6, <2>1, <2>2 DEF Shared!Play
  <2> QED BY <2>3 DEF Shared!Seats, Seats
<1> QED BY <1>5, <1>6

\* A session that deals no card is left as it is.
LEMMA SettleIdle ==
  ASSUME NEW x, ~ x.d.busy, NEW r, NEW helped
  PROVE  Settle(x, r, helped) = x
<1>1. PICK u, n : SettlesTo(u, n, x, r, helped)
  BY SettleIsTurns
<1>2. n \in Nat /\ Settle(x, r, helped) = u[n]
  BY <1>1 DEF SettlesTo
<1>3. u[0] = x /\ \A i \in 1 .. n : u[i] = Turn(u[i - 1], r, helped)
  BY <1>1 DEF SettlesTo
<1>4. Turn(x, r, helped) = x
  BY DEF Turn
<1> DEFINE T == {i \in Nat : i <= n => u[i] = x}
<1>5. 0 \in T
  BY <1>3
<1>6. ASSUME NEW i \in T PROVE i + 1 \in T
  <2> SUFFICES ASSUME i + 1 <= n PROVE u[i + 1] = x
    OBVIOUS
  <2>1. u[i] = x /\ i + 1 \in 1 .. n /\ (i + 1) - 1 = i
    BY <1>2
  <2>2. u[i + 1] = Turn(u[i], r, helped)
    BY <1>3, <2>1
  <2> QED BY <1>4, <2>1, <2>2
<1>7. T = Nat
  <2> HIDE DEF T
  <2>1. T \in SUBSET Nat
    BY DEF T
  <2> QED BY <1>5, <1>6, <2>1, SetInduction
<1> QED BY <1>2, <1>7

\* Whether a seat has the hole cards depends on where its session is.
LEMMA HolesDone ==
  ASSUME NEW d
  PROVE  SequenceDone(d, 1) <=> d.at > 1 \/ (d.at = 1 /\ ~ d.busy)
  BY DEF SequenceDone

\* A call that leaves the seat in its sequence, and idle if it was.
LEMMA GatesKept ==
  ASSUME DealInv, SecretInv', NEW r \in Seats, UNCHANGED <<at, silent>>,
         \A q \in Seats \ {r} : deal'[q] = deal[q] /\ woken'[q] = woken[q],
         \A q \in Seats : mode'[q] = "idle" => mode[q] = "idle" \/ ~ deal'[q].busy,
         ~ deal[r].busy => ~ deal'[r].busy,
         woken'[r] => woken[r] \/ ~ deal'[r].busy,
         \A q \in Seats : gone'[q] \subseteq silent \ {q}
  PROVE  Gates'
<1>1. \A q \in Seats : deal[q].at = at[q] /\ deal'[q].at = at[q]
  BY DEF DealInv, SecretInv, SessionKnown
<1>2. \A q \in Seats : ~ deal[q].busy => ~ deal'[q].busy
  OBVIOUS
<1>3. \A q \in Seats : SequenceDone(deal[q], 1) => SequenceDone(deal'[q], 1)
  BY <1>1, <1>2, HolesDone
<1>4. ASSUME NEW q \in Seats \ silent', NEW p \in Seats \ silent', deal'[q].at >= 2
      PROVE  SequenceDone(deal'[p], 1)
  <2>1. deal[q].at >= 2
    BY <1>1, <1>4
  <2>2. SequenceDone(deal[p], 1)
    BY <1>4, <2>1 DEF DealInv, Gates
  <2> QED BY <1>3, <2>2
<1>5. ASSUME NEW q \in Seats, mode'[q] = "idle" \/ woken'[q] PROVE ~ deal'[q].busy
  <2>1. mode[q] = "idle" \/ woken[q] => ~ deal[q].busy
    BY DEF DealInv, Gates
  <2>2. woken'[q] => woken[q] \/ ~ deal'[q].busy
    OBVIOUS
  <2> QED BY <1>2, <1>5, <2>1, <2>2
<1> QED BY <1>4, <1>5 DEF Gates

\* The streets begin when the seats at the table have the hole cards.
LEMMA StreetsBegin ==
  ASSUME DealInv, OneCopyEach, NEW r \in Seats \ silent, NEW k \in 2 .. Len(Plan),
         StartSequence(r, k), StartHoles(r) \/ StartStreet(r) \/ StartReveal(r)
  PROVE  \A p \in Seats \ silent : SequenceDone(deal[p], 1)
<1>1. at[r] = k - 1 /\ at \in [Seats -> 0 .. Len(Plan)] /\ deal[r].at = at[r]
      /\ k \in Int
  BY PlanTyped DEF StartSequence, DealInv, SecretInv, IInv, TypeOK, SessionKnown
<1>2. CASE k >= 3
  <2>1. deal[r].at >= 2
    BY <1>1, <1>2
  <2> QED BY <2>1 DEF DealInv, Gates
<1>3. CASE k = 2
  <2>1. at[r] = 1
    BY <1>1, <1>3
  <2>2. ~ StartHoles(r)
    <3> SUFFICES ASSUME StartHoles(r) PROVE FALSE
      OBVIOUS
    <3>1. at[r] = 1 - 1
      BY DEF StartHoles, StartSequence
    <3> QED BY <2>1, <3>1
  <2>3. ~ StartReveal(r)
    <3> SUFFICES ASSUME StartReveal(r) PROVE FALSE
      OBVIOUS
    <3>1. PICK i \in 1 .. Cardinality(Left) : StartSequence(r, 1 + LastStreet + i)
      BY DEF StartReveal
    <3>2. at[r] = (1 + LastStreet + i) - 1
      BY <3>1 DEF StartSequence
    <3>3. LastStreet = 0
      BY <2>1, <3>2, DealAssumption
    <3>4. Left = {}
      BY <3>3 DEF OneCopyEach
    <3>5. Cardinality({}) = 0
      BY FS_EmptySet
    <3> QED BY <3>4, <3>5
  <2>4. PICK street \in 1 .. LastStreet :
             /\ street = 1 => \A q \in Seats \ Suspects : SequenceDone(deal[q], 1)
             /\ StartSequence(r, 1 + street)
    BY <2>2, <2>3 DEF StartStreet
  <2>5. at[r] = (1 + street) - 1
    BY <2>4 DEF StartSequence
  <2>6. street = 1
    BY <2>1, <2>5, DealAssumption
  <2>7. Suspects = silent
    BY DEF Suspects, OneCopyEach
  <2> QED BY <2>4, <2>6, <2>7
<1> QED BY <1>1, <1>2, <1>3

\* The call that begins a sequence.
LEMMA StartFits ==
  ASSUME DealInv, NEW r \in Seats \ silent, NEW k \in 1 .. Len(Plan), at[r] = k - 1, mode[r] = "idle"
  PROVE  LET x == FollowUp(Settle(Result(InstallJob(deal[r], k, 1), early[r], {}, FALSE), r, {}), r, gone[r])
         IN  /\ Known(x, r, k, gone[r], made)
             /\ InStep(x, r, gone[r], made, Coming(r, flight))
<1> DEFINE d == InstallJob(deal[r], k, 1)
           begun == Result(d, early[r], {}, FALSE)
           y == Settle(begun, r, {})
<1>1. /\ deal[r] \in Session /\ at \in [Seats -> 0 .. Len(Plan)] /\ early[r] \in Seq(Peel)
      /\ k \in Int /\ deal \in [Seats -> Session] /\ woken \in [Seats -> BOOLEAN]
      /\ mode \in [Seats -> {"idle", "started", "waiting", "deaf", "failed"}]
  BY PlanTyped DEF DealInv, SecretInv, IInv, TypeOK
<1>2. Whole(d)
  <2>1. \A c \in deal[r].read : c.layers = Seats
    BY DEF DealInv, SecretInv, IInv, Whole
  <2>2. 1 \in 1 .. Len(Plan[k])
    BY PlanTyped
  <2> QED BY <1>1, <2>1, <2>2, InstallWhole
<1>3. d.at = k /\ d.pending = {} /\ d.current = {}
  BY <1>1 DEF InstallJob, Session
<1>4. ~ deal[r].busy /\ deal[r].at = k - 1
  BY DEF DealInv, Gates, SecretInv, SessionKnown
<1>5. Past(d) = Past(deal[r])
  BY <1>1, <1>4, InstallPast
<1> HIDE DEF d
<1>6. gone[r] \subseteq silent \ {r}
  BY DEF DealInv, Gates
<1>7. Setting(r, k, gone[r], made)
  <2>1. k < 2 => ~ SequenceDone(deal[r], 1)
    BY <1>1, <1>4, HolesDone
  <2> QED BY <1>6, <2>1, SettingNow
<1>8. InStep(begun, r, gone[r], made, Coming(r, flight))
  BY <1>3, <1>5, NowInStep
<1>9. Known(begun, r, k, gone[r], made)
  <2>1. Fine(begun)
    BY <1>1, <1>2 DEF Fine, CallType, Result, Whole
  <2>2. begun.d = d /\ begun.early = early[r] /\ begun.own = {}
    BY DEF Result
  <2>3. \A i \in 1 .. Len(early[r]) : early[r][i] \in made
    BY DEF DealInv, SecretInv
  <2>4. made \cup {} = made
    OBVIOUS
  <2>5. SessionKnown(d, k, made)
    BY <1>3 DEF SessionKnown, Covered
  <2> HIDE DEF begun
  <2> QED BY <2>1, <2>2, <2>3, <2>4, <2>5 DEF Known
<1> HIDE DEF begun
<1>10. Known(y, r, k, gone[r], made) /\ InStep(y, r, gone[r], made, Coming(r, flight))
  BY <1>7, <1>8, <1>9, SettleKnown, SettleInStep
<1> HIDE DEF y
<1>11. /\ Known(FollowUp(y, r, gone[r]), r, k, gone[r], made)
       /\ InStep(FollowUp(y, r, gone[r]), r, gone[r], made, Coming(r, flight))
  BY <1>7, <1>10, FollowUpKnown, FollowUpInStep
<1> QED BY <1>11 DEF y, begun, d

LEMMA StartSequenceOne ==
  ASSUME DealInv, SecretInv', OneCopyEach, NEW r \in Seats \ silent, NEW k \in 1 .. Len(Plan),
         StartSequence(r, k), StartHoles(r) \/ StartStreet(r) \/ StartReveal(r)
  PROVE  /\ DealInv'
         /\ \/ \E s \in Shared!Seats : Shared!Play(s)
            \/ TurnsOf(made)' = TurnsOf(made) /\ Suspects' = Suspects
<1> DEFINE x == FollowUp(Settle(Result(InstallJob(deal[r], k, 1), early[r], {}, FALSE), r, {}), r, gone[r])
<1>1. /\ deal[r] \in Session /\ at \in [Seats -> 0 .. Len(Plan)] /\ early[r] \in Seq(Peel)
      /\ k \in Int /\ deal \in [Seats -> Session] /\ woken \in [Seats -> BOOLEAN]
      /\ mode \in [Seats -> {"idle", "started", "waiting", "deaf", "failed"}]
  BY PlanTyped DEF DealInv, SecretInv, IInv, TypeOK
<1>2. /\ Install(r, x, flight) /\ at[r] = k - 1 /\ mode[r] = "idle"
      /\ at' = [at EXCEPT ![r] = k] /\ UNCHANGED <<gone, silent>>
      /\ mode' = [mode EXCEPT ![r] = IF x.err THEN "failed" ELSE "started"]
      /\ woken' = [woken EXCEPT ![r] = SignalPeelProgress(x, k)]
  BY DEF StartSequence
<1>3. ~ deal[r].busy /\ deal[r].at = k - 1
  BY <1>2 DEF DealInv, Gates, SecretInv, SessionKnown
<1>4. gone[r] \subseteq silent \ {r}
  BY DEF DealInv, Gates
<1>5. Known(x, r, k, gone[r], made) /\ InStep(x, r, gone[r], made, Coming(r, flight))
  BY <1>2, StartFits
<1> HIDE DEF x
<1>6. OneDeal'
  BY <1>2, <1>4, <1>5, InstallOneDeal DEF OneCopyEach
<1>7. \/ \E s \in Shared!Seats : Shared!Play(s)
      \/ TurnsOf(made)' = TurnsOf(made) /\ Suspects' = Suspects
  <2>1. gone[r] \subseteq Suspects
    BY <1>4 DEF Suspects
  <2> QED BY <1>2, <1>5, <2>1, CallPlays
<1>8. deal'[r] = x.d /\ \A q \in Seats \ {r} : deal'[q] = deal[q] /\ woken'[q] = woken[q] /\ mode'[q] = mode[q]
  BY <1>1, <1>2 DEF Install
<1>9. x.d.at = k /\ mode'[r] # "idle" /\ (woken'[r] => ~ x.d.busy)
  <2>1. x.d.at = k
    BY <1>5 DEF Known, SessionKnown
  <2>2. mode'[r] # "idle"
    BY <1>1, <1>2
  <2>3. woken'[r] = SignalPeelProgress(x, k)
    BY <1>1, <1>2
  <2>4. SignalPeelProgress(x, k) => ~ x.d.busy
    BY <1>1, <2>1 DEF SignalPeelProgress, SequenceDone
  <2> QED BY <2>1, <2>2, <2>3, <2>4
<1>10. Gates'
  <2>1. ASSUME NEW q \in Seats \ silent, NEW p \in Seats \ silent, deal'[q].at >= 2
        PROVE  SequenceDone(deal'[p], 1)
    <3>1. k >= 2 => \A s \in Seats \ silent : SequenceDone(deal[s], 1)
      <4> SUFFICES ASSUME k >= 2 PROVE \A s \in Seats \ silent : SequenceDone(deal[s], 1)
        OBVIOUS
      <4>1. k \in 2 .. Len(Plan)
        OBVIOUS
      <4> QED BY <4>1, StreetsBegin
    <3>2. \A s \in Seats \ silent : SequenceDone(deal[s], 1)
      <4>1. CASE q = r
        BY <1>8, <1>9, <2>1, <3>1, <4>1
      <4>2. CASE q # r
        <5>1. deal[q].at >= 2
          BY <1>8, <2>1, <4>2
        <5> QED BY <5>1 DEF DealInv, Gates
      <4> QED BY <4>1, <4>2
    <3>3. CASE p = r
      <4>1. k - 1 > 1 \/ k - 1 = 1
        BY <1>3, <3>2, HolesDone
      <4> QED BY <1>1, <1>8, <1>9, <3>3, <4>1, HolesDone
    <3>4. CASE p # r
      BY <1>8, <3>2, <3>4
    <3> QED BY <3>3, <3>4
  <2>2. ASSUME NEW q \in Seats, mode'[q] = "idle" \/ woken'[q] PROVE ~ deal'[q].busy
    <3>1. CASE q = r
      BY <1>8, <1>9, <2>2, <3>1
    <3>2. CASE q # r
      BY <1>8, <2>2, <3>2 DEF DealInv, Gates
    <3> QED BY <3>1, <3>2
  <2>3. \A q \in Seats : gone'[q] \subseteq silent' \ {q}
    BY <1>2 DEF DealInv, Gates
  <2>4. silent' = silent
    BY <1>2
  <2> QED BY <2>1, <2>2, <2>3, <2>4 DEF Gates
<1> QED BY <1>6, <1>7, <1>10 DEF DealInv

\* A call in the sequence a seat has come to.
LEMMA CallOne ==
  ASSUME DealInv, SecretInv', OneCopyEach, NEW r \in Seats \ silent, NEW x, NEW absent,
         absent \subseteq silent \ {r}, NEW rest \in SUBSET flight,
         Known(x, r, at[r], absent, made), InStep(x, r, absent, made, Coming(r, rest)),
         Install(r, x, rest), UNCHANGED <<at, mode, silent>>,
         ~ deal[r].busy => ~ x.d.busy,
         NEW signal \in BOOLEAN, signal => SignalPeelProgress(x, at[r]),
         woken' = [woken EXCEPT ![r] = @ \/ signal],
         \A q \in Seats : gone'[q] \subseteq silent \ {q}
  PROVE  /\ DealInv'
         /\ \/ \E s \in Shared!Seats : Shared!Play(s)
            \/ TurnsOf(made)' = TurnsOf(made) /\ Suspects' = Suspects
<1>1. deal \in [Seats -> Session] /\ woken \in [Seats -> BOOLEAN]
  BY DEF DealInv, SecretInv, IInv, TypeOK
<1>2. OneDeal'
  BY InstallOneDeal DEF OneCopyEach
<1>3. \/ \E s \in Shared!Seats : Shared!Play(s)
      \/ TurnsOf(made)' = TurnsOf(made) /\ Suspects' = Suspects
  <2>1. absent \subseteq Suspects
    BY DEF Suspects
  <2> QED BY <2>1, CallPlays
<1>4. deal'[r] = x.d /\ \A q \in Seats \ {r} : deal'[q] = deal[q] /\ woken'[q] = woken[q]
  BY <1>1 DEF Install
<1>5. woken'[r] => woken[r] \/ ~ deal'[r].busy
  <2>1. woken'[r] = (woken[r] \/ signal)
    BY <1>1
  <2>2. SignalPeelProgress(x, at[r]) => SequenceDone(x.d, at[r])
    BY DEF SignalPeelProgress
  <2>3. x.d.at = at[r]
    BY DEF Known, SessionKnown
  <2>4. at[r] \in Int
    BY PlanTyped DEF DealInv, SecretInv, IInv, TypeOK
  <2>5. SequenceDone(x.d, at[r]) => ~ x.d.busy
    BY <2>3, <2>4 DEF SequenceDone
  <2> QED BY <1>4, <2>1, <2>2, <2>5
<1>6. Gates'
  <2>1. UNCHANGED <<at, silent>>
    OBVIOUS
  <2>2. \A q \in Seats : mode'[q] = "idle" => mode[q] = "idle" \/ ~ deal'[q].busy
    OBVIOUS
  <2>3. ~ deal[r].busy => ~ deal'[r].busy
    BY <1>4
  <2> QED BY <1>4, <1>5, <2>1, <2>2, <2>3, GatesKept
<1> QED BY <1>2, <1>3, <1>6 DEF DealInv

\* What a seat finds when a peel comes.
LEMMA PeelComes ==
  ASSUME DealInv, NEW r \in Seats \ silent, NEW pkt \in flight, pkt.to = r
  PROVE  LET now  == Result(deal[r], early[r], {}, FALSE)
             rest == flight \ {pkt}
         IN  /\ pkt.msg \in Peel /\ pkt.msg \in made /\ pkt.msg \notin Coming(r, rest)
             /\ Known(now, r, at[r], gone[r], made)
             /\ InStep(now, r, gone[r], made, Coming(r, rest) \cup {pkt.msg})
<1> DEFINE now == Result(deal[r], early[r], {}, FALSE)
           m == pkt.msg
           rest == flight \ {pkt}
<1>1. m \in Peel /\ m \in made /\ flight \subseteq Packet
  BY DEF DealInv, SecretInv, IInv, TypeOK, Packet
<1>2. Coming(r, flight) = Coming(r, rest) \cup {m}
  BY DEF Coming
<1>3. m \notin Coming(r, rest)
  <2> SUFFICES ASSUME NEW other \in rest, other.to = r, other.msg = m PROVE FALSE
    BY DEF Coming
  <2>1. other \in Packet /\ pkt \in Packet /\ other.copy = "gossip" /\ pkt.copy = "gossip"
    BY <1>1 DEF DealInv, OneDeal
  <2>2. other = pkt
    BY <2>1 DEF Packet
  <2> QED BY <2>2
<1>4. Known(now, r, at[r], gone[r], made)
  BY NowKnown DEF DealInv
<1>5. InStep(now, r, gone[r], made, Coming(r, rest) \cup {m})
  <2>1. \A h \in deal[r].pending : h.card = Job(deal[r]).card
    BY DEF DealInv, OneDeal
  <2> HIDE DEF now
  <2>2. InStep(now, r, gone[r], made, Coming(r, flight))
    BY <2>1, NowInStep DEF now
  <2> QED BY <1>2, <2>2
<1> QED BY <1>1, <1>3, <1>4, <1>5

\* The call that takes a peel.
LEMMA PeelFits ==
  ASSUME DealInv, NEW r \in Seats \ silent, NEW pkt \in flight, pkt.to = r,
         ~ Premature(deal[r], pkt.msg)
  PROVE  LET x == FollowUp(SessionPeel(Result(deal[r], early[r], {}, FALSE), r, pkt.msg), r, gone[r])
         IN  /\ Known(x, r, at[r], gone[r], made)
             /\ InStep(x, r, gone[r], made, Coming(r, flight \ {pkt}))
<1> DEFINE now == Result(deal[r], early[r], {}, FALSE)
           m == pkt.msg
           rest == flight \ {pkt}
           y == SessionPeel(now, r, m)
<1>1. /\ m \in Peel /\ m \in made /\ m \notin Coming(r, rest)
      /\ Known(now, r, at[r], gone[r], made)
      /\ InStep(now, r, gone[r], made, Coming(r, rest) \cup {m})
  BY PeelComes
<1>2. now.d = deal[r] /\ deal[r].busy /\ m.card = Job(deal[r]).card
  BY DEF Premature, ValidateIncoming, Result
<1>3. gone[r] \subseteq silent \ {r}
  BY DEF DealInv, Gates
<1>4. at[r] < 2 => ~ SequenceDone(deal[r], 1)
  <2>1. deal[r].at = at[r] /\ deal \in [Seats -> Session]
    BY DEF DealInv, SecretInv, SessionKnown, IInv, TypeOK
  <2>2. deal[r].at \in Nat
    BY <2>1, PlanTyped DEF Session
  <2> QED BY <1>2, <2>1, <2>2, HolesDone
<1>5. Setting(r, at[r], gone[r], made)
  BY <1>3, <1>4, SettingNow
<1> HIDE DEF now, m, rest
<1>6. Known(y, r, at[r], gone[r], made) /\ InStep(y, r, gone[r], made, Coming(r, rest))
  BY <1>1, <1>2, <1>5, SessionPeelKnown, SessionPeelInStep
<1> HIDE DEF y
<1>7. /\ Known(FollowUp(y, r, gone[r]), r, at[r], gone[r], made)
      /\ InStep(FollowUp(y, r, gone[r]), r, gone[r], made, Coming(r, rest))
  BY <1>5, <1>6, FollowUpKnown, FollowUpInStep
<1> QED BY <1>7 DEF y, now, m, rest

LEMMA HandlePeelOne ==
  ASSUME DealInv, SecretInv', OneCopyEach, NEW r \in Seats \ silent, NEW pkt \in flight,
         HandlePeel(r, pkt)
  PROVE  /\ DealInv'
         /\ \/ \E s \in Shared!Seats : Shared!Play(s)
            \/ TurnsOf(made)' = TurnsOf(made) /\ Suspects' = Suspects
<1> DEFINE now == Result(deal[r], early[r], {}, FALSE)
           m == pkt.msg
           rest == flight \ {pkt}
           parked == Park(early[r], m)
           premature == Premature(deal[r], m)
           x == IF premature THEN [now EXCEPT !.early = Park(@, m)]
                ELSE FollowUp(SessionPeel(now, r, m), r, gone[r])
           signal == ~ premature /\ SignalPeelProgress(x, at[r])
<1>1. /\ early[r] \in Seq(Peel) /\ woken \in [Seats -> BOOLEAN]
      /\ now.d = deal[r] /\ now.early = early[r]
  BY DEF DealInv, SecretInv, IInv, TypeOK, Result
<1>2. /\ Install(r, x, rest) /\ UNCHANGED <<gone, at, mode, silent>> /\ pkt.to = r
      /\ woken' = [woken EXCEPT ![r] = @ \/ signal]
  BY DEF HandlePeel
<1>3. /\ m \in Peel /\ m \in made /\ m \notin Coming(r, rest)
      /\ Known(now, r, at[r], gone[r], made)
      /\ InStep(now, r, gone[r], made, Coming(r, rest) \cup {m})
  BY <1>2, PeelComes
<1>4. premature => x = [now EXCEPT !.early = parked] /\ now \in CallType
  BY <1>1, <1>3 DEF Known, Fine, CallType
<1>5. ~ premature => /\ Known(x, r, at[r], gone[r], made)
                     /\ InStep(x, r, gone[r], made, Coming(r, rest))
  BY <1>2, PeelFits
<1>6. ~ deal[r].busy => premature
  BY DEF Premature
<1>7. gone[r] \subseteq silent \ {r}
  BY DEF DealInv, Gates
<1> HIDE DEF now, m, rest, signal, x, premature
<1>8. ASSUME premature
      PROVE  /\ x.d = deal[r] /\ Known(x, r, at[r], gone[r], made)
             /\ InStep(x, r, gone[r], made, Coming(r, rest))
  <2>1. /\ parked \in Seq(Peel)
        /\ \A i \in 1 .. Len(parked) : parked[i] \in made
    BY <1>1, <1>3, ParkKnown DEF DealInv, SecretInv
  <2>2. x.d = deal[r] /\ parked = Park(now.early, m)
    BY <1>1, <1>4, <1>8 DEF CallType
  <2> HIDE DEF parked
  <2>3. Known(x, r, at[r], gone[r], made)
    BY <1>3, <1>4, <1>8, <2>1, EarlyKnown
  <2>4. InStep(x, r, gone[r], made, Coming(r, rest))
    BY <1>1, <1>3, <1>4, <1>8, <2>2, ParkInStep
  <2> QED BY <2>2, <2>3, <2>4
<1>9. /\ Known(x, r, at[r], gone[r], made) /\ InStep(x, r, gone[r], made, Coming(r, rest))
      /\ ~ deal[r].busy => ~ x.d.busy
  BY <1>5, <1>6, <1>8
<1>10. signal \in BOOLEAN /\ (signal => SignalPeelProgress(x, at[r]))
  BY DEF signal, SignalPeelProgress, SequenceDone, premature, Premature
<1>11. \A q \in Seats : gone'[q] \subseteq silent \ {q}
  BY <1>2 DEF DealInv, Gates
<1>12. rest \in SUBSET flight
  BY DEF rest
<1> QED BY <1>2, <1>7, <1>9, <1>10, <1>11, <1>12, CallOne

\* The call that peels for those who left.
LEMMA RecoverFits ==
  ASSUME DealInv, NEW r \in Seats \ silent, NEW absent, absent \subseteq silent \ {r}
  PROVE  LET x == Delegate(Result(deal[r], early[r], {}, FALSE), r, absent)
         IN  /\ Known(x, r, at[r], absent, made) /\ InStep(x, r, absent, made, Coming(r, flight))
             /\ ~ deal[r].busy => ~ x.d.busy
<1> DEFINE now == Result(deal[r], early[r], {}, FALSE)
           x == Delegate(now, r, absent)
<1>1. now.d = deal[r] /\ \A m \in deal[r].pending : m.card = Job(deal[r]).card
  BY DEF DealInv, OneDeal, Result
<1>2. Known(now, r, at[r], absent, made)
  BY NowKnown DEF DealInv
<1>3. InStep(now, r, absent, made, Coming(r, flight))
  BY <1>1, NowInStep
<1> HIDE DEF now
<1>4. CASE deal[r].busy
  <2>1. at[r] < 2 => ~ SequenceDone(deal[r], 1)
    <3>1. deal[r].at = at[r] /\ at[r] \in Int
      BY PlanTyped DEF DealInv, SecretInv, SessionKnown, IInv, TypeOK
    <3> QED BY <1>4, <3>1, HolesDone
  <2>2. Setting(r, at[r], absent, made)
    BY <2>1, SettingNow
  <2>3. Known(x, r, at[r], absent, made) /\ InStep(x, r, absent, made, Coming(r, flight))
    BY <1>2, <1>3, <2>2, DelegateKnown, DelegateInStep
  <2> HIDE DEF x
  <2>4. LET z == x IN /\ Known(z, r, at[r], absent, made) /\ InStep(z, r, absent, made, Coming(r, flight))
                      /\ ~ deal[r].busy => ~ z.d.busy
    BY <1>4, <2>3
  <2> QED BY <2>4 DEF x, now
<1>5. CASE ~ deal[r].busy
  <2>1. x = now
    BY <1>1, <1>5, SettleIdle DEF Delegate
  <2> QED BY <1>1, <1>2, <1>3, <1>5, <2>1 DEF now
<1> QED BY <1>4, <1>5

\* A survivor peels for the seats that left, when it deals.
LEMMA RecoverOne ==
  ASSUME DealInv, SecretInv', OneCopyEach, NEW r \in Seats \ silent, NEW g \in Suspects,
         Recover(r, g)
  PROVE  /\ DealInv'
         /\ \/ \E s \in Shared!Seats : Shared!Play(s)
            \/ TurnsOf(made)' = TurnsOf(made) /\ Suspects' = Suspects
<1> DEFINE now == Result(deal[r], early[r], {}, FALSE)
           absent == gone'[r]
           x == Delegate(now, r, absent)
           signal == x.own # {} /\ SignalPeelProgress(x, at[r])
<1>1. /\ Install(r, x, flight) /\ UNCHANGED <<at, mode, silent>> /\ g # r
      /\ gone' = [gone EXCEPT ![r] = @ \cup {g}]
      /\ woken' = [woken EXCEPT ![r] = @ \/ signal]
  BY DEF Recover, MarkGone
<1>2. /\ deal \in [Seats -> Session] /\ at \in [Seats -> 0 .. Len(Plan)]
      /\ gone \in [Seats -> SUBSET Seats] /\ now.d = deal[r]
  BY DEF DealInv, SecretInv, IInv, TypeOK, Result
<1>3. g \in silent
  BY DEF Suspects, OneCopyEach
<1>4. \A q \in Seats : gone'[q] \subseteq silent \ {q}
  <2>1. \A q \in Seats : gone[q] \subseteq silent \ {q}
    BY DEF DealInv, Gates
  <2> QED BY <1>1, <1>2, <1>3, <2>1
<1> HIDE DEF now, absent, signal
<1>7. /\ Known(x, r, at[r], absent, made) /\ InStep(x, r, absent, made, Coming(r, flight))
      /\ ~ deal[r].busy => ~ x.d.busy
  <2>1. absent \subseteq silent \ {r}
    BY <1>4 DEF absent
  <2> QED BY <2>1, RecoverFits DEF now
<1> HIDE DEF x
<1>8. signal \in BOOLEAN /\ (signal => SignalPeelProgress(x, at[r]))
  BY DEF signal, SignalPeelProgress, SequenceDone
<1>9. absent \subseteq silent \ {r}
  BY <1>4 DEF absent
<1> QED BY <1>1, <1>4, <1>7, <1>8, <1>9, CallOne

\* The driver waits, wakes up, misses its gate or gives up.
LEMMA DriverOne ==
  ASSUME DealInv, SecretInv', NEW r \in Seats \ silent,
         \/ WaitHoles(r) \/ WaitStreet(r) \/ WaitReveal(r) \/ Wake(r)
         \/ Kick(r) \/ DealTimeout(r)
  PROVE  DealInv' /\ TurnsOf(made)' = TurnsOf(made) /\ Suspects' = Suspects
<1>1. UNCHANGED <<deal, early, gone, at, woken, made, flight, silent>>
  BY DEF WaitHoles, WaitStreet, WaitReveal, WaitSequence, Wake, Kick, DealTimeout
<1>2. mode \in [Seats -> {"idle", "started", "waiting", "deaf", "failed"}] /\ deal[r].at = at[r]
      /\ at[r] \in Int
  BY PlanTyped DEF DealInv, SecretInv, IInv, TypeOK, SessionKnown
<1>3. ASSUME NEW q \in Seats, mode'[q] = "idle" PROVE mode[q] = "idle" \/ ~ deal'[q].busy
  <2>1. CASE WaitSequence(r)
    <3>1. mode' = [mode EXCEPT ![r] = IF SequenceDone(deal[r], at[r]) THEN "idle" ELSE "waiting"]
      BY <2>1 DEF WaitSequence
    <3>2. CASE q = r
      <4>1. SequenceDone(deal[r], at[r])
        BY <1>2, <1>3, <3>1, <3>2
      <4> QED BY <1>1, <1>2, <3>2, <4>1 DEF SequenceDone
    <3>3. CASE q # r
      BY <1>2, <1>3, <3>1, <3>3
    <3> QED BY <3>2, <3>3
  <2>2. CASE Wake(r)
    <3>1. mode' = [mode EXCEPT ![r] = "idle"] /\ woken[r]
      BY <2>2 DEF Wake
    <3>2. ~ deal[r].busy
      BY <3>1 DEF DealInv, Gates
    <3> QED BY <1>1, <1>2, <1>3, <3>1, <3>2
  <2>3. CASE Kick(r) \/ DealTimeout(r)
    <3>1. mode' = [mode EXCEPT ![r] = "deaf"] \/ mode' = [mode EXCEPT ![r] = "failed"]
      BY <2>3 DEF Kick, DealTimeout
    <3> QED BY <1>2, <1>3, <3>1
  <2> QED BY <2>1, <2>2, <2>3 DEF WaitHoles, WaitStreet, WaitReveal
<1>4. Gates'
  <2>1. \A q \in Seats : gone'[q] \subseteq silent \ {q}
    BY <1>1 DEF DealInv, Gates
  <2>2. /\ \A q \in Seats \ {r} : deal'[q] = deal[q] /\ woken'[q] = woken[q]
        /\ ~ deal[r].busy => ~ deal'[r].busy
        /\ woken'[r] => woken[r] \/ ~ deal'[r].busy
        /\ UNCHANGED <<at, silent>>
    BY <1>1
  <2> QED BY <1>3, <2>1, <2>2, GatesKept
<1>5. OneDeal'
  BY <1>1 DEF DealInv, OneDeal, Coming, Maker
<1> QED BY <1>1, <1>4, <1>5 DEF DealInv, TurnsOf, Suspects

LEMMA StepOne ==
  ASSUME DealInv, OneCopyEach, [Next]_vars
  PROVE  /\ DealInv'
         /\ \/ \E s \in Shared!Seats : Shared!Play(s)
            \/ TurnsOf(made)' = TurnsOf(made) /\ Suspects' = Suspects
<1>1. SecretInv'
  BY StepSecret DEF DealInv
<1>2. ASSUME NEW r \in Seats \ silent, StartHoles(r) \/ StartStreet(r) \/ StartReveal(r)
      PROVE  /\ DealInv'
             /\ \/ \E s \in Shared!Seats : Shared!Play(s)
                \/ TurnsOf(made)' = TurnsOf(made) /\ Suspects' = Suspects
  <2>1. PICK k \in 1 .. Len(Plan) : StartSequence(r, k)
    BY <1>2, StartInPlan
  <2> QED BY <1>1, <1>2, <2>1, StartSequenceOne
<1>3. ASSUME NEW r \in Seats \ silent, Receive(r)
      PROVE  /\ DealInv'
             /\ \/ \E s \in Shared!Seats : Shared!Play(s)
                \/ TurnsOf(made)' = TurnsOf(made) /\ Suspects' = Suspects
  BY <1>1, <1>3, HandlePeelOne DEF Receive
<1>4. ASSUME NEW r \in Seats \ silent,
             \/ WaitHoles(r) \/ WaitStreet(r) \/ WaitReveal(r) \/ Wake(r)
             \/ Kick(r) \/ DealTimeout(r)
      PROVE  DealInv' /\ TurnsOf(made)' = TurnsOf(made) /\ Suspects' = Suspects
  BY <1>1, <1>4, DriverOne
<1>5. ASSUME NEW r \in Seats \ silent, NEW g \in Suspects, Recover(r, g)
      PROVE  /\ DealInv'
             /\ \/ \E s \in Shared!Seats : Shared!Play(s)
                \/ TurnsOf(made)' = TurnsOf(made) /\ Suspects' = Suspects
  BY <1>1, <1>5, RecoverOne
<1>6. CASE UNCHANGED vars
  <2>1. UNCHANGED <<deal, early, gone, at, mode, woken, made, flight, silent>>
    BY <1>6 DEF vars
  <2>2. OneDeal' /\ Gates'
    BY <2>1 DEF DealInv, OneDeal, Coming, Maker, Gates
  <2> QED BY <1>1, <2>1, <2>2 DEF DealInv, TurnsOf, Suspects
<1>7. CASE Next
  <2>1. PICK r \in Seats \ silent :
             \/ StartHoles(r) \/ StartStreet(r) \/ StartReveal(r)
             \/ Receive(r)
             \/ WaitHoles(r) \/ WaitStreet(r) \/ WaitReveal(r) \/ Wake(r)
             \/ Kick(r) \/ DealTimeout(r)
             \/ \E g \in Suspects : Recover(r, g)
    BY <1>7 DEF Next
  <2> QED BY <1>2, <1>3, <1>4, <1>5, <2>1
<1> QED BY <1>6, <1>7

LEMMA InitOne ==
  ASSUME Init
  PROVE  DealInv /\ Shared!Init
<1>1. /\ NewSession.at = 0 /\ ~ NewSession.busy /\ NewSession.pending = {}
  BY DEF NewSession
<1>2. Past(NewSession) = {}
  <2> SUFFICES ASSUME NEW t \in Past(NewSession) PROVE FALSE
    OBVIOUS
  <2>1. t \in Shared!Turns /\ (t.at < NewSession.at \/ t.at = NewSession.at)
    BY PastIs
  <2>2. t.at \in 1 .. Len(Plan)
    BY <2>1, TurnTyped
  <2> QED BY <1>1, <2>1, <2>2
<1>3. OneDeal
  <2>1. \A r \in Seats : deal[r] = NewSession /\ early[r] = <<>>
    BY DEF Init
  <2>2. made = {} /\ flight = {}
    BY DEF Init
  <2>3. Parked(<<>>) = {}
    BY EmptySeq DEF Parked
  <2>4. \A r \in Seats : Apart(deal[r], early[r], Coming(r, flight), made)
    BY <1>1, <2>1, <2>2, <2>3 DEF Apart, Coming
  <2>5. \A r \in Seats : deal[r].pending = {}
    BY <1>1, <2>1
  <2> QED BY <1>2, <2>1, <2>2, <2>4, <2>5 DEF OneDeal
<1>4. Gates
  <2>1. \A r \in Seats : ~ deal[r].busy /\ deal[r].at = 0 /\ gone[r] = {}
    BY <1>1 DEF Init
  <2> QED BY <2>1 DEF Gates
<1>5. Shared!Init
  BY DealAssumption DEF Init, Shared!Init, Suspects, Shared!Seats, Seats
<1> QED BY <1>3, <1>4, <1>5, InitSecret DEF DealInv

\* If every peel comes once and no seat that deals is timed out, then for any
\* number of seats, hand, schedule and set of seats that stop, the peels of all
\* replicas are one deal: each turn of the plan is taken once, by its seat or by
\* a survivor after the seat has stopped, and only when all turns before it have
\* been (PeelOrder, HandlePeel, drainPeels, TryDelegatedPeels). A showdown is
\* taken to follow at least one street, as in any hand that is played.
THEOREM ImplementsSharedDealTheorem ==
  ASSUME Echoed = {}, Slow = {}, Left = {} \/ LastStreet >= 1
  PROVE  Spec => ImplementsSharedDeal
<1>1. OneCopyEach
  BY DEF OneCopyEach
<1>2. Init => DealInv /\ Shared!Init
  BY InitOne
<1>3. DealInv /\ [Next]_vars
      => DealInv' /\ [\E s \in Shared!Seats : Shared!Play(s)]_<<
                       {[at |-> m.at, card |-> m.card, seat |-> m.seat] : m \in made}, Suspects>>
  <2> SUFFICES ASSUME DealInv, [Next]_vars
               PROVE  DealInv' /\ [\E s \in Shared!Seats : Shared!Play(s)]_<<
                       {[at |-> m.at, card |-> m.card, seat |-> m.seat] : m \in made}, Suspects>>
    OBVIOUS
  <2>1. /\ DealInv'
        /\ \/ \E s \in Shared!Seats : Shared!Play(s)
           \/ TurnsOf(made)' = TurnsOf(made) /\ Suspects' = Suspects
    BY <1>1, StepOne
  <2>2. CASE TurnsOf(made)' = TurnsOf(made) /\ Suspects' = Suspects
    BY <2>1, <2>2 DEF TurnsOf, TurnOf
  <2> QED BY <2>1, <2>2
<1> QED BY <1>2, <1>3, PTL DEF Spec, ImplementsSharedDeal, Shared!Spec

-----------------------------------------------------------------------------
(* No call fails *)

\* The calls a seat can be asked for: to take a peel that has come and is not
\* parked, to begin the next sequence, to peel for the seats that left.
PeelCall(r, m) == FollowUp(SessionPeel(Result(deal[r], early[r], {}, FALSE), r, m), r, gone[r])

StartCall(r, k) ==
  FollowUp(Settle(Result(InstallJob(deal[r], k, 1), early[r], {}, FALSE), r, {}), r, gone[r])

RecoverCall(r, absent) == Delegate(Result(deal[r], early[r], {}, FALSE), r, absent)

\* None of them returns an error.
CallsSucceed ==
  \A r \in Seats \ silent :
    /\ \A pkt \in flight :
         pkt.to = r /\ ~ Premature(deal[r], pkt.msg) => ~ PeelCall(r, pkt.msg).err
    /\ \A k \in 1 .. Len(Plan) : mode[r] = "idle" /\ at[r] = k - 1 => ~ StartCall(r, k).err
    /\ \A g \in Suspects \ {r} : ~ RecoverCall(r, gone[r] \cup {g}).err

LEMMA CallsFit ==
  ASSUME DealInv, OneCopyEach
  PROVE  CallsSucceed
<1> SUFFICES ASSUME NEW r \in Seats \ silent
             PROVE  /\ \A pkt \in flight :
                         pkt.to = r /\ ~ Premature(deal[r], pkt.msg) => ~ PeelCall(r, pkt.msg).err
                    /\ \A k \in 1 .. Len(Plan) :
                         mode[r] = "idle" /\ at[r] = k - 1 => ~ StartCall(r, k).err
                    /\ \A g \in Suspects \ {r} : ~ RecoverCall(r, gone[r] \cup {g}).err
  BY DEF CallsSucceed
<1>1. ASSUME NEW pkt \in flight, pkt.to = r, ~ Premature(deal[r], pkt.msg)
      PROVE  ~ PeelCall(r, pkt.msg).err
  <2>1. InStep(PeelCall(r, pkt.msg), r, gone[r], made, Coming(r, flight \ {pkt}))
    BY <1>1, PeelFits DEF PeelCall
  <2> QED BY <2>1 DEF InStep
<1>2. ASSUME NEW k \in 1 .. Len(Plan), mode[r] = "idle", at[r] = k - 1
      PROVE  ~ StartCall(r, k).err
  <2>1. InStep(StartCall(r, k), r, gone[r], made, Coming(r, flight))
    BY <1>2, StartFits DEF StartCall
  <2> QED BY <2>1 DEF InStep
<1>3. ASSUME NEW g \in Suspects \ {r}
      PROVE  ~ RecoverCall(r, gone[r] \cup {g}).err
  <2> DEFINE absent == gone[r] \cup {g}
  <2>1. absent \subseteq silent \ {r}
    BY DEF DealInv, Gates, Suspects, OneCopyEach
  <2> HIDE DEF absent
  <2>2. InStep(RecoverCall(r, absent), r, absent, made, Coming(r, flight))
    BY <2>1, RecoverFits DEF RecoverCall
  <2> QED BY <2>2 DEF InStep, absent
<1> QED BY <1>1, <1>2, <1>3

\* If every peel comes once and no seat that deals is timed out, then no call
\* of a seat at the table returns an error, whatever the order the peels come
\* in: every peel that reaches the session is one of the card at hand, of a
\* seat that has not peeled it, and verifies when its turn comes (HandlePeel,
\* StartHoles, StartStreet, StartReveal, drainPeels, TryDelegatedPeels).
THEOREM CallsSucceedTheorem ==
  ASSUME Echoed = {}, Slow = {}, Left = {} \/ LastStreet >= 1
  PROVE  Spec => []CallsSucceed
<1>1. OneCopyEach
  BY DEF OneCopyEach
<1>2. Init => DealInv
  BY InitOne
<1>3. DealInv /\ [Next]_vars => DealInv'
  BY <1>1, StepOne
<1>4. DealInv => CallsSucceed
  BY <1>1, CallsFit
<1> QED BY <1>2, <1>3, <1>4, PTL DEF Spec

\* A driver that has not given up.
NobodyFails == \A r \in Seats : mode[r] # "failed"

LEMMA StepNobodyFails ==
  ASSUME DealInv, OneCopyEach, ~ DeadlinesPass, NobodyFails, [Next]_vars
  PROVE  NobodyFails'
<1>1. mode \in [Seats -> {"idle", "started", "waiting", "deaf", "failed"}] /\ CallsSucceed
  BY CallsFit DEF DealInv, SecretInv, IInv, TypeOK
<1>2. ASSUME NEW r \in Seats \ silent, NEW k \in 1 .. Len(Plan), StartSequence(r, k)
      PROVE  NobodyFails'
  <2>1. /\ mode[r] = "idle" /\ at[r] = k - 1
        /\ mode' = [mode EXCEPT ![r] = IF StartCall(r, k).err THEN "failed" ELSE "started"]
    BY <1>2 DEF StartSequence, StartCall
  <2>2. ~ StartCall(r, k).err
    BY <1>1, <2>1 DEF CallsSucceed
  <2> QED BY <1>1, <2>1, <2>2 DEF NobodyFails
<1>3. ASSUME NEW r \in Seats \ silent, StartHoles(r) \/ StartStreet(r) \/ StartReveal(r)
      PROVE  NobodyFails'
  BY <1>2, <1>3, StartInPlan
<1>4. ASSUME NEW r \in Seats \ silent,
             WaitSequence(r) \/ Wake(r) \/ Kick(r)
      PROVE  NobodyFails'
  BY <1>1, <1>4 DEF NobodyFails, WaitSequence, Wake, Kick
<1>5. ASSUME NEW r \in Seats \ silent, Receive(r) \/ \E g \in Suspects : Recover(r, g)
      PROVE  NobodyFails'
  <2>1. mode' = mode
    BY <1>5 DEF Receive, HandlePeel, Recover
  <2> QED BY <2>1 DEF NobodyFails
<1>6. \A r \in Seats : ~ DealTimeout(r)
  BY DEF DealTimeout
<1>7. CASE UNCHANGED vars
  BY <1>7 DEF vars, NobodyFails
<1> QED BY <1>3, <1>4, <1>5, <1>6, <1>7 DEF Next, WaitHoles, WaitStreet, WaitReveal

\* So a driver gives a hand up only when a deadline runs out
\* (runCryptoHand, cryptoDealTimeout).
THEOREM NobodyFailsTheorem ==
  ASSUME Echoed = {}, Slow = {}, Left = {} \/ LastStreet >= 1, ~ DeadlinesPass
  PROVE  Spec => []NobodyFails
<1>1. OneCopyEach
  BY DEF OneCopyEach
<1>2. Init => DealInv /\ NobodyFails
  BY InitOne DEF Init, NobodyFails
<1>3. DealInv /\ NobodyFails /\ [Next]_vars => DealInv' /\ NobodyFails'
  BY <1>1, StepOne, StepNobodyFails
<1> QED BY <1>2, <1>3, PTL DEF Spec
=============================================================================
