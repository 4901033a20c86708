------------------------ MODULE ShuffleSessionProofs ------------------------
(***************************************************************************)
(* For any number of seats, hands, copies and spoiled steps the replicas   *)
(* of a hand apply the same steps, in seat order, each on top of the one   *)
(* before, and deal from the same finished deck: together they make the    *)
(* one deck of SharedShuffle.                                              *)
(***************************************************************************)
EXTENDS ShuffleSession, SeatingLemmas, SequenceTheorems

\* What the executed steps of all seats look like: one per hand and seat, none
\* before those of the lower seats, each extending the decks of those below.
StepsOK(steps) ==
  /\ steps \in SUBSET Message
  /\ \A m \in steps : m.ok /\ Len(m.deck) = m.seat + 1
  /\ \A m, o \in steps : m.hand = o.hand /\ m.seat = o.seat => m = o
  /\ \A m \in steps : \A t \in Seats :
       t < m.seat => \E o \in steps : o.hand = m.hand /\ o.seat = t
  /\ \A m, o \in steps : m.hand = o.hand /\ o.seat < m.seat
                           => SubSeq(m.deck, 1, o.seat + 1) = o.deck

\* A session of seat r in hand h only holds executed steps, and has applied
\* every step seat r executed in this hand.
SessionOK(s, r, h, steps) ==
  /\ s \in Session
  /\ NextIndex(s) <= N
  /\ \A i \in 1 .. NextIndex(s) :
       s.applied[i] \in steps /\ s.applied[i].seat = i - 1 /\ s.applied[i].hand = h
  /\ \A m \in s.pending : m.hand = h /\ m.seat # r /\ (m.ok => m \in steps)
  /\ \A m \in steps : m.seat = r => m.hand <= h /\ (m.hand = h => r < NextIndex(s))

\* What a call of seat r's session may do.
CallOK(s, call, r, h, steps) ==
  /\ SessionOK(call.s, r, h, steps \cup call.own)
  /\ StepsOK(steps \cup call.own)
  /\ call.own \in SUBSET {m \in Message : m.seat = r /\ m.hand = h /\ m.ok}
  /\ call.out \in SUBSET call.own
  /\ NextIndex(s) <= NextIndex(call.s)
  /\ call.s.started = s.started

\* What is parked at seat r or on its way there was executed by another seat,
\* unless it is spoiled.
TravelOK(m, r, steps) == m.seat # r /\ (m.ok => m \in steps)

\* How far the driver of seat r has come says what its session holds.
PhaseOK(r) ==
  /\ driver[r] = "lobby" => hand[r] = 0
  /\ driver[r] \in {"lobby", "starting"} => sess[r] = NewSession
  /\ driver[r] = "starting" => hand[r] >= 1
  /\ gate[r] = "done" => Done(sess[r])
  /\ driver[r] = "dealing" => Done(sess[r])

\* The inductive invariant.
IInv ==
  /\ TypeOK
  /\ StepsOK(made)
  /\ \A r \in Seats : SessionOK(sess[r], r, hand[r], made)
  /\ \A r \in Seats : PhaseOK(r)
  /\ \A r \in Seats : \A i \in 1 .. Len(early[r]) : TravelOK(early[r][i], r, made)
  /\ \A pkt \in flight : TravelOK(pkt.msg, pkt.to, made)

-----------------------------------------------------------------------------
(* The session's operators *)

LEMMA PrefixOfAppend ==
  ASSUME NEW S, NEW d \in Seq(S), NEW e \in S
  PROVE  SubSeq(Append(d, e), 1, Len(d)) = d
<1> DEFINE longer == Append(d, e)
<1>1. Len(d) \in Nat
  OBVIOUS
<1>2. /\ longer \in Seq(S) /\ Len(longer) = Len(d) + 1
      /\ \A i \in 1 .. Len(d) : longer[i] = d[i]
  BY AppendProperties
<1> HIDE DEF longer
<1> DEFINE short == SubSeq(longer, 1, Len(d))
<1>3. \A i \in 1 .. Len(d) : longer[i] \in S
  BY <1>2
<1>4. /\ short \in Seq(S) /\ Len(short) = Len(d)
      /\ \A i \in 1 .. Len(d) : short[i] = d[i]
  BY <1>1, <1>2, <1>3
<1> HIDE DEF short
<1>5. short = d
  BY <1>4, SeqEqual
<1> QED BY <1>5 DEF short, longer

\* The beginnings of a sequence do not change when it grows.
LEMMA BeginningStays ==
  ASSUME NEW S, NEW d \in Seq(S), NEW e \in S, NEW k \in 1 .. Len(d)
  PROVE  SubSeq(Append(d, e), 1, k) = SubSeq(d, 1, k)
<1> DEFINE longer == Append(d, e)
<1>1. /\ longer \in Seq(S) /\ Len(longer) = Len(d) + 1
      /\ \A i \in 1 .. Len(d) : longer[i] = d[i]
  BY AppendProperties
<1> HIDE DEF longer
<1> DEFINE one == SubSeq(longer, 1, k)
           other == SubSeq(d, 1, k)
<1>2. one \in Seq(S) /\ Len(one) = k /\ \A i \in 1 .. k : one[i] = longer[i]
  BY <1>1
<1>3. other \in Seq(S) /\ Len(other) = k /\ \A i \in 1 .. k : other[i] = d[i]
  OBVIOUS
<1>4. \A i \in 1 .. k : one[i] = other[i]
  BY <1>1, <1>2, <1>3
<1> HIDE DEF one, other
<1>5. one = other
  BY <1>2, <1>3, <1>4, SeqEqual
<1> QED BY <1>5 DEF one, other, longer

\* A sequence is its beginning and its last member.
LEMMA BeginningAndLast ==
  ASSUME NEW S, NEW d \in Seq(S), NEW k \in Nat, Len(d) = k + 1
  PROVE  /\ SubSeq(d, 1, k) \in Seq(S) /\ Len(SubSeq(d, 1, k)) = k
         /\ d[k + 1] \in S
         /\ Append(SubSeq(d, 1, k), d[k + 1]) = d
         /\ SubSeq(d, 1, Len(d)) = d
<1> DEFINE short == SubSeq(d, 1, k)
           last == d[k + 1]
           whole == SubSeq(d, 1, k + 1)
<1>1. short \in Seq(S) /\ Len(short) = k /\ \A i \in 1 .. k : short[i] = d[i]
  OBVIOUS
<1>2. last \in S
  OBVIOUS
<1>3. whole \in Seq(S) /\ Len(whole) = k + 1 /\ \A i \in 1 .. k + 1 : whole[i] = d[i]
  OBVIOUS
<1> HIDE DEF short, whole
<1>4. whole = d
  BY <1>3, SeqEqual
<1> DEFINE grown == Append(short, last)
<1>5. /\ grown \in Seq(S) /\ Len(grown) = k + 1 /\ grown[k + 1] = last
      /\ \A i \in 1 .. k : grown[i] = short[i]
  BY <1>1, <1>2, AppendProperties
<1>6. \A i \in 1 .. k + 1 : grown[i] = d[i]
  BY <1>1, <1>5
<1> HIDE DEF grown
<1>7. grown = d
  BY <1>5, <1>6, SeqEqual
<1> QED BY <1>1, <1>2, <1>4, <1>7 DEF short, whole, grown

LEMMA StopAtFinds ==
  ASSUME NEW s \in Session, NEW r \in Seats, NextIndex(s) <= N
  PROVE  /\ StopAt(s, r) \in NextIndex(s) .. N
         /\ \A t \in NextIndex(s) .. StopAt(s, r) - 1 : t # r /\ Ready(s, t)
         /\ NextIndex(s) <= r => StopAt(s, r) <= r
         /\ StopAt(s, r) \in {N, r} \/ ~ Ready(s, StopAt(s, r))
<1> USE SeatingAssumption
<1> DEFINE D == {t \in NextIndex(s) .. N : t = N \/ t = r \/ ~ Ready(s, t)} \cup {N}
<1>1. NextIndex(s) \in Nat
  BY DEF NextIndex, Session
<1>2. D \in SUBSET Nat /\ D # {}
  BY <1>1
<1>3. Least(D) \in D /\ \A y \in D : Least(D) <= y
  <2> HIDE DEF D
  <2> QED BY <1>2, LeastExists
<1>4. StopAt(s, r) = Least(D)
  BY DEF StopAt
<1>5. StopAt(s, r) \in NextIndex(s) .. N
  BY <1>1, <1>3, <1>4
<1>6. ASSUME NEW t \in NextIndex(s) .. StopAt(s, r) - 1 PROVE t # r /\ Ready(s, t)
  <2>1. t \in NextIndex(s) .. N /\ ~ (StopAt(s, r) <= t)
    BY <1>1, <1>5
  <2>2. t \notin D
    BY <2>1, <1>3, <1>4
  <2> QED BY <2>1, <2>2
<1>7. NextIndex(s) <= r => StopAt(s, r) <= r
  BY <1>1, <1>3, <1>4 DEF Seats
<1>8. StopAt(s, r) \in {N, r} \/ ~ Ready(s, StopAt(s, r))
  BY <1>3, <1>4
<1> QED BY <1>5, <1>6, <1>7, <1>8

LEMMA DrainKeeps ==
  ASSUME NEW s, NEW r \in Seats, NEW h, NEW steps,
         SessionOK(s, r, h, steps), StepsOK(steps)
  PROVE  /\ SessionOK(Drain(s, r).s, r, h, steps)
         /\ NextIndex(s) <= NextIndex(Drain(s, r).s)
         /\ Drain(s, r).s.started = s.started
<1> USE SeatingAssumption
<1> DEFINE from == NextIndex(s)
           stop == StopAt(s, r)
           step(t) == CHOOSE m \in s.pending : m.seat = t /\ m.ok
           run == [i \in 1 .. stop - from |-> step(from + i - 1)]
           after == Drain(s, r).s
<1>1. s \in Session /\ from \in Nat /\ from <= N /\ s.applied \in Seq(Message)
  BY DEF SessionOK, Session, NextIndex
<1>2. stop \in from .. N /\ \A t \in from .. stop - 1 : t # r /\ Ready(s, t)
  BY <1>1, StopAtFinds
<1>3. ASSUME NEW t \in from .. stop - 1
      PROVE  step(t) \in s.pending /\ step(t).seat = t /\ step(t).ok
  BY <1>2 DEF Ready
<1>4. run \in Seq(Message) /\ Len(run) = stop - from
  <2>1. \A i \in 1 .. stop - from : from + i - 1 \in from .. stop - 1
    BY <1>1, <1>2
  <2>2. \A i \in 1 .. stop - from : step(from + i - 1) \in s.pending
    BY <2>1, <1>3
  <2>3. s.pending \in SUBSET Message
    BY <1>1 DEF Session
  <2>4. stop - from \in Nat
    BY <1>1, <1>2
  <2> QED BY <2>2, <2>3, <2>4
<1>5. after = [s EXCEPT !.applied = s.applied \o run,
                        !.pending = {m \in s.pending : m.seat \notin from .. stop}]
  BY DEF Drain
<1> HIDE DEF after
<1>6. /\ after.applied = s.applied \o run
      /\ after.pending = {m \in s.pending : m.seat \notin from .. stop}
      /\ after.started = s.started
      /\ after \in Session
  <2> DEFINE left == {m \in s.pending : m.seat \notin from .. stop}
  <2>1. s.applied \o run \in Seq(Message)
    BY <1>1, <1>4
  <2>2. left \in SUBSET Message
    BY <1>1 DEF Session
  <2>3. after = [s EXCEPT !.applied = s.applied \o run, !.pending = left]
    BY <1>5
  <2> HIDE DEF run, left
  <2>4. /\ after.applied = s.applied \o run /\ after.pending = left
        /\ after.started = s.started /\ after \in Session
    BY <1>1, <2>1, <2>2, <2>3 DEF Session
  <2> QED BY <2>4 DEF left
<1>7. Len(after.applied) = stop /\ NextIndex(after) = stop
  BY <1>1, <1>2, <1>4, <1>6 DEF NextIndex
<1>8. ASSUME NEW i \in 1 .. stop
      PROVE  /\ after.applied[i] \in steps
             /\ after.applied[i].seat = i - 1 /\ after.applied[i].hand = h
  <2>1. CASE i <= from
    <3>1. after.applied[i] = s.applied[i] /\ i \in 1 .. from
      BY <2>1, <1>1, <1>4, <1>6 DEF NextIndex
    <3> QED BY <3>1 DEF SessionOK
  <2>2. CASE i > from
    <3>1. after.applied[i] = run[i - from] /\ i - from \in 1 .. stop - from
      <4>1. i - from \in 1 .. stop - from
        BY <2>2, <1>1, <1>2
      <4>2. /\ Len(s.applied) = from /\ Len(run) = stop - from
            /\ s.applied \in Seq(Message) /\ run \in Seq(Message)
        BY <1>1, <1>4 DEF NextIndex
      <4> HIDE DEF run
      <4>3. \A k \in 1 .. Len(s.applied) + Len(run) :
              (s.applied \o run)[k] = IF k <= Len(s.applied) THEN s.applied[k]
                                     ELSE run[k - Len(s.applied)]
        BY <4>2, ConcatProperties
      <4>4. i \in 1 .. Len(s.applied) + Len(run)
        BY <1>1, <1>2, <4>2
      <4>5. (s.applied \o run)[i] = IF i <= from THEN s.applied[i] ELSE run[i - from]
        BY <4>2, <4>3, <4>4
      <4>6. ~ (i <= from)
        BY <2>2, <1>1, <1>2
      <4> HIDE DEF from
      <4> QED BY <1>6, <4>1, <4>5, <4>6
    <3>2. after.applied[i] = step(i - 1) /\ i - 1 \in from .. stop - 1
      BY <3>1, <2>2, <1>1, <1>2
    <3>3. step(i - 1) \in s.pending /\ step(i - 1).seat = i - 1 /\ step(i - 1).ok
      BY <3>2, <1>3
    <3> HIDE DEF step
    <3> QED BY <3>2, <3>3 DEF SessionOK
  <2> QED BY <2>1, <2>2, <1>1, <1>2
<1>9. SessionOK(after, r, h, steps)
  <2>1. \A m \in steps : m.seat = r => m.hand <= h /\ (m.hand = h => r < stop)
    BY <1>1, <1>2 DEF SessionOK, Seats
  <2>2. stop <= N
    BY <1>1, <1>2
  <2> QED BY <1>6, <1>7, <1>8, <2>1, <2>2 DEF SessionOK
<1> QED BY <1>1, <1>2, <1>6, <1>7, <1>9 DEF after

LEMMA AdoptKeeps ==
  ASSUME NEW s, NEW r \in Seats, NEW h, NEW steps, NEW m \in Message,
         SessionOK(s, r, h, steps), StepsOK(steps \cup {m}),
         m.seat = NextIndex(s), m.hand = h
  PROVE  /\ SessionOK(Adopt(s, m), r, h, steps \cup {m})
         /\ NextIndex(Adopt(s, m)) = NextIndex(s) + 1
         /\ Adopt(s, m).started = s.started
<1> USE SeatingAssumption
<1> DEFINE after == Adopt(s, m)
           longer == Append(s.applied, m)
           more == steps \cup {m}
<1>1. s \in Session /\ s.applied \in Seq(Message)
  BY DEF SessionOK, Session
<1>2. longer \in Seq(Message) /\ Len(longer) = Len(s.applied) + 1
  BY <1>1
<1>3. after = [s EXCEPT !.applied = longer]
  BY DEF Adopt
<1>4. \A i \in 1 .. Len(s.applied) : longer[i] = s.applied[i]
  BY <1>1
<1>5. longer[Len(s.applied) + 1] = m
  BY <1>1
<1> HIDE DEF longer, after
<1>6. after.applied = longer /\ after.pending = s.pending /\ after.started = s.started
      /\ after \in Session
  BY <1>1, <1>2, <1>3 DEF Session
<1>7. NextIndex(after) = NextIndex(s) + 1 /\ NextIndex(s) \in Nat
  BY <1>1, <1>2, <1>6 DEF NextIndex
<1>8. NextIndex(after) <= N
  BY <1>1, <1>7 DEF Message, Seats
<1>9. ASSUME NEW i \in 1 .. NextIndex(after)
      PROVE  after.applied[i] \in more /\ after.applied[i].seat = i - 1
             /\ after.applied[i].hand = h
  <2>1. CASE i \in 1 .. NextIndex(s)
    BY <2>1, <1>4, <1>6 DEF SessionOK, NextIndex
  <2>2. CASE i = NextIndex(s) + 1
    BY <2>2, <1>5, <1>6, <1>7 DEF NextIndex
  <2> QED BY <2>1, <2>2, <1>7
<1>10. \A o \in more : o.seat = r => o.hand <= h /\ (o.hand = h => r < NextIndex(after))
  <2>1. \A o \in steps : o.seat = r => o.hand <= h /\ (o.hand = h => r < NextIndex(s))
    BY DEF SessionOK
  <2>2. m.seat = r => m.hand <= h /\ r < NextIndex(after)
    BY <1>7 DEF Message
  <2> QED BY <1>7, <2>1, <2>2 DEF Seats
<1>11. \A o \in after.pending : o.hand = h /\ o.seat # r /\ (o.ok => o \in more)
  BY <1>6 DEF SessionOK
<1>12. SessionOK(after, r, h, more)
  BY <1>6, <1>8, <1>9, <1>10, <1>11 DEF SessionOK
<1> QED BY <1>6, <1>7, <1>12 DEF after

\* The step a seat executes at its turn extends what the table has executed.
LEMMA OwnStepExtends ==
  ASSUME NEW s, NEW r \in Seats, NEW h \in 1 .. MaxHands, NEW steps, NEW p \in Perms,
         SessionOK(s, r, h, steps), StepsOK(steps), NextIndex(s) = r,
         NEW own, own = [hand |-> h, seat |-> r, deck |-> Append(Current(s), p), ok |-> TRUE]
  PROVE  StepsOK(steps \cup {own})
<1> USE SeatingAssumption
<1>1. Current(s) \in Seq(Perms) /\ Len(Current(s)) = r
  <2>1. CASE r = 0
    BY <2>1 DEF Current
  <2>2. CASE r # 0
    <3>1. r \in 1 .. NextIndex(s) /\ Current(s) = s.applied[r].deck
      BY <2>2 DEF Current, Seats
    <3>2. s.applied[r] \in steps /\ s.applied[r].seat = r - 1
      BY <3>1 DEF SessionOK
    <3> QED BY <3>1, <3>2 DEF StepsOK, Message, Seats
  <2> QED BY <2>1, <2>2
<1>2. own \in Message /\ own.ok /\ Len(own.deck) = r + 1
  BY <1>1 DEF Message
<1>3. \A t \in Seats : t < r => \E o \in steps : o.hand = h /\ o.seat = t
  <2> SUFFICES ASSUME NEW t \in Seats, t < r
               PROVE  \E o \in steps : o.hand = h /\ o.seat = t
    OBVIOUS
  <2>1. t + 1 \in 1 .. NextIndex(s)
    BY DEF Seats
  <2>2. s.applied[t + 1] \in steps /\ s.applied[t + 1].hand = h
        /\ s.applied[t + 1].seat = (t + 1) - 1
    <3>1. \A i \in 1 .. NextIndex(s) :
            s.applied[i] \in steps /\ s.applied[i].seat = i - 1 /\ s.applied[i].hand = h
      BY DEF SessionOK
    <3> QED BY <2>1, <3>1
  <2> QED BY <2>2 DEF Seats
<1>4. \A o \in steps : o.hand = h => o.seat < r
  <2> SUFFICES ASSUME NEW o \in steps, o.hand = h, ~ (o.seat < r) PROVE FALSE
    OBVIOUS
  <2>1. o.seat \in Seats
    BY DEF StepsOK, Message
  <2>2. PICK o2 \in steps : o2.hand = h /\ o2.seat = r
    <3>1. CASE o.seat = r
      BY <3>1
    <3>2. CASE r < o.seat
      BY <3>2 DEF StepsOK
    <3> QED BY <2>1, <3>1, <3>2 DEF Seats
  <2> QED BY <2>2 DEF SessionOK, Seats
<1>5. \A o \in steps : o.hand = h /\ o.seat < r => SubSeq(own.deck, 1, o.seat + 1) = o.deck
  <2> SUFFICES ASSUME NEW o \in steps, o.hand = h, o.seat < r
               PROVE  SubSeq(own.deck, 1, o.seat + 1) = o.deck
    OBVIOUS
  <2> DEFINE before == s.applied[r]
             k == o.seat + 1
  <2>1. o.seat \in Seats
    BY DEF StepsOK, Message
  <2>2. r \in 1 .. NextIndex(s) /\ Current(s) = before.deck /\ k \in 1 .. r
    BY <2>1 DEF Current, Seats
  <2>3. before \in steps /\ before.seat = r - 1 /\ before.hand = h
    <3>1. \A i \in 1 .. NextIndex(s) :
            s.applied[i] \in steps /\ s.applied[i].seat = i - 1 /\ s.applied[i].hand = h
      BY DEF SessionOK
    <3> QED BY <2>2, <3>1
  <2> HIDE DEF before
  <2>4. SubSeq(own.deck, 1, k) = SubSeq(Current(s), 1, k)
    <3>1. own.deck = Append(Current(s), p)
      OBVIOUS
    <3> HIDE DEF k
    <3> QED BY <1>1, <2>2, <3>1, BeginningStays
  <2>5. CASE o.seat = r - 1
    <3>1. \A a, b \in steps : a.hand = b.hand /\ a.seat = b.seat => a = b
      BY DEF StepsOK
    <3>2. o = before
      BY <2>3, <2>5, <3>1
    <3>3. SubSeq(Current(s), 1, r) = Current(s)
      <4>1. r - 1 \in Nat /\ Len(Current(s)) = (r - 1) + 1
        BY <1>1, <2>2 DEF Seats
      <4> QED BY <1>1, <4>1, BeginningAndLast
    <3>4. k = r
      BY <2>5, <2>2 DEF Seats
    <3> QED BY <2>2, <2>4, <3>2, <3>3, <3>4
  <2>6. CASE o.seat # r - 1
    <3>1. o.seat < before.seat
      BY <2>1, <2>3, <2>6 DEF Seats
    <3>2. SubSeq(before.deck, 1, k) = o.deck
      BY <2>3, <3>1 DEF StepsOK
    <3> QED BY <2>2, <2>4, <3>2
  <2> QED BY <2>5, <2>6
<1>6. ASSUME NEW m \in steps \cup {own}, NEW o \in steps \cup {own},
             m.hand = o.hand, m.seat = o.seat
      PROVE  m = o
  <2>1. own.hand = h /\ own.seat = r
    OBVIOUS
  <2>2. CASE m \in steps /\ o \in steps
    <3>1. \A a, b \in steps : a.hand = b.hand /\ a.seat = b.seat => a = b
      BY DEF StepsOK
    <3> QED BY <1>6, <2>2, <3>1
  <2>3. CASE m \in steps /\ o = own
    BY <1>4, <1>6, <2>1, <2>3 DEF Seats
  <2>4. CASE m = own /\ o \in steps
    BY <1>4, <1>6, <2>1, <2>4 DEF Seats
  <2> QED BY <2>2, <2>3, <2>4
<1>7. ASSUME NEW m \in steps \cup {own}, NEW o \in steps \cup {own},
             m.hand = o.hand, o.seat < m.seat
      PROVE  SubSeq(m.deck, 1, o.seat + 1) = o.deck
  <2>1. own.hand = h /\ own.seat = r
    OBVIOUS
  <2>2. CASE m \in steps /\ o \in steps
    BY <1>7, <2>2 DEF StepsOK
  <2>3. CASE m = own /\ o \in steps
    BY <1>5, <1>7, <2>1, <2>3
  <2>4. CASE o = own
    <3>1. m.seat \in Seats /\ (m = own => m.seat = r)
      BY <2>1 DEF StepsOK, Message
    <3>2. m.seat < r \/ m.seat = r
      BY <1>4, <1>7, <2>1, <2>4, <3>1
    <3> QED BY <1>7, <2>1, <2>4, <3>1, <3>2 DEF Seats
  <2> QED BY <2>2, <2>3, <2>4
<1>8. ASSUME NEW m \in steps \cup {own}, NEW t \in Seats, t < m.seat
      PROVE  \E o \in steps \cup {own} : o.hand = m.hand /\ o.seat = t
  <2>1. own.hand = h /\ own.seat = r
    OBVIOUS
  <2> QED BY <1>3, <1>8, <2>1 DEF StepsOK
<1>9. steps \cup {own} \in SUBSET Message
      /\ \A m \in steps \cup {own} : m.ok /\ Len(m.deck) = m.seat + 1
  <2>1. own.seat = r
    OBVIOUS
  <2> QED BY <1>2, <2>1 DEF StepsOK
<1> QED BY <1>6, <1>7, <1>8, <1>9 DEF StepsOK

LEMMA ExecuteLocalKeeps ==
  ASSUME NEW s, NEW r \in Seats, NEW h \in 1 .. MaxHands, NEW steps, NEW p \in Perms,
         SessionOK(s, r, h, steps), StepsOK(steps), NextIndex(s) = r
  PROVE  CallOK(s, ExecuteLocal(s, r, h, p), r, h, steps)
<1> DEFINE own == [hand |-> h, seat |-> r, deck |-> Append(Current(s), p), ok |-> TRUE]
           d == Drain(Adopt(s, own), r)
           call == ExecuteLocal(s, r, h, p)
<1>1. StepsOK(steps \cup {own})
  BY OwnStepExtends
<1>2. own \in Message /\ own.seat = r /\ own.hand = h /\ own.ok
  BY <1>1 DEF StepsOK
<1>3. call = Result(d.s, {own}, IF d.err THEN {} ELSE {own}, d.err)
  BY DEF ExecuteLocal
<1> HIDE DEF own
<1>4. /\ SessionOK(Adopt(s, own), r, h, steps \cup {own})
      /\ NextIndex(Adopt(s, own)) = NextIndex(s) + 1
      /\ Adopt(s, own).started = s.started
  BY <1>1, <1>2, AdoptKeeps
<1>5. /\ SessionOK(d.s, r, h, steps \cup {own})
      /\ NextIndex(Adopt(s, own)) <= NextIndex(d.s)
      /\ d.s.started = Adopt(s, own).started
  BY <1>1, <1>4, DrainKeeps
<1> HIDE DEF d
<1>6. call.s = d.s /\ call.own = {own} /\ call.out \in SUBSET {own}
  BY <1>3 DEF Result
<1>7. NextIndex(d.s) \in Nat
  BY <1>5 DEF SessionOK, Session, NextIndex
<1>8. r <= NextIndex(d.s)
  BY <1>4, <1>5, <1>7 DEF Seats
<1> QED BY <1>1, <1>2, <1>4, <1>5, <1>6, <1>8 DEF CallOK

LEMMA QuietCall ==
  ASSUME NEW s, NEW t, NEW r, NEW h, NEW steps, NEW err,
         SessionOK(t, r, h, steps), StepsOK(steps), SessionOK(s, r, h, steps),
         NextIndex(s) <= NextIndex(t), t.started = s.started
  PROVE  CallOK(s, Result(t, {}, {}, err), r, h, steps)
<1>1. steps \cup {} = steps
  OBVIOUS
<1> QED BY <1>1 DEF CallOK, Result

LEMMA AfterApplyIs ==
  ASSUME NEW s, NEW r, NEW h, NEW p
  PROVE  LET d == Drain(s, r)
         IN  AfterApply(s, r, h, p) =
               IF d.err THEN Reject(d.s)
               ELSE IF NextIndex(d.s) = r THEN ExecuteLocal(d.s, r, h, p) ELSE Accept(d.s)
<1> DEFINE d == Drain(s, r)
           after(x) == IF x.err THEN Reject(x.s)
                       ELSE IF NextIndex(x.s) = r THEN ExecuteLocal(x.s, r, h, p)
                       ELSE Accept(x.s)
<1>1. AfterApply(s, r, h, p) = Once({after(x) : x \in {d}})
  BY DEF AfterApply
<1>2. Once({after(x) : x \in {d}}) = after(d)
  <2> HIDE DEF after, d
  <2>1. {after(x) : x \in {d}} = {after(d)}
    OBVIOUS
  <2> QED BY <2>1 DEF Once
<1> QED BY <1>1, <1>2

LEMMA AfterApplyKeeps ==
  ASSUME NEW s, NEW r \in Seats, NEW h \in 1 .. MaxHands, NEW steps, NEW p \in Perms,
         SessionOK(s, r, h, steps), StepsOK(steps)
  PROVE  CallOK(s, AfterApply(s, r, h, p), r, h, steps)
<1> DEFINE d == Drain(s, r)
<1>1. /\ SessionOK(d.s, r, h, steps) /\ NextIndex(s) <= NextIndex(d.s)
      /\ d.s.started = s.started
  BY DrainKeeps
<1>2. AfterApply(s, r, h, p) =
        IF d.err THEN Reject(d.s)
        ELSE IF NextIndex(d.s) = r THEN ExecuteLocal(d.s, r, h, p) ELSE Accept(d.s)
  BY AfterApplyIs
<1> HIDE DEF d
<1>3. CallOK(s, Result(d.s, {}, {}, TRUE), r, h, steps)
      /\ CallOK(s, Result(d.s, {}, {}, FALSE), r, h, steps)
  BY <1>1, QuietCall
<1>4. ASSUME NextIndex(d.s) = r PROVE CallOK(s, ExecuteLocal(d.s, r, h, p), r, h, steps)
  <2> DEFINE call == ExecuteLocal(d.s, r, h, p)
  <2>1. CallOK(d.s, call, r, h, steps)
    BY <1>1, <1>4, ExecuteLocalKeeps
  <2> HIDE DEF call
  <2>2. NextIndex(s) \in Nat /\ NextIndex(d.s) \in Nat /\ NextIndex(call.s) \in Nat
    BY <1>1, <2>1 DEF CallOK, SessionOK, Session, NextIndex
  <2>3. NextIndex(s) <= NextIndex(call.s) /\ call.s.started = s.started
    BY <1>1, <2>1, <2>2 DEF CallOK
  <2>4. CallOK(s, call, r, h, steps)
    BY <2>1, <2>3 DEF CallOK
  <2> QED BY <2>4 DEF call
<1> QED BY <1>2, <1>3, <1>4 DEF Reject, Accept

LEMMA HandleMessageKeeps ==
  ASSUME NEW s, NEW r \in Seats, NEW h \in 0 .. MaxHands, NEW steps, NEW p \in Perms,
         NEW m \in Message, m.seat # r, m.ok => m \in steps,
         SessionOK(s, r, h, steps), StepsOK(steps)
  PROVE  CallOK(s, HandleMessage(s, r, h, m, p), r, h, steps)
<1>1. s \in Session /\ NextIndex(s) \in Nat /\ m.seat \in Seats
  BY DEF SessionOK, Session, NextIndex, Message
<1>2. \A err : CallOK(s, Result(s, {}, {}, err), r, h, steps)
  BY <1>1, QuietCall
<1>3. ASSUME m.hand = h, m.seat = NextIndex(s), m.ok
      PROVE  CallOK(s, AfterApply(Adopt(s, m), r, h, p), r, h, steps)
  <2> DEFINE t == Adopt(s, m)
             call == AfterApply(t, r, h, p)
  <2>1. steps \cup {m} = steps
    BY <1>3
  <2>2. /\ SessionOK(t, r, h, steps) /\ NextIndex(t) = NextIndex(s) + 1
        /\ t.started = s.started
    BY <1>3, <2>1, AdoptKeeps
  <2>3. h \in 1 .. MaxHands
    BY <1>3 DEF Message
  <2>4. CallOK(t, call, r, h, steps)
    BY <2>2, <2>3, AfterApplyKeeps
  <2> HIDE DEF t, call
  <2>5. NextIndex(call.s) \in Nat
    BY <2>4 DEF CallOK, SessionOK, Session, NextIndex
  <2>6. NextIndex(s) <= NextIndex(call.s) /\ call.s.started = s.started
    BY <1>1, <2>2, <2>4, <2>5 DEF CallOK
  <2>7. CallOK(s, call, r, h, steps)
    BY <2>4, <2>6 DEF CallOK
  <2> QED BY <2>7 DEF t, call
<1>4. ASSUME m.hand = h
      PROVE  CallOK(s, Accept([s EXCEPT !.pending = @ \cup {m}]), r, h, steps)
  <2> DEFINE more == s.pending \cup {m}
             t == [s EXCEPT !.pending = more]
  <2>1. more \in SUBSET Message
    BY <1>1 DEF Session
  <2>2. \A b \in more : b.hand = h /\ b.seat # r /\ (b.ok => b \in steps)
    BY <1>4 DEF SessionOK
  <2> HIDE DEF more
  <2>3. t \in Session /\ t.applied = s.applied /\ t.pending = more /\ t.started = s.started
    BY <1>1, <2>1 DEF Session
  <2> HIDE DEF t
  <2>4. NextIndex(t) = NextIndex(s)
    BY <2>3 DEF NextIndex
  <2>5. SessionOK(t, r, h, steps)
    BY <2>2, <2>3, <2>4 DEF SessionOK
  <2>6. NextIndex(s) <= NextIndex(t) /\ t.started = s.started
    BY <1>1, <2>3, <2>4
  <2>7. CallOK(s, Result(t, {}, {}, FALSE), r, h, steps)
    BY <2>5, <2>6, QuietCall
  <2> QED BY <2>7 DEF Accept, t, more
<1>5. HandleMessage(s, r, h, m, p) \in
        {Result(s, {}, {}, TRUE), Result(s, {}, {}, FALSE),
         Result(s, {}, {}, m # s.applied[m.seat + 1]), Result(s, {}, {}, m \notin s.pending)}
      \/ /\ m.hand = h /\ m.seat = NextIndex(s) /\ m.ok
         /\ HandleMessage(s, r, h, m, p) = AfterApply(Adopt(s, m), r, h, p)
      \/ /\ m.hand = h
         /\ HandleMessage(s, r, h, m, p) = Accept([s EXCEPT !.pending = @ \cup {m}])
  BY DEF HandleMessage, ValidateIncoming, Reject
<1> QED BY <1>2, <1>3, <1>4, <1>5

-----------------------------------------------------------------------------
(* Draining the parked steps is one call per step *)

\* The results u[0], u[1], ... of the calls, the errors ending the drain.
Drained(u, first, r, h, parked, p, n) ==
  u = [k \in 0 .. n |->
         IF k = 0 THEN first
         ELSE OneMore(u[k - 1], r, h, parked[k], p)]

\* What one more call leaves, after those whose result is `before`.
LEMMA OneMoreIs ==
  ASSUME NEW before, NEW r, NEW h, NEW m, NEW p
  PROVE  LET call == HandleMessage(before.s, r, h, m, p)
         IN  OneMore(before, r, h, m, p) =
               IF before.err THEN before
               ELSE Result(call.s, before.own \cup call.own,
                           IF call.err THEN {} ELSE before.out \cup call.out, call.err)
<1> DEFINE next(last) ==
             LET call == HandleMessage(last.s, r, h, m, p)
             IN  IF last.err THEN last
                 ELSE Result(call.s, last.own \cup call.own,
                             IF call.err THEN {} ELSE last.out \cup call.out, call.err)
<1>1. OneMore(before, r, h, m, p) = Once({next(last) : last \in {before}})
  BY DEF OneMore
<1>2. Once({next(last) : last \in {before}}) = next(before)
  <2> HIDE DEF next
  <2>1. {next(last) : last \in {before}} = {next(before)}
    OBVIOUS
  <2> QED BY <2>1 DEF Once
<1> QED BY <1>1, <1>2

LEMMA DrainedExists ==
  ASSUME NEW first, NEW r, NEW h, NEW parked, NEW p, NEW n \in Nat
  PROVE  \E u : Drained(u, first, r, h, parked, p, n)
<1> DEFINE T == {k \in Nat : \E u : Drained(u, first, r, h, parked, p, k)}
<1>1. 0 \in T
  <2> DEFINE u == [k \in 0 .. 0 |-> first]
  <2>1. Drained(u, first, r, h, parked, p, 0)
    BY DEF Drained
  <2> QED BY <2>1
<1>2. ASSUME NEW k \in T PROVE k + 1 \in T
  <2>1. PICK u : Drained(u, first, r, h, parked, p, k)
    OBVIOUS
  <2> DEFINE v == [j \in 0 .. k + 1 |->
                     IF j <= k THEN u[j] ELSE OneMore(u[k], r, h, parked[k + 1], p)]
             more(w, j) == IF j = 0 THEN first ELSE OneMore(w[j - 1], r, h, parked[j], p)
  <2>2. u = [j \in 0 .. k |-> more(u, j)]
    BY <2>1 DEF Drained
  <2>3. \A j \in 0 .. k + 1 : v[j] = more(v, j)
    <3> SUFFICES ASSUME NEW j \in 0 .. k + 1 PROVE v[j] = more(v, j)
      OBVIOUS
    <3>1. CASE j = k + 1
      <4>1. v[j] = OneMore(u[k], r, h, parked[k + 1], p) /\ v[k] = u[k]
        BY <3>1
      <4>2. j - 1 = k /\ j # 0
        BY <3>1
      <4> HIDE DEF v
      <4> QED BY <3>1, <4>1, <4>2
    <3>2. CASE j = 0
      <4>1. v[0] = u[0] /\ u[0] = first
        BY <2>2
      <4> HIDE DEF v
      <4> QED BY <3>2, <4>1
    <3>3. CASE j \in 1 .. k
      <4>1. v[j] = u[j] /\ v[j - 1] = u[j - 1] /\ j \in 0 .. k /\ j # 0
        BY <3>3
      <4>2. u[j] = OneMore(u[j - 1], r, h, parked[j], p)
        <5> HIDE DEF v
        <5> QED BY <2>2, <4>1
      <4> HIDE DEF v
      <4> QED BY <4>1, <4>2
    <3> QED BY <3>1, <3>2, <3>3
  <2>4. v = [j \in 0 .. k + 1 |-> more(v, j)]
    <3>1. v = [j \in 0 .. k + 1 |-> v[j]]
      OBVIOUS
    <3> HIDE DEF v
    <3> QED BY <2>3, <3>1
  <2>5. Drained(v, first, r, h, parked, p, k + 1)
    <3> HIDE DEF v
    <3> QED BY <2>4 DEF Drained
  <2> QED BY <2>5
<1>3. T = Nat
  <2> HIDE DEF T
  <2>1. T \in SUBSET Nat
    BY DEF T
  <2> QED BY <1>1, <1>2, <2>1, SetInduction
<1> QED BY <1>3

\* u are the results of all the calls, the last one that of DrainEarly.
DrainsTo(u, first, r, h, parked, p, last) ==
  /\ u[0] = first
  /\ \A k \in 1 .. Len(parked) : u[k] = OneMore(u[k - 1], r, h, parked[k], p)
  /\ last = u[Len(parked)]

LEMMA DrainEarlyIsDrained ==
  ASSUME NEW first, NEW r, NEW h, NEW parked, NEW p, Len(parked) \in Nat
  PROVE  \E u : DrainsTo(u, first, r, h, parked, p, DrainEarly(first, r, h, parked, p))
<1> DEFINE u == CHOOSE u : Drained(u, first, r, h, parked, p, Len(parked))
<1>1. Drained(u, first, r, h, parked, p, Len(parked))
  BY DrainedExists
<1>2. DrainEarly(first, r, h, parked, p) = u[Len(parked)]
  BY DEF DrainEarly, Drained
<1> HIDE DEF u
<1>3. u = [k \in 0 .. Len(parked) |->
             IF k = 0 THEN first ELSE OneMore(u[k - 1], r, h, parked[k], p)]
  BY <1>1 DEF Drained
<1>4. u[0] = first /\ \A k \in 1 .. Len(parked) : u[k] = OneMore(u[k - 1], r, h, parked[k], p)
  BY <1>3
<1>5. DrainsTo(u, first, r, h, parked, p, DrainEarly(first, r, h, parked, p))
  BY <1>2, <1>4 DEF DrainsTo
<1> QED BY <1>5

\* One more parked step leaves the session good.
LEMMA OneMoreKeeps ==
  ASSUME NEW s, NEW before, NEW r \in Seats, NEW h \in 0 .. MaxHands, NEW steps,
         NEW p \in Perms, NEW m \in Message,
         m.seat # r, m.ok => m \in steps,
         CallOK(s, before, r, h, steps), SessionOK(s, r, h, steps)
  PROVE  CallOK(s, OneMore(before, r, h, m, p), r, h, steps)
<1> DEFINE call == HandleMessage(before.s, r, h, m, p)
           so == steps \cup before.own
           next == OneMore(before, r, h, m, p)
<1>1. m.ok => m \in so
  OBVIOUS
<1>2. CallOK(before.s, call, r, h, so)
  <2>1. SessionOK(before.s, r, h, so) /\ StepsOK(so)
    BY DEF CallOK
  <2> HIDE DEF so
  <2> QED BY <1>1, <2>1, HandleMessageKeeps
<1> HIDE DEF call
<1>3. so \cup call.own = steps \cup (before.own \cup call.own)
  OBVIOUS
<1>4. NextIndex(s) \in Nat /\ NextIndex(before.s) \in Nat /\ NextIndex(call.s) \in Nat
  <2> HIDE DEF so
  <2> QED BY <1>2 DEF CallOK, SessionOK, Session, NextIndex
<1>5. NextIndex(s) <= NextIndex(call.s) /\ call.s.started = s.started
  <2> HIDE DEF so
  <2> QED BY <1>2, <1>4 DEF CallOK
<1>6. ASSUME NEW out, out \in SUBSET (before.own \cup call.own), NEW err
      PROVE  CallOK(s, Result(call.s, before.own \cup call.own, out, err), r, h, steps)
  <2> DEFINE own == before.own \cup call.own
  <2>1. SessionOK(call.s, r, h, steps \cup own) /\ StepsOK(steps \cup own)
    BY <1>2, <1>3 DEF CallOK
  <2>2. own \in SUBSET {o \in Message : o.seat = r /\ o.hand = h /\ o.ok}
    BY <1>2 DEF CallOK
  <2> HIDE DEF own, so
  <2>3. CallOK(s, Result(call.s, own, out, err), r, h, steps)
    <3>1. out \in SUBSET own
      BY <1>6 DEF own
    <3> QED BY <1>5, <2>1, <2>2, <3>1 DEF CallOK, Result
  <2> QED BY <2>3 DEF own
<1>7. before.out \cup call.out \in SUBSET (before.own \cup call.own)
  BY <1>2 DEF CallOK
<1>8. next = IF before.err THEN before
             ELSE Result(call.s, before.own \cup call.own,
                         IF call.err THEN {} ELSE before.out \cup call.out, call.err)
  BY OneMoreIs DEF call
<1> HIDE DEF so, next
<1>9. CASE before.err
  BY <1>8, <1>9 DEF next
<1>10. CASE ~ before.err
  <2> DEFINE out == IF call.err THEN {} ELSE before.out \cup call.out
  <2>1. out \in SUBSET (before.own \cup call.own)
    BY <1>7
  <2>2. next = Result(call.s, before.own \cup call.own, out, call.err)
    BY <1>8, <1>10
  <2> HIDE DEF out
  <2>3. CallOK(s, next, r, h, steps)
    BY <1>6, <2>1, <2>2
  <2> QED BY <2>3 DEF next
<1> QED BY <1>9, <1>10

LEMMA DrainEarlyKeeps ==
  ASSUME NEW s, NEW first, NEW r \in Seats, NEW h \in 0 .. MaxHands, NEW steps,
         NEW p \in Perms, NEW parked \in Seq(Message),
         \A k \in 1 .. Len(parked) :
           parked[k].seat # r /\ (parked[k].ok => parked[k] \in steps),
         CallOK(s, first, r, h, steps), SessionOK(s, r, h, steps)
  PROVE  CallOK(s, DrainEarly(first, r, h, parked, p), r, h, steps)
<1>1. Len(parked) \in Nat
  OBVIOUS
<1> DEFINE last == DrainEarly(first, r, h, parked, p)
<1>0. \E u : DrainsTo(u, first, r, h, parked, p, last)
  BY <1>1, DrainEarlyIsDrained
<1> HIDE DEF last
<1>a. PICK u : DrainsTo(u, first, r, h, parked, p, last)
  BY <1>0
<1>2. /\ u[0] = first
      /\ \A k \in 1 .. Len(parked) : u[k] = OneMore(u[k - 1], r, h, parked[k], p)
      /\ last = u[Len(parked)]
  BY <1>a DEF DrainsTo
<1> DEFINE T == {k \in Nat : k <= Len(parked) => CallOK(s, u[k], r, h, steps)}
<1>3. 0 \in T
  BY <1>2
<1>4. ASSUME NEW k \in T PROVE k + 1 \in T
  <2> SUFFICES ASSUME k + 1 <= Len(parked) PROVE CallOK(s, u[k + 1], r, h, steps)
    OBVIOUS
  <2>1. k + 1 \in 1 .. Len(parked) /\ (k + 1) - 1 = k /\ k <= Len(parked)
    BY <1>1
  <2>2. CallOK(s, u[k], r, h, steps)
    BY <2>1
  <2>3. u[k + 1] = OneMore(u[k], r, h, parked[k + 1], p)
    BY <1>2, <2>1
  <2>4. /\ parked[k + 1] \in Message /\ parked[k + 1].seat # r
        /\ (parked[k + 1].ok => parked[k + 1] \in steps)
    BY <2>1
  <2> QED BY <2>2, <2>3, <2>4, OneMoreKeeps
<1>5. T = Nat
  <2> HIDE DEF T
  <2>1. T \in SUBSET Nat
    BY DEF T
  <2> QED BY <1>3, <1>4, <2>1, SetInduction
<1>6. CallOK(s, u[Len(parked)], r, h, steps)
  BY <1>1, <1>5
<1> QED BY <1>2, <1>6 DEF last

-----------------------------------------------------------------------------
(* The steps of the system *)

LEMMA InitIInv == Init => IInv
<1> SUFFICES ASSUME Init PROVE IInv
  OBVIOUS
<1> USE SeatingAssumption, ShuffleAssumption
<1>1. NewSession \in Session /\ NextIndex(NewSession) = 0 /\ NewSession.pending = {}
  BY DEF NewSession, Session, NextIndex
<1>2. \A r \in Seats : sess[r] = NewSession /\ hand[r] = 0 /\ early[r] = <<>>
                       /\ gate[r] = "open" /\ driver[r] = "lobby"
  BY DEF Init
<1>3. flight \in SUBSET Packet /\ \A pkt \in flight : TravelOK(pkt.msg, pkt.to, made)
  <2> SUFFICES ASSUME NEW pkt \in flight
               PROVE  pkt \in Packet /\ TravelOK(pkt.msg, pkt.to, made)
    OBVIOUS
  <2>1. pkt \in [to : Seats, msg : SpoiledSteps, copy : {1}] /\ pkt.to # pkt.msg.seat
    BY DEF Init
  <2>2. pkt.msg \in Message /\ ~ pkt.msg.ok
    <3> DEFINE m == pkt.msg
    <3>1. m \in [hand : {1}, seat : Spoiled, deck : {<<>>}, ok : {FALSE}]
      BY <2>1 DEF SpoiledSteps
    <3> HIDE DEF m
    <3>2. m.hand \in 1 .. MaxHands /\ m.seat \in Seats /\ ~ m.ok /\ m.ok \in BOOLEAN
      <4>1. m.hand = 1 /\ m.seat \in Spoiled /\ m.ok = FALSE
        BY <3>1
      <4>2. m.hand \in 1 .. MaxHands
        BY <4>1
      <4>3. m.seat \in Seats
        BY <4>1
      <4>4. ~ m.ok /\ m.ok \in BOOLEAN
        BY <4>1
      <4> QED BY <4>2, <4>3, <4>4
    <3>3. m.deck = <<>> /\ <<>> \in Seq(Perms)
      BY <3>1
    <3>4. m = [hand |-> m.hand, seat |-> m.seat, deck |-> m.deck, ok |-> m.ok]
      BY <3>1
    <3>5. m \in Message
      BY <3>2, <3>3, <3>4 DEF Message
    <3> QED BY <3>2, <3>5 DEF m
  <2> QED BY <2>1, <2>2 DEF Packet, TravelOK
<1>4. TypeOK
  BY <1>1, <1>3 DEF Init, TypeOK
<1>5. StepsOK(made)
  BY DEF Init, StepsOK
<1>6. \A r \in Seats : SessionOK(sess[r], r, hand[r], made)
  BY <1>1, <1>2 DEF SessionOK, Init
<1>7. \A r \in Seats : PhaseOK(r)
  BY <1>2 DEF PhaseOK
<1>8. \A r \in Seats : \A i \in 1 .. Len(early[r]) : TravelOK(early[r][i], r, made)
  BY <1>2
<1> QED BY <1>3, <1>4, <1>5, <1>6, <1>7, <1>8 DEF IInv

\* Steps another seat executes leave a session as good as it was.
LEMMA OthersKeep ==
  ASSUME NEW s, NEW q, NEW r, q # r, NEW h, NEW g, NEW steps, NEW own,
         own \in SUBSET {m \in Message : m.seat = r /\ m.hand = g /\ m.ok},
         SessionOK(s, q, h, steps)
  PROVE  SessionOK(s, q, h, steps \cup own)
<1>1. \A m \in steps \cup own : m.seat = q => m \in steps
  OBVIOUS
<1> QED BY <1>1 DEF SessionOK

LEMMA InstallKeeps ==
  ASSUME IInv, NEW r \in Seats, NEW call, NEW begun, NEW rest \in SUBSET flight,
         CallOK(begun, call, r, hand[r], made),
         NextIndex(begun) = NextIndex(sess[r]),
         Install(r, call, rest), UNCHANGED hand
  PROVE  /\ made' \in SUBSET Message /\ made \in SUBSET made' /\ StepsOK(made')
         /\ sess' \in [Seats -> Session] /\ gate' \in [Seats -> {"open", "done", "aborted"}]
         /\ flight' \in SUBSET Packet
         /\ \A q \in Seats : SessionOK(sess'[q], q, hand'[q], made')
         /\ \A pkt \in flight' : TravelOK(pkt.msg, pkt.to, made')
         /\ \A q \in Seats \ {r} : sess'[q] = sess[q] /\ gate'[q] = gate[q]
         /\ sess'[r] = call.s /\ call.s.started = begun.started
         /\ Done(sess[r]) => Done(call.s)
         /\ gate'[r] = "done" => Done(call.s)
<1> USE SeatingAssumption, ShuffleAssumption
<1>1. TypeOK /\ PhaseOK(r) /\ SessionOK(sess[r], r, hand[r], made)
  BY DEF IInv
<1>2. /\ made' = made \cup call.own /\ StepsOK(made')
      /\ call.own \in SUBSET {m \in Message : m.seat = r /\ m.hand = hand[r] /\ m.ok}
      /\ call.out \in SUBSET call.own
      /\ SessionOK(call.s, r, hand[r], made')
  BY DEF Install, CallOK
<1>3. made' \in SUBSET Message /\ call.s \in Session
  BY <1>2 DEF StepsOK, SessionOK
<1>4. sess' = [sess EXCEPT ![r] = call.s]
  BY DEF Install
<1>5. sess' \in [Seats -> Session] /\ sess'[r] = call.s /\ \A q \in Seats \ {r} : sess'[q] = sess[q]
  BY <1>1, <1>3, <1>4 DEF TypeOK
<1>6. \A q \in Seats : SessionOK(sess'[q], q, hand'[q], made')
  <2> SUFFICES ASSUME NEW q \in Seats PROVE SessionOK(sess'[q], q, hand'[q], made')
    OBVIOUS
  <2>1. CASE q = r
    BY <2>1, <1>2, <1>5
  <2>2. CASE q # r
    <3>1. SessionOK(sess[q], q, hand[q], made)
      BY DEF IInv
    <3>2. SessionOK(sess[q], q, hand[q], made \cup call.own)
      BY <3>1, <2>2, <1>2, OthersKeep
    <3> QED BY <3>2, <2>2, <1>2, <1>5
  <2> QED BY <2>1, <2>2
<1>7. flight' \in SUBSET Packet /\ \A pkt \in flight' : TravelOK(pkt.msg, pkt.to, made')
  <2> SUFFICES ASSUME NEW pkt \in flight' PROVE pkt \in Packet /\ TravelOK(pkt.msg, pkt.to, made')
    OBVIOUS
  <2>1. CASE pkt \in rest
    BY <2>1, <1>1, <1>2 DEF IInv, TypeOK, TravelOK
  <2>2. CASE pkt \in Broadcast(r, call.out)
    <3>1. PICK q \in Seats \ {r}, m \in call.out, c \in 1 .. Copies :
            pkt = [to |-> q, msg |-> m, copy |-> c]
      BY <2>2 DEF Broadcast
    <3>2. m \in Message /\ m.seat = r /\ m \in made'
      BY <1>2
    <3> QED BY <3>1, <3>2 DEF Packet, TravelOK
  <2> QED BY <2>1, <2>2 DEF Install
<1>8. Done(sess[r]) => Done(call.s)
  <2>1. NextIndex(sess[r]) \in Nat /\ NextIndex(call.s) \in Nat
    BY <1>1, <1>3 DEF SessionOK, Session, NextIndex
  <2>2. NextIndex(begun) <= NextIndex(call.s)
    BY DEF CallOK
  <2> QED BY <2>1, <2>2 DEF Done
<1>9. gate' = [gate EXCEPT ![r] = IF call.err THEN gate[r] ELSE Signal(gate[r], call.s)]
  BY DEF Install
<1>10. Signal(gate[r], call.s) \in {gate[r], "done"} /\ gate[r] \in {"open", "done", "aborted"}
  BY <1>1 DEF Signal, TypeOK
<1>11. /\ gate' \in [Seats -> {"open", "done", "aborted"}]
       /\ \A q \in Seats \ {r} : gate'[q] = gate[q]
       /\ gate'[r] = IF call.err THEN gate[r] ELSE Signal(gate[r], call.s)
  BY <1>1, <1>9, <1>10 DEF TypeOK
<1>12. gate'[r] = "done" => Done(call.s)
  BY <1>1, <1>8, <1>11 DEF PhaseOK, Signal
<1>13. call.s.started = begun.started
  BY DEF CallOK
<1> QED BY <1>2, <1>3, <1>5, <1>6, <1>7, <1>8, <1>11, <1>12, <1>13


LEMMA StartNextHandKeeps ==
  ASSUME IInv, NEW r \in Seats, StartNextHand(r) PROVE IInv'
<1> USE SeatingAssumption, ShuffleAssumption
<1>1. TypeOK
  BY DEF IInv
<1>2. NewSession \in Session /\ NextIndex(NewSession) = 0 /\ NewSession.pending = {}
  BY DEF NewSession, Session, NextIndex
<1>3. /\ hand' \in [Seats -> 0 .. MaxHands] /\ hand'[r] = hand[r] + 1 /\ hand'[r] >= 1
      /\ \A q \in Seats \ {r} : hand'[q] = hand[q]
  BY <1>1 DEF TypeOK, StartNextHand
<1>4. /\ sess' \in [Seats -> Session] /\ sess'[r] = NewSession
      /\ gate' \in [Seats -> {"open", "done", "aborted"}] /\ gate'[r] = "open"
      /\ driver' \in [Seats -> {"lobby", "starting", "started", "waiting", "dealing", "failed"}]
      /\ driver'[r] = "starting"
      /\ \A q \in Seats \ {r} : sess'[q] = sess[q] /\ gate'[q] = gate[q] /\ driver'[q] = driver[q]
  BY <1>1, <1>2 DEF TypeOK, StartNextHand
<1>5. made' = made /\ early' = early /\ flight' = flight
  BY DEF StartNextHand
<1>6. TypeOK'
  BY <1>1, <1>3, <1>4, <1>5 DEF TypeOK
<1>7. ASSUME NEW q \in Seats PROVE SessionOK(sess'[q], q, hand'[q], made')
  <2>1. SessionOK(sess[q], q, hand[q], made)
    BY DEF IInv
  <2>2. CASE q = r
    <3>1. \A m \in made : m.seat = r => m.hand <= hand[r] /\ m.hand \in Nat
      BY <2>1, <2>2, <1>1 DEF SessionOK, TypeOK, Message
    <3>2. \A m \in made : m.seat = r => m.hand <= hand'[r] /\ m.hand # hand'[r]
      BY <3>1, <1>1, <1>3 DEF TypeOK
    <3> QED BY <2>2, <3>2, <1>2, <1>4, <1>5 DEF SessionOK
  <2>3. CASE q # r
    BY <2>1, <2>3, <1>3, <1>4, <1>5
  <2> QED BY <2>2, <2>3
<1>8. ASSUME NEW q \in Seats PROVE PhaseOK(q)'
  <2>1. CASE q = r
    BY <2>1, <1>3, <1>4 DEF PhaseOK
  <2>2. CASE q # r
    <3>1. PhaseOK(q)
      BY DEF IInv
    <3>2. /\ hand'[q] = hand[q] /\ sess'[q] = sess[q]
          /\ gate'[q] = gate[q] /\ driver'[q] = driver[q]
      BY <2>2, <1>3, <1>4
    <3> QED BY <3>1, <3>2 DEF PhaseOK
  <2> QED BY <2>1, <2>2
<1> QED BY <1>5, <1>6, <1>7, <1>8 DEF IInv

\* What StartShuffle and HandleShuffle call leaves the session good.
LEMMA StartIsCall ==
  ASSUME IInv, NEW r \in Seats, NEW p \in Perms, StartShuffle(r, p)
  PROVE  LET begun == [sess[r] EXCEPT !.started = TRUE]
             call == DrainEarly(StartSession(sess[r], r, hand[r], p), r, hand[r], early[r], p)
         IN  /\ CallOK(begun, call, r, hand[r], made)
             /\ NextIndex(begun) = NextIndex(sess[r])
<1> USE SeatingAssumption, ShuffleAssumption
<1> DEFINE begun == [sess[r] EXCEPT !.started = TRUE]
           first == IF r = 0 THEN ExecuteLocal(begun, r, hand[r], p) ELSE Accept(begun)
           call == DrainEarly(first, r, hand[r], early[r], p)
           begins == StartSession(sess[r], r, hand[r], p)
<1>1. /\ TypeOK /\ StepsOK(made) /\ PhaseOK(r) /\ SessionOK(sess[r], r, hand[r], made)
      /\ driver[r] = "starting"
  BY DEF IInv, StartShuffle
<1>2. hand[r] \in 1 .. MaxHands /\ sess[r] = NewSession /\ sess[r] \in Session
  BY <1>1 DEF PhaseOK, TypeOK
<1>3. begun \in Session /\ begun.applied = sess[r].applied /\ begun.pending = sess[r].pending
  BY <1>2 DEF Session
<1>4. begins = first
  BY DEF StartSession
<1> HIDE DEF begun, begins
<1>5. NextIndex(begun) = NextIndex(sess[r]) /\ NextIndex(begun) = 0
  BY <1>2, <1>3 DEF NextIndex, NewSession
<1>6. SessionOK(begun, r, hand[r], made)
  BY <1>1, <1>3, <1>5 DEF SessionOK
<1>7. CallOK(begun, first, r, hand[r], made)
  <2>1. CASE r = 0
    BY <2>1, <1>1, <1>2, <1>5, <1>6, ExecuteLocalKeeps
  <2>2. CASE r # 0
    <3>1. first = Result(begun, {}, {}, FALSE)
      BY <2>2 DEF Accept
    <3> HIDE DEF first
    <3>2. CallOK(begun, Result(begun, {}, {}, FALSE), r, hand[r], made)
      <4>1. NextIndex(begun) <= NextIndex(begun) /\ begun.started = begun.started
        BY <1>5
      <4> QED BY <1>1, <1>6, <4>1, QuietCall
    <3> QED BY <3>1, <3>2
  <2> QED BY <2>1, <2>2
<1> HIDE DEF first
<1>8. CallOK(begun, call, r, hand[r], made)
  <2>1. early[r] \in Seq(Message) /\ hand[r] \in 0 .. MaxHands
    BY <1>1 DEF TypeOK
  <2>2. \A k \in 1 .. Len(early[r]) :
          early[r][k].seat # r /\ (early[r][k].ok => early[r][k] \in made)
    BY DEF IInv, TravelOK
  <2> QED BY <2>1, <2>2, <1>6, <1>7, DrainEarlyKeeps
<1> QED BY <1>4, <1>5, <1>8 DEF begun, begins

LEMMA StartShuffleKeeps ==
  ASSUME IInv, NEW r \in Seats, NEW p \in Perms, StartShuffle(r, p) PROVE IInv'
<1> USE SeatingAssumption, ShuffleAssumption
<1> DEFINE begun == [sess[r] EXCEPT !.started = TRUE]
           call == DrainEarly(StartSession(sess[r], r, hand[r], p), r, hand[r], early[r], p)
<1>1. /\ TypeOK /\ StepsOK(made) /\ PhaseOK(r) /\ SessionOK(sess[r], r, hand[r], made)
      /\ driver[r] = "starting"
  BY DEF IInv, StartShuffle
<1>2. Install(r, call, flight) /\ early' = [early EXCEPT ![r] = <<>>] /\ UNCHANGED hand
      /\ driver' = [driver EXCEPT ![r] = IF call.err THEN "failed" ELSE "started"]
  BY DEF StartShuffle
<1>3. CallOK(begun, call, r, hand[r], made) /\ NextIndex(begun) = NextIndex(sess[r])
  BY StartIsCall
<1> HIDE DEF begun, call
<1>4. /\ made' \in SUBSET Message /\ made \in SUBSET made' /\ StepsOK(made')
      /\ sess' \in [Seats -> Session] /\ gate' \in [Seats -> {"open", "done", "aborted"}]
      /\ flight' \in SUBSET Packet
      /\ \A q \in Seats : SessionOK(sess'[q], q, hand'[q], made')
      /\ \A pkt \in flight' : TravelOK(pkt.msg, pkt.to, made')
      /\ \A q \in Seats \ {r} : sess'[q] = sess[q] /\ gate'[q] = gate[q]
      /\ sess'[r] = call.s
      /\ gate'[r] = "done" => Done(call.s)
  BY <1>2, <1>3, InstallKeeps
<1>5. /\ driver' \in [Seats -> {"lobby", "starting", "started", "waiting", "dealing", "failed"}]
       /\ driver'[r] \in {"failed", "started"}
       /\ \A q \in Seats \ {r} : driver'[q] = driver[q]
  BY <1>1, <1>2 DEF TypeOK
<1>6. /\ early' \in [Seats -> Seq(Message)] /\ early'[r] = <<>>
       /\ \A q \in Seats \ {r} : early'[q] = early[q]
  <2>1. <<>> \in Seq(Message)
    OBVIOUS
  <2> QED BY <2>1, <1>1, <1>2 DEF TypeOK
<1>7. TypeOK'
  BY <1>1, <1>2, <1>4, <1>5, <1>6 DEF TypeOK
<1>8. ASSUME NEW q \in Seats PROVE PhaseOK(q)'
  <2>1. CASE q = r
    BY <2>1, <1>4, <1>5 DEF PhaseOK
  <2>2. CASE q # r
    <3>1. PhaseOK(q)
      BY DEF IInv
    <3>2. /\ hand'[q] = hand[q] /\ sess'[q] = sess[q]
          /\ gate'[q] = gate[q] /\ driver'[q] = driver[q]
      BY <2>2, <1>2, <1>4, <1>5
    <3> QED BY <3>1, <3>2 DEF PhaseOK
  <2> QED BY <2>1, <2>2
<1>9. \A q \in Seats : \A i \in 1 .. Len(early'[q]) : TravelOK(early'[q][i], q, made')
  <2> SUFFICES ASSUME NEW q \in Seats, NEW i \in 1 .. Len(early'[q])
               PROVE  TravelOK(early'[q][i], q, made')
    OBVIOUS
  <2>1. CASE q = r
    <3>1. Len(early'[q]) = 0
      BY <2>1, <1>6
    <3> QED BY <3>1
  <2>2. CASE q # r
    <3>1. early'[q] = early[q]
      BY <2>2, <1>6
    <3>2. TravelOK(early[q][i], q, made)
      BY <3>1 DEF IInv
    <3> QED BY <3>1, <3>2, <1>4 DEF TravelOK
  <2> QED BY <2>1, <2>2
<1> QED BY <1>4, <1>7, <1>8, <1>9 DEF IInv

LEMMA ParkShuffleKeeps ==
  ASSUME IInv, NEW r \in Seats, NEW pkt \in flight, ParkShuffle(r, pkt) PROVE IInv'
<1> USE SeatingAssumption, ShuffleAssumption
<1>1. TypeOK /\ pkt \in Packet /\ pkt.to = r
  BY DEF IInv, TypeOK, ParkShuffle
<1>2. pkt.msg \in Message /\ TravelOK(pkt.msg, r, made)
  BY <1>1 DEF IInv, Packet
<1>3. early[r] \in Seq(Message)
  BY <1>1 DEF TypeOK
<1> DEFINE more == IF Len(early[r]) < EarlyCap THEN Append(early[r], pkt.msg) ELSE early[r]
<1>4. more \in Seq(Message) /\ \A i \in 1 .. Len(more) : TravelOK(more[i], r, made)
  <2>1. \A i \in 1 .. Len(early[r]) : TravelOK(early[r][i], r, made)
    BY DEF IInv
  <2>2. /\ Append(early[r], pkt.msg) \in Seq(Message)
        /\ Len(Append(early[r], pkt.msg)) = Len(early[r]) + 1
        /\ \A i \in 1 .. Len(early[r]) : Append(early[r], pkt.msg)[i] = early[r][i]
        /\ Append(early[r], pkt.msg)[Len(early[r]) + 1] = pkt.msg
    BY <1>2, <1>3
  <2>3. \A i \in 1 .. Len(early[r]) + 1 : TravelOK(Append(early[r], pkt.msg)[i], r, made)
    <3>1. Len(early[r]) \in Nat
      BY <1>3
    <3> QED BY <2>1, <2>2, <3>1, <1>2
  <2> QED BY <2>1, <2>2, <2>3, <1>3
<1>5. early' = [early EXCEPT ![r] = more]
  BY DEF ParkShuffle
<1> HIDE DEF more
<1>6. early' \in [Seats -> Seq(Message)] /\ early'[r] = more
      /\ \A q \in Seats \ {r} : early'[q] = early[q]
  BY <1>1, <1>4, <1>5 DEF TypeOK
<1>7. UNCHANGED <<hand, sess, gate, driver, made>> /\ flight' \in SUBSET flight
  BY DEF ParkShuffle
<1>8. TypeOK'
  BY <1>1, <1>6, <1>7 DEF TypeOK
<1>9. \A q \in Seats : \A i \in 1 .. Len(early'[q]) : TravelOK(early'[q][i], q, made')
  BY <1>4, <1>6, <1>7 DEF IInv
<1> QED BY <1>7, <1>8, <1>9 DEF IInv, PhaseOK

LEMMA HandleIsCall ==
  ASSUME IInv, NEW r \in Seats, NEW p \in Perms, NEW pkt \in flight, HandleShuffle(r, pkt, p)
  PROVE  CallOK(sess[r], HandleMessage(sess[r], r, hand[r], pkt.msg, p), r, hand[r], made)
<1>1. /\ TypeOK /\ StepsOK(made) /\ SessionOK(sess[r], r, hand[r], made)
      /\ pkt \in Packet /\ pkt.to = r
  BY DEF IInv, TypeOK, HandleShuffle
<1>2. pkt.msg \in Message /\ pkt.msg.seat # r /\ (pkt.msg.ok => pkt.msg \in made)
  BY <1>1 DEF IInv, Packet, TravelOK
<1>3. hand[r] \in 0 .. MaxHands
  BY <1>1 DEF TypeOK
<1> QED BY <1>1, <1>2, <1>3, HandleMessageKeeps

LEMMA HandleShuffleKeeps ==
  ASSUME IInv, NEW r \in Seats, NEW p \in Perms, NEW pkt \in flight, HandleShuffle(r, pkt, p)
  PROVE  IInv'
<1> USE SeatingAssumption, ShuffleAssumption
<1> DEFINE call == HandleMessage(sess[r], r, hand[r], pkt.msg, p)
<1>1. /\ TypeOK /\ StepsOK(made) /\ PhaseOK(r) /\ SessionOK(sess[r], r, hand[r], made)
      /\ pkt \in Packet /\ pkt.to = r /\ sess[r].started
  BY DEF IInv, TypeOK, HandleShuffle
<1>2. CallOK(sess[r], call, r, hand[r], made)
  BY HandleIsCall
<1>3. Install(r, call, flight \ {pkt}) /\ UNCHANGED <<hand, early, driver>>
  BY DEF HandleShuffle
<1> HIDE DEF call
<1>4. /\ made' \in SUBSET Message /\ made \in SUBSET made' /\ StepsOK(made')
      /\ sess' \in [Seats -> Session] /\ gate' \in [Seats -> {"open", "done", "aborted"}]
      /\ flight' \in SUBSET Packet
      /\ \A q \in Seats : SessionOK(sess'[q], q, hand'[q], made')
      /\ \A o \in flight' : TravelOK(o.msg, o.to, made')
      /\ \A q \in Seats \ {r} : sess'[q] = sess[q] /\ gate'[q] = gate[q]
      /\ sess'[r] = call.s
      /\ Done(sess[r]) => Done(call.s)
      /\ gate'[r] = "done" => Done(call.s)
  <2>1. flight \ {pkt} \in SUBSET flight /\ UNCHANGED hand
    BY <1>3
  <2> QED BY <1>2, <1>3, <2>1, InstallKeeps
<1>5. TypeOK'
  BY <1>1, <1>3, <1>4 DEF TypeOK
<1>6. driver[r] \notin {"lobby", "starting"}
  BY <1>1 DEF PhaseOK, NewSession
<1>7. ASSUME NEW q \in Seats PROVE PhaseOK(q)'
  <2>1. CASE q = r
    BY <2>1, <1>1, <1>3, <1>4, <1>6 DEF PhaseOK
  <2>2. CASE q # r
    <3>1. PhaseOK(q)
      BY DEF IInv
    <3>2. /\ hand'[q] = hand[q] /\ sess'[q] = sess[q]
          /\ gate'[q] = gate[q] /\ driver'[q] = driver[q]
      BY <2>2, <1>3, <1>4
    <3> QED BY <3>1, <3>2 DEF PhaseOK
  <2> QED BY <2>1, <2>2
<1>8. \A q \in Seats : \A i \in 1 .. Len(early'[q]) : TravelOK(early'[q][i], q, made')
  BY <1>3, <1>4 DEF IInv, TravelOK
<1> QED BY <1>4, <1>5, <1>7, <1>8 DEF IInv


\* The driver's own steps change neither sessions nor what travels.
LEMMA DriverKeeps ==
  ASSUME IInv, NEW r \in Seats,
         WaitShuffle(r) \/ GateOpens(r) \/ AbortShuffle(r) \/ DealTimeout(r)
  PROVE  IInv'
<1>1. TypeOK /\ PhaseOK(r)
  BY DEF IInv
<1>2. UNCHANGED <<hand, sess, early, made, flight>>
  BY DEF WaitShuffle, GateOpens, AbortShuffle, DealTimeout
<1>3. /\ driver' \in [Seats -> {"lobby", "starting", "started", "waiting", "dealing", "failed"}]
      /\ gate' \in [Seats -> {"open", "done", "aborted"}]
      /\ \A q \in Seats \ {r} : driver'[q] = driver[q] /\ gate'[q] = gate[q]
  <2>1. Signal(gate[r], sess[r]) \in {"open", "done", "aborted"}
    BY <1>1 DEF Signal, TypeOK
  <2>2. CASE WaitShuffle(r)
    BY <2>1, <2>2, <1>1 DEF WaitShuffle, TypeOK
  <2>3. CASE GateOpens(r)
    BY <2>3, <1>1 DEF GateOpens, TypeOK
  <2>4. CASE AbortShuffle(r)
    BY <2>4, <1>1 DEF AbortShuffle, TypeOK
  <2>5. CASE DealTimeout(r)
    BY <2>5, <1>1 DEF DealTimeout, TypeOK
  <2> QED BY <2>2, <2>3, <2>4, <2>5
<1>4. TypeOK'
  BY <1>1, <1>2, <1>3 DEF TypeOK
<1>5. PhaseOK(r)'
  <2>1. CASE WaitShuffle(r)
    BY <2>1, <1>1 DEF WaitShuffle, PhaseOK, Signal, TypeOK
  <2>2. CASE GateOpens(r)
    BY <2>2, <1>1 DEF GateOpens, PhaseOK, TypeOK
  <2>3. CASE AbortShuffle(r)
    BY <2>3, <1>1 DEF AbortShuffle, PhaseOK, TypeOK
  <2>4. CASE DealTimeout(r)
    BY <2>4, <1>1 DEF DealTimeout, PhaseOK, TypeOK
  <2> QED BY <2>1, <2>2, <2>3, <2>4
<1>6. \A q \in Seats : PhaseOK(q)'
  <2> SUFFICES ASSUME NEW q \in Seats, q # r PROVE PhaseOK(q)'
    BY <1>5
  <2> QED BY <1>2, <1>3 DEF PhaseOK, IInv
<1> QED BY <1>2, <1>4, <1>6 DEF IInv

LEMMA NextIInv == IInv /\ [Next]_vars => IInv'
<1> SUFFICES ASSUME IInv, [Next]_vars PROVE IInv'
  OBVIOUS
<1>1. CASE UNCHANGED vars
  BY <1>1 DEF vars, IInv, TypeOK, PhaseOK
<1>2. CASE Next
  <2>1. PICK r \in Seats :
          \/ StartNextHand(r) \/ Start(r) \/ Receive(r)
          \/ WaitShuffle(r) \/ GateOpens(r)
          \/ AbortShuffle(r) \/ DealTimeout(r)
    BY <1>2 DEF Next
  <2>2. CASE StartNextHand(r)
    BY <2>2, StartNextHandKeeps
  <2>3. CASE Start(r)
    BY <2>3, StartShuffleKeeps DEF Start
  <2>4. CASE Receive(r)
    BY <2>4, ParkShuffleKeeps, HandleShuffleKeeps DEF Receive
  <2>5. CASE WaitShuffle(r) \/ GateOpens(r) \/ AbortShuffle(r) \/ DealTimeout(r)
    BY <2>5, DriverKeeps
  <2> QED BY <2>1, <2>2, <2>3, <2>4, <2>5
<1> QED BY <1>1, <1>2

-----------------------------------------------------------------------------
(* What the invariant shows *)

LEMMA IInvSameSteps == IInv => SameSteps
<1> SUFFICES ASSUME IInv, NEW r \in Seats, NEW q \in Seats, hand[r] = hand[q],
                    NEW i \in 1 .. N, i <= NextIndex(sess[r]), i <= NextIndex(sess[q])
             PROVE  sess[r].applied[i] = sess[q].applied[i]
  BY DEF SameSteps
<1>1. SessionOK(sess[r], r, hand[r], made) /\ SessionOK(sess[q], q, hand[q], made)
  BY DEF IInv
<1>2. i \in 1 .. NextIndex(sess[r]) /\ i \in 1 .. NextIndex(sess[q])
  BY <1>1, SeatingAssumption DEF SessionOK, Session, NextIndex
<1>3. /\ sess[r].applied[i] \in made /\ sess[q].applied[i] \in made
      /\ sess[r].applied[i].seat = sess[q].applied[i].seat
      /\ sess[r].applied[i].hand = sess[q].applied[i].hand
  BY <1>1, <1>2 DEF SessionOK
<1> QED BY <1>3 DEF IInv, StepsOK

LEMMA IInvEachSeatOnTop == IInv => EachSeatOnTop
<1> SUFFICES ASSUME IInv, NEW r \in Seats, NEW i \in 1 .. NextIndex(sess[r])
             PROVE  LET m == sess[r].applied[i]
                    IN  /\ m.ok /\ m.seat = i - 1 /\ m.hand = hand[r]
                        /\ Len(m.deck) = i
                        /\ i > 1 => SubSeq(m.deck, 1, i - 1) = sess[r].applied[i - 1].deck
  BY DEF EachSeatOnTop
<1>1. SessionOK(sess[r], r, hand[r], made) /\ StepsOK(made)
  BY DEF IInv
<1>2. NextIndex(sess[r]) \in Nat
  BY <1>1 DEF SessionOK, Session, NextIndex
<1> DEFINE m == sess[r].applied[i]
           o == sess[r].applied[i - 1]
<1>3. m \in made /\ m.seat = i - 1 /\ m.hand = hand[r]
  BY <1>1 DEF SessionOK
<1>4. m.ok /\ Len(m.deck) = i
  <2> HIDE DEF m
  <2>1. m.ok /\ Len(m.deck) = m.seat + 1
    BY <1>1, <1>3 DEF StepsOK
  <2> QED BY <2>1, <1>2, <1>3
<1>5. ASSUME i > 1 PROVE SubSeq(m.deck, 1, i - 1) = o.deck
  <2>1. i - 1 \in 1 .. NextIndex(sess[r])
    BY <1>2, <1>5
  <2>2. o \in made /\ o.seat = (i - 1) - 1 /\ o.hand = hand[r]
    <3>1. \A j \in 1 .. NextIndex(sess[r]) :
            sess[r].applied[j] \in made /\ sess[r].applied[j].seat = j - 1
            /\ sess[r].applied[j].hand = hand[r]
      BY <1>1 DEF SessionOK
    <3> QED BY <2>1, <3>1
  <2> HIDE DEF m, o
  <2>3. o.seat < m.seat /\ o.seat + 1 = i - 1 /\ m.hand = o.hand
    BY <2>2, <1>2, <1>3, <2>1
  <2>4. SubSeq(m.deck, 1, o.seat + 1) = o.deck
    BY <1>1, <1>3, <2>2, <2>3 DEF StepsOK
  <2> QED BY <2>3, <2>4
<1> QED BY <1>3, <1>4, <1>5

LEMMA IInvSameDeckDealt == IInv => SameDeckDealt
<1> SUFFICES ASSUME IInv, NEW r \in Seats, driver[r] = "dealing"
             PROVE  /\ NextIndex(sess[r]) = N
                    /\ \A q \in Seats : driver[q] = "dealing" /\ hand[q] = hand[r]
                                          => Current(sess[q]) = Current(sess[r])
  BY DEF SameDeckDealt
<1> USE SeatingAssumption
<1>1. \A q \in Seats : driver[q] = "dealing" => NextIndex(sess[q]) = N
  <2> SUFFICES ASSUME NEW q \in Seats, driver[q] = "dealing" PROVE NextIndex(sess[q]) = N
    OBVIOUS
  <2>1. PhaseOK(q) /\ SessionOK(sess[q], q, hand[q], made)
    BY DEF IInv
  <2>2. NextIndex(sess[q]) \in Nat
    BY <2>1 DEF SessionOK, Session, NextIndex
  <2> QED BY <2>1, <2>2 DEF PhaseOK, Done, SessionOK
<1>2. ASSUME NEW q \in Seats, driver[q] = "dealing", hand[q] = hand[r]
      PROVE  Current(sess[q]) = Current(sess[r])
  <2>1. NextIndex(sess[q]) = N /\ NextIndex(sess[r]) = N /\ N \in 1 .. N
    BY <1>1, <1>2
  <2>2. sess[r].applied[N] = sess[q].applied[N]
    BY <1>2, <2>1, IInvSameSteps DEF SameSteps
  <2> QED BY <2>1, <2>2 DEF Current
<1> QED BY <1>1, <1>2

\* The variables keep their types (shuffle_session.go:41, crypto_hand.go:18).
THEOREM ShuffleTypeCorrect == Spec => []TypeOK
<1>1. IInv => TypeOK
  BY DEF IInv
<1> QED BY <1>1, InitIInv, NextIInv, PTL DEF Spec

\* Two replicas of a hand never disagree on a step both have applied
\* (HandleMessage, shuffle_session.go:130).
THEOREM SameStepsTheorem == Spec => []SameSteps
<1> QED BY InitIInv, NextIInv, IInvSameSteps, PTL DEF Spec

\* What a replica applied is seats 0, 1, ... once each, each step made from the
\* deck of the one before (executeLocalLocked, drainPendingLocked).
THEOREM EachSeatOnTopTheorem == Spec => []EachSeatOnTop
<1> QED BY InitIInv, NextIInv, IInvEachSeatOnTop, PTL DEF Spec

\* Replicas that go on to deal hold all N steps and the same deck, whoever was
\* timed out (WaitShuffle, AbortShuffle, crypto_hand.go:118).
THEOREM SameDeckDealtTheorem == Spec => []SameDeckDealt
<1> QED BY InitIInv, NextIInv, IInvSameDeckDealt, PTL DEF Spec

-----------------------------------------------------------------------------
(* The decks of all replicas are one deck in the making *)

\* The deck the steps of a hand have led to, as LatestDeck has it.
HighestDeck(mine) ==
  IF mine = {} THEN <<>> ELSE (CHOOSE m \in mine : \A o \in mine : o.seat <= m.seat).deck

DeckOf(steps, h) == HighestDeck({m \in steps : m.hand = h})

\* The step of the highest seat has the deck.
LEMMA HighestHasIt ==
  ASSUME NEW steps, StepsOK(steps), NEW m \in steps,
         \A o \in steps : o.hand = m.hand => o.seat <= m.seat
  PROVE  DeckOf(steps, m.hand) = m.deck
<1> DEFINE mine == {o \in steps : o.hand = m.hand}
           best == CHOOSE b \in mine : \A o \in mine : o.seat <= b.seat
<1>1. m \in mine /\ \A o \in mine : o.seat <= m.seat
  OBVIOUS
<1>2. best \in mine /\ \A o \in mine : o.seat <= best.seat
  BY <1>1
<1>3. DeckOf(steps, m.hand) = best.deck
  BY <1>1 DEF DeckOf, HighestDeck
<1>4. mine \in SUBSET steps /\ \A o \in mine : o.hand = m.hand
  OBVIOUS
<1> HIDE DEF mine, best
<1>5. best.seat \in Seats /\ m.seat \in Seats /\ best.hand = m.hand /\ best \in steps
  BY <1>2, <1>4 DEF StepsOK, Message
<1>6. best.seat <= m.seat /\ m.seat <= best.seat
  BY <1>1, <1>2
<1>7. best.seat = m.seat
  BY <1>5, <1>6 DEF Seats
<1>8. best = m
  BY <1>5, <1>7 DEF StepsOK
<1> QED BY <1>3, <1>8

\* The deck of every step of a hand is a beginning of the deck of the hand.
LEMMA StepsBegin ==
  ASSUME NEW steps, StepsOK(steps), NEW m \in steps
  PROVE  Shared!Begin(m.deck, DeckOf(steps, m.hand))
<1> USE SeatingAssumption
<1> DEFINE mine == {o \in steps : o.hand = m.hand}
           below == {N - o.seat : o \in mine}
<1>1. \A o \in mine : o \in Message /\ o.seat \in Seats /\ N - o.seat \in Nat
  BY DEF StepsOK, Message, Seats
<1>2. below \in SUBSET Nat /\ below # {}
  BY <1>1
<1>3. PICK top \in mine : \A o \in mine : o.seat <= top.seat
  <2>1. Least(below) \in below /\ \A y \in below : Least(below) <= y
    <3> HIDE DEF below
    <3> QED BY <1>2, LeastExists
  <2>2. PICK top \in mine : Least(below) = N - top.seat
    BY <2>1
  <2>3. \A o \in mine : N - top.seat <= N - o.seat
    BY <2>1, <2>2
  <2> QED BY <1>1, <2>2, <2>3 DEF Seats
<1>4. DeckOf(steps, m.hand) = top.deck
  <2>1. top \in steps /\ top.hand = m.hand /\ \A o \in steps : o.hand = top.hand => o.seat <= top.seat
    BY <1>3
  <2> QED BY <2>1, HighestHasIt
<1>5. /\ top \in steps /\ top.hand = m.hand /\ m.seat <= top.seat
      /\ m.seat \in Seats /\ top.seat \in Seats
      /\ Len(m.deck) = m.seat + 1 /\ Len(top.deck) = top.seat + 1
      /\ m.deck \in Seq(Perms)
  BY <1>1, <1>3 DEF StepsOK, Message
<1>6. Len(m.deck) <= Len(top.deck)
  BY <1>5 DEF Seats
<1>7. m.deck = SubSeq(top.deck, 1, Len(m.deck))
  <2>1. CASE m.seat < top.seat
    BY <1>5, <2>1 DEF StepsOK
  <2>2. CASE ~ (m.seat < top.seat)
    <3>1. m.seat = top.seat
      BY <1>5, <2>2 DEF Seats
    <3>2. m = top
      BY <1>5, <3>1 DEF StepsOK
    <3>3. SubSeq(m.deck, 1, Len(m.deck)) = m.deck
      <4>1. m.seat \in Nat
        BY <1>5 DEF Seats
      <4> QED BY <1>5, <4>1, BeginningAndLast
    <3> QED BY <3>2, <3>3
  <2> QED BY <2>1, <2>2
<1> QED BY <1>4, <1>6, <1>7 DEF Shared!Begin

\* The deck of a replica is that of the last step it has applied.
LEMMA CurrentIs ==
  ASSUME NEW s, NEW r, NEW h, NEW steps, SessionOK(s, r, h, steps), StepsOK(steps)
  PROVE  /\ NextIndex(s) \in Nat /\ Len(Current(s)) = NextIndex(s)
         /\ NextIndex(s) = 0 => Current(s) = <<>>
         /\ NextIndex(s) # 0 => \E m \in steps : /\ m.hand = h /\ m.seat = NextIndex(s) - 1
                                                /\ Current(s) = m.deck
<1>1. NextIndex(s) \in Nat
  BY DEF SessionOK, Session, NextIndex
<1>2. CASE NextIndex(s) = 0
  BY <1>2 DEF Current
<1>3. CASE NextIndex(s) # 0
  <2> DEFINE m == s.applied[NextIndex(s)]
  <2>1. NextIndex(s) \in 1 .. NextIndex(s)
    BY <1>1, <1>3
  <2>2. m \in steps /\ m.seat = NextIndex(s) - 1 /\ m.hand = h
    BY <2>1 DEF SessionOK
  <2>3. Current(s) = m.deck
    BY <1>3 DEF Current
  <2> HIDE DEF m
  <2>4. Len(m.deck) = NextIndex(s)
    BY <1>1, <2>2 DEF StepsOK
  <2> QED BY <1>1, <1>3, <2>2, <2>3, <2>4
<1> QED BY <1>1, <1>2, <1>3

\* A step nobody had executed is the next of its hand.
LEMMA FreshStep ==
  ASSUME NEW steps, NEW m, NEW more, NEW r \in Seats, NEW h, more = steps \cup {m},
         StepsOK(steps), StepsOK(more), m \notin steps, m.seat = r, m.hand = h
  PROVE  /\ h \in 1 .. MaxHands /\ m.deck[r + 1] \in Perms
         /\ \A o \in steps : o.hand = h => o.seat < r
         /\ Len(DeckOf(steps, h)) = r
         /\ DeckOf(more, h) = m.deck
         /\ m.deck = Append(DeckOf(steps, h), m.deck[r + 1])
         /\ \A g : g # h => DeckOf(more, g) = DeckOf(steps, g)
<1> USE SeatingAssumption
<1>1. /\ m \in Message /\ h \in 1 .. MaxHands /\ m.deck \in Seq(Perms)
      /\ Len(m.deck) = r + 1 /\ r \in Nat
  BY DEF StepsOK, Message, Seats
<1>2. \A o \in steps : o.hand = h => o.seat < r
  <2> SUFFICES ASSUME NEW o \in steps, o.hand = h, ~ (o.seat < r) PROVE FALSE
    OBVIOUS
  <2>1. o.seat \in Seats
    BY DEF StepsOK, Message
  <2>2. PICK o2 \in steps : o2.hand = h /\ o2.seat = r
    <3>1. CASE o.seat = r
      BY <3>1
    <3>2. CASE r < o.seat
      BY <3>2 DEF StepsOK
    <3> QED BY <2>1, <3>1, <3>2 DEF Seats
  <2>3. o2 \in more /\ m \in more
    OBVIOUS
  <2>4. \A a, b \in more : a.hand = b.hand /\ a.seat = b.seat => a = b
    BY DEF StepsOK
  <2>5. o2 = m
    BY <2>2, <2>3, <2>4
  <2> QED BY <2>5
<1>3. DeckOf(more, h) = m.deck
  <2>1. \A o \in more : o.hand = m.hand => o.seat <= m.seat
    BY <1>1, <1>2 DEF StepsOK, Message, Seats
  <2>2. m \in more
    OBVIOUS
  <2> QED BY <2>1, <2>2, HighestHasIt
<1>4. /\ SubSeq(m.deck, 1, r) \in Seq(Perms) /\ Len(SubSeq(m.deck, 1, r)) = r
      /\ m.deck[r + 1] \in Perms
      /\ Append(SubSeq(m.deck, 1, r), m.deck[r + 1]) = m.deck
  BY <1>1, BeginningAndLast
<1>5. DeckOf(steps, h) = SubSeq(m.deck, 1, r)
  <2>1. CASE r = 0
    <3>1. {o \in steps : o.hand = h} = {}
      BY <1>2, <2>1 DEF StepsOK, Message, Seats
    <3>2. DeckOf(steps, h) = <<>>
      BY <3>1 DEF DeckOf, HighestDeck
    <3>3. SubSeq(m.deck, 1, 0) = <<>>
      BY <1>1
    <3> QED BY <2>1, <3>2, <3>3
  <2>2. CASE r # 0
    <3>1. r - 1 \in Seats /\ r - 1 < r /\ (r - 1) + 1 = r
      BY <2>2 DEF Seats
    <3>2. PICK o \in more : o.hand = h /\ o.seat = r - 1
      BY <3>1 DEF StepsOK
    <3>3. o \in steps
      <4>1. o.seat # m.seat
        BY <1>1, <3>2
      <4> QED BY <3>2, <4>1
    <3>4. \A b \in steps : b.hand = o.hand => b.seat <= o.seat
      BY <1>2, <3>1, <3>2 DEF StepsOK, Message, Seats
    <3>5. DeckOf(steps, h) = o.deck
      BY <3>2, <3>3, <3>4, HighestHasIt
    <3>6. SubSeq(m.deck, 1, o.seat + 1) = o.deck
      BY <3>1, <3>2 DEF StepsOK
    <3> QED BY <3>1, <3>2, <3>5, <3>6
  <2> QED BY <2>1, <2>2
<1>6. ASSUME NEW g, g # h PROVE DeckOf(more, g) = DeckOf(steps, g)
  <2>1. \A o : (o \in more /\ o.hand = g) <=> (o \in steps /\ o.hand = g)
    BY <1>6
  <2>2. {o \in more : o.hand = g} = {o \in steps : o.hand = g}
    BY <2>1
  <2> QED BY <2>2 DEF DeckOf
<1> QED BY <1>1, <1>2, <1>3, <1>4, <1>5, <1>6

\* What a replica that took part in such a step holds is the new deck.
LEMMA FreshCurrent ==
  ASSUME NEW steps, NEW m \in steps, NEW s, NEW r \in Seats, NEW h,
         StepsOK(steps), SessionOK(s, r, h, steps), m.seat = r, m.hand = h,
         \A o \in steps : o.hand = h => o.seat <= r
  PROVE  Current(s) = m.deck
<1>1. NextIndex(s) \in Nat /\ r < NextIndex(s) /\ r \in Nat
  BY DEF SessionOK, Session, NextIndex, Seats
<1>2. PICK o \in steps : o.hand = h /\ o.seat = NextIndex(s) - 1 /\ Current(s) = o.deck
  BY <1>1, CurrentIs
<1>3. o.seat = r
  <2>1. o.seat <= r
    BY <1>2
  <2> QED BY <1>1, <1>2, <2>1
<1>4. o = m
  BY <1>2, <1>3 DEF StepsOK
<1> QED BY <1>2, <1>4

\* A call that executes a step nobody had executed makes the new deck.
LEMMA FreshCall ==
  ASSUME NEW steps, NEW more, NEW r \in Seats, NEW h, NEW s,
         \A m \in steps : m \in more,
         \A m \in more : m \in steps \/ (m.seat = r /\ m.hand = h),
         \E m \in more : m \notin steps,
         StepsOK(steps), StepsOK(more), SessionOK(s, r, h, more)
  PROVE  /\ h \in 1 .. MaxHands /\ Len(DeckOf(steps, h)) = r
         /\ \E e \in Perms : DeckOf(more, h) = Append(DeckOf(steps, h), e)
         /\ Current(s) = DeckOf(more, h)
         /\ \A g : g # h => DeckOf(more, g) = DeckOf(steps, g)
<1>1. PICK m \in more : m \notin steps
  OBVIOUS
<1>2. m.seat = r /\ m.hand = h
  BY <1>1
<1>3. more = steps \cup {m}
  <2>1. ASSUME NEW o \in more, o \notin steps PROVE o = m
    <3>1. o.seat = m.seat /\ o.hand = m.hand
      BY <1>2, <2>1
    <3> QED BY <3>1 DEF StepsOK
  <2> QED BY <1>1, <2>1
<1>4. /\ h \in 1 .. MaxHands /\ m.deck[r + 1] \in Perms
      /\ \A o \in steps : o.hand = h => o.seat < r
      /\ Len(DeckOf(steps, h)) = r
      /\ DeckOf(more, h) = m.deck
      /\ m.deck = Append(DeckOf(steps, h), m.deck[r + 1])
  BY <1>1, <1>2, <1>3, FreshStep
<1>5. \A g : g # h => DeckOf(more, g) = DeckOf(steps, g)
  BY <1>1, <1>2, <1>3, FreshStep
<1>6. \A o \in more : o.hand = h => o.seat <= r
  BY <1>2, <1>3, <1>4 DEF StepsOK, Message, Seats
<1>7. Current(s) = m.deck
  BY <1>2, <1>6, FreshCurrent
<1> QED BY <1>4, <1>5, <1>7

\* What the replicas hold and the decks of the hands, as SharedShuffle has them.
Decks == [h \in 1 .. MaxHands |-> LatestDeck(h)]
Seen == [r \in Seats |-> [hand |-> hand[r], deck |-> Current(sess[r])]]

LEMMA DecksAre ==
  /\ Decks = [h \in 1 .. MaxHands |-> DeckOf(made, h)]
  /\ Decks' = [h \in 1 .. MaxHands |-> DeckOf(made', h)]
BY DEF Decks, LatestDeck, Steps, DeckOf, HighestDeck

\* A call of a session is a turn, a catching up or nothing.
LEMMA CallShared ==
  ASSUME IInv, NEW r \in Seats, NEW s, NEW call, CallOK(s, call, r, hand[r], made),
         NextIndex(s) = NextIndex(sess[r]),
         sess' = [sess EXCEPT ![r] = call.s], made' = made \cup call.own, UNCHANGED hand
  PROVE  Shared!CatchUp(r) \/ Shared!TakeTurn(r) \/ (Decks' = Decks /\ Seen' = Seen)
<1> DEFINE h == hand[r]
           old == Current(sess[r])
           now == Current(call.s)
<1>1. /\ StepsOK(made) /\ SessionOK(sess[r], r, h, made)
      /\ StepsOK(made') /\ SessionOK(call.s, r, h, made')
      /\ call.own \in SUBSET {m \in Message : m.seat = r /\ m.hand = h /\ m.ok}
  BY DEF IInv, CallOK
<1>2. NextIndex(sess[r]) <= NextIndex(call.s)
  BY DEF CallOK
<1>3. /\ DOMAIN sess = Seats /\ Seen' = [Seen EXCEPT ![r] = [hand |-> h, deck |-> now]]
      /\ Seen[r].hand = h /\ Seen[r].deck = old /\ Seen'[r].deck = now
  <2>1. sess \in [Seats -> Session]
    BY DEF IInv, TypeOK
  <2> HIDE DEF IInv
  <2>2. \A q \in Seats : sess'[q] = IF q = r THEN call.s ELSE sess[q]
    BY <2>1
  <2> QED BY <2>1, <2>2 DEF Seen
<1>4. CASE call.own \in SUBSET made
  <2>1. made' = made /\ Decks' = Decks
    BY <1>4, DecksAre
  <2>2. CASE NextIndex(call.s) = NextIndex(sess[r])
    <3>1. now = old
      <4>1. CASE NextIndex(call.s) = 0
        BY <4>1, <2>2 DEF Current
      <4>2. CASE NextIndex(call.s) # 0
        <5>1. PICK m \in made : m.hand = h /\ m.seat = NextIndex(call.s) - 1 /\ now = m.deck
          BY <1>1, <2>1, <4>2, CurrentIs
        <5>2. PICK o \in made : o.hand = h /\ o.seat = NextIndex(call.s) - 1 /\ old = o.deck
          BY <1>1, <2>2, <4>2, CurrentIs
        <5>3. m = o
          BY <1>1, <5>1, <5>2 DEF StepsOK
        <5> QED BY <5>1, <5>2, <5>3
      <4> QED BY <4>1, <4>2
    <3>2. Seen' = Seen
      <4> HIDE DEF now, old, h
      <4>1. Seen \in [Seats -> {[hand |-> hand[q], deck |-> Current(sess[q])] : q \in Seats}]
        BY DEF Seen
      <4>2. Seen[r] = [hand |-> h, deck |-> old]
        BY DEF Seen, h, old
      <4> QED BY <1>3, <3>1, <4>1, <4>2
    <3> QED BY <2>1, <3>2
  <2>3. CASE NextIndex(call.s) # NextIndex(sess[r])
    <3>1. /\ NextIndex(sess[r]) \in Nat /\ Len(old) = NextIndex(sess[r])
          /\ NextIndex(call.s) \in Nat /\ Len(now) = NextIndex(call.s)
      BY <1>1, CurrentIs
    <3>2. Len(now) > Len(old) /\ NextIndex(call.s) # 0
      BY <1>2, <2>3, <3>1
    <3>3. PICK m \in made : m.hand = h /\ now = m.deck
      BY <1>1, <2>1, <3>2, CurrentIs
    <3>4. h \in 1 .. MaxHands
      BY <1>1, <3>3 DEF StepsOK, Message
    <3>5. Shared!Begin(now, Decks[h])
      <4>1. Decks[h] = DeckOf(made, m.hand)
        BY <3>3, <3>4, DecksAre
      <4>2. Shared!Begin(m.deck, DeckOf(made, m.hand))
        BY <1>1, StepsBegin
      <4> QED BY <3>3, <4>1, <4>2
    <3> HIDE DEF h, old, now
    <3>6. Shared!CatchUp(r)
      BY <1>3, <2>1, <3>2, <3>5 DEF Shared!CatchUp, Decks, Seen
    <3> QED BY <3>6
  <2> QED BY <2>2, <2>3
<1>5. CASE ~ (call.own \in SUBSET made)
  <2>1. /\ h \in 1 .. MaxHands /\ Len(DeckOf(made, h)) = r
        /\ \E e \in Perms : DeckOf(made', h) = Append(DeckOf(made, h), e)
        /\ now = DeckOf(made', h)
        /\ \A g : g # h => DeckOf(made', g) = DeckOf(made, g)
    <3> DEFINE s2 == call.s
               more == made'
    <3>1. /\ \A m \in made : m \in more
          /\ \A m \in more : m \in made \/ (m.seat = r /\ m.hand = h)
          /\ \E m \in more : m \notin made
          /\ StepsOK(made) /\ StepsOK(more) /\ SessionOK(s2, r, h, more)
      BY <1>1, <1>5
    <3> HIDE DEF s2, more, h, IInv
    <3>2. /\ h \in 1 .. MaxHands /\ Len(DeckOf(made, h)) = r
          /\ \E e \in Perms : DeckOf(more, h) = Append(DeckOf(made, h), e)
          /\ Current(s2) = DeckOf(more, h)
          /\ \A g : g # h => DeckOf(more, g) = DeckOf(made, g)
      BY <3>1, FreshCall
    <3> QED BY <3>2 DEF more, s2
  <2>2. PICK e \in Perms : DeckOf(made', h) = Append(DeckOf(made, h), e)
    BY <2>1
  <2> HIDE DEF h, now
  <2>3. Decks' = [Decks EXCEPT ![h] = Append(Decks[h], e)] /\ Len(Decks[h]) = r /\ Decks'[h] = now
    <3>1. \A g \in 1 .. MaxHands : Decks[g] = DeckOf(made, g) /\ Decks'[g] = DeckOf(made', g)
      BY DecksAre
    <3>2. DOMAIN Decks = 1 .. MaxHands /\ Decks' = [g \in 1 .. MaxHands |-> DeckOf(made', g)]
          /\ Decks = [g \in 1 .. MaxHands |-> DeckOf(made, g)]
      BY DecksAre
    <3>3. \A g \in 1 .. MaxHands :
            DeckOf(made', g) = IF g = h THEN Append(Decks[h], e) ELSE Decks[g]
      BY <2>1, <2>2, <3>1
    <3>4. Decks' = [Decks EXCEPT ![h] = Append(Decks[h], e)]
      BY <3>2, <3>3
    <3> QED BY <2>1, <3>1, <3>4
  <2>4. Shared!TakeTurn(r)
    <3>1. h > 0
      BY <2>1
    <3> HIDE DEF IInv
    <3> QED BY <1>3, <2>3, <3>1 DEF Shared!TakeTurn, Decks, Seen
  <2> QED BY <2>4
<1> QED BY <1>4, <1>5

LEMMA InitShared == Init => Shared!Init
<1> SUFFICES ASSUME Init PROVE Shared!Init
  OBVIOUS
<1>1. \A h : LatestDeck(h) = <<>>
  BY DEF Init, LatestDeck, Steps
<1>2. \A r \in Seats : hand[r] = 0 /\ Current(sess[r]) = <<>>
  BY DEF Init, Current, NextIndex, NewSession
<1> QED BY <1>1, <1>2 DEF Shared!Init, Shared!Seats, Seats

LEMMA StepShared == IInv /\ [Next]_vars => [Shared!Next]_<<Decks, Seen>>
<1> SUFFICES ASSUME IInv, [Next]_vars PROVE Shared!Next \/ (Decks' = Decks /\ Seen' = Seen)
  OBVIOUS
<1>1. UNCHANGED made => Decks' = Decks
  BY DecksAre
<1>2. UNCHANGED <<hand, sess>> => Seen' = Seen
  BY DEF Seen
<1>3. CASE UNCHANGED vars
  BY <1>1, <1>2, <1>3 DEF vars
<1>4. CASE Next
  <2>1. PICK r \in Seats :
          \/ StartNextHand(r) \/ Start(r) \/ Receive(r)
          \/ WaitShuffle(r) \/ GateOpens(r)
          \/ AbortShuffle(r) \/ DealTimeout(r)
    BY <1>4 DEF Next
  <2>2. CASE StartNextHand(r)
    <3>1. hand \in [Seats -> 0 .. MaxHands] /\ sess \in [Seats -> Session]
      BY DEF IInv, TypeOK
    <3>2. /\ hand' = [hand EXCEPT ![r] = hand[r] + 1] /\ hand[r] < MaxHands
          /\ sess' = [sess EXCEPT ![r] = NewSession] /\ made' = made
      BY <2>2 DEF StartNextHand
    <3>3. Current(NewSession) = <<>>
      BY DEF Current, NextIndex, NewSession
    <3>4. \A q \in Seats : /\ hand'[q] = IF q = r THEN hand[r] + 1 ELSE hand[q]
                           /\ Current(sess'[q]) = IF q = r THEN <<>> ELSE Current(sess[q])
      BY <3>1, <3>2, <3>3
    <3>5. /\ Seen' = [Seen EXCEPT ![r] = [hand |-> Seen[r].hand + 1, deck |-> <<>>]]
          /\ Seen[r].hand < MaxHands
      BY <3>2, <3>4 DEF Seen
    <3>6. Shared!Sit(r)
      BY <1>1, <3>2, <3>5 DEF Shared!Sit, Decks, Seen
    <3> QED BY <3>6 DEF Shared!Next, Shared!Seats, Seats
  <2>3. CASE Start(r)
    <3>1. PICK p \in Perms : StartShuffle(r, p)
      BY <2>3 DEF Start
    <3> DEFINE begun == [sess[r] EXCEPT !.started = TRUE]
               call == DrainEarly(StartSession(sess[r], r, hand[r], p), r, hand[r], early[r], p)
    <3>2. CallOK(begun, call, r, hand[r], made) /\ NextIndex(begun) = NextIndex(sess[r])
      BY <3>1, StartIsCall
    <3>3. Install(r, call, flight) /\ UNCHANGED hand
      BY <3>1 DEF StartShuffle
    <3>4. sess' = [sess EXCEPT ![r] = call.s] /\ made' = made \cup call.own
      BY <3>3 DEF Install
    <3> HIDE DEF begun, call
    <3>5. Shared!CatchUp(r) \/ Shared!TakeTurn(r) \/ (Decks' = Decks /\ Seen' = Seen)
      BY <3>2, <3>3, <3>4, CallShared
    <3> QED BY <3>5 DEF Shared!Next, Shared!Seats, Seats
  <2>4. CASE Receive(r)
    <3>1. PICK pkt \in flight : ParkShuffle(r, pkt) \/ \E p \in Perms : HandleShuffle(r, pkt, p)
      BY <2>4 DEF Receive
    <3>2. CASE ParkShuffle(r, pkt)
      BY <1>1, <1>2, <3>2 DEF ParkShuffle
    <3>3. CASE \E p \in Perms : HandleShuffle(r, pkt, p)
      <4>1. PICK p \in Perms : HandleShuffle(r, pkt, p)
        BY <3>3
      <4> DEFINE call == HandleMessage(sess[r], r, hand[r], pkt.msg, p)
      <4>2. CallOK(sess[r], call, r, hand[r], made)
        BY <4>1, HandleIsCall
      <4>3. Install(r, call, flight \ {pkt}) /\ UNCHANGED hand
        BY <4>1 DEF HandleShuffle
      <4>4. sess' = [sess EXCEPT ![r] = call.s] /\ made' = made \cup call.own
        BY <4>3 DEF Install
      <4> HIDE DEF call
      <4>5. Shared!CatchUp(r) \/ Shared!TakeTurn(r) \/ (Decks' = Decks /\ Seen' = Seen)
        BY <4>2, <4>3, <4>4, CallShared
      <4> QED BY <4>5 DEF Shared!Next, Shared!Seats, Seats
    <3> QED BY <3>1, <3>2, <3>3
  <2>5. CASE WaitShuffle(r) \/ GateOpens(r) \/ AbortShuffle(r) \/ DealTimeout(r)
    BY <1>1, <1>2, <2>5 DEF WaitShuffle, GateOpens, AbortShuffle, DealTimeout
  <2> QED BY <2>1, <2>2, <2>3, <2>4, <2>5
<1> QED BY <1>3, <1>4

\* Every step of every replica extends the one shared deck of its hand or
\* catches up with it, whatever order the packets arrive in and whoever is
\* timed out (HandleMessage, executeLocalLocked, drainPendingLocked).
THEOREM ShuffleRefinement == Spec => ImplementsSharedShuffle
<1>1. Init => Shared!Init
  BY InitShared
<1>2. IInv /\ [Next]_vars => [Shared!Next]_<<Decks, Seen>>
  BY StepShared
<1> QED BY <1>1, <1>2, InitIInv, NextIInv, PTL
        DEF Spec, ImplementsSharedShuffle, Shared!Spec, Decks, Seen

-----------------------------------------------------------------------------
(* In the first hand no step is lost *)

\* The session has applied step m or keeps it for its turn.
Holds(s, m) == m.seat < NextIndex(s) \/ m \in s.pending

\* A call that fails nowhere: what it executes it returns for broadcast, and it
\* drops nothing.
NothingLost(s, call, r) ==
  /\ ~ call.err /\ call.out = call.own
  /\ \A m \in Message : Holds(s, m) => Holds(call.s, m)
  /\ \A m \in call.s.pending : m.ok
  /\ call.own # {} => NextIndex(s) <= r

LEMMA DrainLosesNothing ==
  ASSUME NEW s, NEW r \in Seats, NEW h, NEW steps,
         SessionOK(s, r, h, steps), StepsOK(steps), \A m \in s.pending : m.ok
  PROVE  /\ ~ Drain(s, r).err
         /\ \A m \in Message : Holds(s, m) => Holds(Drain(s, r).s, m)
         /\ \A m \in Drain(s, r).s.pending : m.ok
<1> USE SeatingAssumption
<1> DEFINE from == NextIndex(s)
           stop == StopAt(s, r)
           after == Drain(s, r).s
           rest == {m \in s.pending : m.seat \notin from .. stop}
<1>1. /\ s \in Session /\ from \in Nat /\ from <= N
      /\ \A m \in s.pending : m \in Message /\ m.seat \in Seats /\ m.seat # r
  BY DEF SessionOK, Session, NextIndex, Message
<1>2. /\ stop \in from .. N /\ (stop \in {N, r} \/ ~ Ready(s, stop))
  BY <1>1, StopAtFinds
<1>3. ASSUME NEW m \in s.pending PROVE m.seat # stop
  <2> SUFFICES ASSUME m.seat = stop PROVE FALSE
    OBVIOUS
  <2>1. stop \notin {N, r}
    BY <1>1 DEF Seats
  <2>2. Ready(s, stop)
    BY DEF Ready
  <2> QED BY <2>1, <2>2, <1>2
<1>4. ~ Drain(s, r).err
  BY <1>3 DEF Drain
<1>5. after.pending = rest /\ NextIndex(after) = stop
  <2> DEFINE step(t) == CHOOSE m \in s.pending : m.seat = t /\ m.ok
             run == [i \in 1 .. stop - from |-> step(from + i - 1)]
  <2>1. after = [s EXCEPT !.applied = s.applied \o run, !.pending = rest]
    BY DEF Drain
  <2>2. stop - from \in Nat
    BY <1>1, <1>2
  <2>3. \A t \in from .. stop - 1 : Ready(s, t)
    BY <1>1, StopAtFinds
  <2>4. \A t \in from .. stop - 1 : step(t) \in s.pending
    BY <2>3 DEF Ready
  <2>5. \A i \in 1 .. stop - from : step(from + i - 1) \in Message
    <3> SUFFICES ASSUME NEW i \in 1 .. stop - from PROVE step(from + i - 1) \in Message
      OBVIOUS
    <3>1. from + i - 1 \in from .. stop - 1
      BY <1>1, <1>2
    <3> HIDE DEF step
    <3> QED BY <1>1, <2>4, <3>1
  <2> HIDE DEF step
  <2>6. run \in Seq(Message) /\ Len(run) = stop - from
    BY <2>2, <2>5
  <2>7. s.applied \in Seq(Message) /\ Len(s.applied) = from
    BY <1>1 DEF Session, NextIndex
  <2> HIDE DEF run
  <2>8. Len(s.applied \o run) = stop
    BY <2>6, <2>7, <1>1, <1>2
  <2> DEFINE longer == s.applied \o run
  <2> HIDE DEF longer, rest
  <2>9. after.applied = longer /\ after.pending = rest
    BY <1>1, <2>1 DEF longer, Session
  <2> QED BY <2>8, <2>9 DEF NextIndex, longer
<1> HIDE DEF after
<1>6. ASSUME NEW m \in Message, Holds(s, m) PROVE Holds(after, m)
  <2>1. m.seat \in Seats
    BY DEF Message
  <2>2. CASE m.seat < from
    BY <2>1, <2>2, <1>1, <1>2, <1>5 DEF Holds, Seats
  <2>3. CASE m \in s.pending
    <3>1. m.seat # stop
      BY <1>3, <2>3
    <3> QED BY <2>1, <2>3, <3>1, <1>1, <1>2, <1>5 DEF Holds, Seats
  <2> QED BY <2>2, <2>3, <1>6 DEF Holds
<1>7. \A m \in after.pending : m.ok
  BY <1>5
<1> QED BY <1>4, <1>6, <1>7 DEF after

LEMMA AdoptLosesNothing ==
  ASSUME NEW s \in Session, NEW m \in Message, m.seat = NextIndex(s)
  PROVE  /\ NextIndex(Adopt(s, m)) = NextIndex(s) + 1
         /\ Adopt(s, m).pending = s.pending
         /\ \A o \in Message : Holds(s, o) => Holds(Adopt(s, m), o)
         /\ Holds(Adopt(s, m), m)
<1>1. s.applied \in Seq(Message)
  BY DEF Session
<1> DEFINE longer == Append(s.applied, m)
<1>2. Len(longer) = Len(s.applied) + 1 /\ Len(s.applied) \in Nat
  BY <1>1
<1>3. Adopt(s, m) = [s EXCEPT !.applied = longer]
  BY DEF Adopt
<1> HIDE DEF longer
<1>4. Adopt(s, m).applied = longer /\ Adopt(s, m).pending = s.pending
  BY <1>3 DEF Session
<1>5. NextIndex(Adopt(s, m)) = NextIndex(s) + 1 /\ NextIndex(s) \in Nat
  BY <1>2, <1>4 DEF NextIndex
<1>6. \A o \in Message : o.seat \in Int
  BY SeatingAssumption DEF Message, Seats
<1> QED BY <1>4, <1>5, <1>6 DEF Holds

LEMMA ExecuteLocalLosesNothing ==
  ASSUME NEW s, NEW r \in Seats, NEW h \in 1 .. MaxHands, NEW steps, NEW p \in Perms,
         SessionOK(s, r, h, steps), StepsOK(steps), NextIndex(s) = r,
         \A m \in s.pending : m.ok
  PROVE  NothingLost(s, ExecuteLocal(s, r, h, p), r)
<1> DEFINE own == [hand |-> h, seat |-> r, deck |-> Append(Current(s), p), ok |-> TRUE]
           t == Adopt(s, own)
           d == Drain(t, r)
           call == ExecuteLocal(s, r, h, p)
<1>1. StepsOK(steps \cup {own})
  BY OwnStepExtends
<1>2. own \in Message /\ own.seat = r /\ own.hand = h /\ own.ok
  BY <1>1 DEF StepsOK
<1>3. call = Result(d.s, {own}, IF d.err THEN {} ELSE {own}, d.err)
  BY DEF ExecuteLocal
<1> HIDE DEF own
<1>4. SessionOK(t, r, h, steps \cup {own})
  BY <1>1, <1>2, AdoptKeeps
<1>5. t.pending = s.pending /\ \A o \in Message : Holds(s, o) => Holds(t, o)
  BY <1>2, AdoptLosesNothing DEF SessionOK
<1> HIDE DEF t
<1>6. /\ ~ d.err /\ \A m \in Message : Holds(t, m) => Holds(d.s, m)
      /\ \A m \in d.s.pending : m.ok
  BY <1>1, <1>4, <1>5, DrainLosesNothing
<1> HIDE DEF d, call
<1>7. call.s = d.s /\ call.own = {own} /\ call.out = {own} /\ ~ call.err
  BY <1>3, <1>6 DEF Result
<1>8. NothingLost(s, call, r)
  <2>1. NextIndex(s) <= r
    BY DEF Seats
  <2> QED BY <2>1, <1>5, <1>6, <1>7 DEF NothingLost
<1> QED BY <1>8 DEF call

LEMMA AfterApplyLosesNothing ==
  ASSUME NEW s, NEW r \in Seats, NEW h \in 1 .. MaxHands, NEW steps, NEW p \in Perms,
         SessionOK(s, r, h, steps), StepsOK(steps), \A m \in s.pending : m.ok
  PROVE  NothingLost(s, AfterApply(s, r, h, p), r)
<1> DEFINE d == Drain(s, r)
<1>1. SessionOK(d.s, r, h, steps) /\ NextIndex(s) <= NextIndex(d.s)
  BY DrainKeeps
<1>2. AfterApply(s, r, h, p) =
        IF d.err THEN Reject(d.s)
        ELSE IF NextIndex(d.s) = r THEN ExecuteLocal(d.s, r, h, p) ELSE Accept(d.s)
  BY AfterApplyIs
<1>3. /\ ~ d.err /\ \A m \in Message : Holds(s, m) => Holds(d.s, m)
      /\ \A m \in d.s.pending : m.ok
  BY DrainLosesNothing
<1> HIDE DEF d
<1>4. CASE NextIndex(d.s) = r
  <2>1. NothingLost(d.s, ExecuteLocal(d.s, r, h, p), r)
    BY <1>1, <1>3, <1>4, ExecuteLocalLosesNothing
  <2> QED BY <2>1, <1>1, <1>2, <1>3, <1>4 DEF NothingLost
<1>5. CASE NextIndex(d.s) # r
  <2>1. AfterApply(s, r, h, p) = Result(d.s, {}, {}, FALSE)
    BY <1>2, <1>3, <1>5 DEF Accept
  <2> QED BY <2>1, <1>3 DEF NothingLost, Result
<1> QED BY <1>4, <1>5

\* A step of the session's hand that was really executed is applied or kept.
LEMMA HandleMessageLosesNothing ==
  ASSUME NEW s, NEW r \in Seats, NEW h \in 0 .. MaxHands, NEW steps, NEW p \in Perms,
         NEW m \in steps, m.seat # r, m.hand = h,
         SessionOK(s, r, h, steps), StepsOK(steps), \A o \in s.pending : o.ok
  PROVE  /\ NothingLost(s, HandleMessage(s, r, h, m, p), r)
         /\ Holds(HandleMessage(s, r, h, m, p).s, m)
<1> USE SeatingAssumption
<1>1. /\ s \in Session /\ NextIndex(s) \in Nat /\ m \in Message /\ m.seat \in Seats
      /\ m.ok /\ h \in 1 .. MaxHands
  BY DEF SessionOK, StepsOK, Session, NextIndex, Message
<1>2. \A o \in steps : o.hand = h /\ o.seat = m.seat => o = m
  BY DEF StepsOK
<1> DEFINE call == HandleMessage(s, r, h, m, p)
<1>3. NothingLost(s, Result(s, {}, {}, FALSE), r)
  BY DEF NothingLost, Result
<1>4. CASE m.seat < NextIndex(s)
  <2>1. m.seat + 1 \in 1 .. NextIndex(s)
    BY <1>1, <1>4 DEF Seats
  <2>2. /\ s.applied[m.seat + 1] \in steps /\ s.applied[m.seat + 1].hand = h
        /\ s.applied[m.seat + 1].seat = (m.seat + 1) - 1
    BY <2>1 DEF SessionOK
  <2>3. s.applied[m.seat + 1] = m
    BY <1>1, <1>2, <2>2 DEF Seats
  <2>4. call = Result(s, {}, {}, FALSE)
    BY <1>4, <2>3 DEF HandleMessage, ValidateIncoming
  <2> QED BY <1>3, <1>4, <2>4 DEF Holds, Result
<1>5. CASE m.seat = NextIndex(s)
  <2> DEFINE t == Adopt(s, m)
  <2>1. steps \cup {m} = steps
    OBVIOUS
  <2>2. SessionOK(t, r, h, steps) /\ NextIndex(t) = NextIndex(s) + 1
    BY <1>1, <1>5, <2>1, AdoptKeeps
  <2>3. /\ t.pending = s.pending /\ \A o \in Message : Holds(s, o) => Holds(t, o)
        /\ Holds(t, m)
    BY <1>1, <1>5, AdoptLosesNothing
  <2>4. call = AfterApply(t, r, h, p)
    BY <1>1, <1>5 DEF HandleMessage, ValidateIncoming
  <2> HIDE DEF t, call
  <2>5. NothingLost(t, call, r)
    BY <1>1, <2>2, <2>3, <2>4, AfterApplyLosesNothing
  <2>6. NothingLost(s, call, r) /\ Holds(call.s, m)
    BY <1>1, <2>2, <2>3, <2>5 DEF NothingLost, Seats
  <2> QED BY <2>6 DEF call
<1>6. CASE ~ (m.seat < NextIndex(s)) /\ m.seat # NextIndex(s)
  <2>1. CASE \E b \in s.pending : b.seat = m.seat
    <3>1. PICK b \in s.pending : b.seat = m.seat
      BY <2>1
    <3>2. b = m
      BY <3>1, <1>2 DEF SessionOK
    <3>3. call = Result(s, {}, {}, FALSE)
      BY <1>6, <2>1, <3>1, <3>2 DEF HandleMessage, ValidateIncoming
    <3> QED BY <1>3, <3>1, <3>2, <3>3 DEF Holds, Result
  <2>2. CASE ~ \E b \in s.pending : b.seat = m.seat
    <3> DEFINE more == s.pending \cup {m}
               t == [s EXCEPT !.pending = more]
    <3>1. call = Result(t, {}, {}, FALSE)
      BY <1>6, <2>2 DEF HandleMessage, ValidateIncoming, Accept
    <3> HIDE DEF more, call
    <3>2. t.applied = s.applied /\ t.pending = more
      BY <1>1 DEF Session
    <3> HIDE DEF t
    <3>3. NextIndex(t) = NextIndex(s)
      BY <3>2 DEF NextIndex
    <3>4. \A o \in Message : Holds(s, o) => Holds(t, o)
      BY <3>2, <3>3 DEF Holds, more
    <3>5. (\A o \in t.pending : o.ok) /\ Holds(t, m)
      BY <1>1, <3>2 DEF Holds, more
    <3>6. NothingLost(s, call, r) /\ Holds(call.s, m)
      BY <3>1, <3>4, <3>5 DEF NothingLost, Result
    <3> QED BY <3>6 DEF call
  <2> QED BY <2>1, <2>2
<1> QED BY <1>1, <1>4, <1>5, <1>6

LEMMA DrainEarlyLosesNothing ==
  ASSUME NEW s, NEW first, NEW r \in Seats, NEW h \in 0 .. MaxHands, NEW steps,
         NEW p \in Perms, NEW parked \in Seq(Message),
         \A k \in 1 .. Len(parked) :
           parked[k] \in steps /\ parked[k].seat # r /\ parked[k].hand = h,
         CallOK(s, first, r, h, steps), SessionOK(s, r, h, steps), NothingLost(s, first, r)
  PROVE  /\ NothingLost(s, DrainEarly(first, r, h, parked, p), r)
         /\ \A k \in 1 .. Len(parked) : Holds(DrainEarly(first, r, h, parked, p).s, parked[k])
<1>1. Len(parked) \in Nat
  OBVIOUS
<1> DEFINE last == DrainEarly(first, r, h, parked, p)
<1>0. \E u : DrainsTo(u, first, r, h, parked, p, last)
  BY <1>1, DrainEarlyIsDrained
<1> HIDE DEF last
<1>a. PICK u : DrainsTo(u, first, r, h, parked, p, last)
  BY <1>0
<1>2. /\ u[0] = first
      /\ \A k \in 1 .. Len(parked) : u[k] = OneMore(u[k - 1], r, h, parked[k], p)
      /\ last = u[Len(parked)]
  BY <1>a DEF DrainsTo
<1> DEFINE Fine(k) == /\ CallOK(s, u[k], r, h, steps) /\ NothingLost(s, u[k], r)
                      /\ \A j \in 1 .. k : Holds(u[k].s, parked[j])
           T == {k \in Nat : k <= Len(parked) => Fine(k)}
<1>3. 0 \in T
  BY <1>2
<1>4. ASSUME NEW k \in T PROVE k + 1 \in T
  <2> SUFFICES ASSUME k + 1 <= Len(parked) PROVE Fine(k + 1)
    OBVIOUS
  <2> DEFINE before == u[k]
             after == u[k + 1]
             m == parked[k + 1]
             call == HandleMessage(before.s, r, h, m, p)
             so == steps \cup before.own
  <2>1. k + 1 \in 1 .. Len(parked) /\ (k + 1) - 1 = k /\ k <= Len(parked)
    BY <1>1
  <2>2. /\ CallOK(s, before, r, h, steps) /\ NothingLost(s, before, r)
        /\ \A j \in 1 .. k : Holds(before.s, parked[j])
    BY <2>1
  <2>3. after = OneMore(before, r, h, m, p)
    BY <1>2, <2>1
  <2>4. m \in Message /\ m \in steps /\ m.seat # r /\ m.hand = h
    BY <2>1
  <2>5. \A j \in 1 .. k : parked[j] \in Message
    BY <2>1
  <2> HIDE DEF before, after, m
  <2>6. CallOK(s, after, r, h, steps)
    BY <2>2, <2>3, <2>4, OneMoreKeeps
  <2>7. SessionOK(before.s, r, h, so) /\ StepsOK(so) /\ \A o \in before.s.pending : o.ok
    BY <2>2 DEF CallOK, NothingLost
  <2>8. m \in so
    BY <2>4
  <2> HIDE DEF so
  <2>9. NothingLost(before.s, call, r) /\ Holds(call.s, m)
    BY <2>4, <2>7, <2>8, HandleMessageLosesNothing
  <2>10. after = IF before.err THEN before
                 ELSE Result(call.s, before.own \cup call.own,
                             IF call.err THEN {} ELSE before.out \cup call.out, call.err)
    BY <2>3, OneMoreIs DEF call
  <2> HIDE DEF call
  <2>11. /\ after.s = call.s /\ after.own = before.own \cup call.own
         /\ after.out = before.out \cup call.out /\ ~ after.err
    BY <2>2, <2>9, <2>10 DEF NothingLost, Result
  <2>12. /\ NextIndex(s) \in Nat /\ NextIndex(before.s) \in Nat
         /\ NextIndex(s) <= NextIndex(before.s) /\ r \in Nat
    <3>1. NextIndex(s) \in Nat /\ NextIndex(before.s) \in Nat
      BY <2>7 DEF SessionOK, Session, NextIndex
    <3> QED BY <3>1, <2>2 DEF CallOK, Seats
  <2>13. NothingLost(s, after, r)
    <3>1. after.own # {} => NextIndex(s) <= r
      BY <2>2, <2>9, <2>11, <2>12 DEF NothingLost
    <3> QED BY <3>1, <2>2, <2>9, <2>11 DEF NothingLost
  <2>14. ASSUME NEW j \in 1 .. k + 1 PROVE Holds(after.s, parked[j])
    <3>1. CASE j = k + 1
      BY <3>1, <2>9, <2>11 DEF m
    <3>2. CASE j \in 1 .. k
      BY <3>2, <2>2, <2>5, <2>9, <2>11 DEF NothingLost
    <3> QED BY <3>1, <3>2
  <2> QED BY <2>6, <2>13, <2>14 DEF after
<1>5. T = Nat
  <2> HIDE DEF T
  <2>1. T \in SUBSET Nat
    BY DEF T
  <2> QED BY <1>3, <1>4, <2>1, SetInduction
<1>6. Fine(Len(parked))
  BY <1>1, <1>5
<1> QED BY <1>2, <1>6 DEF last

Parked(r, m) == \E i \in 1 .. Len(early[r]) : early[r][i] = m
Flying(r, m) == \E pkt \in flight : pkt.to = r /\ pkt.msg = m

\* EarlyStepsKept of one step and one replica.
Kept(m, r) ==
  \/ m.hand < hand[r]
  \/ m.hand = hand[r] /\ m.seat < NextIndex(sess[r])
  \/ m \in sess[r].pending
  \/ Parked(r, m) \/ Flying(r, m)

FirstHandKept ==
  \A m \in made : m.hand = 1 => \A r \in Seats \ {m.seat} : Kept(m, r)

\* The copies of the first hand's steps that have come to seat r, as sender and copy.
Came(r, steps, packets) ==
  {x \in (Seats \ {r}) \X (1 .. Copies) :
     \E m \in steps : /\ m.hand = 1 /\ m.seat = x[1]
                      /\ [to |-> r, msg |-> m, copy |-> x[2]] \notin packets}

\* Nothing spoiled is about; a hand begins only when all have dealt the one
\* before; what is parked for the first hand has come only once.
KeptInv ==
  /\ IInv
  /\ \A r \in Seats : hand[r] <= 1 => \A m \in sess[r].pending : m.ok
  /\ \A r \in Seats : \A i \in 1 .. Len(early[r]) : early[r][i].ok
  /\ \A pkt \in flight : pkt.msg.ok
  /\ \A r \in Seats : /\ driver[r] \in {"started", "waiting", "dealing"} => sess[r].started
                      /\ sess[r].started => hand[r] >= 1
  /\ \A q, r \in Seats : hand[q] >= 2 => hand[r] >= 2 \/ (hand[r] = 1 /\ driver[r] = "dealing")
  /\ \A r \in Seats : hand[r] <= 1 /\ ~ sess[r].started =>
                        Len(early[r]) <= Cardinality(Came(r, made, flight))
  /\ FirstHandKept

LEMMA CameBound ==
  ASSUME NEW r \in Seats, NEW steps, NEW packets
  PROVE  /\ IsFiniteSet(Came(r, steps, packets))
         /\ Cardinality(Came(r, steps, packets)) \in Nat
         /\ Cardinality(Came(r, steps, packets)) <= (N - 1) * Copies
<1> USE SeatingAssumption, ShuffleAssumption
<1> DEFINE others == Seats \ {r}
           copies == 1 .. Copies
           both == others \X copies
           came == Came(r, steps, packets)
<1>1. IsFiniteSet(Seats) /\ Cardinality(Seats) = N
  BY FS_Interval DEF Seats
<1>2. IsFiniteSet(others) /\ Cardinality(others) = N - 1
  BY <1>1, FS_RemoveElement
<1>3. IsFiniteSet(copies) /\ Cardinality(copies) = Copies
  BY FS_Interval
<1> HIDE DEF others, copies
<1>4. IsFiniteSet(both) /\ Cardinality(both) = (N - 1) * Copies
  <2>1. IsFiniteSet(both) /\ Cardinality(both) = Cardinality(others) * Cardinality(copies)
    BY <1>2, <1>3, FS_Product
  <2> QED BY <2>1, <1>2, <1>3
<1>5. came \in SUBSET both
  BY DEF Came, others, copies
<1> HIDE DEF both, came
<1>6. IsFiniteSet(came) /\ Cardinality(came) <= Cardinality(both)
  BY <1>4, <1>5, FS_Subset
<1>7. Cardinality(came) \in Nat
  BY <1>6, FS_CardinalityType
<1> QED BY <1>4, <1>6, <1>7 DEF came

LEMMA CameGrows ==
  ASSUME NEW r \in Seats, NEW steps, NEW packets, NEW more, NEW left,
         \A x \in Came(r, steps, packets) : x \in Came(r, more, left)
  PROVE  Cardinality(Came(r, steps, packets)) <= Cardinality(Came(r, more, left))
<1> DEFINE few == Came(r, steps, packets)
           many == Came(r, more, left)
<1>1. IsFiniteSet(many) /\ few \in SUBSET many
  BY CameBound
<1> HIDE DEF few, many
<1>2. Cardinality(few) <= Cardinality(many)
  BY <1>1, FS_Subset
<1> QED BY <1>2 DEF few, many

\* As long as some seat is in its first hand and has not started the shuffle,
\* nobody is further and all steps are of the first hand.
LEMMA NobodyFurther ==
  ASSUME KeptInv, NEW r \in Seats, hand[r] <= 1, ~ sess[r].started
  PROVE  /\ \A q \in Seats : hand[q] <= 1
         /\ \A m \in made : m.hand = 1
<1>1. hand \in [Seats -> 0 .. MaxHands]
  BY DEF KeptInv, IInv, TypeOK
<1>2. ASSUME NEW q \in Seats PROVE hand[q] <= 1
  <2> SUFFICES ASSUME hand[q] >= 2 PROVE FALSE
    BY <1>1
  <2>1. driver[r] = "dealing"
    BY <1>1 DEF KeptInv
  <2> QED BY <2>1 DEF KeptInv
<1>3. ASSUME NEW m \in made PROVE m.hand = 1
  <2>1. m \in Message /\ m.seat \in Seats /\ m.hand \in 1 .. MaxHands
    BY DEF KeptInv, IInv, TypeOK, Message
  <2>2. m.hand <= hand[m.seat]
    BY <2>1 DEF KeptInv, IInv, SessionOK
  <2> QED BY <1>1, <1>2, <2>1, <2>2
<1> QED BY <1>2, <1>3

LEMMA InitKept == Spoiled = {} /\ Init => KeptInv
<1> SUFFICES ASSUME Spoiled = {}, Init PROVE KeptInv
  OBVIOUS
<1>1. IInv
  BY InitIInv
<1>2. flight = {}
  <2> SUFFICES ASSUME NEW pkt \in flight PROVE FALSE
    OBVIOUS
  <2>1. pkt.msg \in SpoiledSteps
    BY DEF Init
  <2>2. pkt.msg.seat \in Spoiled
    BY <2>1 DEF SpoiledSteps
  <2> QED BY <2>2
<1>3. \A r \in Seats : /\ sess[r] = NewSession /\ hand[r] = 0 /\ early[r] = <<>>
                       /\ driver[r] = "lobby"
  BY DEF Init
<1>4. made = {}
  BY DEF Init
<1>5. \A r \in Seats : Len(early[r]) <= Cardinality(Came(r, made, flight))
  <2> SUFFICES ASSUME NEW r \in Seats PROVE Len(early[r]) <= Cardinality(Came(r, made, flight))
    OBVIOUS
  <2>1. Cardinality(Came(r, made, flight)) \in Nat
    BY CameBound
  <2>2. Len(early[r]) = 0
    BY <1>3
  <2> QED BY <2>1, <2>2
<1>6. NewSession.pending = {} /\ ~ NewSession.started
  BY DEF NewSession
<1> QED BY <1>1, <1>2, <1>3, <1>4, <1>5, <1>6 DEF KeptInv, FirstHandKept

\* What seat r's call leaves to the other seats.
LEMMA InstallKept ==
  ASSUME KeptInv, NEW r \in Seats, NEW call, NEW begun, NEW rest,
         \A pkt \in rest : pkt \in flight,
         \A pkt \in flight : pkt \in rest \/ pkt.to = r,
         CallOK(begun, call, r, hand[r], made), Install(r, call, rest), UNCHANGED hand,
         \A q \in Seats \ {r} : early'[q] = early[q],
         hand[r] = 1 => /\ call.out = call.own
                        /\ call.own # {} => NextIndex(sess[r]) <= r,
         \A m \in made : m.hand = 1 /\ m.seat # r => Kept(m, r)'
  PROVE  /\ FirstHandKept'
         /\ \A pkt \in flight' : pkt.msg.ok
         /\ \A q \in Seats \ {r} : \A x \in Came(q, made, flight) : x \in Came(q, made', flight')
<1> USE SeatingAssumption, ShuffleAssumption
<1>1. /\ TypeOK /\ SessionOK(sess[r], r, hand[r], made)
      /\ hand \in [Seats -> 0 .. MaxHands] /\ sess \in [Seats -> Session]
  BY DEF KeptInv, IInv, TypeOK
<1>2. /\ made' = made \cup call.own /\ flight' = rest \cup Broadcast(r, call.out)
      /\ sess' = [sess EXCEPT ![r] = call.s]
  BY DEF Install
<1>3. /\ \A m \in call.own : m \in Message /\ m.seat = r /\ m.hand = hand[r] /\ m.ok
      /\ \A m \in call.out : m \in call.own
  BY DEF CallOK
<1>4. \A m \in call.own : m.hand = 1 => m \notin made
  <2> SUFFICES ASSUME NEW m \in call.own, m.hand = 1, m \in made PROVE FALSE
    OBVIOUS
  <2>1. m.seat = r /\ m.hand = hand[r] /\ hand[r] = 1
    BY <1>3
  <2>2. r < NextIndex(sess[r])
    BY <2>1, <1>1 DEF SessionOK
  <2>3. NextIndex(sess[r]) <= r
    BY <2>1
  <2>4. NextIndex(sess[r]) \in Nat /\ r \in Nat
    BY <1>1 DEF SessionOK, Session, NextIndex, Seats
  <2> QED BY <2>2, <2>3, <2>4
<1>5. \A pkt \in Broadcast(r, call.out) :
        pkt.to \in Seats \ {r} /\ pkt.msg \in call.out /\ pkt.copy \in 1 .. Copies
  BY DEF Broadcast
<1>6. \A pkt \in flight' : pkt.msg.ok
  BY <1>2, <1>3, <1>5 DEF KeptInv
<1>7. ASSUME NEW q \in Seats, q # r, NEW m \in made, m.hand = 1, m.seat # q
      PROVE  Kept(m, q)'
  <2>1. Kept(m, q)
    BY <1>7 DEF KeptInv, FirstHandKept
  <2>2. sess'[q] = sess[q] /\ hand'[q] = hand[q] /\ early'[q] = early[q]
    BY <1>1, <1>2, <1>7
  <2>3. Flying(q, m) => Flying(q, m)'
    BY <1>2, <1>7 DEF Flying
  <2>4. Parked(q, m) => Parked(q, m)'
    BY <2>2 DEF Parked
  <2> QED BY <2>1, <2>2, <2>3, <2>4 DEF Kept
<1>8. ASSUME NEW q \in Seats, NEW m \in call.own, m.hand = 1, m.seat # q
      PROVE  Kept(m, q)'
  <2>1. q \in Seats \ {r} /\ m \in call.out
    BY <1>3, <1>8
  <2> DEFINE pkt == [to |-> q, msg |-> m, copy |-> 1]
  <2>2. 1 \in 1 .. Copies
    OBVIOUS
  <2>3. pkt \in Broadcast(r, call.out)
    BY <2>1, <2>2 DEF Broadcast
  <2>4. pkt \in flight' /\ pkt.to = q /\ pkt.msg = m
    BY <2>3, <1>2
  <2> HIDE DEF pkt
  <2> QED BY <2>4 DEF Kept, Flying
<1>9. FirstHandKept'
  <2> SUFFICES ASSUME NEW m \in made', m.hand = 1, NEW q \in Seats \ {m.seat} PROVE Kept(m, q)'
    BY DEF FirstHandKept
  <2>1. CASE m \in call.own
    BY <2>1, <1>8
  <2>2. CASE m \in made /\ q # r
    BY <2>2, <1>7
  <2>3. CASE m \in made /\ q = r
    BY <2>3
  <2> QED BY <2>1, <2>2, <2>3, <1>2
<1>10. ASSUME NEW q \in Seats \ {r}, NEW x \in Came(q, made, flight)
       PROVE  x \in Came(q, made', flight')
  <2>1. PICK m \in made : /\ m.hand = 1 /\ m.seat = x[1]
                          /\ [to |-> q, msg |-> m, copy |-> x[2]] \notin flight
    BY DEF Came
  <2> DEFINE pkt == [to |-> q, msg |-> m, copy |-> x[2]]
  <2>2. pkt.msg = m
    OBVIOUS
  <2>3. pkt \notin Broadcast(r, call.out)
    <3> HIDE DEF pkt
    <3> QED BY <2>1, <2>2, <1>3, <1>4, <1>5
  <2>4. pkt \notin flight'
    <3> HIDE DEF pkt
    <3>1. pkt \notin flight
      BY <2>1 DEF pkt
    <3> QED BY <3>1, <2>3, <1>2
  <2>5. m \in made' /\ x \in (Seats \ {q}) \X (1 .. Copies)
    BY <1>2 DEF Came
  <2> QED BY <2>1, <2>4, <2>5 DEF Came
<1> QED BY <1>6, <1>9, <1>10

LEMMA StartNextHandKept ==
  ASSUME KeptInv, NEW r \in Seats, StartNextHand(r) PROVE KeptInv'
<1>1. IInv' /\ hand \in [Seats -> 0 .. MaxHands] /\ sess \in [Seats -> Session] /\ PhaseOK(r)
  BY StartNextHandKeeps DEF KeptInv, IInv, TypeOK
<1>2. /\ hand' = [hand EXCEPT ![r] = hand[r] + 1] /\ sess' = [sess EXCEPT ![r] = NewSession]
      /\ driver' = [driver EXCEPT ![r] = "starting"]
      /\ early' = early /\ made' = made /\ flight' = flight
  BY DEF StartNextHand
<1>3. /\ hand'[r] = hand[r] + 1 /\ sess'[r] = NewSession
      /\ \A q \in Seats \ {r} : hand'[q] = hand[q] /\ sess'[q] = sess[q] /\ driver'[q] = driver[q]
  <2>1. DOMAIN driver = Seats
    BY DEF KeptInv, IInv, TypeOK
  <2> QED BY <1>1, <1>2, <2>1
<1>4. NewSession.pending = {} /\ ~ NewSession.started
  BY DEF NewSession
<1>5. /\ driver'[r] = "starting"
      /\ \A q \in Seats : driver'[q] = driver[q] \/ driver'[q] = "starting"
  <2>1. driver \in [Seats -> {"lobby", "starting", "started", "waiting", "dealing", "failed"}]
    BY DEF KeptInv, IInv, TypeOK
  <2> QED BY <1>2, <2>1
<1>6. ASSUME NEW q \in Seats, NEW p \in Seats, hand'[q] >= 2
      PROVE  hand'[p] >= 2 \/ (hand'[p] = 1 /\ driver'[p] = "dealing")
  <2>1. CASE q # r /\ p # r
    BY <2>1, <1>3, <1>6 DEF KeptInv
  <2>2. CASE q # r /\ p = r
    <3>1. hand[q] >= 2
      BY <2>2, <1>3, <1>6
    <3>2. hand[r] >= 1
      BY <3>1, <1>1 DEF KeptInv
    <3> QED BY <2>2, <3>2, <1>1, <1>3
  <2>3. CASE q = r /\ p = r
    BY <2>3, <1>6
  <2>4. CASE q = r /\ p # r
    <3>1. hand[r] >= 1
      BY <2>4, <1>1, <1>3, <1>6
    <3>2. driver[r] = "dealing"
      BY <3>1, <1>1 DEF StartNextHand, PhaseOK
    <3>3. hand[p] > hand[r] \/ (hand[p] = hand[r] /\ driver[p] = "dealing")
      BY <3>2 DEF StartNextHand
    <3>4. hand[p] \in Nat /\ hand[r] \in Nat
      BY <1>1
    <3> QED BY <2>4, <3>1, <3>3, <3>4, <1>3
  <2> QED BY <2>1, <2>2, <2>3, <2>4
<1>7. FirstHandKept'
  <2> SUFFICES ASSUME NEW m \in made, m.hand = 1, NEW q \in Seats \ {m.seat} PROVE Kept(m, q)'
    BY <1>2 DEF FirstHandKept
  <2>1. Kept(m, q)
    BY DEF KeptInv, FirstHandKept
  <2>2. (Parked(q, m) \/ Flying(q, m)) => Kept(m, q)'
    BY <1>2 DEF Parked, Flying, Kept
  <2>3. CASE q # r
    BY <2>1, <2>2, <2>3, <1>3 DEF Kept
  <2>4. CASE q = r /\ hand[r] >= 1
    BY <2>4, <1>1, <1>3 DEF Kept
  <2>5. CASE q = r /\ ~ (hand[r] >= 1)
    <3>1. hand[r] = 0
      BY <2>5, <1>1
    <3>2. driver[r] = "lobby"
      <4>1. ~ sess[r].started
        BY <3>1 DEF KeptInv
      <4> QED BY <4>1 DEF KeptInv, StartNextHand
    <3>3. sess[r].pending = {}
      BY <3>2, <1>1, <1>4 DEF PhaseOK
    <3> QED BY <2>1, <2>2, <2>5, <3>1, <3>3 DEF Kept
  <2> QED BY <2>3, <2>4, <2>5
<1>8. ASSUME NEW q \in Seats, hand'[q] <= 1, ~ sess'[q].started
      PROVE  Len(early'[q]) <= Cardinality(Came(q, made', flight'))
  <2>1. CASE q = r
    <3>1. hand[r] = 0
      BY <2>1, <1>1, <1>3, <1>8
    <3>2. ~ sess[r].started
      BY <3>1 DEF KeptInv
    <3> QED BY <2>1, <3>1, <3>2, <1>2 DEF KeptInv
  <2>2. CASE q # r
    BY <2>2, <1>2, <1>3, <1>8 DEF KeptInv
  <2> QED BY <2>1, <2>2
<1>9. \A q \in Seats : /\ driver'[q] \in {"started", "waiting", "dealing"} => sess'[q].started
                       /\ sess'[q].started => hand'[q] >= 1
  BY <1>3, <1>4, <1>5 DEF KeptInv
<1>10. \A q \in Seats : hand'[q] <= 1 => \A m \in sess'[q].pending : m.ok
  BY <1>3, <1>4 DEF KeptInv
<1>11. /\ \A q \in Seats : \A i \in 1 .. Len(early'[q]) : early'[q][i].ok
       /\ \A pkt \in flight' : pkt.msg.ok
  BY <1>2 DEF KeptInv
<1> QED BY <1>1, <1>6, <1>7, <1>8, <1>9, <1>10, <1>11 DEF KeptInv

LEMMA DriverKept ==
  ASSUME KeptInv, NEW r \in Seats,
         WaitShuffle(r) \/ GateOpens(r) \/ AbortShuffle(r) \/ DealTimeout(r)
  PROVE  KeptInv'
<1>1. IInv'
  BY DriverKeeps DEF KeptInv
<1>2. UNCHANGED <<hand, sess, early, made, flight>>
  BY DEF WaitShuffle, GateOpens, AbortShuffle, DealTimeout
<1>3. driver \in [Seats -> {"lobby", "starting", "started", "waiting", "dealing", "failed"}]
  BY DEF KeptInv, IInv, TypeOK
<1>4. \A q \in Seats : \/ driver'[q] = driver[q]
                       \/ driver[q] \in {"started", "waiting"}
  BY <1>3 DEF WaitShuffle, GateOpens, AbortShuffle, DealTimeout
<1>5. \A q \in Seats :
        /\ driver'[q] \in {"started", "waiting", "dealing"} => sess'[q].started
        /\ sess'[q].started => hand'[q] >= 1
  BY <1>2, <1>4 DEF KeptInv
<1>6. \A q, p \in Seats :
        hand'[q] >= 2 => hand'[p] >= 2 \/ (hand'[p] = 1 /\ driver'[p] = "dealing")
  <2> SUFFICES ASSUME NEW q \in Seats, NEW p \in Seats, hand'[q] >= 2
               PROVE  hand'[p] >= 2 \/ (hand'[p] = 1 /\ driver'[p] = "dealing")
    OBVIOUS
  <2>1. hand[p] >= 2 \/ (hand[p] = 1 /\ driver[p] = "dealing")
    BY <1>2 DEF KeptInv
  <2>2. driver[p] = "dealing" => driver'[p] = "dealing"
    BY <1>4
  <2> QED BY <2>1, <2>2, <1>2
<1>7. FirstHandKept'
  BY <1>2 DEF KeptInv, FirstHandKept, Kept, Parked, Flying
<1>8. /\ \A q \in Seats : hand'[q] <= 1 => \A m \in sess'[q].pending : m.ok
      /\ \A q \in Seats : \A i \in 1 .. Len(early'[q]) : early'[q][i].ok
      /\ \A pkt \in flight' : pkt.msg.ok
      /\ \A q \in Seats : hand'[q] <= 1 /\ ~ sess'[q].started =>
                            Len(early'[q]) <= Cardinality(Came(q, made', flight'))
  BY <1>2 DEF KeptInv
<1> QED BY <1>1, <1>5, <1>6, <1>7, <1>8 DEF KeptInv

LEMMA HandleShuffleKept ==
  ASSUME KeptInv, NEW r \in Seats, NEW p \in Perms, NEW pkt \in flight, HandleShuffle(r, pkt, p)
  PROVE  KeptInv'
<1> USE SeatingAssumption, ShuffleAssumption
<1> DEFINE call == HandleMessage(sess[r], r, hand[r], pkt.msg, p)
           rest == flight \ {pkt}
<1>1. /\ TypeOK /\ StepsOK(made) /\ SessionOK(sess[r], r, hand[r], made)
      /\ pkt \in Packet /\ pkt.to = r /\ sess[r].started /\ hand[r] >= 1
      /\ pkt.msg.ok /\ pkt.msg \in made /\ pkt.msg.seat # r
  BY DEF KeptInv, IInv, TypeOK, HandleShuffle, TravelOK
<1>2. CallOK(sess[r], call, r, hand[r], made)
  BY HandleIsCall DEF KeptInv
<1>3. Install(r, call, rest) /\ UNCHANGED <<hand, early, driver>>
  BY DEF HandleShuffle
<1>4. IInv'
  BY HandleShuffleKeeps DEF KeptInv
<1>5. /\ hand \in [Seats -> 0 .. MaxHands] /\ sess \in [Seats -> Session]
      /\ pkt.msg \in Message /\ hand[r] \in 0 .. MaxHands
  BY <1>1 DEF TypeOK, Packet
<1>6. sess'[r] = call.s /\ \A q \in Seats \ {r} : sess'[q] = sess[q]
  <2>1. sess' = [sess EXCEPT ![r] = call.s]
    BY <1>3 DEF Install
  <2> HIDE DEF call
  <2> QED BY <2>1, <1>5
<1> HIDE DEF call
<1>7. call.s.started = sess[r].started
  BY <1>2 DEF CallOK
<1>8. ASSUME hand[r] = 1
      PROVE  /\ call.out = call.own /\ (call.own # {} => NextIndex(sess[r]) <= r)
             /\ \A m \in Message : Holds(sess[r], m) => Holds(call.s, m)
             /\ \A m \in call.s.pending : m.ok
             /\ pkt.msg.hand = 1 => Holds(call.s, pkt.msg)
  <2>0. \A m \in sess[r].pending : m.ok
    BY <1>8 DEF KeptInv
  <2>1. CASE pkt.msg.hand = 1
    <3>1. NothingLost(sess[r], call, r) /\ Holds(call.s, pkt.msg)
      BY <1>1, <1>5, <1>8, <2>0, <2>1, HandleMessageLosesNothing DEF call
    <3> QED BY <3>1 DEF NothingLost
  <2>2. CASE pkt.msg.hand # 1
    <3>1. call = Result(sess[r], {}, {}, TRUE)
      BY <1>8, <2>2 DEF call, HandleMessage, ValidateIncoming, Reject
    <3> QED BY <3>1, <2>0, <2>2 DEF Result
  <2> QED BY <2>1, <2>2
<1>9. ASSUME NEW m \in made, m.hand = 1, m.seat # r PROVE Kept(m, r)'
  <2>1. CASE hand[r] >= 2
    BY <2>1, <1>3, <1>5, <1>9 DEF Kept
  <2>2. CASE hand[r] = 1
    <3>1. Kept(m, r) /\ m \in Message
      BY <1>9, <1>1 DEF KeptInv, FirstHandKept, TypeOK
    <3>2. Holds(sess[r], m) => Kept(m, r)'
      BY <2>2, <1>3, <1>6, <1>8, <1>9, <3>1 DEF Holds, Kept
    <3>3. Parked(r, m) => Kept(m, r)'
      BY <1>3 DEF Parked, Kept
    <3>4. Flying(r, m) => Kept(m, r)'
      <4>1. CASE m = pkt.msg
        BY <4>1, <2>2, <1>3, <1>6, <1>8, <1>9 DEF Holds, Kept
      <4>2. CASE m # pkt.msg
        <5>1. \A o \in flight : o # pkt => o \in flight'
          BY <1>3 DEF Install
        <5> QED BY <4>2, <5>1 DEF Flying, Kept
      <4> QED BY <4>1, <4>2
    <3> QED BY <2>2, <1>9, <3>1, <3>2, <3>3, <3>4 DEF Kept, Holds
  <2> QED BY <2>1, <2>2, <1>1, <1>5
<1>10. \A o \in flight : o \in rest \/ o.to = r
  BY <1>1
<1>11. \A o \in rest : o \in flight
  OBVIOUS
<1> HIDE DEF rest
<1>12. /\ FirstHandKept'
       /\ \A o \in flight' : o.msg.ok
       /\ \A q \in Seats \ {r} : \A x \in Came(q, made, flight) : x \in Came(q, made', flight')
  BY <1>2, <1>3, <1>8, <1>9, <1>10, <1>11, InstallKept
<1>13. ASSUME NEW q \in Seats, hand'[q] <= 1, ~ sess'[q].started
       PROVE  Len(early'[q]) <= Cardinality(Came(q, made', flight'))
  <2>1. q # r
    BY <1>1, <1>6, <1>7, <1>13
  <2>2. Len(early[q]) <= Cardinality(Came(q, made, flight))
    BY <2>1, <1>3, <1>6, <1>13 DEF KeptInv
  <2>3. Cardinality(Came(q, made, flight)) <= Cardinality(Came(q, made', flight'))
    BY <2>1, <1>12, CameGrows
  <2>4. Cardinality(Came(q, made, flight)) \in Nat /\ Cardinality(Came(q, made', flight')) \in Nat
    BY CameBound
  <2>5. Len(early[q]) \in Nat /\ early'[q] = early[q]
    BY <1>1, <1>3 DEF TypeOK
  <2> QED BY <2>2, <2>3, <2>4, <2>5
<1>14. \A q \in Seats : /\ driver'[q] \in {"started", "waiting", "dealing"} => sess'[q].started
                        /\ sess'[q].started => hand'[q] >= 1
  BY <1>1, <1>3, <1>6, <1>7 DEF KeptInv
<1>15. \A q \in Seats : hand'[q] <= 1 => \A m \in sess'[q].pending : m.ok
  <2> SUFFICES ASSUME NEW q \in Seats, hand'[q] <= 1, NEW m \in sess'[q].pending PROVE m.ok
    OBVIOUS
  <2>1. CASE q = r
    <3>1. hand[r] = 1
      BY <2>1, <1>1, <1>3, <1>5
    <3> QED BY <2>1, <3>1, <1>6, <1>8
  <2>2. CASE q # r
    BY <2>2, <1>3, <1>6 DEF KeptInv
  <2> QED BY <2>1, <2>2
<1>16. /\ \A q \in Seats : \A i \in 1 .. Len(early'[q]) : early'[q][i].ok
       /\ \A q, o \in Seats :
            hand'[q] >= 2 => hand'[o] >= 2 \/ (hand'[o] = 1 /\ driver'[o] = "dealing")
  BY <1>3 DEF KeptInv
<1> QED BY <1>4, <1>12, <1>13, <1>14, <1>15, <1>16 DEF KeptInv

LEMMA StartShuffleKept ==
  ASSUME KeptInv, NEW r \in Seats, NEW p \in Perms, StartShuffle(r, p) PROVE KeptInv'
<1> USE SeatingAssumption, ShuffleAssumption
<1> DEFINE begun == [sess[r] EXCEPT !.started = TRUE]
           first == StartSession(sess[r], r, hand[r], p)
           call == DrainEarly(first, r, hand[r], early[r], p)
<1>1. /\ TypeOK /\ StepsOK(made) /\ SessionOK(sess[r], r, hand[r], made) /\ PhaseOK(r)
      /\ driver[r] = "starting"
  BY DEF KeptInv, IInv, StartShuffle
<1>2. CallOK(begun, call, r, hand[r], made) /\ NextIndex(begun) = NextIndex(sess[r])
  BY StartIsCall DEF KeptInv
<1>3. /\ Install(r, call, flight) /\ UNCHANGED hand /\ early' = [early EXCEPT ![r] = <<>>]
      /\ driver' = [driver EXCEPT ![r] = IF call.err THEN "failed" ELSE "started"]
  BY DEF StartShuffle
<1>4. IInv'
  BY StartShuffleKeeps DEF KeptInv
<1>5. /\ hand \in [Seats -> 0 .. MaxHands] /\ sess \in [Seats -> Session]
      /\ early \in [Seats -> Seq(Message)] /\ sess[r] = NewSession /\ hand[r] >= 1
      /\ hand[r] \in 1 .. MaxHands
  <2>1. /\ hand \in [Seats -> 0 .. MaxHands] /\ sess \in [Seats -> Session]
        /\ early \in [Seats -> Seq(Message)]
    BY <1>1 DEF TypeOK
  <2>2. sess[r] = NewSession /\ hand[r] >= 1
    BY <1>1 DEF PhaseOK
  <2> QED BY <2>1, <2>2
<1>6. /\ begun \in Session /\ begun.applied = sess[r].applied
      /\ begun.pending = {} /\ begun.started /\ sess[r].pending = {}
  <2>1. sess[r] \in Session
    BY <1>5
  <2>2. NewSession.pending = {}
    BY DEF NewSession
  <2>3. sess[r].pending = {}
    BY <2>2, <1>5
  <2> QED BY <2>1, <2>3 DEF Session
<1>7. SessionOK(begun, r, hand[r], made)
  <2> HIDE DEF begun
  <2> QED BY <1>1, <1>2, <1>6 DEF SessionOK
<1>8. ASSUME hand[r] = 1
      PROVE  /\ call.out = call.own /\ (call.own # {} => NextIndex(sess[r]) <= r)
             /\ \A m \in Message : Holds(begun, m) => Holds(call.s, m)
             /\ \A m \in call.s.pending : m.ok
             /\ \A i \in 1 .. Len(early[r]) : Holds(call.s, early[r][i])
  <2>1. /\ CallOK(begun, first, r, hand[r], made) /\ NothingLost(begun, first, r)
    <3> HIDE DEF begun
    <3>1. CASE r = 0
      <4>1. first = ExecuteLocal(begun, r, hand[r], p)
        BY <3>1 DEF StartSession, begun
      <4>2. NextIndex(begun) = r
        BY <3>1, <1>2, <1>5 DEF NewSession, NextIndex
      <4> HIDE DEF first
      <4> QED BY <4>1, <4>2, <1>1, <1>5, <1>6, <1>7, ExecuteLocalKeeps, ExecuteLocalLosesNothing
    <3>2. CASE r # 0
      <4>1. first = Result(begun, {}, {}, FALSE)
        BY <3>2 DEF StartSession, Accept, begun
      <4> HIDE DEF first
      <4>2. NextIndex(begun) <= NextIndex(begun)
        BY <1>6 DEF NextIndex, Session
      <4>3. CallOK(begun, first, r, hand[r], made)
        BY <4>1, <4>2, <1>1, <1>7, QuietCall
      <4> QED BY <4>1, <4>3, <1>6 DEF NothingLost, Result
    <3> QED BY <3>1, <3>2
  <2>2. \A m \in made : m.hand = 1
    BY <1>5, <1>8, NobodyFurther DEF NewSession
  <2>3. \A i \in 1 .. Len(early[r]) :
          early[r][i] \in made /\ early[r][i].seat # r /\ early[r][i].hand = hand[r]
    BY <2>2, <1>8 DEF KeptInv, IInv, TravelOK
  <2>4. early[r] \in Seq(Message) /\ hand[r] \in 0 .. MaxHands
    BY <1>5
  <2> HIDE DEF first, begun
  <2>5. NothingLost(begun, call, r) /\ \A i \in 1 .. Len(early[r]) : Holds(call.s, early[r][i])
    BY <2>1, <2>3, <2>4, <1>7, DrainEarlyLosesNothing
  <2> QED BY <2>5, <1>2 DEF NothingLost
<1>9. sess'[r] = call.s /\ \A q \in Seats \ {r} : sess'[q] = sess[q]
  <2>1. sess' = [sess EXCEPT ![r] = call.s]
    BY <1>3 DEF Install
  <2> HIDE DEF call
  <2> QED BY <2>1, <1>5
<1> HIDE DEF call
<1>10. call.s.started
  BY <1>2, <1>6 DEF CallOK
<1> HIDE DEF begun
<1>11. /\ early'[r] = <<>> /\ \A q \in Seats \ {r} : early'[q] = early[q]
       /\ driver'[r] \in {"failed", "started"}
       /\ \A q \in Seats \ {r} : driver'[q] = driver[q]
  <2>1. DOMAIN driver = Seats
    BY <1>1 DEF TypeOK
  <2> QED BY <2>1, <1>3, <1>5
<1>12. ASSUME NEW m \in made, m.hand = 1, m.seat # r PROVE Kept(m, r)'
  <2>1. CASE hand[r] >= 2
    BY <2>1, <1>3, <1>5, <1>12 DEF Kept
  <2>2. CASE hand[r] = 1
    <3>1. Kept(m, r) /\ m \in Message
      BY <1>1, <1>12 DEF KeptInv, FirstHandKept, TypeOK
    <3>2. Holds(call.s, m) => Kept(m, r)'
      BY <2>2, <1>3, <1>9, <1>12 DEF Holds, Kept
    <3>3. Holds(sess[r], m) => Holds(begun, m)
      BY <1>2, <1>6 DEF Holds
    <3>4. Parked(r, m) => Holds(call.s, m)
      BY <2>2, <1>8 DEF Parked
    <3>5. Flying(r, m) => Kept(m, r)'
      BY <1>3 DEF Install, Flying, Kept
    <3> QED BY <2>2, <1>8, <1>12, <3>1, <3>2, <3>3, <3>4, <3>5 DEF Kept, Holds
  <2> QED BY <2>1, <2>2, <1>5
<1>13. /\ FirstHandKept'
       /\ \A o \in flight' : o.msg.ok
       /\ \A q \in Seats \ {r} : \A x \in Came(q, made, flight) : x \in Came(q, made', flight')
  <2>1. \A o \in flight : o \in flight
    OBVIOUS
  <2>2. hand[r] = 1 => call.out = call.own /\ (call.own # {} => NextIndex(sess[r]) <= r)
    BY <1>8
  <2> QED BY <1>2, <1>3, <1>11, <1>12, <2>1, <2>2, InstallKept
<1>14. ASSUME NEW q \in Seats, hand'[q] <= 1, ~ sess'[q].started
       PROVE  Len(early'[q]) <= Cardinality(Came(q, made', flight'))
  <2>1. q # r
    BY <1>9, <1>10, <1>14
  <2>2. Len(early[q]) <= Cardinality(Came(q, made, flight))
    BY <2>1, <1>3, <1>9, <1>14 DEF KeptInv
  <2>3. Cardinality(Came(q, made, flight)) <= Cardinality(Came(q, made', flight'))
    BY <2>1, <1>13, CameGrows
  <2>4. Cardinality(Came(q, made, flight)) \in Nat /\ Cardinality(Came(q, made', flight')) \in Nat
    BY CameBound
  <2>5. Len(early[q]) \in Nat /\ early'[q] = early[q]
    BY <2>1, <1>5, <1>11
  <2> QED BY <2>2, <2>3, <2>4, <2>5
<1>15. \A q \in Seats : /\ driver'[q] \in {"started", "waiting", "dealing"} => sess'[q].started
                        /\ sess'[q].started => hand'[q] >= 1
  BY <1>3, <1>5, <1>9, <1>10, <1>11 DEF KeptInv
<1>16. \A q \in Seats : hand'[q] <= 1 => \A m \in sess'[q].pending : m.ok
  <2> SUFFICES ASSUME NEW q \in Seats, hand'[q] <= 1, NEW m \in sess'[q].pending PROVE m.ok
    OBVIOUS
  <2>1. CASE q = r
    <3>1. hand[r] = 1
      BY <2>1, <1>3, <1>5
    <3> QED BY <2>1, <3>1, <1>8, <1>9
  <2>2. CASE q # r
    BY <2>2, <1>3, <1>9 DEF KeptInv
  <2> QED BY <2>1, <2>2
<1>17. ASSUME NEW q \in Seats, NEW i \in 1 .. Len(early'[q]) PROVE early'[q][i].ok
  <2>1. q # r
    BY <1>11, <1>17
  <2> QED BY <2>1, <1>11, <1>17 DEF KeptInv
<1>18. ASSUME NEW q \in Seats, NEW o \in Seats, hand'[q] >= 2
       PROVE  hand'[o] >= 2 \/ (hand'[o] = 1 /\ driver'[o] = "dealing")
  <2>1. hand[o] >= 2 \/ (hand[o] = 1 /\ driver[o] = "dealing")
    BY <1>3, <1>18 DEF KeptInv
  <2>2. o # r \/ driver[o] # "dealing"
    BY <1>1
  <2> QED BY <2>1, <2>2, <1>3, <1>11
<1> QED BY <1>4, <1>13, <1>14, <1>15, <1>16, <1>17, <1>18 DEF KeptInv

LEMMA ParkShuffleKept ==
  ASSUME EarlyCap >= (N - 1) * Copies, KeptInv,
         NEW r \in Seats, NEW pkt \in flight, ParkShuffle(r, pkt)
  PROVE  KeptInv'
<1> USE SeatingAssumption, ShuffleAssumption
<1>1. /\ TypeOK /\ pkt \in Packet /\ pkt.to = r /\ ~ sess[r].started
      /\ pkt.msg.ok /\ pkt.msg \in made /\ pkt.msg.seat # r
  BY DEF KeptInv, IInv, TypeOK, ParkShuffle, TravelOK
<1>2. IInv'
  BY ParkShuffleKeeps DEF KeptInv
<1>3. /\ early[r] \in Seq(Message) /\ pkt.msg \in Message /\ Len(early[r]) \in Nat
      /\ hand \in [Seats -> 0 .. MaxHands] /\ pkt.copy \in 1 .. Copies
      /\ pkt.msg.seat \in Seats
  <2>1. /\ early \in [Seats -> Seq(Message)] /\ hand \in [Seats -> 0 .. MaxHands]
    BY <1>1 DEF TypeOK
  <2>2. pkt.msg \in Message /\ pkt.copy \in 1 .. Copies
    BY <1>1 DEF Packet
  <2>3. pkt.msg.seat \in Seats
    BY <2>2 DEF Message
  <2>4. early[r] \in Seq(Message)
    BY <2>1
  <2> QED BY <2>1, <2>2, <2>3, <2>4
<1> DEFINE longer == Append(early[r], pkt.msg)
           more == IF Len(early[r]) < EarlyCap THEN longer ELSE early[r]
<1>4. /\ Len(longer) = Len(early[r]) + 1 /\ longer[Len(early[r]) + 1] = pkt.msg
      /\ \A i \in 1 .. Len(early[r]) : longer[i] = early[r][i]
  BY <1>3
<1>5. /\ UNCHANGED <<hand, sess, gate, driver, made>> /\ flight' = flight \ {pkt}
      /\ early'[r] = more /\ \A q \in Seats \ {r} : early'[q] = early[q]
  BY <1>1 DEF ParkShuffle, TypeOK
<1> HIDE DEF longer
<1>6. ASSUME hand[r] <= 1
      PROVE  /\ early'[r] = longer
             /\ Len(early'[r]) <= Cardinality(Came(r, made', flight'))
  <2> DEFINE came == Came(r, made, flight)
             x == <<pkt.msg.seat, pkt.copy>>
             after == Came(r, made', flight')
  <2>1. pkt.msg.hand = 1
    BY <1>1, <1>6, NobodyFurther
  <2>2. pkt = [to |-> r, msg |-> pkt.msg, copy |-> pkt.copy]
    BY <1>1 DEF Packet
  <2>3. \A m \in made : m.hand = 1 /\ m.seat = pkt.msg.seat => m = pkt.msg
    BY <1>1, <2>1 DEF KeptInv, IInv, StepsOK
  <2>4. x \notin came
    BY <2>2, <2>3 DEF Came
  <2>5. x \in after
    <3>1. x \in (Seats \ {r}) \X (1 .. Copies) /\ x[1] = pkt.msg.seat /\ x[2] = pkt.copy
      BY <1>1, <1>3
    <3>2. pkt \notin flight'
      BY <1>5
    <3> HIDE DEF x
    <3> QED BY <1>1, <1>5, <2>1, <2>2, <3>1, <3>2 DEF Came
  <2>6. \A y \in came : y \in after
    BY <1>5 DEF Came
  <2>7. /\ IsFiniteSet(came) /\ IsFiniteSet(after)
        /\ Cardinality(came) \in Nat /\ Cardinality(after) \in Nat
        /\ Cardinality(after) <= (N - 1) * Copies
    BY CameBound
  <2>8. Len(early[r]) <= Cardinality(came)
    BY <1>1, <1>6 DEF KeptInv
  <2> HIDE DEF came, x, after
  <2>9. Cardinality(came \cup {x}) = Cardinality(came) + 1
    BY <2>4, <2>7, FS_AddElement
  <2>10. Cardinality(came \cup {x}) <= Cardinality(after)
    <3>1. (came \cup {x}) \in SUBSET after
      BY <2>5, <2>6
    <3> QED BY <2>7, <3>1, FS_Subset
  <2>11. Len(early[r]) + 1 <= Cardinality(after)
    BY <1>3, <2>7, <2>8, <2>9, <2>10
  <2>12. (N - 1) * Copies \in Int
    OBVIOUS
  <2>13. Len(early[r]) < EarlyCap
    BY <1>3, <2>7, <2>11, <2>12
  <2> QED BY <1>4, <1>5, <2>11, <2>13 DEF after
<1>7. ASSUME NEW q \in Seats, NEW m \in made, m.hand = 1, m.seat # q PROVE Kept(m, q)'
  <2>1. Kept(m, q)
    BY <1>7 DEF KeptInv, FirstHandKept
  <2>2. CASE q # r
    <3>1. Flying(q, m) => Flying(q, m)'
      BY <1>1, <1>5, <2>2 DEF Flying
    <3>2. Parked(q, m) => Parked(q, m)'
      BY <1>5, <2>2 DEF Parked
    <3> QED BY <2>1, <3>1, <3>2, <1>5 DEF Kept
  <2>3. CASE q = r /\ hand[r] <= 1
    <3>1. early'[r] = longer
      BY <1>6, <2>3
    <3>2. Parked(r, m) => Parked(r, m)'
      <4> SUFFICES ASSUME Parked(r, m) PROVE Parked(r, m)'
        OBVIOUS
      <4>1. PICK i \in 1 .. Len(early[r]) : early[r][i] = m
        BY DEF Parked
      <4>2. i \in 1 .. Len(longer) /\ longer[i] = m
        BY <1>3, <1>4, <4>1
      <4> QED BY <3>1, <4>2 DEF Parked
    <3>3. Flying(r, m) => Flying(r, m)' \/ Parked(r, m)'
      <4>1. CASE m = pkt.msg
        <5>1. Len(early[r]) + 1 \in 1 .. Len(longer)
          BY <1>3, <1>4
        <5> QED BY <3>1, <4>1, <5>1, <1>4 DEF Parked
      <4>2. CASE m # pkt.msg
        BY <4>2, <1>5 DEF Flying
      <4> QED BY <4>1, <4>2
    <3> QED BY <2>1, <2>3, <3>2, <3>3, <1>5 DEF Kept
  <2>4. CASE q = r /\ ~ (hand[r] <= 1)
    <3>1. m.hand < hand[r]
      BY <2>4, <1>3, <1>7
    <3> QED BY <2>4, <3>1, <1>5 DEF Kept
  <2> QED BY <2>2, <2>3, <2>4
<1>8. FirstHandKept'
  BY <1>5, <1>7 DEF FirstHandKept
<1>9. ASSUME NEW q \in Seats, hand'[q] <= 1, ~ sess'[q].started
      PROVE  Len(early'[q]) <= Cardinality(Came(q, made', flight'))
  <2>1. CASE q = r
    BY <2>1, <1>5, <1>6, <1>9
  <2>2. CASE q # r
    <3>1. Len(early[q]) <= Cardinality(Came(q, made, flight))
      BY <2>2, <1>5, <1>9 DEF KeptInv
    <3>2. \A x \in Came(q, made, flight) : x \in Came(q, made', flight')
      BY <1>5 DEF Came
    <3>3. Cardinality(Came(q, made, flight)) <= Cardinality(Came(q, made', flight'))
      BY <3>2, CameGrows
    <3>4. Cardinality(Came(q, made, flight)) \in Nat /\ Cardinality(Came(q, made', flight')) \in Nat
      BY CameBound
    <3>5. Len(early[q]) \in Nat /\ early'[q] = early[q]
      BY <2>2, <1>1, <1>5 DEF TypeOK
    <3> QED BY <3>1, <3>3, <3>4, <3>5
  <2> QED BY <2>1, <2>2
<1>10. ASSUME NEW q \in Seats, NEW i \in 1 .. Len(early'[q]) PROVE early'[q][i].ok
  <2>1. CASE q = r
    <3>1. \A j \in 1 .. Len(longer) : longer[j].ok
      <4>1. \A j \in 1 .. Len(early[r]) : early[r][j].ok
        BY DEF KeptInv
      <4>2. \A j \in 1 .. Len(longer) : j \in 1 .. Len(early[r]) \/ j = Len(early[r]) + 1
        BY <1>3, <1>4
      <4> QED BY <1>1, <1>4, <4>1, <4>2
    <3> QED BY <2>1, <3>1, <1>5, <1>10 DEF KeptInv
  <2>2. CASE q # r
    BY <2>2, <1>5, <1>10 DEF KeptInv
  <2> QED BY <2>1, <2>2
<1>11. /\ \A q \in Seats : hand'[q] <= 1 => \A m \in sess'[q].pending : m.ok
       /\ \A o \in flight' : o.msg.ok
       /\ \A q \in Seats : /\ driver'[q] \in {"started", "waiting", "dealing"} => sess'[q].started
                           /\ sess'[q].started => hand'[q] >= 1
       /\ \A q, o \in Seats :
            hand'[q] >= 2 => hand'[o] >= 2 \/ (hand'[o] = 1 /\ driver'[o] = "dealing")
  BY <1>5 DEF KeptInv
<1> QED BY <1>2, <1>8, <1>9, <1>10, <1>11 DEF KeptInv

LEMMA NextKept ==
  EarlyCap >= (N - 1) * Copies /\ KeptInv /\ [Next]_vars => KeptInv'
<1> SUFFICES ASSUME EarlyCap >= (N - 1) * Copies, KeptInv, [Next]_vars PROVE KeptInv'
  OBVIOUS
<1>1. CASE UNCHANGED vars
  <2>1. IInv'
    BY <1>1, NextIInv DEF KeptInv
  <2> QED BY <1>1, <2>1 DEF vars, KeptInv, FirstHandKept, Kept, Parked, Flying
<1>2. CASE Next
  <2>1. PICK r \in Seats :
          \/ StartNextHand(r) \/ Start(r) \/ Receive(r)
          \/ WaitShuffle(r) \/ GateOpens(r)
          \/ AbortShuffle(r) \/ DealTimeout(r)
    BY <1>2 DEF Next
  <2>2. CASE StartNextHand(r)
    BY <2>2, StartNextHandKept
  <2>3. CASE Start(r)
    BY <2>3, StartShuffleKept DEF Start
  <2>4. CASE Receive(r)
    BY <2>4, ParkShuffleKept, HandleShuffleKept DEF Receive
  <2>5. CASE WaitShuffle(r) \/ GateOpens(r) \/ AbortShuffle(r) \/ DealTimeout(r)
    BY <2>5, DriverKept
  <2> QED BY <2>1, <2>2, <2>3, <2>4, <2>5
<1> QED BY <1>1, <1>2

LEMMA KeptInvariance ==
  ASSUME Spoiled = {}, EarlyCap >= (N - 1) * Copies
  PROVE  Spec => []KeptInv
<1>1. Init => KeptInv
  BY InitKept
<1>2. KeptInv /\ [Next]_vars => KeptInv'
  BY NextKept
<1> QED BY <1>1, <1>2, PTL DEF Spec

\* If no commitment is wrong and the buffers have room for every copy that may
\* come early, no step of the first hand is ever lost on the way to a replica,
\* however many hands follow and whoever is timed out (bufferShuffleLocked,
\* OnShuffleStep, drainPendingLocked).
THEOREM FirstHandKeptTheorem ==
  ASSUME Spoiled = {}, EarlyCap >= (N - 1) * Copies
  PROVE  Spec => []FirstHandKept
<1>1. KeptInv => FirstHandKept
  BY DEF KeptInv
<1> QED BY <1>1, KeptInvariance, PTL

\* The same of every step, at a table that plays one hand: a step of a later
\* hand can reach a replica whose session is still the last hand's, and is
\* refused (ValidateIncoming, shuffle_session.go).
THEOREM EarlyStepsTheorem ==
  ASSUME MaxHands = 1, Spoiled = {}, EarlyCap >= (N - 1) * Copies
  PROVE  Spec => []EarlyStepsKept
<1>1. KeptInv => EarlyStepsKept
  <2> SUFFICES ASSUME KeptInv, NEW m \in made, NEW r \in Seats \ {m.seat}
               PROVE  \/ m.hand < hand[r]
                      \/ m.hand = hand[r] /\ m.seat < NextIndex(sess[r])
                      \/ m \in sess[r].pending
                      \/ \E i \in 1 .. Len(early[r]) : early[r][i] = m
                      \/ \E pkt \in flight : pkt.to = r /\ pkt.msg = m
    BY DEF EarlyStepsKept
  <2>1. m.hand = 1
    BY DEF KeptInv, IInv, TypeOK, Message
  <2> QED BY <2>1 DEF KeptInv, FirstHandKept, Kept, Parked, Flying
<1> QED BY <1>1, KeptInvariance, PTL
=============================================================================
