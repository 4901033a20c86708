---------------------------- MODULE LobbyProofs ----------------------------
(***************************************************************************)
(* For any peers, clocks and table sizes: the seats of a peer that has     *)
(* left the wait loop are final, and two peers that play with the same     *)
(* players have them in the same order. The first rests on the table of    *)
(* such a peer being full, whatever the state of its lobby says; the       *)
(* second on a peer stamping its JOINs once, so that every envelope and    *)
(* every seat of a peer shows the same time.                               *)
(***************************************************************************)
EXTENDS Lobby, FiniteSetTheorems, TLAPS

\* Peers keep their tables in arrays, and who left the wait loop has a full one.
FullOnceLeft ==
  /\ DOMAIN stage = Peers /\ DOMAIN seats = Peers
  /\ \A p \in Peers : Left(p) => Count(p) >= maxSeats

-----------------------------------------------------------------------------
\* A JOIN changes no full table and no other peer's.
LEMMA HandleJoinFinal ==
  ASSUME DOMAIN seats = Peers, NEW p, NEW q, NEW at
  PROVE  /\ DOMAIN HandleJoin(p, q, at) = Peers
         /\ \A s \in Peers : HandleJoin(p, q, at)[s] # seats[s]
              => s = p /\ ~ (Count(p) >= maxSeats)
<1>1. CASE state[p] # "waiting" \/ Count(p) >= maxSeats \/ q \in DOMAIN seats[p]
  BY <1>1 DEF HandleJoin
<1>2. CASE ~ (state[p] # "waiting" \/ Count(p) >= maxSeats \/ q \in DOMAIN seats[p])
  <2> DEFINE more == WithSeat(p, q, at)
  <2>1. HandleJoin(p, q, at) = [seats EXCEPT ![p] = more]
    BY <1>2 DEF HandleJoin
  <2> HIDE DEF more
  <2> QED BY <1>2, <2>1
<1> QED BY <1>1, <1>2

LEMMA InitFull == Init => FullOnceLeft
  BY DEF Init, FullOnceLeft, Left

\* A step that leaves the stages alone and gives only tables that are not full
\* a seat.
LEMMA GoodJoin ==
  ASSUME FullOnceLeft, UNCHANGED maxSeats, DOMAIN stage' = Peers, DOMAIN seats' = Peers,
         \A s \in Peers : seats'[s] # seats[s] => ~ (Count(s) >= maxSeats),
         \A s \in Peers : Left(s)' => Left(s) \/ (Count(s) >= maxSeats)
  PROVE  FullOnceLeft' /\ \A p \in Peers : Left(p) => seats'[p] = seats[p]
<1>1. ASSUME NEW p \in Peers, Left(p)' PROVE (Count(p) >= maxSeats)'
  <2>1. Count(p) >= maxSeats
    BY <1>1 DEF FullOnceLeft
  <2>2. seats'[p] = seats[p]
    BY <2>1
  <2> QED BY <2>1, <2>2 DEF Count
<1> QED BY <1>1 DEF FullOnceLeft

LEMMA StepFinal ==
  ASSUME FullOnceLeft, [Next]_vars
  PROVE  FullOnceLeft' /\ \A p \in Peers : Left(p) => seats'[p] = seats[p]
<1>0. DOMAIN stage = Peers /\ DOMAIN seats = Peers
  BY DEF FullOnceLeft
<1>1. ASSUME NEW p \in Peers, Start(p) \/ Graft(p) \/ NextHand(p)
      PROVE  /\ UNCHANGED <<maxSeats, seats>> /\ DOMAIN stage' = Peers
             /\ \A s \in Peers : Left(s)' => Left(s)
  BY <1>0, <1>1 DEF Start, Graft, NextHand, Left
<1>2. ASSUME NEW p \in Peers, Join(p) \/ Rejoin(p)
      PROVE  /\ UNCHANGED maxSeats /\ DOMAIN stage' = Peers /\ DOMAIN seats' = Peers
             /\ \A s \in Peers : seats'[s] # seats[s] => ~ (Count(s) >= maxSeats)
             /\ \A s \in Peers : Left(s)' => Left(s)
  <2>1. BroadcastJoin(p)
    BY <1>2 DEF Join, Rejoin
  <2>2. PICK at : seats' = HandleJoin(p, p, at)
    BY <2>1 DEF BroadcastJoin
  <2>3. /\ UNCHANGED maxSeats /\ DOMAIN stage' = Peers
        /\ \A s \in Peers : Left(s)' => Left(s)
    BY <1>0, <1>2 DEF Join, Rejoin, Left
  <2> QED BY <1>0, <2>2, <2>3, HandleJoinFinal
<1>3. ASSUME NEW p \in Peers, Leave(p)
      PROVE  /\ UNCHANGED <<maxSeats, seats>> /\ DOMAIN stage' = Peers
             /\ \A s \in Peers : Left(s)' => Left(s) \/ (Count(s) >= maxSeats)
  BY <1>0, <1>3 DEF Leave, Left
<1>4. ASSUME NEW p \in Peers, TakeSeats(p)
      PROVE  /\ UNCHANGED <<maxSeats, seats>> /\ DOMAIN stage' = Peers
             /\ \A s \in Peers : Left(s)' => Left(s)
  BY <1>0, <1>4 DEF TakeSeats, Left
<1>5. ASSUME NEW m \in mail, Receive(m)
      PROVE  /\ UNCHANGED <<maxSeats, stage>> /\ DOMAIN seats' = Peers
             /\ \A s \in Peers : seats'[s] # seats[s] => ~ (Count(s) >= maxSeats)
  <2>1. UNCHANGED <<maxSeats, stage>>
    BY <1>5 DEF Receive
  <2>2. seats' = seats \/ seats' = HandleJoin(m.to, m.by, m.at)
    BY <1>5 DEF Receive, Dispatch
  <2> QED BY <1>0, <1>5, <2>1, <2>2, HandleJoinFinal
<1>6. ASSUME NEW p \in Peers,
             \/ Start(p) \/ Graft(p) \/ Join(p) \/ Rejoin(p) \/ Leave(p) \/ TakeSeats(p)
             \/ NextHand(p)
      PROVE  FullOnceLeft' /\ \A s \in Peers : Left(s) => seats'[s] = seats[s]
  <2>1. CASE Start(p) \/ Graft(p) \/ NextHand(p)
    BY <1>0, <1>1, <2>1, GoodJoin
  <2>2. CASE Join(p) \/ Rejoin(p)
    BY <1>2, <2>2, GoodJoin
  <2>3. CASE Leave(p)
    BY <1>0, <1>3, <2>3, GoodJoin
  <2>4. CASE TakeSeats(p)
    BY <1>0, <1>4, <2>4, GoodJoin
  <2> QED BY <1>6, <2>1, <2>2, <2>3, <2>4
<1>7. ASSUME NEW m \in mail, Receive(m)
      PROVE  FullOnceLeft' /\ \A s \in Peers : Left(s) => seats'[s] = seats[s]
  <2>1. \A s \in Peers : Left(s)' => Left(s)
    BY <1>5, <1>7 DEF Left
  <2> QED BY <1>0, <1>5, <1>7, <2>1, GoodJoin
<1>8. CASE UNCHANGED vars
  <2>1. UNCHANGED <<maxSeats, stage, seats>>
    BY <1>8 DEF vars
  <2>2. \A s \in Peers : Left(s)' => Left(s)
    BY <2>1 DEF Left
  <2> QED BY <1>0, <2>1, <2>2, GoodJoin
<1> QED BY <1>6, <1>7, <1>8 DEF Next

-----------------------------------------------------------------------------

LEMMA Invariance == Spec => []FullOnceLeft
  BY InitFull, StepFinal, PTL DEF Spec

\* Once a peer has left the wait loop no seat of its lobby is given away or
\* taken back, whatever Reset opens and whoever still shouts (HandleJoin).
THEOREM TableStaysClosedTheorem == Spec => TableStaysClosed
<1>1. FullOnceLeft /\ [Next]_vars =>
        [\A p \in Peers :
           stage[p] \in {"pausing", "seated", "stopped"} => seats'[p] = seats[p]]_vars
  BY StepFinal DEF Left
<1> QED BY <1>1, Invariance, PTL DEF Spec, TableStaysClosed

-----------------------------------------------------------------------------
(* The order Lobby.Seats gives *)

\* A peer's table names peers, each with the stamp it has put into its JOINs.
StampedTable(p) ==
  /\ DOMAIN seats[p] \subseteq Peers
  /\ seats[p] = [q \in DOMAIN seats[p] |-> stamp[q]]
  /\ \A q \in DOMAIN seats[p] : stamp[q] # 0

StampedMail ==
  \A m \in mail : /\ m.by \in Peers /\ m.to \in Peers
                  /\ m.num = 1 => m.at = stamp[m.by] /\ stamp[m.by] # 0

\* Who has taken seats plays in the order its final table gives.
TakenFromTable ==
  \A p \in Peers : order[p] # << >> => stage[p] = "seated" /\ order[p] = Seats(p)

OrderInv ==
  /\ FullOnceLeft
  /\ stamp \in [Peers -> Nat] /\ DOMAIN order = Peers /\ mesh \subseteq Peers
  /\ \A p \in Peers : StampedTable(p)
  /\ StampedMail
  /\ TakenFromTable

\* The seats before q at the table of p
Ahead(p, q) == {r \in DOMAIN seats[p] : Before(p, r, q)}

LEMMA PlaceFacts ==
  ASSUME LobbyAssumption, stamp \in [Peers -> Nat], NEW p \in Peers, StampedTable(p)
  PROVE  /\ IsFiniteSet(DOMAIN seats[p])
         /\ \A q \in DOMAIN seats[p] : Place(p, q) \in 1 .. Count(p)
         /\ \A q, r \in DOMAIN seats[p] : Place(p, q) = Place(p, r) => q = r
<1> DEFINE D == DOMAIN seats[p]
<1>1. D \subseteq Peers /\ IsFiniteSet(D)
  BY FS_Subset DEF StampedTable, LobbyAssumption
<1>2. \A q \in D : q \in Nat /\ seats[p][q] \in Nat
  BY <1>1 DEF StampedTable, LobbyAssumption
<1>3. Cardinality(D) \in Nat /\ Count(p) = Cardinality(D)
  BY <1>1, FS_CardinalityType DEF Count
<1>4. \A q \in D : Ahead(p, q) \subseteq D /\ q \notin Ahead(p, q)
  BY <1>2 DEF Ahead, Before
<1>5. ASSUME NEW q \in D
      PROVE  IsFiniteSet(Ahead(p, q)) /\ Cardinality(Ahead(p, q)) \in Nat
             /\ Cardinality(Ahead(p, q)) < Cardinality(D)
  <2> DEFINE A == Ahead(p, q)
  <2>1. A \in SUBSET D /\ A # D
    BY <1>4
  <2> HIDE DEF A, D
  <2>2. IsFiniteSet(A) /\ Cardinality(A) <= Cardinality(D) /\ Cardinality(A) # Cardinality(D)
    BY <1>1, <2>1, FS_Subset
  <2>3. Cardinality(A) \in Nat
    BY <2>2, FS_CardinalityType
  <2>4. Cardinality(A) < Cardinality(D)
    BY <1>3, <2>2, <2>3
  <2> QED BY <2>2, <2>3, <2>4 DEF A
<1>6. ASSUME NEW q \in D, NEW r \in D, Before(p, q, r)
      PROVE  Cardinality(Ahead(p, q)) # Cardinality(Ahead(p, r))
  <2> DEFINE A == Ahead(p, q)
             B == Ahead(p, r)
  <2>1. q \in B /\ q \notin A
    BY <1>4, <1>6 DEF Ahead
  <2>2. ASSUME NEW x \in A PROVE x \in B
    <3>1. x \in D /\ Before(p, x, q)
      BY DEF Ahead
    <3>2. x \in Nat /\ q \in Nat /\ r \in Nat
          /\ seats[p][x] \in Nat /\ seats[p][q] \in Nat /\ seats[p][r] \in Nat
      BY <1>2, <3>1
    <3>3. Before(p, x, r)
      BY <1>6, <3>1, <3>2 DEF Before
    <3> QED BY <3>1, <3>3 DEF Ahead
  <2>3. A \in SUBSET B /\ A # B
    BY <2>1, <2>2
  <2>4. IsFiniteSet(B)
    BY <1>5
  <2> HIDE DEF A, B
  <2>5. Cardinality(A) # Cardinality(B)
    BY <2>3, <2>4, FS_Subset
  <2> QED BY <2>5 DEF A, B
<1>7. \A q \in D : Place(p, q) = Cardinality(Ahead(p, q)) + 1
  BY DEF Place, Ahead
<1>8. ASSUME NEW q \in D PROVE Place(p, q) \in 1 .. Count(p)
  <2>1. Cardinality(Ahead(p, q)) \in Nat /\ Cardinality(Ahead(p, q)) < Cardinality(D)
    BY <1>5
  <2> QED BY <1>3, <1>7, <2>1
<1>9. ASSUME NEW q \in D, NEW r \in D, Place(p, q) = Place(p, r) PROVE q = r
  <2>1. Cardinality(Ahead(p, q)) = Cardinality(Ahead(p, r))
    <3>1. Cardinality(Ahead(p, q)) \in Nat /\ Cardinality(Ahead(p, r)) \in Nat
      BY <1>5
    <3> QED BY <1>7, <1>9, <3>1
  <2>2. ~ Before(p, q, r) /\ ~ Before(p, r, q)
    BY <1>6, <2>1
  <2>3. q \in Nat /\ r \in Nat /\ seats[p][q] \in Nat /\ seats[p][r] \in Nat
    BY <1>2
  <2> QED BY <2>2, <2>3 DEF Before
<1> QED BY <1>1, <1>8, <1>9

\* Lobby.Seats lists everybody who has a seat.
LEMMA SeatsListsAll ==
  ASSUME LobbyAssumption, stamp \in [Peers -> Nat], NEW p \in Peers, StampedTable(p)
  PROVE  ToSet(Seats(p)) = DOMAIN seats[p]
<1> DEFINE D == DOMAIN seats[p]
           place == [q \in D |-> Place(p, q)]
           n == Count(p)
<1>1. /\ IsFiniteSet(D) /\ place \in [D -> 1 .. n]
      /\ \A q, r \in D : place[q] = place[r] => q = r
  BY PlaceFacts
<1>2. n \in Nat /\ n = Cardinality(D)
  BY <1>1, FS_CardinalityType DEF Count
<1>3. Seats(p) = [i \in 1 .. n |-> CHOOSE q \in D : Place(p, q) = i]
  BY DEF Seats
<1>4. \A q \in D : Place(p, q) = place[q]
  OBVIOUS
<1> HIDE DEF place, n
<1>5. place \in Injection(D, 1 .. n)
  BY <1>1 DEF Injection, IsInjective
<1>6. IsFiniteSet(1 .. n) /\ Cardinality(1 .. n) = n
  <2>1. 1 \in Int /\ n \in Int
    BY <1>2
  <2>2. IsFiniteSet(1 .. n) /\ Cardinality(1 .. n) = IF 1 > n THEN 0 ELSE n - 1 + 1
    BY <2>1, FS_Interval
  <2> QED BY <1>2, <2>2
<1> HIDE DEF D
<1>7. place \in Surjection(D, 1 .. n)
  BY <1>2, <1>5, <1>6, FS_Injection
<1>8. \A i \in 1 .. n : \E q \in D : Place(p, q) = i
  BY <1>4, <1>7 DEF Surjection
<1>9. \A i \in 1 .. n : Seats(p)[i] \in D /\ Place(p, Seats(p)[i]) = i
  <2> SUFFICES ASSUME NEW i \in 1 .. n PROVE Seats(p)[i] \in D /\ Place(p, Seats(p)[i]) = i
    OBVIOUS
  <2>1. Seats(p)[i] = CHOOSE q \in D : Place(p, q) = i
    BY <1>3
  <2> QED BY <1>8, <2>1
<1>10. ASSUME NEW q \in D PROVE place[q] \in 1 .. n /\ Seats(p)[place[q]] = q
  <2>1. place[q] \in 1 .. n
    BY <1>1
  <2>2. Seats(p)[place[q]] \in D /\ Place(p, Seats(p)[place[q]]) = place[q]
    BY <1>9, <2>1
  <2> QED BY <1>1, <1>4, <2>1, <2>2
<1>11. DOMAIN Seats(p) = 1 .. n
  BY <1>3
<1>12. ToSet(Seats(p)) = D
  BY <1>9, <1>10, <1>11 DEF ToSet
<1> QED BY <1>12 DEF D

-----------------------------------------------------------------------------
(* Stamps are given once *)

LEMMA HandleJoinStamped ==
  ASSUME FullOnceLeft, NEW p \in Peers, NEW q \in Peers, NEW at,
         \A s \in Peers : StampedTable(s),
         DOMAIN stamp' = Peers, stamp'[q] = at, at # 0,
         \A s \in Peers : stamp[s] # 0 => stamp'[s] = stamp[s],
         seats' = HandleJoin(p, q, at)
  PROVE  \A s \in Peers : StampedTable(s)'
<1>1. DOMAIN seats = Peers
  BY DEF FullOnceLeft
<1>2. ASSUME NEW s \in Peers, seats'[s] = seats[s]
      PROVE  StampedTable(s)'
  <2>1. StampedTable(s)
    OBVIOUS
  <2>2. \A r \in DOMAIN seats[s] : stamp'[r] = stamp[r] /\ stamp'[r] # 0
    BY <2>1 DEF StampedTable
  <2>3. [r \in DOMAIN seats[s] |-> stamp'[r]] = [r \in DOMAIN seats[s] |-> stamp[r]]
    BY <2>2
  <2> QED BY <1>2, <2>1, <2>2, <2>3 DEF StampedTable
<1>3. CASE seats' = seats
  BY <1>2, <1>3
<1>4. CASE ~ (seats' = seats)
  <2> DEFINE more == WithSeat(p, q, at)
  <2>1. seats' = [seats EXCEPT ![p] = more] /\ q \notin DOMAIN seats[p]
    BY <1>4 DEF HandleJoin
  <2>2. DOMAIN more = {q} \cup DOMAIN seats[p]
    BY DEF WithSeat
  <2>3. more[q] = at /\ \A r \in DOMAIN seats[p] : more[r] = seats[p][r]
    BY <2>1 DEF WithSeat
  <2>4. more = [r \in DOMAIN more |-> more[r]]
    BY DEF WithSeat
  <2> HIDE DEF more
  <2>5. seats'[p] = more /\ \A s \in Peers \ {p} : seats'[s] = seats[s]
    BY <1>1, <2>1
  <2>6. StampedTable(p)
    OBVIOUS
  <2>7. \A r \in DOMAIN seats[p] : stamp'[r] = seats[p][r] /\ stamp'[r] # 0 /\ r \in Peers
    BY <2>6 DEF StampedTable
  <2>8. \A r \in DOMAIN more : more[r] = stamp'[r] /\ stamp'[r] # 0 /\ r \in Peers
    BY <2>2, <2>3, <2>7
  <2>9. more = [r \in DOMAIN more |-> stamp'[r]]
    BY <2>4, <2>8
  <2>10. StampedTable(p)'
    BY <2>5, <2>8, <2>9 DEF StampedTable
  <2> QED BY <1>2, <2>5, <2>10
<1> QED BY <1>3, <1>4

LEMMA StampsKept ==
  ASSUME OrderInv, UNCHANGED <<stamp, seats>>
  PROVE  \A s \in Peers : StampedTable(s)'
  BY DEF OrderInv, StampedTable

\* Whose seats are final and whose order is kept has taken it from its table.
LEMMA TakenKept ==
  ASSUME OrderInv, [Next]_vars, order' = order,
         \A s \in Peers : stage[s] = "seated" => stage'[s] = "seated"
  PROVE  TakenFromTable'
<1> SUFFICES ASSUME NEW s \in Peers, order[s] # << >>
             PROVE  stage'[s] = "seated" /\ order[s] = Seats(s)'
  BY DEF TakenFromTable
<1>1. stage[s] = "seated" /\ order[s] = Seats(s)
  BY DEF OrderInv, TakenFromTable
<1>2. seats'[s] = seats[s]
  BY <1>1, StepFinal DEF OrderInv, Left
<1>3. Seats(s)' = Seats(s)
  BY <1>2 DEF Seats, Place, Before, Count
<1> QED BY <1>1, <1>3

LEMMA JoinStampsOnce ==
  ASSUME LobbyAssumption, OrderInv, FullOnceLeft', NEW p \in Peers, [Next]_vars,
         Join(p) \/ Rejoin(p)
  PROVE  OrderInv'
<1>1. PICK now \in Clock[p] :
        LET at == JoinStamp(p, now)
        IN  /\ stamp' = [stamp EXCEPT ![p] = at]
            /\ seats' = HandleJoin(p, p, at)
            /\ mail' = mail \cup Publish(p, 1, at)
  BY DEF Join, Rejoin, BroadcastJoin
<1> DEFINE at == JoinStamp(p, now)
<1>2. now \in Nat /\ now # 0
  BY DEF LobbyAssumption
<1>3. /\ stamp' = [stamp EXCEPT ![p] = at] /\ seats' = HandleJoin(p, p, at)
      /\ mail' = mail \cup Publish(p, 1, at)
  BY <1>1
<1>4. stamp \in [Peers -> Nat]
  BY DEF OrderInv
<1>5. at \in Nat /\ at # 0 /\ (stamp[p] # 0 => at = stamp[p])
  BY <1>2, <1>4 DEF JoinStamp
<1> HIDE DEF at
<1>6. /\ stamp' \in [Peers -> Nat] /\ stamp'[p] = at
      /\ \A s \in Peers : stamp[s] # 0 => stamp'[s] = stamp[s]
  BY <1>3, <1>4, <1>5
<1>7. \A s \in Peers : StampedTable(s)'
  BY <1>3, <1>5, <1>6, HandleJoinStamped DEF OrderInv
<1>8. StampedMail'
  <2> SUFFICES ASSUME NEW m \in mail'
               PROVE  /\ m.by \in Peers /\ m.to \in Peers
                      /\ m.num = 1 => m.at = stamp'[m.by] /\ stamp'[m.by] # 0
    BY DEF StampedMail
  <2>1. CASE m \in mail
    <3>1. /\ m.by \in Peers /\ m.to \in Peers
          /\ m.num = 1 => m.at = stamp[m.by] /\ stamp[m.by] # 0
      BY <2>1 DEF OrderInv, StampedMail
    <3> QED BY <1>6, <3>1
  <2>2. CASE m \in Publish(p, 1, at)
    <3>1. PICK q \in mesh \ {p} : m = NewEnvelope(p, 1, at, q)
      BY <2>2 DEF Publish
    <3>2. q \in Peers
      BY DEF OrderInv
    <3>3. m.by = p /\ m.to = q /\ m.at = at
      BY <3>1 DEF NewEnvelope
    <3> QED BY <1>5, <1>6, <3>2, <3>3
  <2> QED BY <1>3, <2>1, <2>2
<1>9. TakenFromTable'
  <2>1. order' = order /\ \A s \in Peers : stage[s] = "seated" => stage'[s] = "seated"
    BY DEF Join, Rejoin, OrderInv, FullOnceLeft
  <2> QED BY <2>1, TakenKept
<1>10. order' = order /\ mesh' = mesh
  BY DEF Join, Rejoin
<1> QED BY <1>6, <1>7, <1>8, <1>9, <1>10 DEF OrderInv

LEMMA ReceiveOrdered ==
  ASSUME OrderInv, FullOnceLeft', [Next]_vars, NEW m \in mail, Receive(m)
  PROVE  OrderInv'
<1>1. /\ UNCHANGED <<mesh, stamp, stage, order>> /\ mail' \subseteq mail
      /\ seats' = seats \/ (m.num = 1 /\ seats' = HandleJoin(m.to, m.by, m.at))
  BY DEF Receive, Dispatch
<1>2. /\ m.by \in Peers /\ m.to \in Peers
      /\ m.num = 1 => m.at = stamp[m.by] /\ stamp[m.by] # 0
  BY DEF OrderInv, StampedMail
<1>3. \A s \in Peers : StampedTable(s)'
  <2>1. CASE seats' = seats
    BY <1>1, <2>1, StampsKept
  <2>2. CASE m.num = 1 /\ seats' = HandleJoin(m.to, m.by, m.at)
    <3>1. /\ DOMAIN stamp' = Peers /\ stamp'[m.by] = m.at /\ m.at # 0
          /\ \A s \in Peers : stamp[s] # 0 => stamp'[s] = stamp[s]
      BY <1>1, <1>2, <2>2 DEF OrderInv
    <3>2. FullOnceLeft /\ \A s \in Peers : StampedTable(s)
      BY DEF OrderInv
    <3> QED BY <1>2, <2>2, <3>1, <3>2, HandleJoinStamped
  <2> QED BY <1>1, <2>1, <2>2
<1>4. StampedMail'
  BY <1>1 DEF OrderInv, StampedMail
<1>5. TakenFromTable'
  BY <1>1, TakenKept
<1> QED BY <1>1, <1>3, <1>4, <1>5 DEF OrderInv

\* Steps that touch neither stamps nor seats nor the order played in
LEMMA QuietOrdered ==
  ASSUME OrderInv, FullOnceLeft', [Next]_vars, UNCHANGED <<stamp, seats, order>>,
         mesh' \subseteq Peers, StampedMail',
         \A s \in Peers : stage[s] = "seated" => stage'[s] = "seated"
  PROVE  OrderInv'
<1>1. TakenFromTable'
  BY TakenKept
<1>2. \A s \in Peers : StampedTable(s)'
  BY StampsKept
<1> QED BY <1>1, <1>2 DEF OrderInv

LEMMA StartOrdered ==
  ASSUME OrderInv, FullOnceLeft', [Next]_vars, NEW p \in Peers,
         Start(p) \/ Graft(p) \/ NextHand(p)
  PROVE  OrderInv'
<1>1. UNCHANGED <<stamp, seats, order, mail>> /\ mesh' \subseteq Peers
  BY DEF Start, Graft, NextHand, OrderInv
<1>2. \A s \in Peers : stage[s] = "seated" => stage'[s] = "seated"
  BY DEF Start, Graft, NextHand, OrderInv, FullOnceLeft
<1>3. StampedMail'
  BY <1>1 DEF OrderInv, StampedMail
<1> QED BY <1>1, <1>2, <1>3, QuietOrdered

LEMMA LeaveOrdered ==
  ASSUME OrderInv, FullOnceLeft', [Next]_vars, NEW p \in Peers, Leave(p)
  PROVE  OrderInv'
<1>1. UNCHANGED <<stamp, seats, order, mesh>> /\ mail' = mail \cup Publish(p, 2, 0)
  BY DEF Leave
<1>2. \A s \in Peers : stage[s] = "seated" => stage'[s] = "seated"
  BY DEF Leave, OrderInv, FullOnceLeft
<1>3. StampedMail'
  <2> SUFFICES ASSUME NEW m \in mail'
               PROVE  /\ m.by \in Peers /\ m.to \in Peers
                      /\ m.num = 1 => m.at = stamp[m.by] /\ stamp[m.by] # 0
    BY <1>1 DEF StampedMail
  <2>1. CASE m \in mail
    BY <2>1 DEF OrderInv, StampedMail
  <2>2. CASE m \in Publish(p, 2, 0)
    <3>1. PICK q \in mesh \ {p} : m = NewEnvelope(p, 2, 0, q)
      BY <2>2 DEF Publish
    <3>2. q \in Peers
      BY DEF OrderInv
    <3> QED BY <3>1, <3>2 DEF NewEnvelope
  <2> QED BY <1>1, <2>1, <2>2
<1>4. mesh' \subseteq Peers
  BY <1>1 DEF OrderInv
<1> QED BY <1>1, <1>2, <1>3, <1>4, QuietOrdered

LEMMA TakeSeatsOrdered ==
  ASSUME OrderInv, FullOnceLeft', [Next]_vars, NEW p \in Peers, TakeSeats(p)
  PROVE  OrderInv'
<1>1. UNCHANGED <<stamp, seats, mail>> /\ stage[p] = "pausing" /\ mesh' \subseteq Peers
  BY DEF TakeSeats, OrderInv
<1>2. DOMAIN stage = Peers /\ DOMAIN order = Peers
  BY DEF OrderInv, FullOnceLeft
<1>3. StampedMail'
  BY <1>1 DEF OrderInv, StampedMail
<1>4. CASE order' = order
  <2>1. \A s \in Peers : stage[s] = "seated" => stage'[s] = "seated"
    BY <1>1, <1>2 DEF TakeSeats
  <2> QED BY <1>1, <1>3, <1>4, <2>1, QuietOrdered
<1>5. CASE stage' = [stage EXCEPT ![p] = "seated"] /\ order' = [order EXCEPT ![p] = Seats(p)]
  <2>1. \A s \in Peers : Seats(s)' = Seats(s)
    BY <1>1 DEF Seats, Place, Before, Count
  <2>2. ASSUME NEW s \in Peers, order'[s] # << >>
        PROVE  stage'[s] = "seated" /\ order'[s] = Seats(s)
    <3>1. CASE s = p
      BY <1>2, <1>5, <3>1
    <3>2. CASE s # p
      <4>1. order'[s] = order[s] /\ stage'[s] = stage[s]
        BY <1>2, <1>5, <3>2
      <4> QED BY <2>2, <4>1 DEF OrderInv, TakenFromTable
    <3> QED BY <3>1, <3>2
  <2>3. TakenFromTable'
    BY <2>1, <2>2 DEF TakenFromTable
  <2>4. \A s \in Peers : StampedTable(s)'
    BY <1>1, StampsKept
  <2>5. DOMAIN order' = Peers
    BY <1>2, <1>5
  <2> QED BY <1>1, <1>3, <2>3, <2>4, <2>5 DEF OrderInv
<1> QED BY <1>4, <1>5 DEF TakeSeats

LEMMA OrderInit == Init => OrderInv
<1> SUFFICES ASSUME Init PROVE OrderInv
  OBVIOUS
<1>1. ASSUME NEW p \in Peers PROVE StampedTable(p)
  <2>1. seats[p] = << >>
    BY DEF Init
  <2>2. DOMAIN seats[p] = {}
    BY <2>1
  <2>3. seats[p] = [q \in DOMAIN seats[p] |-> stamp[q]]
    BY <2>1, <2>2
  <2> QED BY <2>2, <2>3 DEF StampedTable
<1> QED BY <1>1, InitFull DEF Init, OrderInv, StampedMail, TakenFromTable

LEMMA OrderStep == OrderInv /\ [Next]_vars => OrderInv'
<1> SUFFICES ASSUME OrderInv, [Next]_vars PROVE OrderInv'
  OBVIOUS
<1>1. FullOnceLeft'
  BY StepFinal DEF OrderInv
<1>2. ASSUME NEW p \in Peers,
             \/ Start(p) \/ Graft(p) \/ Join(p) \/ Rejoin(p) \/ Leave(p) \/ TakeSeats(p)
             \/ NextHand(p)
      PROVE  OrderInv'
  BY <1>1, <1>2, LobbyAssumption, StartOrdered, JoinStampsOnce, LeaveOrdered, TakeSeatsOrdered
<1>3. ASSUME NEW m \in mail, Receive(m) PROVE OrderInv'
  BY <1>1, <1>3, ReceiveOrdered
<1>4. CASE UNCHANGED vars
  <2>1. UNCHANGED <<stamp, seats, order, mail, mesh, stage>>
    BY <1>4 DEF vars
  <2>2. StampedMail' /\ mesh' \subseteq Peers
    BY <2>1 DEF OrderInv, StampedMail
  <2> QED BY <1>1, <2>1, <2>2, QuietOrdered
<1> QED BY <1>2, <1>3, <1>4 DEF Next

LEMMA OrderInvariance == Spec => []OrderInv
  BY OrderInit, OrderStep, PTL DEF Spec

\* Two peers that sit down to play with the same peers play in the same order:
\* each table holds the stamp of every peer's first JOIN, so equal players mean
\* equal tables (Lobby.Seats, Node.joinTimestamp).
THEOREM SameOrderTheorem == Spec => []SameOrder
<1>1. OrderInv => SameOrder
  <2> SUFFICES ASSUME OrderInv, NEW p \in Peers, NEW q \in Peers,
                      SeatsTaken(p), SeatsTaken(q), ToSet(order[p]) = ToSet(order[q])
               PROVE  order[p] = order[q]
    BY DEF SameOrder
  <2>1. order[p] # << >> /\ order[q] # << >>
    BY DEF SeatsTaken
  <2>2. order[p] = Seats(p) /\ order[q] = Seats(q)
    BY <2>1 DEF OrderInv, TakenFromTable
  <2>3. /\ StampedTable(p) /\ StampedTable(q) /\ stamp \in [Peers -> Nat]
    BY DEF OrderInv
  <2>4. DOMAIN seats[p] = DOMAIN seats[q]
    BY <2>2, <2>3, SeatsListsAll, LobbyAssumption
  <2>5. seats[p] = seats[q]
    BY <2>3, <2>4 DEF StampedTable
  <2>6. Seats(p) = Seats(q)
    BY <2>5 DEF Seats, Place, Before, Count
  <2> QED BY <2>2, <2>6
<1> QED BY <1>1, OrderInvariance, PTL
=============================================================================
