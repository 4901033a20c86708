------------------------------- MODULE Lobby -------------------------------
(***************************************************************************)
(* How a table fills: every peer's Node and Lobby (internal/network) and   *)
(* the wait loop of runP2PMode (cmd/poker/main.go), up to the seat order   *)
(* the hands are played in, and the Reset each later hand begins with.     *)
(*                                                                         *)
(* A peer's envelopes carry the numbers of Node.nextSeq. A repeated JOIN   *)
(* differs from the first one in its number only, and a subscriber that    *)
(* took one will refuse the next, for the peer has a seat or the lobby is  *)
(* full. So all JOINs of a peer have the number 1 here and its READY the   *)
(* number 2, and a JOIN goes to the subscribers that took none. Every      *)
(* buy-in is positive (Config.Validate), all peers deal cryptographically. *)
(* Envelopes may overtake one another; one that was sent to a subscriber   *)
(* is not lost.                                                            *)
(***************************************************************************)
EXTENDS Naturals, FiniteSets, SequencesExt

CONSTANTS Peers,       \* peer IDs, in their order as strings
          TableSizes,  \* values of Game.MaxSeats, the same for all
          Clock        \* bound: Clock[p] is what the clock of p may show

ASSUME LobbyAssumption ==
  /\ Peers \subseteq Nat /\ IsFiniteSet(Peers)
  /\ TableSizes \subseteq Nat \ {0, 1}
  /\ Clock \in [Peers -> SUBSET (Nat \ {0})]

VARIABLES
  maxSeats,  \* cfg.Game.MaxSeats
  mesh,      \* peers that are connected and know of each other's subscription
  stage,     \* stage[p]: where runP2PMode of p is
  stamp,     \* stamp[p]: Node.joinTimestamp, 0 before the first JOIN
  seats,     \* seats[p]: Lobby.seats, peer ID to JoinedAtUnixMs
  ready,     \* ready[p]: peers whose seat IsReady
  state,     \* state[p]: Lobby.state
  last,      \* last[p][q]: GossipManager.seqNums, 0 for none
  mail,      \* envelopes on their way to a subscriber
  order      \* order[p]: the players as p plays with them

vars == <<maxSeats, mesh, stage, stamp, seats, ready, state, last, mail, order>>

\* The copy of an envelope of p for q
NewEnvelope(p, num, at, q) == [by |-> p, num |-> num, at |-> at, to |-> q]

Count(p) == Cardinality(DOMAIN seats[p])

\* The copies of an envelope of p: only who is in the mesh by then gets one.
Publish(p, num, at) ==
  {NewEnvelope(p, num, at, q) : q \in {q \in mesh \ {p} : p \in mesh /\ last[q][p] < num}}

-----------------------------------------------------------------------------
Init ==
  /\ maxSeats \in TableSizes
  /\ mesh = {} /\ mail = {}
  /\ stage = [p \in Peers |-> "off"]
  /\ stamp = [p \in Peers |-> 0]
  /\ seats = [p \in Peers |-> << >>]
  /\ ready = [p \in Peers |-> {}]
  /\ state = [p \in Peers |-> "waiting"]
  /\ last = [p \in Peers |-> [q \in Peers |-> 0]]
  /\ order = [p \in Peers |-> << >>]

\* NewNode subscribes, Start runs the receive loop.
Start(p) ==
  /\ stage[p] = "off"
  /\ stage' = [stage EXCEPT ![p] = "listening"]
  /\ UNCHANGED <<maxSeats, mesh, stamp, seats, ready, state, last, mail, order>>

\* mDNS finds the peer and GossipSub grafts it.
Graft(p) ==
  /\ stage[p] \notin {"off", "stopped"}
  /\ p \notin mesh
  /\ mesh' = mesh \cup {p}
  /\ UNCHANGED <<maxSeats, stage, stamp, seats, ready, state, last, mail, order>>

\* The table of p once q has a seat at it
WithSeat(p, q, at) ==
  [r \in DOMAIN seats[p] \cup {q} |-> IF r = q THEN at ELSE seats[p][r]]

\* Mutant: the number of seats is not looked at.
HandleJoinAlways(p, q, at) ==
  IF state[p] # "waiting" \/ q \in DOMAIN seats[p]
  THEN seats
  ELSE [seats EXCEPT ![p] = WithSeat(p, q, at)]

\* HandleJoin at p of a JOIN of q
HandleJoin(p, q, at) ==
  IF \/ state[p] # "waiting"
     \/ Count(p) >= maxSeats
     \/ q \in DOMAIN seats[p]
  THEN seats
  ELSE [seats EXCEPT ![p] = WithSeat(p, q, at)]

\* HandleReady and checkAllReady at p, on the READY of q
HandleReady(p, q) ==
  LET now == ready[p] \cup {q}
  IN  IF q \notin DOMAIN seats[p] THEN UNCHANGED <<ready, state>>
      ELSE /\ ready' = [ready EXCEPT ![p] = now]
           /\ state' = [state EXCEPT ![p] =
                IF Count(p) >= maxSeats /\ now = DOMAIN seats[p] /\ @ = "waiting"
                THEN "ready" ELSE @]

\* Mutant: every JOIN is stamped with the time it is sent at.
JoinStampNow(p, now) == now

\* joinTimestamp of p when it publishes a JOIN at the time now
JoinStamp(p, now) == IF stamp[p] = 0 THEN now ELSE stamp[p]

BroadcastJoin(p) ==
  \E now \in Clock[p] :
    LET at == JoinStamp(p, now)
    IN  /\ stamp' = [stamp EXCEPT ![p] = at]
        /\ seats' = HandleJoin(p, p, at)
        /\ mail' = mail \cup Publish(p, 1, at)

Join(p) ==
  /\ stage[p] = "listening"
  /\ stage' = [stage EXCEPT ![p] = "waiting"]
  /\ BroadcastJoin(p)
  /\ UNCHANGED <<maxSeats, mesh, ready, state, last, order>>

\* Mutant: a peer repeats its JOIN only while it is alone.
StillWaitsAlone(p) == Count(p) = 1

\* What joinRepeat and pollTick look at
StillWaits(p) == Count(p) < maxSeats

\* joinRepeat of the wait loop
Rejoin(p) ==
  /\ stage[p] = "waiting"
  /\ StillWaits(p)
  /\ BroadcastJoin(p)
  /\ UNCHANGED <<maxSeats, mesh, stage, ready, state, last, order>>

\* The table is full: the wait loop ends and BroadcastReady runs.
Leave(p) ==
  /\ stage[p] = "waiting"
  /\ Count(p) >= maxSeats
  /\ stage' = [stage EXCEPT ![p] = "pausing"]
  /\ HandleReady(p, p)
  /\ mail' = mail \cup Publish(p, 2, 0)
  /\ UNCHANGED <<maxSeats, mesh, stamp, seats, last, order>>

\* How Lobby.Seats of p compares two seats
Before(p, q, r) == \/ seats[p][q] < seats[p][r]
                   \/ seats[p][q] = seats[p][r] /\ q < r

\* The place of q: after the seats that come before its own
Place(p, q) == Cardinality({r \in DOMAIN seats[p] : Before(p, r, q)}) + 1

\* Lobby.Seats
Seats(p) == [i \in 1 .. Count(p) |-> CHOOSE q \in DOMAIN seats[p] : Place(p, q) = i]

\* The exponents in seat order. A peer draws its key once, before it joins, so
\* the peer names its exponent.
PublicExponents(p) == Seats(p)

\* NewKeyring at p goes through: two seats or more, none of them twice, one of
\* them its own, and an exponent for each and for nobody else.
NewKeyring(p, exponents, seatOrder) ==
  /\ Len(seatOrder) >= 2
  /\ IsInjective(seatOrder)
  /\ p \in ToSet(seatOrder)
  /\ ToSet(exponents) = ToSet(seatOrder)

\* It fails at a peer without a seat at its own lobby.
KeyringFromLobby(p) == NewKeyring(p, PublicExponents(p), Seats(p))

\* After the pause: players, nonce and keyring are taken from the lobby.
TakeSeats(p) ==
  /\ stage[p] = "pausing"
  /\ IF KeyringFromLobby(p)
     THEN /\ stage' = [stage EXCEPT ![p] = "seated"]
          /\ order' = [order EXCEPT ![p] = Seats(p)]
          /\ UNCHANGED mesh
     ELSE /\ stage' = [stage EXCEPT ![p] = "stopped"]
          /\ mesh' = mesh \ {p}
          /\ UNCHANGED order
  /\ UNCHANGED <<maxSeats, stamp, seats, ready, state, last, mail>>

\* startNextHand: Reset keeps the seats and their IsReady.
NextHand(p) ==
  /\ stage[p] = "seated"
  /\ state' = [state EXCEPT ![p] = "waiting"]
  /\ UNCHANGED <<maxSeats, mesh, stage, stamp, seats, ready, last, mail, order>>

\* dispatch, once CheckAndUpdateSeq has taken the number
Dispatch(m) ==
  /\ last' = [last EXCEPT ![m.to][m.by] = m.num]
  /\ IF m.num = 1
     THEN seats' = HandleJoin(m.to, m.by, m.at) /\ UNCHANGED <<ready, state>>
     ELSE HandleReady(m.to, m.by) /\ UNCHANGED seats

\* The receive loop. A number that is not above the last one is dropped.
Receive(m) ==
  /\ m \in mail
  /\ stage[m.to] # "off"
  /\ mail' = mail \ {m}
  /\ IF m.num > last[m.to][m.by] /\ stage[m.to] # "stopped"
     THEN Dispatch(m)
     ELSE UNCHANGED <<seats, ready, state, last>>
  /\ UNCHANGED <<maxSeats, mesh, stage, stamp, order>>

Next ==
  \/ \E p \in Peers :
       Start(p) \/ Graft(p) \/ Join(p) \/ Rejoin(p) \/ Leave(p) \/ TakeSeats(p) \/ NextHand(p)
  \/ \E m \in mail : Receive(m)

\* Peers are started, found in the end and go through the wait loop, what was
\* sent arrives, and tickers tick. All but the last of these happens to a peer
\* a bounded number of times, so that it is enough if it happens to one.
Fairness ==
  /\ WF_vars(\E p \in Peers : Start(p) \/ Join(p) \/ Leave(p) \/ TakeSeats(p))
  /\ WF_vars(\E p \in Peers : Graft(p))
  /\ WF_vars(\E m \in mail : Receive(m))
  /\ \A p \in Peers : WF_vars(Rejoin(p))

Spec == Init /\ [][Next]_vars

FairSpec == Spec /\ Fairness

-----------------------------------------------------------------------------
SeatsTaken(p) == Len(order[p]) > 0

\* Two peers that sit down to play with the same peers have them in the same
\* order, whatever each has heard first (Lobby.Seats, Node.joinTimestamp).
SameOrder ==
  \A p, q \in Peers :
    SeatsTaken(p) /\ SeatsTaken(q) /\ ToSet(order[p]) = ToSet(order[q])
      => order[p] = order[q]

\* Once a peer has left the wait loop its seats are final, though Reset opens
\* the lobby again and surplus peers still shout (HandleJoin, Reset).
TableStaysClosed ==
  [][\A p \in Peers :
       stage[p] \in {"pausing", "seated", "stopped"} => seats'[p] = seats[p]]_vars

Left(p) == stage[p] \in {"pausing", "seated", "stopped"}

\* A peer has left the wait loop and p has not heard it: it repeats nothing.
Missed(p) == \E q \in Peers : Left(q) /\ q \notin DOMAIN seats[p]

\* Every peer gets past the wait loop, unless one it has not heard left first.
EveryoneLeavesOrMissed == <>(\A p \in Peers : Left(p) \/ Missed(p))
=============================================================================
