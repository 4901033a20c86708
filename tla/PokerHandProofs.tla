-------------------------- MODULE PokerHandProofs --------------------------
(***************************************************************************)
(* The betting engine, for every table size, stack, blind and raise: type  *)
(* correctness, the chip ledger, the turn order, the streets, the          *)
(* showdowns and where the chips of a hand go.                             *)
(*                                                                         *)
(* bettingRoundComplete counts actions and looks at one seat only. That it *)
(* never leaves a seat owing chips rests on the order of the table: the    *)
(* seats that owe are always the next ones to act.                         *)
(*                                                                         *)
(* The pots are sums over the seats of slices; that the slices a seat is   *)
(* in add up to its own stake is an induction over the levels of the       *)
(* stakes. That every slice finds a winner rests on the betting: somebody  *)
(* who is left in the hand has always put in as much as anybody.           *)
(***************************************************************************)
EXTENDS PokerHand, SeatingLemmas, FiniteSetTheorems

Table == [Seats -> PlayerState]

LEMMA SeatsFinite == IsFiniteSet(Seats) /\ \A S \in SUBSET Seats : IsFiniteSet(S)
<1>1. 0 \in Int /\ N - 1 \in Int
  BY SeatingAssumption
<1>2. IsFiniteSet(Seats)
  BY <1>1, FS_Interval DEF Seats
<1> QED BY <1>2, FS_Subset

LEMMA CardinalityOfSeats ==
  ASSUME NEW S \in SUBSET Seats
  PROVE  Cardinality(S) \in Nat /\ (S # {} => Cardinality(S) > 0)
                                /\ (S = {} => Cardinality(S) = 0)
  BY SeatsFinite, FS_CardinalityType, FS_EmptySet

LEMMA NatOperations ==
  ASSUME NEW a \in Nat, NEW b \in Nat
  PROVE  a * b \in Nat /\ (b > 0 => a \div b \in Nat /\ a % b \in Nat)
  OBVIOUS

-----------------------------------------------------------------------------
(* The pots pay natural amounts *)

LEMMA AmountNat ==
  ASSUME NEW ps \in Table, NEW q \in Seats
  PROVE  Amount(ps, q) \in Nat
<1> DEFINE below == {r \in Seats : ps[r].total < ps[q].total}
           gaps == {ps[q].total - ps[r].total : r \in below}
<1>1. LevelBelow(ps, q) \in Nat /\ LevelBelow(ps, q) <= ps[q].total
  <2>1. CASE below = {}
    BY <2>1 DEF LevelBelow, Table, PlayerState
  <2>2. CASE below # {}
    <3>1. gaps \in SUBSET Nat /\ gaps # {}
      BY <2>2 DEF Table, PlayerState
    <3>2. Least(gaps) \in gaps
      BY <3>1, LeastExists
    <3>3. LevelBelow(ps, q) = ps[q].total - Least(gaps)
      BY <2>2 DEF LevelBelow
    <3>4. PICK r \in below : Least(gaps) = ps[q].total - ps[r].total
      BY <3>2
    <3> QED BY <3>3, <3>4 DEF Table, PlayerState
  <2> QED BY <2>1, <2>2
<1>2. ps[q].total - LevelBelow(ps, q) \in Nat
  BY <1>1 DEF Table, PlayerState
<1>3. Cardinality(Eligible(ps, q)) \in Nat
  BY CardinalityOfSeats DEF Eligible
<1> QED BY <1>2, <1>3, NatOperations DEF Amount

LEMMA TotalPotNat ==
  ASSUME NEW ps \in Table
  PROVE  TotalPot(ps) \in Nat
  BY AmountNat, SumOverNat DEF TotalPot

LEMMA WinningsNat ==
  ASSUME NEW ps \in Table, NEW rank, NEW d
  PROVE  Winnings(ps, rank, d) \in [Seats -> Nat]
<1>1. ASSUME NEW q \in Seats, NEW s \in Seats
      PROVE  Share(ps, rank, d, q, s) \in Nat
  <2> DEFINE winners == Winners(ps, rank, q)
             n == Cardinality(winners)
  <2>1. winners \in SUBSET Seats
    BY DEF Winners, Eligible
  <2>2. CASE s \in winners
    <3>1. n \in Nat /\ n > 0
      BY <2>1, <2>2, CardinalityOfSeats
    <3>2. Amount(ps, q) \div n \in Nat /\ Amount(ps, q) % n \in Nat
      BY <3>1, AmountNat, NatOperations
    <3> QED BY <2>2, <3>2 DEF Share
  <2>3. CASE s \notin winners
    BY <2>3 DEF Share
  <2> QED BY <2>2, <2>3
<1>2. \A s \in Seats : SumOver([q \in Seats |-> Share(ps, rank, d, q, s)]) \in Nat
  BY <1>1, SumOverNat
<1> QED BY <1>2 DEF Winnings

-----------------------------------------------------------------------------
(* The invariant *)

\* A table in balance with its round: chips are accounted for, what a seat bet
\* this round is part of what it bet this hand, and nobody who can still act
\* has bet more than the table bet (so the amount to call is never negative).
Balanced(ps, r) ==
  /\ ps \in Table
  /\ r \in RoundState
  /\ \A s \in Seats : /\ ps[s].stack + ps[s].total = entry[s] + payouts[s]
                      /\ ps[s].bet <= ps[s].total
                      /\ ps[s].status = "Active" => ps[s].bet <= r.bet

\* Before the blinds nothing is bet.
NothingBet == phase = "Waiting" => \A s \in Seats : player[s].bet = 0

IInv == TypeOK /\ Balanced(player, round) /\ ActorCanAct /\ NothingBet

LEMMA PlaceBetKeeps ==
  ASSUME NEW ps \in Table, NEW s \in Seats, NEW amount \in Nat
  PROVE  /\ PlaceBet(ps, s, amount) \in Table
         /\ \A t \in Seats \ {s} : PlaceBet(ps, s, amount)[t] = ps[t]
         /\ LET p == ps[s]
                q == PlaceBet(ps, s, amount)[s]
            IN  /\ q.stack + q.total = p.stack + p.total
                /\ q.bet - p.bet = q.total - p.total
                /\ q.bet >= p.bet
                /\ q.status = "AllIn" \/ (q.status = p.status /\ q.bet = p.bet + amount)
  BY DEF Table, PlayerState, PlaceBet, Statuses

LEMMA NextActiveFinds ==
  ASSUME NEW ps, NEW from \in Seats
  PROVE  IF CanAct(ps) = {} THEN NextActive(ps, from) = -1
                            ELSE NextActive(ps, from) \in CanAct(ps)
  BY FirstAfterFinds DEF NextActive, CanAct

-----------------------------------------------------------------------------
(* Ways a call ends *)

\* What every call of the engine leaves alone while a hand is played.
SameHand == UNCHANGED <<hand, dealer, entry>>

LEMMA PayKeeps ==
  ASSUME TypeOK, SameHand,
         NEW ps, NEW r, Balanced(ps, r),
         NEW won \in [Seats -> Nat],
         phase' = "Settled", player' = Pay(ps, won), round' = r,
         payouts' = [s \in Seats |-> payouts[s] + won[s]],
         board' \in {0, 3, 4, 5}, known' \subseteq Seats
  PROVE  IInv'
<1>1. player' \in Table /\ payouts' \in [Seats -> Nat]
  BY DEF Pay, Balanced, Table, PlayerState, TypeOK
<1>2. ASSUME NEW s \in Seats
      PROVE  /\ player'[s].stack + player'[s].total = entry'[s] + payouts'[s]
             /\ player'[s].bet <= player'[s].total
             /\ player'[s].status = "Active" => player'[s].bet <= r.bet
  <2>1. /\ player'[s].stack = ps[s].stack + won[s]
        /\ player'[s].bet = ps[s].bet
        /\ player'[s].total = ps[s].total
        /\ player'[s].status = ps[s].status
    BY DEF Pay, Balanced, Table, PlayerState
  <2>2. payouts'[s] = payouts[s] + won[s] /\ entry'[s] = entry[s]
    BY DEF SameHand
  <2>3. /\ ps[s].stack \in Nat /\ ps[s].total \in Nat /\ won[s] \in Nat
        /\ entry[s] \in Nat /\ payouts[s] \in Nat
    BY DEF Balanced, Table, PlayerState, TypeOK
  <2> QED BY <2>1, <2>2, <2>3 DEF Balanced
<1>3. TypeOK'
  BY <1>1 DEF TypeOK, SameHand, Phases, Balanced, Table
<1>4. Balanced(player, round)'
  BY <1>1, <1>2 DEF Balanced
<1>5. ActorCanAct' /\ NothingBet'
  BY DEF ActorCanAct, NothingBet, BettingPhases
<1> QED BY <1>3, <1>4, <1>5 DEF IInv

\* A call that ends outside the betting phases without paying.
LEMMA WaitKeeps ==
  ASSUME TypeOK, SameHand,
         NEW ps, NEW r, Balanced(ps, r),
         phase' \in {"AwaitingStreet", "Showdown"}, player' = ps, round' = r,
         payouts' = payouts, board' \in {0, 3, 4, 5}, known' \subseteq Seats
  PROVE  IInv'
<1>1. TypeOK'
  BY DEF TypeOK, SameHand, Balanced, Table, Phases
<1>2. Balanced(player, round)'
  BY DEF Balanced, SameHand
<1>3. ActorCanAct' /\ NothingBet'
  BY DEF ActorCanAct, NothingBet, BettingPhases
<1> QED BY <1>1, <1>2, <1>3 DEF IInv

\* A call that leaves somebody to act.
LEMMA PlayOnKeeps ==
  ASSUME TypeOK, SameHand,
         NEW ps, NEW r, Balanced(ps, r), r.actionIdx \in CanAct(ps),
         phase' \in BettingPhases, player' = ps, round' = r,
         payouts' = payouts, board' \in {0, 3, 4, 5}, known' \subseteq Seats
  PROVE  IInv'
<1>1. TypeOK'
  BY DEF TypeOK, SameHand, Balanced, Table, Phases
<1>2. Balanced(player, round)'
  BY DEF Balanced, SameHand
<1>3. ActorCanAct' /\ NothingBet'
  BY DEF ActorCanAct, NothingBet, CanAct, BettingPhases
<1> QED BY <1>1, <1>2, <1>3 DEF IInv

LEMMA StartShowdownKeeps ==
  ASSUME TypeOK, SameHand,
         NEW ps, NEW r, Balanced(ps, r), NEW bd \in {0, 3, 4, 5},
         StartShowdown(ps, r, bd)
  PROVE  IInv'
<1>1. CASE DistributePots(ps)
  <2>1. PICK rank \in [InHand(ps) -> 1 .. N] :
          /\ phase' = "Settled"
          /\ player' = Pay(ps, Winnings(ps, rank, dealer))
          /\ payouts' = [s \in Seats |-> payouts[s] + Winnings(ps, rank, dealer)[s]]
    BY <1>1 DEF DistributePots
  <2>2. Winnings(ps, rank, dealer) \in [Seats -> Nat]
    BY WinningsNat DEF Balanced
  <2> QED BY <2>1, <2>2, PayKeeps DEF StartShowdown, TypeOK
<1>2. CASE phase' = "Showdown" /\ player' = ps /\ payouts' = payouts
  BY <1>2, WaitKeeps DEF StartShowdown, TypeOK, Phases, BettingPhases
<1> QED BY <1>1, <1>2 DEF StartShowdown

LEMMA ResolveSingleWinnerKeeps ==
  ASSUME TypeOK, SameHand,
         NEW ps, NEW r, Balanced(ps, r), ResolveSingleWinner(ps, r)
  PROVE  IInv'
<1> DEFINE won == [s \in Seats |-> IF s \in InHand(ps) THEN TotalPot(ps) ELSE 0]
<1>1. won \in [Seats -> Nat]
  BY TotalPotNat DEF Balanced
<1>2. /\ phase' = "Settled" /\ player' = Pay(ps, won) /\ round' = r
      /\ payouts' = [s \in Seats |-> payouts[s] + won[s]]
      /\ board' \in {0, 3, 4, 5} /\ known' \subseteq Seats
  BY DEF ResolveSingleWinner, TypeOK
<1> HIDE DEF won
<1> QED BY <1>1, <1>2, PayKeeps

-----------------------------------------------------------------------------
(* Closing a betting round *)

LEMMA NewRoundBalanced ==
  ASSUME TypeOK, NEW ps, NEW r, Balanced(ps, r)
  PROVE  LET qs == ResetForNewRound(ps)
         IN  /\ Balanced(qs, NewRound(qs, r))
             /\ CanAct(qs) # {} => NewRound(qs, r).actionIdx \in CanAct(qs)
<1> DEFINE qs == ResetForNewRound(ps)
           nr == NewRound(qs, r)
<1>1. qs \in Table
  BY DEF ResetForNewRound, Balanced, Table, PlayerState
<1>2. \A s \in Seats : /\ qs[s].stack = ps[s].stack /\ qs[s].total = ps[s].total
                       /\ qs[s].status = ps[s].status
                       /\ qs[s].bet = IF ps[s].status # "Folded" THEN 0 ELSE ps[s].bet
  BY DEF ResetForNewRound, InHand, Balanced, Table, PlayerState
<1>3. IF CanAct(qs) = {} THEN NextActive(qs, dealer) = -1
                         ELSE NextActive(qs, dealer) \in CanAct(qs)
  BY NextActiveFinds DEF TypeOK
<1>4. r.actionIdx \in Seats \cup {-1} /\ BigBlind \in Nat
  BY PokerAssumption DEF Balanced, RoundState
<1>5. nr \in RoundState
  BY <1>3, <1>4 DEF NewRound, RoundState, CanAct
<1>6. nr.bet = 0
  BY DEF NewRound
<1>7. CanAct(qs) # {} => nr.actionIdx \in CanAct(qs)
  BY <1>3, SeatingAssumption DEF NewRound, CanAct, Seats
<1>8. ASSUME NEW s \in Seats
      PROVE  /\ qs[s].stack + qs[s].total = entry[s] + payouts[s]
             /\ qs[s].bet <= qs[s].total
             /\ qs[s].status = "Active" => qs[s].bet <= nr.bet
  <2>1. ps[s].bet \in Nat /\ ps[s].total \in Nat
    BY DEF Balanced, Table, PlayerState
  <2> QED BY <1>2, <1>6, <2>1 DEF Balanced
<1> QED BY <1>1, <1>5, <1>7, <1>8 DEF Balanced

LEMMA EndBettingRoundKeeps ==
  ASSUME TypeOK, SameHand,
         NEW ps, NEW r, Balanced(ps, r),
         NEW ph \in BettingPhases, NEW bd \in {0, 3, 4, 5},
         EndBettingRound(ps, r, ph, bd)
  PROVE  IInv'
<1>1. CASE ph = "River" /\ StartShowdown(ps, r, bd)
  BY <1>1, StartShowdownKeeps
<1>2. CASE ph # "River" /\ DealStreet(ps, r, ph)
  <2> DEFINE qs == ResetForNewRound(ps)
             nr == NewRound(qs, r)
             np == NextPhase(ph)
  <2>1. np \in {"Flop", "Turn", "River"} /\ BoardAt(np) \in {0, 3, 4, 5}
    BY <1>2 DEF BettingPhases, NextPhase, BoardAt
  <2>2. Balanced(qs, nr) /\ (CanAct(qs) # {} => nr.actionIdx \in CanAct(qs))
    BY NewRoundBalanced
  <2>3. \/ /\ Cardinality(CanAct(qs)) >= 2
           /\ phase' = np /\ board' = BoardAt(np) /\ player' = qs /\ round' = nr
           /\ UNCHANGED <<known, payouts>>
        \/ StartShowdown(qs, nr, 5)
        \/ StartShowdown(qs, nr, BoardAt(np))
    BY <1>2 DEF DealStreet
  <2> HIDE DEF qs, nr, np
  <2>4. CASE /\ Cardinality(CanAct(qs)) >= 2
             /\ phase' = np /\ board' = BoardAt(np) /\ player' = qs /\ round' = nr
             /\ UNCHANGED <<known, payouts>>
    <3>1. CanAct(qs) # {}
      BY <2>4, CardinalityOfSeats DEF CanAct
    <3> QED BY <2>1, <2>2, <2>4, <3>1, PlayOnKeeps DEF TypeOK, BettingPhases
  <2>5. CASE StartShowdown(qs, nr, 5)
    BY <2>2, <2>5, StartShowdownKeeps
  <2>6. CASE StartShowdown(qs, nr, BoardAt(np))
    BY <2>1, <2>2, <2>6, StartShowdownKeeps
  <2> QED BY <2>3, <2>4, <2>5, <2>6
<1>3. CASE /\ phase' = "AwaitingStreet" /\ player' = ps /\ round' = r /\ board' = bd
           /\ UNCHANGED <<known, payouts>>
  BY <1>3, WaitKeeps DEF TypeOK, Phases, BettingPhases
<1> QED BY <1>1, <1>2, <1>3 DEF EndBettingRound

\* The tail of ApplyAction: whatever the action did to the actor and to the
\* round, if it left them in balance the whole call keeps the invariant.
LEMMA AfterActionKeeps ==
  ASSUME IInv, NEW s \in Seats, OnTurn(s),
         NEW ps, NEW betting, Balanced(ps, betting),
         betting.actionIdx = s,
         AfterAction(s, ps, betting)
  PROVE  IInv'
<1> DEFINE r == [betting EXCEPT !.acts = @ + 1, !.acted = @ \cup {s}]
           next == NextActive(ps, r.actionIdx)
<1>1. r \in RoundState /\ r.bet = betting.bet /\ r.actionIdx = s
  <2>1. betting \in RoundState
    BY DEF Balanced
  <2>2. betting.acts + 1 \in Nat /\ betting.acted \cup {s} \in SUBSET Seats
    BY <2>1 DEF RoundState
  <2>3. r = [betting EXCEPT !.acts = betting.acts + 1, !.acted = betting.acted \cup {s}]
    OBVIOUS
  <2> HIDE DEF r
  <2> QED BY <2>1, <2>2, <2>3 DEF RoundState
<1>2. Balanced(ps, r)
  BY <1>1 DEF Balanced
<1>3. IF CanAct(ps) = {} THEN next = -1 ELSE next \in CanAct(ps)
  BY <1>1, NextActiveFinds
<1>4. TypeOK /\ SameHand /\ phase \in BettingPhases /\ board \in {0, 3, 4, 5}
  BY DEF IInv, TypeOK, AfterAction, SameHand, OnTurn
<1>5. \/ ResolveSingleWinner(ps, r)
      \/ EndBettingRound(ps, r, phase, board)
      \/ /\ next # -1
         /\ player' = ps
         /\ round' = [r EXCEPT !.actionIdx = next]
         /\ UNCHANGED <<phase, board, known, payouts>>
  BY DEF AfterAction
<1> HIDE DEF r, next
<1>6. CASE ResolveSingleWinner(ps, r)
  BY <1>2, <1>4, <1>6, ResolveSingleWinnerKeeps
<1>7. CASE EndBettingRound(ps, r, phase, board)
  BY <1>2, <1>4, <1>7, EndBettingRoundKeeps
<1>8. CASE /\ next # -1
           /\ player' = ps
           /\ round' = [r EXCEPT !.actionIdx = next]
           /\ UNCHANGED <<phase, board, known, payouts>>
  <2> DEFINE rn == [r EXCEPT !.actionIdx = next]
  <2>1. next \in CanAct(ps)
    BY <1>3, <1>8
  <2>2. rn \in RoundState /\ rn.bet = r.bet /\ rn.actionIdx = next
    BY <1>1, <2>1 DEF RoundState, CanAct
  <2>3. Balanced(ps, rn)
    BY <1>2, <2>2 DEF Balanced
  <2> HIDE DEF rn
  <2>4. round' = rn
    BY <1>8 DEF rn
  <2> QED BY <1>4, <1>8, <2>1, <2>2, <2>3, <2>4, PlayOnKeeps DEF TypeOK
<1> QED BY <1>5, <1>6, <1>7, <1>8

-----------------------------------------------------------------------------
(* The actions *)

LEMMA ActorOwesNoLess ==
  ASSUME IInv, NEW s \in Seats, OnTurn(s)
  PROVE  s \in CanAct(player) /\ ToCall(s) \in Nat
<1>1. CanAct(player) # {}
  BY SeatingAssumption DEF IInv, ActorCanAct, OnTurn, Seats
<1>2. s \in CanAct(player)
  BY <1>1 DEF IInv, ActorCanAct, OnTurn
<1>3. player[s].bet \in Nat /\ round.bet \in Nat /\ player[s].bet <= round.bet
  BY <1>2 DEF CanAct, IInv, Balanced, Table, PlayerState, RoundState
<1> QED BY <1>2, <1>3 DEF ToCall

\* Charging the actor keeps the balance if the new table bet covers him.
LEMMA ChargeBalanced ==
  ASSUME Balanced(player, round), NEW s \in Seats, NEW amount \in Nat,
         NEW r \in RoundState, r.bet >= round.bet,
         \/ player[s].bet + amount <= r.bet
         \/ PlaceBet(player, s, amount)[s].status = "AllIn"
  PROVE  Balanced(PlaceBet(player, s, amount), r)
<1> DEFINE ps == PlaceBet(player, s, amount)
<1>1. player \in Table
  BY DEF Balanced
<1>2. ps \in Table /\ \A t \in Seats \ {s} : ps[t] = player[t]
  BY <1>1, PlaceBetKeeps
<1>3. /\ ps[s].stack + ps[s].total = player[s].stack + player[s].total
      /\ ps[s].bet - player[s].bet = ps[s].total - player[s].total
      /\ ps[s].status = "AllIn"
         \/ (ps[s].status = player[s].status /\ ps[s].bet = player[s].bet + amount)
  BY <1>1, PlaceBetKeeps
<1>4. /\ \A t \in Seats : /\ player[t].bet \in Nat /\ player[t].total \in Nat
                           /\ ps[t].bet \in Nat /\ ps[t].total \in Nat
      /\ round.bet \in Nat /\ r.bet \in Nat
  BY <1>1, <1>2 DEF Balanced, Table, PlayerState, RoundState
<1> HIDE DEF ps
<1>5. ASSUME NEW t \in Seats
      PROVE  /\ ps[t].stack + ps[t].total = entry[t] + payouts[t]
             /\ ps[t].bet <= ps[t].total
             /\ ps[t].status = "Active" => ps[t].bet <= r.bet
  <2>1. CASE t # s
    BY <1>2, <1>4, <2>1 DEF Balanced
  <2>2. CASE t = s
    BY <1>3, <1>4, <2>2 DEF Balanced, ps
  <2> QED BY <2>1, <2>2
<1>6. Balanced(ps, r)
  BY <1>2, <1>5 DEF Balanced
<1> QED BY <1>6 DEF ps

LEMMA FoldKeeps ==
  ASSUME IInv, NEW s \in Seats, Fold(s)
  PROVE  IInv'
<1> DEFINE ps == [player EXCEPT ![s].status = "Folded"]
<1>1. Balanced(ps, round)
  BY DEF IInv, Balanced, Table, PlayerState, Statuses
<1>2. OnTurn(s) /\ AfterAction(s, ps, round) /\ round.actionIdx = s
  BY DEF Fold, OnTurn
<1> QED BY <1>1, <1>2, AfterActionKeeps

LEMMA CheckKeeps ==
  ASSUME IInv, NEW s \in Seats, Check(s)
  PROVE  IInv'
<1>1. OnTurn(s) /\ AfterAction(s, player, round) /\ round.actionIdx = s
  BY DEF Check, OnTurn
<1> QED BY <1>1, AfterActionKeeps DEF IInv

LEMMA CallKeeps ==
  ASSUME IInv, NEW s \in Seats, Call(s)
  PROVE  IInv'
<1>1. OnTurn(s) /\ round.actionIdx = s /\ ToCall(s) \in Nat
      /\ AfterAction(s, PlaceBet(player, s, ToCall(s)), round)
  BY ActorOwesNoLess DEF Call, OnTurn
<1>2. player[s].bet + ToCall(s) = round.bet /\ round.bet \in Nat /\ round \in RoundState
  BY DEF ToCall, IInv, Balanced, Table, PlayerState, RoundState
<1>3. Balanced(PlaceBet(player, s, ToCall(s)), round)
  BY <1>1, <1>2, ChargeBalanced DEF IInv
<1> QED BY <1>1, <1>3, AfterActionKeeps

LEMMA RaiseKeeps ==
  ASSUME IInv, NEW s \in Seats, NEW amount \in RaiseAmounts, Raise(s, amount)
  PROVE  IInv'
<1> DEFINE r == [round EXCEPT !.minRaise = amount, !.bet = @ + amount, !.lastRaiser = s]
<1>1. OnTurn(s) /\ round.actionIdx = s /\ ToCall(s) \in Nat /\ amount \in Nat
      /\ AfterAction(s, PlaceBet(player, s, ToCall(s) + amount), r)
  BY ActorOwesNoLess, PokerAssumption DEF Raise, OnTurn
<1>2. round \in RoundState /\ player[s].bet \in Nat
  BY DEF IInv, Balanced, Table, PlayerState
<1>3. r \in RoundState /\ r.bet = round.bet + amount /\ r.actionIdx = s
  <2> DEFINE b == round.bet + amount
  <2>1. b \in Nat
    BY <1>1, <1>2 DEF RoundState
  <2>2. r = [round EXCEPT !.minRaise = amount, !.bet = b, !.lastRaiser = s]
    OBVIOUS
  <2> HIDE DEF b, r
  <2>3. r \in RoundState /\ r.bet = b /\ r.actionIdx = s
    BY <1>1, <1>2, <2>1, <2>2 DEF RoundState
  <2> QED BY <2>3 DEF b
<1>4. player[s].bet + (ToCall(s) + amount) = r.bet /\ r.bet >= round.bet
  BY <1>1, <1>2, <1>3 DEF ToCall, RoundState
<1> HIDE DEF r
<1>5. ToCall(s) + amount \in Nat
  BY <1>1
<1>6. Balanced(PlaceBet(player, s, ToCall(s) + amount), r)
  BY <1>3, <1>4, <1>5, ChargeBalanced DEF IInv, RoundState
<1> QED BY <1>1, <1>3, <1>6, AfterActionKeeps

LEMMA AllInKeeps ==
  ASSUME IInv, NEW s \in Seats, AllIn(s)
  PROVE  IInv'
<1> DEFINE ps == PlaceBet(player, s, player[s].stack)
           r == AllInRound(s)
<1>1. OnTurn(s) /\ round.actionIdx = s /\ s \in CanAct(player) /\ AfterAction(s, ps, r)
  BY ActorOwesNoLess DEF AllIn, OnTurn
<1>2. round \in RoundState /\ player[s].stack \in Nat /\ player[s].bet \in Nat
      /\ player[s].bet <= round.bet
  BY <1>1 DEF IInv, Balanced, Table, PlayerState, CanAct
<1>3. r = round
  BY <1>2 DEF AllInRound, RoundState
<1>4. ps[s].status = "AllIn"
  BY <1>2 DEF PlaceBet, IInv, Balanced, Table, PlayerState
<1>5. Balanced(ps, r)
  BY <1>2, <1>3, <1>4, ChargeBalanced DEF IInv, RoundState
<1> QED BY <1>1, <1>3, <1>5, AfterActionKeeps

LEMMA OpenPreFlopKeeps ==
  ASSUME IInv, NEW dealt \in SUBSET Seats, OpenPreFlop(dealt)
  PROVE  IInv'
<1> DEFINE p1 == PlaceBet(player, SmallBlindIdx, SmallBlind)
           ps == PlaceBet(p1, BigBlindIdx, BigBlind)
           sbPaid == ps[SmallBlindIdx].bet
           bbPaid == ps[BigBlindIdx].bet
           bet == IF sbPaid > bbPaid THEN sbPaid ELSE bbPaid
           next == NextActive(ps, BigBlindIdx)
           r == [round EXCEPT !.bet = bet, !.actionIdx = next,
                              !.lastRaiser = BigBlindIdx, !.acts = 0]
<1>1. SmallBlindIdx \in Seats /\ BigBlindIdx \in Seats
  BY SeatingAssumption DEF SmallBlindIdx, BigBlindIdx, IInv, TypeOK, Seats
<1>2. player \in Table /\ round \in RoundState /\ SmallBlind \in Nat /\ BigBlind \in Nat
  BY PokerAssumption DEF IInv, Balanced
<1>3. p1 \in Table
  BY <1>1, <1>2, PlaceBetKeeps
<1>4. ps \in Table
  BY <1>1, <1>2, <1>3, PlaceBetKeeps
<1> HIDE DEF p1, ps
<1>5. /\ \A t \in Seats \ {SmallBlindIdx} : p1[t] = player[t]
      /\ p1[SmallBlindIdx].stack + p1[SmallBlindIdx].total
           = player[SmallBlindIdx].stack + player[SmallBlindIdx].total
      /\ p1[SmallBlindIdx].bet - player[SmallBlindIdx].bet
           = p1[SmallBlindIdx].total - player[SmallBlindIdx].total
  BY <1>1, <1>2, PlaceBetKeeps DEF p1
<1>6. /\ \A t \in Seats \ {BigBlindIdx} : ps[t] = p1[t]
      /\ ps[BigBlindIdx].stack + ps[BigBlindIdx].total
           = p1[BigBlindIdx].stack + p1[BigBlindIdx].total
      /\ ps[BigBlindIdx].bet - p1[BigBlindIdx].bet
           = ps[BigBlindIdx].total - p1[BigBlindIdx].total
  BY <1>1, <1>2, <1>3, PlaceBetKeeps DEF ps
<1>7. \A t \in Seats : /\ player[t].stack \in Nat /\ player[t].total \in Nat /\ player[t].bet = 0
                       /\ p1[t].stack \in Nat /\ p1[t].total \in Nat /\ p1[t].bet \in Nat
                       /\ ps[t].stack \in Nat /\ ps[t].total \in Nat /\ ps[t].bet \in Nat
  BY <1>2, <1>3, <1>4 DEF Table, PlayerState, IInv, NothingBet, OpenPreFlop
<1>8. bet \in Nat /\ sbPaid <= bet /\ bbPaid <= bet
  BY <1>1, <1>7
<1>9. IF CanAct(ps) = {} THEN next = -1 ELSE next \in CanAct(ps)
  BY <1>1, NextActiveFinds
<1>10. r \in RoundState /\ r.bet = bet /\ r.actionIdx = next
  <2> HIDE DEF bet, next
  <2>1. next \in Seats \cup {-1}
    BY <1>9 DEF CanAct
  <2> QED BY <1>1, <1>2, <1>8, <2>1 DEF RoundState
<1>11. ASSUME NEW t \in Seats
       PROVE  /\ ps[t].stack + ps[t].total = entry[t] + payouts[t]
              /\ ps[t].bet <= ps[t].total
              /\ ps[t].bet <= bet
  <2>1. ps[t].stack + ps[t].total = player[t].stack + player[t].total
    BY <1>1, <1>5, <1>6, <1>7
  <2>2. ps[t].bet <= ps[t].total
    <3>1. p1[t].bet <= p1[t].total
      <4>1. CASE t = SmallBlindIdx
        BY <1>5, <1>7, <4>1
      <4>2. CASE t # SmallBlindIdx
        BY <1>5, <1>7, <4>2
      <4> QED BY <4>1, <4>2
    <3>2. CASE t = BigBlindIdx
      BY <1>6, <1>7, <3>1, <3>2
    <3>3. CASE t # BigBlindIdx
      BY <1>6, <1>7, <3>1, <3>3
    <3> QED BY <3>2, <3>3
  <2>3. ps[t].bet <= bet
    <3>1. CASE t \in {SmallBlindIdx, BigBlindIdx}
      BY <1>8, <3>1
    <3>2. CASE t \notin {SmallBlindIdx, BigBlindIdx}
      BY <1>1, <1>5, <1>6, <1>7, <1>8, <3>2
    <3> QED BY <3>1, <3>2
  <2> QED BY <2>1, <2>2, <2>3 DEF IInv, Balanced
<1>12. /\ phase' = "PreFlop" /\ player' = ps /\ round' = r
       /\ known' \in SUBSET Seats
       /\ UNCHANGED <<hand, dealer, board, payouts, entry>>
  BY PokerAssumption DEF OpenPreFlop, PostBlinds, ps, p1
<1> HIDE DEF bet, next, r
<1>13. TypeOK'
  BY <1>4, <1>10, <1>12 DEF IInv, TypeOK, Phases, BettingPhases, Table
<1>14. Balanced(player, round)'
  BY <1>4, <1>10, <1>11, <1>12 DEF Balanced
<1>15. ActorCanAct' /\ NothingBet'
  BY <1>9, <1>10, <1>12 DEF ActorCanAct, NothingBet, CanAct
<1> QED BY <1>13, <1>14, <1>15 DEF IInv

LEMMA ApplyStreetKeeps ==
  ASSUME IInv, ApplyStreet
  PROVE  IInv'
<1> DEFINE qs == ResetForNewRound(player)
           r == NewRound(qs, round)
           bd == IF board = 0 THEN 3 ELSE board + 1
           ph == PhaseWithBoard(bd)
<1>1. TypeOK /\ SameHand
  BY DEF IInv, ApplyStreet, SameHand
<1>2. Balanced(qs, r) /\ (CanAct(qs) # {} => r.actionIdx \in CanAct(qs))
  BY <1>1, NewRoundBalanced DEF IInv
<1>3. bd \in {3, 4, 5}
  BY DEF ApplyStreet
<1>4. ph \in BettingPhases
  BY <1>3 DEF PhaseWithBoard, BettingPhases
<1>5. \/ EndBettingRound(qs, r, ph, bd)
      \/ /\ Cardinality(CanAct(qs)) > 1
         /\ phase' = ph /\ board' = bd /\ player' = qs /\ round' = r
         /\ UNCHANGED <<known, payouts>>
  BY DEF ApplyStreet
<1> HIDE DEF qs, r, bd, ph
<1>6. CASE EndBettingRound(qs, r, ph, bd)
  BY <1>1, <1>2, <1>3, <1>4, <1>6, EndBettingRoundKeeps
<1>7. CASE /\ Cardinality(CanAct(qs)) > 1
           /\ phase' = ph /\ board' = bd /\ player' = qs /\ round' = r
           /\ UNCHANGED <<known, payouts>>
  <2>1. CanAct(qs) # {}
    BY <1>7, CardinalityOfSeats DEF CanAct
  <2> QED BY <1>1, <1>2, <1>3, <1>4, <1>7, <2>1, PlayOnKeeps DEF TypeOK
<1> QED BY <1>5, <1>6, <1>7

LEMMA ApplyHoleRevealKeeps ==
  ASSUME IInv, NEW s \in Seats, ApplyHoleReveal(s)
  PROVE  IInv'
<1>1. /\ TypeOK /\ SameHand /\ Balanced(player, round) /\ phase = "Showdown"
      /\ round' = round /\ board' \in {0, 3, 4, 5} /\ known' \subseteq Seats
  BY DEF IInv, TypeOK, ApplyHoleReveal, SameHand
<1>2. CASE DistributePots(player)
  <2>1. PICK rank \in [InHand(player) -> 1 .. N] :
          /\ phase' = "Settled"
          /\ player' = Pay(player, Winnings(player, rank, dealer))
          /\ payouts' = [t \in Seats |-> payouts[t] + Winnings(player, rank, dealer)[t]]
    BY <1>2 DEF DistributePots
  <2>2. Winnings(player, rank, dealer) \in [Seats -> Nat]
    BY <1>1, WinningsNat DEF Balanced
  <2> QED BY <1>1, <2>1, <2>2, PayKeeps
<1>3. CASE UNCHANGED <<phase, player, payouts>>
  BY <1>1, <1>3, WaitKeeps
<1> QED BY <1>2, <1>3 DEF ApplyHoleReveal

LEMMA NextHandKeeps ==
  ASSUME IInv, NextHand
  PROVE  IInv'
<1>1. /\ player \in Table /\ entry' = [s \in Seats |-> player[s].stack]
      /\ player' = ResetForNewHand(player)
      /\ payouts' = [s \in Seats |-> 0] /\ phase' = "Waiting" /\ board' = 0 /\ known' = {}
      /\ round' = [bet |-> 0, minRaise |-> BigBlind, actionIdx |-> 0,
                   lastRaiser |-> 0, acts |-> 0, acted |-> {}]
      /\ hand' = hand + 1 /\ dealer' = (dealer + 1) % N
  BY DEF NextHand, NewHand, IInv, Balanced
<1>2. player' \in Table
  BY <1>1 DEF ResetForNewHand, Table, PlayerState, Statuses
<1>3. round' \in RoundState
  BY <1>1, PokerAssumption, SeatingAssumption DEF RoundState, Seats
<1>4. dealer' \in Seats /\ hand' \in Nat
  BY <1>1, SeatingAssumption DEF IInv, TypeOK, Seats
<1>5. entry' \in [Seats -> Nat] /\ payouts' \in [Seats -> Nat]
  BY <1>1 DEF Table, PlayerState
<1>6. \A s \in Seats : /\ player'[s].stack = entry'[s] /\ player'[s].total = 0
                       /\ player'[s].bet = 0 /\ payouts'[s] = 0
  BY <1>1 DEF ResetForNewHand
<1>7. TypeOK'
  BY <1>1, <1>2, <1>3, <1>4, <1>5 DEF TypeOK, Table, Phases
<1>8. Balanced(player, round)'
  BY <1>1, <1>2, <1>3, <1>5, <1>6 DEF Balanced
<1>9. ActorCanAct' /\ NothingBet'
  BY <1>1, <1>6 DEF ActorCanAct, NothingBet, BettingPhases
<1> QED BY <1>7, <1>8, <1>9 DEF IInv

LEMMA InitEstablishes == Init => IInv
<1> SUFFICES ASSUME Init PROVE IInv
  OBVIOUS
<1>1. entry \in [Seats -> Nat]
  BY PokerAssumption DEF Init
<1>2. player \in Table
  BY <1>1 DEF Init, Table, PlayerState, Statuses
<1>3. round \in RoundState
  BY PokerAssumption, SeatingAssumption DEF Init, RoundState, Seats
<1>4. dealer \in Seats /\ hand \in Nat /\ payouts \in [Seats -> Nat]
  BY SeatingAssumption DEF Init, Seats
<1>5. TypeOK
  BY <1>1, <1>2, <1>3, <1>4 DEF Init, TypeOK, Table, Phases
<1>6. Balanced(player, round)
  BY <1>1, <1>2, <1>3 DEF Init, Balanced
<1>7. ActorCanAct /\ NothingBet
  BY DEF Init, ActorCanAct, NothingBet, BettingPhases
<1> QED BY <1>5, <1>6, <1>7 DEF IInv

LEMMA StepKeeps == IInv /\ [Next]_vars => IInv'
<1> SUFFICES ASSUME IInv, [Next]_vars PROVE IInv'
  OBVIOUS
<1>1. CASE StartHand \/ StartHandCrypto
  BY <1>1, OpenPreFlopKeeps, PokerAssumption DEF StartHand, StartHandCrypto
<1>2. ASSUME NEW s \in Seats, ApplyAction(s) PROVE IInv'
  BY <1>2, FoldKeeps, CheckKeeps, CallKeeps, AllInKeeps, RaiseKeeps DEF ApplyAction
<1>3. ASSUME NEW s \in Seats, ApplyHoleReveal(s) PROVE IInv'
  BY <1>3, ApplyHoleRevealKeeps
<1>4. CASE ApplyStreet
  BY <1>4, ApplyStreetKeeps
<1>5. CASE NextHand
  BY <1>5, NextHandKeeps
<1>6. CASE UNCHANGED vars
  BY <1>6 DEF vars, IInv, TypeOK, Balanced, ActorCanAct, NothingBet, CanAct
<1> QED BY <1>1, <1>2, <1>3, <1>4, <1>5, <1>6 DEF Next

-----------------------------------------------------------------------------

LEMMA Invariance == Spec => []IInv
  BY InitEstablishes, StepKeeps, PTL DEF Spec

\* Stacks, bets and payouts stay natural numbers and every index stays within
\* the table, whatever the players do: no call overdraws a stack.
THEOREM TypeCorrect == Spec => []TypeOK
<1>1. IInv => TypeOK
  BY DEF IInv
<1> QED BY <1>1, Invariance, PTL

\* Every seat's chips are accounted for at every moment of every hand.
THEOREM LedgerTheorem == Spec => []LedgerBalanced
<1>1. IInv => LedgerBalanced
  BY DEF IInv, Balanced, LedgerBalanced
<1> QED BY <1>1, Invariance, PTL

\* The engine never asks a folded or all-in seat to act, and only the lack of
\* any seat able to act leaves ActionIdx at -1.
THEOREM ActorTheorem == Spec => []ActorCanAct
<1>1. IInv => ActorCanAct
  BY DEF IInv
<1> QED BY <1>1, Invariance, PTL

-----------------------------------------------------------------------------
(* The order of the table *)

\* How far clockwise of seat a seat x sits.
Ahead(a, x) == IF x >= a THEN x - a ELSE x - a + N

LEMMA StepLands ==
  ASSUME NEW from \in Seats, NEW k \in 1 .. N
  PROVE  (from + k) % N = IF from + k < N THEN from + k ELSE from + k - N
<1> USE SeatingAssumption DEF Seats
<1>1. CASE from + k < N
  BY <1>1
<1>2. CASE ~ (from + k < N)
  <2> DEFINE rest == from + k - N
  <2>1. rest \in 0 .. N - 1 /\ from + k = rest + N
    BY <1>2
  <2> HIDE DEF rest
  <2>2. (rest + N) % N = rest
    BY <2>1
  <2> QED BY <1>2, <2>1, <2>2
<1> QED BY <1>1, <1>2

\* FirstAfter stops at the nearest seat.
LEMMA FirstAfterNearest ==
  ASSUME NEW wanted \in SUBSET Seats, NEW from \in Seats,
         NEW x \in wanted, x # from
  PROVE  LET n == FirstAfter(wanted, from)
         IN  n \in wanted /\ n # from /\ Ahead(from, n) <= Ahead(from, x)
<1> USE SeatingAssumption
<1> DEFINE steps == StepsTo(wanted, from)
           k == Least(steps)
           n == FirstAfter(wanted, from)
<1>1. Ahead(from, x) \in 1 .. N - 1 /\ (from + Ahead(from, x)) % N = x
  <2>1. Ahead(from, x) \in 1 .. N - 1
    BY DEF Ahead, Seats
  <2>2. (from + Ahead(from, x)) % N
           = IF from + Ahead(from, x) < N THEN from + Ahead(from, x)
             ELSE from + Ahead(from, x) - N
    BY <2>1, StepLands
  <2> QED BY <2>1, <2>2 DEF Ahead, Seats
<1>2. steps \in SUBSET Nat /\ Ahead(from, x) \in steps
  BY <1>1 DEF StepsTo
<1>3. k \in steps /\ k <= Ahead(from, x)
  BY <1>2, LeastExists
<1>4. k \in 1 .. N - 1 /\ n = (from + k) % N
  BY <1>1, <1>3 DEF StepsTo, FirstAfter
<1>5. n = IF from + k < N THEN from + k ELSE from + k - N
  BY <1>4, StepLands
<1> HIDE DEF k, n, steps
<1>6. n # from /\ Ahead(from, n) = k
  BY <1>4, <1>5 DEF Ahead, Seats
<1>7. n \in wanted
  BY FirstAfterFinds DEF n
<1> QED BY <1>3, <1>6, <1>7 DEF n

\* Seats other than `from` keep their order when the walk starts at n instead;
\* `from` itself comes last.
LEMMA AheadOrder ==
  ASSUME NEW from \in Seats, NEW n \in Seats, NEW s \in Seats, NEW t \in Seats,
         s # from, n # from,
         Ahead(from, n) <= Ahead(from, s), Ahead(n, t) <= Ahead(n, s)
  PROVE  t # from /\ (Ahead(from, n) <= Ahead(from, t) => Ahead(from, t) <= Ahead(from, s))
  BY SeatingAssumption DEF Ahead, Seats

-----------------------------------------------------------------------------
(* The invariant *)

\* Before this round all seats that can act had put in the same amount.
Level(ps) ==
  \A s, t \in CanAct(ps) : ps[s].total - ps[s].bet = ps[t].total - ps[t].bet

\* They have put in the same amount now.
Even(ps) == \A s, t \in CanAct(ps) : ps[s].total = ps[t].total

\* The seats that owe chips are the next ones to act.
OwersFollow(ps, r) ==
  \A s, t \in CanAct(ps) :
    ps[s].bet < r.bet /\ Ahead(r.actionIdx, t) <= Ahead(r.actionIdx, s)
      => ps[t].bet < r.bet

Streets ==
  /\ phase = "Waiting" => \A s \in Seats : player[s].total = 0
  /\ phase \in BettingPhases => Level(player) /\ OwersFollow(player, round)
  /\ phase \in BettingPhases \ {"PreFlop"} /\ round.acts = 0 =>
       \A s \in CanAct(player) : player[s].bet = 0
  /\ phase = "AwaitingStreet" => Even(player)

SInv == IInv /\ Streets

-----------------------------------------------------------------------------
(* Closing a round *)

LEMMA NewRoundStreets ==
  ASSUME NEW ps \in Table, Even(ps), NEW r
  PROVE  LET qs == ResetForNewRound(ps)
         IN  /\ Even(qs) /\ Level(qs) /\ OwersFollow(qs, NewRound(qs, r))
             /\ \A s \in CanAct(qs) : qs[s].bet = 0
             /\ NewRound(qs, r).acts = 0
             /\ qs \in Table
<1> DEFINE qs == ResetForNewRound(ps)
<1>1. qs \in Table /\ \A s \in Seats : /\ qs[s].total = ps[s].total /\ qs[s].status = ps[s].status
                                       /\ qs[s].status # "Folded" => qs[s].bet = 0
  BY DEF ResetForNewRound, InHand, Table, PlayerState
<1>2. CanAct(qs) = CanAct(ps) /\ \A s \in CanAct(qs) : qs[s].bet = 0 /\ qs[s].total \in Nat
  BY <1>1 DEF CanAct, Table, PlayerState
<1>3. Even(qs)
  BY <1>1, <1>2 DEF Even, CanAct
<1> HIDE DEF qs
<1>4. Level(qs)
  BY <1>2, <1>3 DEF Even, Level
<1>5. NewRound(qs, r).bet = 0 /\ NewRound(qs, r).acts = 0
  BY DEF NewRound
<1>6. OwersFollow(qs, NewRound(qs, r))
  BY <1>2, <1>5 DEF OwersFollow
<1> QED BY <1>1, <1>2, <1>3, <1>4, <1>5, <1>6 DEF qs

LEMMA ShowdownStreets ==
  ASSUME NEW ps, NEW r, NEW bd, StartShowdown(ps, r, bd)
  PROVE  Streets'
<1>1. phase' \in {"Settled", "Showdown"}
  BY DEF StartShowdown, DistributePots
<1> QED BY <1>1 DEF Streets, BettingPhases

LEMMA EndBettingRoundStreets ==
  ASSUME NEW ps \in Table, Even(ps), NEW r, NEW bd, NEW ph \in BettingPhases,
         EndBettingRound(ps, r, ph, bd)
  PROVE  Streets'
<1>1. CASE ph = "River" /\ StartShowdown(ps, r, bd)
  BY <1>1, ShowdownStreets
<1>2. CASE ph # "River" /\ DealStreet(ps, r, ph)
  <2> DEFINE qs == ResetForNewRound(ps)
             nr == NewRound(qs, r)
  <2>1. Even(qs) /\ Level(qs) /\ OwersFollow(qs, nr) /\ (\A s \in CanAct(qs) : qs[s].bet = 0)
    BY NewRoundStreets
  <2>2. \/ phase' = NextPhase(ph) /\ player' = qs /\ round' = nr
        \/ StartShowdown(qs, nr, 5)
        \/ StartShowdown(qs, nr, BoardAt(NextPhase(ph)))
    BY <1>2 DEF DealStreet
  <2>3. NextPhase(ph) \in BettingPhases
    BY <1>2 DEF BettingPhases, NextPhase
  <2> HIDE DEF qs, nr
  <2>4. CASE phase' = NextPhase(ph) /\ player' = qs /\ round' = nr
    BY <2>1, <2>3, <2>4 DEF Streets, BettingPhases, Level, OwersFollow, CanAct
  <2>5. CASE StartShowdown(qs, nr, 5)
    BY <2>5, ShowdownStreets
  <2>6. CASE StartShowdown(qs, nr, BoardAt(NextPhase(ph)))
    BY <2>6, ShowdownStreets
  <2> QED BY <2>2, <2>4, <2>5, <2>6
<1>3. CASE phase' = "AwaitingStreet" /\ player' = ps
  BY <1>3 DEF Streets, BettingPhases, Even, CanAct
<1> QED BY <1>1, <1>2, <1>3 DEF EndBettingRound

-----------------------------------------------------------------------------
(* The end of a call *)

\* What the action of seat s leaves: s owes nothing any more or cannot act, and
\* the others that owe are still the next ones after it.
Acted(s, ps, r) ==
  /\ ps \in Table /\ r \in RoundState /\ r.actionIdx = s
  /\ Level(ps)
  /\ \A t \in CanAct(ps) : ps[t].bet <= r.bet
  /\ s \in CanAct(ps) => ps[s].bet = r.bet
  /\ \A x, t \in CanAct(ps) \ {s} :
       ps[x].bet < r.bet /\ Ahead(s, t) <= Ahead(s, x) => ps[t].bet < r.bet

\* The walk goes on to the next seat that can act.
LEMMA PassTurn ==
  ASSUME NEW s \in Seats, NEW ps, NEW r, Acted(s, ps, r), CanAct(ps) # {}
  PROVE  LET n == NextActive(ps, s)
         IN  /\ n \in CanAct(ps)
             /\ \A x, t \in CanAct(ps) :
                  ps[x].bet < r.bet /\ Ahead(n, t) <= Ahead(n, x) => ps[t].bet < r.bet
<1> DEFINE n == NextActive(ps, s)
<1>1. n \in CanAct(ps) /\ n \in Seats /\ n = FirstAfter(CanAct(ps), s)
  BY NextActiveFinds DEF NextActive, CanAct
<1> HIDE DEF n
<1>2. SUFFICES ASSUME NEW x \in CanAct(ps), NEW t \in CanAct(ps),
                      ps[x].bet < r.bet, Ahead(n, t) <= Ahead(n, x)
               PROVE  ps[t].bet < r.bet
  BY <1>1 DEF n
<1>3. x # s /\ x \in Seats /\ t \in Seats
  BY <1>2 DEF Acted, CanAct, Table, PlayerState, RoundState
<1>4. n # s /\ Ahead(s, n) <= Ahead(s, x)
  BY <1>1, <1>3, FirstAfterNearest DEF CanAct
<1>5. t # s
  BY <1>1, <1>2, <1>3, <1>4, AheadOrder
<1>6. Ahead(s, n) <= Ahead(s, t)
  BY <1>1, <1>5, FirstAfterNearest DEF CanAct
<1>7. Ahead(s, t) <= Ahead(s, x)
  BY <1>1, <1>2, <1>3, <1>4, <1>6, AheadOrder
<1> QED BY <1>2, <1>3, <1>5, <1>7 DEF Acted

\* A round that is closed leaves nobody owing chips.
LEMMA ClosedRoundEven ==
  ASSUME NEW s \in Seats, NEW ps, NEW r, Acted(s, ps, r),
         \/ NextActive(ps, s) = -1
         \/ BettingRoundComplete(ps, r, NextActive(ps, s))
  PROVE  Even(ps)
<1>1. CASE CanAct(ps) = {}
  BY <1>1 DEF Even
<1>2. CASE CanAct(ps) # {}
  <2> DEFINE n == NextActive(ps, s)
  <2>1. /\ n \in CanAct(ps)
        /\ \A x, t \in CanAct(ps) :
             ps[x].bet < r.bet /\ Ahead(n, t) <= Ahead(n, x) => ps[t].bet < r.bet
    BY <1>2, PassTurn
  <2>2. n \in Seats /\ n # -1
    BY <2>1, SeatingAssumption DEF CanAct, Seats
  <2>3. ps[n].bet >= r.bet
    BY <2>2 DEF BettingRoundComplete
  <2> HIDE DEF n
  <2>4. ASSUME NEW x \in CanAct(ps) PROVE ps[x].bet = r.bet
    <3>1. Ahead(n, n) <= Ahead(n, x)
      BY <2>2, SeatingAssumption DEF Ahead, CanAct, Seats
    <3>2. /\ ps[x].bet \in Nat /\ ps[n].bet \in Nat /\ r.bet \in Nat
          /\ ps[x].bet <= r.bet
      BY <2>2 DEF Acted, CanAct, Table, PlayerState, RoundState
    <3> QED BY <2>1, <2>3, <3>1, <3>2
  <2>5. \A x \in CanAct(ps) : ps[x].total \in Nat /\ r.bet \in Nat
    BY DEF Acted, CanAct, Table, PlayerState, RoundState
  <2> QED BY <2>4, <2>5 DEF Acted, Level, Even
<1> QED BY <1>1, <1>2

LEMMA AfterActionStreets ==
  ASSUME NEW s \in Seats, phase \in BettingPhases,
         NEW ps, NEW betting, Acted(s, ps, betting), AfterAction(s, ps, betting)
  PROVE  Streets'
<1> DEFINE r == [betting EXCEPT !.acts = @ + 1, !.acted = @ \cup {s}]
           next == NextActive(ps, r.actionIdx)
           acts == betting.acts + 1
           acted == betting.acted \cup {s}
<1>1. /\ betting \in RoundState /\ betting.actionIdx = s
      /\ acts \in Nat /\ acts # 0 /\ acted \in SUBSET Seats
  BY DEF Acted, RoundState
<1>2. r = [betting EXCEPT !.acts = acts, !.acted = acted]
  OBVIOUS
<1>3. \/ ResolveSingleWinner(ps, r)
      \/ /\ next = -1 \/ BettingRoundComplete(ps, r, next)
         /\ EndBettingRound(ps, r, phase, board)
      \/ /\ next # -1
         /\ player' = ps
         /\ round' = [r EXCEPT !.actionIdx = next]
         /\ UNCHANGED <<phase, board, known, payouts>>
  BY DEF AfterAction
<1> HIDE DEF r, acts, acted
<1>4. /\ r \in RoundState /\ r.bet = betting.bet /\ r.actionIdx = s
      /\ r.acts \in Nat /\ r.acts # 0
  BY <1>1, <1>2 DEF RoundState
<1>5. Acted(s, ps, r) /\ next = NextActive(ps, s) /\ ps \in Table
  BY <1>4 DEF Acted
<1> HIDE DEF next
<1>6. CASE ResolveSingleWinner(ps, r)
  BY <1>6 DEF ResolveSingleWinner, Streets, BettingPhases
<1>7. CASE /\ next = -1 \/ BettingRoundComplete(ps, r, next)
           /\ EndBettingRound(ps, r, phase, board)
  BY <1>5, <1>7, ClosedRoundEven, EndBettingRoundStreets
<1>8. CASE /\ next # -1
           /\ player' = ps
           /\ round' = [r EXCEPT !.actionIdx = next]
           /\ UNCHANGED <<phase, board, known, payouts>>
  <2> DEFINE rn == [r EXCEPT !.actionIdx = next]
  <2>1. CanAct(ps) # {}
    BY <1>5, <1>8, NextActiveFinds
  <2>2. rn.bet = r.bet /\ rn.actionIdx = next /\ rn.acts = r.acts
    BY <1>4 DEF RoundState
  <2>3. OwersFollow(ps, rn)
    BY <1>5, <2>1, <2>2, PassTurn DEF OwersFollow
  <2>4. Level(ps) /\ phase' = phase /\ player' = ps /\ round' = rn
    BY <1>5, <1>8 DEF Acted
  <2> HIDE DEF rn
  <2> QED BY <1>4, <2>2, <2>3, <2>4 DEF Streets, BettingPhases, Level, OwersFollow, CanAct
<1> QED BY <1>3, <1>6, <1>7, <1>8

-----------------------------------------------------------------------------
(* The actions *)

\* A seat whose turn it is and that is charged matches the table bet, raises
\* it, or is all-in.
LEMMA ChargeActed ==
  ASSUME SInv, NEW s \in Seats, OnTurn(s), NEW amount \in Nat,
         NEW r \in RoundState, r.actionIdx = s, r.bet >= round.bet,
         \/ PlaceBet(player, s, amount)[s].status = "AllIn"
         \/ player[s].bet + amount = r.bet
  PROVE  Acted(s, PlaceBet(player, s, amount), r)
<1> DEFINE ps == PlaceBet(player, s, amount)
<1>1. player \in Table /\ s \in CanAct(player) /\ s = round.actionIdx
  BY ActorOwesNoLess DEF SInv, IInv, Balanced, OnTurn
<1>2. /\ ps \in Table /\ \A t \in Seats \ {s} : ps[t] = player[t]
      /\ ps[s].bet - player[s].bet = ps[s].total - player[s].total
      /\ ps[s].status = "AllIn"
         \/ (ps[s].status = player[s].status /\ ps[s].bet = player[s].bet + amount)
  BY <1>1, PlaceBetKeeps
<1>3. Level(player) /\ OwersFollow(player, round)
  BY DEF SInv, Streets, OnTurn
<1>4. \A t \in Seats : /\ player[t].bet \in Nat /\ player[t].total \in Nat
                       /\ ps[t].bet \in Nat /\ ps[t].total \in Nat
  BY <1>1, <1>2 DEF Table, PlayerState
<1>5. round.bet \in Nat /\ r.bet \in Nat
      /\ \A t \in CanAct(player) : player[t].bet <= round.bet
  BY DEF SInv, IInv, Balanced, RoundState, CanAct
<1>6. ps[s].status = "AllIn" \/ ps[s].bet = r.bet
  BY <1>2
<1> HIDE DEF ps
<1>7. CanAct(ps) \subseteq CanAct(player) /\ (s \in CanAct(ps) => ps[s].bet = r.bet)
  BY <1>1, <1>2, <1>6 DEF CanAct
<1>8. \A t \in CanAct(player) : /\ t \in Seats
                                /\ ps[t].total - ps[t].bet = player[t].total - player[t].bet
  BY <1>2, <1>4 DEF CanAct
<1>9. Level(ps)
  BY <1>3, <1>7, <1>8 DEF Level
<1>10. \A t \in CanAct(ps) : ps[t].bet <= r.bet
  <2> SUFFICES ASSUME NEW t \in CanAct(ps) PROVE ps[t].bet <= r.bet
    OBVIOUS
  <2>1. CASE t = s
    BY <1>5, <1>7, <2>1
  <2>2. CASE t # s
    <3>1. ps[t] = player[t] /\ player[t].bet <= round.bet /\ player[t].bet \in Nat
      BY <1>2, <1>4, <1>5, <1>7, <1>8, <2>2
    <3> QED BY <1>5, <3>1
  <2> QED BY <2>1, <2>2
<1>11. ASSUME NEW x \in CanAct(ps) \ {s}, NEW t \in CanAct(ps) \ {s},
              ps[x].bet < r.bet, Ahead(s, t) <= Ahead(s, x)
       PROVE  ps[t].bet < r.bet
  <2>1. /\ ps[x] = player[x] /\ ps[t] = player[t]
        /\ player[t].bet <= round.bet /\ player[t].bet \in Nat
        /\ x \in CanAct(player) /\ t \in CanAct(player)
    BY <1>2, <1>4, <1>5, <1>7, <1>8
  <2>2. CASE r.bet > round.bet
    BY <1>5, <2>1, <2>2
  <2>3. CASE r.bet = round.bet
    BY <1>1, <1>3, <1>11, <2>1, <2>3 DEF OwersFollow
  <2> QED BY <1>5, <2>2, <2>3
<1>12. Acted(s, ps, r)
  BY <1>2, <1>7, <1>9, <1>10, <1>11 DEF Acted
<1> QED BY <1>12 DEF ps

LEMMA FoldStreets ==
  ASSUME SInv, NEW s \in Seats, Fold(s)
  PROVE  Streets'
<1> DEFINE ps == [player EXCEPT ![s].status = "Folded"]
<1>1. /\ OnTurn(s) /\ AfterAction(s, ps, round) /\ phase \in BettingPhases
      /\ player \in Table /\ round \in RoundState /\ round.actionIdx = s
  BY DEF Fold, OnTurn, SInv, IInv, Balanced
<1>2. ps \in Table /\ s \notin CanAct(ps) /\ CanAct(ps) \subseteq CanAct(player)
      /\ \A t \in CanAct(ps) : ps[t] = player[t]
  BY <1>1 DEF Table, PlayerState, Statuses, CanAct
<1>3. /\ Level(player) /\ OwersFollow(player, round)
      /\ \A t \in CanAct(player) : player[t].bet <= round.bet
  BY <1>1 DEF SInv, Streets, IInv, Balanced, CanAct
<1> HIDE DEF ps
<1>4. Acted(s, ps, round)
  BY <1>1, <1>2, <1>3 DEF Acted, Level, OwersFollow
<1> QED BY <1>1, <1>4, AfterActionStreets

LEMMA CheckStreets ==
  ASSUME SInv, NEW s \in Seats, Check(s)
  PROVE  Streets'
<1>1. /\ OnTurn(s) /\ AfterAction(s, player, round) /\ phase \in BettingPhases
      /\ player \in Table /\ round \in RoundState /\ round.actionIdx = s
  BY DEF Check, OnTurn, SInv, IInv, Balanced
<1>2. player[s].bet = round.bet
  BY <1>1 DEF Check, ToCall, Table, PlayerState, RoundState
<1>3. /\ Level(player) /\ OwersFollow(player, round)
      /\ \A t \in CanAct(player) : player[t].bet <= round.bet
  BY <1>1 DEF SInv, Streets, IInv, Balanced, CanAct
<1>4. Acted(s, player, round)
  BY <1>1, <1>2, <1>3 DEF Acted, OwersFollow
<1> QED BY <1>1, <1>4, AfterActionStreets

LEMMA CallStreets ==
  ASSUME SInv, NEW s \in Seats, Call(s)
  PROVE  Streets'
<1>1. /\ OnTurn(s) /\ phase \in BettingPhases /\ ToCall(s) \in Nat
      /\ AfterAction(s, PlaceBet(player, s, ToCall(s)), round)
      /\ player \in Table /\ round \in RoundState /\ round.actionIdx = s
  BY ActorOwesNoLess DEF Call, OnTurn, SInv, IInv, Balanced
<1>2. player[s].bet + ToCall(s) = round.bet /\ round.bet \in Nat
  BY <1>1 DEF ToCall, Table, PlayerState, RoundState
<1>3. Acted(s, PlaceBet(player, s, ToCall(s)), round)
  BY <1>1, <1>2, ChargeActed
<1> QED BY <1>1, <1>3, AfterActionStreets

LEMMA RaiseStreets ==
  ASSUME SInv, NEW s \in Seats, NEW amount \in RaiseAmounts, Raise(s, amount)
  PROVE  Streets'
<1> DEFINE b == round.bet + amount
           r == [round EXCEPT !.minRaise = amount, !.bet = b, !.lastRaiser = s]
<1>1. /\ OnTurn(s) /\ phase \in BettingPhases /\ ToCall(s) \in Nat /\ amount \in Nat
      /\ player \in Table /\ round \in RoundState /\ round.actionIdx = s
      /\ AfterAction(s, PlaceBet(player, s, ToCall(s) + amount), r)
  BY ActorOwesNoLess, PokerAssumption DEF Raise, OnTurn, SInv, IInv, Balanced
<1>2. /\ ToCall(s) + amount \in Nat /\ b \in Nat /\ b >= round.bet
      /\ player[s].bet + (ToCall(s) + amount) = b
  BY <1>1 DEF ToCall, Table, PlayerState, RoundState
<1> HIDE DEF b
<1>3. r \in RoundState /\ r.bet = b /\ r.actionIdx = s
  BY <1>1, <1>2 DEF RoundState
<1> HIDE DEF r
<1>4. Acted(s, PlaceBet(player, s, ToCall(s) + amount), r)
  BY <1>1, <1>2, <1>3, ChargeActed
<1> QED BY <1>1, <1>4, AfterActionStreets

LEMMA AllInStreets ==
  ASSUME SInv, NEW s \in Seats, AllIn(s)
  PROVE  Streets'
<1> DEFINE amount == player[s].stack
<1>1. /\ OnTurn(s) /\ phase \in BettingPhases /\ s \in CanAct(player)
      /\ AfterAction(s, PlaceBet(player, s, amount), AllInRound(s))
      /\ player \in Table /\ round \in RoundState /\ round.actionIdx = s
  BY ActorOwesNoLess DEF AllIn, OnTurn, SInv, IInv, Balanced
<1>2. amount \in Nat /\ player[s].bet \in Nat /\ round.bet \in Nat /\ player[s].bet <= round.bet
  BY <1>1 DEF Table, PlayerState, RoundState, SInv, IInv, Balanced, CanAct
<1>3. AllInRound(s) = round
  BY <1>2 DEF AllInRound
<1>4. PlaceBet(player, s, amount)[s].status = "AllIn"
  BY <1>1, <1>2 DEF PlaceBet, Table
<1> HIDE DEF amount
<1>5. Acted(s, PlaceBet(player, s, amount), round)
  BY <1>1, <1>2, <1>4, ChargeActed
<1> QED BY <1>1, <1>3, <1>5, AfterActionStreets

-----------------------------------------------------------------------------
(* Starting hands and streets *)

LEMMA PlaceBetAtMost ==
  ASSUME NEW ps \in Table, NEW s \in Seats, NEW amount \in Nat
  PROVE  PlaceBet(ps, s, amount)[s].bet <= ps[s].bet + amount
  BY DEF Table, PlayerState, PlaceBet

\* The big blind is the last to act and owes nothing; if it is short the table
\* bet may be the small blind, whose seat is the last but one.
LEMMA OpenPreFlopStreets ==
  ASSUME SInv, NEW dealt \in SUBSET Seats, OpenPreFlop(dealt)
  PROVE  Streets'
<1> DEFINE sb == SmallBlindIdx
           bb == BigBlindIdx
           p1 == PlaceBet(player, sb, SmallBlind)
           ps == PlaceBet(p1, bb, BigBlind)
           bet == IF ps[sb].bet > ps[bb].bet THEN ps[sb].bet ELSE ps[bb].bet
           next == NextActive(ps, bb)
<1>1. /\ sb \in Seats /\ bb \in Seats /\ sb # bb
      /\ \A x \in Seats \ {sb, bb} : Ahead(bb, x) < Ahead(bb, sb)
  <2> USE SeatingAssumption
  <2>1. dealer \in Seats /\ dealer \in 0 .. N - 1
    BY DEF SInv, IInv, TypeOK, Seats
  <2>2. CASE N = 2
    <3>1. sb = dealer /\ bb = (dealer + 1) % N
      BY <2>2 DEF SmallBlindIdx, BigBlindIdx
    <3>2. bb = IF dealer + 1 < N THEN dealer + 1 ELSE dealer + 1 - N
      BY <2>1, <2>2, <3>1, StepLands
    <3> HIDE DEF sb, bb
    <3> QED BY <2>1, <2>2, <3>1, <3>2 DEF Seats, Ahead
  <2>3. CASE N # 2
    <3>1. sb = (dealer + 1) % N /\ bb = (dealer + 2) % N
      BY <2>3 DEF SmallBlindIdx, BigBlindIdx
    <3>2. /\ sb = IF dealer + 1 < N THEN dealer + 1 ELSE dealer + 1 - N
          /\ bb = IF dealer + 2 < N THEN dealer + 2 ELSE dealer + 2 - N
      BY <2>1, <2>3, <3>1, StepLands
    <3> HIDE DEF sb, bb
    <3>3. sb \in Seats /\ bb \in Seats /\ bb = IF sb + 1 < N THEN sb + 1 ELSE sb + 1 - N
      BY <2>1, <2>3, <3>2 DEF Seats
    <3> QED BY <2>3, <3>3 DEF Seats, Ahead
  <2> QED BY <2>2, <2>3
<1> HIDE DEF sb, bb
<1>2. /\ player \in Table /\ SmallBlind \in Nat /\ BigBlind \in Nat /\ SmallBlind < BigBlind
      /\ \A t \in Seats : player[t].bet = 0 /\ player[t].total = 0
  BY PokerAssumption DEF SInv, IInv, Balanced, NothingBet, Streets, OpenPreFlop
<1>3. /\ p1 \in Table /\ \A t \in Seats \ {sb} : p1[t] = player[t]
      /\ p1[sb].bet - player[sb].bet = p1[sb].total - player[sb].total
      /\ p1[sb].status = "AllIn" \/ p1[sb].bet = player[sb].bet + SmallBlind
      /\ p1[sb].bet <= player[sb].bet + SmallBlind
  BY <1>1, <1>2, PlaceBetKeeps, PlaceBetAtMost
<1> HIDE DEF p1
<1>4. /\ ps \in Table /\ \A t \in Seats \ {bb} : ps[t] = p1[t]
      /\ ps[bb].bet - p1[bb].bet = ps[bb].total - p1[bb].total
      /\ ps[bb].status = "AllIn" \/ ps[bb].bet = p1[bb].bet + BigBlind
  BY <1>1, <1>2, <1>3, PlaceBetKeeps
<1> HIDE DEF ps
<1>5. \A t \in Seats : /\ ps[t].bet \in Nat /\ ps[t].total \in Nat
                       /\ p1[t].bet \in Nat /\ p1[t].total \in Nat
  BY <1>3, <1>4 DEF Table, PlayerState
<1>6. /\ \A t \in Seats \ {sb, bb} : ps[t].bet = 0 /\ ps[t].total = 0
      /\ p1[bb].bet = 0 /\ p1[bb].total = 0
      /\ ps[sb].bet = ps[sb].total /\ ps[bb].bet = ps[bb].total
      /\ ps[sb].bet <= SmallBlind
      /\ ps[sb].status = "AllIn" \/ ps[sb].bet = SmallBlind
      /\ ps[bb].status = "AllIn" \/ ps[bb].bet = BigBlind
  BY <1>1, <1>2, <1>3, <1>4, <1>5
<1>7. Level(ps)
  <2>1. \A t \in Seats : ps[t].bet = ps[t].total
    BY <1>6
  <2> QED BY <1>5, <2>1 DEF Level, CanAct
<1>8. /\ bet \in Nat /\ ps[sb].bet <= bet /\ ps[bb].bet <= bet
      /\ bet = ps[sb].bet \/ bet = ps[bb].bet
  BY <1>1, <1>5
<1>9. \A t \in CanAct(ps) : t \in Seats /\ ps[t].status # "AllIn"
  BY DEF CanAct
<1> HIDE DEF bet
<1>10. ASSUME NEW x \in CanAct(ps), NEW t \in CanAct(ps),
              ps[x].bet < bet, Ahead(next, t) <= Ahead(next, x)
       PROVE  ps[t].bet < bet
  <2>1. x # bb
    BY <1>1, <1>2, <1>5, <1>6, <1>8, <1>9, <1>10
  <2>2. next \in CanAct(ps) /\ next # bb /\ Ahead(bb, next) <= Ahead(bb, x) /\ x \in Seats
    BY <1>1, <1>9, <2>1, FirstAfterNearest DEF NextActive, CanAct
  <2>3. t # bb /\ t \in Seats
    BY <1>1, <1>9, <1>10, <2>1, <2>2, AheadOrder
  <2>4. CASE t \notin {sb, bb}
    <3>1. ps[t].bet = 0 /\ ps[x].bet \in Nat
      BY <1>5, <1>6, <2>2, <2>3, <2>4
    <3> QED BY <1>8, <1>10, <3>1
  <2>5. CASE t = sb /\ x = sb
    BY <1>10, <2>5
  <2>6. CASE t = sb /\ x # sb
    <3>1. Ahead(bb, next) <= Ahead(bb, t)
      BY <1>1, <1>10, <2>3, FirstAfterNearest DEF NextActive, CanAct
    <3>2. Ahead(bb, t) <= Ahead(bb, x)
      BY <1>1, <1>9, <1>10, <2>1, <2>2, <2>3, <3>1, AheadOrder
    <3>3. Ahead(bb, x) < Ahead(bb, sb) /\ Ahead(bb, x) \in Int /\ Ahead(bb, sb) \in Int
      BY <1>1, <2>1, <2>2, <2>6, SeatingAssumption DEF Ahead, Seats
    <3> QED BY <2>6, <3>2, <3>3
  <2> QED BY <2>3, <2>4, <2>5, <2>6
<1>11. /\ phase' = "PreFlop" /\ player' = ps
       /\ round' = [round EXCEPT !.bet = bet, !.actionIdx = next, !.lastRaiser = bb, !.acts = 0]
  BY DEF OpenPreFlop, PostBlinds, ps, p1, bet, sb, bb
<1>12. round'.bet = bet /\ round'.actionIdx = next
  <2> HIDE DEF next
  <2>1. round \in RoundState
    BY DEF SInv, IInv, Balanced
  <2> QED BY <1>11, <2>1 DEF RoundState
<1> HIDE DEF next
<1> QED BY <1>7, <1>10, <1>11, <1>12 DEF Streets, BettingPhases, Level, OwersFollow, CanAct

LEMMA ApplyStreetStreets ==
  ASSUME SInv, ApplyStreet
  PROVE  Streets'
<1> DEFINE qs == ResetForNewRound(player)
           r == NewRound(qs, round)
           bd == IF board = 0 THEN 3 ELSE board + 1
           ph == PhaseWithBoard(bd)
<1>1. player \in Table /\ Even(player)
  BY DEF SInv, IInv, Balanced, Streets, ApplyStreet
<1>2. /\ Even(qs) /\ Level(qs) /\ OwersFollow(qs, r) /\ (\A s \in CanAct(qs) : qs[s].bet = 0)
      /\ qs \in Table
  BY <1>1, NewRoundStreets
<1>3. bd \in {3, 4, 5}
  BY DEF ApplyStreet
<1>4. ph \in BettingPhases
  BY <1>3 DEF PhaseWithBoard, BettingPhases
<1>5. \/ EndBettingRound(qs, r, ph, bd)
      \/ phase' = ph /\ player' = qs /\ round' = r
  BY DEF ApplyStreet
<1> HIDE DEF qs, r, bd, ph
<1>6. CASE EndBettingRound(qs, r, ph, bd)
  BY <1>2, <1>4, <1>6, EndBettingRoundStreets
<1>7. CASE phase' = ph /\ player' = qs /\ round' = r
  BY <1>2, <1>4, <1>7 DEF Streets, BettingPhases, Level, OwersFollow, CanAct
<1> QED BY <1>5, <1>6, <1>7

LEMMA StepKeepsStreets == SInv /\ [Next]_vars => SInv'
<1> SUFFICES ASSUME SInv, [Next]_vars PROVE SInv'
  OBVIOUS
<1>1. IInv'
  BY StepKeeps DEF SInv
<1>2. CASE StartHand \/ StartHandCrypto
  BY <1>1, <1>2, OpenPreFlopStreets, PokerAssumption DEF StartHand, StartHandCrypto, SInv
<1>3. ASSUME NEW s \in Seats, ApplyAction(s) PROVE SInv'
  BY <1>1, <1>3, FoldStreets, CheckStreets, CallStreets, AllInStreets, RaiseStreets
     DEF ApplyAction, SInv
<1>4. ASSUME NEW s \in Seats, ApplyHoleReveal(s) PROVE SInv'
  <2>1. phase' \in {"Showdown", "Settled"}
    BY <1>4 DEF ApplyHoleReveal, DistributePots
  <2> QED BY <1>1, <2>1 DEF SInv, Streets, BettingPhases
<1>5. CASE ApplyStreet
  BY <1>1, <1>5, ApplyStreetStreets DEF SInv
<1>6. CASE NextHand
  BY <1>1, <1>6 DEF NextHand, NewHand, ResetForNewHand, SInv, Streets, BettingPhases
<1>7. CASE UNCHANGED vars
  BY <1>1, <1>7 DEF vars, SInv, Streets, Level, Even, OwersFollow, CanAct
<1> QED BY <1>2, <1>3, <1>4, <1>5, <1>6, <1>7 DEF Next

LEMMA InitStreets == Init => SInv
  BY InitEstablishes DEF Init, SInv, Streets, BettingPhases

LEMMA StreetInvariance == Spec => []SInv
  BY InitStreets, StepKeepsStreets, PTL DEF Spec

\* No street opens, and the table waits for none, while a seat that can still
\* bet has put in less than another: counting the actions of a round against
\* the seats that can act never closes it too early for that.
THEOREM StreetTheorem == Spec => []StreetMatched
<1>1. SInv => StreetMatched
  <2> SUFFICES ASSUME SInv,
                      phase = "AwaitingStreet"
                        \/ (phase \in BettingPhases \ {"PreFlop"} /\ round.acts = 0),
                      NEW s \in CanAct(player), NEW t \in CanAct(player)
               PROVE  player[s].total = player[t].total
    BY DEF StreetMatched
  <2>1. CASE phase = "AwaitingStreet"
    BY <2>1 DEF SInv, Streets, Even
  <2>2. CASE phase \in BettingPhases \ {"PreFlop"} /\ round.acts = 0
    <3>1. player[s].bet = 0 /\ player[t].bet = 0
          /\ player[s].total - player[s].bet = player[t].total - player[t].bet
      BY <2>2 DEF SInv, Streets, Level
    <3>2. player[s].total \in Nat /\ player[t].total \in Nat
      BY DEF SInv, IInv, TypeOK, CanAct, PlayerState
    <3> QED BY <3>1, <3>2
  <2> QED BY <2>1, <2>2
<1> QED BY <1>1, StreetInvariance, PTL

-----------------------------------------------------------------------------
(* Showdowns *)

\* In crypto mode the river is the only street with a full board, and a machine
\* pays a contested pot only with every remaining hand shown.
DecidedInFull ==
  /\ phase \in {"River", "Showdown"} => board = 5
  /\ phase = "Settled" /\ Cardinality(InHand(player)) > 1 =>
       board = 5 /\ InHand(player) \subseteq known

DInv == IInv /\ (CryptoMode => DecidedInFull)

LEMMA PayKeepsInHand ==
  ASSUME NEW ps \in Table, NEW won
  PROVE  InHand(Pay(ps, won)) = InHand(ps)
  BY DEF Pay, InHand, Table, PlayerState

LEMMA StartShowdownInFull ==
  ASSUME CryptoMode, NEW ps \in Table, NEW r, StartShowdown(ps, r, 5)
  PROVE  DecidedInFull'
<1>1. board' = 5 /\ known' = known
  BY DEF StartShowdown
<1>2. CASE MissingReveals(ps, known) = {} /\ DistributePots(ps)
  <2>1. PICK won : player' = Pay(ps, won) /\ phase' = "Settled"
    BY <1>2 DEF DistributePots
  <2>2. InHand(player') \subseteq known'
    BY <1>1, <1>2, <2>1, PayKeepsInHand DEF MissingReveals
  <2>3. InHand(player)' = InHand(player')
    BY DEF InHand
  <2> QED BY <1>1, <2>2, <2>3 DEF DecidedInFull
<1>3. CASE phase' = "Showdown"
  BY <1>1, <1>3 DEF DecidedInFull
<1> QED BY <1>2, <1>3 DEF StartShowdown

LEMMA EndBettingRoundInFull ==
  ASSUME CryptoMode, NEW ps \in Table, NEW r, NEW ph, NEW bd,
         ph = "River" => bd = 5, EndBettingRound(ps, r, ph, bd)
  PROVE  DecidedInFull'
<1>1. CASE ph = "River" /\ StartShowdown(ps, r, bd)
  BY <1>1, StartShowdownInFull
<1>2. CASE phase' = "AwaitingStreet"
  BY <1>2 DEF DecidedInFull
<1> QED BY <1>1, <1>2 DEF EndBettingRound

LEMMA AfterActionInFull ==
  ASSUME CryptoMode, DecidedInFull, NEW s, NEW ps \in Table, NEW betting,
         phase \in BettingPhases, AfterAction(s, ps, betting)
  PROVE  DecidedInFull'
<1>1. PICK r : \/ Cardinality(InHand(ps)) = 1 /\ ResolveSingleWinner(ps, r)
               \/ EndBettingRound(ps, r, phase, board)
               \/ UNCHANGED <<phase, board>>
  BY DEF AfterAction
<1>2. CASE Cardinality(InHand(ps)) = 1 /\ ResolveSingleWinner(ps, r)
  <2>1. PICK won : player' = Pay(ps, won)
    BY <1>2 DEF ResolveSingleWinner
  <2>2. Cardinality(InHand(player')) = 1 /\ InHand(player)' = InHand(player')
    BY <1>2, <2>1, PayKeepsInHand DEF InHand
  <2> QED BY <1>2, <2>2 DEF DecidedInFull, ResolveSingleWinner
<1>3. CASE EndBettingRound(ps, r, phase, board)
  BY <1>3, EndBettingRoundInFull DEF DecidedInFull
<1>4. CASE UNCHANGED <<phase, board>>
  BY <1>4 DEF DecidedInFull, BettingPhases
<1> QED BY <1>1, <1>2, <1>3, <1>4

LEMMA ApplyActionInFull ==
  ASSUME CryptoMode, DInv, NEW s \in Seats, ApplyAction(s)
  PROVE  DecidedInFull'
<1>1. DecidedInFull /\ player \in Table /\ OnTurn(s) /\ phase \in BettingPhases
  BY DEF DInv, IInv, Balanced, ApplyAction, Fold, Check, Call, AllIn, Raise, OnTurn
<1>2. PICK ps, betting :
        /\ AfterAction(s, ps, betting)
        /\ \/ ps = player \/ ps = [player EXCEPT ![s].status = "Folded"]
           \/ \E amount \in Nat : ps = PlaceBet(player, s, amount)
  <2>1. ToCall(s) \in Nat /\ player[s].stack \in Nat
    BY <1>1, ActorOwesNoLess DEF DInv, Table, PlayerState
  <2>2. CASE Fold(s)
    BY <2>2 DEF Fold
  <2>3. CASE Check(s)
    BY <2>3 DEF Check
  <2>4. CASE Call(s)
    BY <2>1, <2>4 DEF Call
  <2>5. CASE AllIn(s)
    BY <2>1, <2>5 DEF AllIn
  <2>6. ASSUME NEW amount \in RaiseAmounts, Raise(s, amount)
        PROVE  \E a \in Nat : \E r : AfterAction(s, PlaceBet(player, s, a), r)
    <3>1. ToCall(s) + amount \in Nat
      BY <2>1, PokerAssumption
    <3> QED BY <2>6, <3>1 DEF Raise
  <2> QED BY <2>2, <2>3, <2>4, <2>5, <2>6 DEF ApplyAction
<1>3. ps \in Table
  <2>1. CASE ps = [player EXCEPT ![s].status = "Folded"]
    BY <1>1, <2>1 DEF Table, PlayerState, Statuses
  <2>2. ASSUME NEW amount \in Nat, ps = PlaceBet(player, s, amount) PROVE ps \in Table
    BY <1>1, <2>2, PlaceBetKeeps
  <2> QED BY <1>1, <1>2, <2>1, <2>2
<1> QED BY <1>1, <1>2, <1>3, AfterActionInFull

LEMMA ApplyStreetInFull ==
  ASSUME CryptoMode, DInv, ApplyStreet
  PROVE  DecidedInFull'
<1> DEFINE qs == ResetForNewRound(player)
           r == NewRound(qs, round)
           bd == IF board = 0 THEN 3 ELSE board + 1
<1>1. qs \in Table
  BY DEF DInv, IInv, Balanced, ResetForNewRound, Table, PlayerState
<1>2. bd \in {3, 4, 5} /\ (PhaseWithBoard(bd) = "River" => bd = 5)
      /\ PhaseWithBoard(bd) \in {"Flop", "Turn", "River"}
  BY DEF ApplyStreet, PhaseWithBoard
<1>3. \/ EndBettingRound(qs, r, PhaseWithBoard(bd), bd)
      \/ phase' = PhaseWithBoard(bd) /\ board' = bd
  BY DEF ApplyStreet
<1> HIDE DEF qs, r, bd
<1> QED BY <1>1, <1>2, <1>3, EndBettingRoundInFull DEF DecidedInFull

LEMMA ApplyHoleRevealInFull ==
  ASSUME CryptoMode, DInv, NEW s \in Seats, ApplyHoleReveal(s)
  PROVE  DecidedInFull'
<1>1. phase = "Showdown" /\ board' = 5 /\ player \in Table
  BY DEF ApplyHoleReveal, DInv, DecidedInFull, IInv, Balanced
<1>2. CASE MissingReveals(player, known') = {} /\ DistributePots(player)
  <2>1. PICK won : player' = Pay(player, won)
    BY <1>2 DEF DistributePots
  <2>2. InHand(player') \subseteq known' /\ InHand(player)' = InHand(player')
    BY <1>1, <1>2, <2>1, PayKeepsInHand DEF MissingReveals, InHand
  <2> QED BY <1>1, <1>2, <2>2 DEF DecidedInFull, DistributePots
<1>3. CASE UNCHANGED phase
  BY <1>1, <1>3 DEF DecidedInFull
<1> QED BY <1>2, <1>3 DEF ApplyHoleReveal

LEMMA StepKeepsInFull == DInv /\ [Next]_vars => DInv'
<1> SUFFICES ASSUME DInv, [Next]_vars PROVE DInv'
  OBVIOUS
<1>1. IInv' /\ CryptoMode' = CryptoMode
  BY StepKeeps DEF DInv
<1> SUFFICES ASSUME CryptoMode PROVE DecidedInFull'
  BY <1>1 DEF DInv
<1>2. CASE phase' \in {"PreFlop", "Waiting"}
  BY <1>2 DEF DecidedInFull
<1>3. CASE StartHand \/ StartHandCrypto \/ NextHand
  BY <1>2, <1>3 DEF StartHand, StartHandCrypto, OpenPreFlop, NextHand, NewHand
<1>4. ASSUME NEW s \in Seats, ApplyAction(s) PROVE DecidedInFull'
  BY <1>4, ApplyActionInFull
<1>5. ASSUME NEW s \in Seats, ApplyHoleReveal(s) PROVE DecidedInFull'
  BY <1>5, ApplyHoleRevealInFull
<1>6. CASE ApplyStreet
  BY <1>6, ApplyStreetInFull
<1>7. CASE UNCHANGED vars
  BY <1>7 DEF vars, DInv, DecidedInFull, InHand
<1> QED BY <1>3, <1>4, <1>5, <1>6, <1>7 DEF Next

LEMMA InitInFull == Init => DInv
  BY InitEstablishes DEF Init, DInv, DecidedInFull

LEMMA InFullInvariance == Spec => []DInv
  BY InitInFull, StepKeepsInFull, PTL DEF Spec

\* A crypto-mode hand that more than one seat takes to the end is decided on a
\* full board with all of their cards known: no sequence of all-ins, folds and
\* early reveals reaches the payout with a street or a hand still covered.
THEOREM ShowdownTheorem == Spec => []ShowdownComplete
<1>1. DInv => ShowdownComplete
  BY DEF DInv, DecidedInFull, ShowdownComplete
<1> QED BY <1>1, InFullInvariance, PTL

-----------------------------------------------------------------------------
(* The slices *)

\* The smaller of two numbers of chips.
Lesser(a, b) == IF a <= b THEN a ELSE b

\* What the slice opened by q takes from every seat eligible for it.
Height(ps, q) == IF Opens(ps, q) THEN ps[q].total - LevelBelow(ps, q) ELSE 0

\* The slices opened up to level l, one upon the other.
Stacked(ps, l) == [q \in Seats |-> IF ps[q].total <= l THEN Height(ps, q) ELSE 0]

IsLevel(ps, l) == l = 0 \/ \E q \in Seats : l = ps[q].total

LEMMA LevelBelowIs ==
  ASSUME NEW ps \in Table, NEW q \in Seats
  PROVE  /\ LevelBelow(ps, q) \in Nat /\ IsLevel(ps, LevelBelow(ps, q))
         /\ LevelBelow(ps, q) <= ps[q].total
         /\ ps[q].total > 0 => LevelBelow(ps, q) < ps[q].total
         /\ \A r \in Seats : ps[r].total < ps[q].total => ps[r].total <= LevelBelow(ps, q)
<1> DEFINE below == {r \in Seats : ps[r].total < ps[q].total}
           gaps == {ps[q].total - ps[r].total : r \in below}
<1>0. \A r \in Seats : ps[r].total \in Nat
  BY DEF Table, PlayerState
<1>1. CASE below = {}
  <2>1. LevelBelow(ps, q) = 0
    BY <1>1 DEF LevelBelow
  <2> QED BY <1>0, <1>1, <2>1 DEF IsLevel
<1>2. CASE below # {}
  <2>1. gaps \in SUBSET Nat /\ gaps # {}
    BY <1>0, <1>2
  <2>2. Least(gaps) \in gaps /\ \A y \in gaps : Least(gaps) <= y
    BY <2>1, LeastExists
  <2>3. LevelBelow(ps, q) = ps[q].total - Least(gaps)
    BY <1>2 DEF LevelBelow
  <2>4. PICK r \in below : Least(gaps) = ps[q].total - ps[r].total
    BY <2>2
  <2>5. LevelBelow(ps, q) = ps[r].total
    BY <1>0, <2>3, <2>4
  <2>6. ASSUME NEW x \in Seats, ps[x].total < ps[q].total
        PROVE  ps[x].total <= LevelBelow(ps, q)
    <3>1. Least(gaps) <= ps[q].total - ps[x].total
      BY <2>2, <2>6
    <3> QED BY <1>0, <2>4, <2>5, <3>1
  <2> QED BY <1>0, <2>4, <2>5, <2>6 DEF IsLevel
<1> QED BY <1>1, <1>2

\* Each positive contribution is opened by exactly one seat.
LEMMA OneOpens ==
  ASSUME NEW ps \in Table, NEW q \in Seats, ps[q].total > 0
  PROVE  \E o \in Seats : /\ Opens(ps, o) /\ ps[o].total = ps[q].total
                          /\ \A x \in Seats : Opens(ps, x) /\ ps[x].total = ps[q].total => x = o
<1> DEFINE same == {r \in Seats : ps[r].total = ps[q].total}
           o == Least(same)
<1>1. same \in SUBSET Nat /\ same # {}
  BY SeatingAssumption DEF Seats
<1>2. o \in same /\ \A y \in same : o <= y
  BY <1>1, LeastExists
<1>3. o \in Seats /\ o \in Int /\ ps[o].total = ps[q].total
  BY <1>2 DEF Seats
<1>4. \A y \in Seats : y \in Int /\ (ps[y].total = ps[q].total => o <= y)
  BY <1>2 DEF Seats
<1> HIDE DEF o
<1>5. Opens(ps, o)
  <2>1. ASSUME NEW r \in Seats, r < o PROVE ps[r].total # ps[q].total
    <3>1. r \in Int /\ ~ (o <= r)
      BY <1>3, <1>4, <2>1
    <3> QED BY <1>4, <3>1
  <2> HIDE DEF same
  <2> QED BY <1>3, <2>1 DEF Opens
<1>6. ASSUME NEW x \in Seats, Opens(ps, x), ps[x].total = ps[q].total PROVE x = o
  <2>1. ~ (o < x)
    BY <1>3, <1>6 DEF Opens
  <2> QED BY <1>3, <1>4, <1>6, <2>1
<1> QED BY <1>3, <1>5, <1>6

LEMMA HeightNat ==
  ASSUME NEW ps \in Table, NEW q \in Seats
  PROVE  Height(ps, q) \in Nat
<1>1. LevelBelow(ps, q) \in Nat /\ LevelBelow(ps, q) <= ps[q].total /\ ps[q].total \in Nat
  BY LevelBelowIs DEF Table, PlayerState
<1> QED BY <1>1 DEF Height

\* The slices up to a level reach exactly that level.
LEMMA StackedReach ==
  ASSUME NEW ps \in Table, NEW l \in Nat, IsLevel(ps, l)
  PROVE  SumOver(Stacked(ps, l)) = l
<1> DEFINE Reach(k) == IsLevel(ps, k) => SumOver(Stacked(ps, k)) = k
           T == {n \in Nat : \A k \in 0 .. n : Reach(k)}
<1>1. \A r \in Seats : ps[r].total \in Nat
  BY DEF Table, PlayerState
<1>2. \A k \in Nat : Stacked(ps, k) \in [Seats -> Int]
  BY HeightNat DEF Stacked
<1>3. 0 \in T
  <2>1. \A q \in Seats : Stacked(ps, 0)[q] = 0
    BY <1>1 DEF Stacked, Height, Opens
  <2>2. Stacked(ps, 0) = [q \in Seats |-> 0]
    BY <2>1 DEF Stacked
  <2>3. SumOver(Stacked(ps, 0)) = 0
    BY <2>2, SumOverZero
  <2> QED BY <2>3
<1>4. ASSUME NEW n \in T PROVE n + 1 \in T
  <2> SUFFICES ASSUME IsLevel(ps, n + 1) PROVE SumOver(Stacked(ps, n + 1)) = n + 1
    OBVIOUS
  <2>1. PICK q \in Seats : ps[q].total = n + 1
    BY DEF IsLevel
  <2>2. PICK o \in Seats :
          /\ Opens(ps, o) /\ ps[o].total = n + 1
          /\ \A x \in Seats : Opens(ps, x) /\ ps[x].total = n + 1 => x = o
    BY <2>1, OneOpens
  <2> DEFINE b == LevelBelow(ps, o)
             low == Stacked(ps, b)
             high == Stacked(ps, n + 1)
  <2>3. /\ b \in Nat /\ IsLevel(ps, b) /\ b < n + 1
        /\ \A r \in Seats : ps[r].total < n + 1 => ps[r].total <= b
    BY <2>2, LevelBelowIs
  <2>4. SumOver(low) = b
    <3>1. b \in 0 .. n /\ \A k \in 0 .. n : Reach(k)
      BY <2>3
    <3> QED BY <2>3, <3>1
  <2>5. low \in [Seats -> Int] /\ high \in [Seats -> Int]
    BY <1>2, <2>3
  <2>6. low[o] = 0 /\ high[o] = n + 1 - b
    BY <2>2, <2>3 DEF Stacked, Height
  <2>7. ASSUME NEW x \in Seats \ {o} PROVE low[x] = high[x]
    <3>1. CASE ps[x].total <= b
      BY <1>1, <2>3, <3>1 DEF Stacked
    <3>2. CASE ~ (ps[x].total <= b)
      <4>1. low[x] = 0
        BY <3>2 DEF Stacked
      <4>2. ~ (ps[x].total < n + 1) /\ ps[x].total \in Nat
        BY <1>1, <2>3, <3>2
      <4>3. ~ (ps[x].total <= n + 1) \/ ~ Opens(ps, x)
        BY <2>2, <4>2
      <4>4. high[x] = 0
        BY <4>3 DEF Stacked, Height
      <4> QED BY <4>1, <4>4
    <3> QED BY <3>1, <3>2
  <2> HIDE DEF b, low, high
  <2>8. SumOver(high) = SumOver(low) + (high[o] - low[o])
    BY <2>5, <2>7, SumOverChange
  <2>9. SumOver(high) = n + 1
    BY <2>3, <2>4, <2>6, <2>8
  <2> QED BY <2>9 DEF high
<1>5. T = Nat
  <2> HIDE DEF T
  <2>1. T \in SUBSET Nat
    BY DEF T
  <2> QED BY <1>3, <1>4, <2>1, SetInduction
<1>6. l \in T
  BY <1>5
<1> QED BY <1>6

\* The slices up to the level of a stake hold, of every seat, what it has put
\* in up to that level.
LEMMA SlicesUpTo ==
  ASSUME NEW ps \in Table, NEW l \in Nat, IsLevel(ps, l)
  PROVE  SumOver([q \in Seats |-> IF ps[q].total <= l THEN Amount(ps, q) ELSE 0])
           = SumOver([r \in Seats |-> Lesser(ps[r].total, l)])
<1> DEFINE A == [q \in Seats |-> [r \in Seats |->
                   IF ps[q].total <= l /\ r \in Eligible(ps, q) THEN Height(ps, q) ELSE 0]]
<1>1. \A r \in Seats : ps[r].total \in Nat
  BY DEF Table, PlayerState
<1>2. A \in [Seats -> [Seats -> Int]]
  BY HeightNat
<1>3. ASSUME NEW q \in Seats
      PROVE  SumOver(A[q]) = IF ps[q].total <= l THEN Amount(ps, q) ELSE 0
  <2>1. CASE ps[q].total <= l
    <3>1. A[q] = [r \in Seats |-> IF r \in Eligible(ps, q) THEN Height(ps, q) ELSE 0]
      BY <2>1
    <3>2. Eligible(ps, q) \in SUBSET Seats /\ Height(ps, q) \in Int
      BY HeightNat DEF Eligible
    <3>3. SumOver(A[q]) = Height(ps, q) * Cardinality(Eligible(ps, q))
      BY <3>1, <3>2, SumOverConstant
    <3>4. Cardinality(Eligible(ps, q)) \in Nat
      BY <3>2, CardinalityOfSeats
    <3>5. 0 * Cardinality(Eligible(ps, q)) = 0
      BY <3>4
    <3>6. Height(ps, q) * Cardinality(Eligible(ps, q)) = Amount(ps, q)
      BY <3>5 DEF Height, Amount
    <3> QED BY <2>1, <3>3, <3>6
  <2>2. CASE ~ (ps[q].total <= l)
    <3>1. A[q] = [r \in Seats |-> 0]
      BY <2>2
    <3> QED BY <2>2, <3>1, SumOverZero
  <2> QED BY <2>1, <2>2
<1>4. ASSUME NEW r \in Seats
      PROVE  SumOver([q \in Seats |-> A[q][r]]) = Lesser(ps[r].total, l)
  <2> DEFINE m == Lesser(ps[r].total, l)
  <2>1. m \in Nat /\ IsLevel(ps, m)
    BY <1>1 DEF Lesser, IsLevel
  <2>2. ASSUME NEW q \in Seats PROVE A[q][r] = Stacked(ps, m)[q]
    <3>1. r \in Eligible(ps, q) <=> ps[q].total <= ps[r].total
      BY <1>1 DEF Eligible
    <3>2. (ps[q].total <= l /\ ps[q].total <= ps[r].total) <=> ps[q].total <= m
      BY <1>1 DEF Lesser
    <3> QED BY <3>1, <3>2 DEF Stacked
  <2>3. [q \in Seats |-> A[q][r]] = Stacked(ps, m)
    BY <2>2 DEF Stacked
  <2> QED BY <2>1, <2>3, StackedReach
<1> HIDE DEF A
<1>5. SumOver([q \in Seats |-> SumOver(A[q])])
        = SumOver([r \in Seats |-> SumOver([q \in Seats |-> A[q][r]])])
  BY <1>2, SumOverExchange
<1>6. [q \in Seats |-> SumOver(A[q])]
        = [q \in Seats |-> IF ps[q].total <= l THEN Amount(ps, q) ELSE 0]
  BY <1>3
<1>7. [r \in Seats |-> SumOver([q \in Seats |-> A[q][r]])]
        = [r \in Seats |-> Lesser(ps[r].total, l)]
  BY <1>4
<1> QED BY <1>5, <1>6, <1>7

\* Some stake is as large as any.
LEMMA LargestStake ==
  ASSUME NEW ps \in Table
  PROVE  \E q \in Seats : \A r \in Seats : ps[r].total <= ps[q].total
<1> DEFINE f == [s \in Seats |-> ps[s].total]
           b == SumOver(f)
           gaps == {b - f[s] : s \in Seats}
<1>1. f \in [Seats -> Nat]
  BY DEF Table, PlayerState
<1> HIDE DEF f
<1>2. b \in Nat /\ \A s \in Seats : f[s] \in Nat /\ f[s] <= b
  BY <1>1, SumOverNat, SumOverTerm
<1> HIDE DEF b
<1>3. gaps \in SUBSET Nat /\ gaps # {}
  BY <1>2, SeatingAssumption DEF Seats
<1>4. Least(gaps) \in gaps /\ \A y \in gaps : Least(gaps) <= y
  BY <1>3, LeastExists
<1>5. PICK q \in Seats : Least(gaps) = b - f[q]
  BY <1>4
<1>6. ASSUME NEW r \in Seats PROVE f[r] <= f[q]
  <2>1. b - f[q] <= b - f[r]
    BY <1>4, <1>5
  <2> QED BY <1>2, <2>1
<1> QED BY <1>6 DEF f

\* The slices add up to what was bet.
LEMMA TotalPotIs ==
  ASSUME NEW ps \in Table
  PROVE  TotalPot(ps) = SumOver([s \in Seats |-> ps[s].total])
<1>1. PICK q \in Seats : \A r \in Seats : ps[r].total <= ps[q].total
  BY LargestStake
<1> DEFINE l == ps[q].total
<1>2. l \in Nat /\ IsLevel(ps, l)
  BY DEF IsLevel, Table, PlayerState
<1>3. [x \in Seats |-> IF ps[x].total <= l THEN Amount(ps, x) ELSE 0]
        = [x \in Seats |-> Amount(ps, x)]
  BY <1>1
<1>4. [r \in Seats |-> Lesser(ps[r].total, l)] = [r \in Seats |-> ps[r].total]
  BY <1>1 DEF Lesser
<1> HIDE DEF l
<1> QED BY <1>2, <1>3, <1>4, SlicesUpTo DEF TotalPot

-----------------------------------------------------------------------------
(* The winners *)

\* A slice somebody in the hand is eligible for has a winner.
LEMMA WinnersFound ==
  ASSUME NEW ps, NEW q, NEW rank \in [InHand(ps) -> 1 .. N],
         Eligible(ps, q) \cap InHand(ps) # {}
  PROVE  Winners(ps, rank, q) # {}
<1> DEFINE candidates == Eligible(ps, q) \cap InHand(ps)
           gaps == {N - rank[t] : t \in candidates}
<1>1. \A t \in candidates : rank[t] \in 1 .. N
  OBVIOUS
<1>2. gaps \in SUBSET Nat /\ gaps # {}
  BY <1>1, SeatingAssumption
<1>3. Least(gaps) \in gaps /\ \A y \in gaps : Least(gaps) <= y
  BY <1>2, LeastExists
<1>4. PICK s \in candidates : Least(gaps) = N - rank[s]
  BY <1>3
<1>5. ASSUME NEW t \in candidates PROVE rank[t] <= rank[s]
  <2>1. N - rank[s] <= N - rank[t]
    BY <1>3, <1>4
  <2>2. rank[t] \in Int /\ rank[s] \in Int /\ N \in Int
    BY <1>1, SeatingAssumption
  <2> QED BY <2>1, <2>2
<1>6. s \in Winners(ps, rank, q)
  BY <1>5 DEF Winners
<1> QED BY <1>6

\* A slice with winners is handed out to the last chip, one without is passed
\* over.
LEMMA SharesAddUp ==
  ASSUME NEW ps \in Table, NEW rank, NEW d \in Seats, NEW q \in Seats
  PROVE  /\ [s \in Seats |-> Share(ps, rank, d, q, s)] \in [Seats -> Nat]
         /\ SumOver([s \in Seats |-> Share(ps, rank, d, q, s)])
              = IF Winners(ps, rank, q) = {} THEN 0 ELSE Amount(ps, q)
<1> DEFINE winners == Winners(ps, rank, q)
           n == Cardinality(winners)
           a == Amount(ps, q)
           w == ClosestLeftOfDealer(winners, d)
           share == [s \in Seats |-> Share(ps, rank, d, q, s)]
<1>1. winners \in SUBSET Seats /\ a \in Nat
  BY AmountNat DEF Winners, Eligible
<1>2. CASE winners = {}
  <2>1. share = [s \in Seats |-> 0]
    BY <1>2 DEF Share
  <2> QED BY <1>2, <2>1, SumOverZero
<1>3. CASE winners # {}
  <2>1. n \in Nat /\ n > 0 /\ w \in winners
    BY <1>1, <1>3, CardinalityOfSeats, FirstAfterFinds DEF ClosestLeftOfDealer
  <2> DEFINE each == a \div n
             odd == a % n
             evenly == [s \in Seats |-> IF s \in winners THEN each ELSE 0]
             rest == [s \in Seats |-> IF s = w THEN odd ELSE 0]
  <2>2. each \in Nat /\ odd \in Nat
    BY <1>1, <2>1, NatOperations
  <2>3. each * n + odd = a
    BY <1>1, <2>1
  <2>4. \A s \in Seats : share[s] = IF s \in winners
                                    THEN each + (IF s = w THEN odd ELSE 0) ELSE 0
    BY DEF Share
  <2> HIDE DEF each, odd, share, n, w, winners
  <2>5. \A s \in Seats : share[s] = evenly[s] + rest[s] /\ share[s] \in Nat
    BY <2>1, <2>2, <2>4
  <2>6. evenly \in [Seats -> Int] /\ rest \in [Seats -> Int]
    BY <2>2
  <2>7. share = [s \in Seats |-> evenly[s] + rest[s]] /\ share \in [Seats -> Nat]
    BY <2>5 DEF share
  <2>8. SumOver(evenly) = each * n
    BY <1>1, <2>2, SumOverConstant DEF n
  <2>9. SumOver(rest) = odd
    BY <1>1, <2>1, <2>2, SumOverSingle
  <2> HIDE DEF evenly, rest
  <2>10. SumOver(share) = SumOver(evenly) + SumOver(rest)
    BY <2>6, <2>7, SumOverPlus
  <2> QED BY <1>3, <2>3, <2>7, <2>8, <2>9, <2>10 DEF share, winners
<1> QED BY <1>2, <1>3

\* What the pots pay altogether: at most what is in them, and all of it if every
\* slice has a winner.
LEMMA WinningsAddUp ==
  ASSUME NEW ps \in Table, NEW rank, NEW d \in Seats
  PROVE  LET paid == SumOver(Winnings(ps, rank, d))
         IN  /\ paid <= TotalPot(ps)
             /\ (\A q \in Seats : Opens(ps, q) => Winners(ps, rank, q) # {})
                  => paid = TotalPot(ps)
<1> DEFINE A == [q \in Seats |-> [s \in Seats |-> Share(ps, rank, d, q, s)]]
           paidOf == [q \in Seats |-> SumOver(A[q])]
           amounts == [q \in Seats |-> Amount(ps, q)]
<1>1. \A q \in Seats : A[q] \in [Seats -> Nat] /\ SumOver(A[q])
          = IF Winners(ps, rank, q) = {} THEN 0 ELSE Amount(ps, q)
  BY SharesAddUp
<1>2. Winnings(ps, rank, d) = [s \in Seats |-> SumOver([q \in Seats |-> A[q][s]])]
  BY DEF Winnings
<1>3. A \in [Seats -> [Seats -> Int]]
  <2>1. A = [q \in Seats |-> A[q]]
    OBVIOUS
  <2> HIDE DEF A
  <2>2. \A q \in Seats : A[q] \in [Seats -> Int]
    BY <1>1
  <2> QED BY <2>1, <2>2
<1> HIDE DEF A
<1>4. SumOver(Winnings(ps, rank, d)) = SumOver(paidOf)
  BY <1>2, <1>3, SumOverExchange
<1>5. \A q \in Seats : Amount(ps, q) \in Nat
  BY AmountNat
<1>6. /\ paidOf \in [Seats -> Int] /\ amounts \in [Seats -> Int]
      /\ \A q \in Seats : paidOf[q] <= amounts[q]
  BY <1>1, <1>5
<1>7. TotalPot(ps) = SumOver(amounts)
  BY DEF TotalPot
<1>8. ASSUME \A q \in Seats : Opens(ps, q) => Winners(ps, rank, q) # {}
      PROVE  paidOf = amounts
  <2>1. \A q \in Seats : ~ Opens(ps, q) => Amount(ps, q) = 0
    BY DEF Amount
  <2> QED BY <1>1, <1>8, <2>1
<1> HIDE DEF paidOf, amounts
<1>9. SumOver(paidOf) <= SumOver(amounts)
  BY <1>6, SumOverMonotone
<1> QED BY <1>4, <1>7, <1>8, <1>9

\* What a seat has covered: of every stake, the part up to its own.
Covers(ps, s) == SumOver([r \in Seats |-> Lesser(ps[r].total, ps[s].total)])

\* Only seats in the hand win, and none more than it covered.
LEMMA WinningsCovered ==
  ASSUME NEW ps \in Table, NEW rank, NEW d \in Seats, NEW s \in Seats
  PROVE  LET won == Winnings(ps, rank, d)
         IN  /\ won[s] > 0 => s \in InHand(ps)
             /\ won[s] <= Covers(ps, s)
<1> DEFINE shares == [q \in Seats |-> Share(ps, rank, d, q, s)]
           upTo == [q \in Seats |-> IF ps[q].total <= ps[s].total THEN Amount(ps, q) ELSE 0]
<1>1. Winnings(ps, rank, d)[s] = SumOver(shares)
  BY DEF Winnings
<1>2. \A r \in Seats : ps[r].total \in Nat /\ Amount(ps, r) \in Nat
  BY AmountNat DEF Table, PlayerState
<1>3. ASSUME NEW q \in Seats
      PROVE  /\ shares[q] \in Nat
             /\ shares[q] # 0 => s \in InHand(ps) /\ ps[q].total <= ps[s].total
             /\ shares[q] <= Amount(ps, q)
  <2> DEFINE f == [x \in Seats |-> Share(ps, rank, d, q, x)]
  <2>1. f \in [Seats -> Nat]
        /\ SumOver(f) = IF Winners(ps, rank, q) = {} THEN 0 ELSE Amount(ps, q)
    BY SharesAddUp
  <2>2. f[s] <= SumOver(f)
    BY <2>1, SumOverTerm
  <2>3. shares[q] = f[s]
    OBVIOUS
  <2>4. f[s] # 0 => s \in Winners(ps, rank, q)
    BY DEF Share
  <2>5. s \in Winners(ps, rank, q) => s \in InHand(ps) /\ ps[s].total >= ps[q].total
    BY DEF Winners, Eligible
  <2> HIDE DEF f, shares
  <2>6. f[s] \in Nat
    BY <2>1
  <2> QED BY <1>2, <2>1, <2>2, <2>3, <2>4, <2>5, <2>6
<1>4. Winnings(ps, rank, d)[s] > 0 => s \in InHand(ps)
  <2> SUFFICES ASSUME s \notin InHand(ps) PROVE SumOver(shares) = 0
    BY <1>1
  <2>1. shares = [q \in Seats |-> 0]
    BY <1>3
  <2> QED BY <2>1, SumOverZero
<1>5. shares \in [Seats -> Int] /\ upTo \in [Seats -> Int]
  BY <1>2, <1>3
<1>6. \A q \in Seats : shares[q] <= upTo[q]
  <2> SUFFICES ASSUME NEW q \in Seats PROVE shares[q] <= upTo[q]
    OBVIOUS
  <2> HIDE DEF shares
  <2> QED BY <1>2, <1>3
<1>7. SumOver(upTo) = Covers(ps, s)
  BY <1>2, SlicesUpTo DEF Covers, IsLevel
<1> HIDE DEF shares, upTo
<1>8. SumOver(shares) <= SumOver(upTo)
  BY <1>5, <1>6, SumOverMonotone
<1> QED BY <1>1, <1>4, <1>7, <1>8

-----------------------------------------------------------------------------
(* The invariant *)

Bets(ps) == SumOver([s \in Seats |-> ps[s].total])

\* Somebody left in the hand has put in as much as anybody.
TopStake(ps) == \A t \in Seats : \E s \in InHand(ps) : ps[s].total >= ps[t].total

\* Somebody left in the hand has paid the table bet.
BetHeld(ps, r) == \E h \in InHand(ps) : ps[h].bet >= r.bet

\* Who bet this round had put in before it what the seats that can act had.
SamePrior(ps) ==
  \A h \in InHand(ps), s \in CanAct(ps) :
    ps[h].bet > 0 => ps[h].total - ps[h].bet >= ps[s].total - ps[s].bet

\* Heads-up a blind can put a seat all-in and leave the other alone to act.
ShortBlind == N = 2 /\ \E t \in Seats : entry[t] <= BigBlind

\* A seat is not asked to act alone without owing chips, but for short blinds.
Asked(ps, r) ==
  CanAct(ps) # {} =>
    \/ ps[r.actionIdx].bet < r.bet
    \/ \E t \in CanAct(ps) : t # r.actionIdx
    \/ ShortBlind
    \/ r.bet = 0 /\ \A t \in Seats : ps[t].total = 0

Contested(ps) == Cardinality(InHand(ps)) >= 2

NothingPaid == payouts = [s \in Seats |-> 0]

OpenHand ==
  /\ Contested(player)
  /\ NothingPaid
  /\ ~overRaised => TopStake(player)
  /\ phase = "Waiting" => \A s \in Seats : player[s].status = "Active"
  /\ phase \in BettingPhases => /\ SamePrior(player)
                                /\ Asked(player, round)
                                /\ ~overRaised => BetHeld(player, round)

Chips == IF phase = "Settled" THEN PotsPaidInFull /\ PaidWhatCovered ELSE OpenHand

CInv == SInv /\ Chips

-----------------------------------------------------------------------------
(* Ways a call ends *)

LEMMA StaysOpen ==
  ASSUME NEW ps, NEW r,
         phase' \in Phases \ {"Settled", "Waiting"}, player' = ps, round' = r,
         payouts' = payouts, entry' = entry, NothingPaid,
         Contested(ps), ~overRaised' => TopStake(ps),
         phase' \in BettingPhases =>
           SamePrior(ps) /\ Asked(ps, r) /\ (~overRaised' => BetHeld(ps, r))
  PROVE  Chips'
<1>1. Contested(player)' /\ NothingPaid'
  BY DEF Contested, InHand, NothingPaid
<1>2. ~overRaised' => TopStake(player)'
  BY DEF TopStake, InHand
<1>3. ShortBlind' <=> ShortBlind
  BY DEF ShortBlind
<1>4. phase' \in BettingPhases =>
        SamePrior(player)' /\ Asked(player, round)' /\ (~overRaised' => BetHeld(player, round)')
  BY <1>3 DEF SamePrior, Asked, BetHeld, InHand, CanAct
<1>5. phase' # "Settled" /\ phase' # "Waiting"
  OBVIOUS
<1> QED BY <1>1, <1>2, <1>4, <1>5 DEF Chips, OpenHand, BettingPhases

LEMMA Settles ==
  ASSUME NEW ps \in Table, NEW won \in [Seats -> Nat],
         phase' = "Settled", player' = Pay(ps, won),
         payouts' = [s \in Seats |-> payouts[s] + won[s]], entry' = entry, NothingPaid,
         SumOver(won) <= Bets(ps), ~overRaised' => SumOver(won) = Bets(ps),
         \A s \in Seats : won[s] > 0 =>
           /\ s \in InHand(ps)
           /\ \/ won[s] <= Covers(ps, s)
              \/ InHand(ps) = {s} /\ (overRaised' \/ ShortBlind)
  PROVE  Chips'
<1>1. payouts' = won
  <2>1. \A s \in Seats : payouts[s] + won[s] = won[s]
    BY DEF NothingPaid
  <2> QED BY <2>1
<1>2. InHand(player') = InHand(ps) /\ InHand(player)' = InHand(player')
  BY PayKeepsInHand DEF InHand
<1>3. \A s \in Seats : player'[s].total = ps[s].total
  BY DEF Pay, Table, PlayerState
<1>4. SumOver([s \in Seats |-> player'[s].total]) = Bets(ps)
  BY <1>3 DEF Bets
<1>5. PotsPaidInFull'
  BY <1>1, <1>4 DEF PotsPaidInFull
<1>6. ASSUME NEW s \in Seats
      PROVE  SumOver([r \in Seats |->
               IF player'[r].total <= player'[s].total THEN player'[r].total
                                                       ELSE player'[s].total]) = Covers(ps, s)
  <2>1. [r \in Seats |-> IF player'[r].total <= player'[s].total THEN player'[r].total
                                                                 ELSE player'[s].total]
          = [r \in Seats |-> Lesser(ps[r].total, ps[s].total)]
    BY <1>3 DEF Lesser
  <2> QED BY <2>1 DEF Covers
<1>7. PaidWhatCovered'
  <2> SUFFICES ASSUME NEW s \in Seats, won[s] > 0
               PROVE  /\ s \in InHand(ps)
                      /\ \/ won[s] <= Covers(ps, s)
                         \/ /\ InHand(ps) = {s}
                            /\ overRaised' \/ (N = 2 /\ \E t \in Seats : entry'[t] <= BigBlind)
    BY <1>1, <1>2, <1>6 DEF PaidWhatCovered
  <2> QED BY DEF ShortBlind
<1> QED BY <1>5, <1>7 DEF Chips

LEMMA DistributeChips ==
  ASSUME NEW ps \in Table, dealer \in Seats, NothingPaid, entry' = entry,
         ~overRaised' => TopStake(ps), DistributePots(ps)
  PROVE  Chips'
<1>1. PICK rank \in [InHand(ps) -> 1 .. N] :
        /\ phase' = "Settled"
        /\ player' = Pay(ps, Winnings(ps, rank, dealer))
        /\ payouts' = [s \in Seats |-> payouts[s] + Winnings(ps, rank, dealer)[s]]
  BY DEF DistributePots
<1> DEFINE won == Winnings(ps, rank, dealer)
<1>2. won \in [Seats -> Nat]
  BY WinningsNat
<1>3. TotalPot(ps) = Bets(ps)
  BY TotalPotIs DEF Bets
<1>4. /\ SumOver(won) <= TotalPot(ps)
      /\ (\A q \in Seats : Opens(ps, q) => Winners(ps, rank, q) # {})
           => SumOver(won) = TotalPot(ps)
  BY WinningsAddUp
<1>5. ASSUME ~overRaised', NEW q \in Seats PROVE Winners(ps, rank, q) # {}
  <2>1. PICK s \in InHand(ps) : ps[s].total >= ps[q].total
    BY <1>5 DEF TopStake
  <2>2. s \in Eligible(ps, q) \cap InHand(ps)
    BY <2>1 DEF Eligible, InHand
  <2> QED BY <2>2, WinnersFound
<1>6. \A s \in Seats : (won[s] > 0 => s \in InHand(ps)) /\ won[s] <= Covers(ps, s)
  BY WinningsCovered
<1> HIDE DEF won
<1> QED BY <1>1, <1>2, <1>3, <1>4, <1>5, <1>6, Settles DEF won

LEMMA SingleWinnerChips ==
  ASSUME NEW ps \in Table, NothingPaid, entry' = entry, Cardinality(InHand(ps)) = 1,
         overRaised' \/ ShortBlind \/ TopStake(ps), NEW r, ResolveSingleWinner(ps, r)
  PROVE  Chips'
<1>1. PICK w : InHand(ps) = {w}
  <2>1. IsFiniteSet(InHand(ps))
    BY SeatsFinite DEF InHand
  <2> QED BY <2>1, FS_Singleton
<1>2. w \in Seats
  BY <1>1 DEF InHand
<1> DEFINE won == [s \in Seats |-> IF s \in InHand(ps) THEN TotalPot(ps) ELSE 0]
<1>3. TotalPot(ps) \in Nat /\ TotalPot(ps) = Bets(ps)
  BY TotalPotNat, TotalPotIs DEF Bets
<1>4. /\ won \in [Seats -> Nat]
      /\ won = [s \in Seats |-> IF s = w THEN TotalPot(ps) ELSE 0]
  BY <1>1, <1>3
<1>5. SumOver(won) = Bets(ps)
  <2> HIDE DEF won
  <2>1. TotalPot(ps) \in Int
    BY <1>3
  <2> QED BY <1>2, <1>3, <1>4, <2>1, SumOverSingle
<1>6. ASSUME TopStake(ps) PROVE Covers(ps, w) = Bets(ps)
  <2>1. \A t \in Seats : ps[t].total <= ps[w].total
    <3>1. \A t \in Seats : ps[w].total >= ps[t].total
      BY <1>1, <1>6 DEF TopStake
    <3>2. \A t \in Seats : ps[t].total \in Nat
      BY DEF Table, PlayerState
    <3> QED BY <1>2, <3>1, <3>2
  <2>2. [t \in Seats |-> Lesser(ps[t].total, ps[w].total)] = [t \in Seats |-> ps[t].total]
    BY <2>1 DEF Lesser
  <2> QED BY <2>2 DEF Covers, Bets
<1>7. /\ phase' = "Settled" /\ player' = Pay(ps, won)
      /\ payouts' = [s \in Seats |-> payouts[s] + won[s]]
  BY DEF ResolveSingleWinner
<1>8. \A s \in Seats : won[s] > 0 => s = w /\ won[s] = Bets(ps)
  BY <1>3, <1>4
<1>9. Bets(ps) \in Nat /\ Bets(ps) <= Bets(ps)
  BY <1>3
<1> HIDE DEF won
<1>10. \A s \in Seats : won[s] > 0 =>
           /\ s \in InHand(ps)
           /\ \/ won[s] <= Covers(ps, s)
              \/ InHand(ps) = {s} /\ (overRaised' \/ ShortBlind)
  BY <1>1, <1>6, <1>8, <1>9
<1> QED BY <1>4, <1>5, <1>7, <1>9, <1>10, Settles

LEMMA ShowdownChips ==
  ASSUME NEW ps \in Table, dealer \in Seats, NothingPaid, entry' = entry, Contested(ps),
         ~overRaised' => TopStake(ps), NEW r, NEW bd, StartShowdown(ps, r, bd)
  PROVE  Chips'
<1>1. CASE DistributePots(ps)
  BY <1>1, DistributeChips
<1>2. CASE phase' = "Showdown" /\ player' = ps /\ payouts' = payouts
  <2>1. round' = r /\ phase' \in Phases \ {"Settled", "Waiting"} /\ phase' \notin BettingPhases
    BY <1>2 DEF StartShowdown, Phases, BettingPhases
  <2> QED BY <1>2, <2>1, StaysOpen
<1> QED BY <1>1, <1>2 DEF StartShowdown

\* A street that opens leaves the stakes as they are and every bet at zero.
LEMMA NewRoundChips ==
  ASSUME NEW ps \in Table, Contested(ps), NEW r
  PROVE  LET qs == ResetForNewRound(ps)
         IN  /\ qs \in Table /\ InHand(qs) = InHand(ps) /\ Contested(qs)
             /\ TopStake(ps) => TopStake(qs)
             /\ SamePrior(qs) /\ BetHeld(qs, NewRound(qs, r))
             /\ Cardinality(CanAct(qs)) >= 2 => Asked(qs, NewRound(qs, r))
<1> DEFINE qs == ResetForNewRound(ps)
           nr == NewRound(qs, r)
<1>1. qs \in Table /\ \A s \in Seats : /\ qs[s].total = ps[s].total /\ qs[s].status = ps[s].status
                                       /\ qs[s].status # "Folded" => qs[s].bet = 0
  BY DEF ResetForNewRound, InHand, Table, PlayerState
<1>2. nr.bet = 0
  BY DEF NewRound
<1> HIDE DEF qs, nr
<1>3. InHand(qs) = InHand(ps) /\ Contested(qs)
  BY <1>1 DEF InHand, Contested
<1>4. TopStake(ps) => TopStake(qs)
  BY <1>1, <1>3 DEF TopStake, InHand
<1>5. \A h \in InHand(qs) : qs[h].bet = 0
  BY <1>1 DEF InHand
<1>6. InHand(qs) # {}
  BY <1>3, FS_EmptySet DEF Contested
<1>7. SamePrior(qs) /\ BetHeld(qs, nr)
  BY <1>2, <1>5, <1>6 DEF SamePrior, BetHeld
<1>8. ASSUME Cardinality(CanAct(qs)) >= 2 PROVE \E t \in CanAct(qs) : t # nr.actionIdx
  <2>1. CASE CanAct(qs) \subseteq {nr.actionIdx}
    <3>1. CanAct(qs) = {} \/ CanAct(qs) = {nr.actionIdx}
      BY <2>1
    <3>2. Cardinality(CanAct(qs)) = 0 \/ Cardinality(CanAct(qs)) = 1
      <4>1. Cardinality({}) = 0
        BY FS_EmptySet
      <4>2. Cardinality({nr.actionIdx}) = 1
        BY FS_Singleton
      <4> QED BY <3>1, <4>1, <4>2
    <3> QED BY <1>8, <3>2
  <2> QED BY <2>1
<1>9. Cardinality(CanAct(qs)) >= 2 => Asked(qs, nr)
  BY <1>8 DEF Asked
<1> QED BY <1>1, <1>3, <1>4, <1>7, <1>9 DEF qs, nr

LEMMA EndBettingRoundChips ==
  ASSUME NEW ps \in Table, dealer \in Seats, NothingPaid, entry' = entry, Contested(ps),
         ~overRaised' => TopStake(ps),
         NEW r, NEW ph \in BettingPhases, NEW bd, EndBettingRound(ps, r, ph, bd)
  PROVE  Chips'
<1>1. CASE ph = "River" /\ StartShowdown(ps, r, bd)
  BY <1>1, ShowdownChips
<1>2. CASE ph # "River" /\ DealStreet(ps, r, ph)
  <2> DEFINE qs == ResetForNewRound(ps)
             nr == NewRound(qs, r)
  <2>1. /\ qs \in Table /\ Contested(qs) /\ (TopStake(ps) => TopStake(qs))
        /\ SamePrior(qs) /\ BetHeld(qs, nr)
        /\ Cardinality(CanAct(qs)) >= 2 => Asked(qs, nr)
    BY NewRoundChips
  <2>2. NextPhase(ph) \in BettingPhases /\ NextPhase(ph) \in Phases \ {"Settled", "Waiting"}
    BY <1>2 DEF BettingPhases, NextPhase, Phases
  <2>3. \/ /\ Cardinality(CanAct(qs)) >= 2
           /\ phase' = NextPhase(ph) /\ player' = qs /\ round' = nr /\ payouts' = payouts
        \/ StartShowdown(qs, nr, 5)
        \/ StartShowdown(qs, nr, BoardAt(NextPhase(ph)))
    BY <1>2 DEF DealStreet
  <2> HIDE DEF qs, nr
  <2>4. CASE /\ Cardinality(CanAct(qs)) >= 2
             /\ phase' = NextPhase(ph) /\ player' = qs /\ round' = nr /\ payouts' = payouts
    BY <2>1, <2>2, <2>4, StaysOpen
  <2>5. CASE StartShowdown(qs, nr, 5)
    BY <2>1, <2>5, ShowdownChips
  <2>6. CASE StartShowdown(qs, nr, BoardAt(NextPhase(ph)))
    BY <2>1, <2>6, ShowdownChips
  <2> QED BY <2>3, <2>4, <2>5, <2>6
<1>3. CASE phase' = "AwaitingStreet" /\ player' = ps /\ round' = r /\ payouts' = payouts
  <2>1. phase' \in Phases \ {"Settled", "Waiting"} /\ phase' \notin BettingPhases
    BY <1>3 DEF Phases, BettingPhases
  <2> QED BY <1>3, <2>1, StaysOpen
<1> QED BY <1>1, <1>2, <1>3 DEF EndBettingRound

\* What the action of seat s must leave: the hand still contested, and somebody
\* in it on top; or one seat in the hand, which short blinds may have let win
\* more than it covers.
LEMMA AfterActionChips ==
  ASSUME CInv, NEW s \in Seats, OnTurn(s),
         NEW ps, NEW betting, Acted(s, ps, betting), SamePrior(ps),
         Contested(ps) \/ Cardinality(InHand(ps)) = 1,
         ~overRaised' => \/ TopStake(ps) /\ BetHeld(ps, betting)
                         \/ ShortBlind /\ Cardinality(InHand(ps)) = 1,
         AfterAction(s, ps, betting)
  PROVE  Chips'
<1> DEFINE r == [betting EXCEPT !.acts = @ + 1, !.acted = @ \cup {s}]
           next == NextActive(ps, r.actionIdx)
           acts == betting.acts + 1
           acted == betting.acted \cup {s}
<1>1. /\ betting \in RoundState /\ betting.actionIdx = s
      /\ acts \in Nat /\ acts > 0 /\ acted \in SUBSET Seats
  BY DEF Acted, RoundState
<1>2. r = [betting EXCEPT !.acts = acts, !.acted = acted]
  OBVIOUS
<1>3. \/ Cardinality(InHand(ps)) = 1 /\ ResolveSingleWinner(ps, r)
      \/ Cardinality(InHand(ps)) # 1 /\ EndBettingRound(ps, r, phase, board)
      \/ /\ Cardinality(InHand(ps)) # 1
         /\ next # -1 /\ ~BettingRoundComplete(ps, r, next)
         /\ player' = ps
         /\ round' = [r EXCEPT !.actionIdx = next]
         /\ UNCHANGED <<phase, board, known, payouts>>
  BY DEF AfterAction
<1> HIDE DEF r, acts, acted
<1>4. /\ r \in RoundState /\ r.bet = betting.bet /\ r.actionIdx = s
      /\ r.acts \in Nat /\ r.acts > 0
  BY <1>1, <1>2 DEF RoundState
<1>5. /\ ps \in Table /\ next = NextActive(ps, s)
      /\ phase \in BettingPhases /\ dealer \in Seats /\ NothingPaid /\ entry' = entry
  BY <1>4 DEF Acted, OnTurn, CInv, SInv, IInv, TypeOK, Chips, OpenHand, BettingPhases, AfterAction
<1>6. CASE Cardinality(InHand(ps)) = 1 /\ ResolveSingleWinner(ps, r)
  BY <1>5, <1>6, SingleWinnerChips
<1>7. CASE Cardinality(InHand(ps)) # 1 /\ EndBettingRound(ps, r, phase, board)
  BY <1>5, <1>7, EndBettingRoundChips
<1>8. CASE /\ Cardinality(InHand(ps)) # 1
           /\ next # -1 /\ ~BettingRoundComplete(ps, r, next)
           /\ player' = ps
           /\ round' = [r EXCEPT !.actionIdx = next]
           /\ UNCHANGED <<phase, board, known, payouts>>
  <2> DEFINE rn == [r EXCEPT !.actionIdx = next]
  <2>1. CanAct(ps) # {}
    BY <1>5, <1>8, NextActiveFinds
  <2>2. next \in CanAct(ps) /\ next \in Seats
    BY <1>5, <2>1, NextActiveFinds DEF CanAct
  <2>3. rn.bet = r.bet /\ rn.actionIdx = next
    BY <1>4 DEF RoundState
  <2>4. ps[next].bet < r.bet \/ ~ (r.acts >= Cardinality(CanAct(ps)))
    BY <1>4, <1>5, <1>8, <2>2 DEF BettingRoundComplete, Table, PlayerState, RoundState
  <2>5. ASSUME ~ (r.acts >= Cardinality(CanAct(ps))) PROVE \E t \in CanAct(ps) : t # next
    <3>1. CASE CanAct(ps) \subseteq {next}
      <4>1. CanAct(ps) = {next}
        BY <2>2, <3>1
      <4>2. Cardinality(CanAct(ps)) = 1
        BY <4>1, FS_Singleton
      <4> QED BY <1>4, <2>5, <4>2
    <3> QED BY <3>1
  <2>6. Asked(ps, rn)
    BY <2>3, <2>4, <2>5 DEF Asked
  <2>7. ~overRaised' => TopStake(ps) /\ BetHeld(ps, rn)
    BY <1>4, <1>8, <2>3 DEF BetHeld
  <2>8. phase' \in Phases \ {"Settled", "Waiting"} /\ phase' \in BettingPhases
    BY <1>5, <1>8 DEF Phases, BettingPhases
  <2>9. player' = ps /\ round' = rn /\ payouts' = payouts
    BY <1>8
  <2> HIDE DEF rn, next
  <2> QED BY <1>5, <1>8, <2>6, <2>7, <2>8, <2>9, StaysOpen
<1> QED BY <1>3, <1>6, <1>7, <1>8

-----------------------------------------------------------------------------
(* The actions *)

LEMMA OnTurnFacts ==
  ASSUME CInv, NEW s \in Seats, OnTurn(s)
  PROVE  /\ player \in Table /\ round \in RoundState /\ round.actionIdx = s
         /\ s \in CanAct(player) /\ s \in InHand(player)
         /\ Contested(player) /\ SamePrior(player) /\ Asked(player, round)
         /\ Level(player) /\ OwersFollow(player, round)
         /\ \A t \in CanAct(player) : player[t].bet <= round.bet
         /\ ~overRaised => TopStake(player) /\ BetHeld(player, round)
         /\ \A t \in Seats : player[t].bet \in Nat /\ player[t].total \in Nat
         /\ round.bet \in Nat
<1>1. player \in Table /\ round \in RoundState /\ s \in CanAct(player) /\ round.actionIdx = s
  BY ActorOwesNoLess DEF CInv, SInv, IInv, Balanced, OnTurn
<1>2. s \in InHand(player)
  BY <1>1 DEF CanAct, InHand
<1>3. phase \in BettingPhases /\ phase # "Settled"
  BY DEF OnTurn, BettingPhases
<1>4. OpenHand
  BY <1>3 DEF CInv, Chips
<1>5. /\ Contested(player) /\ SamePrior(player) /\ Asked(player, round)
      /\ ~overRaised => TopStake(player) /\ BetHeld(player, round)
  BY <1>3, <1>4 DEF OpenHand
<1>6. Level(player) /\ OwersFollow(player, round)
  BY <1>3 DEF CInv, SInv, Streets
<1>7. \A t \in CanAct(player) : player[t].bet <= round.bet
  BY DEF CInv, SInv, IInv, Balanced, CanAct
<1>8. /\ \A t \in Seats : player[t].bet \in Nat /\ player[t].total \in Nat
      /\ round.bet \in Nat
  BY <1>1 DEF Table, PlayerState, RoundState
<1> QED BY <1>1, <1>2, <1>5, <1>6, <1>7, <1>8

\* Whoever folds leaves somebody who has put in as much, unless a short blind
\* made him act alone.
LEMMA FoldLeavesTop ==
  ASSUME CInv, NEW s \in Seats, OnTurn(s), ~overRaised,
         NEW ps, ps = [player EXCEPT ![s].status = "Folded"]
  PROVE  (TopStake(ps) /\ BetHeld(ps, round)) \/ ShortBlind
<1>1. /\ player \in Table /\ round.actionIdx = s
      /\ s \in CanAct(player) /\ s \in InHand(player)
      /\ Contested(player) /\ SamePrior(player) /\ Asked(player, round)
      /\ Level(player) /\ OwersFollow(player, round)
      /\ TopStake(player) /\ BetHeld(player, round)
      /\ round.bet \in Nat
  BY OnTurnFacts
<1>2. \A t \in Seats : player[t].bet \in Nat /\ player[t].total \in Nat
  BY OnTurnFacts
<1>3. /\ InHand(ps) = InHand(player) \ {s}
      /\ \A t \in Seats : ps[t].total = player[t].total /\ ps[t].bet = player[t].bet
  BY <1>1 DEF InHand, Table, PlayerState
\* Enough: somebody else in the hand who has put in as much and paid the bet.
<1>4. ASSUME NEW x \in InHand(player), x # s, player[x].bet >= round.bet,
             player[x].total >= player[s].total
      PROVE  TopStake(ps) /\ BetHeld(ps, round)
  <2>1. x \in InHand(ps) /\ x \in Seats /\ ps[x].bet >= round.bet
    BY <1>3, <1>4 DEF InHand
  <2>2. ASSUME NEW t \in Seats PROVE \E w \in InHand(ps) : ps[w].total >= ps[t].total
    <3>1. PICK w \in InHand(player) : player[w].total >= player[t].total
      BY <1>1 DEF TopStake
    <3>2. CASE w # s
      <4>1. w \in InHand(ps) /\ w \in Seats
        BY <1>3, <3>2 DEF InHand
      <4> QED BY <1>3, <3>1, <4>1
    <3>3. CASE w = s
      <4>1. player[x].total >= player[t].total
        BY <1>2, <1>4, <2>1, <3>1, <3>3
      <4> QED BY <1>3, <2>1, <4>1
    <3> QED BY <3>2, <3>3
  <2> QED BY <2>1, <2>2 DEF TopStake, BetHeld
<1>5. CASE player[s].bet < round.bet
  <2>1. PICK h \in InHand(player) : player[h].bet >= round.bet
    BY <1>1 DEF BetHeld
  <2>2. h \in Seats /\ h # s /\ player[h].bet > 0
    BY <1>1, <1>2, <1>5, <2>1 DEF InHand
  <2>3. player[h].total - player[h].bet >= player[s].total - player[s].bet
    BY <1>1, <2>2 DEF SamePrior
  <2>4. /\ player[h].total \in Nat /\ player[h].bet \in Nat
        /\ player[s].total \in Nat /\ player[s].bet \in Nat
    BY <1>2, <2>2
  <2>5. player[h].total >= player[s].total
    BY <1>1, <1>5, <2>1, <2>3, <2>4
  <2> QED BY <1>4, <2>1, <2>2, <2>5
<1>6. CASE ~ (player[s].bet < round.bet) /\ \E t \in CanAct(player) : t # s
  <2>1. PICK x \in CanAct(player) : x # s
    BY <1>6
  <2>2. x \in Seats /\ x \in InHand(player)
    BY <2>1 DEF CanAct, InHand
  <2>3. Ahead(s, s) <= Ahead(s, x)
    BY <2>2, SeatingAssumption DEF Ahead, Seats
  <2>4. ~ (player[x].bet < round.bet)
    BY <1>1, <1>6, <2>3 DEF OwersFollow
  <2>5. player[x].bet <= round.bet /\ player[s].bet <= round.bet
    BY <1>1, OnTurnFacts
  <2>6. player[x].total - player[x].bet = player[s].total - player[s].bet
    BY <1>1 DEF Level
  <2>7. player[x].bet >= round.bet /\ player[x].total >= player[s].total
    BY <1>1, <1>2, <1>6, <2>2, <2>4, <2>5, <2>6
  <2> QED BY <1>4, <2>1, <2>2, <2>7
<1>7. CASE round.bet = 0 /\ \A t \in Seats : player[t].total = 0
  <2>1. PICK x \in InHand(player) : x # s
    <3>1. CASE InHand(player) \subseteq {s}
      <4>1. InHand(player) = {s}
        BY <1>1, <3>1
      <4>2. Cardinality(InHand(player)) = 1
        BY <4>1, FS_Singleton
      <4> QED BY <1>1, <4>2 DEF Contested
    <3> QED BY <3>1
  <2>2. x \in Seats
    BY DEF InHand
  <2>3. player[x].bet >= round.bet /\ player[x].total >= player[s].total
    BY <1>2, <1>7, <2>2
  <2> QED BY <1>4, <2>1, <2>3
<1> QED BY <1>1, <1>5, <1>6, <1>7 DEF Asked

LEMMA FoldChips ==
  ASSUME CInv, NEW s \in Seats, Fold(s)
  PROVE  Chips'
<1> DEFINE ps == [player EXCEPT ![s].status = "Folded"]
<1>1. OnTurn(s) /\ AfterAction(s, ps, round) /\ (~overRaised' => ~overRaised)
  BY DEF Fold, AfterAction
<1>2. /\ player \in Table /\ round \in RoundState /\ round.actionIdx = s
      /\ s \in CanAct(player) /\ s \in InHand(player)
      /\ Contested(player) /\ SamePrior(player)
      /\ Level(player) /\ OwersFollow(player, round)
      /\ \A t \in CanAct(player) : player[t].bet <= round.bet
  BY <1>1, OnTurnFacts
<1>3. /\ ps \in Table /\ s \notin CanAct(ps) /\ CanAct(ps) \subseteq CanAct(player)
      /\ \A t \in CanAct(ps) : ps[t] = player[t]
      /\ InHand(ps) = InHand(player) \ {s}
      /\ \A t \in InHand(ps) : ps[t] = player[t]
  BY <1>2 DEF Table, PlayerState, Statuses, CanAct, InHand
<1>4. ~overRaised => (TopStake(ps) /\ BetHeld(ps, round)) \/ ShortBlind
  BY <1>1, FoldLeavesTop
<1> HIDE DEF ps
<1>5. Acted(s, ps, round)
  BY <1>2, <1>3 DEF Acted, Level, OwersFollow
<1>6. SamePrior(ps)
  BY <1>2, <1>3 DEF SamePrior
<1>7. Cardinality(InHand(ps)) = Cardinality(InHand(player)) - 1
  <2>1. IsFiniteSet(InHand(player))
    BY SeatsFinite DEF InHand
  <2> QED BY <1>2, <1>3, <2>1, FS_RemoveElement
<1>8. Cardinality(InHand(player)) \in Nat
  BY CardinalityOfSeats DEF InHand
<1>9. Contested(ps) \/ Cardinality(InHand(ps)) = 1
  BY <1>2, <1>7, <1>8 DEF Contested
<1>10. ShortBlind => Cardinality(InHand(ps)) = 1
  <2> SUFFICES ASSUME N = 2 PROVE Cardinality(InHand(player)) <= 2
    BY <1>2, <1>7, <1>8 DEF ShortBlind, Contested
  <2>1. Cardinality(Seats) = 2
    <3>1. Seats = 0 .. 1
      BY DEF Seats
    <3>2. 0 \in Int /\ 1 \in Int /\ ~(0 > 1) /\ 1 - 0 + 1 = 2
      OBVIOUS
    <3>3. Cardinality(0 .. 1) = IF 0 > 1 THEN 0 ELSE 1 - 0 + 1
      BY <3>2, FS_Interval, Zenon
    <3>4. Cardinality(0 .. 1) = 2
      BY <3>2, <3>3, Zenon
    <3> QED BY <3>1, <3>4, Zenon
  <2>2. InHand(player) \subseteq Seats
    BY DEF InHand
  <2>3. Cardinality(InHand(player)) <= Cardinality(Seats)
    BY <2>2, SeatsFinite, FS_Subset
  <2> QED BY <2>1, <2>3
<1> QED BY <1>1, <1>4, <1>5, <1>6, <1>9, <1>10, AfterActionChips

LEMMA CheckChips ==
  ASSUME CInv, NEW s \in Seats, Check(s)
  PROVE  Chips'
<1>1. OnTurn(s) /\ AfterAction(s, player, round) /\ (~overRaised' => ~overRaised)
  BY DEF Check, AfterAction
<1>2. /\ player \in Table /\ round \in RoundState /\ round.actionIdx = s
      /\ s \in CanAct(player)
      /\ Contested(player) /\ SamePrior(player)
      /\ Level(player) /\ OwersFollow(player, round)
      /\ \A t \in CanAct(player) : player[t].bet <= round.bet
      /\ ~overRaised => TopStake(player) /\ BetHeld(player, round)
  BY <1>1, OnTurnFacts
<1>3. player[s].bet = round.bet
  BY <1>2 DEF Check, ToCall, Table, PlayerState, RoundState
<1>4. Acted(s, player, round)
  BY <1>2, <1>3 DEF Acted, OwersFollow
<1> QED BY <1>1, <1>2, <1>4, AfterActionChips

\* A seat that is charged stays in the hand, with no smaller a stake.
LEMMA ChargeChips ==
  ASSUME CInv, NEW s \in Seats, OnTurn(s), NEW amount \in Nat,
         NEW r \in RoundState, r.actionIdx = s, r.bet >= round.bet,
         \/ PlaceBet(player, s, amount)[s].status = "AllIn"
         \/ player[s].bet + amount = r.bet,
         AfterAction(s, PlaceBet(player, s, amount), r)
  PROVE  Chips'
<1> DEFINE ps == PlaceBet(player, s, amount)
<1>1. /\ player \in Table /\ round.actionIdx = s
      /\ s \in CanAct(player) /\ s \in InHand(player)
      /\ Contested(player) /\ SamePrior(player) /\ Level(player)
      /\ ~overRaised => TopStake(player) /\ BetHeld(player, round)
      /\ round.bet \in Nat
  BY OnTurnFacts
<1>2. Acted(s, ps, r)
  BY ChargeActed DEF CInv
<1>3. /\ ps \in Table /\ \A t \in Seats \ {s} : ps[t] = player[t]
      /\ ps[s].bet - player[s].bet = ps[s].total - player[s].total
      /\ ps[s].bet >= player[s].bet
      /\ ps[s].status = "AllIn" \/ ps[s].status = player[s].status
  BY <1>1, PlaceBetKeeps
<1>4. AfterAction(s, ps, r)
  OBVIOUS
<1> HIDE DEF ps
<1>5. \A t \in Seats : /\ player[t].bet \in Nat /\ player[t].total \in Nat
                       /\ ps[t].bet \in Nat /\ ps[t].total \in Nat
  BY <1>1, <1>3 DEF Table, PlayerState
<1>6. InHand(ps) = InHand(player) /\ CanAct(ps) \subseteq CanAct(player)
  <2>1. \A t \in Seats \ {s} : ps[t].status = player[t].status
    BY <1>3
  <2>2. player[s].status = "Active" /\ ps[s].status \in {"AllIn", "Active"}
    BY <1>1, <1>3 DEF CanAct
  <2> QED BY <2>1, <2>2 DEF InHand, CanAct
<1>7. \A t \in Seats : /\ ps[t].total >= player[t].total /\ ps[t].bet >= player[t].bet
                       /\ ps[t].total - ps[t].bet = player[t].total - player[t].bet
  <2> SUFFICES ASSUME NEW t \in Seats
               PROVE  /\ ps[t].total >= player[t].total /\ ps[t].bet >= player[t].bet
                      /\ ps[t].total - ps[t].bet = player[t].total - player[t].bet
    OBVIOUS
  <2>1. CASE t = s
    BY <1>3, <1>5, <2>1
  <2>2. CASE t # s
    BY <1>3, <1>5, <2>2
  <2> QED BY <2>1, <2>2
<1>8. SamePrior(ps)
  <2> SUFFICES ASSUME NEW h \in InHand(player), NEW x \in CanAct(player), ps[h].bet > 0
               PROVE  player[h].total - player[h].bet >= player[x].total - player[x].bet
    <3>1. \A h \in InHand(ps), x \in CanAct(ps) :
            /\ h \in InHand(player) /\ x \in CanAct(player)
            /\ ps[h].total - ps[h].bet = player[h].total - player[h].bet
            /\ ps[x].total - ps[x].bet = player[x].total - player[x].bet
      BY <1>6, <1>7 DEF InHand, CanAct
    <3> QED BY <3>1 DEF SamePrior
  <2>1. CASE h = s
    <3>1. player[h].total - player[h].bet = player[x].total - player[x].bet
      BY <1>1, <2>1 DEF Level
    <3> QED BY <1>5, <3>1 DEF InHand, CanAct
  <2>2. CASE h # s
    <3>1. player[h].bet > 0
      BY <1>3, <2>2 DEF InHand
    <3> QED BY <1>1, <3>1 DEF SamePrior
  <2> QED BY <2>1, <2>2
<1>9. TopStake(player) => TopStake(ps)
  <2> SUFFICES ASSUME TopStake(player), NEW t \in Seats
               PROVE  \E w \in InHand(ps) : ps[w].total >= ps[t].total
    BY DEF TopStake
  <2>1. CASE t = s
    <3>1. s \in InHand(ps) /\ ps[s].total >= ps[s].total
      BY <1>1, <1>5, <1>6
    <3> QED BY <2>1, <3>1
  <2>2. CASE t # s
    <3>1. PICK w \in InHand(player) : player[w].total >= player[t].total
      BY DEF TopStake
    <3>2. w \in Seats /\ ps[w].total >= player[w].total /\ ps[t] = player[t]
      BY <1>3, <1>7, <2>2 DEF InHand
    <3>3. ps[w].total >= ps[t].total
      BY <1>5, <3>1, <3>2
    <3> QED BY <1>6, <3>3
  <2> QED BY <2>1, <2>2
<1>10. ~overRaised' => BetHeld(ps, r)
  <2> SUFFICES ASSUME ~overRaised' PROVE BetHeld(ps, r)
    OBVIOUS
  <2>1. ~overRaised /\ ~ (r.bet > round.bet /\ \A t \in InHand(ps) : ps[t].bet < r.bet)
    BY <1>4 DEF AfterAction
  <2>2. r.bet \in Nat
    BY DEF RoundState
  <2>3. CASE r.bet > round.bet
    <3>1. PICK t \in InHand(ps) : ~ (ps[t].bet < r.bet)
      BY <2>1, <2>3
    <3>2. ps[t].bet >= r.bet
      BY <1>5, <2>2, <3>1 DEF InHand
    <3> QED BY <3>2 DEF BetHeld
  <2>4. CASE r.bet = round.bet
    <3>1. PICK h \in InHand(player) : player[h].bet >= round.bet
      BY <1>1, <2>1 DEF BetHeld
    <3>2. h \in Seats /\ ps[h].bet >= player[h].bet
      BY <1>7 DEF InHand
    <3>3. ps[h].bet >= r.bet
      BY <1>1, <1>5, <2>4, <3>1, <3>2
    <3> QED BY <1>6, <3>3 DEF BetHeld
  <2> QED BY <1>1, <2>2, <2>3, <2>4
<1>11. ~overRaised' => ~overRaised
  BY <1>4 DEF AfterAction
<1>12. Contested(ps)
  BY <1>1, <1>6 DEF Contested
<1> QED BY <1>1, <1>2, <1>4, <1>8, <1>9, <1>10, <1>11, <1>12, AfterActionChips

LEMMA CallChips ==
  ASSUME CInv, NEW s \in Seats, Call(s)
  PROVE  Chips'
<1>1. /\ OnTurn(s) /\ ToCall(s) \in Nat
      /\ AfterAction(s, PlaceBet(player, s, ToCall(s)), round)
  BY ActorOwesNoLess DEF Call, CInv, SInv
<1>2. /\ player \in Table /\ round \in RoundState /\ round.actionIdx = s
  BY <1>1, OnTurnFacts
<1>3. player[s].bet + ToCall(s) = round.bet /\ round.bet >= round.bet
  BY <1>2 DEF ToCall, Table, PlayerState, RoundState
<1> QED BY <1>1, <1>2, <1>3, ChargeChips

LEMMA RaiseChips ==
  ASSUME CInv, NEW s \in Seats, NEW amount \in RaiseAmounts, Raise(s, amount)
  PROVE  Chips'
<1> DEFINE b == round.bet + amount
           r == [round EXCEPT !.minRaise = amount, !.bet = b, !.lastRaiser = s]
<1>1. /\ OnTurn(s) /\ ToCall(s) \in Nat /\ amount \in Nat
      /\ AfterAction(s, PlaceBet(player, s, ToCall(s) + amount), r)
  BY ActorOwesNoLess, PokerAssumption DEF Raise, CInv, SInv
<1>2. /\ player \in Table /\ round \in RoundState /\ round.actionIdx = s
  BY <1>1, OnTurnFacts
<1>3. /\ ToCall(s) + amount \in Nat /\ b \in Nat /\ b >= round.bet
      /\ player[s].bet + (ToCall(s) + amount) = b
  BY <1>1, <1>2 DEF ToCall, Table, PlayerState, RoundState
<1> HIDE DEF b
<1>4. r \in RoundState /\ r.bet = b /\ r.actionIdx = s
  BY <1>1, <1>2, <1>3 DEF RoundState
<1> HIDE DEF r
<1> QED BY <1>1, <1>3, <1>4, ChargeChips

LEMMA AllInChips ==
  ASSUME CInv, NEW s \in Seats, AllIn(s)
  PROVE  Chips'
<1> DEFINE amount == player[s].stack
<1>1. OnTurn(s) /\ AfterAction(s, PlaceBet(player, s, amount), AllInRound(s))
  BY DEF AllIn
<1>2. /\ player \in Table /\ round \in RoundState /\ round.actionIdx = s
      /\ player[s].bet <= round.bet /\ player[s].bet \in Nat /\ round.bet \in Nat
  BY <1>1, OnTurnFacts
<1>3. amount \in Nat
  BY <1>2 DEF Table, PlayerState
<1>4. AllInRound(s) = round
  BY <1>2, <1>3 DEF AllInRound
<1>5. PlaceBet(player, s, amount)[s].status = "AllIn"
  BY <1>2, <1>3 DEF PlaceBet, Table
<1>6. round.bet >= round.bet
  BY <1>2
<1> HIDE DEF amount
<1> QED BY <1>1, <1>2, <1>3, <1>4, <1>5, <1>6, ChargeChips

-----------------------------------------------------------------------------
(* Starting hands, streets and reveals *)

LEMMA PlaceBetAllIn ==
  ASSUME NEW ps \in Table, NEW s \in Seats, NEW amount \in Nat, ps[s].status = "Active"
  PROVE  LET q == PlaceBet(ps, s, amount)[s]
         IN  q.status = "Active" \/ (q.status = "AllIn" /\ ps[s].stack <= amount)
  BY DEF Table, PlayerState, PlaceBet

LEMMA OpenPreFlopChips ==
  ASSUME CInv, NEW dealt \in SUBSET Seats, OpenPreFlop(dealt)
  PROVE  Chips'
<1> DEFINE sb == SmallBlindIdx
           bb == BigBlindIdx
           p1 == PlaceBet(player, sb, SmallBlind)
           ps == PlaceBet(p1, bb, BigBlind)
           bet == IF ps[sb].bet > ps[bb].bet THEN ps[sb].bet ELSE ps[bb].bet
           next == NextActive(ps, bb)
           r == [round EXCEPT !.bet = bet, !.actionIdx = next, !.lastRaiser = bb, !.acts = 0]
<1>1. /\ sb \in Seats /\ bb \in Seats /\ sb # bb
  <2> USE SeatingAssumption
  <2>1. dealer \in Seats /\ dealer \in 0 .. N - 1
    BY DEF CInv, SInv, IInv, TypeOK, Seats
  <2>2. CASE N = 2
    <3>1. sb = dealer /\ bb = (dealer + 1) % N
      BY <2>2 DEF SmallBlindIdx, BigBlindIdx
    <3>2. bb = IF dealer + 1 < N THEN dealer + 1 ELSE dealer + 1 - N
      BY <2>1, <2>2, <3>1, StepLands
    <3> HIDE DEF sb, bb
    <3> QED BY <2>1, <2>2, <3>1, <3>2 DEF Seats
  <2>3. CASE N # 2
    <3>1. sb = (dealer + 1) % N /\ bb = (dealer + 2) % N
      BY <2>3 DEF SmallBlindIdx, BigBlindIdx
    <3>2. /\ sb = IF dealer + 1 < N THEN dealer + 1 ELSE dealer + 1 - N
          /\ bb = IF dealer + 2 < N THEN dealer + 2 ELSE dealer + 2 - N
      BY <2>1, <2>3, <3>1, StepLands
    <3> HIDE DEF sb, bb
    <3> QED BY <2>1, <2>3, <3>2 DEF Seats
  <2> QED BY <2>2, <2>3
<1>2. N = 2 => \A x \in Seats : x \in {sb, bb}
  BY <1>1 DEF Seats
<1>3. N # 2 => \E x \in Seats : x \notin {sb, bb}
  <2>1. 0 \in Seats /\ 1 \in Seats /\ (N # 2 => 2 \in Seats)
    BY SeatingAssumption DEF Seats
  <2> HIDE DEF sb, bb
  <2>2. CASE sb # 0 /\ bb # 0
    BY <2>1, <2>2
  <2>3. CASE sb # 1 /\ bb # 1
    BY <2>1, <2>3
  <2>4. CASE sb # 2 /\ bb # 2
    BY <2>1, <2>4
  <2> QED BY <2>2, <2>3, <2>4
<1> HIDE DEF sb, bb
<1>4. /\ player \in Table /\ SmallBlind \in Nat /\ BigBlind \in Nat /\ SmallBlind < BigBlind
      /\ round \in RoundState
      /\ \A t \in Seats : player[t].bet = 0 /\ player[t].total = 0 /\ player[t].status = "Active"
      /\ Contested(player) /\ NothingPaid
  BY PokerAssumption DEF CInv, SInv, IInv, Balanced, NothingBet, Streets, OpenPreFlop, Chips, OpenHand
<1>5. \A t \in Seats : player[t].stack = entry[t]
  <2>1. \A t \in Seats : /\ player[t].stack + player[t].total = entry[t] + payouts[t]
                         /\ payouts[t] = 0
                         /\ player[t].stack \in Nat /\ entry[t] \in Nat
    BY <1>4 DEF CInv, SInv, IInv, TypeOK, Balanced, NothingPaid, Table, PlayerState
  <2> QED BY <1>4, <2>1
<1>6. /\ p1 \in Table /\ \A t \in Seats \ {sb} : p1[t] = player[t]
      /\ p1[sb].bet - player[sb].bet = p1[sb].total - player[sb].total
      /\ p1[sb].status = "Active" \/ (p1[sb].status = "AllIn" /\ player[sb].stack <= SmallBlind)
  BY <1>1, <1>4, PlaceBetKeeps, PlaceBetAllIn
<1> HIDE DEF p1
<1>7. /\ ps \in Table /\ \A t \in Seats \ {bb} : ps[t] = p1[t]
      /\ ps[bb].bet - p1[bb].bet = ps[bb].total - p1[bb].total
      /\ ps[bb].status = "Active" \/ (ps[bb].status = "AllIn" /\ p1[bb].stack <= BigBlind)
  <2>1. p1[bb].status = "Active"
    BY <1>1, <1>4, <1>6
  <2> QED BY <1>1, <1>4, <1>6, <2>1, PlaceBetKeeps, PlaceBetAllIn
<1> HIDE DEF ps
<1>8. \A t \in Seats : /\ ps[t].bet \in Nat /\ ps[t].total \in Nat
                       /\ p1[t].bet \in Nat /\ p1[t].total \in Nat
                       /\ entry[t] \in Nat
  BY <1>6, <1>7 DEF Table, PlayerState, CInv, SInv, IInv, TypeOK
<1>9. \A t \in Seats \ {sb, bb} : ps[t].bet = 0 /\ ps[t].status = "Active"
  BY <1>4, <1>6, <1>7
<1>10. \A t \in Seats : ps[t].bet = ps[t].total
  <2> SUFFICES ASSUME NEW t \in Seats PROVE ps[t].bet = ps[t].total
    OBVIOUS
  <2>1. CASE t = bb
    <3>1. p1[bb].bet = 0 /\ p1[bb].total = 0
      BY <1>1, <1>4, <1>6
    <3> QED BY <1>7, <1>8, <2>1, <3>1
  <2>2. CASE t # bb
    <3>1. p1[t].bet = p1[t].total
      <4>1. CASE t = sb
        BY <1>4, <1>6, <1>8, <4>1
      <4>2. CASE t # sb
        BY <1>4, <1>6, <4>2
      <4> QED BY <4>1, <4>2
    <3> QED BY <1>7, <2>2, <3>1
  <2> QED BY <2>1, <2>2
<1>11. \A t \in Seats : ps[t].status = "Active" \/ (ps[t].status = "AllIn" /\ entry[t] <= BigBlind)
  <2> SUFFICES ASSUME NEW t \in Seats
               PROVE  ps[t].status = "Active" \/ (ps[t].status = "AllIn" /\ entry[t] <= BigBlind)
    OBVIOUS
  <2>1. CASE t = bb
    BY <1>1, <1>5, <1>6, <1>7, <2>1
  <2>2. CASE t = sb
    BY <1>1, <1>4, <1>5, <1>6, <1>7, <1>8, <2>2
  <2>3. CASE t \notin {sb, bb}
    BY <1>9, <2>3
  <2> QED BY <2>1, <2>2, <2>3
<1>12. InHand(ps) = Seats /\ InHand(player) = Seats
  BY <1>4, <1>11 DEF InHand
<1>13. Contested(ps)
  BY <1>4, <1>12 DEF Contested
<1>14. TopStake(ps)
  BY <1>8, <1>12 DEF TopStake
<1>15. SamePrior(ps)
  BY <1>8, <1>10, <1>12 DEF SamePrior, CanAct
<1>16. r.bet = bet /\ r.actionIdx = next
  <2> HIDE DEF bet, next
  <2> QED BY <1>4 DEF RoundState
<1>17. /\ bet \in Nat /\ ps[sb].bet <= bet /\ ps[bb].bet <= bet
       /\ bet = ps[sb].bet \/ bet = ps[bb].bet
  BY <1>1, <1>8
<1>18. /\ phase' = "PreFlop" /\ player' = ps /\ round' = r
       /\ payouts' = payouts /\ entry' = entry
  BY DEF OpenPreFlop, PostBlinds, ps, p1, sb, bb
<1> HIDE DEF bet, r
<1>19. BetHeld(ps, r)
  BY <1>1, <1>8, <1>12, <1>16, <1>17 DEF BetHeld
<1>20. Asked(ps, r)
  <2> SUFFICES ASSUME CanAct(ps) # {}, \A t \in CanAct(ps) : t = next
               PROVE  \/ ps[next].bet < bet \/ ShortBlind
                      \/ bet = 0 /\ \A t \in Seats : ps[t].total = 0
    BY <1>16 DEF Asked
  <2>1. next \in CanAct(ps) /\ next \in Seats
    BY DEF CanAct
  <2> HIDE DEF next
  <2>2. \A t \in Seats \ {next} : ps[t].status = "AllIn" /\ entry[t] <= BigBlind
    BY <1>11, <2>1 DEF CanAct
  <2>3. CASE N = 2
    <3>1. \E t \in Seats : t # next
      BY <1>1
    <3> QED BY <2>2, <2>3, <3>1 DEF ShortBlind
  <2>4. CASE N # 2
    <3>1. PICK x \in Seats : x \notin {sb, bb}
      BY <1>3, <2>4
    <3>2. x = next
      BY <1>9, <3>1 DEF CanAct
    <3>3. ps[next].bet = 0
      BY <1>9, <3>1, <3>2
    <3>4. CASE bet = 0
      <4>1. ASSUME NEW t \in Seats PROVE ps[t].total = 0
        <5>1. CASE t \in {sb, bb}
          <6>1. ps[t].bet = 0
            BY <1>8, <1>17, <3>4, <5>1
          <6> QED BY <1>10, <6>1
        <5>2. CASE t \notin {sb, bb}
          BY <1>9, <1>10, <5>2
        <5> QED BY <5>1, <5>2
      <4> QED BY <3>4, <4>1
    <3>5. CASE bet # 0
      BY <1>17, <3>3, <3>5
    <3> QED BY <3>4, <3>5
  <2> QED BY <2>3, <2>4
<1>21. phase' \in Phases \ {"Settled", "Waiting"} /\ phase' \in BettingPhases
  BY <1>18 DEF Phases, BettingPhases
<1> QED BY <1>4, <1>13, <1>14, <1>15, <1>18, <1>19, <1>20, <1>21, StaysOpen

LEMMA ApplyStreetChips ==
  ASSUME CInv, ApplyStreet
  PROVE  Chips'
<1> DEFINE qs == ResetForNewRound(player)
           r == NewRound(qs, round)
           bd == IF board = 0 THEN 3 ELSE board + 1
           ph == PhaseWithBoard(bd)
<1>1. /\ player \in Table /\ dealer \in Seats /\ entry' = entry /\ overRaised' = overRaised
      /\ Contested(player) /\ NothingPaid /\ (~overRaised => TopStake(player))
  BY DEF CInv, SInv, IInv, TypeOK, Balanced, Chips, OpenHand, ApplyStreet
<1>2. /\ qs \in Table /\ Contested(qs) /\ (TopStake(player) => TopStake(qs))
      /\ SamePrior(qs) /\ BetHeld(qs, r)
      /\ Cardinality(CanAct(qs)) >= 2 => Asked(qs, r)
  BY <1>1, NewRoundChips
<1>3. bd \in {3, 4, 5}
  BY DEF ApplyStreet
<1>4. ph \in BettingPhases /\ ph \in Phases \ {"Settled", "Waiting"}
  BY <1>3 DEF PhaseWithBoard, BettingPhases, Phases
<1>5. Cardinality(CanAct(qs)) \in Nat
  BY CardinalityOfSeats DEF CanAct
<1>6. \/ EndBettingRound(qs, r, ph, bd)
      \/ /\ Cardinality(CanAct(qs)) > 1
         /\ phase' = ph /\ player' = qs /\ round' = r /\ payouts' = payouts
  BY DEF ApplyStreet
<1> HIDE DEF qs, r, bd, ph
<1>7. CASE EndBettingRound(qs, r, ph, bd)
  BY <1>1, <1>2, <1>4, <1>7, EndBettingRoundChips
<1>8. CASE /\ Cardinality(CanAct(qs)) > 1
           /\ phase' = ph /\ player' = qs /\ round' = r /\ payouts' = payouts
  <2>1. Asked(qs, r)
    BY <1>2, <1>5, <1>8
  <2> QED BY <1>1, <1>2, <1>4, <1>8, <2>1, StaysOpen
<1> QED BY <1>6, <1>7, <1>8

LEMMA ApplyHoleRevealChips ==
  ASSUME CInv, NEW s \in Seats, ApplyHoleReveal(s)
  PROVE  Chips'
<1>1. /\ player \in Table /\ dealer \in Seats /\ entry' = entry /\ overRaised' = overRaised
      /\ phase = "Showdown" /\ round' = round
      /\ Contested(player) /\ NothingPaid /\ (~overRaised => TopStake(player))
  BY DEF CInv, SInv, IInv, TypeOK, Balanced, Chips, OpenHand, ApplyHoleReveal
<1>2. CASE DistributePots(player)
  BY <1>1, <1>2, DistributeChips
<1>3. CASE UNCHANGED <<phase, player, payouts>>
  <2>1. phase' \in Phases \ {"Settled", "Waiting"} /\ phase' \notin BettingPhases
    BY <1>1, <1>3 DEF Phases, BettingPhases
  <2> QED BY <1>1, <1>3, <2>1, StaysOpen
<1> QED BY <1>2, <1>3 DEF ApplyHoleReveal

\* A hand that is about to start.
LEMMA FreshHand ==
  ASSUME NEW ps, ps \in Table, \A s \in Seats : ps[s].status = "Active" /\ ps[s].total = 0
  PROVE  Contested(ps) /\ TopStake(ps)
<1>1. InHand(ps) = Seats
  BY DEF InHand
<1>2. Cardinality(Seats) = N
  <2>1. 0 \in Int /\ N - 1 \in Int
    BY SeatingAssumption
  <2>2. Cardinality(0 .. N - 1) = IF 0 > N - 1 THEN 0 ELSE (N - 1) - 0 + 1
    BY <2>1, FS_Interval
  <2> QED BY <2>2, SeatingAssumption DEF Seats
<1>3. Contested(ps)
  BY <1>1, <1>2, SeatingAssumption DEF Contested
<1>4. \A t \in Seats : ps[t].total >= ps[t].total
  OBVIOUS
<1> QED BY <1>1, <1>3, <1>4 DEF TopStake

LEMMA NextHandChips ==
  ASSUME CInv, NextHand
  PROVE  Chips'
<1>1. /\ player' = ResetForNewHand(player) /\ phase' = "Waiting"
      /\ payouts' = [s \in Seats |-> 0] /\ player \in Table
  BY DEF NextHand, NewHand, CInv, SInv, IInv, Balanced
<1>2. /\ player' \in Table
      /\ \A s \in Seats : player'[s].status = "Active" /\ player'[s].total = 0
  BY <1>1 DEF ResetForNewHand, Table, PlayerState, Statuses
<1>3. Contested(player') /\ TopStake(player')
  BY <1>2, FreshHand
<1>4. Contested(player)' /\ TopStake(player)'
  BY <1>3 DEF Contested, TopStake, InHand
<1> QED BY <1>1, <1>2, <1>4 DEF Chips, OpenHand, NothingPaid, BettingPhases

LEMMA InitChips == Init => CInv
<1> SUFFICES ASSUME Init PROVE CInv
  OBVIOUS
<1>1. SInv
  BY InitStreets
<1>2. player \in Table
  BY <1>1 DEF SInv, IInv, Balanced
<1>3. Contested(player) /\ TopStake(player)
  BY <1>2, FreshHand DEF Init
<1> QED BY <1>1, <1>3 DEF Init, CInv, Chips, OpenHand, NothingPaid, BettingPhases

LEMMA StutterChips ==
  ASSUME CInv, UNCHANGED vars
  PROVE  Chips'
<1>1. Contested(player)' <=> Contested(player)
  BY DEF vars, Contested, InHand
<1>2. TopStake(player)' <=> TopStake(player)
  BY DEF vars, TopStake, InHand
<1>3. /\ SamePrior(player)' <=> SamePrior(player)
      /\ Asked(player, round)' <=> Asked(player, round)
      /\ BetHeld(player, round)' <=> BetHeld(player, round)
  BY DEF vars, SamePrior, Asked, BetHeld, InHand, CanAct, ShortBlind
<1>4. OpenHand' <=> OpenHand
  BY <1>1, <1>2, <1>3 DEF vars, OpenHand, NothingPaid
<1>5. PotsPaidInFull' <=> PotsPaidInFull
  BY DEF vars, PotsPaidInFull
<1>6. PaidWhatCovered' <=> PaidWhatCovered
  BY DEF vars, PaidWhatCovered, InHand
<1> QED BY <1>4, <1>5, <1>6 DEF vars, CInv, Chips

LEMMA StepKeepsChips == CInv /\ [Next]_vars => CInv'
<1> SUFFICES ASSUME CInv, [Next]_vars PROVE CInv'
  OBVIOUS
<1>1. SInv'
  BY StepKeepsStreets DEF CInv
<1> SUFFICES Chips'
  BY <1>1 DEF CInv
<1>2. CASE StartHand \/ StartHandCrypto
  BY <1>2, OpenPreFlopChips, PokerAssumption DEF StartHand, StartHandCrypto
<1>3. ASSUME NEW s \in Seats, ApplyAction(s) PROVE Chips'
  BY <1>3, FoldChips, CheckChips, CallChips, AllInChips, RaiseChips DEF ApplyAction
<1>4. ASSUME NEW s \in Seats, ApplyHoleReveal(s) PROVE Chips'
  BY <1>4, ApplyHoleRevealChips
<1>5. CASE ApplyStreet
  BY <1>5, ApplyStreetChips
<1>6. CASE NextHand
  BY <1>6, NextHandChips
<1>7. CASE UNCHANGED vars
  BY <1>7, StutterChips
<1> QED BY <1>2, <1>3, <1>4, <1>5, <1>6, <1>7 DEF Next

LEMMA ChipsInvariance == Spec => []CInv
  BY InitChips, StepKeepsChips, PTL DEF Spec

\* A settled hand has paid out what was bet, never more, and all of it unless
\* a raise of the hand was never paid: distributePots passes over no slice that
\* somebody left in the hand could win, and splits every other to the last chip.
THEOREM PotsTheorem == Spec => []PotsPaidInFull
<1>1. CInv => PotsPaidInFull
  BY DEF CInv, Chips, PotsPaidInFull
<1> QED BY <1>1, ChipsInvariance, PTL

\* Only a seat left in the hand is paid, and no more than it covered, unless it
\* is the last one after an unpaid raise or, heads-up, after a blind that put a
\* seat all-in.
THEOREM CoveredTheorem == Spec => []PaidWhatCovered
<1>1. CInv => PaidWhatCovered
  <2>1. CASE phase = "Settled"
    BY <2>1 DEF CInv, Chips
  <2>2. CASE phase # "Settled"
    BY <2>2 DEF CInv, Chips, OpenHand, NothingPaid, PaidWhatCovered
  <2> QED BY <2>1, <2>2
<1> QED BY <1>1, ChipsInvariance, PTL

-----------------------------------------------------------------------------
(* The hand as a ledger of chips *)

\* The stakes after the call are those of ps.
StakesOf(ps) == \A s \in Seats : player'[s].total = ps[s].total

LEMMA DistributeStakes ==
  ASSUME NEW ps \in Table, DistributePots(ps)
  PROVE  StakesOf(ps)
<1>1. PICK rank \in [InHand(ps) -> 1 .. N] : player' = Pay(ps, Winnings(ps, rank, dealer))
  BY DEF DistributePots
<1> DEFINE won == Winnings(ps, rank, dealer)
<1> HIDE DEF won
<1>2. player' = Pay(ps, won)
  BY <1>1 DEF won
<1> QED BY <1>2 DEF Pay, Table, PlayerState, StakesOf

LEMMA ShowdownStakes ==
  ASSUME NEW ps \in Table, NEW r, NEW bd, StartShowdown(ps, r, bd)
  PROVE  StakesOf(ps)
<1>1. CASE DistributePots(ps)
  BY <1>1, DistributeStakes
<1>2. CASE player' = ps
  BY <1>2 DEF StakesOf
<1> QED BY <1>1, <1>2 DEF StartShowdown

LEMMA NewRoundStakes ==
  ASSUME NEW ps \in Table
  PROVE  /\ ResetForNewRound(ps) \in Table
         /\ \A s \in Seats : ResetForNewRound(ps)[s].total = ps[s].total
  BY DEF ResetForNewRound, Table, PlayerState

LEMMA EndBettingRoundStakes ==
  ASSUME NEW ps \in Table, NEW r, NEW ph, NEW bd, EndBettingRound(ps, r, ph, bd)
  PROVE  StakesOf(ps)
<1> DEFINE qs == ResetForNewRound(ps)
<1>1. qs \in Table /\ \A s \in Seats : qs[s].total = ps[s].total
  BY NewRoundStakes
<1>2. \/ StartShowdown(ps, r, bd)
      \/ player' = ps
      \/ player' = qs
      \/ StartShowdown(qs, NewRound(qs, r), 5)
      \/ StartShowdown(qs, NewRound(qs, r), BoardAt(NextPhase(ph)))
  BY DEF EndBettingRound, DealStreet
<1> HIDE DEF qs
<1>3. StakesOf(ps) \/ StakesOf(qs)
  BY <1>1, <1>2, ShowdownStakes DEF StakesOf
<1> QED BY <1>1, <1>3 DEF StakesOf

\* What a call of an open hand does to the ledger.
Staking ==
  /\ phase # "Settled"
  /\ entry' = entry
  /\ overRaised => overRaised'
  /\ \A s \in Seats : player'[s].total >= player[s].total

LEMMA AfterActionStakes ==
  ASSUME IInv, NEW s \in Seats, OnTurn(s), NEW ps \in Table, NEW betting,
         \A t \in Seats : ps[t].total >= player[t].total,
         AfterAction(s, ps, betting)
  PROVE  Staking
<1>1. StakesOf(ps)
  <2> DEFINE r == [betting EXCEPT !.acts = @ + 1, !.acted = @ \cup {s}]
             won == [t \in Seats |-> IF t \in InHand(ps) THEN TotalPot(ps) ELSE 0]
  <2>1. \/ ResolveSingleWinner(ps, r)
        \/ EndBettingRound(ps, r, phase, board)
        \/ player' = ps
    BY DEF AfterAction
  <2>2. ResolveSingleWinner(ps, r) => player' = Pay(ps, won)
    BY DEF ResolveSingleWinner
  <2> HIDE DEF r, won
  <2>3. CASE ResolveSingleWinner(ps, r)
    BY <2>2, <2>3 DEF Pay, Table, PlayerState, StakesOf
  <2>4. CASE EndBettingRound(ps, r, phase, board)
    BY <2>4, EndBettingRoundStakes
  <2>5. CASE player' = ps
    BY <2>5 DEF StakesOf
  <2> QED BY <2>1, <2>3, <2>4, <2>5
<1>2. phase # "Settled"
  BY DEF OnTurn, BettingPhases
<1>3. entry' = entry /\ (overRaised => overRaised')
  BY DEF AfterAction
<1> QED BY <1>1, <1>2, <1>3 DEF Staking, StakesOf

LEMMA PlaceBetStakes ==
  ASSUME NEW ps \in Table, NEW s \in Seats, NEW amount \in Nat
  PROVE  /\ PlaceBet(ps, s, amount) \in Table
         /\ \A t \in Seats : PlaceBet(ps, s, amount)[t].total >= ps[t].total
<1> DEFINE paid == IF amount >= ps[s].stack THEN ps[s].stack ELSE amount
           qs == PlaceBet(ps, s, amount)
<1>1. qs \in Table
  BY PlaceBetKeeps
<1>2. ps[s].stack \in Nat /\ paid \in Nat /\ \A t \in Seats : ps[t].total \in Nat
  BY DEF Table, PlayerState
<1>3. qs[s].total = ps[s].total + paid /\ \A t \in Seats \ {s} : qs[t] = ps[t]
  BY DEF PlaceBet, Table, PlayerState
<1> HIDE DEF qs, paid
<1>4. ASSUME NEW t \in Seats PROVE qs[t].total >= ps[t].total
  <2>1. CASE t = s
    BY <1>2, <1>3, <2>1
  <2>2. CASE t # s
    BY <1>2, <1>3, <2>2
  <2> QED BY <2>1, <2>2
<1> QED BY <1>1, <1>4 DEF qs

LEMMA ApplyActionStakes ==
  ASSUME IInv, NEW s \in Seats, ApplyAction(s)
  PROVE  Staking
<1>1. OnTurn(s) /\ ToCall(s) \in Nat
  BY ActorOwesNoLess DEF ApplyAction, Fold, Check, Call, Raise, AllIn
<1>2. player \in Table /\ \A t \in Seats : player[t].total \in Nat /\ player[t].stack \in Nat
  BY DEF IInv, Balanced, Table, PlayerState
<1>3. CASE Fold(s)
  <2> DEFINE ps == [player EXCEPT ![s].status = "Folded"]
  <2>1. ps \in Table /\ \A t \in Seats : ps[t].total = player[t].total
    BY <1>2 DEF Table, PlayerState, Statuses
  <2>2. AfterAction(s, ps, round)
    BY <1>3 DEF Fold
  <2> HIDE DEF ps
  <2>3. \A t \in Seats : ps[t].total >= player[t].total
    BY <1>2, <2>1
  <2> QED BY <1>1, <2>1, <2>2, <2>3, AfterActionStakes
<1>4. CASE Check(s)
  <2>1. \A t \in Seats : player[t].total >= player[t].total
    BY <1>2
  <2> QED BY <1>1, <1>2, <1>4, <2>1, AfterActionStakes DEF Check
<1>5. ASSUME NEW amount \in Nat, NEW r, AfterAction(s, PlaceBet(player, s, amount), r)
      PROVE  Staking
  BY <1>1, <1>2, <1>5, PlaceBetStakes, AfterActionStakes
<1>6. CASE Call(s)
  BY <1>1, <1>5, <1>6 DEF Call
<1>7. CASE AllIn(s)
  BY <1>2, <1>5, <1>7 DEF AllIn
<1>8. ASSUME NEW amount \in RaiseAmounts, Raise(s, amount) PROVE Staking
  <2>1. ToCall(s) + amount \in Nat
    BY <1>1, PokerAssumption
  <2> QED BY <1>5, <1>8, <2>1 DEF Raise
<1> QED BY <1>3, <1>4, <1>6, <1>7, <1>8 DEF ApplyAction

LEMMA OpenPreFlopStakes ==
  ASSUME IInv, NEW dealt, OpenPreFlop(dealt)
  PROVE  Staking
<1> DEFINE p1 == PlaceBet(player, SmallBlindIdx, SmallBlind)
           ps == PlaceBet(p1, BigBlindIdx, BigBlind)
<1>1. SmallBlindIdx \in Seats /\ BigBlindIdx \in Seats
  BY SeatingAssumption DEF SmallBlindIdx, BigBlindIdx, IInv, TypeOK, Seats
<1>2. player \in Table /\ SmallBlind \in Nat /\ BigBlind \in Nat
  BY PokerAssumption DEF IInv, Balanced
<1>3. p1 \in Table /\ \A t \in Seats : p1[t].total >= player[t].total
  BY <1>1, <1>2, PlaceBetStakes
<1> HIDE DEF p1
<1>4. ps \in Table /\ \A t \in Seats : ps[t].total >= p1[t].total
  BY <1>1, <1>2, <1>3, PlaceBetStakes
<1>5. phase # "Settled" /\ player' = ps /\ entry' = entry /\ overRaised' = overRaised
  BY DEF OpenPreFlop, PostBlinds, ps, p1
<1> HIDE DEF ps
<1>6. \A t \in Seats : player[t].total \in Nat /\ p1[t].total \in Nat /\ ps[t].total \in Nat
  BY <1>2, <1>3, <1>4 DEF Table, PlayerState
<1>7. \A t \in Seats : ps[t].total >= player[t].total
  BY <1>3, <1>4, <1>6
<1> QED BY <1>5, <1>7 DEF Staking

LEMMA ApplyStreetStakes ==
  ASSUME IInv, ApplyStreet
  PROVE  Staking
<1> DEFINE qs == ResetForNewRound(player)
           r  == NewRound(qs, round)
           bd == IF board = 0 THEN 3 ELSE board + 1
<1>1. qs \in Table /\ \A t \in Seats : qs[t].total = player[t].total
  BY NewRoundStakes DEF IInv, Balanced
<1>2. EndBettingRound(qs, r, PhaseWithBoard(bd), bd) \/ player' = qs
  BY DEF ApplyStreet
<1> HIDE DEF qs, r, bd
<1>3. StakesOf(qs)
  BY <1>1, <1>2, EndBettingRoundStakes DEF StakesOf
<1>4. \A t \in Seats : player[t].total \in Nat
  BY DEF IInv, Balanced, Table, PlayerState
<1> QED BY <1>1, <1>3, <1>4 DEF Staking, StakesOf, ApplyStreet

LEMMA ApplyHoleRevealStakes ==
  ASSUME IInv, NEW s \in Seats, ApplyHoleReveal(s)
  PROVE  Staking
<1>1. player \in Table /\ \A t \in Seats : player[t].total \in Nat
  BY DEF IInv, Balanced, Table, PlayerState
<1>2. DistributePots(player) \/ player' = player
  BY DEF ApplyHoleReveal
<1>3. StakesOf(player)
  BY <1>1, <1>2, DistributeStakes DEF StakesOf
<1> QED BY <1>1, <1>3 DEF Staking, StakesOf, ApplyHoleReveal

\* Of the invariant a step keeps, the ledger needs the balance before and
\* after, and that nothing is paid before the hand settles.
LEMMA StakingStep ==
  ASSUME CInv, CInv', Staking
  PROVE  Ledger!Stake \/ Ledger!Settle
<1>1. \A s \in Seats : /\ player[s].stack \in Nat /\ player[s].total \in Nat
                       /\ player'[s].stack \in Nat /\ player'[s].total \in Nat
                       /\ entry[s] \in Nat /\ payouts'[s] \in Nat
  BY DEF CInv, SInv, IInv, TypeOK, PlayerState
<1>2. \A s \in Seats : player[s].stack + player[s].total = entry[s]
  <2>1. \A s \in Seats : player[s].stack + player[s].total = entry[s] + payouts[s]
    BY DEF CInv, SInv, IInv, Balanced
  <2>2. \A s \in Seats : payouts[s] = 0
    BY DEF CInv, Chips, OpenHand, NothingPaid, Staking
  <2> QED BY <1>1, <2>1, <2>2
<1>3. \A s \in Seats : player'[s].stack + player'[s].total = entry[s] + payouts'[s]
  BY DEF CInv, SInv, IInv, Balanced, Staking
<1>4. Ledger!Seats = Seats
  BY DEF Ledger!Seats, Seats
<1>5. CASE phase' # "Settled"
  <2>1. \A s \in Seats : payouts'[s] = 0
    BY <1>5 DEF CInv, Chips, OpenHand, NothingPaid
  <2>2. \A s \in Seats :
          player'[s].stack + player'[s].total = player[s].stack + player[s].total
    BY <1>1, <1>2, <1>3, <2>1
  <2>3. Ledger!Stake
    BY <1>4, <1>5, <2>2 DEF Ledger!Stake, Staking
  <2> QED BY <2>3
<1>6. CASE phase' = "Settled"
  <2>1. \A s \in Seats :
          (player'[s].stack + player'[s].total) - (player[s].stack + player[s].total)
            = payouts'[s]
    BY <1>1, <1>2, <1>3
  <2> DEFINE won == [s \in Seats |->
                (player'[s].stack + player'[s].total) - (player[s].stack + player[s].total)]
  <2>2. won = payouts'
    <3>1. payouts' \in [Seats -> Nat]
      BY DEF CInv, SInv, IInv, TypeOK
    <3> QED BY <2>1, <3>1
  <2>3. /\ SumOver(payouts') <= SumOver([s \in Seats |-> player'[s].total])
        /\ ~overRaised' => SumOver(payouts') = SumOver([s \in Seats |-> player'[s].total])
    BY <1>6 DEF CInv, Chips, PotsPaidInFull
  <2>4. \A s \in Seats : won[s] >= 0
    BY <1>1, <2>2
  <2>5. \A f : Ledger!SumOver(f) = SumOver(f)
    BY DEF Ledger!SumOver, SumOver
  <2>6. [s \in Ledger!Seats |->
           (([r \in Seats |-> player[r].stack]')[s] + ([r \in Seats |-> player[r].total]')[s])
           - ([r \in Seats |-> player[r].stack][s] + [r \in Seats |-> player[r].total][s])]
          = won
    BY <1>4
  <2> HIDE DEF won
  <2>7. Ledger!SumOver(won) <= Ledger!SumOver([s \in Seats |-> player[s].total]')
        /\ (~overRaised' =>
              Ledger!SumOver(won) = Ledger!SumOver([s \in Seats |-> player[s].total]'))
    BY <2>2, <2>3, <2>5
  <2>8. \A s \in Seats : player'[s].total >= player[s].total
    BY DEF Staking
  <2>9. phase # "Settled" /\ (overRaised => overRaised')
    BY DEF Staking
  <2>10. Ledger!Settle
    BY <1>4, <1>6, <2>4, <2>6, <2>7, <2>8, <2>9 DEF Ledger!Settle
  <2> QED BY <2>10
<1> QED BY <1>5, <1>6

LEMMA InitLedger == Init => Ledger!Init
<1> SUFFICES ASSUME Init PROVE Ledger!Init
  OBVIOUS
<1>1. entry \in [Seats -> Nat]
  BY PokerAssumption DEF Init
<1>2. Ledger!Seats = Seats
  BY DEF Ledger!Seats, Seats
<1> QED BY <1>1, <1>2 DEF Init, Ledger!Init

LEMMA NextHandDeals ==
  ASSUME CInv, NextHand
  PROVE  Ledger!Deal
<1>1. Ledger!Seats = Seats
  BY DEF Ledger!Seats, Seats
<1>2. /\ phase = "Settled" /\ phase' = "Waiting" /\ overRaised' = FALSE
      /\ player' = ResetForNewHand(player)
  BY DEF NextHand, NewHand
<1>3. \A s \in Seats : player'[s].stack = player[s].stack /\ player'[s].total = 0
  BY <1>2 DEF ResetForNewHand
<1> QED BY <1>1, <1>2, <1>3 DEF Ledger!Deal

\* Every step of the engine is a step of the ledger or leaves it alone.
LEMMA StepOfLedger ==
  ASSUME CInv, CInv', [Next]_vars
  PROVE  Ledger!Next \/ UNCHANGED <<[s \in Seats |-> player[s].stack],
                                    [s \in Seats |-> player[s].total],
                                    phase # "Settled", ~overRaised>>
<1>1. IInv
  BY DEF CInv, SInv
<1>2. CASE StartHand \/ StartHandCrypto
  BY <1>1, <1>2, OpenPreFlopStakes, StakingStep DEF StartHand, StartHandCrypto, Ledger!Next
<1>3. ASSUME NEW s \in Seats, ApplyAction(s) \/ ApplyHoleReveal(s) PROVE Ledger!Next
  BY <1>1, <1>3, ApplyActionStakes, ApplyHoleRevealStakes, StakingStep DEF Ledger!Next
<1>4. CASE ApplyStreet
  BY <1>1, <1>4, ApplyStreetStakes, StakingStep DEF Ledger!Next
<1>5. CASE NextHand
  BY <1>5, NextHandDeals DEF Ledger!Next
<1>6. CASE UNCHANGED vars
  BY <1>6 DEF vars
<1> QED BY <1>2, <1>3, <1>4, <1>5, <1>6 DEF Next

\* The engine keeps the promise of TableLedger: chips only move from a seat's
\* stack to its stake until the hand closes, and then the stakes go back to
\* the seats, all of them if every raise was paid.
THEOREM LedgerRefinement == Spec => ImplementsLedger
<1>1. Init => Ledger!Init
  BY InitLedger
<1>2. CInv /\ CInv' /\ [Next]_vars =>
        [Ledger!Next]_<<[s \in Seats |-> player[s].stack],
                        [s \in Seats |-> player[s].total],
                        phase # "Settled", ~overRaised>>
  BY StepOfLedger
<1> QED BY <1>1, <1>2, ChipsInvariance, PTL DEF Spec, ImplementsLedger, Ledger!Spec
=============================================================================
