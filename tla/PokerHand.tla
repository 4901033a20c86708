----------------------------- MODULE PokerHand -----------------------------
(***************************************************************************)
(* The betting engine: game.Machine over one game.GameState, hand after    *)
(* hand at one table (internal/game/machine.go, state.go, player.go).      *)
(*                                                                         *)
(* Every action is one call of the engine by its driver (the TUI, the      *)
(* action sequencer, the crypto hand), together with everything that call  *)
(* runs before it returns: ApplyAction closes the betting round, deals the *)
(* next street, runs out the board and pays the pots inside one call.      *)
(* Calls the engine rejects change nothing and are the disabled cases.     *)
(*                                                                         *)
(* CryptoMode = FALSE is the local-deck engine (StartHand), TRUE the       *)
(* engine whose cards are inputs (Deck = nil: StartHandCrypto, ApplyStreet,*)
(* ApplyHoleReveal). Cards are abstracted to what the control depends on:  *)
(* how many are on the board, whose hole cards this machine knows, and the *)
(* order of the hands at showdown, which is any weak order. Running out of *)
(* the 52 cards takes more seats than the nine the configuration allows.   *)
(***************************************************************************)
EXTENDS Pots

CONSTANTS SmallBlind, BigBlind,
          Stacks,        \* the stacks the seats may bring to the first hand
          RaiseAmounts,  \* the raise increments tried
          CryptoMode,
          LocalSeat,     \* crypto mode: the seat whose hole cards this machine holds
          MaxHands       \* bound: hands played at the table

ASSUME PokerAssumption ==
  /\ SmallBlind \in Nat /\ BigBlind \in Nat
  /\ 0 < SmallBlind /\ SmallBlind < BigBlind
  /\ Stacks \subseteq [Seats -> Nat]
  /\ RaiseAmounts \subseteq Nat
  /\ CryptoMode \in BOOLEAN
  /\ LocalSeat \in Seats
  /\ MaxHands \in Nat

VARIABLES
  phase,    \* GameState.Phase
  hand,     \* GameState.HandNum
  dealer,   \* GameState.DealerIdx
  player,   \* GameState.Players: [stack, bet (CurrentBet), total (TotalBet), status]
  round,    \* what a betting round keeps, see RoundState
  board,    \* len(GameState.CommunityCards)
  known,    \* seats whose hole cards this machine knows
  payouts,  \* GameState.Payouts
  entry,    \* history: the stacks the hand began with (Stack when NewGameState ran)
  overRaised \* history: a raise of this hand set a table bet nobody in the hand had paid

vars == <<phase, hand, dealer, player, round, board, known, payouts, entry, overRaised>>

BettingPhases == {"PreFlop", "Flop", "Turn", "River"}
Phases == BettingPhases \cup {"Waiting", "AwaitingStreet", "Showdown", "Settled"}
\* StatusSittingOut exists in the type but nothing ever assigns it.
Statuses == {"Active", "Folded", "AllIn"}

PlayerState == [stack : Nat, bet : Nat, total : Nat, status : Statuses]

\* GameState.CurrentBet, MinRaise, ActionIdx, LastRaiserIdx, RoundActionCount,
\* and the seats with an entry of this round in GameState.Log.
RoundState == [bet : Nat, minRaise : Nat, actionIdx : Seats \cup {-1},
               lastRaiser : Seats \cup {-1}, acts : Nat, acted : SUBSET Seats]

-----------------------------------------------------------------------------
(* Players *)

CanAct(ps) == {s \in Seats : ps[s].status = "Active"}

\* Mutant: the bet is taken without looking at the stack.
PlaceBetUncapped(ps, s, amount) ==
  [ps EXCEPT ![s] = [stack  |-> ps[s].stack - amount,
                     bet    |-> ps[s].bet + amount,
                     total  |-> ps[s].total + amount,
                     status |-> ps[s].status]]

\* Mutant: a short all-in is booked at the amount asked for.
PlaceBetOverbooked(ps, s, amount) ==
  LET short == amount >= ps[s].stack
      paid  == IF short THEN ps[s].stack ELSE amount
  IN  [ps EXCEPT ![s] = [stack  |-> ps[s].stack - paid,
                         bet    |-> ps[s].bet + amount,
                         total  |-> ps[s].total + amount,
                         status |-> IF short THEN "AllIn" ELSE ps[s].status]]

\* A bet of the whole stack or more puts the player all-in for the stack.
PlaceBet(ps, s, amount) ==
  LET short == amount >= ps[s].stack
      paid  == IF short THEN ps[s].stack ELSE amount
  IN  [ps EXCEPT ![s] =
        [stack  |-> ps[s].stack - paid,
         bet    |-> ps[s].bet + paid,
         total  |-> ps[s].total + paid,
         status |-> IF short THEN "AllIn" ELSE ps[s].status]]

\* Mutant: the bets of the last hand are kept.
ResetForNewHandKeepingBets(ps) ==
  [s \in Seats |-> [stack |-> ps[s].stack, bet |-> 0, total |-> ps[s].total,
                    status |-> "Active"]]

ResetForNewHand(ps) ==
  [s \in Seats |-> [stack |-> ps[s].stack, bet |-> 0, total |-> 0, status |-> "Active"]]

ResetForNewRound(ps) ==
  [s \in Seats |-> IF s \in InHand(ps) THEN [ps[s] EXCEPT !.bet = 0] ELSE ps[s]]

\* Mutant: the next seat, able to act or not.
NextActiveUnchecked(ps, from) == IF CanAct(ps) = {} THEN -1 ELSE (from + 1) % N

NextActive(ps, from) == IF CanAct(ps) = {} THEN -1 ELSE FirstAfter(CanAct(ps), from)

SmallBlindIdx == IF N = 2 THEN dealer ELSE (dealer + 1) % N
BigBlindIdx == IF N = 2 THEN (dealer + 1) % N ELSE (dealer + 2) % N

-----------------------------------------------------------------------------
(* Ending a hand *)

\* Everyone else folded: the whole pot to the seat that is left.
ResolveSingleWinner(ps, r) ==
  LET won == [s \in Seats |-> IF s \in InHand(ps) THEN TotalPot(ps) ELSE 0]
  IN  /\ phase' = "Settled"
      /\ player' = Pay(ps, won)
      /\ payouts' = [s \in Seats |-> payouts[s] + won[s]]
      /\ round' = r
      /\ UNCHANGED <<board, known>>

\* Mutant: all-in seats are not asked to show.
MissingRevealsActiveOnly(ps, kn) == IF CryptoMode THEN CanAct(ps) \ kn ELSE {}

\* The remaining seats whose hole cards this machine has not seen.
MissingReveals(ps, kn) == IF CryptoMode THEN InHand(ps) \ kn ELSE {}

DistributePots(ps) ==
  \E rank \in [InHand(ps) -> 1 .. N] :
    LET won == Winnings(ps, rank, dealer)
    IN  /\ phase' = "Settled"
        /\ player' = Pay(ps, won)
        /\ payouts' = [s \in Seats |-> payouts[s] + won[s]]

StartShowdown(ps, r, bd) ==
  /\ round' = r
  /\ board' = bd
  /\ known' = known
  /\ \/ /\ MissingReveals(ps, known) = {}
        /\ DistributePots(ps)
     \/ /\ MissingReveals(ps, known) # {}
        /\ phase' = "Showdown"
        /\ player' = ps
        /\ payouts' = payouts

-----------------------------------------------------------------------------
(* Betting rounds *)

NextPhase(ph) == CASE ph = "PreFlop" -> "Flop" [] ph = "Flop" -> "Turn"
                   [] ph = "Turn" -> "River"

BoardAt(ph) == CASE ph = "PreFlop" -> 0 [] ph = "Flop" -> 3
                 [] ph = "Turn" -> 4 [] ph = "River" -> 5

NewRound(ps, r) ==
  LET first == NextActive(ps, dealer)
  IN  [bet |-> 0, minRaise |-> BigBlind, lastRaiser |-> -1, acts |-> 0, acted |-> {},
       actionIdx |-> IF first = -1 THEN r.actionIdx ELSE first]

\* Local deck, leaving phase ph before the river: deal the next street and
\* start its round. With one seat able to act the rounds close at once and
\* the board runs out; with none, startNewBettingRound goes straight to the
\* showdown with the board as it is.
DealStreet(ps, r, ph) ==
  LET qs   == ResetForNewRound(ps)
      able == Cardinality(CanAct(qs))
  IN  \/ /\ able >= 2
         /\ phase' = NextPhase(ph)
         /\ board' = BoardAt(NextPhase(ph))
         /\ player' = qs
         /\ round' = NewRound(qs, r)
         /\ UNCHANGED <<known, payouts>>
      \/ able = 1 /\ StartShowdown(qs, NewRound(qs, r), 5)
      \/ able = 0 /\ StartShowdown(qs, NewRound(qs, r), BoardAt(NextPhase(ph)))

\* endBettingRound in phase ph with bd community cards.
EndBettingRound(ps, r, ph, bd) ==
  \/ ph = "River" /\ StartShowdown(ps, r, bd)
  \/ ph # "River" /\ ~CryptoMode /\ DealStreet(ps, r, ph)
  \/ /\ ph # "River" /\ CryptoMode
     /\ phase' = "AwaitingStreet"
     /\ player' = ps
     /\ round' = r
     /\ board' = bd
     /\ UNCHANGED <<known, payouts>>

\* Mutant: a seat that still owes chips does not keep the round open.
BettingRoundCompleteOwing(ps, r, next) ==
  \/ r.acts > 0 /\ next = r.lastRaiser
  \/ r.acts >= Cardinality(CanAct(ps))

\* bettingRoundComplete: the next seat owes nothing, and it is the last
\* raiser or as many actions were taken as seats can still act.
BettingRoundComplete(ps, r, next) ==
  /\ ps[next].bet >= r.bet
  /\ \/ r.acts > 0 /\ next = r.lastRaiser
     \/ r.acts >= Cardinality(CanAct(ps))

\* The tail of ApplyAction, after the player s has been charged.
AfterAction(s, ps, betting) ==
  LET r    == [betting EXCEPT !.acts = @ + 1, !.acted = @ \cup {s}]
      next == NextActive(ps, r.actionIdx)
      over == IF next = -1 THEN TRUE ELSE BettingRoundComplete(ps, r, next)
      alone == Cardinality(InHand(ps)) = 1
  IN  /\ \/ alone /\ ResolveSingleWinner(ps, r)
         \/ ~alone /\ over /\ EndBettingRound(ps, r, phase, board)
         \/ /\ ~alone /\ ~over
            /\ player' = ps
            /\ round' = [r EXCEPT !.actionIdx = next]
            /\ UNCHANGED <<phase, board, known, payouts>>
      /\ overRaised' = \/ overRaised
                       \/ /\ betting.bet > round.bet
                          /\ \A t \in InHand(ps) : ps[t].bet < betting.bet
      /\ UNCHANGED <<hand, dealer, entry>>

-----------------------------------------------------------------------------
(* ApplyAction, by kind of action *)

\* The gates: a betting phase, and the caller is CurrentPlayer().
OnTurn(s) == phase \in BettingPhases /\ s = round.actionIdx

ToCall(s) == round.bet - player[s].bet

Fold(s) ==
  /\ OnTurn(s)
  /\ AfterAction(s, [player EXCEPT ![s].status = "Folded"], round)

Check(s) ==
  /\ OnTurn(s)
  /\ ToCall(s) = 0
  /\ AfterAction(s, player, round)

Call(s) ==
  /\ OnTurn(s)
  /\ ToCall(s) > 0
  /\ AfterAction(s, PlaceBet(player, s, ToCall(s)), round)

\* `amount` is the increment. The bound is the code's: stack plus the chips
\* already posted this round.
Raise(s, amount) ==
  /\ OnTurn(s)
  /\ amount >= round.minRaise
  /\ ToCall(s) + amount <= player[s].stack + player[s].bet
  /\ AfterAction(s, PlaceBet(player, s, ToCall(s) + amount),
       [round EXCEPT !.minRaise = amount, !.bet = @ + amount, !.lastRaiser = s])

AllInRound(s) ==
  LET allin == player[s].stack
      total == player[s].bet + allin
      raise == total - round.bet
  IN  IF total > round.bet + allin
      THEN [round EXCEPT !.minRaise = IF raise > @ THEN raise ELSE @,
                         !.bet = total, !.lastRaiser = s]
      ELSE round

AllIn(s) ==
  /\ OnTurn(s)
  /\ AfterAction(s, PlaceBet(player, s, player[s].stack), AllInRound(s))

-----------------------------------------------------------------------------
(* Starting hands, streets and reveals *)

\* NewGameState with a fresh dealer: StartHand or StartHandCrypto comes next.
NewHand(d, ps) ==
  /\ phase' = "Waiting"
  /\ dealer' = d
  /\ player' = ResetForNewHand(ps)
  /\ round' = [bet |-> 0, minRaise |-> BigBlind, actionIdx |-> 0,
               lastRaiser |-> 0, acts |-> 0, acted |-> {}]
  /\ board' = 0
  /\ known' = {}
  /\ payouts' = [s \in Seats |-> 0]
  /\ entry' = [s \in Seats |-> ps[s].stack]
  /\ overRaised' = FALSE

PostBlinds == PlaceBet(PlaceBet(player, SmallBlindIdx, SmallBlind), BigBlindIdx, BigBlind)

\* What StartHand and StartHandCrypto have in common, with the seats whose hole
\* cards the machine holds from then on.
OpenPreFlop(dealt) ==
  LET ps == PostBlinds
      sbPaid == ps[SmallBlindIdx].bet
      bbPaid == ps[BigBlindIdx].bet
  IN  /\ phase = "Waiting"
      /\ phase' = "PreFlop"
      /\ player' = ps
      /\ round' = [round EXCEPT !.bet = IF sbPaid > bbPaid THEN sbPaid ELSE bbPaid,
                                !.actionIdx = NextActive(ps, BigBlindIdx),
                                !.lastRaiser = BigBlindIdx, !.acts = 0]
      /\ known' = dealt
      /\ UNCHANGED <<hand, dealer, board, payouts, entry, overRaised>>

\* dealHoleCards deals every seat two cards off the local deck.
StartHand == ~CryptoMode /\ OpenPreFlop(Seats)

\* Cards are inputs: only the local seat's are there.
StartHandCrypto == CryptoMode /\ OpenPreFlop({LocalSeat})

PhaseWithBoard(bd) == CASE bd = 3 -> "Flop" [] bd = 4 -> "Turn" [] bd = 5 -> "River"

\* ApplyStreet with the right number of fresh cards, and the
\* startNewBettingRound it ends in: with at most one seat able to act the
\* round closes again at once.
ApplyStreet ==
  LET qs == ResetForNewRound(player)
      r  == NewRound(qs, round)
      bd == IF board = 0 THEN 3 ELSE board + 1
  IN  /\ CryptoMode
      /\ phase = "AwaitingStreet"
      /\ board \in {0, 3, 4}
      /\ \/ /\ Cardinality(CanAct(qs)) <= 1
            /\ EndBettingRound(qs, r, PhaseWithBoard(bd), bd)
         \/ /\ Cardinality(CanAct(qs)) > 1
            /\ phase' = PhaseWithBoard(bd)
            /\ board' = bd
            /\ player' = qs
            /\ round' = r
            /\ UNCHANGED <<known, payouts>>
      /\ UNCHANGED <<hand, dealer, entry, overRaised>>

\* Mutant: the last missing reveal does not pay the pots.
ApplyHoleRevealUnpaid(s) ==
  /\ CryptoMode
  /\ phase = "Showdown"
  /\ s \in InHand(player)
  /\ known' = known \cup {s}
  /\ UNCHANGED <<phase, player, payouts, hand, dealer, round, board, entry, overRaised>>

\* ApplyHoleReveal for a remaining seat. Showing the known cards again is
\* accepted; the last missing reveal pays the pots.
ApplyHoleReveal(s) ==
  /\ CryptoMode
  /\ phase = "Showdown"
  /\ s \in InHand(player)
  /\ known' = known \cup {s}
  /\ \/ MissingReveals(player, known') = {} /\ DistributePots(player)
     \/ /\ MissingReveals(player, known') # {}
        /\ UNCHANGED <<phase, player, payouts>>
  /\ UNCHANGED <<hand, dealer, round, board, entry, overRaised>>

\* The driver's next hand: the button moves, stacks are carried over, and
\* busted seats are dealt in again.
NextHand ==
  /\ phase = "Settled"
  /\ hand < MaxHands
  /\ hand' = hand + 1
  /\ NewHand((dealer + 1) % N, player)

-----------------------------------------------------------------------------

Init ==
  /\ phase = "Waiting"
  /\ hand = 1
  /\ dealer = 0
  /\ entry \in Stacks
  /\ player = [s \in Seats |->
                [stack |-> entry[s], bet |-> 0, total |-> 0, status |-> "Active"]]
  /\ round = [bet |-> 0, minRaise |-> BigBlind, actionIdx |-> 0,
              lastRaiser |-> 0, acts |-> 0, acted |-> {}]
  /\ board = 0
  /\ known = {}
  /\ payouts = [s \in Seats |-> 0]
  /\ overRaised = FALSE

ApplyAction(s) ==
  \/ Fold(s) \/ Check(s) \/ Call(s) \/ AllIn(s)
  \/ \E amount \in RaiseAmounts : Raise(s, amount)

Next ==
  \/ StartHand \/ StartHandCrypto
  \/ \E s \in Seats : ApplyAction(s) \/ ApplyHoleReveal(s)
  \/ ApplyStreet
  \/ NextHand

\* The drivers keep a hand moving: a seat that does not act in time is
\* folded by the timeout vote, streets and reveals are peeled by the crypto
\* hand, and the table ticks into the next hand.
Spec == Init /\ [][Next]_vars /\ WF_vars(Next)

-----------------------------------------------------------------------------
(* Properties *)

\* The machine's state stays within its types: no stack or bet goes below zero,
\* no index leaves the table (state.go:57, player.go:18).
TypeOK ==
  /\ phase \in Phases
  /\ hand \in Nat /\ dealer \in Seats
  /\ player \in [Seats -> PlayerState]
  /\ round \in RoundState
  /\ board \in {0, 3, 4, 5}
  /\ known \subseteq Seats
  /\ payouts \in [Seats -> Nat]
  /\ entry \in [Seats -> Nat]

\* Each seat's chips are accounted for at every moment: what it holds and has
\* bet is what it sat down with and was paid. PlaceBet, the short all-in and
\* both ways of paying a pot move chips; none may create or lose one.
LedgerBalanced ==
  \A s \in Seats : player[s].stack + player[s].total = entry[s] + payouts[s]

\* A settled hand has paid out what was bet, never more, and all of it unless
\* a raise of the hand was never paid. distributePots passes over a slice
\* nobody left in the hand is eligible for, which a fold to such a raise leaves
\* behind, and divides the others with a
\* remainder.
PotsPaidInFull ==
  phase = "Settled" =>
    LET paid == SumOver(payouts)
        bets == SumOver([s \in Seats |-> player[s].total])
    IN  paid <= bets /\ (~overRaised => paid = bets)

\* Nobody is paid who folded, and nobody wins from an opponent more than he
\* put in himself. resolveSingleWinner hands over the whole pot without
\* looking at the side pots, so for hands that end in folds this rests on the
\* betting never letting the highest bettor fold to a shorter stack. Two things
\* let him: an unpaid raise and, heads-up, blinds that put a seat all-in
\* (StartHand does not count the seats that can act as startNewBettingRound
\* does).
PaidWhatCovered ==
  LET Covered(s) == SumOver([r \in Seats |->
                      IF player[r].total <= player[s].total THEN player[r].total
                                                            ELSE player[s].total])
  IN  \A s \in Seats : payouts[s] > 0 =>
        /\ s \in InHand(player)
        /\ \/ payouts[s] <= Covered(s)
           \/ /\ InHand(player) = {s}
              /\ overRaised \/ (N = 2 /\ \E t \in Seats : entry[t] <= BigBlind)

\* Whoever is asked to act can act; without such a seat ActionIdx says so.
ActorCanAct ==
  phase \in BettingPhases =>
    IF CanAct(player) = {} THEN round.actionIdx = -1
                           ELSE round.actionIdx \in CanAct(player)

\* When a street opens or the table waits for one, every seat still able to
\* bet has put the same amount into the pot: a round never closes on a seat
\* that owes chips.
StreetMatched ==
  (phase = "AwaitingStreet" \/ (phase \in BettingPhases \ {"PreFlop"} /\ round.acts = 0)) =>
    \A s, t \in CanAct(player) : player[s].total = player[t].total

\* A crypto-mode hand that more than one seat takes to the end is decided on a
\* full board with all of their cards known.
ShowdownComplete ==
  phase = "Settled" /\ Cardinality(InHand(player)) > 1 =>
    (CryptoMode => board = 5 /\ InHand(player) \subseteq known)

\* Every hand that is dealt is paid out.
HandSettles == phase = "PreFlop" ~> phase = "Settled"

\* The table as a ledger of chips: see TableLedger.
Ledger == INSTANCE TableLedger
            WITH stack  <- [s \in Seats |-> player[s].stack],
                 staked <- [s \in Seats |-> player[s].total],
                 open   <- phase # "Settled",
                 clean  <- ~overRaised
ImplementsLedger == Ledger!Spec
=============================================================================
