---------------------------- MODULE PokerEscrow ----------------------------
(***************************************************************************)
(* The contract that holds the buy-ins of a table                          *)
(* (contracts/PokerEscrow.sol). A call is one step; a call that reverts is *)
(* no step. Arithmetic is checked, so a subtraction that would go below    *)
(* zero reverts, and so does a transfer of more than the contract has.     *)
(* What a signature covers is left out: _verifySignatures counts and never *)
(* refuses, so a call has a number of them. internal/chain/client.go stands*)
(* in for the calls and changes nothing; its checks are repeated by the    *)
(* contract's.                                                             *)
(***************************************************************************)
EXTENDS Integers, FiniteSetsExt, SequencesExt

CONSTANTS Accounts,            \* addresses that may call
          MaxSeats,            \* _maxSeats
          Deposits,            \* bound: what a seat pays in
          Deltas,              \* bound: entries of payoutDeltas
          SETTLEMENT_DEADLINE, \* blocks a game may take
          CHALLENGE_WINDOW,    \* blocks a settlement can be disputed for
          OpenFor              \* bound: blocks mined before the last seat is taken

ASSUME EscrowAssumption ==
  /\ MaxSeats \in 2 .. 9
  /\ Deposits \subseteq Nat \ {0}
  /\ Deltas \subseteq Int
  /\ SETTLEMENT_DEADLINE \in Nat /\ CHALLENGE_WINDOW \in Nat
  /\ OpenFor \in Nat

VARIABLES
  state,            \* TableState; a table is Disputed only within a call
  players,          \* the seats in the order they were taken
  totalEscrow,      \* totalEscrow
  balance,          \* what the contract holds
  block,            \* block.number
  gameStartBlock,   \* gameStartBlock
  settlementBlock,  \* settlementBlock
  paid,             \* paid[a]: what was transferred to the account
  agreed            \* history: the payoutDeltas of the settlement

vars == <<state, players, totalEscrow, balance, block, gameStartBlock,
          settlementBlock, paid, agreed>>

Player == [addr : Accounts, buyIn : Deposits, withdrawn : BOOLEAN, slashed : BOOLEAN]

Seats == 1 .. Len(players)

Seated(a) == \E i \in Seats : players[i].addr = a

\* Mutant: seatOf is taken for an index.
PlayerIndexAfter(a) == 1 + (CHOOSE i \in Seats : players[i].addr = a)

\* seatOf, which counts from one
PlayerIndex(a) == CHOOSE i \in Seats : players[i].addr = a

Total(amount, who) == MapThenSumSet(LAMBDA i : amount[i], who)

\* What every account has been sent once each seat is sent its amount
Transferred(amount) ==
  [a \in Accounts |-> paid[a] + Total(amount, {i \in Seats : players[i].addr = a})]

-----------------------------------------------------------------------------
Init ==
  /\ state = "open"
  /\ players = << >>
  /\ totalEscrow = 0 /\ balance = 0
  /\ block = 0 /\ gameStartBlock = 0 /\ settlementBlock = 0
  /\ paid = [a \in Accounts |-> 0]
  /\ agreed = << >>

\* The last block that makes a difference
LastBlock ==
  CASE state = "open" -> OpenFor
    [] state = "settled" -> settlementBlock + CHALLENGE_WINDOW + 1
    [] OTHER -> gameStartBlock + SETTLEMENT_DEADLINE + 1

\* A block is mined.
Mine ==
  /\ block < LastBlock
  /\ block' = block + 1
  /\ UNCHANGED <<state, players, totalEscrow, balance, gameStartBlock, settlementBlock, paid, agreed>>

JoinTable(a, value) ==
  /\ state = "open"
  /\ Len(players) < MaxSeats
  /\ ~Seated(a)
  /\ players' = Append(players,
       [addr |-> a, buyIn |-> value, withdrawn |-> FALSE, slashed |-> FALSE])
  /\ totalEscrow' = totalEscrow + value
  /\ balance' = balance + value
  /\ IF Len(players) + 1 = MaxSeats
     THEN state' = "playing" /\ gameStartBlock' = block
     ELSE UNCHANGED <<state, gameStartBlock>>
  /\ UNCHANGED <<block, settlementBlock, paid, agreed>>

\* requiredSignatures
RequiredSigs == (Len(players) * 2 + 2) \div 3

\* Mutant: the deltas are not added up.
ChipConservationAny(deltas) == Len(deltas) > 0

\* _verifyChipConservation, and validatePayoutDeltas before it
ChipConservation(deltas) == FoldLeft(LAMBDA sum, d : sum + d, 0, deltas) = 0

\* Mutant: a seat that lost everything is passed over.
SettleSeatPaidOnly(p, payout) == IF payout <= 0 THEN p ELSE [p EXCEPT !.withdrawn = TRUE]

\* What _executePayouts leaves of a seat
SettleSeat(p, payout) == [p EXCEPT !.withdrawn = TRUE]

\* What _executePayouts transfers to a seat
Due(i, payout) == IF payout[i] <= 0 THEN 0 ELSE payout[i]

ExecutePayouts(deltas) ==
  LET payout == [i \in Seats |-> players[i].buyIn + deltas[i]]
      due == [i \in Seats |-> IF players[i].withdrawn THEN 0 ELSE Due(i, payout)]
      sum == Total(due, Seats)
  IN  /\ sum <= totalEscrow /\ sum <= balance
      /\ totalEscrow' = totalEscrow - sum
      /\ balance' = balance - sum
      /\ players' = [i \in Seats |-> SettleSeat(players[i], payout[i])]
      /\ paid' = Transferred(due)

ReportOutcome(a, deltas, signatures) ==
  /\ state = "playing"
  /\ Seated(a)
  /\ Len(deltas) = Len(players)
  /\ ChipConservation(deltas)
  /\ signatures >= RequiredSigs
  /\ state' = "settled"
  /\ settlementBlock' = block
  /\ agreed' = deltas
  /\ ExecutePayouts(deltas)
  /\ UNCHANGED <<block, gameStartBlock>>

\* The seats that a slash of the seat s would be shared among
Eligible(s) == {i \in Seats : ~players[i].slashed /\ ~players[i].withdrawn /\ i # s}

\* What each of them gets: the buy-in less a burnt fifth, in equal parts
SlashShare(s) == (players[s].buyIn - (players[s].buyIn * 2000) \div 10000)
                   \div Cardinality(Eligible(s))

\* The transfers of a slash of the seat s go through.
SlashCovered(s) ==
  Eligible(s) # {} => SlashShare(s) * Cardinality(Eligible(s)) <= balance

ExecuteSlash(s) ==
  LET gains == [i \in Seats |-> IF i \in Eligible(s) THEN SlashShare(s) ELSE 0]
  IN  /\ SlashCovered(s)
      /\ players' = [players EXCEPT ![s].slashed = TRUE]
      /\ balance' = balance - Total(gains, Seats)
      /\ paid' = Transferred(gains)

\* The settlement can still be disputed, against the seat s.
Disputable(s) ==
  /\ state = "settled"
  /\ block <= settlementBlock + CHALLENGE_WINDOW
  /\ ~players[s].slashed

\* A dispute with evidence, signed by its filer
SubmitDispute(a, s) ==
  /\ Seated(a)
  /\ Disputable(s)
  /\ ExecuteSlash(s)
  /\ UNCHANGED <<state, totalEscrow, block, gameStartBlock, settlementBlock, agreed>>

MarkAbandoned ==
  /\ state = "playing"
  /\ block > gameStartBlock + SETTLEMENT_DEADLINE
  /\ state' = "abandoned"
  /\ UNCHANGED <<players, totalEscrow, balance, block, gameStartBlock, settlementBlock, paid, agreed>>

\* Mutant: a refund is not noted down.
RefundSeatAgain(p) == p

\* What a refund leaves of a seat
RefundSeat(p) == [p EXCEPT !.withdrawn = TRUE]

Refund(a) ==
  /\ state = "abandoned"
  /\ Seated(a)
  /\ PlayerIndex(a) \in Seats
  /\ LET i == PlayerIndex(a)
         amount == players[i].buyIn
         to == players[i].addr
     IN  /\ ~players[i].withdrawn
         /\ amount <= totalEscrow /\ amount <= balance
         /\ players' = [players EXCEPT ![i] = RefundSeat(@)]
         /\ totalEscrow' = totalEscrow - amount
         /\ balance' = balance - amount
         /\ paid' = [paid EXCEPT ![to] = @ + amount]
  /\ UNCHANGED <<state, block, gameStartBlock, settlementBlock, agreed>>

Next ==
  \/ Mine
  \/ MarkAbandoned
  \/ \E a \in Accounts :
       \/ \E value \in Deposits : JoinTable(a, value)
       \/ \E deltas \in [Seats -> Deltas], signatures \in 0 .. MaxSeats :
            ReportOutcome(a, deltas, signatures)
       \/ \E s \in Seats : SubmitDispute(a, s)
       \/ Refund(a)

\* Blocks are mined; a player who wants its money back calls.
Fairness ==
  /\ WF_vars(Mine) /\ WF_vars(MarkAbandoned)
  /\ \A a \in Accounts : WF_vars(Refund(a))

Spec == Init /\ [][Next]_vars

FairSpec == Spec /\ Fairness

-----------------------------------------------------------------------------
BuyIns == [i \in Seats |-> players[i].buyIn]

\* Until a table is settled the contract holds the buy-in of every seat that
\* has not been given it back, so no refund can fail (joinTable, refund).
RefundsCovered ==
  state # "settled" =>
    /\ totalEscrow = Total(BuyIns, {i \in Seats : ~players[i].withdrawn})
    /\ balance = totalEscrow

\* A settled table has paid every seat its buy-in and its delta to the chip:
\* an outcome by which a seat loses more than it has cannot be reported, though
\* _executePayouts lets such a seat off (reportOutcome).
SettledToTheChip ==
  state = "settled" =>
    /\ balance = 0
    /\ \A i \in Seats : paid[players[i].addr] = players[i].buyIn + agreed[i]

\* A dispute in its window never fails for want of money: the settlement left
\* nobody to share a slash with (_executePayouts, _executeSlash).
DisputesGoThrough == \A s \in Seats : Disputable(s) => SlashCovered(s)

\* A game that starts gives back all it holds in the end, reported or not
\* (markAbandoned, refund).
MoneyComesBack == state = "playing" ~> balance = 0
=============================================================================
