---------------------------- MODULE TableLedger ----------------------------
(***************************************************************************)
(* What a poker table promises about its chips, whatever the rules of the  *)
(* betting. While a hand is open seats only move chips from their stack to *)
(* their stake. When it closes every stake is paid out to the seats, unless a    *)
(* bet of the hand was never paid, and never more than was staked. Then    *)
(* the next hand opens with the stacks as they are.                        *)
(***************************************************************************)
EXTENDS Seating

VARIABLES stack, staked, open,
          clean   \* every bet of this hand was paid

\* Chips only move from stack to stake.
Stake ==
  /\ open /\ open'
  /\ clean' => clean
  /\ \A s \in Seats : /\ staked'[s] >= staked[s]
                      /\ stack'[s] + staked'[s] = stack[s] + staked[s]

\* The hand closes, possibly on one last stake.
Settle ==
  LET won == [s \in Seats |-> (stack'[s] + staked'[s]) - (stack[s] + staked[s])]
  IN  /\ open /\ ~open'
      /\ clean' => clean
      /\ \A s \in Seats : /\ staked'[s] >= staked[s]
                          /\ won[s] >= 0
      /\ SumOver(won) <= SumOver(staked')
      /\ clean' => SumOver(won) = SumOver(staked')

Deal ==
  /\ ~open /\ open' /\ clean'
  /\ stack' = stack
  /\ staked' = [s \in Seats |-> 0]

Init ==
  /\ stack \in [Seats -> Nat]
  /\ staked = [s \in Seats |-> 0]
  /\ open = TRUE /\ clean = TRUE

Next == Stake \/ Settle \/ Deal

Spec == Init /\ [][Next]_<<stack, staked, open, clean>>
=============================================================================
