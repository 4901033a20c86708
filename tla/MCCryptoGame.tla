---------------------------- MODULE MCCryptoGame ----------------------------
(* Instances of CryptoGame: the prime 167, of which 2 generates a subgroup   *)
(* large enough for the 52 cards; permutations that stack the deck, so that  *)
(* hands of every category meet, and the identity.                           *)
EXTENDS CryptoGame

KeyOf(e) == [e |-> e, d |-> ModInverse(e, phi)]
TwoKeySets == {[s \in Seats |-> KeyOf(2 * s + 3)], [s \in Seats |-> KeyOf(phi - 1 - 4 * s)]}

\* The hands of seats 0, 1 and 2 when seat 0 deals, and the board.
Tables ==
  {[hands |-> <<<<9, 22>>, <<11, 24>>, <<12, 51>>>>,   \* four jacks, kings full, jacks full
    board |-> <<35, 48, 37, 0, 14>>],
   [hands |-> <<<<12, 14>>, <<40, 30>>, <<25, 29>>>>,  \* a wheel, a six-high straight, fives
    board |-> <<26, 41, 3, 20, 36>>],
   [hands |-> <<<<19, 20>>, <<25, 13>>, <<11, 51>>>>,  \* a straight flush, a flush, a high card
    board |-> <<16, 17, 18, 0, 27>>],
   [hands |-> <<<<11, 12>>, <<6, 7>>, <<0, 13>>>>,     \* a royal and a straight flush, twos
    board |-> <<8, 9, 10, 4, 27>>],
   [hands |-> <<<<5, 18>>, <<11, 36>>, <<37, 49>>>>,   \* three sevens, two pairs that tie
    board |-> <<31, 24, 23, 39, 27>>]}

Swap(perm, pos, card) ==
  LET at == CHOOSE i \in Positions : perm[i] = card
  IN  [perm EXCEPT ![pos] = card, ![at] = perm[pos]]

Stacked(table) ==
  LET Hole(perm, k) ==
        LET s == k % N  round == k \div N
        IN  Swap(perm, HoleCardIndex(N, 0, s, round), table.hands[s + 1][round + 1])
      BoardAt == FlopIndexes(N) \o <<TurnIndex(N), RiverIndex(N)>>
      Board(perm, i) == Swap(perm, BoardAt[i], table.board[i])
      holesDealt == FoldLeft(Hole, [i \in Positions |-> i], [k \in 1 .. 2 * N |-> k - 1])
  IN  FoldLeft(Board, holesDealt, [i \in 1 .. 5 |-> i])

SomePerms == {Stacked(table) : table \in Tables} \cup {[i \in Positions |-> i]}
=============================================================================
