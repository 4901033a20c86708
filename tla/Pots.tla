-------------------------------- MODULE Pots --------------------------------
(***************************************************************************)
(* Side pots (internal/game/pot.go) and who is paid from them              *)
(* (potWinners, closestLeftOfDealer, distributePots in machine.go).        *)
(*                                                                         *)
(* CalculatePots sorts the contributions and opens one slice per distinct  *)
(* amount; equal contributions after the first are skipped. Here a slice   *)
(* is named by the seat that opens it. Two neighbouring slices always have *)
(* different eligible sets (the seats at the lower level drop out), so     *)
(* mergePots never joins two of them and is left out.                      *)
(*                                                                         *)
(* `ps` is the table's players: a function from seats to records with the  *)
(* fields `total` (Player.TotalBet) and `status`. `rank` orders the hands  *)
(* (EvaluateBest7, Compare): a higher rank wins, equal ranks tie.          *)
(***************************************************************************)
EXTENDS Seating

InHand(ps) == {s \in Seats : ps[s].status # "Folded"}

\* The first seat of each distinct non-zero contribution opens a slice.
Opens(ps, q) ==
  /\ ps[q].total > 0
  /\ \A r \in Seats : r < q => ps[r].total # ps[q].total

\* The contribution level just below that of q: prevLevel in the loop.
LevelBelow(ps, q) ==
  LET below == {r \in Seats : ps[r].total < ps[q].total}
  IN  IF below = {} THEN 0
      ELSE ps[q].total - Least({ps[q].total - ps[r].total : r \in below})

\* Folded contributors are eligible too; Winners passes over them.
Eligible(ps, q) == {r \in Seats : ps[r].total >= ps[q].total}

Amount(ps, q) ==
  IF Opens(ps, q)
  THEN (ps[q].total - LevelBelow(ps, q)) * Cardinality(Eligible(ps, q))
  ELSE 0

TotalPot(ps) == SumOver([q \in Seats |-> Amount(ps, q)])

\* Mutant: folded contributors compete for the slice.
WinnersWithFolded(ps, rank, q) ==
  {s \in Eligible(ps, q) : \A t \in Eligible(ps, q) \cap InHand(ps) :
                             s \notin InHand(ps) \/ rank[t] <= rank[s]}

Winners(ps, rank, q) ==
  LET candidates == Eligible(ps, q) \cap InHand(ps)
  IN  {s \in candidates : \A t \in candidates : rank[t] <= rank[s]}

ClosestLeftOfDealer(winners, dealer) == FirstAfter(winners, dealer)

\* Mutant: the odd chips of a split slice are not handed out.
ShareWithoutOdd(ps, rank, dealer, q, s) ==
  LET winners == Winners(ps, rank, q)
  IN  IF s \in winners THEN Amount(ps, q) \div Cardinality(winners) ELSE 0

\* What seat s gets of the slice opened by q: an equal share, and the odd
\* chips if s is the winner closest to the left of the dealer. A slice
\* without winners is passed over.
Share(ps, rank, dealer, q, s) ==
  LET winners == Winners(ps, rank, q)
      n       == Cardinality(winners)
      odd     == IF s = ClosestLeftOfDealer(winners, dealer) THEN Amount(ps, q) % n ELSE 0
  IN  IF s \in winners THEN Amount(ps, q) \div n + odd ELSE 0

Winnings(ps, rank, dealer) ==
  [s \in Seats |-> SumOver([q \in Seats |-> Share(ps, rank, dealer, q, s)])]

\* Player.Stack += winnings, for every seat.
Pay(ps, won) == [s \in Seats |-> [ps[s] EXCEPT !.stack = @ + won[s]]]
=============================================================================
