------------------------------ MODULE Seating ------------------------------
(***************************************************************************)
(* The ring of seats every part of the engine walks: players sit in a      *)
(* slice of length N (game.GameState.Players, crypto.ShuffleSession.seats) *)
(* and "next" is always (i + 1) % N.                                       *)
(***************************************************************************)
EXTENDS Integers, FiniteSets

CONSTANT N      \* number of seats

ASSUME SeatingAssumption == N \in Nat /\ N >= 2

Seats == 0 .. N - 1

\* The smallest member of a non-empty set of numbers.
Least(S) == CHOOSE x \in S : \A y \in S : x <= y

\* How far clockwise of `from` the first seat of `wanted` sits (a full turn
\* brings the walk back to `from` itself, as the loops `for i := 1; i <= n`).
StepsTo(wanted, from) == {k \in 1 .. N : (from + k) % N \in wanted}

\* The first seat of `wanted` found walking clockwise from `from`.
FirstAfter(wanted, from) == (from + Least(StepsTo(wanted, from))) % N

\* The sum of f over the seats, accumulated in seat order.
SumOver(f) ==
  LET upTo[n \in 0 .. N] == IF n = 0 THEN 0 ELSE upTo[n - 1] + f[n - 1]
  IN  upTo[N]
=============================================================================
