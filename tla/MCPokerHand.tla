---------------------------- MODULE MCPokerHand ----------------------------
(***************************************************************************)
(* Small tables for TLC. Blinds are 1 and 2 throughout; the stacks are     *)
(* those that earlier hands of a session can leave behind.                 *)
(***************************************************************************)
EXTENDS PokerHand

Deal(tables) == {[s \in Seats |-> t[s + 1]] : t \in tables}

\* Everybody can pay both blinds and more.
Covered == Deal({<<4, 3, 6>>, <<6, 4, 3>>})

\* Four seats: two short and two deep stacks, or one busted among three.
FourSeats == Deal({<<3, 5, 3, 5>>, <<5, 0, 4, 7>>})
=============================================================================
