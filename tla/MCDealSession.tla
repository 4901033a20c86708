---------------------------- MODULE MCDealSession ----------------------------
(***************************************************************************)
(* Small deals for TLC.                                                    *)
(***************************************************************************)
EXTENDS DealSession
\* Seat 0 gets both copies of seat 1's peel of the last hole card.
OneCopy == {<<2, 1, 0>>}
=============================================================================
