--------------------------- MODULE MCShuffleSession ---------------------------
(***************************************************************************)
(* Small shuffles for TLC. The seats are not symmetric: they take turns.   *)
(***************************************************************************)
EXTENDS ShuffleSession

CONSTANTS p1, p2

OnePerm == {p1}
TwoPerms == {p1, p2}
=============================================================================
