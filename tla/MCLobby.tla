------------------------------ MODULE MCLobby ------------------------------
\* A small table for TLC: two clocks agree, a third runs before or after them.
EXTENDS Lobby

ThreePeers == 1 .. 3

ThreeClocks == [p \in ThreePeers |-> IF p = 2 THEN {1, 3} ELSE {2}]
=============================================================================
