--------------------------- MODULE MCPokerEscrow ---------------------------
\* A table of three for TLC; a delta may exceed every buy-in.
EXTENDS PokerEscrow

SmallDeltas == -2 .. 2
=============================================================================
