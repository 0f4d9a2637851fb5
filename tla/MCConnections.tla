--------------------------- MODULE MCConnections ---------------------------
EXTENDS Connections

CONSTANTS s1, s2

MCStubs == {s1, s2}
=============================================================================
