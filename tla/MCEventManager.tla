--------------------------- MODULE MCEventManager ---------------------------
EXTENDS EventManager

MCIds == {1, 2}
MCBindable == {9}
=============================================================================
