----------------------------- MODULE MCTimeWheel -----------------------------
EXTENDS TimeWheel, TLC

CONSTANTS t1, t2, t3

MCTimer == {t1, t2, t3}
MCPair == {t1, t2}
MCPeriods == {0, 1, 2}
MCSymmetry == Permutations(MCTimer)
=============================================================================
