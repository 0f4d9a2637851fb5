--------------------------- MODULE MCThreadPool ---------------------------
EXTENDS ThreadPool

CONSTANTS e, k1, k2, t1, t2, t3

MCTask == {e, k1, k2}
MCEndless == {e}
MCThread == {t1, t2, t3}
MCRequests == {1, 2}
=============================================================================
