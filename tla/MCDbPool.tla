------------------------------- MODULE MCDbPool -------------------------------
\* The threads of the run of DbPool.
EXTENDS DbPool

CONSTANTS t1, t2, t3

ThreeThreads == {t1, t2, t3}
===============================================================================
