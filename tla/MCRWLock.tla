------------------------------ MODULE MCRWLock ------------------------------
(* Model checking of RWLock.  Two-bit counter field: at most two readers,  *)
(* so that three threads reach the reader limit.                           *)
EXTENDS RWLock, TLC

CONSTANTS t1, t2, t3

MCThreads == {t1, t2, t3}
ThreadSymmetry == Permutations(MCThreads)
=============================================================================
