--------------------------- MODULE MCRWLockSystem ---------------------------
(* Model checking of RWLockSystem.                                         *)
EXTENDS RWLockSystem

CONSTANTS t1, t2, t3

ThreeThreads == {t1, t2, t3}
OneReader == {t1}
TwoWriters == {t2, t3}
=============================================================================
