---------------------------- MODULE MCLockManager ---------------------------
(* Model checking of LockManager.                                          *)
EXTENDS LockManager, TLC

CONSTANTS t1, t2, t3

ThreeThreads == {t1, t2, t3}
OneWriter == {t1}
=============================================================================
