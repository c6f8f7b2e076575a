---------------------------- MODULE MCTransaction ---------------------------
(* Model checking of Transaction.                                          *)
EXTENDS Transaction, TLC

CONSTANTS t1, t2

MCThreads == {t1, t2}
OneThread == {t1}
ThreadSymmetry == Permutations(MCThreads)

(* What modules of the repository report: conflicts, missing               *)
(* irrevocability and errors until the commit has been prepared, errors    *)
(* afterwards.                                                             *)
BodyFailures == {"body", "prepare_commit"} \X ErrorStatuses
CommitFailures == {"begin", "apply", "apply_event", "finish"} \X {"error"}

(* Conflicts, and nothing else.                                            *)
OnlyConflicts == {"body", "prepare_commit"} \X {"conflicting", "revocable"}

(* A roll-back that fails before a retry.                                  *)
RollbackCallbacks == {"undo", "undo_event", "rollback_finish"}
RetryFailures == (RollbackCallbacks \X {"error"}) \cup OnlyConflicts

MCScenarios == {BodyFailures \cup CommitFailures, RetryFailures}
LiveScenarios == {OnlyConflicts}

(* A roll-back that fails while the thread recovers from an error.         *)
RecoveryScenarios == {{<<"body", "error">>, <<"undo", "error">>}}
=============================================================================
