---------------------------- MODULE Transaction -----------------------------
(***************************************************************************)
(* The life of transactions: src/picotm.c and src/picotm_tx.c with the     *)
(* event log (picotm_log.c, picotm_event.c), the module call-backs         *)
(* (picotm_module.c, the table walks of table.c) and the exclusive lock    *)
(* that makes a transaction irrevocable (picotm_lock_manager.c).           *)
(*                                                                         *)
(* Each thread has one transaction object.  What a program does between    *)
(* picotm_begin and picotm_commit is one of: append an event, register a   *)
(* module, report a conflict, ask for irrevocability, report an error, or  *)
(* commit.  Every call-back into a module is a step of its own, and it may *)
(* fail in the ways that the variable failures lists.  A longjmp back into  *)
(* __picotm_begin() is part of the step that causes it.                    *)
(*                                                                         *)
(* The program restarts a transaction from its recovery code only if       *)
(* picotm_error_is_non_recoverable() returned false, and starts no further *)
(* transaction on a thread after a non-recoverable error.                  *)
(***************************************************************************)
EXTENDS Integers, Sequences, FiniteSets

CONSTANTS
    Threads,
    NULL,               \* the null pointer
    MAX_NMODULES,       \* size of picotm_tx::module; 256 in the code
    TX_NRETRIES_LIMIT,  \* 10 in the code
    FailureScenarios,   \* sets of pairs <<call-back, error status>>
    MAX_TX,             \* bound: transactions started by each thread
    MAX_EVENTS,         \* bound: events appended by each attempt
    MAX_RESTARTS        \* bound: where the counting of restarts stops

(* Where an error may be reported: in the execution phase, or by one of    *)
(* the call-backs; finish after a roll-back is listed apart.               *)
Callbacks == {"body", "begin", "prepare_commit", "apply", "undo",
              "apply_event", "undo_event", "finish", "rollback_finish"}
ErrorStatuses == {"conflicting", "revocable", "error"}

ASSUME TxThreadsAssumption == IsFiniteSet(Threads) /\ NULL \notin Threads
ASSUME TxLimitsAssumption ==
    /\ MAX_NMODULES \in Nat
    /\ TX_NRETRIES_LIMIT \in Nat \ {0}
    /\ {MAX_TX, MAX_EVENTS, MAX_RESTARTS} \subseteq Nat
    /\ MAX_RESTARTS > TX_NRETRIES_LIMIT
ASSUME FailuresAssumption ==
    FailureScenarios \subseteq SUBSET (Callbacks \X ErrorStatuses)

VARIABLES
    phase,      \* where each thread is in the life of its transaction
    mode,       \* picotm_tx::mode
    request,    \* the mode picotm_tx_begin() is about to enter
    nretries,   \* picotm_tx::nretries
    nmodules,   \* picotm_tx::nmodules
    log,        \* picotm_tx::log, a sequence of event numbers
    err,        \* the thread-local picotm_error: status and recoverability
    after,      \* what follows the roll-back: a new attempt or the recovery
    pos,        \* position of the walk over modules or events
    last,       \* where that walk ends
    shared,     \* how often the thread holds exclusive_lo_lock as a reader
    exclusive,  \* the thread that holds exclusive_lo_lock as writer
    exclusive_lo,
    started,    \* transactions started
    failures,   \* what may fail and how; stays what it is at the start
    modstate,   \* history: what the thread's modules have been told
    appended,   \* history: number of events appended by this attempt
    done        \* history: which events were applied and undone

txOnly == <<phase, mode, request, nretries, nmodules, log, err, after, pos,
            last>>
lockVars == <<shared, exclusive, exclusive_lo>>
history == <<modstate, appended, done>>
txVars == <<txOnly, lockVars, started, failures, history>>

Modules == 1 .. MAX_NMODULES
Modes == {"revocable", "irrevocable"}
InBegin == {"begin", "unbegin"}
InCommit == {"prepare", "apply", "apply_events", "commit_finish"}
InRollback == {"undo", "undo_events", "rollback_finish"}

(* The phases in which a transaction holds the exclusive lock.             *)
Active == InBegin \cup {"run"} \cup InCommit \cup InRollback

NoError == [status |-> "none", nonrec |-> FALSE]
Errors == [status : ErrorStatuses \cup {"none"}, nonrec : BOOLEAN]

TxTypeOK ==
    /\ phase \in [Threads -> Active \cup {"out", "lock", "recovery", "abort"}]
    /\ mode \in [Threads -> Modes]
    /\ request \in [Threads -> [mode : Modes, nretries : Nat]]
    /\ nretries \in [Threads -> Nat]
    /\ nmodules \in [Threads -> 0 .. MAX_NMODULES]
    /\ log \in [Threads -> Seq(Nat)]
    /\ err \in [Threads -> Errors]
    /\ after \in [Threads -> Modes \cup {"recovery"}]
    /\ pos \in [Threads -> Nat]
    /\ last \in [Threads -> Nat]
    /\ shared \in [Threads -> Nat]
    /\ exclusive \in Threads \cup {NULL}
    /\ exclusive_lo \in Threads \cup {NULL}
    /\ started \in [Threads -> Nat]
    /\ failures \in FailureScenarios
    /\ modstate \in [Threads -> [Modules -> {"idle", "begun", "prepared",
                                            "applied", "undone"}]]
    /\ appended \in [Threads -> Nat]
    /\ done \in [Threads -> Seq({"apply", "undo"} \X Nat)]

TxInit ==
    /\ phase = [t \in Threads |-> "out"]
    /\ mode = [t \in Threads |-> "revocable"]
    /\ request = [t \in Threads |-> [mode |-> "revocable", nretries |-> 0]]
    /\ nretries = [t \in Threads |-> 0]
    /\ nmodules = [t \in Threads |-> 0]
    /\ log = [t \in Threads |-> <<>>]
    /\ err = [t \in Threads |-> NoError]
    /\ after = [t \in Threads |-> "revocable"]
    /\ pos = [t \in Threads |-> 0]
    /\ last = [t \in Threads |-> 0]
    /\ shared = [t \in Threads |-> 0]
    /\ exclusive = NULL
    /\ exclusive_lo = NULL
    /\ started = [t \in Threads |-> 0]
    /\ failures \in FailureScenarios
    /\ modstate = [t \in Threads |-> [m \in Modules |-> "idle"]]
    /\ appended = [t \in Threads |-> 0]
    /\ done = [t \in Threads |-> <<>>]

-----------------------------------------------------------------------------
(* Helpers.                                                                *)

(* A walk over 1 .. n starts; walks go through pos up to last.             *)
Walk(t, p, n) ==
    /\ phase' = [phase EXCEPT ![t] = p]
    /\ pos' = [pos EXCEPT ![t] = 1]
    /\ last' = [last EXCEPT ![t] = n]

Walking(t, p) == phase[t] = p /\ pos[t] <= last[t]
Walked(t, p) == phase[t] = p /\ pos[t] > last[t]

Advance(t) == pos' = [pos EXCEPT ![t] = @ + 1] /\ UNCHANGED <<phase, last>>

Tell(t, m, s) == modstate' = [modstate EXCEPT ![t][m] = s]

SetError(t, s, n) == err' = [err EXCEPT ![t] = [status |-> s, nonrec |-> n]]

(* A call-back may fail.  Only a revocable transaction meets conflicts or  *)
(* lacks irrevocability.                                                   *)
Fails(t, callback, s) ==
    /\ <<callback, s>> \in failures
    /\ s # "error" => mode[t] = "revocable"

(* The exclusive lock, a pthread reader/writer lock.  An irrevocable       *)
(* transaction waits until no other one runs, a revocable one until no     *)
(* irrevocable one runs.                                                   *)
picotm_lock_manager_wait_irrevocable(t) ==
    /\ exclusive = NULL
    /\ shared' = [shared EXCEPT ![t] = @ + 1]
    /\ UNCHANGED <<exclusive, exclusive_lo>>

(* Mutant: only as a reader.                                               *)
MutMakeIrrevocable(t) ==
    /\ exclusive = NULL
    /\ shared' = [shared EXCEPT ![t] = @ + 1]
    /\ exclusive_lo' = t
    /\ UNCHANGED exclusive

picotm_lock_manager_make_irrevocable(t) ==
    /\ exclusive = NULL
    /\ \A u \in Threads : shared[u] = 0
    /\ exclusive' = t
    /\ exclusive_lo' = t
    /\ UNCHANGED shared

(* Mutant: gives up a reader lock in any case.                             *)
MutRelease(t) ==
    /\ exclusive_lo' = IF exclusive_lo = t THEN NULL ELSE exclusive_lo
    /\ exclusive' = IF exclusive = t THEN NULL ELSE exclusive
    /\ shared' = [shared EXCEPT ![t] = @ - 1]

picotm_lock_manager_release_irrevocability(t) ==
    /\ exclusive_lo' = IF exclusive_lo = t THEN NULL ELSE exclusive_lo
    /\ exclusive' = IF exclusive = t THEN NULL ELSE exclusive
    /\ shared' = IF exclusive = t THEN shared
                                  ELSE [shared EXCEPT ![t] = @ - 1]

-----------------------------------------------------------------------------
(* Mutant: the limit is not looked at.                                     *)
MutAttemptMode(m, n) == m

(* Which mode an attempt gets that asks for mode m and is the n-th         *)
(* restart of its transaction.                                             *)
AttemptMode(m, n) == IF n = TX_NRETRIES_LIMIT THEN "irrevocable" ELSE m

(* picotm_tx_begin up to the exclusive lock, called from __picotm_begin    *)
(* after it has cleared the error.                                         *)
EnterBegin(t, m, n) ==
    /\ err' = [err EXCEPT ![t] = NoError]
    /\ IF log[t] # <<>>
       THEN phase' = [phase EXCEPT ![t] = "abort"] /\ UNCHANGED request
       ELSE /\ phase' = [phase EXCEPT ![t] = "lock"]
            /\ request' = [request EXCEPT ![t] =
                   [mode |-> AttemptMode(m, n), nretries |-> n]]

(* The counter of restarts, which the model stops at MAX_RESTARTS.         *)
Restarts(t) ==
    IF nretries[t] < MAX_RESTARTS THEN nretries[t] + 1 ELSE nretries[t]

(* __picotm_begin in mode PICOTM_MODE_START                                *)
Start(t) ==
    /\ phase[t] = "out"
    /\ started[t] < MAX_TX
    /\ started' = [started EXCEPT ![t] = @ + 1]
    /\ EnterBegin(t, "revocable", 0)
    /\ UNCHANGED <<mode, nretries, nmodules, log, after, pos, last, lockVars,
                   history>>

(* picotm_restart, called from the recovery code: PICOTM_MODE_RESTART      *)
picotm_restart(t) ==
    /\ phase[t] = "recovery"
    /\ ~err[t].nonrec
    /\ EnterBegin(t, "revocable", Restarts(t))
    /\ UNCHANGED <<mode, nretries, nmodules, log, after, pos, last, lockVars,
                   started, history>>

(* The recovery code runs to picotm_end.                                   *)
End(t) ==
    /\ phase[t] = "recovery"
    /\ ~err[t].nonrec
    /\ phase' = [phase EXCEPT ![t] = "out"]
    /\ UNCHANGED <<mode, request, nretries, nmodules, log, err, after, pos,
                   last, lockVars, started, history>>

(* The rest of picotm_tx_begin, up to the first begin call-back.           *)
AcquireExclusiveLock(t) ==
    /\ phase[t] = "lock"
    /\ IF request[t].mode = "irrevocable"
       THEN picotm_lock_manager_make_irrevocable(t)
       ELSE picotm_lock_manager_wait_irrevocable(t)
    /\ mode' = [mode EXCEPT ![t] = request[t].mode]
    /\ nretries' = [nretries EXCEPT ![t] = request[t].nretries]
    /\ appended' = [appended EXCEPT ![t] = 0]
    /\ done' = [done EXCEPT ![t] = <<>>]
    /\ Walk(t, "begin", nmodules[t])
    /\ UNCHANGED <<request, nmodules, log, err, after, started, modstate>>

BeginModule(t) ==
    /\ Walking(t, "begin")
    /\ \/ /\ Tell(t, pos[t], "begun")
          /\ Advance(t)
          /\ UNCHANGED err
       \/ \E s \in ErrorStatuses :
             /\ Fails(t, "begin", s)
             /\ SetError(t, s, FALSE)
             /\ Walk(t, "unbegin", pos[t] - 1)
             /\ UNCHANGED modstate
    /\ UNCHANGED <<mode, request, nretries, nmodules, log, after, lockVars,
                   started, appended, done>>

Began(t) ==
    /\ Walked(t, "begin")
    /\ phase' = [phase EXCEPT ![t] = "run"]
    /\ UNCHANGED <<mode, request, nretries, nmodules, log, err, after, pos,
                   last, lockVars, started, history>>

(* begin failed: the modules that began are finished, and __picotm_begin   *)
(* returns false.  A second failure keeps the exclusive lock.              *)
UnbeginModule(t) ==
    /\ Walking(t, "unbegin")
    /\ \/ /\ Tell(t, pos[t], "idle")
          /\ Advance(t)
          /\ UNCHANGED err
       \/ /\ \E s \in ErrorStatuses : Fails(t, "finish", s)
          /\ err' = [err EXCEPT ![t].nonrec = TRUE]
          /\ phase' = [phase EXCEPT ![t] = "recovery"]
          /\ UNCHANGED <<pos, last, modstate>>
    /\ UNCHANGED <<mode, request, nretries, nmodules, log, after, lockVars,
                   started, appended, done>>

(* Mutant: the exclusive lock is kept.                                     *)
MutUnbegan(t) ==
    /\ Walked(t, "unbegin")
    /\ phase' = [phase EXCEPT ![t] = "recovery"]
    /\ UNCHANGED <<mode, request, nretries, nmodules, log, err, after, pos,
                   last, lockVars, started, history>>

Unbegan(t) ==
    /\ Walked(t, "unbegin")
    /\ picotm_lock_manager_release_irrevocability(t)
    /\ phase' = [phase EXCEPT ![t] = "recovery"]
    /\ UNCHANGED <<mode, request, nretries, nmodules, log, err, after, pos,
                   last, started, history>>

-----------------------------------------------------------------------------
(* A roll-back starts; a is what follows it.                               *)
StartRollback(t, a) ==
    /\ Walk(t, "undo", nmodules[t])
    /\ after' = [after EXCEPT ![t] = a]

(* The longjmp of restart_tx_from_error into __picotm_begin, which clears  *)
(* the error before it rolls back in order to retry.  To recover from an   *)
(* error it rolls back only a recoverable one.                             *)
RestartFromError(t, s, nonrec, rollback) ==
    IF s = "error"
    THEN /\ SetError(t, s, nonrec)
         /\ IF ~rollback
            THEN /\ phase' = [phase EXCEPT ![t] = "recovery"]
                 /\ UNCHANGED <<pos, last, after>>
            ELSE StartRollback(t, "recovery")
    ELSE /\ err' = [err EXCEPT ![t] = NoError]
         /\ StartRollback(t, IF s = "conflicting" THEN "revocable"
                                                  ELSE "irrevocable")

(* Mutant: does not look at is_non_recoverable.                            *)
MutRestart(t, s, nonrec) == RestartFromError(t, s, nonrec, TRUE)

restart_tx_from_error(t, s, nonrec) == RestartFromError(t, s, nonrec, ~nonrec)

(* The execution phase.                                                    *)
picotm_append_event(t) ==
    /\ phase[t] = "run"
    /\ appended[t] < MAX_EVENTS
    /\ log' = [log EXCEPT ![t] = Append(@, appended[t] + 1)]
    /\ appended' = [appended EXCEPT ![t] = @ + 1]
    /\ UNCHANGED <<phase, mode, request, nretries, nmodules, err, after, pos,
                   last, lockVars, started, modstate, done>>

(* A module registers itself during a transaction: its begin call-back is  *)
(* called from the next transaction on.                                    *)
picotm_register_module(t) ==
    /\ phase[t] = "run"
    /\ nmodules[t] < MAX_NMODULES
    /\ nmodules' = [nmodules EXCEPT ![t] = @ + 1]
    /\ Tell(t, nmodules[t] + 1, "begun")
    /\ UNCHANGED <<phase, mode, request, nretries, log, err, after, pos,
                   last, lockVars, started, appended, done>>

(* picotm_resolve_conflict, picotm_irrevocable, picotm_recover_from_error  *)
Abort(t) ==
    /\ phase[t] = "run"
    /\ \E s \in ErrorStatuses :
          Fails(t, "body", s) /\ restart_tx_from_error(t, s, FALSE)
    /\ UNCHANGED <<mode, request, nretries, nmodules, log, lockVars, started,
                   history>>

picotm_tx_commit(t) ==
    /\ phase[t] = "run"
    /\ Walk(t, "prepare", nmodules[t])
    /\ UNCHANGED <<mode, request, nretries, nmodules, log, err, after,
                   lockVars, started, history>>

-----------------------------------------------------------------------------
(* Commit.                                                                 *)

CommitFails(t, callback, nonrec) ==
    /\ \E s \in ErrorStatuses :
          Fails(t, callback, s) /\ restart_tx_from_error(t, s, nonrec)
    /\ UNCHANGED <<mode, request, nretries, nmodules, lockVars, started,
                   appended>>

CommitGoesOn(t) ==
    UNCHANGED <<mode, request, nretries, nmodules, err, after, lockVars,
                started, appended>>

PrepareModule(t) ==
    /\ Walking(t, "prepare")
    /\ \/ /\ Tell(t, pos[t], "prepared")
          /\ Advance(t)
          /\ CommitGoesOn(t)
       \/ CommitFails(t, "prepare_commit", FALSE) /\ UNCHANGED modstate
    /\ UNCHANGED <<log, done>>

Prepared(t) ==
    /\ Walked(t, "prepare")
    /\ Walk(t, "apply", nmodules[t])
    /\ CommitGoesOn(t)
    /\ UNCHANGED <<log, modstate, done>>

ApplyModule(t) ==
    /\ Walking(t, "apply")
    /\ \/ /\ Tell(t, pos[t], "applied")
          /\ Advance(t)
          /\ CommitGoesOn(t)
       \/ CommitFails(t, "apply", TRUE) /\ UNCHANGED modstate
    /\ UNCHANGED <<log, done>>

Applied(t) ==
    /\ Walked(t, "apply")
    /\ Walk(t, "apply_events", Len(log[t]))
    /\ CommitGoesOn(t)
    /\ UNCHANGED <<log, modstate, done>>

ApplyEvent(t) ==
    /\ Walking(t, "apply_events")
    /\ \/ /\ done' = [done EXCEPT ![t] =
                         Append(@, <<"apply", log[t][pos[t]]>>)]
          /\ Advance(t)
          /\ CommitGoesOn(t)
          /\ UNCHANGED log
       \/ /\ CommitFails(t, "apply_event", TRUE)
          /\ log' = [log EXCEPT ![t] = <<>>]
          /\ UNCHANGED done
    /\ UNCHANGED modstate

EventsApplied(t) ==
    /\ Walked(t, "apply_events")
    /\ log' = [log EXCEPT ![t] = <<>>]
    /\ Walk(t, "commit_finish", nmodules[t])
    /\ CommitGoesOn(t)
    /\ UNCHANGED <<modstate, done>>

FinishModuleAfterCommit(t) ==
    /\ Walking(t, "commit_finish")
    /\ \/ /\ Tell(t, pos[t], "idle")
          /\ Advance(t)
          /\ CommitGoesOn(t)
       \/ CommitFails(t, "finish", TRUE) /\ UNCHANGED modstate
    /\ UNCHANGED <<log, done>>

Committed(t) ==
    /\ Walked(t, "commit_finish")
    /\ picotm_lock_manager_release_irrevocability(t)
    /\ phase' = [phase EXCEPT ![t] = "out"]
    /\ UNCHANGED <<mode, request, nretries, nmodules, log, err, after, pos,
                   last, started, history>>

-----------------------------------------------------------------------------
(* picotm_tx_rollback.                                                     *)

(* Mutant: the error is not marked as non-recoverable.                     *)
MutRollbackError(t, s) == SetError(t, s, FALSE)

(* The roll-back failed with status s.  Its error is the thread's error    *)
(* when the transaction was to be retried, but a local variable of         *)
(* __picotm_begin when the thread was to recover from an earlier error.    *)
RollbackError(t, s) ==
    IF after[t] = "recovery" THEN UNCHANGED err ELSE SetError(t, s, TRUE)

RollbackFails(t, callback) ==
    /\ \E s \in ErrorStatuses : Fails(t, callback, s) /\ RollbackError(t, s)
    /\ picotm_lock_manager_release_irrevocability(t)
    /\ phase' = [phase EXCEPT ![t] = "recovery"]
    /\ UNCHANGED <<pos, last>>

RollbackGoesOn(t) == UNCHANGED <<err, lockVars>>

RollbackOnly == <<mode, request, nretries, nmodules, after, started, appended>>

UndoModule(t) ==
    /\ Walking(t, "undo")
    /\ \/ /\ Tell(t, pos[t], "undone")
          /\ Advance(t)
          /\ RollbackGoesOn(t)
       \/ RollbackFails(t, "undo") /\ UNCHANGED modstate
    /\ UNCHANGED <<RollbackOnly, log, done>>

Undone(t) ==
    /\ Walked(t, "undo")
    /\ Walk(t, "undo_events", Len(log[t]))
    /\ RollbackGoesOn(t)
    /\ UNCHANGED <<RollbackOnly, log, modstate, done>>

(* Mutant: the log is walked from its begin.                               *)
MutUndoPosition(t) == pos[t]

(* picotm_events_rev_foreach1 goes from the end of the log to its begin.   *)
UndoPosition(t) == last[t] + 1 - pos[t]

UndoEvent(t) ==
    /\ Walking(t, "undo_events")
    /\ \/ /\ done' = [done EXCEPT ![t] =
                 Append(@, <<"undo", log[t][UndoPosition(t)]>>)]
          /\ Advance(t)
          /\ RollbackGoesOn(t)
          /\ UNCHANGED log
       \/ /\ RollbackFails(t, "undo_event")
          /\ log' = [log EXCEPT ![t] = <<>>]
          /\ UNCHANGED done
    /\ UNCHANGED <<RollbackOnly, modstate>>

(* Mutant: the log is not cleared.                                         *)
MutEventsUndone(t) ==
    /\ Walked(t, "undo_events")
    /\ Walk(t, "rollback_finish", nmodules[t])
    /\ RollbackGoesOn(t)
    /\ UNCHANGED <<RollbackOnly, log, modstate, done>>

EventsUndone(t) ==
    /\ Walked(t, "undo_events")
    /\ log' = [log EXCEPT ![t] = <<>>]
    /\ Walk(t, "rollback_finish", nmodules[t])
    /\ RollbackGoesOn(t)
    /\ UNCHANGED <<RollbackOnly, modstate, done>>

FinishModuleAfterRollback(t) ==
    /\ Walking(t, "rollback_finish")
    /\ \/ /\ Tell(t, pos[t], "idle")
          /\ Advance(t)
          /\ RollbackGoesOn(t)
       \/ RollbackFails(t, "rollback_finish") /\ UNCHANGED modstate
    /\ UNCHANGED <<RollbackOnly, log, done>>

RolledBack(t) ==
    /\ Walked(t, "rollback_finish")
    /\ picotm_lock_manager_release_irrevocability(t)
    /\ IF after[t] = "recovery"
       THEN /\ phase' = [phase EXCEPT ![t] = "recovery"]
            /\ UNCHANGED <<request, err>>
       ELSE EnterBegin(t, after[t], Restarts(t))
    /\ UNCHANGED <<mode, nretries, nmodules, log, after, pos, last, started,
                   history>>

-----------------------------------------------------------------------------
(* The steps that picotm takes on its own.                                 *)
TxStep(t) ==
    \/ AcquireExclusiveLock(t)
    \/ BeginModule(t)
    \/ Began(t)
    \/ UnbeginModule(t)
    \/ Unbegan(t)
    \/ PrepareModule(t)
    \/ Prepared(t)
    \/ ApplyModule(t)
    \/ Applied(t)
    \/ ApplyEvent(t)
    \/ EventsApplied(t)
    \/ FinishModuleAfterCommit(t)
    \/ Committed(t)
    \/ UndoModule(t)
    \/ Undone(t)
    \/ UndoEvent(t)
    \/ EventsUndone(t)
    \/ FinishModuleAfterRollback(t)
    \/ RolledBack(t)

(* The ways in which the execution phase and the recovery code end.        *)
ProgramEnds(t) ==
    \/ Abort(t)
    \/ picotm_tx_commit(t)
    \/ picotm_restart(t)
    \/ End(t)

TxNext ==
    /\ \E t \in Threads :
          \/ Start(t)
          \/ picotm_append_event(t)
          \/ picotm_register_module(t)
          \/ ProgramEnds(t)
          \/ TxStep(t)
    /\ UNCHANGED failures

(* picotm's own steps are scheduled, and the program neither stays in its  *)
(* execution phase nor in its recovery code for ever.                      *)
TxFairness == \A t \in Threads : WF_txVars((TxStep(t) \/ ProgramEnds(t)) /\ UNCHANGED failures)

TxSpec == TxInit /\ [][TxNext]_txVars /\ TxFairness

-----------------------------------------------------------------------------
(* An irrevocable transaction runs alone, from its begin call-backs to its *)
(* last finish call-back.                                                  *)
IrrevocableRunsAlone ==
    \A t, u \in Threads :
        (t # u /\ phase[t] \in Active /\ mode[t] = "irrevocable")
            => phase[u] \notin Active

(* The exclusive lock is taken once and given back once on every path      *)
(* through begin, commit, roll-back, retry and recovery, but kept after an *)
(* error that cannot be recovered from.                                    *)
ExclusiveLockBalanced ==
    /\ exclusive_lo = exclusive
    /\ \A t \in Threads :
          /\ phase[t] \in Active =>
                IF mode[t] = "irrevocable"
                THEN exclusive = t /\ shared[t] = 0
                ELSE exclusive # t /\ shared[t] = 1
          /\ \/ phase[t] \in {"out", "lock"}
             \/ phase[t] = "recovery" /\ ~err[t].nonrec
             => exclusive # t /\ shared[t] = 0

(* All or nothing: when the modules are finished after a commit, the       *)
(* events of this attempt have been applied, each once and in the order in *)
(* which they were appended; after a roll-back they have been undone, each *)
(* once and in the opposite order, and none was applied.                   *)
AllOrNothing ==
    \A t \in Threads :
        LET n == appended[t]
        IN  /\ phase[t] = "commit_finish" =>
                  done[t] = [i \in 1 .. n |-> <<"apply", i>>]
            /\ phase[t] = "rollback_finish" =>
                  done[t] = [i \in 1 .. n |-> <<"undo", n + 1 - i>>]

(* The call-backs of each module follow the protocol of picotm-module.h:   *)
(* begin, then prepare and apply or else undo, then finish; what has been  *)
(* applied is never undone, and only a failing begin is finished without   *)
(* either.                                                                 *)
ModuleProtocol ==
    [][\A t \in Threads : \A m \in Modules :
          modstate'[t][m] # modstate[t][m] =>
              \/ <<modstate[t][m], modstate'[t][m]>> \in
                    {<<"idle", "begun">>, <<"begun", "prepared">>,
                     <<"prepared", "applied">>, <<"applied", "idle">>,
                     <<"begun", "undone">>, <<"prepared", "undone">>,
                     <<"undone", "idle">>}
              \/ modstate[t][m] = "begun" /\ modstate'[t][m] = "idle"
                    /\ phase[t] = "unbegin"]_txVars

(* assert(log_is_empty(self)) in picotm_tx_begin does not fail.            *)
LogIsEmptyAtBegin == \A t \in Threads : phase[t] # "abort"

(* A transaction begins on a clean slate, whichever way the one before     *)
(* ended: the event log is empty and every module has been finished.       *)
CleanSlate ==
    /\ LogIsEmptyAtBegin
    /\ \A t \in Threads :
          phase[t] = "lock" => \A m \in Modules : modstate[t][m] = "idle"

(* Every transaction ends, however often it conflicts: after               *)
(* TX_NRETRIES_LIMIT restarts it runs alone.                               *)
EveryTransactionEnds ==
    \A t \in Threads : phase[t] # "out" ~> phase[t] = "out"
=============================================================================
