------------------------- MODULE TransactionProofs --------------------------
(***************************************************************************)
(* Proofs about module Transaction, for every finite set of threads, any   *)
(* number of modules and events, any limit of retries and any call-backs   *)
(* that fail: type correctness, the balance of the exclusive lock, that an *)
(* irrevocable transaction runs alone, and that its events are applied or  *)
(* undone all or none.                                                     *)
(*                                                                         *)
(* The types are not inductive alone: the exclusive lock can only be given *)
(* back by a thread that holds it (LockFits), and an event that is applied *)
(* or undone must be in the log (WalkFits).  AllOrNothing is not either:   *)
(* what has been applied or undone is a prefix that grows with the walk    *)
(* (LogFits).                                                              *)
(***************************************************************************)
EXTENDS Transaction, TLAPS

(* What a thread does.                                                     *)
TxAction(t) ==
    \/ Start(t)
    \/ picotm_append_event(t)
    \/ picotm_register_module(t)
    \/ ProgramEnds(t)
    \/ TxStep(t)

(* The thread holds the exclusive lock in the way its phase requires.      *)
LockFits(t) ==
    /\ phase[t] \in Active =>
          IF mode[t] = "irrevocable"
          THEN exclusive = t /\ shared[t] = 0
          ELSE exclusive # t /\ shared[t] = 1
    /\ \/ phase[t] \in {"out", "lock"}
       \/ phase[t] = "recovery" /\ ~err[t].nonrec
       => exclusive # t /\ shared[t] = 0

(* A walk over modules or events stays within its bounds.                  *)
WalkFits(t) ==
    /\ phase[t] \in InBegin \cup InCommit \cup InRollback
          => pos[t] \in 1 .. last[t] + 1
    /\ phase[t] \in {"apply_events", "undo_events"} => last[t] = Len(log[t])

(* Where a writer holds the exclusive lock there is no reader.             *)
ExclusiveMeansAlone ==
    exclusive # NULL => \A t \in Threads : shared[t] = 0

TxInv ==
    /\ TxTypeOK
    /\ exclusive_lo = exclusive
    /\ ExclusiveMeansAlone
    /\ \A t \in Threads : LockFits(t) /\ WalkFits(t)

(* Replacing one value of a function.                                      *)
LEMMA UpdateType ==
    ASSUME NEW D, NEW S, NEW f \in [D -> S], NEW d \in D, NEW v \in S
    PROVE  [f EXCEPT ![d] = v] \in [D -> S]
OBVIOUS

(* Initially nobody holds the lock and nobody walks.                       *)
LEMMA TxInitInv == TxInit => TxInv
<1> SUFFICES ASSUME TxInit PROVE TxInv
  OBVIOUS
<1>1. TxTypeOK
  BY TxLimitsAssumption
     DEF TxInit, TxTypeOK, NoError, Errors, Modes, Modules, Active
<1>2. exclusive_lo = exclusive
  BY DEF TxInit
<1>3. ASSUME NEW t \in Threads PROVE LockFits(t) /\ WalkFits(t)
  BY <1>3, TxThreadsAssumption
     DEF TxInit, LockFits, WalkFits, Active, InBegin, InCommit, InRollback
<1>4. QED
  BY <1>1, <1>2, <1>3 DEF TxInv, TxInit, ExclusiveMeansAlone

-----------------------------------------------------------------------------
(* All or nothing.  The theorem is about scenarios in which an event or a  *)
(* finish call-back that fails during the commit reports an error.  If one *)
(* reported a conflict instead, restart_tx_from_error() would roll back    *)
(* what has been applied.                                                  *)
NoLateConflicts ==
    \A F \in FailureScenarios : \A f \in F :
        f[1] \in {"apply_event", "finish"} => f[2] = "error"

EventNumbers(n) == [i \in 1 .. n |-> i]
AppliedEvents(n) == [i \in 1 .. n |-> <<"apply", i>>]
UndoneEvents(n, k) == [i \in 1 .. k |-> <<"undo", n + 1 - i>>]

(* What the log and the history hold in each phase of an attempt.          *)
LogFits(t) ==
    /\ phase[t] \in {"lock"} \cup InBegin => log[t] = <<>>
    /\ phase[t] \in InBegin => appended[t] = 0
    /\ phase[t] \in InBegin \cup {"run", "prepare", "apply", "undo"}
          => done[t] = <<>>
    /\ phase[t] \in {"run", "prepare", "apply", "apply_events", "undo",
                     "undo_events"}
          => log[t] = EventNumbers(appended[t])
    /\ phase[t] = "apply_events" => done[t] = AppliedEvents(pos[t] - 1)
    /\ phase[t] = "undo_events"
          => done[t] = UndoneEvents(appended[t], pos[t] - 1)
    /\ phase[t] = "commit_finish" => done[t] = AppliedEvents(appended[t])
    /\ phase[t] = "rollback_finish"
          => done[t] = UndoneEvents(appended[t], appended[t])

(* These sequences grow by one element.                                    *)
LEMMA Sequences ==
    ASSUME NEW n \in Nat, NEW k \in Nat
    PROVE  /\ EventNumbers(0) = <<>>
           /\ AppliedEvents(0) = <<>>
           /\ UndoneEvents(n, 0) = <<>>
           /\ Len(EventNumbers(n)) = n
           /\ \A i \in 1 .. n : EventNumbers(n)[i] = i
           /\ Append(EventNumbers(n), n + 1) = EventNumbers(n + 1)
           /\ Append(AppliedEvents(n), <<"apply", n + 1>>)
                 = AppliedEvents(n + 1)
           /\ Append(UndoneEvents(n, k), <<"undo", n - k>>)
                 = UndoneEvents(n, k + 1)
<1> DEFINE E(m) == EventNumbers(m)
           A(m) == AppliedEvents(m)
           U(m) == UndoneEvents(n, m)
<1>1. /\ E(n) \in Seq(Nat) /\ Len(E(n)) = n
      /\ E(0) = <<>> /\ \A i \in 1 .. n : E(n)[i] = i
  BY DEF EventNumbers
<1>2. /\ A(n) \in Seq({"apply"} \X Nat) /\ Len(A(n)) = n
      /\ A(0) = <<>>
  BY DEF AppliedEvents
<1>3. /\ U(k) \in Seq({"undo"} \X Int) /\ Len(U(k)) = k
      /\ U(0) = <<>>
  BY DEF UndoneEvents
<1>4. Append(E(n), n + 1) = E(n + 1)
  BY <1>1 DEF EventNumbers
<1>5. Append(A(n), <<"apply", n + 1>>) = A(n + 1)
  BY <1>2 DEF AppliedEvents
<1>6. Append(U(k), <<"undo", n - k>>) = U(k + 1)
  BY <1>3 DEF UndoneEvents
<1>7. QED
  BY <1>1, <1>2, <1>3, <1>4, <1>5, <1>6

(* What a step on the events relies upon.                                  *)
EventFacts(t) ==
    /\ DOMAIN phase = Threads /\ DOMAIN log = Threads
    /\ DOMAIN done = Threads
    /\ appended \in [Threads -> Nat] /\ pos \in [Threads -> Nat]
    /\ last[t] \in Nat
    /\ LogFits(t) /\ WalkFits(t)
    /\ \A c \in {"apply_event", "finish"}, s \in {"conflicting", "revocable"} :
          <<c, s>> \notin failures

(* An appended event becomes the last one of the log.                      *)
LEMMA AppendKeepsLogFits ==
    ASSUME NEW t \in Threads, EventFacts(t), picotm_append_event(t)
    PROVE  LogFits(t)'
<1> DEFINE n == appended[t]
<1>1. /\ n \in Nat /\ phase'[t] = "run" /\ appended'[t] = n + 1
      /\ done'[t] = <<>> /\ log[t] = EventNumbers(n)
      /\ log'[t] = Append(log[t], n + 1)
  BY DEF picotm_append_event, EventFacts, LogFits
<1>2. log'[t] = EventNumbers(n + 1)
  BY <1>1, Sequences
<1>3. QED
  BY <1>1, <1>2 DEF LogFits, InBegin

(* One event more has been applied, or the transaction has failed for      *)
(* good.                                                                   *)
LEMMA ApplyKeepsLogFits ==
    ASSUME NEW t \in Threads, EventFacts(t), ApplyEvent(t)
    PROVE  LogFits(t)'
<1> DEFINE n == appended[t]
           p == pos[t]
<1>1. /\ n \in Nat /\ p \in 1 .. n /\ p - 1 \in Nat
      /\ phase[t] = "apply_events" /\ log[t] = EventNumbers(n)
      /\ done[t] = AppliedEvents(p - 1)
  <2>1. /\ n \in Nat /\ p \in Nat /\ last[t] \in Nat
        /\ phase[t] = "apply_events" /\ p <= last[t]
    BY DEF ApplyEvent, Walking, EventFacts
  <2>2. log[t] = EventNumbers(n) /\ done[t] = AppliedEvents(p - 1)
    BY <2>1 DEF EventFacts, LogFits
  <2>3. p \in 1 .. last[t] + 1 /\ last[t] = Len(log[t])
    BY <2>1 DEF EventFacts, WalkFits, InCommit
  <2>4. Len(EventNumbers(n)) = n
    BY <2>1, Sequences
  <2>5. QED
    BY <2>1, <2>2, <2>3, <2>4
<1>2. log[t][p] = p
  BY <1>1, Sequences
<1>3. CASE /\ done' = [done EXCEPT ![t] =
                         Append(@, <<"apply", log[t][pos[t]]>>)]
           /\ Advance(t) /\ CommitGoesOn(t) /\ UNCHANGED log
  <2>1. /\ phase'[t] = "apply_events" /\ log'[t] = log[t]
        /\ appended'[t] = n /\ pos'[t] = p + 1
        /\ done'[t] = Append(done[t], <<"apply", p>>)
    BY <1>1, <1>2, <1>3 DEF Advance, CommitGoesOn, EventFacts
  <2>2. Append(AppliedEvents(p - 1), <<"apply", (p - 1) + 1>>)
           = AppliedEvents((p - 1) + 1)
    BY <1>1, Sequences
  <2>3. done'[t] = AppliedEvents(p) /\ (p + 1) - 1 = p
    BY <1>1, <2>1, <2>2
  <2>4. QED
    BY <1>1, <2>1, <2>3 DEF LogFits, InBegin
<1>4. CASE CommitFails(t, "apply_event", TRUE)
  <2>1. phase'[t] = "recovery"
    BY <1>4 DEF CommitFails, Fails, restart_tx_from_error, RestartFromError,
                SetError, EventFacts, ErrorStatuses
  <2>2. QED
    BY <2>1 DEF LogFits, InBegin
<1>5. QED
  BY <1>3, <1>4 DEF ApplyEvent

(* One event more has been undone, from the end of the log.                *)
LEMMA UndoKeepsLogFits ==
    ASSUME NEW t \in Threads, EventFacts(t), UndoEvent(t)
    PROVE  LogFits(t)'
<1> DEFINE n == appended[t]
           p == pos[t]
<1>1. /\ n \in Nat /\ p \in 1 .. n /\ p - 1 \in Nat /\ last[t] = n
      /\ phase[t] = "undo_events" /\ log[t] = EventNumbers(n)
      /\ done[t] = UndoneEvents(n, p - 1)
  <2>1. /\ n \in Nat /\ p \in Nat /\ last[t] \in Nat
        /\ phase[t] = "undo_events" /\ p <= last[t]
    BY DEF UndoEvent, Walking, EventFacts
  <2>2. log[t] = EventNumbers(n) /\ done[t] = UndoneEvents(n, p - 1)
    BY <2>1 DEF EventFacts, LogFits
  <2>3. p \in 1 .. last[t] + 1 /\ last[t] = Len(log[t])
    BY <2>1 DEF EventFacts, WalkFits, InRollback
  <2>4. Len(EventNumbers(n)) = n
    BY <2>1, Sequences
  <2>5. QED
    BY <2>1, <2>2, <2>3, <2>4
<1>2. log[t][UndoPosition(t)] = n - (p - 1)
  <2>1. UndoPosition(t) = n - (p - 1) /\ UndoPosition(t) \in 1 .. n
    BY <1>1 DEF UndoPosition
  <2>2. QED
    BY <1>1, <2>1, Sequences
<1>3. CASE /\ done' = [done EXCEPT ![t] =
                         Append(@, <<"undo", log[t][UndoPosition(t)]>>)]
           /\ Advance(t) /\ RollbackGoesOn(t) /\ UNCHANGED log
           /\ UNCHANGED <<RollbackOnly, modstate>>
  <2>1. /\ phase'[t] = "undo_events" /\ log'[t] = log[t]
        /\ appended'[t] = n /\ pos'[t] = p + 1
        /\ done'[t] = Append(done[t], <<"undo", n - (p - 1)>>)
    BY <1>1, <1>2, <1>3 DEF Advance, RollbackOnly, EventFacts
  <2>2. Append(UndoneEvents(n, p - 1), <<"undo", n - (p - 1)>>)
           = UndoneEvents(n, (p - 1) + 1)
    BY <1>1, Sequences
  <2>3. done'[t] = UndoneEvents(n, p) /\ (p + 1) - 1 = p
    BY <1>1, <2>1, <2>2
  <2>4. QED
    BY <1>1, <2>1, <2>3 DEF LogFits, InBegin
<1>4. CASE RollbackFails(t, "undo_event")
  <2>1. phase'[t] = "recovery"
    BY <1>4 DEF RollbackFails, EventFacts
  <2>2. QED
    BY <2>1 DEF LogFits, InBegin
<1>5. QED
  BY <1>3, <1>4 DEF UndoEvent

-----------------------------------------------------------------------------
(* The following lemmas say what a step does to the variables.  They cite  *)
(* all actions at once and only the facts about the state that matter.     *)
USE DEF
    TxAction, TxStep, ProgramEnds, Start, picotm_append_event,
    picotm_register_module, Abort, picotm_tx_commit, picotm_restart, End,
    AcquireExclusiveLock, BeginModule, Began, UnbeginModule, Unbegan,
    PrepareModule, Prepared, ApplyModule, Applied, ApplyEvent,
    EventsApplied, FinishModuleAfterCommit, Committed, UndoModule, Undone,
    UndoEvent, EventsUndone, FinishModuleAfterRollback, RolledBack, Advance,
    AttemptMode, CommitFails, CommitGoesOn, EnterBegin, Fails,
    RestartFromError, Restarts, RollbackError, RollbackFails,
    RollbackGoesOn, RollbackOnly, SetError, StartRollback, Tell,
    UndoPosition, Walk, Walked, Walking,
    picotm_lock_manager_make_irrevocable,
    picotm_lock_manager_release_irrevocability,
    picotm_lock_manager_wait_irrevocable, restart_tx_from_error, NoError,
    Modes, Active, InBegin, InCommit, InRollback, ErrorStatuses, lockVars,
    history

(* Only the threads that begin an attempt change request.                  *)
LEMMA RequestType ==
    ASSUME NEW t \in Threads, TxAction(t), nretries[t] \in Nat,
           after[t] \in Modes \cup {"recovery"},
           request \in [Threads -> [mode : Modes, nretries : Nat]]
    PROVE  request' \in [Threads -> [mode : Modes, nretries : Nat]]
<1>1. \/ UNCHANGED request
      \/ \E m \in Modes, n \in {0, nretries[t], nretries[t] + 1} :
            request' = [request EXCEPT ![t] = [mode |-> m, nretries |-> n]]
  OBVIOUS
<1> HIDE DEF TxAction
<1>2. QED
  BY <1>1

(* The log changes by an event more, or loses all of them.                 *)
LEMMA LogType ==
    ASSUME NEW t \in Threads, TxAction(t), appended[t] \in Nat,
           log \in [Threads -> Seq(Nat)]
    PROVE  log' \in [Threads -> Seq(Nat)]
<1>1. \/ UNCHANGED log
      \/ log' = [log EXCEPT ![t] = <<>>]
      \/ log' = [log EXCEPT ![t] = Append(log[t], appended[t] + 1)]
  OBVIOUS
<1> HIDE DEF TxAction
<1>2. log[t] \in Seq(Nat) /\ Append(log[t], appended[t] + 1) \in Seq(Nat)
  OBVIOUS
<1>3. /\ [log EXCEPT ![t] = <<>>] \in [Threads -> Seq(Nat)]
      /\ [log EXCEPT ![t] = Append(log[t], appended[t] + 1)]
            \in [Threads -> Seq(Nat)]
  <2>1. <<>> \in Seq(Nat)
    OBVIOUS
  <2>2. QED
    BY <1>2, <2>1, UpdateType
<1>4. QED
  BY <1>1, <1>3, Zenon

(* Errors are cleared, replaced, or marked as non-recoverable.             *)
LEMMA ErrorType ==
    ASSUME NEW t \in Threads, TxAction(t), err \in [Threads -> Errors]
    PROVE  err' \in [Threads -> Errors]
<1>1. \/ UNCHANGED err
      \/ \E s \in ErrorStatuses \cup {"none"}, n \in BOOLEAN :
            err' = [err EXCEPT ![t] = [status |-> s, nonrec |-> n]]
      \/ err' = [err EXCEPT ![t].nonrec = TRUE]
  OBVIOUS
<1> HIDE DEF TxAction
<1>2. err[t] \in [status : ErrorStatuses \cup {"none"}, nonrec : BOOLEAN]
  BY DEF Errors
<1>3. [err[t] EXCEPT !.nonrec = TRUE] \in Errors
  BY <1>2 DEF Errors
<1>4. ASSUME NEW e \in Errors
      PROVE  [err EXCEPT ![t] = e] \in [Threads -> Errors]
  BY UpdateType
<1>5. [err EXCEPT ![t].nonrec = TRUE] \in [Threads -> Errors]
  BY <1>3, <1>4
<1>6. ASSUME NEW s \in ErrorStatuses \cup {"none"}, NEW n \in BOOLEAN
      PROVE  [status |-> s, nonrec |-> n] \in Errors
  BY DEF Errors
<1>7. QED
  BY <1>1, <1>4, <1>5, <1>6, Zenon

(* A reader lock is given back only by a thread that holds one.            *)
LEMMA SharedType ==
    ASSUME NEW t \in Threads, TxAction(t), LockFits(t),
           shared \in [Threads -> Nat]
    PROVE  shared' \in [Threads -> Nat]
<1>1. \/ UNCHANGED shared
      \/ shared' = [shared EXCEPT ![t] = shared[t] + 1]
      \/ /\ phase[t] \in Active /\ exclusive # t
         /\ shared' = [shared EXCEPT ![t] = shared[t] - 1]
  OBVIOUS
<1> HIDE DEF TxAction
<1>2. QED
  BY <1>1 DEF LockFits

(* The modules of one thread are told of one thing at a time.              *)
LEMMA ModuleStateType ==
    ASSUME NEW t \in Threads, TxAction(t), NEW S,
           {"begun", "prepared", "applied", "undone", "idle"} \subseteq S,
           modstate \in [Threads -> [Modules -> S]]
    PROVE  modstate' \in [Threads -> [Modules -> S]]
<1>1. \/ UNCHANGED modstate
      \/ \E m \in {pos[t], nmodules[t] + 1}, s \in S :
            modstate' = [modstate EXCEPT ![t][m] = s]
  OBVIOUS
<1> HIDE DEF TxAction
<1>2. QED
  BY <1>1

(* What is applied or undone is an event of the log.                       *)
LEMMA DoneType ==
    ASSUME NEW t \in Threads, TxAction(t), WalkFits(t), 
           log[t] \in Seq(Nat), pos[t] \in Nat, last[t] \in Nat,
           done \in [Threads -> Seq({"apply", "undo"} \X Nat)]
    PROVE  done' \in [Threads -> Seq({"apply", "undo"} \X Nat)]
<1>1. \/ UNCHANGED done
      \/ done' = [done EXCEPT ![t] = <<>>]
      \/ \E c \in {"apply", "undo"}, i \in {pos[t], last[t] + 1 - pos[t]} :
            /\ phase[t] \in {"apply_events", "undo_events"}
            /\ pos[t] <= last[t]
            /\ done' = [done EXCEPT ![t] = Append(done[t], <<c, log[t][i]>>)]
  OBVIOUS
<1> HIDE DEF TxAction
<1>2. ASSUME NEW c \in {"apply", "undo"},
             NEW i \in {pos[t], last[t] + 1 - pos[t]},
             phase[t] \in {"apply_events", "undo_events"}, pos[t] <= last[t]
      PROVE  Append(done[t], <<c, log[t][i]>>)
                \in Seq({"apply", "undo"} \X Nat)
  <2>1. i \in 1 .. Len(log[t])
    BY <1>2 DEF WalkFits
  <2>2. log[t][i] \in Nat
    BY <2>1
  <2>3. <<c, log[t][i]>> \in {"apply", "undo"} \X Nat
    BY <2>2
  <2>4. done[t] \in Seq({"apply", "undo"} \X Nat)
    OBVIOUS
  <2>5. QED
    BY <2>3, <2>4
<1>3. ASSUME NEW v \in Seq({"apply", "undo"} \X Nat)
      PROVE  [done EXCEPT ![t] = v]
                \in [Threads -> Seq({"apply", "undo"} \X Nat)]
  BY UpdateType
<1>4. <<>> \in Seq({"apply", "undo"} \X Nat)
  OBVIOUS
<1>5. QED
  BY <1>1, <1>2, <1>3, <1>4, Zenon

(* Phases, modes and walks.                                                *)
LEMMA PhaseType ==
    ASSUME NEW t \in Threads, TxAction(t),
           phase \in [Threads -> Active \cup {"out", "lock", "recovery",
                                              "abort"}]
    PROVE  phase' \in [Threads -> Active \cup {"out", "lock", "recovery",
                                               "abort"}]
OBVIOUS

(* An attempt takes its mode from its request.                             *)
LEMMA ModeType ==
    ASSUME NEW t \in Threads, TxAction(t),
           request[t].mode \in Modes, mode \in [Threads -> Modes]
    PROVE  mode' \in [Threads -> Modes]
OBVIOUS

(* What follows a roll-back is an attempt or the recovery.                 *)
LEMMA AfterType ==
    ASSUME NEW t \in Threads, TxAction(t),
           after \in [Threads -> Modes \cup {"recovery"}]
    PROVE  after' \in [Threads -> Modes \cup {"recovery"}]
OBVIOUS

(* A position is set to 1 or goes one further.                             *)
LEMMA PosType ==
    ASSUME NEW t \in Threads, TxAction(t), pos \in [Threads -> Nat]
    PROVE  pos' \in [Threads -> Nat]
OBVIOUS

(* A walk ends at the last module or event, or before the module that      *)
(* failed.                                                                 *)
LEMMA LastType ==
    ASSUME NEW t \in Threads, TxAction(t), WalkFits(t), pos[t] \in Nat,
           nmodules[t] \in Nat, Len(log[t]) \in Nat, last \in [Threads -> Nat]
    PROVE  last' \in [Threads -> Nat]
BY DEF WalkFits

(* Counters.                                                               *)
LEMMA RetriesType ==
    ASSUME NEW t \in Threads, TxAction(t),
           request[t].nretries \in Nat, nretries \in [Threads -> Nat]
    PROVE  nretries' \in [Threads -> Nat]
OBVIOUS

(* A module registers only where there is room for it.                     *)
LEMMA ModulesType ==
    ASSUME NEW t \in Threads, TxAction(t), MAX_NMODULES \in Nat,
           nmodules \in [Threads -> 0 .. MAX_NMODULES]
    PROVE  nmodules' \in [Threads -> 0 .. MAX_NMODULES]
OBVIOUS

(* Transactions are counted up.                                            *)
LEMMA StartedType ==
    ASSUME NEW t \in Threads, TxAction(t), started \in [Threads -> Nat]
    PROVE  started' \in [Threads -> Nat]
OBVIOUS

(* Events are counted up, and from 0 in every attempt.                     *)
LEMMA AppendedType ==
    ASSUME NEW t \in Threads, TxAction(t), appended \in [Threads -> Nat]
    PROVE  appended' \in [Threads -> Nat]
OBVIOUS

(* The writer of the exclusive lock is a thread.                           *)
LEMMA ExclusiveType ==
    ASSUME NEW t \in Threads, TxAction(t),
           exclusive \in Threads \cup {NULL},
           exclusive_lo \in Threads \cup {NULL}
    PROVE  /\ exclusive' \in Threads \cup {NULL}
           /\ exclusive_lo' \in Threads \cup {NULL}
OBVIOUS

(* A step of one thread leaves the others alone.                           *)
LEMMA OthersControl ==
    ASSUME NEW t \in Threads, TxAction(t), NEW u \in Threads \ {t},
           DOMAIN phase = Threads, DOMAIN pos = Threads,
           DOMAIN last = Threads, DOMAIN log = Threads
    PROVE  /\ phase'[u] = phase[u]
           /\ pos'[u] = pos[u]
           /\ last'[u] = last[u]
           /\ log'[u] = log[u]
OBVIOUS

(* The same of the mode and of the exclusive lock.                         *)
LEMMA OthersLock ==
    ASSUME NEW t \in Threads, TxAction(t), NEW u \in Threads \ {t},
           DOMAIN mode = Threads, DOMAIN shared = Threads,
           NULL \notin Threads
    PROVE  /\ mode'[u] = mode[u]
           /\ shared'[u] = shared[u]
           /\ exclusive' = u <=> exclusive = u
OBVIOUS

(* The same of the error.                                                  *)
LEMMA OthersError ==
    ASSUME NEW t \in Threads, TxAction(t), NEW u \in Threads \ {t},
           DOMAIN err = Threads
    PROVE  err'[u] = err[u]
OBVIOUS

(* The lock is given back on every path on which it has been taken.        *)
LEMMA LockStep ==
    ASSUME NEW t \in Threads, TxAction(t), LockFits(t),
           DOMAIN phase = Threads, DOMAIN mode = Threads,
           err \in [Threads -> Errors], shared \in [Threads -> Nat],
           request[t].mode \in Modes, NULL \notin Threads
    PROVE  LockFits(t)'
BY DEF LockFits, Errors

(* A writer waits for all readers, and readers wait for it.                *)
LEMMA AloneStep ==
    ASSUME NEW t \in Threads, TxAction(t), ExclusiveMeansAlone,
           exclusive = exclusive_lo, shared \in [Threads -> Nat],
           LockFits(t)
    PROVE  ExclusiveMeansAlone' /\ exclusive' = exclusive_lo'
BY DEF LockFits, ExclusiveMeansAlone

(* A walk starts at 1 and goes on while it has not passed its last element.*)
LEMMA WalkStep ==
    ASSUME NEW t \in Threads, TxAction(t), WalkFits(t),
           DOMAIN phase = Threads, DOMAIN log = Threads,
           pos \in [Threads -> Nat], last \in [Threads -> Nat],
           nmodules[t] \in Nat, Len(log[t]) \in Nat
    PROVE  WalkFits(t)'
BY DEF WalkFits

(* The steps that neither append, nor apply, nor undo an event.            *)
LEMMA OtherStepsKeepLogFits ==
    ASSUME NEW t \in Threads, EventFacts(t), TxAction(t),
           ~picotm_append_event(t), ~ApplyEvent(t), ~UndoEvent(t)
    PROVE  LogFits(t)'
<1> DEFINE n == appended[t]
<1>1. /\ n \in Nat
      /\ EventNumbers(0) = <<>> /\ AppliedEvents(0) = <<>>
      /\ UndoneEvents(n, 0) = <<>> /\ Len(EventNumbers(n)) = n
  <2>1. n \in Nat
    BY DEF EventFacts
  <2>2. QED
    BY <2>1, Sequences
<1> HIDE DEF picotm_append_event, ApplyEvent, UndoEvent
<1>2. QED
  BY <1>1 DEF EventFacts, LogFits, WalkFits

(* The same of the history.                                                *)
LEMMA OthersEvents ==
    ASSUME NEW t \in Threads, TxAction(t), NEW u \in Threads \ {t},
           DOMAIN appended = Threads, DOMAIN done = Threads
    PROVE  appended'[u] = appended[u] /\ done'[u] = done[u]
OBVIOUS

(* Each step of the specification is one of a thread.                      *)
LEMMA SomeThreadActs ==
    TxNext => (\E t \in Threads : TxAction(t)) /\ UNCHANGED failures
BY DEF TxNext

HIDE DEF TxAction

-----------------------------------------------------------------------------
(* The invariant.                                                          *)
LEMMA TxInvValues ==
    ASSUME TxInv, NEW t \in Threads
    PROVE  /\ request[t] \in [mode : Modes, nretries : Nat]
           /\ log[t] \in Seq(Nat) /\ Len(log[t]) \in Nat
           /\ after[t] \in Modes \cup {"recovery"}
           /\ nretries[t] \in Nat /\ appended[t] \in Nat
           /\ nmodules[t] \in Nat /\ MAX_NMODULES \in Nat
           /\ pos[t] \in Nat /\ last[t] \in Nat
<1>1. log[t] \in Seq(Nat)
  BY DEF TxInv, TxTypeOK
<1>2. request[t] \in [mode : Modes, nretries : Nat]
  BY DEF TxInv, TxTypeOK
<1>3. after[t] \in Modes \cup {"recovery"} /\ pos[t] \in Nat /\ last[t] \in Nat
  BY DEF TxInv, TxTypeOK
<1>4. nretries[t] \in Nat /\ appended[t] \in Nat
  BY DEF TxInv, TxTypeOK
<1>5. nmodules \in [Threads -> 0 .. MAX_NMODULES]
  BY DEF TxInv, TxTypeOK
<1>6. MAX_NMODULES \in Nat
  BY TxLimitsAssumption
<1>7. QED
  BY <1>1, <1>2, <1>3, <1>4, <1>5, <1>6

(* The variables keep their types in every step.                           *)
LEMMA TxTypeStep ==
    ASSUME TxInv, NEW t \in Threads, TxAction(t), UNCHANGED failures
    PROVE  TxTypeOK'
<1>1. LockFits(t) /\ WalkFits(t)
  BY DEF TxInv
<1>2. /\ request[t] \in [mode : Modes, nretries : Nat]
      /\ log[t] \in Seq(Nat) /\ Len(log[t]) \in Nat
      /\ after[t] \in Modes \cup {"recovery"}
      /\ nretries[t] \in Nat /\ appended[t] \in Nat
      /\ nmodules[t] \in Nat /\ MAX_NMODULES \in Nat
      /\ pos[t] \in Nat /\ last[t] \in Nat
  BY TxInvValues
<1>3. request[t].mode \in Modes /\ request[t].nretries \in Nat
  BY <1>2
<1> USE DEF TxInv, TxTypeOK
<1>4. (phase \in [Threads -> Active \cup {"out", "lock", "recovery",
                                          "abort"}])'
  BY PhaseType
<1>5. (mode \in [Threads -> Modes])' /\ (nretries \in [Threads -> Nat])'
  BY <1>3, ModeType, RetriesType
<1>6. (request \in [Threads -> [mode : Modes, nretries : Nat]])'
  BY <1>2, RequestType
<1>7. (nmodules \in [Threads -> 0 .. MAX_NMODULES])'
  BY <1>2, ModulesType
<1>8. (log \in [Threads -> Seq(Nat)])'
  BY <1>2, LogType
<1>9. (err \in [Threads -> Errors])'
  BY ErrorType
<1>10. (after \in [Threads -> Modes \cup {"recovery"}])'
  BY AfterType
<1>11. (pos \in [Threads -> Nat])' /\ (last \in [Threads -> Nat])'
  BY <1>1, <1>2, PosType, LastType
<1>12. (shared \in [Threads -> Nat])'
  BY <1>1, SharedType
<1>13. /\ (exclusive \in Threads \cup {NULL})'
       /\ (exclusive_lo \in Threads \cup {NULL})'
  BY ExclusiveType
<1>14. (started \in [Threads -> Nat])' /\ (appended \in [Threads -> Nat])'
  BY StartedType, AppendedType
<1>15. (failures \in FailureScenarios)'
  OBVIOUS
<1>16. (modstate \in [Threads -> [Modules ->
              {"idle", "begun", "prepared", "applied", "undone"}]])'
  BY ModuleStateType
<1>17. (done \in [Threads -> Seq({"apply", "undo"} \X Nat)])'
  BY <1>1, <1>2, DoneType
<1>18. QED
  BY <1>4, <1>5, <1>6, <1>7, <1>8, <1>9, <1>10, <1>11, <1>12, <1>13, <1>14,
     <1>15, <1>16, <1>17

(* Every step keeps the invariant, of the acting thread and of the others. *)
LEMMA TxInvStep ==
    ASSUME TxInv, NEW t \in Threads, TxAction(t), UNCHANGED failures
    PROVE  TxInv'
<1>1. TxTypeOK'
  BY TxTypeStep
<1>2. /\ DOMAIN phase = Threads /\ DOMAIN mode = Threads
      /\ DOMAIN log = Threads /\ DOMAIN err = Threads
      /\ err \in [Threads -> Errors]
      /\ shared \in [Threads -> Nat]
      /\ pos \in [Threads -> Nat] /\ last \in [Threads -> Nat]
      /\ request[t].mode \in Modes
      /\ nmodules[t] \in Nat
      /\ NULL \notin Threads
  <2>1. /\ DOMAIN phase = Threads /\ DOMAIN mode = Threads
        /\ DOMAIN log = Threads /\ DOMAIN err = Threads
        /\ err \in [Threads -> Errors]
    BY DEF TxInv, TxTypeOK
  <2>2. /\ shared \in [Threads -> Nat]
        /\ pos \in [Threads -> Nat] /\ last \in [Threads -> Nat]
    BY DEF TxInv, TxTypeOK
  <2>3. request[t].mode \in Modes /\ nmodules[t] \in Nat
    BY TxInvValues
  <2>4. QED
    BY <2>1, <2>2, <2>3, TxThreadsAssumption
<1>3. Len(log[t]) \in Nat
  BY TxInvValues
<1>4. LockFits(t) /\ WalkFits(t)
  BY DEF TxInv
<1>5. ExclusiveMeansAlone' /\ (exclusive_lo = exclusive)'
  BY <1>2, <1>4, AloneStep DEF TxInv
<1>6. LockFits(t)' /\ WalkFits(t)'
  BY <1>2, <1>3, <1>4, LockStep, WalkStep
<1>7. ASSUME NEW u \in Threads \ {t} PROVE LockFits(u)' /\ WalkFits(u)'
  <2>1. LockFits(u) /\ WalkFits(u)
    BY DEF TxInv
  <2>2. /\ phase'[u] = phase[u] /\ pos'[u] = pos[u]
        /\ last'[u] = last[u] /\ log'[u] = log[u]
    BY <1>2, OthersControl
  <2>3. /\ mode'[u] = mode[u] /\ shared'[u] = shared[u]
        /\ exclusive' = u <=> exclusive = u
    BY <1>2, OthersLock
  <2>4. err'[u] = err[u]
    BY <1>2, OthersError
  <2>5. LockFits(u)'
    BY <2>1, <2>2, <2>3, <2>4 DEF LockFits
  <2>6. WalkFits(u)'
    BY <2>1, <2>2 DEF WalkFits
  <2>7. QED
    BY <2>5, <2>6
<1>8. QED
  BY <1>1, <1>5, <1>6, <1>7 DEF TxInv

(* The invariant of module Transaction, which the results below follow     *)
(* from.                                                                   *)
THEOREM TransactionInvariant == TxSpec => []TxInv
<1>1. TxInv /\ [TxNext]_txVars => TxInv'
  <2>1. TxInv /\ TxNext => TxInv'
    BY SomeThreadActs, TxInvStep
  <2>2. TxInv /\ UNCHANGED txVars => TxInv'
    BY DEF txVars, txOnly, TxInv, TxTypeOK, LockFits, WalkFits,
           ExclusiveMeansAlone
  <2>3. QED
    BY <2>1, <2>2
<1>2. QED
  BY TxInitInv, <1>1, PTL DEF TxSpec

(* The variables keep their types.  In particular no thread gives back a   *)
(* reader lock that it does not hold, and no walk leaves the event log.    *)
THEOREM TransactionTypes == TxSpec => []TxTypeOK
<1>1. TxInv => TxTypeOK
  BY DEF TxInv
<1>2. QED
  BY <1>1, TransactionInvariant, PTL

(* The exclusive lock is taken once and given back once, whichever         *)
(* call-backs of begin, commit and roll-back fail.                         *)
THEOREM LockIsBalanced == TxSpec => []ExclusiveLockBalanced
<1>1. TxInv => ExclusiveLockBalanced
  BY DEF TxInv, ExclusiveLockBalanced, LockFits
<1>2. QED
  BY <1>1, TransactionInvariant, PTL

(* No transaction is active while an irrevocable one is.                   *)
THEOREM IrrevocableIsAlone == TxSpec => []IrrevocableRunsAlone
<1>1. TxInv => IrrevocableRunsAlone
  <2>1. SUFFICES ASSUME TxInv, NEW t \in Threads, NEW u \in Threads,
                        t # u, phase[t] \in Active,
                        mode[t] = "irrevocable", phase[u] \in Active
                 PROVE  FALSE
    BY DEF IrrevocableRunsAlone
  <2>2. exclusive = t /\ exclusive # NULL
    BY <2>1, TxThreadsAssumption DEF TxInv, LockFits
  <2>3. shared[u] = 0
    BY <2>1, <2>2 DEF TxInv, ExclusiveMeansAlone
  <2>4. QED
    BY <2>1, <2>2, <2>3 DEF TxInv, LockFits
<1>2. QED
  BY <1>1, TransactionInvariant, PTL

(* The invariant with the log and the history.                             *)
EventInv ==
    /\ NoLateConflicts
    /\ TxInv
    /\ \A t \in Threads : LogFits(t)

(* Every step keeps what the log and the history hold.                     *)
LEMMA EventInvStep ==
    ASSUME EventInv, NEW t \in Threads, TxAction(t), UNCHANGED failures
    PROVE  EventInv'
<1>1. TxInv'
  BY TxInvStep DEF EventInv
<1>2. /\ DOMAIN phase = Threads /\ DOMAIN pos = Threads
      /\ DOMAIN last = Threads /\ DOMAIN log = Threads
      /\ DOMAIN done = Threads
      /\ appended \in [Threads -> Nat] /\ pos \in [Threads -> Nat]
  BY DEF EventInv, TxInv, TxTypeOK
<1>3. EventFacts(t)
  <2>1. last[t] \in Nat
    BY TxInvValues DEF EventInv
  <2>2. LogFits(t) /\ WalkFits(t)
    BY DEF EventInv, TxInv
  <2>3. ASSUME NEW c \in {"apply_event", "finish"},
               NEW s \in {"conflicting", "revocable"}
        PROVE  <<c, s>> \notin failures
    <3>1. failures \in FailureScenarios
      BY DEF EventInv, TxInv, TxTypeOK
    <3>2. QED
      BY <2>3, <3>1 DEF EventInv, NoLateConflicts
  <2>4. QED
    BY <1>2, <2>1, <2>2, <2>3 DEF EventFacts
<1>4. LogFits(t)'
  BY <1>3, AppendKeepsLogFits, ApplyKeepsLogFits, UndoKeepsLogFits,
     OtherStepsKeepLogFits
<1>5. ASSUME NEW u \in Threads \ {t} PROVE LogFits(u)'
  <2>1. LogFits(u)
    BY DEF EventInv
  <2>2. phase'[u] = phase[u] /\ pos'[u] = pos[u] /\ log'[u] = log[u]
    BY <1>2, OthersControl
  <2>3. appended'[u] = appended[u] /\ done'[u] = done[u]
    BY <1>2, OthersEvents
  <2>4. QED
    BY <2>1, <2>2, <2>3 DEF LogFits
<1>6. QED
  BY <1>1, <1>4, <1>5 DEF EventInv, NoLateConflicts

(* All events of a transaction are applied, in their order, or all are     *)
(* undone, in the opposite order, unless a module reports a conflict after *)
(* the events have begun to be applied.                                    *)
THEOREM EventsAreAllOrNothing == NoLateConflicts /\ TxSpec => []AllOrNothing
<1>1. NoLateConflicts /\ TxInit => EventInv
  <2>1. ASSUME TxInit, NEW t \in Threads PROVE LogFits(t)
    BY <2>1 DEF TxInit, LogFits, InBegin
  <2>2. QED
    BY <2>1, TxInitInv DEF EventInv
<1>2. EventInv /\ [TxNext]_txVars => EventInv'
  <2>1. EventInv /\ TxNext => EventInv'
    BY SomeThreadActs, EventInvStep
  <2>2. EventInv /\ UNCHANGED txVars => EventInv'
    <3>1. SUFFICES ASSUME EventInv, UNCHANGED txVars PROVE EventInv'
      OBVIOUS
    <3>2. TxInv'
      BY <3>1 DEF EventInv, txVars, txOnly, TxInv, TxTypeOK, LockFits,
                  WalkFits, ExclusiveMeansAlone
    <3>3. \A t \in Threads : LogFits(t)'
      BY <3>1 DEF EventInv, LogFits, txVars, txOnly
    <3>4. QED
      BY <3>1, <3>2, <3>3 DEF EventInv, NoLateConflicts
  <2>3. QED
    BY <2>1, <2>2
<1>3. EventInv => AllOrNothing
  BY DEF EventInv, LogFits, AllOrNothing, AppliedEvents, UndoneEvents
<1>4. QED
  BY <1>1, <1>2, <1>3, PTL DEF TxSpec

-----------------------------------------------------------------------------
(***************************************************************************)
(* What the modules of a transaction are told: a transaction begins on a   *)
(* clean slate, and the call-backs of each module follow the protocol of   *)
(* picotm-module.h.                                                        *)
(*                                                                         *)
(* Neither holds for all call-backs that fail.  A roll-back that fails     *)
(* while the thread recovers from an error leaves a recoverable error with *)
(* the log and the modules as they are (run TransactionRecovery), so both  *)
(* theorems assume RollbackInRecoverySucceeds.  A conflict that is         *)
(* reported when a module has already been told to apply makes picotm undo *)
(* it, so the second assumes LateFailuresAreErrors.                        *)
(*                                                                         *)
(* The properties are not inductive: which modules are idle at the end     *)
(* follows from how far each walk over the modules has got (SlateFits),    *)
(* and what a module may be told next from what the walks before have told *)
(* it (ProtocolFits).                                                      *)
(***************************************************************************)

(* Errors that a program recovers from after a roll-back come from the     *)
(* execution phase or from prepare_commit; then no roll-back fails.        *)
MayRecover(F) == \E c \in {"body", "prepare_commit"} : <<c, "error">> \in F

RollbackInRecoverySucceeds ==
    \A F \in FailureScenarios : MayRecover(F) =>
        \A f \in F : f[1] \notin {"undo", "undo_event", "rollback_finish"}

(* From the first apply call-back on only errors are reported.             *)
LateFailuresAreErrors ==
    \A F \in FailureScenarios : \A f \in F :
        f[1] \in {"apply", "apply_event", "finish"} => f[2] = "error"

(* A new transaction or attempt may follow.                                *)
Ready(t) ==
    \/ phase[t] \in {"out", "lock"}
    \/ phase[t] = "recovery" /\ ~err[t].nonrec

(* The thread's modules from number i to number j are in states of S.      *)
Told(t, i, j, S) ==
    \A m \in Modules : i <= m /\ m <= j => modstate[t][m] \in S

(* How far the walks that empty the log and finish the modules have got.   *)
SlateFits(t) ==
    LET n == nmodules[t]
        p == pos[t]
    IN  /\ phase[t] # "abort"
        /\ Ready(t) => log[t] = <<>> /\ Told(t, 1, n, {"idle"})
        /\ phase[t] \in InBegin \cup {"commit_finish", "rollback_finish"}
              => log[t] = <<>>
        /\ phase[t] \in {"begin", "prepare", "apply", "commit_finish",
                         "undo", "rollback_finish"}
              => last[t] = n
        /\ Told(t, n + 1, MAX_NMODULES, {"idle"})
        /\ phase[t] = "begin" => Told(t, p, n, {"idle"})
        /\ phase[t] = "unbegin"
              => /\ last[t] <= n
                 /\ Told(t, 1, p - 1, {"idle"})
                 /\ Told(t, last[t] + 1, n, {"idle"})
        /\ phase[t] \in {"commit_finish", "rollback_finish"}
              => Told(t, 1, p - 1, {"idle"})
        /\ phase[t] \in InRollback /\ after[t] = "recovery"
              => MayRecover(failures)

(* What a step on the modules relies upon.                                 *)
SlateFacts(t) ==
    /\ DOMAIN phase = Threads /\ DOMAIN log = Threads
    /\ DOMAIN err = Threads /\ DOMAIN after = Threads
    /\ err[t] \in Errors
    /\ after[t] \in Modes \cup {"recovery"}
    /\ modstate \in [Threads -> [Modules ->
           {"idle", "begun", "prepared", "applied", "undone"}]]
    /\ pos \in [Threads -> Nat] /\ last \in [Threads -> Nat]
    /\ nmodules \in [Threads -> 0 .. MAX_NMODULES] /\ MAX_NMODULES \in Nat
    /\ WalkFits(t) /\ SlateFits(t)
    /\ MayRecover(failures) =>
          \A c \in {"undo", "undo_event", "rollback_finish"},
             s \in ErrorStatuses : <<c, s>> \notin failures

(* A step of a walk over the modules that does not fail.                   *)
LEMMA WalkGoesOn ==
    ASSUME NEW t \in Threads, SlateFacts(t),
           NEW p \in {"begin", "unbegin", "prepare", "apply",
                      "commit_finish", "undo", "rollback_finish"},
           Walking(t, p), NEW s, Tell(t, pos[t], s), Advance(t)
    PROVE  /\ phase[t] = p /\ phase'[t] = p
           /\ pos'[t] = pos[t] + 1 /\ last'[t] = last[t]
           /\ pos[t] \in Modules /\ pos[t] \in Nat
           /\ last[t] \in Nat /\ nmodules[t] \in Nat
           /\ pos[t] <= last[t] /\ last[t] <= nmodules[t]
           /\ modstate'[t][pos[t]] = s
           /\ \A k \in Modules : k # pos[t] => modstate'[t][k] = modstate[t][k]
<1>1. /\ phase[t] = p /\ pos[t] <= last[t]
      /\ pos[t] \in Nat /\ last[t] \in Nat
      /\ nmodules[t] \in Nat /\ nmodules[t] <= MAX_NMODULES
      /\ MAX_NMODULES \in Nat
  BY DEF Walking, SlateFacts
<1>2. last[t] <= nmodules[t]
  BY <1>1 DEF SlateFacts, SlateFits
<1>3. pos[t] >= 1
  BY <1>1 DEF SlateFacts, WalkFits, InBegin, InCommit, InRollback
<1>4. pos[t] \in Modules
  BY <1>1, <1>2, <1>3 DEF Modules
<1>5. phase'[t] = p /\ pos'[t] = pos[t] + 1 /\ last'[t] = last[t]
  BY <1>1 DEF Advance, SlateFacts
<1>6. /\ modstate'[t][pos[t]] = s
      /\ \A k \in Modules : k # pos[t] => modstate'[t][k] = modstate[t][k]
  BY <1>4 DEF Tell, SlateFacts
<1>7. QED
  BY <1>1, <1>2, <1>4, <1>5, <1>6

(* What follows a failure in the execution phase or in the commit.         *)
LEMMA RestartFacts ==
    ASSUME NEW t \in Threads, SlateFacts(t), NEW s \in ErrorStatuses,
           NEW nonrec \in BOOLEAN, restart_tx_from_error(t, s, nonrec)
    PROVE  \/ s = "error" /\ nonrec /\ phase'[t] = "recovery" /\ err'[t].nonrec
           \/ /\ phase'[t] = "undo" /\ pos'[t] = 1 /\ last'[t] = nmodules[t]
              /\ after'[t] = "recovery" => s = "error" /\ ~nonrec
              /\ s = "error" => ~nonrec
BY DEF restart_tx_from_error, RestartFromError, SlateFacts, SetError, NoError,
       StartRollback, Walk, ErrorStatuses

(* A roll-back that fails leaves an error that nobody recovers from.       *)
LEMMA RollbackFailsForGood ==
    ASSUME NEW t \in Threads, SlateFacts(t), phase[t] \in InRollback,
           NEW c \in {"undo", "undo_event", "rollback_finish"},
           RollbackFails(t, c)
    PROVE  phase'[t] = "recovery" /\ err'[t].nonrec
<1>1. PICK s \in ErrorStatuses : Fails(t, c, s) /\ RollbackError(t, s)
  BY DEF RollbackFails
<1>2. after[t] # "recovery"
  BY <1>1 DEF Fails, SlateFacts, SlateFits
<1>3. err'[t].nonrec
  BY <1>1, <1>2 DEF RollbackError, SetError, SlateFacts
<1>4. QED
  BY <1>3 DEF RollbackFails, SlateFacts

(* For good means that SlateFits says nothing but this.                    *)
LEMMA SlateAfterFailure ==
    ASSUME NEW t \in Threads, SlateFacts(t),
           phase'[t] = "recovery", err'[t].nonrec,
           UNCHANGED <<modstate, nmodules>>
    PROVE  SlateFits(t)'
BY DEF SlateFacts, SlateFits, Ready, Told, InBegin, InRollback

-----------------------------------------------------------------------------
(* The slate is kept by the steps of begin, ...                            *)
LEMMA BeginKeepsSlate ==
    ASSUME NEW t \in Threads, SlateFacts(t),
           \/ Start(t) \/ picotm_restart(t) \/ End(t)
           \/ AcquireExclusiveLock(t) \/ Began(t) \/ Unbegan(t)
    PROVE  SlateFits(t)'
<1> USE DEF SlateFacts, SlateFits, Told, Ready, InBegin, InRollback, WalkFits,
            history, Modules
<1>1. CASE Start(t)
  BY <1>1 DEF Start, EnterBegin, NoError
<1>2. CASE picotm_restart(t)
  BY <1>2 DEF picotm_restart, EnterBegin, NoError
<1>3. CASE End(t)
  BY <1>3 DEF End
<1>4. CASE AcquireExclusiveLock(t)
  BY <1>4 DEF AcquireExclusiveLock, Walk
<1>5. CASE Began(t)
  BY <1>5 DEF Began
<1>6. CASE Unbegan(t)
  BY <1>6 DEF Unbegan, Walked
<1>7. QED
  BY <1>1, <1>2, <1>3, <1>4, <1>5, <1>6

\* The walk over the begin call-backs, and the one that finishes after a
\* failure those that have begun.
LEMMA BeginWalksKeepSlate ==
    ASSUME NEW t \in Threads, SlateFacts(t), BeginModule(t) \/ UnbeginModule(t)
    PROVE  SlateFits(t)'
<1> USE DEF SlateFits, Told, Ready, InBegin, InRollback
<1>1. SlateFits(t) /\ nmodules' = nmodules /\ log' = log
  BY DEF BeginModule, UnbeginModule, SlateFacts
<1>2. CASE BeginModule(t)
  <2>1. ASSUME Tell(t, pos[t], "begun"), Advance(t) PROVE SlateFits(t)'
    <3>1. Walking(t, "begin")
      BY <1>2 DEF BeginModule
    <3>2. /\ phase[t] = "begin" /\ phase'[t] = "begin"
          /\ pos'[t] = pos[t] + 1 /\ last'[t] = last[t]
          /\ pos[t] \in Nat /\ last[t] \in Nat /\ nmodules[t] \in Nat
          /\ pos[t] <= last[t] /\ pos[t] \in Modules
          /\ modstate'[t][pos[t]] = "begun"
          /\ \A k \in Modules : k # pos[t] => modstate'[t][k] = modstate[t][k]
      BY <3>1, <2>1, WalkGoesOn
    <3>3. QED
      BY <1>1, <3>2 DEF Modules
  <2>2. ASSUME Walk(t, "unbegin", pos[t] - 1), UNCHANGED modstate
        PROVE  SlateFits(t)'
    <3>1. /\ phase'[t] = "unbegin" /\ pos'[t] = 1 /\ last'[t] = pos[t] - 1
          /\ phase[t] = "begin" /\ pos[t] \in Nat /\ nmodules[t] \in Nat
          /\ pos[t] <= last[t] /\ last[t] \in Nat
      BY <1>2, <2>2 DEF Walk, SlateFacts, BeginModule, Walking
    <3>2. QED
      BY <1>1, <2>2, <3>1 DEF Modules
  <2>3. QED
    BY <1>2, <2>1, <2>2 DEF BeginModule
<1>3. CASE UnbeginModule(t)
  <2>1. ASSUME Tell(t, pos[t], "idle"), Advance(t) PROVE SlateFits(t)'
    <3>1. Walking(t, "unbegin")
      BY <1>3 DEF UnbeginModule
    <3>2. /\ phase[t] = "unbegin" /\ phase'[t] = "unbegin"
          /\ pos'[t] = pos[t] + 1 /\ last'[t] = last[t]
          /\ pos[t] \in Nat /\ last[t] \in Nat /\ nmodules[t] \in Nat
          /\ pos[t] <= last[t] /\ pos[t] \in Modules
          /\ modstate'[t][pos[t]] = "idle"
          /\ \A k \in Modules : k # pos[t] => modstate'[t][k] = modstate[t][k]
      BY <3>1, <2>1, WalkGoesOn
    <3>3. QED
      BY <1>1, <3>2 DEF Modules
  <2>2. ASSUME err' = [err EXCEPT ![t].nonrec = TRUE],
               phase' = [phase EXCEPT ![t] = "recovery"], UNCHANGED modstate
        PROVE  SlateFits(t)'
    <3>1. phase'[t] = "recovery" /\ err'[t].nonrec
      BY <2>2 DEF SlateFacts, Errors
    <3>2. QED
      BY <1>1, <2>2, <3>1, SlateAfterFailure
  <2>3. QED
    BY <1>3, <2>1, <2>2 DEF UnbeginModule
<1>4. QED
  BY <1>2, <1>3

(* A transaction that fails in the execution phase or in the commit starts *)
(* to roll back with all modules to walk over.                             *)
LEMMA SlateAfterRestart ==
    ASSUME NEW t \in Threads, SlateFacts(t), NEW s \in ErrorStatuses,
           NEW nonrec \in BOOLEAN, restart_tx_from_error(t, s, nonrec),
           UNCHANGED <<modstate, nmodules, failures>>,
           s = "error" /\ ~nonrec => MayRecover(failures)
    PROVE  SlateFits(t)'
<1>1. CASE phase'[t] = "recovery" /\ err'[t].nonrec
  BY <1>1, SlateAfterFailure
<1>2. CASE /\ phase'[t] = "undo" /\ last'[t] = nmodules[t]
           /\ after'[t] = "recovery" => s = "error" /\ ~nonrec
  <2>1. SlateFits(t)
    BY DEF SlateFacts
  <2>2. QED
    BY <1>2, <2>1 DEF SlateFits, Told, Ready, InBegin, InRollback, MayRecover
<1>3. QED
  BY <1>1, <1>2, RestartFacts

(* ... of the execution phase, ...                                         *)
LEMMA RunKeepsSlate ==
    ASSUME NEW t \in Threads, SlateFacts(t), UNCHANGED failures,
           \/ picotm_append_event(t) \/ picotm_register_module(t)
           \/ Abort(t) \/ picotm_tx_commit(t)
    PROVE  SlateFits(t)'
<1>1. SlateFits(t)
  BY DEF SlateFacts
<1>2. CASE picotm_append_event(t)
  BY <1>1, <1>2 DEF picotm_append_event, SlateFits, Told, Ready, InBegin,
                    InRollback
<1>3. CASE picotm_register_module(t)
  <2>1. /\ phase[t] = "run" /\ phase'[t] = "run"
        /\ nmodules[t] \in Nat /\ nmodules'[t] = nmodules[t] + 1
        /\ nmodules[t] + 1 \in Modules
    BY <1>3 DEF picotm_register_module, SlateFacts, Modules
  <2>2. \A k \in Modules : k # nmodules[t] + 1
           => modstate'[t][k] = modstate[t][k]
    BY <1>3, <2>1 DEF picotm_register_module, Tell, SlateFacts
  <2>3. QED
    BY <1>1, <2>1, <2>2 DEF SlateFits, Told, Ready, InBegin, InRollback,
                            Modules
<1>4. CASE Abort(t)
  <2>1. PICK s \in ErrorStatuses :
           Fails(t, "body", s) /\ restart_tx_from_error(t, s, FALSE)
    BY <1>4 DEF Abort
  <2>2. s = "error" => MayRecover(failures)
    BY <2>1 DEF Fails, MayRecover
  <2>3. QED
    BY <1>4, <2>1, <2>2, SlateAfterRestart DEF Abort, history
<1>5. CASE picotm_tx_commit(t)
  <2>1. /\ phase'[t] = "prepare" /\ last'[t] = nmodules[t]
        /\ nmodules' = nmodules /\ modstate' = modstate
    BY <1>5 DEF picotm_tx_commit, Walk, SlateFacts, history
  <2>2. QED
    BY <1>1, <2>1 DEF SlateFits, Told, Ready, InBegin, InRollback
<1>6. QED
  BY <1>2, <1>3, <1>4, <1>5

(* ... of the commit, ...                                                  *)
LEMMA CommitWalksKeepSlate ==
    ASSUME NEW t \in Threads, SlateFacts(t), UNCHANGED failures,
           \/ PrepareModule(t) \/ ApplyModule(t)
           \/ FinishModuleAfterCommit(t)
    PROVE  SlateFits(t)'
<1> USE DEF SlateFits, Told, Ready, InBegin, InRollback
<1>1. SlateFits(t) /\ nmodules' = nmodules /\ log' = log
  BY DEF PrepareModule, ApplyModule, FinishModuleAfterCommit, SlateFacts,
         CommitFails, CommitGoesOn
<1>2. CASE PrepareModule(t)
  <2>1. ASSUME Tell(t, pos[t], "prepared"), Advance(t) PROVE SlateFits(t)'
    <3>1. Walking(t, "prepare")
      BY <1>2 DEF PrepareModule
    <3>2. /\ phase[t] = "prepare" /\ phase'[t] = "prepare"
          /\ pos'[t] = pos[t] + 1 /\ last'[t] = last[t]
          /\ pos[t] \in Nat /\ last[t] \in Nat /\ nmodules[t] \in Nat
          /\ pos[t] <= last[t] /\ pos[t] \in Modules
          /\ modstate'[t][pos[t]] = "prepared"
          /\ \A k \in Modules : k # pos[t] => modstate'[t][k] = modstate[t][k]
      BY <3>1, <2>1, WalkGoesOn
    <3>3. QED
      BY <1>1, <3>2 DEF Modules
  <2>2. ASSUME CommitFails(t, "prepare_commit", FALSE), UNCHANGED modstate
        PROVE  SlateFits(t)'
    <3>1. PICK s \in ErrorStatuses :
             Fails(t, "prepare_commit", s) /\ restart_tx_from_error(t, s, FALSE)
      BY <2>2 DEF CommitFails
    <3>2. s = "error" /\ ~FALSE => MayRecover(failures)
      BY <3>1 DEF Fails, MayRecover
    <3>3. QED
      BY <1>1, <2>2, <3>1, <3>2, SlateAfterRestart
  <2>3. QED
    BY <1>2, <2>1, <2>2 DEF PrepareModule
<1>3. CASE ApplyModule(t)
  <2>1. ASSUME Tell(t, pos[t], "applied"), Advance(t) PROVE SlateFits(t)'
    <3>1. Walking(t, "apply")
      BY <1>3 DEF ApplyModule
    <3>2. /\ phase[t] = "apply" /\ phase'[t] = "apply"
          /\ pos'[t] = pos[t] + 1 /\ last'[t] = last[t]
          /\ pos[t] \in Nat /\ last[t] \in Nat /\ nmodules[t] \in Nat
          /\ pos[t] <= last[t] /\ pos[t] \in Modules
          /\ modstate'[t][pos[t]] = "applied"
          /\ \A k \in Modules : k # pos[t] => modstate'[t][k] = modstate[t][k]
      BY <3>1, <2>1, WalkGoesOn
    <3>3. QED
      BY <1>1, <3>2 DEF Modules
  <2>2. ASSUME CommitFails(t, "apply", TRUE), UNCHANGED modstate
        PROVE  SlateFits(t)'
    <3>1. PICK s \in ErrorStatuses :
             Fails(t, "apply", s) /\ restart_tx_from_error(t, s, TRUE)
      BY <2>2 DEF CommitFails
    <3>2. s = "error" /\ ~TRUE => MayRecover(failures)
      BY <3>1 DEF Fails, MayRecover
    <3>3. QED
      BY <1>1, <2>2, <3>1, <3>2, SlateAfterRestart
  <2>3. QED
    BY <1>3, <2>1, <2>2 DEF ApplyModule
<1>4. CASE FinishModuleAfterCommit(t)
  <2>1. ASSUME Tell(t, pos[t], "idle"), Advance(t) PROVE SlateFits(t)'
    <3>1. Walking(t, "commit_finish")
      BY <1>4 DEF FinishModuleAfterCommit
    <3>2. /\ phase[t] = "commit_finish" /\ phase'[t] = "commit_finish"
          /\ pos'[t] = pos[t] + 1 /\ last'[t] = last[t]
          /\ pos[t] \in Nat /\ last[t] \in Nat /\ nmodules[t] \in Nat
          /\ pos[t] <= last[t] /\ pos[t] \in Modules
          /\ modstate'[t][pos[t]] = "idle"
          /\ \A k \in Modules : k # pos[t] => modstate'[t][k] = modstate[t][k]
      BY <3>1, <2>1, WalkGoesOn
    <3>3. QED
      BY <1>1, <3>2 DEF Modules
  <2>2. ASSUME CommitFails(t, "finish", TRUE), UNCHANGED modstate
        PROVE  SlateFits(t)'
    <3>1. PICK s \in ErrorStatuses :
             Fails(t, "finish", s) /\ restart_tx_from_error(t, s, TRUE)
      BY <2>2 DEF CommitFails
    <3>2. s = "error" /\ ~TRUE => MayRecover(failures)
      BY <3>1 DEF Fails, MayRecover
    <3>3. QED
      BY <1>1, <2>2, <3>1, <3>2, SlateAfterRestart
  <2>3. QED
    BY <1>4, <2>1, <2>2 DEF FinishModuleAfterCommit
<1>5. QED
  BY <1>2, <1>3, <1>4

\* The commit between its walks over the modules.
LEMMA CommitKeepsSlate ==
    ASSUME NEW t \in Threads, SlateFacts(t), UNCHANGED failures,
           \/ Prepared(t) \/ Applied(t) \/ ApplyEvent(t)
           \/ EventsApplied(t) \/ Committed(t)
    PROVE  SlateFits(t)'
<1> USE DEF SlateFits, Told, Ready, InBegin, InRollback
<1>1. /\ SlateFits(t) /\ nmodules[t] \in Nat
      /\ UNCHANGED <<nmodules, modstate>>
  <2>1. SlateFits(t) /\ nmodules[t] \in Nat
    BY DEF SlateFacts
  <2>2. nmodules' = nmodules /\ modstate' = modstate
    BY DEF Prepared, Applied, ApplyEvent, EventsApplied, Committed, history,
           CommitFails, CommitGoesOn
  <2>3. QED
    BY <2>1, <2>2
<1>2. CASE Prepared(t)
  <2>1. phase'[t] = "apply" /\ last'[t] = nmodules[t]
    BY <1>2 DEF Prepared, Walk, SlateFacts
  <2>2. QED
    BY <1>1, <2>1
<1>3. CASE Applied(t)
  <2>1. phase'[t] = "apply_events"
    BY <1>3 DEF Applied, Walk, SlateFacts
  <2>2. QED
    BY <1>1, <2>1
<1>4. CASE ApplyEvent(t)
  <2>1. CASE Advance(t)
    <3>1. phase'[t] = "apply_events"
      BY <1>4, <2>1 DEF ApplyEvent, Advance, Walking
    <3>2. QED
      BY <1>1, <3>1
  <2>2. CASE CommitFails(t, "apply_event", TRUE)
    BY <1>1, <2>2, SlateAfterRestart DEF CommitFails
  <2>3. QED
    BY <1>4, <2>1, <2>2 DEF ApplyEvent
<1>5. CASE EventsApplied(t)
  <2>1. /\ phase'[t] = "commit_finish" /\ last'[t] = nmodules[t]
        /\ pos'[t] = 1 /\ log'[t] = <<>>
    BY <1>5 DEF EventsApplied, Walk, SlateFacts
  <2>2. QED
    BY <1>1, <2>1 DEF Modules
<1>6. CASE Committed(t)
  <2>1. /\ phase[t] = "commit_finish" /\ phase'[t] = "out"
        /\ pos[t] > last[t] /\ log'[t] = log[t]
        /\ pos[t] \in Nat /\ last[t] \in Nat
    BY <1>6 DEF Committed, Walked, SlateFacts
  <2>2. QED
    BY <1>1, <2>1 DEF Modules
<1>7. QED
  BY <1>2, <1>3, <1>4, <1>5, <1>6

(* ... and of the roll-back.                                               *)
LEMMA RollbackWalksKeepSlate ==
    ASSUME NEW t \in Threads, SlateFacts(t), UNCHANGED failures,
           UndoModule(t) \/ FinishModuleAfterRollback(t)
    PROVE  SlateFits(t)'
<1> USE DEF SlateFits, Told, Ready, InBegin, InRollback
<1>1. /\ SlateFits(t) /\ nmodules' = nmodules /\ log' = log
      /\ after' = after /\ (MayRecover(failures) => MayRecover(failures)')
  BY DEF UndoModule, FinishModuleAfterRollback, SlateFacts, RollbackOnly,
         MayRecover
<1>2. CASE UndoModule(t)
  <2>1. ASSUME Tell(t, pos[t], "undone"), Advance(t) PROVE SlateFits(t)'
    <3>1. Walking(t, "undo")
      BY <1>2 DEF UndoModule
    <3>2. /\ phase[t] = "undo" /\ phase'[t] = "undo"
          /\ pos'[t] = pos[t] + 1 /\ last'[t] = last[t]
          /\ pos[t] \in Nat /\ last[t] \in Nat /\ nmodules[t] \in Nat
          /\ pos[t] <= last[t] /\ pos[t] \in Modules
          /\ modstate'[t][pos[t]] = "undone"
          /\ \A k \in Modules : k # pos[t] => modstate'[t][k] = modstate[t][k]
      BY <3>1, <2>1, WalkGoesOn
    <3>3. QED
      BY <1>1, <3>2 DEF Modules
  <2>2. ASSUME RollbackFails(t, "undo"), UNCHANGED modstate
        PROVE  SlateFits(t)'
    <3>1. phase[t] \in InRollback
      BY <1>2 DEF UndoModule, Walking
    <3>2. QED
      BY <1>1, <2>2, <3>1, RollbackFailsForGood, SlateAfterFailure
  <2>3. QED
    BY <1>2, <2>1, <2>2 DEF UndoModule
<1>3. CASE FinishModuleAfterRollback(t)
  <2>1. ASSUME Tell(t, pos[t], "idle"), Advance(t) PROVE SlateFits(t)'
    <3>1. Walking(t, "rollback_finish")
      BY <1>3 DEF FinishModuleAfterRollback
    <3>2. /\ phase[t] = "rollback_finish" /\ phase'[t] = "rollback_finish"
          /\ pos'[t] = pos[t] + 1 /\ last'[t] = last[t]
          /\ pos[t] \in Nat /\ last[t] \in Nat /\ nmodules[t] \in Nat
          /\ pos[t] <= last[t] /\ pos[t] \in Modules
          /\ modstate'[t][pos[t]] = "idle"
          /\ \A k \in Modules : k # pos[t] => modstate'[t][k] = modstate[t][k]
      BY <3>1, <2>1, WalkGoesOn
    <3>3. QED
      BY <1>1, <3>2 DEF Modules
  <2>2. ASSUME RollbackFails(t, "rollback_finish"), UNCHANGED modstate
        PROVE  SlateFits(t)'
    <3>1. phase[t] \in InRollback
      BY <1>3 DEF FinishModuleAfterRollback, Walking
    <3>2. QED
      BY <1>1, <2>2, <3>1, RollbackFailsForGood, SlateAfterFailure
  <2>3. QED
    BY <1>3, <2>1, <2>2 DEF FinishModuleAfterRollback
<1>4. QED
  BY <1>2, <1>3

\* The roll-back between its walks over the modules; it ends with an empty
\* log.
LEMMA RollbackKeepsSlate ==
    ASSUME NEW t \in Threads, SlateFacts(t), UNCHANGED failures,
           \/ Undone(t) \/ UndoEvent(t) \/ EventsUndone(t) \/ RolledBack(t)
    PROVE  SlateFits(t)'
<1> USE DEF SlateFits, Told, Ready, InBegin, InRollback
<1>1. /\ SlateFits(t) /\ nmodules[t] \in Nat
      /\ UNCHANGED <<nmodules, modstate, after>>
      /\ MayRecover(failures) => MayRecover(failures)'
  BY DEF Undone, UndoEvent, EventsUndone, RolledBack, history, RollbackOnly,
         SlateFacts, MayRecover
<1>2. CASE Undone(t)
  <2>1. phase[t] = "undo" /\ phase'[t] = "undo_events"
    BY <1>2 DEF Undone, Walk, Walked, SlateFacts
  <2>2. QED
    BY <1>1, <2>1
<1>3. CASE UndoEvent(t)
  <2>1. CASE Advance(t)
    <3>1. phase[t] = "undo_events" /\ phase'[t] = "undo_events"
      BY <1>3, <2>1 DEF UndoEvent, Advance, Walking
    <3>2. QED
      BY <1>1, <3>1
  <2>2. CASE RollbackFails(t, "undo_event")
    <3>1. phase[t] \in InRollback
      BY <1>3 DEF UndoEvent, Walking
    <3>2. QED
      BY <1>1, <2>2, <3>1, RollbackFailsForGood, SlateAfterFailure
  <2>3. QED
    BY <1>3, <2>1, <2>2 DEF UndoEvent
<1>4. CASE EventsUndone(t)
  <2>1. /\ phase[t] = "undo_events" /\ phase'[t] = "rollback_finish"
        /\ last'[t] = nmodules[t] /\ pos'[t] = 1 /\ log'[t] = <<>>
    BY <1>4 DEF EventsUndone, Walk, Walked, SlateFacts
  <2>2. QED
    BY <1>1, <2>1 DEF Modules
<1>5. CASE RolledBack(t)
  <2>1. /\ phase[t] = "rollback_finish" /\ phase'[t] \in {"recovery", "lock"}
        /\ pos[t] > last[t] /\ log'[t] = log[t]
        /\ pos[t] \in Nat /\ last[t] \in Nat
    BY <1>5 DEF RolledBack, EnterBegin, Walked, SlateFacts
  <2>2. QED
    BY <1>1, <2>1 DEF Modules
<1>6. QED
  BY <1>2, <1>3, <1>4, <1>5

-----------------------------------------------------------------------------
(* A step of one thread leaves the modules of the others alone.            *)
LEMMA OthersModules ==
    ASSUME NEW t \in Threads, TxAction(t), NEW u \in Threads \ {t},
           DOMAIN modstate = Threads, DOMAIN nmodules = Threads,
           DOMAIN after = Threads
    PROVE  /\ modstate'[u] = modstate[u]
           /\ nmodules'[u] = nmodules[u]
           /\ after'[u] = after[u]
BY DEF
    TxAction, TxStep, ProgramEnds, Start, picotm_append_event,
    picotm_register_module, Abort, picotm_tx_commit, picotm_restart, End,
    AcquireExclusiveLock, BeginModule, Began, UnbeginModule, Unbegan,
    PrepareModule, Prepared, ApplyModule, Applied, ApplyEvent,
    EventsApplied, FinishModuleAfterCommit, Committed, UndoModule, Undone,
    UndoEvent, EventsUndone, FinishModuleAfterRollback, RolledBack,
    CommitFails, CommitGoesOn, RestartFromError, RollbackOnly, StartRollback,
    Tell, restart_tx_from_error, history

(* The invariant with what the modules have been told.                     *)
SlateInv ==
    /\ RollbackInRecoverySucceeds
    /\ TxInv
    /\ \A t \in Threads : SlateFits(t)

\* The invariant gives what the lemmas above assume of one thread.
LEMMA SlateInvFacts ==
    ASSUME SlateInv, NEW t \in Threads
    PROVE  SlateFacts(t)
<1>1. /\ DOMAIN phase = Threads /\ DOMAIN log = Threads
      /\ DOMAIN err = Threads /\ DOMAIN after = Threads
      /\ err[t] \in Errors /\ after[t] \in Modes \cup {"recovery"}
  BY DEF SlateInv, TxInv, TxTypeOK
<1>2. modstate \in [Threads -> [Modules ->
          {"idle", "begun", "prepared", "applied", "undone"}]]
  BY DEF SlateInv, TxInv, TxTypeOK
<1>3. /\ pos \in [Threads -> Nat] /\ last \in [Threads -> Nat]
      /\ nmodules \in [Threads -> 0 .. MAX_NMODULES] /\ MAX_NMODULES \in Nat
  BY TxLimitsAssumption DEF SlateInv, TxInv, TxTypeOK
<1>4. WalkFits(t) /\ SlateFits(t)
  BY DEF SlateInv, TxInv
<1>5. ASSUME MayRecover(failures),
             NEW c \in {"undo", "undo_event", "rollback_finish"},
             NEW s \in ErrorStatuses
      PROVE  <<c, s>> \notin failures
  <2>1. failures \in FailureScenarios
    BY DEF SlateInv, TxInv, TxTypeOK
  <2>2. \A f \in failures :
           f[1] \notin {"undo", "undo_event", "rollback_finish"}
    BY <1>5, <2>1 DEF SlateInv, RollbackInRecoverySucceeds
  <2>3. QED
    BY <2>2
<1>6. QED
  BY <1>1, <1>2, <1>3, <1>4, <1>5 DEF SlateFacts

\* Every step of every thread keeps the invariant.
LEMMA SlateInvStep ==
    ASSUME SlateInv, NEW t \in Threads, TxAction(t), UNCHANGED failures
    PROVE  SlateInv'
<1>1. TxInv'
  BY TxInvStep DEF SlateInv
<1>2. SlateFacts(t)
  BY SlateInvFacts
<1>3. SlateFits(t)'
  BY <1>2, BeginKeepsSlate, BeginWalksKeepSlate, RunKeepsSlate,
     CommitWalksKeepSlate, CommitKeepsSlate, RollbackWalksKeepSlate,
     RollbackKeepsSlate
     DEF TxAction, TxStep, ProgramEnds
<1>4. ASSUME NEW u \in Threads \ {t} PROVE SlateFits(u)'
  <2>1. SlateFacts(u)
    BY SlateInvFacts
  <2>2. /\ phase'[u] = phase[u] /\ pos'[u] = pos[u]
        /\ last'[u] = last[u] /\ log'[u] = log[u] /\ err'[u] = err[u]
    BY <2>1, OthersControl, OthersError DEF SlateFacts
  <2>3. /\ modstate'[u] = modstate[u] /\ nmodules'[u] = nmodules[u]
        /\ after'[u] = after[u]
    BY <2>1, OthersModules DEF SlateFacts
  <2>4. QED
    BY <2>1, <2>2, <2>3
       DEF SlateFacts, SlateFits, Told, Ready, MayRecover
<1>5. QED
  BY <1>1, <1>3, <1>4 DEF SlateInv, RollbackInRecoverySucceeds

\* The initial states satisfy it.
LEMMA SlateInitially ==
    RollbackInRecoverySucceeds /\ TxInit => SlateInv
<1>1. ASSUME TxInit, NEW t \in Threads PROVE SlateFits(t)
  BY <1>1 DEF TxInit, SlateFits, Told, Ready, InBegin, InRollback
<1>2. QED
  BY <1>1, TxInitInv DEF SlateInv

\* It is inductive, stuttering included.
LEMMA SlateInvAlways ==
    SlateInv /\ [TxNext]_txVars => SlateInv'
<1>1. SlateInv /\ TxNext => SlateInv'
  BY SomeThreadActs, SlateInvStep
<1>2. SlateInv /\ UNCHANGED txVars => SlateInv'
  <2>1. SUFFICES ASSUME SlateInv, UNCHANGED txVars PROVE SlateInv'
    OBVIOUS
  <2>2. TxInv'
    BY <2>1 DEF SlateInv, txVars, txOnly, lockVars, history, TxInv, TxTypeOK,
                LockFits, WalkFits, ExclusiveMeansAlone
  <2>3. \A t \in Threads : SlateFits(t)'
    BY <2>1 DEF SlateInv, SlateFits, Told, Ready, MayRecover, txVars, txOnly,
                history
  <2>4. QED
    BY <2>1, <2>2, <2>3 DEF SlateInv, RollbackInRecoverySucceeds
<1>3. QED
  BY <1>1, <1>2

(* A transaction begins with an empty event log and with modules that have *)
(* all been finished, whichever way the one before has ended, if no        *)
(* roll-back fails while the thread recovers from an error.                *)
THEOREM BeginsOnACleanSlate ==
    RollbackInRecoverySucceeds /\ TxSpec => []CleanSlate
<1>1. SlateInv => CleanSlate
  <2>1. SUFFICES ASSUME SlateInv, NEW t \in Threads
                 PROVE  /\ phase[t] # "abort"
                        /\ phase[t] = "lock" =>
                              \A m \in Modules : modstate[t][m] = "idle"
    BY DEF CleanSlate, LogIsEmptyAtBegin
  <2>2. SlateFacts(t)
    BY <2>1, SlateInvFacts
  <2>3. SlateFits(t) /\ nmodules[t] \in 0 .. MAX_NMODULES /\ MAX_NMODULES \in Nat
    BY <2>2 DEF SlateFacts
  <2>4. QED
    BY <2>3 DEF SlateFits, Told, Ready, Modules
<1>2. QED
  BY <1>1, SlateInitially, SlateInvAlways, PTL DEF TxSpec

-----------------------------------------------------------------------------
(* The call-backs of a module.  What each walk has told the modules before *)
(* and behind its position.                                                *)
ProtocolFits(t) ==
    LET n == nmodules[t]
        p == pos[t]
    IN  /\ phase[t] = "begin" => Told(t, 1, p - 1, {"begun"})
        /\ phase[t] = "unbegin" => Told(t, p, last[t], {"begun"})
        /\ phase[t] = "run" => Told(t, 1, n, {"begun"})
        /\ phase[t] = "prepare" => /\ Told(t, 1, p - 1, {"prepared"})
                                  /\ Told(t, p, n, {"begun"})
        /\ phase[t] = "apply" => /\ Told(t, 1, p - 1, {"applied"})
                                /\ Told(t, p, n, {"prepared"})
        /\ phase[t] = "apply_events" => Told(t, 1, n, {"applied"})
        /\ phase[t] = "commit_finish" => Told(t, p, n, {"applied"})
        /\ phase[t] = "undo" => /\ Told(t, 1, p - 1, {"undone"})
                               /\ Told(t, p, n, {"begun", "prepared"})
        /\ phase[t] = "undo_events" => Told(t, 1, n, {"undone"})
        /\ phase[t] = "rollback_finish" => Told(t, p, n, {"undone"})

ProtocolFacts(t) ==
    /\ SlateFacts(t) /\ ProtocolFits(t)
    /\ \A c \in {"apply", "apply_event", "finish"}, s \in ErrorStatuses :
          <<c, s>> \in failures => s = "error"

(* What a module may be told in its state.                                 *)
Legal(p, old, new) ==
    \/ <<old, new>> \in
          {<<"idle", "begun">>, <<"begun", "prepared">>,
           <<"prepared", "applied">>, <<"applied", "idle">>,
           <<"begun", "undone">>, <<"prepared", "undone">>,
           <<"undone", "idle">>}
    \/ old = "begun" /\ new = "idle" /\ p = "unbegin"

ToldLegally(t) ==
    \A m \in Modules :
        modstate'[t][m] # modstate[t][m]
            => Legal(phase[t], modstate[t][m], modstate'[t][m])

(* Failing for good leaves nothing to show.                                *)
LEMMA ProtocolAfterFailure ==
    ASSUME NEW t \in Threads, phase'[t] = "recovery"
    PROVE  ProtocolFits(t)'
BY DEF ProtocolFits

(* Modules that have begun or prepared may be undone.                      *)
LEMMA ProtocolAfterRestart ==
    ASSUME NEW t \in Threads, ProtocolFacts(t), NEW s \in ErrorStatuses,
           NEW nonrec \in BOOLEAN, restart_tx_from_error(t, s, nonrec),
           UNCHANGED <<modstate, nmodules>>,
           \/ s = "error" /\ nonrec
           \/ Told(t, 1, nmodules[t], {"begun", "prepared"})
    PROVE  ProtocolFits(t)'
<1>1. SlateFacts(t)
  BY DEF ProtocolFacts
<1>2. CASE phase'[t] = "recovery"
  BY <1>2, ProtocolAfterFailure
<1>3. CASE phase'[t] = "undo" /\ pos'[t] = 1 /\ (s = "error" => ~nonrec)
  BY <1>3 DEF ProtocolFits, Told, Modules
<1>4. QED
  BY <1>1, <1>2, <1>3, RestartFacts

(* The steps that tell the modules nothing.                                *)
LEMMA QuietStepsKeepProtocol ==
    ASSUME NEW t \in Threads, ProtocolFacts(t),
           \/ Start(t) \/ picotm_restart(t) \/ End(t)
           \/ AcquireExclusiveLock(t) \/ Began(t) \/ Unbegan(t)
           \/ picotm_append_event(t) \/ picotm_tx_commit(t)
           \/ Prepared(t) \/ Applied(t) \/ EventsApplied(t)
           \/ Committed(t) \/ Undone(t) \/ EventsUndone(t) \/ RolledBack(t)
    PROVE  ProtocolFits(t)' /\ modstate' = modstate
<1>1. /\ ProtocolFits(t) /\ SlateFits(t)
      /\ pos[t] \in Nat /\ last[t] \in Nat /\ nmodules[t] \in Nat
      /\ DOMAIN phase = Threads /\ pos \in [Threads -> Nat]
      /\ DOMAIN last = Threads
  BY DEF ProtocolFacts, SlateFacts
<1> USE <1>1 DEF ProtocolFits, Told, Modules, history
<1>2. CASE Start(t) \/ picotm_restart(t)
  BY <1>2 DEF Start, picotm_restart, EnterBegin
<1>3. CASE End(t) \/ Unbegan(t) \/ Committed(t)
  BY <1>3 DEF End, Unbegan, Committed
<1>4. CASE AcquireExclusiveLock(t)
  BY <1>4 DEF AcquireExclusiveLock, Walk
<1>5. CASE Began(t)
  BY <1>5 DEF Began, SlateFits, Walked
<1>6. CASE picotm_append_event(t)
  BY <1>6 DEF picotm_append_event
<1>7. CASE picotm_tx_commit(t)
  BY <1>7 DEF picotm_tx_commit, Walk
<1>8. CASE Prepared(t)
  <2>1. /\ phase[t] = "prepare" /\ phase'[t] = "apply" /\ pos'[t] = 1
        /\ pos[t] > last[t] /\ last[t] = nmodules[t]
        /\ modstate' = modstate /\ nmodules' = nmodules
    BY <1>8 DEF Prepared, Walk, Walked, SlateFits, CommitGoesOn, RollbackOnly
  <2>2. QED
    BY <2>1
<1>9. CASE Applied(t)
  <2>1. /\ phase[t] = "apply" /\ phase'[t] = "apply_events" /\ pos'[t] = 1
        /\ pos[t] > last[t] /\ last[t] = nmodules[t]
        /\ modstate' = modstate /\ nmodules' = nmodules
    BY <1>9 DEF Applied, Walk, Walked, SlateFits, CommitGoesOn, RollbackOnly
  <2>2. QED
    BY <2>1
<1>10. CASE EventsApplied(t)
  <2>1. /\ phase[t] = "apply_events" /\ phase'[t] = "commit_finish" /\ pos'[t] = 1
        /\ pos[t] > last[t]
        /\ modstate' = modstate /\ nmodules' = nmodules
    BY <1>10 DEF EventsApplied, Walk, Walked, SlateFits, CommitGoesOn, RollbackOnly
  <2>2. QED
    BY <2>1
<1>11. CASE Undone(t)
  <2>1. /\ phase[t] = "undo" /\ phase'[t] = "undo_events" /\ pos'[t] = 1
        /\ pos[t] > last[t] /\ last[t] = nmodules[t]
        /\ modstate' = modstate /\ nmodules' = nmodules
    BY <1>11 DEF Undone, Walk, Walked, SlateFits, CommitGoesOn, RollbackOnly
  <2>2. QED
    BY <2>1
<1>12. CASE EventsUndone(t)
  <2>1. /\ phase[t] = "undo_events" /\ phase'[t] = "rollback_finish" /\ pos'[t] = 1
        /\ pos[t] > last[t]
        /\ modstate' = modstate /\ nmodules' = nmodules
    BY <1>12 DEF EventsUndone, Walk, Walked, SlateFits, CommitGoesOn, RollbackOnly
  <2>2. QED
    BY <2>1
<1>13. CASE RolledBack(t)
  BY <1>13 DEF RolledBack, EnterBegin
<1>14. QED
  BY <1>2, <1>3, <1>4, <1>5, <1>6, <1>7, <1>8, <1>9, <1>10, <1>11, <1>12,
     <1>13

(* The walks over the events, and the execution phase.                     *)
LEMMA EventStepsKeepProtocol ==
    ASSUME NEW t \in Threads, ProtocolFacts(t),
           ApplyEvent(t) \/ UndoEvent(t) \/ Abort(t)
    PROVE  ProtocolFits(t)' /\ modstate' = modstate
<1>1. /\ ProtocolFits(t) /\ SlateFits(t) /\ SlateFacts(t)
      /\ DOMAIN phase = Threads
  BY DEF ProtocolFacts, SlateFacts
<1>2. modstate' = modstate /\ nmodules' = nmodules
  BY DEF ApplyEvent, UndoEvent, Abort, CommitFails, CommitGoesOn,
         RollbackOnly, history
<1>3. CASE (ApplyEvent(t) \/ UndoEvent(t)) /\ Advance(t)
  <2>1. phase[t] \in {"apply_events", "undo_events"} /\ phase'[t] = phase[t]
    BY <1>3 DEF ApplyEvent, UndoEvent, Walking, Advance
  <2>2. QED
    BY <1>1, <1>2, <2>1 DEF ProtocolFits, Told
<1>4. CASE CommitFails(t, "apply_event", TRUE)
  <2>1. PICK s \in ErrorStatuses : /\ Fails(t, "apply_event", s)
                                   /\ restart_tx_from_error(t, s, TRUE)
    BY <1>4 DEF CommitFails
  <2>2. s = "error"
    BY <2>1 DEF Fails, ProtocolFacts
  <2>3. QED
    BY <1>2, <2>1, <2>2, ProtocolAfterRestart
<1>5. CASE RollbackFails(t, "undo_event")
  BY <1>1, <1>2, <1>5, ProtocolAfterFailure DEF RollbackFails
<1>6. CASE Abort(t)
  <2>1. PICK s \in ErrorStatuses : restart_tx_from_error(t, s, FALSE)
    BY <1>6 DEF Abort
  <2>2. Told(t, 1, nmodules[t], {"begun", "prepared"})
    BY <1>1, <1>6 DEF Abort, ProtocolFits, Told
  <2>3. QED
    BY <1>2, <2>1, <2>2, ProtocolAfterRestart
<1>7. QED
  BY <1>3, <1>4, <1>5, <1>6 DEF ApplyEvent, UndoEvent

(* A module that registers itself begins at once.                          *)
LEMMA RegisterKeepsProtocol ==
    ASSUME NEW t \in Threads, ProtocolFacts(t), picotm_register_module(t)
    PROVE  ProtocolFits(t)' /\ ToldLegally(t)
<1>1. /\ phase[t] = "run" /\ phase'[t] = "run"
      /\ nmodules[t] \in Nat /\ nmodules'[t] = nmodules[t] + 1
      /\ nmodules[t] + 1 \in Modules
  BY DEF picotm_register_module, SlateFacts, ProtocolFacts, Modules
<1>2. /\ modstate'[t][nmodules[t] + 1] = "begun"
      /\ \A k \in Modules : k # nmodules[t] + 1
             => modstate'[t][k] = modstate[t][k]
  BY <1>1 DEF picotm_register_module, Tell, SlateFacts, ProtocolFacts
<1>3. modstate[t][nmodules[t] + 1] = "idle" /\ ProtocolFits(t)
  BY <1>1 DEF SlateFacts, ProtocolFacts, SlateFits, Told, Modules
<1>4. ProtocolFits(t)'
  BY <1>1, <1>2, <1>3 DEF ProtocolFits, Told, Modules
<1>5. QED
  BY <1>2, <1>3, <1>4 DEF ToldLegally, Legal

(* Each walk tells the module at its position what comes next for it.      *)
LEMMA WalkKeepsProtocol ==
    ASSUME NEW t \in Threads, ProtocolFacts(t),
           NEW p \in {"begin", "unbegin", "prepare", "apply",
                      "commit_finish", "undo", "rollback_finish"},
           NEW s, Walking(t, p), Tell(t, pos[t], s), Advance(t),
           nmodules' = nmodules,
           <<p, s>> \in {<<"begin", "begun">>, <<"unbegin", "idle">>,
                        <<"prepare", "prepared">>, <<"apply", "applied">>,
                        <<"commit_finish", "idle">>, <<"undo", "undone">>,
                        <<"rollback_finish", "idle">>}
    PROVE  ProtocolFits(t)' /\ ToldLegally(t)
<1> DEFINE m == pos[t]
<1>1. /\ phase[t] = p /\ phase'[t] = p
      /\ pos'[t] = m + 1 /\ last'[t] = last[t]
      /\ m \in Modules /\ m \in Nat
      /\ last[t] \in Nat /\ nmodules[t] \in Nat
      /\ m <= last[t] /\ last[t] <= nmodules[t]
      /\ modstate'[t][m] = s
      /\ \A k \in Modules : k # m => modstate'[t][k] = modstate[t][k]
  BY WalkGoesOn DEF ProtocolFacts
<1>2. ProtocolFits(t) /\ SlateFits(t)
  BY DEF ProtocolFacts, SlateFacts
<1>3. ProtocolFits(t)'
  BY <1>1, <1>2 DEF ProtocolFits, Told, Modules
<1>4. Legal(p, modstate[t][m], s)
  BY <1>1, <1>2 DEF ProtocolFits, SlateFits, Told, Legal
<1>5. QED
  BY <1>1, <1>3, <1>4 DEF ToldLegally

\* Each of the seven walks over the modules calls them as the protocol
\* demands.
LEMMA ModuleStepsKeepProtocol ==
    ASSUME NEW t \in Threads, ProtocolFacts(t),
           \/ BeginModule(t) \/ UnbeginModule(t) \/ PrepareModule(t)
           \/ ApplyModule(t) \/ FinishModuleAfterCommit(t)
           \/ UndoModule(t) \/ FinishModuleAfterRollback(t)
    PROVE  ProtocolFits(t)' /\ ToldLegally(t)
<1>1. nmodules' = nmodules
  BY DEF BeginModule, UnbeginModule, PrepareModule, ApplyModule,
         FinishModuleAfterCommit, UndoModule, FinishModuleAfterRollback,
         CommitFails, CommitGoesOn, RollbackOnly
<1>2. /\ ProtocolFits(t) /\ SlateFits(t) /\ DOMAIN phase = Threads
      /\ pos \in [Threads -> Nat] /\ last \in [Threads -> Nat]
      /\ nmodules[t] \in Nat
  BY DEF ProtocolFacts, SlateFacts
<1>3. modstate' = modstate => ToldLegally(t)
  BY DEF ToldLegally
<1>4. CASE BeginModule(t)
  <2>1. ASSUME Walk(t, "unbegin", pos[t] - 1), UNCHANGED modstate
        PROVE  ProtocolFits(t)'
    <3>1. /\ phase[t] = "begin" /\ phase'[t] = "unbegin"
          /\ pos'[t] = 1 /\ last'[t] = pos[t] - 1 /\ pos[t] \in Nat
      BY <1>2, <1>4, <2>1 DEF BeginModule, Walking, Walk
    <3>2. QED
      BY <1>2, <2>1, <3>1 DEF ProtocolFits, Told
  <2>2. QED
    BY <1>1, <1>3, <1>4, <2>1, WalkKeepsProtocol DEF BeginModule
<1>5. CASE UnbeginModule(t)
  <2>1. CASE Tell(t, pos[t], "idle") /\ Advance(t)
    BY <1>1, <1>5, <2>1, WalkKeepsProtocol DEF UnbeginModule
  <2>2. CASE phase' = [phase EXCEPT ![t] = "recovery"] /\ UNCHANGED modstate
    BY <1>2, <1>3, <2>2, ProtocolAfterFailure
  <2>3. QED
    BY <1>5, <2>1, <2>2 DEF UnbeginModule
<1>6. CASE PrepareModule(t)
  <2>1. CASE Tell(t, pos[t], "prepared") /\ Advance(t)
    BY <1>1, <1>6, <2>1, WalkKeepsProtocol DEF PrepareModule
  <2>2. CASE CommitFails(t, "prepare_commit", FALSE) /\ UNCHANGED modstate
    <3>1. PICK s \in ErrorStatuses : /\ Fails(t, "prepare_commit", s)
                                     /\ restart_tx_from_error(t, s, FALSE)
      BY <2>2 DEF CommitFails
    <3>2. Told(t, 1, nmodules[t], {"begun", "prepared"})
      BY <1>2, <1>6 DEF PrepareModule, Walking, ProtocolFits, Told, Modules
    <3>3. QED
      BY <1>1, <1>3, <2>2, <3>1, <3>2, ProtocolAfterRestart
  <2>3. QED
    BY <1>6, <2>1, <2>2 DEF PrepareModule
<1>7. CASE ApplyModule(t)
  <2>1. CASE Tell(t, pos[t], "applied") /\ Advance(t)
    BY <1>1, <1>7, <2>1, WalkKeepsProtocol DEF ApplyModule
  <2>2. CASE CommitFails(t, "apply", TRUE) /\ UNCHANGED modstate
    <3>1. PICK s \in ErrorStatuses : /\ Fails(t, "apply", s)
                                     /\ restart_tx_from_error(t, s, TRUE)
      BY <2>2 DEF CommitFails
    <3>2. s = "error"
      BY <3>1 DEF Fails, ProtocolFacts
    <3>3. QED
      BY <1>1, <1>3, <2>2, <3>1, <3>2, ProtocolAfterRestart
  <2>3. QED
    BY <1>7, <2>1, <2>2 DEF ApplyModule
<1>8. CASE FinishModuleAfterCommit(t)
  <2>1. CASE Tell(t, pos[t], "idle") /\ Advance(t)
    BY <1>1, <1>8, <2>1, WalkKeepsProtocol DEF FinishModuleAfterCommit
  <2>2. CASE CommitFails(t, "finish", TRUE) /\ UNCHANGED modstate
    <3>1. PICK s \in ErrorStatuses : /\ Fails(t, "finish", s)
                                     /\ restart_tx_from_error(t, s, TRUE)
      BY <2>2 DEF CommitFails
    <3>2. s = "error"
      BY <3>1 DEF Fails, ProtocolFacts
    <3>3. QED
      BY <1>1, <1>3, <2>2, <3>1, <3>2, ProtocolAfterRestart
  <2>3. QED
    BY <1>8, <2>1, <2>2 DEF FinishModuleAfterCommit
<1>9. CASE UndoModule(t)
  <2>1. CASE Tell(t, pos[t], "undone") /\ Advance(t)
    BY <1>1, <1>9, <2>1, WalkKeepsProtocol DEF UndoModule
  <2>2. CASE RollbackFails(t, "undo") /\ UNCHANGED modstate
    BY <1>2, <1>3, <2>2, ProtocolAfterFailure DEF RollbackFails
  <2>3. QED
    BY <1>9, <2>1, <2>2 DEF UndoModule
<1>10. CASE FinishModuleAfterRollback(t)
  <2>1. CASE Tell(t, pos[t], "idle") /\ Advance(t)
    BY <1>1, <1>10, <2>1, WalkKeepsProtocol DEF FinishModuleAfterRollback
  <2>2. CASE RollbackFails(t, "rollback_finish") /\ UNCHANGED modstate
    BY <1>2, <1>3, <2>2, ProtocolAfterFailure DEF RollbackFails
  <2>3. QED
    BY <1>10, <2>1, <2>2 DEF FinishModuleAfterRollback
<1>11. QED
  BY <1>4, <1>5, <1>6, <1>7, <1>8, <1>9, <1>10

(* The invariant with what each module is told next.                       *)
ProtocolInv ==
    /\ LateFailuresAreErrors
    /\ SlateInv
    /\ \A t \in Threads : ProtocolFits(t)

\* Every step keeps the invariant and calls the modules as the protocol
\* demands.
LEMMA ProtocolInvStep ==
    ASSUME ProtocolInv, NEW t \in Threads, TxAction(t), UNCHANGED failures
    PROVE  ProtocolInv' /\ \A u \in Threads : ToldLegally(u)
<1>1. SlateInv'
  BY SlateInvStep DEF ProtocolInv
<1>2. ProtocolFacts(t)
  <2>1. SlateFacts(t) /\ ProtocolFits(t)
    BY SlateInvFacts DEF ProtocolInv
  <2>2. failures \in FailureScenarios
    BY DEF ProtocolInv, SlateInv, TxInv, TxTypeOK
  <2>3. QED
    BY <2>1, <2>2 DEF ProtocolFacts, ProtocolInv, LateFailuresAreErrors
<1>3. ProtocolFits(t)' /\ ToldLegally(t)
  <2>1. modstate' = modstate => ToldLegally(t)
    BY DEF ToldLegally
  <2>2. QED
    BY <1>2, <2>1, QuietStepsKeepProtocol, EventStepsKeepProtocol,
       RegisterKeepsProtocol, ModuleStepsKeepProtocol
       DEF TxAction, TxStep, ProgramEnds
<1>4. ASSUME NEW u \in Threads \ {t}
      PROVE  ProtocolFits(u)' /\ ToldLegally(u)
  <2>1. SlateFacts(u) /\ ProtocolFits(u)
    BY SlateInvFacts DEF ProtocolInv
  <2>2. /\ phase'[u] = phase[u] /\ pos'[u] = pos[u] /\ last'[u] = last[u]
    BY <2>1, OthersControl DEF SlateFacts
  <2>3. modstate'[u] = modstate[u] /\ nmodules'[u] = nmodules[u]
    BY <2>1, OthersModules DEF SlateFacts
  <2>4. QED
    BY <2>1, <2>2, <2>3 DEF ProtocolFits, Told, ToldLegally
<1>5. QED
  BY <1>1, <1>3, <1>4 DEF ProtocolInv, LateFailuresAreErrors

(* Every call-back into a module follows the protocol: begin, then prepare *)
(* and apply or else undo, then finish, whichever call-backs fail, if what *)
(* fails from apply on is an error and no roll-back fails while the thread *)
(* recovers from one.                                                      *)
THEOREM ModulesFollowTheProtocol ==
    RollbackInRecoverySucceeds /\ LateFailuresAreErrors /\ TxSpec
        => ModuleProtocol
<1>1. RollbackInRecoverySucceeds /\ LateFailuresAreErrors /\ TxInit
         => ProtocolInv
  <2>1. ASSUME TxInit, NEW t \in Threads PROVE ProtocolFits(t)
    BY <2>1 DEF TxInit, ProtocolFits
  <2>2. QED
    BY <2>1, SlateInitially DEF ProtocolInv
<1>2. ProtocolInv /\ [TxNext]_txVars => ProtocolInv'
  <2>1. ProtocolInv /\ TxNext => ProtocolInv'
    BY SomeThreadActs, ProtocolInvStep
  <2>2. ProtocolInv /\ UNCHANGED txVars => ProtocolInv'
    <3>1. SUFFICES ASSUME ProtocolInv, UNCHANGED txVars PROVE ProtocolInv'
      OBVIOUS
    <3>2. SlateInv'
      BY <3>1, SlateInvAlways DEF ProtocolInv
    <3>3. QED
      BY <3>1, <3>2 DEF ProtocolInv, LateFailuresAreErrors, ProtocolFits,
                        Told, txVars, txOnly, history
  <2>3. QED
    BY <2>1, <2>2
<1>3. ProtocolInv /\ [TxNext]_txVars =>
         [\A t \in Threads : \A m \in Modules :
             modstate'[t][m] # modstate[t][m] =>
                 \/ <<modstate[t][m], modstate'[t][m]>> \in
                       {<<"idle", "begun">>, <<"begun", "prepared">>,
                        <<"prepared", "applied">>, <<"applied", "idle">>,
                        <<"begun", "undone">>, <<"prepared", "undone">>,
                        <<"undone", "idle">>}
                 \/ modstate[t][m] = "begun" /\ modstate'[t][m] = "idle"
                       /\ phase[t] = "unbegin"]_txVars
  BY SomeThreadActs, ProtocolInvStep DEF ToldLegally, Legal
<1>4. QED
  BY <1>1, <1>2, <1>3, PTL DEF TxSpec, ModuleProtocol
=============================================================================
