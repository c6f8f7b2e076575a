---------------------------- MODULE RWLockSystem ----------------------------
(***************************************************************************)
(* Reader/writer lock and lock manager together: the threads of RWLock     *)
(* wait in, and are woken up through, the list of waiters of LockManager,  *)
(* whose head is the index field of the lock word.                         *)
(*                                                                         *)
(* try_lock_or_wait() always announces a reader to the lock manager, so    *)
(* all waiters are of kind "rd".                                           *)
(***************************************************************************)
EXTENDS Integers, FiniteSets

CONSTANTS
    Threads, WRITER_COUNTER, MAX_INDEX, MAX_CALLS, NULL,
    OnlyRead,   \* threads of a program that only read, and of one that only
    OnlyWrite   \* writes; a thread in neither set does both

ASSUME ThreadsAssumption == IsFiniteSet(Threads) /\ NULL \notin Threads
ASSUME WriterCounterAssumption ==
    WRITER_COUNTER \in Nat /\ WRITER_COUNTER >= 2
ASSUME MaxIndexAssumption == MAX_INDEX \in Nat \ {0}
ASSUME CallsAssumption == MAX_CALLS \in Nat

VARIABLES
    counter, first, status, op, pc, loaded, waited,
    lo, rdlocked, index, nextIndex, next, wt, kind, mutex, mpc, task, seen,
    cur, head, picked,
    calls,      \* lock operations started by each thread (bounded)
    inManager   \* the thread's pending wait or wake-up has been called

RW == INSTANCE RWLock
LM == INSTANCE LockManager WITH Writers <- {}, WriterPreferring <- FALSE

rwOnly == <<counter, status, op, pc, loaded, waited>>
lmOnly == <<lo, rdlocked, index, nextIndex, next, wt, kind, mutex, mpc,
            task, seen, cur, head, picked>>
sysVars == <<rwOnly, first, lmOnly, calls, inManager>>

SysInit ==
    /\ RW!Init
    /\ LM!LMInit
    /\ inManager = [t \in Threads |-> FALSE]

-----------------------------------------------------------------------------
(* A thread registers its lock owner when its transaction state is set up, *)
(* and unregisters it when it releases that state, holding no lock.        *)
Setup(t) ==
    /\ pc[t] = "idle"
    /\ status[t] = "UNLOCKED"
    /\ \/ LM!RegisterCall(t) /\ UNCHANGED calls
       \/ LM!UnregisterCall(t) /\ LM!CountCall(t)
    /\ UNCHANGED <<rwOnly, inManager>>

CallLock(t) ==
    /\ index[t] # 0
    /\ mpc[t] = "out"
    /\ \/ t \notin OnlyWrite /\ RW!picotm_rwstate_try_rdlock(t)
       \/ t \notin OnlyRead /\ RW!picotm_rwstate_try_wrlock(t)
    /\ LM!CountCall(t)
    /\ UNCHANGED <<lmOnly, inManager>>

CallUnlock(t) ==
    /\ mpc[t] = "out"
    /\ RW!picotm_rwstate_unlock(t)
    /\ UNCHANGED <<lmOnly, calls, inManager>>

AccessWord(t) ==
    /\ \/ RW!Load(t)
       \/ RW!TryFails(t)
       \/ RW!CasSucceeds(t)
       \/ RW!CasFails(t)
       \/ RW!Subtract(t)
    /\ UNCHANGED <<lmOnly, calls, inManager>>

EnterManager(t) ==
    /\ ~inManager[t]
    /\ \/ pc[t] = "wait" /\ LM!WaitCall(t)
       \/ pc[t] = "wake" /\ LM!WakeUpCall(t)
    /\ inManager' = [inManager EXCEPT ![t] = TRUE]
    /\ UNCHANGED <<rwOnly, calls>>

(* A transaction younger than one second is not put to sleep:              *)
(* compute_timeout() makes the wait return at once.                        *)
YoungTransaction(t) ==
    /\ ~inManager[t]
    /\ RW!Waited(t)
    /\ UNCHANGED <<lmOnly, calls, inManager>>

LeaveManager(t) ==
    /\ inManager[t]
    /\ mpc[t] = "out"
    /\ RW!Waited(t) \/ RW!WokenUp(t)
    /\ inManager' = [inManager EXCEPT ![t] = FALSE]
    /\ UNCHANGED <<lmOnly, calls>>

(* Mutant: a new index is stored together with an empty counter.           *)
MutInManager(t) ==
    /\ LM!LMStep(t)
    /\ counter' = IF first' = first THEN counter ELSE 0
    /\ UNCHANGED <<status, op, pc, loaded, waited, inManager>>

InManager(t) == LM!LMStep(t) /\ UNCHANGED <<rwOnly, inManager>>

Progress(t) ==
    \/ AccessWord(t)
    \/ EnterManager(t)
    \/ YoungTransaction(t)
    \/ LeaveManager(t)
    \/ InManager(t)

SysNext ==
    \E t \in Threads :
        Setup(t) \/ CallLock(t) \/ CallUnlock(t) \/ Progress(t)

(* Threads inside an operation are scheduled; nobody has to start one.     *)
SysFairness == \A t \in Threads : WF_sysVars(Progress(t))

SysSpec == SysInit /\ [][SysNext]_sysVars /\ SysFairness

-----------------------------------------------------------------------------
(* With the real lock manager in place of arbitrary index changes, the     *)
(* lock word still behaves as module RWLock says, where mutual exclusion   *)
(* is proved.                                                              *)
ImplementsRWLockWord == RW!Init /\ [][RW!Next]_(RW!vars)

(* A lock that nobody holds and nobody waits for is free: no holder is     *)
(* left in the counter and no waiter in the index, which would make every  *)
(* later attempt fail.                                                     *)
QuiescentLockIsFree ==
    (\A t \in Threads : pc[t] = "idle" /\ status[t] = "UNLOCKED")
        => counter = 0 /\ first = 0

(* The list of waiters stays intact while its head shares an atomic word   *)
(* with the counter of holders.                                            *)
WaiterListIsIntact == LM!ListIsIntact /\ LM!NoAssertionFails

(* Every lock operation returns, granted or with a conflict, although a    *)
(* wake-up may be missed: unlock looks for waiters in the word it loaded   *)
(* before it gave the lock back.                                           *)
EveryOperationReturns ==
    \A t \in Threads : pc[t] # "idle" ~> pc[t] = "idle"
=============================================================================
