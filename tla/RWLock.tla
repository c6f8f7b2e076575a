------------------------------- MODULE RWLock -------------------------------
(***************************************************************************)
(* The reader/writer lock of src/picotm-lib-rwlock.c as transactions use   *)
(* it through src/picotm-lib-rwstate.c.                                    *)
(*                                                                         *)
(* The lock is one atomic byte with two bit fields.  The low field counts  *)
(* the holders, and its largest value means `one writer'.  The high field  *)
(* holds the index of the first waiter.  The two fields are the variables  *)
(* counter and first; they are always read and swapped together.           *)
(*                                                                         *)
(* Each thread's lock operation is a sequence of steps, one for each       *)
(* access to the shared byte: an atomic load, then compare-and-swap        *)
(* attempts on what was loaded, or a fetch-and-sub.  The waiter field is   *)
(* written by the lock manager; here it may change at any moment           *)
(* (SetIndex), and module RWLockSystem puts the lock manager in its place. *)
(***************************************************************************)
EXTENDS Integers, FiniteSets

CONSTANTS
    Threads,            \* the threads that run transactions
    WRITER_COUNTER,     \* largest value of the counter field; 15 in the code
    MAX_INDEX           \* largest value of the index field; 15 in the code

ASSUME ThreadsAssumption == IsFiniteSet(Threads)
ASSUME WriterCounterAssumption ==
    WRITER_COUNTER \in Nat /\ WRITER_COUNTER >= 2
ASSUME MaxIndexAssumption == MAX_INDEX \in Nat

VARIABLES
    counter,    \* low field of picotm_rwlock::n
    first,      \* high field of picotm_rwlock::n, 0 if nobody waits
    status,     \* each thread's picotm_rwstate::status
    op,         \* the lock operation each thread is in
    pc,         \* the next access of that operation
    loaded,     \* its local copy of picotm_rwlock::n
    waited      \* it has already waited for the lock once

wordVars == <<counter, first>>
localVars == <<op, pc, loaded, waited>>
vars == <<counter, first, status, op, pc, loaded, waited>>

Statuses == {"UNLOCKED", "RDLOCKED", "WRLOCKED"}
LockOps == {"rdlock", "wrlock", "uplock"}
Counters == 0 .. WRITER_COUNTER
Indices == 0 .. MAX_INDEX
Words == [counter : Counters, index : Indices]

Word == [counter |-> counter, index |-> first]
NoWord == [counter |-> 0, index |-> 0]

TypeOK ==
    /\ counter \in Counters
    /\ first \in Indices
    /\ status \in [Threads -> Statuses]
    /\ op \in [Threads -> LockOps \cup {"none", "unlock"}]
    /\ pc \in [Threads -> {"idle", "load", "cas", "wait", "sub", "wake"}]
    /\ loaded \in [Threads -> Words]
    /\ waited \in [Threads -> BOOLEAN]

Init ==
    /\ counter = 0
    /\ first = 0
    /\ status = [t \in Threads |-> "UNLOCKED"]
    /\ op = [t \in Threads |-> "none"]
    /\ pc = [t \in Threads |-> "idle"]
    /\ loaded = [t \in Threads |-> NoWord]
    /\ waited = [t \in Threads |-> FALSE]

-----------------------------------------------------------------------------
(* The operations as a transaction calls them.  A call that finds the lock *)
(* already in the requested mode returns at once and changes nothing.      *)

Call(t, o) ==
    /\ pc[t] = "idle"
    /\ op' = [op EXCEPT ![t] = o]
    /\ pc' = [pc EXCEPT ![t] = "load"]
    /\ UNCHANGED <<wordVars, status, loaded, waited>>

(* The operation ends and its local variables with it.                     *)
Return(t) ==
    /\ op' = [op EXCEPT ![t] = "none"]
    /\ pc' = [pc EXCEPT ![t] = "idle"]
    /\ loaded' = [loaded EXCEPT ![t] = NoWord]
    /\ waited' = [waited EXCEPT ![t] = FALSE]

picotm_rwstate_try_rdlock(t) ==
    status[t] = "UNLOCKED" /\ Call(t, "rdlock")

picotm_rwstate_try_wrlock(t) ==
    \/ status[t] = "UNLOCKED" /\ Call(t, "wrlock")
    \/ status[t] = "RDLOCKED" /\ Call(t, "uplock")

(* Mutant: the rwstate becomes UNLOCKED before the lock is given back.     *)
MutUnlock(t) ==
    /\ status[t] # "UNLOCKED"
    /\ pc[t] = "idle"
    /\ op' = [op EXCEPT ![t] = "unlock"]
    /\ pc' = [pc EXCEPT ![t] = "load"]
    /\ status' = [status EXCEPT ![t] = "UNLOCKED"]
    /\ UNCHANGED <<wordVars, loaded, waited>>

picotm_rwstate_unlock(t) ==
    status[t] # "UNLOCKED" /\ Call(t, "unlock")

Load(t) ==
    /\ pc[t] = "load"
    /\ loaded' = [loaded EXCEPT ![t] = Word]
    /\ pc' = [pc EXCEPT ![t] = IF op[t] = "unlock" THEN "sub" ELSE "cas"]
    /\ UNCHANGED <<wordVars, status, op, waited>>

-----------------------------------------------------------------------------
(* Mutants: a reader does not look for the limit of readers, or for        *)
(* waiters; an upgrade does not look for other readers.                    *)
MutNoReaderLimit(o, w) ==
    \/ o = "rdlock" /\ (w.counter = WRITER_COUNTER \/ w.index # 0)
    \/ o = "wrlock" /\ (w.counter # 0 \/ w.index # 0)
    \/ o = "uplock" /\ w.counter # 1

MutOvertaking(o, w) ==
    \/ o = "rdlock" /\ w.counter \in {WRITER_COUNTER, WRITER_COUNTER - 1}
    \/ o = "wrlock" /\ (w.counter # 0 \/ w.index # 0)
    \/ o = "uplock" /\ w.counter # 1

MutSharedUpgrade(o, w) ==
    \/ o = "rdlock" /\ (w.counter >= WRITER_COUNTER - 1 \/ w.index # 0)
    \/ o = "wrlock" /\ (w.counter # 0 \/ w.index # 0)

(* The word w refuses the operation: the lock is held in a conflicting     *)
(* mode, its counter is full, or, unless the caller already is a reader,   *)
(* others are waiting.                                                     *)
Refuses(o, w) ==
    \/ /\ o = "rdlock"
       /\ \/ w.counter \in {WRITER_COUNTER, WRITER_COUNTER - 1}
          \/ w.index # 0
    \/ o = "wrlock" /\ (w.counter # 0 \/ w.index # 0)
    \/ o = "uplock" /\ w.counter # 1

(* The counter that a successful compare-and-swap leaves behind.           *)
Granted(o, w) == IF o = "rdlock" THEN w.counter + 1 ELSE WRITER_COUNTER

(* The lock was not granted: the first time the thread goes to wait, the   *)
(* second time it reports a conflict and keeps the status it had.          *)
Refused(t) ==
    /\ IF waited[t]
       THEN Return(t)
       ELSE /\ pc' = [pc EXCEPT ![t] = "wait"]
            /\ UNCHANGED <<op, loaded, waited>>
    /\ UNCHANGED <<wordVars, status>>

TryFails(t) ==
    /\ pc[t] = "cas"
    /\ Refuses(op[t], loaded[t])
    /\ Refused(t)

(* The compare-and-swap finds the word as it was loaded.                   *)
CasSucceeds(t) ==
    /\ pc[t] = "cas"
    /\ ~Refuses(op[t], loaded[t])
    /\ Word = loaded[t]
    /\ counter' = Granted(op[t], loaded[t])
    /\ status' = [status EXCEPT ![t] = IF op[t] = "rdlock" THEN "RDLOCKED"
                                                           ELSE "WRLOCKED"]
    /\ Return(t)
    /\ UNCHANGED first

(* The word has changed.  The operation goes on with the new value, except *)
(* that an upgrade gives up when the counter is among what changed.        *)
CasFails(t) ==
    /\ pc[t] = "cas"
    /\ ~Refuses(op[t], loaded[t])
    /\ Word # loaded[t]
    /\ IF op[t] = "uplock" /\ counter # loaded[t].counter
       THEN Refused(t)
       ELSE /\ loaded' = [loaded EXCEPT ![t] = Word]
            /\ UNCHANGED <<wordVars, status, op, pc, waited>>

(* picotm_lock_manager_wait() returned; the operation tries once more.     *)
Waited(t) ==
    /\ pc[t] = "wait"
    /\ waited' = [waited EXCEPT ![t] = TRUE]
    /\ pc' = [pc EXCEPT ![t] = "load"]
    /\ UNCHANGED <<wordVars, status, op, loaded>>

-----------------------------------------------------------------------------
(* Mutants: unlock takes every holder for a writer, or for a reader.       *)
MutHeldAsWriter(w) == WRITER_COUNTER
MutHeldAsReader(w) == 1

(* How much unlock subtracts, from the word loaded before the subtraction. *)
Held(w) == IF w.counter = WRITER_COUNTER THEN WRITER_COUNTER ELSE 1

(* The rwstate becomes UNLOCKED only after picotm_rwlock_unlock() is back. *)
UnlockReturns(t) ==
    /\ status' = [status EXCEPT ![t] = "UNLOCKED"]
    /\ Return(t)

(* Whether to wake up waiters is decided by the word loaded before.        *)
Subtract(t) ==
    /\ pc[t] = "sub"
    /\ counter' = counter - Held(loaded[t])
    /\ IF loaded[t].index # 0
       THEN /\ pc' = [pc EXCEPT ![t] = "wake"]
            /\ UNCHANGED <<op, status, loaded, waited>>
       ELSE UnlockReturns(t)
    /\ UNCHANGED first

(* picotm_lock_manager_wake_up() returned.                                 *)
WokenUp(t) ==
    /\ pc[t] = "wake"
    /\ UnlockReturns(t)
    /\ UNCHANGED wordVars

(* picotm_rwlock_cmpxchg_index() of a thread that enters or leaves the     *)
(* list of waiters: swaps the index, whatever the counter is.              *)
SetIndex(i) ==
    /\ first' = i
    /\ UNCHANGED <<counter, status, localVars>>

-----------------------------------------------------------------------------
LockStep(t) ==
    \/ picotm_rwstate_try_rdlock(t)
    \/ picotm_rwstate_try_wrlock(t)
    \/ picotm_rwstate_unlock(t)
    \/ Load(t)
    \/ TryFails(t)
    \/ CasSucceeds(t)
    \/ CasFails(t)
    \/ Subtract(t)

Next ==
    \/ \E t \in Threads : LockStep(t) \/ Waited(t) \/ WokenUp(t)
    \/ \E i \in Indices : SetIndex(i)

Spec == Init /\ [][Next]_vars

-----------------------------------------------------------------------------
(* Who holds the lock.  A thread that unlocks holds it until the atomic    *)
(* subtraction, although its rwstate is reset later.                       *)
Holders(s) == {t \in Threads : status[t] = s /\ pc[t] # "wake"}
Readers == Holders("RDLOCKED")
Writers == Holders("WRLOCKED")

(* Mutual exclusion, in the words of the lock byte: the counter that the   *)
(* compare-and-swap loops maintain is exactly the number of readers, or    *)
(* the writer mark with one single writer and no reader.  It takes the     *)
(* load and the swap of two threads, interleaved, to break it.             *)
CounterCountsHolders ==
    IF Writers = {}
    THEN counter = Cardinality(Readers) /\ counter < WRITER_COUNTER
    ELSE /\ counter = WRITER_COUNTER
         /\ Readers = {}
         /\ \A t, u \in Writers : t = u

(* No overtaking: the lock is granted to a thread that did not hold it     *)
(* only while nobody is listed as a waiter; only an upgrade may pass the   *)
(* waiters (comments in try_rdlock, try_wrlock and try_uplock).            *)
NoOvertaking ==
    [][\A t \in Threads :
          (t \notin Readers \cup Writers /\ t \in (Readers \cup Writers)')
              => first = 0]_vars

(* Unlock decides from a word loaded before the subtraction whether it is  *)
(* a reader or a writer; that decision is never stale.                     *)
UnlockKnowsItsMode ==
    \A t \in Threads :
        pc[t] = "sub" => (loaded[t].counter = WRITER_COUNTER
                            <=> status[t] = "WRLOCKED")

(* The lock word implements the abstract reader/writer lock.               *)
Abstract == INSTANCE RWLockAbstract WITH
    MAX_READERS <- WRITER_COUNTER - 1, readers <- Readers, writers <- Writers

ImplementsRWLock == Abstract!AbsSpec
=============================================================================
