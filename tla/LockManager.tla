---------------------------- MODULE LockManager -----------------------------
(***************************************************************************)
(* The lock manager of src/picotm_lock_manager.c with the lock owners of   *)
(* src/picotm_lock_owner.c: how a thread registers, waits in the list of   *)
(* waiters of a lock, times out, leaves the list, and how another thread   *)
(* walks the list to wake up waiters.                                      *)
(*                                                                         *)
(* Every thread has one lock owner, so a lock owner is named by its        *)
(* thread.  The list head (`first') is an index field inside the lock; it  *)
(* is reached through picotm_lock_slist_funcs and is narrower than the     *)
(* owner's own index.  The list is linked through the owners.  Each owner  *)
(* has a mutex that protects its flags and its link; lo_rwlock protects    *)
(* the table of owners.                                                    *)
(*                                                                         *)
(* A step is one access to shared state: a lock acquisition together with  *)
(* the accesses that the acquired lock protects, or one atomic access to   *)
(* the list head.  A writer section of lo_rwlock is one step.  Errors of   *)
(* the pthread calls themselves are left out.                              *)
(***************************************************************************)
EXTENDS Integers, FiniteSets

CONSTANTS
    Threads,            \* the threads, and their lock owners
    MAX_INDEX,          \* largest index the lock's list head can hold
    Writers,            \* the threads whose waits ask for the writer lock
    WriterPreferring,   \* does a blocked writer block new rwlock readers?
    MAX_CALLS,          \* bound: calls of each thread, registration aside
    NULL                \* the null pointer

ASSUME OwnersAssumption == IsFiniteSet(Threads) /\ Writers \subseteq Threads
ASSUME ListHeadAssumption == MAX_INDEX \in Nat \ {0}
ASSUME PreferenceAssumption == WriterPreferring \in BOOLEAN
ASSUME CallsAssumption == MAX_CALLS \in Nat
ASSUME NullAssumption == NULL \notin Threads

VARIABLES
    lo,         \* picotm_lock_manager::lo, a function on 0 .. nlos - 1
    rdlocked,   \* the threads that hold lo_rwlock as readers
    first,      \* the lock's list head: index of the first waiter, or 0
    index,      \* bits 0-9 of picotm_lock_owner::flags; 0 if unregistered
    nextIndex,  \* bits 10-19 of flags
    next,       \* picotm_lock_owner::next
    wt,         \* LOCK_OWNER_WT: asleep and not yet woken up
    kind,       \* LOCK_OWNER_RD, LOCK_OWNER_WR or neither
    mutex,      \* who holds picotm_lock_owner::mutex
    mpc,        \* where each thread is
    task,       \* the lock-manager call it is in
    seen,       \* its copy of the list head
    cur,        \* the owner it has reached in the list
    head,       \* first_waiter in wake_up
    picked,     \* picked_waiter in wake_up
    calls       \* calls made

ownerVars == <<index, nextIndex, next, wt, kind>>
localVars == <<mpc, task, seen, cur, head, picked>>
lmVars == <<lo, rdlocked, first, ownerVars, mutex, localVars, calls>>

Owner == Threads \cup {NULL}

MPCs == {"out", "register", "unregister",
         "w_rdlock", "w_mutex", "w_cas", "sleep", "r_rdlock", "r_head",
         "f_walk", "r_prec",
         "g_get", "g_lock",
         "k_rdlock", "p_exam", "p_next", "k_wake", "a_walk", "abort"}

LMTypeOK ==
    /\ \E n \in 0 .. Cardinality(Threads) + 1 : lo \in [0 .. n - 1 -> Owner]
    /\ rdlocked \subseteq Threads
    /\ first \in 0 .. MAX_INDEX
    /\ index \in [Threads -> 0 .. Cardinality(Threads)]
    /\ nextIndex \in [Threads -> 0 .. Cardinality(Threads)]
    /\ next \in [Threads -> Owner]
    /\ wt \in [Threads -> BOOLEAN]
    /\ kind \in [Threads -> {"none", "rd", "wr"}]
    /\ mutex \in [Threads -> Owner]
    /\ mpc \in [Threads -> MPCs]
    /\ task \in [Threads -> {"none", "wait", "wake"}]
    /\ seen \in [Threads -> 0 .. MAX_INDEX]
    /\ cur \in [Threads -> Owner]
    /\ head \in [Threads -> Owner]
    /\ picked \in [Threads -> Owner]
    /\ calls \in [Threads -> 0 .. MAX_CALLS]

LMInit ==
    /\ lo = [i \in {} |-> NULL]
    /\ rdlocked = {}
    /\ first = 0
    /\ index = [t \in Threads |-> 0]
    /\ nextIndex = [t \in Threads |-> 0]
    /\ next = [t \in Threads |-> NULL]
    /\ wt = [t \in Threads |-> FALSE]
    /\ kind = [t \in Threads |-> "none"]
    /\ mutex = [t \in Threads |-> NULL]
    /\ mpc = [t \in Threads |-> "out"]
    /\ task = [t \in Threads |-> "none"]
    /\ seen = [t \in Threads |-> 0]
    /\ cur = [t \in Threads |-> NULL]
    /\ head = [t \in Threads |-> NULL]
    /\ picked = [t \in Threads |-> NULL]
    /\ calls = [t \in Threads |-> 0]

-----------------------------------------------------------------------------
(* Helpers.                                                                *)

Goto(t, l) == mpc' = [mpc EXCEPT ![t] = l]

(* Thread t locks the mutexes of the owners in acquired, blocking while    *)
(* one is taken, and unlocks those of the owners in released.              *)
Mutexes(t, acquired, released) ==
    /\ \A u \in acquired : mutex[u] = NULL
    /\ mutex' = [u \in Threads |-> IF u \in acquired THEN t
                                   ELSE IF u \in released THEN NULL
                                   ELSE mutex[u]]

(* picotm_os_rwlock_rdlock(&self->lo_rwlock): pthread_rwlock_rdlock with   *)
(* default attributes.  Whether blocked writers keep readers out is left   *)
(* to the platform.                                                        *)
Rdlock(t) ==
    /\ WriterPreferring =>
           \A u \in Threads : mpc[u] \notin {"register", "unregister"}
    /\ rdlocked' = rdlocked \cup {t}

(* Mutant: the lock on the table is not given back.                        *)
MutRdUnlock(t) == UNCHANGED rdlocked

RdUnlock(t) == rdlocked' = rdlocked \ {t}

(* Mutant: the field is one value narrower.                                *)
MutIndexBits(i) == i % MAX_INDEX

(* The value that the narrow index field keeps of an owner's index.        *)
rw_index_bits(i) == i % (MAX_INDEX + 1)

(* The call is over: the local variables are gone.                         *)
Leave(t) ==
    /\ Goto(t, "out")
    /\ task' = [task EXCEPT ![t] = "none"]
    /\ seen' = [seen EXCEPT ![t] = 0]
    /\ cur' = [cur EXCEPT ![t] = NULL]
    /\ head' = [head EXCEPT ![t] = NULL]
    /\ picked' = [picked EXCEPT ![t] = NULL]

Begin(t, l, tsk) ==
    /\ mpc[t] = "out"
    /\ Goto(t, l)
    /\ task' = [task EXCEPT ![t] = tsk]
    /\ UNCHANGED <<lo, rdlocked, first, ownerVars, mutex, seen, cur, head,
                   picked>>

CountCall(t) ==
    /\ calls[t] < MAX_CALLS
    /\ calls' = [calls EXCEPT ![t] = @ + 1]

-----------------------------------------------------------------------------
(* Registration of a lock owner, under the writer lock of lo_rwlock.       *)

RegisterCall(t) == index[t] = 0 /\ Begin(t, "register", "none")
UnregisterCall(t) == index[t] # 0 /\ Begin(t, "unregister", "none")

(* Index 0 is never handed out, so the first growth adds two elements.     *)
grow_lo_array(a) ==
    LET nlos == Cardinality(DOMAIN a)
    IN  [i \in 0 .. nlos + (IF nlos = 0 THEN 1 ELSE 0) |->
            IF i \in DOMAIN a THEN a[i] ELSE NULL]

Vacant(a) == {i \in DOMAIN a \ {0} : a[i] = NULL}

Lowest(S) == CHOOSE i \in S : \A j \in S : i <= j

picotm_lock_manager_register_owner(t) ==
    /\ mpc[t] = "register"
    /\ rdlocked = {}
    /\ LET a == IF Vacant(lo) = {} THEN grow_lo_array(lo) ELSE lo
           i == Lowest(Vacant(a))
       IN  /\ lo' = [a EXCEPT ![i] = t]
           /\ index' = [index EXCEPT ![t] = i]
    /\ Goto(t, "out")
    /\ UNCHANGED <<rdlocked, first, nextIndex, next, wt, kind, mutex, task,
                   seen, cur, head, picked, calls>>

picotm_lock_manager_unregister_owner(t) ==
    /\ mpc[t] = "unregister"
    /\ rdlocked = {}
    /\ lo' = [lo EXCEPT ![index[t]] = NULL]
    /\ index' = [index EXCEPT ![t] = 0]
    /\ Goto(t, "out")
    /\ UNCHANGED <<rdlocked, first, nextIndex, next, wt, kind, mutex, task,
                   seen, cur, head, picked, calls>>

-----------------------------------------------------------------------------
(* picotm_lock_manager_wait: enter the list and sleep.                     *)

WaitCall(t) == index[t] # 0 /\ Begin(t, "w_rdlock", "wait")

WaitRdlock(t) ==
    /\ mpc[t] = "w_rdlock"
    /\ Rdlock(t)
    /\ Goto(t, "w_mutex")
    /\ UNCHANGED <<lo, first, ownerVars, mutex, task, seen, cur, head,
                   picked, calls>>

WaitLockOwner(t) ==
    /\ mpc[t] = "w_mutex"
    /\ Mutexes(t, {t}, {})
    /\ seen' = [seen EXCEPT ![t] = first]
    /\ Goto(t, "w_cas")
    /\ UNCHANGED <<lo, rdlocked, first, ownerVars, task, cur, head, picked,
                   calls>>

(* Links the waiter before the first waiter that it has seen, and swaps    *)
(* the list head.  On success the thread releases its locks and sleeps on  *)
(* its condition variable.                                                 *)
lock_and_prepend_waiter(t) ==
    /\ mpc[t] = "w_cas"
    /\ nextIndex' = [nextIndex EXCEPT ![t] = seen[t]]
    /\ next' = [next EXCEPT ![t] = lo[seen[t]]]
    /\ IF first = seen[t]
       THEN /\ first' = rw_index_bits(index[t])
            /\ kind' = [kind EXCEPT ![t] = IF t \in Writers THEN "wr"
                                                            ELSE "rd"]
            /\ wt' = [wt EXCEPT ![t] = TRUE]
            /\ Goto(t, "sleep")
            /\ RdUnlock(t)
            /\ Mutexes(t, {}, {t})
            /\ UNCHANGED seen
       ELSE /\ seen' = [seen EXCEPT ![t] = first]
            /\ UNCHANGED <<first, kind, wt, mpc, rdlocked, mutex>>
    /\ UNCHANGED <<lo, index, task, cur, head, picked, calls>>

(* Mutant: sleeps until it is woken up.                                    *)
MutWaitForever(t) ==
    /\ mpc[t] = "sleep"
    /\ ~wt[t]
    /\ Mutexes(t, {t}, {})
    /\ Goto(t, "r_rdlock")
    /\ UNCHANGED <<lo, rdlocked, first, ownerVars, task, seen, cur, head,
                   picked, calls>>

(* Mutant: does not clear LOCK_OWNER_WT when the time is up.               *)
MutStaysWaiting(t) ==
    /\ mpc[t] = "sleep"
    /\ Mutexes(t, {t}, {})
    /\ Goto(t, "r_rdlock")
    /\ UNCHANGED <<lo, rdlocked, first, ownerVars, task, seen, cur, head,
                   picked, calls>>

(* pthread_cond_timedwait returns with the mutex held, because the time is *)
(* up or because the flag was cleared by a wake-up.  A spurious wake-up    *)
(* finds the flag set and sleeps again.                                    *)
picotm_lock_owner_wait_until(t) ==
    /\ mpc[t] = "sleep"
    /\ Mutexes(t, {t}, {})
    /\ wt' = [wt EXCEPT ![t] = FALSE]
    /\ Goto(t, "r_rdlock")
    /\ UNCHANGED <<lo, rdlocked, first, index, nextIndex, next, kind, task,
                   seen, cur, head, picked, calls>>

-----------------------------------------------------------------------------
(* remove_waiter: leave the list.                                          *)

RemoveRdlock(t) ==
    /\ mpc[t] = "r_rdlock"
    /\ Rdlock(t)
    /\ Goto(t, "r_head")
    /\ UNCHANGED <<lo, first, ownerVars, mutex, task, seen, cur, head,
                   picked, calls>>

(* The waiter is out of the list: the wait returns.                        *)
WaitReturns(t, released) ==
    /\ kind' = [kind EXCEPT ![t] = "none"]
    /\ RdUnlock(t)
    /\ Mutexes(t, {}, released \cup {t})
    /\ Leave(t)

(* No preceding waiter is known: try to swap the list head.  If another    *)
(* waiter is the first one now, give up the own mutex, to keep the order   *)
(* of the list, and search the preceding waiter from the head.             *)
RemoveFromHead(t) ==
    /\ mpc[t] = "r_head"
    /\ IF first = index[t]
       THEN /\ first' = rw_index_bits(nextIndex[t])
            /\ WaitReturns(t, {})
       ELSE /\ Mutexes(t, {}, {t})
            /\ Goto(t, "g_get")
            /\ UNCHANGED <<first, kind, rdlocked, task, seen, cur, head,
                           picked>>
    /\ UNCHANGED <<lo, index, nextIndex, next, wt, calls>>

(* Mutant: goes on to the next waiter before it compares it.               *)
MutFindPrec(t) ==
    /\ mpc[t] = "f_walk"
    /\ LET n == next[cur[t]]
       IN  IF cur[t] = t
           THEN Goto(t, "r_head") /\ UNCHANGED <<mutex, cur>>
           ELSE IF n = NULL
           THEN Goto(t, "abort") /\ UNCHANGED <<mutex, cur>>
           ELSE /\ Mutexes(t, {n}, {cur[t]})
                /\ cur' = [cur EXCEPT ![t] = n]
                /\ IF n = t THEN Goto(t, "r_prec") ELSE UNCHANGED mpc
    /\ UNCHANGED <<lo, rdlocked, first, ownerVars, task, seen, head, picked,
                   calls>>

(* One round of find_prec_waiter, holding the mutex of cur.                *)
find_prec_waiter(t) ==
    /\ mpc[t] = "f_walk"
    /\ LET c == cur[t]
           n == next[cur[t]]
       IN  IF c = t
           THEN Goto(t, "r_head") /\ UNCHANGED <<mutex, cur>>
           ELSE IF n = NULL
           THEN Goto(t, "abort") /\ UNCHANGED <<mutex, cur>>
           ELSE IF n = t
           THEN Mutexes(t, {t}, {}) /\ Goto(t, "r_prec") /\ UNCHANGED cur
           ELSE /\ Mutexes(t, {n}, {c})
                /\ cur' = [cur EXCEPT ![t] = n]
                /\ UNCHANGED mpc
    /\ UNCHANGED <<lo, rdlocked, first, ownerVars, task, seen, head, picked,
                   calls>>

(* Unlinks the waiter from the preceding one, if that still precedes it.   *)
RemoveFromPreceding(t) ==
    /\ mpc[t] = "r_prec"
    /\ IF next[cur[t]] = t
       THEN /\ nextIndex' = [nextIndex EXCEPT ![cur[t]] = nextIndex[t]]
            /\ next' = [next EXCEPT ![cur[t]] = next[t]]
            /\ WaitReturns(t, {cur[t]})
       ELSE /\ Mutexes(t, {}, {t, cur[t]})
            /\ Goto(t, "g_get")
            /\ UNCHANGED <<nextIndex, next, kind, rdlocked, task, seen, cur,
                           head, picked>>
    /\ UNCHANGED <<lo, first, index, wt, calls>>

-----------------------------------------------------------------------------
(* get_first_waiter, called by remove_waiter and by wake_up.               *)

(* It found the list empty.  That ends a wake-up; for a waiter that wants  *)
(* to leave the list, assert(first_waiter) fails.                          *)
NoFirstWaiter(t) ==
    IF task[t] = "wait"
    THEN Goto(t, "abort") /\ UNCHANGED <<rdlocked, task, cur, head, picked>>
    ELSE /\ RdUnlock(t)
         /\ Goto(t, "out")
         /\ task' = [task EXCEPT ![t] = "none"]
         /\ UNCHANGED <<cur, head, picked>>

GetFirstIndex(t) ==
    /\ mpc[t] = "g_get"
    /\ seen' = [seen EXCEPT ![t] = first]
    /\ IF first = 0
       THEN NoFirstWaiter(t)
       ELSE Goto(t, "g_lock") /\ UNCHANGED <<rdlocked, task, cur, head, picked>>
    /\ UNCHANGED <<lo, first, ownerVars, mutex, calls>>

(* Owner w, locked by now, is still the first waiter.                      *)
StillFirst(w) == index[w] = first

(* Locks the owner found at the index and reads the list head again; if    *)
(* the head has changed it unlocks the owner and starts over.  The owner's *)
(* mutex is locked before the code tests whether there is an owner.        *)
LockFirstWaiter(t) ==
    /\ mpc[t] = "g_lock"
    /\ LET w == lo[seen[t]]
       IN  IF w = NULL
           THEN /\ Goto(t, "abort")
                /\ UNCHANGED <<rdlocked, mutex, task, seen, cur, head, picked>>
           ELSE IF StillFirst(w)
           THEN /\ Mutexes(t, {w}, {})
                /\ cur' = [cur EXCEPT ![t] = w]
                /\ head' = [head EXCEPT ![t] = w]
                /\ Goto(t, IF task[t] = "wait" THEN "f_walk" ELSE "p_exam")
                /\ UNCHANGED <<rdlocked, task, seen, picked>>
           ELSE /\ mutex[w] = NULL
                /\ seen' = [seen EXCEPT ![t] = first]
                /\ IF first = 0
                   THEN NoFirstWaiter(t)
                   ELSE UNCHANGED <<mpc, rdlocked, task, cur, head, picked>>
                /\ UNCHANGED mutex
    /\ UNCHANGED <<lo, first, ownerVars, calls>>

-----------------------------------------------------------------------------
(* picotm_lock_manager_wake_up.                                            *)

WakeUpCall(t) == index[t] # 0 /\ Begin(t, "k_rdlock", "wake")

WakeUpRdlock(t) ==
    /\ mpc[t] = "k_rdlock"
    /\ Rdlock(t)
    /\ Goto(t, "g_get")
    /\ UNCHANGED <<lo, first, ownerVars, mutex, task, seen, cur, head,
                   picked, calls>>

(* Who is unlocked when thread t picks a better waiter.                    *)
Outpicked(t) == {picked[t]} \ {NULL, head[t]}

(* pick_waiter with compare_longest_waiting: the last sleeping waiter of   *)
(* the list is picked.  It stays locked until a better one is found.       *)
PickExamine(t) ==
    /\ mpc[t] = "p_exam"
    /\ IF wt[cur[t]]
       THEN /\ picked' = [picked EXCEPT ![t] = cur[t]]
            /\ Mutexes(t, {}, Outpicked(t))
       ELSE UNCHANGED <<picked, mutex>>
    /\ Goto(t, "p_next")
    /\ UNCHANGED <<lo, rdlocked, first, ownerVars, task, seen, cur, head,
                   calls>>

(* Mutant: every waiter but the picked one stays locked.                   *)
MutPassed(t) == {}

(* Who is unlocked when thread t goes on to the next waiter.               *)
Passed(t) == {cur[t]} \ {picked[t], head[t]}

PickNext(t) ==
    /\ mpc[t] = "p_next"
    /\ LET n == next[cur[t]]
       IN  IF n = NULL
           THEN /\ Mutexes(t, {}, Passed(t))
                /\ Goto(t, "k_wake")
                /\ UNCHANGED cur
           ELSE /\ Mutexes(t, {n}, Passed(t))
                /\ cur' = [cur EXCEPT ![t] = n]
                /\ Goto(t, "p_exam")
    /\ UNCHANGED <<lo, rdlocked, first, ownerVars, task, seen, head, picked,
                   calls>>

(* Wakes up the picked waiter, clearing its flag.  A reader is followed by *)
(* a second walk that wakes up all readers.                                *)
WakeUpPicked(t) ==
    /\ mpc[t] = "k_wake"
    /\ LET p == picked[t]
       IN  /\ wt' = IF p = NULL THEN wt ELSE [wt EXCEPT ![p] = FALSE]
           /\ IF p # NULL /\ kind[p] = "rd"
              THEN /\ Mutexes(t, {}, {p} \ {head[t]})
                   /\ cur' = [cur EXCEPT ![t] = head[t]]
                   /\ Goto(t, "a_walk")
                   /\ UNCHANGED <<rdlocked, task, seen, head, picked>>
              ELSE /\ Mutexes(t, {}, {p, head[t]} \ {NULL})
                   /\ RdUnlock(t)
                   /\ Leave(t)
    /\ UNCHANGED <<lo, first, index, nextIndex, next, kind, calls>>

WakeUpReaders(t) ==
    /\ mpc[t] = "a_walk"
    /\ wt' = [wt EXCEPT ![cur[t]] = @ /\ kind[cur[t]] # "rd"]
    /\ LET n == next[cur[t]]
       IN  IF n = NULL
           THEN Mutexes(t, {}, {cur[t]}) /\ RdUnlock(t) /\ Leave(t)
           ELSE /\ Mutexes(t, {n}, {cur[t]})
                /\ cur' = [cur EXCEPT ![t] = n]
                /\ UNCHANGED <<mpc, rdlocked, task, seen, head, picked>>
    /\ UNCHANGED <<lo, first, index, nextIndex, next, kind, calls>>

-----------------------------------------------------------------------------
(* A thread's next step inside a call.                                     *)
LMStep(t) ==
    \/ picotm_lock_manager_register_owner(t)
    \/ picotm_lock_manager_unregister_owner(t)
    \/ WaitRdlock(t)
    \/ WaitLockOwner(t)
    \/ lock_and_prepend_waiter(t)
    \/ picotm_lock_owner_wait_until(t)
    \/ RemoveRdlock(t)
    \/ RemoveFromHead(t)
    \/ find_prec_waiter(t)
    \/ RemoveFromPreceding(t)
    \/ GetFirstIndex(t)
    \/ LockFirstWaiter(t)
    \/ WakeUpRdlock(t)
    \/ PickExamine(t)
    \/ PickNext(t)
    \/ WakeUpPicked(t)
    \/ WakeUpReaders(t)

LMNext ==
    \E t \in Threads :
        \/ RegisterCall(t) /\ UNCHANGED calls
        \/ UnregisterCall(t) /\ CountCall(t)
        \/ WaitCall(t) /\ CountCall(t)
        \/ WakeUpCall(t) /\ CountCall(t)
        \/ LMStep(t)

(* A thread that can go on inside the lock manager eventually does: the    *)
(* scheduler runs it, a timed wait always ends, and a mutex that stays     *)
(* free is obtained.  Nobody has to make another call.                     *)
LMFairness == \A t \in Threads : WF_lmVars(LMStep(t))

LMSpec == LMInit /\ [][LMNext]_lmVars /\ LMFairness

-----------------------------------------------------------------------------
(* The threads that are in the list, from the swap that lists them until   *)
(* the step that unlinks them.                                             *)
Listed ==
    {t \in Threads :
        \/ mpc[t] \in {"sleep", "r_rdlock", "r_head", "f_walk", "r_prec"}
        \/ mpc[t] \in {"g_get", "g_lock"} /\ task[t] = "wait"}

(* The owners that a walk from the list head meets: the smallest set with  *)
(* the first waiter and with the next one of each waiter in it.            *)
Reached ==
    {u \in Threads :
        \A S \in SUBSET Threads :
            /\ first # 0 /\ lo[first] # NULL => lo[first] \in S
            /\ \A v \in S : next[v] # NULL => next[v] \in S
            => u \in S}

(* The list of waiters is intact, whatever the interleaving of threads     *)
(* that enter it at the head, leave it anywhere and walk it: a walk meets  *)
(* exactly the listed owners, each once, and link and link index agree.    *)
(* A lost waiter could not leave the list; a head that nobody removes      *)
(* would make the lock refuse everyone for ever.                           *)
ListIsIntact ==
    /\ Reached = Listed
    /\ \A u, v \in Listed : next[u] = next[v] => u = v
    /\ \A u \in Listed :
          IF next[u] = NULL THEN nextIndex[u] = 0
                            ELSE nextIndex[u] = index[next[u]]

(* The assertions of lock_and_prepend_waiter, get_first_waiter,            *)
(* find_prec_waiter, remove_waiter and wake_up do not fail, and no NULL    *)
(* owner is locked: an index read from the list head names an element of   *)
(* the table, a waiter that leaves finds the list non-empty and itself in  *)
(* it, and a picked waiter has announced what it waits for.                *)
NoAssertionFails ==
    \A t \in Threads :
        /\ mpc[t] # "abort"
        /\ mpc[t] \in {"w_cas", "g_lock"} => seen[t] \in DOMAIN lo
        /\ mpc[t] = "k_wake" =>
              picked[t] = NULL \/ kind[picked[t]] # "none"

(* The preceding waiter that find_prec_waiter returns is still the         *)
(* preceding one when remove_waiter uses it.                               *)
PrecedingWaiterIsCurrent ==
    \A t \in Threads : mpc[t] = "r_prec" => next[cur[t]] = t

(* All mutexes are given back, also on the paths where pick_waiter keeps   *)
(* two of them: a thread outside of the lock manager, or asleep, holds     *)
(* none and does not hold lo_rwlock.                                       *)
LocksAreReturned ==
    /\ LMTypeOK
    /\ \A t \in Threads :
          mpc[t] \in {"out", "sleep"} =>
              /\ t \notin rdlocked
              /\ \A u \in Threads : mutex[u] # t

(* LOCK_OWNER_WT is set only while the owner's thread sleeps, so that      *)
(* assert(!(self->flags & LOCK_OWNER_WT)) holds at the next wait and no    *)
(* wake-up is spent on an owner that is leaving.                           *)
OnlySleepersAreWoken == \A t \in Threads : wt[t] => mpc[t] = "sleep"

(* Every call returns: no deadlock between waiters, a waking thread and a  *)
(* registering thread, and the sleep ends also without a wake-up.          *)
EveryCallReturns ==
    \A t \in Threads : mpc[t] # "out" ~> mpc[t] = "out"
=============================================================================
