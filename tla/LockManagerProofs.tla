------------------------- MODULE LockManagerProofs -------------------------
(***************************************************************************)
(* Proofs about the lock manager for every finite set of threads, every    *)
(* width of the list head and both readings of pthread_rwlock_rdlock.      *)
(*                                                                         *)
(* The properties are not inductive.  Who holds which mutex follows from   *)
(* where each thread is and which owners it has reached (HeldBy), and an   *)
(* index read from the list head names an element of the table because     *)
(* the table never shrinks (TableFits).                                    *)
(***************************************************************************)
EXTENDS LockManager, FiniteSetTheorems, WellFoundedInduction, TLAPS

(* The owners whose mutex the thread holds.                                *)
HeldBy(t) ==
    IF mpc[t] \in {"w_cas", "r_rdlock", "r_head"} THEN {t}
    ELSE IF mpc[t] \in {"f_walk", "a_walk"} THEN {cur[t]}
    ELSE IF mpc[t] = "r_prec" THEN {t, cur[t]}
    ELSE IF mpc[t] \in {"p_exam", "p_next"}
    THEN {head[t], cur[t], picked[t]} \ {NULL}
    ELSE IF mpc[t] = "k_wake" THEN {head[t], picked[t]} \ {NULL}
    ELSE {}

(* Where a thread holds lo_rwlock as a reader.                             *)
Reading == {"w_mutex", "w_cas", "r_head", "f_walk", "r_prec", "g_get",
            "g_lock", "p_exam", "p_next", "k_wake", "a_walk"}

(* The table and the registered owners name each other.                    *)
TableFits ==
    /\ \A t \in Threads :
          index[t] # 0 => index[t] \in DOMAIN lo /\ lo[index[t]] = t
    /\ \A i \in DOMAIN lo : lo[i] # NULL => i # 0 /\ index[lo[i]] = i
    /\ first = 0 \/ first \in DOMAIN lo

(* Which locks the thread holds.                                           *)
LocksFit(t) ==
    mpc[t] # "abort" =>
        /\ t \in rdlocked <=> mpc[t] \in Reading
        /\ \A u \in Threads : mutex[u] = t <=> u \in HeldBy(t)

(* Where a thread waits, but for the search of the first waiter.           *)
Waiting == {"w_rdlock", "w_mutex", "w_cas", "sleep", "r_rdlock", "r_head",
            "f_walk", "r_prec"}

(* What the thread's place says of its owner and of its local variables.   *)
PlaceFits(t) ==
    /\ mpc[t] = "register" => index[t] = 0
    /\ mpc[t] \notin {"out", "register"} => index[t] # 0
    /\ seen[t] = 0 \/ seen[t] \in DOMAIN lo
    /\ nextIndex[t] = 0 \/ nextIndex[t] \in DOMAIN lo
    /\ mpc[t] \in {"f_walk", "r_prec", "p_exam", "p_next", "a_walk"}
          => cur[t] # NULL
    /\ mpc[t] \in {"p_exam", "p_next", "k_wake"} => head[t] # NULL
    /\ mpc[t] \in {"g_get", "g_lock"} /\ task[t] = "wake"
          => picked[t] = NULL
    /\ mpc[t] = "k_rdlock" => picked[t] = NULL /\ task[t] = "wake"
    /\ mpc[t] \in Waiting => task[t] = "wait"
    /\ mpc[t] \in {"g_get", "g_lock"} => task[t] # "none"
    /\ mpc[t] \in {"out", "register", "unregister"}
          => picked[t] = NULL /\ task[t] = "none"
    /\ mpc[t] = "p_exam" => picked[t] # cur[t]
    /\ mpc[t] = "r_prec" => cur[t] # t /\ next[cur[t]] = t
    /\ wt[t] => mpc[t] = "sleep"

LockManagerInv ==
    /\ LMTypeOK
    /\ TableFits
    /\ \A t \in Threads : LocksFit(t) /\ PlaceFits(t)

-----------------------------------------------------------------------------
(* What a step of thread t leaves alone.  It writes links and kinds only   *)
(* of owners whose mutex it holds.                                         *)
StepOf(t) ==
    /\ \A v \in Threads \ {t} :
          /\ mpc'[v] = mpc[v] /\ task'[v] = task[v] /\ seen'[v] = seen[v]
          /\ cur'[v] = cur[v] /\ head'[v] = head[v] /\ picked'[v] = picked[v]
          /\ index'[v] = index[v] /\ (wt'[v] => wt[v])
          /\ v \in rdlocked' <=> v \in rdlocked
          /\ \A u \in Threads : mutex'[u] = v <=> mutex[u] = v
          /\ nextIndex'[v] \in {0, nextIndex[v]} \cup DOMAIN lo'
    /\ \A u \in Threads :
          next'[u] # next[u] \/ kind'[u] # kind[u] => mutex[u] = t
    /\ \A v \in Threads \ {t} : kind'[v] = kind[v]
    /\ DOMAIN lo \subseteq DOMAIN lo'

(* The field of the list head keeps a small index and cuts a larger one.   *)
LEMMA IndexBits ==
    ASSUME NEW i \in Nat
    PROVE  /\ rw_index_bits(i) \in 0 .. MAX_INDEX
           /\ rw_index_bits(i) <= i
           /\ i <= MAX_INDEX => rw_index_bits(i) = i
  BY ListHeadAssumption DEF rw_index_bits

(* No owner and every owner may be named by a pointer.                     *)
LEMMA NullOwner == NULL \in Owner /\ Threads \subseteq Owner
  BY DEF Owner

(* The indices of the table run from 0 to the number of threads at most.   *)
LEMMA TableDomain ==
    ASSUME LMTypeOK
    PROVE  /\ Cardinality(Threads) \in Nat
           /\ DOMAIN lo \subseteq 0 .. Cardinality(Threads)
           /\ 0 \in DOMAIN lo <=> DOMAIN lo # {}
           /\ lo \in [DOMAIN lo -> Owner]
  <1>1. Cardinality(Threads) \in Nat
    BY FS_CardinalityType, OwnersAssumption
  <1>2. PICK n \in 0 .. Cardinality(Threads) + 1 : lo \in [0 .. n - 1 -> Owner]
    BY DEF LMTypeOK
  <1>3. DOMAIN lo = 0 .. n - 1 /\ n \in Nat
    BY <1>1, <1>2
  <1>4. DOMAIN lo \subseteq 0 .. Cardinality(Threads)
    BY <1>1, <1>2, <1>3
  <1>5. 0 \in DOMAIN lo <=> DOMAIN lo # {}
    BY <1>3
  <1> QED  BY <1>1, <1>2, <1>3, <1>4, <1>5

(* What is left of a thread's local variables after its call.              *)
LEMMA LeaveFacts ==
    ASSUME LMTypeOK, NEW t \in Threads, Leave(t)
    PROVE  /\ mpc' \in [Threads -> MPCs]
           /\ task' \in [Threads -> {"none", "wait", "wake"}]
           /\ seen' \in [Threads -> 0 .. MAX_INDEX]
           /\ cur' \in [Threads -> Owner]
           /\ head' \in [Threads -> Owner]
           /\ picked' \in [Threads -> Owner]
           /\ mpc'[t] = "out" /\ task'[t] = "none" /\ seen'[t] = 0
           /\ picked'[t] = NULL
           /\ \A v \in Threads \ {t} :
                 /\ mpc'[v] = mpc[v] /\ task'[v] = task[v]
                 /\ seen'[v] = seen[v] /\ cur'[v] = cur[v]
                 /\ head'[v] = head[v] /\ picked'[v] = picked[v]
  BY NullOwner, ListHeadAssumption DEF LMTypeOK, MPCs, Leave, Goto

(* A step of one thread leaves what is known of the others.                *)
LEMMA OthersFit ==
    ASSUME LockManagerInv, NEW t \in Threads, StepOf(t), DOMAIN next = Threads,
           NEW v \in Threads \ {t}
    PROVE  LocksFit(v)' /\ PlaceFits(v)'
  <1>1. /\ mpc'[v] = mpc[v] /\ task'[v] = task[v] /\ seen'[v] = seen[v]
        /\ cur'[v] = cur[v] /\ head'[v] = head[v] /\ picked'[v] = picked[v]
        /\ index'[v] = index[v] /\ (wt'[v] => wt[v])
        /\ v \in rdlocked' <=> v \in rdlocked
        /\ \A u \in Threads : mutex'[u] = v <=> mutex[u] = v
        /\ nextIndex'[v] \in {0, nextIndex[v]} \cup DOMAIN lo'
        /\ DOMAIN lo \subseteq DOMAIN lo'
    BY DEF StepOf
  <1>2. LocksFit(v) /\ PlaceFits(v)
    BY DEF LockManagerInv
  <1>3. LocksFit(v)'
    BY <1>1, <1>2 DEF LocksFit, HeldBy
  <1>4. mpc[v] = "r_prec" => next'[cur[v]] = next[cur[v]]
    <2>. SUFFICES ASSUME mpc[v] = "r_prec" PROVE next'[cur[v]] = next[cur[v]]
      OBVIOUS
    <2>1. cur[v] \in Threads
      BY <1>2 DEF LockManagerInv, LMTypeOK, PlaceFits, Owner
    <2>2. mutex[cur[v]] = v
      BY <1>2, <2>1 DEF LocksFit, HeldBy
    <2> QED  BY <2>1, <2>2 DEF StepOf
  <1>5. PlaceFits(v)'
    BY <1>1, <1>2, <1>4 DEF PlaceFits, Waiting
  <1> QED  BY <1>3, <1>5

(* What a step has to show, and the table when no owner comes or goes.     *)
LEMMA StepFits ==
    ASSUME LockManagerInv, NEW t \in Threads, StepOf(t), LMTypeOK',
           TableFits', LocksFit(t)', PlaceFits(t)'
    PROVE  LockManagerInv' /\ StepOf(t)
  <1>1. \A v \in Threads \ {t} : LocksFit(v)' /\ PlaceFits(v)'
    BY OthersFit DEF LockManagerInv, LMTypeOK
  <1> QED  BY <1>1 DEF LockManagerInv

\* What leaves the owner table and the indices alone keeps the table in
\* order, with the list head on 0, on its old value or on an index of the
\* table.
LEMMA TableStays ==
    ASSUME TableFits, UNCHANGED <<lo, index>>,
           first' \in {0, first} \cup DOMAIN lo
    PROVE  TableFits'
  BY DEF TableFits

-----------------------------------------------------------------------------
(* The steps of a program that uses the lock manager.  It may count its    *)
(* calls as it likes: module RWLockSystem counts the lock operations that  *)
(* they are part of.                                                       *)
CallsCounted == UNCHANGED calls \/ \E t \in Threads : CountCall(t)

LMCall(t) ==
    /\ RegisterCall(t) \/ UnregisterCall(t) \/ WaitCall(t) \/ WakeUpCall(t)
    /\ CallsCounted

Elsewhere ==
    /\ UNCHANGED <<lo, rdlocked, first, ownerVars, mutex, localVars>>
    /\ CallsCounted

ProgramNext == Elsewhere \/ \E t \in Threads : LMCall(t) \/ LMStep(t)

\* The lock manager by itself is such a program.
LEMMA ManagerIsProgram == [LMNext]_lmVars => ProgramNext
  BY DEF LMNext, lmVars, ProgramNext, Elsewhere, LMCall, CallsCounted

\* The number of calls stays within its bound.
LEMMA CallsStayTyped ==
    ASSUME LMTypeOK, CallsCounted
    PROVE  calls' \in [Threads -> 0 .. MAX_CALLS]
  <1>1. calls \in [Threads -> 0 .. MAX_CALLS]
    BY DEF LMTypeOK
  <1>2. ASSUME NEW t \in Threads, CountCall(t)
        PROVE  calls' \in [Threads -> 0 .. MAX_CALLS]
    <2>1. calls[t] + 1 \in 0 .. MAX_CALLS
      BY <1>1, <1>2, CallsAssumption DEF CountCall
    <2> QED  BY <1>1, <1>2, <2>1 DEF CountCall
  <1> QED  BY <1>1, <1>2 DEF CallsCounted

\* A call that begins holds nothing yet.
LEMMA CallFits ==
    ASSUME LockManagerInv, NEW t \in Threads, LMCall(t)
    PROVE  LockManagerInv' /\ StepOf(t)
  <1>0. LMTypeOK /\ TableFits /\ LocksFit(t) /\ PlaceFits(t)
    BY DEF LockManagerInv
  <1>1. PICK l \in {"register", "unregister", "w_rdlock", "k_rdlock"},
             tsk \in {"none", "wait", "wake"} :
           /\ Begin(t, l, tsk)
           /\ l = "register" <=> index[t] = 0
           /\ l \in {"register", "unregister"} => tsk = "none"
           /\ l = "w_rdlock" => tsk = "wait"
           /\ l = "k_rdlock" => tsk = "wake"
    BY DEF LMCall, RegisterCall, UnregisterCall, WaitCall, WakeUpCall
  <1>2. calls' \in [Threads -> 0 .. MAX_CALLS]
    BY <1>0, CallsStayTyped DEF LMCall
  <1>3. LMTypeOK'
    BY <1>0, <1>1, <1>2 DEF LMTypeOK, Begin, Goto, MPCs, ownerVars
  <1>4. /\ mpc[t] = "out" /\ mpc'[t] = l /\ task'[t] = tsk
        /\ UNCHANGED <<lo, rdlocked, first, index, nextIndex, next, wt, kind,
                       mutex, seen, cur, head, picked>>
    BY <1>0, <1>1 DEF Begin, Goto, LMTypeOK, ownerVars
  <1>5. StepOf(t)
    BY <1>0, <1>1, <1>4 DEF StepOf, LMTypeOK, Begin, Goto
  <1>6. TableFits'
    BY <1>0, <1>4, TableStays
  <1>7. LocksFit(t)'
    BY <1>0, <1>4 DEF LocksFit, HeldBy, Reading
  <1>8. PlaceFits(t)'
    BY <1>0, <1>1, <1>4 DEF PlaceFits, Waiting
  <1> QED  BY <1>3, <1>5, <1>6, <1>7, <1>8, StepFits

\* Each of the three operations begins with lo_rwlock for reading.
LEMMA WaitRdlockFits ==
    ASSUME LockManagerInv, NEW t \in Threads,
           \/ WaitRdlock(t)
           \/ RemoveRdlock(t)
           \/ WakeUpRdlock(t)
    PROVE  LockManagerInv' /\ StepOf(t)
  <1>0. LMTypeOK /\ TableFits /\ LocksFit(t) /\ PlaceFits(t)
    BY DEF LockManagerInv
  <1>1. PICK l \in {"w_mutex", "r_head", "g_get"} :
           /\ mpc' = [mpc EXCEPT ![t] = l]
           /\ mpc[t] = CASE l = "w_mutex" -> "w_rdlock"
                         [] l = "r_head" -> "r_rdlock"
                         [] l = "g_get" -> "k_rdlock"
    BY DEF WaitRdlock, RemoveRdlock, WakeUpRdlock, Goto
  <1>2. /\ rdlocked' = rdlocked \cup {t}
        /\ UNCHANGED <<lo, first, index, nextIndex, next, wt, kind, mutex,
                       task, seen, cur, head, picked, calls>>
    BY DEF WaitRdlock, RemoveRdlock, WakeUpRdlock, Rdlock, ownerVars
  <1>3. LMTypeOK'
    BY <1>0, <1>1, <1>2 DEF LMTypeOK, MPCs
  <1>4. StepOf(t)
    BY <1>0, <1>1, <1>2 DEF StepOf, LMTypeOK
  <1>5. TableFits'
    BY <1>0, <1>2, TableStays
  <1>6. mpc'[t] = l
    BY <1>0, <1>1 DEF LMTypeOK
  <1>7. LocksFit(t)'
    BY <1>0, <1>1, <1>2, <1>6 DEF LocksFit, HeldBy, Reading
  <1>8. PlaceFits(t)'
    BY <1>0, <1>1, <1>2, <1>6 DEF PlaceFits, Waiting
  <1> QED  BY <1>3, <1>4, <1>5, <1>7, <1>8, StepFits

-----------------------------------------------------------------------------
(* Entering the list and sleeping.                                         *)
LEMMA WaitLockOwnerFits ==
    ASSUME LockManagerInv, NEW t \in Threads, WaitLockOwner(t)
    PROVE  LockManagerInv' /\ StepOf(t)
  <1>0. LMTypeOK /\ TableFits /\ LocksFit(t) /\ PlaceFits(t)
    BY DEF LockManagerInv
  <1>1. /\ mpc[t] = "w_mutex"
        /\ mpc' = [mpc EXCEPT ![t] = "w_cas"]
        /\ seen' = [seen EXCEPT ![t] = first]
        /\ UNCHANGED <<lo, rdlocked, first, index, nextIndex, next, wt, kind,
                       task, cur, head, picked, calls>>
    BY DEF WaitLockOwner, Goto, ownerVars
  <1>2. /\ mutex' \in [Threads -> Owner]
        /\ \A v \in Threads \ {t}, u \in Threads :
              mutex'[u] = v <=> mutex[u] = v
        /\ \A u \in Threads : mutex'[u] = t <=> u \in {t} \/ mutex[u] = t
    <2>1. Mutexes(t, {t}, {})
      BY DEF WaitLockOwner
    <2> QED  BY <1>0, <2>1, NullAssumption DEF LMTypeOK, Mutexes, Owner
  <1>3. LMTypeOK'
    BY <1>0, <1>1, <1>2 DEF LMTypeOK, MPCs
  <1>4. StepOf(t)
    BY <1>0, <1>1, <1>2 DEF StepOf, LMTypeOK
  <1>5. TableFits'
    BY <1>0, <1>1, TableStays
  <1>6. mpc'[t] = "w_cas" /\ seen'[t] = first
    BY <1>0, <1>1 DEF LMTypeOK
  <1>7. LocksFit(t)'
    BY <1>0, <1>1, <1>2, <1>6 DEF LocksFit, HeldBy, Reading
  <1>8. PlaceFits(t)'
    BY <1>0, <1>1, <1>6 DEF PlaceFits, TableFits, Waiting
  <1> QED  BY <1>3, <1>4, <1>5, <1>7, <1>8, StepFits

\* The swap of lock_and_prepend_waiter keeps the head on an index of the
\* table, whether it fails or not.
LEMMA PrependFits ==
    ASSUME LockManagerInv, NEW t \in Threads, lock_and_prepend_waiter(t)
    PROVE  LockManagerInv' /\ StepOf(t)
  <1>0. LMTypeOK /\ TableFits /\ LocksFit(t) /\ PlaceFits(t)
    BY DEF LockManagerInv
  <1>1. /\ mpc[t] = "w_cas"
        /\ nextIndex' = [nextIndex EXCEPT ![t] = seen[t]]
        /\ next' = [next EXCEPT ![t] = lo[seen[t]]]
        /\ UNCHANGED <<lo, index, task, cur, head, picked, calls>>
    BY DEF lock_and_prepend_waiter
  <1>2. index[t] \in DOMAIN lo /\ seen[t] \in DOMAIN lo /\ mutex[t] = t
        /\ DOMAIN lo \subseteq 0 .. Cardinality(Threads)
    <2>1. index[t] \in DOMAIN lo /\ index[t] # 0
      BY <1>0, <1>1 DEF PlaceFits, TableFits, Waiting
    <2>2. DOMAIN lo \subseteq 0 .. Cardinality(Threads)
          /\ (0 \in DOMAIN lo <=> DOMAIN lo # {})
      BY <1>0, TableDomain
    <2> QED  BY <1>0, <1>1, <2>1, <2>2 DEF PlaceFits, LocksFit, HeldBy
  <1>3. lo[seen[t]] \in Owner
    BY <1>0, <1>2 DEF LMTypeOK
  <1>4. CASE first = seen[t]
    <2>1. /\ first' = rw_index_bits(index[t])
          /\ kind' = [kind EXCEPT ![t] = IF t \in Writers THEN "wr"
                                                         ELSE "rd"]
          /\ wt' = [wt EXCEPT ![t] = TRUE]
          /\ mpc' = [mpc EXCEPT ![t] = "sleep"]
          /\ rdlocked' = rdlocked \ {t}
          /\ seen' = seen
      BY <1>4 DEF lock_and_prepend_waiter, Goto, RdUnlock
    <2>2. /\ mutex' \in [Threads -> Owner]
          /\ \A v \in Threads \ {t}, u \in Threads :
                mutex'[u] = v <=> mutex[u] = v
          /\ \A u \in Threads : mutex'[u] = t <=> mutex[u] = t /\ u # t
      <3>1. Mutexes(t, {}, {t})
        BY <1>4 DEF lock_and_prepend_waiter
      <3> QED  BY <1>0, <1>2, <3>1, NullAssumption DEF LMTypeOK, Mutexes, Owner
    <2>3. first' \in DOMAIN lo /\ first' \in 0 .. MAX_INDEX
      BY <1>0, <1>2, <2>1, IndexBits DEF LMTypeOK
    <2>4. LMTypeOK'
      <3>1. kind' \in [Threads -> {"none", "rd", "wr"}]
        BY <1>0, <2>1 DEF LMTypeOK
      <3> QED  BY <1>0, <1>1, <1>2, <1>3, <2>1, <2>2, <2>3, <3>1
               DEF LMTypeOK, MPCs
    <2>5. StepOf(t)
      <3>1. \A v \in Threads \ {t} : kind'[v] = kind[v]
        BY <1>0, <2>1 DEF LMTypeOK
      <3> QED  BY <1>0, <1>1, <1>2, <2>1, <2>2, <3>1 DEF StepOf, LMTypeOK
    <2>6. TableFits'
      BY <1>0, <1>1, <2>3, TableStays
    <2>7. mpc'[t] = "sleep" /\ nextIndex'[t] = seen[t]
      BY <1>0, <1>1, <2>1 DEF LMTypeOK
    <2>8. LocksFit(t)'
      BY <1>0, <1>1, <2>1, <2>2, <2>7 DEF LocksFit, HeldBy, Reading
    <2>9. PlaceFits(t)'
      BY <1>0, <1>1, <2>1, <2>7 DEF PlaceFits, Waiting
    <2> QED  BY <2>4, <2>5, <2>6, <2>8, <2>9, StepFits
  <1>5. CASE first # seen[t]
    <2>1. /\ seen' = [seen EXCEPT ![t] = first]
          /\ UNCHANGED <<first, kind, wt, mpc, rdlocked, mutex>>
      BY <1>5 DEF lock_and_prepend_waiter
    <2>4. LMTypeOK'
      BY <1>0, <1>1, <1>2, <1>3, <2>1 DEF LMTypeOK
    <2>5. StepOf(t)
      BY <1>0, <1>1, <1>2, <2>1 DEF StepOf, LMTypeOK
    <2>6. TableFits'
      BY <1>0, <1>1, <2>1, TableStays
    <2>7. seen'[t] = first /\ nextIndex'[t] = seen[t]
      BY <1>0, <1>1, <2>1 DEF LMTypeOK
    <2>8. LocksFit(t)'
      BY <1>0, <1>1, <2>1 DEF LocksFit, HeldBy
    <2>9. PlaceFits(t)'
      BY <1>0, <1>1, <2>1, <2>7 DEF PlaceFits, TableFits, Waiting
    <2> QED  BY <2>4, <2>5, <2>6, <2>8, <2>9, StepFits
  <1> QED  BY <1>4, <1>5

\* The sleeper comes back with its mutex, woken up or not, and without
\* lo_rwlock.
LEMMA WaitUntilFits ==
    ASSUME LockManagerInv, NEW t \in Threads, picotm_lock_owner_wait_until(t)
    PROVE  LockManagerInv' /\ StepOf(t)
  <1>0. LMTypeOK /\ TableFits /\ LocksFit(t) /\ PlaceFits(t)
    BY DEF LockManagerInv
  <1>1. /\ mpc[t] = "sleep"
        /\ mpc' = [mpc EXCEPT ![t] = "r_rdlock"]
        /\ wt' = [wt EXCEPT ![t] = FALSE]
        /\ UNCHANGED <<lo, rdlocked, first, index, nextIndex, next, kind,
                       task, seen, cur, head, picked, calls>>
    BY DEF picotm_lock_owner_wait_until, Goto
  <1>2. /\ mutex' \in [Threads -> Owner]
        /\ \A v \in Threads \ {t}, u \in Threads :
              mutex'[u] = v <=> mutex[u] = v
        /\ \A u \in Threads : mutex'[u] = t <=> u = t \/ mutex[u] = t
    <2>1. Mutexes(t, {t}, {})
      BY DEF picotm_lock_owner_wait_until
    <2> QED  BY <1>0, <2>1, NullAssumption DEF LMTypeOK, Mutexes, Owner
  <1>3. LMTypeOK'
    BY <1>0, <1>1, <1>2 DEF LMTypeOK, MPCs
  <1>4. StepOf(t)
    BY <1>0, <1>1, <1>2 DEF StepOf, LMTypeOK
  <1>5. TableFits'
    BY <1>0, <1>1, TableStays
  <1>6. mpc'[t] = "r_rdlock" /\ ~wt'[t]
    BY <1>0, <1>1 DEF LMTypeOK
  <1>7. LocksFit(t)'
    BY <1>0, <1>1, <1>2, <1>6 DEF LocksFit, HeldBy, Reading
  <1>8. PlaceFits(t)'
    BY <1>0, <1>1, <1>6 DEF PlaceFits, Waiting
  <1> QED  BY <1>3, <1>4, <1>5, <1>7, <1>8, StepFits

-----------------------------------------------------------------------------
(* Leaving the list.                                                       *)
LEMMA RemoveFromHeadFits ==
    ASSUME LockManagerInv, NEW t \in Threads, RemoveFromHead(t)
    PROVE  LockManagerInv' /\ StepOf(t)
  <1>0. LMTypeOK /\ TableFits /\ LocksFit(t) /\ PlaceFits(t)
    BY DEF LockManagerInv
  <1>1. /\ mpc[t] = "r_head"
        /\ UNCHANGED <<lo, index, nextIndex, next, wt, calls>>
    BY DEF RemoveFromHead
  <1>2. mutex[t] = t
    BY <1>0, <1>1 DEF LocksFit, HeldBy
  <1>3. /\ mutex' \in [Threads -> Owner]
        /\ \A v \in Threads \ {t}, u \in Threads :
              mutex'[u] = v <=> mutex[u] = v
        /\ \A u \in Threads : mutex'[u] = t <=> mutex[u] = t /\ u # t
    <2>1. Mutexes(t, {}, {t})
      BY DEF RemoveFromHead, WaitReturns
    <2> QED  BY <1>0, <1>2, <2>1, NullAssumption
             DEF LMTypeOK, Mutexes, Owner
  <1>4. CASE first = index[t]
    <2>1. /\ first' = rw_index_bits(nextIndex[t])
          /\ kind' = [kind EXCEPT ![t] = "none"]
          /\ rdlocked' = rdlocked \ {t}
          /\ mpc' = [mpc EXCEPT ![t] = "out"]
          /\ task' = [task EXCEPT ![t] = "none"]
          /\ seen' = [seen EXCEPT ![t] = 0]
          /\ cur' = [cur EXCEPT ![t] = NULL]
          /\ head' = [head EXCEPT ![t] = NULL]
          /\ picked' = [picked EXCEPT ![t] = NULL]
      BY <1>4 DEF RemoveFromHead, WaitReturns, RdUnlock, Leave, Goto
    <2>2. first' \in {0} \cup DOMAIN lo /\ first' \in 0 .. MAX_INDEX
      <3>1. nextIndex[t] \in 0 .. Cardinality(Threads)
        BY <1>0 DEF LMTypeOK
      <3>2. nextIndex[t] = 0 \/ nextIndex[t] \in DOMAIN lo
        BY <1>0 DEF PlaceFits, Waiting
      <3>3. PICK n \in 0 .. Cardinality(Threads) + 1 :
                lo \in [0 .. n - 1 -> Owner]
        BY <1>0 DEF LMTypeOK
      <3>4. nextIndex[t] \in Nat /\ DOMAIN lo = 0 .. n - 1
        BY <1>0, <3>1, <3>3, TableDomain
      <3> QED  BY <2>1, <3>2, <3>4, IndexBits
    <2>3. LMTypeOK'
      BY <1>0, <1>1, <1>3, <2>1, <2>2, NullOwner,
         ListHeadAssumption DEF LMTypeOK, MPCs
    <2>4. StepOf(t)
      <3>1. \A v \in Threads \ {t} : kind'[v] = kind[v]
        BY <1>0, <2>1 DEF LMTypeOK
      <3> QED  BY <1>0, <1>1, <1>2, <1>3, <2>1, <3>1 DEF StepOf, LMTypeOK
    <2>5. TableFits'
      BY <1>0, <1>1, <2>2, TableStays
    <2>6. /\ mpc'[t] = "out" /\ task'[t] = "none" /\ seen'[t] = 0
          /\ picked'[t] = NULL
      BY <1>0, <2>1 DEF LMTypeOK
    <2>7. LocksFit(t)'
      BY <1>0, <1>1, <1>3, <2>1, <2>6 DEF LocksFit, HeldBy, Reading
    <2>8. PlaceFits(t)'
      BY <1>0, <1>1, <2>6 DEF PlaceFits, Waiting
    <2> QED  BY <2>3, <2>4, <2>5, <2>7, <2>8, StepFits
  <1>5. CASE first # index[t]
    <2>1. /\ mpc' = [mpc EXCEPT ![t] = "g_get"]
          /\ UNCHANGED <<first, kind, rdlocked, task, seen, cur, head, picked>>
      BY <1>5 DEF RemoveFromHead, Goto
    <2>3. LMTypeOK'
      BY <1>0, <1>1, <1>3, <2>1 DEF LMTypeOK, MPCs
    <2>4. StepOf(t)
      BY <1>0, <1>1, <1>3, <2>1 DEF StepOf, LMTypeOK
    <2>5. TableFits'
      BY <1>0, <1>1, <2>1, TableStays
    <2>6. mpc'[t] = "g_get" /\ task'[t] = task[t]
      BY <1>0, <2>1 DEF LMTypeOK
    <2>7. LocksFit(t)'
      BY <1>0, <1>1, <1>3, <2>1, <2>6 DEF LocksFit, HeldBy, Reading
    <2>8. PlaceFits(t)'
      BY <1>0, <1>1, <2>1, <2>6 DEF PlaceFits, Waiting
    <2> QED  BY <2>3, <2>4, <2>5, <2>7, <2>8, StepFits
  <1> QED  BY <1>4, <1>5

\* find_prec_waiter locks hand over hand: one mutex given for the next.
LEMMA FindPrecFits ==
    ASSUME LockManagerInv, NEW t \in Threads, find_prec_waiter(t)
    PROVE  LockManagerInv' /\ StepOf(t)
  <1>0. LMTypeOK /\ TableFits /\ LocksFit(t) /\ PlaceFits(t)
    BY DEF LockManagerInv
  <1> DEFINE c == cur[t]
             n == next[c]
  <1>1. /\ mpc[t] = "f_walk"
        /\ UNCHANGED <<lo, rdlocked, first, index, nextIndex, next, wt, kind,
                       task, seen, head, picked, calls>>
    BY DEF find_prec_waiter, ownerVars
  <1>2. c \in Threads /\ n \in Owner /\ \A u \in Threads : mutex[u] = t <=> u = c
    BY <1>0, <1>1 DEF LMTypeOK, PlaceFits, LocksFit, HeldBy, Owner
  <1>3. TableFits'
    BY <1>0, <1>1, TableStays
  <1> HIDE DEF c, n
  <1>4. CASE c = t \/ n = NULL
    <2>1. PICK l \in {"r_head", "abort"} :
             /\ mpc' = [mpc EXCEPT ![t] = l]
             /\ l = "r_head" => c = t
             /\ UNCHANGED <<mutex, cur>>
      BY <1>4 DEF find_prec_waiter, Goto, c, n
    <2>2. mpc'[t] = l
      BY <1>0, <2>1 DEF LMTypeOK
    <2>3. LMTypeOK'
      BY <1>0, <1>1, <2>1 DEF LMTypeOK, MPCs
    <2>4. StepOf(t)
      BY <1>0, <1>1, <2>1 DEF StepOf, LMTypeOK
    <2>5. LocksFit(t)'
      BY <1>0, <1>1, <1>2, <2>1, <2>2 DEF LocksFit, HeldBy, Reading
    <2>6. PlaceFits(t)'
      BY <1>0, <1>1, <2>1, <2>2 DEF PlaceFits, Waiting
    <2> QED  BY <1>3, <2>3, <2>4, <2>5, <2>6, StepFits
  <1>5. CASE c # t /\ n = t
    <2>1. /\ mpc' = [mpc EXCEPT ![t] = "r_prec"]
          /\ cur' = cur
      BY <1>5, NullAssumption DEF find_prec_waiter, Goto, c, n
    <2>2. /\ mutex' \in [Threads -> Owner]
          /\ \A v \in Threads \ {t}, u \in Threads :
                mutex'[u] = v <=> mutex[u] = v
          /\ \A u \in Threads : mutex'[u] = t <=> u = t \/ mutex[u] = t
      <3>1. Mutexes(t, {t}, {})
        BY <1>5, NullAssumption DEF find_prec_waiter, c, n
      <3> QED  BY <1>0, <3>1, NullAssumption DEF LMTypeOK, Mutexes, Owner
    <2>3. mpc'[t] = "r_prec" /\ cur'[t] = c /\ next'[c] = t
      BY <1>0, <1>1, <1>5, <2>1 DEF LMTypeOK, c, n
    <2>4. LMTypeOK'
      BY <1>0, <1>1, <2>1, <2>2 DEF LMTypeOK, MPCs
    <2>5. StepOf(t)
      BY <1>0, <1>1, <2>1, <2>2 DEF StepOf, LMTypeOK
    <2>6. LocksFit(t)'
      BY <1>0, <1>1, <1>2, <2>1, <2>2, <2>3 DEF LocksFit, HeldBy, Reading
    <2>7. PlaceFits(t)'
      BY <1>0, <1>1, <1>2, <1>5, <2>3, NullAssumption DEF PlaceFits, Waiting
    <2> QED  BY <1>3, <2>4, <2>5, <2>6, <2>7, StepFits
  <1>6. CASE c # t /\ n # NULL /\ n # t
    <2>1. /\ mpc' = mpc
          /\ cur' = [cur EXCEPT ![t] = n]
      BY <1>6 DEF find_prec_waiter, c, n
    <2>2. /\ mutex' \in [Threads -> Owner]
          /\ \A v \in Threads \ {t}, u \in Threads :
                mutex'[u] = v <=> mutex[u] = v
          /\ \A u \in Threads :
                mutex'[u] = t <=> u = n \/ (mutex[u] = t /\ u # c)
      <3>1. Mutexes(t, {n}, {c})
        BY <1>6 DEF find_prec_waiter, c, n
      <3> QED  BY <1>0, <1>2, <1>6, <3>1, NullAssumption
               DEF LMTypeOK, Mutexes, Owner
    <2>3. mpc'[t] = "f_walk" /\ cur'[t] = n
      BY <1>0, <1>1, <2>1 DEF LMTypeOK
    <2>4. LMTypeOK'
      BY <1>0, <1>1, <1>2, <2>1, <2>2 DEF LMTypeOK
    <2>5. StepOf(t)
      BY <1>0, <1>1, <2>1, <2>2 DEF StepOf, LMTypeOK
    <2>6. LocksFit(t)'
      BY <1>0, <1>1, <1>2, <2>1, <2>2, <2>3 DEF LocksFit, HeldBy, Reading
    <2>7. PlaceFits(t)'
      BY <1>0, <1>1, <1>6, <2>3 DEF PlaceFits, Waiting
    <2> QED  BY <1>3, <2>4, <2>5, <2>6, <2>7, StepFits
  <1> QED  BY <1>4, <1>5, <1>6

\* The waiter that leaves the middle of the list gives back its own mutex,
\* that of its predecessor and lo_rwlock.
LEMMA RemoveFromPrecedingFits ==
    ASSUME LockManagerInv, NEW t \in Threads, RemoveFromPreceding(t)
    PROVE  LockManagerInv' /\ StepOf(t)
  <1>0. LMTypeOK /\ TableFits /\ LocksFit(t) /\ PlaceFits(t)
    BY DEF LockManagerInv
  <1> DEFINE c == cur[t]
  <1>1. /\ mpc[t] = "r_prec"
        /\ UNCHANGED <<lo, first, index, wt, calls>>
    BY DEF RemoveFromPreceding
  <1>2. /\ c \in Threads \ {t} /\ next[c] = t
        /\ \A u \in Threads : mutex[u] = t <=> u \in {t, c}
    BY <1>0, <1>1 DEF LMTypeOK, PlaceFits, LocksFit, HeldBy, Owner
  <1>3. /\ nextIndex' = [nextIndex EXCEPT ![c] = nextIndex[t]]
        /\ next' = [next EXCEPT ![c] = next[t]]
        /\ kind' = [kind EXCEPT ![t] = "none"]
        /\ rdlocked' = rdlocked \ {t}
        /\ mpc' = [mpc EXCEPT ![t] = "out"]
        /\ task' = [task EXCEPT ![t] = "none"]
        /\ seen' = [seen EXCEPT ![t] = 0]
        /\ cur' = [cur EXCEPT ![t] = NULL]
        /\ head' = [head EXCEPT ![t] = NULL]
        /\ picked' = [picked EXCEPT ![t] = NULL]
    BY <1>2 DEF RemoveFromPreceding, WaitReturns, RdUnlock, Leave, Goto
  <1>4. /\ mutex' \in [Threads -> Owner]
        /\ \A v \in Threads \ {t}, u \in Threads :
              mutex'[u] = v <=> mutex[u] = v
        /\ \A u \in Threads : mutex'[u] # t
    <2>1. Mutexes(t, {}, {c} \cup {t})
      BY <1>2 DEF RemoveFromPreceding, WaitReturns
    <2> QED  BY <1>0, <1>2, <2>1, NullAssumption
             DEF LMTypeOK, Mutexes, Owner
  <1> HIDE DEF c
  <1>5. LMTypeOK'
    <2>1. /\ nextIndex' \in [Threads -> 0 .. Cardinality(Threads)]
          /\ next' \in [Threads -> Owner]
          /\ kind' \in [Threads -> {"none", "rd", "wr"}]
          /\ mpc' \in [Threads -> MPCs]
          /\ task' \in [Threads -> {"none", "wait", "wake"}]
      BY <1>0, <1>2, <1>3 DEF LMTypeOK, MPCs
    <2>2. /\ seen' \in [Threads -> 0 .. MAX_INDEX]
          /\ cur' \in [Threads -> Owner]
          /\ head' \in [Threads -> Owner]
          /\ picked' \in [Threads -> Owner]
      BY <1>0, <1>3, NullOwner, ListHeadAssumption DEF LMTypeOK
    <2> QED  BY <1>0, <1>1, <1>3, <1>4, <2>1, <2>2 DEF LMTypeOK
  <1>6. StepOf(t)
    <2>1. \A v \in Threads : nextIndex'[v] \in {0, nextIndex[v]} \cup DOMAIN lo'
      BY <1>0, <1>1, <1>2, <1>3 DEF LMTypeOK, PlaceFits
    <2>2. \A u \in Threads : next'[u] # next[u] => mutex[u] = t
      BY <1>0, <1>2, <1>3 DEF LMTypeOK
    <2>3. \A v \in Threads \ {t} :
             /\ kind'[v] = kind[v] /\ mpc'[v] = mpc[v] /\ task'[v] = task[v]
             /\ seen'[v] = seen[v] /\ cur'[v] = cur[v] /\ head'[v] = head[v]
             /\ picked'[v] = picked[v] /\ (v \in rdlocked' <=> v \in rdlocked)
      BY <1>0, <1>3 DEF LMTypeOK
    <2>4. \A u \in Threads : kind'[u] # kind[u] => mutex[u] = t
      BY <1>2, <2>3
    <2> QED  BY <1>1, <1>4, <2>1, <2>2, <2>3, <2>4 DEF StepOf
  <1>7. TableFits'
    BY <1>0, <1>1, TableStays
  <1>8. /\ mpc'[t] = "out" /\ task'[t] = "none" /\ seen'[t] = 0
        /\ picked'[t] = NULL /\ nextIndex'[t] = nextIndex[t]
    BY <1>0, <1>2, <1>3 DEF LMTypeOK
  <1>9. LocksFit(t)'
    BY <1>3, <1>4, <1>8 DEF LocksFit, HeldBy, Reading
  <1>10. PlaceFits(t)'
    BY <1>0, <1>1, <1>8 DEF PlaceFits, Waiting
  <1> QED  BY <1>5, <1>6, <1>7, <1>9, <1>10, StepFits

-----------------------------------------------------------------------------
(* Searching the first waiter.                                             *)
LEMMA GetFirstIndexFits ==
    ASSUME LockManagerInv, NEW t \in Threads, GetFirstIndex(t)
    PROVE  LockManagerInv' /\ StepOf(t)
  <1>0. LMTypeOK /\ TableFits /\ LocksFit(t) /\ PlaceFits(t)
    BY DEF LockManagerInv
  <1>1. /\ mpc[t] = "g_get"
        /\ seen' = [seen EXCEPT ![t] = first]
        /\ UNCHANGED <<lo, first, index, nextIndex, next, wt, kind, mutex,
                       cur, head, picked, calls>>
    BY DEF GetFirstIndex, NoFirstWaiter, ownerVars
  <1>2. PICK l \in {"g_lock", "abort", "out"} :
           /\ mpc' = [mpc EXCEPT ![t] = l]
           /\ IF l = "out"
              THEN /\ task[t] # "wait"
                   /\ rdlocked' = rdlocked \ {t}
                   /\ task' = [task EXCEPT ![t] = "none"]
              ELSE UNCHANGED <<rdlocked, task>>
    BY DEF GetFirstIndex, NoFirstWaiter, Goto, RdUnlock
  <1>3. mpc'[t] = l /\ seen'[t] = first
        /\ task'[t] = IF l = "out" THEN "none" ELSE task[t]
    BY <1>0, <1>1, <1>2 DEF LMTypeOK
  <1>4. LMTypeOK'
    BY <1>0, <1>1, <1>2 DEF LMTypeOK, MPCs
  <1>5. StepOf(t)
    BY <1>0, <1>1, <1>2 DEF StepOf, LMTypeOK
  <1>6. TableFits'
    BY <1>0, <1>1, TableStays
  <1>7. LocksFit(t)'
    BY <1>0, <1>1, <1>2, <1>3 DEF LocksFit, HeldBy, Reading
  <1>8. PlaceFits(t)'
    <2>1. l = "out" => task[t] = "wake"
      BY <1>0, <1>1, <1>2 DEF LMTypeOK, PlaceFits
    <2> QED  BY <1>0, <1>1, <1>2, <1>3, <2>1 DEF PlaceFits, TableFits, Waiting
  <1> QED  BY <1>4, <1>5, <1>6, <1>7, <1>8, StepFits

\* get_first_waiter_and_lock keeps the mutex of a first waiter that is still
\* listed, and gives back every other.
LEMMA LockFirstWaiterFits ==
    ASSUME LockManagerInv, NEW t \in Threads, LockFirstWaiter(t)
    PROVE  LockManagerInv' /\ StepOf(t)
  <1>0. LMTypeOK /\ TableFits /\ LocksFit(t) /\ PlaceFits(t)
    BY DEF LockManagerInv
  <1> DEFINE w == lo[seen[t]]
  <1>1. /\ mpc[t] = "g_lock"
        /\ UNCHANGED <<lo, first, index, nextIndex, next, wt, kind, picked,
                       calls>>
    BY DEF LockFirstWaiter, NoFirstWaiter, ownerVars
  <1>2. \A u \in Threads : mutex[u] # t
    BY <1>0, <1>1 DEF LocksFit, HeldBy
  <1>3. TableFits'
    BY <1>0, <1>1, TableStays
  <1>4. w \in Owner
    <2>1. seen[t] \in DOMAIN lo
      BY <1>0, <1>1, TableDomain DEF PlaceFits, TableFits
    <2> QED  BY <1>0, <2>1, TableDomain
  <1>5. CASE w # NULL /\ StillFirst(w)
    <2>1. /\ cur' = [cur EXCEPT ![t] = w]
          /\ head' = [head EXCEPT ![t] = w]
          /\ mpc' = [mpc EXCEPT ![t] = IF task[t] = "wait" THEN "f_walk"
                                                           ELSE "p_exam"]
          /\ UNCHANGED <<rdlocked, task, seen>>
          /\ Mutexes(t, {w}, {})
      BY <1>5 DEF LockFirstWaiter, Goto
    <2> HIDE DEF w
    <2>2. /\ mutex' \in [Threads -> Owner]
          /\ \A v \in Threads \ {t}, u \in Threads :
                mutex'[u] = v <=> mutex[u] = v
          /\ \A u \in Threads : mutex'[u] = t <=> u = w
      BY <1>0, <1>2, <1>4, <1>5, <2>1, NullAssumption
         DEF LMTypeOK, Mutexes, Owner
    <2>3. /\ cur'[t] = w /\ head'[t] = w
          /\ mpc'[t] = IF task[t] = "wait" THEN "f_walk" ELSE "p_exam"
      BY <1>0, <2>1 DEF LMTypeOK
    <2>4. LMTypeOK'
      BY <1>0, <1>1, <1>4, <2>1, <2>2 DEF LMTypeOK, MPCs
    <2>5. StepOf(t)
      BY <1>0, <1>1, <2>1, <2>2 DEF StepOf, LMTypeOK
    <2>6. task[t] # "wait" => picked[t] = NULL
      <3>1. task[t] # "none"
        BY <1>0, <1>1 DEF PlaceFits
      <3> QED  BY <1>0, <1>1, <3>1 DEF PlaceFits, LMTypeOK
    <2>7. LocksFit(t)'
      BY <1>0, <1>1, <1>5, <2>1, <2>2, <2>3, <2>6
         DEF LocksFit, HeldBy, Reading
    <2>8. PlaceFits(t)'
      BY <1>0, <1>1, <1>5, <2>1, <2>3, <2>6 DEF PlaceFits, Waiting
    <2> QED  BY <1>3, <2>4, <2>5, <2>7, <2>8, StepFits
  <1>6. CASE ~(w # NULL /\ StillFirst(w))
    <2>1. /\ UNCHANGED <<mutex, cur, head>>
          /\ seen' \in {seen, [seen EXCEPT ![t] = first]}
          /\ \/ UNCHANGED <<mpc, rdlocked, task>>
             \/ mpc' = [mpc EXCEPT ![t] = "abort"] /\ UNCHANGED <<rdlocked, task>>
             \/ /\ task[t] # "wait"
                /\ mpc' = [mpc EXCEPT ![t] = "out"]
                /\ rdlocked' = rdlocked \ {t}
                /\ task' = [task EXCEPT ![t] = "none"]
      BY <1>6 DEF LockFirstWaiter, NoFirstWaiter, Goto, RdUnlock
    <2> HIDE DEF w
    <2>2. LMTypeOK'
      <3>1. seen' \in [Threads -> 0 .. MAX_INDEX]
        BY <1>0, <2>1 DEF LMTypeOK
      <3>2. /\ mpc' \in [Threads -> MPCs]
            /\ task' \in [Threads -> {"none", "wait", "wake"}]
            /\ rdlocked' \subseteq Threads
        <4>1. /\ mpc \in [Threads -> MPCs]
              /\ task \in [Threads -> {"none", "wait", "wake"}]
              /\ rdlocked \subseteq Threads
          BY <1>0 DEF LMTypeOK
        <4> QED  BY <2>1, <4>1 DEF MPCs
      <3> QED  BY <1>0, <1>1, <2>1, <3>1, <3>2 DEF LMTypeOK
    <2>3. StepOf(t)
      BY <1>0, <1>1, <2>1 DEF StepOf, LMTypeOK
    <2>4. /\ seen'[t] = seen[t] \/ seen'[t] = first
          /\ \/ mpc'[t] = "g_lock" /\ UNCHANGED <<rdlocked, task>>
             \/ mpc'[t] = "abort" /\ UNCHANGED <<rdlocked, task>>
             \/ /\ mpc'[t] = "out" /\ task[t] = "wake" /\ task'[t] = "none"
                /\ t \notin rdlocked'
      <3>1. task[t] # "none"
        BY <1>0, <1>1 DEF PlaceFits
      <3> QED  BY <1>0, <1>1, <2>1, <3>1 DEF LMTypeOK
    <2>5. LocksFit(t)'
      BY <1>0, <1>1, <2>1, <2>4 DEF LocksFit, HeldBy, Reading
    <2>6. PlaceFits(t)'
      BY <1>0, <1>1, <2>1, <2>4 DEF PlaceFits, TableFits, Waiting
    <2> QED  BY <1>3, <2>2, <2>3, <2>5, <2>6, StepFits
  <1> QED  BY <1>5, <1>6

-----------------------------------------------------------------------------
(* Waking up.                                                              *)
LEMMA PickExamineFits ==
    ASSUME LockManagerInv, NEW t \in Threads, PickExamine(t)
    PROVE  LockManagerInv' /\ StepOf(t)
  <1>0. LMTypeOK /\ TableFits /\ LocksFit(t) /\ PlaceFits(t)
    BY DEF LockManagerInv
  <1>1. /\ mpc[t] = "p_exam"
        /\ mpc' = [mpc EXCEPT ![t] = "p_next"]
        /\ UNCHANGED <<lo, rdlocked, first, index, nextIndex, next, wt, kind,
                       task, seen, cur, head, calls>>
    BY DEF PickExamine, Goto, ownerVars
  <1>2. /\ cur[t] \in Threads /\ head[t] \in Threads /\ picked[t] \in Owner
        /\ picked[t] # cur[t]
        /\ \A u \in Threads :
              mutex[u] = t <=> u \in {head[t], cur[t], picked[t]} \ {NULL}
    BY <1>0, <1>1 DEF LMTypeOK, PlaceFits, LocksFit, HeldBy, Owner
  <1>m. mutex \in [Threads -> Owner]
    BY <1>0 DEF LMTypeOK
  <1>3. /\ picked' \in [Threads -> Owner]
        /\ \A v \in Threads \ {t} : picked'[v] = picked[v]
        /\ picked'[t] \in {picked[t], cur[t]}
        /\ mutex' \in [Threads -> Owner]
        /\ \A v \in Threads \ {t}, u \in Threads :
              mutex'[u] = v <=> mutex[u] = v
        /\ \A u \in Threads :
              mutex'[u] = t <=> u \in {head[t], cur[t], picked'[t]} \ {NULL}
    <2>1. CASE wt[cur[t]]
      <3>1. /\ picked' = [picked EXCEPT ![t] = cur[t]]
            /\ Mutexes(t, {}, {picked[t]} \ {NULL, head[t]})
        BY <2>1 DEF PickExamine, Outpicked
      <3>2. /\ mutex' \in [Threads -> Owner]
            /\ \A v \in Threads \ {t}, u \in Threads :
                  mutex'[u] = v <=> mutex[u] = v
            /\ \A u \in Threads :
                  mutex'[u] = t <=> mutex[u] = t
                                    /\ u \notin {picked[t]} \ {NULL, head[t]}
        BY <1>m, <1>2, <3>1, NullAssumption DEF Mutexes, Owner
      <3>3. picked' \in [Threads -> Owner] /\ picked'[t] = cur[t]
            /\ \A v \in Threads \ {t} : picked'[v] = picked[v]
        BY <1>0, <1>2, <3>1, NullOwner DEF LMTypeOK
      <3> QED  BY <1>2, <3>2, <3>3, NullAssumption
    <2>2. CASE ~wt[cur[t]]
      <3>1. UNCHANGED <<picked, mutex>>
        BY <2>2 DEF PickExamine
      <3> QED  BY <1>0, <1>2, <3>1 DEF LMTypeOK
    <2> QED  BY <2>1, <2>2
  <1>4. LMTypeOK'
    BY <1>0, <1>1, <1>3 DEF LMTypeOK, MPCs
  <1>5. StepOf(t)
    BY <1>0, <1>1, <1>3 DEF StepOf, LMTypeOK
  <1>6. TableFits'
    BY <1>0, <1>1, TableStays
  <1>7. mpc'[t] = "p_next"
    BY <1>0, <1>1 DEF LMTypeOK
  <1>8. LocksFit(t)'
    BY <1>0, <1>1, <1>3, <1>7 DEF LocksFit, HeldBy, Reading
  <1>9. PlaceFits(t)'
    BY <1>0, <1>1, <1>7 DEF PlaceFits, Waiting
  <1> QED  BY <1>4, <1>5, <1>6, <1>8, <1>9, StepFits

\* pick_waiter keeps the mutex of the owner that it has picked while it walks
\* on.
LEMMA PickNextFits ==
    ASSUME LockManagerInv, NEW t \in Threads, PickNext(t)
    PROVE  LockManagerInv' /\ StepOf(t)
  <1>0. LMTypeOK /\ TableFits /\ LocksFit(t) /\ PlaceFits(t)
    BY DEF LockManagerInv
  <1> DEFINE n == next[cur[t]]
  <1>1. /\ mpc[t] = "p_next"
        /\ UNCHANGED <<lo, rdlocked, first, index, nextIndex, next, wt, kind,
                       task, seen, head, picked, calls>>
    BY DEF PickNext, ownerVars
  <1>2. /\ cur[t] \in Threads /\ head[t] \in Threads /\ picked[t] \in Owner
        /\ \A u \in Threads :
              mutex[u] = t <=> u \in {head[t], cur[t], picked[t]} \ {NULL}
        /\ n \in Owner
    BY <1>0, <1>1 DEF LMTypeOK, PlaceFits, LocksFit, HeldBy, Owner
  <1>m. mutex \in [Threads -> Owner]
    BY <1>0 DEF LMTypeOK
  <1>3. TableFits'
    BY <1>0, <1>1, TableStays
  <1>4. CASE n = NULL
    <2>1. /\ mpc' = [mpc EXCEPT ![t] = "k_wake"]
          /\ cur' = cur
          /\ Mutexes(t, {}, {cur[t]} \ {picked[t], head[t]})
      BY <1>4 DEF PickNext, Goto, Passed
    <2>2. /\ mutex' \in [Threads -> Owner]
          /\ \A v \in Threads \ {t}, u \in Threads :
                mutex'[u] = v <=> mutex[u] = v
          /\ \A u \in Threads :
                mutex'[u] = t <=> u \in {head[t], picked[t]} \ {NULL}
      BY <1>m, <1>2, <2>1, NullAssumption DEF Mutexes, Owner
    <2>3. mpc'[t] = "k_wake"
      BY <1>0, <2>1 DEF LMTypeOK
    <2>4. LMTypeOK'
      BY <1>0, <1>1, <2>1, <2>2 DEF LMTypeOK, MPCs
    <2>5. StepOf(t)
      BY <1>0, <1>1, <2>1, <2>2 DEF StepOf, LMTypeOK
    <2>6. LocksFit(t)'
      BY <1>0, <1>1, <2>1, <2>2, <2>3 DEF LocksFit, HeldBy, Reading
    <2>7. PlaceFits(t)'
      BY <1>0, <1>1, <2>1, <2>3 DEF PlaceFits, Waiting
    <2> QED  BY <1>3, <2>4, <2>5, <2>6, <2>7, StepFits
  <1>5. CASE n # NULL
    <2>1. /\ mpc' = [mpc EXCEPT ![t] = "p_exam"]
          /\ cur' = [cur EXCEPT ![t] = n]
          /\ Mutexes(t, {n}, {cur[t]} \ {picked[t], head[t]})
      BY <1>5 DEF PickNext, Goto, Passed
    <2> HIDE DEF n
    <2>2. /\ mutex' \in [Threads -> Owner]
          /\ \A v \in Threads \ {t}, u \in Threads :
                mutex'[u] = v <=> mutex[u] = v
          /\ \A u \in Threads :
                mutex'[u] = t <=> u \in {head[t], n, picked[t]} \ {NULL}
          /\ mutex[n] = NULL
      BY <1>m, <1>2, <1>5, <2>1, NullAssumption DEF Mutexes, Owner
    <2>3. mpc'[t] = "p_exam" /\ cur'[t] = n /\ picked[t] # n
      BY <1>0, <1>2, <1>5, <2>1, <2>2, NullAssumption DEF LMTypeOK, Owner
    <2>4. LMTypeOK'
      BY <1>0, <1>1, <1>2, <2>1, <2>2 DEF LMTypeOK, MPCs
    <2>5. StepOf(t)
      BY <1>0, <1>1, <2>1, <2>2 DEF StepOf, LMTypeOK
    <2>6. LocksFit(t)'
      BY <1>0, <1>1, <2>1, <2>2, <2>3 DEF LocksFit, HeldBy, Reading
    <2>7. PlaceFits(t)'
      BY <1>0, <1>1, <1>5, <2>3 DEF PlaceFits, Waiting
    <2> QED  BY <1>3, <2>4, <2>5, <2>6, <2>7, StepFits
  <1> QED  BY <1>4, <1>5

\* wake_up gives back both mutexes of the pair, or walks on with the first.
LEMMA WakeUpPickedFits ==
    ASSUME LockManagerInv, NEW t \in Threads, WakeUpPicked(t)
    PROVE  LockManagerInv' /\ StepOf(t)
  <1>0. LMTypeOK /\ TableFits /\ LocksFit(t) /\ PlaceFits(t)
    BY DEF LockManagerInv
  <1> DEFINE p == picked[t]
  <1>1. /\ mpc[t] = "k_wake"
        /\ UNCHANGED <<lo, first, index, nextIndex, next, kind, calls>>
    BY DEF WakeUpPicked
  <1>2. /\ head[t] \in Threads /\ p \in Owner
        /\ \A u \in Threads : mutex[u] = t <=> u \in {head[t], p} \ {NULL}
    BY <1>0, <1>1 DEF LMTypeOK, PlaceFits, LocksFit, HeldBy, Owner
  <1>m. mutex \in [Threads -> Owner]
    BY <1>0 DEF LMTypeOK
  <1>3. /\ wt' \in [Threads -> BOOLEAN]
        /\ \A u \in Threads : wt'[u] => wt[u]
    BY <1>0 DEF WakeUpPicked, LMTypeOK
  <1>4. TableFits'
    BY <1>0, <1>1, TableStays
  <1>5. CASE p # NULL /\ kind[p] = "rd"
    <2>1. /\ Mutexes(t, {}, {p} \ {head[t]})
          /\ cur' = [cur EXCEPT ![t] = head[t]]
          /\ mpc' = [mpc EXCEPT ![t] = "a_walk"]
          /\ UNCHANGED <<rdlocked, task, seen, head, picked>>
      BY <1>5 DEF WakeUpPicked, Goto
    <2> HIDE DEF p
    <2>2. /\ mutex' \in [Threads -> Owner]
          /\ \A v \in Threads \ {t}, u \in Threads :
                mutex'[u] = v <=> mutex[u] = v
          /\ \A u \in Threads : mutex'[u] = t <=> u = head[t]
      BY <1>m, <1>2, <2>1, NullAssumption DEF Mutexes, Owner
    <2>3. mpc'[t] = "a_walk" /\ cur'[t] = head[t]
      BY <1>0, <2>1 DEF LMTypeOK
    <2>4. LMTypeOK'
      BY <1>0, <1>1, <1>2, <1>3, <2>1, <2>2 DEF LMTypeOK, MPCs
    <2>5. StepOf(t)
      BY <1>0, <1>1, <1>3, <2>1, <2>2 DEF StepOf, LMTypeOK
    <2>6. LocksFit(t)'
      BY <1>0, <1>1, <2>1, <2>2, <2>3 DEF LocksFit, HeldBy, Reading
    <2>7. PlaceFits(t)'
      BY <1>0, <1>1, <1>2, <1>3, <2>1, <2>3, NullAssumption
         DEF PlaceFits, Waiting
    <2> QED  BY <1>4, <2>4, <2>5, <2>6, <2>7, StepFits
  <1>6. CASE ~(p # NULL /\ kind[p] = "rd")
    <2>1. /\ Mutexes(t, {}, {p, head[t]} \ {NULL})
          /\ rdlocked' = rdlocked \ {t}
          /\ Leave(t)
      BY <1>6 DEF WakeUpPicked, RdUnlock
    <2> HIDE DEF p
    <2>2. /\ mutex' \in [Threads -> Owner]
          /\ \A v \in Threads \ {t}, u \in Threads :
                mutex'[u] = v <=> mutex[u] = v
          /\ \A u \in Threads : mutex'[u] # t
      BY <1>m, <1>2, <2>1, NullAssumption DEF Mutexes, Owner
    <2>3. LMTypeOK'
      BY <1>0, <1>1, <1>3, <2>1, <2>2, LeaveFacts DEF LMTypeOK
    <2>4. StepOf(t)
      BY <1>0, <1>1, <1>3, <2>1, <2>2, LeaveFacts DEF StepOf
    <2>5. LocksFit(t)'
      BY <1>0, <2>1, <2>2, LeaveFacts DEF LocksFit, HeldBy, Reading
    <2>6. PlaceFits(t)'
      BY <1>0, <1>1, <1>3, <2>1, LeaveFacts DEF PlaceFits, Waiting
    <2> QED  BY <1>4, <2>3, <2>4, <2>5, <2>6, StepFits
  <1> QED  BY <1>5, <1>6

\* The walk along the readers gives back the mutex of each that it has woken
\* up.
LEMMA WakeUpReadersFits ==
    ASSUME LockManagerInv, NEW t \in Threads, WakeUpReaders(t)
    PROVE  LockManagerInv' /\ StepOf(t)
  <1>0. LMTypeOK /\ TableFits /\ LocksFit(t) /\ PlaceFits(t)
    BY DEF LockManagerInv
  <1> DEFINE c == cur[t]
             n == next[c]
  <1>1. /\ mpc[t] = "a_walk"
        /\ UNCHANGED <<lo, first, index, nextIndex, next, kind, calls>>
    BY DEF WakeUpReaders
  <1>2. c \in Threads /\ n \in Owner /\ \A u \in Threads : mutex[u] = t <=> u = c
    BY <1>0, <1>1 DEF LMTypeOK, PlaceFits, LocksFit, HeldBy, Owner
  <1>m. mutex \in [Threads -> Owner]
    BY <1>0 DEF LMTypeOK
  <1>3. /\ wt' \in [Threads -> BOOLEAN]
        /\ \A u \in Threads : wt'[u] => wt[u]
    BY <1>0 DEF WakeUpReaders, LMTypeOK
  <1>4. TableFits'
    BY <1>0, <1>1, TableStays
  <1>5. CASE n = NULL
    <2>1. Mutexes(t, {}, {c}) /\ rdlocked' = rdlocked \ {t} /\ Leave(t)
      BY <1>5 DEF WakeUpReaders, RdUnlock
    <2> HIDE DEF c, n
    <2>2. /\ mutex' \in [Threads -> Owner]
          /\ \A v \in Threads \ {t}, u \in Threads :
                mutex'[u] = v <=> mutex[u] = v
          /\ \A u \in Threads : mutex'[u] # t
      BY <1>m, <1>2, <2>1, NullAssumption DEF Mutexes, Owner
    <2>3. LMTypeOK'
      BY <1>0, <1>1, <1>3, <2>1, <2>2, LeaveFacts DEF LMTypeOK
    <2>4. StepOf(t)
      BY <1>0, <1>1, <1>3, <2>1, <2>2, LeaveFacts DEF StepOf
    <2>5. LocksFit(t)'
      BY <1>0, <2>1, <2>2, LeaveFacts DEF LocksFit, HeldBy, Reading
    <2>6. PlaceFits(t)'
      BY <1>0, <1>1, <1>3, <2>1, LeaveFacts DEF PlaceFits, Waiting
    <2> QED  BY <1>4, <2>3, <2>4, <2>5, <2>6, StepFits
  <1>6. CASE n # NULL
    <2>1. /\ Mutexes(t, {n}, {c})
          /\ cur' = [cur EXCEPT ![t] = n]
          /\ UNCHANGED <<mpc, rdlocked, task, seen, head, picked>>
      BY <1>6 DEF WakeUpReaders
    <2> HIDE DEF c, n
    <2>2. /\ mutex' \in [Threads -> Owner]
          /\ \A v \in Threads \ {t}, u \in Threads :
                mutex'[u] = v <=> mutex[u] = v
          /\ \A u \in Threads : mutex'[u] = t <=> u = n
      BY <1>m, <1>2, <1>6, <2>1, NullAssumption DEF Mutexes, Owner
    <2>3. cur'[t] = n
      BY <1>0, <2>1 DEF LMTypeOK
    <2>4. LMTypeOK'
      BY <1>0, <1>1, <1>2, <1>3, <2>1, <2>2 DEF LMTypeOK
    <2>5. StepOf(t)
      BY <1>0, <1>1, <1>3, <2>1, <2>2 DEF StepOf, LMTypeOK
    <2>6. LocksFit(t)'
      BY <1>0, <1>1, <2>1, <2>2, <2>3 DEF LocksFit, HeldBy, Reading
    <2>7. PlaceFits(t)'
      BY <1>0, <1>1, <1>3, <1>6, <2>1, <2>3 DEF PlaceFits, Waiting
    <2> QED  BY <1>4, <2>4, <2>5, <2>6, <2>7, StepFits
  <1> QED  BY <1>5, <1>6

-----------------------------------------------------------------------------
(* Registration.                                                           *)

(* A set of natural numbers has a lowest element.                          *)
LEMMA LowestElement ==
    ASSUME NEW S, S \subseteq Nat, S # {}
    PROVE  Lowest(S) \in S /\ \A j \in S : Lowest(S) <= j
  <1>1. PICK i \in S : \A j \in S : ~ (<<j, i>> \in OpToRel(<, Nat))
    BY NatLessThanWellFounded, WFMin
  <1>2. \A j \in S : i <= j
    <2> SUFFICES ASSUME NEW j \in S PROVE ~ (j < i)
      OBVIOUS
    <2>1. i \in Nat /\ j \in Nat
      OBVIOUS
    <2>2. <<j, i>> \in {ss \in Nat \X Nat : ss[1] < ss[2]} <=> j < i
      BY <2>1
    <2>3. OpToRel(<, Nat) = {ss \in Nat \X Nat : ss[1] < ss[2]}
      BY DEF OpToRel
    <2> QED  BY <1>1, <2>2, <2>3
  <1> QED  BY <1>2 DEF Lowest

(* While a thread has no index the table has room for it, or grows without *)
(* more elements than threads: the occupied ones belong to others.         *)
LEMMA TableHasRoom ==
    ASSUME LMTypeOK, TableFits, NEW t \in Threads, index[t] = 0,
           NEW n \in Nat, DOMAIN lo = 0 .. n - 1, Vacant(lo) = {}
    PROVE  n <= Cardinality(Threads)
  <1>1. Cardinality(Threads) \in Nat \ {0}
    BY OwnersAssumption, FS_CardinalityType, FS_EmptySet
  <1>2. CASE n = 0
    BY <1>1, <1>2
  <1>3. CASE n # 0
    <2> DEFINE f == [j \in 1 .. n - 1 |-> lo[j]]
               Others == Threads \ {t}
    <2>1. \A j \in 1 .. n - 1 : lo[j] \in Others /\ index[lo[j]] = j
      <3> SUFFICES ASSUME NEW j \in 1 .. n - 1
                   PROVE  lo[j] \in Others /\ index[lo[j]] = j
        OBVIOUS
      <3>1. j \in DOMAIN lo /\ j # 0
        OBVIOUS
      <3>2. lo[j] # NULL
        BY <3>1 DEF Vacant
      <3>3. lo[j] \in Threads /\ index[lo[j]] = j
        BY <3>1, <3>2, TableDomain DEF TableFits, Owner
      <3> QED  BY <3>1, <3>3
    <2>2. f \in Injection(1 .. n - 1, Others)
      BY <2>1 DEF Injection, IsInjective
    <2>3. IsFiniteSet(Others) /\ Cardinality(Others) = Cardinality(Threads) - 1
      BY OwnersAssumption, FS_RemoveElement
    <2>4. Cardinality(1 .. n - 1) <= Cardinality(Others)
      BY <2>2, <2>3, FS_Injection
    <2>5. Cardinality(1 .. n - 1) = n - 1
      BY <1>3, FS_Interval
    <2> QED  BY <1>1, <2>3, <2>4, <2>5
  <1> QED  BY <1>2, <1>3

\* A new owner takes a vacant index of the table, which TableHasRoom
\* provides.
LEMMA RegisterFits ==
    ASSUME LockManagerInv, NEW t \in Threads,
           picotm_lock_manager_register_owner(t)
    PROVE  LockManagerInv' /\ StepOf(t)
  <1>0. LMTypeOK /\ TableFits /\ LocksFit(t) /\ PlaceFits(t)
    BY DEF LockManagerInv
  <1> DEFINE a == IF Vacant(lo) = {} THEN grow_lo_array(lo) ELSE lo
             i == Lowest(Vacant(a))
  <1>1. /\ mpc[t] = "register"
        /\ lo' = [a EXCEPT ![i] = t]
        /\ index' = [index EXCEPT ![t] = i]
        /\ mpc' = [mpc EXCEPT ![t] = "out"]
        /\ UNCHANGED <<rdlocked, first, nextIndex, next, wt, kind, mutex, task,
                       seen, cur, head, picked, calls>>
    BY DEF picotm_lock_manager_register_owner, Goto
  <1>2. index[t] = 0
    BY <1>0, <1>1 DEF PlaceFits
  <1>3. PICK n \in 0 .. Cardinality(Threads) + 1 : lo \in [0 .. n - 1 -> Owner]
    BY <1>0 DEF LMTypeOK
  <1>4. Cardinality(Threads) \in Nat \ {0} /\ n \in Nat /\ DOMAIN lo = 0 .. n - 1
    BY <1>3, OwnersAssumption, FS_CardinalityType, FS_EmptySet
  <1>5. PICK m \in 0 .. Cardinality(Threads) + 1 :
           /\ a \in [0 .. m - 1 -> Owner]
           /\ \A j \in DOMAIN lo : j \in DOMAIN a /\ a[j] = lo[j]
           /\ \A j \in DOMAIN a \ DOMAIN lo : a[j] = NULL
           /\ Vacant(a) # {}
    <2>1. CASE Vacant(lo) # {}
      BY <1>3, <2>1
    <2>2. CASE Vacant(lo) = {}
      <3> DEFINE k == n + (IF n = 0 THEN 1 ELSE 0)
      <3>1. n <= Cardinality(Threads)
        BY <1>0, <1>2, <1>4, <2>2, TableHasRoom
      <3>2. Cardinality(DOMAIN lo) = n
        BY <1>4, FS_Interval
      <3>3. a = [j \in 0 .. k |-> IF j \in DOMAIN lo THEN lo[j] ELSE NULL]
        BY <2>2, <3>2 DEF grow_lo_array
      <3>4. k + 1 \in 0 .. Cardinality(Threads) + 1 /\ k \in Nat
        BY <1>4, <3>1
      <3>5. a \in [0 .. (k + 1) - 1 -> Owner]
        BY <1>3, <1>4, <3>3, <3>4, NullOwner
      <3>6. k \in Vacant(a)
        BY <1>4, <3>3, <3>4 DEF Vacant
      <3>7. /\ \A j \in DOMAIN lo : j \in DOMAIN a /\ a[j] = lo[j]
            /\ \A j \in DOMAIN a \ DOMAIN lo : a[j] = NULL
        BY <1>4, <3>3, <3>4
      <3> QED  BY <3>4, <3>5, <3>6, <3>7
    <2> QED  BY <2>1, <2>2
  <1>6. i \in DOMAIN a \ {0} /\ a[i] = NULL /\ m \in Nat
    <2>1. Vacant(a) \subseteq Nat
      BY <1>5 DEF Vacant
    <2>2. i \in Vacant(a)
      BY <1>5, <2>1, LowestElement
    <2> QED  BY <1>4, <1>5, <2>2 DEF Vacant
  <1> HIDE DEF a, i
  <1>7. /\ DOMAIN lo' = DOMAIN a /\ lo'[i] = t
        /\ \A j \in DOMAIN a \ {i} : lo'[j] = a[j]
        /\ index'[t] = i /\ mpc'[t] = "out"
        /\ \A v \in Threads \ {t} : index'[v] = index[v]
    BY <1>0, <1>1, <1>6 DEF LMTypeOK
  <1>8. LMTypeOK'
    <2>1. lo' \in [0 .. m - 1 -> Owner]
      BY <1>1, <1>5, <1>6, NullOwner
    <2>2. i \in 0 .. Cardinality(Threads)
      BY <1>4, <1>5, <1>6
    <2>3. index' \in [Threads -> 0 .. Cardinality(Threads)]
      BY <1>0, <1>1, <2>2 DEF LMTypeOK
    <2>4. mpc' \in [Threads -> MPCs]
      BY <1>0, <1>1 DEF LMTypeOK, MPCs
    <2> QED  BY <1>0, <1>1, <2>1, <2>3, <2>4 DEF LMTypeOK
  <1>9. StepOf(t)
    BY <1>0, <1>1, <1>5, <1>7 DEF StepOf, LMTypeOK
  <1>10. TableFits'
    <2>1. \A v \in Threads : index'[v] # 0
             => index'[v] \in DOMAIN lo' /\ lo'[index'[v]] = v
      <3> SUFFICES ASSUME NEW v \in Threads, index'[v] # 0
                   PROVE  index'[v] \in DOMAIN lo' /\ lo'[index'[v]] = v
        OBVIOUS
      <3>1. CASE v = t
        BY <1>6, <1>7, <3>1
      <3>2. CASE v # t
        <4>1. index'[v] = index[v]
          BY <1>7, <3>2
        <4>2. index[v] \in DOMAIN lo /\ lo[index[v]] = v
          BY <1>0, <4>1 DEF TableFits
        <4>3. index[v] # i
          BY <1>5, <1>6, <4>2, NullAssumption
        <4> QED  BY <1>5, <1>7, <4>1, <4>2, <4>3
      <3> QED  BY <3>1, <3>2
    <2>2. \A j \in DOMAIN lo' : lo'[j] # NULL => j # 0 /\ index'[lo'[j]] = j
      <3> SUFFICES ASSUME NEW j \in DOMAIN lo', lo'[j] # NULL
                   PROVE  j # 0 /\ index'[lo'[j]] = j
        OBVIOUS
      <3>1. CASE j = i
        BY <1>6, <1>7, <3>1
      <3>2. CASE j # i
        <4>1. j \in DOMAIN lo /\ lo[j] = lo'[j]
          BY <1>5, <1>7, <3>2
        <4>2. j # 0 /\ index[lo[j]] = j
          BY <1>0, <4>1 DEF TableFits
        <4>3. lo[j] \in Threads \ {t}
          BY <1>2, <1>3, <4>1, <4>2 DEF Owner
        <4> QED  BY <1>7, <4>1, <4>2, <4>3
      <3> QED  BY <3>1, <3>2
    <2>3. first' = 0 \/ first' \in DOMAIN lo'
      BY <1>0, <1>1, <1>5, <1>7 DEF TableFits
    <2> QED  BY <2>1, <2>2, <2>3 DEF TableFits
  <1>11. LocksFit(t)'
    BY <1>0, <1>1, <1>7 DEF LocksFit, HeldBy, Reading
  <1>12. PlaceFits(t)'
    <2>1. picked[t] = NULL /\ task[t] = "none"
      BY <1>0, <1>1 DEF PlaceFits
    <2>2. /\ seen'[t] = 0 \/ seen'[t] \in DOMAIN lo'
          /\ nextIndex'[t] = 0 \/ nextIndex'[t] \in DOMAIN lo'
      BY <1>0, <1>1, <1>5, <1>7 DEF PlaceFits
    <2> QED  BY <1>0, <1>1, <1>7, <2>1, <2>2 DEF PlaceFits, Waiting
  <1> QED  BY <1>8, <1>9, <1>10, <1>11, <1>12, StepFits

\* An owner that leaves the table is in no list, so the head does not name
\* it.
LEMMA UnregisterFits ==
    ASSUME LockManagerInv, NEW t \in Threads,
           picotm_lock_manager_unregister_owner(t)
    PROVE  LockManagerInv' /\ StepOf(t)
  <1>0. LMTypeOK /\ TableFits /\ LocksFit(t) /\ PlaceFits(t)
    BY DEF LockManagerInv
  <1>1. /\ mpc[t] = "unregister"
        /\ lo' = [lo EXCEPT ![index[t]] = NULL]
        /\ index' = [index EXCEPT ![t] = 0]
        /\ mpc' = [mpc EXCEPT ![t] = "out"]
        /\ UNCHANGED <<rdlocked, first, nextIndex, next, wt, kind, mutex, task,
                       seen, cur, head, picked, calls>>
    BY DEF picotm_lock_manager_unregister_owner, Goto
  <1>2. index[t] \in DOMAIN lo /\ lo[index[t]] = t
    BY <1>0, <1>1 DEF PlaceFits, TableFits
  <1>3. /\ DOMAIN lo' = DOMAIN lo /\ lo'[index[t]] = NULL
        /\ \A j \in DOMAIN lo \ {index[t]} : lo'[j] = lo[j]
        /\ index'[t] = 0 /\ mpc'[t] = "out"
        /\ \A v \in Threads \ {t} : index'[v] = index[v]
    BY <1>0, <1>1, <1>2 DEF LMTypeOK
  <1>4. LMTypeOK'
    <2>1. PICK n \in 0 .. Cardinality(Threads) + 1 :
              lo \in [0 .. n - 1 -> Owner]
      BY <1>0 DEF LMTypeOK
    <2>2. lo' \in [0 .. n - 1 -> Owner]
      BY <1>1, <2>1, NullOwner
    <2>3. index' \in [Threads -> 0 .. Cardinality(Threads)]
      BY <1>0, <1>1, TableDomain DEF LMTypeOK
    <2>4. mpc' \in [Threads -> MPCs]
      BY <1>0, <1>1 DEF LMTypeOK, MPCs
    <2> QED  BY <1>0, <1>1, <2>2, <2>3, <2>4 DEF LMTypeOK
  <1>5. StepOf(t)
    BY <1>0, <1>1, <1>3 DEF StepOf, LMTypeOK
  <1>6. TableFits'
    <2>1. \A v \in Threads : index'[v] # 0
             => index'[v] \in DOMAIN lo' /\ lo'[index'[v]] = v
      BY <1>0, <1>2, <1>3 DEF TableFits
    <2>2. \A j \in DOMAIN lo' : lo'[j] # NULL => j # 0 /\ index'[lo'[j]] = j
      <3> SUFFICES ASSUME NEW j \in DOMAIN lo', lo'[j] # NULL
                   PROVE  j # 0 /\ index'[lo'[j]] = j
        OBVIOUS
      <3>1. j \in DOMAIN lo \ {index[t]} /\ lo'[j] = lo[j]
        BY <1>3
      <3>2. j # 0 /\ index[lo[j]] = j
        BY <1>0, <3>1 DEF TableFits
      <3>3. lo[j] \in Threads \ {t}
        BY <1>0, <3>1, <3>2, TableDomain DEF Owner
      <3> QED  BY <1>3, <3>1, <3>2, <3>3
    <2> QED  BY <1>0, <1>1, <1>3, <2>1, <2>2 DEF TableFits
  <1>7. LocksFit(t)'
    BY <1>0, <1>1, <1>3 DEF LocksFit, HeldBy, Reading
  <1>8. PlaceFits(t)'
    BY <1>0, <1>1, <1>3 DEF PlaceFits, Waiting
  <1> QED  BY <1>4, <1>5, <1>6, <1>7, <1>8, StepFits

-----------------------------------------------------------------------------
(* Initially nobody is registered.                                         *)
LEMMA LMInitInv == LMInit => LockManagerInv
  <1> SUFFICES ASSUME LMInit PROVE LockManagerInv
    OBVIOUS
  <1>1. LMTypeOK
    <2>1. Cardinality(Threads) \in Nat
      BY OwnersAssumption, FS_CardinalityType
    <2>2. lo \in [0 .. 0 - 1 -> Owner] /\ 0 \in 0 .. Cardinality(Threads) + 1
      BY <2>1 DEF LMInit
    <2>3. /\ index \in [Threads -> 0 .. Cardinality(Threads)]
          /\ nextIndex \in [Threads -> 0 .. Cardinality(Threads)]
      BY <2>1 DEF LMInit
    <2> QED  BY <2>2, <2>3, ListHeadAssumption, CallsAssumption, NullOwner
             DEF LMInit, LMTypeOK, MPCs
  <1>2. TableFits
    BY DEF LMInit, TableFits
  <1>3. \A t \in Threads : LocksFit(t) /\ PlaceFits(t)
    BY NullAssumption
       DEF LMInit, LocksFit, PlaceFits, HeldBy, Reading, Waiting
  <1> QED  BY <1>1, <1>2, <1>3 DEF LockManagerInv

(* Every call and every step inside a call keeps the invariant and writes  *)
(* only what the thread may write.                                         *)
LEMMA LMStepInv ==
    ASSUME LockManagerInv, NEW t \in Threads, LMCall(t) \/ LMStep(t)
    PROVE  LockManagerInv' /\ StepOf(t)
  BY CallFits, RegisterFits, UnregisterFits, WaitRdlockFits,
     WaitLockOwnerFits, PrependFits, WaitUntilFits, RemoveFromHeadFits,
     FindPrecFits, RemoveFromPrecedingFits, GetFirstIndexFits,
     LockFirstWaiterFits, PickExamineFits, PickNextFits, WakeUpPickedFits,
     WakeUpReadersFits
     DEF LMStep

\* The invariant is inductive: every step keeps it.
LEMMA LMNextInv == LockManagerInv /\ ProgramNext => LockManagerInv'
  <1> SUFFICES ASSUME LockManagerInv, ProgramNext PROVE LockManagerInv'
    OBVIOUS
  <1>1. CASE Elsewhere
    <2>1. calls' \in [Threads -> 0 .. MAX_CALLS]
      BY <1>1, CallsStayTyped DEF LockManagerInv, Elsewhere
    <2>2. LMTypeOK'
      BY <1>1, <2>1
         DEF Elsewhere, LockManagerInv, LMTypeOK, ownerVars, localVars
    <2> QED  BY <1>1, <2>2
                DEF Elsewhere, LockManagerInv, TableFits, LocksFit, PlaceFits,
                    HeldBy, ownerVars, localVars
  <1>2. ASSUME NEW t \in Threads, LMCall(t) \/ LMStep(t)
        PROVE  LockManagerInv'
    BY <1>2, LMStepInv
  <1> QED  BY <1>1, <1>2 DEF ProgramNext

(* The inductive invariant of the lock manager.                            *)
THEOREM LockManagerInvariant == LMSpec => []LockManagerInv
  <1>1. LMInit => LockManagerInv
    BY LMInitInv
  <1>2. LockManagerInv /\ [LMNext]_lmVars => LockManagerInv'
    BY LMNextInv, ManagerIsProgram
  <1> QED  BY <1>1, <1>2, PTL DEF LMSpec

(* Every mutex and lo_rwlock are given back on every path through wait,    *)
(* remove_waiter, pick_waiter and wake_up, the types included: the table   *)
(* never has more elements than there are threads, and one.                *)
THEOREM LocksAreGivenBack == LMSpec => []LocksAreReturned
  <1>1. LockManagerInv => LocksAreReturned
    BY DEF LockManagerInv, LocksAreReturned, LocksFit, HeldBy, Reading
  <1> QED  BY <1>1, LockManagerInvariant, PTL

(* LOCK_OWNER_WT is set only while its owner sleeps.                       *)
THEOREM WakesOnlySleepers == LMSpec => []OnlySleepersAreWoken
  <1>1. LockManagerInv => OnlySleepersAreWoken
    BY DEF LockManagerInv, OnlySleepersAreWoken, PlaceFits
  <1> QED  BY <1>1, LockManagerInvariant, PTL

(* Nobody changes the link of the preceding waiter between                 *)
(* find_prec_waiter and its use in remove_waiter.                          *)
THEOREM PrecedingStaysCurrent == LMSpec => []PrecedingWaiterIsCurrent
  <1>1. LockManagerInv => PrecedingWaiterIsCurrent
    BY DEF LockManagerInv, PrecedingWaiterIsCurrent, PlaceFits
  <1> QED  BY <1>1, LockManagerInvariant, PTL

-----------------------------------------------------------------------------
(***************************************************************************)
(* The list of waiters is intact and no assertion of the lock manager      *)
(* fails, for every finite set of threads that fits into the index field   *)
(* of the list head.  With more threads the field cuts the upper bits of   *)
(* an index, and both are lost: hence IndicesFit.                          *)
(*                                                                         *)
(* ListIsIntact is not inductive: that a waiter which leaves is found from *)
(* the head rests on the order of the list.  The invariant says that some  *)
(* rank orders the listed owners, the head first: each owner's link names  *)
(* the next lower rank (ListFits), and whoever searches a preceding waiter *)
(* has not passed it yet (WalkFits).  A waiter that enters gets a higher   *)
(* rank than all others; who leaves takes its rank along.                  *)
(***************************************************************************)

(* The index field of the list head has room for every owner's index.      *)
IndicesFit == Cardinality(Threads) <= MAX_INDEX

(* The list, from the head down, is the set Listed ordered by rank.        *)
HeadFits(rank) ==
    /\ first = 0 <=> Listed = {}
    /\ first # 0 => /\ first \in DOMAIN lo /\ lo[first] \in Listed
                    /\ \A u \in Listed : rank[u] <= rank[lo[first]]

LinkFits(rank, u) ==
    IF next[u] = NULL
    THEN nextIndex[u] = 0 /\ \A v \in Listed : rank[u] <= rank[v]
    ELSE /\ next[u] \in Listed
         /\ nextIndex[u] = index[next[u]]
         /\ rank[next[u]] < rank[u]
         /\ \A v \in Listed : rank[v] < rank[u] => rank[v] <= rank[next[u]]

ListFits(rank) ==
    /\ \A u, v \in Listed : rank[u] = rank[v] => u = v
    /\ HeadFits(rank)
    /\ \A u \in Listed : LinkFits(rank, u)

(* What a thread has found in the list is still there.                     *)
WalkFits(rank, t) ==
    /\ mpc[t] # "abort"
    /\ mpc[t] = "f_walk" => cur[t] \in Listed /\ rank[t] <= rank[cur[t]]
    /\ mpc[t] = "r_prec" => cur[t] \in Listed
    /\ mpc[t] = "g_lock"
          => seen[t] # 0 /\ seen[t] \in DOMAIN lo /\ lo[seen[t]] # NULL
    /\ mpc[t] \in {"p_exam", "p_next", "k_wake"}
          => picked[t] = NULL \/ kind[picked[t]] # "none"
    /\ t \in Listed => kind[t] # "none"

Ranked(rank) == ListFits(rank) /\ \A t \in Threads : WalkFits(rank, t)

WaiterListInv ==
    LockManagerInv /\ \E rank \in [Threads -> Nat] : Ranked(rank)

-----------------------------------------------------------------------------
(* What the invariant says about the head of the list and about a waiter   *)
(* that somebody else keeps locked.                                        *)
LEMMA ListedOwners ==
    ASSUME LockManagerInv
    PROVE  /\ Listed \subseteq Threads
           /\ \A u \in Listed : /\ index[u] # 0 /\ index[u] \in DOMAIN lo
                                /\ lo[index[u]] = u
  BY DEF LockManagerInv, Listed, PlaceFits, TableFits

(* A step that leaves the list alone keeps its order.                      *)
LEMMA ListStays ==
    ASSUME LockManagerInv, NEW rank \in [Threads -> Nat], ListFits(rank),
           Listed' = Listed, first' = first,
           \A u \in Listed : /\ next'[u] = next[u]
                             /\ nextIndex'[u] = nextIndex[u]
                             /\ index'[u] = index[u],
           \A i \in DOMAIN lo : lo[i] \in Listed
                                   => i \in DOMAIN lo' /\ lo'[i] = lo[i]
    PROVE  ListFits(rank)'
  <1>1. HeadFits(rank)'
    BY DEF ListFits, HeadFits
  <1>2. ASSUME NEW u \in Listed PROVE LinkFits(rank, u)'
    BY <1>2 DEF ListFits, LinkFits
  <1> QED  BY <1>1, <1>2 DEF ListFits

(* A step of one thread leaves what the others have found.                 *)
LEMMA OthersWalk ==
    ASSUME LockManagerInv, NEW rank \in [Threads -> Nat],
           NEW rank2 \in [Threads -> Nat],
           NEW t \in Threads, StepOf(t), NEW v \in Threads \ {t},
           WalkFits(rank, v),
           v \in Listed' <=> v \in Listed,
           \A u \in Listed : u \in Listed' \/ mutex[u] = t,
           \A u \in Listed : rank2[u] = rank[u],
           rdlocked # {} => lo' = lo
    PROVE  WalkFits(rank2, v)'
  <1>1. LMTypeOK /\ LocksFit(v) /\ PlaceFits(v)
    BY DEF LockManagerInv
  <1>2. /\ mpc'[v] = mpc[v] /\ seen'[v] = seen[v] /\ cur'[v] = cur[v]
        /\ picked'[v] = picked[v] /\ kind'[v] = kind[v]
        /\ \A u \in Threads : kind'[u] # kind[u] => mutex[u] = t
    BY DEF StepOf
  <1>3. \A u \in Threads : u \in HeldBy(v) /\ mpc[v] # "abort" => mutex[u] = v
    BY <1>1 DEF LocksFit
  <1>4. mpc[v] = "f_walk"
           => cur[v] \in Listed' /\ v \in Listed /\ rank2[v] <= rank2[cur[v]]
    <2> SUFFICES ASSUME mpc[v] = "f_walk"
                 PROVE  /\ cur[v] \in Listed' /\ v \in Listed
                        /\ rank2[v] <= rank2[cur[v]]
      OBVIOUS
    <2>1. cur[v] \in Listed /\ rank[v] <= rank[cur[v]] /\ v \in Listed
      BY DEF WalkFits, Listed
    <2>2. mutex[cur[v]] = v
      BY <1>3, <2>1, ListedOwners DEF HeldBy
    <2> QED  BY <2>1, <2>2
  <1>5. mpc[v] = "r_prec" => cur[v] \in Listed'
    <2> SUFFICES ASSUME mpc[v] = "r_prec" PROVE cur[v] \in Listed'
      OBVIOUS
    <2>1. cur[v] \in Listed
      BY DEF WalkFits
    <2>2. mutex[cur[v]] = v
      BY <1>3, <2>1, ListedOwners DEF HeldBy
    <2> QED  BY <2>1, <2>2
  <1>6. mpc[v] = "g_lock" => lo' = lo
    BY <1>1 DEF LocksFit, Reading
  <1>7. mpc[v] \in {"p_exam", "p_next", "k_wake"}
           => picked[v] = NULL \/ kind'[picked[v]] # "none"
    <2> SUFFICES ASSUME mpc[v] \in {"p_exam", "p_next", "k_wake"},
                        picked[v] # NULL
                 PROVE  kind'[picked[v]] # "none"
      OBVIOUS
    <2>1. picked[v] \in Threads
      BY <1>1 DEF LMTypeOK, Owner
    <2>2. mutex[picked[v]] = v
      BY <1>3, <2>1, NullAssumption DEF HeldBy
    <2> QED  BY <1>2, <2>1, <2>2 DEF WalkFits
  <1> QED  BY <1>2, <1>4, <1>5, <1>6, <1>7 DEF WalkFits

(* Only the stepping thread can enter or leave the list.                   *)
LEMMA ListedByStep ==
    ASSUME NEW t \in Threads, StepOf(t), NEW v \in Threads \ {t}
    PROVE  v \in Listed' <=> v \in Listed
  BY DEF StepOf, Listed

(* Steps that leave list and table alone.                                  *)
LEMMA QuietStep ==
    ASSUME LockManagerInv, NEW rank \in [Threads -> Nat], Ranked(rank),
           NEW t \in Threads, StepOf(t),
           UNCHANGED <<lo, first, index, next, nextIndex>>,
           t \in Listed' <=> t \in Listed,
           WalkFits(rank, t)'
    PROVE  Ranked(rank)'
  <1>1. Listed' = Listed
    <2>1. Listed \subseteq Threads /\ Listed' \subseteq Threads
      BY DEF Listed
    <2> QED  BY <2>1, ListedByStep
  <1>2. ListFits(rank)'
    BY <1>1, ListStays DEF Ranked
  <1>3. \A v \in Threads \ {t} : WalkFits(rank, v)'
    BY <1>1, OthersWalk DEF Ranked
  <1> QED  BY <1>2, <1>3 DEF Ranked

-----------------------------------------------------------------------------
(* The steps, one by one.                                                  *)
LEMMA CallRanked ==
    ASSUME LockManagerInv, NEW rank \in [Threads -> Nat], Ranked(rank),
           NEW t \in Threads, StepOf(t), LMCall(t)
    PROVE  Ranked(rank)'
  <1>0. LMTypeOK /\ WalkFits(rank, t)
    BY DEF LockManagerInv, Ranked
  <1>1. PICK l \in {"register", "unregister", "w_rdlock", "k_rdlock"},
             tsk \in {"none", "wait", "wake"} : Begin(t, l, tsk)
    BY DEF LMCall, RegisterCall, UnregisterCall, WaitCall, WakeUpCall
  <1>2. mpc[t] = "out" /\ mpc'[t] = l
        /\ UNCHANGED <<lo, first, index, next, nextIndex>>
    BY <1>0, <1>1 DEF Begin, Goto, LMTypeOK, ownerVars
  <1> QED  BY <1>0, <1>2, QuietStep DEF Listed, WalkFits

\* Taking lo_rwlock for reading moves nobody in the list.
LEMMA RdlockRanked ==
    ASSUME LockManagerInv, NEW rank \in [Threads -> Nat], Ranked(rank),
           NEW t \in Threads, StepOf(t),
           WaitRdlock(t) \/ RemoveRdlock(t) \/ WakeUpRdlock(t)
    PROVE  Ranked(rank)'
  <1>0. LMTypeOK /\ PlaceFits(t) /\ WalkFits(rank, t)
    BY DEF LockManagerInv, Ranked
  <1>1. /\ \/ mpc[t] = "w_rdlock" /\ mpc'[t] = "w_mutex"
           \/ mpc[t] = "r_rdlock" /\ mpc'[t] = "r_head"
           \/ mpc[t] = "k_rdlock" /\ mpc'[t] = "g_get"
        /\ UNCHANGED <<lo, first, index, next, nextIndex, task, kind>>
    BY <1>0 DEF WaitRdlock, RemoveRdlock, WakeUpRdlock, Goto, LMTypeOK,
                ownerVars
  <1>2. mpc[t] = "k_rdlock" => task[t] = "wake"
    BY <1>0 DEF PlaceFits
  <1> QED  BY <1>0, <1>1, <1>2, QuietStep DEF Listed, WalkFits

\* Neither the lock of the own mutex nor the sleep moves anybody in the list.
LEMMA SleepRanked ==
    ASSUME LockManagerInv, NEW rank \in [Threads -> Nat], Ranked(rank),
           NEW t \in Threads, StepOf(t),
           WaitLockOwner(t) \/ picotm_lock_owner_wait_until(t)
    PROVE  Ranked(rank)'
  <1>0. LMTypeOK /\ WalkFits(rank, t)
    BY DEF LockManagerInv, Ranked
  <1>1. /\ \/ mpc[t] = "w_mutex" /\ mpc'[t] = "w_cas"
           \/ mpc[t] = "sleep" /\ mpc'[t] = "r_rdlock"
        /\ UNCHANGED <<lo, first, index, next, nextIndex, task, kind>>
    BY <1>0 DEF WaitLockOwner, picotm_lock_owner_wait_until, Goto, LMTypeOK,
                ownerVars
  <1> QED  BY <1>0, <1>1, QuietStep DEF Listed, WalkFits

(* The search moves down the list towards the waiter, and finds a link.    *)
LEMMA FindPrecRanked ==
    ASSUME LockManagerInv, NEW rank \in [Threads -> Nat], Ranked(rank),
           NEW t \in Threads, StepOf(t), find_prec_waiter(t)
    PROVE  Ranked(rank)'
  <1>0. LMTypeOK /\ WalkFits(rank, t) /\ ListFits(rank) /\ PlaceFits(t)
    BY DEF LockManagerInv, Ranked
  <1> DEFINE c == cur[t]
             n == next[c]
  <1>1. /\ mpc[t] = "f_walk"
        /\ UNCHANGED <<lo, first, index, nextIndex, next, task, kind>>
    BY DEF find_prec_waiter, ownerVars
  <1>2. t \in Listed /\ c \in Listed /\ rank[t] <= rank[c]
    BY <1>0, <1>1 DEF WalkFits, Listed
  <1>3. Listed \subseteq Threads
    BY DEF Listed
  <1>4. c # t => /\ n \in Listed /\ n # NULL
                 /\ rank[t] <= rank[n]
    <2> SUFFICES ASSUME c # t
                 PROVE  n \in Listed /\ n # NULL /\ rank[t] <= rank[n]
      OBVIOUS
    <2>1. rank[t] < rank[c]
      BY <1>0, <1>2, <1>3 DEF ListFits
    <2>2. LinkFits(rank, c)
      BY <1>0, <1>2 DEF ListFits
    <2>3. n # NULL
      BY <1>2, <1>3, <2>1, <2>2 DEF LinkFits
    <2> QED  BY <1>2, <1>3, <2>1, <2>2, <2>3 DEF LinkFits
  <1>5. CASE c = t
    <2>1. mpc'[t] = "r_head"
      BY <1>0, <1>5 DEF find_prec_waiter, Goto, LMTypeOK
    <2> QED  BY <1>0, <1>1, <1>2, <2>1, QuietStep DEF Listed, WalkFits
  <1>6. CASE c # t
    <2>1. \/ mpc'[t] = "r_prec" /\ cur'[t] = c
          \/ mpc'[t] = "f_walk" /\ cur'[t] = n
      BY <1>0, <1>1, <1>4, <1>6 DEF find_prec_waiter, Goto, LMTypeOK
    <2>2. t \in Listed' <=> t \in Listed
      BY <1>1, <1>2, <2>1 DEF Listed
    <2>3. \A u \in Threads \ {t} : u \in Listed' <=> u \in Listed
      BY ListedByStep
    <2>4. c \in Listed' /\ n \in Listed'
      BY <1>2, <1>3, <1>4, <1>6, <2>2, <2>3
    <2>5. WalkFits(rank, t)'
      BY <1>0, <1>1, <1>4, <1>6, <2>1, <2>2, <2>4 DEF WalkFits
    <2> QED  BY <1>1, <2>2, <2>5, QuietStep
  <1> QED  BY <1>5, <1>6

(* The list head, when the list is not empty, names the first waiter.      *)
LEMMA HeadIsListed ==
    ASSUME LockManagerInv, NEW rank \in [Threads -> Nat], ListFits(rank)
    PROVE  /\ Listed # {} => first # 0
           /\ first # 0 => /\ first \in DOMAIN lo /\ lo[first] # NULL
                           /\ lo[first] \in Listed
                           /\ \A u \in Listed : rank[u] <= rank[lo[first]]
  BY NullAssumption, ListedOwners DEF ListFits, HeadFits

\* The first waiter that the head names has the highest rank.
LEMMA GetFirstRanked ==
    ASSUME LockManagerInv, NEW rank \in [Threads -> Nat], Ranked(rank),
           NEW t \in Threads, StepOf(t), GetFirstIndex(t)
    PROVE  Ranked(rank)'
  <1>0. LMTypeOK /\ WalkFits(rank, t) /\ ListFits(rank) /\ PlaceFits(t)
    BY DEF LockManagerInv, Ranked
  <1>1. /\ mpc[t] = "g_get"
        /\ UNCHANGED <<lo, first, index, nextIndex, next, kind, picked>>
    BY DEF GetFirstIndex, NoFirstWaiter, ownerVars
  <1>2. t \in Listed <=> task[t] = "wait"
    BY <1>1 DEF Listed
  <1>3. CASE first = 0
    <2>1. t \notin Listed
      BY <1>0, <1>3, HeadIsListed
    <2>2. mpc'[t] = "out"
      BY <1>0, <1>2, <1>3, <2>1
         DEF GetFirstIndex, NoFirstWaiter, Goto, LMTypeOK
    <2> QED  BY <1>1, <2>1, <2>2, QuietStep DEF Listed, WalkFits
  <1>4. CASE first # 0
    <2>1. mpc'[t] = "g_lock" /\ task'[t] = task[t] /\ seen'[t] = first
      BY <1>0, <1>4 DEF GetFirstIndex, Goto, LMTypeOK
    <2>2. t \in Listed' <=> t \in Listed
      BY <1>1, <2>1 DEF Listed
    <2>3. WalkFits(rank, t)'
      BY <1>0, <1>1, <1>4, <2>1, <2>2, HeadIsListed DEF WalkFits
    <2> QED  BY <1>1, <2>2, <2>3, QuietStep
  <1> QED  BY <1>3, <1>4

\* A first waiter that has left, or left and come back elsewhere, is given
\* up; the one that is kept is still the first.
LEMMA LockFirstRanked ==
    ASSUME LockManagerInv, NEW rank \in [Threads -> Nat], Ranked(rank),
           NEW t \in Threads, StepOf(t), LockFirstWaiter(t)
    PROVE  Ranked(rank)'
  <1>0. /\ LMTypeOK /\ WalkFits(rank, t) /\ ListFits(rank) /\ PlaceFits(t)
        /\ TableFits
    BY DEF LockManagerInv, Ranked
  <1> DEFINE w == lo[seen[t]]
  <1>1. /\ mpc[t] = "g_lock"
        /\ UNCHANGED <<lo, first, index, nextIndex, next, kind, picked>>
    BY DEF LockFirstWaiter, NoFirstWaiter, ownerVars
  <1>2. t \in Listed <=> task[t] = "wait"
    BY <1>1 DEF Listed
  <1>3. seen[t] # 0 /\ seen[t] \in DOMAIN lo /\ w # NULL /\ w \in Threads
    BY <1>0, <1>1, TableDomain DEF WalkFits, Owner
  <1>4. CASE StillFirst(w)
    <2>1. /\ cur'[t] = w /\ UNCHANGED task
          /\ mpc'[t] = IF task[t] = "wait" THEN "f_walk" ELSE "p_exam"
      BY <1>0, <1>3, <1>4 DEF LockFirstWaiter, Goto, LMTypeOK
    <2>2. first # 0 /\ lo[first] = w
      BY <1>0, <1>3, <1>4 DEF TableFits, StillFirst
    <2>3. t \in Listed' <=> t \in Listed
      BY <1>1, <1>2, <2>1 DEF Listed
    <2>4. \A u \in Threads \ {t} : u \in Listed' <=> u \in Listed
      BY ListedByStep
    <2>5. w \in Listed' /\ (t \in Listed => rank[t] <= rank[w])
      BY <1>0, <1>3, <2>2, <2>3, <2>4, HeadIsListed
    <2>6. task[t] # "wait" => picked[t] = NULL
      BY <1>0, <1>1 DEF PlaceFits, LMTypeOK
    <2>7. WalkFits(rank, t)'
      BY <1>0, <1>1, <1>2, <2>1, <2>3, <2>5, <2>6 DEF WalkFits
    <2> QED  BY <1>1, <2>3, <2>7, QuietStep
  <1>5. CASE ~StillFirst(w) /\ first = 0
    <2>1. t \notin Listed
      BY <1>0, <1>5, HeadIsListed
    <2>2. mpc'[t] = "out"
      BY <1>0, <1>2, <1>3, <1>5, <2>1
         DEF LockFirstWaiter, NoFirstWaiter, Goto, LMTypeOK
    <2> QED  BY <1>1, <2>1, <2>2, QuietStep DEF Listed, WalkFits
  <1>6. CASE ~StillFirst(w) /\ first # 0
    <2>1. mpc'[t] = "g_lock" /\ task'[t] = task[t] /\ seen'[t] = first
      BY <1>0, <1>1, <1>3, <1>6 DEF LockFirstWaiter, LMTypeOK
    <2>2. t \in Listed' <=> t \in Listed
      BY <1>1, <2>1 DEF Listed
    <2>3. WalkFits(rank, t)'
      BY <1>0, <1>1, <1>6, <2>1, <2>2, HeadIsListed DEF WalkFits
    <2> QED  BY <1>1, <2>2, <2>3, QuietStep
  <1> QED  BY <1>4, <1>5, <1>6

(* Who is picked sleeps, and has announced what it waits for.              *)
LEMMA WakeUpRanked ==
    ASSUME LockManagerInv, NEW rank \in [Threads -> Nat], Ranked(rank),
           NEW t \in Threads, StepOf(t),
           \/ PickExamine(t)
           \/ PickNext(t)
           \/ WakeUpPicked(t)
           \/ WakeUpReaders(t)
    PROVE  Ranked(rank)'
  <1>0. LMTypeOK /\ WalkFits(rank, t) /\ PlaceFits(t)
    BY DEF LockManagerInv, Ranked
  <1>1. /\ mpc[t] \in {"p_exam", "p_next", "k_wake", "a_walk"}
        /\ mpc'[t] \in {"p_exam", "p_next", "k_wake", "a_walk", "out"}
        /\ UNCHANGED <<lo, first, index, nextIndex, next, kind>>
    BY <1>0 DEF PickExamine, PickNext, WakeUpPicked, WakeUpReaders, Leave,
                Goto, LMTypeOK, ownerVars
  <1>2. mpc'[t] \in {"p_exam", "p_next", "k_wake"}
           => mpc[t] \in {"p_exam", "p_next", "k_wake"}
              /\ \/ picked'[t] = picked[t]
                 \/ /\ mpc[t] = "p_exam" /\ picked'[t] = cur[t]
                    /\ wt[cur[t]]
    BY <1>0 DEF PickExamine, PickNext, WakeUpPicked, WakeUpReaders, Leave,
                Goto, LMTypeOK
  <1>3. ASSUME mpc[t] = "p_exam", wt[cur[t]] PROVE kind[cur[t]] # "none"
    <2>1. cur[t] \in Threads
      BY <1>0, <1>3 DEF PlaceFits, LMTypeOK, Owner
    <2>2. mpc[cur[t]] = "sleep"
      BY <1>3, <2>1 DEF LockManagerInv, PlaceFits
    <2> QED  BY <2>1, <2>2 DEF Ranked, WalkFits, Listed
  <1>4. WalkFits(rank, t)'
    BY <1>0, <1>1, <1>2, <1>3 DEF WalkFits, Listed
  <1> QED  BY <1>1, <1>4, QuietStep DEF Listed

(* Registration does not touch a listed owner.                             *)
LEMMA RegisterRanked ==
    ASSUME LockManagerInv, NEW rank \in [Threads -> Nat], Ranked(rank),
           NEW t \in Threads, StepOf(t), LockManagerInv',
           \/ picotm_lock_manager_register_owner(t)
           \/ picotm_lock_manager_unregister_owner(t)
    PROVE  Ranked(rank)'
  <1>0. /\ LMTypeOK /\ WalkFits(rank, t) /\ ListFits(rank) /\ PlaceFits(t)
        /\ TableFits
    BY DEF LockManagerInv, Ranked
  <1>1. /\ mpc[t] \in {"register", "unregister"} /\ mpc'[t] = "out"
        /\ rdlocked = {}
        /\ UNCHANGED <<first, nextIndex, next, kind, picked>>
    BY <1>0 DEF picotm_lock_manager_register_owner, Goto, LMTypeOK,
                picotm_lock_manager_unregister_owner
  <1>2. Listed' = Listed /\ t \notin Listed
    <2>1. Listed \subseteq Threads /\ Listed' \subseteq Threads
          /\ t \notin Listed /\ t \notin Listed'
      BY <1>1 DEF Listed
    <2> QED  BY <2>1, ListedByStep
  <1>3. \A u \in Listed : index'[u] = index[u] /\ u \in Threads \ {t}
    BY <1>2, ListedOwners DEF StepOf
  <1>4. \A i \in DOMAIN lo : lo[i] \in Listed
           => i \in DOMAIN lo' /\ lo'[i] = lo[i]
    <2> SUFFICES ASSUME NEW i \in DOMAIN lo, lo[i] \in Listed
                 PROVE  i \in DOMAIN lo' /\ lo'[i] = lo[i]
      OBVIOUS
    <2>1. index[lo[i]] = i /\ i # 0
      BY <1>0, <1>3, NullAssumption DEF TableFits
    <2>2. TableFits'
      BY DEF LockManagerInv
    <2> QED  BY <1>3, <2>1, <2>2 DEF TableFits
  <1>5. ListFits(rank)'
    BY <1>0, <1>1, <1>2, <1>3, <1>4, ListStays
  <1>6. \A v \in Threads \ {t} : WalkFits(rank, v)'
    BY <1>1, <1>2, OthersWalk DEF Ranked
  <1>7. WalkFits(rank, t)'
    BY <1>1, <1>2 DEF WalkFits
  <1> QED  BY <1>5, <1>6, <1>7 DEF Ranked

(* A waiter enters at the head, with a rank above all others.              *)
LEMMA PrependRanked ==
    ASSUME LockManagerInv, NEW rank \in [Threads -> Nat], Ranked(rank),
           NEW t \in Threads, StepOf(t), lock_and_prepend_waiter(t),
           IndicesFit
    PROVE  \E rank2 \in [Threads -> Nat] : Ranked(rank2)'
  <1>0. /\ LMTypeOK /\ WalkFits(rank, t) /\ ListFits(rank) /\ PlaceFits(t)
        /\ TableFits /\ LocksFit(t)
    BY DEF LockManagerInv, Ranked
  <1>1. /\ mpc[t] = "w_cas"
        /\ nextIndex' = [nextIndex EXCEPT ![t] = seen[t]]
        /\ next' = [next EXCEPT ![t] = lo[seen[t]]]
        /\ UNCHANGED <<lo, index, task, cur, head, picked>>
    BY DEF lock_and_prepend_waiter
  <1>2. t \notin Listed /\ Listed \subseteq Threads \ {t}
    BY <1>1 DEF Listed
  <1>3. /\ nextIndex'[t] = seen[t] /\ next'[t] = lo[seen[t]]
        /\ \A u \in Threads \ {t} : nextIndex'[u] = nextIndex[u]
                                    /\ next'[u] = next[u]
    BY <1>0, <1>1 DEF LMTypeOK
  <1>4. CASE first # seen[t]
    <2>1. mpc'[t] = "w_cas" /\ first' = first /\ kind' = kind
      BY <1>1, <1>4 DEF lock_and_prepend_waiter
    <2>2. Listed' = Listed
      <3>1. t \notin Listed' /\ Listed' \subseteq Threads
        BY <2>1 DEF Listed
      <3> QED  BY <1>2, <3>1, ListedByStep
    <2>3. ListFits(rank)'
      BY <1>0, <1>1, <1>2, <1>3, <2>1, <2>2, ListStays
    <2>4. \A v \in Threads \ {t} : WalkFits(rank, v)'
      BY <1>1, <2>2, OthersWalk DEF Ranked
    <2>5. WalkFits(rank, t)'
      BY <1>2, <2>1, <2>2 DEF WalkFits
    <2> QED  BY <2>3, <2>4, <2>5 DEF Ranked
  <1>5. CASE first = seen[t]
    <2>1. /\ first' = rw_index_bits(index[t])
          /\ kind'[t] # "none"
          /\ mpc'[t] = "sleep"
      BY <1>0, <1>5 DEF lock_and_prepend_waiter, LMTypeOK, Goto
    <2>2. index[t] \in DOMAIN lo /\ lo[index[t]] = t /\ index[t] # 0
      BY <1>0, <1>1 DEF PlaceFits, TableFits
    <2>3. first' = index[t]
      <3>1. index[t] \in Nat /\ index[t] <= MAX_INDEX
        BY <1>0, TableDomain, ListHeadAssumption DEF LMTypeOK, IndicesFit
      <3> QED  BY <2>1, <3>1, IndexBits
    <2>4. Listed' = Listed \cup {t}
      <3>1. t \in Listed' /\ Listed' \subseteq Threads
        BY <2>1 DEF Listed
      <3> QED  BY <1>2, <3>1, ListedByStep
    <2>5. 0 \in DOMAIN lo /\ lo[0] = NULL
      <3>1. 0 \in DOMAIN lo
        BY <1>0, <2>2, TableDomain
      <3> QED  BY <1>0, <3>1 DEF TableFits
    <2>6. PICK r \in Nat : \A u \in Listed : rank[u] < r
      <3>1. CASE first = 0
        BY <1>0, <3>1 DEF ListFits, HeadFits
      <3>2. CASE first # 0
        <4>1. /\ lo[first] \in Threads
              /\ \A u \in Listed : rank[u] <= rank[lo[first]]
          BY <1>0, <1>2, <3>2 DEF ListFits, HeadFits
        <4>2. rank[lo[first]] + 1 \in Nat
          BY <4>1
        <4>3. \A u \in Listed : rank[u] < rank[lo[first]] + 1
          BY <1>2, <4>1
        <4> QED  BY <4>2, <4>3
      <3> QED  BY <3>1, <3>2
    <2> DEFINE rank2 == [rank EXCEPT ![t] = r]
    <2>7. /\ rank2 \in [Threads -> Nat] /\ rank2[t] = r
          /\ \A u \in Threads \ {t} : rank2[u] = rank[u]
      OBVIOUS
    <2> HIDE DEF rank2
    <2>8. \A u, v \in Listed' : rank2[u] = rank2[v] => u = v
      BY <1>0, <1>2, <2>4, <2>6, <2>7 DEF ListFits
    <2>9. HeadFits(rank2)'
      <3>1. \A u \in Listed' : rank2[u] <= rank2[t]
        BY <1>2, <2>4, <2>6, <2>7
      <3> QED  BY <1>1, <2>2, <2>3, <2>4, <3>1 DEF HeadFits
    <2>10. LinkFits(rank2, t)'
      <3>1. CASE first = 0
        <4>1. Listed' = {t} /\ next'[t] = NULL /\ nextIndex'[t] = 0
          BY <1>0, <1>3, <1>5, <2>4, <2>5, <3>1 DEF ListFits, HeadFits
        <4> QED  BY <2>7, <4>1 DEF LinkFits
      <3>2. CASE first # 0
        <4> DEFINE h == lo[first]
        <4>1. /\ h \in Listed /\ first \in DOMAIN lo
              /\ \A u \in Listed : rank[u] <= rank[h]
          BY <1>0, <3>2 DEF ListFits, HeadFits
        <4>2. /\ next'[t] = h /\ nextIndex'[t] = first /\ h # NULL
              /\ index[h] = first
          BY <1>0, <1>2, <1>3, <1>5, <4>1, NullAssumption DEF TableFits
        <4> HIDE DEF h
        <4>3. h \in Listed' /\ rank2[h] < rank2[t]
          BY <1>2, <2>4, <2>6, <2>7, <4>1
        <4>4. \A v \in Listed' : rank2[v] < rank2[t] => rank2[v] <= rank2[h]
          BY <1>2, <2>4, <2>7, <4>1
        <4> QED  BY <1>1, <4>2, <4>3, <4>4 DEF LinkFits
      <3> QED  BY <3>1, <3>2
    <2>11. ASSUME NEW u \in Listed PROVE LinkFits(rank2, u)'
      <3>1. LinkFits(rank, u)
        BY <1>0 DEF ListFits
      <3>2. /\ u \in Threads \ {t} /\ next'[u] = next[u]
            /\ nextIndex'[u] = nextIndex[u] /\ rank2[u] = rank[u]
            /\ rank2[t] = r /\ rank[u] < r
        BY <1>2, <1>3, <2>6, <2>7
      <3>3. CASE next[u] = NULL
        BY <1>2, <2>4, <2>7, <3>1, <3>2, <3>3 DEF LinkFits
      <3>4. CASE next[u] # NULL
        BY <1>1, <1>2, <2>4, <2>7, <3>1, <3>2, <3>4 DEF LinkFits
      <3> QED  BY <3>3, <3>4
    <2>12. ListFits(rank2)'
      BY <2>4, <2>8, <2>9, <2>10, <2>11 DEF ListFits
    <2>13. \A v \in Threads \ {t} : WalkFits(rank2, v)'
      <3> SUFFICES ASSUME NEW v \in Threads \ {t} PROVE WalkFits(rank2, v)'
        OBVIOUS
      <3>1. \A u \in Listed : rank2[u] = rank[u] /\ u \in Listed'
        BY <1>2, <2>4, <2>7
      <3>2. WalkFits(rank, v)
        BY DEF Ranked
      <3> QED  BY <1>1, <2>4, <2>7, <3>1, <3>2, OthersWalk
    <2>14. WalkFits(rank2, t)'
      BY <2>1 DEF WalkFits
    <2> QED  BY <2>7, <2>12, <2>13, <2>14 DEF Ranked
  <1> QED  BY <1>4, <1>5

(* The first waiter leaves: the next lower rank is the head.               *)
LEMMA RemoveFromHeadRanked ==
    ASSUME LockManagerInv, NEW rank \in [Threads -> Nat], Ranked(rank),
           NEW t \in Threads, StepOf(t), RemoveFromHead(t), IndicesFit
    PROVE  Ranked(rank)'
  <1>0. /\ LMTypeOK /\ WalkFits(rank, t) /\ ListFits(rank) /\ PlaceFits(t)
        /\ TableFits /\ LocksFit(t)
    BY DEF LockManagerInv, Ranked
  <1>1. /\ mpc[t] = "r_head"
        /\ UNCHANGED <<lo, index, nextIndex, next, wt>>
    BY DEF RemoveFromHead
  <1>2. t \in Listed /\ Listed \subseteq Threads /\ mutex[t] = t
    BY <1>0, <1>1 DEF Listed, LocksFit, HeldBy
  <1>3. CASE first # index[t]
    <2>1. mpc'[t] = "g_get" /\ task'[t] = task[t] /\ UNCHANGED <<first, kind>>
      BY <1>0, <1>3 DEF RemoveFromHead, Goto, LMTypeOK
    <2>2. task[t] = "wait"
      BY <1>0, <1>1 DEF PlaceFits, Waiting
    <2>3. t \in Listed'
      BY <2>1, <2>2 DEF Listed
    <2>4. WalkFits(rank, t)'
      BY <1>0, <1>2, <2>1 DEF WalkFits
    <2> QED  BY <1>1, <1>2, <2>1, <2>3, <2>4, QuietStep
  <1>4. CASE first = index[t]
    <2>1. first' = rw_index_bits(nextIndex[t]) /\ mpc'[t] = "out"
      BY <1>0, <1>4
         DEF RemoveFromHead, WaitReturns, Leave, Goto, LMTypeOK
    <2>2. first' = nextIndex[t]
      <3>1. nextIndex[t] \in Nat /\ nextIndex[t] <= MAX_INDEX
        BY <1>0, TableDomain, ListHeadAssumption DEF LMTypeOK, IndicesFit
      <3> QED  BY <2>1, <3>1, IndexBits
    <2>3. Listed' = Listed \ {t}
      <3>1. t \notin Listed' /\ Listed' \subseteq Threads
        BY <2>1 DEF Listed
      <3> QED  BY <1>2, <3>1, ListedByStep
    <2>4. first # 0 /\ lo[first] = t /\ \A u \in Listed : rank[u] <= rank[t]
      BY <1>0, <1>2, <1>4, ListedOwners DEF ListFits, HeadFits
    <2>5. LinkFits(rank, t)
      BY <1>0, <1>2 DEF ListFits
    <2>6. HeadFits(rank)'
      <3>1. CASE next[t] = NULL
        <4>1. Listed' = {} /\ first' = 0
          BY <1>0, <1>2, <2>2, <2>3, <2>4, <2>5, <3>1 DEF LinkFits, ListFits
        <4> QED  BY <4>1 DEF HeadFits
      <3>2. CASE next[t] # NULL
        <4> DEFINE h == next[t]
        <4>1. /\ h \in Listed /\ rank[h] < rank[t] /\ first' = index[h]
              /\ \A v \in Listed : rank[v] < rank[t] => rank[v] <= rank[h]
          BY <2>2, <2>5, <3>2 DEF LinkFits
        <4> HIDE DEF h
        <4>2. /\ first' # 0 /\ first' \in DOMAIN lo /\ lo[first'] = h
              /\ h \in Listed'
          BY <1>2, <2>3, <4>1, ListedOwners
        <4>3. \A v \in Listed' : rank[v] <= rank[h]
          BY <1>0, <1>2, <2>3, <2>4, <4>1 DEF ListFits
        <4> QED  BY <1>1, <4>2, <4>3 DEF HeadFits
      <3> QED  BY <3>1, <3>2
    <2>7. ASSUME NEW u \in Listed' PROVE LinkFits(rank, u)'
      <3>1. LinkFits(rank, u) /\ u \in Listed /\ rank[u] <= rank[t]
        BY <1>0, <2>3, <2>4, <2>7 DEF ListFits
      <3>2. next[u] # t
        BY <1>2, <3>1, NullAssumption DEF LinkFits
      <3> QED  BY <1>1, <2>3, <3>1, <3>2 DEF LinkFits
    <2>8. ListFits(rank)'
      BY <1>0, <2>3, <2>6, <2>7 DEF ListFits
    <2>9. \A v \in Threads \ {t} : WalkFits(rank, v)'
      BY <1>1, <1>2, <2>3, OthersWalk DEF Ranked
    <2>10. WalkFits(rank, t)'
      BY <2>1, <2>3 DEF WalkFits
    <2> QED  BY <2>8, <2>9, <2>10 DEF Ranked
  <1> QED  BY <1>3, <1>4

(* A waiter leaves the middle: its link passes to the preceding one.       *)
LEMMA RemoveFromPrecedingRanked ==
    ASSUME LockManagerInv, NEW rank \in [Threads -> Nat], Ranked(rank),
           NEW t \in Threads, StepOf(t), RemoveFromPreceding(t)
    PROVE  Ranked(rank)'
  <1>0. /\ LMTypeOK /\ WalkFits(rank, t) /\ ListFits(rank) /\ PlaceFits(t)
        /\ LocksFit(t)
    BY DEF LockManagerInv, Ranked
  <1>1. /\ mpc[t] = "r_prec"
        /\ UNCHANGED <<lo, first, index, wt>>
    BY DEF RemoveFromPreceding
  <1> PICK c \in Owner : c = cur[t]
    BY <1>0 DEF LMTypeOK
  <1>2. /\ t \in Listed /\ c \in Listed /\ c # t /\ next[c] = t
        /\ Listed \subseteq Threads /\ mutex[t] = t
    BY <1>0, <1>1 DEF Listed, WalkFits, PlaceFits, LocksFit, HeldBy
  <1>3. /\ nextIndex' = [nextIndex EXCEPT ![c] = nextIndex[t]]
        /\ next' = [next EXCEPT ![c] = next[t]]
        /\ mpc'[t] = "out"
    <2>1. /\ nextIndex' = [nextIndex EXCEPT ![c] = nextIndex[t]]
          /\ next' = [next EXCEPT ![c] = next[t]]
          /\ Leave(t)
      BY <1>2 DEF RemoveFromPreceding, WaitReturns
    <2> QED  BY <1>0, <2>1, LeaveFacts
  <1>4. /\ nextIndex'[c] = nextIndex[t] /\ next'[c] = next[t]
        /\ \A u \in Threads \ {c} : nextIndex'[u] = nextIndex[u]
                                    /\ next'[u] = next[u]
    BY <1>0, <1>2, <1>3 DEF LMTypeOK
  <1>5. Listed' = Listed \ {t}
    <2>1. t \notin Listed' /\ Listed' \subseteq Threads
      BY <1>3 DEF Listed
    <2> QED  BY <1>2, <2>1, ListedByStep
  <1>6. /\ rank[t] < rank[c]
        /\ \A v \in Listed : rank[v] < rank[c] => rank[v] <= rank[t]
    <2>1. LinkFits(rank, c)
      BY <1>0, <1>2 DEF ListFits
    <2> QED  BY <1>2, <2>1, NullAssumption DEF LinkFits
  <1>7. HeadFits(rank)'
    BY <1>0, <1>1, <1>2, <1>5, <1>6 DEF ListFits, HeadFits
  <1>8. LinkFits(rank, c)'
    <2>1. LinkFits(rank, t)
      BY <1>0, <1>2 DEF ListFits
    <2>2. CASE next[t] = NULL
      <3>1. nextIndex[t] = 0 /\ \A v \in Listed : rank[t] <= rank[v]
        BY <2>1, <2>2 DEF LinkFits
      <3>2. \A v \in Listed' : rank[c] <= rank[v]
        BY <1>0, <1>2, <1>5, <1>6, <3>1 DEF ListFits
      <3> QED  BY <1>4, <2>2, <3>1, <3>2 DEF LinkFits
    <2>3. CASE next[t] # NULL
      <3>1. /\ next[t] \in Listed /\ rank[next[t]] < rank[t]
            /\ nextIndex[t] = index[next[t]]
            /\ \A v \in Listed : rank[v] < rank[t] => rank[v] <= rank[next[t]]
        BY <2>1, <2>3 DEF LinkFits
      <3>2. next[t] \in Listed' /\ rank[next[t]] < rank[c]
        BY <1>2, <1>5, <1>6, <3>1
      <3>3. \A v \in Listed' : rank[v] < rank[c] => rank[v] <= rank[next[t]]
        BY <1>0, <1>2, <1>5, <1>6, <3>1 DEF ListFits
      <3> QED  BY <1>1, <1>4, <2>3, <3>1, <3>2, <3>3 DEF LinkFits
    <2> QED  BY <2>2, <2>3
  <1>9. ASSUME NEW u \in Listed' \ {c} PROVE LinkFits(rank, u)'
    <2>1. LinkFits(rank, u) /\ u \in Listed
      BY <1>0, <1>5 DEF ListFits
    <2>2. next[u] # t
      <3> SUFFICES ASSUME next[u] = t PROVE FALSE
        OBVIOUS
      <3>1. /\ rank[t] < rank[u]
            /\ \A v \in Listed : rank[v] < rank[u] => rank[v] <= rank[t]
        BY <1>2, <2>1, NullAssumption DEF LinkFits
      <3>2. rank[u] # rank[c]
        BY <1>0, <1>2, <2>1 DEF ListFits
      <3> QED  BY <1>2, <1>6, <2>1, <3>1, <3>2
    <2> QED  BY <1>1, <1>2, <1>4, <1>5, <2>1, <2>2 DEF LinkFits
  <1>10. ListFits(rank)'
    BY <1>0, <1>5, <1>7, <1>8, <1>9 DEF ListFits
  <1>11. \A v \in Threads \ {t} : WalkFits(rank, v)'
    BY <1>1, <1>2, <1>5, OthersWalk DEF Ranked
  <1>12. WalkFits(rank, t)'
    BY <1>3, <1>5 DEF WalkFits
  <1> QED  BY <1>10, <1>11, <1>12 DEF Ranked

-----------------------------------------------------------------------------
(* Initially the list is empty.                                            *)
LEMMA WaiterListInit == LMInit => WaiterListInv
  <1> SUFFICES ASSUME LMInit PROVE WaiterListInv
    OBVIOUS
  <1> DEFINE rank == [t \in Threads |-> 0]
  <1>1. Listed = {}
    BY DEF LMInit, Listed
  <1>2. ListFits(rank)
    BY <1>1 DEF LMInit, ListFits, HeadFits
  <1>3. \A t \in Threads : WalkFits(rank, t)
    BY <1>1 DEF LMInit, WalkFits
  <1>4. rank \in [Threads -> Nat]
    OBVIOUS
  <1> QED  BY <1>2, <1>3, <1>4, LMInitInv DEF WaiterListInv, Ranked

\* The invariant is inductive; only a waiter that prepends itself needs a new
\* rank, above all the others.
LEMMA WaiterListNext ==
    IndicesFit /\ WaiterListInv /\ ProgramNext => WaiterListInv'
  <1> SUFFICES ASSUME IndicesFit, WaiterListInv, ProgramNext
               PROVE  WaiterListInv'
    OBVIOUS
  <1>0. LockManagerInv /\ LockManagerInv'
    BY LMNextInv DEF WaiterListInv
  <1>1. PICK rank \in [Threads -> Nat] : Ranked(rank)
    BY DEF WaiterListInv
  <1>2. CASE Elsewhere
    <2>1. Ranked(rank)'
      BY <1>1, <1>2
         DEF Ranked, ListFits, HeadFits, LinkFits, WalkFits, Listed,
             Elsewhere, ownerVars, localVars
    <2> QED  BY <1>0, <2>1 DEF WaiterListInv
  <1>3. ASSUME NEW t \in Threads, LMCall(t) \/ LMStep(t)
        PROVE  \E rank2 \in [Threads -> Nat] : Ranked(rank2)'
    <2>1. StepOf(t)
      BY <1>0, <1>3, LMStepInv
    <2>2. \/ Ranked(rank)'
          \/ \E rank2 \in [Threads -> Nat] : Ranked(rank2)'
      BY <1>0, <1>1, <1>3, <2>1, CallRanked, RdlockRanked, SleepRanked,
         RegisterRanked, PrependRanked, RemoveFromHeadRanked, FindPrecRanked,
         RemoveFromPrecedingRanked, GetFirstRanked, LockFirstRanked,
         WakeUpRanked
         DEF LMStep
    <2> QED  BY <2>2
  <1> QED  BY <1>0, <1>2, <1>3 DEF ProgramNext, WaiterListInv

(* The inductive invariant of the list of waiters.                         *)
THEOREM WaiterListInvariant == IndicesFit /\ LMSpec => []WaiterListInv
  <1> SUFFICES ASSUME IndicesFit PROVE LMSpec => []WaiterListInv
    OBVIOUS
  <1>1. LMInit => WaiterListInv
    BY WaiterListInit
  <1>2. WaiterListInv /\ [LMNext]_lmVars => WaiterListInv'
    BY WaiterListNext, ManagerIsProgram
  <1> QED  BY <1>1, <1>2, PTL DEF LMSpec

(* Every walk from the head meets everyone in the list: if somebody was    *)
(* missed, so was the one of highest rank, and then the preceding one.     *)
LEMMA ReachedIsListed ==
    ASSUME LockManagerInv, NEW rank \in [Threads -> Nat], ListFits(rank)
    PROVE  Reached = Listed
  <1>0. Listed \subseteq Threads
    BY DEF Listed
  <1>1. Reached \subseteq Listed
    <2>1. first # 0 /\ lo[first] # NULL => lo[first] \in Listed
      BY DEF ListFits, HeadFits
    <2>2. \A v \in Listed : next[v] # NULL => next[v] \in Listed
      BY DEF ListFits, LinkFits
    <2>3. Listed \in SUBSET Threads
      BY <1>0
    <2> QED  BY <2>1, <2>2, <2>3 DEF Reached
  <1>2. ASSUME NEW S \in SUBSET Threads,
               first # 0 /\ lo[first] # NULL => lo[first] \in S,
               \A v \in S : next[v] # NULL => next[v] \in S
        PROVE  Listed \subseteq S
    <2> DEFINE Missed == Listed \ S
    <2> SUFFICES ASSUME Missed # {} PROVE FALSE
      OBVIOUS
    <2> DEFINE h == lo[first]
    <2>1. h \in Listed /\ h \in S /\ \A u \in Listed : rank[u] <= rank[h]
      BY <1>2, HeadIsListed
    <2> HIDE DEF h
    <2> DEFINE Below == {rank[h] - rank[u] : u \in Missed}
    <2>2. Below \subseteq Nat /\ Below # {}
      BY <1>0, <2>1
    <2>3. PICK d \in Below : \A e \in Below : d <= e
      BY <2>2, LowestElement
    <2>4. PICK u \in Missed : d = rank[h] - rank[u]
      BY <2>3
    <2>5. \A v \in Missed : rank[v] <= rank[u]
      <3> SUFFICES ASSUME NEW v \in Missed PROVE rank[v] <= rank[u]
        OBVIOUS
      <3>1. rank[h] - rank[u] <= rank[h] - rank[v]
        BY <2>3, <2>4
      <3> QED  BY <1>0, <2>1, <3>1
    <2> DEFINE Above == {rank[v] : v \in {w \in Listed : rank[u] < rank[w]}}
    <2>6. rank[u] < rank[h]
      BY <1>0, <2>1 DEF ListFits
    <2>7. Above \subseteq Nat /\ Above # {}
      BY <1>0, <2>1, <2>6
    <2>8. PICK r \in Above : \A e \in Above : r <= e
      BY <2>7, LowestElement
    <2>9. PICK p \in Listed : rank[u] < rank[p] /\ r = rank[p]
      BY <2>8
    <2>10. p \in S
      BY <1>0, <2>5, <2>9
    <2>11. LinkFits(rank, p)
      BY <2>9 DEF ListFits
    <2>12. next[p] # NULL
      BY <1>0, <2>9, <2>11 DEF LinkFits
    <2>13. /\ next[p] \in Listed /\ rank[next[p]] < rank[p]
           /\ rank[u] <= rank[next[p]]
      BY <2>9, <2>11, <2>12 DEF LinkFits
    <2>14. ~(rank[u] < rank[next[p]])
      <3> SUFFICES ASSUME rank[u] < rank[next[p]] PROVE FALSE
        OBVIOUS
      <3>1. rank[next[p]] \in Above
        BY <2>13
      <3> QED  BY <1>0, <2>8, <2>9, <2>13, <3>1
    <2>15. next[p] = u
      BY <1>0, <2>13, <2>14 DEF ListFits
    <2> QED  BY <1>2, <2>10, <2>12, <2>15
  <1>3. Listed \subseteq Reached
    BY <1>0, <1>2 DEF Reached
  <1> QED  BY <1>1, <1>3

\* What the invariant says of the list.
LEMMA InvKeepsListIntact == WaiterListInv => ListIsIntact
  <1> SUFFICES ASSUME WaiterListInv PROVE ListIsIntact
    OBVIOUS
  <1>1. PICK rank \in [Threads -> Nat] : ListFits(rank)
    BY DEF WaiterListInv, Ranked
  <1>2. Reached = Listed
    BY <1>1, ReachedIsListed DEF WaiterListInv
  <1>3. ASSUME NEW u \in Listed, NEW v \in Listed, next[u] = next[v]
        PROVE  u = v
    <2>1. LinkFits(rank, u) /\ LinkFits(rank, v)
      BY <1>1 DEF ListFits
    <2>2. u \in Threads /\ v \in Threads
      BY DEF Listed
    <2>3. rank[u] = rank[v]
      <3>1. CASE next[u] = NULL
        BY <1>3, <2>1, <2>2, <3>1 DEF LinkFits
      <3>2. CASE next[u] # NULL
        <4>1. next[u] \in Threads
          BY <2>1, <3>2 DEF LinkFits, Listed
        <4> QED  BY <1>3, <2>1, <2>2, <3>2, <4>1 DEF LinkFits
      <3> QED  BY <3>1, <3>2
    <2> QED  BY <1>1, <2>3 DEF ListFits
  <1>4. \A u \in Listed : IF next[u] = NULL
                          THEN nextIndex[u] = 0
                          ELSE nextIndex[u] = index[next[u]]
    BY <1>1 DEF ListFits, LinkFits
  <1> QED  BY <1>2, <1>3, <1>4 DEF ListIsIntact

(* The list meets exactly the waiters, each once, and links and link       *)
(* indices agree, however threads enter, leave and walk it.                *)
THEOREM WaiterListStaysIntact == IndicesFit /\ LMSpec => []ListIsIntact
  BY InvKeepsListIntact, WaiterListInvariant, PTL

\* What the invariant says of the assertions.
LEMMA InvKeepsAssertions == WaiterListInv => NoAssertionFails
  <1> SUFFICES ASSUME WaiterListInv, NEW t \in Threads
               PROVE  /\ mpc[t] # "abort"
                      /\ mpc[t] \in {"w_cas", "g_lock"}
                            => seen[t] \in DOMAIN lo
                      /\ mpc[t] = "k_wake" =>
                            picked[t] = NULL \/ kind[picked[t]] # "none"
    BY DEF NoAssertionFails
  <1>1. PICK rank \in [Threads -> Nat] : WalkFits(rank, t)
    BY DEF WaiterListInv, Ranked
  <1>2. mpc[t] = "w_cas" => seen[t] \in DOMAIN lo
    BY TableDomain
       DEF WaiterListInv, LockManagerInv, PlaceFits, TableFits
  <1> QED  BY <1>1, <1>2 DEF WalkFits

(* No assertion of the lock manager fails and no NULL owner is locked.     *)
THEOREM AssertionsHold == IndicesFit /\ LMSpec => []NoAssertionFails
  BY InvKeepsAssertions, WaiterListInvariant, PTL
=============================================================================
