------------------------- MODULE RWLockSystemProofs -------------------------
(***************************************************************************)
(* Proofs about the lock word together with the list of waiters, for any   *)
(* finite set of threads.  They compose the invariants of RWLockProofs and *)
(* LockManagerProofs, instantiated for the shared variables: the lock       *)
(* manager changes of the lock word only the index field, and only to a    *)
(* value that fits into it, and a lock operation changes only the counter. *)
(***************************************************************************)
EXTENDS RWLockSystem, FiniteSetTheorems, TLAPS

RWP == INSTANCE RWLockProofs
LMP == INSTANCE LockManagerProofs WITH Writers <- {}, WriterPreferring <- FALSE

(* Both modules speak of the same finite sets and the same cardinalities.  *)
LEMMA SameFiniteSets ==
    ASSUME NEW S
    PROVE  /\ RWP!IsFiniteSet(S) <=> IsFiniteSet(S)
           /\ LMP!IsFiniteSet(S) <=> IsFiniteSet(S)
  BY DEF IsFiniteSet, RWP!IsFiniteSet, LMP!IsFiniteSet

(* The assumptions of the two modules hold.                                *)
LEMMA PartsAssumptions ==
    /\ RWP!ThreadsAssumption
    /\ RWP!WriterCounterAssumption
    /\ RWP!MaxIndexAssumption
    /\ LMP!OwnersAssumption
    /\ LMP!ListHeadAssumption
    /\ LMP!PreferenceAssumption
    /\ LMP!CallsAssumption
    /\ LMP!NullAssumption
  BY ThreadsAssumption, WriterCounterAssumption, MaxIndexAssumption,
     CallsAssumption, SameFiniteSets
     DEF RWP!ThreadsAssumption, RWP!WriterCounterAssumption,
         RWP!MaxIndexAssumption, LMP!OwnersAssumption,
         LMP!ListHeadAssumption, LMP!PreferenceAssumption,
         LMP!CallsAssumption, LMP!NullAssumption

(* The invariants of the two parts are inductive.                          *)
LEMMA LockWordPart ==
    /\ RWP!Init => RWP!LockInv
    /\ RWP!LockInv /\ [RWP!Next]_(RWP!vars) => RWP!LockInv'
  BY PartsAssumptions, RWP!InitInv, RWP!NextInv

\* The invariant of the lock manager holds at first and through its calls.
LEMMA ManagerPart ==
    /\ LMP!LMInit => LMP!LockManagerInv
    /\ LMP!LockManagerInv /\ LMP!ProgramNext => LMP!LockManagerInv'
  BY PartsAssumptions, LMP!LMInitInv, LMP!LMNextInv

\* So does the invariant of the list of waiters.
LEMMA ListPart ==
    /\ LMP!LMInit => LMP!WaiterListInv
    /\ LMP!IndicesFit /\ LMP!WaiterListInv /\ LMP!ProgramNext
          => LMP!WaiterListInv'
  BY PartsAssumptions, LMP!WaiterListInit, LMP!WaiterListNext
-----------------------------------------------------------------------------
(* The steps of module LockManager are those that LockManagerProofs is      *)
(* about.                                                                  *)
LEMMA SameRegistration ==
    ASSUME NEW t \in Threads
    PROVE  /\ LM!picotm_lock_manager_register_owner(t)
                 => LMP!picotm_lock_manager_register_owner(t)
           /\ LM!picotm_lock_manager_unregister_owner(t)
                 => LMP!picotm_lock_manager_unregister_owner(t)
  BY DEF LM!picotm_lock_manager_register_owner,
         LMP!picotm_lock_manager_register_owner,
         LM!picotm_lock_manager_unregister_owner,
         LMP!picotm_lock_manager_unregister_owner,
         LM!grow_lo_array, LMP!grow_lo_array, LM!Vacant, LMP!Vacant,
         LM!Lowest, LMP!Lowest, LM!Goto, LMP!Goto,
         LM!Cardinality, LMP!Cardinality

\* Waiting is the same operation, whichever list it is about.
LEMMA SameWait ==
    ASSUME NEW t \in Threads
    PROVE  /\ LM!WaitRdlock(t) => LMP!WaitRdlock(t)
           /\ LM!WaitLockOwner(t) => LMP!WaitLockOwner(t)
           /\ LM!lock_and_prepend_waiter(t) => LMP!lock_and_prepend_waiter(t)
           /\ LM!picotm_lock_owner_wait_until(t)
                 => LMP!picotm_lock_owner_wait_until(t)
           /\ LM!RemoveRdlock(t) => LMP!RemoveRdlock(t)
           /\ LM!RemoveFromHead(t) => LMP!RemoveFromHead(t)
           /\ LM!find_prec_waiter(t) => LMP!find_prec_waiter(t)
           /\ LM!RemoveFromPreceding(t) => LMP!RemoveFromPreceding(t)
  BY DEF LM!WaitRdlock, LMP!WaitRdlock, LM!WaitLockOwner, LMP!WaitLockOwner,
         LM!lock_and_prepend_waiter, LMP!lock_and_prepend_waiter,
         LM!picotm_lock_owner_wait_until, LMP!picotm_lock_owner_wait_until,
         LM!RemoveRdlock, LMP!RemoveRdlock,
         LM!RemoveFromHead, LMP!RemoveFromHead,
         LM!find_prec_waiter, LMP!find_prec_waiter,
         LM!RemoveFromPreceding, LMP!RemoveFromPreceding,
         LM!WaitReturns, LMP!WaitReturns, LM!Leave, LMP!Leave,
         LM!Mutexes, LMP!Mutexes, LM!Rdlock, LMP!Rdlock,
         LM!RdUnlock, LMP!RdUnlock, LM!rw_index_bits, LMP!rw_index_bits,
         LM!Goto, LMP!Goto, LM!ownerVars, LMP!ownerVars

\* Waking up is the same operation, too.
LEMMA SameWakeUp ==
    ASSUME NEW t \in Threads
    PROVE  /\ LM!GetFirstIndex(t) => LMP!GetFirstIndex(t)
           /\ LM!LockFirstWaiter(t) => LMP!LockFirstWaiter(t)
           /\ LM!WakeUpRdlock(t) => LMP!WakeUpRdlock(t)
           /\ LM!PickExamine(t) => LMP!PickExamine(t)
           /\ LM!PickNext(t) => LMP!PickNext(t)
           /\ LM!WakeUpPicked(t) => LMP!WakeUpPicked(t)
           /\ LM!WakeUpReaders(t) => LMP!WakeUpReaders(t)
  BY DEF LM!GetFirstIndex, LMP!GetFirstIndex,
         LM!LockFirstWaiter, LMP!LockFirstWaiter,
         LM!WakeUpRdlock, LMP!WakeUpRdlock, LM!PickExamine, LMP!PickExamine,
         LM!PickNext, LMP!PickNext, LM!WakeUpPicked, LMP!WakeUpPicked,
         LM!WakeUpReaders, LMP!WakeUpReaders,
         LM!NoFirstWaiter, LMP!NoFirstWaiter, LM!StillFirst, LMP!StillFirst,
         LM!Outpicked, LMP!Outpicked, LM!Passed, LMP!Passed,
         LM!Leave, LMP!Leave, LM!Mutexes, LMP!Mutexes,
         LM!Rdlock, LMP!Rdlock, LM!RdUnlock, LMP!RdUnlock,
         LM!Goto, LMP!Goto, LM!ownerVars, LMP!ownerVars

\* All calls of the lock manager are the same.
LEMMA SameManager ==
    ASSUME NEW t \in Threads
    PROVE  LM!LMStep(t) => LMP!LMStep(t)
  BY SameRegistration, SameWait, SameWakeUp DEF LM!LMStep, LMP!LMStep

\* The calls that the lock makes are calls of the lock manager.
LEMMA SameCalls ==
    ASSUME NEW t \in Threads
    PROVE  /\ LM!RegisterCall(t) => LMP!RegisterCall(t)
           /\ LM!UnregisterCall(t) => LMP!UnregisterCall(t)
           /\ LM!WaitCall(t) => LMP!WaitCall(t)
           /\ LM!WakeUpCall(t) => LMP!WakeUpCall(t)
           /\ LM!CountCall(t) => LMP!CountCall(t)
  BY DEF LM!RegisterCall, LMP!RegisterCall, LM!UnregisterCall,
         LMP!UnregisterCall, LM!WaitCall, LMP!WaitCall, LM!WakeUpCall,
         LMP!WakeUpCall, LM!CountCall, LMP!CountCall, LM!Begin, LMP!Begin,
         LM!Goto, LMP!Goto, LM!ownerVars, LMP!ownerVars

-----------------------------------------------------------------------------
(* A thread that is in the lock manager for more than its registration is  *)
(* in a lock operation, which waits for it or wakes up others.             *)
PhaseFits(t) ==
    /\ inManager[t] => pc[t] \in {"wait", "wake"}
    /\ mpc[t] \notin {"out", "register", "unregister"} => inManager[t]

SysInv ==
    /\ RWP!LockInv
    /\ LMP!LockManagerInv
    /\ inManager \in [Threads -> BOOLEAN]
    /\ \A t \in Threads : PhaseFits(t)

(* Where a step of thread t takes it, and that it takes nobody else        *)
(* anywhere.                                                               *)
LEMMA WordSteps ==
    ASSUME RWP!TypeOK, NEW t \in Threads,
           \/ RW!picotm_rwstate_try_rdlock(t)
           \/ RW!picotm_rwstate_try_wrlock(t)
           \/ RW!picotm_rwstate_unlock(t)
           \/ RW!Load(t) \/ RW!TryFails(t) \/ RW!CasSucceeds(t)
           \/ RW!CasFails(t) \/ RW!Subtract(t)
           \/ RW!Waited(t) \/ RW!WokenUp(t)
    PROVE  /\ first' = first
           /\ \A v \in Threads \ {t} : pc'[v] = pc[v]
  <1>1. pc \in [Threads -> {"idle", "load", "cas", "wait", "sub", "wake"}]
    BY DEF RWP!TypeOK
  <1>2. first' = first
    BY DEF RW!picotm_rwstate_try_rdlock, RW!picotm_rwstate_try_wrlock,
           RW!picotm_rwstate_unlock, RW!Call, RW!Load, RW!TryFails,
           RW!CasSucceeds, RW!CasFails, RW!Subtract, RW!Waited, RW!WokenUp,
           RW!Refused, RW!wordVars
  <1>3. pc' = pc \/ \E p : pc' = [pc EXCEPT ![t] = p]
    BY DEF RW!picotm_rwstate_try_rdlock, RW!picotm_rwstate_try_wrlock,
           RW!picotm_rwstate_unlock, RW!Call, RW!Load, RW!TryFails,
           RW!CasSucceeds, RW!CasFails, RW!Subtract, RW!Waited, RW!WokenUp,
           RW!Refused, RW!UnlockReturns, RW!Return, RW!wordVars
  <1> QED  BY <1>1, <1>2, <1>3

(* Every step of the lock word is one that RWLockProofs is about.          *)
LEMMA SameWordSteps ==
    ASSUME NEW t \in Threads,
           \/ RW!picotm_rwstate_try_rdlock(t)
           \/ RW!picotm_rwstate_try_wrlock(t)
           \/ RW!picotm_rwstate_unlock(t)
           \/ RW!Load(t) \/ RW!TryFails(t) \/ RW!CasSucceeds(t)
           \/ RW!CasFails(t) \/ RW!Subtract(t)
           \/ RW!Waited(t) \/ RW!WokenUp(t)
    PROVE  RW!Next
  BY DEF RW!Next, RW!LockStep

\* What RWLockProofs says of a step of the lock word holds here.
LEMMA SameWord ==
    /\ RW!Init => RWP!Init
    /\ RW!Next => RWP!Next
  BY DEF RW!Init, RWP!Init, RW!Next, RWP!Next,
         RW!LockStep, RWP!LockStep, RW!NoWord, RWP!NoWord,
         RW!Indices, RWP!Indices, RW!SetIndex, RWP!SetIndex,
         RW!localVars, RWP!localVars, RW!wordVars, RWP!wordVars,
         RW!picotm_rwstate_try_rdlock, RWP!picotm_rwstate_try_rdlock,
         RW!picotm_rwstate_try_wrlock, RWP!picotm_rwstate_try_wrlock,
         RW!picotm_rwstate_unlock, RWP!picotm_rwstate_unlock,
         RW!Call, RWP!Call, RW!Return, RWP!Return, RW!Load, RWP!Load,
         RW!Word, RWP!Word, RW!Refuses, RWP!Refuses,
         RW!Granted, RWP!Granted, RW!Refused, RWP!Refused,
         RW!TryFails, RWP!TryFails, RW!CasSucceeds, RWP!CasSucceeds,
         RW!CasFails, RWP!CasFails, RW!Waited, RWP!Waited,
         RW!Held, RWP!Held, RW!UnlockReturns, RWP!UnlockReturns,
         RW!Subtract, RWP!Subtract, RW!WokenUp, RWP!WokenUp

\* The lock manager begins in the same states.
LEMMA SameManagerInit == LM!LMInit => LMP!LMInit
  BY DEF LM!LMInit, LMP!LMInit

-----------------------------------------------------------------------------
(* What a step of the whole system is to its two parts, and to the phases  *)
(* of its threads.                                                         *)
PartsStep ==
    /\ RW!Next \/ UNCHANGED RW!vars
    /\ LMP!ProgramNext
    /\ inManager' \in [Threads -> BOOLEAN]
    /\ \A t \in Threads : PhaseFits(t)'

(* A step that leaves the lock manager alone.                              *)
LEMMA ManagerRests ==
    ASSUME UNCHANGED <<lmOnly, first>>,
           calls' = calls \/ \E t \in Threads : LM!CountCall(t)
    PROVE  LMP!ProgramNext
  BY SameCalls DEF LMP!ProgramNext, LMP!Elsewhere, LMP!CallsCounted, lmOnly,
                   LMP!ownerVars, LMP!localVars

(* The other threads stay where they are.                                  *)
LEMMA OthersPhase ==
    ASSUME SysInv, NEW t \in Threads, PhaseFits(t)',
           \A v \in Threads \ {t} : /\ pc'[v] = pc[v] /\ mpc'[v] = mpc[v]
                                    /\ inManager'[v] = inManager[v]
    PROVE  \A v \in Threads : PhaseFits(v)'
  BY DEF SysInv, PhaseFits

\* Registering and unregistering fit the phases and leave the word alone.
LEMMA SetupStep ==
    ASSUME SysInv, NEW t \in Threads, Setup(t)
    PROVE  PartsStep
  <1>1. UNCHANGED rwOnly /\ first' = first /\ inManager' = inManager
    BY DEF Setup, LM!RegisterCall, LM!UnregisterCall, LM!Begin
  <1>2. LMP!LMCall(t)
    BY SameCalls DEF Setup, LMP!LMCall, LMP!CallsCounted
  <1>3. PICK l \in {"register", "unregister"} : mpc' = [mpc EXCEPT ![t] = l]
    BY DEF Setup, LM!RegisterCall, LM!UnregisterCall, LM!Begin, LM!Goto
  <1>4. mpc \in [Threads -> LMP!MPCs]
    BY DEF SysInv, LMP!LockManagerInv, LMP!LMTypeOK
  <1>5. PhaseFits(t)'
    BY <1>1, <1>3, <1>4 DEF SysInv, PhaseFits, rwOnly
  <1>6. \A v \in Threads : PhaseFits(v)'
    BY <1>1, <1>3, <1>4, <1>5, OthersPhase DEF rwOnly
  <1> QED  BY <1>1, <1>2, <1>6
              DEF PartsStep, SysInv, RW!vars, rwOnly, LMP!ProgramNext

\* A load, a swap or a subtraction leaves the lock manager alone.
LEMMA LockOperationStep ==
    ASSUME SysInv, NEW t \in Threads,
           CallLock(t) \/ CallUnlock(t) \/ AccessWord(t)
    PROVE  PartsStep
  <1>1. UNCHANGED <<lmOnly, inManager>>
    BY DEF CallLock, CallUnlock, AccessWord
  <1>2. calls' = calls \/ LM!CountCall(t)
    BY DEF CallLock, CallUnlock, AccessWord
  <1>3. \/ RW!picotm_rwstate_try_rdlock(t)
        \/ RW!picotm_rwstate_try_wrlock(t)
        \/ RW!picotm_rwstate_unlock(t)
        \/ RW!Load(t) \/ RW!TryFails(t) \/ RW!CasSucceeds(t)
        \/ RW!CasFails(t) \/ RW!Subtract(t)
    BY DEF CallLock, CallUnlock, AccessWord
  <1>4. /\ RW!Next /\ first' = first
        /\ \A v \in Threads \ {t} : pc'[v] = pc[v]
    BY <1>3, WordSteps, SameWordSteps DEF SysInv, RWP!LockInv
  <1>5. pc[t] \in {"idle", "load", "cas", "sub"}
    BY <1>3 DEF RW!picotm_rwstate_try_rdlock, RW!picotm_rwstate_try_wrlock,
           RW!picotm_rwstate_unlock, RW!Call, RW!Load, RW!TryFails,
           RW!CasSucceeds, RW!CasFails, RW!Subtract
  <1>6. PhaseFits(t)'
    BY <1>1, <1>5 DEF SysInv, PhaseFits, lmOnly
  <1>7. \A v \in Threads : PhaseFits(v)'
    BY <1>1, <1>4, <1>6, OthersPhase DEF lmOnly
  <1>8. LMP!ProgramNext
    BY <1>1, <1>2, <1>4, ManagerRests DEF lmOnly
  <1> QED  BY <1>1, <1>4, <1>7, <1>8 DEF PartsStep, SysInv

\* A thread that enters the lock manager begins one of its calls.
LEMMA EnterStep ==
    ASSUME SysInv, NEW t \in Threads, EnterManager(t)
    PROVE  PartsStep
  <1>1. /\ UNCHANGED <<rwOnly, first, calls>>
        /\ inManager' = [inManager EXCEPT ![t] = TRUE]
        /\ pc[t] \in {"wait", "wake"}
    BY DEF EnterManager, LM!WaitCall, LM!WakeUpCall, LM!Begin
  <1>2. LMP!LMCall(t)
    BY SameCalls DEF EnterManager, LMP!LMCall, LMP!CallsCounted
  <1>3. PICK l \in {"w_rdlock", "k_rdlock"} : mpc' = [mpc EXCEPT ![t] = l]
    BY DEF EnterManager, LM!WaitCall, LM!WakeUpCall, LM!Begin, LM!Goto
  <1>4. /\ mpc \in [Threads -> LMP!MPCs]
        /\ inManager \in [Threads -> BOOLEAN]
    BY DEF SysInv, LMP!LockManagerInv, LMP!LMTypeOK
  <1>5. PhaseFits(t)'
    BY <1>1, <1>4 DEF PhaseFits, rwOnly
  <1>6. \A v \in Threads : PhaseFits(v)'
    BY <1>1, <1>3, <1>4, <1>5, OthersPhase DEF rwOnly
  <1>7. inManager' \in [Threads -> BOOLEAN]
    BY <1>1, <1>4
  <1> QED  BY <1>1, <1>2, <1>6, <1>7
              DEF PartsStep, RW!vars, rwOnly, LMP!ProgramNext

\* A thread that leaves the lock manager goes on in the lock.
LEMMA LeaveStep ==
    ASSUME SysInv, NEW t \in Threads, YoungTransaction(t) \/ LeaveManager(t)
    PROVE  PartsStep
  <1>1. UNCHANGED <<lmOnly, calls>>
    BY DEF YoungTransaction, LeaveManager
  <1>2. /\ RW!Next /\ first' = first
        /\ \A v \in Threads \ {t} : pc'[v] = pc[v]
    BY WordSteps, SameWordSteps
       DEF YoungTransaction, LeaveManager, SysInv, RWP!LockInv
  <1>3. inManager \in [Threads -> BOOLEAN]
    BY DEF SysInv
  <1>4. /\ inManager' \in [Threads -> BOOLEAN]
        /\ ~inManager'[t]
        /\ \A v \in Threads \ {t} : inManager'[v] = inManager[v]
    BY <1>3 DEF YoungTransaction, LeaveManager
  <1>5. mpc[t] \in {"out", "register", "unregister"}
    BY DEF YoungTransaction, LeaveManager, SysInv, PhaseFits
  <1>6. PhaseFits(t)'
    BY <1>1, <1>4, <1>5 DEF PhaseFits, lmOnly
  <1>7. \A v \in Threads : PhaseFits(v)'
    BY <1>1, <1>2, <1>4, <1>6, OthersPhase DEF lmOnly
  <1>8. LMP!ProgramNext
    BY <1>1, <1>2, ManagerRests DEF lmOnly
  <1> QED  BY <1>2, <1>4, <1>7, <1>8 DEF PartsStep

\* Inside the lock manager a thread goes on or returns.
LEMMA ManagerPlaces ==
    ASSUME mpc \in [Threads -> LMP!MPCs], NEW t \in Threads, LM!LMStep(t)
    PROVE  mpc'[t] \in {"out", "register", "unregister"}
              \/ mpc[t] \notin {"out", "register", "unregister"}
  BY DEF LM!LMStep, LM!picotm_lock_manager_register_owner,
         LM!picotm_lock_manager_unregister_owner, LM!WaitRdlock,
         LM!WaitLockOwner, LM!lock_and_prepend_waiter,
         LM!picotm_lock_owner_wait_until, LM!RemoveRdlock,
         LM!RemoveFromHead, LM!find_prec_waiter, LM!RemoveFromPreceding,
         LM!GetFirstIndex, LM!LockFirstWaiter, LM!WakeUpRdlock,
         LM!PickExamine, LM!PickNext, LM!WakeUpPicked, LM!WakeUpReaders,
         LM!Goto

\* A step inside the lock manager is one of its calls' steps.
LEMMA InManagerStep ==
    ASSUME SysInv, NEW t \in Threads, InManager(t)
    PROVE  PartsStep
  <1>1. UNCHANGED rwOnly /\ inManager' = inManager /\ LM!LMStep(t)
    BY DEF InManager
  <1>2. LMP!LMStep(t)
    BY <1>1, SameManager
  <1>3. LMP!LockManagerInv' /\ LMP!StepOf(t)
    BY <1>2, PartsAssumptions, LMP!LMStepInv DEF SysInv
  <1>4. first' \in RW!Indices
    BY <1>3 DEF LMP!LockManagerInv, LMP!LMTypeOK, RW!Indices
  <1>5. RW!SetIndex(first')
    BY <1>1 DEF RW!SetIndex, RW!localVars, rwOnly
  <1>6. PhaseFits(t)'
    BY <1>1, ManagerPlaces
       DEF SysInv, PhaseFits, rwOnly, LMP!LockManagerInv, LMP!LMTypeOK
  <1>7. \A v \in Threads \ {t} : mpc'[v] = mpc[v]
    BY <1>3 DEF LMP!StepOf
  <1>8. \A v \in Threads : PhaseFits(v)'
    BY <1>1, <1>6, <1>7, OthersPhase DEF rwOnly
  <1> QED  BY <1>1, <1>2, <1>4, <1>5, <1>8
              DEF PartsStep, SysInv, RW!Next, LMP!ProgramNext

(* Every step of the system, or none, is a step of each part, or none.     *)
LEMMA SystemStep ==
    ASSUME SysInv, [SysNext]_sysVars
    PROVE  PartsStep
  <1>1. CASE SysNext
    BY <1>1, SetupStep, LockOperationStep, EnterStep, LeaveStep,
       InManagerStep
       DEF SysNext, Progress
  <1>2. CASE UNCHANGED sysVars
    <2>1. UNCHANGED <<rwOnly, first, lmOnly, calls, inManager>>
      BY <1>2 DEF sysVars
    <2>2. LMP!ProgramNext
      BY <2>1, ManagerRests
    <2>3. \A v \in Threads : PhaseFits(v)'
      BY <2>1 DEF SysInv, PhaseFits, rwOnly, lmOnly
    <2> QED  BY <2>1, <2>2, <2>3 DEF PartsStep, SysInv, RW!vars, rwOnly
  <1> QED  BY <1>1, <1>2

\* The invariant holds at first.
LEMMA SysInitInv == SysInit => SysInv
  <1> SUFFICES ASSUME SysInit PROVE SysInv
    OBVIOUS
  <1>1. RWP!LockInv /\ LMP!LockManagerInv
    BY SameWord, SameManagerInit, LockWordPart, ManagerPart DEF SysInit
  <1>2. inManager \in [Threads -> BOOLEAN] /\ \A t \in Threads : PhaseFits(t)
    BY DEF SysInit, LM!LMInit, PhaseFits
  <1> QED  BY <1>1, <1>2 DEF SysInv

\* Every step preserves the invariant.
LEMMA SysNextInv == SysInv /\ [SysNext]_sysVars => SysInv'
  <1> SUFFICES ASSUME SysInv, [SysNext]_sysVars PROVE SysInv'
    OBVIOUS
  <1>1. PartsStep
    BY SystemStep
  <1>2. RWP!LockInv'
    <2>1. UNCHANGED RW!vars => UNCHANGED RWP!vars
      BY DEF RW!vars, RWP!vars
    <2> QED  BY <1>1, <2>1, SameWord, LockWordPart DEF SysInv, PartsStep
  <1>3. LMP!LockManagerInv'
    BY <1>1, ManagerPart DEF SysInv, PartsStep
  <1> QED  BY <1>1, <1>2, <1>3 DEF SysInv, PartsStep

(* The inductive invariant: those of the two parts, and who of the threads *)
(* in the lock manager is in which lock operation.                         *)
THEOREM SystemInvariant == SysSpec => []SysInv
  BY SysInitInv, SysNextInv, PTL DEF SysSpec

(* The lock manager's accesses to the index field and the lock operations' *)
(* accesses to the counter do not disturb each other: together they are    *)
(* still steps of the lock word of module RWLock.                          *)
THEOREM SystemImplementsLockWord == SysSpec => ImplementsRWLockWord
  <1>1. SysInit => RW!Init
    BY DEF SysInit
  <1>2. SysInv /\ [SysNext]_sysVars => [RW!Next]_(RW!vars)
    BY SystemStep DEF PartsStep
  <1> QED  BY <1>1, <1>2, SystemInvariant, PTL
           DEF SysSpec, ImplementsRWLockWord

(* So mutual exclusion holds with the real lock manager, too.              *)
THEOREM SystemExcludes ==
    SysSpec => [](RW!CounterCountsHolders /\ RW!UnlockKnowsItsMode)
  <1>1. SysInv => RW!CounterCountsHolders /\ RW!UnlockKnowsItsMode
    BY DEF SysInv, RWP!LockInv, RWP!CounterCountsHolders,
           RW!CounterCountsHolders, RWP!UnlockKnowsItsMode,
           RW!UnlockKnowsItsMode, RW!Writers, RWP!Writers, RW!Readers,
           RWP!Readers, RW!Holders, RWP!Holders, RW!Cardinality,
           RWP!Cardinality
  <1> QED  BY <1>1, SystemInvariant, PTL

-----------------------------------------------------------------------------
(* The field of the list head has room for every owner's index: without    *)
(* that the list of waiters breaks, see LockManagerProofs.                  *)
IndicesFit == Cardinality(Threads) <= MAX_INDEX

\* The hypothesis about the indices means the same in both modules.
LEMMA SameIndicesFit == IndicesFit => LMP!IndicesFit
  BY DEF IndicesFit, LMP!IndicesFit, Cardinality, LMP!Cardinality

(* The list of waiters has its invariant in the whole system, too.         *)
THEOREM SystemListInvariant ==
    IndicesFit /\ SysSpec => [](SysInv /\ LMP!WaiterListInv)
  <1> SUFFICES ASSUME IndicesFit PROVE SysSpec => [](SysInv /\ LMP!WaiterListInv)
    OBVIOUS
  <1>1. SysInit => LMP!WaiterListInv
    BY SameManagerInit, ListPart DEF SysInit
  <1>2. SysInv /\ LMP!WaiterListInv /\ [SysNext]_sysVars
           => LMP!WaiterListInv'
    BY SameIndicesFit, SystemStep, ListPart DEF PartsStep
  <1> QED  BY <1>1, <1>2, SystemInvariant, PTL DEF SysSpec

(* The list of waiters stays intact while its head shares the lock byte    *)
(* with the counter of holders, and no assertion fails.                    *)
THEOREM SystemListStaysIntact ==
    IndicesFit /\ SysSpec => []WaiterListIsIntact
  <1>1. LMP!WaiterListInv => LMP!ListIsIntact /\ LMP!NoAssertionFails
    BY PartsAssumptions, LMP!InvKeepsListIntact, LMP!InvKeepsAssertions
  <1>2. LMP!ListIsIntact => LM!ListIsIntact
    BY DEF LMP!ListIsIntact, LM!ListIsIntact, LMP!Reached, LM!Reached,
           LMP!Listed, LM!Listed
  <1>3. LMP!NoAssertionFails => LM!NoAssertionFails
    BY DEF LMP!NoAssertionFails, LM!NoAssertionFails
  <1>4. LMP!WaiterListInv => WaiterListIsIntact
    BY <1>1, <1>2, <1>3 DEF WaiterListIsIntact
  <1> QED  BY <1>4, SystemListInvariant, PTL

(* A lock that nobody holds and nobody is about to use is free: neither a  *)
(* holder is left in its counter nor a waiter in its index.                *)
THEOREM SystemLeavesLockFree ==
    IndicesFit /\ SysSpec => []QuiescentLockIsFree
  <1>1. ASSUME SysInv, LMP!WaiterListInv,
               \A t \in Threads : pc[t] = "idle" /\ status[t] = "UNLOCKED"
        PROVE  counter = 0 /\ first = 0
    <2>1. RWP!Readers = {} /\ RWP!Writers = {}
      BY <1>1 DEF RWP!Readers, RWP!Writers, RWP!Holders
    <2>2. counter = RWP!Cardinality({})
      BY <1>1, <2>1 DEF SysInv, RWP!LockInv, RWP!CounterCountsHolders
    <2>3. RWP!Cardinality({}) = Cardinality({})
      BY DEF RWP!Cardinality, Cardinality
    <2>4. LMP!Listed = {}
      BY <1>1 DEF SysInv, PhaseFits, LMP!Listed
    <2>5. first = 0
      BY <1>1, <2>4
         DEF LMP!WaiterListInv, LMP!Ranked, LMP!ListFits, LMP!HeadFits
    <2> QED  BY <2>2, <2>3, <2>5, FS_EmptySet
  <1>2. SysInv /\ LMP!WaiterListInv => QuiescentLockIsFree
    BY <1>1 DEF QuiescentLockIsFree
  <1> QED  BY <1>2, SystemListInvariant, PTL
=============================================================================
