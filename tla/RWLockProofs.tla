---------------------------- MODULE RWLockProofs ----------------------------
(***************************************************************************)
(* Proofs about module RWLock, for every finite set of threads and every   *)
(* width of the two bit fields: type correctness, mutual exclusion and     *)
(* that the lock word implements RWLockAbstract.                           *)
(*                                                                         *)
(* CounterCountsHolders is not inductive alone: a step also relies on the  *)
(* rwstate that each operation was called in (OpFitsStatus) and on the     *)
(* word that unlock has loaded (UnlockKnowsItsMode).                       *)
(***************************************************************************)
EXTENDS RWLock, FiniteSetTheorems, TLAPS

(* Which rwstate the lock had when the operation of a thread was called,   *)
(* and which steps belong to which operation.                              *)
OpFitsStatus ==
    \A t \in Threads :
        /\ pc[t] = "idle" <=> op[t] = "none"
        /\ pc[t] \in {"cas", "wait"} => op[t] \in LockOps
        /\ pc[t] \in {"sub", "wake"} => op[t] = "unlock"
        /\ op[t] \in {"rdlock", "wrlock"} => status[t] = "UNLOCKED"
        /\ op[t] = "uplock" => status[t] = "RDLOCKED"
        /\ op[t] = "unlock" => status[t] # "UNLOCKED"

LockInv ==
    TypeOK /\ OpFitsStatus /\ UnlockKnowsItsMode /\ CounterCountsHolders

-----------------------------------------------------------------------------
(* The records that a word is loaded into.                                 *)
LEMMA WordType ==
    /\ NoWord \in Words
    /\ counter \in Counters /\ first \in Indices => Word \in Words
    /\ \A w \in Words : w.counter \in Counters /\ w.index \in Indices
BY WriterCounterAssumption, MaxIndexAssumption
   DEF NoWord, Words, Word, Counters, Indices

(* The counter stays in its bit field: a swap only adds a reader while one *)
(* more fits, and unlock only subtracts what its thread has added.         *)
LEMMA CounterStaysInField ==
    ASSUME LockInv, NEW t \in Threads, CasSucceeds(t) \/ Subtract(t)
    PROVE  counter' \in Counters
<1> USE WriterCounterAssumption DEF LockInv, Counters
<1>1. counter \in Counters /\ status[t] \in Statuses
  BY DEF TypeOK
<1>2. CASE CasSucceeds(t)
  <2>1. op[t] \in LockOps /\ counter = loaded[t].counter
    BY <1>2 DEF CasSucceeds, OpFitsStatus, Word
  <2>2. op[t] = "rdlock" => counter # WRITER_COUNTER
    BY <1>2, <2>1 DEF CasSucceeds, Refuses
  <2>3. counter' = IF op[t] = "rdlock" THEN counter + 1 ELSE WRITER_COUNTER
    BY <1>2, <2>1 DEF CasSucceeds, Granted
  <2>4. QED
    BY <1>1, <2>2, <2>3
<1>3. CASE Subtract(t)
  <2>1. pc[t] = "sub" /\ counter' = counter - Held(loaded[t])
    BY <1>3 DEF Subtract
  <2>2. CASE status[t] = "WRLOCKED"
    <3>1. t \in Writers
      BY <2>1, <2>2 DEF Writers, Holders
    <3>2. counter = WRITER_COUNTER /\ Held(loaded[t]) = WRITER_COUNTER
      BY <2>1, <2>2, <3>1
         DEF CounterCountsHolders, UnlockKnowsItsMode, Held
    <3>3. QED
      BY <2>1, <3>2
  <2>3. CASE status[t] = "RDLOCKED"
    <3>1. t \in Readers
      BY <2>1, <2>3 DEF Readers, Holders
    <3>2. Held(loaded[t]) = 1
      BY <2>1, <2>3 DEF UnlockKnowsItsMode, Held
    <3>3. IsFiniteSet(Readers)
      BY ThreadsAssumption, FS_Subset DEF Readers, Holders
    <3>4. Cardinality(Readers) # 0
      BY <3>1, <3>3, FS_EmptySet
    <3>5. counter = Cardinality(Readers) \/ counter = WRITER_COUNTER
      BY DEF CounterCountsHolders
    <3>6. QED
      BY <1>1, <2>1, <3>2, <3>4, <3>5
  <2>4. QED
    BY <1>1, <2>1, <2>2, <2>3 DEF OpFitsStatus, Statuses
<1>4. QED
  BY <1>2, <1>3

(* The variables keep their types in every step.                           *)
LEMMA TypeStep == LockInv /\ [Next]_vars => TypeOK'
<1> SUFFICES ASSUME LockInv, [Next]_vars PROVE TypeOK'
  OBVIOUS
<1>0. TypeOK
  BY DEF LockInv
<1> USE <1>0, WordType DEF TypeOK, Statuses, LockOps
<1>1. ASSUME NEW t \in Threads, picotm_rwstate_try_rdlock(t) PROVE TypeOK'
  BY <1>1 DEF picotm_rwstate_try_rdlock, Call, wordVars
<1>2. ASSUME NEW t \in Threads, picotm_rwstate_try_wrlock(t) PROVE TypeOK'
  BY <1>2 DEF picotm_rwstate_try_wrlock, Call, wordVars
<1>3. ASSUME NEW t \in Threads, picotm_rwstate_unlock(t) PROVE TypeOK'
  BY <1>3 DEF picotm_rwstate_unlock, Call, wordVars
<1>4. ASSUME NEW t \in Threads, Load(t) PROVE TypeOK'
  BY <1>4 DEF Load, wordVars
<1>5. ASSUME NEW t \in Threads, Refused(t) PROVE TypeOK'
  BY <1>5 DEF Refused, Return, wordVars
<1>6. ASSUME NEW t \in Threads, CasSucceeds(t) PROVE TypeOK'
  <2>1. counter' \in Counters
    BY <1>6, CounterStaysInField
  <2>2. QED
    BY <1>6, <2>1 DEF CasSucceeds, Return
<1>7. ASSUME NEW t \in Threads, CasFails(t) PROVE TypeOK'
  BY <1>5, <1>7 DEF CasFails, wordVars
<1>8. ASSUME NEW t \in Threads, Subtract(t) PROVE TypeOK'
  <2>1. counter' \in Counters
    BY <1>8, CounterStaysInField
  <2>2. QED
    BY <1>8, <2>1 DEF Subtract, UnlockReturns, Return
<1>9. ASSUME NEW t \in Threads, Waited(t) PROVE TypeOK'
  BY <1>9 DEF Waited, wordVars
<1>10. ASSUME NEW t \in Threads, WokenUp(t) PROVE TypeOK'
  BY <1>10 DEF WokenUp, UnlockReturns, Return, wordVars
<1>11. ASSUME NEW i \in Indices, SetIndex(i) PROVE TypeOK'
  BY <1>11 DEF SetIndex, localVars
<1>12. CASE UNCHANGED vars
  BY <1>12 DEF vars
<1>13. QED
  BY <1>1, <1>2, <1>3, <1>4, <1>5, <1>6, <1>7, <1>8, <1>9, <1>10, <1>11,
     <1>12 DEF Next, LockStep, TryFails

-----------------------------------------------------------------------------
(* What a step does to the holders and to the counter: nothing, or one     *)
(* step of the abstract lock with the counter following it.                *)
HolderStep ==
    \/ UNCHANGED <<Readers, Writers, counter>>
    \/ \E t \in Threads :
          \/ Abstract!AcquireRead(t) /\ counter' = counter + 1
          \/ Abstract!AcquireWrite(t) /\ counter' = WRITER_COUNTER
          \/ Abstract!Upgrade(t) /\ counter' = WRITER_COUNTER
          \/ Abstract!ReleaseRead(t) /\ counter' = counter - 1
          \/ Abstract!ReleaseWrite(t) /\ counter' = 0

(* The readers are finitely many, and their number is zero only if there   *)
(* are none, and one only if there is one.                                 *)
LEMMA ReadersAreFinite ==
    /\ IsFiniteSet(Readers)
    /\ Cardinality(Readers) \in Nat
    /\ Cardinality(Readers) = 0 <=> Readers = {}
    /\ Cardinality(Readers) = 1 => \E r : Readers = {r}
<1>1. IsFiniteSet(Readers)
  BY ThreadsAssumption, FS_Subset DEF Readers, Holders
<1>2. QED
  BY <1>1, FS_CardinalityType, FS_EmptySet, FS_Singleton

(* The abstract lock counts its readers as the lock word does.             *)
LEMMA SameCardinality == \A S : Abstract!Cardinality(S) = Cardinality(S)
BY DEF Abstract!Cardinality, Cardinality

(* A step that changes neither who holds the lock nor the counter.         *)
LEMMA QuietStep ==
    ASSUME status' = status, counter' = counter,
           \A u \in Threads : pc'[u] = "wake" <=> pc[u] = "wake"
    PROVE  HolderStep
BY DEF HolderStep, Readers, Writers, Holders

LEMMA HoldersStep == LockInv /\ [Next]_vars => HolderStep
<1> SUFFICES ASSUME LockInv, [Next]_vars PROVE HolderStep
  OBVIOUS
<1> USE DEF LockInv
<1>1. ASSUME NEW t \in Threads, picotm_rwstate_try_rdlock(t) PROVE HolderStep
  BY <1>1, QuietStep DEF picotm_rwstate_try_rdlock, Call, wordVars, TypeOK
<1>2. ASSUME NEW t \in Threads, picotm_rwstate_try_wrlock(t) PROVE HolderStep
  BY <1>2, QuietStep DEF picotm_rwstate_try_wrlock, Call, wordVars, TypeOK
<1>3. ASSUME NEW t \in Threads, picotm_rwstate_unlock(t) PROVE HolderStep
  BY <1>3, QuietStep DEF picotm_rwstate_unlock, Call, wordVars, TypeOK
<1>4. ASSUME NEW t \in Threads, Load(t) PROVE HolderStep
  BY <1>4, QuietStep DEF Load, wordVars, TypeOK
<1>5. ASSUME NEW t \in Threads, TryFails(t) PROVE HolderStep
  BY <1>5, QuietStep DEF TryFails, Refused, Return, wordVars, TypeOK
<1>6. ASSUME NEW t \in Threads, CasSucceeds(t) PROVE HolderStep
  <2>1. /\ op[t] \in LockOps /\ pc[t] = "cas" /\ pc'[t] = "idle"
        /\ counter = loaded[t].counter
        /\ \A u \in Threads \ {t} : pc'[u] = pc[u] /\ status'[u] = status[u]
    BY <1>6 DEF CasSucceeds, Return, OpFitsStatus, TypeOK, Word
  <2>2. CASE op[t] = "rdlock"
    <3>1. /\ counter < WRITER_COUNTER - 1
          /\ counter' = counter + 1
          /\ status[t] = "UNLOCKED" /\ status'[t] = "RDLOCKED"
      BY <1>6, <2>1, <2>2, WriterCounterAssumption
         DEF CasSucceeds, Refuses, Granted, OpFitsStatus, TypeOK, Counters
    <3>2. Writers = {} /\ counter = Cardinality(Readers)
      BY <3>1, WriterCounterAssumption
         DEF CounterCountsHolders, TypeOK, Counters
    <3>3. Readers' = Readers \cup {t} /\ t \notin Readers
      BY <2>1, <3>1 DEF Readers, Holders
    <3>4. Writers' = Writers
      BY <2>1, <3>1 DEF Writers, Holders
    <3>5. QED
      BY <3>1, <3>2, <3>3, <3>4, SameCardinality
         DEF HolderStep, Abstract!AcquireRead
  <2>3. CASE op[t] = "wrlock"
    <3>1. /\ counter = 0
          /\ counter' = WRITER_COUNTER
          /\ status[t] = "UNLOCKED" /\ status'[t] = "WRLOCKED"
      BY <1>6, <2>1, <2>3
         DEF CasSucceeds, Refuses, Granted, OpFitsStatus, TypeOK
    <3>2. Writers = {} /\ Readers = {}
      BY <3>1, ReadersAreFinite, WriterCounterAssumption
         DEF CounterCountsHolders
    <3>3. Writers' = {t}
      BY <2>1, <3>1, <3>2 DEF Writers, Holders
    <3>4. Readers' = Readers
      BY <2>1, <3>1 DEF Readers, Holders
    <3>5. QED
      BY <3>1, <3>2, <3>3, <3>4 DEF HolderStep, Abstract!AcquireWrite
  <2>4. CASE op[t] = "uplock"
    <3>1. /\ counter = 1
          /\ counter' = WRITER_COUNTER
          /\ status[t] = "RDLOCKED" /\ status'[t] = "WRLOCKED"
      BY <1>6, <2>1, <2>4
         DEF CasSucceeds, Refuses, Granted, OpFitsStatus, TypeOK
    <3>2. t \in Readers
      BY <2>1, <3>1 DEF Readers, Holders
    <3>3. Writers = {} /\ Readers = {t}
      BY <3>1, <3>2, ReadersAreFinite, WriterCounterAssumption
         DEF CounterCountsHolders
    <3>4. Writers' = {t}
      BY <2>1, <3>1, <3>3 DEF Writers, Holders
    <3>5. Readers' = {}
      BY <2>1, <3>1, <3>3 DEF Readers, Holders
    <3>6. QED
      BY <3>1, <3>3, <3>4, <3>5 DEF HolderStep, Abstract!Upgrade
  <2>5. QED
    BY <2>1, <2>2, <2>3, <2>4 DEF LockOps
<1>7. ASSUME NEW t \in Threads, CasFails(t) PROVE HolderStep
  <2>1. CASE pc' = pc
    BY <1>7, <2>1
       DEF CasFails, Refused, wordVars, HolderStep, Readers, Writers, Holders
  <2>2. CASE Refused(t)
    BY <1>7, <2>2, QuietStep DEF CasFails, Refused, Return, wordVars, TypeOK
  <2>3. QED
    BY <1>7, <2>1, <2>2 DEF CasFails
<1>8. ASSUME NEW t \in Threads, Subtract(t) PROVE HolderStep
  <2>1. /\ pc[t] = "sub" /\ status[t] # "UNLOCKED"
        /\ pc'[t] = "wake" \/ status'[t] = "UNLOCKED"
        /\ \A u \in Threads \ {t} : pc'[u] = pc[u] /\ status'[u] = status[u]
    BY <1>8 DEF Subtract, UnlockReturns, Return, OpFitsStatus, TypeOK
  <2>2. CASE status[t] = "WRLOCKED"
    <3>1. t \in Writers /\ t \notin Readers
      BY <2>1, <2>2 DEF Writers, Readers, Holders
    <3>2. counter' = 0
      BY <1>8, <2>1, <2>2, <3>1, WriterCounterAssumption
         DEF Subtract, Held, UnlockKnowsItsMode, CounterCountsHolders
    <3>3. Writers' = Writers \ {t}
      BY <2>1, <2>2 DEF Writers, Holders
    <3>4. Readers' = Readers
      BY <2>1, <2>2 DEF Readers, Holders
    <3>5. QED
      BY <3>1, <3>2, <3>3, <3>4 DEF HolderStep, Abstract!ReleaseWrite
  <2>3. CASE status[t] = "RDLOCKED"
    <3>1. t \in Readers
      BY <2>1, <2>3 DEF Readers, Holders
    <3>2. counter' = counter - 1
      BY <1>8, <2>1, <2>3 DEF Subtract, Held, UnlockKnowsItsMode
    <3>3. Readers' = Readers \ {t}
      BY <2>1, <2>3 DEF Readers, Holders
    <3>4. Writers' = Writers
      BY <2>1, <2>3 DEF Writers, Holders
    <3>5. QED
      BY <3>1, <3>2, <3>3, <3>4 DEF HolderStep, Abstract!ReleaseRead
  <2>4. QED
    BY <2>1, <2>2, <2>3 DEF TypeOK, Statuses
<1>9. ASSUME NEW t \in Threads, Waited(t) PROVE HolderStep
  BY <1>9, QuietStep DEF Waited, wordVars, TypeOK
<1>10. ASSUME NEW t \in Threads, WokenUp(t) PROVE HolderStep
  <2>1. /\ pc[t] = "wake" /\ status'[t] = "UNLOCKED" /\ counter' = counter
        /\ \A u \in Threads \ {t} : pc'[u] = pc[u] /\ status'[u] = status[u]
    BY <1>10 DEF WokenUp, UnlockReturns, Return, wordVars, TypeOK
  <2>2. QED
    BY <2>1 DEF HolderStep, Readers, Writers, Holders
<1>11. ASSUME NEW i \in Indices, SetIndex(i) PROVE HolderStep
  BY <1>11 DEF SetIndex, localVars, HolderStep, Readers, Writers, Holders
<1>12. CASE UNCHANGED vars
  BY <1>12 DEF vars, HolderStep, Readers, Writers, Holders
<1>13. QED
  BY <1>1, <1>2, <1>3, <1>4, <1>5, <1>6, <1>7, <1>8, <1>9, <1>10, <1>11,
     <1>12 DEF Next, LockStep

-----------------------------------------------------------------------------
(* The counter follows the holders.                                        *)
LEMMA CounterStep ==
    LockInv /\ HolderStep /\ TypeOK' => CounterCountsHolders'
<1> SUFFICES ASSUME LockInv, HolderStep, TypeOK' PROVE CounterCountsHolders'
  OBVIOUS
<1> USE DEF LockInv, CounterCountsHolders
<1> USE WriterCounterAssumption
<1>1. CASE UNCHANGED <<Readers, Writers, counter>>
  BY <1>1
<1>2. ASSUME NEW t \in Threads,
             Abstract!AcquireRead(t), counter' = counter + 1
      PROVE  CounterCountsHolders'
  <2>1. Cardinality(Readers') = Cardinality(Readers) + 1
    BY <1>2, ReadersAreFinite, FS_AddElement DEF Abstract!AcquireRead
  <2>2. QED
    BY <1>2, <2>1, ReadersAreFinite, SameCardinality
       DEF Abstract!AcquireRead
<1>3. ASSUME NEW t \in Threads,
             Abstract!AcquireWrite(t), counter' = WRITER_COUNTER
      PROVE  CounterCountsHolders'
  BY <1>3 DEF Abstract!AcquireWrite
<1>4. ASSUME NEW t \in Threads,
             Abstract!Upgrade(t), counter' = WRITER_COUNTER
      PROVE  CounterCountsHolders'
  BY <1>4 DEF Abstract!Upgrade
<1>5. ASSUME NEW t \in Threads,
             Abstract!ReleaseRead(t), counter' = counter - 1
      PROVE  CounterCountsHolders'
  <2>1. Cardinality(Readers') = Cardinality(Readers) - 1
    BY <1>5, ReadersAreFinite, FS_RemoveElement DEF Abstract!ReleaseRead
  <2>2. Writers = {} /\ Writers' = {}
    BY <1>5 DEF Abstract!ReleaseRead
  <2>3. QED
    BY <1>5, <2>1, <2>2, ReadersAreFinite
<1>6. ASSUME NEW t \in Threads,
             Abstract!ReleaseWrite(t), counter' = 0
      PROVE  CounterCountsHolders'
  <2>1. Writers' = {} /\ Readers' = {}
    BY <1>6 DEF Abstract!ReleaseWrite
  <2>2. QED
    BY <1>6, <2>1, FS_EmptySet
<1>7. QED
  BY <1>1, <1>2, <1>3, <1>4, <1>5, <1>6 DEF HolderStep

(* Each operation keeps to the steps and the rwstate it belongs to.        *)
LEMMA OpStep == LockInv /\ [Next]_vars => OpFitsStatus'
<1> SUFFICES ASSUME LockInv, [Next]_vars PROVE OpFitsStatus'
  OBVIOUS
<1> USE DEF LockInv, OpFitsStatus, TypeOK, Statuses, LockOps
<1>1. ASSUME NEW t \in Threads, picotm_rwstate_try_rdlock(t)
      PROVE  OpFitsStatus'
  BY <1>1 DEF picotm_rwstate_try_rdlock, Call, wordVars
<1>2. ASSUME NEW t \in Threads, picotm_rwstate_try_wrlock(t)
      PROVE  OpFitsStatus'
  BY <1>2 DEF picotm_rwstate_try_wrlock, Call, wordVars
<1>3. ASSUME NEW t \in Threads, picotm_rwstate_unlock(t)
      PROVE  OpFitsStatus'
  BY <1>3 DEF picotm_rwstate_unlock, Call, wordVars
<1>4. ASSUME NEW t \in Threads, Load(t) PROVE OpFitsStatus'
  BY <1>4 DEF Load, wordVars
<1>5. ASSUME NEW t \in Threads, TryFails(t) PROVE OpFitsStatus'
  BY <1>5 DEF TryFails, Refused, Return, wordVars
<1>6. ASSUME NEW t \in Threads, CasSucceeds(t) PROVE OpFitsStatus'
  BY <1>6 DEF CasSucceeds, Return
<1>7. ASSUME NEW t \in Threads, CasFails(t) PROVE OpFitsStatus'
  BY <1>7 DEF CasFails, Refused, Return, wordVars
<1>8. ASSUME NEW t \in Threads, Subtract(t) PROVE OpFitsStatus'
  BY <1>8 DEF Subtract, UnlockReturns, Return
<1>9. ASSUME NEW t \in Threads, Waited(t) PROVE OpFitsStatus'
  BY <1>9 DEF Waited, wordVars
<1>10. ASSUME NEW t \in Threads, WokenUp(t) PROVE OpFitsStatus'
  BY <1>10 DEF WokenUp, UnlockReturns, Return, wordVars
<1>11. ASSUME NEW i \in Indices, SetIndex(i) PROVE OpFitsStatus'
  BY <1>11 DEF SetIndex, localVars
<1>12. CASE UNCHANGED vars
  BY <1>12 DEF vars
<1>13. QED
  BY <1>1, <1>2, <1>3, <1>4, <1>5, <1>6, <1>7, <1>8, <1>9, <1>10, <1>11,
     <1>12 DEF Next, LockStep

(* What unlock has loaded tells its mode: it holds the lock when it loads, *)
(* and its rwstate does not change before the subtraction.                 *)
LEMMA ModeStep == LockInv /\ [Next]_vars => UnlockKnowsItsMode'
<1> SUFFICES ASSUME LockInv, [Next]_vars PROVE UnlockKnowsItsMode'
  OBVIOUS
<1> USE DEF LockInv, UnlockKnowsItsMode, TypeOK
<1>1. ASSUME NEW t \in Threads, picotm_rwstate_try_rdlock(t)
      PROVE  UnlockKnowsItsMode'
  BY <1>1 DEF picotm_rwstate_try_rdlock, Call, wordVars
<1>2. ASSUME NEW t \in Threads, picotm_rwstate_try_wrlock(t)
      PROVE  UnlockKnowsItsMode'
  BY <1>2 DEF picotm_rwstate_try_wrlock, Call, wordVars
<1>3. ASSUME NEW t \in Threads, picotm_rwstate_unlock(t)
      PROVE  UnlockKnowsItsMode'
  BY <1>3 DEF picotm_rwstate_unlock, Call, wordVars
<1>4. ASSUME NEW t \in Threads, Load(t) PROVE UnlockKnowsItsMode'
  <2>1. op[t] = "unlock" => (counter = WRITER_COUNTER
                               <=> status[t] = "WRLOCKED")
    <3>1. SUFFICES ASSUME op[t] = "unlock"
                   PROVE  counter = WRITER_COUNTER <=> status[t] = "WRLOCKED"
      OBVIOUS
    <3>2. t \in Readers \/ t \in Writers
      BY <1>4, <3>1
         DEF Load, OpFitsStatus, Readers, Writers, Holders, Statuses
    <3>3. t \in Writers <=> status[t] = "WRLOCKED"
      BY <1>4 DEF Load, Writers, Holders
    <3>4. QED
      BY <3>2, <3>3, WriterCounterAssumption
         DEF CounterCountsHolders, Counters
  <2>2. QED
    BY <1>4, <2>1 DEF Load, Word, wordVars
<1>5. ASSUME NEW t \in Threads, TryFails(t) PROVE UnlockKnowsItsMode'
  BY <1>5 DEF TryFails, Refused, Return, wordVars
<1>6. ASSUME NEW t \in Threads, CasSucceeds(t) PROVE UnlockKnowsItsMode'
  BY <1>6 DEF CasSucceeds, Return
<1>7. ASSUME NEW t \in Threads, CasFails(t) PROVE UnlockKnowsItsMode'
  BY <1>7 DEF CasFails, Refused, Return, wordVars
<1>8. ASSUME NEW t \in Threads, Subtract(t) PROVE UnlockKnowsItsMode'
  BY <1>8 DEF Subtract, UnlockReturns, Return
<1>9. ASSUME NEW t \in Threads, Waited(t) PROVE UnlockKnowsItsMode'
  BY <1>9 DEF Waited, wordVars
<1>10. ASSUME NEW t \in Threads, WokenUp(t) PROVE UnlockKnowsItsMode'
  BY <1>10 DEF WokenUp, UnlockReturns, Return, wordVars
<1>11. ASSUME NEW i \in Indices, SetIndex(i) PROVE UnlockKnowsItsMode'
  BY <1>11 DEF SetIndex, localVars
<1>12. CASE UNCHANGED vars
  BY <1>12 DEF vars
<1>13. QED
  BY <1>1, <1>2, <1>3, <1>4, <1>5, <1>6, <1>7, <1>8, <1>9, <1>10, <1>11,
     <1>12 DEF Next, LockStep

-----------------------------------------------------------------------------
LEMMA InitInv == Init => LockInv
<1> SUFFICES ASSUME Init PROVE LockInv
  OBVIOUS
<1>1. TypeOK
  BY WordType, WriterCounterAssumption, MaxIndexAssumption
     DEF Init, TypeOK, Statuses, Counters, Indices
<1>2. OpFitsStatus /\ UnlockKnowsItsMode
  BY DEF Init, OpFitsStatus, UnlockKnowsItsMode, LockOps
<1>3. Readers = {} /\ Writers = {}
  BY DEF Init, Readers, Writers, Holders
<1>4. CounterCountsHolders
  BY <1>3, FS_EmptySet, WriterCounterAssumption DEF Init, CounterCountsHolders
<1>5. QED
  BY <1>1, <1>2, <1>4 DEF LockInv

LEMMA NextInv == LockInv /\ [Next]_vars => LockInv'
BY TypeStep, HoldersStep, CounterStep, OpStep, ModeStep DEF LockInv

(* The inductive invariant holds of the lock word.                         *)
THEOREM LockInvariant == Spec => []LockInv
BY InitInv, NextInv, PTL DEF Spec

(* Every variable of the lock keeps its type: in particular the counter    *)
(* never leaves its bit field, neither by counting readers in              *)
(* picotm-lib-rwlock.c:try_rdlock nor by the subtraction of unlock.        *)
THEOREM TypeCorrectness == Spec => []TypeOK
BY LockInvariant, PTL DEF LockInv

(* Mutual exclusion: at any time the lock has one writer and no reader, or *)
(* no writer and as many readers as the counter says, whatever the number  *)
(* of threads and the interleaving of their loads and swaps.               *)
THEOREM MutualExclusion == Spec => []CounterCountsHolders
BY LockInvariant, PTL DEF LockInv

(* The word that picotm_rwlock_unlock() loads first still tells the mode   *)
(* of the holder when the subtraction takes place.                         *)
THEOREM UnlockIsSafe == Spec => []UnlockKnowsItsMode
BY LockInvariant, PTL DEF LockInv

(* The lock is granted only while no waiter is listed, except to a reader  *)
(* that upgrades.                                                          *)
THEOREM GrantsInOrder == Spec => NoOvertaking
<1> DEFINE Granting == \A t \in Threads :
                           (t \notin Readers \cup Writers
                              /\ t \in (Readers \cup Writers)') => first = 0
<1>1. LockInv /\ [Next]_vars => [Granting]_vars
  <2> SUFFICES ASSUME LockInv, [Next]_vars, NEW u \in Threads,
                      u \notin Readers \cup Writers,
                      u \in (Readers \cup Writers)'
               PROVE  first = 0
    OBVIOUS
  <2> USE DEF LockInv, TypeOK, Readers, Writers, Holders, OpFitsStatus
  <2>1. PICK t \in Threads : CasSucceeds(t)
    <3>1. ASSUME NEW t \in Threads,
                 \/ picotm_rwstate_try_rdlock(t)
                 \/ picotm_rwstate_try_wrlock(t)
                 \/ picotm_rwstate_unlock(t)
          PROVE  FALSE
      BY <3>1 DEF picotm_rwstate_try_rdlock, picotm_rwstate_try_wrlock,
                  picotm_rwstate_unlock, Call
    <3>2. ASSUME NEW t \in Threads,
                 Load(t) \/ TryFails(t) \/ CasFails(t) \/ Waited(t)
          PROVE  FALSE
      BY <3>2 DEF Load, TryFails, CasFails, Waited, Refused, Return
    <3>3. ASSUME NEW t \in Threads, Subtract(t) \/ WokenUp(t)
          PROVE  FALSE
      BY <3>3 DEF Subtract, WokenUp, UnlockReturns, Return
    <3>4. ASSUME NEW i \in Indices, SetIndex(i) PROVE FALSE
      BY <3>4 DEF SetIndex, localVars
    <3>5. ~UNCHANGED vars
      BY DEF vars
    <3>6. QED
      BY <3>1, <3>2, <3>3, <3>4, <3>5 DEF Next, LockStep
  <2>2. t = u
    BY <2>1 DEF CasSucceeds, Return
  <2>3. op[t] \in {"rdlock", "wrlock"}
    BY <2>1, <2>2 DEF CasSucceeds, LockOps
  <2>4. QED
    BY <2>1, <2>3 DEF CasSucceeds, Refuses, Word
<1>2. QED
  BY <1>1, LockInvariant, PTL DEF Spec, NoOvertaking

(* The loads, swaps and subtractions on the lock byte implement the        *)
(* abstract reader/writer lock: each of them is an abstract acquisition,   *)
(* upgrade or release, or leaves the holders alone.                        *)
THEOREM Refinement == Spec => ImplementsRWLock
<1>1. Init => Abstract!AbsInit
  BY DEF Init, Abstract!AbsInit, Readers, Writers, Holders
<1>2. LockInv /\ [Next]_vars => [Abstract!AbsNext]_(Abstract!absVars)
  BY HoldersStep DEF HolderStep, Abstract!AbsNext, Abstract!absVars
<1>3. QED
  BY <1>1, <1>2, LockInvariant, PTL
     DEF Spec, ImplementsRWLock, Abstract!AbsSpec
=============================================================================
