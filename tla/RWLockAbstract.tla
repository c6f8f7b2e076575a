--------------------------- MODULE RWLockAbstract ---------------------------
(***************************************************************************)
(* What a picotm reader/writer lock promises to the transactions that use  *)
(* it, without the lock word, the compare-and-swap loops or the waiting:   *)
(* any number of readers up to a limit, or one writer; a sole reader may   *)
(* become the writer.                                                      *)
(***************************************************************************)
EXTENDS Naturals, FiniteSets

CONSTANTS
    Threads,        \* the threads that run transactions
    MAX_READERS     \* how many readers the lock word can count

VARIABLES
    readers,        \* the threads that hold the lock in reader mode
    writers         \* the threads that hold the lock in writer mode

absVars == <<readers, writers>>

AbsInit == readers = {} /\ writers = {}

AcquireRead(t) ==
    /\ writers = {}
    /\ t \notin readers
    /\ Cardinality(readers) < MAX_READERS
    /\ readers' = readers \cup {t}
    /\ UNCHANGED writers

AcquireWrite(t) ==
    /\ writers = {}
    /\ readers = {}
    /\ writers' = {t}
    /\ UNCHANGED readers

Upgrade(t) ==
    /\ readers = {t}
    /\ readers' = {}
    /\ writers' = {t}

ReleaseRead(t) ==
    /\ t \in readers
    /\ readers' = readers \ {t}
    /\ UNCHANGED writers

ReleaseWrite(t) ==
    /\ t \in writers
    /\ writers' = writers \ {t}
    /\ UNCHANGED readers

AbsNext ==
    \E t \in Threads :
        \/ AcquireRead(t)
        \/ AcquireWrite(t)
        \/ Upgrade(t)
        \/ ReleaseRead(t)
        \/ ReleaseWrite(t)

AbsSpec == AbsInit /\ [][AbsNext]_absVars
=============================================================================
