---------------------------- MODULE SharedObjects ----------------------------
(***************************************************************************)
(* The shared tables and the pointer data together: their threads walk     *)
(* down the same kind of tree, allocate from one heap and do one call at a *)
(* time.                                                                   *)
(***************************************************************************)
EXTENDS SharedTables, PointerData

CONSTANT Menus      \* sets of operations that a behaviour is made of

(* The buffers have tree maps of their own, and all keys fit.               *)
ASSUME MapsAssumption ==
    /\ 1 .. Size["buffer"] \subseteq Maps /\ PointerMap \in Maps \ (1 .. Size["buffer"])
    /\ Records \cup Pointers \subseteq Keys /\ Words \subseteq Nat

VARIABLE menu

soVars == <<tmVars, stVars, pdVars, menu>>

SOInit == TMInit /\ STInit /\ PDInit /\ menu \in Menus

Program(t) ==
    /\ call[t] = NoCall
    /\ \/ \E op \in menu \cap {"use", "record", "close"}, d \in Descriptors : fildes_tx_use(t, op, d)
       \/ "open" \in menu /\ \E d \in Descriptors, f \in Files : fildes_tx_exec_open(t, d, f)
    /\ UNCHANGED <<tmVars, pdVars, menu>>

References(t) ==
    /\ \/ fdtab_find_by_id(t) \/ fdtab_search_by_id(t) \/ get_file_tx_with_ref(t)
       \/ rdlock(t) \/ wrlock(t) \/ find_by_id(t) \/ search_by_id(t) \/ append(t)
    /\ UNCHANGED <<tmVars, pdVars, menu>>

Uses(t) ==
    /\ \/ fd_tx_try_lock_field(t) \/ PageFound(t) \/ Commit(t) \/ RollBack(t)
    /\ Rested(t)
    /\ UNCHANGED <<pdVars, menu>>

Finishes(t) ==
    /\ unref_buffer(t) \/ unref_file(t) \/ fd_unref(t) \/ NoFd(t) \/ CloseNew(t)
    /\ UNCHANGED <<tmVars, pdVars, menu>>

LooksUp(t) ==
    \/ Walk(t) /\ UNCHANGED <<stVars, pdVars, menu>>
    \/ /\ \E r \in Records : rwlockmap_find_page(t, r)
       /\ UNCHANGED <<stVars, pdVars, menu>>

KeepsData(t) ==
    /\ "pointer" \in menu /\ tx[t] = Idle
    /\ PDNext(t)
    /\ UNCHANGED <<stVars, menu>>

SONext == \E t \in Threads :
    Program(t) \/ References(t) \/ Uses(t) \/ Finishes(t) \/ LooksUp(t) \/ KeepsData(t)

SOSpec == SOInit /\ [][SONext]_soVars

(* What a thread reaches through the trees is the same for all threads, and *)
(* nothing is lost: the look-ups of one key agree, the users of one record  *)
(* lock in one page, a pointer keeps the word that was last stored.         *)
LookupsMeet == LookupsAgree /\ NoNodeIsLost /\ UsersOfARecordMeet /\ PointerKeepsItsWord
=============================================================================
