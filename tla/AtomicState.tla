----------------------------- MODULE AtomicState -----------------------------
(***************************************************************************)
(* What the modules of modules/libc promise about the state of the process *)
(* that they put under transactional control: a transaction is shown the   *)
(* committed state with its own changes on top, its changes take effect at *)
(* once when it commits or not at all, and nobody changes what a running   *)
(* transaction has been shown.                                             *)
(*                                                                         *)
(* The state is a set of cells: a byte of a file, a file's offset, a       *)
(* process-wide setting.  Unlike in TransactionalMemory a single call may  *)
(* look at some cells and change others.                                   *)
(***************************************************************************)
EXTENDS Integers, TLC

CONSTANTS Threads, Cells

VARIABLES
    committed,  \* each cell as the committed transactions have left it
    view,       \* what each transaction has been shown or has set itself
    changes,    \* what each transaction has set
    irrevocable \* the transactions that run alone and cannot be taken back

asVars == <<committed, view, changes>>

NoCells == [c \in {} |-> 0]

ASInit ==
    /\ DOMAIN committed = Cells
    /\ view = [t \in Threads |-> NoCells]
    /\ changes = [t \in Threads |-> NoCells]

(* A call of transaction t.                                                *)
Access(t) ==
    /\ \A u \in Threads \ {t} : /\ view'[u] = view[u]
                                /\ changes'[u] = changes[u]
    /\ DOMAIN view[t] \subseteq DOMAIN view'[t]
    /\ DOMAIN changes[t] \subseteq DOMAIN changes'[t]
    /\ LET now == changes'[t] @@ committed
       IN  view'[t] = [c \in DOMAIN view'[t] |-> now[c]]
    /\ DOMAIN changes'[t] \subseteq DOMAIN view'[t]
    /\ UNCHANGED committed

(* A call that cannot be taken back: an irrevocable transaction, which     *)
(* runs alone, changes part of the state at once.                          *)
Immediate(t) ==
    /\ t \in irrevocable
    /\ \A u \in Threads \ {t} : view[u] = NoCells
    /\ \A u \in Threads \ {t} : view'[u] = NoCells /\ changes'[u] = changes[u]
    /\ LET old == committed
           new == committed'
       IN  /\ DOMAIN new = Cells
           /\ \A c \in Cells \ DOMAIN view'[t] : new[c] = old[c]
    /\ DOMAIN view[t] \subseteq DOMAIN view'[t]
    /\ DOMAIN changes[t] \subseteq DOMAIN changes'[t]
    /\ LET now == changes'[t] @@ committed'
       IN  view'[t] = [c \in DOMAIN view'[t] |-> now[c]]
    /\ DOMAIN changes'[t] \subseteq DOMAIN view'[t]

End(t) ==
    /\ view' = [view EXCEPT ![t] = NoCells]
    /\ changes' = [changes EXCEPT ![t] = NoCells]

(* Isolation: no other transaction has been shown what is now replaced.    *)
Commit(t) ==
    /\ \A u \in Threads \ {t} :
           DOMAIN view[u] \cap DOMAIN changes[t] = {}
    /\ committed' = changes[t] @@ committed
    /\ End(t)

Abort(t) == End(t) /\ UNCHANGED committed

ASNext == \E t \in Threads : Access(t) \/ Immediate(t) \/ Commit(t) \/ Abort(t)

ASSpec == ASInit /\ [][ASNext]_asVars
=============================================================================
