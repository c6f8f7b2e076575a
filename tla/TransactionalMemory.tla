------------------------- MODULE TransactionalMemory ------------------------
(***************************************************************************)
(* What the transactional memory module promises its users: loads and      *)
(* stores of a transaction take effect at its commit, all at once, or not  *)
(* at all, and nobody changes what a running transaction has seen.         *)
(***************************************************************************)
EXTENDS Integers

CONSTANTS Threads, Addresses, Values

VARIABLES
    mem,        \* the memory as the committed transactions have left it
    view,       \* what each transaction knows: a value for some addresses
    writes      \* what each transaction has stored

tmVars == <<mem, view, writes>>

(* Partial functions from addresses to values.                             *)
Contents == UNION {[S -> Values] : S \in SUBSET Addresses}
Empty == [a \in {} |-> 0]

(* The contents f, and g where f says nothing.                             *)
Over(f, g) ==
    [a \in DOMAIN f \cup DOMAIN g |-> IF a \in DOMAIN f THEN f[a] ELSE g[a]]

TMInit ==
    /\ mem \in [Addresses -> Values]
    /\ view = [t \in Threads |-> Empty]
    /\ writes = [t \in Threads |-> Empty]

(* A transaction finds its own stores, or else the committed memory.       *)
Load(t, S) ==
    /\ view' = [view EXCEPT ![t] =
           Over([a \in S |-> Over(writes[t], mem)[a]], @)]
    /\ UNCHANGED <<mem, writes>>

Store(t, f) ==
    /\ view' = [view EXCEPT ![t] = Over(f, @)]
    /\ writes' = [writes EXCEPT ![t] = Over(f, @)]
    /\ UNCHANGED mem

(* The transaction gives memory back: its stores there need not survive.   *)
Discard(t, S) ==
    /\ writes' = [writes EXCEPT ![t] = [a \in DOMAIN @ \ S |-> @[a]]]
    /\ UNCHANGED <<mem, view>>

End(t) ==
    /\ view' = [view EXCEPT ![t] = Empty]
    /\ writes' = [writes EXCEPT ![t] = Empty]

(* Isolation: no other transaction knows what is now overwritten.          *)
Commit(t) ==
    /\ \A u \in Threads \ {t} :
           DOMAIN view[u] \cap DOMAIN writes[t] = {}
    /\ mem' = Over(writes[t], mem)
    /\ End(t)

Abort(t) == End(t) /\ UNCHANGED mem

TMNext ==
    \E t \in Threads :
        \/ \E S \in SUBSET Addresses : Load(t, S) \/ Discard(t, S)
        \/ \E f \in Contents : Store(t, f)
        \/ Commit(t)
        \/ Abort(t)

TMSpec == TMInit /\ [][TMNext]_tmVars
=============================================================================
