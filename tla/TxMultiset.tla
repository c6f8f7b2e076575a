----------------------------- MODULE TxMultiset ------------------------------
(***************************************************************************)
(* The multisets of modules/txlib: unbalanced binary trees of the          *)
(* program's entries, txmultiset_entry.c and txmultiset_state.c.           *)
(*                                                                         *)
(* A tree is a function from entries, and the head, to nodes.  The head's  *)
(* "lt" entry is the root, the head is its own parent and the end of every *)
(* iteration.                                                              *)
(***************************************************************************)
EXTENDS Integers, FiniteSets, Sequences

CONSTANTS
    Entries,
    Key,        \* the key of each entry
    HEAD,       \* the head of a tree
    NULL

ASSUME EntriesAssumption == IsFiniteSet(Entries)
ASSUME KeyAssumption == Key \in [Entries -> Int]
ASSUME HeadAssumption == HEAD \notin Entries /\ NULL \notin Entries \cup {HEAD}

Nodes == Entries \cup {HEAD}
Node(lt, ge, parent) == [lt |-> lt, ge |-> ge, parent |-> parent]

txmultiset_entry_init == Node(NULL, NULL, NULL)
txmultiset_entry_init_head == Node(NULL, NULL, HEAD)

txmultiset_state_init ==
    [n \in Nodes |-> IF n = HEAD THEN txmultiset_entry_init_head ELSE txmultiset_entry_init]

txmultiset_entry_is_enqueued(tree, e) == tree[e].parent # NULL

EntriesOf(tree) == {e \in Entries : txmultiset_entry_is_enqueued(tree, e)}
Members(tree) == EntriesOf(tree) \cup {HEAD}

-----------------------------------------------------------------------------
(* Iteration.                                                              *)

bottom_most_lt(tree, e) ==
    LET down[n \in Members(tree)] == IF tree[n].lt = NULL THEN n ELSE down[tree[n].lt]
    IN  down[e]

bottom_most_ge(tree, e) ==
    LET down[n \in Members(tree)] == IF tree[n].ge = NULL THEN n ELSE down[tree[n].ge]
    IN  down[e]

nearest_lt_parent(tree, e) ==
    LET up[n \in Members(tree)] == LET p == tree[n].parent
                           IN  IF tree[p].ge = n THEN up[p] ELSE p
    IN  up[e]

nearest_ge_parent(tree, e) ==
    LET up[n \in Members(tree)] == LET p == tree[n].parent
                           IN  IF tree[p].lt = n THEN up[p] ELSE p
    IN  up[e]

txmultiset_entry_begin(tree) == bottom_most_lt(tree, HEAD)
txmultiset_entry_end(tree) == tree[HEAD].parent

txmultiset_entry_next(tree, e) ==
    IF tree[e].ge # NULL THEN bottom_most_lt(tree, tree[e].ge)
                         ELSE nearest_lt_parent(tree, e)

txmultiset_entry_prev(tree, e) ==
    IF tree[e].lt # NULL THEN bottom_most_ge(tree, tree[e].lt)
                         ELSE nearest_ge_parent(tree, e)

txmultiset_entry_distance(tree, from, to) ==
    LET count[n \in Members(tree)] ==
            IF n = to THEN 0 ELSE 1 + count[txmultiset_entry_next(tree, n)]
    IN  count[from]

-----------------------------------------------------------------------------
(* Insertion.                                                              *)

insert_lt_entry(tree, e, pos) ==
    [tree EXCEPT ![e] = Node(tree[pos].lt, @.ge, pos), ![pos].lt = e]

insert_ge_entry(tree, e, pos) ==
    [tree EXCEPT ![e] = Node(@.lt, tree[pos].ge, pos), ![pos].ge = e]

(* The new entry takes the place of one with the same key, which becomes   *)
(* its "ge" entry and keeps its own "lt" entry.                            *)
insert_at(tree, e, pos) ==
    LET p == tree[pos].parent
        up == IF tree[p].lt = pos THEN [tree EXCEPT ![p].lt = e]
                                  ELSE [tree EXCEPT ![p].ge = e]
    IN  [up EXCEPT ![e] = Node(tree[pos].lt, pos, p), ![pos].parent = e]

(* The entry below which, or in whose place, a key belongs.                *)
Place(tree, key) ==
    LET down[n \in EntriesOf(tree)] ==
            CASE key < Key[n] /\ tree[n].lt # NULL -> down[tree[n].lt]
              [] key > Key[n] /\ tree[n].ge # NULL -> down[tree[n].ge]
              [] OTHER -> n
    IN  down[tree[HEAD].lt]

txmultiset_entry_insert(tree, e) ==
    IF tree[HEAD].lt = NULL THEN insert_lt_entry(tree, e, HEAD)
    ELSE LET pos == Place(tree, Key[e])
         IN  CASE Key[e] < Key[pos] -> insert_lt_entry(tree, e, pos)
               [] Key[e] > Key[pos] -> insert_ge_entry(tree, e, pos)
               [] OTHER -> insert_at(tree, e, pos)

-----------------------------------------------------------------------------
(* Removal.                                                                *)

(* n, or nothing, takes the place of e below e's parent.                   *)
PullUp(tree, e, n) ==
    LET p == tree[e].parent
        up == IF n = NULL THEN tree ELSE [tree EXCEPT ![n].parent = p]
    IN  IF tree[p].lt = e THEN [up EXCEPT ![p].lt = n] ELSE [up EXCEPT ![p].ge = n]

PushBelow(tree, lt, ge) ==
    LET bm == bottom_most_lt(tree, ge)
    IN  [tree EXCEPT ![lt].parent = bm, ![bm].lt = lt]

(* Mutant: forgets the entries below on the "lt" side.                     *)
Mut_txmultiset_entry_erase(tree, e) ==
    [PullUp(tree, e, tree[e].ge) EXCEPT ![e] = txmultiset_entry_init]

txmultiset_entry_erase(tree, e) ==
    LET lt == tree[e].lt
        ge == tree[e].ge
        rest == IF ge = NULL THEN PullUp(tree, e, lt)
                ELSE IF lt = NULL THEN PullUp(tree, e, ge)
                ELSE PushBelow(PullUp(tree, e, ge), lt, ge)
    IN  [rest EXCEPT ![e] = txmultiset_entry_init]

-----------------------------------------------------------------------------
(* Search.                                                                 *)

txmultiset_entry_find(tree, key) ==
    IF tree[HEAD].lt = NULL THEN HEAD
    ELSE LET n == Place(tree, key) IN IF Key[n] = key THEN n ELSE HEAD

(* The entry in front of those with the key, if there is one.              *)
txmultiset_state_lower_bound(tree, key) ==
    LET first == txmultiset_entry_begin(tree)
        back[n \in Members(tree)] ==
            IF n = first \/ Key[n] # key THEN n ELSE back[txmultiset_entry_prev(tree, n)]
        found == txmultiset_entry_find(tree, key)
    IN  IF found = HEAD THEN HEAD ELSE back[found]

(* The entry behind those with the key, or else the last of them.          *)
txmultiset_state_upper_bound(tree, key) ==
    LET forth[n \in Members(tree)] ==
            LET next == txmultiset_entry_next(tree, n)
            IN  IF Key[n] # key \/ next = HEAD THEN n ELSE forth[next]
        found == txmultiset_entry_find(tree, key)
    IN  IF found = HEAD THEN HEAD ELSE forth[found]

txmultiset_state_count(tree, key) ==
    LET first == txmultiset_entry_begin(tree)
        lower[n \in Members(tree)] ==
            IF n = first THEN n
            ELSE LET prev == txmultiset_entry_prev(tree, n)
                 IN  IF Key[prev] # key THEN n ELSE lower[prev]
        upper[n \in Members(tree)] ==
            IF n = HEAD THEN n
            ELSE IF Key[n] # key THEN n ELSE upper[txmultiset_entry_next(tree, n)]
        found == txmultiset_entry_find(tree, key)
    IN  IF found = HEAD THEN 0
        ELSE txmultiset_entry_distance(tree, lower[found], upper[found])

txmultiset_state_begin(tree) == txmultiset_entry_begin(tree)
txmultiset_state_end(tree) == txmultiset_entry_end(tree)
txmultiset_state_front(tree) == txmultiset_state_begin(tree)

txmultiset_state_is_empty(tree) ==
    txmultiset_state_begin(tree) = txmultiset_state_end(tree)

txmultiset_state_size(tree) ==
    txmultiset_entry_distance(tree, txmultiset_state_begin(tree), txmultiset_state_end(tree))

txmultiset_state_insert(tree, e) == txmultiset_entry_insert(tree, e)
txmultiset_state_erase(tree, e) == txmultiset_entry_erase(tree, e)
=============================================================================
