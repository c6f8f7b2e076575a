---------------------------- MODULE SharedTreemap ----------------------------
(***************************************************************************)
(* The shared tree map of src/src/picotm-lib-shared-treemap.c: a radix     *)
(* tree that only grows, into which threads insert directories and values  *)
(* by compare-and-swap, without a lock.  The transactional memory keeps    *)
(* its frames in it, the seekable buffers their pages of record locks, and *)
(* the pointer data its values.                                            *)
(*                                                                         *)
(* A slot is a pair of its owner and its index: the root of a map is its   *)
(* slot 0, a directory has one slot per value of LevelBits bits of the key.*)
(* Directories and values are nodes of the heap.  malloc() takes the least *)
(* free one, so that a freed node is soon another one.                     *)
(***************************************************************************)
EXTENDS Integers, FiniteSets

CONSTANTS
    Threads,    \* the threads
    Maps,       \* the tree maps
    Nodes,      \* the heap
    KeyBits,    \* bits of a key
    LevelBits   \* bits of a key that a directory decodes

ASSUME NodesAreNumbers ==
    /\ Nodes \subseteq Nat \ {0} /\ Maps \subseteq Nat \ {0} /\ Nodes \cap Maps = {}
    /\ KeyBits \in Nat /\ LevelBits \in Nat \ {0}

ASSUME ThreadsAreFinite == IsFiniteSet(Threads)

VARIABLES
    slot,       \* what each slot points to
    live,       \* the allocated nodes
    content,    \* what each value holds, 0 at its creation
    walk        \* each thread's way down a tree

tmVars == <<slot, live, content, walk>>

Null == 0

(* 1ul << n *)
power[n \in Nat] == IF n = 0 THEN 1 ELSE 2 * power[n - 1]

Keys == 0 .. power[KeyBits] - 1
Indices == 0 .. power[LevelBits] - 1
Slots == (Maps \cup Nodes) \X Indices

tree_depth[bits \in 0..KeyBits] ==
    IF bits = 0 THEN 0 ELSE 1 + tree_depth[IF bits < LevelBits THEN 0 ELSE bits - LevelBits]

Depth == tree_depth[KeyBits]

entry_index(key, depth) == (key \div power[depth * LevelBits]) % power[LevelBits]

AtRest == [phase |-> "off", slot |-> <<0, 0>>, depth |-> 0, map |-> 0, key |-> 0,
           creates |-> FALSE, node |-> Null]

TMInit ==
    /\ slot = [s \in Slots |-> Null]
    /\ live = {}
    /\ content = [n \in Nodes |-> 0]
    /\ walk = [t \in Threads |-> AtRest]

picotm_shared_treemap_find_value(t, m, k, creates) ==
    walk' = [walk EXCEPT ![t] = [phase |-> "load", slot |-> <<m, 0>>, depth |-> Depth,
                                 map |-> m, key |-> k, creates |-> creates, node |-> Null]]

(* The way from a slot that points to node n: to a slot of the directory n, *)
(* or, at the level of the values, to the result.                           *)
lookup_value_entry(w, n) ==
    IF w.depth = 0
    THEN [w EXCEPT !.phase = "found", !.node = n]
    ELSE [w EXCEPT !.phase = "load", !.node = Null, !.depth = @ - 1,
                   !.slot = <<n, entry_index(w.key, w.depth - 1)>>]

(* The load at the start of retrieve_dir() and retrieve_value(), and what   *)
(* the thread does alone after it: it creates the missing node, or fails.   *)
Created(t) ==
    LET n == CHOOSE n \in Nodes \ live : \A o \in Nodes \ live : n <= o
    IN  /\ Nodes \ live # {}
        /\ live' = live \cup {n}
        /\ content' = [content EXCEPT ![n] = 0]
        /\ slot' = [s \in Slots |-> IF s[1] = n THEN Null ELSE slot[s]]
        /\ walk' = [walk EXCEPT ![t].phase = "insert", ![t].node = n]

retrieve_load(t) ==
    LET w == walk[t]  n == slot[w.slot]
    IN  /\ w.phase = "load"
        /\ \/ /\ n # Null
              /\ walk' = [walk EXCEPT ![t] = lookup_value_entry(w, n)]
              /\ UNCHANGED <<slot, live, content>>
           \/ /\ n = Null /\ ~w.creates
              /\ walk' = [walk EXCEPT ![t].phase = "found"]
              /\ UNCHANGED <<slot, live, content>>
           \/ n = Null /\ w.creates /\ Created(t)
           \/ /\ n = Null /\ w.creates
              /\ walk' = [walk EXCEPT ![t].phase = "no_memory"]
              /\ UNCHANGED <<slot, live, content>>

(* Mutant: a plain store in place of the compare-and-swap.                  *)
Mutretrieve_insert(t) ==
    LET w == walk[t]
    IN  /\ w.phase = "insert"
        /\ slot' = [slot EXCEPT ![w.slot] = w.node]
        /\ walk' = [walk EXCEPT ![t] = lookup_value_entry(w, w.node)]
        /\ UNCHANGED <<live, content>>

(* The compare-and-swap.  A thread that comes too late destroys its node    *)
(* and loads the slot again.                                                *)
retrieve_insert(t) ==
    LET w == walk[t]
    IN  /\ w.phase = "insert"
        /\ \/ /\ slot[w.slot] = Null
              /\ slot' = [slot EXCEPT ![w.slot] = w.node]
              /\ walk' = [walk EXCEPT ![t] = lookup_value_entry(w, w.node)]
              /\ UNCHANGED live
           \/ /\ slot[w.slot] # Null
              /\ live' = live \ {w.node}
              /\ walk' = [walk EXCEPT ![t].phase = "load", ![t].node = Null]
              /\ UNCHANGED slot
        /\ UNCHANGED content

Walk(t) == retrieve_load(t) \/ retrieve_insert(t)

(* The nodes that picotm_shared_treemap_uninit() destroys, level by level.  *)
Roots == {slot[<<m, 0>>] : m \in Maps} \ {Null}
EntriesOf(dirs) == {slot[s] : s \in dirs \X Indices} \ {Null}

recursive_cleanup_dir[d \in 0..Depth] ==
    IF d = Depth THEN Roots ELSE EntriesOf(recursive_cleanup_dir[d + 1])

picotm_shared_treemap_uninit == UNION {recursive_cleanup_dir[d] : d \in 0..Depth}

(* What the tree holds for a key: the reference for the look-ups.           *)
Path(m, k) ==
    LET path[d \in 0..Depth] ==
            IF d = Depth THEN slot[<<m, 0>>]
            ELSE IF path[d + 1] = Null THEN Null ELSE slot[<<path[d + 1], entry_index(k, d)>>]
    IN  path

Held(m, k) == Path(m, k)[0]

(* All look-ups of a key come to the same value, whatever their order:      *)
(* the value a thread has found is the one of the tree, and is still        *)
(* allocated, although other threads have created values for the same key   *)
(* and destroyed them again.                                                *)
LookupsAgree ==
    /\ \A t \in Threads :
          LET w == walk[t]
          IN  w.phase = "found" /\ w.node # Null => w.node = Held(w.map, w.key)
    /\ picotm_shared_treemap_uninit \subseteq live

(* When no thread is on its way, the tree's clean-up frees every node.      *)
NoNodeIsLost ==
    (\A t \in Threads : walk[t].phase # "insert") => live \subseteq picotm_shared_treemap_uninit
=============================================================================
