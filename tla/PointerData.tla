----------------------------- MODULE PointerData -----------------------------
(***************************************************************************)
(* The shared data of the module src/modules/ptrdata: a word for each      *)
(* pointer, in a shared tree map, that outlives the transactions.  A call  *)
(* looks up the pointer's value, then reads or writes its word by one      *)
(* atomic instruction.                                                     *)
(***************************************************************************)
EXTENDS SharedTreemap

CONSTANTS
    PointerMap,     \* the tree map of the module
    Pointers,       \* the pointers, keys of the map
    Words           \* the data, 0 for none

VARIABLES
    call,           \* each thread's call
    word            \* the word that the calls so far have left for each pointer

pdVars == <<call, word>>

NoCall == [op |-> "none", data |-> 0, current |-> 0]

PDInit ==
    /\ call = [t \in Threads |-> NoCall]
    /\ word = [p \in Pointers |-> 0]

(* The calls: set and test-and-set create the value, clear and get do not.  *)
Calls ==
    {[op |-> "set", data |-> d, current |-> 0] : d \in Words}
    \cup {[op |-> "test_and_set", data |-> d, current |-> c] : d \in Words, c \in Words \cup {0}}
    \cup {[op |-> op, data |-> 0, current |-> 0] : op \in {"clear", "get"}}

PDCall(t, p, c) ==
    /\ call[t] = NoCall /\ walk[t].phase = "off"
    /\ picotm_shared_treemap_find_value(t, PointerMap, p, c.op \in {"set", "test_and_set"})
    /\ call' = [call EXCEPT ![t] = c]
    /\ UNCHANGED <<slot, live, content, word>>

PDReturn(t) ==
    /\ call' = [call EXCEPT ![t] = NoCall]
    /\ walk' = [walk EXCEPT ![t] = AtRest]
    /\ UNCHANGED <<slot, live>>

Store(t, d) ==
    /\ content' = [content EXCEPT ![walk[t].node] = d]
    /\ word' = [word EXCEPT ![walk[t].key] = d]

ptrdata_set_shared_data(t) ==
    call[t].op = "set" /\ Store(t, call[t].data)

ptrdata_test_and_set_shared_data(t) ==
    /\ call[t].op = "test_and_set"
    /\ IF content[walk[t].node] = call[t].current
       THEN Store(t, call[t].data)
       ELSE UNCHANGED <<content, word>>

ptrdata_clear_shared_data(t) ==
    /\ call[t].op = "clear"
    /\ IF walk[t].node # Null THEN Store(t, 0) ELSE UNCHANGED <<content, word>>

ptrdata_get_shared_data(t) ==
    call[t].op = "get" /\ UNCHANGED <<content, word>>

PDAccess(t) ==
    /\ call[t] # NoCall /\ walk[t].phase = "found"
    /\ \/ ptrdata_set_shared_data(t)
       \/ ptrdata_test_and_set_shared_data(t)
       \/ ptrdata_clear_shared_data(t)
       \/ ptrdata_get_shared_data(t)
    /\ PDReturn(t)

PDFails(t) ==
    /\ call[t] # NoCall /\ walk[t].phase = "no_memory"
    /\ PDReturn(t)
    /\ UNCHANGED <<content, word>>

PDNext(t) ==
    \/ \E p \in Pointers, c \in Calls : PDCall(t, p, c)
    \/ PDAccess(t)
    \/ PDFails(t)

(* The word that a look-up leads to is the one that the calls have left:    *)
(* no store goes to a value that later calls do not find.                   *)
PointerKeepsItsWord ==
    \A p \in Pointers :
        LET v == Held(PointerMap, p)
        IN  word[p] = IF v = Null THEN 0 ELSE content[v]
=============================================================================
