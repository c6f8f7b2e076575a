-------------------------------- MODULE TxLib --------------------------------
(***************************************************************************)
(* Transactional lists, queues, stacks and multisets, modules/txlib.       *)
(*                                                                         *)
(* Lists and multisets are changed at once, under their locks.  What a     *)
(* transaction pushes on a queue or a stack stays with it, without a lock, *)
(* until its commit locks all such objects and moves the entries over;     *)
(* what it pops it takes from its own entries or, at once, from the        *)
(* others'.  A roll-back undoes all of it.                                 *)
(*                                                                         *)
(* A list, queue or stack is the sequence of its entries, a stack from the *)
(* bottom up; a multiset is the tree of TxMultiset.                        *)
(***************************************************************************)
EXTENDS TxMultiset, SequencesExt

CONSTANTS
    Threads,
    Objects,
    Kind,           \* what each object is
    Initially,      \* the entries of each object at the start, in order
    Menus,          \* bound: sets of calls, of which programs make one
    MAX_CALLS,      \* bound: calls of a transaction
    MAX_TX,         \* bound: transactions of each thread
    Risks           \* what programs do, or meet, although it does not work

KnownRisks == {"equal keys", "no memory", "bounds"}

ASSUME KindAssumption == Kind \in [Objects -> {"list", "queue", "stack", "multiset"}]
ASSUME InitiallyAssumption ==
    /\ Initially \in [Objects -> Seq(Entries)]
    /\ \A o \in Objects : IsInjective(Initially[o])
    /\ \A o, p \in Objects : o # p => ToSet(Initially[o]) \cap ToSet(Initially[p]) = {}
ASSUME RisksAssumption == Risks \subseteq KnownRisks
ASSUME BoundsAssumption == MAX_CALLS \in Nat /\ MAX_TX \in Nat

(* The functions of each kind of object, and those that enqueue an entry.  *)
Operations(kind) ==
    CASE kind = "list" -> {"begin", "next", "empty", "size", "front", "back", "insert", "erase",
                           "push_front", "push_back", "pop_front", "pop_back", "clear"}
      [] kind = "queue" -> {"empty", "size", "front", "back", "pop", "push"}
      [] kind = "stack" -> {"empty", "size", "top", "pop", "push"}
      [] kind = "multiset" -> {"begin", "empty", "size", "find", "lower_bound", "upper_bound",
                               "count", "insert", "erase", "clear"}

Enqueueing == {"insert", "push_front", "push_back", "push"}

ASSUME CallsAssumption ==
    \A m \in Menus : \A c \in m :
        /\ c.object \in Objects
        /\ c.op \in Operations(Kind[c.object])
        /\ c.op \in Enqueueing => c.entry \in Entries

(* Equal keys do not survive in a tree with smaller ones.                  *)
ASSUME EqualKeysAssumption ==
    \/ "equal keys" \in Risks
    \/ \A d, e \in Entries : d # e /\ Key[d] = Key[e] => \A f \in Entries : Key[f] >= Key[e]

VARIABLES
    state,      \* the shared value of each object
    tx,         \* the locks and local entries of each transaction
    menu,       \* the calls that the program makes
    phase,      \* where each transaction is
    started,    \* transactions started by each thread
    log,        \* the events of each transaction
    applied,    \* the event that commit or roll-back has reached
    history     \* history: its calls, with their answers

txVars == <<menu, phase, started, log, applied, history>>
tlVars == <<state, tx, txVars>>

txlib_tx_init ==
    [rwstate |-> [o \in Objects |-> "UNLOCKED"], local |-> [o \in Objects |-> <<>>]]

(* The tree that a program builds before its transactions.                 *)
Inserted(s) ==
    LET built[k \in 0 .. Len(s)] == IF k = 0 THEN txmultiset_state_init
                                    ELSE txmultiset_state_insert(built[k - 1], s[k])
    IN  built[Len(s)]

TLInit ==
    /\ menu \in Menus
    /\ state = [o \in Objects |->
                   IF Kind[o] # "multiset" THEN Initially[o]
                   ELSE Inserted(Initially[o])]
    /\ tx = [t \in Threads |-> txlib_tx_init]
    /\ phase = [t \in Threads |-> "out"]
    /\ started = [t \in Threads |-> 0]
    /\ log = [t \in Threads |-> <<>>]
    /\ applied = [t \in Threads |-> 0]
    /\ history = [t \in Threads |-> <<>>]

-----------------------------------------------------------------------------
(* Sequences of entries, with HEAD as the end of every iteration.          *)

First(s) == IF s = <<>> THEN HEAD ELSE Head(s)
Final(s) == IF s = <<>> THEN HEAD ELSE Last(s)
Position(s, e) == CHOOSE k \in DOMAIN s : s[k] = e

txlist_entry_next(s, e) == First(SubSeq(s, Position(s, e) + 1, Len(s)))
txlist_entry_insert(s, e, next) ==
    IF next = HEAD THEN Append(s, e) ELSE InsertAt(s, Position(s, next), e)
txlist_entry_erase(s, e) == RemoveAt(s, Position(s, e))

txqueue_entry_erase(s, e) == RemoveAt(s, Position(s, e))
txqueue_state_push_front(s, e) == <<e>> \o s
txqueue_state_push_back(s, e) == Append(s, e)
txqueue_state_pop_front(s) == Tail(s)

txstack_entry_erase(s, e) == RemoveAt(s, Position(s, e))
txstack_state_push(s, e) == Append(s, e)
txstack_state_pop(s) == Front(s)

Contents(s, o) == IF Kind[o] = "multiset" THEN EntriesOf(s) ELSE ToSet(s)

-----------------------------------------------------------------------------
(* Events.  Each is carried out when it is logged, on the shared value and *)
(* the local entries of its object: s.state and s.local.                   *)

Event(op, o, e, position, local) ==
    [op |-> op, object |-> o, entry |-> e, position |-> position, local |-> local]

exec_list_insert(s, v) == [s EXCEPT !.state = txlist_entry_insert(@, v.entry, v.position)]
exec_list_erase(s, v) == [s EXCEPT !.state = txlist_entry_erase(@, v.entry)]

exec_multiset_insert(s, v) == [s EXCEPT !.state = txmultiset_state_insert(@, v.entry)]
exec_multiset_erase(s, v) == [s EXCEPT !.state = txmultiset_state_erase(@, v.entry)]

exec_queue_push(s, v) == [s EXCEPT !.local = txqueue_state_push_back(@, v.entry)]
exec_queue_pop(s, v) ==
    IF v.local THEN [s EXCEPT !.local = txqueue_entry_erase(@, v.entry)]
               ELSE [s EXCEPT !.state = txqueue_state_pop_front(@)]

exec_stack_push(s, v) == [s EXCEPT !.local = txstack_state_push(@, v.entry)]
exec_stack_pop(s, v) ==
    IF v.local THEN [s EXCEPT !.local = txstack_entry_erase(@, v.entry)]
               ELSE [s EXCEPT !.state = txstack_state_pop(@)]

txlib_event_exec(s, v) ==
    CASE v.op = "LIST_INSERT"     -> exec_list_insert(s, v)
      [] v.op = "LIST_ERASE"      -> exec_list_erase(s, v)
      [] v.op = "MULTISET_INSERT" -> exec_multiset_insert(s, v)
      [] v.op = "MULTISET_ERASE"  -> exec_multiset_erase(s, v)
      [] v.op = "QUEUE_PUSH"      -> exec_queue_push(s, v)
      [] v.op = "QUEUE_POP"       -> exec_queue_pop(s, v)
      [] v.op = "STACK_PUSH"      -> exec_stack_push(s, v)
      [] v.op = "STACK_POP"       -> exec_stack_pop(s, v)

(* An entry that is no longer the first of the local ones has been popped. *)

(* Mutant: leaves the entry in the local queue, too.                       *)
Mut_txqueue_tx_apply_push(s, e) ==
    IF First(s.local) # e THEN s
    ELSE [state |-> txqueue_state_push_back(s.state, e), local |-> s.local]

txqueue_tx_apply_push(s, e) ==
    IF First(s.local) # e THEN s
    ELSE [state |-> txqueue_state_push_back(s.state, e),
          local |-> txqueue_entry_erase(s.local, e)]

txstack_tx_apply_push(s, e) ==
    IF First(s.local) # e THEN s
    ELSE [state |-> txstack_state_push(s.state, e),
          local |-> txstack_entry_erase(s.local, e)]

txlib_event_apply(s, v) ==
    CASE v.op = "QUEUE_PUSH" -> txqueue_tx_apply_push(s, v.entry)
      [] v.op = "STACK_PUSH" -> txstack_tx_apply_push(s, v.entry)
      [] OTHER -> s

txlist_tx_undo_insert(s, v) == [s EXCEPT !.state = txlist_entry_erase(@, v.entry)]
txlist_tx_undo_erase(s, v) == [s EXCEPT !.state = txlist_entry_insert(@, v.entry, v.position)]

txmultiset_tx_undo_insert(s, v) == [s EXCEPT !.state = txmultiset_state_erase(@, v.entry)]
txmultiset_tx_undo_erase(s, v) == [s EXCEPT !.state = txmultiset_state_insert(@, v.entry)]

(* Mutant: leaves the entry in the local queue.                            *)
Mut_txqueue_tx_undo_push(s, v) == s

txqueue_tx_undo_push(s, v) == [s EXCEPT !.local = txqueue_entry_erase(@, v.entry)]
txqueue_tx_undo_pop(s, v) ==
    IF v.local THEN [s EXCEPT !.local = txqueue_state_push_front(@, v.entry)]
               ELSE [s EXCEPT !.state = txqueue_state_push_front(@, v.entry)]

txstack_tx_undo_push(s, v) == [s EXCEPT !.local = txstack_entry_erase(@, v.entry)]
txstack_tx_undo_pop(s, v) ==
    IF v.local THEN [s EXCEPT !.local = txstack_state_push(@, v.entry)]
               ELSE [s EXCEPT !.state = txstack_state_push(@, v.entry)]

txlib_event_undo(s, v) ==
    CASE v.op = "LIST_INSERT"     -> txlist_tx_undo_insert(s, v)
      [] v.op = "LIST_ERASE"      -> txlist_tx_undo_erase(s, v)
      [] v.op = "MULTISET_INSERT" -> txmultiset_tx_undo_insert(s, v)
      [] v.op = "MULTISET_ERASE"  -> txmultiset_tx_undo_erase(s, v)
      [] v.op = "QUEUE_PUSH"      -> txqueue_tx_undo_push(s, v)
      [] v.op = "QUEUE_POP"       -> txqueue_tx_undo_pop(s, v)
      [] v.op = "STACK_PUSH"      -> txstack_tx_undo_push(s, v)
      [] v.op = "STACK_POP"       -> txstack_tx_undo_pop(s, v)

-----------------------------------------------------------------------------
(* Calls.  Each is the record of the locks it takes, in order, of the      *)
(* events it logs, of what it returns, and of whether the program may make *)
(* it: popping from what is empty, erasing what is not there and inserting *)
(* what is enqueued already are errors of the program.                     *)

Call == [locks |-> <<>>, events |-> <<>>, answer |-> NULL, allowed |-> TRUE]

picotm_rwstate_try_rdlock(v) == [v EXCEPT !.locks = Append(@, "RDLOCKED")]
picotm_rwstate_try_wrlock(v) == [v EXCEPT !.locks = Append(@, "WRLOCKED")]

ReadLocked(answer) == [picotm_rwstate_try_rdlock(Call) EXCEPT !.answer = answer]
WriteLocked(events) == [picotm_rwstate_try_wrlock(Call) EXCEPT !.events = events]

(* Entries that nobody has enqueued, or might still enqueue again.         *)
Free(t, e) ==
    /\ \A o \in Objects : /\ e \notin Contents(state[o], o)
                          /\ \A u \in Threads : e \notin ToSet(tx[u].local[o])
    /\ \A u \in Threads \ {t} : \A k \in DOMAIN log[u] : log[u][k].entry # e

Insertion(t, c, v) == [v EXCEPT !.allowed = Free(t, c.entry)]
Removal(t, c, v) == [v EXCEPT !.allowed = c.entry \in Contents(state[c.object], c.object)]

(* Lists.                                                                  *)
txlist_tx_exec_begin(t, c) == ReadLocked(First(state[c.object]))
txlist_tx_exec_empty(t, c) == ReadLocked(state[c.object] = <<>>)
txlist_tx_exec_size(t, c)  == ReadLocked(Len(state[c.object]))
txlist_tx_exec_front(t, c) == ReadLocked(First(state[c.object]))
txlist_tx_exec_back(t, c)  == ReadLocked(Final(state[c.object]))

(* Programs that have locked the list follow its links.                    *)
txlist_entry_next_tx(t, c) ==
    LET there == c.entry \in ToSet(state[c.object])
    IN  [Call EXCEPT !.allowed = tx[t].rwstate[c.object] # "UNLOCKED" /\ there,
                     !.answer = IF there THEN txlist_entry_next(state[c.object], c.entry)
                                         ELSE NULL]

ListInsert(t, c, position) ==
    Insertion(t, c, WriteLocked(<<Event("LIST_INSERT", c.object, c.entry, position, FALSE)>>))

ListErase(o, e) ==
    Event("LIST_ERASE", o, e, txlist_entry_next(state[o], e), FALSE)

txlist_tx_exec_insert(t, c) ==
    LET v == ListInsert(t, c, c.position)
    IN  [v EXCEPT !.allowed = @ /\ c.position \in ToSet(state[c.object]) \cup {HEAD}]

txlist_tx_exec_push_front(t, c) == ListInsert(t, c, First(state[c.object]))
txlist_tx_exec_push_back(t, c)  == ListInsert(t, c, HEAD)

txlist_tx_exec_erase(t, c) ==
    LET there == c.entry \in ToSet(state[c.object])
    IN  Removal(t, c, WriteLocked(IF there THEN <<ListErase(c.object, c.entry)>> ELSE <<>>))

ListPop(c, e) ==
    [WriteLocked(IF e = HEAD THEN <<>> ELSE <<ListErase(c.object, e)>>)
     EXCEPT !.allowed = e # HEAD]

txlist_tx_exec_pop_front(t, c) == ListPop(c, First(state[c.object]))
txlist_tx_exec_pop_back(t, c)  == ListPop(c, Final(state[c.object]))

txlist_tx_exec_clear(t, c) ==
    LET s == state[c.object]
    IN  WriteLocked([k \in DOMAIN s |-> ListErase(c.object, s[k])])

(* Queues.                                                                 *)
txqueue_tx_exec_empty(t, c) ==
    IF tx[t].local[c.object] # <<>> THEN [Call EXCEPT !.answer = FALSE]
                                    ELSE ReadLocked(state[c.object] = <<>>)

txqueue_tx_exec_size(t, c) ==
    ReadLocked(Len(tx[t].local[c.object]) + Len(state[c.object]))

txqueue_tx_exec_front(t, c) ==
    ReadLocked(IF state[c.object] = <<>> THEN First(tx[t].local[c.object])
                                         ELSE First(state[c.object]))

txqueue_tx_exec_back(t, c) ==
    IF tx[t].local[c.object] # <<>> THEN [Call EXCEPT !.answer = Last(tx[t].local[c.object])]
                                    ELSE ReadLocked(Final(state[c.object]))

(* Mutant: the reader lock will do.                                        *)
Mut_txqueue_tx_exec_pop(t, c) ==
    LET use_local_queue == state[c.object] = <<>>
        e == First(IF use_local_queue THEN tx[t].local[c.object] ELSE state[c.object])
    IN  [picotm_rwstate_try_rdlock(Call) EXCEPT
            !.events = <<Event("QUEUE_POP", c.object, e, NULL, use_local_queue)>>,
            !.allowed = e # HEAD]

txqueue_tx_exec_pop(t, c) ==
    LET use_local_queue == state[c.object] = <<>>
        v == picotm_rwstate_try_rdlock(Call)
        e == First(IF use_local_queue THEN tx[t].local[c.object] ELSE state[c.object])
    IN  [IF use_local_queue THEN v ELSE picotm_rwstate_try_wrlock(v) EXCEPT
            !.events = <<Event("QUEUE_POP", c.object, e, NULL, use_local_queue)>>,
            !.allowed = e # HEAD]

txqueue_tx_exec_push(t, c) ==
    Insertion(t, c, [Call EXCEPT
        !.events = <<Event("QUEUE_PUSH", c.object, c.entry, NULL, FALSE)>>])

(* Stacks.                                                                 *)
txstack_tx_exec_empty(t, c) ==
    IF tx[t].local[c.object] # <<>> THEN [Call EXCEPT !.answer = FALSE]
                                    ELSE ReadLocked(state[c.object] = <<>>)

txstack_tx_exec_size(t, c) ==
    ReadLocked(Len(tx[t].local[c.object]) + Len(state[c.object]))

txstack_tx_exec_top(t, c) ==
    IF tx[t].local[c.object] # <<>> THEN [Call EXCEPT !.answer = Last(tx[t].local[c.object])]
                                    ELSE ReadLocked(Final(state[c.object]))

txstack_tx_exec_pop(t, c) ==
    LET use_local_stack == tx[t].local[c.object] # <<>>
        e == Final(IF use_local_stack THEN tx[t].local[c.object] ELSE state[c.object])
    IN  [IF use_local_stack THEN Call ELSE picotm_rwstate_try_wrlock(Call) EXCEPT
            !.events = <<Event("STACK_POP", c.object, e, NULL, use_local_stack)>>,
            !.allowed = e # HEAD]

txstack_tx_exec_push(t, c) ==
    Insertion(t, c, [Call EXCEPT
        !.events = <<Event("STACK_PUSH", c.object, c.entry, NULL, FALSE)>>])

(* Multisets.  Of an entry that is found the program learns the key.       *)
KeyOf(e) == IF e = HEAD THEN NULL ELSE Key[e]

txmultiset_tx_exec_begin(t, c) == ReadLocked(KeyOf(txmultiset_state_begin(state[c.object])))
txmultiset_tx_exec_empty(t, c) == ReadLocked(txmultiset_state_is_empty(state[c.object]))
txmultiset_tx_exec_size(t, c)  == ReadLocked(txmultiset_state_size(state[c.object]))
txmultiset_tx_exec_find(t, c)  == ReadLocked(KeyOf(txmultiset_entry_find(state[c.object], c.key)))
txmultiset_tx_exec_count(t, c) == ReadLocked(txmultiset_state_count(state[c.object], c.key))

(* lower_bound returns the entry in front of those with the key, and       *)
(* upper_bound finds nothing behind a key that is not there and the last   *)
(* entry with the key if nothing is behind it.  Programs get what they     *)
(* have been promised only where none of this makes a difference.          *)
KeysOf(o) == {Key[e] : e \in EntriesOf(state[o])}
IsIn(c) == c.key \in KeysOf(c.object)
LowerBoundFits(c) == IsIn(c) => \A k \in KeysOf(c.object) : k >= c.key
UpperBoundFits(c) == IsIn(c) <=> \E k \in KeysOf(c.object) : k > c.key

Bound(answer, fits) ==
    [ReadLocked(answer) EXCEPT !.allowed = fits \/ "bounds" \in Risks]

txmultiset_tx_exec_lower_bound(t, c) ==
    Bound(KeyOf(txmultiset_state_lower_bound(state[c.object], c.key)), LowerBoundFits(c))
txmultiset_tx_exec_upper_bound(t, c) ==
    Bound(KeyOf(txmultiset_state_upper_bound(state[c.object], c.key)), UpperBoundFits(c))

MultisetErase(o, e) == Event("MULTISET_ERASE", o, e, NULL, FALSE)

txmultiset_tx_exec_insert(t, c) ==
    Insertion(t, c, WriteLocked(<<Event("MULTISET_INSERT", c.object, c.entry, NULL, FALSE)>>))

txmultiset_tx_exec_erase(t, c) ==
    Removal(t, c, WriteLocked(<<MultisetErase(c.object, c.entry)>>))

(* The front of what is left, again and again.                             *)
txmultiset_tx_exec_clear(t, c) ==
    LET o == c.object
        size == txmultiset_state_size(state[o])
        left[k \in 0 .. size] ==
            IF k = 0 THEN state[o]
            ELSE txmultiset_state_erase(left[k - 1], txmultiset_state_front(left[k - 1]))
    IN  WriteLocked([k \in 1 .. size |-> MultisetErase(o, txmultiset_state_front(left[k - 1]))])

list_calls(t, c) ==
    CASE c.op = "begin"      -> txlist_tx_exec_begin(t, c)
      [] c.op = "next"       -> txlist_entry_next_tx(t, c)
      [] c.op = "empty"      -> txlist_tx_exec_empty(t, c)
      [] c.op = "size"       -> txlist_tx_exec_size(t, c)
      [] c.op = "front"      -> txlist_tx_exec_front(t, c)
      [] c.op = "back"       -> txlist_tx_exec_back(t, c)
      [] c.op = "insert"     -> txlist_tx_exec_insert(t, c)
      [] c.op = "erase"      -> txlist_tx_exec_erase(t, c)
      [] c.op = "push_front" -> txlist_tx_exec_push_front(t, c)
      [] c.op = "push_back"  -> txlist_tx_exec_push_back(t, c)
      [] c.op = "pop_front"  -> txlist_tx_exec_pop_front(t, c)
      [] c.op = "pop_back"   -> txlist_tx_exec_pop_back(t, c)
      [] c.op = "clear"      -> txlist_tx_exec_clear(t, c)

queue_calls(t, c) ==
    CASE c.op = "empty" -> txqueue_tx_exec_empty(t, c)
      [] c.op = "size"  -> txqueue_tx_exec_size(t, c)
      [] c.op = "front" -> txqueue_tx_exec_front(t, c)
      [] c.op = "back"  -> txqueue_tx_exec_back(t, c)
      [] c.op = "pop"   -> txqueue_tx_exec_pop(t, c)
      [] c.op = "push"  -> txqueue_tx_exec_push(t, c)

stack_calls(t, c) ==
    CASE c.op = "empty" -> txstack_tx_exec_empty(t, c)
      [] c.op = "size"  -> txstack_tx_exec_size(t, c)
      [] c.op = "top"   -> txstack_tx_exec_top(t, c)
      [] c.op = "pop"   -> txstack_tx_exec_pop(t, c)
      [] c.op = "push"  -> txstack_tx_exec_push(t, c)

multiset_calls(t, c) ==
    CASE c.op = "begin"       -> txmultiset_tx_exec_begin(t, c)
      [] c.op = "empty"       -> txmultiset_tx_exec_empty(t, c)
      [] c.op = "size"        -> txmultiset_tx_exec_size(t, c)
      [] c.op = "find"        -> txmultiset_tx_exec_find(t, c)
      [] c.op = "lower_bound" -> txmultiset_tx_exec_lower_bound(t, c)
      [] c.op = "upper_bound" -> txmultiset_tx_exec_upper_bound(t, c)
      [] c.op = "count"       -> txmultiset_tx_exec_count(t, c)
      [] c.op = "insert"      -> txmultiset_tx_exec_insert(t, c)
      [] c.op = "erase"       -> txmultiset_tx_exec_erase(t, c)
      [] c.op = "clear"       -> txmultiset_tx_exec_clear(t, c)

txlib_module(t, c) ==
    CASE Kind[c.object] = "list"     -> list_calls(t, c)
      [] Kind[c.object] = "queue"    -> queue_calls(t, c)
      [] Kind[c.object] = "stack"    -> stack_calls(t, c)
      [] Kind[c.object] = "multiset" -> multiset_calls(t, c)

-----------------------------------------------------------------------------
(* Transactions.                                                           *)

Grantable(t, o, status) ==
    LET own == tx[t].rwstate[o]
        Others == {tx[u].rwstate[o] : u \in Threads \ {t}}
    IN  IF status = "RDLOCKED" THEN own # "UNLOCKED" \/ "WRLOCKED" \notin Others
                               ELSE own = "WRLOCKED" \/ Others \subseteq {"UNLOCKED"}

Locked(t, o, locks) ==
    [tx EXCEPT ![t].rwstate[o] =
        IF "WRLOCKED" \in ToSet(locks) THEN "WRLOCKED"
        ELSE IF "RDLOCKED" \in ToSet(locks) /\ @ = "UNLOCKED" THEN "RDLOCKED" ELSE @]

RollBack(t) ==
    /\ phase' = [phase EXCEPT ![t] = "undo"]
    /\ applied' = [applied EXCEPT ![t] = Len(log'[t])]
    /\ history' = [history EXCEPT ![t] = <<>>]

Begin(t) ==
    /\ phase[t] = "out" /\ started[t] < MAX_TX
    /\ phase' = [phase EXCEPT ![t] = "run"]
    /\ started' = [started EXCEPT ![t] = @ + 1]
    /\ UNCHANGED <<state, tx, menu, log, applied, history>>

Before(t, o) == [state |-> state[o], local |-> tx[t].local[o]]

(* The first k events of the call are carried out, and n of them logged.   *)
txlib_tx_append_events(t, c, v, k, n) ==
    LET o == c.object
        after[j \in 0 .. k] == IF j = 0 THEN Before(t, o)
                                       ELSE txlib_event_exec(after[j - 1], v.events[j])
    IN  /\ state' = [state EXCEPT ![o] = after[k].state]
        /\ tx' = [Locked(t, o, v.locks) EXCEPT ![t].local[o] = after[k].local]
        /\ log' = [log EXCEPT ![t] = @ \o SubSeq(v.events, 1, n)]

Exec(t, c) ==
    LET v == txlib_module(t, c)
    IN  /\ phase[t] = "run" /\ Len(history[t]) < MAX_CALLS
        /\ \A k \in DOMAIN v.locks : Grantable(t, c.object, v.locks[k])
        /\ v.allowed
        /\ txlib_tx_append_events(t, c, v, Len(v.events), Len(v.events))
        /\ history' = [history EXCEPT ![t] = Append(@, <<c, v.answer>>)]
        /\ UNCHANGED <<menu, phase, started, applied>>

(* A lock that the call does not get, after others that it has got.        *)
Conflict(t, c) ==
    LET v == txlib_module(t, c)
        Refused == {k \in DOMAIN v.locks : ~Grantable(t, c.object, v.locks[k])}
    IN  /\ phase[t] = "run"
        /\ \E k \in Refused :
               /\ \A j \in 1 .. k - 1 : j \notin Refused
               /\ tx' = Locked(t, c.object, SubSeq(v.locks, 1, k - 1))
        /\ UNCHANGED <<state, log, menu, started>>
        /\ RollBack(t)

(* Memory runs out before the events are carried out or, although programs *)
(* do not survive that, after one of them and before it is logged.         *)
NoMemory(t, c) ==
    LET v == txlib_module(t, c)
    IN  /\ phase[t] = "run"
        /\ \A k \in DOMAIN v.locks : Grantable(t, c.object, v.locks[k])
        /\ v.allowed /\ v.events # <<>>
        /\ \/ txlib_tx_append_events(t, c, v, 0, 0)
           \/ /\ "no memory" \in Risks
              /\ \E k \in DOMAIN v.events : txlib_tx_append_events(t, c, v, k, k - 1)
        /\ UNCHANGED <<menu, started>>
        /\ RollBack(t)

(* A commit first locks the queues and stacks that have local entries, in  *)
(* the order in which it has met them.                                     *)
txlib_tx_prepare_commit(t) ==
    /\ phase[t] = "run"
    /\ phase' = [phase EXCEPT ![t] = "prepare"]
    /\ UNCHANGED <<state, tx, menu, started, log, applied, history>>

Unprepared(t) == {o \in Objects : tx[t].local[o] # <<>> /\ tx[t].rwstate[o] # "WRLOCKED"}

txqueue_tx_lock(t, o) ==
    IF Grantable(t, o, "WRLOCKED")
    THEN tx' = Locked(t, o, <<"WRLOCKED">>) /\ UNCHANGED <<state, txVars>>
    ELSE UNCHANGED <<state, tx, menu, started, log>> /\ RollBack(t)

txstack_tx_lock(t, o) == txqueue_tx_lock(t, o)

Prepare(t) ==
    /\ phase[t] = "prepare"
    /\ \E o \in Unprepared(t) :
           \/ Kind[o] = "queue" /\ txqueue_tx_lock(t, o)
           \/ Kind[o] = "stack" /\ txstack_tx_lock(t, o)

Commit(t) ==
    /\ phase[t] = "prepare" /\ Unprepared(t) = {}
    /\ phase' = [phase EXCEPT ![t] = "apply"]
    /\ history' = [history EXCEPT ![t] = <<>>]
    /\ UNCHANGED <<state, tx, menu, started, log, applied>>

Replace(t, o, s) ==
    /\ state' = [state EXCEPT ![o] = s.state]
    /\ tx' = [tx EXCEPT ![t].local[o] = s.local]

txlib_tx_apply_event(t) ==
    /\ phase[t] = "apply" /\ applied[t] < Len(log[t])
    /\ LET v == log[t][applied[t] + 1]
       IN  Replace(t, v.object, txlib_event_apply(Before(t, v.object), v))
    /\ applied' = [applied EXCEPT ![t] = @ + 1]
    /\ UNCHANGED <<menu, phase, started, log, history>>

txlib_tx_undo_event(t) ==
    /\ phase[t] = "undo" /\ applied[t] > 0
    /\ LET v == log[t][applied[t]]
       IN  Replace(t, v.object, txlib_event_undo(Before(t, v.object), v))
    /\ applied' = [applied EXCEPT ![t] = @ - 1]
    /\ UNCHANGED <<menu, phase, started, log, history>>

cleanup(s) == [s EXCEPT !.rwstate = [o \in Objects |-> "UNLOCKED"]]

txlib_tx_finish(t) ==
    /\ \/ phase[t] = "apply" /\ applied[t] = Len(log[t])
       \/ phase[t] = "undo" /\ applied[t] = 0
    /\ tx' = [tx EXCEPT ![t] = cleanup(@)]
    /\ phase' = [phase EXCEPT ![t] = "out"]
    /\ log' = [log EXCEPT ![t] = <<>>]
    /\ applied' = [applied EXCEPT ![t] = 0]
    /\ UNCHANGED <<state, menu, started, history>>

TLNext ==
    \E t \in Threads :
        \/ Begin(t)
        \/ \E c \in menu : Exec(t, c) \/ Conflict(t, c) \/ NoMemory(t, c)
        \/ txlib_tx_prepare_commit(t)
        \/ Prepare(t)
        \/ Commit(t)
        \/ txlib_tx_apply_event(t)
        \/ txlib_tx_undo_event(t)
        \/ txlib_tx_finish(t)

TLSpec == TLInit /\ [][TLNext]_tlVars

-----------------------------------------------------------------------------
(* Properties.                                                             *)

(* Types; and transactions that are over hold no locks and no events.      *)
TLTypeOK ==
    /\ \A o \in Objects : IF Kind[o] = "multiset" THEN DOMAIN state[o] = Nodes
                                                  ELSE state[o] \in Seq(Entries)
    /\ phase \in [Threads -> {"out", "run", "prepare", "apply", "undo"}]
    /\ started \in [Threads -> 0 .. MAX_TX]
    /\ \A t \in Threads :
          /\ tx[t].rwstate \in [Objects -> {"UNLOCKED", "RDLOCKED", "WRLOCKED"}]
          /\ tx[t].local \in [Objects -> Seq(Entries)]
          /\ applied[t] \in 0 .. Len(log[t])
          /\ Len(history[t]) \in 0 .. MAX_CALLS
          /\ phase[t] = "out" =>
                 log[t] = <<>> /\ \A o \in Objects : tx[t].rwstate[o] = "UNLOCKED"

(* An entry is a member of one object at most, or of the local part of one *)
(* transaction: what the assertions of txlist_entry_insert and its likes   *)
(* say, at any time.                                                       *)
Places == {<<o>> : o \in Objects} \cup Threads \X Objects
At(p) == IF Len(p) = 1 THEN Contents(state[p[1]], p[1]) ELSE ToSet(tx[p[1]].local[p[2]])

EntryIsInOnePlace ==
    /\ TLTypeOK
    /\ \A p, q \in Places : p # q => At(p) \cap At(q) = {}
    /\ \A o \in Objects : Kind[o] # "multiset" => IsInjective(state[o])

(* When a transaction is over its local queues and stacks are empty, as    *)
(* txqueue_entry_uninit_head and txstack_entry_uninit_head assert.         *)
NoEntryIsLeftBehind ==
    \A t \in Threads : phase[t] = "out" => \A o \in Objects : tx[t].local[o] = <<>>

(* The number of entries in a multiset, as txmultiset_size_tx counts them, *)
(* is the number of those that have been inserted and not erased.          *)
SizeCountsEntries ==
    \A o \in Objects :
        Kind[o] = "multiset" => txmultiset_state_size(state[o]) = Cardinality(EntriesOf(state[o]))

(* The abstract objects: sequences, and multisets as sets of entries.      *)
Effect(s, c) ==
    LET kind == Kind[c.object]
    IN  IF kind = "multiset"
        THEN CASE c.op = "insert" -> s \cup {c.entry}
               [] c.op = "erase" -> s \ {c.entry}
               [] c.op = "clear" -> {}
               [] OTHER -> s
        ELSE CASE c.op \in {"push", "push_back"} -> Append(s, c.entry)
               [] c.op = "push_front" -> <<c.entry>> \o s
               [] c.op = "insert" -> txlist_entry_insert(s, c.entry, c.position)
               [] c.op = "erase" -> txlist_entry_erase(s, c.entry)
               [] c.op = "pop_front" \/ (c.op = "pop" /\ kind = "queue") -> Tail(s)
               [] c.op = "pop_back" \/ (c.op = "pop" /\ kind = "stack") -> Front(s)
               [] c.op = "clear" -> <<>>
               [] OTHER -> s

Least(keys) == IF keys = {} THEN NULL ELSE CHOOSE k \in keys : \A j \in keys : k <= j

Answer(s, c) ==
    IF Kind[c.object] = "multiset"
    THEN LET Same == {e \in s : c.op \in {"find", "count", "lower_bound", "upper_bound"}
                                /\ Key[e] = c.key}
         IN  CASE c.op = "begin" -> Least({Key[e] : e \in s})
               [] c.op = "empty" -> s = {}
               [] c.op = "size" -> Cardinality(s)
               [] c.op = "find" -> IF Same = {} THEN NULL ELSE c.key
               [] c.op = "lower_bound" -> IF Same = {} THEN NULL ELSE c.key
               [] c.op = "upper_bound" -> Least({Key[e] : e \in {d \in s : Key[d] > c.key}})
               [] c.op = "count" -> Cardinality(Same)
               [] OTHER -> NULL
    ELSE CASE c.op \in {"begin", "front"} -> First(s)
           [] c.op \in {"back", "top"} -> Final(s)
           [] c.op = "next" -> txlist_entry_next(s, c.entry)
           [] c.op = "empty" -> s = <<>>
           [] c.op = "size" -> Len(s)
           [] OTHER -> NULL

(* What a search for the first entry with a key, or with a larger one, has *)
(* just returned is what picotm-txmultiset.h:174-198 says: of a running    *)
(* transaction's last call, on the value that it has locked.               *)
AnswerIsDocumented(op) ==
    \A t \in Threads :
        phase[t] = "run" /\ history[t] # <<>> =>
            LET c == Last(history[t])[1]
            IN  c.op = op => Last(history[t])[2] = Answer(EntriesOf(state[c.object]), c)

(* txmultiset_lower_bound_tx: the first entry with the key.                *)
LowerBoundIsDocumented == AnswerIsDocumented("lower_bound")

(* txmultiset_upper_bound_tx: the first entry with a larger key.           *)
UpperBoundIsDocumented == AnswerIsDocumented("upper_bound")

(* The values once every commit and every roll-back under way is over, and *)
(* running transactions have been rolled back: only the transaction that   *)
(* has locked an object for writing has anything to settle.                *)
Undone(old, t, o, n) ==
    LET back[k \in 0 .. n] ==
            IF k = n THEN old
            ELSE IF log[t][k + 1].object = o THEN txlib_event_undo(back[k + 1], log[t][k + 1])
                                             ELSE back[k + 1]
    IN  back[0]

Completed(old, t, o) ==
    LET forth[k \in 0 .. Len(log[t])] ==
            IF k <= applied[t] THEN old
            ELSE IF log[t][k].object = o THEN txlib_event_apply(forth[k - 1], log[t][k])
                                         ELSE forth[k - 1]
    IN  forth[Len(log[t])]

Settled(t, o) ==
    CASE phase[t] = "apply" -> Completed(Before(t, o), t, o).state
      [] phase[t] = "undo"  -> Undone(Before(t, o), t, o, applied[t]).state
      [] OTHER              -> Undone(Before(t, o), t, o, Len(log[t])).state

CommittedValue(o) ==
    LET Writers == {t \in Threads : tx[t].rwstate[o] = "WRLOCKED"}
        s == IF Writers = {} THEN state[o] ELSE Settled(CHOOSE t \in Writers : TRUE, o)
    IN  IF Kind[o] = "multiset" THEN EntriesOf(s) ELSE s

(* Entries that stay local until the commit, entries that are moved at     *)
(* once and moved back, and locks taken only when needed: to the program   *)
(* the calls of a transaction are made all at once, on what others have    *)
(* committed.                                                              *)
Promise == INSTANCE AtomicObjects WITH
    committed <- [o \in Objects |-> CommittedValue(o)]

ImplementsAtomicObjects == Promise!AOSpec
=============================================================================
