------------------------------- MODULE MCTxLib -------------------------------
(* Model checking of TxLib.                                                *)
EXTENDS TxLib, TLC

CONSTANTS t1, t2,
    list, queue1, queue2, stack, tree,
    ea, eb, ec, ed, ee, ef      \* entries

TwoThreads == {t1, t2}
ThreadSymmetry == Permutations(TwoThreads)

MCObjects == {list, queue1, queue2, stack, tree}
MCKind == (list :> "list") @@ (queue1 :> "queue") @@ (queue2 :> "queue")
          @@ (stack :> "stack") @@ (tree :> "multiset")
MCEntries == {ea, eb, ec, ed, ee, ef}
MCKey == (ea :> 1) @@ (eb :> 3) @@ (ec :> 4) @@ (ed :> 5) @@ (ee :> 1) @@ (ef :> 2)
MCInitially == (list :> <<ec>>) @@ (queue1 :> <<ed>>) @@ (queue2 :> <<>>)
               @@ (stack :> <<ee>>) @@ (tree :> <<ef>>)

On(op, o) == [op |-> op, object |-> o]
With(op, o, x) == [op |-> op, object |-> o, entry |-> x]
Insert(o, x, position) ==
    [op |-> "insert", object |-> o, entry |-> x, position |-> position]
Find(op, o, key) == [op |-> op, object |-> o, key |-> key]

Lists == {On("begin", list), With("next", list, ec), On("empty", list),
          With("push_back", list, eb), Insert(list, ea, ec)}
ListEnds == {On("size", list), On("back", list), With("push_front", list, ea),
             With("push_back", list, eb)}
ListRemovals == {With("push_back", list, ea), On("front", list),
                 With("erase", list, ec), On("pop_front", list), On("pop_back", list),
                 On("clear", list)}
Pushes(o) == {With("push", o, ea), With("push", o, eb)}
Queues == {On(op, queue1) : op \in {"empty", "size", "pop"}} \cup Pushes(queue1)
QueueEnds == {On(op, queue1) : op \in {"front", "back", "pop"}} \cup Pushes(queue1)
Stacks == {On(op, stack) : op \in {"empty", "size", "top", "pop"}} \cup Pushes(stack)
TwoQueues == {On("pop", queue1), On("pop", queue2), With("push", queue1, ea),
              With("push", queue2, ea), With("push", queue2, eb), On("front", queue1)}
Inserts == {With("insert", tree, x) : x \in {ea, eb}}
Multisets == {On(op, tree) : op \in {"begin", "empty", "size", "clear"}}
             \cup Inserts \cup {With("erase", tree, ef)}
Searches == {Find(op, tree, 1) : op \in {"find", "count"}}
            \cup Inserts \cup {With("erase", tree, ef)}
Bounds == {Find(op, tree, 1) : op \in {"lower_bound", "upper_bound"}}
          \cup Inserts \cup {With("erase", tree, ef)}

(* Risk: a smaller key in front of the one searched for, and a larger one  *)
(* behind one that is not there.                                           *)
BoundsMenus == {{Find("lower_bound", tree, 2), Find("upper_bound", tree, 1)} \cup Inserts}

MCMenus == {Lists, ListEnds, ListRemovals, Queues, QueueEnds, Stacks, TwoQueues,
            Multisets, Searches, Bounds}
=============================================================================
