---------------------------- MODULE AtomicObjects ----------------------------
(***************************************************************************)
(* What the data structures of modules/txlib promise: whatever locks and   *)
(* local copies they use, the answers of a transaction's calls are those   *)
(* that the calls would get if they were all made at once on the committed *)
(* values, at any time until the transaction ends, and its commit does     *)
(* just that.                                                              *)
(***************************************************************************)
EXTENDS Integers, Sequences

CONSTANTS
    Threads,
    Objects,
    Effect(_, _),   \* what a call makes of a value
    Answer(_, _)    \* and what it returns

VARIABLES
    committed,      \* the committed value of each object
    history         \* the calls of each transaction, each with its answer

aoVars == <<committed, history>>

(* What the calls return and leave behind if they are made on the values.  *)
Replay(values, calls) ==
    LET after[k \in 0 .. Len(calls)] ==
            IF k = 0 THEN [values |-> values, valid |-> TRUE]
            ELSE LET before == after[k - 1]
                     call == calls[k][1]
                     answer == calls[k][2]
                     value == before.values[call.object]
                 IN  [values |-> [before.values EXCEPT ![call.object] = Effect(value, call)],
                      valid |-> before.valid /\ answer = Answer(value, call)]
    IN  after[Len(calls)]

AOInit ==
    /\ DOMAIN committed = Objects
    /\ history = [t \in Threads |-> <<>>]

Access(t) ==
    /\ history'[t] # <<>>
    /\ \E h \in {history'[t][Len(history'[t])]} :
           history' = [history EXCEPT ![t] = Append(@, h)]
    /\ Replay(committed, history'[t]).valid
    /\ UNCHANGED committed

(* What the other transactions have been told stays true.                  *)
Commit(t) ==
    /\ committed' = Replay(committed, history[t]).values
    /\ history' = [history EXCEPT ![t] = <<>>]
    /\ \A u \in Threads : Replay(committed', history'[u]).valid

Abort(t) ==
    /\ history' = [history EXCEPT ![t] = <<>>]
    /\ UNCHANGED committed

AONext == \E t \in Threads : Access(t) \/ Commit(t) \/ Abort(t)

AOSpec == AOInit /\ [][AONext]_aoVars
=============================================================================
