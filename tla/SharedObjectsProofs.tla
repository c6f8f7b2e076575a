------------------------ MODULE SharedObjectsProofs ------------------------
(***************************************************************************)
(* The shared objects, for any number of threads, descriptors and files,   *)
(* for tables of any size, and for tree maps with keys and directories of  *)
(* any size.                                                               *)
(*                                                                         *)
(* The first part is about the tables: transactions that use the same file *)
(* meet at one entry, and a descriptor outlives its users.  The second is  *)
(* about the trees: all look-ups of a key come to the same value, no node  *)
(* is lost, the users of one record lock in one page and a pointer keeps   *)
(* its word.  All hold as long as no transaction closes one of two         *)
(* descriptors of the same open file (Risks = {}).                         *)
(***************************************************************************)
EXTENDS SharedObjects, FiniteSetTheorems, WellFoundedInduction, TLAPS

-----------------------------------------------------------------------------
(* The inductive invariant of the tables.                                  *)

Operations == {"use", "record", "close", "open"}
WalkPcs == {"find", "search", "append"}
LockPcs == WalkPcs \cup {"rdlock", "wrlock"}
Pcs == LockPcs \cup {"idle", "fd_find", "fd_search", "stat", "lock", "record", "in_use",
                     "unwind", "close"}

Transactions ==
    [pc : Pcs, op : Operations \cup {"none"}, d : Descriptors \cup {Empty}, file : Files \cup {NoFile},
     table : Tables, lock : {"none", "rd", "wr"}, i : Nat, error : BOOLEAN,
     entry : [Tables -> Nat], fd : BOOLEAN, rw : {"none", "rd", "wr"}, ready : BOOLEAN]

FdEntries == [ref : Nat, state : {"UNUSED", "INUSE", "CLOSING"}]
Entries == [ref : Nat, id : Nat \cup {Empty}]

STTypeOK ==
    /\ kernel \in [Descriptors -> Files \cup {NoFile}]
    /\ fdtab \in Seq(FdEntries)
    /\ table \in [Tables -> Seq(Entries)]
    /\ tx \in [Threads -> Transactions]
    /\ promised \subseteq Descriptors

(* A transaction takes its references in the order fd, file, buffer, and   *)
(* returns them in the reverse order.                                      *)
PlaceFits(x) ==
    /\ x.pc = "idle" => x = Idle
    /\ x.pc # "idle" => x.d \in Descriptors /\ x.op \in Operations
    /\ ~x.error
    /\ x.lock # "none" <=> x.pc \in WalkPcs
    /\ x.pc \in {"search", "append"} => x.lock = "wr"
    /\ x.pc \in WalkPcs => x.i # 0
    /\ x.entry["buffer"] # 0 => x.entry["file"] # 0
    /\ x.entry["file"] # 0 => x.fd /\ x.file # NoFile
    /\ x.file # NoFile => x.fd \/ x.pc = "close"
    /\ x.pc \in {"fd_find", "fd_search", "stat"} => x.file = NoFile /\ x.table = "file"
    /\ x.pc \in {"fd_find", "fd_search", "close"} => ~x.fd
    /\ x.pc \in LockPcs =>
          /\ x.file # NoFile /\ x.fd /\ x.entry["buffer"] = 0
          /\ x.table = "file" <=> x.entry["file"] = 0
    /\ x.pc = "stat" => x.fd
    /\ x.pc = "close" => x.op = "open"
    /\ x.pc = "record" => x.op = "record"
    /\ x.pc \in {"lock", "record", "in_use"} => x.entry["buffer"] # 0
    /\ x.ready => x.pc \in {"record", "in_use", "unwind"}
    /\ x.pc \in {"record", "in_use"} => x.ready

(* A writer is alone on its walk over a table.                             *)
WritersAreAlone ==
    \A t, u \in Threads :
        t # u /\ tx[t].lock = "wr" /\ tx[t].table = tx[u].table => tx[u].lock = "none"

FdUsers(d) == {t \in Threads : tx[t].fd /\ tx[t].d = d}

(* An fd counts its users, and is in its initial state without them.       *)
FdsCount ==
    /\ \A d \in 0 .. Len(fdtab) - 1 :
          /\ fdtab[d + 1].ref = Cardinality(FdUsers(d))
          /\ fdtab[d + 1].ref = 0 => fdtab[d + 1] = fd_init
          /\ fdtab[d + 1].ref # 0 => fdtab[d + 1].state # "UNUSED"
    /\ \A t \in Threads : tx[t].fd => tx[t].d < Len(fdtab)

Closing(d) == d < Len(fdtab) /\ fdtab[d + 1].state = "CLOSING"

(* No other descriptor stands for the open file of d.                      *)
Alone(d) == kernel[d] # NoFile /\ \A e \in Descriptors \ {d} : kernel[e] # kernel[d]

DescriptorsFit ==
    /\ \A t \in Threads : tx[t].fd /\ tx[t].file # NoFile => kernel[tx[t].d] = tx[t].file
    /\ \A d \in Descriptors : Closing(d) => Alone(d)
    /\ \A t \in Threads : tx[t].op = "open" =>
          Alone(tx[t].d) /\ \A u \in Threads \ {t} : tx[u].d # tx[t].d

(* A transaction whose open() is neither committed nor to be closed.       *)
Opening(x) == x.op = "open" /\ ~(x.pc = "unwind" /\ x.ready)

PromisesFit ==
    /\ \A t \in Threads : Opening(tx[t]) => ~Closing(tx[t].d)
    /\ \A d \in Descriptors :
          d \in promised <=>
              /\ kernel[d] # NoFile /\ ~Closing(d)
              /\ \A t \in Threads : ~(Opening(tx[t]) /\ tx[t].d = d)

(* What an id of table k stands for, and what transaction x looks for.     *)
Meaning(k, id) == IF k = "file" THEN kernel[id] ELSE id
Object(k, x) == IF k = "file" THEN x.file ELSE Inode[x.file]

Users(k, i) == {t \in Threads : tx[t].entry[k] = i}

(* An entry counts its users, and all of them use what it stands for; no   *)
(* two entries stand for the same.                                         *)
EntriesCount ==
    \A k \in Tables :
        /\ Len(table[k]) <= Size[k]
        /\ \A i \in 1 .. Len(table[k]) :
              /\ table[k][i].ref = Cardinality(Users(k, i))
              /\ table[k][i].ref = 0 <=> table[k][i].id = Empty
              /\ k = "file" /\ table[k][i].id # Empty =>
                    table[k][i].id \in Descriptors /\ kernel[table[k][i].id] # NoFile
        /\ \A t \in Threads : tx[t].entry[k] # 0 =>
              /\ tx[t].entry[k] <= Len(table[k])
              /\ Meaning(k, table[k][tx[t].entry[k]].id) = Object(k, tx[t])

EntriesDiffer ==
    \A k \in Tables : \A i, j \in 1 .. Len(table[k]) :
        i # j /\ table[k][i].id # Empty /\ table[k][j].id # Empty =>
            Meaning(k, table[k][i].id) # Meaning(k, table[k][j].id)

(* What a writer has passed on its walk is not what it looks for.          *)
Passed(x) == IF x.pc = "find" THEN 1 .. x.i - 1 ELSE Nat

SearchFits(x) ==
    x.lock = "wr" =>
        \A i \in 1 .. Len(table[x.table]) :
            i \in Passed(x) /\ table[x.table][i].id # Empty =>
                Meaning(x.table, table[x.table][i].id) # Object(x.table, x)

TablesInv ==
    /\ STTypeOK
    /\ \A t \in Threads : PlaceFits(tx[t]) /\ SearchFits(tx[t])
    /\ WritersAreAlone /\ FdsCount /\ DescriptorsFit /\ PromisesFit
    /\ EntriesCount /\ EntriesDiffer

-----------------------------------------------------------------------------
(* Sets of threads.                                                        *)

LEMMA ThreadSets ==
    ASSUME NEW S \in SUBSET Threads
    PROVE  /\ IsFiniteSet(S) /\ Cardinality(S) \in Nat
           /\ Cardinality(S) = 0 <=> S = {}
           /\ \A t \in Threads \ S : Cardinality(S \cup {t}) = Cardinality(S) + 1
           /\ \A t \in S : Cardinality(S \ {t}) = Cardinality(S) - 1
  <1>1. IsFiniteSet(S)
    BY ThreadsAreFinite, FS_Subset
  <1>2. Cardinality(S) \in Nat /\ (Cardinality(S) = 0 <=> S = {})
    BY <1>1, FS_CardinalityType, FS_EmptySet
  <1>3. \A t \in Threads \ S : Cardinality(S \cup {t}) = Cardinality(S) + 1
    BY <1>1, FS_AddElement
  <1>4. \A t \in S : Cardinality(S \ {t}) = Cardinality(S) - 1
    BY <1>1, FS_RemoveElement
  <1> QED  BY <1>1, <1>2, <1>3, <1>4

LEMMA IdleIsAtRest ==
    /\ Idle \in Transactions
    /\ Idle.pc = "idle" /\ Idle.op = "none" /\ Idle.d = Empty /\ Idle.file = NoFile
    /\ Idle.lock = "none" /\ Idle.entry = [k \in Tables |-> 0]
    /\ Idle.fd = FALSE /\ Idle.ready = FALSE /\ Idle.error = FALSE
  BY DEF Idle, Transactions, Pcs, Tables

LEMMA NotIdle ==
    ASSUME NEW x, PlaceFits(x), x.op # "none" \/ x.fd \/ x.file # NoFile \/ x.pc # "idle"
    PROVE  x.pc # "idle" /\ x.d \in Descriptors /\ x.op \in Operations /\ x.d # Empty
  <1>1. x.pc # "idle"
    BY IdleIsAtRest DEF PlaceFits
  <1>2. x.d \in Descriptors /\ x.op \in Operations
    BY <1>1 DEF PlaceFits
  <1> QED  BY <1>1, <1>2, TablesAssumption DEF Empty

-----------------------------------------------------------------------------
(* What a step keeps.  In the lemmas, thread t goes from tx[t] to y.       *)

Moves(t, y) == t \in Threads /\ y \in Transactions /\ tx' = [tx EXCEPT ![t] = y]

Excludes(t, y) ==
    \A u \in Threads \ {t} :
        tx[u].table = y.table =>
            /\ y.lock = "wr" => tx[u].lock = "none"
            /\ tx[u].lock = "wr" => y.lock = "none"

LEMMA MoveIsLocal ==
    ASSUME STTypeOK, NEW t, NEW y, Moves(t, y)
    PROVE  /\ tx' \in [Threads -> Transactions] /\ tx'[t] = y
           /\ \A u \in Threads \ {t} : tx'[u] = tx[u]
  BY DEF Moves, STTypeOK

LEMMA WritersKeep ==
    ASSUME STTypeOK, WritersAreAlone, NEW t, NEW y, Moves(t, y), Excludes(t, y)
    PROVE  WritersAreAlone'
  <1>1. t \in Threads /\ tx'[t] = y /\ \A u \in Threads \ {t} : tx'[u] = tx[u]
    BY MoveIsLocal DEF Moves
  <1> SUFFICES ASSUME NEW a \in Threads, NEW b \in Threads, a # b,
                      tx'[a].lock = "wr", tx'[a].table = tx'[b].table
               PROVE  tx'[b].lock = "none"
    BY DEF WritersAreAlone
  <1>2. CASE a = t
    BY <1>1, <1>2 DEF Excludes
  <1>3. CASE b = t
    BY <1>1, <1>3 DEF Excludes
  <1>4. CASE a # t /\ b # t
    BY <1>1, <1>4 DEF WritersAreAlone
  <1> QED  BY <1>2, <1>3, <1>4

LEMMA FdsKeep ==
    ASSUME STTypeOK, FdsCount, NEW t, NEW y, Moves(t, y), fdtab' = fdtab,
           y.fd = tx[t].fd, y.d = tx[t].d \/ ~y.fd
    PROVE  FdsCount'
  <1>1. t \in Threads /\ tx'[t] = y /\ \A u \in Threads \ {t} : tx'[u] = tx[u]
    BY MoveIsLocal DEF Moves
  <1>2. \A d : FdUsers(d)' = FdUsers(d)
    BY <1>1 DEF FdUsers
  <1>3. \A u \in Threads : tx'[u].fd => tx[u].fd /\ tx'[u].d = tx[u].d
    BY <1>1
  <1> QED  BY <1>2, <1>3 DEF FdsCount

LEMMA DescriptorsKeep ==
    ASSUME STTypeOK, \A u \in Threads : PlaceFits(tx[u]), DescriptorsFit, NEW t, NEW y, Moves(t, y),
           kernel' = kernel, \A d \in Descriptors : Closing(d)' => Closing(d) \/ Alone(d),
           y.fd /\ y.file # NoFile => kernel[y.d] = y.file,
           y.op = "open" => tx[t].op = "open" /\ y.d = tx[t].d,
           y.d = tx[t].d \/ y.d = Empty
    PROVE  DescriptorsFit'
  <1>1. t \in Threads /\ tx'[t] = y /\ \A u \in Threads \ {t} : tx'[u] = tx[u]
    BY MoveIsLocal DEF Moves
  <1>2. \A d : Alone(d)' = Alone(d)
    BY DEF Alone
  <1>3. \A u \in Threads : tx'[u].fd /\ tx'[u].file # NoFile => kernel'[tx'[u].d] = tx'[u].file
    BY <1>1 DEF DescriptorsFit
  <1>4. \A d \in Descriptors : Closing(d)' => Alone(d)'
    BY <1>2 DEF DescriptorsFit
  <1>5. ASSUME NEW u \in Threads, tx'[u].op = "open"
        PROVE  Alone(tx[u].d)' /\ \A v \in Threads \ {u} : tx'[v].d # tx'[u].d
    <2>1. tx[u].op = "open" /\ tx'[u].d = tx[u].d
      BY <1>1, <1>5
    <2>2. Alone(tx[u].d) /\ \A v \in Threads \ {u} : tx[v].d # tx[u].d
      BY <2>1 DEF DescriptorsFit
    <2>3. tx[u].op # "none"
      BY <2>1
    <2>4. tx[u].d # Empty
      BY <2>3, NotIdle
    <2> QED  BY <1>1, <1>2, <2>1, <2>2, <2>4
  <1> QED  BY <1>3, <1>4, <1>5 DEF DescriptorsFit

LEMMA PromisesKeep ==
    ASSUME STTypeOK, PromisesFit, NEW t, NEW y, Moves(t, y), kernel' = kernel, promised' = promised,
           \A d \in Descriptors : Closing(d)' <=> Closing(d),
           \A u \in Threads : PlaceFits(tx[u]),
           Opening(y) <=> Opening(tx[t]), Opening(y) => y.d = tx[t].d
    PROVE  PromisesFit'
  <1>1. t \in Threads /\ tx'[t] = y /\ \A u \in Threads \ {t} : tx'[u] = tx[u]
    BY MoveIsLocal DEF Moves
  <1>2. \A u \in Threads : Opening(tx'[u]) <=> Opening(tx[u])
    BY <1>1
  <1>3. \A u \in Threads : Opening(tx'[u]) => tx'[u].d = tx[u].d
    BY <1>1
  <1>4. \A u \in Threads : Opening(tx[u])' = Opening(tx'[u])
    BY DEF Opening
  <1>5. ASSUME NEW u \in Threads, Opening(tx'[u])
        PROVE  ~ Closing(tx[u].d)'
    <2>1. Opening(tx[u]) /\ tx'[u].d = tx[u].d
      BY <1>2, <1>3, <1>5
    <2>2. tx[u].op # "none"
      BY <2>1 DEF Opening
    <2>3. tx[u].d \in Descriptors
      BY <2>2, NotIdle
    <2>4. ~ Closing(tx[u].d) /\ Closing(tx[u].d)' = (tx[u].d < Len(fdtab') /\ fdtab'[tx[u].d + 1].state = "CLOSING")
      BY <2>1 DEF PromisesFit, Closing
    <2> QED  BY <2>3, <2>4 DEF Closing
  <1>6. ASSUME NEW d \in Descriptors
        PROVE  (\A u \in Threads : ~(Opening(tx'[u]) /\ tx'[u].d = d))
               <=> (\A u \in Threads : ~(Opening(tx[u]) /\ tx[u].d = d))
    BY <1>2, <1>3
  <1>7. ASSUME NEW d \in Descriptors
        PROVE  (d \in promised <=>
                  /\ kernel[d] # NoFile /\ ~Closing(d)
                  /\ \A u \in Threads : ~(Opening(tx[u]) /\ tx[u].d = d))'
    <2>1. (\A u \in Threads : ~(Opening(tx[u]) /\ tx[u].d = d))'
          <=> \A u \in Threads : ~(Opening(tx'[u]) /\ tx'[u].d = d)
      BY <1>4
    <2> QED  BY <1>6, <2>1 DEF PromisesFit
  <1> QED  BY <1>4, <1>5, <1>7 DEF PromisesFit

(* What the entries stand for stays open.                                  *)
IdsKeep ==
    \A i \in 1 .. Len(table["file"]) :
        table["file"][i].id # Empty => kernel'[table["file"][i].id] = kernel[table["file"][i].id]

LEMMA EntriesKeep ==
    ASSUME STTypeOK, EntriesCount, NEW t, NEW y, Moves(t, y), IdsKeep, table' = table,
           y.entry = tx[t].entry,
           y.file = tx[t].file \/ \A k \in Tables : y.entry[k] = 0
    PROVE  EntriesCount'
  <1>1. t \in Threads /\ tx'[t] = y /\ \A u \in Threads \ {t} : tx'[u] = tx[u]
    BY MoveIsLocal DEF Moves
  <1>2. \A k, i : Users(k, i)' = Users(k, i)
    BY <1>1 DEF Users
  <1>3. \A u \in Threads, k \in Tables : tx'[u].entry[k] # 0 =>
            tx'[u].entry = tx[u].entry /\ tx'[u].file = tx[u].file
    BY <1>1
  <1>4. \A k \in Tables : \A i \in 1 .. Len(table'[k]) :
              /\ table'[k][i].ref = Cardinality(Users(k, i)')
              /\ table'[k][i].ref = 0 <=> table'[k][i].id = Empty
              /\ k = "file" /\ table'[k][i].id # Empty =>
                    table'[k][i].id \in Descriptors /\ kernel'[table'[k][i].id] # NoFile
    BY <1>2 DEF EntriesCount, IdsKeep
  <1>5. ASSUME NEW u \in Threads, NEW k \in Tables, tx'[u].entry[k] # 0
        PROVE  /\ tx'[u].entry[k] <= Len(table'[k])
               /\ Meaning(k, table[k][tx[u].entry[k]].id)' = Object(k, tx[u])'
    <2> DEFINE i == tx[u].entry[k]
    <2>1. i # 0 /\ tx'[u].entry = tx[u].entry /\ tx'[u].file = tx[u].file
      BY <1>3, <1>5
    <2>2. i <= Len(table[k]) /\ Meaning(k, table[k][i].id) = Object(k, tx[u])
      BY <2>1 DEF EntriesCount
    <2>3. i \in 1 .. Len(table[k])
      BY <2>1, <2>2 DEF STTypeOK, Transactions
    <2>4. table[k][i].id # Empty
      <3>1. u \in Users(k, i) /\ Users(k, i) \in SUBSET Threads
        BY DEF Users
      <3>2. Cardinality(Users(k, i)) # 0
        BY <3>1, ThreadSets
      <3> QED  BY <2>3, <3>2 DEF EntriesCount
    <2>5. k = "file" => kernel'[table[k][i].id] = kernel[table[k][i].id]
      BY <2>3, <2>4 DEF IdsKeep
    <2> QED  BY <2>1, <2>2, <2>5 DEF Meaning, Object
  <1>6. \A k \in Tables : Len(table'[k]) <= Size[k]
    BY DEF EntriesCount
  <1> QED  BY <1>4, <1>5, <1>6 DEF EntriesCount

LEMMA TableKeeps ==
    ASSUME STTypeOK, EntriesDiffer, \A u \in Threads : SearchFits(tx[u]), NEW t, NEW y, Moves(t, y),
           IdsKeep, table' = table, SearchFits(y)
    PROVE  EntriesDiffer' /\ \A u \in Threads : SearchFits(tx[u])'
  <1>1. t \in Threads /\ tx'[t] = y /\ \A u \in Threads \ {t} : tx'[u] = tx[u]
    BY MoveIsLocal DEF Moves
  <1>2. EntriesDiffer'
    BY DEF EntriesDiffer, Meaning, IdsKeep
  <1>3. \A u \in Threads : SearchFits(tx'[u])
    BY <1>1
  <1>4. ASSUME NEW u \in Threads PROVE SearchFits(tx[u])'
    <2> SUFFICES ASSUME tx'[u].lock = "wr", NEW i \in 1 .. Len(table[tx'[u].table]), i \in Passed(tx'[u]),
                        table[tx'[u].table][i].id # Empty
                 PROVE  (Meaning(tx[u].table, table[tx[u].table][i].id) # Object(tx[u].table, tx[u]))'
      BY DEF SearchFits, Passed
    <2>1. Meaning(tx'[u].table, table[tx'[u].table][i].id) # Object(tx'[u].table, tx'[u])
      BY <1>3 DEF SearchFits
    <2>2. tx'[u].table = "file" => kernel'[table[tx'[u].table][i].id] = kernel[table[tx'[u].table][i].id]
      BY DEF IdsKeep
    <2> QED  BY <2>1, <2>2 DEF Meaning, Object
  <1> QED  BY <1>2, <1>4

LEMMA SameKernel ==
    ASSUME kernel' = kernel
    PROVE  IdsKeep
  BY DEF IdsKeep

(* A step that changes nothing but the place of a transaction.             *)
LEMMA QuietStep ==
    ASSUME TablesInv, NEW t, NEW y, Moves(t, y), UNCHANGED <<kernel, fdtab, table, promised>>,
           Excludes(t, y), PlaceFits(y), SearchFits(y),
           y.fd = tx[t].fd, y.d = tx[t].d, y.op = tx[t].op, y.entry = tx[t].entry,
           y.file = tx[t].file \/ ((\A k \in Tables : y.entry[k] = 0) /\ y.file = kernel[y.d]),
           Opening(y) <=> Opening(tx[t])
    PROVE  TablesInv'
  <1>1. t \in Threads /\ tx'[t] = y /\ \A u \in Threads \ {t} : tx'[u] = tx[u]
    BY MoveIsLocal DEF Moves, TablesInv
  <1>2. STTypeOK'
    BY MoveIsLocal DEF TablesInv, STTypeOK
  <1>3. \A u \in Threads : PlaceFits(tx[u])'
    <2>1. \A u \in Threads : PlaceFits(tx'[u])
      BY <1>1 DEF TablesInv
    <2> QED  BY <2>1 DEF PlaceFits
  <1>4. WritersAreAlone'
    BY WritersKeep DEF TablesInv
  <1>5. FdsCount'
    BY FdsKeep DEF TablesInv
  <1>6. \A d \in Descriptors : Closing(d)' <=> Closing(d)
    BY DEF Closing
  <1>7. DescriptorsFit'
    <2>1. y.fd /\ y.file # NoFile => kernel[y.d] = y.file
      BY <1>1 DEF TablesInv, DescriptorsFit
    <2> QED  BY <1>6, <2>1, DescriptorsKeep DEF TablesInv
  <1>8. PromisesFit'
    BY <1>6, PromisesKeep DEF TablesInv
  <1>9. EntriesCount'
    BY EntriesKeep, SameKernel DEF TablesInv
  <1>10. EntriesDiffer' /\ \A u \in Threads : SearchFits(tx[u])'
    BY TableKeeps, SameKernel DEF TablesInv
  <1> QED  BY <1>2, <1>3, <1>4, <1>5, <1>7, <1>8, <1>9, <1>10 DEF TablesInv

-----------------------------------------------------------------------------
(* The walk over a table.                                                  *)

(* Who has a lock on the way takes it according to the other locks.        *)
LEMMA LocksOfOthers ==
    ASSUME NEW t \in Threads, NEW k, NEW u \in Threads \ {t}, tx[u].table = k
    PROVE  tx[u].lock \in Locks(t, k)
  BY DEF Locks

LEMMA RdlockFits ==
    ASSUME TablesInv, NEW t \in Threads, rdlock(t)
    PROVE  TablesInv'
  <1> DEFINE y == [tx[t] EXCEPT !.pc = "find", !.lock = "rd", !.i = 1]
  <1>1. tx[t] \in Transactions /\ PlaceFits(tx[t]) /\ tx[t].pc = "rdlock"
    BY DEF TablesInv, STTypeOK, rdlock
  <1>2. Moves(t, y)
    BY <1>1 DEF Moves, rdlock, Set, Transactions, Pcs, LockPcs, WalkPcs
  <1>3. /\ y.fd = tx[t].fd /\ y.d = tx[t].d /\ y.op = tx[t].op /\ y.entry = tx[t].entry
        /\ y.file = tx[t].file /\ y.table = tx[t].table /\ y.lock = "rd" /\ y.pc = "find"
    BY <1>1 DEF Transactions
  <1>4. Excludes(t, y)
    BY <1>3, LocksOfOthers DEF Excludes, rdlock
  <1>5. PlaceFits(y)
    BY <1>1 DEF PlaceFits, LockPcs, WalkPcs, Transactions
  <1>6. SearchFits(y) /\ (Opening(y) <=> Opening(tx[t]))
    BY <1>1, <1>3 DEF SearchFits, Opening
  <1> HIDE DEF y
  <1> QED  BY <1>2, <1>3, <1>4, <1>5, <1>6, QuietStep DEF rdlock

LEMMA WrlockFits ==
    ASSUME TablesInv, NEW t \in Threads, wrlock(t)
    PROVE  TablesInv'
  <1> DEFINE y == [tx[t] EXCEPT !.lock = "wr", !.i = 1,
                       !.pc = IF tx[t].op = "open" /\ tx[t].table = "file" THEN "search" ELSE "find"]
  <1>1. tx[t] \in Transactions /\ PlaceFits(tx[t]) /\ tx[t].pc = "wrlock"
    BY DEF TablesInv, STTypeOK, wrlock
  <1>2. Moves(t, y)
    BY <1>1 DEF Moves, wrlock, Set, Transactions, Pcs, LockPcs, WalkPcs
  <1>3. /\ y.fd = tx[t].fd /\ y.d = tx[t].d /\ y.op = tx[t].op /\ y.entry = tx[t].entry
        /\ y.file = tx[t].file /\ y.table = tx[t].table /\ y.lock = "wr" /\ y.i = 1
        /\ y.pc = IF tx[t].op = "open" /\ tx[t].table = "file" THEN "search" ELSE "find"
    BY <1>1 DEF Transactions
  <1>4. Excludes(t, y)
    <2>1. \A u \in Threads \ {t} : tx[u].table = y.table => tx[u].lock = "none"
      BY <1>3, LocksOfOthers DEF wrlock
    <2> QED  BY <2>1 DEF Excludes
  <1>5. PlaceFits(y)
    BY <1>1 DEF PlaceFits, LockPcs, WalkPcs, Transactions
  <1>6. Opening(y) <=> Opening(tx[t])
    BY <1>1, <1>3 DEF Opening
  <1>7. SearchFits(y)
    <2>1. CASE y.pc = "find"
      BY <1>3, <2>1 DEF SearchFits, Passed
    <2>2. CASE tx[t].op = "open" /\ tx[t].table = "file"
      <3> SUFFICES ASSUME NEW i \in 1 .. Len(table["file"]), table["file"][i].id # Empty,
                          kernel[table["file"][i].id] = tx[t].file
                   PROVE  FALSE
        BY <1>3, <2>2 DEF SearchFits, Meaning, Object
      <3>1. tx[t].fd /\ tx[t].file # NoFile /\ kernel[tx[t].d] = tx[t].file /\ tx[t].entry["file"] = 0
        BY <1>1, <2>2 DEF PlaceFits, LockPcs, TablesInv, DescriptorsFit
      <3>2. PICK u \in Threads : tx[u].entry["file"] = i
        BY ThreadSets DEF TablesInv, EntriesCount, Users, Tables
      <3>3. kernel[tx[u].d] = tx[u].file /\ tx[u].file = tx[t].file /\ tx[u].d \in Descriptors
        <4>1. i # 0 /\ "file" \in Tables
          BY DEF Tables
        <4>2. Meaning("file", table["file"][i].id) = Object("file", tx[u])
          BY <3>2, <4>1 DEF TablesInv, EntriesCount
        <4>3. PlaceFits(tx[u]) /\ tx[u].fd /\ tx[u].file # NoFile
          BY <3>2, <4>1 DEF TablesInv, PlaceFits
        <4> QED  BY <4>2, <4>3, NotIdle DEF TablesInv, DescriptorsFit, Meaning, Object
      <3>4. Alone(tx[t].d) /\ \A v \in Threads \ {t} : tx[v].d # tx[t].d
        BY <2>2 DEF TablesInv, DescriptorsFit
      <3> QED  BY <3>1, <3>2, <3>3, <3>4 DEF Alone
    <2> QED  BY <1>3, <2>1, <2>2
  <1> HIDE DEF y
  <1> QED  BY <1>2, <1>3, <1>4, <1>5, <1>6, <1>7, QuietStep DEF wrlock

(* The comparisons never fail: an entry's id is an open descriptor.        *)
LEMMA Comparison ==
    ASSUME TablesInv, NEW t \in Threads, tx[t].pc \in WalkPcs, NEW k, k = tx[t].table,
           NEW i \in 1 .. Len(table[k])
    PROVE  /\ Compare(k, table[k][i].id, Wanted(tx[t])) # "error"
           /\ Compare(k, table[k][i].id, Wanted(tx[t])) = "equal" <=>
                 table[k][i].id # Empty /\ Meaning(k, table[k][i].id) = Object(k, tx[t])
           /\ Compare(k, table[k][i].id, Empty) = "equal" <=> table[k][i].id = Empty
           /\ Wanted(tx[t]) \in Nat /\ Wanted(tx[t]) # Empty
           /\ Meaning(k, Wanted(tx[t])) = Object(k, tx[t])
           /\ k = "file" => Wanted(tx[t]) \in Descriptors /\ kernel[Wanted(tx[t])] # NoFile
  <1> DEFINE id == table[k][i].id
             x == tx[t]
  <1>1. PlaceFits(x) /\ x \in Transactions /\ k \in Tables
    BY DEF TablesInv, STTypeOK, Transactions
  <1>2. x.fd /\ x.file # NoFile /\ kernel[x.d] = x.file /\ x.d \in Descriptors
    <2>1. x.fd /\ x.file # NoFile
      BY <1>1 DEF PlaceFits, LockPcs
    <2> QED  BY <1>1, <2>1, NotIdle DEF TablesInv, DescriptorsFit
  <1>3. x.file \in Files /\ Inode[x.file] \in Nat
    BY <1>1, <1>2, TablesAssumption DEF Transactions
  <1>4. k = "file" /\ id # Empty => id \in Descriptors /\ kernel[id] # NoFile
    BY <1>1 DEF TablesInv, EntriesCount
  <1>5. (\A n \in Nat : n # Empty) /\ x.d \in Nat
    <2>1. x.d \in Nat
      BY <1>2, TablesAssumption
    <2> QED  BY <2>1 DEF Empty
  <1>6. CASE k = "file"
    <2>1. Wanted(x) = x.d
      BY <1>6 DEF Wanted
    <2>2. Compare(k, id, x.d) = file_id_cmp_eq(id, x.d) /\ Compare(k, id, Empty) = file_id_cmp_eq(id, Empty)
      BY <1>6 DEF Compare
    <2>3. file_id_cmp_eq(id, Empty) = "equal" <=> id = Empty
      BY DEF file_id_cmp_eq
    <2>4. CASE id = Empty
      BY <1>2, <1>5, <1>6, <2>1, <2>2, <2>3, <2>4 DEF file_id_cmp_eq, Meaning, Object
    <2>5. CASE id # Empty
      BY <1>2, <1>4, <1>5, <1>6, <2>1, <2>2, <2>3, <2>5 DEF file_id_cmp_eq, Meaning, Object
    <2> QED  BY <2>4, <2>5
  <1>7. CASE k # "file"
    BY <1>3, <1>5, <1>7 DEF Wanted, Compare, filebuf_id_cmp, Meaning, Object
  <1> QED  BY <1>6, <1>7

LEMMA MissFits ==
    ASSUME TablesInv, NEW t \in Threads, UNCHANGED <<kernel, fdtab, table, promised>>,
           tx[t].pc \in {"find", "search"},
           tx[t].i <= Len(table[tx[t].table]),
           tx[t].pc = "find" =>
               ~ (table[tx[t].table][tx[t].i].id # Empty
                  /\ Meaning(tx[t].table, table[tx[t].table][tx[t].i].id) = Object(tx[t].table, tx[t])),
           NEW y, y = [tx[t] EXCEPT !.i = @ + 1], tx' = [tx EXCEPT ![t] = y]
    PROVE  TablesInv'
  <1>1. tx[t] \in Transactions /\ PlaceFits(tx[t]) /\ SearchFits(tx[t])
    BY DEF TablesInv, STTypeOK
  <1>2. Moves(t, y)
    BY <1>1 DEF Moves, Transactions
  <1>3. /\ y.fd = tx[t].fd /\ y.d = tx[t].d /\ y.op = tx[t].op /\ y.entry = tx[t].entry
        /\ y.file = tx[t].file /\ y.table = tx[t].table /\ y.lock = tx[t].lock /\ y.i = tx[t].i + 1
        /\ y.pc = tx[t].pc /\ y.error = tx[t].error /\ y.ready = tx[t].ready
    BY <1>1 DEF Transactions
  <1>4. Excludes(t, y)
    BY <1>3 DEF Excludes, TablesInv, WritersAreAlone
  <1>5. PlaceFits(y)
    <2>1. y.pc # "idle" /\ tx[t].pc # "idle" /\ y.i # 0
      BY <1>1, <1>3 DEF Transactions
    <2> QED  BY <1>1, <1>3, <2>1 DEF PlaceFits
  <1>6. Opening(y) <=> Opening(tx[t])
    BY <1>3 DEF Opening
  <1>7. SearchFits(y)
    <2> DEFINE k == tx[t].table
    <2>1. Object(k, y) = Object(k, tx[t])
      BY <1>3 DEF Object
    <2>2. tx[t].i \in Nat /\ tx[t].i # 0
      BY <1>1 DEF PlaceFits, WalkPcs, Transactions
    <2>3. CASE y.pc = "find"
      BY <1>1, <1>3, <2>1, <2>2, <2>3 DEF SearchFits, Passed
    <2>4. CASE y.pc # "find"
      BY <1>1, <1>3, <2>1, <2>4 DEF SearchFits, Passed
    <2> QED  BY <2>3, <2>4
  <1> QED  BY <1>2, <1>3, <1>4, <1>5, <1>6, <1>7, QuietStep

(* Thread t has taken a reference to entry i of table k, which may be new. *)
EntryUp(t, k, i) ==
    /\ table' \in [Tables -> Seq(Entries)]
    /\ \A l \in Tables \ {k} : table'[l] = table[l]
    /\ i \in 1 .. Len(table'[k]) /\ Len(table'[k]) >= Len(table[k])
    /\ \A j \in 1 .. Len(table'[k]) : j # i => j <= Len(table[k]) /\ table'[k][j] = table[k][j]
    /\ table'[k][i].ref = (IF i <= Len(table[k]) THEN table[k][i].ref ELSE 0) + 1
    /\ table'[k][i].id # Empty /\ Meaning(k, table'[k][i].id) = Object(k, tx[t])
    /\ k = "file" => table'[k][i].id \in Descriptors /\ kernel[table'[k][i].id] # NoFile
    /\ i <= Len(table[k]) /\ table[k][i].ref # 0 => table'[k][i].id = table[k][i].id
    /\ \A j \in 1 .. Len(table[k]) : j # i /\ table[k][j].id # Empty =>
          Meaning(k, table[k][j].id) # Object(k, tx[t])
    /\ tx' = [tx EXCEPT ![t] = Referenced(tx[t], i)]

LEMMA EntryUpFits ==
    ASSUME TablesInv, NEW t \in Threads, NEW i, NEW k, k = tx[t].table, tx[t].pc \in WalkPcs,
           EntryUp(t, k, i), Len(table'[k]) <= Size[k], UNCHANGED <<kernel, fdtab, promised>>
    PROVE  TablesInv'
  <1> DEFINE x == tx[t]
             y == Referenced(x, i)
  <1>1. x \in Transactions /\ PlaceFits(x) /\ k \in Tables /\ i \in Nat /\ i # 0
    BY DEF TablesInv, STTypeOK, EntryUp, Transactions
  <1>2. /\ y.fd = x.fd /\ y.d = x.d /\ y.op = x.op /\ y.file = x.file /\ y.table = "buffer"
        /\ y.lock = "none" /\ y.i = 0 /\ y.error = x.error /\ y.ready = x.ready
        /\ y.pc = (IF k = "file" THEN "rdlock" ELSE "lock")
        /\ y.entry[k] = i /\ \A l \in Tables \ {k} : y.entry[l] = x.entry[l]
        /\ y \in Transactions
    BY <1>1 DEF Referenced, Unlocked, Transactions, Tables, Pcs, LockPcs
  <1>3. /\ x.fd /\ x.file # NoFile /\ x.lock # "none" /\ x.entry["buffer"] = 0 /\ ~x.ready
        /\ k = "file" <=> x.entry["file"] = 0
        /\ x.entry[k] = 0 /\ x.pc # "unwind" /\ ~x.error /\ x.pc # "idle"
        /\ x.d \in Descriptors /\ x.op \in Operations
    BY <1>1 DEF PlaceFits, WalkPcs, LockPcs, Tables
  <1> HIDE DEF y
  <1>4. Moves(t, y) /\ tx'[t] = y /\ \A u \in Threads \ {t} : tx'[u] = tx[u]
    <2>1. Moves(t, y)
      BY <1>2 DEF Moves, EntryUp, y
    <2> QED  BY <2>1, MoveIsLocal DEF TablesInv
  <1>5. STTypeOK'
    BY <1>4, MoveIsLocal DEF TablesInv, STTypeOK, EntryUp
  <1>6. \A u \in Threads : PlaceFits(tx[u])'
    <2>1. PlaceFits(y)
      <3>1. y.entry["file"] # 0
        BY <1>1, <1>2, <1>3 DEF Tables
      <3>2. y.pc = "lock" => y.entry["buffer"] # 0
        BY <1>1, <1>2 DEF Tables
      <3>3. y.pc = "rdlock" => y.entry["buffer"] = 0
        BY <1>1, <1>2, <1>3 DEF Tables
      <3>4. y.pc \in {"rdlock", "lock"}
        BY <1>2
      <3> QED  BY <1>1, <1>2, <1>3, <3>1, <3>2, <3>3, <3>4 DEF PlaceFits, LockPcs, WalkPcs
    <2>2. \A u \in Threads : PlaceFits(tx'[u])
      BY <1>4, <2>1 DEF TablesInv
    <2> QED  BY <2>2 DEF PlaceFits
  <1>7. WritersAreAlone'
    <2>1. Excludes(t, y)
      BY <1>2 DEF Excludes
    <2> QED  BY <1>4, <2>1, WritersKeep DEF TablesInv
  <1>8. FdsCount'
    BY <1>2, <1>4, FdsKeep DEF TablesInv
  <1>9. \A d \in Descriptors : Closing(d)' <=> Closing(d)
    BY DEF Closing
  <1>10. DescriptorsFit'
    <2>1. y.fd /\ y.file # NoFile => kernel[y.d] = y.file
      BY <1>2 DEF TablesInv, DescriptorsFit
    <2> QED  BY <1>2, <1>4, <1>9, <2>1, DescriptorsKeep DEF TablesInv
  <1>11. PromisesFit'
    <2>1. Opening(y) <=> Opening(x)
      BY <1>2, <1>3 DEF Opening
    <2> QED  BY <1>2, <1>4, <1>9, <2>1, PromisesKeep DEF TablesInv
  <1>12. \A l \in Tables : \A id : Meaning(l, id)' = Meaning(l, id)
    BY DEF Meaning
  <1>13. \A l \in Tables, u \in Threads : Object(l, tx[u])' = Object(l, tx[u])
    BY <1>2, <1>4 DEF Object
  <1>14. EntriesCount'
    <2>1. \A l \in Tables : \A j : (l # k \/ j # i) /\ j # 0 => Users(l, j)' = Users(l, j)
      <3> SUFFICES ASSUME NEW l \in Tables, NEW j, l # k \/ j # i, j # 0
                   PROVE  \A u \in Threads : tx'[u].entry[l] = j <=> tx[u].entry[l] = j
        BY DEF Users
      <3> QED  BY <1>2, <1>3, <1>4
    <2>2. Users(k, i)' = Users(k, i) \cup {t} /\ t \notin Users(k, i)
      BY <1>1, <1>2, <1>3, <1>4 DEF Users
    <2>3. Cardinality(Users(k, i)') = Cardinality(Users(k, i)) + 1
      BY <2>2, ThreadSets DEF Users
    <2>4. Cardinality(Users(k, i)) = IF i <= Len(table[k]) THEN table[k][i].ref ELSE 0
      <3>1. CASE i <= Len(table[k])
        BY <1>1, <3>1 DEF TablesInv, EntriesCount
      <3>2. CASE ~(i <= Len(table[k]))
        <4>1. Users(k, i) = {}
          BY <1>1, <3>2 DEF TablesInv, EntriesCount, Users
        <4> QED  BY <3>2, <4>1, ThreadSets
      <3> QED  BY <3>1, <3>2
    <2>5. table'[k][i].ref = Cardinality(Users(k, i)') /\ table'[k][i].ref # 0
      <3>1. Cardinality(Users(k, i)) \in Nat
        BY ThreadSets DEF Users
      <3> QED  BY <2>3, <2>4, <3>1 DEF EntryUp
    <2>6. ASSUME NEW l \in Tables, NEW j \in 1 .. Len(table'[l])
          PROVE  /\ table'[l][j].ref = Cardinality(Users(l, j)')
                 /\ table'[l][j].ref = 0 <=> table'[l][j].id = Empty
                 /\ l = "file" /\ table'[l][j].id # Empty =>
                       table'[l][j].id \in Descriptors /\ kernel'[table'[l][j].id] # NoFile
      <3>1. CASE l = k /\ j = i
        BY <2>5, <3>1 DEF EntryUp
      <3>2. CASE l # k \/ j # i
        <4>1. j \in 1 .. Len(table[l]) /\ table'[l][j] = table[l][j] /\ j # 0
          <5>1. CASE l = k
            BY <3>2, <5>1 DEF EntryUp
          <5>2. CASE l # k
            BY <5>2 DEF EntryUp
          <5> QED  BY <5>1, <5>2
        <4> QED  BY <2>1, <3>2, <4>1 DEF TablesInv, EntriesCount
      <3> QED  BY <3>1, <3>2
    <2>7. ASSUME NEW l \in Tables, NEW u \in Threads, tx'[u].entry[l] # 0
          PROVE  /\ tx'[u].entry[l] <= Len(table'[l])
                 /\ Meaning(l, table'[l][tx'[u].entry[l]].id) = Object(l, tx[u])
      <3>1. CASE u = t /\ l = k
        BY <1>2, <1>4, <3>1 DEF EntryUp
      <3>2. CASE u # t \/ l # k
        <4>1. tx'[u].entry[l] = tx[u].entry[l]
          BY <1>2, <1>4, <3>2
        <4> DEFINE j == tx[u].entry[l]
        <4>2. j \in Nat /\ j # 0 /\ j <= Len(table[l]) /\ Meaning(l, table[l][j].id) = Object(l, tx[u])
          BY <2>7, <4>1 DEF TablesInv, EntriesCount, STTypeOK, Transactions
        <4>3. CASE l # k \/ j # i
          <5>1. j <= Len(table'[l]) /\ table'[l][j] = table[l][j]
            <6>1. CASE l # k
              BY <4>2, <6>1 DEF EntryUp
            <6>2. CASE l = k
              <7>1. Len(table'[k]) >= Len(table[k]) /\ Len(table[k]) \in Nat /\ Len(table'[k]) \in Nat
                BY <1>1 DEF EntryUp, TablesInv, STTypeOK
              <7>2. j \in 1 .. Len(table'[k])
                BY <4>2, <6>2, <7>1
              <7> QED  BY <4>3, <6>2, <7>1, <7>2 DEF EntryUp
            <6> QED  BY <6>1, <6>2
          <5> QED  BY <4>1, <4>2, <5>1
        <4>4. CASE l = k /\ j = i
          <5>1. table[k][i].ref # 0
            <6>1. u \in Users(k, i) /\ Users(k, i) \in SUBSET Threads
              BY <4>4 DEF Users
            <6>2. Cardinality(Users(k, i)) # 0
              BY <6>1, ThreadSets
            <6>3. i \in 1 .. Len(table[k])
              BY <1>1, <4>2, <4>4 DEF TablesInv, STTypeOK
            <6> QED  BY <1>1, <6>2, <6>3 DEF TablesInv, EntriesCount
          <5>2. table'[k][i].id = table[k][i].id
            BY <4>2, <4>4, <5>1 DEF EntryUp
          <5> QED  BY <4>1, <4>2, <4>4, <5>2 DEF EntryUp
        <4> QED  BY <4>3, <4>4
      <3> QED  BY <3>1, <3>2
    <2>8. ASSUME NEW l \in Tables, NEW u \in Threads
          PROVE  (tx[u].entry[l] # 0 =>
                    /\ tx[u].entry[l] <= Len(table[l])
                    /\ Meaning(l, table[l][tx[u].entry[l]].id) = Object(l, tx[u]))'
      BY <1>12, <1>13, <2>7
    <2>9. \A l \in Tables : Len(table'[l]) <= Size[l]
      BY DEF TablesInv, EntriesCount, EntryUp
    <2> QED  BY <2>6, <2>8, <2>9 DEF EntriesCount
  <1>15. EntriesDiffer'
    <2> SUFFICES ASSUME NEW l \in Tables, NEW a \in 1 .. Len(table'[l]), NEW b \in 1 .. Len(table'[l]),
                        a # b, table'[l][a].id # Empty, table'[l][b].id # Empty
                 PROVE  Meaning(l, table'[l][a].id) # Meaning(l, table'[l][b].id)
      BY <1>12 DEF EntriesDiffer, Meaning
    <2>1. CASE l # k \/ (a # i /\ b # i)
      <3>1. a \in 1 .. Len(table[l]) /\ b \in 1 .. Len(table[l])
            /\ table'[l][a] = table[l][a] /\ table'[l][b] = table[l][b]
        <4>1. CASE l = k
          BY <2>1, <4>1 DEF EntryUp
        <4>2. CASE l # k
          BY <4>2 DEF EntryUp
        <4> QED  BY <4>1, <4>2
      <3> QED  BY <3>1 DEF TablesInv, EntriesDiffer
    <2>2. CASE l = k /\ a = i
      BY <2>2 DEF EntryUp
    <2>3. CASE l = k /\ b = i
      BY <2>3 DEF EntryUp
    <2> QED  BY <2>1, <2>2, <2>3
  <1>16. ASSUME NEW u \in Threads PROVE SearchFits(tx[u])'
    <2>1. CASE u = t
      BY <1>2, <1>4, <2>1 DEF SearchFits
    <2>2. CASE u # t
      <3>1. tx'[u] = tx[u]
        BY <1>4, <2>2
      <3>2. tx[u].lock = "wr" => tx[u].table # k
        BY <1>3, <2>2 DEF TablesInv, WritersAreAlone
      <3>3. tx[u].lock = "wr" => table'[tx[u].table] = table[tx[u].table]
        BY <3>2 DEF EntryUp, TablesInv, STTypeOK, Transactions
      <3>4. SearchFits(tx[u])
        BY DEF TablesInv
      <3> QED  BY <3>1, <3>3, <3>4 DEF SearchFits, Meaning, Object, Passed
    <2> QED  BY <2>1, <2>2
  <1> QED  BY <1>5, <1>6, <1>7, <1>8, <1>10, <1>11, <1>14, <1>15, <1>16 DEF TablesInv

(* A transaction that gives up on its way to an entry.                     *)
LEMMA UnwindFits ==
    ASSUME TablesInv, NEW t \in Threads, tx[t].pc # "idle", tx[t].pc # "close",
           tx[t].op = "open" => ~ tx[t].ready,
           UNCHANGED <<kernel, fdtab, table, promised>>, tx' = [tx EXCEPT ![t] = Unwind(tx[t])]
    PROVE  TablesInv'
  <1> DEFINE x == tx[t]  y == Unwind(x)
  <1>1. x \in Transactions /\ PlaceFits(x)
    BY DEF TablesInv, STTypeOK
  <1>2. /\ y.fd = x.fd /\ y.d = x.d /\ y.op = x.op /\ y.entry = x.entry
        /\ y.file = x.file /\ y.table = x.table /\ y.lock = "none" /\ y.error = x.error
        /\ y.pc = "unwind" /\ y.ready = x.ready /\ y \in Transactions
    BY <1>1 DEF Unwind, Unlocked, Transactions, Pcs
  <1> HIDE DEF y
  <1>3. Moves(t, y)
    BY <1>2 DEF Moves, y
  <1>4. Excludes(t, y) /\ SearchFits(y) /\ (Opening(y) <=> Opening(x))
    BY <1>2 DEF Excludes, SearchFits, Opening
  <1>5. PlaceFits(y)
    BY <1>1, <1>2 DEF PlaceFits, LockPcs, WalkPcs
  <1> QED  BY <1>2, <1>3, <1>4, <1>5, QuietStep

LEMMA FindByIdFits ==
    ASSUME TablesInv, NEW t \in Threads, find_by_id(t)
    PROVE  TablesInv'
  <1> DEFINE x == tx[t]
  <1>0. PICK k \in Tables : k = x.table
    BY DEF TablesInv, STTypeOK, Transactions
  <1> DEFINE same == Compare(k, table[k][x.i].id, Wanted(x))
  <1>1. /\ x \in Transactions /\ PlaceFits(x) /\ SearchFits(x) /\ x.pc = "find"
        /\ UNCHANGED <<kernel, fdtab, promised>>
        /\ x.i \in Nat /\ x.i # 0 /\ ~x.error /\ x.lock # "none" /\ table[k] \in Seq(Entries)
    BY <1>0 DEF TablesInv, STTypeOK, find_by_id, PlaceFits, Transactions, WalkPcs
  <1>2. CASE x.i <= Len(table[k]) /\ same = "equal"
    <2>1. x.i \in 1 .. Len(table[k]) /\ table[k][x.i] \in Entries
      BY <1>1, <1>2
    <2>2. table[k][x.i].id # Empty /\ Meaning(k, table[k][x.i].id) = Object(k, x)
      BY <1>0, <1>1, <1>2, <2>1, Comparison DEF WalkPcs
    <2>3. table[k][x.i].ref # 0 /\ (k = "file" => table[k][x.i].id \in Descriptors /\ kernel[table[k][x.i].id] # NoFile)
      BY <2>1, <2>2 DEF TablesInv, EntriesCount
    <2>4. tx' = [tx EXCEPT ![t] = Referenced(x, x.i)] /\ Up(k, x.i, table[k][x.i].id)
      BY <1>0, <1>1, <1>2 DEF find_by_id, Set
    <2> DEFINE e == table[k][x.i]
               f == [ref |-> e.ref + 1, id |-> e.id]
    <2>5. table' = [table EXCEPT ![k] = [@ EXCEPT ![x.i] = f]]
      <3>1. picotm_shared_ref16_obj_up(e, [e EXCEPT !.id = e.id]) = f
        BY <2>1, <2>3 DEF picotm_shared_ref16_obj_up, Entries
      <3> QED  BY <2>4, <3>1 DEF Up
    <2>6. f \in Entries /\ table \in [Tables -> Seq(Entries)]
      <3>1. e.ref + 1 \in Nat /\ e.id \in Nat \cup {Empty}
        BY <2>1 DEF Entries
      <3> QED  BY <3>1 DEF Entries, TablesInv, STTypeOK
    <2>7. EntryUp(t, k, x.i)
      <3>1. table'[k] = [table[k] EXCEPT ![x.i] = f] /\ \A l \in Tables \ {k} : table'[l] = table[l]
        BY <2>5, <2>6
      <3>2. table'[k] \in Seq(Entries) /\ Len(table'[k]) = Len(table[k]) /\ table'[k][x.i] = f
        BY <1>1, <2>1, <2>6, <3>1
      <3>3. \A j \in 1 .. Len(table'[k]) : j # x.i => table'[k][j] = table[k][j]
        BY <1>1, <3>1, <3>2
      <3>4. table' \in [Tables -> Seq(Entries)]
        BY <2>5, <2>6, <3>2
      <3>5. \A j \in 1 .. Len(table[k]) : j # x.i /\ table[k][j].id # Empty =>
              Meaning(k, table[k][j].id) # Object(k, tx[t])
        BY <2>1, <2>2 DEF TablesInv, EntriesDiffer
      <3>6. f.ref = table[k][x.i].ref + 1 /\ f.id = table[k][x.i].id
        OBVIOUS
      <3>7. /\ x.i \in 1 .. Len(table'[k]) /\ Len(table'[k]) >= Len(table[k]) /\ x.i <= Len(table[k])
            /\ \A j \in 1 .. Len(table'[k]) : j # x.i => j <= Len(table[k]) /\ table'[k][j] = table[k][j]
            /\ Len(table[k]) \in Nat
        BY <1>1, <2>1, <3>2, <3>3
      <3> HIDE DEF f, e
      <3> QED  BY <2>2, <2>3, <2>4, <3>1, <3>2, <3>4, <3>5, <3>6, <3>7 DEF EntryUp
    <2>8. Len(table'[k]) <= Size[k]
      <3>1. table'[k] = [table[k] EXCEPT ![x.i] = f]
        BY <2>5, <2>6
      <3>2. Len(table'[k]) = Len(table[k])
        BY <1>1, <2>1, <2>6, <3>1
      <3> QED  BY <3>2 DEF TablesInv, EntriesCount
    <2> QED  BY <1>0, <1>1, <2>7, <2>8, EntryUpFits DEF WalkPcs
  <1>3. CASE x.i <= Len(table[k]) /\ same # "equal"
    <2>1. x.i \in 1 .. Len(table[k])
      BY <1>1, <1>3
    <2>2. same # "error" /\ ~(table[k][x.i].id # Empty /\ Meaning(k, table[k][x.i].id) = Object(k, x))
      BY <1>0, <1>1, <1>3, <2>1, Comparison DEF WalkPcs
    <2>3. /\ tx' = [tx EXCEPT ![t] = [x EXCEPT !.i = @ + 1, !.error = @ \/ same = "error"]]
          /\ table' = table
      BY <1>0, <1>1, <1>3 DEF find_by_id, Set
    <2>4. [x EXCEPT !.i = @ + 1, !.error = @ \/ same = "error"] = [x EXCEPT !.i = @ + 1]
      BY <1>1, <2>2 DEF Transactions
    <2> QED  BY <1>0, <1>1, <1>3, <2>2, <2>3, <2>4, MissFits
  <1>4. CASE x.i > Len(table[k]) /\ x.lock = "rd"
    <2> DEFINE y == [Unlocked(x) EXCEPT !.pc = "wrlock"]
    <2>1. tx' = [tx EXCEPT ![t] = y] /\ table' = table
      <3>1. ~(x.i <= Len(table[k]))
        BY <1>1, <1>4
      <3> QED  BY <1>0, <1>1, <1>4, <3>1 DEF find_by_id, Set
    <2>2. /\ y.fd = x.fd /\ y.d = x.d /\ y.op = x.op /\ y.entry = x.entry
          /\ y.file = x.file /\ y.table = x.table /\ y.lock = "none" /\ y.error = x.error
          /\ y.pc = "wrlock" /\ y.ready = x.ready /\ y \in Transactions
      BY <1>1 DEF Unlocked, Transactions, Pcs, LockPcs
    <2> HIDE DEF y
    <2>3. Moves(t, y)
      BY <2>1, <2>2 DEF Moves
    <2>4. Excludes(t, y) /\ SearchFits(y) /\ (Opening(y) <=> Opening(x))
      BY <1>1, <2>2 DEF Excludes, SearchFits, Opening
    <2>5. PlaceFits(y)
      BY <1>1, <2>2 DEF PlaceFits, LockPcs, WalkPcs
    <2> QED  BY <1>1, <2>1, <2>2, <2>3, <2>4, <2>5, QuietStep
  <1>5. CASE x.i > Len(table[k]) /\ x.lock # "rd"
    <2> DEFINE y == [x EXCEPT !.pc = "search", !.i = 1]
    <2>1. tx' = [tx EXCEPT ![t] = y] /\ table' = table
      <3>1. ~(x.i <= Len(table[k]))
        BY <1>1, <1>5
      <3> QED  BY <1>0, <1>1, <1>5, <3>1 DEF find_by_id, Set
    <2>2. /\ y.fd = x.fd /\ y.d = x.d /\ y.op = x.op /\ y.entry = x.entry
          /\ y.file = x.file /\ y.table = x.table /\ y.lock = x.lock /\ y.error = x.error
          /\ y.pc = "search" /\ y.ready = x.ready /\ y \in Transactions /\ x.lock = "wr" /\ y.i = 1
      BY <1>1, <1>5 DEF Transactions, Pcs, LockPcs, WalkPcs
    <2> HIDE DEF y
    <2>3. Moves(t, y)
      BY <2>1, <2>2 DEF Moves
    <2>4. Excludes(t, y) /\ (Opening(y) <=> Opening(x))
      BY <1>1, <2>2 DEF Excludes, Opening, TablesInv, WritersAreAlone
    <2>5. SearchFits(y)
      <3>1. \A i \in 1 .. Len(table[k]) : i \in Passed(x)
        BY <1>1, <1>5 DEF Passed
      <3>2. Object(k, y) = Object(k, x)
        BY <2>2 DEF Object
      <3> QED  BY <1>0, <1>1, <2>2, <3>1, <3>2 DEF SearchFits
    <2>6. PlaceFits(y)
      BY <1>1, <2>2 DEF PlaceFits, LockPcs, WalkPcs
    <2> QED  BY <1>1, <2>1, <2>2, <2>3, <2>4, <2>5, <2>6, QuietStep
  <1>6. x.i <= Len(table[k]) \/ x.i > Len(table[k])
    BY <1>1
  <1> QED  BY <1>2, <1>3, <1>4, <1>5, <1>6

LEMMA SearchByIdFits ==
    ASSUME TablesInv, NEW t \in Threads, search_by_id(t)
    PROVE  TablesInv'
  <1> DEFINE x == tx[t]
  <1>0. PICK k \in Tables : k = x.table
    BY DEF TablesInv, STTypeOK, Transactions
  <1>1. /\ x \in Transactions /\ PlaceFits(x) /\ SearchFits(x) /\ x.pc = "search" /\ x.lock = "wr"
        /\ UNCHANGED <<kernel, fdtab, promised>>
        /\ x.i \in Nat /\ x.i # 0 /\ table[k] \in Seq(Entries)
    BY <1>0 DEF TablesInv, STTypeOK, search_by_id, PlaceFits, Transactions, WalkPcs
  <1>2. CASE x.i <= Len(table[k]) /\ Compare(k, table[k][x.i].id, Empty) = "equal"
    <2>1. x.i \in 1 .. Len(table[k]) /\ table[k][x.i] \in Entries
      BY <1>1, <1>2
    <2>2. /\ table[k][x.i].id = Empty /\ Wanted(x) \in Nat /\ Wanted(x) # Empty
          /\ Meaning(k, Wanted(x)) = Object(k, x)
          /\ k = "file" => Wanted(x) \in Descriptors /\ kernel[Wanted(x)] # NoFile
      BY <1>0, <1>1, <1>2, <2>1, Comparison DEF WalkPcs
    <2>3. table[k][x.i].ref = 0
      BY <2>1, <2>2 DEF TablesInv, EntriesCount
    <2>4. tx' = [tx EXCEPT ![t] = Referenced(x, x.i)] /\ Up(k, x.i, Wanted(x))
      BY <1>0, <1>1, <1>2 DEF search_by_id, Set
    <2> DEFINE e == table[k][x.i]
               f == [ref |-> 1, id |-> Wanted(x)]
    <2>5. table' = [table EXCEPT ![k] = [@ EXCEPT ![x.i] = f]]
      <3>1. picotm_shared_ref16_obj_up(e, [e EXCEPT !.id = Wanted(x)]) = f
        BY <2>1, <2>3 DEF picotm_shared_ref16_obj_up, Entries
      <3> QED  BY <2>4, <3>1 DEF Up
    <2>6. f \in Entries /\ table \in [Tables -> Seq(Entries)] /\ f.ref = 1 /\ f.id = Wanted(x)
      BY <2>2 DEF Entries, TablesInv, STTypeOK
    <2> HIDE DEF f, e
    <2>7. EntryUp(t, k, x.i)
      <3>1. table'[k] = [table[k] EXCEPT ![x.i] = f] /\ \A l \in Tables \ {k} : table'[l] = table[l]
        BY <2>5, <2>6
      <3>2. table'[k] \in Seq(Entries) /\ Len(table'[k]) = Len(table[k]) /\ table'[k][x.i] = f
        BY <1>1, <2>1, <2>6, <3>1
      <3>3. \A j \in 1 .. Len(table'[k]) : j # x.i => table'[k][j] = table[k][j]
        BY <1>1, <3>1, <3>2
      <3>4. table' \in [Tables -> Seq(Entries)]
        BY <2>5, <2>6, <3>2
      <3>5. \A j \in 1 .. Len(table[k]) : table[k][j].id # Empty =>
              Meaning(k, table[k][j].id) # Object(k, tx[t])
        BY <1>0, <1>1 DEF SearchFits, Passed
      <3>6. /\ x.i \in 1 .. Len(table'[k]) /\ Len(table'[k]) >= Len(table[k]) /\ x.i <= Len(table[k])
            /\ \A j \in 1 .. Len(table'[k]) : j # x.i => j <= Len(table[k]) /\ table'[k][j] = table[k][j]
            /\ Len(table[k]) \in Nat
        BY <1>1, <2>1, <3>2, <3>3
      <3> QED  BY <2>2, <2>3, <2>4, <2>6, <3>1, <3>2, <3>4, <3>5, <3>6 DEF EntryUp
    <2>8. Len(table'[k]) <= Size[k]
      <3>1. table'[k] = [table[k] EXCEPT ![x.i] = f]
        BY <2>5, <2>6
      <3>2. Len(table'[k]) = Len(table[k])
        BY <1>1, <2>1, <2>6, <3>1
      <3> QED  BY <3>2 DEF TablesInv, EntriesCount
    <2> QED  BY <1>0, <1>1, <2>7, <2>8, EntryUpFits DEF WalkPcs
  <1>3. CASE x.i <= Len(table[k]) /\ Compare(k, table[k][x.i].id, Empty) # "equal"
    <2>1. tx' = [tx EXCEPT ![t] = [x EXCEPT !.i = @ + 1]] /\ table' = table
      BY <1>0, <1>1, <1>3 DEF search_by_id, Set
    <2> QED  BY <1>0, <1>1, <1>3, <2>1, MissFits
  <1>4. CASE x.i > Len(table[k])
    <2> DEFINE y == [x EXCEPT !.pc = "append"]
    <2>1. tx' = [tx EXCEPT ![t] = y] /\ table' = table
      <3>1. ~(x.i <= Len(table[k]))
        BY <1>1, <1>4
      <3> QED  BY <1>0, <1>1, <1>4, <3>1 DEF search_by_id, Set
    <2>2. /\ y.fd = x.fd /\ y.d = x.d /\ y.op = x.op /\ y.entry = x.entry /\ y.i = x.i
          /\ y.file = x.file /\ y.table = x.table /\ y.lock = x.lock /\ y.error = x.error
          /\ y.pc = "append" /\ y.ready = x.ready /\ y \in Transactions
      BY <1>1 DEF Transactions, Pcs, LockPcs, WalkPcs
    <2> HIDE DEF y
    <2>3. Moves(t, y)
      BY <2>1, <2>2 DEF Moves
    <2>4. Excludes(t, y) /\ (Opening(y) <=> Opening(x))
      BY <1>1, <2>2 DEF Excludes, Opening, TablesInv, WritersAreAlone
    <2>5. SearchFits(y)
      <3>1. Object(k, y) = Object(k, x) /\ Passed(y) = Passed(x)
        BY <1>1, <2>2 DEF Object, Passed
      <3> QED  BY <1>0, <1>1, <2>2, <3>1 DEF SearchFits
    <2>6. PlaceFits(y)
      BY <1>1, <2>2 DEF PlaceFits, LockPcs, WalkPcs
    <2> QED  BY <1>1, <2>1, <2>2, <2>3, <2>4, <2>5, <2>6, QuietStep
  <1>5. x.i <= Len(table[k]) \/ x.i > Len(table[k])
    BY <1>1
  <1> QED  BY <1>2, <1>3, <1>4, <1>5

LEMMA AppendFits ==
    ASSUME TablesInv, NEW t \in Threads, append(t)
    PROVE  TablesInv'
  <1> DEFINE x == tx[t]
  <1>0. PICK k \in Tables : k = x.table
    BY DEF TablesInv, STTypeOK, Transactions
  <1>1. /\ x \in Transactions /\ PlaceFits(x) /\ SearchFits(x) /\ x.pc = "append" /\ x.lock = "wr"
        /\ UNCHANGED <<kernel, fdtab, promised>>
        /\ table[k] \in Seq(Entries) /\ ~ x.ready
    BY <1>0 DEF TablesInv, STTypeOK, append, PlaceFits, Transactions, WalkPcs
  <1>2. CASE Len(table[k]) < Size[k]
    <2> DEFINE n == Len(table[k]) + 1
               f == [ref |-> 1, id |-> Wanted(x)]
    <2>1. /\ Wanted(x) \in Nat /\ Wanted(x) # Empty
          /\ Meaning(k, Wanted(x)) = Object(k, x)
          /\ k = "file" => Wanted(x) \in Descriptors /\ kernel[Wanted(x)] # NoFile
      <3>1. CASE k = "file"
        <4>1. x.fd /\ x.file # NoFile
          BY <1>1 DEF PlaceFits, LockPcs, WalkPcs
        <4>2. kernel[x.d] = x.file /\ x.d \in Descriptors /\ x.d # Empty
          BY <1>1, <4>1, NotIdle DEF TablesInv, DescriptorsFit
        <4>3. Wanted(x) = x.d
          BY <1>0, <3>1 DEF Wanted
        <4>4. x.d \in Nat
          BY <4>2, TablesAssumption
        <4> QED  BY <3>1, <4>1, <4>2, <4>3, <4>4 DEF Meaning, Object
      <3>2. CASE k # "file"
        <4>1. x.file \in Files
          BY <1>1 DEF PlaceFits, LockPcs, WalkPcs, Transactions
        <4>2. Wanted(x) = Inode[x.file] /\ Inode[x.file] \in Nat
          BY <1>0, <3>2, <4>1, TablesAssumption DEF Wanted
        <4> QED  BY <3>2, <4>2 DEF Meaning, Object, Empty
      <3> QED  BY <3>1, <3>2
    <2>2. /\ tx' = [tx EXCEPT ![t] = Referenced(x, n)]
          /\ table' = [table EXCEPT ![k] = Append(@, f)]
      <3>1. Size[k] \in Nat /\ Len(table[k]) \in Nat
        BY <1>1, TablesAssumption
      <3>2. ~ (Len(table[k]) >= Size[k])
        BY <1>2, <3>1
      <3> QED  BY <1>0, <1>1, <1>2, <3>2 DEF append, Set
    <2>3. f \in Entries /\ table \in [Tables -> Seq(Entries)] /\ f.ref = 1 /\ f.id = Wanted(x)
      BY <2>1 DEF Entries, TablesInv, STTypeOK
    <2> HIDE DEF f
    <2>4. EntryUp(t, k, n)
      <3>1. table'[k] = Append(table[k], f) /\ \A l \in Tables \ {k} : table'[l] = table[l]
        BY <2>2, <2>3
      <3>2. table'[k] \in Seq(Entries) /\ Len(table'[k]) = n /\ table'[k][n] = f /\ Len(table[k]) \in Nat
        BY <1>1, <2>3, <3>1
      <3>3. \A j \in 1 .. Len(table[k]) : table'[k][j] = table[k][j]
        BY <1>1, <2>3, <3>1
      <3>4. table' \in [Tables -> Seq(Entries)]
        BY <2>2, <2>3, <3>2
      <3>5. \A j \in 1 .. Len(table[k]) : table[k][j].id # Empty =>
              Meaning(k, table[k][j].id) # Object(k, tx[t])
        BY <1>0, <1>1 DEF SearchFits, Passed
      <3>6. /\ n \in 1 .. Len(table'[k]) /\ Len(table'[k]) >= Len(table[k]) /\ ~(n <= Len(table[k]))
            /\ \A j \in 1 .. Len(table'[k]) : j # n => j <= Len(table[k]) /\ table'[k][j] = table[k][j]
        BY <3>2, <3>3
      <3> HIDE DEF n
      <3> QED  BY <2>1, <2>2, <2>3, <3>1, <3>2, <3>4, <3>5, <3>6 DEF EntryUp
    <2>5. Len(table'[k]) <= Size[k]
      <3>1. table'[k] = Append(table[k], f)
        BY <2>2, <2>3
      <3>2. Len(table'[k]) = n /\ Len(table[k]) \in Nat /\ Size[k] \in Nat
        BY <1>1, <2>3, <3>1, TablesAssumption
      <3> QED  BY <1>2, <3>2
    <2> QED  BY <1>0, <1>1, <2>4, <2>5, EntryUpFits DEF WalkPcs
  <1>3. CASE Len(table[k]) >= Size[k]
    <2>1. Size[k] \in Nat /\ Len(table[k]) \in Nat
      BY <1>1, TablesAssumption
    <2>2. ~ (Len(table[k]) < Size[k])
      BY <1>3, <2>1
    <2>3. tx' = [tx EXCEPT ![t] = Unwind(x)] /\ table' = table
      BY <1>0, <1>1, <1>3, <2>2 DEF append, Set
    <2> QED  BY <1>1, <2>3, UnwindFits
  <1>4. Len(table[k]) < Size[k] \/ Len(table[k]) >= Size[k]
    BY <1>1, TablesAssumption
  <1> QED  BY <1>2, <1>3, <1>4

-----------------------------------------------------------------------------
(* The use of a descriptor.                                                *)

LEMMA StatFits ==
    ASSUME TablesInv, NEW t \in Threads, get_file_tx_with_ref(t)
    PROVE  TablesInv'
  <1> DEFINE x == tx[t]
             y == [x EXCEPT !.file = kernel[x.d], !.pc = IF x.op = "open" THEN "wrlock" ELSE "rdlock"]
  <1>1. x \in Transactions /\ PlaceFits(x) /\ x.pc = "stat" /\ UNCHANGED <<kernel, fdtab, table, promised>>
    BY DEF TablesInv, STTypeOK, get_file_tx_with_ref
  <1>2. /\ x.d \in Descriptors /\ x.fd /\ x.file = NoFile /\ x.table = "file" /\ ~x.ready /\ ~x.error
        /\ x.entry["file"] = 0 /\ x.entry["buffer"] = 0 /\ x.op \in Operations /\ x.lock = "none"
    BY <1>1, NotIdle DEF PlaceFits, WalkPcs
  <1>3. kernel[x.d] \in Files \cup {NoFile}
    BY <1>2 DEF TablesInv, STTypeOK
  <1>4. CASE kernel[x.d] = NoFile
    <2>1. tx' = [tx EXCEPT ![t] = Unwind(x)]
      BY <1>4 DEF get_file_tx_with_ref, Set
    <2> QED  BY <1>1, <1>2, <2>1, UnwindFits
  <1>5. CASE kernel[x.d] # NoFile
    <2>1. tx' = [tx EXCEPT ![t] = y]
      BY <1>5 DEF get_file_tx_with_ref, Set
    <2>2. /\ y.fd = x.fd /\ y.d = x.d /\ y.op = x.op /\ y.entry = x.entry
          /\ y.file = kernel[x.d] /\ y.table = "file" /\ y.lock = "none" /\ y.error = x.error
          /\ y.pc = (IF x.op = "open" THEN "wrlock" ELSE "rdlock") /\ y.ready = x.ready
          /\ y \in Transactions
      BY <1>1, <1>2, <1>3 DEF Transactions, Pcs, LockPcs
    <2> HIDE DEF y
    <2>3. Moves(t, y)
      BY <2>1, <2>2 DEF Moves
    <2>4. Excludes(t, y) /\ SearchFits(y) /\ (Opening(y) <=> Opening(x))
      BY <1>1, <2>2 DEF Excludes, SearchFits, Opening
    <2>5. PlaceFits(y)
      BY <1>1, <1>2, <1>5, <2>2 DEF PlaceFits, LockPcs, WalkPcs
    <2>6. \A k \in Tables : y.entry[k] = 0
      BY <1>2, <2>2 DEF Tables
    <2> QED  BY <1>1, <2>2, <2>3, <2>4, <2>5, <2>6, QuietStep
  <1> QED  BY <1>4, <1>5

(* From a transaction with all references to one in use.                   *)
LEMMA ReadyFits ==
    ASSUME TablesInv, NEW t \in Threads, tx[t].pc \in {"lock", "record"},
           UNCHANGED <<kernel, fdtab, table, promised>>,
           NEW want \in {"none", "rd", "wr"}, NEW pc \in {"record", "in_use"},
           pc = "record" => tx[t].op = "record",
           tx' = [tx EXCEPT ![t] = [tx[t] EXCEPT !.rw = want, !.ready = TRUE, !.pc = pc]]
    PROVE  TablesInv'
  <1> DEFINE x == tx[t]
             y == [x EXCEPT !.rw = want, !.ready = TRUE, !.pc = pc]
  <1>1. x \in Transactions /\ PlaceFits(x)
    BY DEF TablesInv, STTypeOK
  <1>2. /\ y.fd = x.fd /\ y.d = x.d /\ y.op = x.op /\ y.entry = x.entry
        /\ y.file = x.file /\ y.table = x.table /\ y.lock = x.lock /\ y.error = x.error
        /\ y.pc = pc /\ y.ready = TRUE /\ y \in Transactions
    BY <1>1 DEF Transactions, Pcs, LockPcs
  <1> HIDE DEF y
  <1>3. Moves(t, y)
    BY <1>2 DEF Moves, y
  <1>4. y.lock = "none" /\ x.entry["buffer"] # 0
    BY <1>1, <1>2 DEF PlaceFits, WalkPcs
  <1>5. Excludes(t, y) /\ SearchFits(y) /\ (Opening(y) <=> Opening(x))
    BY <1>1, <1>2, <1>4 DEF Excludes, SearchFits, Opening
  <1>6. PlaceFits(y)
    BY <1>1, <1>2, <1>4 DEF PlaceFits, LockPcs, WalkPcs
  <1> QED  BY <1>2, <1>3, <1>5, <1>6, QuietStep

LEMMA LockFits ==
    ASSUME TablesInv, NEW t \in Threads, fd_tx_try_lock_field(t)
    PROVE  TablesInv'
  <1> DEFINE x == tx[t]
             want == CASE x.op = "close" -> "wr" [] x.op = "open" -> "none" [] OTHER -> "rd"
             pc == IF x.op = "record" THEN "record" ELSE "in_use"
  <1>1. x \in Transactions /\ PlaceFits(x) /\ x.pc = "lock" /\ UNCHANGED <<kernel, fdtab, table, promised>>
    BY DEF TablesInv, STTypeOK, fd_tx_try_lock_field
  <1>2. want \in {"none", "rd", "wr"} /\ pc \in {"record", "in_use"} /\ (pc = "record" => x.op = "record")
    OBVIOUS
  <1>3. CASE tx' = [tx EXCEPT ![t] = Unwind(x)]
    <2>1. ~x.ready
      BY <1>1 DEF PlaceFits
    <2> QED  BY <1>1, <1>3, <2>1, UnwindFits
  <1>4. CASE tx' = [tx EXCEPT ![t] = [x EXCEPT !.rw = want, !.ready = TRUE, !.pc = pc]]
    <2> HIDE DEF want, pc
    <2> QED  BY <1>1, <1>2, <1>4, ReadyFits
  <1> QED  BY <1>3, <1>4 DEF fd_tx_try_lock_field, Set

LEMMA PageFoundFits ==
    ASSUME TablesInv, NEW t \in Threads, PageFound(t)
    PROVE  TablesInv'
  <1> DEFINE x == tx[t]
  <1>1. /\ x \in Transactions /\ PlaceFits(x) /\ x.pc = "record"
        /\ UNCHANGED <<kernel, fdtab, table, promised>>
    BY DEF TablesInv, STTypeOK, PageFound
  <1>2. x.op = "record" /\ x.ready = TRUE /\ x.rw \in {"none", "rd", "wr"}
    BY <1>1 DEF PlaceFits, Transactions
  <1>3. CASE tx' = [tx EXCEPT ![t] = Unwind(x)]
    BY <1>1, <1>2, <1>3, UnwindFits
  <1>4. CASE tx' = [tx EXCEPT ![t] = [x EXCEPT !.pc = "in_use"]]
    <2>1. [x EXCEPT !.pc = "in_use"] = [x EXCEPT !.rw = x.rw, !.ready = TRUE, !.pc = "in_use"]
      BY <1>1, <1>2 DEF Transactions
    <2> QED  BY <1>1, <1>2, <1>4, <2>1, ReadyFits
  <1> QED  BY <1>3, <1>4 DEF PageFound, Set

(* The end of the use, committed or rolled back, with closes: whether the  *)
(* fd is to be closed.                                                     *)
LEMMA UseEnds ==
    ASSUME TablesInv, NEW t \in Threads, tx[t].pc = "in_use", UNCHANGED <<kernel, table>>,
           tx' = [tx EXCEPT ![t] = Unwind(tx[t])],
           NEW closes \in BOOLEAN,
           closes => fdtab' = fd_close(tx[t]) /\ promised' = promised \ {tx[t].d} /\ Alone(tx[t].d),
           ~closes => fdtab' = fdtab,
           ~closes /\ tx[t].op = "open" => promised' = promised \cup {tx[t].d},
           ~closes /\ tx[t].op # "open" => promised' = promised
    PROVE  TablesInv'
  <1> DEFINE x == tx[t]  y == Unwind(x)
  <1>1. x \in Transactions /\ PlaceFits(x)
    BY DEF TablesInv, STTypeOK
  <1>2. /\ y.fd = x.fd /\ y.d = x.d /\ y.op = x.op /\ y.entry = x.entry
        /\ y.file = x.file /\ y.table = x.table /\ y.lock = "none" /\ y.error = x.error
        /\ y.pc = "unwind" /\ y.ready = x.ready /\ y \in Transactions
    BY <1>1 DEF Unwind, Unlocked, Transactions, Pcs
  <1> HIDE DEF y
  <1>3. x.fd /\ x.file # NoFile /\ x.ready /\ x.d \in Descriptors /\ x.entry["file"] # 0
    BY <1>1, NotIdle DEF PlaceFits
  <1>4. x.d \in Nat /\ x.d + 1 \in 1 .. Len(fdtab) /\ Len(fdtab) \in Nat
    <2>1. fdtab \in Seq(FdEntries)
      BY DEF TablesInv, STTypeOK
    <2>2. Len(fdtab) \in Nat
      BY <2>1
    <2>3. x.d \in Nat /\ x.d < Len(fdtab)
      BY <1>3, TablesAssumption DEF TablesInv, FdsCount
    <2> QED  BY <2>2, <2>3
  <1>5. Moves(t, y) /\ tx'[t] = y /\ \A u \in Threads \ {t} : tx'[u] = tx[u]
    <2>1. Moves(t, y)
      BY <1>2 DEF Moves, y
    <2> QED  BY <2>1, MoveIsLocal DEF TablesInv
  <1>6. /\ Len(fdtab') = Len(fdtab)
        /\ fdtab' \in Seq(FdEntries)
        /\ \A d \in 0 .. Len(fdtab) - 1 : d # x.d => fdtab'[d + 1] = fdtab[d + 1]
        /\ fdtab'[x.d + 1].ref = fdtab[x.d + 1].ref
        /\ fdtab'[x.d + 1].state = IF closes THEN "CLOSING" ELSE fdtab[x.d + 1].state
    <2>1. fdtab \in Seq(FdEntries)
      BY DEF TablesInv, STTypeOK
    <2>2. fdtab[x.d + 1] \in FdEntries
      BY <1>4, <2>1
    <2>3. CASE closes
      <3>1. fdtab' = [fdtab EXCEPT ![x.d + 1] = [@ EXCEPT !.state = "CLOSING"]]
        BY <2>3 DEF fd_close
      <3> DEFINE f == [fdtab[x.d + 1] EXCEPT !.state = "CLOSING"]
      <3>2. f \in FdEntries /\ f.ref = fdtab[x.d + 1].ref /\ f.state = "CLOSING"
        BY <2>2 DEF FdEntries
      <3>3. fdtab' = [fdtab EXCEPT ![x.d + 1] = f]
        BY <3>1
      <3> HIDE DEF f
      <3> QED  BY <1>4, <2>1, <2>3, <3>2, <3>3
    <2>4. CASE ~closes
      BY <2>1, <2>4
    <2> QED  BY <2>3, <2>4
  <1>7. STTypeOK'
    BY <1>3, <1>5, <1>6, MoveIsLocal DEF TablesInv, STTypeOK
  <1>8. \A u \in Threads : PlaceFits(tx[u])'
    <2>1. PlaceFits(y)
      BY <1>1, <1>2 DEF PlaceFits, LockPcs, WalkPcs
    <2>2. \A u \in Threads : PlaceFits(tx'[u])
      BY <1>5, <2>1 DEF TablesInv
    <2> QED  BY <2>2 DEF PlaceFits
  <1>9. WritersAreAlone'
    <2>1. Excludes(t, y)
      BY <1>2 DEF Excludes
    <2> QED  BY <1>5, <2>1, WritersKeep DEF TablesInv
  <1>10. FdsCount'
    <2>1. \A d : FdUsers(d)' = FdUsers(d)
      <3>1. \A u \in Threads : tx'[u].fd = tx[u].fd /\ tx'[u].d = tx[u].d
        BY <1>2, <1>5
      <3> QED  BY <3>1 DEF FdUsers
    <2>2. t \in FdUsers(x.d) /\ FdUsers(x.d) \in SUBSET Threads
      BY <1>3 DEF FdUsers
    <2>3. fdtab[x.d + 1].ref # 0 /\ fdtab[x.d + 1].state # "UNUSED"
      <3>1. Cardinality(FdUsers(x.d)) # 0
        BY <2>2, ThreadSets
      <3>2. x.d \in 0 .. Len(fdtab) - 1
        BY <1>4
      <3> QED  BY <3>1, <3>2 DEF TablesInv, FdsCount
    <2>4. ASSUME NEW d \in 0 .. Len(fdtab) - 1
          PROVE  /\ fdtab'[d + 1].ref = Cardinality(FdUsers(d)')
                 /\ fdtab'[d + 1].ref = 0 => fdtab'[d + 1] = fd_init
                 /\ fdtab'[d + 1].ref # 0 => fdtab'[d + 1].state # "UNUSED"
      <3>1. CASE d = x.d
        BY <1>6, <2>1, <2>3, <3>1 DEF TablesInv, FdsCount
      <3>2. CASE d # x.d
        BY <1>6, <2>1, <3>2 DEF TablesInv, FdsCount
      <3> QED  BY <3>1, <3>2
    <2>5. \A u \in Threads : tx'[u].fd => tx'[u].d < Len(fdtab')
      BY <1>2, <1>5, <1>6 DEF TablesInv, FdsCount
    <2> QED  BY <1>6, <2>4, <2>5 DEF FdsCount
  <1>11. \A d \in Descriptors : Closing(d)' <=> Closing(d) \/ (closes /\ d = x.d)
    <2> SUFFICES ASSUME NEW d \in Descriptors
                 PROVE  Closing(d)' <=> Closing(d) \/ (closes /\ d = x.d)
      OBVIOUS
    <2>1. d \in Nat
      BY TablesAssumption
    <2>2. CASE d = x.d
      BY <1>4, <1>6, <2>2 DEF Closing
    <2>3. CASE d # x.d /\ d \in 0 .. Len(fdtab) - 1
      BY <1>6, <2>3 DEF Closing
    <2>4. CASE d \notin 0 .. Len(fdtab) - 1
      BY <1>4, <1>6, <2>1, <2>4 DEF Closing
    <2> QED  BY <2>2, <2>3, <2>4
  <1>12. DescriptorsFit'
    <2>1. y.fd /\ y.file # NoFile => kernel[y.d] = y.file
      BY <1>2 DEF TablesInv, DescriptorsFit
    <2>2. \A d \in Descriptors : Closing(d)' => Closing(d) \/ Alone(d)
      BY <1>11
    <2> QED  BY <1>2, <1>5, <2>1, <2>2, DescriptorsKeep DEF TablesInv
  <1>13. PromisesFit'
    <2>1. ~Opening(y) /\ (Opening(x) <=> x.op = "open")
      BY <1>2, <1>3 DEF Opening
    <2>2. kernel[x.d] # NoFile
      BY <1>3 DEF TablesInv, DescriptorsFit
    <2>3. x.op = "open" => ~Closing(x.d) /\ \A u \in Threads \ {t} : tx[u].d # x.d
      BY <2>1 DEF TablesInv, PromisesFit, DescriptorsFit
    <2>4. ASSUME NEW u \in Threads, Opening(tx'[u])
          PROVE  ~ Closing(tx[u].d)'
      <3>1. u # t /\ tx'[u] = tx[u]
        BY <1>5, <2>1, <2>4
      <3>2. tx[u].op = "open" /\ ~Closing(tx[u].d) /\ \A v \in Threads \ {u} : tx[v].d # tx[u].d
        BY <2>4, <3>1 DEF Opening, TablesInv, PromisesFit, DescriptorsFit
      <3>3. tx[u].d # x.d /\ tx[u].d \in Descriptors
        BY <3>1, <3>2, NotIdle DEF TablesInv
      <3>4. ~ Closing(tx[u].d)' = ~ (tx[u].d < Len(fdtab') /\ fdtab'[tx[u].d + 1].state = "CLOSING")
        BY <3>1 DEF Closing
      <3>5. \A d \in Descriptors : d # x.d => (Closing(d)' <=> Closing(d))
        BY <1>11
      <3> QED  BY <3>1, <3>2, <3>3, <3>5 DEF Closing
    <2>5. ASSUME NEW d \in Descriptors
          PROVE  d \in promised' <=>
                    /\ kernel'[d] # NoFile /\ ~Closing(d)'
                    /\ \A u \in Threads : ~(Opening(tx'[u]) /\ tx'[u].d = d)
      <3>0. (\A u \in Threads : ~(Opening(tx'[u]) /\ tx'[u].d = d))
            <=> (\A u \in Threads \ {t} : ~(Opening(tx[u]) /\ tx[u].d = d))
        BY <1>5, <2>1
      <3>1. d \in promised <=>
                /\ kernel[d] # NoFile /\ ~Closing(d)
                /\ \A u \in Threads : ~(Opening(tx[u]) /\ tx[u].d = d)
        BY DEF TablesInv, PromisesFit
      <3>2. CASE d # x.d
        BY <1>11, <3>0, <3>1, <3>2
      <3>3. CASE d = x.d /\ closes
        BY <1>11, <3>3
      <3>4. CASE d = x.d /\ ~closes /\ x.op = "open"
        BY <1>11, <2>2, <2>3, <3>0, <3>4
      <3>5. CASE d = x.d /\ ~closes /\ x.op # "open"
        BY <1>11, <2>1, <3>0, <3>1, <3>5
      <3> QED  BY <3>2, <3>3, <3>4, <3>5
    <2>6. \A u \in Threads : Opening(tx[u])' = Opening(tx'[u])
      BY DEF Opening
    <2> QED  BY <2>4, <2>5, <2>6 DEF PromisesFit
  <1>14. EntriesCount'
    BY <1>2, <1>5, EntriesKeep, SameKernel DEF TablesInv
  <1>15. EntriesDiffer' /\ \A u \in Threads : SearchFits(tx[u])'
    <2>1. SearchFits(y)
      BY <1>2 DEF SearchFits
    <2> QED  BY <1>5, <2>1, TableKeeps, SameKernel DEF TablesInv
  <1> QED  BY <1>7, <1>8, <1>9, <1>10, <1>12, <1>13, <1>14, <1>15 DEF TablesInv

LEMMA CommitFits ==
    ASSUME TablesInv, Risks = {}, NEW t \in Threads, Commit(t)
    PROVE  TablesInv'
  <1> DEFINE x == tx[t]
             closes == x.op = "close" /\ fdtab[x.d + 1].state = "INUSE"
  <1>1. /\ x.pc = "in_use" /\ UNCHANGED <<kernel, table>> /\ tx' = [tx EXCEPT ![t] = Unwind(x)]
        /\ x \in Transactions /\ PlaceFits(x)
    BY DEF Commit, Set, TablesInv, STTypeOK
  <1>2. x.fd /\ x.file # NoFile /\ x.d \in Descriptors /\ kernel[x.d] = x.file
    <2>1. x.fd /\ x.file # NoFile
      BY <1>1 DEF PlaceFits
    <2> QED  BY <1>1, <2>1, NotIdle DEF TablesInv, DescriptorsFit
  <1>3. x.op = "open" => fdtab[x.d + 1].state = "INUSE"
    <2> SUFFICES ASSUME x.op = "open" PROVE fdtab[x.d + 1].state = "INUSE"
      OBVIOUS
    <2>1. ~Closing(x.d) /\ x.d < Len(fdtab)
      BY <1>1, <1>2 DEF Opening, TablesInv, PromisesFit, FdsCount
    <2>2. x.d \in 0 .. Len(fdtab) - 1 /\ Len(fdtab) \in Nat
      <3>1. fdtab \in Seq(FdEntries) /\ x.d \in Nat
        BY <1>2, TablesAssumption DEF TablesInv, STTypeOK
      <3>2. Len(fdtab) \in Nat
        BY <3>1
      <3> QED  BY <2>1, <3>1, <3>2
    <2>3. Cardinality(FdUsers(x.d)) # 0
      <3>1. t \in FdUsers(x.d) /\ FdUsers(x.d) \in SUBSET Threads
        BY <1>2 DEF FdUsers
      <3> QED  BY <3>1, ThreadSets
    <2>4. fdtab[x.d + 1].state # "UNUSED"
      BY <2>2, <2>3 DEF TablesInv, FdsCount
    <2>5. fdtab[x.d + 1].state \in {"UNUSED", "INUSE", "CLOSING"}
      <3>1. fdtab \in Seq(FdEntries) /\ x.d + 1 \in 1 .. Len(fdtab)
        BY <2>2 DEF TablesInv, STTypeOK
      <3>2. fdtab[x.d + 1] \in FdEntries
        BY <3>1
      <3> QED  BY <3>2 DEF FdEntries
    <2> QED  BY <2>1, <2>4, <2>5 DEF Closing
  <1>4. closes \in BOOLEAN
    OBVIOUS
  <1>5. (closes => fdtab' = fd_close(x)) /\ (~closes => fdtab' = fdtab)
    BY DEF Commit
  <1>6. closes => Alone(x.d)
    BY <1>2 DEF Commit, Alone
  <1>7. /\ closes => promised' = promised \ {x.d}
        /\ ~closes /\ x.op = "open" => promised' = promised \cup {x.d}
        /\ ~closes /\ x.op # "open" => promised' = promised
    <2>1. CASE x.op = "open"
      BY <1>3, <2>1 DEF Commit
    <2>2. CASE x.op = "close"
      BY <2>2 DEF Commit
    <2>3. CASE x.op # "open" /\ x.op # "close"
      BY <2>3 DEF Commit
    <2> QED  BY <2>1, <2>2, <2>3
  <1> HIDE DEF closes
  <1> QED  BY <1>1, <1>4, <1>5, <1>6, <1>7, UseEnds

LEMMA RollBackFits ==
    ASSUME TablesInv, NEW t \in Threads, RollBack(t)
    PROVE  TablesInv'
  <1> DEFINE x == tx[t]
             closes == x.op = "open"
  <1>1. /\ x.pc = "in_use" /\ UNCHANGED <<kernel, table, promised>> /\ tx' = [tx EXCEPT ![t] = Unwind(x)]
        /\ closes \in BOOLEAN
        /\ closes => fdtab' = fd_close(x)
        /\ ~closes => fdtab' = fdtab
    BY DEF RollBack, Set
  <1>2. closes => Alone(x.d) /\ x.d \in Descriptors
    BY NotIdle DEF TablesInv, DescriptorsFit
  <1>3. closes => x.d \notin promised
    BY <1>1, <1>2 DEF Opening, TablesInv, PromisesFit
  <1>4. closes => promised' = promised \ {x.d}
    BY <1>1, <1>3
  <1>5. ~closes /\ x.op # "open" => promised' = promised
    BY <1>1
  <1>6. ~(~closes /\ x.op = "open")
    OBVIOUS
  <1> HIDE DEF closes
  <1> QED  BY <1>1, <1>2, <1>4, <1>5, <1>6, UseEnds

-----------------------------------------------------------------------------
(* The references to a file and a buffer go back.                          *)

LEMMA UnrefFits ==
    ASSUME TablesInv, NEW t \in Threads, NEW k \in Tables, tx[t].pc = "unwind", tx[t].entry[k] # 0,
           k = "file" => tx[t].entry["buffer"] = 0, Unref(t, k)
    PROVE  TablesInv'
  <1> DEFINE x == tx[t]  y == [x EXCEPT !.entry[k] = 0]
  <1>0. x \in Transactions /\ PlaceFits(x) /\ table \in [Tables -> Seq(Entries)]
    BY DEF TablesInv, STTypeOK
  <1>1. PICK i \in Nat : i = x.entry[k]
    BY <1>0 DEF Transactions
  <1>2. /\ y.fd = x.fd /\ y.d = x.d /\ y.op = x.op /\ y.file = x.file /\ y.table = x.table
        /\ y.lock = x.lock /\ y.i = x.i /\ y.error = x.error /\ y.ready = x.ready /\ y.pc = x.pc
        /\ y.entry = [x.entry EXCEPT ![k] = 0] /\ y \in Transactions
        /\ y.entry[k] = 0 /\ \A l \in Tables \ {k} : y.entry[l] = x.entry[l]
    BY <1>0 DEF Transactions
  <1> HIDE DEF y
  <1>3. Moves(t, y) /\ tx'[t] = y /\ \A u \in Threads \ {t} : tx'[u] = tx[u]
    <2>1. Moves(t, y)
      BY <1>2 DEF Moves, y, Unref, Set
    <2> QED  BY <2>1, MoveIsLocal DEF TablesInv
  <1> DEFINE e == table[k][i]
             f == picotm_shared_ref16_obj_down(e, [e EXCEPT !.id = Empty])
  <1>4. i \in 1 .. Len(table[k]) /\ e \in Entries
    <2>1. i # 0 /\ i <= Len(table[k]) /\ Len(table[k]) \in Nat
      BY <1>0, <1>1 DEF TablesInv, EntriesCount
    <2> QED  BY <1>0, <2>1
  <1>5. t \in Users(k, i) /\ Users(k, i) \in SUBSET Threads /\ Users(k, i)' = Users(k, i) \ {t}
    BY <1>1, <1>2, <1>3, <1>4 DEF Users
  <1>6. e.ref = Cardinality(Users(k, i)) /\ e.ref # 0 /\ Cardinality(Users(k, i)') = e.ref - 1
    BY <1>4, <1>5, ThreadSets DEF TablesInv, EntriesCount
  <1>7. e.id # Empty
    BY <1>4, <1>6 DEF TablesInv, EntriesCount
  <1>8. f \in Entries /\ f.ref = e.ref - 1 /\ f.id = IF f.ref = 0 THEN Empty ELSE e.id
    <2>1. CASE e.ref = 1
      <3>1. f = [e EXCEPT !.id = Empty, !.ref = 0]
        BY <1>4, <2>1 DEF Entries, picotm_shared_ref16_obj_down
      <3>2. f = [ref |-> 0, id |-> Empty]
        BY <1>4, <3>1 DEF Entries
      <3> QED  BY <2>1, <3>2 DEF Entries
    <2>2. CASE e.ref # 1
      <3>1. f = [e EXCEPT !.ref = e.ref - 1]
        BY <1>4, <2>2 DEF Entries, picotm_shared_ref16_obj_down
      <3>2. f = [ref |-> e.ref - 1, id |-> e.id] /\ e.ref - 1 \in Nat /\ e.ref - 1 # 0
        BY <1>4, <1>6, <2>2, <3>1 DEF Entries
      <3> QED  BY <1>4, <3>2 DEF Entries
    <2> QED  BY <2>1, <2>2
  <1>9. table' = [table EXCEPT ![k][i] = f] /\ UNCHANGED <<kernel, fdtab, promised>>
    BY <1>1 DEF Unref
  <1> HIDE DEF f
  <1>10. /\ table' \in [Tables -> Seq(Entries)]
         /\ \A l \in Tables : Len(table'[l]) = Len(table[l])
         /\ table'[k][i] = f
         /\ \A l \in Tables, j \in Nat : j \in 1 .. Len(table[l]) /\ (l # k \/ j # i) => table'[l][j] = table[l][j]
    <2>1. table'[k] = [table[k] EXCEPT ![i] = f] /\ \A l \in Tables \ {k} : table'[l] = table[l]
      BY <1>0, <1>9
    <2>2. table'[k] \in Seq(Entries) /\ Len(table'[k]) = Len(table[k]) /\ table'[k][i] = f
      BY <1>0, <1>4, <1>8, <2>1
    <2>3. \A j \in 1 .. Len(table[k]) : j # i => table'[k][j] = table[k][j]
      BY <1>0, <2>1
    <2>4. table' \in [Tables -> Seq(Entries)]
      <3>1. [table EXCEPT ![k][i] = f] = [table EXCEPT ![k] = [table[k] EXCEPT ![i] = f]]
        BY <1>0
      <3> QED  BY <1>0, <1>9, <2>1, <2>2, <3>1
    <2> QED  BY <2>1, <2>2, <2>3, <2>4
  <1>11. STTypeOK'
    BY <1>3, <1>9, <1>10, MoveIsLocal DEF TablesInv, STTypeOK
  <1>12. \A u \in Threads : PlaceFits(tx[u])'
    <2>1. PlaceFits(y)
      <3>1. y.pc = "unwind" /\ y.lock = "none" /\ y.fd = x.fd /\ y.file = x.file
        BY <1>0, <1>2 DEF PlaceFits, WalkPcs
      <3>2. y.entry["buffer"] # 0 => y.entry["file"] # 0
        BY <1>0, <1>2 DEF PlaceFits, Tables
      <3>3. y.entry["file"] # 0 => y.fd /\ y.file # NoFile
        BY <1>0, <1>2 DEF PlaceFits, Tables
      <3> QED  BY <1>0, <1>2, <3>1, <3>2, <3>3 DEF PlaceFits, WalkPcs, LockPcs
    <2>2. \A u \in Threads : PlaceFits(tx'[u])
      BY <1>3, <2>1 DEF TablesInv
    <2> QED  BY <2>2 DEF PlaceFits
  <1>13. x.lock = "none" /\ y.lock = "none"
    BY <1>0, <1>2 DEF PlaceFits, WalkPcs
  <1>14. WritersAreAlone'
    <2>1. Excludes(t, y)
      BY <1>13 DEF Excludes
    <2> QED  BY <1>3, <2>1, WritersKeep DEF TablesInv
  <1>15. FdsCount'
    BY <1>2, <1>3, <1>9, FdsKeep DEF TablesInv
  <1>16. \A d \in Descriptors : Closing(d)' <=> Closing(d)
    BY <1>9 DEF Closing
  <1>17. DescriptorsFit'
    <2>1. y.fd /\ y.file # NoFile => kernel[y.d] = y.file
      BY <1>2 DEF TablesInv, DescriptorsFit
    <2> QED  BY <1>2, <1>3, <1>9, <1>16, <2>1, DescriptorsKeep DEF TablesInv
  <1>18. PromisesFit'
    <2>1. Opening(y) <=> Opening(x)
      BY <1>2 DEF Opening
    <2> QED  BY <1>2, <1>3, <1>9, <1>16, <2>1, PromisesKeep DEF TablesInv
  <1>19. EntriesCount'
    <2>1. \A l \in Tables : \A j : (l # k \/ j # i) /\ j # 0 => Users(l, j)' = Users(l, j)
      <3> SUFFICES ASSUME NEW l \in Tables, NEW j, l # k \/ j # i, j # 0
                   PROVE  Users(l, j)' = Users(l, j)
        OBVIOUS
      <3>1. ASSUME NEW u \in Threads PROVE tx'[u].entry[l] = j <=> tx[u].entry[l] = j
        <4>1. CASE u # t
          BY <1>3, <4>1
        <4>2. CASE u = t /\ l # k
          BY <1>2, <1>3, <4>2
        <4>3. CASE u = t /\ l = k
          BY <1>1, <1>2, <1>3, <4>3
        <4> QED  BY <4>1, <4>2, <4>3
      <3> QED  BY <3>1 DEF Users
    <2>2. ASSUME NEW l \in Tables, NEW j \in 1 .. Len(table'[l])
          PROVE  /\ table'[l][j].ref = Cardinality(Users(l, j)')
                 /\ table'[l][j].ref = 0 <=> table'[l][j].id = Empty
                 /\ l = "file" /\ table'[l][j].id # Empty =>
                       table'[l][j].id \in Descriptors /\ kernel'[table'[l][j].id] # NoFile
      <3>1. CASE l = k /\ j = i
        <4>1. l = "file" => e.id \in Descriptors /\ kernel[e.id] # NoFile
          BY <1>4, <1>7, <3>1 DEF TablesInv, EntriesCount
        <4>2. table'[l][j] = f /\ Cardinality(Users(l, j)') = e.ref - 1 /\ (f.ref = 0 <=> f.id = Empty)
          BY <1>6, <1>7, <1>8, <1>10, <3>1
        <4>3. l = "file" /\ f.id # Empty => f.id \in Descriptors /\ kernel'[f.id] # NoFile
          BY <1>8, <1>9, <4>1
        <4> QED  BY <1>8, <4>2, <4>3
      <3>2. CASE l # k \/ j # i
        <4>1. j \in 1 .. Len(table[l]) /\ table'[l][j] = table[l][j] /\ j # 0
          BY <1>10, <3>2
        <4> QED  BY <1>9, <2>1, <3>2, <4>1 DEF TablesInv, EntriesCount
      <3> QED  BY <3>1, <3>2
    <2>3. ASSUME NEW l \in Tables, NEW u \in Threads, tx'[u].entry[l] # 0
          PROVE  (/\ tx[u].entry[l] <= Len(table[l])
                  /\ Meaning(l, table[l][tx[u].entry[l]].id) = Object(l, tx[u]))'
      <3>1. u # t \/ l # k
        BY <1>2, <1>3, <2>3
      <3>2. tx'[u].entry[l] = tx[u].entry[l] /\ tx'[u].file = tx[u].file
        BY <1>2, <1>3, <3>1
      <3> DEFINE j == tx[u].entry[l]
      <3>3. j \in 1 .. Len(table[l]) /\ j \in Nat /\ Meaning(l, table[l][j].id) = Object(l, tx[u])
        <4>1. j \in Nat /\ Len(table[l]) \in Nat
          BY <1>0 DEF TablesInv, STTypeOK, Transactions
        <4> QED  BY <2>3, <3>2, <4>1 DEF TablesInv, EntriesCount
      <3>4. table'[l][j].id = table[l][j].id
        <4>1. CASE l # k \/ j # i
          BY <1>10, <3>3, <4>1
        <4>2. CASE l = k /\ j = i
          <5>1. {t, u} \in SUBSET Users(k, i) /\ u # t
            BY <1>5, <3>1, <4>2 DEF Users
          <5>2. Cardinality(Users(k, i) \ {t}) # 0
            BY <5>1, ThreadSets DEF Users
          <5> QED  BY <1>5, <1>6, <1>8, <1>10, <4>2, <5>2
        <4> QED  BY <4>1, <4>2
      <3> QED  BY <1>9, <1>10, <3>2, <3>3, <3>4 DEF Meaning, Object
    <2>4. \A l \in Tables : Len(table'[l]) <= Size[l]
      BY <1>10 DEF TablesInv, EntriesCount
    <2> QED  BY <2>2, <2>3, <2>4 DEF EntriesCount
  <1>20. \A l \in Tables, j \in Nat : j \in 1 .. Len(table[l]) /\ table'[l][j].id # Empty =>
             table'[l][j].id = table[l][j].id
    BY <1>8, <1>10
  <1>21. EntriesDiffer'
    BY <1>9, <1>10, <1>20 DEF TablesInv, EntriesDiffer, Meaning
  <1>22. ASSUME NEW u \in Threads PROVE SearchFits(tx[u])'
    <2>1. CASE u = t
      BY <1>3, <1>13, <2>1 DEF SearchFits
    <2>2. CASE u # t
      <3>1. tx'[u] = tx[u] /\ SearchFits(tx[u]) /\ tx[u].table \in Tables
        BY <1>3, <2>2 DEF TablesInv, STTypeOK, Transactions
      <3>2. Passed(tx[u])' = Passed(tx[u])
        BY <3>1 DEF Passed
      <3> QED  BY <1>9, <1>10, <1>20, <3>1, <3>2 DEF SearchFits, Meaning, Object
    <2> QED  BY <2>1, <2>2
  <1> QED  BY <1>11, <1>12, <1>14, <1>15, <1>17, <1>18, <1>19, <1>21, <1>22 DEF TablesInv

-----------------------------------------------------------------------------
(* The reference to an fd.                                                 *)

LEMMA FdRefFits ==
    ASSUME TablesInv, NEW t \in Threads, tx[t].pc \in {"fd_find", "fd_search"},
           UNCHANGED <<kernel, table, promised>>,
           NEW tab \in Seq(FdEntries), tx[t].d < Len(tab), Len(fdtab) <= Len(tab),
           \A i \in 1 .. Len(tab) : tab[i] = IF i <= Len(fdtab) THEN fdtab[i] ELSE fd_init,
           tx[t].d < Len(fdtab) => tab = fdtab,
           fd_ref_or_set_up(t, tab)
    PROVE  TablesInv'
  <1> DEFINE x == tx[t]  y == [x EXCEPT !.pc = "stat", !.fd = TRUE]
             e == tab[x.d + 1]
             f == picotm_shared_ref16_obj_up(e, [e EXCEPT !.state = "INUSE"])
  <1>1. /\ x \in Transactions /\ PlaceFits(x) /\ x.d \in Descriptors /\ x.d \in Nat
        /\ Len(fdtab) \in Nat /\ Len(tab) \in Nat /\ fdtab \in Seq(FdEntries)
    <2>1. x \in Transactions /\ PlaceFits(x) /\ fdtab \in Seq(FdEntries)
      BY DEF TablesInv, STTypeOK
    <2>2. x.d \in Descriptors
      BY <2>1, NotIdle
    <2>3. x.d \in Nat
      BY <2>2, TablesAssumption
    <2>4. Len(fdtab) \in Nat /\ Len(tab) \in Nat
      BY <2>1
    <2> QED  BY <2>1, <2>2, <2>3, <2>4
  <1>2. x.d + 1 \in 1 .. Len(tab) /\ e \in FdEntries
    BY <1>1
  <1>3. CASE e.state = "CLOSING"
    <2>1. fdtab' = tab /\ tx' = [tx EXCEPT ![t] = Unwind(x)]
      BY <1>3 DEF fd_ref_or_set_up, Set
    <2>2. x.op = "open" => ~ x.ready
      BY <1>1 DEF PlaceFits
    <2>3. x.d < Len(fdtab)
      BY <1>1, <1>2, <1>3 DEF fd_init
    <2> QED  BY <2>1, <2>2, <2>3, UnwindFits
  <1>4. CASE e.state # "CLOSING"
    <2>1. fdtab' = [tab EXCEPT ![x.d + 1] = f] /\ tx' = [tx EXCEPT ![t] = y]
      BY <1>4 DEF fd_ref_or_set_up, Set
    <2>2. /\ y.fd = TRUE /\ y.d = x.d /\ y.op = x.op /\ y.entry = x.entry
          /\ y.file = x.file /\ y.table = x.table /\ y.lock = x.lock /\ y.error = x.error
          /\ y.pc = "stat" /\ y.ready = x.ready /\ y \in Transactions
      BY <1>1 DEF Transactions, Pcs
    <2>3. f \in FdEntries /\ f.ref = e.ref + 1
          /\ f.state = IF e.ref = 0 THEN "INUSE" ELSE e.state
      <3>1. CASE e.ref = 0
        <4>1. f = [ref |-> 1, state |-> "INUSE"]
          BY <1>2, <3>1 DEF FdEntries, picotm_shared_ref16_obj_up
        <4> QED  BY <3>1, <4>1 DEF FdEntries
      <3>2. CASE e.ref # 0
        <4>1. f = [ref |-> e.ref + 1, state |-> e.state] /\ e.ref + 1 \in Nat
          BY <1>2, <3>2 DEF FdEntries, picotm_shared_ref16_obj_up
        <4> QED  BY <1>2, <3>2, <4>1 DEF FdEntries
      <3> QED  BY <3>1, <3>2
    <2> HIDE DEF y, f
    <2>4. Moves(t, y) /\ tx'[t] = y /\ \A u \in Threads \ {t} : tx'[u] = tx[u]
      <3>1. Moves(t, y)
        BY <2>1, <2>2 DEF Moves
      <3> QED  BY <3>1, MoveIsLocal DEF TablesInv
    <2>5. /\ fdtab' \in Seq(FdEntries) /\ Len(fdtab') = Len(tab) /\ fdtab'[x.d + 1] = f
          /\ \A i \in 1 .. Len(tab) : i # x.d + 1 => fdtab'[i] = tab[i]
      BY <1>1, <1>2, <2>1, <2>3
    <2>6. STTypeOK'
      BY <2>4, <2>5, MoveIsLocal DEF TablesInv, STTypeOK
    <2>7. \A u \in Threads : PlaceFits(tx[u])'
      <3>1. PlaceFits(y)
        <4>1. ~x.ready /\ x.file = NoFile /\ x.table = "file" /\ x.lock = "none" /\ ~x.error
              /\ x.entry["file"] = 0 /\ x.entry["buffer"] = 0 /\ x.op \in Operations
          BY <1>1 DEF PlaceFits, WalkPcs
        <4> QED  BY <1>1, <2>2, <4>1 DEF PlaceFits, WalkPcs, LockPcs
      <3>2. \A u \in Threads : PlaceFits(tx'[u])
        BY <2>4, <3>1 DEF TablesInv
      <3> QED  BY <3>2 DEF PlaceFits
    <2>8. y.lock = "none" /\ ~x.fd /\ x.file = NoFile
      BY <1>1, <2>2 DEF PlaceFits, WalkPcs
    <2>9. WritersAreAlone'
      <3>1. Excludes(t, y)
        BY <2>8 DEF Excludes
      <3> QED  BY <2>4, <3>1, WritersKeep DEF TablesInv
    <2>10. FdsCount'
      <3>0. PICK c : c = x.d
        OBVIOUS
      <3>1. \A d : d # c => FdUsers(d)' = FdUsers(d)
        BY <2>2, <2>4, <2>8, <3>0 DEF FdUsers
      <3>2. /\ FdUsers(c)' = FdUsers(c) \cup {t} /\ t \notin FdUsers(c)
            /\ FdUsers(c) \in SUBSET Threads
        BY <2>2, <2>4, <2>8, <3>0 DEF FdUsers
      <3>3. Cardinality(FdUsers(c)') = Cardinality(FdUsers(c)) + 1
        BY <3>2, ThreadSets
      <3>4. ASSUME NEW d \in 0 .. Len(tab) - 1
            PROVE  /\ tab[d + 1].ref = Cardinality(FdUsers(d))
                   /\ tab[d + 1].ref = 0 => tab[d + 1] = fd_init
                   /\ tab[d + 1].ref # 0 => tab[d + 1].state # "UNUSED"
        <4>1. CASE d < Len(fdtab)
          <5>1. d \in 0 .. Len(fdtab) - 1 /\ tab[d + 1] = fdtab[d + 1]
            BY <1>1, <4>1
          <5> QED  BY <5>1 DEF TablesInv, FdsCount
        <4>2. CASE ~(d < Len(fdtab))
          <5>1. tab[d + 1] = fd_init
            BY <1>1, <4>2
          <5>2. FdUsers(d) = {}
            BY <4>2 DEF FdUsers, TablesInv, FdsCount
          <5>3. Cardinality(FdUsers(d)) = 0
            BY <5>2, ThreadSets
          <5> QED  BY <5>1, <5>3 DEF fd_init
        <4> QED  BY <4>1, <4>2
      <3>5. ASSUME NEW d \in 0 .. Len(fdtab') - 1
            PROVE  /\ fdtab'[d + 1].ref = Cardinality(FdUsers(d)')
                   /\ fdtab'[d + 1].ref = 0 => fdtab'[d + 1] = fd_init
                   /\ fdtab'[d + 1].ref # 0 => fdtab'[d + 1].state # "UNUSED"
        <4>1. d \in 0 .. Len(tab) - 1 /\ d \in Nat
          BY <1>1, <2>5
        <4>2. CASE d # x.d
          <5>1. fdtab'[d + 1] = tab[d + 1]
            BY <1>1, <2>5, <4>1, <4>2
          <5> QED  BY <3>0, <3>1, <3>4, <4>1, <4>2, <5>1
        <4>3. CASE d = x.d
          <5>1. e.ref = Cardinality(FdUsers(d)) /\ (e.ref # 0 => e.state # "UNUSED") /\ e.ref \in Nat
            BY <1>2, <3>4, <4>1, <4>3 DEF FdEntries
          <5>2. fdtab'[d + 1] = f /\ Cardinality(FdUsers(d)') = e.ref + 1
            BY <2>5, <3>0, <3>3, <4>3, <5>1
          <5>3. f.ref = Cardinality(FdUsers(d)') /\ f.ref # 0 /\ f.state # "UNUSED"
            BY <2>3, <5>1, <5>2
          <5> QED  BY <5>2, <5>3
        <4> QED  BY <4>2, <4>3
      <3>6. ASSUME NEW u \in Threads, tx'[u].fd
            PROVE  tx'[u].d < Len(fdtab')
        <4>1. CASE u = t
          BY <2>2, <2>4, <2>5, <4>1
        <4>2. CASE u # t
          <5>1. tx'[u] = tx[u] /\ tx[u].d < Len(fdtab)
            BY <2>4, <3>6, <4>2 DEF TablesInv, FdsCount
          <5>2. tx[u].d \in Nat
            BY <3>6, <5>1, NotIdle, TablesAssumption DEF TablesInv
          <5> QED  BY <1>1, <2>5, <5>1, <5>2
        <4> QED  BY <4>1, <4>2
      <3> QED  BY <3>5, <3>6 DEF FdsCount
    <2>11. ASSUME NEW d \in Descriptors PROVE Closing(d)' <=> Closing(d)
      <3>1. d \in Nat
        BY TablesAssumption
      <3>2. CASE d = x.d
        <4>1. f.state # "CLOSING"
          BY <1>4, <2>3
        <4>2. ~Closing(d)
          BY <1>1, <1>4, <3>2 DEF Closing
        <4> QED  BY <2>5, <3>2, <4>1, <4>2 DEF Closing
      <3>3. CASE d # x.d /\ d < Len(fdtab)
        <4>1. d + 1 \in 1 .. Len(tab) /\ d + 1 # x.d + 1 /\ d + 1 <= Len(fdtab)
          BY <1>1, <3>1, <3>3
        <4>2. fdtab'[d + 1] = fdtab[d + 1] /\ d < Len(fdtab')
          BY <1>1, <2>5, <3>1, <4>1
        <4> QED  BY <3>3, <4>2 DEF Closing
      <3>4. CASE d # x.d /\ ~(d < Len(fdtab))
        <4>1. d < Len(tab) => fdtab'[d + 1] = fd_init
          BY <1>1, <2>5, <3>1, <3>4
        <4> QED  BY <2>5, <3>4, <4>1 DEF Closing, fd_init
      <3> QED  BY <3>2, <3>3, <3>4
    <2>12. DescriptorsFit'
      BY <2>2, <2>4, <2>8, <2>11, DescriptorsKeep DEF TablesInv
    <2>13. PromisesFit'
      <3>1. Opening(y) <=> Opening(x)
        BY <2>2 DEF Opening
      <3> QED  BY <2>2, <2>4, <2>11, <3>1, PromisesKeep DEF TablesInv
    <2>14. EntriesCount'
      BY <2>2, <2>4, EntriesKeep, SameKernel DEF TablesInv
    <2>15. EntriesDiffer' /\ \A u \in Threads : SearchFits(tx[u])'
      <3>1. SearchFits(y)
        BY <2>8 DEF SearchFits
      <3> QED  BY <2>4, <3>1, TableKeeps, SameKernel DEF TablesInv
    <2> QED  BY <2>6, <2>7, <2>9, <2>10, <2>12, <2>13, <2>14, <2>15 DEF TablesInv
  <1> QED  BY <1>3, <1>4

LEMMA FdFindFits ==
    ASSUME TablesInv, NEW t \in Threads, fdtab_find_by_id(t)
    PROVE  TablesInv'
  <1> DEFINE x == tx[t]  y == [x EXCEPT !.pc = "fd_search"]
  <1>1. /\ x \in Transactions /\ PlaceFits(x) /\ x.pc = "fd_find" /\ fdtab \in Seq(FdEntries)
        /\ UNCHANGED <<kernel, table, promised>>
    BY DEF TablesInv, STTypeOK, fdtab_find_by_id
  <1>2. CASE Len(fdtab) > x.d /\ fd_ref_or_set_up(t, fdtab)
    <2>1. x.d \in Nat /\ Len(fdtab) \in Nat
      <3>1. x.d \in Descriptors
        BY <1>1, NotIdle
      <3>2. x.d \in Nat
        BY <3>1, TablesAssumption
      <3> QED  BY <1>1, <3>2
    <2> QED  BY <1>1, <1>2, <2>1, FdRefFits
  <1>3. CASE tx' = [tx EXCEPT ![t] = y] /\ fdtab' = fdtab
    <2>1. /\ y.fd = x.fd /\ y.d = x.d /\ y.op = x.op /\ y.entry = x.entry
          /\ y.file = x.file /\ y.table = x.table /\ y.lock = x.lock /\ y.error = x.error
          /\ y.pc = "fd_search" /\ y.ready = x.ready /\ y \in Transactions
      BY <1>1 DEF Transactions, Pcs
    <2> HIDE DEF y
    <2>2. y.lock = "none" /\ Moves(t, y)
      BY <1>1, <1>3, <2>1 DEF PlaceFits, WalkPcs, Moves
    <2>3. Excludes(t, y) /\ SearchFits(y) /\ (Opening(y) <=> Opening(x))
      BY <1>1, <2>1, <2>2 DEF Excludes, SearchFits, Opening
    <2>4. PlaceFits(y)
      BY <1>1, <2>1, <2>2 DEF PlaceFits, LockPcs, WalkPcs
    <2> QED  BY <1>1, <1>3, <2>1, <2>2, <2>3, <2>4, QuietStep
  <1> QED  BY <1>2, <1>3 DEF fdtab_find_by_id, Set

LEMMA FdSearchFits ==
    ASSUME TablesInv, NEW t \in Threads, fdtab_search_by_id(t)
    PROVE  TablesInv'
  <1> DEFINE x == tx[t]
             n == IF Len(fdtab) > x.d THEN Len(fdtab) ELSE x.d + 1
             tab == [i \in 1 .. n |-> IF i <= Len(fdtab) THEN fdtab[i] ELSE fd_init]
  <1>1. /\ x \in Transactions /\ PlaceFits(x) /\ x.pc = "fd_search" /\ fdtab \in Seq(FdEntries)
        /\ UNCHANGED <<kernel, table, promised>> /\ fd_ref_or_set_up(t, tab)
    BY DEF TablesInv, STTypeOK, fdtab_search_by_id
  <1>2. x.d \in Nat /\ Len(fdtab) \in Nat
    <2>1. x.d \in Descriptors
      BY <1>1, NotIdle
    <2>2. x.d \in Nat
      BY <2>1, TablesAssumption
    <2> QED  BY <1>1, <2>2
  <1>3. n \in Nat /\ x.d < n /\ Len(fdtab) <= n /\ (x.d < Len(fdtab) => n = Len(fdtab))
    BY <1>2
  <1> HIDE DEF n
  <1>4. tab \in Seq(FdEntries) /\ Len(tab) = n
    <2>1. fd_init \in FdEntries
      BY DEF fd_init, FdEntries
    <2>2. \A i \in 1 .. n : (IF i <= Len(fdtab) THEN fdtab[i] ELSE fd_init) \in FdEntries
      BY <1>1, <1>2, <2>1
    <2> QED  BY <1>3, <2>2
  <1>5. \A i \in 1 .. Len(tab) : tab[i] = IF i <= Len(fdtab) THEN fdtab[i] ELSE fd_init
    BY <1>4
  <1>6. x.d < Len(fdtab) => tab = fdtab
    BY <1>1, <1>2, <1>3
  <1> HIDE DEF tab
  <1> QED  BY <1>1, <1>3, <1>4, <1>5, <1>6, FdRefFits

(* The fd of thread t counts one user less.                                *)
LEMMA FdDownFits ==
    ASSUME TablesInv, NEW t \in Threads, NEW y, Moves(t, y), tx[t].fd, ~y.fd,
           NEW c, c = tx[t].d, NEW e, e = fdtab[c + 1],
           fdtab' = [fdtab EXCEPT ![c + 1] =
                        picotm_shared_ref16_obj_down(e, [e EXCEPT !.state = "UNUSED"])]
    PROVE  /\ fdtab' \in Seq(FdEntries) /\ FdsCount'
           /\ e.ref = 1 => FdUsers(c) = {t}
           /\ \A d \in Descriptors : d # c \/ e.ref # 1 => (Closing(d)' <=> Closing(d))
           /\ e.ref = 1 => ~Closing(c)'
           /\ c \in Descriptors /\ (e.state = "CLOSING" <=> Closing(c))
  <1> DEFINE f == picotm_shared_ref16_obj_down(e, [e EXCEPT !.state = "UNUSED"])
  <1>1. t \in Threads /\ tx'[t] = y /\ (\A u \in Threads \ {t} : tx'[u] = tx[u])
    BY MoveIsLocal DEF TablesInv
  <1>2. c \in Nat /\ c \in Descriptors /\ c < Len(fdtab) /\ fdtab \in Seq(FdEntries)
    <2>1. c \in Descriptors
      BY NotIdle DEF TablesInv
    <2>2. c \in Nat
      BY <2>1, TablesAssumption
    <2> QED  BY <2>1, <2>2 DEF TablesInv, STTypeOK, FdsCount
  <1>3. Len(fdtab) \in Nat
    BY <1>2
  <1>4. c \in 0 .. Len(fdtab) - 1 /\ c + 1 \in 1 .. Len(fdtab) /\ e \in FdEntries
    BY <1>2, <1>3
  <1>5. t \in FdUsers(c) /\ FdUsers(c) \in SUBSET Threads /\ FdUsers(c)' = FdUsers(c) \ {t}
    BY <1>1 DEF FdUsers
  <1>6. e.ref = Cardinality(FdUsers(c)) /\ e.ref # 0 /\ e.state # "UNUSED"
        /\ Cardinality(FdUsers(c)') = e.ref - 1
    BY <1>4, <1>5, ThreadSets DEF TablesInv, FdsCount
  <1>7. e.ref = 1 => f = fd_init
    <2>1. SUFFICES ASSUME e.ref = 1 PROVE f = fd_init
      OBVIOUS
    <2>2. f = [ref |-> 0, state |-> "UNUSED"]
      BY <1>4, <2>1 DEF FdEntries, picotm_shared_ref16_obj_down
    <2> QED  BY <2>2 DEF fd_init
  <1>8. e.ref # 1 => f = [ref |-> e.ref - 1, state |-> e.state] /\ e.ref - 1 \in Nat /\ e.ref - 1 # 0
    <2>1. SUFFICES ASSUME e.ref # 1 PROVE f = [ref |-> e.ref - 1, state |-> e.state] /\ e.ref - 1 \in Nat /\ e.ref - 1 # 0
      OBVIOUS
    <2>2. f = [e EXCEPT !.ref = e.ref - 1]
      BY <2>1 DEF picotm_shared_ref16_obj_down
    <2>3. e.ref - 1 \in Nat /\ e.ref - 1 # 0
      BY <1>4, <1>6, <2>1 DEF FdEntries
    <2> QED  BY <1>4, <2>2, <2>3 DEF FdEntries
  <1>9. f \in FdEntries /\ f.ref = e.ref - 1 /\ (f.ref = 0 => f = fd_init) /\ (f.ref # 0 => f.state = e.state)
    <2>1. CASE e.ref = 1
      BY <1>7, <2>1 DEF fd_init, FdEntries
    <2>2. CASE e.ref # 1
      BY <1>4, <1>8, <2>2 DEF FdEntries
    <2> QED  BY <2>1, <2>2
  <1> HIDE DEF f
  <1>10. /\ fdtab' \in Seq(FdEntries) /\ Len(fdtab') = Len(fdtab) /\ fdtab'[c + 1] = f
         /\ \A i \in 1 .. Len(fdtab) : i # c + 1 => fdtab'[i] = fdtab[i]
    <2>1. fdtab' = [fdtab EXCEPT ![c + 1] = f]
      BY DEF f
    <2> QED  BY <1>2, <1>4, <1>9, <2>1
  <1>11. FdsCount'
    <2>1. \A d : d # c => FdUsers(d)' = FdUsers(d)
      BY <1>1 DEF FdUsers
    <2>2. ASSUME NEW d \in 0 .. Len(fdtab') - 1
          PROVE  /\ fdtab'[d + 1].ref = Cardinality(FdUsers(d)')
                 /\ fdtab'[d + 1].ref = 0 => fdtab'[d + 1] = fd_init
                 /\ fdtab'[d + 1].ref # 0 => fdtab'[d + 1].state # "UNUSED"
      <3>1. d \in 0 .. Len(fdtab) - 1 /\ d \in Nat
        BY <1>3, <1>10
      <3>2. CASE d # c
        <4>1. fdtab'[d + 1] = fdtab[d + 1]
          BY <1>2, <1>3, <1>10, <3>1, <3>2
        <4> QED  BY <2>1, <3>1, <3>2, <4>1 DEF TablesInv, FdsCount
      <3>3. CASE d = c
        BY <1>6, <1>9, <1>10, <3>3
      <3> QED  BY <3>2, <3>3
    <2>3. ASSUME NEW u \in Threads, tx'[u].fd
          PROVE  tx'[u].d < Len(fdtab')
      <3>1. u # t /\ tx'[u] = tx[u]
        BY <1>1, <2>3
      <3> QED  BY <1>10, <2>3, <3>1 DEF TablesInv, FdsCount
    <2> QED  BY <2>2, <2>3 DEF FdsCount
  <1>12. e.ref = 1 => FdUsers(c) = {t}
    <2> SUFFICES ASSUME e.ref = 1 PROVE FdUsers(c) \ {t} = {}
      BY <1>5
    <2>1. FdUsers(c) \ {t} \in SUBSET Threads /\ Cardinality(FdUsers(c) \ {t}) = 0
      BY <1>5, <1>6
    <2> QED  BY <2>1, ThreadSets
  <1>13. \A d \in Descriptors : d # c \/ e.ref # 1 => (Closing(d)' <=> Closing(d))
    <2> SUFFICES ASSUME NEW d \in Descriptors, d # c \/ e.ref # 1
                 PROVE  Closing(d)' <=> Closing(d)
      OBVIOUS
    <2>1. d \in Nat
      BY TablesAssumption
    <2>2. CASE ~(d < Len(fdtab))
      BY <1>10, <2>2 DEF Closing
    <2>3. CASE d < Len(fdtab) /\ d # c
      <3>1. d + 1 \in 1 .. Len(fdtab) /\ d + 1 # c + 1
        BY <1>2, <1>3, <2>1, <2>3
      <3> QED  BY <1>10, <3>1 DEF Closing
    <2>4. CASE d = c /\ e.ref # 1
      <3>1. f.state = e.state
        BY <1>8, <2>4
      <3> QED  BY <1>10, <2>4, <3>1 DEF Closing
    <2> QED  BY <2>2, <2>3, <2>4
  <1>14. e.ref = 1 => ~Closing(c)'
    <2> SUFFICES ASSUME e.ref = 1 PROVE ~Closing(c)'
      OBVIOUS
    <2>1. fdtab'[c + 1].state = "UNUSED"
      BY <1>7, <1>10 DEF fd_init
    <2> QED  BY <2>1 DEF Closing
  <1>15. e.state = "CLOSING" <=> Closing(c)
    BY <1>2 DEF Closing
  <1> QED  BY <1>2, <1>10, <1>11, <1>12, <1>13, <1>14, <1>15

(* The end of transaction t closes its descriptor.                         *)
LEMMA CloseFits ==
    ASSUME TablesInv, NEW t \in Threads, tx' = [tx EXCEPT ![t] = Idle],
           NEW c \in Descriptors, c = tx[t].d, kernel' = [kernel EXCEPT ![c] = NoFile],
           UNCHANGED <<table, promised>>, fdtab' \in Seq(FdEntries), FdsCount',
           Alone(c), c \notin promised, ~Closing(c)',
           \A d \in Descriptors \ {c} : Closing(d)' <=> Closing(d),
           \A u \in Threads \ {t} : ~(tx[u].fd /\ tx[u].d = c),
           tx[t].entry["file"] = 0, tx[t].entry["buffer"] = 0
    PROVE  TablesInv'
  <1>1. Moves(t, Idle) /\ tx'[t] = Idle /\ \A u \in Threads \ {t} : tx'[u] = tx[u]
    <2>1. Moves(t, Idle)
      BY IdleIsAtRest DEF Moves
    <2> QED  BY <2>1, MoveIsLocal DEF TablesInv
  <1>2. kernel'[c] = NoFile /\ \A d \in Descriptors \ {c} : kernel'[d] = kernel[d]
    BY DEF TablesInv, STTypeOK
  <1>3. STTypeOK'
    BY <1>1, MoveIsLocal DEF TablesInv, STTypeOK
  <1>4. \A u \in Threads : PlaceFits(tx[u])'
    <2>1. PlaceFits(Idle)
      BY IdleIsAtRest DEF PlaceFits, WalkPcs, LockPcs, Tables
    <2>2. \A u \in Threads : PlaceFits(tx'[u])
      BY <1>1, <2>1 DEF TablesInv
    <2> QED  BY <2>2 DEF PlaceFits
  <1>5. WritersAreAlone'
    <2>1. Excludes(t, Idle)
      BY IdleIsAtRest DEF Excludes
    <2> QED  BY <1>1, <2>1, WritersKeep DEF TablesInv
  <1>6. \A d \in Descriptors : Alone(d) /\ d # c => Alone(d)'
    BY <1>2 DEF Alone
  <1>7. \A u \in Threads : tx[u].op = "open" /\ u # t => tx[u].d # c /\ tx[u].d \in Descriptors
    BY NotIdle DEF TablesInv, DescriptorsFit
  <1>8. DescriptorsFit'
    <2>1. ASSUME NEW u \in Threads, tx'[u].fd, tx'[u].file # NoFile
          PROVE  kernel'[tx'[u].d] = tx'[u].file
      <3>1. u # t /\ tx'[u] = tx[u]
        BY <1>1, <2>1, IdleIsAtRest
      <3>2. tx[u].d \in Descriptors
        BY <2>1, <3>1, NotIdle DEF TablesInv
      <3>3. tx[u].d # c
        BY <2>1, <3>1
      <3> QED  BY <1>2, <2>1, <3>1, <3>2, <3>3 DEF TablesInv, DescriptorsFit
    <2>2. ASSUME NEW d \in Descriptors, Closing(d)'
          PROVE  Alone(d)'
      <3>1. d # c /\ Closing(d)
        BY <2>2
      <3> QED  BY <1>6, <3>1 DEF TablesInv, DescriptorsFit
    <2>3. ASSUME NEW u \in Threads, tx'[u].op = "open"
          PROVE  Alone(tx[u].d)' /\ \A v \in Threads \ {u} : tx'[v].d # tx'[u].d
      <3>1. u # t /\ tx'[u] = tx[u]
        BY <1>1, <2>3, IdleIsAtRest
      <3>2. /\ tx[u].d # c /\ tx[u].d \in Descriptors /\ tx[u].d # Empty /\ Alone(tx[u].d)
            /\ \A v \in Threads \ {u} : tx[v].d # tx[u].d
        BY <1>7, <2>3, <3>1, NotIdle DEF TablesInv, DescriptorsFit
      <3>3. Alone(tx[u].d)'
        BY <1>2, <3>1, <3>2 DEF Alone
      <3>4. \A v \in Threads \ {u} : tx'[v].d # tx'[u].d
        BY <1>1, <3>1, <3>2, IdleIsAtRest
      <3> QED  BY <3>3, <3>4
    <2> QED  BY <2>1, <2>2, <2>3 DEF DescriptorsFit
  <1>9. PromisesFit'
    <2>1. ~Opening(Idle)
      BY IdleIsAtRest DEF Opening
    <2>2. \A u \in Threads : Opening(tx[u])' = Opening(tx'[u])
      BY DEF Opening
    <2>3. ASSUME NEW u \in Threads, Opening(tx'[u]) PROVE ~Closing(tx[u].d)'
      <3>1. u # t /\ tx'[u] = tx[u]
        BY <1>1, <2>1, <2>3
      <3>2. tx[u].op = "open" /\ ~Closing(tx[u].d)
        BY <2>3, <3>1 DEF Opening, TablesInv, PromisesFit
      <3>3. tx[u].d \in Descriptors \ {c}
        BY <1>7, <3>1, <3>2
      <3>4. PICK d \in Descriptors \ {c} : d = tx[u].d /\ d = tx'[u].d
        BY <3>1, <3>3
      <3>5. ~Closing(d)'
        BY <3>2, <3>4
      <3> QED  BY <3>4, <3>5 DEF Closing
    <2>4. ASSUME NEW d \in Descriptors
          PROVE  d \in promised' <=>
                    /\ kernel'[d] # NoFile /\ ~Closing(d)'
                    /\ \A u \in Threads : ~(Opening(tx'[u]) /\ tx'[u].d = d)
      <3>1. CASE d = c
        BY <1>2, <3>1
      <3>2. CASE d # c
        <4>1. (\A u \in Threads : ~(Opening(tx'[u]) /\ tx'[u].d = d))
              <=> (\A u \in Threads : ~(Opening(tx[u]) /\ tx[u].d = d))
          BY <1>1, <2>1, <3>2
        <4> QED  BY <1>2, <3>2, <4>1 DEF TablesInv, PromisesFit
      <3> QED  BY <3>1, <3>2
    <2> QED  BY <2>2, <2>3, <2>4 DEF PromisesFit
  <1>10. IdsKeep
    <2> SUFFICES ASSUME NEW i \in 1 .. Len(table["file"]), table["file"][i].id = c
                 PROVE  FALSE
      <3> SUFFICES ASSUME NEW i \in 1 .. Len(table["file"]), table["file"][i].id # Empty
                   PROVE  kernel'[table["file"][i].id] = kernel[table["file"][i].id]
        BY DEF IdsKeep
      <3>1. table["file"][i].id \in Descriptors
        BY DEF TablesInv, EntriesCount, Tables
      <3> QED  BY <1>2, <3>1
    <2>1. c # Empty
      BY TablesAssumption DEF Empty
    <2>2. i # 0 /\ "file" \in Tables
      BY DEF Tables
    <2>3. PICK u \in Threads : tx[u].entry["file"] = i
      <3>1. Cardinality(Users("file", i)) # 0
        BY <2>1, <2>2 DEF TablesInv, EntriesCount
      <3>2. Users("file", i) \in SUBSET Threads
        BY DEF Users
      <3>3. Users("file", i) # {}
        BY <3>1, <3>2, ThreadSets
      <3> QED  BY <3>3 DEF Users
    <2>4. Meaning("file", c) = Object("file", tx[u])
      BY <2>2, <2>3 DEF TablesInv, EntriesCount
    <2>5. tx[u].fd /\ tx[u].file # NoFile /\ tx[u].d \in Descriptors
      BY <2>2, <2>3, NotIdle DEF TablesInv, PlaceFits
    <2>6. kernel[tx[u].d] = kernel[c]
      BY <2>4, <2>5 DEF TablesInv, DescriptorsFit, Meaning, Object
    <2>7. tx[u].d = c
      BY <2>5, <2>6 DEF Alone
    <2> QED  BY <2>2, <2>3, <2>5, <2>7
  <1>11. EntriesCount'
    <2>1. Idle.entry = tx[t].entry
      <3>1. tx[t].entry \in [Tables -> Nat]
        BY DEF TablesInv, STTypeOK, Transactions
      <3>2. \A k \in Tables : tx[t].entry[k] = 0
        BY Zenon DEF Tables
      <3>3. tx[t].entry = [k \in Tables |-> 0]
        BY <3>1, <3>2
      <3> QED  BY Zenon, <3>3 DEF Idle
    <2>2. \A k \in Tables : Idle.entry[k] = 0
      BY IdleIsAtRest
    <2> QED  BY <1>1, <1>10, <2>1, <2>2, EntriesKeep DEF TablesInv
  <1>12. EntriesDiffer' /\ \A u \in Threads : SearchFits(tx[u])'
    <2>1. SearchFits(Idle)
      BY IdleIsAtRest DEF SearchFits
    <2> QED  BY <1>1, <1>10, <2>1, TableKeeps DEF TablesInv
  <1> QED  BY <1>3, <1>4, <1>5, <1>8, <1>9, <1>11, <1>12 DEF TablesInv

LEMMA FdUnrefFits ==
    ASSUME TablesInv, NEW t \in Threads, fd_unref(t)
    PROVE  TablesInv'
  <1> DEFINE x == tx[t]  y == AfterFd(x)
  <1>1. PICK c : c = x.d
    OBVIOUS
  <1>2. PICK e : e = fdtab[c + 1]
    OBVIOUS
  <1>3. /\ x \in Transactions /\ PlaceFits(x) /\ x.pc = "unwind" /\ x.fd
        /\ x.entry["file"] = 0 /\ x.entry["buffer"] = 0 /\ UNCHANGED <<table, promised>>
        /\ fdtab' = [fdtab EXCEPT ![c + 1] = picotm_shared_ref16_obj_down(e, [e EXCEPT !.state = "UNUSED"])]
        /\ tx' = [tx EXCEPT ![t] = y]
    BY <1>1, <1>2 DEF TablesInv, STTypeOK, fd_unref, Set
  <1>4. \/ x.op = "open" /\ ~x.ready /\ y = [x EXCEPT !.pc = "close", !.fd = FALSE]
        \/ ~(x.op = "open" /\ ~x.ready) /\ y = Idle
    BY DEF AfterFd
  <1>5. y \in Transactions /\ ~y.fd /\ y.lock = "none" /\ (y.d = x.d \/ y.d = Empty)
    <2>1. CASE y = Idle
      BY <2>1, IdleIsAtRest
    <2>2. CASE y = [x EXCEPT !.pc = "close", !.fd = FALSE]
      <3>1. x.lock = "none"
        BY <1>3 DEF PlaceFits, WalkPcs
      <3> QED  BY <1>3, <2>2, <3>1 DEF Transactions, Pcs
    <2> QED  BY <1>4, <2>1, <2>2
  <1>6. Moves(t, y) /\ tx'[t] = y /\ \A u \in Threads \ {t} : tx'[u] = tx[u]
    <2>1. Moves(t, y)
      BY <1>3, <1>5 DEF Moves
    <2> QED  BY <2>1, MoveIsLocal DEF TablesInv
  <1> HIDE DEF y
  <1>7. /\ fdtab' \in Seq(FdEntries) /\ FdsCount'
        /\ e.ref = 1 => FdUsers(c) = {t}
        /\ \A d \in Descriptors : d # c \/ e.ref # 1 => (Closing(d)' <=> Closing(d))
        /\ e.ref = 1 => ~Closing(c)'
        /\ c \in Descriptors /\ (e.state = "CLOSING" <=> Closing(c))
    BY <1>1, <1>2, <1>3, <1>5, <1>6, FdDownFits
  <1>8. CASE e.ref = 1 /\ e.state = "CLOSING"
    <2>1. Closing(c) /\ Alone(c) /\ c \notin promised
      BY <1>7, <1>8 DEF TablesInv, DescriptorsFit, PromisesFit
    <2>2. kernel' = [kernel EXCEPT ![c] = NoFile]
      BY <1>1, <1>2, <1>8 DEF fd_unref
    <2>3. y = Idle
      <3>1. Opening(x) => ~Closing(c)
        BY <1>1 DEF TablesInv, PromisesFit
      <3> QED  BY <1>4, <2>1, <3>1 DEF Opening
    <2>4. \A u \in Threads \ {t} : ~(tx[u].fd /\ tx[u].d = c)
      BY <1>7, <1>8 DEF FdUsers
    <2> QED  BY <1>1, <1>3, <1>7, <1>8, <2>1, <2>2, <2>3, <2>4, CloseFits
  <1>9. CASE ~(e.ref = 1 /\ e.state = "CLOSING")
    <2>1. kernel' = kernel
      BY <1>1, <1>2, <1>9 DEF fd_unref
    <2>2. \A d \in Descriptors : Closing(d)' <=> Closing(d)
      BY <1>7, <1>9
    <2>3. STTypeOK'
      BY <1>3, <1>6, <1>7, <2>1, MoveIsLocal DEF TablesInv, STTypeOK
    <2>4. \A u \in Threads : PlaceFits(tx[u])'
      <3>1. PlaceFits(y)
        <4>1. CASE y = Idle
          BY <4>1, IdleIsAtRest DEF PlaceFits, WalkPcs, LockPcs, Tables
        <4>2. CASE x.op = "open" /\ ~x.ready /\ y = [x EXCEPT !.pc = "close", !.fd = FALSE]
          <5>1. /\ y.pc = "close" /\ ~y.fd /\ y.op = "open" /\ ~y.ready /\ y.d = x.d /\ y.error = x.error
                /\ y.entry = x.entry /\ y.file = x.file /\ y.table = x.table /\ y.lock = x.lock
            BY <1>3, <4>2 DEF Transactions
          <5> QED  BY <1>3, <5>1, <4>2 DEF PlaceFits, WalkPcs, LockPcs
        <4> QED  BY <1>4, <4>1, <4>2
      <3>2. \A u \in Threads : PlaceFits(tx'[u])
        BY <1>6, <3>1 DEF TablesInv
      <3> QED  BY <3>2 DEF PlaceFits
    <2>5. WritersAreAlone'
      <3>1. Excludes(t, y)
        BY <1>5 DEF Excludes
      <3> QED  BY <1>6, <3>1, WritersKeep DEF TablesInv
    <2>6. (y.op = "open" => x.op = "open" /\ y.d = x.d) /\ (Opening(y) <=> Opening(x)) /\ (Opening(y) => y.d = x.d)
      <3>1. CASE x.op = "open" /\ ~x.ready /\ y = [x EXCEPT !.pc = "close", !.fd = FALSE]
        <4>1. y.pc = "close" /\ y.op = "open" /\ ~y.ready /\ y.d = x.d
          BY <1>3, <3>1 DEF Transactions
        <4> QED  BY <3>1, <4>1 DEF Opening
      <3>2. CASE ~(x.op = "open" /\ ~x.ready) /\ y = Idle
        BY <1>3, <3>2, IdleIsAtRest DEF Opening
      <3> QED  BY <1>4, <3>1, <3>2
    <2>7. DescriptorsFit'
      BY <1>5, <1>6, <2>1, <2>2, <2>6, DescriptorsKeep DEF TablesInv
    <2>8. PromisesFit'
      BY <1>3, <1>6, <2>1, <2>2, <2>6, PromisesKeep DEF TablesInv
    <2>9. y.entry = x.entry /\ \A k \in Tables : y.entry[k] = 0
      <3>1. x.entry = [k \in Tables |-> 0]
        BY <1>3 DEF Transactions, Tables
      <3>2. y.entry = x.entry
        <4>1. CASE y = Idle
          BY <3>1, <4>1, IdleIsAtRest
        <4>2. CASE y = [x EXCEPT !.pc = "close", !.fd = FALSE]
          BY <1>3, <4>2 DEF Transactions
        <4> QED  BY <1>4, <4>1, <4>2
      <3> QED  BY <3>1, <3>2
    <2>10. EntriesCount'
      BY <1>3, <1>6, <2>1, <2>9, EntriesKeep, SameKernel DEF TablesInv
    <2>11. EntriesDiffer' /\ \A u \in Threads : SearchFits(tx[u])'
      <3>1. SearchFits(y)
        BY <1>5 DEF SearchFits
      <3> QED  BY <1>3, <1>6, <2>1, <3>1, TableKeeps, SameKernel DEF TablesInv
    <2> QED  BY <1>7, <2>3, <2>4, <2>5, <2>7, <2>8, <2>10, <2>11 DEF TablesInv
  <1> QED  BY <1>8, <1>9

(* A transaction that comes to rest without a reference.                   *)
LEMMA NoFdFits ==
    ASSUME TablesInv, NEW t \in Threads, NoFd(t)
    PROVE  TablesInv'
  <1> DEFINE x == tx[t]  y == AfterFd(x)
  <1>1. /\ x \in Transactions /\ PlaceFits(x) /\ x.pc = "unwind" /\ ~x.fd
        /\ UNCHANGED <<kernel, fdtab, table, promised>> /\ tx' = [tx EXCEPT ![t] = y]
    BY DEF TablesInv, STTypeOK, NoFd, Set
  <1>2. x.entry["file"] = 0 /\ x.entry["buffer"] = 0 /\ x.lock = "none"
    BY <1>1 DEF PlaceFits, WalkPcs
  <1>3. \/ x.op = "open" /\ ~x.ready /\ y = [x EXCEPT !.pc = "close", !.fd = FALSE]
        \/ ~(x.op = "open" /\ ~x.ready) /\ y = Idle
    BY DEF AfterFd
  <1>4. /\ y \in Transactions /\ ~y.fd /\ y.lock = "none" /\ (y.d = x.d \/ y.d = Empty)
        /\ y.op = "open" => x.op = "open" /\ y.d = x.d
        /\ Opening(y) <=> Opening(x)
        /\ Opening(y) => y.d = x.d
        /\ y.entry = x.entry /\ PlaceFits(y) /\ \A k \in Tables : y.entry[k] = 0
    <2>0. x.entry = [k \in Tables |-> 0]
      BY <1>1, <1>2 DEF Transactions, Tables
    <2>1. CASE x.op = "open" /\ ~x.ready /\ y = [x EXCEPT !.pc = "close", !.fd = FALSE]
      <3>1. /\ y.pc = "close" /\ ~y.fd /\ y.op = "open" /\ ~y.ready /\ y.d = x.d /\ y.error = x.error
            /\ y.entry = x.entry /\ y.file = x.file /\ y.table = x.table /\ y.lock = x.lock
            /\ y \in Transactions
        BY <1>1, <2>1 DEF Transactions, Pcs
      <3>2. PlaceFits(y)
        BY <1>1, <1>2, <2>1, <3>1 DEF PlaceFits, WalkPcs, LockPcs
      <3>3. Opening(y) /\ Opening(x)
        BY <2>1, <3>1 DEF Opening
      <3> QED  BY <1>2, <2>0, <2>1, <3>1, <3>2, <3>3
    <2>2. CASE ~(x.op = "open" /\ ~x.ready) /\ y = Idle
      <3>1. PlaceFits(Idle)
        BY IdleIsAtRest DEF PlaceFits, WalkPcs, LockPcs, Tables
      <3>2. ~Opening(Idle) /\ ~Opening(x)
        BY <1>1, <2>2, IdleIsAtRest DEF Opening
      <3> QED  BY <2>0, <2>2, <3>1, <3>2, IdleIsAtRest
    <2> QED  BY <1>3, <2>1, <2>2
  <1> HIDE DEF y
  <1>5. Moves(t, y) /\ tx'[t] = y /\ \A u \in Threads \ {t} : tx'[u] = tx[u]
    <2>1. Moves(t, y)
      BY <1>1, <1>4 DEF Moves
    <2> QED  BY <2>1, MoveIsLocal DEF TablesInv
  <1>6. \A d \in Descriptors : Closing(d)' <=> Closing(d)
    BY <1>1 DEF Closing
  <1>7. STTypeOK'
    BY <1>1, <1>5, MoveIsLocal DEF TablesInv, STTypeOK
  <1>8. \A u \in Threads : PlaceFits(tx[u])'
    <2>1. \A u \in Threads : PlaceFits(tx'[u])
      BY <1>4, <1>5 DEF TablesInv
    <2> QED  BY <2>1 DEF PlaceFits
  <1>9. WritersAreAlone'
    <2>1. Excludes(t, y)
      BY <1>4 DEF Excludes
    <2> QED  BY <1>5, <2>1, WritersKeep DEF TablesInv
  <1>10. FdsCount'
    <2>1. y.fd = x.fd
      BY <1>1, <1>4 DEF Transactions
    <2> QED  BY <1>1, <1>4, <1>5, <2>1, FdsKeep DEF TablesInv
  <1>11. DescriptorsFit'
    BY <1>1, <1>4, <1>5, <1>6, DescriptorsKeep DEF TablesInv
  <1>12. PromisesFit'
    BY <1>1, <1>4, <1>5, <1>6, PromisesKeep DEF TablesInv
  <1>13. EntriesCount'
    BY <1>1, <1>4, <1>5, EntriesKeep, SameKernel DEF TablesInv
  <1>14. EntriesDiffer' /\ \A u \in Threads : SearchFits(tx[u])'
    <2>1. SearchFits(y)
      BY <1>4 DEF SearchFits
    <2> QED  BY <1>1, <1>5, <2>1, TableKeeps, SameKernel DEF TablesInv
  <1> QED  BY <1>7, <1>8, <1>9, <1>10, <1>11, <1>12, <1>13, <1>14 DEF TablesInv

LEMMA CloseNewFits ==
    ASSUME TablesInv, NEW t \in Threads, CloseNew(t)
    PROVE  TablesInv'
  <1> DEFINE x == tx[t]
  <1>1. PICK c : c = x.d
    OBVIOUS
  <1>2. /\ x \in Transactions /\ PlaceFits(x) /\ x.pc = "close" /\ tx' = [tx EXCEPT ![t] = Idle]
        /\ UNCHANGED <<fdtab, table, promised>> /\ kernel' = [kernel EXCEPT ![c] = NoFile]
    BY <1>1 DEF TablesInv, STTypeOK, CloseNew, Set
  <1>3. x.op = "open" /\ ~x.fd /\ ~x.ready /\ x.entry["file"] = 0 /\ x.entry["buffer"] = 0 /\ c \in Descriptors
    BY <1>1, <1>2, NotIdle DEF PlaceFits
  <1>4. Moves(t, Idle)
    BY <1>2, IdleIsAtRest DEF Moves
  <1>5. FdsCount'
    BY <1>2, <1>3, <1>4, IdleIsAtRest, FdsKeep DEF TablesInv, Transactions
  <1>6. Opening(x)
    BY <1>2, <1>3 DEF Opening
  <1>7. Alone(c) /\ ~Closing(c) /\ c \notin promised /\ \A u \in Threads \ {t} : tx[u].d # c
    BY <1>1, <1>3, <1>6 DEF TablesInv, DescriptorsFit, PromisesFit
  <1>8. \A d \in Descriptors : Closing(d)' <=> Closing(d)
    BY <1>2 DEF Closing
  <1>9. fdtab' \in Seq(FdEntries)
    BY <1>2 DEF TablesInv, STTypeOK
  <1> QED  BY <1>1, <1>2, <1>3, <1>5, <1>7, <1>8, <1>9, CloseFits

-----------------------------------------------------------------------------
(* The program.                                                            *)

LEMMA StartIsPlaced ==
    ASSUME NEW op \in Operations, NEW d \in Descriptors, NEW t, NEW y, y = Start(t, op, d)
    PROVE  /\ y \in Transactions /\ PlaceFits(y) /\ SearchFits(y) /\ y.fd = FALSE /\ y.file = NoFile
           /\ y.lock = "none" /\ y.entry = [k \in Tables |-> 0] /\ y.op = op /\ y.d = d
           /\ Opening(y) <=> op = "open"
  <1>1. y = [Idle EXCEPT !.op = op, !.d = d, !.pc = "fd_find"]
    BY DEF Start
  <1>2. /\ y \in Transactions /\ y.fd = FALSE /\ y.file = NoFile /\ y.lock = "none"
        /\ y.entry = [k \in Tables |-> 0] /\ y.op = op /\ y.d = d /\ y.pc = "fd_find"
        /\ y.error = FALSE /\ y.ready = FALSE /\ y.table = "file"
    <2>1. y = [pc |-> "fd_find", op |-> op, d |-> d, file |-> NoFile, table |-> "file",
               lock |-> "none", i |-> 0, error |-> FALSE, entry |-> [k \in Tables |-> 0],
               fd |-> FALSE, rw |-> "none", ready |-> FALSE]
      BY <1>1 DEF Idle
    <2>2. [k \in Tables |-> 0] \in [Tables -> Nat]
      OBVIOUS
    <2>3. y \in Transactions
      BY <2>1, <2>2 DEF Transactions, Pcs, Tables
    <2> QED  BY <2>1, <2>3
  <1>3. y.entry["file"] = 0 /\ y.entry["buffer"] = 0
    BY <1>2 DEF Tables
  <1>4. PlaceFits(y)
    BY <1>2, <1>3 DEF PlaceFits, WalkPcs, LockPcs
  <1> QED  BY <1>2, <1>4 DEF SearchFits, Opening

(* A transaction starts; its open(), if it is one, has opened descriptor d.*)
LEMMA StartFits ==
    ASSUME TablesInv, NEW t \in Threads, tx[t] = Idle, NEW op \in Operations, NEW d \in Descriptors,
           tx' = [tx EXCEPT ![t] = Start(t, op, d)], UNCHANGED <<fdtab, table, promised>>,
           kernel' \in [Descriptors -> Files \cup {NoFile}],
           \A c \in Descriptors \ {d} : kernel'[c] = kernel[c],
           kernel[d] = NoFile \/ kernel' = kernel,
           op = "open" =>
               /\ kernel[d] = NoFile /\ kernel'[d] # NoFile
               /\ \A c \in Descriptors : kernel[c] # kernel'[d]
               /\ \A u \in Threads : tx[u].d # d,
           op # "open" => kernel' = kernel,
           \A u \in Threads : ~(tx[u].d = d /\ tx[u].op = "open")
    PROVE  TablesInv'
  <1> DEFINE y == Start(t, op, d)
  <1>1. /\ y \in Transactions /\ PlaceFits(y) /\ SearchFits(y) /\ y.fd = FALSE /\ y.file = NoFile
        /\ y.lock = "none" /\ y.entry = [k \in Tables |-> 0] /\ y.op = op /\ y.d = d
        /\ Opening(y) <=> op = "open"
    BY StartIsPlaced
  <1> HIDE DEF y
  <1>2. Moves(t, y) /\ tx'[t] = y /\ \A u \in Threads \ {t} : tx'[u] = tx[u]
    <2>1. Moves(t, y)
      BY <1>1 DEF Moves, y
    <2> QED  BY <2>1, MoveIsLocal DEF TablesInv
  <1>3. STTypeOK'
    BY <1>2, MoveIsLocal DEF TablesInv, STTypeOK
  <1>4. \A u \in Threads : PlaceFits(tx[u])'
    <2>1. \A u \in Threads : PlaceFits(tx'[u])
      BY <1>1, <1>2 DEF TablesInv
    <2> QED  BY <2>1 DEF PlaceFits
  <1>5. WritersAreAlone'
    <2>1. Excludes(t, y)
      BY <1>1 DEF Excludes
    <2> QED  BY <1>2, <2>1, WritersKeep DEF TablesInv
  <1>6. FdsCount'
    BY <1>1, <1>2, IdleIsAtRest, FdsKeep DEF TablesInv
  <1>7. \A c \in Descriptors : Closing(c)' <=> Closing(c)
    BY DEF Closing
  <1>8. \A c \in Descriptors : kernel[c] # NoFile => kernel'[c] = kernel[c]
    OBVIOUS
  <1>9. ASSUME NEW c \in Descriptors, Alone(c) PROVE Alone(c)'
    <2>1. CASE kernel' = kernel
      BY <1>9, <2>1 DEF Alone
    <2>2. CASE op = "open"
      <3>1. c # d
        BY <1>9, <2>2 DEF Alone
      <3>2. kernel'[c] = kernel[c] /\ kernel'[c] # NoFile
        BY <1>9, <3>1 DEF Alone
      <3>3. ASSUME NEW b \in Descriptors \ {c} PROVE kernel'[b] # kernel'[c]
        <4>1. CASE b = d
          BY <2>2, <3>2, <4>1
        <4>2. CASE b # d
          BY <1>9, <3>2, <4>2 DEF Alone
        <4> QED  BY <4>1, <4>2
      <3> QED  BY <3>2, <3>3 DEF Alone
    <2> QED  BY <2>1, <2>2
  <1>10. DescriptorsFit'
    <2>1. ASSUME NEW u \in Threads, tx'[u].fd, tx'[u].file # NoFile
          PROVE  kernel'[tx'[u].d] = tx'[u].file
      <3>1. u # t /\ tx'[u] = tx[u]
        BY <1>1, <1>2, <2>1
      <3>2. kernel[tx[u].d] = tx[u].file /\ tx[u].d \in Descriptors
        BY <2>1, <3>1, NotIdle DEF TablesInv, DescriptorsFit
      <3> QED  BY <1>8, <2>1, <3>1, <3>2
    <2>2. \A c \in Descriptors : Closing(c)' => Alone(c)'
      BY <1>7, <1>9 DEF TablesInv, DescriptorsFit
    <2>3. ASSUME NEW u \in Threads, tx'[u].op = "open"
          PROVE  Alone(tx[u].d)' /\ \A v \in Threads \ {u} : tx'[v].d # tx'[u].d
      <3>1. CASE u = t
        <4>1. op = "open" /\ tx'[u].d = d
          BY <1>1, <1>2, <2>3, <3>1
        <4>2. Alone(tx[u].d)'
          BY <4>1 DEF Alone
        <4> QED  BY <1>2, <3>1, <4>1, <4>2
      <3>2. CASE u # t
        <4>1. /\ tx'[u] = tx[u] /\ tx[u].op = "open" /\ tx[u].d \in Descriptors /\ Alone(tx[u].d)
              /\ \A v \in Threads \ {u} : tx[v].d # tx[u].d
          BY <1>2, <2>3, <3>2, NotIdle DEF TablesInv, DescriptorsFit
        <4>2. tx[u].d # d
          BY <4>1
        <4>3. PICK c \in Descriptors : c = tx[u].d
          BY <4>1
        <4>4. Alone(c)'
          BY <1>9, <4>1, <4>3
        <4>5. Alone(tx[u].d)'
          BY <4>1, <4>3, <4>4 DEF Alone
        <4>6. \A v \in Threads \ {u} : tx'[v].d # tx'[u].d
          BY <1>1, <1>2, <4>1, <4>2
        <4> QED  BY <4>5, <4>6
      <3> QED  BY <3>1, <3>2
    <2> QED  BY <2>1, <2>2, <2>3 DEF DescriptorsFit
  <1>11. PromisesFit'
    <2>1. \A u \in Threads : Opening(tx[u])' = Opening(tx'[u])
      BY DEF Opening
    <2>2. op = "open" => ~Closing(d) /\ d \notin promised
      BY DEF TablesInv, PromisesFit, DescriptorsFit, Alone
    <2>3. ASSUME NEW u \in Threads, Opening(tx'[u]) PROVE ~Closing(tx[u].d)'
      <3>1. CASE u = t
        <4>1. op = "open" /\ tx'[u].d = d
          BY <1>1, <1>2, <2>3, <3>1
        <4> QED  BY <1>7, <2>2, <4>1 DEF Closing
      <3>2. CASE u # t
        <4>1. tx'[u] = tx[u] /\ ~Closing(tx[u].d)
          BY <1>2, <2>3, <3>2 DEF TablesInv, PromisesFit
        <4> QED  BY <4>1 DEF Closing
      <3> QED  BY <3>1, <3>2
    <2>4. ASSUME NEW c \in Descriptors
          PROVE  c \in promised' <=>
                    /\ kernel'[c] # NoFile /\ ~Closing(c)'
                    /\ \A u \in Threads : ~(Opening(tx'[u]) /\ tx'[u].d = c)
      <3>0. ~Opening(Idle)
        BY IdleIsAtRest DEF Opening
      <3>1. CASE op = "open" /\ c = d
        BY <1>1, <1>2, <2>2, <3>1
      <3>2. CASE ~(op = "open" /\ c = d)
        <4>1. (\A u \in Threads : ~(Opening(tx'[u]) /\ tx'[u].d = c))
              <=> (\A u \in Threads : ~(Opening(tx[u]) /\ tx[u].d = c))
          BY <1>1, <1>2, <3>0, <3>2
        <4>2. kernel'[c] = kernel[c]
          BY <3>2
        <4> QED  BY <1>7, <4>1, <4>2 DEF TablesInv, PromisesFit
      <3> QED  BY <3>1, <3>2
    <2> QED  BY <2>1, <2>3, <2>4 DEF PromisesFit
  <1>12. IdsKeep
    <2> SUFFICES ASSUME NEW i \in 1 .. Len(table["file"]), table["file"][i].id # Empty
                 PROVE  kernel'[table["file"][i].id] = kernel[table["file"][i].id]
      BY DEF IdsKeep
    <2>1. table["file"][i].id \in Descriptors /\ kernel[table["file"][i].id] # NoFile
      BY DEF TablesInv, EntriesCount, Tables
    <2> QED  BY <1>8, <2>1
  <1>13. EntriesCount'
    BY <1>1, <1>2, <1>12, IdleIsAtRest, EntriesKeep DEF TablesInv
  <1>14. EntriesDiffer' /\ \A u \in Threads : SearchFits(tx[u])'
    BY <1>1, <1>2, <1>12, TableKeeps DEF TablesInv
  <1> QED  BY <1>3, <1>4, <1>5, <1>6, <1>10, <1>11, <1>13, <1>14 DEF TablesInv

LEMMA UseFits ==
    ASSUME TablesInv, NEW t \in Threads, NEW op \in {"use", "record", "close"}, NEW d \in Descriptors,
           fildes_tx_use(t, op, d)
    PROVE  TablesInv'
  <1>1. /\ tx[t] = Idle /\ tx' = [tx EXCEPT ![t] = Start(t, op, d)] /\ UNCHANGED <<kernel, fdtab, table, promised>>
        /\ op # "open" /\ op \in Operations
        /\ \A u \in Threads : ~(tx[u].d = d /\ tx[u].op = "open")
    BY DEF fildes_tx_use, Set, Operations
  <1>2. kernel' \in [Descriptors -> Files \cup {NoFile}]
    BY <1>1 DEF TablesInv, STTypeOK
  <1> QED  BY <1>1, <1>2, StartFits

LEMMA OpenFits ==
    ASSUME TablesInv, NEW t \in Threads, NEW d \in Descriptors, NEW f \in Files,
           fildes_tx_exec_open(t, d, f)
    PROVE  TablesInv'
  <1>1. /\ tx[t] = Idle /\ tx' = [tx EXCEPT ![t] = Start(t, "open", d)] /\ UNCHANGED <<fdtab, table, promised>>
        /\ kernel[d] = NoFile /\ (\A c \in Descriptors : kernel[c] # f)
        /\ kernel' = [kernel EXCEPT ![d] = f] /\ "open" \in Operations
        /\ \A u \in Threads : tx[u].op # "open" /\ tx[u].d # d
    BY DEF fildes_tx_exec_open, Set, Operations
  <1>2. kernel \in [Descriptors -> Files \cup {NoFile}] /\ f # NoFile
    BY TablesAssumption DEF TablesInv, STTypeOK
  <1>3. kernel' \in [Descriptors -> Files \cup {NoFile}] /\ kernel'[d] = f
        /\ \A c \in Descriptors \ {d} : kernel'[c] = kernel[c]
    BY <1>1, <1>2
  <1> QED  BY <1>1, <1>2, <1>3, StartFits

-----------------------------------------------------------------------------
(* The specification.                                                      *)

LEMMA TablesStart ==
    ASSUME SOInit
    PROVE  TablesInv
  <1>1. /\ kernel = OpenAtStart /\ fdtab = << >> /\ table = [k \in Tables |-> << >>]
        /\ tx = [t \in Threads |-> Idle] /\ promised = {d \in Descriptors : OpenAtStart[d] # NoFile}
    BY DEF SOInit, STInit
  <1>2. \A t \in Threads : tx[t] = Idle
    BY <1>1
  <1>3. Len(fdtab) = 0 /\ \A k \in Tables : Len(table[k]) = 0
    BY <1>1
  <1>4. STTypeOK
    <2>1. tx \in [Threads -> Transactions]
      BY <1>1, IdleIsAtRest
    <2>2. fdtab \in Seq(FdEntries) /\ table \in [Tables -> Seq(Entries)]
      BY <1>1
    <2> QED  BY <1>1, <2>1, <2>2, TablesAssumption DEF STTypeOK
  <1>5. PlaceFits(Idle) /\ SearchFits(Idle) /\ ~Opening(Idle)
    BY IdleIsAtRest DEF PlaceFits, SearchFits, Opening, WalkPcs, LockPcs, Tables
  <1>6. WritersAreAlone
    BY <1>2, IdleIsAtRest DEF WritersAreAlone
  <1>7. FdsCount
    BY <1>2, <1>3, IdleIsAtRest DEF FdsCount
  <1>8. \A d \in Descriptors : ~Closing(d)
    <2>1. \A d \in Descriptors : d \in Nat
      BY TablesAssumption
    <2> QED  BY <1>3, <2>1 DEF Closing
  <1>9. DescriptorsFit
    BY <1>2, <1>8, IdleIsAtRest DEF DescriptorsFit
  <1>10. PromisesFit
    BY <1>1, <1>2, <1>5, <1>8 DEF PromisesFit
  <1>11. EntriesCount
    <2>1. \A k \in Tables : Len(table[k]) <= Size[k]
      BY <1>3, TablesAssumption
    <2> QED  BY <1>2, <1>3, <2>1, IdleIsAtRest DEF EntriesCount
  <1>12. EntriesDiffer
    BY <1>3 DEF EntriesDiffer
  <1> QED  BY <1>2, <1>4, <1>5, <1>6, <1>7, <1>9, <1>10, <1>11, <1>12 DEF TablesInv

LEMMA TablesRest ==
    ASSUME TablesInv, UNCHANGED stVars
    PROVE  TablesInv'
  <1>1. UNCHANGED <<kernel, fdtab, table, tx, promised>>
    BY DEF stVars
  <1>2. STTypeOK' /\ WritersAreAlone'
    BY <1>1 DEF TablesInv, STTypeOK, WritersAreAlone
  <1>3. \A t \in Threads : PlaceFits(tx[t])'
    BY <1>1 DEF TablesInv, PlaceFits
  <1>4. \A t \in Threads : SearchFits(tx[t])'
    BY <1>1 DEF TablesInv, SearchFits, Passed, Meaning, Object
  <1>5. FdsCount'
    BY <1>1 DEF TablesInv, FdsCount, FdUsers
  <1>6. DescriptorsFit'
    BY <1>1 DEF TablesInv, DescriptorsFit, Closing, Alone
  <1>7. PromisesFit'
    BY <1>1 DEF TablesInv, PromisesFit, Closing, Opening
  <1>8. EntriesCount'
    BY <1>1 DEF TablesInv, EntriesCount, Users, Meaning, Object
  <1>9. EntriesDiffer'
    BY <1>1 DEF TablesInv, EntriesDiffer, Meaning
  <1> QED  BY <1>2, <1>3, <1>4, <1>5, <1>6, <1>7, <1>8, <1>9 DEF TablesInv

LEMMA TablesStep ==
    ASSUME TablesInv, Risks = {}, [SONext]_soVars
    PROVE  TablesInv'
  <1>1. CASE UNCHANGED soVars
    BY <1>1, TablesRest DEF soVars
  <1>2. ASSUME NEW t \in Threads, Program(t) PROVE TablesInv'
    BY <1>2, UseFits, OpenFits DEF Program
  <1>3. ASSUME NEW t \in Threads, References(t) PROVE TablesInv'
    BY <1>3, FdFindFits, FdSearchFits, StatFits, RdlockFits, WrlockFits, FindByIdFits, SearchByIdFits,
       AppendFits DEF References
  <1>4. ASSUME NEW t \in Threads, Uses(t) PROVE TablesInv'
    BY <1>4, LockFits, PageFoundFits, CommitFits, RollBackFits DEF Uses
  <1>5. ASSUME NEW t \in Threads, Finishes(t) PROVE TablesInv'
    <2>1. ASSUME unref_buffer(t) PROVE TablesInv'
      BY <2>1, UnrefFits DEF unref_buffer, Tables
    <2>2. ASSUME unref_file(t) PROVE TablesInv'
      BY <2>2, UnrefFits DEF unref_file, Tables
    <2> QED  BY <1>5, <2>1, <2>2, FdUnrefFits, NoFdFits, CloseNewFits DEF Finishes
  <1>6. ASSUME NEW t \in Threads, LooksUp(t) PROVE TablesInv'
    BY <1>6, TablesRest DEF LooksUp
  <1>7. ASSUME NEW t \in Threads, KeepsData(t) PROVE TablesInv'
    BY <1>7, TablesRest DEF KeepsData
  <1> QED  BY <1>1, <1>2, <1>3, <1>4, <1>5, <1>6, <1>7 DEF SONext

(* The references of all tables are counted, whatever the threads do: the  *)
(* inductive invariant of the look-ups in fdtab.c, filetab.c and           *)
(* filebuftab.c and of the references of their entries.                    *)
THEOREM TablesInvariant ==
    ASSUME Risks = {}
    PROVE  SOSpec => []TablesInv
  <1>1. SOInit => TablesInv
    BY TablesStart
  <1>2. TablesInv /\ [SONext]_soVars => TablesInv'
    BY TablesStep
  <1> QED  BY <1>1, <1>2, PTL DEF SOSpec

LEMMA UsersMeet ==
    ASSUME TablesInv
    PROVE  UsersOfAFileMeet
  <1>1. ASSUME NEW t \in Threads, NEW k \in Tables, Has(t, k)
        PROVE  LET i == tx[t].entry[k]
               IN  /\ i \in 1 .. Len(table[k]) /\ table[k][i].id # Empty
                   /\ Meaning(k, table[k][i].id) = Object(k, tx[t])
    <2> DEFINE i == tx[t].entry[k]
    <2>1. i \in Nat /\ i # 0 /\ Len(table[k]) \in Nat
      BY <1>1 DEF TablesInv, STTypeOK, Transactions, Has
    <2>2. i <= Len(table[k]) /\ Meaning(k, table[k][i].id) = Object(k, tx[t])
      BY <2>1 DEF TablesInv, EntriesCount
    <2>3. i \in 1 .. Len(table[k])
      BY <2>1, <2>2
    <2>4. t \in Users(k, i) /\ Users(k, i) \in SUBSET Threads
      BY DEF Users
    <2>5. Cardinality(Users(k, i)) # 0
      BY <2>4, ThreadSets
    <2>6. table[k][i].id # Empty
      BY <2>3, <2>5 DEF TablesInv, EntriesCount
    <2> QED  BY <2>2, <2>3, <2>6
  <1>2. ASSUME NEW t \in Threads, NEW u \in Threads, NEW k \in Tables, Has(t, k), Has(u, k)
        PROVE  Object(k, tx[t]) = Object(k, tx[u]) <=> tx[t].entry[k] = tx[u].entry[k]
    <2> DEFINE i == tx[t].entry[k]  j == tx[u].entry[k]
    <2>1. i \in 1 .. Len(table[k]) /\ table[k][i].id # Empty /\ Meaning(k, table[k][i].id) = Object(k, tx[t])
      BY <1>1, <1>2
    <2>2. j \in 1 .. Len(table[k]) /\ table[k][j].id # Empty /\ Meaning(k, table[k][j].id) = Object(k, tx[u])
      BY <1>1, <1>2
    <2> HIDE DEF i, j
    <2>3. i # j => Meaning(k, table[k][i].id) # Meaning(k, table[k][j].id)
      BY <2>1, <2>2 DEF TablesInv, EntriesDiffer
    <2>4. Object(k, tx[t]) = Object(k, tx[u]) <=> i = j
      BY <2>1, <2>2, <2>3
    <2> QED  BY <2>4 DEF i, j
  <1>3. ASSUME NEW t \in Threads, NEW u \in Threads, Has(t, "file"), Has(u, "file")
        PROVE  tx[t].file = tx[u].file <=> tx[t].entry["file"] = tx[u].entry["file"]
    BY <1>2, <1>3 DEF Object, Tables
  <1>4. ASSUME NEW t \in Threads, NEW u \in Threads, Has(t, "buffer"), Has(u, "buffer")
        PROVE  Inode[tx[t].file] = Inode[tx[u].file] <=> tx[t].entry["buffer"] = tx[u].entry["buffer"]
    BY <1>2, <1>4 DEF Object, Tables
  <1>5. ASSUME NEW t \in Threads, Has(t, "file")
        PROVE  /\ table["file"][tx[t].entry["file"]].id # Empty
               /\ kernel[table["file"][tx[t].entry["file"]].id] = tx[t].file
    BY <1>1, <1>5 DEF Object, Meaning, Tables
  <1>6. ASSUME NEW t \in Threads, Has(t, "buffer")
        PROVE  table["buffer"][tx[t].entry["buffer"]].id = Inode[tx[t].file]
    BY <1>1, <1>6 DEF Object, Meaning, Tables
  <1> QED  BY <1>3, <1>4, <1>5, <1>6 DEF UsersOfAFileMeet

LEMMA DescriptorsLast ==
    ASSUME TablesInv
    PROVE  DescriptorOutlivesItsUsers
  <1>1. \A t \in Threads : tx[t].fd /\ tx[t].file # NoFile => kernel[tx[t].d] = tx[t].file
    BY DEF TablesInv, DescriptorsFit
  <1>2. ASSUME \A t \in Threads : tx[t].pc = "idle"
        PROVE  /\ promised = {d \in Descriptors : kernel[d] # NoFile}
               /\ \A i \in 1 .. Len(fdtab) : fdtab[i] = fd_init
               /\ \A k \in Tables : \A i \in 1 .. Len(table[k]) : table[k][i] = [ref |-> 0, id |-> Empty]
    <2>1. \A t \in Threads : tx[t] = Idle
      BY <1>2 DEF TablesInv, PlaceFits
    <2>2. fdtab \in Seq(FdEntries) /\ table \in [Tables -> Seq(Entries)] /\ Len(fdtab) \in Nat
      BY DEF TablesInv, STTypeOK
    <2>3. ASSUME NEW d \in 0 .. Len(fdtab) - 1 PROVE fdtab[d + 1] = fd_init
      <3>1. FdUsers(d) = {}
        BY <2>1, IdleIsAtRest DEF FdUsers
      <3>2. Cardinality(FdUsers(d)) = 0
        BY <3>1, ThreadSets
      <3> QED  BY <3>2 DEF TablesInv, FdsCount
    <2>4. ASSUME NEW i \in 1 .. Len(fdtab) PROVE fdtab[i] = fd_init
      <3>1. i - 1 \in 0 .. Len(fdtab) - 1 /\ (i - 1) + 1 = i
        BY <2>2
      <3> QED  BY <2>3, <3>1
    <2>5. ASSUME NEW k \in Tables, NEW i \in 1 .. Len(table[k])
          PROVE  table[k][i] = [ref |-> 0, id |-> Empty]
      <3>1. Users(k, i) = {}
        BY <2>1, IdleIsAtRest DEF Users
      <3>2. Cardinality(Users(k, i)) = 0
        BY <3>1, ThreadSets
      <3>3. table[k][i].ref = 0 /\ table[k][i].id = Empty
        BY <3>2 DEF TablesInv, EntriesCount
      <3>4. table[k][i] \in Entries
        BY <2>2
      <3> QED  BY <3>3, <3>4 DEF Entries
    <2>6. ASSUME NEW d \in Descriptors PROVE d \in promised <=> kernel[d] # NoFile
      <3>1. d \in Nat
        BY TablesAssumption
      <3>2. ~Closing(d)
        <4>1. d < Len(fdtab) => fdtab[d + 1] = fd_init
          BY <2>2, <2>3, <3>1
        <4> QED  BY <4>1 DEF Closing, fd_init
      <3>3. ~Opening(Idle)
        BY IdleIsAtRest DEF Opening
      <3> QED  BY <2>1, <3>2, <3>3 DEF TablesInv, PromisesFit
    <2>7. promised \subseteq Descriptors
      BY DEF TablesInv, STTypeOK
    <2>8. promised = {d \in Descriptors : kernel[d] # NoFile}
      BY <2>6, <2>7
    <2> QED  BY <2>4, <2>5, <2>8
  <1> QED  BY <1>1, <1>2 DEF DescriptorOutlivesItsUsers

(* Transactions that use the same open file meet at one entry of the table *)
(* of files, and those that use the same inode at one buffer, whoever has  *)
(* created, released and recycled entries in the meantime.                 *)
THEOREM FileUsersMeet ==
    ASSUME Risks = {}
    PROVE  SOSpec => []UsersOfAFileMeet
  <1>1. TablesInv => UsersOfAFileMeet
    BY UsersMeet
  <1> QED  BY <1>1, TablesInvariant, PTL

(* A descriptor stays open for the same file until its last user has       *)
(* finished; when all have, the open descriptors are those that committed  *)
(* transactions have left open, and no entry is in use.                    *)
THEOREM DescriptorOutlives ==
    ASSUME Risks = {}
    PROVE  SOSpec => []DescriptorOutlivesItsUsers
  <1>1. TablesInv => DescriptorOutlivesItsUsers
    BY DescriptorsLast
  <1> QED  BY <1>1, TablesInvariant, PTL

-----------------------------------------------------------------------------
(* The inductive invariant of the trees.                                   *)

Values == Nodes \cup {Null}

(* The way of key k down map m, when the slots are s: Path, for any slots. *)
PathIn(s, m, k) ==
    LET path[d \in 0..Depth] ==
            IF d = Depth THEN s[<<m, 0>>]
            ELSE IF path[d + 1] = Null THEN Null ELSE s[<<path[d + 1], entry_index(k, d)>>]
    IN  path

Node(m, k, d) == PathIn(slot, m, k)[d]

PathNodes == {Node(m, k, d) : m \in Maps, k \in Keys, d \in 0 .. Depth} \ {Null}

(* Two keys take the same way from the root down to level d.               *)
Agree(k, l, d) == \A e \in d .. Depth - 1 : entry_index(k, e) = entry_index(l, e)

(* p is the slot for key k at level d of map m.                            *)
SlotOf(p, m, k, d) ==
    /\ d = Depth => p = <<m, 0>>
    /\ d # Depth => Node(m, k, d + 1) # Null /\ p = <<Node(m, k, d + 1), entry_index(k, d)>>

Phases == {"off", "load", "insert", "found", "no_memory"}

Walks == [phase : Phases, slot : (Maps \cup Nodes \cup {0}) \X Nat, depth : Nat,
          map : Nat, key : Nat, creates : BOOLEAN, node : Values]

TMTypeOK ==
    /\ slot \in [Slots -> Values]
    /\ live \subseteq Nodes
    /\ content \in [Nodes -> Nat]
    /\ walk \in [Threads -> Walks]

(* A thread on its way is at a slot of its key's path; the value that it   *)
(* has found is at the end of the path.                                    *)
WalkFits(w) ==
    /\ w.phase # "off" => w.map \in Maps /\ w.key \in Keys
    /\ w.phase \in {"load", "insert"} =>
          w.depth \in 0 .. Depth /\ SlotOf(w.slot, w.map, w.key, w.depth)
    /\ w.phase = "insert" => w.creates
    /\ w.phase = "load" => w.node = Null
    /\ w.phase = "found" =>
          /\ w.node # Null => w.node = Node(w.map, w.key, 0)
          /\ w.creates => w.node # Null

Inserting == {t \in Threads : walk[t].phase = "insert"}

(* A new node belongs to its thread alone, and is empty.                   *)
NewNodesFit ==
    \A t \in Inserting :
        LET n == walk[t].node
        IN  /\ n \in live /\ n \notin PathNodes /\ content[n] = 0
            /\ \A i \in Indices : slot[<<n, i>>] = Null
            /\ \A u \in Inserting \ {t} : walk[u].node # n

(* The allocated nodes are those on paths and the new ones.                *)
LiveFits ==
    /\ PathNodes \subseteq live
    /\ live \subseteq PathNodes \cup {walk[t].node : t \in Inserting}

(* Paths that meet have the same map, are at the same level and have been  *)
(* one path from the root.                                                 *)
PathsDiffer ==
    \A m, n \in Maps : \A k, l \in Keys : \A d, e \in 0 .. Depth :
        Node(m, k, d) # Null /\ Node(m, k, d) = Node(n, l, e) => m = n /\ d = e /\ Agree(k, l, d)

(* A slot of a directory on a path holds nothing but the path of a key.    *)
PathsFill ==
    \A m \in Maps : \A k \in Keys : \A d \in 0 .. Depth - 1 : \A i \in Indices :
        LET n == Node(m, k, d + 1)
        IN  n # Null /\ slot[<<n, i>>] # Null =>
                \E l \in Maps, j \in Keys : slot[<<n, i>>] = Node(l, j, d)

TreeInv ==
    /\ TMTypeOK
    /\ \A t \in Threads : WalkFits(walk[t])
    /\ NewNodesFit /\ LiveFits /\ PathsDiffer /\ PathsFill

(* Who walks: a transaction for the page of its record, or a call of the   *)
(* pointer data.                                                           *)
WalkerFits(x, w, c) ==
    /\ c # NoCall =>
          /\ x = Idle /\ w.phase # "off" /\ w.map = PointerMap /\ w.key \in Pointers
          /\ w.creates <=> c.op \in {"set", "test_and_set"}
    /\ c = NoCall /\ w.phase # "off" =>
          /\ x.pc \in {"record", "in_use"} /\ w.creates
          /\ w.map = x.entry["buffer"] /\ w.key \in Records
    /\ x.pc = "in_use" /\ w.phase # "off" => w.phase = "found"

WalkersFit == \A t \in Threads : WalkerFits(tx[t], walk[t], call[t])

PDTypeOK ==
    /\ call \in [Threads -> Calls \cup {NoCall}]
    /\ word \in [Pointers -> Nat]

(* A pointer's word is that of its value.                                  *)
WordsFit ==
    \A p \in Pointers :
        /\ Node(PointerMap, p, 0) = Null => word[p] = 0
        /\ Node(PointerMap, p, 0) # Null => word[p] = content[Node(PointerMap, p, 0)]

ObjectsInv == TablesInv /\ TreeInv /\ PDTypeOK /\ WalkersFit /\ WordsFit

-----------------------------------------------------------------------------
(* Induction over the numbers, by sets.                                    *)

LEMMA LowestOf ==
    ASSUME NEW S, S \subseteq Nat, S # {}
    PROVE  \E i \in S : \A j \in S : i <= j
  <1>1. PICK i \in S : \A j \in S : ~ (<<j, i>> \in OpToRel(<, Nat))
    BY NatLessThanWellFounded, WFMin
  <1>2. \A j \in S : i <= j
    <2> SUFFICES ASSUME NEW j \in S PROVE ~ (j < i)
      OBVIOUS
    <2>1. i \in Nat /\ j \in Nat
      OBVIOUS
    <2>2. <<j, i>> \in {ss \in Nat \X Nat : ss[1] < ss[2]} <=> j < i
      BY <2>1
    <2>3. OpToRel(<, Nat) = {ss \in Nat \X Nat : ss[1] < ss[2]}
      BY DEF OpToRel
    <2> QED  BY <1>1, <2>2, <2>3
  <1> QED  BY <1>2

LEMMA UpwardInduction ==
    ASSUME NEW S, S \subseteq Nat, 0 \in S, \A n \in S : n + 1 \in S
    PROVE  S = Nat
  <1> SUFFICES ASSUME Nat \ S # {} PROVE FALSE
    OBVIOUS
  <1> DEFINE T == Nat \ S
  <1>1. PICK i \in T : \A j \in T : i <= j
    BY LowestOf
  <1>2. i # 0 /\ i \in Nat
    BY <1>1
  <1>3. i - 1 \in Nat /\ ~ (i <= i - 1) /\ (i - 1) + 1 = i
    BY <1>2
  <1>4. i - 1 \in S
    BY <1>1, <1>3
  <1> QED  BY <1>1, <1>3, <1>4

LEMMA DownwardInduction ==
    ASSUME NEW n \in Nat, NEW S, S \subseteq 0 .. n, n \in S,
           \A d \in 0 .. n - 1 : d + 1 \in S => d \in S
    PROVE  S = 0 .. n
  <1> DEFINE T == {c \in Nat : c <= n => n - c \in S}
  <1>1. 0 \in T
    OBVIOUS
  <1>2. ASSUME NEW c \in T PROVE c + 1 \in T
    <2> SUFFICES ASSUME c + 1 <= n PROVE n - (c + 1) \in S
      OBVIOUS
    <2>1. n - (c + 1) \in 0 .. n - 1 /\ (n - (c + 1)) + 1 = n - c /\ c <= n
      OBVIOUS
    <2> QED  BY <2>1
  <1> HIDE DEF T
  <1>3. T = Nat
    <2>1. T \subseteq Nat
      BY DEF T
    <2> QED  BY <1>1, <1>2, <2>1, UpwardInduction
  <1>4. ASSUME NEW d \in 0 .. n PROVE d \in S
    <2>1. n - d \in Nat /\ n - d <= n /\ n - (n - d) = d
      OBVIOUS
    <2>2. n - d \in T
      BY <1>3, <2>1
    <2> QED  BY <2>1, <2>2 DEF T
  <1> QED  BY <1>4

(* A function is defined by its first value and the step to the next one.  *)
Steps(g, b, s) == g[0] = b /\ \A n \in Nat : g[n + 1] = s[<<g[n], n>>]

LEMMA RecursiveFunction ==
    ASSUME NEW V, NEW b \in V, NEW s \in [V \X Nat -> V]
    PROVE  \E g \in [Nat -> V] : Steps(g, b, s)
  <1> DEFINE Upto(f, n) == f[0] = b /\ \A i \in 0 .. n - 1 : f[i + 1] = s[<<f[i], i>>]
             T == {n \in Nat : \E f \in [Nat -> V] : Upto(f, n)}
  <1>1. 0 \in T
    <2>1. [i \in Nat |-> b] \in [Nat -> V] /\ Upto([i \in Nat |-> b], 0)
      OBVIOUS
    <2> QED  BY <2>1
  <1>2. ASSUME NEW n \in T PROVE n + 1 \in T
    <2>1. PICK f \in [Nat -> V] : Upto(f, n)
      OBVIOUS
    <2> DEFINE h == [f EXCEPT ![n + 1] = s[<<f[n], n>>]]
    <2>2. n \in Nat /\ n + 1 \in Nat /\ s[<<f[n], n>>] \in V
      OBVIOUS
    <2>3. h \in [Nat -> V] /\ h[n + 1] = s[<<f[n], n>>] /\ \A i \in Nat : i # n + 1 => h[i] = f[i]
      BY <2>2
    <2> HIDE DEF h
    <2>4. ASSUME NEW i \in 0 .. n PROVE h[i + 1] = s[<<h[i], i>>]
      <3>1. CASE i = n
        <4>1. h[i] = f[n]
          BY <2>2, <2>3, <3>1
        <4> QED  BY <2>3, <3>1, <4>1
      <3>2. CASE i # n
        <4>1. i \in 0 .. n - 1 /\ i + 1 # n + 1 /\ i # n + 1 /\ i + 1 \in Nat /\ i \in Nat
          BY <2>2, <3>2
        <4> QED  BY <2>1, <2>3, <4>1
      <3> QED  BY <3>1, <3>2
    <2>5. Upto(h, n + 1)
      <3>1. 0 # n + 1 /\ (n + 1) - 1 = n
        BY <2>2
      <3> QED  BY <2>1, <2>3, <2>4, <3>1
    <2> QED  BY <2>2, <2>3, <2>5
  <1> HIDE DEF T
  <1>3. T = Nat
    <2>1. T \subseteq Nat
      BY DEF T
    <2> QED  BY <1>1, <1>2, <2>1, UpwardInduction
  <1>4. ASSUME NEW f \in [Nat -> V], NEW h \in [Nat -> V], NEW n \in Nat, NEW m \in Nat,
               Upto(f, n), Upto(h, m), n <= m
        PROVE  \A i \in 0 .. n : f[i] = h[i]
    <2> DEFINE U == {i \in Nat : i <= n => f[i] = h[i]}
    <2>1. 0 \in U
      BY <1>4
    <2>2. ASSUME NEW i \in U PROVE i + 1 \in U
      <3> SUFFICES ASSUME i + 1 <= n PROVE f[i + 1] = h[i + 1]
        OBVIOUS
      <3>1. i \in 0 .. n - 1 /\ i \in 0 .. m - 1 /\ f[i] = h[i]
        BY <1>4
      <3> QED  BY <1>4, <3>1
    <2> HIDE DEF U
    <2>3. U = Nat
      <3>1. U \subseteq Nat
        BY DEF U
      <3> QED  BY <2>1, <2>2, <3>1, UpwardInduction
    <2> QED  BY <2>3 DEF U
  <1> DEFINE F(n) == CHOOSE f \in [Nat -> V] : Upto(f, n)
             g == [n \in Nat |-> F(n)[n]]
  <1>5. \A n \in Nat : F(n) \in [Nat -> V] /\ Upto(F(n), n)
    BY <1>3 DEF T
  <1> HIDE DEF F
  <1>6. g \in [Nat -> V]
    BY <1>5
  <1>7. g[0] = b
    BY <1>5
  <1>8. ASSUME NEW n \in Nat PROVE g[n + 1] = s[<<g[n], n>>]
    <2>1. n + 1 \in Nat /\ n \in 0 .. n /\ n \in 0 .. (n + 1) - 1 /\ n <= n + 1
      OBVIOUS
    <2>2. F(n + 1)[n] = F(n)[n]
      BY <1>4, <1>5, <2>1
    <2>3. F(n + 1)[n + 1] = s[<<F(n + 1)[n], n>>]
      BY <1>5, <2>1
    <2> QED  BY <2>1, <2>2, <2>3
  <1> HIDE DEF g
  <1> QED  BY <1>6, <1>7, <1>8 DEF Steps

-----------------------------------------------------------------------------
(* Powers, levels and entries.                                             *)

LEMMA PowerSteps ==
    /\ power \in [Nat -> Nat] /\ power[0] = 1
    /\ \A n \in Nat : power[n + 1] = 2 * power[n]
  <1> DEFINE s == [p \in Nat \X Nat |-> 2 * p[1]]
  <1>1. PICK g \in [Nat -> Nat] : Steps(g, 1, s)
    <2>1. s \in [Nat \X Nat -> Nat] /\ 1 \in Nat
      OBVIOUS
    <2> HIDE DEF s
    <2> QED  BY <2>1, RecursiveFunction
  <1>2. g[0] = 1 /\ \A n \in Nat : g[n + 1] = 2 * g[n]
    BY <1>1 DEF Steps
  <1>3. g = [n \in Nat |-> IF n = 0 THEN 1 ELSE 2 * g[n - 1]]
    <2> SUFFICES ASSUME NEW n \in Nat PROVE g[n] = IF n = 0 THEN 1 ELSE 2 * g[n - 1]
      OBVIOUS
    <2>1. n # 0 => n - 1 \in Nat /\ (n - 1) + 1 = n
      OBVIOUS
    <2> QED  BY <1>2, <2>1
  <1> DEFINE Eq(h) == h = [n \in Nat |-> IF n = 0 THEN 1 ELSE 2 * h[n - 1]]
  <1>4. power = CHOOSE h : Eq(h)
    BY Zenon DEF power
  <1>5. Eq(g)
    BY <1>3
  <1> HIDE DEF Eq
  <1>6. Eq(power)
    BY <1>4, <1>5
  <1>7. power = [n \in Nat |-> IF n = 0 THEN 1 ELSE 2 * power[n - 1]]
    BY <1>6 DEF Eq
  <1>8. power[0] = 1 /\ \A n \in Nat : power[n + 1] = 2 * power[n]
    <2>1. power[0] = 1
      BY <1>7
    <2>2. ASSUME NEW n \in Nat PROVE power[n + 1] = 2 * power[n]
      <3>1. n + 1 \in Nat /\ n + 1 # 0 /\ (n + 1) - 1 = n
        OBVIOUS
      <3> QED  BY <1>7, <3>1
    <2> QED  BY <2>1, <2>2
  <1>9. \A n \in Nat : power[n] \in Nat
    <2> DEFINE S == {n \in Nat : power[n] \in Nat}
    <2>1. 0 \in S /\ \A n \in S : n + 1 \in S /\ S \subseteq Nat
      BY <1>8
    <2>2. S \subseteq Nat
      OBVIOUS
    <2> HIDE DEF S
    <2>3. S = Nat
      BY <2>1, <2>2, UpwardInduction
    <2> QED  BY <2>3 DEF S
  <1> QED  BY <1>7, <1>8, <1>9

LEMMA PowerPositive == \A n \in Nat : power[n] \in Nat \ {0}
  <1> DEFINE S == {n \in Nat : power[n] \in Nat \ {0}}
  <1>1. 0 \in S /\ \A n \in S : n + 1 \in S
    BY PowerSteps
  <1>2. S \subseteq Nat
    OBVIOUS
  <1> HIDE DEF S
  <1>3. S = Nat
    BY <1>1, <1>2, UpwardInduction
  <1> QED  BY <1>3 DEF S

LEMMA PowerOfSum ==
    ASSUME NEW m \in Nat, NEW n \in Nat
    PROVE  power[m + n] = power[m] * power[n]
  <1> DEFINE S == {i \in Nat : power[m + i] = power[m] * power[i]}
  <1>1. 0 \in S
    BY PowerSteps
  <1>2. ASSUME NEW i \in S PROVE i + 1 \in S
    <2>1. m + (i + 1) = (m + i) + 1 /\ m + i \in Nat /\ i \in Nat
      OBVIOUS
    <2>2. power[m + (i + 1)] = 2 * (power[m] * power[i])
      BY <2>1, PowerSteps
    <2>3. power[i + 1] = 2 * power[i] /\ power[m] \in Nat /\ power[i] \in Nat
      BY <2>1, PowerSteps
    <2>4. 2 * (power[m] * power[i]) = power[m] * (2 * power[i])
      BY <2>3
    <2> QED  BY <2>2, <2>3, <2>4
  <1> HIDE DEF S
  <1>3. S = Nat
    <2>1. S \subseteq Nat
      BY DEF S
    <2> QED  BY <1>1, <1>2, <2>1, UpwardInduction
  <1> QED  BY <1>3 DEF S

LEMMA PowerGrows ==
    ASSUME NEW m \in Nat, NEW n \in Nat, m <= n
    PROVE  power[m] <= power[n]
  <1>1. n - m \in Nat /\ m + (n - m) = n
    OBVIOUS
  <1>2. power[n] = power[m] * power[n - m]
    BY <1>1, PowerOfSum
  <1>3. power[m] \in Nat /\ power[n - m] \in Nat \ {0}
    BY <1>1, PowerPositive
  <1>4. power[m] * 1 <= power[m] * power[n - m]
    BY <1>3
  <1> QED  BY <1>2, <1>3, <1>4

LEMMA Division ==
    ASSUME NEW a \in Nat, NEW b \in Nat \ {0}
    PROVE  /\ a \div b \in Nat /\ a % b \in 0 .. b - 1
           /\ a = (a \div b) * b + (a % b)
           /\ \A q \in Nat, r \in 0 .. b - 1 : a = q * b + r => q = a \div b
  <1>1. a \div b \in Nat /\ a % b \in 0 .. b - 1 /\ a = (a \div b) * b + (a % b)
    <2>1. a \div b \in Int /\ (a \div b) * b <= a /\ a < (a \div b) * b + b
      OBVIOUS
    <2>2. a \div b >= 0
      OBVIOUS
    <2>3. a % b \in 0 .. b - 1
      OBVIOUS
    <2>4. a = b * (a \div b) + (a % b)
      OBVIOUS
    <2>5. b * (a \div b) = (a \div b) * b
      BY <2>1
    <2> QED  BY <2>1, <2>2, <2>3, <2>4, <2>5
  <1>2. ASSUME NEW q \in Nat, NEW r \in 0 .. b - 1, a = q * b + r
        PROVE  q = a \div b
    <2> DEFINE p == a \div b  s == a % b
    <2>1. p \in Nat /\ s \in 0 .. b - 1 /\ a = p * b + s
      BY <1>1
    <2> HIDE DEF p, s
    <2>2. CASE q < p
      <3>1. (q + 1) * b <= p * b
        BY <2>1, <2>2
      <3>2. q * b + b <= p * b
        BY <3>1
      <3> QED  BY <1>2, <2>1, <3>2
    <2>3. CASE p < q
      <3>1. (p + 1) * b <= q * b
        BY <2>1, <2>3
      <3>2. p * b + b <= q * b
        BY <2>1, <3>1
      <3> QED  BY <1>2, <2>1, <3>2
    <2>4. q = p
      BY <2>1, <2>2, <2>3
    <2> QED  BY <2>4 DEF p
  <1> QED  BY <1>1, <1>2

LEMMA DivisionTwice ==
    ASSUME NEW a \in Nat, NEW b \in Nat \ {0}, NEW c \in Nat \ {0}
    PROVE  (a \div b) \div c = a \div (b * c)
  <1> DEFINE p == a \div b  r == a % b  q == p \div c  s == p % c
  <1>1. p \in Nat /\ r \in 0 .. b - 1 /\ a = p * b + r
    BY Division
  <1>2. q \in Nat /\ s \in 0 .. c - 1 /\ p = q * c + s
    BY <1>1, Division
  <1> HIDE DEF p, r, q, s
  <1>3. a = q * (b * c) + (s * b + r)
    <2>1. p * b = q * (c * b) + s * b
      BY <1>1, <1>2
    <2> QED  BY <1>1, <1>2, <2>1
  <1>4. s * b + r \in 0 .. b * c - 1 /\ b * c \in Nat \ {0}
    <2>1. (s + 1) * b <= c * b
      BY <1>2
    <2>2. s * b + b <= b * c /\ s * b \in Nat /\ b * c \in Nat
      BY <1>2, <2>1
    <2> QED  BY <1>1, <2>2
  <1>5. q = a \div (b * c)
    BY <1>2, <1>3, <1>4, Division
  <1> QED  BY <1>5 DEF q, p

LEMMA DepthFits == Depth \in Nat /\ KeyBits <= Depth * LevelBits
  <1> DEFINE L == LevelBits
             c == [b \in 0 .. KeyBits |-> (b + (L - 1)) \div L]
             Eq(h) == h = [b \in 0 .. KeyBits |-> IF b = 0 THEN 0 ELSE 1 + h[IF b < L THEN 0 ELSE b - L]]
  <1>1. L \in Nat \ {0} /\ KeyBits \in Nat
    BY NodesAreNumbers
  <1>2. ASSUME NEW q \in Nat, NEW r \in 0 .. L - 1 PROVE (q * L + r) \div L = q
    <2>1. q * L + r \in Nat
      BY <1>1
    <2> QED  BY <1>1, <2>1, Division
  <1> HIDE DEF L
  <1>3. ASSUME NEW b \in 0 .. KeyBits
        PROVE  c[b] = IF b = 0 THEN 0 ELSE 1 + c[IF b < L THEN 0 ELSE b - L]
    <2>0. c[0] = 0
      <3>1. 0 * L + (L - 1) = 0 + (L - 1) /\ L - 1 \in 0 .. L - 1 /\ 0 \in 0 .. KeyBits
        BY <1>1
      <3>2. (0 + (L - 1)) \div L = 0
        BY <1>2, <3>1
      <3> QED  BY <3>1, <3>2
    <2>1. CASE b = 0
      BY <2>0, <2>1
    <2>2. CASE b # 0 /\ b < L
      <3>1. b + (L - 1) = 1 * L + (b - 1) /\ b - 1 \in 0 .. L - 1
        BY <1>1, <2>2
      <3>2. (b + (L - 1)) \div L = 1
        BY <1>2, <3>1
      <3> QED  BY <2>0, <2>2, <3>2
    <2>3. CASE b # 0 /\ ~(b < L)
      <3> DEFINE a == (b - L) + (L - 1)
                 q == a \div L
                 r == a % L
      <3>1. a \in Nat /\ b - L \in 0 .. KeyBits
        BY <1>1, <2>3
      <3>2. q \in Nat /\ r \in 0 .. L - 1 /\ a = q * L + r
        BY <1>1, <3>1, Division
      <3>3. c[b - L] = q
        BY <3>1
      <3> HIDE DEF q, r
      <3>4. b + (L - 1) = (q + 1) * L + r
        <4>1. (q + 1) * L = q * L + L
          BY <1>1, <3>2
        <4> QED  BY <1>1, <3>2, <4>1
      <3>5. (b + (L - 1)) \div L = q + 1
        BY <1>2, <3>2, <3>4
      <3> HIDE DEF a
      <3>6. c[b] = 1 + c[b - L]
        BY <3>2, <3>3, <3>5
      <3> QED  BY <2>3, <3>6
    <2> QED  BY <2>1, <2>2, <2>3
  <1>4. Eq(c)
    BY <1>3
  <1>5. tree_depth = CHOOSE h : Eq(h)
    BY Zenon DEF tree_depth, L
  <1> HIDE DEF Eq, c
  <1>6. Eq(tree_depth)
    BY <1>4, <1>5
  <1>7. \A b \in 0 .. KeyBits :
            tree_depth[b] = IF b = 0 THEN 0 ELSE 1 + tree_depth[IF b < L THEN 0 ELSE b - L]
    BY <1>6 DEF Eq
  <1> DEFINE T == {b \in 0 .. KeyBits : ~(tree_depth[b] \in Nat /\ b <= tree_depth[b] * L)}
  <1>8. T = {}
    <2> SUFFICES ASSUME T # {} PROVE FALSE
      OBVIOUS
    <2>1. PICK b \in T : \A a \in T : b <= a
      <3>1. T \subseteq Nat
        BY <1>1
      <3> HIDE DEF T
      <3> QED  BY <3>1, LowestOf
    <2>2. b \in 0 .. KeyBits /\ 0 \in 0 .. KeyBits /\ tree_depth[0] = 0
      BY <1>1, <1>7, <2>1
    <2>3. b # 0
      <3>1. 0 * L = 0 /\ 0 <= 0 * L
        BY <1>1
      <3> QED  BY <2>1, <2>2, <3>1
    <2>4. CASE b < L
      <3>1. tree_depth[b] = 1
        BY <1>7, <2>2, <2>3, <2>4
      <3>2. b <= 1 * L
        BY <1>1, <2>2, <2>4
      <3> QED  BY <2>1, <3>1, <3>2
    <2>5. CASE ~(b < L)
      <3>1. b - L \in 0 .. KeyBits /\ ~(b <= b - L)
        BY <1>1, <2>2, <2>5
      <3>2. b - L \notin T
        BY <2>1, <3>1
      <3> DEFINE p == tree_depth[b - L]
      <3>3. p \in Nat /\ b - L <= p * L
        BY <3>1, <3>2
      <3>4. tree_depth[b] = 1 + p
        BY <1>7, <2>2, <2>3, <2>5
      <3> HIDE DEF p
      <3>5. (1 + p) * L = L + p * L
        BY <1>1, <3>3
      <3>6. b <= (1 + p) * L
        BY <1>1, <2>2, <3>3, <3>5
      <3> QED  BY <2>1, <3>3, <3>4, <3>6
    <2> QED  BY <2>4, <2>5
  <1>9. KeyBits \in 0 .. KeyBits
    BY <1>1
  <1> QED  BY <1>8, <1>9 DEF Depth, L

LEMMA EntryFits ==
    ASSUME NEW k \in Keys, NEW d \in Nat
    PROVE  entry_index(k, d) \in Indices
  <1>1. power[KeyBits] \in Nat
    BY NodesAreNumbers, PowerSteps
  <1>2. k \in Nat
    BY <1>1 DEF Keys
  <1>3. d * LevelBits \in Nat /\ LevelBits \in Nat
    BY NodesAreNumbers
  <1>4. power[d * LevelBits] \in Nat \ {0} /\ power[LevelBits] \in Nat \ {0}
    BY <1>3, PowerPositive
  <1> DEFINE q == k \div power[d * LevelBits]
  <1>5. q \in Nat
    BY <1>2, <1>4, Division
  <1> HIDE DEF q
  <1>6. q % power[LevelBits] \in 0 .. power[LevelBits] - 1
    BY <1>4, <1>5, Division
  <1> QED  BY <1>6 DEF entry_index, Indices, q

(* Keys that take the same way down to the values are the same.            *)
LEMMA KeysDiffer ==
    ASSUME NEW k \in Keys, NEW l \in Keys, Agree(k, l, 0)
    PROVE  k = l
  <1> DEFINE S == {d \in 0 .. Depth : k \div power[d * LevelBits] = l \div power[d * LevelBits]}
  <1>0. /\ power[KeyBits] \in Nat /\ LevelBits \in Nat \ {0} /\ KeyBits \in Nat /\ Depth \in Nat
        /\ KeyBits <= Depth * LevelBits
    BY NodesAreNumbers, PowerSteps, DepthFits
  <1>1. k \in Nat /\ l \in Nat /\ k < power[KeyBits] /\ l < power[KeyBits]
    BY <1>0 DEF Keys
  <1>2. Depth \in S
    <2> DEFINE p == power[Depth * LevelBits]
    <2>1. Depth * LevelBits \in Nat
      BY <1>0
    <2>2. p \in Nat \ {0} /\ power[KeyBits] <= p
      BY <1>0, <2>1, PowerPositive, PowerGrows
    <2> HIDE DEF p
    <2>3. k \in 0 .. p - 1 /\ l \in 0 .. p - 1 /\ k = 0 * p + k /\ l = 0 * p + l
      BY <1>0, <1>1, <2>2
    <2>4. k \div p = 0 /\ l \div p = 0
      BY <1>1, <2>2, <2>3, Division
    <2> QED  BY <1>0, <2>4 DEF p
  <1>3. ASSUME NEW d \in 0 .. Depth - 1, d + 1 \in S PROVE d \in S
    <2> DEFINE p == power[d * LevelBits]  q == power[LevelBits]
               a == k \div p  b == l \div p
    <2>1. d * LevelBits \in Nat /\ (d + 1) * LevelBits = d * LevelBits + LevelBits
      BY <1>0
    <2>2. p \in Nat \ {0} /\ q \in Nat \ {0} /\ power[(d + 1) * LevelBits] = p * q
      BY <1>0, <2>1, PowerPositive, PowerOfSum
    <2>3. k \div (p * q) = l \div (p * q)
      BY <1>3, <2>2
    <2>4. a % q = b % q
      BY <1>0 DEF Agree, entry_index
    <2> HIDE DEF p, q
    <2>5. a \div q = b \div q
      BY <1>1, <2>2, <2>3, DivisionTwice
    <2>6. a \in Nat /\ b \in Nat
      BY <1>1, <2>2, Division
    <2>7. a = (a \div q) * q + (a % q) /\ b = (b \div q) * q + (b % q)
      BY <2>2, <2>6, Division
    <2> HIDE DEF a, b
    <2>8. a = b
      BY <2>4, <2>5, <2>7
    <2>9. d \in 0 .. Depth
      BY <1>0
    <2> QED  BY <2>8, <2>9 DEF p, a, b
  <1>4. S = 0 .. Depth
    <2>1. S \subseteq 0 .. Depth
      OBVIOUS
    <2> HIDE DEF S
    <2> QED  BY <1>0, <1>2, <1>3, <2>1, DownwardInduction
  <1>5. 0 * LevelBits = 0 /\ 0 \in S
    BY <1>0, <1>4
  <1>6. k \div 1 = l \div 1
    BY <1>5, PowerSteps
  <1> QED  BY <1>1, <1>6

-----------------------------------------------------------------------------
(* Paths.                                                                  *)

LEMMA SlotsFit ==
    /\ Depth \in Nat /\ Null \in Values /\ \A i \in Indices : i \in Nat
    /\ \A m \in Maps : <<m, 0>> \in Slots /\ m \notin Values
    /\ \A n \in Values \ {Null} : n \in Nodes /\ n \notin Maps
    /\ \A n \in Values \ {Null}, i \in Indices : <<n, i>> \in Slots
    /\ \A k \in Keys, d \in 0 .. Depth : entry_index(k, d) \in Indices
  <1>1. 0 \in Indices /\ \A i \in Indices : i \in Nat
    BY NodesAreNumbers, PowerPositive DEF Indices
  <1>2. \A k \in Keys, d \in 0 .. Depth : entry_index(k, d) \in Indices
    BY EntryFits
  <1>3. \A m \in Maps : m # 0
    BY NodesAreNumbers
  <1> QED  BY <1>1, <1>2, <1>3, DepthFits, NodesAreNumbers DEF Slots, Values, Null

(* f is the way of key k down map m in the slots s.                        *)
Way(f, s, m, k) ==
    /\ f \in [0 .. Depth -> Values]
    /\ f[Depth] = s[<<m, 0>>]
    /\ \A d \in 0 .. Depth - 1 :
          f[d] = IF f[d + 1] = Null THEN Null ELSE s[<<f[d + 1], entry_index(k, d)>>]

LEMMA WayExists ==
    ASSUME NEW s \in [Slots -> Values], NEW m \in Maps, NEW k \in Keys
    PROVE  \E f : Way(f, s, m, k)
  <1> DEFINE next == [p \in Values \X Nat |->
                        IF p[1] = Null \/ ~(p[2] < Depth) THEN Null
                        ELSE s[<<p[1], entry_index(k, (Depth - 1) - p[2])>>]]
  <1>0. Depth \in Nat /\ 0 \in 0 .. Depth
    BY SlotsFit
  <1>1. next \in [Values \X Nat -> Values] /\ s[<<m, 0>>] \in Values
    <2>1. ASSUME NEW n \in Values, NEW i \in Nat, n # Null, i < Depth
          PROVE  s[<<n, entry_index(k, (Depth - 1) - i)>>] \in Values
      <3>1. (Depth - 1) - i \in 0 .. Depth
        BY <1>0, <2>1
      <3>2. <<n, entry_index(k, (Depth - 1) - i)>> \in Slots
        BY <2>1, <3>1, SlotsFit
      <3> QED  BY <3>2
    <2>2. ASSUME NEW p \in Values \X Nat PROVE next[p] \in Values
      BY <2>1, SlotsFit
    <2>3. <<m, 0>> \in Slots
      BY SlotsFit
    <2> QED  BY <2>2, <2>3
  <1> HIDE DEF next
  <1>2. PICK g \in [Nat -> Values] : Steps(g, s[<<m, 0>>], next)
    BY <1>1, RecursiveFunction
  <1> DEFINE f == [d \in 0 .. Depth |-> g[Depth - d]]
  <1>3. f \in [0 .. Depth -> Values]
    <2>1. ASSUME NEW d \in 0 .. Depth PROVE g[Depth - d] \in Values
      <3>1. Depth - d \in Nat
        BY <1>0
      <3> QED  BY <1>2, <3>1
    <2> QED  BY <2>1
  <1>4. f[Depth] = s[<<m, 0>>]
    <2>1. Depth - Depth = 0 /\ Depth \in 0 .. Depth
      BY <1>0
    <2> QED  BY <1>2, <2>1 DEF Steps
  <1>5. ASSUME NEW d \in 0 .. Depth - 1
        PROVE  f[d] = IF f[d + 1] = Null THEN Null ELSE s[<<f[d + 1], entry_index(k, d)>>]
    <2> DEFINE i == Depth - (d + 1)
    <2>1. /\ d \in 0 .. Depth /\ d + 1 \in 0 .. Depth /\ i \in Nat /\ i + 1 = Depth - d
          /\ i < Depth /\ (Depth - 1) - i = d
      BY <1>0
    <2>2. f[d] = g[i + 1] /\ f[d + 1] = g[i]
      BY <2>1
    <2> HIDE DEF f, i
    <2>3. g[i + 1] = next[<<g[i], i>>] /\ g[i] \in Values
      BY <1>2, <2>1 DEF Steps
    <2>4. next[<<g[i], i>>] = IF g[i] = Null THEN Null ELSE s[<<g[i], entry_index(k, d)>>]
      BY <2>1, <2>3 DEF next
    <2> QED  BY <2>2, <2>3, <2>4
  <1> HIDE DEF f
  <1> QED  BY <1>3, <1>4, <1>5 DEF Way

LEMMA WayIsUnique ==
    ASSUME NEW s, NEW m, NEW k, NEW f, NEW g, Way(f, s, m, k), Way(g, s, m, k)
    PROVE  \A d \in 0 .. Depth : f[d] = g[d]
  <1> DEFINE S == {d \in 0 .. Depth : f[d] = g[d]}
  <1>1. Depth \in S
    BY SlotsFit DEF Way
  <1>2. ASSUME NEW d \in 0 .. Depth - 1, d + 1 \in S PROVE d \in S
    <2>1. d \in 0 .. Depth
      BY SlotsFit
    <2> QED  BY <1>2, <2>1 DEF Way
  <1>3. S \subseteq 0 .. Depth
    OBVIOUS
  <1> HIDE DEF S
  <1>4. S = 0 .. Depth
    BY <1>1, <1>2, <1>3, SlotsFit, DownwardInduction
  <1> QED  BY <1>4 DEF S

LEMMA PathIsTheWay ==
    ASSUME NEW s \in [Slots -> Values], NEW m \in Maps, NEW k \in Keys
    PROVE  Way(PathIn(s, m, k), s, m, k)
  <1> DEFINE Eq(h) == h = [d \in 0 .. Depth |->
                             IF d = Depth THEN s[<<m, 0>>]
                             ELSE IF h[d + 1] = Null THEN Null ELSE s[<<h[d + 1], entry_index(k, d)>>]]
  <1>1. PathIn(s, m, k) = CHOOSE h : Eq(h)
    BY Zenon DEF PathIn
  <1>2. PICK f : Way(f, s, m, k)
    BY WayExists
  <1>3. Depth \in Nat
    BY SlotsFit
  <1>4. Eq(f)
    <2>1. ASSUME NEW d \in 0 .. Depth
          PROVE  f[d] = IF d = Depth THEN s[<<m, 0>>]
                        ELSE IF f[d + 1] = Null THEN Null ELSE s[<<f[d + 1], entry_index(k, d)>>]
      <3>1. d # Depth => d \in 0 .. Depth - 1
        BY <1>3
      <3> QED  BY <1>2, <3>1 DEF Way
    <2> QED  BY <1>2, <2>1 DEF Way
  <1> HIDE DEF Eq
  <1>5. PICK h : Eq(h) /\ h = PathIn(s, m, k)
    BY <1>1, <1>4
  <1>6. h = [d \in 0 .. Depth |->
               IF d = Depth THEN s[<<m, 0>>]
               ELSE IF h[d + 1] = Null THEN Null ELSE s[<<h[d + 1], entry_index(k, d)>>]]
    BY <1>5 DEF Eq
  <1>7. h[Depth] = s[<<m, 0>>]
    BY <1>3, <1>6
  <1>8. ASSUME NEW d \in 0 .. Depth - 1
        PROVE  h[d] = IF h[d + 1] = Null THEN Null ELSE s[<<h[d + 1], entry_index(k, d)>>]
    <2>1. d \in 0 .. Depth /\ d # Depth
      BY <1>3
    <2> QED  BY <1>6, <2>1
  <1>9. \A d \in 0 .. Depth : h[d] \in Values
    <2> DEFINE S == {d \in 0 .. Depth : h[d] \in Values}
    <2>1. Depth \in S
      BY <1>3, <1>7, SlotsFit
    <2>2. ASSUME NEW d \in 0 .. Depth - 1, d + 1 \in S PROVE d \in S
      <3>1. d \in 0 .. Depth /\ h[d + 1] \in Values
        BY <1>3, <2>2
      <3>2. h[d + 1] # Null => s[<<h[d + 1], entry_index(k, d)>>] \in Values
        BY <3>1, SlotsFit
      <3> QED  BY <1>8, <3>1, <3>2, SlotsFit
    <2>3. S \subseteq 0 .. Depth
      OBVIOUS
    <2> HIDE DEF S
    <2>4. S = 0 .. Depth
      BY <1>3, <2>1, <2>2, <2>3, DownwardInduction
    <2> QED  BY <2>4 DEF S
  <1>10. h \in [0 .. Depth -> Values]
    BY <1>6, <1>9
  <1> QED  BY <1>5, <1>7, <1>8, <1>10 DEF Way

LEMMA PathSteps ==
    ASSUME slot \in [Slots -> Values], NEW m \in Maps, NEW k \in Keys
    PROVE  /\ Node(m, k, Depth) = slot[<<m, 0>>]
           /\ \A d \in 0 .. Depth : Node(m, k, d) \in Values
           /\ \A d \in 0 .. Depth - 1 :
                 Node(m, k, d) = IF Node(m, k, d + 1) = Null THEN Null
                                 ELSE slot[<<Node(m, k, d + 1), entry_index(k, d)>>]
  <1>1. Way(PathIn(slot, m, k), slot, m, k)
    BY PathIsTheWay
  <1> QED  BY <1>1, SlotsFit DEF Way, Node

LEMMA PathIs ==
    ASSUME slot' \in [Slots -> Values], NEW m \in Maps, NEW k \in Keys,
           NEW f, Way(f, slot', m, k)
    PROVE  \A d \in 0 .. Depth : Node(m, k, d)' = f[d]
  <1>1. Way(PathIn(slot', m, k), slot', m, k)
    BY PathIsTheWay
  <1>2. \A d : Node(m, k, d)' = PathIn(slot', m, k)[d]
    BY DEF Node
  <1> QED  BY <1>1, <1>2, WayIsUnique

(* Keys that agree down to a level have the same path down to it.          *)
LEMMA PathsAgree ==
    ASSUME slot \in [Slots -> Values], NEW m \in Maps, NEW k \in Keys, NEW l \in Keys,
           NEW d \in 0 .. Depth, Agree(k, l, d)
    PROVE  Node(m, k, d) = Node(m, l, d)
  <1> DEFINE S == {e \in 0 .. Depth : e >= d => Node(m, k, e) = Node(m, l, e)}
  <1>0. Depth \in Nat
    BY SlotsFit
  <1>1. Depth \in S
    <2>1. Node(m, k, Depth) = slot[<<m, 0>>] /\ Node(m, l, Depth) = slot[<<m, 0>>]
      BY PathSteps
    <2> QED  BY <1>0, <2>1
  <1>2. ASSUME NEW e \in 0 .. Depth - 1, e + 1 \in S PROVE e \in S
    <2> SUFFICES ASSUME e >= d PROVE Node(m, k, e) = Node(m, l, e)
      BY <1>0
    <2>1. e + 1 >= d /\ e \in d .. Depth - 1
      BY <1>0
    <2>2. Node(m, k, e + 1) = Node(m, l, e + 1)
      BY <1>2, <2>1
    <2>3. entry_index(k, e) = entry_index(l, e)
      BY <2>1 DEF Agree
    <2> QED  BY <2>2, <2>3, PathSteps
  <1>3. S \subseteq 0 .. Depth
    OBVIOUS
  <1> HIDE DEF S
  <1>4. S = 0 .. Depth
    BY <1>0, <1>1, <1>2, <1>3, DownwardInduction
  <1> QED  BY <1>4 DEF S

LEMMA PathNodesFit ==
    ASSUME slot \in [Slots -> Values]
    PROVE  /\ PathNodes \subseteq Nodes
           /\ \A m \in Maps, k \in Keys, d \in 0 .. Depth :
                 Node(m, k, d) # Null => Node(m, k, d) \in PathNodes
           /\ \A n \in PathNodes : \E m \in Maps, k \in Keys, d \in 0 .. Depth : n = Node(m, k, d) /\ n # Null
  <1>1. \A m \in Maps, k \in Keys, d \in 0 .. Depth : Node(m, k, d) \in Values
    BY PathSteps
  <1> QED  BY <1>1 DEF PathNodes, Values

(* Paths change only where they lead.                                      *)
LEMMA PathsStay ==
    ASSUME slot \in [Slots -> Values], slot' \in [Slots -> Values],
           \A m \in Maps : slot'[<<m, 0>>] = slot[<<m, 0>>],
           \A n \in PathNodes, i \in Indices : slot'[<<n, i>>] = slot[<<n, i>>]
    PROVE  /\ \A m \in Maps, k \in Keys, d \in 0 .. Depth : Node(m, k, d)' = Node(m, k, d)
           /\ PathNodes' = PathNodes
  <1>1. ASSUME NEW m \in Maps, NEW k \in Keys
        PROVE  \A d \in 0 .. Depth : Node(m, k, d)' = Node(m, k, d)
    <2> DEFINE f == [d \in 0 .. Depth |-> Node(m, k, d)]
    <2>1. \A d \in 0 .. Depth : Node(m, k, d) \in Values
      BY PathSteps
    <2>2. f[Depth] = slot'[<<m, 0>>]
      BY PathSteps, SlotsFit
    <2>3. ASSUME NEW d \in 0 .. Depth - 1
          PROVE  f[d] = IF f[d + 1] = Null THEN Null ELSE slot'[<<f[d + 1], entry_index(k, d)>>]
      <3>1. d \in 0 .. Depth /\ d + 1 \in 0 .. Depth
        BY SlotsFit
      <3>2. Node(m, k, d) = IF Node(m, k, d + 1) = Null THEN Null
                            ELSE slot[<<Node(m, k, d + 1), entry_index(k, d)>>]
        BY PathSteps
      <3>3. Node(m, k, d + 1) # Null =>
               slot'[<<Node(m, k, d + 1), entry_index(k, d)>>] = slot[<<Node(m, k, d + 1), entry_index(k, d)>>]
        BY <3>1, PathNodesFit, SlotsFit
      <3> QED  BY <3>1, <3>2, <3>3
    <2>4. Way(f, slot', m, k)
      BY <2>1, <2>2, <2>3 DEF Way
    <2> HIDE DEF f
    <2>5. \A d \in 0 .. Depth : Node(m, k, d)' = f[d]
      BY <2>4, PathIs
    <2> QED  BY <2>5 DEF f
  <1> QED  BY <1>1 DEF PathNodes

LEMMA SlotOfPath ==
    ASSUME slot \in [Slots -> Values], NEW m \in Maps, NEW k \in Keys, NEW d \in 0 .. Depth,
           NEW p, SlotOf(p, m, k, d)
    PROVE  p \in Slots /\ Node(m, k, d) = slot[p] /\ p[1] \in Maps \cup PathNodes
  <1>1. CASE d = Depth
    BY <1>1, PathSteps, SlotsFit DEF SlotOf
  <1>2. CASE d # Depth
    <2>1. d \in 0 .. Depth - 1 /\ d + 1 \in 0 .. Depth
      BY <1>2, SlotsFit
    <2>2. Node(m, k, d) = slot[p] /\ Node(m, k, d + 1) # Null
      BY <1>2, <2>1, PathSteps DEF SlotOf
    <2>3. Node(m, k, d + 1) \in PathNodes /\ Node(m, k, d + 1) \in Values \ {Null}
      BY <2>1, <2>2, PathNodesFit, PathSteps
    <2>4. entry_index(k, d) \in Indices
      BY SlotsFit
    <2> QED  BY <1>2, <2>2, <2>3, <2>4, SlotsFit DEF SlotOf
  <1> QED  BY <1>1, <1>2

(* The only path that leads through the slot of a key is that of the keys  *)
(* that agree with it.                                                     *)
LEMMA SlotsDiffer ==
    ASSUME slot \in [Slots -> Values], PathsDiffer,
           NEW m \in Maps, NEW k \in Keys, NEW d \in 0 .. Depth,
           NEW n \in Maps, NEW l \in Keys, NEW e \in 0 .. Depth,
           NEW p, SlotOf(p, m, k, d), SlotOf(p, n, l, e)
    PROVE  m = n /\ d = e /\ Agree(k, l, d)
  <1>1. CASE d = Depth /\ e = Depth
    <2>1. m = n
      BY <1>1 DEF SlotOf
    <2> QED  BY <1>1, <2>1, SlotsFit DEF Agree
  <1>2. CASE d = Depth /\ e # Depth
    <2>1. e + 1 \in 0 .. Depth
      BY <1>2, SlotsFit
    <2>2. p[1] = m /\ p[1] = Node(n, l, e + 1)
      BY <1>2 DEF SlotOf
    <2>3. Node(n, l, e + 1) \in Values
      BY <2>1, PathSteps
    <2> QED  BY <2>2, <2>3, SlotsFit
  <1>3. CASE d # Depth /\ e = Depth
    <2>1. d + 1 \in 0 .. Depth
      BY <1>3, SlotsFit
    <2>2. p[1] = n /\ p[1] = Node(m, k, d + 1)
      BY <1>3 DEF SlotOf
    <2>3. Node(m, k, d + 1) \in Values
      BY <2>1, PathSteps
    <2> QED  BY <2>2, <2>3, SlotsFit
  <1>4. CASE d # Depth /\ e # Depth
    <2>1. d + 1 \in 0 .. Depth /\ e + 1 \in 0 .. Depth
      BY <1>4, SlotsFit
    <2>2. /\ Node(m, k, d + 1) # Null /\ Node(m, k, d + 1) = Node(n, l, e + 1)
          /\ entry_index(k, d) = entry_index(l, e)
      BY <1>4 DEF SlotOf
    <2>3. m = n /\ d + 1 = e + 1 /\ Agree(k, l, d + 1)
      BY <2>1, <2>2 DEF PathsDiffer
    <2>4. d = e
      BY <2>3
    <2>5. ASSUME NEW c \in d .. Depth - 1 PROVE entry_index(k, c) = entry_index(l, c)
      <3>1. c = d \/ c \in d + 1 .. Depth - 1
        BY SlotsFit
      <3> QED  BY <2>2, <2>3, <2>4, <3>1 DEF Agree
    <2> QED  BY <2>3, <2>4, <2>5 DEF Agree
  <1> QED  BY <1>1, <1>2, <1>3, <1>4

LEMMA SlotIsShared ==
    ASSUME slot \in [Slots -> Values], NEW m \in Maps, NEW k \in Keys, NEW l \in Keys,
           NEW d \in 0 .. Depth, NEW p, SlotOf(p, m, l, d), Agree(k, l, d)
    PROVE  SlotOf(p, m, k, d)
  <1>1. CASE d = Depth
    BY <1>1 DEF SlotOf
  <1>2. CASE d # Depth
    <2>1. d + 1 \in 0 .. Depth /\ d \in d .. Depth - 1 /\ \A e \in d + 1 .. Depth - 1 : e \in d .. Depth - 1
      BY <1>2, SlotsFit
    <2>2. Agree(k, l, d + 1) /\ entry_index(k, d) = entry_index(l, d)
      BY <2>1 DEF Agree
    <2>3. Node(m, k, d + 1) = Node(m, l, d + 1)
      BY <2>1, <2>2, PathsAgree
    <2> QED  BY <1>2, <2>2, <2>3 DEF SlotOf
  <1> QED  BY <1>1, <1>2

(* Thread's new node n is inserted at level d of key k in map m.           *)
Grows(n, p, m, k, d) ==
    /\ m \in Maps /\ k \in Keys /\ d \in 0 .. Depth /\ SlotOf(p, m, k, d)
    /\ n \in Nodes /\ n \notin PathNodes /\ \A i \in Indices : slot[<<n, i>>] = Null
    /\ slot[p] = Null /\ slot' = [slot EXCEPT ![p] = n]

LEMMA SlotsGrow ==
    ASSUME slot \in [Slots -> Values], NEW n, NEW p, NEW m, NEW k, NEW d, Grows(n, p, m, k, d)
    PROVE  /\ slot' \in [Slots -> Values] /\ p \in Slots /\ slot'[p] = n
           /\ \A q \in Slots : q # p => slot'[q] = slot[q]
           /\ \A i \in Indices : slot'[<<n, i>>] = Null
           /\ n # Null /\ n \in Values
  <1>1. p \in Slots /\ p[1] \in Maps \cup PathNodes
    BY SlotOfPath DEF Grows
  <1>2. n # Null /\ n \in Values
    BY NodesAreNumbers DEF Grows, Values, Null
  <1>3. slot' \in [Slots -> Values] /\ slot'[p] = n /\ \A q \in Slots : q # p => slot'[q] = slot[q]
    BY <1>1, <1>2 DEF Grows
  <1>4. p[1] # n
    BY <1>1, <1>2, SlotsFit DEF Grows
  <1>5. ASSUME NEW i \in Indices PROVE slot'[<<n, i>>] = Null
    <2>1. <<n, i>> \in Slots /\ <<n, i>>[1] = n
      BY <1>2, SlotsFit
    <2>2. <<n, i>> # p
      BY <1>4, <2>1
    <2> QED  BY <1>3, <2>1, <2>2 DEF Grows
  <1> QED  BY <1>1, <1>2, <1>3, <1>5

(* The insertion ends the paths of the keys that agree, and no other.      *)
LEMMA PathsGrow ==
    ASSUME slot \in [Slots -> Values], PathsDiffer,
           NEW n, NEW p, NEW m, NEW k, NEW d, Grows(n, p, m, k, d),
           NEW l \in Maps, NEW j \in Keys, NEW e \in 0 .. Depth
    PROVE  Node(l, j, e)' = IF l = m /\ e = d /\ Agree(j, k, d) THEN n ELSE Node(l, j, e)
  <1> DEFINE Hit(c) == l = m /\ c = d /\ Agree(j, k, d)
             f == [c \in 0 .. Depth |-> IF Hit(c) THEN n ELSE Node(l, j, c)]
  <1>0. /\ m \in Maps /\ k \in Keys /\ d \in 0 .. Depth /\ SlotOf(p, m, k, d) /\ slot[p] = Null
        /\ p \in Slots
    BY SlotOfPath DEF Grows
  <1>1. /\ slot' \in [Slots -> Values] /\ slot'[p] = n
        /\ \A q \in Slots : q # p => slot'[q] = slot[q]
        /\ \A i \in Indices : slot'[<<n, i>>] = Null
        /\ n # Null /\ n \in Values
    BY SlotsGrow
  <1>2. ASSUME NEW c \in 0 .. Depth, NEW q, SlotOf(q, l, j, c) PROVE Hit(c) <=> q = p
    <2>1. ASSUME Hit(c) PROVE q = p
      <3>1. SlotOf(p, l, j, c)
        BY <1>0, <2>1, SlotIsShared
      <3> QED  BY <1>2, <3>1 DEF SlotOf
    <2>2. ASSUME q = p PROVE Hit(c)
      BY <1>0, <1>2, <2>2, SlotsDiffer
    <2> QED  BY <2>1, <2>2
  <1>3. ASSUME NEW c \in 0 .. Depth, Hit(c)
        PROVE  SlotOf(p, l, j, c) /\ Node(l, j, c) = Null
    <2>1. SlotOf(p, l, j, c)
      BY <1>0, <1>3, SlotIsShared
    <2> QED  BY <1>0, <2>1, SlotOfPath
  <1> HIDE DEF Hit
  <1>4. ASSUME NEW c \in 0 .. Depth, NEW q, SlotOf(q, l, j, c) PROVE f[c] = slot'[q]
    <2>1. q \in Slots /\ Node(l, j, c) = slot[q]
      BY <1>4, SlotOfPath
    <2> QED  BY <1>1, <1>2, <1>4, <2>1
  <1>5. f \in [0 .. Depth -> Values]
    <2>1. \A c \in 0 .. Depth : Node(l, j, c) \in Values
      BY PathSteps
    <2> QED  BY <1>1, <2>1
  <1>6. f[Depth] = slot'[<<l, 0>>]
    <2>1. SlotOf(<<l, 0>>, l, j, Depth) /\ Depth \in 0 .. Depth
      BY SlotsFit DEF SlotOf
    <2> HIDE DEF f
    <2> QED  BY <1>4, <2>1
  <1>7. ASSUME NEW c \in 0 .. Depth - 1
        PROVE  f[c] = IF f[c + 1] = Null THEN Null ELSE slot'[<<f[c + 1], entry_index(j, c)>>]
    <2>0. c \in 0 .. Depth /\ c + 1 \in 0 .. Depth /\ c # Depth /\ c # c + 1 /\ entry_index(j, c) \in Indices
      BY SlotsFit
    <2>1. CASE Hit(c + 1)
      <3>1. f[c + 1] = n /\ Node(l, j, c + 1) = Null
        BY <1>3, <2>0, <2>1
      <3>2. ~ Hit(c)
        BY <2>0, <2>1 DEF Hit
      <3>3. Node(l, j, c) = Null
        BY <2>0, <3>1, PathSteps
      <3>4. f[c] = Null
        BY <2>0, <3>2, <3>3
      <3> HIDE DEF f
      <3> QED  BY <1>1, <2>0, <3>1, <3>4
    <2>2. CASE ~ Hit(c + 1) /\ Node(l, j, c + 1) = Null
      <3>1. f[c + 1] = Null /\ Node(l, j, c) = Null
        BY <2>0, <2>2, PathSteps
      <3>2. ~ Hit(c)
        BY <1>3, <2>0, <2>2 DEF SlotOf
      <3>3. f[c] = Null
        BY <2>0, <3>1, <3>2
      <3> HIDE DEF f
      <3> QED  BY <3>1, <3>3
    <2>3. CASE ~ Hit(c + 1) /\ Node(l, j, c + 1) # Null
      <3>1. f[c + 1] = Node(l, j, c + 1)
        BY <2>0, <2>3
      <3>2. SlotOf(<<Node(l, j, c + 1), entry_index(j, c)>>, l, j, c)
        BY <2>0, <2>3 DEF SlotOf
      <3> HIDE DEF f
      <3> QED  BY <1>4, <2>0, <2>3, <3>1, <3>2
    <2> QED  BY <2>1, <2>2, <2>3
  <1> HIDE DEF f
  <1>8. Way(f, slot', l, j)
    BY <1>5, <1>6, <1>7 DEF Way
  <1>9. Node(l, j, e)' = f[e]
    BY <1>1, <1>8, PathIs
  <1> QED  BY <1>9 DEF f, Hit

(* A path that has been made lasts.                                        *)
PathsLast ==
    /\ slot' \in [Slots -> Values]
    /\ \A m \in Maps, k \in Keys, d \in 0 .. Depth : Node(m, k, d) # Null => Node(m, k, d)' = Node(m, k, d)

LEMMA GrowingPathsLast ==
    ASSUME slot \in [Slots -> Values], PathsDiffer,
           NEW n, NEW p, NEW m, NEW k, NEW d, Grows(n, p, m, k, d)
    PROVE  PathsLast /\ PathNodes' = PathNodes \cup {n} /\ Node(m, k, d)' = n
  <1>0. m \in Maps /\ k \in Keys /\ d \in 0 .. Depth /\ SlotOf(p, m, k, d) /\ slot[p] = Null
    BY DEF Grows
  <1>1. slot' \in [Slots -> Values] /\ n # Null /\ n \in Values
    BY SlotsGrow
  <1>2. ASSUME NEW l \in Maps, NEW j \in Keys, NEW e \in 0 .. Depth
        PROVE  /\ Node(l, j, e) # Null => Node(l, j, e)' = Node(l, j, e)
               /\ Node(l, j, e)' \in {Node(l, j, e), n}
    <2>1. Node(l, j, e)' = IF l = m /\ e = d /\ Agree(j, k, d) THEN n ELSE Node(l, j, e)
      BY PathsGrow
    <2>2. l = m /\ e = d /\ Agree(j, k, d) => Node(l, j, e) = Null
      BY <1>0, SlotIsShared, SlotOfPath
    <2> QED  BY <2>1, <2>2
  <1>3. Node(m, k, d)' = n
    <2>1. Agree(k, k, d)
      BY DEF Agree
    <2> QED  BY <1>0, <2>1, PathsGrow
  <1>4. PathNodes' = PathNodes \cup {n}
    <2> DEFINE N == {Node(l, j, e)' : l \in Maps, j \in Keys, e \in 0 .. Depth} \ {Null}
    <2>1. PathNodes' = N
      BY DEF PathNodes
    <2>2. \A x \in N : x \in PathNodes \cup {n}
      BY <1>2 DEF PathNodes
    <2>3. \A x \in PathNodes : x \in N
      BY <1>2 DEF PathNodes
    <2>4. n \in N
      BY <1>0, <1>1, <1>3
    <2> QED  BY <2>1, <2>2, <2>3, <2>4
  <1> QED  BY <1>1, <1>2, <1>3, <1>4 DEF PathsLast

LEMMA SlotOfLasts ==
    ASSUME PathsLast, NEW m \in Maps, NEW k \in Keys, NEW d \in 0 .. Depth, NEW p, SlotOf(p, m, k, d)
    PROVE  SlotOf(p, m, k, d)'
  <1>1. CASE d = Depth
    BY <1>1 DEF SlotOf
  <1>2. CASE d # Depth
    <2>1. d + 1 \in 0 .. Depth
      BY <1>2, SlotsFit
    <2>2. Node(m, k, d + 1) # Null /\ p = <<Node(m, k, d + 1), entry_index(k, d)>>
      BY <1>2 DEF SlotOf
    <2>3. Node(m, k, d + 1)' = Node(m, k, d + 1)
      BY <2>1, <2>2 DEF PathsLast
    <2> QED  BY <1>2, <2>2, <2>3 DEF SlotOf
  <1> QED  BY <1>1, <1>2

LEMMA WalkLasts ==
    ASSUME PathsLast, NEW w, WalkFits(w)
    PROVE  WalkFits(w)'
  <1>1. CASE w.phase \in {"load", "insert"}
    <2>1. w.map \in Maps /\ w.key \in Keys /\ w.depth \in 0 .. Depth /\ SlotOf(w.slot, w.map, w.key, w.depth)
      BY <1>1 DEF WalkFits
    <2>2. SlotOf(w.slot, w.map, w.key, w.depth)'
      BY <2>1, SlotOfLasts
    <2> QED  BY <1>1, <2>1, <2>2 DEF WalkFits
  <1>2. CASE w.phase = "found"
    <2>1. w.map \in Maps /\ w.key \in Keys /\ (w.node # Null => w.node = Node(w.map, w.key, 0))
      BY <1>2 DEF WalkFits
    <2>2. w.node # Null => w.node = Node(w.map, w.key, 0)'
      BY <2>1, SlotsFit DEF PathsLast
    <2> QED  BY <1>2, <2>1, <2>2 DEF WalkFits
  <1>3. CASE w.phase \notin {"load", "insert", "found"}
    BY <1>3 DEF WalkFits
  <1> QED  BY <1>1, <1>2, <1>3

(* Thread t goes from walk[t] to y, and the paths last.                    *)
LEMMA WalksLast ==
    ASSUME PathsLast, TMTypeOK, \A u \in Threads : WalkFits(walk[u]), NEW t \in Threads, NEW y,
           walk' = [walk EXCEPT ![t] = y], WalkFits(y)'
    PROVE  \A u \in Threads : WalkFits(walk[u])'
  <1> SUFFICES ASSUME NEW u \in Threads PROVE WalkFits(walk[u])'
    OBVIOUS
  <1>1. walk'[t] = y /\ (u # t => walk'[u] = walk[u])
    BY DEF TMTypeOK
  <1>2. CASE u = t
    BY <1>1, <1>2 DEF WalkFits
  <1>3. CASE u # t
    <2>1. PICK w : w = walk[u]
      OBVIOUS
    <2>2. WalkFits(w)'
      <3>1. WalkFits(w)
        BY <2>1
      <3> QED  BY <3>1, WalkLasts
    <2>3. w = walk'[u]
      BY <1>1, <1>3, <2>1
    <2> QED  BY <2>2, <2>3 DEF WalkFits
  <1> QED  BY <1>2, <1>3

-----------------------------------------------------------------------------
(* Steps of one thread.                                                    *)

(* A step that only moves thread t, or stores in a value that is reached.  *)
LEMMA MoveKeepsTree ==
    ASSUME TreeInv, NEW t \in Threads, NEW y \in Walks, walk' = [walk EXCEPT ![t] = y],
           walk[t].phase # "insert", y.phase # "insert", WalkFits(y), UNCHANGED <<slot, live>>,
           content' \in [Nodes -> Nat], \A n \in Nodes \ PathNodes : content'[n] = content[n]
    PROVE  /\ TreeInv' /\ PathNodes' = PathNodes
           /\ \A m, k, d : Node(m, k, d)' = Node(m, k, d)
  <1>1. TMTypeOK /\ TMTypeOK'
    BY DEF TreeInv, TMTypeOK
  <1>2. \A m, k, d : Node(m, k, d)' = Node(m, k, d)
    BY DEF Node
  <1>3. PathNodes' = PathNodes
    BY <1>2 DEF PathNodes
  <1>4. walk'[t] = y /\ \A u \in Threads : u # t => walk'[u] = walk[u]
    BY <1>1 DEF TMTypeOK
  <1>5. Inserting' = Inserting /\ t \notin Inserting
    BY <1>4 DEF Inserting
  <1>6. \A u \in Inserting : u \in Threads /\ walk'[u] = walk[u]
    BY <1>4, <1>5 DEF Inserting
  <1>7. \A u \in Threads : WalkFits(walk[u])'
    <2>1. PathsLast
      BY <1>1, <1>2 DEF PathsLast, TMTypeOK
    <2>2. WalkFits(y)'
      BY <2>1, WalkLasts
    <2> QED  BY <1>1, <2>1, <2>2, WalksLast DEF TreeInv
  <1>8. NewNodesFit'
    <2> SUFFICES ASSUME NEW u \in Inserting
                 PROVE  /\ walk[u].node \in live /\ walk[u].node \notin PathNodes
                        /\ content'[walk[u].node] = 0
                        /\ \A i \in Indices : slot[<<walk[u].node, i>>] = Null
                        /\ \A v \in Inserting \ {u} : walk[v].node # walk[u].node
      BY <1>3, <1>5, <1>6 DEF NewNodesFit
    <2>1. walk[u].node \in Nodes
      BY <1>1 DEF TreeInv, NewNodesFit, TMTypeOK
    <2> QED  BY <2>1 DEF TreeInv, NewNodesFit
  <1>9. LiveFits'
    BY <1>3, <1>5, <1>6 DEF TreeInv, LiveFits
  <1>10. PathsDiffer'
    BY <1>2 DEF TreeInv, PathsDiffer
  <1>11. PathsFill'
    BY <1>2 DEF TreeInv, PathsFill
  <1> QED  BY <1>1, <1>2, <1>3, <1>7, <1>8, <1>9, <1>10, <1>11 DEF TreeInv

(* The creation of a directory or a value.                                 *)
LEMMA CreationKeepsTree ==
    ASSUME TreeInv, NEW t \in Threads, walk[t].phase = "load", walk[t].creates, Created(t)
    PROVE  /\ TreeInv' /\ PathNodes' = PathNodes
           /\ \A m \in Maps, k \in Keys, d \in 0 .. Depth : Node(m, k, d)' = Node(m, k, d)
           /\ \A n \in PathNodes : content'[n] = content[n]
           /\ \E n \in Nodes : walk' = [walk EXCEPT ![t] = [@ EXCEPT !.phase = "insert", !.node = n]]
  <1> DEFINE free == Nodes \ live
             New == CHOOSE o \in free : \A c \in free : o <= c
  <1>1. PICK n : n = New
    OBVIOUS
  <1>2. n \in free
    <2>1. free \subseteq Nat /\ free # {}
      BY NodesAreNumbers DEF Created
    <2> HIDE DEF free
    <2>2. \E o \in free : \A c \in free : o <= c
      BY <2>1, LowestOf
    <2> QED  BY <1>1, <2>2
  <1>3. /\ live' = live \cup {n}
        /\ content' = [content EXCEPT ![n] = 0]
        /\ slot' = [s \in Slots |-> IF s[1] = n THEN Null ELSE slot[s]]
        /\ walk' = [walk EXCEPT ![t].phase = "insert", ![t].node = n]
    BY <1>1 DEF Created
  <1> HIDE DEF New
  <1>4. PICK w : w = walk[t]
    OBVIOUS
  <1> DEFINE y == [w EXCEPT !.phase = "insert", !.node = n]
  <1>5. TMTypeOK /\ n \in Nodes /\ n \notin live /\ n \in Values \ {Null} /\ w \in Walks
    BY <1>2, <1>4, SlotsFit, NodesAreNumbers DEF TreeInv, TMTypeOK, Values, Null
  <1>6. /\ walk' = [walk EXCEPT ![t] = y] /\ y \in Walks
        /\ y.phase = "insert" /\ y.node = n /\ y.slot = w.slot /\ y.map = w.map /\ y.key = w.key
        /\ y.depth = w.depth /\ y.creates = w.creates
    <2>1. y \in Walks
      BY <1>5 DEF Walks, Phases
    <2> QED  BY <1>3, <1>4, <1>5, <2>1 DEF Walks, TMTypeOK
  <1>7. \E o \in Nodes : walk' = [walk EXCEPT ![t] = [@ EXCEPT !.phase = "insert", !.node = o]]
    BY <1>4, <1>5, <1>6
  <1> HIDE DEF y
  <1>8. TMTypeOK'
    <2>1. slot' \in [Slots -> Values]
      BY <1>3, <1>5, SlotsFit DEF TMTypeOK
    <2> QED  BY <1>3, <1>5, <1>6, <2>1 DEF TMTypeOK
  <1>9. n \notin PathNodes /\ n \notin Maps /\ PathNodes \subseteq Nodes
    BY <1>5, SlotsFit, PathNodesFit DEF TreeInv, LiveFits, TMTypeOK
  <1>10. /\ \A s \in Slots : s[1] # n => slot'[s] = slot[s]
         /\ \A s \in Slots : s[1] = n => slot'[s] = Null
    BY <1>3
  <1>11. \A o \in Values \ {Null}, i \in Indices : o # n => slot'[<<o, i>>] = slot[<<o, i>>]
    BY <1>10, SlotsFit
  <1>12. /\ \A m \in Maps, k \in Keys, d \in 0 .. Depth : Node(m, k, d)' = Node(m, k, d)
         /\ PathNodes' = PathNodes
    <2>1. \A m \in Maps : slot'[<<m, 0>>] = slot[<<m, 0>>]
      BY <1>9, <1>10, SlotsFit
    <2>2. \A o \in PathNodes, i \in Indices : slot'[<<o, i>>] = slot[<<o, i>>]
      BY <1>9, <1>11, NodesAreNumbers DEF Values, Null
    <2>3. slot \in [Slots -> Values] /\ slot' \in [Slots -> Values]
      BY <1>5, <1>8 DEF TMTypeOK
    <2> QED  BY <2>1, <2>2, <2>3, PathsStay
  <1>13. PathsLast
    BY <1>8, <1>12 DEF PathsLast, TMTypeOK
  <1>14. \A u \in Threads : WalkFits(walk[u])'
    <2>1. WalkFits(w)'
      <3>1. WalkFits(w)
        BY <1>4 DEF TreeInv
      <3> QED  BY <1>13, <3>1, WalkLasts
    <2>2. WalkFits(y)'
      BY <1>4, <1>6, <2>1 DEF WalkFits
    <2> QED  BY <1>5, <1>6, <1>13, <2>2, WalksLast DEF TreeInv
  <1>15. /\ walk'[t] = y /\ (\A u \in Threads : u # t => walk'[u] = walk[u])
         /\ t \notin Inserting /\ Inserting' = Inserting \cup {t}
    <2>1. walk'[t] = y /\ \A u \in Threads : u # t => walk'[u] = walk[u]
      BY <1>5, <1>6 DEF TMTypeOK
    <2> QED  BY <1>6, <2>1 DEF Inserting
  <1>16. NewNodesFit'
    <2> SUFFICES ASSUME NEW u \in Inserting'
                 PROVE  /\ walk'[u].node \in live' /\ walk'[u].node \notin PathNodes
                        /\ content'[walk'[u].node] = 0
                        /\ \A i \in Indices : slot'[<<walk'[u].node, i>>] = Null
                        /\ \A v \in Inserting' \ {u} : walk'[v].node # walk'[u].node
      BY <1>12 DEF NewNodesFit
    <2>1. \A v \in Inserting : walk'[v] = walk[v] /\ walk[v].node \in live /\ walk[v].node # n
      BY <1>5, <1>15 DEF TreeInv, NewNodesFit, Inserting
    <2>2. CASE u = t
      <3>1. walk'[u].node = n
        BY <1>6, <1>15, <2>2
      <3>2. content'[n] = 0
        BY <1>3, <1>5 DEF TMTypeOK
      <3>3. \A i \in Indices : slot'[<<n, i>>] = Null
        BY <1>5, <1>10, SlotsFit
      <3>4. \A v \in Inserting' \ {u} : walk'[v].node # n
        BY <1>15, <2>1, <2>2
      <3>5. n \in live'
        BY <1>3
      <3> QED  BY <1>9, <3>1, <3>2, <3>3, <3>4, <3>5
    <2>3. CASE u # t
      <3>1. PICK o : o = walk[u].node
        OBVIOUS
      <3>2. u \in Inserting /\ walk'[u].node = o /\ o \in live /\ o # n /\ o \in Values \ {Null} /\ o \in Nodes
        BY <1>5, <1>15, <2>1, <2>3, <3>1, NodesAreNumbers DEF TMTypeOK, Values, Null
      <3>3. o \notin PathNodes /\ content[o] = 0 /\ (\A i \in Indices : slot[<<o, i>>] = Null)
            /\ \A v \in Inserting \ {u} : walk[v].node # o
        BY <3>1, <3>2 DEF TreeInv, NewNodesFit
      <3>4. content'[o] = 0
        BY <1>3, <1>5, <3>2, <3>3 DEF TMTypeOK
      <3>5. \A i \in Indices : slot'[<<o, i>>] = Null
        BY <1>11, <3>2, <3>3
      <3>6. \A v \in Inserting' \ {u} : walk'[v].node # o
        BY <1>6, <1>15, <2>1, <3>2, <3>3
      <3>7. o \in live'
        BY <1>3, <3>2
      <3> QED  BY <3>2, <3>3, <3>4, <3>5, <3>6, <3>7
    <2> QED  BY <2>2, <2>3
  <1>17. LiveFits'
    <2>1. \A v \in Inserting : walk'[v].node = walk[v].node
      BY <1>15 DEF Inserting
    <2>2. walk'[t].node = n
      BY <1>6, <1>15
    <2>3. PathNodes \subseteq live'
      BY <1>3 DEF TreeInv, LiveFits
    <2>4. ASSUME NEW o \in live', o \notin PathNodes
          PROVE  \E u \in Inserting' : o = walk'[u].node
      <3>1. CASE o = n
        BY <1>15, <2>2, <3>1
      <3>2. CASE o # n
        <4>1. o \in live
          BY <1>3, <3>2
        <4>2. PICK u \in Inserting : o = walk[u].node
          BY <2>4, <4>1 DEF TreeInv, LiveFits
        <4> QED  BY <1>15, <2>1, <4>2
      <3> QED  BY <3>1, <3>2
    <2>5. live' \subseteq PathNodes \cup {walk'[u].node : u \in Inserting'}
      BY <2>4
    <2> QED  BY <1>12, <2>3, <2>5 DEF LiveFits
  <1>18. PathsDiffer'
    BY <1>12 DEF TreeInv, PathsDiffer
  <1>19. PathsFill'
    <2> SUFFICES ASSUME NEW m \in Maps, NEW k \in Keys, NEW d \in 0 .. Depth - 1, NEW i \in Indices,
                        NEW o, o = Node(m, k, d + 1), o # Null, slot'[<<o, i>>] # Null
                 PROVE  \E l \in Maps, j \in Keys : slot'[<<o, i>>] = Node(l, j, d)
      <3>1. \A d \in 0 .. Depth - 1 : d \in 0 .. Depth /\ d + 1 \in 0 .. Depth
        BY SlotsFit
      <3> QED  BY <1>12, <3>1 DEF PathsFill
    <2>1. d + 1 \in 0 .. Depth
      BY SlotsFit
    <2>2. o \in PathNodes /\ o \in Values \ {Null}
      BY <1>9, <2>1, PathNodesFit DEF TreeInv, TMTypeOK, Values
    <2>3. slot'[<<o, i>>] = slot[<<o, i>>]
      BY <1>9, <1>11, <2>2
    <2> QED  BY <2>3 DEF TreeInv, PathsFill
  <1>20. \A o \in PathNodes : content'[o] = content[o]
    BY <1>3, <1>5, <1>9 DEF TMTypeOK
  <1> QED  BY <1>7, <1>8, <1>12, <1>14, <1>16, <1>17, <1>18, <1>19, <1>20 DEF TreeInv

(* From a slot that points to n.                                           *)
GoesOn(y, w, n) ==
    /\ y \in Walks
    /\ y.map = w.map /\ y.key = w.key /\ y.creates = w.creates
    /\ y.map \in Maps /\ y.key \in Keys
    /\ \/ w.depth = 0 /\ y.phase = "found" /\ y.node = n
       \/ /\ w.depth # 0 /\ y.phase = "load" /\ y.node = Null
          /\ y.depth \in 0 .. Depth /\ y.depth # Depth /\ y.depth + 1 = w.depth
          /\ y.slot = <<n, entry_index(y.key, y.depth)>>

LEMMA WalkGoesOn ==
    ASSUME NEW w \in Walks, w.map \in Maps, w.key \in Keys, w.depth \in 0 .. Depth,
           NEW n \in Values \ {Null}, NEW y, y = lookup_value_entry(w, n)
    PROVE  GoesOn(y, w, n)
  <1>1. CASE w.depth = 0
    <2>1. y = [w EXCEPT !.phase = "found", !.node = n]
      BY <1>1 DEF lookup_value_entry
    <2>2. /\ y \in Walks /\ y.phase = "found" /\ y.node = n
          /\ y.map = w.map /\ y.key = w.key /\ y.creates = w.creates
      BY <2>1 DEF Walks, Phases
    <2> QED  BY <1>1, <2>2 DEF GoesOn
  <1>2. CASE w.depth # 0
    <2>1. y = [w EXCEPT !.phase = "load", !.node = Null, !.depth = @ - 1,
                        !.slot = <<n, entry_index(w.key, w.depth - 1)>>]
      BY <1>2 DEF lookup_value_entry
    <2>2. w.depth - 1 \in 0 .. Depth /\ w.depth - 1 # Depth /\ (w.depth - 1) + 1 = w.depth /\ w.depth - 1 \in Nat
      BY <1>2, SlotsFit
    <2>3. entry_index(w.key, w.depth - 1) \in Indices
      BY <2>2, SlotsFit
    <2>4. <<n, entry_index(w.key, w.depth - 1)>> \in (Maps \cup Nodes \cup {0}) \X Nat
      BY <2>3, SlotsFit
    <2>5. /\ y.phase = "load" /\ y.node = Null /\ y.depth = w.depth - 1
          /\ y.slot = <<n, entry_index(w.key, w.depth - 1)>>
          /\ y.map = w.map /\ y.key = w.key /\ y.creates = w.creates
      BY <2>1 DEF Walks
    <2>6. y \in Walks
      BY <2>1, <2>2, <2>4, SlotsFit DEF Walks, Phases
    <2>7. y.depth \in 0 .. Depth /\ y.depth # Depth /\ y.depth + 1 = w.depth
      BY <2>2, <2>5, Zenon
    <2>8. y.slot = <<n, entry_index(y.key, y.depth)>>
      BY <2>5, Zenon
    <2> QED  BY <1>2, <2>5, <2>6, <2>7, <2>8 DEF GoesOn
  <1> QED  BY <1>1, <1>2

(* The compare-and-swap that succeeds.                                     *)
LEMMA InsertionKeepsTree ==
    ASSUME TreeInv, NEW t \in Threads, walk[t].phase = "insert", slot[walk[t].slot] = Null,
           slot' = [slot EXCEPT ![walk[t].slot] = walk[t].node],
           walk' = [walk EXCEPT ![t] = lookup_value_entry(walk[t], walk[t].node)],
           UNCHANGED <<live, content>>
    PROVE  /\ TreeInv' /\ PathsLast
           /\ \A m \in Maps, k \in Keys, d \in 0 .. Depth :
                 \/ Node(m, k, d)' = Node(m, k, d)
                 \/ Node(m, k, d) = Null /\ Node(m, k, d)' # Null /\ content[Node(m, k, d)'] = 0
           /\ \E y : walk' = [walk EXCEPT ![t] = y] /\ GoesOn(y, walk[t], walk[t].node)
  <1>1. PICK w : w = walk[t]
    OBVIOUS
  <1>2. PICK n : n = w.node
    OBVIOUS
  <1>3. PICK y : y = lookup_value_entry(w, n)
    OBVIOUS
  <1>4. PICK p : p = w.slot
    OBVIOUS
  <1>5. PICK m \in Maps, k \in Keys, d \in 0 .. Depth : m = w.map /\ k = w.key /\ d = w.depth /\ SlotOf(p, m, k, d)
    BY <1>1, <1>4 DEF TreeInv, WalkFits
  <1>6. /\ TMTypeOK /\ PathsDiffer /\ w \in Walks /\ t \in Inserting /\ WalkFits(w)
        /\ slot \in [Slots -> Values] /\ w.phase = "insert"
    BY <1>1 DEF TreeInv, TMTypeOK, Inserting
  <1>7. /\ n \in live /\ n \in Nodes /\ n \notin PathNodes /\ content[n] = 0
        /\ \A i \in Indices : slot[<<n, i>>] = Null
        /\ \A u \in Inserting \ {t} : walk[u].node # n
    BY <1>1, <1>2, <1>6 DEF TreeInv, NewNodesFit, TMTypeOK
  <1>8. Grows(n, p, m, k, d)
    BY <1>1, <1>2, <1>4, <1>5, <1>7 DEF Grows
  <1>9. /\ slot' \in [Slots -> Values] /\ p \in Slots /\ slot'[p] = n
        /\ \A q \in Slots : q # p => slot'[q] = slot[q]
        /\ \A i \in Indices : slot'[<<n, i>>] = Null
        /\ n # Null /\ n \in Values
    BY <1>6, <1>8, SlotsGrow
  <1>10. PathsLast /\ PathNodes' = PathNodes \cup {n} /\ Node(m, k, d)' = n
    BY <1>6, <1>8, GrowingPathsLast
  <1>11. \A l \in Maps, j \in Keys, e \in 0 .. Depth :
            Node(l, j, e)' = IF l = m /\ e = d /\ Agree(j, k, d) THEN n ELSE Node(l, j, e)
    BY <1>6, <1>8, PathsGrow
  <1>12. \A l \in Maps, j \in Keys, e \in 0 .. Depth : Node(l, j, e) # n
    BY <1>6, <1>7, <1>9, PathNodesFit
  <1>13. GoesOn(y, w, n) /\ walk' = [walk EXCEPT ![t] = y]
    BY <1>1, <1>2, <1>3, <1>5, <1>6, <1>9, WalkGoesOn
  <1>14. WalkFits(y)'
    <2>1. CASE w.depth = 0
      <3>1. y.phase = "found" /\ y.node = n /\ y.map = m /\ y.key = k /\ d = 0
        BY <1>5, <1>13, <2>1 DEF GoesOn
      <3> QED  BY <1>9, <1>10, <3>1 DEF WalkFits
    <2>2. CASE w.depth # 0
      <3>1. /\ y.phase = "load" /\ y.node = Null
            /\ y.depth \in 0 .. Depth /\ y.depth # Depth /\ y.depth + 1 = d
            /\ y.slot = <<n, entry_index(k, y.depth)>> /\ y.map = m /\ y.key = k
        BY <1>5, <1>13, <2>2 DEF GoesOn
      <3>2. PICK e : e = y.depth
        OBVIOUS
      <3>3. SlotOf(y.slot, m, k, e)'
        BY <1>9, <1>10, <3>1, <3>2 DEF SlotOf
      <3> QED  BY <3>1, <3>2, <3>3 DEF WalkFits
    <2> QED  BY <2>1, <2>2
  <1>15. \A u \in Threads : WalkFits(walk[u])'
    BY <1>6, <1>10, <1>13, <1>14, WalksLast DEF TreeInv
  <1>16. TMTypeOK'
    BY <1>6, <1>9, <1>13 DEF TMTypeOK, GoesOn
  <1>17. /\ walk'[t] = y /\ (\A u \in Threads : u # t => walk'[u] = walk[u])
         /\ Inserting' = Inserting \ {t}
    <2>1. walk'[t] = y /\ \A u \in Threads : u # t => walk'[u] = walk[u]
      BY <1>6, <1>13 DEF TMTypeOK
    <2>2. y.phase # "insert"
      BY <1>13 DEF GoesOn
    <2> QED  BY <2>1, <2>2 DEF Inserting
  <1>18. NewNodesFit'
    <2> SUFFICES ASSUME NEW u \in Inserting \ {t}
                 PROVE  /\ walk'[u].node \in live' /\ walk'[u].node \notin PathNodes'
                        /\ content'[walk'[u].node] = 0
                        /\ \A i \in Indices : slot'[<<walk'[u].node, i>>] = Null
                        /\ \A v \in Inserting' \ {u} : walk'[v].node # walk'[u].node
      BY <1>17 DEF NewNodesFit
    <2>1. PICK o : o = walk[u].node
      OBVIOUS
    <2>2. walk'[u].node = o /\ \A v \in Inserting' : v \in Inserting /\ walk'[v] = walk[v]
      BY <1>17, <2>1 DEF Inserting
    <2>3. /\ o \in live /\ o \in Nodes /\ o # n /\ o \notin PathNodes /\ content[o] = 0
          /\ \A i \in Indices : slot[<<o, i>>] = Null
          /\ \A v \in Inserting \ {u} : walk[v].node # o
      BY <1>6, <1>7, <2>1 DEF TreeInv, NewNodesFit, TMTypeOK
    <2>4. ASSUME NEW i \in Indices PROVE slot'[<<o, i>>] = Null
      <3>1. <<o, i>> \in Slots /\ <<o, i>>[1] = o /\ o \notin Maps
        BY <2>3, NodesAreNumbers DEF Slots
      <3>2. p[1] # o
        BY <1>5, <1>6, <2>3, <3>1, SlotOfPath
      <3> QED  BY <1>9, <2>3, <3>1, <3>2
    <2>5. \A v \in Inserting' \ {u} : walk'[v].node # o
      BY <2>2, <2>3
    <2>6. o \in live' /\ o \notin PathNodes' /\ content'[o] = 0
      BY <1>10, <2>3
    <2> QED  BY <2>2, <2>4, <2>5, <2>6
  <1>19. LiveFits'
    <2>1. PathNodes' \subseteq live'
      BY <1>7, <1>10 DEF TreeInv, LiveFits
    <2>2. ASSUME NEW o \in live', o \notin PathNodes'
          PROVE  \E u \in Inserting' : o = walk'[u].node
      <3>1. o \in live /\ o \notin PathNodes /\ o # n
        BY <1>10, <2>2
      <3>2. PICK u \in Inserting : o = walk[u].node
        BY <3>1 DEF TreeInv, LiveFits
      <3>3. u # t /\ u \in Threads
        BY <1>1, <1>2, <3>1, <3>2 DEF Inserting
      <3> QED  BY <1>17, <3>2, <3>3
    <2>3. live' \subseteq PathNodes' \cup {walk'[u].node : u \in Inserting'}
      BY <2>2
    <2> QED  BY <2>1, <2>3 DEF LiveFits
  <1>20. PathsDiffer'
    <2> SUFFICES ASSUME NEW a \in Maps, NEW b \in Maps, NEW i \in Keys, NEW j \in Keys,
                        NEW e \in 0 .. Depth, NEW f \in 0 .. Depth,
                        Node(a, i, e)' # Null, Node(a, i, e)' = Node(b, j, f)'
                 PROVE  a = b /\ e = f /\ Agree(i, j, e)
      BY DEF PathsDiffer, Agree
    <2> DEFINE hit == a = m /\ e = d /\ Agree(i, k, d)
               met == b = m /\ f = d /\ Agree(j, k, d)
    <2>1. /\ hit => Node(a, i, e)' = n
          /\ ~hit => Node(a, i, e)' = Node(a, i, e)
          /\ met => Node(b, j, f)' = n
          /\ ~met => Node(b, j, f)' = Node(b, j, f)
      BY <1>11
    <2>2. CASE hit /\ met
      BY <2>2 DEF Agree
    <2>3. CASE ~hit /\ ~met
      <3>1. Node(a, i, e) # Null /\ Node(a, i, e) = Node(b, j, f)
        BY <2>1, <2>3
      <3> QED  BY <1>6, <3>1 DEF PathsDiffer
    <2> HIDE DEF hit, met
    <2>4. CASE (hit /\ ~met) \/ (~hit /\ met)
      BY <1>12, <2>1, <2>4
    <2> QED  BY <2>2, <2>3, <2>4
  <1>21. PathsFill'
    <2> SUFFICES ASSUME NEW a \in Maps, NEW i \in Keys, NEW e \in 0 .. Depth - 1, NEW x \in Indices,
                        NEW o, o = Node(a, i, e + 1)', o # Null, slot'[<<o, x>>] # Null
                 PROVE  \E l \in Maps, j \in Keys : slot'[<<o, x>>] = Node(l, j, e)'
      BY DEF PathsFill
    <2>1. e + 1 \in 0 .. Depth /\ e \in 0 .. Depth
      BY SlotsFit
    <2>2. o # n
      BY <1>9
    <2>3. o = Node(a, i, e + 1)
      BY <1>11, <2>1, <2>2
    <2>4. o \in Values
      BY <1>6, <2>1, <2>3, PathSteps
    <2>5. <<o, x>> \in Slots
      BY <2>4, SlotsFit
    <2>6. CASE <<o, x>> = p
      <3>1. d # Depth
        BY <1>5, <2>4, <2>6, SlotsFit DEF SlotOf
      <3>2. d + 1 \in 0 .. Depth /\ o = Node(m, k, d + 1)
        BY <1>5, <2>6, <3>1, SlotsFit DEF SlotOf
      <3>3. e + 1 = d + 1
        BY <1>6, <2>1, <2>3, <3>2 DEF PathsDiffer
      <3>4. e = d
        BY <3>3
      <3> QED  BY <1>5, <1>9, <1>10, <2>6, <3>4
    <2>7. CASE <<o, x>> # p
      <3>1. slot'[<<o, x>>] = slot[<<o, x>>]
        BY <1>9, <2>5, <2>7
      <3>2. PICK l \in Maps, j \in Keys : slot[<<o, x>>] = Node(l, j, e)
        BY <2>3, <3>1 DEF TreeInv, PathsFill
      <3>3. Node(l, j, e) # Null
        BY <3>1, <3>2
      <3>4. Node(l, j, e)' = Node(l, j, e)
        BY <1>10, <2>1, <3>3 DEF PathsLast
      <3> QED  BY <3>1, <3>2, <3>4
    <2> QED  BY <2>6, <2>7
  <1>22. ASSUME NEW a \in Maps, NEW i \in Keys, NEW e \in 0 .. Depth
         PROVE  \/ Node(a, i, e)' = Node(a, i, e)
                \/ Node(a, i, e) = Null /\ Node(a, i, e)' # Null /\ content[Node(a, i, e)'] = 0
    <2>1. CASE a = m /\ e = d /\ Agree(i, k, d)
      <3>1. Node(a, i, e)' = n
        BY <1>11, <2>1
      <3>2. Node(a, i, e) = Null
        BY <1>1, <1>4, <1>5, <1>6, <2>1, SlotIsShared, SlotOfPath
      <3> QED  BY <1>7, <1>9, <3>1, <3>2
    <2>2. CASE ~(a = m /\ e = d /\ Agree(i, k, d))
      BY <1>11, <2>2
    <2> QED  BY <2>1, <2>2
  <1>23. \E z : walk' = [walk EXCEPT ![t] = z] /\ GoesOn(z, walk[t], walk[t].node)
    BY <1>1, <1>2, <1>13
  <1> QED  BY <1>10, <1>15, <1>16, <1>18, <1>19, <1>20, <1>21, <1>22, <1>23 DEF TreeInv

(* The compare-and-swap that comes too late.                               *)
LEMMA DestructionKeepsTree ==
    ASSUME TreeInv, NEW t \in Threads, walk[t].phase = "insert",
           live' = live \ {walk[t].node},
           walk' = [walk EXCEPT ![t].phase = "load", ![t].node = Null],
           UNCHANGED <<slot, content>>
    PROVE  /\ TreeInv' /\ \A m, k, d : Node(m, k, d)' = Node(m, k, d)
           /\ walk' = [walk EXCEPT ![t] = [@ EXCEPT !.phase = "load", !.node = Null]]
  <1>1. PICK w : w = walk[t]
    OBVIOUS
  <1>2. PICK n : n = w.node
    OBVIOUS
  <1> DEFINE y == [w EXCEPT !.phase = "load", !.node = Null]
  <1>3. TMTypeOK /\ w \in Walks /\ t \in Inserting /\ w.phase = "insert" /\ WalkFits(w)
    BY <1>1 DEF TreeInv, TMTypeOK, Inserting
  <1>4. /\ walk' = [walk EXCEPT ![t] = y] /\ y \in Walks
        /\ y.phase = "load" /\ y.slot = w.slot /\ y.map = w.map /\ y.key = w.key
        /\ y.depth = w.depth /\ y.node = Null
    <2>1. y \in Walks
      BY <1>3, SlotsFit DEF Walks, Phases
    <2> QED  BY <1>1, <1>3, <2>1 DEF Walks, TMTypeOK
  <1>5. walk' = [walk EXCEPT ![t] = [@ EXCEPT !.phase = "load", !.node = Null]]
    BY <1>1, <1>3, <1>4 DEF TMTypeOK
  <1> HIDE DEF y
  <1>6. /\ n \notin PathNodes /\ \A u \in Inserting \ {t} : walk[u].node # n
    BY <1>1, <1>2, <1>3 DEF TreeInv, NewNodesFit
  <1>7. \A m, k, d : Node(m, k, d)' = Node(m, k, d)
    BY DEF Node
  <1>8. PathNodes' = PathNodes
    BY <1>7 DEF PathNodes
  <1>9. TMTypeOK'
    BY <1>3, <1>4 DEF TMTypeOK
  <1>10. \A u \in Threads : WalkFits(walk[u])'
    <2>1. PathsLast
      BY <1>7, <1>9 DEF PathsLast, TMTypeOK
    <2>2. WalkFits(y)
      BY <1>3, <1>4 DEF WalkFits
    <2>3. WalkFits(y)'
      BY <2>1, <2>2, WalkLasts
    <2> QED  BY <1>3, <1>4, <2>1, <2>3, WalksLast DEF TreeInv
  <1>11. /\ (\A u \in Threads : u # t => walk'[u] = walk[u]) /\ Inserting' = Inserting \ {t}
    <2>1. walk'[t] = y /\ \A u \in Threads : u # t => walk'[u] = walk[u]
      BY <1>3, <1>4 DEF TMTypeOK
    <2> QED  BY <1>4, <2>1 DEF Inserting
  <1>12. live' = live \ {n}
    BY <1>1, <1>2
  <1>13. NewNodesFit'
    <2> SUFFICES ASSUME NEW u \in Inserting \ {t}
                 PROVE  /\ walk'[u].node \in live' /\ walk'[u].node \notin PathNodes
                        /\ content[walk'[u].node] = 0
                        /\ \A i \in Indices : slot[<<walk'[u].node, i>>] = Null
                        /\ \A v \in Inserting' \ {u} : walk'[v].node # walk'[u].node
      BY <1>8, <1>11 DEF NewNodesFit
    <2>1. PICK o : o = walk[u].node
      OBVIOUS
    <2>2. walk'[u].node = o /\ \A v \in Inserting' : v \in Inserting /\ walk'[v] = walk[v]
      BY <1>11, <2>1 DEF Inserting
    <2>3. /\ o \in live /\ o # n /\ o \notin PathNodes /\ content[o] = 0
          /\ \A i \in Indices : slot[<<o, i>>] = Null
          /\ \A v \in Inserting \ {u} : walk[v].node # o
      BY <1>6, <2>1 DEF TreeInv, NewNodesFit
    <2>4. \A v \in Inserting' \ {u} : walk'[v].node # o
      BY <2>2, <2>3
    <2>5. o \in live'
      BY <1>12, <2>3
    <2> QED  BY <2>2, <2>3, <2>4, <2>5
  <1>14. LiveFits'
    <2>1. PathNodes \subseteq live'
      BY <1>6, <1>12 DEF TreeInv, LiveFits
    <2>2. ASSUME NEW o \in live', o \notin PathNodes
          PROVE  \E u \in Inserting' : o = walk'[u].node
      <3>1. o \in live /\ o # n
        BY <1>12, <2>2
      <3>2. PICK u \in Inserting : o = walk[u].node
        BY <2>2, <3>1 DEF TreeInv, LiveFits
      <3>3. u # t /\ u \in Threads
        BY <1>1, <1>2, <3>1, <3>2 DEF Inserting
      <3> QED  BY <1>11, <3>2, <3>3
    <2>3. live' \subseteq PathNodes \cup {walk'[u].node : u \in Inserting'}
      BY <2>2
    <2> QED  BY <1>8, <2>1, <2>3 DEF LiveFits
  <1>15. PathsDiffer'
    BY <1>7 DEF TreeInv, PathsDiffer
  <1>16. PathsFill'
    BY <1>7 DEF TreeInv, PathsFill
  <1> QED  BY <1>5, <1>7, <1>9, <1>10, <1>13, <1>14, <1>15, <1>16 DEF TreeInv

LEMMA AtRestFits == AtRest \in Walks /\ AtRest.phase = "off" /\ WalkFits(AtRest)
  BY SlotsFit DEF AtRest, Walks, Phases, WalkFits

(* The first step of a look-up.                                            *)
LEMMA StartKeepsTree ==
    ASSUME TreeInv, NEW t \in Threads, NEW m \in Maps, NEW k \in Keys, NEW c \in BOOLEAN,
           walk[t].phase = "off", picotm_shared_treemap_find_value(t, m, k, c),
           UNCHANGED <<slot, live, content>>
    PROVE  /\ TreeInv' /\ \A l, j, d : Node(l, j, d)' = Node(l, j, d)
           /\ \E y \in Walks : /\ walk' = [walk EXCEPT ![t] = y] /\ y.phase = "load"
                               /\ y.map = m /\ y.key = k /\ y.creates = c
  <1> DEFINE y == [phase |-> "load", slot |-> <<m, 0>>, depth |-> Depth,
                   map |-> m, key |-> k, creates |-> c, node |-> Null]
  <1>1. walk' = [walk EXCEPT ![t] = y]
    BY DEF picotm_shared_treemap_find_value
  <1>2. y \in Walks
    <2>1. m \in Nat /\ k \in Nat
      BY NodesAreNumbers, PowerSteps DEF Keys
    <2> QED  BY <2>1, SlotsFit DEF Walks, Phases
  <1>3. /\ y.phase = "load" /\ y.map = m /\ y.key = k /\ y.creates = c /\ y.slot = <<m, 0>>
        /\ y.depth = Depth /\ y.node = Null
    OBVIOUS
  <1> HIDE DEF y
  <1>4. WalkFits(y)
    BY <1>3, SlotsFit DEF WalkFits, SlotOf
  <1>5. TreeInv' /\ \A l, j, d : Node(l, j, d)' = Node(l, j, d)
    <2>1. content' \in [Nodes -> Nat]
      BY DEF TreeInv, TMTypeOK
    <2> QED  BY <1>1, <1>2, <1>3, <1>4, <2>1, MoveKeepsTree
  <1> QED  BY <1>1, <1>2, <1>3, <1>5

(* What a step of a look-up does to its thread: it goes on its way.        *)
OnItsWay(y, w) ==
    /\ y \in Walks /\ y.map = w.map /\ y.key = w.key /\ y.creates = w.creates
    /\ w.phase \in {"load", "insert"} /\ y.phase # "off"

(* A value that is found for the first time is empty.                      *)
ValuesLast ==
    \A m \in Maps, k \in Keys :
        \/ /\ Node(m, k, 0)' = Node(m, k, 0)
           /\ Node(m, k, 0) # Null => content'[Node(m, k, 0)] = content[Node(m, k, 0)]
        \/ Node(m, k, 0) = Null /\ Node(m, k, 0)' # Null /\ content'[Node(m, k, 0)'] = 0

LEMMA LoadKeepsTree ==
    ASSUME TreeInv, NEW t \in Threads, retrieve_load(t)
    PROVE  /\ TreeInv' /\ ValuesLast
           /\ \E y : walk' = [walk EXCEPT ![t] = y] /\ OnItsWay(y, walk[t])
  <1>1. PICK w : w = walk[t]
    OBVIOUS
  <1>2. PICK n : n = slot[w.slot]
    OBVIOUS
  <1>3. /\ TMTypeOK /\ w \in Walks /\ w.phase = "load" /\ WalkFits(w)
        /\ slot \in [Slots -> Values] /\ content \in [Nodes -> Nat]
    BY <1>1 DEF retrieve_load, TreeInv, TMTypeOK
  <1>4. PICK m \in Maps, k \in Keys, d \in 0 .. Depth : m = w.map /\ k = w.key /\ d = w.depth /\ SlotOf(w.slot, m, k, d)
    BY <1>3 DEF WalkFits
  <1>5. Node(m, k, d) = n /\ w.slot \in Slots /\ n \in Values
    BY <1>2, <1>3, <1>4, SlotOfPath
  <1>6. ASSUME NEW y, walk' = [walk EXCEPT ![t] = y], y \in Walks, WalkFits(y), y.phase # "insert",
               y.phase # "off", y.map = w.map, y.key = w.key, y.creates = w.creates,
               UNCHANGED <<slot, live, content>>
        PROVE  /\ TreeInv' /\ ValuesLast
               /\ \E z : walk' = [walk EXCEPT ![t] = z] /\ OnItsWay(z, walk[t])
    <2>1. TreeInv' /\ \A a, b, c : Node(a, b, c)' = Node(a, b, c)
      BY <1>1, <1>3, <1>6, MoveKeepsTree
    <2>2. ValuesLast
      BY <1>6, <2>1 DEF ValuesLast
    <2>3. OnItsWay(y, walk[t])
      BY <1>1, <1>3, <1>6 DEF OnItsWay
    <2> QED  BY <1>6, <2>1, <2>2, <2>3
  <1>7. CASE n # Null /\ walk' = [walk EXCEPT ![t] = lookup_value_entry(w, n)] /\ UNCHANGED <<slot, live, content>>
    <2>1. PICK y : y = lookup_value_entry(w, n)
      OBVIOUS
    <2>2. GoesOn(y, w, n)
      BY <1>3, <1>4, <1>5, <1>7, <2>1, WalkGoesOn
    <2>3. y \in Walks /\ y.phase # "insert" /\ y.phase # "off" /\ y.map = w.map /\ y.key = w.key /\ y.creates = w.creates
      BY <2>2 DEF GoesOn
    <2>4. WalkFits(y)
      <3>1. CASE w.depth = 0
        BY <1>4, <1>5, <1>7, <2>2, <3>1 DEF GoesOn, WalkFits
      <3>2. CASE w.depth # 0
        <4>1. /\ y.phase = "load" /\ y.node = Null
              /\ y.depth \in 0 .. Depth /\ y.depth # Depth /\ y.depth + 1 = d
              /\ y.slot = <<n, entry_index(k, y.depth)>> /\ y.map = m /\ y.key = k
          BY <1>4, <2>2, <3>2 DEF GoesOn
        <4>2. SlotOf(y.slot, m, k, y.depth)
          BY <1>5, <1>7, <4>1 DEF SlotOf
        <4> QED  BY <4>1, <4>2 DEF WalkFits
      <3> QED  BY <3>1, <3>2
    <2> QED  BY <1>6, <1>7, <2>1, <2>3, <2>4
  <1>8. ASSUME NEW ph \in {"found", "no_memory"}, ph = "found" => ~w.creates /\ w.node = Null,
               walk' = [walk EXCEPT ![t].phase = ph], UNCHANGED <<slot, live, content>>
        PROVE  /\ TreeInv' /\ ValuesLast
               /\ \E z : walk' = [walk EXCEPT ![t] = z] /\ OnItsWay(z, walk[t])
    <2> DEFINE y == [w EXCEPT !.phase = ph]
    <2>1. /\ y \in Walks /\ y.phase = ph /\ y.map = w.map /\ y.key = w.key /\ y.creates = w.creates
          /\ y.node = w.node
      BY <1>3 DEF Walks, Phases
    <2>2. walk' = [walk EXCEPT ![t] = y]
      BY <1>1, <1>3, <1>8 DEF TMTypeOK
    <2> HIDE DEF y
    <2>3. WalkFits(y)
      BY <1>4, <1>8, <2>1 DEF WalkFits
    <2> QED  BY <1>6, <1>8, <2>1, <2>2, <2>3
  <1>9. CASE n = Null /\ w.creates /\ Created(t)
    <2>1. /\ TreeInv' /\ PathNodes' = PathNodes
          /\ \A a \in Maps, b \in Keys, c \in 0 .. Depth : Node(a, b, c)' = Node(a, b, c)
          /\ \A o \in PathNodes : content'[o] = content[o]
      BY <1>1, <1>3, <1>9, CreationKeepsTree
    <2>2. PICK o \in Nodes : walk' = [walk EXCEPT ![t] = [@ EXCEPT !.phase = "insert", !.node = o]]
      BY <1>1, <1>3, <1>9, CreationKeepsTree
    <2>3. ValuesLast
      <3>1. 0 \in 0 .. Depth
        BY SlotsFit
      <3> QED  BY <1>3, <2>1, <3>1, PathNodesFit DEF ValuesLast
    <2> DEFINE y == [w EXCEPT !.phase = "insert", !.node = o]
    <2>4. walk' = [walk EXCEPT ![t] = y] /\ OnItsWay(y, w)
      <3>1. o \in Values
        BY DEF Values
      <3>2. OnItsWay(y, w)
        BY <1>3, <3>1 DEF OnItsWay, Walks, Phases
      <3> QED  BY <1>1, <2>2, <3>2
    <2> HIDE DEF y
    <2> QED  BY <1>1, <2>1, <2>3, <2>4
  <1>10. \/ n # Null /\ walk' = [walk EXCEPT ![t] = lookup_value_entry(w, n)] /\ UNCHANGED <<slot, live, content>>
         \/ n = Null /\ ~w.creates /\ walk' = [walk EXCEPT ![t].phase = "found"] /\ UNCHANGED <<slot, live, content>>
         \/ n = Null /\ w.creates /\ Created(t)
         \/ n = Null /\ w.creates /\ walk' = [walk EXCEPT ![t].phase = "no_memory"] /\ UNCHANGED <<slot, live, content>>
    BY <1>1, <1>2 DEF retrieve_load
  <1>11. w.node = Null
    BY <1>3 DEF WalkFits
  <1> QED  BY <1>7, <1>8, <1>9, <1>10, <1>11

LEMMA InsertKeepsTree ==
    ASSUME TreeInv, NEW t \in Threads, retrieve_insert(t)
    PROVE  /\ TreeInv' /\ ValuesLast
           /\ \E y : walk' = [walk EXCEPT ![t] = y] /\ OnItsWay(y, walk[t])
  <1>1. walk[t].phase = "insert" /\ UNCHANGED content /\ walk[t] \in Walks
    BY DEF retrieve_insert, TreeInv, TMTypeOK
  <1>2. 0 \in 0 .. Depth
    BY SlotsFit
  <1>3. CASE /\ slot[walk[t].slot] = Null
             /\ slot' = [slot EXCEPT ![walk[t].slot] = walk[t].node]
             /\ walk' = [walk EXCEPT ![t] = lookup_value_entry(walk[t], walk[t].node)]
             /\ UNCHANGED live
    <2>1. /\ TreeInv'
          /\ \A m \in Maps, k \in Keys, d \in 0 .. Depth :
                \/ Node(m, k, d)' = Node(m, k, d)
                \/ Node(m, k, d) = Null /\ Node(m, k, d)' # Null /\ content[Node(m, k, d)'] = 0
      BY <1>1, <1>3, InsertionKeepsTree
    <2>2. PICK y : walk' = [walk EXCEPT ![t] = y] /\ GoesOn(y, walk[t], walk[t].node)
      BY <1>1, <1>3, InsertionKeepsTree
    <2>3. ValuesLast
      BY <1>1, <1>2, <2>1 DEF ValuesLast
    <2>4. OnItsWay(y, walk[t])
      BY <1>1, <2>2 DEF GoesOn, OnItsWay
    <2> QED  BY <2>1, <2>2, <2>3, <2>4
  <1>4. CASE /\ live' = live \ {walk[t].node}
             /\ walk' = [walk EXCEPT ![t].phase = "load", ![t].node = Null]
             /\ UNCHANGED slot
    <2>1. /\ TreeInv' /\ \A m, k, d : Node(m, k, d)' = Node(m, k, d)
          /\ walk' = [walk EXCEPT ![t] = [@ EXCEPT !.phase = "load", !.node = Null]]
      BY <1>1, <1>4, DestructionKeepsTree
    <2>2. ValuesLast
      BY <1>1, <2>1 DEF ValuesLast
    <2> DEFINE y == [walk[t] EXCEPT !.phase = "load", !.node = Null]
    <2>3. OnItsWay(y, walk[t])
      BY <1>1, SlotsFit DEF OnItsWay, Walks, Phases
    <2>4. walk' = [walk EXCEPT ![t] = y]
      BY <2>1
    <2> HIDE DEF y
    <2> QED  BY <2>1, <2>2, <2>3, <2>4
  <1> QED  BY <1>3, <1>4 DEF retrieve_insert

LEMMA WalkKeepsTree ==
    ASSUME TreeInv, NEW t \in Threads, Walk(t)
    PROVE  /\ TreeInv' /\ ValuesLast
           /\ \E y : walk' = [walk EXCEPT ![t] = y] /\ OnItsWay(y, walk[t])
  BY LoadKeepsTree, InsertKeepsTree DEF Walk

(* The empty trees.                                                        *)
LEMMA TreesStart ==
    ASSUME TMInit
    PROVE  /\ TreeInv /\ \A m \in Maps, k \in Keys, d \in 0 .. Depth : Node(m, k, d) = Null
  <1>1. /\ slot = [s \in Slots |-> Null] /\ live = {} /\ content = [n \in Nodes |-> 0]
        /\ walk = [t \in Threads |-> AtRest]
    BY DEF TMInit
  <1>2. TMTypeOK
    BY <1>1, AtRestFits, SlotsFit DEF TMTypeOK
  <1>3. ASSUME NEW m \in Maps, NEW k \in Keys
        PROVE  \A d \in 0 .. Depth : Node(m, k, d) = Null
    <2> DEFINE f == [d \in 0 .. Depth |-> Null]
    <2>1. Way(f, slot, m, k)
      <3>1. slot[<<m, 0>>] = Null
        BY <1>1, SlotsFit
      <3>2. \A d \in 0 .. Depth - 1 : d \in 0 .. Depth /\ d + 1 \in 0 .. Depth
        BY SlotsFit
      <3> QED  BY <3>1, <3>2, SlotsFit DEF Way
    <2>2. Way(PathIn(slot, m, k), slot, m, k)
      BY <1>2, PathIsTheWay DEF TMTypeOK
    <2> HIDE DEF f
    <2>3. \A d \in 0 .. Depth : PathIn(slot, m, k)[d] = f[d]
      BY <2>1, <2>2, WayIsUnique
    <2> QED  BY <2>3 DEF Node, f
  <1>4. PathNodes = {}
    BY <1>3 DEF PathNodes
  <1>5. Inserting = {}
    BY <1>1, AtRestFits DEF Inserting
  <1>6. \A t \in Threads : WalkFits(walk[t])
    BY <1>1, AtRestFits
  <1>7. NewNodesFit /\ LiveFits
    BY <1>1, <1>4, <1>5 DEF NewNodesFit, LiveFits
  <1>8. PathsDiffer
    BY <1>3 DEF PathsDiffer
  <1>9. PathsFill
    <2>1. \A d \in 0 .. Depth - 1 : d + 1 \in 0 .. Depth
      BY SlotsFit
    <2> QED  BY <1>3, <2>1 DEF PathsFill
  <1> QED  BY <1>2, <1>3, <1>6, <1>7, <1>8, <1>9 DEF TreeInv

-----------------------------------------------------------------------------
(* What the clean-up destroys.                                             *)

Level(d) == {Node(m, k, d) : m \in Maps, k \in Keys} \ {Null}

LEMMA LevelsFollow ==
    ASSUME TreeInv
    PROVE  /\ Level(Depth) = Roots
           /\ \A d \in 0 .. Depth - 1 : Level(d) = EntriesOf(Level(d + 1))
  <1>0. slot \in [Slots -> Values] /\ Depth \in Nat /\ 0 \in Keys
    <2>1. 0 \in Keys
      <3>1. power[KeyBits] \in Nat \ {0}
        BY NodesAreNumbers, PowerPositive
      <3> QED  BY <3>1 DEF Keys
    <2> QED  BY <2>1, SlotsFit DEF TreeInv, TMTypeOK
  <1>1. Level(Depth) = Roots
    <2>1. \A m \in Maps, k \in Keys : Node(m, k, Depth) = slot[<<m, 0>>]
      BY <1>0, PathSteps
    <2>2. ASSUME NEW n PROVE n \in Level(Depth) => n \in Roots
      BY <2>1 DEF Level, Roots
    <2>3. ASSUME NEW n \in Roots PROVE n \in Level(Depth)
      <3>1. PICK m \in Maps : n = slot[<<m, 0>>] /\ n # Null
        BY DEF Roots
      <3>2. n = Node(m, 0, Depth)
        BY <1>0, <2>1, <3>1
      <3> QED  BY <1>0, <3>1, <3>2 DEF Level
    <2> QED  BY <2>2, <2>3
  <1>2. ASSUME NEW d \in 0 .. Depth - 1
        PROVE  Level(d) = EntriesOf(Level(d + 1))
    <2>0. d \in 0 .. Depth /\ d + 1 \in 0 .. Depth
      BY <1>0
    <2>1. ASSUME NEW m \in Maps, NEW k \in Keys, Node(m, k, d) # Null
          PROVE  Node(m, k, d) \in EntriesOf(Level(d + 1))
      <3>1. Node(m, k, d) = IF Node(m, k, d + 1) = Null THEN Null
                            ELSE slot[<<Node(m, k, d + 1), entry_index(k, d)>>]
        BY <1>0, PathSteps
      <3>2. Node(m, k, d + 1) # Null /\ Node(m, k, d) = slot[<<Node(m, k, d + 1), entry_index(k, d)>>]
        BY <2>1, <3>1
      <3>3. entry_index(k, d) \in Indices /\ Node(m, k, d + 1) \in Level(d + 1)
        BY <2>0, <3>2, SlotsFit DEF Level
      <3> QED  BY <2>1, <3>2, <3>3 DEF EntriesOf
    <2>2. ASSUME NEW n \in Level(d + 1), NEW i \in Indices, slot[<<n, i>>] # Null
          PROVE  slot[<<n, i>>] \in Level(d)
      <3>1. PICK m \in Maps, k \in Keys : n = Node(m, k, d + 1) /\ n # Null
        BY DEF Level
      <3>2. PICK l \in Maps, j \in Keys : slot[<<n, i>>] = Node(l, j, d)
        BY <2>2, <3>1 DEF TreeInv, PathsFill
      <3> QED  BY <2>2, <3>2 DEF Level
    <2>3. ASSUME NEW x \in Level(d) PROVE x \in EntriesOf(Level(d + 1))
      <3>1. PICK m \in Maps, k \in Keys : x = Node(m, k, d) /\ x # Null
        BY DEF Level
      <3> QED  BY <2>1, <3>1
    <2>4. ASSUME NEW x \in EntriesOf(Level(d + 1)) PROVE x \in Level(d)
      <3>1. PICK n \in Level(d + 1), i \in Indices : x = slot[<<n, i>>] /\ x # Null
        <4>1. PICK s \in Level(d + 1) \X Indices : x = slot[s] /\ x # Null
          BY DEF EntriesOf
        <4>2. s = <<s[1], s[2]>> /\ s[1] \in Level(d + 1) /\ s[2] \in Indices
          BY <4>1
        <4> QED  BY <4>1, <4>2
      <3> QED  BY <2>2, <3>1
    <2> QED  BY <2>3, <2>4
  <1> QED  BY <1>1, <1>2

LEMMA LevelsArePaths ==
    ASSUME TreeInv
    PROVE  picotm_shared_treemap_uninit = PathNodes
  <1> DEFINE Eq(h) == h = [d \in 0 .. Depth |-> IF d = Depth THEN Roots ELSE EntriesOf(h[d + 1])]
             f == [d \in 0 .. Depth |-> Level(d)]
  <1>0. Depth \in Nat
    BY SlotsFit
  <1>1. Level(Depth) = Roots /\ \A d \in 0 .. Depth - 1 : Level(d) = EntriesOf(Level(d + 1))
    BY LevelsFollow
  <1>2. recursive_cleanup_dir = CHOOSE h : Eq(h)
    BY Zenon DEF recursive_cleanup_dir
  <1>3. Eq(f)
    <2>1. ASSUME NEW d \in 0 .. Depth
          PROVE  f[d] = IF d = Depth THEN Roots ELSE EntriesOf(f[d + 1])
      <3>1. CASE d = Depth
        BY <1>1, <3>1
      <3>2. CASE d # Depth
        <4>1. d \in 0 .. Depth - 1 /\ d + 1 \in 0 .. Depth
          BY <1>0, <3>2
        <4>2. f[d] = Level(d) /\ f[d + 1] = Level(d + 1)
          BY <4>1
        <4> HIDE DEF f
        <4> QED  BY <1>1, <3>2, <4>1, <4>2
      <3> HIDE DEF f
      <3> QED  BY <3>1, <3>2
    <2> QED  BY <2>1, Zenon
  <1> HIDE DEF Eq, f
  <1>4. PICK h : Eq(h) /\ h = recursive_cleanup_dir
    BY <1>2, <1>3
  <1>5. \A d \in 0 .. Depth : h[d] = IF d = Depth THEN Roots ELSE EntriesOf(h[d + 1])
    BY <1>4, Zenon DEF Eq
  <1> DEFINE S == {d \in 0 .. Depth : h[d] = Level(d)}
  <1>6. Depth \in S
    BY <1>0, <1>1, <1>5
  <1>7. ASSUME NEW d \in 0 .. Depth - 1, d + 1 \in S PROVE d \in S
    <2>1. d \in 0 .. Depth /\ d # Depth /\ h[d + 1] = Level(d + 1)
      BY <1>0, <1>7
    <2>2. h[d] = EntriesOf(h[d + 1])
      BY <1>5, <2>1
    <2> QED  BY <1>1, <2>1, <2>2
  <1>8. S = 0 .. Depth
    <2>1. S \subseteq 0 .. Depth
      OBVIOUS
    <2> HIDE DEF S
    <2> QED  BY <1>0, <1>6, <1>7, <2>1, DownwardInduction
  <1>9. \A d \in 0 .. Depth : recursive_cleanup_dir[d] = Level(d)
    BY <1>4, <1>8
  <1>10. picotm_shared_treemap_uninit = UNION {Level(d) : d \in 0 .. Depth}
    BY <1>9 DEF picotm_shared_treemap_uninit
  <1>11. UNION {Level(d) : d \in 0 .. Depth} = PathNodes
    BY DEF Level, PathNodes
  <1> QED  BY <1>10, <1>11

-----------------------------------------------------------------------------
(* The threads and their walks.                                            *)

LEMMA MapsFit ==
    /\ PointerMap \in Maps /\ \A p \in Pointers : p \in Keys
    /\ \A r \in Records : r \in Keys
    /\ 0 \in 0 .. Depth
    /\ \A d \in Words : d \in Nat
  BY MapsAssumption, SlotsFit

LEMMA CallsFit ==
    ASSUME NEW c \in Calls
    PROVE  /\ c # NoCall /\ c.data \in Nat
           /\ c.op \in {"set", "test_and_set", "clear", "get"}
  <1>1. CASE \E d \in Words : c = [op |-> "set", data |-> d, current |-> 0]
    BY <1>1, MapsFit DEF NoCall
  <1>2. CASE \E d \in Words, e \in Words \cup {0} : c = [op |-> "test_and_set", data |-> d, current |-> e]
    BY <1>2, MapsFit DEF NoCall
  <1>3. CASE \E op \in {"clear", "get"} : c = [op |-> op, data |-> 0, current |-> 0]
    BY <1>3 DEF NoCall
  <1> QED  BY <1>1, <1>2, <1>3 DEF Calls

(* A thread that is neither in a call nor at a record does not walk.       *)
LEMMA NoWalk ==
    ASSUME WalkersFit, NEW t \in Threads, tx[t].pc \notin {"idle", "record", "in_use"}
    PROVE  call[t] = NoCall /\ walk[t].phase = "off"
  <1>1. tx[t] # Idle
    BY IdleIsAtRest
  <1> QED  BY <1>1 DEF WalkersFit, WalkerFits

(* A step that touches neither the trees nor the calls.                    *)
LEMMA TreesLast ==
    ASSUME TreeInv, PDTypeOK, WordsFit, UNCHANGED <<tmVars, pdVars>>
    PROVE  TreeInv' /\ PDTypeOK' /\ WordsFit'
  <1>1. UNCHANGED <<slot, live, content, walk, call, word>>
    BY DEF tmVars, pdVars
  <1>2. TreeInv'
    <2>1. \A m, k, d : Node(m, k, d)' = Node(m, k, d)
      BY <1>1 DEF Node
    <2>2. PathNodes' = PathNodes
      BY <2>1 DEF PathNodes
    <2>3. \A u \in Threads : WalkFits(walk[u])'
      BY <1>1, <2>1 DEF TreeInv, WalkFits, SlotOf
    <2>4. Inserting' = Inserting
      BY <1>1 DEF Inserting
    <2>5. TMTypeOK' /\ NewNodesFit'
      BY <1>1, <2>2, <2>4 DEF TreeInv, TMTypeOK, NewNodesFit
    <2>6. LiveFits'
      BY <1>1, <2>2, <2>4 DEF TreeInv, LiveFits
    <2>7. PathsDiffer' /\ PathsFill'
      BY <1>1, <2>1 DEF TreeInv, PathsDiffer, PathsFill
    <2> QED  BY <2>3, <2>5, <2>6, <2>7 DEF TreeInv
  <1>3. PDTypeOK'
    BY <1>1 DEF PDTypeOK
  <1>4. WordsFit'
    BY <1>1 DEF WordsFit, Node
  <1> QED  BY <1>2, <1>3, <1>4

(* All threads but t are where they were.                                  *)
OneMoves(t) == \A u \in Threads \ {t} : tx'[u] = tx[u]
OneWalks(t) == \A u \in Threads \ {t} : walk'[u] = walk[u] /\ call'[u] = call[u]

LEMMA WalkersKeep ==
    ASSUME WalkersFit, NEW t \in Threads, OneMoves(t), OneWalks(t),
           WalkerFits(tx'[t], walk'[t], call'[t])
    PROVE  WalkersFit'
  <1> SUFFICES ASSUME NEW u \in Threads PROVE WalkerFits(tx'[u], walk'[u], call'[u])
    BY DEF WalkersFit
  <1>1. CASE u = t
    BY <1>1
  <1>2. CASE u # t
    <2>1. tx'[u] = tx[u] /\ walk'[u] = walk[u] /\ call'[u] = call[u]
      BY <1>2 DEF OneMoves, OneWalks
    <2>2. WalkerFits(tx[u], walk[u], call[u])
      BY DEF WalkersFit
    <2> QED  BY <2>1, <2>2
  <1> QED  BY <1>1, <1>2

LEMMA TransactionMoves ==
    ASSUME ObjectsInv, NEW t \in Threads, OneMoves(t), UNCHANGED <<tmVars, pdVars>>, TablesInv',
           call[t] = NoCall, walk[t].phase = "off"
    PROVE  ObjectsInv'
  <1>1. UNCHANGED <<walk, call>>
    BY DEF tmVars, pdVars
  <1>2. WalkerFits(tx'[t], walk'[t], call'[t])
    BY <1>1 DEF WalkerFits
  <1>3. WalkersFit'
    BY <1>1, <1>2, WalkersKeep DEF ObjectsInv, OneWalks
  <1> QED  BY <1>3, TreesLast DEF ObjectsInv

LEMMA SetMoves ==
    ASSUME TablesInv, NEW t \in Threads, NEW x, Set(t, x)
    PROVE  OneMoves(t)
  BY DEF TablesInv, STTypeOK, Set, OneMoves

LEMMA ProgramKeeps ==
    ASSUME ObjectsInv, NEW t \in Threads, Program(t), TablesInv'
    PROVE  ObjectsInv'
  <1>1. /\ call[t] = NoCall /\ walk[t].phase = "off" /\ UNCHANGED <<tmVars, pdVars>>
        /\ \E x : Set(t, x)
    BY DEF Program, fildes_tx_use, fildes_tx_exec_open
  <1> QED  BY <1>1, SetMoves, TransactionMoves DEF ObjectsInv

LEMMA ReferencesKeep ==
    ASSUME ObjectsInv, NEW t \in Threads, References(t), TablesInv'
    PROVE  ObjectsInv'
  <1>1. UNCHANGED <<tmVars, pdVars>>
    BY DEF References
  <1>2. tx[t].pc \notin {"idle", "record", "in_use"}
    BY DEF References, fdtab_find_by_id, fdtab_search_by_id, get_file_tx_with_ref, rdlock, wrlock,
           find_by_id, search_by_id, append
  <1>3. OneMoves(t)
    <2>1. ASSUME fdtab_find_by_id(t) \/ fdtab_search_by_id(t) PROVE \E x : Set(t, x)
      BY <2>1 DEF fdtab_find_by_id, fdtab_search_by_id, fd_ref_or_set_up
    <2>2. ASSUME get_file_tx_with_ref(t) \/ rdlock(t) \/ wrlock(t) PROVE \E x : Set(t, x)
      BY <2>2 DEF get_file_tx_with_ref, rdlock, wrlock
    <2>3. ASSUME find_by_id(t) PROVE \E x : Set(t, x)
      BY <2>3 DEF find_by_id
    <2>4. ASSUME search_by_id(t) \/ append(t) PROVE \E x : Set(t, x)
      BY <2>4 DEF search_by_id, append
    <2>5. \E x : Set(t, x)
      BY <2>1, <2>2, <2>3, <2>4 DEF References
    <2> QED  BY <2>5, SetMoves DEF ObjectsInv
  <1>4. call[t] = NoCall /\ walk[t].phase = "off"
    BY <1>2, NoWalk DEF ObjectsInv
  <1> QED  BY <1>1, <1>3, <1>4, TransactionMoves

LEMMA FinishesKeep ==
    ASSUME ObjectsInv, NEW t \in Threads, Finishes(t), TablesInv'
    PROVE  ObjectsInv'
  <1>1. UNCHANGED <<tmVars, pdVars>>
    BY DEF Finishes
  <1>2. tx[t].pc \notin {"idle", "record", "in_use"}
    BY DEF Finishes, unref_buffer, unref_file, fd_unref, NoFd, CloseNew
  <1>3. OneMoves(t)
    <2>1. \E x : Set(t, x)
      BY DEF Finishes, unref_buffer, unref_file, fd_unref, NoFd, CloseNew, Unref
    <2> QED  BY <2>1, SetMoves DEF ObjectsInv
  <1>4. call[t] = NoCall /\ walk[t].phase = "off"
    BY <1>2, NoWalk DEF ObjectsInv
  <1> QED  BY <1>1, <1>3, <1>4, TransactionMoves

(* The values of keys of one map are different nodes.                      *)
LEMMA ValuesDiffer ==
    ASSUME TreeInv, NEW m \in Maps, NEW k \in Keys, NEW j \in Keys,
           Node(m, k, 0) # Null, Node(m, k, 0) = Node(m, j, 0)
    PROVE  k = j
  <1>1. Agree(k, j, 0)
    BY MapsFit DEF TreeInv, PathsDiffer
  <1> QED  BY <1>1, KeysDiffer

(* A transaction that ends its use of a buffer ends its look-up.           *)
LEMMA RestKeeps ==
    ASSUME ObjectsInv, NEW t \in Threads, OneMoves(t), tx[t] # Idle, walk[t].phase # "insert",
           tx'[t].pc = "unwind", Rested(t), UNCHANGED pdVars, TablesInv'
    PROVE  ObjectsInv'
  <1>1. UNCHANGED <<call, word>>
    BY DEF pdVars
  <1>2. call[t] = NoCall
    BY DEF ObjectsInv, WalkersFit, WalkerFits
  <1>3. CASE walk[t].phase = "off"
    <2>1. UNCHANGED tmVars
      BY <1>3 DEF Rested
    <2> QED  BY <1>2, <1>3, <2>1, TransactionMoves
  <1>4. CASE walk[t].phase # "off"
    <2>1. walk' = [walk EXCEPT ![t] = AtRest] /\ UNCHANGED <<slot, live, content>>
      BY <1>4 DEF Rested
    <2>2. content' \in [Nodes -> Nat] /\ \A n \in Nodes \ PathNodes : content'[n] = content[n]
      BY <2>1 DEF ObjectsInv, TreeInv, TMTypeOK
    <2>3. TreeInv' /\ \A m, k, d : Node(m, k, d)' = Node(m, k, d)
      BY <2>1, <2>2, AtRestFits, MoveKeepsTree DEF ObjectsInv
    <2>4. PDTypeOK' /\ WordsFit'
      BY <1>1, <2>1, <2>3 DEF ObjectsInv, PDTypeOK, WordsFit
    <2>5. walk'[t] = AtRest /\ OneWalks(t)
      BY <1>1, <2>1 DEF ObjectsInv, TreeInv, TMTypeOK, OneWalks
    <2>6. WalkerFits(tx'[t], walk'[t], call'[t])
      BY <1>1, <1>2, <2>5, AtRestFits DEF WalkerFits
    <2>7. WalkersFit'
      BY <2>5, <2>6, WalkersKeep DEF ObjectsInv
    <2> QED  BY <2>3, <2>4, <2>7 DEF ObjectsInv
  <1> QED  BY <1>3, <1>4

LEMMA UsesKeep ==
    ASSUME ObjectsInv, NEW t \in Threads, Uses(t), TablesInv'
    PROVE  ObjectsInv'
  <1>0. UNCHANGED pdVars /\ Rested(t) /\ tx[t] \in Transactions
    BY DEF Uses, ObjectsInv, TablesInv, STTypeOK
  <1>1. CASE fd_tx_try_lock_field(t)
    <2>1. tx[t].pc = "lock" /\ \E x : Set(t, x)
      BY <1>1 DEF fd_tx_try_lock_field
    <2>2. OneMoves(t)
      BY <2>1, SetMoves DEF ObjectsInv
    <2>3. call[t] = NoCall /\ walk[t].phase = "off"
      BY <2>1, NoWalk DEF ObjectsInv
    <2>4. UNCHANGED tmVars
      BY <1>0, <2>3 DEF Rested
    <2> QED  BY <1>0, <2>2, <2>3, <2>4, TransactionMoves
  <1>2. CASE PageFound(t) /\ walk[t].phase = "found"
    <2>1. tx[t].pc = "record" /\ Set(t, [tx[t] EXCEPT !.pc = "in_use"])
      BY <1>2 DEF PageFound
    <2>2. OneMoves(t)
      BY <2>1, SetMoves DEF ObjectsInv
    <2>3. tx'[t] = [tx[t] EXCEPT !.pc = "in_use"]
      BY <2>1 DEF Set, ObjectsInv, TablesInv, STTypeOK
    <2>4. tx'[t].pc = "in_use" /\ tx'[t].entry = tx[t].entry
      BY <1>0, <2>3 DEF Transactions
    <2>5. UNCHANGED tmVars
      BY <1>0, <2>4 DEF Rested
    <2>6. UNCHANGED <<walk, call>>
      BY <1>0, <2>5 DEF tmVars, pdVars
    <2>7. tx[t] # Idle
      BY <2>1, IdleIsAtRest
    <2>8. WalkerFits(tx[t], walk[t], call[t])
      BY DEF ObjectsInv, WalkersFit
    <2>9. WalkerFits(tx'[t], walk'[t], call'[t])
      BY <1>2, <2>1, <2>4, <2>6, <2>7, <2>8 DEF WalkerFits
    <2>10. WalkersFit'
      BY <2>2, <2>6, <2>9, WalkersKeep DEF ObjectsInv, OneWalks
    <2> QED  BY <1>0, <2>5, <2>10, TreesLast DEF ObjectsInv
  <1>3. CASE (PageFound(t) /\ walk[t].phase # "found") \/ Commit(t) \/ RollBack(t)
    <2>1. tx[t].pc \in {"record", "in_use"} /\ Set(t, Unwind(tx[t]))
      BY <1>3 DEF PageFound, Commit, RollBack
    <2>2. OneMoves(t)
      BY <2>1, SetMoves DEF ObjectsInv
    <2>3. tx'[t] = Unwind(tx[t])
      BY <2>1 DEF Set, ObjectsInv, TablesInv, STTypeOK
    <2>4. tx'[t].pc = "unwind"
      BY <1>0, <2>3 DEF Transactions, Unwind, Unlocked
    <2>5. tx[t] # Idle
      BY <2>1, IdleIsAtRest
    <2>6. WalkerFits(tx[t], walk[t], call[t])
      BY DEF ObjectsInv, WalkersFit
    <2>7. walk[t].phase # "insert"
      BY <1>3, <2>6 DEF PageFound, Commit, RollBack, WalkerFits
    <2> QED  BY <1>0, <2>2, <2>4, <2>5, <2>7, RestKeeps
  <1> QED  BY <1>1, <1>2, <1>3 DEF Uses

LEMMA SameTransactions ==
    ASSUME NEW t \in Threads, UNCHANGED stVars
    PROVE  tx' = tx /\ OneMoves(t)
  BY DEF stVars, OneMoves

(* The map of a buffer that a transaction uses.                            *)
LEMMA BufferMap ==
    ASSUME TablesInv, NEW t \in Threads, tx[t].entry["buffer"] # 0
    PROVE  tx[t].entry["buffer"] \in Maps \ {PointerMap}
  <1>1. tx[t].entry["buffer"] \in Nat /\ "buffer" \in Tables
    BY DEF TablesInv, STTypeOK, Transactions, Tables
  <1>2. table["buffer"] \in Seq(Entries)
    BY <1>1 DEF TablesInv, STTypeOK
  <1>3. Len(table["buffer"]) \in Nat /\ Size["buffer"] \in Nat
    BY <1>1, <1>2, TablesAssumption
  <1>4. tx[t].entry["buffer"] <= Len(table["buffer"]) /\ Len(table["buffer"]) <= Size["buffer"]
    BY <1>1 DEF TablesInv, EntriesCount
  <1>5. tx[t].entry["buffer"] \in 1 .. Size["buffer"]
    BY <1>1, <1>3, <1>4
  <1> QED  BY <1>5, MapsAssumption

LEMMA LooksUpKeep ==
    ASSUME ObjectsInv, NEW t \in Threads, LooksUp(t), TablesInv'
    PROVE  ObjectsInv'
  <1>0. UNCHANGED <<stVars, pdVars>> /\ tx' = tx /\ OneMoves(t) /\ call' = call /\ word' = word
    BY SameTransactions DEF LooksUp, pdVars
  <1>1. WalkerFits(tx[t], walk[t], call[t]) /\ walk \in [Threads -> Walks]
    BY DEF ObjectsInv, WalkersFit, TreeInv, TMTypeOK
  <1>2. PDTypeOK'
    BY <1>0 DEF ObjectsInv, PDTypeOK
  <1>3. CASE Walk(t)
    <2>1. TreeInv' /\ ValuesLast
      BY <1>3, WalkKeepsTree DEF ObjectsInv
    <2>2. PICK y : walk' = [walk EXCEPT ![t] = y] /\ OnItsWay(y, walk[t])
      BY <1>3, WalkKeepsTree DEF ObjectsInv
    <2>3. WordsFit'
      <3> SUFFICES ASSUME NEW p \in Pointers
                   PROVE  /\ Node(PointerMap, p, 0)' = Null => word[p] = 0
                          /\ Node(PointerMap, p, 0)' # Null =>
                                word[p] = content'[Node(PointerMap, p, 0)']
        BY <1>0 DEF WordsFit
      <3>1. PointerMap \in Maps /\ p \in Keys
        BY MapsFit
      <3>2. \/ /\ Node(PointerMap, p, 0)' = Node(PointerMap, p, 0)
               /\ Node(PointerMap, p, 0) # Null =>
                     content'[Node(PointerMap, p, 0)] = content[Node(PointerMap, p, 0)]
            \/ /\ Node(PointerMap, p, 0) = Null /\ Node(PointerMap, p, 0)' # Null
               /\ content'[Node(PointerMap, p, 0)'] = 0
        BY <2>1, <3>1 DEF ValuesLast
      <3>3. /\ Node(PointerMap, p, 0) = Null => word[p] = 0
            /\ Node(PointerMap, p, 0) # Null => word[p] = content[Node(PointerMap, p, 0)]
        BY DEF ObjectsInv, WordsFit
      <3> QED  BY <3>2, <3>3
    <2>4. walk'[t] = y /\ OneWalks(t)
      BY <1>0, <1>1, <2>2 DEF OneWalks
    <2>5. WalkerFits(tx'[t], walk'[t], call'[t])
      BY <1>0, <1>1, <2>2, <2>4 DEF WalkerFits, OnItsWay
    <2>6. WalkersFit'
      BY <1>0, <2>4, <2>5, WalkersKeep DEF ObjectsInv
    <2> QED  BY <1>2, <2>1, <2>3, <2>6 DEF ObjectsInv
  <1>4. CASE \E r \in Records : rwlockmap_find_page(t, r)
    <2>1. PICK r \in Records : rwlockmap_find_page(t, r)
      BY <1>4
    <2>2. tx[t].pc = "record" /\ walk[t].phase = "off" /\ UNCHANGED <<slot, live, content>>
      BY <2>1 DEF rwlockmap_find_page
    <2> DEFINE b == TRUE
    <2>3. PICK m : m = tx[t].entry["buffer"]
      OBVIOUS
    <2>4. m \in Maps /\ r \in Keys /\ b \in BOOLEAN
      BY <2>2, <2>3, BufferMap, MapsFit DEF ObjectsInv, TablesInv, PlaceFits
    <2>5. picotm_shared_treemap_find_value(t, m, r, b)
      BY <2>1, <2>3 DEF rwlockmap_find_page
    <2> HIDE DEF b
    <2>6. /\ TreeInv' /\ \A l, j, d : Node(l, j, d)' = Node(l, j, d)
          /\ \E y \in Walks : /\ walk' = [walk EXCEPT ![t] = y] /\ y.phase = "load"
                              /\ y.map = m /\ y.key = r /\ y.creates = b
      BY <2>2, <2>4, <2>5, StartKeepsTree DEF ObjectsInv
    <2>7. PICK y \in Walks : /\ walk' = [walk EXCEPT ![t] = y] /\ y.phase = "load"
                             /\ y.map = m /\ y.key = r /\ y.creates = b
      BY <2>6
    <2>8. WordsFit'
      BY <1>0, <2>2, <2>6 DEF ObjectsInv, WordsFit
    <2>9. walk'[t] = y /\ OneWalks(t)
      BY <1>0, <1>1, <2>7 DEF OneWalks
    <2>10. tx[t] # Idle /\ call[t] = NoCall
      BY <1>1, <2>2, IdleIsAtRest DEF WalkerFits
    <2>11. WalkerFits(tx'[t], walk'[t], call'[t])
      BY <1>0, <2>2, <2>3, <2>7, <2>9, <2>10 DEF WalkerFits, b
    <2>12. WalkersFit'
      BY <1>0, <2>9, <2>11, WalkersKeep DEF ObjectsInv
    <2> QED  BY <1>2, <2>6, <2>8, <2>12 DEF ObjectsInv
  <1> QED  BY <1>3, <1>4 DEF LooksUp

-----------------------------------------------------------------------------
(* The calls of the pointer data.                                          *)

LEMMA CallKeeps ==
    ASSUME ObjectsInv, NEW t \in Threads, tx[t] = Idle, UNCHANGED stVars, TablesInv',
           NEW p \in Pointers, NEW c \in Calls, PDCall(t, p, c)
    PROVE  ObjectsInv'
  <1> DEFINE b == c.op \in {"set", "test_and_set"}
  <1>0. tx' = tx /\ OneMoves(t)
    BY SameTransactions
  <1>1. /\ walk[t].phase = "off" /\ picotm_shared_treemap_find_value(t, PointerMap, p, b)
        /\ UNCHANGED <<slot, live, content>> /\ word' = word /\ call' = [call EXCEPT ![t] = c]
    BY DEF PDCall
  <1>2. PointerMap \in Maps /\ p \in Keys /\ b \in BOOLEAN
    BY MapsFit
  <1> HIDE DEF b
  <1>3. TreeInv' /\ \A l, j, d : Node(l, j, d)' = Node(l, j, d)
    BY <1>1, <1>2, StartKeepsTree DEF ObjectsInv
  <1>4. PICK y \in Walks : /\ walk' = [walk EXCEPT ![t] = y] /\ y.phase = "load"
                           /\ y.map = PointerMap /\ y.key = p /\ y.creates = b
    BY <1>1, <1>2, StartKeepsTree DEF ObjectsInv
  <1>5. WordsFit'
    BY <1>1, <1>3 DEF ObjectsInv, WordsFit
  <1>6. PDTypeOK'
    BY <1>1 DEF ObjectsInv, PDTypeOK
  <1>7. walk'[t] = y /\ call'[t] = c /\ OneWalks(t)
    BY <1>1, <1>4 DEF ObjectsInv, TreeInv, TMTypeOK, PDTypeOK, OneWalks
  <1>8. c # NoCall /\ Idle.pc = "idle"
    BY CallsFit DEF Idle
  <1>9. WalkerFits(tx'[t], walk'[t], call'[t])
    BY <1>0, <1>4, <1>7, <1>8 DEF WalkerFits, b
  <1>10. WalkersFit'
    BY <1>0, <1>7, <1>9, WalkersKeep DEF ObjectsInv
  <1> QED  BY <1>3, <1>5, <1>6, <1>10 DEF ObjectsInv

(* What a call leaves: nothing, or a word in the value that it has found.  *)
Left(t) ==
    \/ UNCHANGED <<content, word>>
    \/ walk[t].node # Null /\ \E d \in Nat : Store(t, d)

LEMMA AccessLeaves ==
    ASSUME ObjectsInv, NEW t \in Threads, PDAccess(t)
    PROVE  Left(t) /\ PDReturn(t) /\ call[t] # NoCall /\ walk[t].phase = "found"
  <1>1. call[t] # NoCall /\ walk[t].phase = "found" /\ PDReturn(t)
    BY DEF PDAccess
  <1>2. call[t] \in Calls
    BY <1>1 DEF ObjectsInv, PDTypeOK
  <1>3. call[t].data \in Nat
    BY <1>2, CallsFit
  <1>4. call[t].op \in {"set", "test_and_set"} => walk[t].node # Null
    <2>1. WalkerFits(tx[t], walk[t], call[t]) /\ WalkFits(walk[t])
      BY DEF ObjectsInv, WalkersFit, TreeInv
    <2> QED  BY <1>1, <2>1 DEF WalkerFits, WalkFits
  <1>5. ASSUME ptrdata_set_shared_data(t) PROVE Left(t)
    BY <1>3, <1>4, <1>5 DEF ptrdata_set_shared_data, Left, Store
  <1>6. ASSUME ptrdata_test_and_set_shared_data(t) PROVE Left(t)
    BY <1>3, <1>4, <1>6 DEF ptrdata_test_and_set_shared_data, Left, Store
  <1>7. ASSUME ptrdata_clear_shared_data(t) PROVE Left(t)
    BY <1>7 DEF ptrdata_clear_shared_data, Left, Store
  <1>8. ASSUME ptrdata_get_shared_data(t) PROVE Left(t)
    BY <1>8 DEF ptrdata_get_shared_data, Left, Store
  <1> QED  BY <1>1, <1>5, <1>6, <1>7, <1>8 DEF PDAccess

LEMMA ReturnKeeps ==
    ASSUME ObjectsInv, NEW t \in Threads, tx[t] = Idle, UNCHANGED stVars, TablesInv',
           call[t] # NoCall, walk[t].phase \in {"found", "no_memory"}, PDReturn(t),
           Left(t), walk[t].phase = "no_memory" => UNCHANGED <<content, word>>
    PROVE  ObjectsInv'
  <1>0. tx' = tx /\ OneMoves(t)
    BY SameTransactions
  <1>1. /\ call' = [call EXCEPT ![t] = NoCall] /\ walk' = [walk EXCEPT ![t] = AtRest]
        /\ UNCHANGED <<slot, live>>
    BY DEF PDReturn
  <1>2. content \in [Nodes -> Nat] /\ word \in [Pointers -> Nat]
    BY DEF ObjectsInv, TreeInv, TMTypeOK, PDTypeOK
  <1>3. walk[t].map = PointerMap /\ walk[t].key \in Pointers
    BY DEF ObjectsInv, WalkersFit, WalkerFits
  <1>4. CASE UNCHANGED <<content, word>>
    <2>1. TreeInv' /\ \A m, k, d : Node(m, k, d)' = Node(m, k, d)
      BY <1>1, <1>2, <1>4, AtRestFits, MoveKeepsTree DEF ObjectsInv
    <2>2. WordsFit' /\ PDTypeOK'
      BY <1>1, <1>4, <2>1 DEF ObjectsInv, WordsFit, PDTypeOK
    <2> QED
      <3>1. walk'[t] = AtRest /\ call'[t] = NoCall /\ OneWalks(t)
        BY <1>1 DEF ObjectsInv, TreeInv, TMTypeOK, PDTypeOK, OneWalks
      <3>2. WalkersFit'
        BY <1>0, <3>1, AtRestFits, WalkersKeep DEF WalkerFits, ObjectsInv
      <3> QED  BY <2>1, <2>2, <3>2 DEF ObjectsInv
  <1>5. CASE walk[t].phase = "found" /\ walk[t].node # Null /\ \E d \in Nat : Store(t, d)
    <2>1. PICK n, p : n = walk[t].node /\ p = walk[t].key
      OBVIOUS
    <2>2. PICK d \in Nat : content' = [content EXCEPT ![n] = d] /\ word' = [word EXCEPT ![p] = d]
      BY <1>5, <2>1 DEF Store
    <2>3. WalkFits(walk[t])
      BY DEF ObjectsInv, TreeInv
    <2>4. n = Node(PointerMap, p, 0) /\ p \in Pointers /\ n # Null
      BY <1>3, <1>5, <2>1, <2>3 DEF WalkFits
    <2>5. n \in PathNodes
      BY <2>4, MapsFit DEF PathNodes
    <2>6. n \in Nodes
      BY <2>5 DEF ObjectsInv, TreeInv, LiveFits, TMTypeOK
    <2>7. content' \in [Nodes -> Nat] /\ \A o \in Nodes \ PathNodes : content'[o] = content[o]
      BY <1>2, <2>2, <2>5
    <2>8. TreeInv' /\ \A m, k, e : Node(m, k, e)' = Node(m, k, e)
      BY <1>1, <2>7, AtRestFits, MoveKeepsTree DEF ObjectsInv
    <2>9. WordsFit'
      <3> SUFFICES ASSUME NEW q \in Pointers
                   PROVE  /\ Node(PointerMap, q, 0) = Null => word'[q] = 0
                          /\ Node(PointerMap, q, 0) # Null =>
                                word'[q] = content'[Node(PointerMap, q, 0)]
        BY <2>8 DEF WordsFit
      <3>1. /\ Node(PointerMap, q, 0) = Null => word[q] = 0
            /\ Node(PointerMap, q, 0) # Null => word[q] = content[Node(PointerMap, q, 0)]
        BY DEF ObjectsInv, WordsFit
      <3>2. CASE q = p
        BY <1>2, <2>2, <2>4, <2>6, <3>2
      <3>3. CASE q # p
        <4>1. Node(PointerMap, q, 0) # n
          BY <2>4, <3>3, MapsFit, ValuesDiffer DEF ObjectsInv
        <4>2. word'[q] = word[q]
          BY <1>2, <2>2, <3>3
        <4>3. Node(PointerMap, q, 0) # Null => Node(PointerMap, q, 0) \in Nodes
          <5>1. Node(PointerMap, q, 0) # Null => Node(PointerMap, q, 0) \in PathNodes
            BY MapsFit DEF PathNodes
          <5> QED  BY <5>1 DEF ObjectsInv, TreeInv, LiveFits, TMTypeOK
        <4> QED  BY <1>2, <2>2, <3>1, <4>1, <4>2, <4>3
      <3> QED  BY <3>2, <3>3
    <2>10. PDTypeOK'
      BY <1>1, <1>2, <2>2 DEF ObjectsInv, PDTypeOK
    <2> QED
      <3>1. walk'[t] = AtRest /\ call'[t] = NoCall /\ OneWalks(t)
        BY <1>1 DEF ObjectsInv, TreeInv, TMTypeOK, PDTypeOK, OneWalks
      <3>2. WalkersFit'
        BY <1>0, <3>1, AtRestFits, WalkersKeep DEF WalkerFits, ObjectsInv
      <3> QED  BY <2>8, <2>9, <2>10, <3>2 DEF ObjectsInv
  <1> QED  BY <1>4, <1>5 DEF Left

LEMMA KeepsDataKeep ==
    ASSUME ObjectsInv, NEW t \in Threads, KeepsData(t), TablesInv'
    PROVE  ObjectsInv'
  <1>0. tx[t] = Idle /\ UNCHANGED stVars
    BY DEF KeepsData
  <1>1. CASE \E p \in Pointers, c \in Calls : PDCall(t, p, c)
    BY <1>0, <1>1, CallKeeps
  <1>2. CASE PDAccess(t)
    BY <1>0, <1>2, AccessLeaves, ReturnKeeps
  <1>3. CASE PDFails(t)
    BY <1>0, <1>3, ReturnKeeps DEF PDFails, Left
  <1> QED  BY <1>1, <1>2, <1>3 DEF KeepsData, PDNext

-----------------------------------------------------------------------------
(* Tables, trees and calls together.                                       *)

LEMMA ObjectsStart ==
    ASSUME SOInit
    PROVE  ObjectsInv
  <1>1. TMInit /\ STInit /\ PDInit
    BY DEF SOInit
  <1>2. TreeInv /\ \A m \in Maps, k \in Keys, d \in 0 .. Depth : Node(m, k, d) = Null
    BY <1>1, TreesStart
  <1>3. PDTypeOK
    BY <1>1 DEF PDInit, PDTypeOK
  <1>4. WordsFit
    BY <1>1, <1>2, MapsFit DEF PDInit, WordsFit
  <1>5. WalkersFit
    <2>1. \A t \in Threads : walk[t] = AtRest /\ call[t] = NoCall
      BY <1>1 DEF TMInit, PDInit
    <2> QED  BY <2>1, AtRestFits DEF WalkersFit, WalkerFits
  <1> QED  BY <1>2, <1>3, <1>4, <1>5, TablesStart DEF ObjectsInv

LEMMA ObjectsRest ==
    ASSUME ObjectsInv, UNCHANGED soVars, TablesInv'
    PROVE  ObjectsInv'
  <1>1. UNCHANGED <<tmVars, pdVars>> /\ tx' = tx
    BY DEF soVars, stVars
  <1>2. WalkersFit'
    BY <1>1 DEF ObjectsInv, WalkersFit, WalkerFits, tmVars, pdVars
  <1> QED  BY <1>1, <1>2, TreesLast DEF ObjectsInv

LEMMA ObjectsStep ==
    ASSUME ObjectsInv, Risks = {}, [SONext]_soVars
    PROVE  ObjectsInv'
  <1>1. TablesInv'
    BY TablesStep DEF ObjectsInv
  <1>2. CASE UNCHANGED soVars
    BY <1>1, <1>2, ObjectsRest
  <1>3. CASE SONext
    <2>1. PICK t \in Threads : \/ Program(t) \/ References(t) \/ Uses(t) \/ Finishes(t)
                               \/ LooksUp(t) \/ KeepsData(t)
      BY <1>3 DEF SONext
    <2> QED  BY <1>1, <2>1, ProgramKeeps, ReferencesKeep, UsesKeep, FinishesKeep, LooksUpKeep,
                KeepsDataKeep
  <1> QED  BY <1>2, <1>3

(* The trees hold, for each key, one path that threads extend and never    *)
(* change, whatever other threads insert by compare-and-swap and destroy   *)
(* again in retrieve_dir() and retrieve_value(): the inductive invariant   *)
(* of the shared tree map, of the pages of record locks and of the pointer *)
(* data.                                                                   *)
THEOREM ObjectsInvariant ==
    ASSUME Risks = {}
    PROVE  SOSpec => []ObjectsInv
  <1>1. SOInit => ObjectsInv
    BY ObjectsStart
  <1>2. ObjectsInv /\ [SONext]_soVars => ObjectsInv'
    BY ObjectsStep
  <1> QED  BY <1>1, <1>2, PTL DEF SOSpec

-----------------------------------------------------------------------------
(* The invariant implies that look-ups meet.                               *)

LEMMA HeldIsTheNode ==
    ASSUME NEW m, NEW k
    PROVE  Held(m, k) = Node(m, k, 0)
  BY DEF Held, Path, Node, PathIn

LEMMA LookupsFit ==
    ASSUME TreeInv
    PROVE  LookupsAgree /\ NoNodeIsLost
  <1>1. picotm_shared_treemap_uninit = PathNodes
    BY LevelsArePaths
  <1>2. ASSUME NEW t \in Threads, walk[t].phase = "found", walk[t].node # Null
        PROVE  walk[t].node = Held(walk[t].map, walk[t].key)
    BY <1>2, HeldIsTheNode DEF TreeInv, WalkFits
  <1>3. LookupsAgree
    BY <1>1, <1>2 DEF LookupsAgree, TreeInv, LiveFits
  <1>4. NoNodeIsLost
    <2> SUFFICES ASSUME \A t \in Threads : walk[t].phase # "insert"
                 PROVE  live \subseteq PathNodes
      BY <1>1 DEF NoNodeIsLost
    <2>1. Inserting = {}
      BY DEF Inserting
    <2> QED  BY <2>1 DEF TreeInv, LiveFits
  <1> QED  BY <1>3, <1>4

LEMMA RecordUsersMeet ==
    ASSUME ObjectsInv
    PROVE  UsersOfARecordMeet
  <1>1. ASSUME NEW t \in Threads, tx[t].pc = "in_use", walk[t].phase = "found"
        PROVE  Has(t, "buffer") /\ walk[t].node = Node(tx[t].entry["buffer"], walk[t].key, 0)
    <2>1. PlaceFits(tx[t]) /\ WalkFits(walk[t]) /\ WalkerFits(tx[t], walk[t], call[t])
      BY DEF ObjectsInv, TablesInv, TreeInv, WalkersFit
    <2>2. tx[t] # Idle
      BY <1>1, IdleIsAtRest
    <2>3. walk[t].creates /\ walk[t].map = tx[t].entry["buffer"]
      BY <1>1, <2>1, <2>2 DEF WalkerFits
    <2>4. walk[t].node = Node(walk[t].map, walk[t].key, 0)
      BY <1>1, <2>1, <2>3 DEF WalkFits
    <2>5. tx[t].entry["buffer"] # 0
      BY <1>1, <2>1 DEF PlaceFits
    <2> QED  BY <2>3, <2>4, <2>5 DEF Has
  <1>2. ASSUME NEW t \in Threads, NEW u \in Threads, tx[t].pc = "in_use", tx[u].pc = "in_use",
               walk[t].phase = "found", walk[u].phase = "found",
               Inode[tx[t].file] = Inode[tx[u].file], walk[t].key = walk[u].key
        PROVE  walk[t].node = walk[u].node
    <2>1. UsersOfAFileMeet
      BY UsersMeet DEF ObjectsInv
    <2>2. tx[t].entry["buffer"] = tx[u].entry["buffer"]
      BY <1>1, <1>2, <2>1 DEF UsersOfAFileMeet
    <2> QED  BY <1>1, <1>2, <2>2
  <1> QED  BY <1>2 DEF UsersOfARecordMeet

(* Threads that look up the same key of a tree come to the same value,     *)
(* which stays allocated; the clean-up finds every node; the users of one  *)
(* record lock in one page; a pointer keeps the word that the calls have   *)
(* left: what picotm_shared_treemap_find_value() and its compare-and-swap  *)
(* are for.                                                                *)
THEOREM LookupsAlwaysMeet ==
    ASSUME Risks = {}
    PROVE  SOSpec => []LookupsMeet
  <1>1. ASSUME ObjectsInv PROVE LookupsMeet
    <2>1. LookupsAgree /\ NoNodeIsLost /\ UsersOfARecordMeet
      BY <1>1, LookupsFit, RecordUsersMeet DEF ObjectsInv
    <2>2. PointerKeepsItsWord
      BY <1>1, HeldIsTheNode DEF ObjectsInv, WordsFit, PointerKeepsItsWord
    <2> QED  BY <2>1, <2>2 DEF LookupsMeet
  <1>2. ObjectsInv => LookupsMeet
    BY <1>1
  <1> QED  BY <1>2, ObjectsInvariant, PTL
=============================================================================
