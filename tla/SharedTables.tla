---------------------------- MODULE SharedTables ----------------------------
(***************************************************************************)
(* The tables that all transactions share in src/modules/libc/src/fildes:  *)
(* file descriptors (fdtab.c, fd.c), open files (filetab.c, file.c) and    *)
(* file buffers (filebuftab.c, filebuf.c), with the reference-counted      *)
(* objects of src/src/picotm-lib-shared-ref-obj.c that are their entries.  *)
(* A transaction that uses a descriptor takes a reference of its fd, its   *)
(* file and its buffer, locks the fd, looks up a page of record locks in   *)
(* the buffer's tree map, and returns the references when it finishes.     *)
(*                                                                         *)
(* A walk over a table takes one step per entry, since other threads       *)
(* return references in the meantime; the count, the condition and the     *)
(* call-backs of one entry are one step, under its spin lock.  The lock of *)
(* a table is in lock: "rd" or "wr" of the thread on its way.              *)
(*                                                                         *)
(* Not modelled: the temporary second reference of each look-up, released  *)
(* before the first; the wrap-around of the 16-bit counters; transactions  *)
(* with several descriptors (module Fildes has them).                      *)
(***************************************************************************)
EXTENDS SharedTreemap, Sequences

CONSTANTS
    Descriptors,    \* file descriptors, 0, 1, ...
    Files,          \* open file descriptions
    Inode,          \* the inode of each of them
    OpenAtStart,    \* for each descriptor its open file, or NoFile
    Size,           \* entries of the tables "file" and "buffer"
    Records,        \* pages of records, keys of a buffer's tree map
    Risks           \* see KnownRisks

(* What the tables do not cope with:                                        *)
(*  "duplicate closed": a transaction closes a descriptor while another     *)
(*     descriptor stands for the same open file.  The file's entry keeps    *)
(*     the closed descriptor as its id as long as transactions use it.      *)
KnownRisks == {"duplicate closed"}
ASSUME RisksAreKnown == Risks \subseteq KnownRisks

NoFile == 0
Empty == -1
Tables == {"file", "buffer"}

ASSUME TablesAssumption ==
    /\ Descriptors \subseteq Nat /\ NoFile \notin Files /\ Inode \in [Files -> Nat]
    /\ OpenAtStart \in [Descriptors -> Files \cup {NoFile}]
    /\ Size \in [Tables -> Nat]

VARIABLES
    kernel,     \* the open file of each descriptor
    fdtab,      \* the entries for descriptors 0, 1, ...
    table,      \* the entries of the tables "file" and "buffer"
    tx,         \* the threads' transactions
    promised    \* the descriptors that committed transactions have left open

stVars == <<kernel, fdtab, table, tx, promised>>

fd_init == [ref |-> 0, state |-> "UNUSED"]

Idle == [pc |-> "idle", op |-> "none", d |-> Empty, file |-> NoFile, table |-> "file",
         lock |-> "none", i |-> 0, error |-> FALSE, entry |-> [k \in Tables |-> 0],
         fd |-> FALSE, rw |-> "none", ready |-> FALSE]

STInit ==
    /\ kernel = OpenAtStart
    /\ fdtab = << >>
    /\ table = [k \in Tables |-> << >>]
    /\ tx = [t \in Threads |-> Idle]
    /\ promised = {d \in Descriptors : OpenAtStart[d] # NoFile}

Set(t, x) == tx' = [tx EXCEPT ![t] = x]

(* The locks of a table end with the walk.                                  *)
Unlocked(x) == [x EXCEPT !.lock = "none", !.i = 0]
Unwind(x) == [Unlocked(x) EXCEPT !.pc = "unwind"]

(***************************************************************************)
(* Identity of entries                                                     *)
(***************************************************************************)

(* file_id_cmp_eq(): equal descriptors, or the same open file according to  *)
(* the kernel, which reports an error for a closed descriptor.              *)
file_id_cmp_eq(l, r) ==
    CASE l = r                   -> "equal"
      [] l # r /\ Empty \in {l, r} -> "distinct"
      [] OTHER -> IF NoFile \in {kernel[l], kernel[r]} THEN "error"
                  ELSE IF kernel[l] = kernel[r] THEN "equal" ELSE "distinct"

filebuf_id_cmp(l, r) == IF l = r THEN "equal" ELSE "distinct"

Compare(k, l, r) == IF k = "file" THEN file_id_cmp_eq(l, r) ELSE filebuf_id_cmp(l, r)

(* The id of the object that transaction x is looking for.                  *)
Wanted(x) == IF x.table = "file" THEN x.d ELSE Inode[x.file]

(***************************************************************************)
(* Reference-counted objects                                               *)
(***************************************************************************)

picotm_shared_ref16_obj_up(e, first) == IF e.ref = 0 THEN [first EXCEPT !.ref = 1] ELSE [e EXCEPT !.ref = @ + 1]

picotm_shared_ref16_obj_down(e, final) == IF e.ref = 1 THEN [final EXCEPT !.ref = 0] ELSE [e EXCEPT !.ref = @ - 1]

(***************************************************************************)
(* The program: it uses descriptors that are open, and opens files         *)
(***************************************************************************)

Start(t, op, d) == [Idle EXCEPT !.op = op, !.d = d, !.pc = "fd_find"]

(* A transaction uses a descriptor that other transactions have left open.  *)
fildes_tx_use(t, op, d) ==
    /\ tx[t] = Idle /\ walk[t].phase = "off"
    /\ kernel[d] # NoFile
    /\ \A u \in Threads : ~(tx[u].d = d /\ tx[u].op = "open")
    /\ Set(t, Start(t, op, d))
    /\ UNCHANGED <<kernel, fdtab, table, promised>>

(* open(), under the table's writer lock.  The program does not use the new *)
(* descriptor before it has been given it.                                  *)
fildes_tx_exec_open(t, d, f) ==
    /\ tx[t] = Idle /\ walk[t].phase = "off"
    /\ kernel[d] = NoFile /\ \A e \in Descriptors : kernel[e] # f
    /\ \A u \in Threads : tx[u].op # "open" /\ tx[u].d # d
    /\ kernel' = [kernel EXCEPT ![d] = f]
    /\ Set(t, Start(t, "open", d))
    /\ UNCHANGED <<fdtab, table, promised>>

(***************************************************************************)
(* The fd: fildes_fdtab_ref_fildes()                                       *)
(***************************************************************************)

(* fd_ref_or_set_up(), with the condition that refuses an fd that is about  *)
(* to be closed.                                                            *)
fd_ref_or_set_up(t, tab) ==
    LET x == tx[t]  e == tab[x.d + 1]
    IN  IF e.state = "CLOSING"
        THEN fdtab' = tab /\ Set(t, Unwind(x))
        ELSE /\ fdtab' = [tab EXCEPT ![x.d + 1] =
                            picotm_shared_ref16_obj_up(e, [e EXCEPT !.state = "INUSE"])]
             /\ Set(t, [x EXCEPT !.pc = "stat", !.fd = TRUE])

fdtab_find_by_id(t) ==
    /\ tx[t].pc = "fd_find"
    /\ \/ /\ Len(fdtab) <= tx[t].d
          /\ Set(t, [tx[t] EXCEPT !.pc = "fd_search"])
          /\ UNCHANGED fdtab
       \/ Len(fdtab) > tx[t].d /\ fd_ref_or_set_up(t, fdtab)
    /\ UNCHANGED <<kernel, table, promised>>

fdtab_search_by_id(t) ==
    /\ tx[t].pc = "fd_search"
    /\ fd_ref_or_set_up(t, [i \in 1..(IF Len(fdtab) > tx[t].d THEN Len(fdtab) ELSE tx[t].d + 1) |->
                               IF i <= Len(fdtab) THEN fdtab[i] ELSE fd_init])
    /\ UNCHANGED <<kernel, table, promised>>

(* get_file_tx_with_ref(): the type of the file; a closed descriptor fails. *)
get_file_tx_with_ref(t) ==
    /\ tx[t].pc = "stat"
    /\ IF kernel[tx[t].d] = NoFile
       THEN Set(t, Unwind(tx[t]))
       ELSE Set(t, [tx[t] EXCEPT !.file = kernel[tx[t].d],
                                 !.pc = IF tx[t].op = "open" THEN "wrlock" ELSE "rdlock"])
    /\ UNCHANGED <<kernel, fdtab, table, promised>>

(***************************************************************************)
(* Files and buffers: fildes_filetab_ref_fildes() and                      *)
(* fildes_filebuftab_ref_fildes()                                          *)
(***************************************************************************)

Locks(t, k) == {tx[u].lock : u \in {v \in Threads \ {t} : tx[v].table = k}}

rdlock(t) ==
    /\ tx[t].pc = "rdlock" /\ "wr" \notin Locks(t, tx[t].table)
    /\ Set(t, [tx[t] EXCEPT !.pc = "find", !.lock = "rd", !.i = 1])
    /\ UNCHANGED <<kernel, fdtab, table, promised>>

(* Mutant: no second search for the object under the writer lock.           *)
Mutwrlock(t) ==
    /\ tx[t].pc = "wrlock" /\ Locks(t, tx[t].table) \subseteq {"none"}
    /\ Set(t, [tx[t] EXCEPT !.lock = "wr", !.i = 1, !.pc = "search"])
    /\ UNCHANGED <<kernel, fdtab, table, promised>>

(* Only a file that open() made is not looked for again under the lock.     *)
wrlock(t) ==
    /\ tx[t].pc = "wrlock" /\ Locks(t, tx[t].table) \subseteq {"none"}
    /\ Set(t, [tx[t] EXCEPT !.lock = "wr", !.i = 1,
                            !.pc = IF tx[t].op = "open" /\ tx[t].table = "file" THEN "search" ELSE "find"])
    /\ UNCHANGED <<kernel, fdtab, table, promised>>

(* The transaction has a reference to entry i.                              *)
Referenced(x, i) ==
    [Unlocked(x) EXCEPT !.entry[x.table] = i,
                        !.table = "buffer",
                        !.pc = IF x.table = "file" THEN "rdlock" ELSE "lock"]

Up(k, i, id) ==
    table' = [table EXCEPT ![k][i] = picotm_shared_ref16_obj_up(@, [@ EXCEPT !.id = id])]

(* An error of the comparison is kept while the search goes on; it counts   *)
(* if no entry is found.                                                    *)
find_by_id(t) ==
    LET x == tx[t]  k == x.table
        same == Compare(k, table[k][x.i].id, Wanted(x))
    IN  /\ x.pc = "find"
        /\ \/ /\ x.i <= Len(table[k]) /\ same = "equal"
              /\ Up(k, x.i, table[k][x.i].id)
              /\ Set(t, Referenced(x, x.i))
           \/ /\ x.i <= Len(table[k]) /\ same # "equal"
              /\ Set(t, [x EXCEPT !.i = @ + 1, !.error = @ \/ same = "error"])
              /\ UNCHANGED table
           \/ /\ x.i > Len(table[k])
              /\ Set(t, CASE x.error -> Unwind(x)
                          [] ~x.error /\ x.lock = "rd" -> [Unlocked(x) EXCEPT !.pc = "wrlock"]
                          [] OTHER -> [x EXCEPT !.pc = "search", !.i = 1])
              /\ UNCHANGED table
        /\ UNCHANGED <<kernel, fdtab, promised>>

(* Sets up an entry that nobody uses.                                       *)
search_by_id(t) ==
    LET x == tx[t]  k == x.table
    IN  /\ x.pc = "search"
        /\ \/ /\ x.i <= Len(table[k]) /\ Compare(k, table[k][x.i].id, Empty) = "equal"
              /\ Up(k, x.i, Wanted(x))
              /\ Set(t, Referenced(x, x.i))
           \/ /\ x.i <= Len(table[k]) /\ Compare(k, table[k][x.i].id, Empty) # "equal"
              /\ Set(t, [x EXCEPT !.i = @ + 1])
              /\ UNCHANGED table
           \/ /\ x.i > Len(table[k])
              /\ Set(t, [x EXCEPT !.pc = "append"])
              /\ UNCHANGED table
        /\ UNCHANGED <<kernel, fdtab, promised>>

append(t) ==
    LET x == tx[t]  k == x.table
    IN  /\ x.pc = "append"
        /\ \/ /\ Len(table[k]) < Size[k]
              /\ table' = [table EXCEPT ![k] = Append(@, [ref |-> 1, id |-> Wanted(x)])]
              /\ Set(t, Referenced(x, Len(table[k]) + 1))
           \/ /\ Len(table[k]) >= Size[k]
              /\ Set(t, Unwind(x))
              /\ UNCHANGED table
        /\ UNCHANGED <<kernel, fdtab, promised>>

(***************************************************************************)
(* The use of a descriptor                                                 *)
(***************************************************************************)

(* A lock of the fd's state: a writer lock for close(), no lock for open(). *)
fd_tx_try_lock_field(t) ==
    LET x == tx[t]
        want == CASE x.op = "close" -> "wr" [] x.op = "open" -> "none" [] OTHER -> "rd"
        others == {tx[u].rw : u \in {v \in Threads \ {t} : tx[v].d = x.d}}
    IN  /\ x.pc = "lock"
        /\ IF (want = "wr" /\ others \subseteq {"none"}) \/ (want # "wr" /\ "wr" \notin others)
           THEN Set(t, [x EXCEPT !.rw = want, !.ready = TRUE,
                                 !.pc = IF x.op = "record" THEN "record" ELSE "in_use"])
           ELSE Set(t, Unwind(x))
        /\ UNCHANGED <<kernel, fdtab, table, promised>>

(* The page of a record in the tree map of the buffer: maps are numbered    *)
(* like the entries of the table.                                           *)
rwlockmap_find_page(t, r) ==
    /\ tx[t].pc = "record" /\ walk[t].phase = "off"
    /\ picotm_shared_treemap_find_value(t, tx[t].entry["buffer"], r, TRUE)
    /\ UNCHANGED <<slot, live, content>>

PageFound(t) ==
    /\ tx[t].pc = "record" /\ walk[t].phase \in {"found", "no_memory"}
    /\ Set(t, IF walk[t].phase = "found" THEN [tx[t] EXCEPT !.pc = "in_use"] ELSE Unwind(tx[t]))
    /\ UNCHANGED <<kernel, fdtab, table, promised>>

fd_close(x) == [fdtab EXCEPT ![x.d + 1].state = "CLOSING"]

(* fd_tx_prepare_commit() refuses an fd that another transaction has closed;*)
(* close() takes effect when its event is applied.                          *)
Commit(t) ==
    LET x == tx[t]
    IN  /\ x.pc = "in_use"
        /\ x.op = "close" /\ "duplicate closed" \notin Risks =>
               \A d \in Descriptors \ {x.d} : kernel[d] # x.file
        /\ \/ /\ fdtab[x.d + 1].state = "INUSE"
              /\ fdtab' = IF x.op = "close" THEN fd_close(x) ELSE fdtab
              /\ promised' = CASE x.op = "open"  -> promised \cup {x.d}
                               [] x.op = "close" -> promised \ {x.d}
                               [] OTHER -> promised
           \/ /\ fdtab[x.d + 1].state # "INUSE"
              /\ UNCHANGED <<fdtab, promised>>
        /\ Set(t, Unwind(x))
        /\ UNCHANGED <<kernel, table>>

(* undo_open() marks the new descriptor to be closed.                       *)
RollBack(t) ==
    LET x == tx[t]
    IN  /\ x.pc = "in_use"
        /\ fdtab' = IF x.op = "open" THEN fd_close(x) ELSE fdtab
        /\ Set(t, Unwind(x))
        /\ UNCHANGED <<kernel, table, promised>>

(***************************************************************************)
(* The end: fildes_tx_finish() returns the buffer, the file, then the fd   *)
(***************************************************************************)

Unref(t, k) ==
    LET x == tx[t]
    IN  /\ table' = [table EXCEPT ![k][x.entry[k]] =
                        picotm_shared_ref16_obj_down(@, [@ EXCEPT !.id = Empty])]
        /\ Set(t, [x EXCEPT !.entry[k] = 0])
        /\ UNCHANGED <<kernel, fdtab, promised>>

unref_buffer(t) ==
    /\ tx[t].pc = "unwind" /\ tx[t].entry["buffer"] # 0
    /\ Unref(t, "buffer")

unref_file(t) ==
    /\ tx[t].pc = "unwind" /\ tx[t].entry["buffer"] = 0 /\ tx[t].entry["file"] # 0
    /\ Unref(t, "file")

(* An open() that did not get its entries closes the descriptor itself.     *)
AfterFd(x) == IF x.op = "open" /\ ~x.ready THEN [x EXCEPT !.pc = "close", !.fd = FALSE] ELSE Idle

(* Mutant: the reference goes back as soon as the fd is to be closed.       *)
Mutfd_unref(t) ==
    LET x == tx[t]  e == fdtab[x.d + 1]
    IN  /\ x.pc = "unwind" /\ x.entry["file"] = 0 /\ x.entry["buffer"] = 0 /\ x.fd
        /\ fdtab' = [fdtab EXCEPT ![x.d + 1] =
                        picotm_shared_ref16_obj_down(e, [e EXCEPT !.state = "UNUSED"])]
        /\ kernel' = IF e.state = "CLOSING" THEN [kernel EXCEPT ![x.d] = NoFile] ELSE kernel
        /\ Set(t, AfterFd(x))
        /\ UNCHANGED <<table, promised>>

(* The final reference of an fd that a transaction has closed closes the    *)
(* descriptor.                                                              *)
fd_unref(t) ==
    LET x == tx[t]  e == fdtab[x.d + 1]
    IN  /\ x.pc = "unwind" /\ x.entry["file"] = 0 /\ x.entry["buffer"] = 0 /\ x.fd
        /\ fdtab' = [fdtab EXCEPT ![x.d + 1] =
                        picotm_shared_ref16_obj_down(e, [e EXCEPT !.state = "UNUSED"])]
        /\ kernel' = IF e.ref = 1 /\ e.state = "CLOSING" THEN [kernel EXCEPT ![x.d] = NoFile] ELSE kernel
        /\ Set(t, AfterFd(x))
        /\ UNCHANGED <<table, promised>>

NoFd(t) ==
    /\ tx[t].pc = "unwind" /\ ~tx[t].fd
    /\ Set(t, AfterFd(tx[t]))
    /\ UNCHANGED <<kernel, fdtab, table, promised>>

CloseNew(t) ==
    /\ tx[t].pc = "close"
    /\ kernel' = [kernel EXCEPT ![tx[t].d] = NoFile]
    /\ Set(t, Idle)
    /\ UNCHANGED <<fdtab, table, promised>>

(* The look-up of a page ends with the transaction's use of the buffer.     *)
Rested(t) ==
    IF tx'[t].pc = "unwind" /\ walk[t].phase # "off"
    THEN walk' = [walk EXCEPT ![t] = AtRest] /\ UNCHANGED <<slot, live, content>>
    ELSE UNCHANGED tmVars

(***************************************************************************)
(* Properties                                                              *)
(***************************************************************************)

Has(t, k) == tx[t].entry[k] # 0

(* Transactions that use the same open file meet at one entry, and so do    *)
(* those that use the same inode at one buffer, whatever descriptors they   *)
(* came by and whoever created, released and recycled entries in the        *)
(* meantime; transactions on different files do not.  An entry in use       *)
(* still describes its file.                                                *)
UsersOfAFileMeet ==
    /\ \A t, u \in Threads :
          /\ Has(t, "file") /\ Has(u, "file") =>
                (tx[t].file = tx[u].file <=> tx[t].entry["file"] = tx[u].entry["file"])
          /\ Has(t, "buffer") /\ Has(u, "buffer") =>
                (Inode[tx[t].file] = Inode[tx[u].file] <=> tx[t].entry["buffer"] = tx[u].entry["buffer"])
    /\ \A t \in Threads :
          /\ Has(t, "file") =>
                LET id == table["file"][tx[t].entry["file"]].id
                IN  id # Empty /\ kernel[id] = tx[t].file
          /\ Has(t, "buffer") => table["buffer"][tx[t].entry["buffer"]].id = Inode[tx[t].file]

(* Users of the same record of the same inode hold the same page of locks.  *)
UsersOfARecordMeet ==
    \A t, u \in Threads :
        /\ {tx[t].pc, tx[u].pc} = {"in_use"} /\ walk[t].phase = "found" /\ walk[u].phase = "found"
        /\ Inode[tx[t].file] = Inode[tx[u].file] /\ walk[t].key = walk[u].key
        => walk[t].node = walk[u].node

(* A descriptor stays open, and stands for the same file, until the last    *)
(* transaction that uses it has finished; then the descriptors that are     *)
(* open are those that committed transactions have left open, and no entry  *)
(* of any table is in use.                                                  *)
DescriptorOutlivesItsUsers ==
    /\ \A t \in Threads : tx[t].fd /\ tx[t].file # NoFile => kernel[tx[t].d] = tx[t].file
    /\ (\A t \in Threads : tx[t].pc = "idle") =>
          /\ promised = {d \in Descriptors : kernel[d] # NoFile}
          /\ \A i \in 1..Len(fdtab) : fdtab[i] = fd_init
          /\ \A k \in Tables : \A i \in 1..Len(table[k]) : table[k][i] = [ref |-> 0, id |-> Empty]
=============================================================================
