------------------------------- MODULE Fildes -------------------------------
(***************************************************************************)
(* File descriptors, modules/libc/src/fildes: the transaction's state of   *)
(* the descriptor table (fildes_tx.c, fdtab_tx.c) and of descriptors       *)
(* (fd_tx.c), the descriptors themselves (fd.c), and the module's          *)
(* call-backs (module.c), for all types of files but regular ones; with    *)
(* them, the other modules of libc and libm, which ProcessState describes, *)
(* in the same transactions.                                               *)
(*                                                                         *)
(* Descriptors are opened at once and closed by a roll-back; they are      *)
(* closed only when the last transaction that uses them ends after a       *)
(* commit.  All changes of the table are made under its writer lock, all   *)
(* other calls hold its reader lock.                                       *)
(*                                                                         *)
(* A call is one step that obtains all of its locks, or stops at some lock *)
(* or with an error and rolls back.  The events of the commit and of the   *)
(* roll-back are steps of their own, and so are the stages of the end.     *)
(***************************************************************************)
EXTENDS ProcessState

LOCAL INSTANCE SequencesExt
LOCAL INSTANCE FiniteSetsExt

CONSTANTS
    Initially,      \* bound: the descriptors at the start
    Menus,          \* bound: sets of calls, of which programs make one
    MAX_CALLS,      \* bound: calls of a transaction
    MAX_TX          \* bound: transactions of each thread

ASSUME InitiallyAssumption == Initially \in [Nums -> Ofds \cup {NULL}]

VARIABLES
    menu,       \* the calls that the program makes
    phase,      \* where each transaction is
    noundo,     \* the transactions that are irrevocable
    started,    \* transactions started by each thread
    calls,      \* calls made by this transaction
    log,        \* its events
    applied,    \* the event that commit or roll-back has reached
    created,    \* history: the files that this transaction has created
    seen,       \* history: the cells the program has been shown
    stored      \* history: the cells it has set

txVars == <<menu, phase, noundo, started, calls, log, applied>>
history == <<created, seen, stored>>
fdVars == <<os, fd, tx, txVars, history>>

Cells == {"fd"} \X Nums \cup {"out", "in", "mode", "name"} \X Buffers
         \cup {"flags", "conn"} \X Ofds \cup ProcessCells

init_rwstates == [l \in Fields \cup ProcessFields |-> "UNLOCKED"]

fildes_tx_init ==
    [error |-> error_tx_init, fpu |-> fpu_tx_init, signal |-> 0,
     rwstate |-> init_rwstates, fd |-> [n \in Nums |-> NULL],
     buf |-> [b \in Buffers |-> pipebuf_tx_init],
     fchmodtab |-> [o \in Ofds |-> <<>>], openoptab |-> <<>>, pipeoptab |-> <<>>]

fd_init == [state |-> "UNUSED", refs |-> 0]

FDInit ==
    /\ menu \in Menus
    /\ os = [fd |-> Initially, cloexec |-> [n \in Nums |-> FALSE],
             used |-> {Initially[n] : n \in Nums} \ {NULL},
             sent |-> [b \in Buffers |-> <<>>], received |-> [b \in Buffers |-> 0],
             mode |-> [b \in Buffers |-> 0],
             names |-> [b \in Buffers |->
                 IF \E n \in Nums : Initially[n] # NULL /\ BufferOf[Initially[n]] = b
                 THEN 1 ELSE 0],
             flags |-> [o \in Ofds |-> "none"], conn |-> [o \in Ofds |-> "none"]]
            @@ ProcessInit
    /\ fd = [n \in Nums |-> fd_init]
    /\ tx = [t \in Threads |-> fildes_tx_init]
    /\ phase = [t \in Threads |-> "out"]
    /\ noundo = {}
    /\ started = [t \in Threads |-> 0]
    /\ calls = [t \in Threads |-> 0]
    /\ log = [t \in Threads |-> <<>>]
    /\ applied = [t \in Threads |-> 0]
    /\ created = [t \in Threads |-> {}]
    /\ seen = [t \in Threads |-> Nothing]
    /\ stored = [t \in Threads |-> Nothing]

-----------------------------------------------------------------------------
(* Descriptors, as the operating system has them.                          *)

Descriptor(s, n) == IF s.fd[n] = NULL THEN NULL ELSE <<s.fd[n], s.cloexec[n]>>

FreeNums == {n \in Nums : os.fd[n] = NULL}
NewNum == Min(FreeNums)

(* Each open file description of the model is used only once.              *)
FreeOfds(type) == {o \in Ofds \ os.used : TypeOf[o] = type}
DescriptionsOf(b) == {o \in Ofds \ os.used : BufferOf[o] = b}

Closed(s, n) == [s EXCEPT !.fd[n] = NULL, !.cloexec[n] = FALSE]
TakenBack(s, n) ==
    [Closed(s, n) EXCEPT
        !.used = @ \ ({s.fd[n]} \ {s.fd[m] : m \in Nums \ {n}})]

-----------------------------------------------------------------------------
(* Locks and references.                                                   *)

Mut_fdtab_tx_try_wrlock == <<Request(Table, "RDLOCKED")>>    \* mutant: the wrong lock

fdtab_tx_try_wrlock == <<Request(Table, "WRLOCKED")>>
fdtab_tx_try_rdlock == <<Request(Table, "RDLOCKED")>>

fd_tx_try_rdlock_field(n) == <<Request(<<"fd", n>>, "RDLOCKED")>>
fd_tx_try_wrlock_field(n) == <<Request(<<"fd", n>>, "WRLOCKED")>>

(* A reference for descriptor n to file o, with the table's reader lock.   *)
find_fd_tx_with_ref(n, o) == fdtab_tx_try_rdlock \o <<Request(<<"ref", n, o>>, "RDLOCKED")>>
get_fd_tx_with_ref(n) == find_fd_tx_with_ref(n, os.fd[n])

Grantable(t, h, q) ==
    IF q.lock[1] = "ref"
    THEN IF h.fds[q.lock[2]] # NULL THEN h.fd[q.lock[2]].state = "INUSE"  \* fd_tx_validate
                                    ELSE h.fd[q.lock[2]].state # "CLOSING"
    ELSE LET own == h.rwstate[q.lock]
             Others == {tx[u].rwstate[q.lock] : u \in Threads \ {t}} \cup {LeftLocked(q.lock)}
         IN  IF q.status = "RDLOCKED"
             THEN own # "UNLOCKED" \/ "WRLOCKED" \notin Others
             ELSE own = "WRLOCKED" \/ Others \subseteq {"UNLOCKED"}

fd_ref_or_set_up(f) == [state |-> "INUSE", refs |-> f.refs + 1]

fd_tx_ref_or_set_up(h, n, o) ==
    IF h.fds[n] # NULL THEN h
    ELSE [h EXCEPT !.fds[n] = o, !.fd[n] = fd_ref_or_set_up(@)]

Grant(t, h, q) ==
    [IF q.lock[1] = "ref" THEN fd_tx_ref_or_set_up(h, q.lock[2], q.lock[3])
     ELSE [h EXCEPT !.rwstate[q.lock] =
              IF "WRLOCKED" \in {@, q.status} THEN "WRLOCKED" ELSE "RDLOCKED"]
     EXCEPT !.granted = @ /\ Grantable(t, h, q)]

(* What t holds after the first k requests, if all of them are granted.    *)
Holding(t, requests, k) ==
    LET held[j \in 0 .. k] ==
            IF j = 0 THEN [rwstate |-> tx[t].rwstate, fds |-> tx[t].fd, fd |-> fd,
                           granted |-> TRUE]
                     ELSE Grant(t, held[j - 1], requests[j])
    IN  held[k]

-----------------------------------------------------------------------------
(* Calls on a descriptor: fd_tx.c and, around it, fildes_tx.c.             *)

fd_tx_accept_exec(t, c, u)   == file_tx_exec(t, os.fd[c.fd], c, u)
fd_tx_bind_exec(t, c, u)     == file_tx_exec(t, os.fd[c.fd], c, u)
fd_tx_connect_exec(t, c, u)  == file_tx_exec(t, os.fd[c.fd], c, u)
fd_tx_fchmod_exec(t, c, u)   == file_tx_exec(t, os.fd[c.fd], c, u)
fd_tx_fstat_exec(t, c, u)    == file_tx_exec(t, os.fd[c.fd], c, u)
fd_tx_fsync_exec(t, c, u)    == file_tx_exec(t, os.fd[c.fd], c, u)
fd_tx_listen_exec(t, c, u)   == file_tx_exec(t, os.fd[c.fd], c, u)
fd_tx_lseek_exec(t, c, u)    == file_tx_exec(t, os.fd[c.fd], c, u)
fd_tx_pread_exec(t, c, u)    == file_tx_exec(t, os.fd[c.fd], c, u)
fd_tx_pwrite_exec(t, c, u)   == file_tx_exec(t, os.fd[c.fd], c, u)
fd_tx_read_exec(t, c, u)     == file_tx_exec(t, os.fd[c.fd], c, u)
fd_tx_recv_exec(t, c, u)     == file_tx_exec(t, os.fd[c.fd], c, u)
fd_tx_send_exec(t, c, u)     == file_tx_exec(t, os.fd[c.fd], c, u)
fd_tx_shutdown_exec(t, c, u) == file_tx_exec(t, os.fd[c.fd], c, u)
fd_tx_write_exec(t, c, u)    == file_tx_exec(t, os.fd[c.fd], c, u)

(* A cell that an irrevocable transaction changes at once.                 *)
Immediately(v, t, cell, value) ==
    IF cell \in DOMAIN stored[t] THEN [v EXCEPT !.changed = (cell :> value) @@ @]
                                 ELSE [v EXCEPT !.shown = (cell :> value) @@ @]

fd_tx_fcntl_exec(t, c, u) ==
    LET v == Call(t)
        f == file_tx_exec(t, os.fd[c.fd], c, u)
    IN  CASE c.cmd = "F_SETFD" ->
                Immediately([v EXCEPT !.requests = fd_tx_try_rdlock_field(c.fd),
                                      !.irrevocable = TRUE,
                                      !.os.cloexec[c.fd] = c.arg,
                                      !.event = [op |-> "setfd", fd |-> c.fd, cookie |-> c.arg]],
                            t, <<"fd", c.fd>>, <<os.fd[c.fd], c.arg>>)
          [] c.cmd = "F_GETFD" ->
                [v EXCEPT !.requests = fd_tx_try_rdlock_field(c.fd), !.event = Event(c, 1)]
          [] OTHER -> [f EXCEPT !.requests = fd_tx_try_rdlock_field(c.fd) \o @]

(* The descriptor stays open until the end of the transaction.             *)
fd_tx_close_exec(t, c, u) ==
    [Call(t) EXCEPT !.requests = fd_tx_try_wrlock_field(c.fd),
                    !.event = Event(c, 0),
                    !.changed = <<"fd", c.fd>> :> NULL]

fd_tx_dup_exec(t, c, u) == Call(t)

ClosedBy(t) == {e.fd : e \in {log[t][k] : k \in {j \in DOMAIN log[t] : log[t][j].op = "close"}}}

(* What v does, after descriptor n has been referenced.                    *)
Referenced(t, n, v) ==
    [v EXCEPT !.requests = get_fd_tx_with_ref(n) \o @,
              !.allowed = @ /\ (n \notin ClosedBy(t) \/ "use after close" \in Risks),
              !.shown = @ @@ (<<"fd", n>> :> Descriptor(os, n))]

(* A descriptor that is not open: EBADF.                                   *)
WithRef(t, c, v) ==
    IF os.fd[c.fd] = NULL
    THEN [Call(t) EXCEPT !.requests = fdtab_tx_try_rdlock, !.fails = TRUE]
    ELSE Referenced(t, c.fd, v)

fildes_tx_exec_bind(t, c, u)     == WithRef(t, c, fd_tx_bind_exec(t, c, u))
fildes_tx_exec_connect(t, c, u)  == WithRef(t, c, fd_tx_connect_exec(t, c, u))
fildes_tx_exec_fchmod(t, c, u)   == WithRef(t, c, fd_tx_fchmod_exec(t, c, u))
fildes_tx_exec_fstat(t, c, u)    == WithRef(t, c, fd_tx_fstat_exec(t, c, u))
fildes_tx_exec_fsync(t, c, u)    == WithRef(t, c, fd_tx_fsync_exec(t, c, u))
fildes_tx_exec_listen(t, c, u)   == WithRef(t, c, fd_tx_listen_exec(t, c, u))
fildes_tx_exec_lseek(t, c, u)    == WithRef(t, c, fd_tx_lseek_exec(t, c, u))
fildes_tx_exec_pread(t, c, u)    == WithRef(t, c, fd_tx_pread_exec(t, c, u))
fildes_tx_exec_pwrite(t, c, u)   == WithRef(t, c, fd_tx_pwrite_exec(t, c, u))
fildes_tx_exec_read(t, c, u)     == WithRef(t, c, fd_tx_read_exec(t, c, u))
fildes_tx_exec_recv(t, c, u)     == WithRef(t, c, fd_tx_recv_exec(t, c, u))
fildes_tx_exec_send(t, c, u)     == WithRef(t, c, fd_tx_send_exec(t, c, u))
fildes_tx_exec_shutdown(t, c, u) == WithRef(t, c, fd_tx_shutdown_exec(t, c, u))
fildes_tx_exec_write(t, c, u)    == WithRef(t, c, fd_tx_write_exec(t, c, u))

(* Duplicates are made by dup(); fcntl() only takes the lock for them and  *)
(* then finds that no file knows the command.                              *)
fildes_tx_exec_fcntl(t, c, u) ==
    IF c.cmd = "F_DUPFD"
    THEN [Call(t) EXCEPT
             !.requests = fdtab_tx_try_wrlock
                          \o IF os.fd[c.fd] = NULL THEN <<>> ELSE get_fd_tx_with_ref(c.fd),
             !.fails = TRUE]
    ELSE WithRef(t, c, fd_tx_fcntl_exec(t, c, u))

fildes_tx_exec_fchdir(t, c, u) ==
    LET Chdir(s, d, w) == [cwd_tx_chdir_exec(s, BufferOf[os.fd[d.fd]]) EXCEPT
                              !.fails = TypeOf[os.fd[d.fd]] # "dir"]
    IN  WithRef(t, c, Chdir(t, c, u))

fildes_tx_exec_select(t, c, u) ==
    IF \E n \in c.fds : os.fd[n] = NULL
    THEN [Call(t) EXCEPT !.requests = fdtab_tx_try_rdlock, !.fails = TRUE]
    ELSE FoldLeft(LAMBDA v, n : Referenced(t, n, v), Call(t), SetToSeq(c.fds))

fildes_tx_exec_close(t, c, u) ==
    LET v == WithRef(t, c, fd_tx_close_exec(t, c, u))
    IN  [v EXCEPT !.requests = fdtab_tx_try_wrlock \o @]

-----------------------------------------------------------------------------
(* Calls that make descriptors.  Their numbers tell the program that all   *)
(* smaller ones are taken.                                                 *)

add_new_fd_tx_with_ref(n, o) == find_fd_tx_with_ref(n, o)
add_dup_fd_tx_with_ref(n, o) == find_fd_tx_with_ref(n, o)

Taken(t, n) ==
    [c \in {"fd"} \X (0 .. n - 1) \ DOMAIN stored[t] |-> Descriptor(os, c[2])]

(* Descriptor n for open file description o.                               *)
Opened(v, t, n, o, cloexec) ==
    [v EXCEPT !.os.fd[n] = o, !.os.cloexec[n] = cloexec, !.os.used = @ \cup {o},
              !.shown = Taken(t, n) @@ @,
              !.changed = (<<"fd", n>> :> <<o, cloexec>>) @@ @]

NoSpace(v) == [v EXCEPT !.fails = TRUE]

fildes_tx_exec_accept(t, c, u) ==
    LET v == WithRef(t, c, fd_tx_accept_exec(t, c, u))
        Free == FreeOfds("socket")
        o == CHOOSE x \in Free : TRUE
        w == [v EXCEPT !.requests = fdtab_tx_try_wrlock \o @]
    IN  IF v.fails \/ ~u THEN w
        ELSE IF FreeNums = {} \/ Free = {} THEN NoSpace(w)
        ELSE [Opened(w, t, NewNum, o, FALSE) EXCEPT
                 !.requests = @ \o add_new_fd_tx_with_ref(NewNum, o),
                 !.event = [op |-> "accept", fd |-> NewNum, cookie |-> -1]]

fildes_tx_exec_dup(t, c, u) ==
    LET v == WithRef(t, c, fd_tx_dup_exec(t, c, u))
        w == [v EXCEPT !.requests = fdtab_tx_try_wrlock \o @]
    IN  IF FreeNums = {} \/ os.fd[c.fd] = NULL THEN NoSpace(w)
        ELSE [Opened(w, t, NewNum, os.fd[c.fd], c.cloexec) EXCEPT
                 !.requests = @ \o add_dup_fd_tx_with_ref(NewNum, os.fd[c.fd]),
                 !.event = [op |-> "dup", fd |-> NewNum, cookie |-> -1]]

(* The flags O_CREAT, O_EXCL and O_TRUNC are looked for in the mode, where *)
(* the same bits are permissions of the owner and the sticky bit.          *)
DO_UNLINK(mode) == {"O_CREAT", "O_EXCL"} \subseteq mode

fildes_tx_exec_open(t, c, u) ==
    LET b == c.file
        Free == DescriptionsOf(b)
        o == CHOOSE x \in Free : TRUE
        creates == os.names[b] = 0
        truncates == "O_TRUNC" \in c.oflag
        v == [Call(t) EXCEPT
                 !.requests = fdtab_tx_try_wrlock,
                 !.irrevocable = "O_TRUNC" \in c.mode,
                 !.allowed = \/ "open flags" \in Risks
                             \/ /\ creates <=> DO_UNLINK(c.mode)
                                /\ truncates => "O_TRUNC" \in c.mode,
                 !.fails = IF creates THEN "O_CREAT" \notin c.oflag
                                      ELSE {"O_CREAT", "O_EXCL"} \subseteq c.oflag,
                 !.shown = <<"name", b>> :> os.names[b],
                 !.changed = IF creates THEN <<"name", b>> :> 1 ELSE Nothing,
                 !.os.names[b] = IF creates THEN 1 ELSE @,
                 !.os.sent[b] = IF truncates THEN <<>> ELSE @]
        w == IF truncates THEN Immediately(v, t, <<"out", b>>, <<>>) ELSE v
    IN  IF v.fails \/ FreeNums = {} \/ Free = {} THEN NoSpace(v)
        ELSE [Opened(w, t, NewNum, o, FALSE) EXCEPT
                 !.requests = @ \o add_new_fd_tx_with_ref(NewNum, o),
                 !.event = [op |-> "open", fd |-> NewNum,
                            cookie |-> Len(tx[t].openoptab) + 1]]

(* The temporary file gets a descriptor without a reference.               *)
fildes_tx_exec_mkstemp(t, c, u) ==
    LET b == c.file
        Free == DescriptionsOf(b)
        o == CHOOSE x \in Free : TRUE
        v == [Call(t) EXCEPT !.requests = fdtab_tx_try_wrlock,
                             !.fails = os.names[b] # 0,
                             !.shown = <<"name", b>> :> os.names[b],
                             !.changed = <<"name", b>> :> 1,
                             !.os.names[b] = 1]
    IN  IF FreeNums = {} \/ Free = {} THEN NoSpace(v)
        ELSE [Opened(v, t, NewNum, o, FALSE) EXCEPT
                 !.event = [op |-> "mkstemp", fd |-> NewNum, cookie |-> NewNum]]

fildes_tx_exec_socket(t, c, u) ==
    LET Free == FreeOfds("socket")
        o == CHOOSE x \in Free : TRUE
        v == [Call(t) EXCEPT !.requests = fdtab_tx_try_wrlock]
    IN  IF FreeNums = {} \/ Free = {} THEN NoSpace(v)
        ELSE [Opened(v, t, NewNum, o, FALSE) EXCEPT
                 !.requests = @ \o add_new_fd_tx_with_ref(NewNum, o),
                 !.event = [op |-> "socket", fd |-> NewNum, cookie |-> -1]]

fildes_tx_exec_pipe(t, c, u) ==
    LET Free == {p \in FreeOfds("fifo") \X FreeOfds("fifo") :
                    p[1] # p[2] /\ BufferOf[p[1]] = BufferOf[p[2]]}
        p == CHOOSE q \in Free : TRUE
        n == NewNum
        m == Min(FreeNums \ {n})
        v == [Call(t) EXCEPT !.requests = fdtab_tx_try_wrlock]
    IN  IF Cardinality(FreeNums) < 2 \/ Free = {} THEN NoSpace(v)
        ELSE [Opened(Opened(v, t, m, p[2], FALSE), t, n, p[1], FALSE) EXCEPT
                 !.requests = @ \o add_new_fd_tx_with_ref(n, p[1])
                                \o add_new_fd_tx_with_ref(m, p[2]),
                 !.shown = [x \in DOMAIN @ \ {<<"fd", n>>} |-> @[x]],
                 !.event = [op |-> "pipe", fd |-> 0,
                            cookie |-> Len(tx[t].pipeoptab) + 1]]

(* What the tables of open and pipe get.                                   *)
openoptab_append(tab, c) == IF c.op = "open" THEN Append(tab, DO_UNLINK(c.mode)) ELSE tab
pipeoptab_append(tab, c) ==
    IF c.op = "pipe"
    THEN Append(tab, <<NewNum, Min(FreeNums \ {NewNum})>>) ELSE tab

-----------------------------------------------------------------------------
(* Calls on paths: carried out at once, without locks, events or           *)
(* irrevocability.                                                         *)

PathCall(t, c, u) ==
    [Call(t) EXCEPT !.allowed = u \/ "path call" \in Risks,
                    !.fails = os.names[c.file] = 0]

Renamed(v, t, b, count) ==
    Immediately([v EXCEPT !.os.names[b] = count], t, <<"name", b>>, count)

NewName(t, c, u) ==
    Renamed([PathCall(t, c, u) EXCEPT !.fails = os.names[c.file] # 0], t, c.file, 1)

fildes_tx_exec_chmod(t, c, u) ==
    Immediately([PathCall(t, c, u) EXCEPT !.os.mode[c.file] = c.mode],
                t, <<"mode", c.file>>, c.mode)

fildes_tx_exec_link(t, c, u) ==
    Renamed(PathCall(t, c, u), t, c.file, os.names[c.file] + 1)

fildes_tx_exec_unlink(t, c, u) ==
    Renamed(PathCall(t, c, u), t, c.file, os.names[c.file] - 1)

fildes_tx_exec_mkdir(t, c, u) == NewName(t, c, u)
fildes_tx_exec_mkfifo(t, c, u) == NewName(t, c, u)
fildes_tx_exec_mknod(t, c, u) == NewName(t, c, u)

fildes_tx_exec_stat(t, c, u) ==
    [PathCall(t, c, u) EXCEPT
        !.shown = (<<"mode", c.file>> :> os.mode[c.file])
                  @@ (<<"name", c.file>> :> os.names[c.file])]

fildes_tx_exec_lstat(t, c, u) == fildes_tx_exec_stat(t, c, u)

(* sync() saves at once and again at the commit.                           *)
fildes_tx_exec_sync(t, c, u) ==
    [Call(t) EXCEPT !.event = [op |-> "sync", fd |-> -1, cookie |-> -1]]

fildes_module(t, c, u) ==
    CASE c.op = "accept"   -> fildes_tx_exec_accept(t, c, u)
      [] c.op = "bind"     -> fildes_tx_exec_bind(t, c, u)
      [] c.op = "chmod"    -> fildes_tx_exec_chmod(t, c, u)
      [] c.op = "close"    -> fildes_tx_exec_close(t, c, u)
      [] c.op = "connect"  -> fildes_tx_exec_connect(t, c, u)
      [] c.op = "dup"      -> fildes_tx_exec_dup(t, c, u)
      [] c.op = "fchdir"   -> fildes_tx_exec_fchdir(t, c, u)
      [] c.op = "fchmod"   -> fildes_tx_exec_fchmod(t, c, u)
      [] c.op = "fcntl"    -> fildes_tx_exec_fcntl(t, c, u)
      [] c.op = "fstat"    -> fildes_tx_exec_fstat(t, c, u)
      [] c.op = "fsync"    -> fildes_tx_exec_fsync(t, c, u)
      [] c.op = "link"     -> fildes_tx_exec_link(t, c, u)
      [] c.op = "listen"   -> fildes_tx_exec_listen(t, c, u)
      [] c.op = "lseek"    -> fildes_tx_exec_lseek(t, c, u)
      [] c.op = "lstat"    -> fildes_tx_exec_lstat(t, c, u)
      [] c.op = "mkdir"    -> fildes_tx_exec_mkdir(t, c, u)
      [] c.op = "mkfifo"   -> fildes_tx_exec_mkfifo(t, c, u)
      [] c.op = "mknod"    -> fildes_tx_exec_mknod(t, c, u)
      [] c.op = "mkstemp"  -> fildes_tx_exec_mkstemp(t, c, u)
      [] c.op = "open"     -> fildes_tx_exec_open(t, c, u)
      [] c.op = "pipe"     -> fildes_tx_exec_pipe(t, c, u)
      [] c.op = "pread"    -> fildes_tx_exec_pread(t, c, u)
      [] c.op = "pwrite"   -> fildes_tx_exec_pwrite(t, c, u)
      [] c.op = "read"     -> fildes_tx_exec_read(t, c, u)
      [] c.op = "recv"     -> fildes_tx_exec_recv(t, c, u)
      [] c.op = "select"   -> fildes_tx_exec_select(t, c, u)
      [] c.op = "send"     -> fildes_tx_exec_send(t, c, u)
      [] c.op = "shutdown" -> fildes_tx_exec_shutdown(t, c, u)
      [] c.op = "socket"   -> fildes_tx_exec_socket(t, c, u)
      [] c.op = "stat"     -> fildes_tx_exec_stat(t, c, u)
      [] c.op = "sync"     -> fildes_tx_exec_sync(t, c, u)
      [] c.op = "unlink"   -> fildes_tx_exec_unlink(t, c, u)
      [] c.op = "write"    -> fildes_tx_exec_write(t, c, u)

-----------------------------------------------------------------------------
(* The other modules, and the wrappers around all of them.                 *)

cwd_module(t, c) ==
    CASE c.op = "chdir"    -> cwd_tx_chdir_exec(t, c.file)
      [] c.op = "getcwd"   -> cwd_tx_getcwd_exec(t)
      [] c.op = "realpath" -> cwd_tx_realpath_exec(t)

locale_module(t, c) ==
    CASE c.op = "duplocale"  -> locale_tx_duplocale_exec(t, c.object)
      [] c.op = "freelocale" -> locale_tx_freelocale_exec(t, c.object)
      [] c.op = "newlocale"  -> locale_tx_newlocale_exec(t, c.object)
      [] c.op = "localeconv" -> locale_tx_localeconv_exec(t)
      [] c.op = "setlocale"  -> locale_tx_setlocale_exec(t, c.category, c.locale)
      [] c.op = "uselocale"  -> locale_tx_uselocale_exec(t, c.object)

allocator_module(t, c) ==
    CASE c.op = "malloc"         -> allocator_tx_exec_malloc(t)
      [] c.op = "posix_memalign" -> allocator_tx_exec_posix_memalign(t)
      [] c.op = "free"           -> allocator_tx_exec_free(t, c.block)

signal_module(t, c) ==
    CASE c.op = "add_signal"    -> signal_tx_add_signal(t, c.recoverable)
      [] c.op = "remove_signal" -> signal_tx_remove_signal(t)
      [] c.op = "clear_signals" -> signal_tx_clear_signals(t)

(* These do not save errno.                                                *)
NoErrno == {"errno", "fexcept", "math", "free", "posix_memalign", "freelocale", "localeconv",
            "setlocale", "sync", "add_signal", "remove_signal", "clear_signals"}

(* F_DUPFD is a dup().                                                     *)
fcntl_tx(c) ==
    IF c.op = "fcntl" /\ c.cmd \in {"F_DUPFD", "F_DUPFD_CLOEXEC"}
    THEN [op |-> "dup", fd |-> c.fd, cloexec |-> c.cmd = "F_DUPFD_CLOEXEC"] ELSE c

Makers(cell) ==
    IF cell[1] = "heap" THEN {"malloc", "posix_memalign"} ELSE {"newlocale", "duplocale"}

(* Programs do not use what they have released, release what others use,   *)
(* or know of what others have made and not yet committed.                 *)
Usable(t, c) ==
    /\ ~InUse(c)
    /\ \A cell \in Uses(c) :
           /\ cell \in DOMAIN stored[t] => stored[t][cell]
           /\ \A u \in Threads \ {t} : \A k \in DOMAIN log[u] :
                  log[u][k].op \in Makers(cell) \cup (IF cell[1] = "heap" THEN {"free"} ELSE {})
                      => log[u][k].cookie # cell[2]

libc_tx(t, d, u) ==
    LET c == fcntl_tx(d)
        v == CASE c.op \in CwdOps -> cwd_module(t, c)
               [] c.op \in LocaleOps \cup {"localeconv"} -> locale_module(t, c)
               [] c.op \in AllocatorOps -> allocator_module(t, c)
               [] c.op \in {"add_signal", "remove_signal", "clear_signals"} -> signal_module(t, c)
               [] c.op = "errno" -> errno_location(t, c.errno)
               [] c.op = "fexcept" -> save_fexcept(t, c.raise)
               [] c.op = "math" -> MATHERR(t, c.raises)
               [] OTHER -> fildes_module(t, c, u)
    IN  [v EXCEPT !.allowed = @ /\ Usable(t, c),
                  !.error = IF c.op \in NoErrno THEN @ ELSE error_tx_save_errno(t)]

-----------------------------------------------------------------------------
(* Transactions.                                                           *)

(* An irrevocable transaction runs alone.                                  *)
Begin(t, alone) ==
    /\ phase[t] = "out" /\ started[t] < MAX_TX
    /\ noundo = {}
    /\ alone => \A u \in Threads : phase[u] = "out"
    /\ phase' = [phase EXCEPT ![t] = "run"]
    /\ noundo' = IF alone THEN {t} ELSE {}
    /\ started' = [started EXCEPT ![t] = @ + 1]
    /\ UNCHANGED <<os, fd, tx, menu, calls, log, applied, history>>

(* The first k locks and references of the call are t's from now on.       *)
Acquire(t, v, k) ==
    \E h \in {Holding(t, v.requests, k)} :
        /\ h.granted
        /\ fd' = h.fd
        /\ tx' = [tx EXCEPT ![t].rwstate = h.rwstate, ![t].fd = h.fds]

fildes_log_append(t, e) ==
    log' = IF e.op = "none" THEN log ELSE [log EXCEPT ![t] = Append(@, e)]

(* A call that gets its locks.                                             *)
Exec(t, c) ==
    /\ phase[t] = "run" /\ calls[t] < MAX_CALLS
    /\ \E v \in {libc_tx(t, c, t \in noundo)} :
       \E h \in {Holding(t, v.requests, Len(v.requests))} :
          /\ v.irrevocable => t \in noundo
          /\ v.allowed /\ ~v.fails
          /\ h.granted
          /\ fd' = h.fd
          /\ os' = v.os
          /\ tx' = [tx EXCEPT ![t] =
                 [rwstate |-> h.rwstate, fd |-> h.fds, buf |-> v.buf,
                  fchmodtab |-> v.fchmodtab,
                  openoptab |-> openoptab_append(@.openoptab, c),
                  pipeoptab |-> pipeoptab_append(@.pipeoptab, c),
                  error |-> v.error, fpu |-> v.fpu, signal |-> v.signal]]
          /\ fildes_log_append(t, v.event)
          /\ \E p \in {"run"} \cup IF v.undefined THEN {"undefined"} ELSE {} :
                 phase' = [phase EXCEPT ![t] = p]
          /\ created' = [created EXCEPT ![t] =
                 @ \cup {b \in Buffers : os.names[b] = 0 /\ v.os.names[b] > 0
                                         /\ <<"name", b>> \in DOMAIN v.changed}]
          /\ seen' = [seen EXCEPT ![t] = v.changed @@ v.shown @@ @]
          /\ stored' = [stored EXCEPT ![t] = v.changed @@ @]
    /\ calls' = [calls EXCEPT ![t] = @ + 1]
    /\ UNCHANGED <<menu, noundo, started, applied>>

(* What a call leaves behind when it has taken effect and memory for its   *)
(* event runs out.                                                         *)
Leftover(v, c) ==
    CASE c.op \in {"fchmod", "pipe", "uselocale"} -> v.os
      [] c.op = "mkstemp" -> [v.os EXCEPT !.names[c.file] = 0]
      [] c.op = "open" -> [os EXCEPT !.names[c.file] = v.os.names[c.file],
                                     !.sent[c.file] = v.os.sent[c.file]]
      [] c.op = "newlocale" -> [os EXCEPT !.objects = @ \ {c.object}]
      [] OTHER -> os

Unlogged(v, c, k) ==
    IF k = Len(v.requests) /\ ~v.fails /\ ~v.irrevocable /\ "no memory" \in Risks
    THEN {Leftover(v, c)} ELSE {}

(* The undo call-backs of the modules come before the events.              *)
undo(t, s) == fpu_tx_undo(error_tx_undo(s, t), t)

(* A call that does not get all of its locks, or fails after that, or has  *)
(* to start again as an irrevocable one.                                   *)
Refuse(t, c) ==
    /\ phase[t] = "run" /\ t \notin noundo
    /\ \E v \in {libc_tx(t, c, FALSE)} :
          /\ v.allowed
          /\ \E k \in 0 .. Len(v.requests) :
                /\ Acquire(t, v, k)
                /\ os' \in {undo(t, s) : s \in {os} \cup Unlogged(v, c, k)}
    /\ phase' = [phase EXCEPT ![t] = "undo"]
    /\ applied' = [applied EXCEPT ![t] = Len(log[t])]
    /\ seen' = [seen EXCEPT ![t] = Nothing]
    /\ stored' = [stored EXCEPT ![t] = Nothing]
    /\ UNCHANGED <<menu, noundo, started, calls, log, created>>

(* Every descriptor in use has to be open still.                           *)
fildes_tx_prepare_commit(t) == \A n \in Nums : tx[t].fd[n] # NULL => fd[n].state = "INUSE"

Commit(t) ==
    /\ phase[t] = "run"
    /\ IF fildes_tx_prepare_commit(t)
       THEN phase' = [phase EXCEPT ![t] = "apply"] /\ UNCHANGED <<os, applied>>
       ELSE /\ phase' = [phase EXCEPT ![t] = "undo"]
            /\ os' = undo(t, os)
            /\ applied' = [applied EXCEPT ![t] = Len(log[t])]
    /\ seen' = [seen EXCEPT ![t] = Nothing]
    /\ stored' = [stored EXCEPT ![t] = Nothing]
    /\ UNCHANGED <<fd, tx, menu, noundo, started, calls, log, created>>

(* A signal for which the program is prepared, between two calls.          *)
Signal(t) ==
    /\ phase[t] = "run" /\ t \notin noundo
    /\ signal_tx_recovers(t)
    /\ phase' = [phase EXCEPT ![t] = "undo"]
    /\ applied' = [applied EXCEPT ![t] = Len(log[t])]
    /\ os' = undo(t, os)
    /\ seen' = [seen EXCEPT ![t] = Nothing]
    /\ stored' = [stored EXCEPT ![t] = Nothing]
    /\ UNCHANGED <<fd, tx, menu, noundo, started, calls, log, created>>

fd_close(n) == fd' = [fd EXCEPT ![n].state = "CLOSING"]
fd_setfd(n, arg) == os' = [os EXCEPT !.cloexec[n] = arg]

(* Event e of a commit.                                                    *)
fildes_tx_apply_event(t, e) ==
    CASE e.op = "close" -> fd_close(e.fd) /\ UNCHANGED os
      [] e.op = "setfd" -> fd_setfd(e.fd, e.cookie) /\ UNCHANGED fd
      [] e.op \in {"write", "send"} -> file_tx_apply(t, tx[t].fd[e.fd], e) /\ UNCHANGED fd
      [] OTHER -> UNCHANGED <<os, fd>>

Apply(t) ==
    /\ phase[t] = "apply" /\ applied[t] < Len(log[t])
    /\ LET e == log[t][applied[t] + 1]
       IN  CASE e.op \in CwdOps -> UNCHANGED <<os, fd>>
             [] e.op \in LocaleOps -> os' = locale_tx_apply_event(os, e) /\ UNCHANGED fd
             [] e.op \in AllocatorOps -> os' = allocator_tx_apply_event(os, e) /\ UNCHANGED fd
             [] OTHER -> fildes_tx_apply_event(t, e)
    /\ applied' = [applied EXCEPT ![t] = @ + 1]
    /\ UNCHANGED <<tx, menu, phase, noundo, started, calls, log, history>>

(* The file of a descriptor loses its name.                                *)
unlink_fildes(s, n) == [s EXCEPT !.names[BufferOf[s.fd[n]]] = 0]

undo_open(t, e) ==
    /\ os' = IF tx[t].openoptab[e.cookie] THEN unlink_fildes(os, e.fd) ELSE os
    /\ fd_close(e.fd)

undo_mkstemp(e) ==
    /\ os' = TakenBack(unlink_fildes(os, e.fd), e.fd)
    /\ UNCHANGED fd

undo_pipe(t, e) ==
    LET p == tx[t].pipeoptab[e.cookie]
    IN  os' = TakenBack(TakenBack(os, p[1]), p[2]) /\ UNCHANGED fd

undo_dup(e) == fd_close(e.fd) /\ UNCHANGED os

undo_accept(e) == fd_close(e.fd) /\ UNCHANGED os
undo_socket(e) == fd_close(e.fd) /\ UNCHANGED os

(* Event e of a roll-back.                                                 *)
fildes_tx_undo_event(t, e) ==
    CASE e.op = "open"    -> undo_open(t, e)
      [] e.op = "mkstemp" -> undo_mkstemp(e)
      [] e.op = "pipe"    -> undo_pipe(t, e)
      [] e.op = "dup"     -> undo_dup(e)
      [] e.op = "accept"  -> undo_accept(e)
      [] e.op = "socket"  -> undo_socket(e)
      [] e.op = "fchmod"  -> file_tx_undo(t, tx[t].fd[e.fd], e) /\ UNCHANGED fd
      [] OTHER -> UNCHANGED <<os, fd>>

Undo(t) ==
    /\ phase[t] = "undo" /\ applied[t] > 0
    /\ LET e == log[t][applied[t]]
       IN  CASE e.op \in CwdOps -> os' = cwd_tx_undo_event(os, e) /\ UNCHANGED fd
             [] e.op \in LocaleOps -> os' = locale_tx_undo_event(os, t, e) /\ UNCHANGED fd
             [] e.op \in AllocatorOps -> os' = allocator_tx_undo_event(os, e) /\ UNCHANGED fd
             [] OTHER -> fildes_tx_undo_event(t, e)
    /\ applied' = [applied EXCEPT ![t] = @ - 1]
    /\ UNCHANGED <<tx, menu, phase, noundo, started, calls, log, history>>

-----------------------------------------------------------------------------
(* The end of a transaction, in fildes_tx_finish: buffers and files, then  *)
(* each descriptor, then the table.                                        *)

Ending == {"applied", "undone"}

Unlocked(rwstate, fields) ==
    [l \in DOMAIN rwstate |-> IF l \in fields THEN "UNLOCKED" ELSE rwstate[l]]

FinishFiles(t) ==
    /\ \/ phase[t] = "apply" /\ applied[t] = Len(log[t])
          /\ phase' = [phase EXCEPT ![t] = "applied"]
       \/ phase[t] = "undo" /\ applied[t] = 0
          /\ phase' = [phase EXCEPT ![t] = "undone"]
    /\ tx' = [tx EXCEPT
           ![t].rwstate = Unlocked(@, Fields \ ({Table} \cup {"fd"} \X Nums)),
           ![t].buf = [b \in Buffers |-> pipebuf_tx_init],
           ![t].fchmodtab = [o \in Ofds |-> <<>>]]
    /\ UNCHANGED <<os, fd, menu, noundo, started, calls, log, applied, history>>

(* The last transaction to let go of a closed descriptor closes it in the  *)
(* system.                                                                 *)
fd_unref(t, n) ==
    IF fd[n].refs > 1
    THEN fd' = [fd EXCEPT ![n].refs = @ - 1] /\ UNCHANGED os
    ELSE /\ fd' = [fd EXCEPT ![n] = fd_init]
         /\ os' = IF fd[n].state # "CLOSING" THEN os
                  ELSE IF phase[t] = "undone" THEN TakenBack(os, n) ELSE Closed(os, n)

FinishFd(t, n) ==
    /\ phase[t] \in Ending
    /\ tx[t].fd[n] # NULL
    /\ tx' = [tx EXCEPT ![t].fd[n] = NULL, ![t].rwstate[<<"fd", n>>] = "UNLOCKED"]
    /\ fd_unref(t, n)
    /\ UNCHANGED <<txVars, history>>

(* The other modules finish when it is their turn, in the order in which   *)
(* they have been used first.                                              *)
cwd_tx_finish(t) ==
    /\ phase[t] \in Ending
    /\ tx[t].rwstate[<<"cwd">>] # "UNLOCKED"
    /\ tx' = [tx EXCEPT ![t].rwstate[<<"cwd">>] = "UNLOCKED"]
    /\ UNCHANGED <<os, fd, txVars, history>>

locale_tx_finish(t) ==
    LET fields == ProcessFields \ {<<"cwd">>}
    IN  /\ phase[t] \in Ending
        /\ \E l \in fields : tx[t].rwstate[l] # "UNLOCKED"
        /\ tx' = [tx EXCEPT ![t].rwstate = Unlocked(@, fields)]
        /\ os' = release_locale_states(t)
        /\ UNCHANGED <<fd, txVars, history>>

FinishTable(t) ==
    /\ phase[t] \in Ending
    /\ \A n \in Nums : tx[t].fd[n] = NULL
    /\ \A l \in ProcessFields : tx[t].rwstate[l] = "UNLOCKED"
    /\ tx' = [tx EXCEPT ![t].rwstate[Table] = "UNLOCKED",
                        ![t].error = error_tx_init, ![t].fpu = fpu_tx_init]
    /\ phase' = [phase EXCEPT ![t] = "out"]
    /\ noundo' = noundo \ {t}
    /\ calls' = [calls EXCEPT ![t] = 0]
    /\ log' = [log EXCEPT ![t] = <<>>]
    /\ applied' = [applied EXCEPT ![t] = 0]
    /\ created' = [created EXCEPT ![t] = {}]
    /\ UNCHANGED <<os, fd, menu, started, seen, stored>>

FDNext ==
    \E t \in Threads :
        \/ \E alone \in BOOLEAN : Begin(t, alone)
        \/ \E c \in menu : Exec(t, c) \/ Refuse(t, c)
        \/ Signal(t)
        \/ Commit(t)
        \/ Apply(t)
        \/ Undo(t)
        \/ FinishFiles(t)
        \/ \E n \in Nums : FinishFd(t, n)
        \/ cwd_tx_finish(t)
        \/ locale_tx_finish(t)
        \/ FinishTable(t)

FDSpec == FDInit /\ [][FDNext]_fdVars

-----------------------------------------------------------------------------
(* Properties.                                                             *)

FDTypeOK ==
    /\ os.fd \in [Nums -> Ofds \cup {NULL}]
    /\ os.cloexec \in [Nums -> BOOLEAN]
    /\ os.used \subseteq Ofds
    /\ \A b \in Buffers : /\ os.received[b] \in 0 .. MAX_IN
                          /\ Len(os.sent[b]) - os.received[b] <= CAPACITY
                          /\ os.names[b] \in Nat
    /\ fd \in [Nums -> [state : {"UNUSED", "INUSE", "CLOSING"}, refs : 0 .. Cardinality(Threads)]]
    /\ phase \in [Threads -> {"out", "run", "apply", "undo", "undefined"} \cup Ending]
    /\ noundo \subseteq Threads
    /\ \A t \in Threads :
          /\ tx[t].rwstate \in [Fields \cup ProcessFields -> Statuses]
          /\ tx[t].fd \in [Nums -> Ofds \cup {NULL}]
          /\ applied[t] \in 0 .. Len(log[t])
          /\ calls[t] \in 0 .. MAX_CALLS /\ started[t] \in 0 .. MAX_TX
          /\ DOMAIN stored[t] \subseteq DOMAIN seen[t] /\ DOMAIN seen[t] \subseteq Cells

(* The entries of the table are referenced by exactly the transactions     *)
(* that use the descriptor, and an entry that is about to be closed        *)
(* belongs to one transaction, which keeps all others from the table.      *)
DescriptorTableIsConsistent ==
    /\ FDTypeOK
    /\ \A n \in Nums :
            LET Users == {t \in Threads : tx[t].fd[n] # NULL}
            IN  /\ fd[n].refs = Cardinality(Users)
                /\ fd[n].state = "UNUSED" <=> Users = {}
                /\ fd[n].state = "CLOSING" =>
                       \A t \in Users : tx[t].rwstate[Table] = "WRLOCKED" /\ Users = {t}

(* The state that others will find once all commits and roll-backs under   *)
(* way are over.                                                           *)
MadeBy(t) ==
    UNION {CASE e.op \in {"open", "mkstemp", "dup", "accept", "socket"} -> {e.fd}
             [] e.op = "pipe" -> {tx[t].pipeoptab[e.cookie][1], tx[t].pipeoptab[e.cookie][2]}
             [] OTHER -> {} : e \in {log[t][k] : k \in DOMAIN log[t]}}

In(phases) == {t \in Threads : phase[t] \in phases}
Committing == In({"apply", "applied"})
Uncommitted == In({"run", "undo", "undone"})

Outstanding(b) ==
    LET Own(t, k) == /\ log[t][k].op \in {"write", "send"}
                     /\ BufferOf[tx[t].fd[log[t][k].fd]] = b
                     /\ tx[t].buf[b].wrmode = "BACK"
        Writers == {t \in In({"apply"}) : \E k \in applied[t] + 1 .. Len(log[t]) : Own(t, k)}
    IN  IF Writers = {} THEN <<>>
        ELSE LET t == CHOOSE u \in Writers : TRUE
                 first == Min({k \in applied[t] + 1 .. Len(log[t]) : Own(t, k)})
                 wrtab == tx[t].buf[b].wrtab
             IN  SubSeq(wrtab, log[t][first].cookie, Len(wrtab))

(* Events of uncommitted transactions that will be undone, and of          *)
(* committing ones that will be applied.                                   *)
ToUndo(t) ==
    CASE phase[t] = "run" -> log[t]
      [] phase[t] = "undo" -> SubSeq(log[t], 1, applied[t])
      [] OTHER -> <<>>
ToApply(t) == IF phase[t] = "apply" THEN SubSeq(log[t], applied[t] + 1, Len(log[t])) ELSE <<>>

(* What the first of those events of t that satisfy P has replaced.        *)
Before(t, P(_), now, Old(_)) ==
    LET K == {k \in DOMAIN ToUndo(t) : P(ToUndo(t)[k])}
    IN  IF K = {} THEN now ELSE Old(ToUndo(t)[Min(K)])

BeforeAll(P(_), now, Old(_)) ==
    LET Us == {t \in Threads : \E k \in DOMAIN ToUndo(t) : P(ToUndo(t)[k])}
    IN  IF Us = {} THEN now ELSE Before(CHOOSE t \in Us : TRUE, P, now, Old)

Cookies(Events(_), ops) ==
    UNION {{e.cookie : e \in {x \in ToSet(Events(t)) : x.op \in ops}} : t \in Threads}

CommittedProcessState(c) ==
    CASE c[1] = "cwd" -> BeforeAll(LAMBDA e : e.op = "chdir", os.cwd, LAMBDA e : e.cookie)
      [] c[1] = "locale" ->
            BeforeAll(LAMBDA e : e.op = "setlocale" /\ c[2] \in DOMAIN e.cookie,
                      os.locale[c[2]], LAMBDA e : e.cookie[c[2]])
      [] c[1] = "uselocale" ->
            Before(c[2], LAMBDA e : e.op = "uselocale", os.uselocale[c[2]], LAMBDA e : e.cookie)
      [] c[1] = "heap" -> /\ c[2] \in os.heap
                          /\ c[2] \notin Cookies(ToUndo, {"malloc", "posix_memalign"})
                          /\ c[2] \notin Cookies(ToApply, {"free"})
      [] c[1] = "locale object" -> /\ c[2] \in os.objects
                                   /\ c[2] \notin Cookies(ToUndo, {"newlocale", "duplocale"})
                                   /\ c[2] \notin Cookies(ToApply, {"freelocale"})
      [] c[1] = "errno" -> IF phase[c[2]] = "run" /\ tx[c[2]].error.saved
                           THEN tx[c[2]].error.errno ELSE os.errno[c[2]]
      [] c[1] = "fexcept" -> IF phase[c[2]] = "run" /\ tx[c[2]].fpu.saved
                             THEN tx[c[2]].fpu.fexcept ELSE os.fexcept[c[2]]

CommittedState ==
    LET gone == UNION {ClosedBy(t) : t \in Committing} \cup UNION {MadeBy(t) : t \in Uncommitted}
        new == UNION {created[t] : t \in Uncommitted}
        M == {w \in In({"run", "undo"}) \X Ofds : tx[w[1]].fchmodtab[w[2]] # <<>>}
        Mode(b) == LET W == {w \in M : BufferOf[w[2]] = b}
                       w == CHOOSE x \in W : TRUE
                   IN  IF W = {} THEN os.mode[b] ELSE Head(tx[w[1]].fchmodtab[w[2]])
    IN  [c \in Cells |->
            CASE c[1] = "fd"    -> IF c[2] \in gone THEN NULL ELSE Descriptor(os, c[2])
              [] c[1] = "out"   -> os.sent[c[2]] \o Outstanding(c[2])
              [] c[1] = "in"    -> os.received[c[2]]
              [] c[1] = "mode"  -> Mode(c[2])
              [] c[1] = "name"  -> IF c[2] \in new THEN 0 ELSE os.names[c[2]]
              [] c[1] = "flags" -> os.flags[c[2]]
              [] c[1] = "conn"  -> os.conn[c[2]]
              [] OTHER -> CommittedProcessState(c)]

(* Descriptors that are opened at once and closed late, output that is     *)
(* kept back and input that is not, modes and names, directory, locale,    *)
(* heap, errno and floating-point flags: to the program each               *)
(* transaction takes effect at once when it commits, or not at all, except *)
(* where an irrevocable one acts at once.                                  *)
Promise == INSTANCE AtomicState WITH
    committed <- CommittedState, view <- seen, changes <- stored, irrevocable <- noundo

ImplementsAtomicState == Promise!ASSpec

(* A call for which memory runs out has left nothing behind when the       *)
(* program comes to recover from that: what others will find is the same   *)
(* before and after it.  picotm.h:371-378 says so of errors in general.    *)
FailedCallsLeaveNothing ==
    [][\A t \in Threads : phase[t] = "run" /\ phase'[t] = "undo"
                              => CommittedState' = CommittedState]_fdVars
=============================================================================
