---------------------------- MODULE StreamFiles -----------------------------
(***************************************************************************)
(* Open files other than regular ones, modules/libc/src/fildes: character  *)
(* devices (chrdev_tx.c), pipes (fifo_tx.c, pipebuf_tx.c), sockets         *)
(* (socket_tx.c, sockbuf_tx.c) and directories (dir_tx.c).                 *)
(*                                                                         *)
(* Output of a revocable transaction is kept back until the commit, that   *)
(* of an irrevocable one is written at once; input needs irrevocability.   *)
(* Each operation is the record of what it asks for and what it leaves     *)
(* behind; Fildes carries it out.                                          *)
(***************************************************************************)
EXTENDS Integers, FiniteSets, Sequences, TLC

CONSTANTS
    Threads,
    Nums,           \* file descriptors, 0 and up
    Ofds,           \* open file descriptions that the system can have
    Buffers,        \* the files they refer to
    TypeOf,         \* their types
    BufferOf,       \* the file of each open file description
    CAPACITY,       \* bound: data that a pipe or a device takes
    MAX_IN,         \* bound: data that devices and peers send
    NULL,
    Risks           \* what programs do although it does not work

Types == {"chrdev", "dir", "fifo", "regular", "socket"}

(* What breaks atomicity or crashes the program.  It is modelled, but only *)
(* programs whose Risks say so make use of it.                             *)
KnownRisks == {"path call", "use after close", "open flags", "chrdev", "socket",
               "full pipe", "two descriptions", "no memory", "base object"}

ASSUME NumsAssumption == Nums # {} /\ Nums = 0 .. Cardinality(Nums) - 1
ASSUME TypeAssumption == TypeOf \in [Ofds -> Types]
ASSUME BufferAssumption == BufferOf \in [Ofds -> Buffers]
ASSUME CapacityAssumption == {CAPACITY, MAX_IN} \subseteq Nat
ASSUME RisksAssumption == Risks \subseteq KnownRisks

VARIABLES
    os,     \* the state that the operating system keeps for the process
    fd,     \* state and references of each file descriptor
    tx      \* what each transaction holds

(* os.fd[n] is the open file description of descriptor n, or NULL, and     *)
(* os.cloexec its flag; sent and received count for the files; mode and    *)
(* names belong to the files, flags and conn to open file descriptions.    *)
(* tx[t].fd[n] is the open file description for which t references n.      *)

Statuses == {"UNLOCKED", "RDLOCKED", "WRLOCKED"}
Table == <<"fdtab">>
Fields == {Table} \cup {"fd"} \X Nums
          \cup {"mode", "state"} \X Ofds
          \cup {"read end", "write end", "buffer state"} \X Buffers

Nothing == [c \in {} |-> 0]
NoEvent == [op |-> "none", fd |-> NULL, cookie |-> -1]

pipebuf_tx_init == [wrmode |-> "BACK", wrtab |-> <<>>]

Request(l, status) == [lock |-> l, status |-> status]

chrdev_tx_try_rdlock_field(x, o) == <<Request(<<x, o>>, "RDLOCKED")>>
chrdev_tx_try_wrlock_field(x, o) == <<Request(<<x, o>>, "WRLOCKED")>>
fifo_tx_try_rdlock_field(x, o) == <<Request(<<x, o>>, "RDLOCKED")>>
socket_tx_try_rdlock_field(x, o) == <<Request(<<x, o>>, "RDLOCKED")>>
dir_tx_try_rdlock_field(x, o) == <<Request(<<x, o>>, "RDLOCKED")>>
dir_tx_try_wrlock_field(x, o) == <<Request(<<x, o>>, "WRLOCKED")>>
pipebuf_tx_try_rdlock_field(x, o) == <<Request(<<x, BufferOf[o]>>, "RDLOCKED")>>
pipebuf_tx_try_wrlock_field(x, o) == <<Request(<<x, BufferOf[o]>>, "WRLOCKED")>>
sockbuf_tx_try_rdlock_field(x, o) == <<Request(<<x, BufferOf[o]>>, "RDLOCKED")>>
sockbuf_tx_try_wrlock_field(x, o) == <<Request(<<x, BufferOf[o]>>, "WRLOCKED")>>

-----------------------------------------------------------------------------
(* The record of a call.                                                   *)

(* In order: the locks and references it asks for; whether the program may *)
(* make the call; whether it fails; whether it needs irrevocability;       *)
(* whether its behaviour is undefined; its event; what it does to the      *)
(* system, to the buffer, to the table of modes, and to the state of the   *)
(* thread that ProcessState describes; and what the program learns and     *)
(* changes.                                                                *)
Call(t) ==
    [requests |-> <<>>, allowed |-> TRUE, fails |-> FALSE, irrevocable |-> FALSE,
     undefined |-> FALSE, event |-> NoEvent, os |-> os,
     buf |-> tx[t].buf, fchmodtab |-> tx[t].fchmodtab,
     error |-> tx[t].error, fpu |-> tx[t].fpu, signal |-> tx[t].signal,
     shown |-> Nothing, changed |-> Nothing]

Event(c, cookie) == [op |-> c.op, fd |-> c.fd, cookie |-> cookie]

(* The errors of operations that a type of file does not have.             *)
file_tx_op_error(t) == [Call(t) EXCEPT !.fails = TRUE]

(* What has gone into file b once t has committed its writes.              *)
Output(t, b) == os.sent[b] \o tx[t].buf[b].wrtab

Room(t, b) == Len(Output(t, b)) - os.received[b] < CAPACITY

(* do_read() waits for data, do_write() for room.                          *)
do_read(v, b) ==
    [v EXCEPT !.allowed = os.received[b] < IF \E o \in Ofds : BufferOf[o] = b /\ TypeOf[o] = "fifo"
                                           THEN Len(os.sent[b]) ELSE MAX_IN,
              !.os.received[b] = @ + 1,
              !.shown = <<"in", b>> :> os.received[b] + 1]

do_write(v, b, data) ==
    [v EXCEPT !.os.sent[b] = Append(@, data),
              !.shown = <<"out", b>> :> Append(os.sent[b], data)]

pipebuf_tx_append_to_writeset(v, t, c, b) ==
    [v EXCEPT !.buf[b].wrtab = Append(@, c.data),
              !.event = Event(c, Len(tx[t].buf[b].wrtab) + 1),
              !.changed = <<"out", b>> :> Append(Output(t, b), c.data)]

(* A write of an irrevocable transaction turns the buffer to write-through *)
(* mode, which a revocable one must not meet.                              *)
WriteMode(v, b, noundo) ==
    [v EXCEPT !.irrevocable = @ \/ (~noundo /\ v.buf[b].wrmode = "THROUGH"),
              !.buf[b].wrmode = IF noundo THEN "THROUGH" ELSE @]

Writes(t, c, b, lock, noundo) ==
    LET v == WriteMode([Call(t) EXCEPT !.requests = lock,
                                       !.allowed = Room(t, b) \/ "full pipe" \in Risks],
                       b, noundo)
    IN  IF v.buf[b].wrmode = "THROUGH" THEN do_write(v, b, c.data)
        ELSE pipebuf_tx_append_to_writeset(v, t, c, b)

-----------------------------------------------------------------------------
(* fcntl() and fstat() are alike for all of them.  F_SETFL and its like    *)
(* take no lock.                                                           *)

Fcntl(t, o, c, stateLock, bufferLock) ==
    CASE c.cmd = "F_GETFL" ->
            [Call(t) EXCEPT !.requests = stateLock,
                            !.shown = <<"flags", o>> :> os.flags[o]]
      [] c.cmd = "F_GETLK" -> [Call(t) EXCEPT !.requests = bufferLock]
      [] c.cmd = "F_SETFL" ->
            [Call(t) EXCEPT !.irrevocable = TRUE,
                            !.os.flags[o] = c.arg,
                            !.shown = <<"flags", o>> :> c.arg]

Fstat(t, o, modeLock) ==
    [Call(t) EXCEPT !.requests = modeLock,
                    !.shown = <<"mode", BufferOf[o]>> :> os.mode[BufferOf[o]]]

-----------------------------------------------------------------------------
(* Character devices.  Nobody gives them a buffer: seekbuf_tx is null from *)
(* chrdev_tx_op_prepare on.                                                *)

Risky(v, risk) == [v EXCEPT !.undefined = TRUE, !.allowed = @ /\ risk \in Risks]

chrdev_tx_op_fcntl_exec(t, o, c) ==
    LET v == Fcntl(t, o, c, chrdev_tx_try_rdlock_field("state", o), <<>>)
    IN  IF c.cmd = "F_GETLK" THEN Risky(v, "chrdev") ELSE v

chrdev_tx_op_fstat_exec(t, o) == Fstat(t, o, chrdev_tx_try_rdlock_field("mode", o))

chrdev_tx_op_read_exec(t, o) ==
    do_read([Call(t) EXCEPT !.irrevocable = TRUE,
                            !.requests = chrdev_tx_try_wrlock_field("state", o)],
            BufferOf[o])

chrdev_tx_op_write_exec(t, o, c, noundo) ==
    Risky(Writes(t, c, BufferOf[o], chrdev_tx_try_wrlock_field("state", o), noundo),
          "chrdev")

(* Pipes.                                                                  *)
fifo_tx_op_fcntl_exec(t, o, c) ==
    Fcntl(t, o, c, fifo_tx_try_rdlock_field("state", o),
          pipebuf_tx_try_rdlock_field("buffer state", o))

fifo_tx_op_fstat_exec(t, o) == Fstat(t, o, fifo_tx_try_rdlock_field("mode", o))

fifo_tx_op_read_exec(t, o) ==
    do_read([Call(t) EXCEPT !.irrevocable = TRUE,
                            !.requests = pipebuf_tx_try_wrlock_field("read end", o)],
            BufferOf[o])

(* Mutant: does not lock the write end.                                    *)
Mut_fifo_tx_op_write_exec(t, o, c, noundo) ==
    Writes(t, c, BufferOf[o], <<>>, noundo)

fifo_tx_op_write_exec(t, o, c, noundo) ==
    Writes(t, c, BufferOf[o], pipebuf_tx_try_wrlock_field("write end", o), noundo)

(* Sockets.  get_sockbuf_tx() takes the head of the list of pipe buffers   *)
(* for a socket buffer, so that nothing is known of calls that use it; the *)
(* others do not touch it.                                                 *)
get_sockbuf_tx(v) == Risky(v, "socket")

socket_tx_op_connection(t, o, state) ==
    [Call(t) EXCEPT !.irrevocable = TRUE,
                    !.os.conn[o] = state,
                    !.shown = <<"conn", o>> :> state]

socket_tx_op_accept_exec(t, o) ==
    [Call(t) EXCEPT !.irrevocable = TRUE,
                    !.fails = os.conn[o] # "listening",
                    !.shown = <<"conn", o>> :> os.conn[o]]

socket_tx_op_bind_exec(t, o) == socket_tx_op_connection(t, o, "bound")
socket_tx_op_connect_exec(t, o) == socket_tx_op_connection(t, o, "connected")
socket_tx_op_listen_exec(t, o) == socket_tx_op_connection(t, o, "listening")
socket_tx_op_shutdown_exec(t, o) == socket_tx_op_connection(t, o, "shut down")

socket_tx_op_fcntl_exec(t, o, c) ==
    LET v == Fcntl(t, o, c, socket_tx_try_rdlock_field("state", o),
                   sockbuf_tx_try_rdlock_field("buffer state", o))
    IN  IF c.cmd = "F_GETLK" THEN get_sockbuf_tx(v) ELSE v

socket_tx_op_fstat_exec(t, o) == Fstat(t, o, socket_tx_try_rdlock_field("mode", o))

socket_tx_op_recv_exec(t, o) ==
    get_sockbuf_tx(do_read(
        [Call(t) EXCEPT !.irrevocable = TRUE,
                        !.requests = sockbuf_tx_try_wrlock_field("read end", o)],
        BufferOf[o]))

socket_tx_op_read_exec(t, o) == socket_tx_op_recv_exec(t, o)

socket_tx_op_write_exec(t, o, c, noundo) ==
    get_sockbuf_tx(Writes(t, c, BufferOf[o],
                          sockbuf_tx_try_wrlock_field("write end", o), noundo))

(* Flags need irrevocability.                                              *)
socket_tx_op_send_exec(t, o, c, noundo) ==
    [socket_tx_op_write_exec(t, o, c, noundo) EXCEPT !.irrevocable = @ \/ c.flags]

(* Directories.  fsync() is carried out at once and again at the commit.   *)
TwoDescriptions(o) ==
    \E p \in Ofds \ {o} : BufferOf[p] = BufferOf[o] /\ \E n \in Nums : os.fd[n] = p

dir_tx_op_fchmod_exec(t, o, c) ==
    LET b == BufferOf[o]
        v == Call(t)
    IN  [v EXCEPT
            !.requests = dir_tx_try_wrlock_field("mode", o),
            !.allowed = ~TwoDescriptions(o) \/ "two descriptions" \in Risks,
            !.os.mode[b] = c.mode,
            !.fchmodtab[o] = Append(@, os.mode[b]),
            !.event = Event(c, Len(v.fchmodtab[o]) + 1),
            !.changed = <<"mode", b>> :> c.mode]

dir_tx_op_fcntl_exec(t, o, c) ==
    Fcntl(t, o, c, dir_tx_try_rdlock_field("state", o),
          dir_tx_try_rdlock_field("state", o))

dir_tx_op_fstat_exec(t, o) == Fstat(t, o, dir_tx_try_rdlock_field("mode", o))

dir_tx_op_fsync_exec(t, o, c) == [Call(t) EXCEPT !.event = Event(c, 0)]

-----------------------------------------------------------------------------
(* The operations of each type.  Those of regular files are the subject of *)
(* RegularFile.                                                            *)

chrdev_tx_ops(t, o, c, noundo) ==
    CASE c.op = "fcntl" -> chrdev_tx_op_fcntl_exec(t, o, c)
      [] c.op = "fstat" -> chrdev_tx_op_fstat_exec(t, o)
      [] c.op = "read"  -> chrdev_tx_op_read_exec(t, o)
      [] c.op = "write" -> chrdev_tx_op_write_exec(t, o, c, noundo)
      [] OTHER -> file_tx_op_error(t)

fifo_tx_ops(t, o, c, noundo) ==
    CASE c.op = "fcntl" -> fifo_tx_op_fcntl_exec(t, o, c)
      [] c.op = "fstat" -> fifo_tx_op_fstat_exec(t, o)
      [] c.op = "read"  -> fifo_tx_op_read_exec(t, o)
      [] c.op = "write" -> fifo_tx_op_write_exec(t, o, c, noundo)
      [] OTHER -> file_tx_op_error(t)

socket_tx_ops(t, o, c, noundo) ==
    CASE c.op = "accept"   -> socket_tx_op_accept_exec(t, o)
      [] c.op = "bind"     -> socket_tx_op_bind_exec(t, o)
      [] c.op = "connect"  -> socket_tx_op_connect_exec(t, o)
      [] c.op = "fcntl"    -> socket_tx_op_fcntl_exec(t, o, c)
      [] c.op = "fstat"    -> socket_tx_op_fstat_exec(t, o)
      [] c.op = "listen"   -> socket_tx_op_listen_exec(t, o)
      [] c.op = "read"     -> socket_tx_op_read_exec(t, o)
      [] c.op = "recv"     -> socket_tx_op_recv_exec(t, o)
      [] c.op = "send"     -> socket_tx_op_send_exec(t, o, c, noundo)
      [] c.op = "shutdown" -> socket_tx_op_shutdown_exec(t, o)
      [] c.op = "write"    -> socket_tx_op_write_exec(t, o, c, noundo)
      [] OTHER -> file_tx_op_error(t)

dir_tx_ops(t, o, c) ==
    CASE c.op = "fchmod" -> dir_tx_op_fchmod_exec(t, o, c)
      [] c.op = "fcntl"  -> dir_tx_op_fcntl_exec(t, o, c)
      [] c.op = "fstat"  -> dir_tx_op_fstat_exec(t, o)
      [] c.op = "fsync"  -> dir_tx_op_fsync_exec(t, o, c)
      [] OTHER -> file_tx_op_error(t)

file_tx_exec(t, o, c, noundo) ==
    CASE TypeOf[o] = "chrdev" -> chrdev_tx_ops(t, o, c, noundo)
      [] TypeOf[o] = "fifo"   -> fifo_tx_ops(t, o, c, noundo)
      [] TypeOf[o] = "socket" -> socket_tx_ops(t, o, c, noundo)
      [] TypeOf[o] = "dir"    -> dir_tx_ops(t, o, c)
      [] OTHER -> file_tx_op_error(t)

-----------------------------------------------------------------------------
(* Commit and roll-back.                                                   *)

(* Data for which there is no room waits, or is lost on a descriptor that  *)
(* does not wait.                                                          *)
HasRoom(b) == Len(os.sent[b]) - os.received[b] < CAPACITY

WriteApply(t, o, e) ==
    LET b == BufferOf[o]
    IN  /\ HasRoom(b) \/ os.flags[o] = "O_NONBLOCK"
        /\ os' = IF HasRoom(b) /\ tx[t].buf[b].wrmode = "BACK"
                 THEN [os EXCEPT !.sent[b] = Append(@, tx[t].buf[b].wrtab[e.cookie])]
                 ELSE os

fifo_tx_op_write_apply(t, o, e) == WriteApply(t, o, e)
chrdev_tx_op_write_apply(t, o, e) == WriteApply(t, o, e)
socket_tx_op_write_apply(t, o, e) == WriteApply(t, o, e)
socket_tx_op_send_apply(t, o, e) == WriteApply(t, o, e)

file_tx_apply(t, o, e) ==
    CASE e.op = "write" /\ TypeOf[o] = "fifo"   -> fifo_tx_op_write_apply(t, o, e)
      [] e.op = "write" /\ TypeOf[o] = "chrdev" -> chrdev_tx_op_write_apply(t, o, e)
      [] e.op = "write" /\ TypeOf[o] = "socket" -> socket_tx_op_write_apply(t, o, e)
      [] e.op = "send" -> socket_tx_op_send_apply(t, o, e)
      [] OTHER -> UNCHANGED os

dir_tx_op_fchmod_undo(t, o, e) ==
    os' = [os EXCEPT !.mode[BufferOf[o]] = tx[t].fchmodtab[o][e.cookie]]

file_tx_undo(t, o, e) ==
    IF e.op = "fchmod" THEN dir_tx_op_fchmod_undo(t, o, e) ELSE UNCHANGED os
=============================================================================
