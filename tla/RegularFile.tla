---------------------------- MODULE RegularFile -----------------------------
(***************************************************************************)
(* Regular files, modules/libc/src/fildes: the transaction's side of an    *)
(* open file description (regfile_tx.c) and of the file's contents         *)
(* (seekbuf_tx.c) with its sets of reads and writes (iooptab.c, ioop.c)    *)
(* and its record locks (regiontab.c, rwcountermap.c, rwcounter.c,         *)
(* rwlockmap.c).                                                           *)
(*                                                                         *)
(* Reads go to the kernel while the transaction runs; writes and changes   *)
(* of the offset are kept in the transaction and applied at the commit,    *)
(* one event after the other.  Fields such as offset and size are read     *)
(* from the kernel under their lock and are then kept in the transaction.  *)
(*                                                                         *)
(* A call is one step: between its first lock and its end it touches only  *)
(* what it has locked.  Any of its locks may be refused, because of other  *)
(* transactions or of waiters; the locks before it stay with the           *)
(* transaction, which then rolls back.  Failing system calls and           *)
(* allocations end the same way.                                           *)
(*                                                                         *)
(* The write mode of a seekable buffer is always PICOTM_LIBC_WRITE_BACK    *)
(* (seekbuf_tx_prepare is the only one to set it), so the branches for     *)
(* PICOTM_LIBC_WRITE_THROUGH are unreachable and left out.                 *)
(***************************************************************************)
EXTENDS Integers, FiniteSets, Sequences, TLC

LOCAL INSTANCE SequencesExt
LOCAL INSTANCE FiniteSetsExt

CONSTANTS
    Threads,
    Files,          \* open file descriptions
    Buffers,        \* the files they refer to
    BufferOf,       \* the file of each open file description
    RECSIZE,        \* bytes in a record; 1 << RECBITS in the code
    MAX_SIZE,       \* bound: size of the files
    Initially,      \* bound: the contents of each file at the start
    Modes,          \* bound: what a file's mode and its flags may be
    Menus,          \* bound: sets of calls, of which programs make one
    MAX_CALLS,      \* bound: calls of a transaction
    MAX_TX,         \* bound: transactions of each thread
    NULL,
    Risks           \* what transactions do although it does not work

(* Sequences of calls that break atomicity.  What they do is modelled, but *)
(* only transactions whose Risks say so make use of them.                  *)
KnownRisks == {"short read", "hole", "unaligned", "other file", "two descriptions",
               "first fstat", "no memory"}

Values == Nat
Bytes == 0 .. MAX_SIZE - 1
Records == 0 .. (2 * MAX_SIZE) \div RECSIZE
Cells == {"byte"} \X Buffers \X Bytes \cup {"size", "mode"} \X Buffers
         \cup {"offset", "flags"} \X Files

ASSUME BufferAssumption == BufferOf \in [Files -> Buffers]
ASSUME RecordAssumption == RECSIZE \in Nat \ {0} /\ MAX_SIZE \in Nat
ASSUME InitiallyAssumption ==
    /\ DOMAIN Initially = Buffers
    /\ \A b \in Buffers : Initially[b] \in Seq(Values) /\ Len(Initially[b]) <= MAX_SIZE
ASSUME ModesAssumption == 0 \in Modes
ASSUME MenusAssumption == \A c \in UNION Menus : c.file \in Files
ASSUME RisksAssumption == Risks \subseteq KnownRisks

VARIABLES
    content,    \* the kernel's contents of each file
    disk,       \* and what of it a call to fsync has last saved
    mode,       \* the kernel's mode of each file
    offset,     \* the kernel's offset and flags of each open file
    flags,      \*   description
    menu,       \* the calls that the program makes
    phase,      \* where each transaction is
    noundo,     \* the transactions that are irrevocable
    started,    \* transactions started by each thread
    calls,      \* calls made by this transaction
    log,        \* its events
    applied,    \* the event that commit or roll-back has reached
    rwstate,    \* its locks on fields
    regfile_tx, \* its state of each open file description
    seekbuf_tx, \* its states of file contents
    alloced,    \* those of them that are not in use, the last one first
    seen,       \* history: the cells the program has been shown
    stored      \* history: the cells it has set

kernelVars == <<content, disk, offset, mode, flags>>
txVars == <<menu, phase, noundo, started, calls, log, applied>>
fileVars == <<rwstate, regfile_tx, seekbuf_tx, alloced>>
history == <<seen, stored>>
rfVars == <<kernelVars, txVars, fileVars, history>>

Statuses == {"UNLOCKED", "RDLOCKED", "WRLOCKED"}
Fields == {"offset", "mode", "state"} \X Files \cup {"size", "bufstate"} \X Buffers
Nothing == [c \in {} |-> 0]

init_rwstates == [l \in Fields |-> "UNLOCKED"]

(* The states before first use, and after a transaction's end.             *)
regfile_tx_op_prepare == [offset |-> 0, seektab |-> <<>>, fchmodtab |-> <<>>]

seekbuf_tx_prepare(sb, b) ==
    [sb EXCEPT !.buf = b, !.size = 0, !.rdtab = <<>>, !.wrtab = <<>>,
               !.locktab = <<>>]

rwcounter_init == [n |-> 0, written |-> FALSE]

(* lockpg is the buffer whose page of locks the transaction's page of      *)
(* counters refers to; the files of the model fit into one page.           *)
seekbuf_tx_init ==
    [buf |-> NULL, size |-> 0, rdtab |-> <<>>, wrtab |-> <<>>, locktab |-> <<>>,
     lockpg |-> NULL, counter |-> [r \in Records |-> rwcounter_init]]

RFInit ==
    /\ content = Initially
    /\ disk = Initially
    /\ offset = [f \in Files |-> 0]
    /\ mode = [b \in Buffers |-> 0]
    /\ menu \in Menus
    /\ flags = [f \in Files |-> 0]
    /\ phase = [t \in Threads |-> "out"]
    /\ noundo = {}
    /\ started = [t \in Threads |-> 0]
    /\ calls = [t \in Threads |-> 0]
    /\ log = [t \in Threads |-> <<>>]
    /\ applied = [t \in Threads |-> 0]
    /\ rwstate = [t \in Threads |-> init_rwstates]
    /\ regfile_tx = [t \in Threads |-> [f \in Files |-> regfile_tx_op_prepare]]
    /\ seekbuf_tx = [t \in Threads |-> <<>>]
    /\ alloced = [t \in Threads |-> <<>>]
    /\ seen = [t \in Threads |-> Nothing]
    /\ stored = [t \in Threads |-> Nothing]

-----------------------------------------------------------------------------
(* The kernel's files.                                                     *)

Size(s) == Len(s)

pread(s, off, n) == SubSeq(s, off + 1, Min({off + n, Len(s)}))

(* Bytes between the old end and the new ones are zero.                    *)
pwrite(s, off, data) ==
    [i \in 1 .. Max({Len(s), off + Len(data)}) |->
        IF i - off \in 1 .. Len(data) THEN data[i - off]
        ELSE IF i <= Len(s) THEN s[i] ELSE 0]

lseek(from, size, off, whence) ==
    off + CASE whence = "SEEK_SET" -> 0
            [] whence = "SEEK_CUR" -> from
            [] whence = "SEEK_END" -> size

-----------------------------------------------------------------------------
(* Locks.  A call asks for a sequence of them: fields, and the records of  *)
(* a region, which the region's entry in the table of locks follows.       *)

Request(l, status) == [lock |-> l, status |-> status]

regfile_tx_try_rdlock_field(x, f) == <<Request(<<x, f>>, "RDLOCKED")>>
regfile_tx_try_wrlock_field(x, f) == <<Request(<<x, f>>, "WRLOCKED")>>
seekbuf_tx_try_rdlock_field(x, f) == <<Request(<<x, BufferOf[f]>>, "RDLOCKED")>>
seekbuf_tx_try_wrlock_field(x, f) == <<Request(<<x, BufferOf[f]>>, "WRLOCKED")>>

recoffset(off) == off \div RECSIZE
reccount(len) == 1 + len \div RECSIZE

rwcountermap_for_each_record_in_range(count, first, status) ==
    [i \in 1 .. count |-> Request(<<"record", first + i - 1>>, status)]

regiontab_entry(off, n, status) == <<Request(<<"region", off, n>>, status)>>

seekbuf_tx_try_rdlock_region(n, off) ==
    rwcountermap_for_each_record_in_range(reccount(n), recoffset(off), "RDLOCKED")
    \o regiontab_entry(off, n, "RDLOCKED")

seekbuf_tx_try_wrlock_region(n, off) ==
    rwcountermap_for_each_record_in_range(reccount(n), recoffset(off), "WRLOCKED")
    \o regiontab_entry(off, n, "WRLOCKED")

(* The records that a region locks may miss its last bytes.                *)
Covered(off, n) ==
    \A a \in off .. off + n - 1 : recoffset(a) < recoffset(off) + reccount(n)

rwcounter_rdlock(cn) == [cn EXCEPT !.n = @ + 1]
rwcounter_wrlock(cn) == [n |-> cn.n + 1, written |-> TRUE]
rwcounter_unlock(cn) ==
    [n |-> cn.n - 1, written |-> cn.written /\ cn.n > 1]

(* The page of locks that a transaction's counters belong to: found at the *)
(* first use of the counters and kept from then on.                        *)
rwcountermap_page(sb) == IF sb.lockpg = NULL THEN sb.buf ELSE sb.lockpg

(* The counters of others, and of other buffers of the same transaction,   *)
(* that hold record r on page pg.                                          *)
OtherCounters(t, i, pg, r) ==
    {seekbuf_tx[p[1]][p[2]].counter[r] : p \in
        {q \in UNION {{u} \X DOMAIN seekbuf_tx[u] : u \in Threads} :
            /\ q # <<t, i>>
            /\ seekbuf_tx[q[1]][q[2]].lockpg = pg
            /\ seekbuf_tx[q[1]][q[2]].counter[r].n > 0}}

(* Whether request q can be granted to transaction t, which so far holds   *)
(* the locks of h.                                                         *)
try_lock_field(t, h, q) ==
    LET own == h.rwstate[q.lock]
        Others == {rwstate[u][q.lock] : u \in Threads \ {t}}
    IN  IF q.status = "RDLOCKED"
        THEN own # "UNLOCKED" \/ "WRLOCKED" \notin Others
        ELSE own = "WRLOCKED" \/ Others \subseteq {"UNLOCKED"}

try_lock_record(t, i, h, q) ==
    LET r == q.lock[2]
        own == h.buf.counter[r]
        Others == OtherCounters(t, i, rwcountermap_page(h.buf), r)
    IN  IF q.status = "RDLOCKED"
        THEN own.n > 0 \/ \A cn \in Others : ~cn.written
        ELSE own.written \/ Others = {}

Grantable(t, i, h, q) ==
    CASE q.lock[1] = "region" -> TRUE
      [] q.lock[1] = "record" -> try_lock_record(t, i, h, q)
      [] OTHER -> try_lock_field(t, h, q)

Strongest(a, b) == IF "WRLOCKED" \in {a, b} THEN "WRLOCKED" ELSE "RDLOCKED"

Grant(h, q) ==
    CASE q.lock[1] = "region" ->
            [h EXCEPT !.buf.locktab = Append(@, [off |-> q.lock[2], n |-> q.lock[3]])]
      [] q.lock[1] = "record" ->
            [h EXCEPT !.buf.lockpg = rwcountermap_page(h.buf),
                      !.buf.counter[q.lock[2]] =
                          IF q.status = "RDLOCKED" THEN rwcounter_rdlock(@)
                                                   ELSE rwcounter_wrlock(@)]
      [] OTHER -> [h EXCEPT !.rwstate[q.lock] = Strongest(@, q.status)]

(* What t holds after the first k requests, and whether it can get there.  *)
Holding(t, sb, requests, k) ==
    FoldLeft(Grant, [rwstate |-> rwstate[t], buf |-> sb], SubSeq(requests, 1, k))

Acquirable(t, i, sb, requests, k) ==
    \A j \in 1 .. k : Grantable(t, i, Holding(t, sb, requests, j - 1), requests[j])

(* Unlocking gives back the regions in the table of locks.                 *)
rwcountermap_unlock(counter, region) ==
    [r \in Records |->
        IF r - recoffset(region.off) \in 0 .. reccount(region.n) - 1
        THEN rwcounter_unlock(counter[r]) ELSE counter[r]]

unlock_regions(sb) == FoldLeft(rwcountermap_unlock, sb.counter, sb.locktab)

seekbuf_tx_finish(sb) ==
    [seekbuf_tx_prepare(sb, NULL) EXCEPT !.counter = unlock_regions(sb)]

unlock_rwstates == [l \in Fields |-> "UNLOCKED"]

-----------------------------------------------------------------------------
(* The transaction's view of a file.                                       *)

InUse(t, b) == {i \in DOMAIN seekbuf_tx[t] : seekbuf_tx[t][i].buf = b}

(* The buffer's state in the transaction: in use, or allocated, or new.    *)
get_seekbuf_tx(t, b) ==
    IF InUse(t, b) # {} THEN CHOOSE i \in InUse(t, b) : TRUE
    ELSE IF alloced[t] # <<>> THEN Head(alloced[t])
    ELSE Len(seekbuf_tx[t]) + 1

seekbuf_tx_ref_or_set_up(t, b) ==
    LET i == get_seekbuf_tx(t, b)
        sb == IF i \in DOMAIN seekbuf_tx[t] THEN seekbuf_tx[t][i]
                                            ELSE seekbuf_tx_init
    IN  IF InUse(t, b) # {} THEN sb ELSE seekbuf_tx_prepare(sb, b)

regfile_tx_get_file_offset(t, f) ==
    IF rwstate[t][<<"offset", f>>] # "UNLOCKED"
    THEN regfile_tx[t][f].offset ELSE offset[f]

seekbuf_tx_get_file_size(t, f) ==
    LET b == BufferOf[f]
    IN  IF rwstate[t][<<"size", b>>] # "UNLOCKED"
        THEN seekbuf_tx_ref_or_set_up(t, b).size ELSE Size(content[b])

(* An entry of the table of writes, and the one whose byte at address a is *)
(* found: the later one.                                                   *)
IoOp(off, data) == [off |-> off, data |-> data]
HasByte(op, a) == a \in op.off .. op.off + Len(op.data) - 1
ioop_read(op, a) == op.data[a - op.off + 1]
Writing(wrtab, a) == {k \in DOMAIN wrtab : HasByte(wrtab[k], a)}

(* What is in the program's buffer before the call.                        *)
Garbage == -1

(* Reading n bytes: what the kernel has, overwritten by what the           *)
(* transaction has written.  Nobody fills the bytes in between.            *)
iooptab_read(t, f, off, n) ==
    LET wrtab == seekbuf_tx_ref_or_set_up(t, BufferOf[f]).wrtab
        data == pread(content[BufferOf[f]], off, n)
        Local == {i \in 1 .. n : Writing(wrtab, off + i - 1) # {}}
    IN  [i \in 1 .. Max({Len(data)} \cup Local) |->
            IF i \in Local
            THEN ioop_read(wrtab[Max(Writing(wrtab, off + i - 1))], off + i - 1)
            ELSE IF i <= Len(data) THEN data[i] ELSE Garbage]

(* The cells of the bytes from off, where the end of the file is NULL.     *)
Shown(f, off, n, data) ==
    [c \in {"byte"} \X {BufferOf[f]} \X (off .. off + n - 1 \cap Bytes) |->
        IF c[3] - off < Len(data) THEN data[c[3] - off + 1] ELSE NULL]

-----------------------------------------------------------------------------
(* Calls.  Each is a record of the locks it asks for and, if it gets them, *)
(* of what it leaves behind: the transaction's state of the file, the mode *)
(* and flags of the kernel, the call's event, and what the program learns  *)
(* and changes.  NoCookie stands for a call that logs nothing.             *)

NoCookie == -1

iooptab_append(tab, off, data) == Append(tab, IoOp(off, data))
readset_append(tab, off, n) == Append(tab, [off |-> off, n |-> n])
seekoptab_append(tab, off, whence) == Append(tab, [off |-> off, whence |-> whence])
fchmodoptab_append(tab, old_mode) == Append(tab, old_mode)

Call(t, f) ==
    [requests |-> <<>>, allowed |-> TRUE, cookie |-> NoCookie,
     reg |-> regfile_tx[t][f], buf |-> seekbuf_tx_ref_or_set_up(t, BufferOf[f]),
     mode |-> mode[BufferOf[f]], flags |-> flags[f], shown |-> Nothing, changed |-> Nothing]

Offset(f) == <<"offset", f>>
SizeOf(f) == <<"size", BufferOf[f]>>

regfile_tx_op_read_exec(t, c) ==
    LET off == regfile_tx_get_file_offset(t, c.file)
        data == iooptab_read(t, c.file, off, c.n)
        v == Call(t, c.file)
    IN  [v EXCEPT
            !.requests = regfile_tx_try_rdlock_field("offset", c.file)
                         \o seekbuf_tx_try_rdlock_region(c.n, off)
                         \o regfile_tx_try_wrlock_field("offset", c.file),
            !.allowed = off <= MAX_SIZE
                        /\ (Len(data) = c.n \/ "short read" \in Risks)
                        /\ (Covered(off, c.n) \/ "unaligned" \in Risks),
            !.reg.offset = off + Len(data),
            !.buf.rdtab = readset_append(@, off, c.n),
            !.cookie = Len(v.buf.rdtab) + 1,
            !.shown = Shown(c.file, off, c.n, data),
            !.changed = Offset(c.file) :> off + Len(data)]

regfile_tx_op_pread_exec(t, c) ==
    LET data == iooptab_read(t, c.file, c.off, c.n)
    IN  [Call(t, c.file) EXCEPT
            !.requests = seekbuf_tx_try_rdlock_region(c.n, c.off),
            !.allowed = Covered(c.off, c.n) \/ "unaligned" \in Risks,
            !.shown = Shown(c.file, c.off, c.n, data)]

(* The part that write and pwrite have in common.                          *)
Writes(t, c, off) ==
    LET v == Call(t, c.file)
        size == seekbuf_tx_get_file_size(t, c.file)
        end == off + Len(c.data)
    IN  [v EXCEPT
            !.requests = seekbuf_tx_try_wrlock_region(Len(c.data), off),
            !.allowed = end <= MAX_SIZE /\ (off <= size \/ "hole" \in Risks)
                        /\ (Covered(off, Len(c.data)) \/ "unaligned" \in Risks),
            !.buf.wrtab = iooptab_append(@, off, c.data),
            !.cookie = Len(v.buf.wrtab) + 1,
            !.buf.size = Max({size, end}),
            !.shown = SizeOf(c.file) :> size,
            !.changed = Shown(c.file, off, Len(c.data), c.data)
                        @@ IF size < end THEN SizeOf(c.file) :> end ELSE Nothing]

(* Mutant: takes the lock as if the file did not grow.                     *)
MutSizeLocks(t, c, off) == seekbuf_tx_try_rdlock_field("size", c.file)

SizeLocks(t, c, off) ==
    seekbuf_tx_try_rdlock_field("size", c.file)
    \o IF seekbuf_tx_get_file_size(t, c.file) < off + Len(c.data)
       THEN seekbuf_tx_try_wrlock_field("size", c.file) ELSE <<>>

regfile_tx_op_pwrite_exec(t, c) ==
    [Writes(t, c, c.off) EXCEPT !.requests = @ \o SizeLocks(t, c, c.off)]

regfile_tx_op_write_exec(t, c) ==
    LET off == regfile_tx_get_file_offset(t, c.file)
        end == off + Len(c.data)
    IN  [Writes(t, c, off) EXCEPT
            !.requests = regfile_tx_try_rdlock_field("offset", c.file) \o @
                         \o regfile_tx_try_wrlock_field("offset", c.file) \o SizeLocks(t, c, off),
            !.reg.offset = end,
            !.changed = Offset(c.file) :> end @@ @]

(* A seek to where the file offset is already does nothing.                *)
file_offset_after_lseek(t, c) ==
    lseek(regfile_tx_get_file_offset(t, c.file),
          seekbuf_tx_get_file_size(t, c.file), c.off, c.whence)

regfile_tx_op_lseek_exec(t, c) ==
    LET v == Call(t, c.file)
        from == regfile_tx_get_file_offset(t, c.file)
        to == file_offset_after_lseek(t, c)
        size == seekbuf_tx_get_file_size(t, c.file)
        atEnd == c.whence = "SEEK_END"
    IN  IF c.off = 0 /\ c.whence = "SEEK_CUR"
        THEN [v EXCEPT !.requests = regfile_tx_try_rdlock_field("offset", c.file),
                       !.reg.offset = from,
                       !.shown = Offset(c.file) :> from]
        ELSE [v EXCEPT
                !.requests = regfile_tx_try_rdlock_field("offset", c.file)
                             \o (IF atEnd THEN seekbuf_tx_try_rdlock_field("size", c.file) ELSE <<>>)
                             \o regfile_tx_try_wrlock_field("offset", c.file),
                !.allowed = to \in 0 .. MAX_SIZE,
                !.reg.offset = to,
                !.reg.seektab = seekoptab_append(@, c.off, c.whence),
                !.cookie = Len(v.reg.seektab) + 1,
                !.buf.size = IF atEnd THEN size ELSE @,
                !.shown = IF atEnd THEN SizeOf(c.file) :> size ELSE Nothing,
                !.changed = Offset(c.file) :> to]

regfile_tx_op_fsync_exec(t, c) == [Call(t, c.file) EXCEPT !.cookie = 0]

(* The size's lock is taken before the size is asked for, which makes      *)
(* seekbuf_tx_get_file_size believe that the size has been read: a         *)
(* transaction's first use of the size reports the 0 of seekbuf_tx_prepare.*)
regfile_tx_op_fstat_exec(t, c) ==
    LET v == Call(t, c.file)
        size == v.buf.size
    IN  [v EXCEPT
            !.requests = regfile_tx_try_rdlock_field("mode", c.file)
                         \o seekbuf_tx_try_rdlock_field("size", c.file),
            !.allowed = size = seekbuf_tx_get_file_size(t, c.file) \/ "first fstat" \in Risks,
            !.shown = (<<"mode", BufferOf[c.file]>> :> mode[BufferOf[c.file]]) @@ (SizeOf(c.file) :> size)]

(* The mode changes at once; the table keeps the old one.  The mode is the *)
(* file's, but its lock is that of the open file description.              *)
OneDescription(f) == \A g \in Files : BufferOf[g] = BufferOf[f] => g = f

regfile_tx_op_fchmod_exec(t, c) ==
    LET v == Call(t, c.file)
    IN  [v EXCEPT
            !.requests = regfile_tx_try_wrlock_field("mode", c.file),
            !.allowed = OneDescription(c.file) \/ "two descriptions" \in Risks,
            !.mode = c.mode,
            !.reg.fchmodtab = fchmodoptab_append(@, mode[BufferOf[c.file]]),
            !.cookie = Len(v.reg.fchmodtab) + 1,
            !.changed = <<"mode", BufferOf[c.file]>> :> c.mode]

(* F_GETFL and its like, F_GETLK, and F_SETFL and its like, which ask for  *)
(* no lock but have to be irrevocable.                                     *)
regfile_tx_op_fcntl_exec(t, c) ==
    LET v == Call(t, c.file)
    IN  CASE c.cmd = "F_GETFL" ->
                [v EXCEPT !.requests = regfile_tx_try_rdlock_field("state", c.file),
                          !.shown = <<"flags", c.file>> :> flags[c.file]]
          [] c.cmd = "F_GETLK" ->
                [v EXCEPT !.requests = seekbuf_tx_try_rdlock_field("bufstate", c.file)]
          [] c.cmd = "F_SETFL" ->
                [v EXCEPT !.flags = c.arg,
                          !.shown = <<"flags", c.file>> :> c.arg]

regfile_tx_ops(t, c) ==
    CASE c.op = "read"   -> regfile_tx_op_read_exec(t, c)
      [] c.op = "pread"  -> regfile_tx_op_pread_exec(t, c)
      [] c.op = "write"  -> regfile_tx_op_write_exec(t, c)
      [] c.op = "pwrite" -> regfile_tx_op_pwrite_exec(t, c)
      [] c.op = "lseek"  -> regfile_tx_op_lseek_exec(t, c)
      [] c.op = "fsync"  -> regfile_tx_op_fsync_exec(t, c)
      [] c.op = "fstat"  -> regfile_tx_op_fstat_exec(t, c)
      [] c.op = "fchmod" -> regfile_tx_op_fchmod_exec(t, c)
      [] c.op = "fcntl"  -> regfile_tx_op_fcntl_exec(t, c)

NeedsIrrevocability(c) == c.op = "fcntl" /\ c.cmd = "F_SETFL"

-----------------------------------------------------------------------------
(* Transactions.                                                           *)

(* An irrevocable transaction runs alone.                                  *)
Begin(t, alone) ==
    /\ phase[t] = "out" /\ started[t] < MAX_TX
    /\ noundo = {}
    /\ alone => \A u \in Threads : phase[u] = "out"
    /\ phase' = [phase EXCEPT ![t] = "run"]
    /\ noundo' = IF alone THEN {t} ELSE {}
    /\ started' = [started EXCEPT ![t] = @ + 1]
    /\ calls' = [calls EXCEPT ![t] = 0]
    /\ UNCHANGED <<kernelVars, menu, log, applied, fileVars, history>>

(* The first k locks of the call are t's from now on.                      *)
Acquire(t, f, v, k) ==
    LET b == BufferOf[f]
        i == get_seekbuf_tx(t, b)
        h == Holding(t, v.buf, v.requests, k)
    IN  /\ Acquirable(t, i, v.buf, v.requests, k)
        /\ rwstate' = [rwstate EXCEPT ![t] = h.rwstate]
        /\ seekbuf_tx' = [seekbuf_tx EXCEPT ![t] =
               IF i \in DOMAIN @ THEN [@ EXCEPT ![i] = h.buf] ELSE Append(@, h.buf)]
        /\ alloced' = [alloced EXCEPT ![t] =
               IF InUse(t, b) = {} /\ @ # <<>> THEN Tail(@) ELSE @]
        /\ "other file" \in Risks \/ h.buf.lockpg \in {NULL, b}

Exec(t, c) ==
    LET v == regfile_tx_ops(t, c)
        f == c.file
    IN  /\ phase[t] = "run" /\ calls[t] < MAX_CALLS
        /\ NeedsIrrevocability(c) => t \in noundo
        /\ v.allowed
        /\ Acquire(t, f, v, Len(v.requests))
        /\ regfile_tx' = [regfile_tx EXCEPT ![t][f] = v.reg]
        /\ mode' = [mode EXCEPT ![BufferOf[f]] = v.mode]
        /\ flags' = [flags EXCEPT ![f] = v.flags]
        /\ log' = IF v.cookie = NoCookie THEN log
                  ELSE [log EXCEPT ![t] =
                           Append(@, [op |-> c.op, file |-> f, cookie |-> v.cookie])]
        /\ calls' = [calls EXCEPT ![t] = @ + 1]
        /\ seen' = [seen EXCEPT ![t] = v.changed @@ v.shown @@ @]
        /\ stored' = [stored EXCEPT ![t] = v.changed @@ @]
        /\ UNCHANGED <<menu, content, disk, offset, phase, noundo, started, applied>>

(* A call that does not get all of its locks, or fails after that: fchmod  *)
(* may have changed the mode without memory left for the old one, which    *)
(* nothing puts back then.                                                 *)
Refuse(t, c) ==
    LET v == regfile_tx_ops(t, c)
    IN  /\ phase[t] = "run" /\ t \notin noundo
        /\ v.allowed
        /\ \E k \in 0 .. Len(v.requests) :
               /\ Acquire(t, c.file, [v EXCEPT !.buf = Call(t, c.file).buf], k)
               /\ mode' \in {mode} \cup IF k = Len(v.requests) /\ "no memory" \in Risks
                                       THEN {[mode EXCEPT ![BufferOf[c.file]] = v.mode]} ELSE {}
        /\ phase' = [phase EXCEPT ![t] = "undo"]
        /\ applied' = [applied EXCEPT ![t] = Len(log[t])]
        /\ seen' = [seen EXCEPT ![t] = Nothing]
        /\ stored' = [stored EXCEPT ![t] = Nothing]
        /\ UNCHANGED <<menu, content, disk, offset, flags, noundo, started, calls, log,
                       regfile_tx>>

Commit(t) ==
    /\ phase[t] = "run"
    /\ phase' = [phase EXCEPT ![t] = "apply"]
    /\ seen' = [seen EXCEPT ![t] = Nothing]
    /\ stored' = [stored EXCEPT ![t] = Nothing]
    /\ UNCHANGED <<menu, kernelVars, noundo, started, calls, log, applied, fileVars>>

(* What the commit does for event e of transaction t.                      *)
BufferState(t, f) == seekbuf_tx[t][get_seekbuf_tx(t, BufferOf[f])]

regfile_tx_op_read_apply(t, e) ==
    LET io == BufferState(t, e.file).rdtab[e.cookie]
    IN  /\ offset' = [offset EXCEPT ![e.file] = io.off + io.n]
        /\ UNCHANGED <<content, disk>>

regfile_tx_op_write_apply(t, e) ==
    LET io == BufferState(t, e.file).wrtab[e.cookie]
    IN  /\ content' = [content EXCEPT ![BufferOf[e.file]] = pwrite(@, io.off, io.data)]
        /\ offset' = [offset EXCEPT ![e.file] = io.off + Len(io.data)]
        /\ UNCHANGED disk

regfile_tx_op_pwrite_apply(t, e) ==
    LET io == BufferState(t, e.file).wrtab[e.cookie]
    IN  /\ content' = [content EXCEPT ![BufferOf[e.file]] = pwrite(@, io.off, io.data)]
        /\ UNCHANGED <<offset, disk>>

regfile_tx_op_lseek_apply(t, e) ==
    LET s == regfile_tx[t][e.file].seektab[e.cookie]
    IN  /\ offset' = [offset EXCEPT ![e.file] =
               lseek(@, Size(content[BufferOf[e.file]]), s.off, s.whence)]
        /\ UNCHANGED <<content, disk>>

(* Mutant: the call-back is missing.                                       *)
MutFsync_apply(t, e) == UNCHANGED <<content, disk, offset>>

regfile_tx_op_fsync_apply(t, e) ==
    /\ disk' = [disk EXCEPT ![BufferOf[e.file]] = content[BufferOf[e.file]]]
    /\ UNCHANGED <<content, offset>>

file_tx_op_apply(t, e) == UNCHANGED <<content, disk, offset>>

Apply(t) ==
    /\ phase[t] = "apply" /\ applied[t] < Len(log[t])
    /\ LET e == log[t][applied[t] + 1]
       IN  CASE e.op = "read"   -> regfile_tx_op_read_apply(t, e)
             [] e.op = "write"  -> regfile_tx_op_write_apply(t, e)
             [] e.op = "pwrite" -> regfile_tx_op_pwrite_apply(t, e)
             [] e.op = "lseek"  -> regfile_tx_op_lseek_apply(t, e)
             [] e.op = "fsync"  -> regfile_tx_op_fsync_apply(t, e)
             [] OTHER -> file_tx_op_apply(t, e)
    /\ applied' = [applied EXCEPT ![t] = @ + 1]
    /\ UNCHANGED <<menu, mode, flags, phase, noundo, started, calls, log, fileVars, history>>

(* Only the mode has to be put back.                                       *)
regfile_tx_op_fchmod_undo(t, e) ==
    mode' = [mode EXCEPT ![BufferOf[e.file]] = regfile_tx[t][e.file].fchmodtab[e.cookie]]

Undo(t) ==
    /\ phase[t] = "undo" /\ applied[t] > 0
    /\ LET e == log[t][applied[t]]
       IN  IF e.op = "fchmod" THEN regfile_tx_op_fchmod_undo(t, e) ELSE UNCHANGED mode
    /\ applied' = [applied EXCEPT ![t] = @ - 1]
    /\ UNCHANGED <<menu, content, disk, offset, flags, phase, noundo, started, calls, log,
                   fileVars, history>>

(* The end of a transaction gives back the record locks that the tables    *)
(* name, and all fields.                                                   *)
regfile_tx_op_finish(t) ==
    /\ rwstate' = [rwstate EXCEPT ![t] = unlock_rwstates]
    /\ regfile_tx' = [regfile_tx EXCEPT ![t] = [f \in Files |-> regfile_tx_op_prepare]]

InUseSeq(t) == SetToSortSeq({i \in DOMAIN seekbuf_tx[t] : seekbuf_tx[t][i].buf # NULL}, >)

Finish(t) ==
    /\ \/ phase[t] = "apply" /\ applied[t] = Len(log[t])
       \/ phase[t] = "undo" /\ applied[t] = 0
    /\ regfile_tx_op_finish(t)
    /\ seekbuf_tx' = [seekbuf_tx EXCEPT ![t] =
           [i \in DOMAIN @ |-> IF @[i].buf = NULL THEN @[i] ELSE seekbuf_tx_finish(@[i])]]
    /\ alloced' = [alloced EXCEPT ![t] = InUseSeq(t) \o @]
    /\ phase' = [phase EXCEPT ![t] = "out"]
    /\ noundo' = noundo \ {t}
    /\ calls' = [calls EXCEPT ![t] = 0]
    /\ log' = [log EXCEPT ![t] = <<>>]
    /\ applied' = [applied EXCEPT ![t] = 0]
    /\ UNCHANGED <<menu, kernelVars, started, history>>

RFNext ==
    \E t \in Threads :
        \/ \E alone \in BOOLEAN : Begin(t, alone)
        \/ \E c \in menu : Exec(t, c) \/ Refuse(t, c)
        \/ Commit(t)
        \/ Apply(t)
        \/ Undo(t)
        \/ Finish(t)

RFSpec == RFInit /\ [][RFNext]_rfVars

-----------------------------------------------------------------------------
(* Properties.                                                             *)

(* The state that others will find once the commits under way are over.    *)
Pending(b, a) ==
    {w \in UNION {{t} \X InUse(t, b) : t \in {u \in Threads : phase[u] = "apply"}} :
        Writing(seekbuf_tx[w[1]][w[2]].wrtab, a) # {}}

CommittedByte(b, a) ==
    IF Pending(b, a) # {}
    THEN LET w == CHOOSE w \in Pending(b, a) : TRUE
             wrtab == seekbuf_tx[w[1]][w[2]].wrtab
         IN  ioop_read(wrtab[Max(Writing(wrtab, a))], a)
    ELSE IF a < Len(content[b]) THEN content[b][a + 1] ELSE NULL

Owners(l, phases) ==
    {t \in Threads : phase[t] \in phases /\ rwstate[t][l] = "WRLOCKED"}
Owner(l, phases) == CHOOSE t \in Owners(l, phases) : TRUE

CommittedState ==
    [c \in Cells |->
        CASE c[1] = "byte" -> CommittedByte(c[2], c[3])
          [] c[1] = "size" ->
                IF Owners(c, {"apply"}) = {} THEN Size(content[c[2]])
                ELSE LET t == Owner(c, {"apply"})
                     IN  seekbuf_tx[t][get_seekbuf_tx(t, c[2])].size
          [] c[1] = "offset" ->
                IF Owners(c, {"apply"}) = {} THEN offset[c[2]]
                ELSE regfile_tx[Owner(c, {"apply"})][c[2]].offset
          [] c[1] = "mode" ->
                LET W == {w \in {t \in Threads : phase[t] \in {"run", "undo"}} \X Files :
                             /\ BufferOf[w[2]] = c[2]
                             /\ regfile_tx[w[1]][w[2]].fchmodtab # <<>>}
                IN  IF W = {} THEN mode[c[2]]
                    ELSE LET w == CHOOSE x \in W : TRUE
                         IN  Head(regfile_tx[w[1]][w[2]].fchmodtab)
          [] c[1] = "flags" -> flags[c[2]]]

(* Reads and writes through local copies of offset and size, replayed      *)
(* event by event at the commit, behave as if each transaction took        *)
(* effect at once when it commits, offset, size, mode and bytes alike.     *)
Promise == INSTANCE AtomicState WITH
    committed <- CommittedState, view <- seen, changes <- stored, irrevocable <- noundo

ImplementsAtomicState == Promise!ASSpec

(* fsync() within a transaction: once the commit is over, the bytes that   *)
(* the transaction wrote before its call are on the disk, although writes  *)
(* and calls to fsync are carried out only then.                           *)
SyncedBytes(t, b) ==
    LET ev == log[t]
        Io(k) == BufferState(t, ev[k].file).wrtab[ev[k].cookie]
        W == {k \in DOMAIN ev : ev[k].op \in {"write", "pwrite"} /\ BufferOf[ev[k].file] = b}
        S == {k \in DOMAIN ev : ev[k].op = "fsync" /\ BufferOf[ev[k].file] = b}
    IN  {<<a, ioop_read(Io(k), a)>> : <<a, k>> \in
            {p \in Bytes \X W : /\ HasByte(Io(p[2]), p[1])
                                /\ \E s \in S : s > p[2]
                                /\ \A j \in W : HasByte(Io(j), p[1]) => j <= p[2]}}

SyncReachesDisk ==
    [][\A t \in Threads : (phase[t] = "apply" /\ phase'[t] = "out") =>
           \A b \in Buffers : \A p \in SyncedBytes(t, b) :
               p[1] < Len(disk[b]) /\ disk[b][p[1] + 1] = p[2]]_rfVars

(* A transaction that holds the lock of a file's size has read the size:   *)
(* what seekbuf_tx_get_file_size says of its fast path, "we have already   *)
(* read the file size", which all calls after fstat() build on.            *)
SizeHasBeenRead ==
    \A t \in Threads : phase[t] = "run" =>
        \A i \in DOMAIN seekbuf_tx[t] :
            LET b == seekbuf_tx[t][i].buf
            IN  (b # NULL /\ rwstate[t][<<"size", b>>] = "RDLOCKED") =>
                    seekbuf_tx[t][i].size = Size(content[b])

(* Nobody holds a record lock outside of a transaction: seekbuf_tx_finish  *)
(* releases them.                                                          *)
RecordLocksAreReleased ==
    \A t \in Threads : phase[t] = "out" =>
        \A i \in DOMAIN seekbuf_tx[t], r \in Records :
            seekbuf_tx[t][i].counter[r].n = 0
=============================================================================
