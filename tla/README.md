# picotm in TLA+

This directory specifies and verifies the transaction manager *picotm* in
TLA+: how transactions lock, wait, conflict, retry, become irrevocable, commit
and roll back, and what the modules that plug into them do. Modules named
after a part of the system model it; `MC…` modules and `.cfg` files
instantiate them for TLC; `…Proofs` modules hold proofs that TLAPS checks.
`PROJECT.json` maps every definition to the lines of the source it stands for,
and lists the runs, the theorems, the hazards and the parts of the system.

## 1. The system

A program runs transactions between `picotm_begin` and `picotm_commit`. Each
thread owns one transaction object (`struct picotm_tx`), one lock owner and
one slot of state per module. Concurrency control is two-phase locking: data
is guarded by reader/writer locks that are taken during the transaction and
given back after it. A lock that is not granted means a *conflict*; the
transaction rolls back by `longjmp` and tries again. A transaction that cannot
roll back runs *irrevocably*, alone.

| Component | State | Operations | Hard part |
|---|---|---|---|
| Reader/writer lock (`picotm-lib-rwlock.c`) | one atomic byte: holder counter and index of the first waiter | try to lock shared or exclusive, upgrade, unlock, swap the index | loads and swaps of several threads interleave; two fields share a byte |
| Reader/writer state (`picotm-lib-rwstate.c`) | a transaction's view of one lock | try_rdlock, try_wrlock, unlock | must agree with the byte |
| Lock manager (`picotm_lock_manager.c`) | table of lock owners, `lo_rwlock`, the list of waiters threaded through owners | register, unregister, wait, wake_up | hand-over-hand locking; waiters enter and leave while others walk; timeouts race with wake-ups |
| Lock owner (`picotm_lock_owner.c`) | mutex, condition variable, flags and indices in one word, link | wait_until, wake_up | stale flags after a timeout |
| Exclusive lock (`picotm_lock_manager.c`) | `exclusive_lo_lock`, `exclusive_lo` | make_irrevocable, wait_irrevocable, release | given back once on every path |
| Transaction (`picotm.c`, `picotm_tx.c`) | mode, number of retries, modules, error | begin, retry, restart, recover, commit, roll back | failures in the middle of commit and roll-back |
| Event log (`picotm_log.c`, `picotm_event.c`) | array of events | append, apply forwards, undo backwards | partial failure |
| Modules (`picotm_module.c`, `table.c`) | array of call-backs | begin, prepare_commit, apply, undo, finish | a module registers in the middle of a transaction |
| Errors (`picotm-error.c`) | status, recoverable or not | set, mark, clear | what may still be recovered from |
| Shared tree map (`picotm-lib-shared-treemap.c`) | radix tree of atomic pointers that only grows | find or insert by compare-and-swap | losers of a race free what others may get again |
| Shared reference-counted objects (`picotm-lib-shared-ref-obj.c`), tables of descriptors, files and buffers (`libc/src/fildes`) | counters under spin locks, arrays under reader/writer locks | search, reference, append, release | entries are released and recycled while others search |
| Transactional memory (`modules/tm`) | frames of eight bytes with a lock, pages of each transaction | load, store, loadstore, privatize, commit | what is buffered, what is written through |
| Regular files (`regfile_tx.c`, `seekbuf_tx.c`) | offset, size and mode; tables of reads and writes; locks on records | read, write, seek, fsync, fcntl, fstat, fchmod | reads through own writes; two-phase locking of records |
| Other files and descriptors (`fildes_tx.c`, `fd_tx.c`, `fifo_tx.c`, …) | the table of descriptors, states of descriptors, output kept back | open, pipe, socket, dup, close, … | opened at once, closed by the last user after a commit |
| Process state (`cwd`, `locale`, `allocator`, `error`, `signal` of `libc`) | directory, locales, heap, `errno`, signals | transactional library calls | changes at once that are set back, releases that are delayed |
| Data structures (`modules/txlib`) | lists, queues, stacks, multisets, their per-transaction entries | insert, erase, push, pop, search | merging local and shared contents |
| Mathematics, arithmetic, casts (`modules/libm`, `arithmetic`, `cast`) | status flags, `errno` | range checks, tests of exceptions, roll-back | checks that must not overflow themselves |
| Pointer data (`modules/ptrdata`) | a word for each pointer | set, test and set, clear, get | look-up and access are two steps |

How they interact: a transactional operation of a module calls
`picotm_rwstate_try_*lock`; that tries the lock byte and, if refused, waits
once through `picotm_lock_manager_wait` in the list of waiters whose head is in
the same byte; if refused again the module calls
`picotm_resolve_conflict`, which `longjmp`s into `__picotm_begin`, which rolls
back through the modules' `undo` and `finish` call-backs, where the locks are
given back and waiters are woken up.

### What makes each part correct

* **Lock byte**: one writer or several readers; the counter *is* the number of
  holders; nobody passes listed waiters; unlock knows which kind of holder it is.
* **Lock manager**: the list of waiters is intact under any interleaving; no
  assertion of the source fails; every mutex is given back; nobody blocks for
  ever.
* **Transaction**: an irrevocable transaction runs alone; the exclusive lock is
  balanced; all events are applied or none, in order; a transaction begins on a
  clean slate; module call-backs follow their protocol; every transaction ends.
* **Transactional memory**: what a transaction reads is what it wrote or what
  the last commit left; commits become visible at once; aborts leave no trace.
* **Files and process state**: the same, although some changes are made at once
  and set back, others are kept back and made at the commit, and some calls
  cannot be taken back at all and make the transaction irrevocable. The table
  of descriptors agrees with the operating system; `fsync` reaches the disk.
* **Shared tables and trees**: all users of a file, a record or a pointer meet
  at one object; nothing is released while it is used, and nothing is left.
* **Data structures**: the calls of a transaction take effect as if made all at
  once; an entry is in one place.
* **Arithmetic and mathematics**: a result that does not fit is reported, and no other
  is; an exception that a function tests does not go unreported; a roll-back restores the
  floating-point flags and `errno`.

## 2. Modules

| Module | Models | Built on |
|---|---|---|
| `RWLockAbstract` | what a reader/writer lock promises: several readers or one writer | |
| `RWLock` | `picotm-lib-rwlock.c`, `picotm-lib-rwstate.c`: the lock byte with its loads and swaps | refines `RWLockAbstract` |
| `LockManager` | `picotm_lock_manager.c`, `picotm_lock_owner.c`: owners, list of waiters, timed waits, wake-ups | |
| `RWLockSystem` | both together; the head of the list is the index field of the lock byte | composes `RWLock` and `LockManager`, refines `RWLock` |
| `Transaction` | `picotm.c`, `picotm_tx.c`, `picotm_log.c`, `picotm_event.c`, `picotm_module.c`, `picotm-error.c`, irrevocability | |
| `TransactionalMemory` | what loads, stores and commits of the module *tm* promise | |
| `VMem` | `modules/tm/src`: frames, pages, their two modes, commit and roll-back | refines `TransactionalMemory` |
| `AtomicState` | what `libc` promises for files and process state: cells that are shown and changed atomically | |
| `RegularFile` | `regfile_tx.c`, `seekbuf_tx.c` and the tables of reads, writes and record locks | refines `AtomicState` |
| `StreamFiles` | pipes, sockets, character devices, directories: their tables of operations | |
| `ProcessState` | working directory, locale, heap, `errno`, floating-point flags, signals | extends `StreamFiles` |
| `Fildes` | `fildes_tx.c`, `fd_tx.c`, `fdtab_tx.c`, `module.c`: descriptors, and whole transactions that use any of the above | extends `ProcessState`, refines `AtomicState` |
| `SharedTreemap` | `picotm-lib-shared-treemap.c` | |
| `PointerData` | `modules/ptrdata`, the shared data | extends `SharedTreemap` |
| `SharedTables` | `fdtab.c`, `filetab.c`, `filebuftab.c`, the reference-counted objects in them, record locks | extends `SharedTreemap` |
| `SharedObjects` | the two together, on one heap | composes `SharedTables` and `PointerData` |
| `AtomicObjects` | what `txlib` promises: the calls of a transaction are made all at once | |
| `TxMultiset` | the binary tree of a multiset with its links (`txmultiset_entry.c`, `txmultiset_state.c`) | |
| `TxLib` | lists, queues, stacks, multisets, their events and call-backs | extends `TxMultiset`, refines `AtomicObjects` |
| `Arithmetic` | `modules/arithmetic`, `modules/cast`: the range checks, for every type | |
| `Mathematics` | `modules/libm`: the exceptions that each function tests | |
| `Numeric` | a transaction that computes with them | extends `Arithmetic`, `Mathematics` |
| `RWLockProofs` | proofs about the lock byte | extends `RWLock` |
| `LockManagerProofs` | proofs about the lock manager's locks and places, and about its list of waiters | extends `LockManager` |
| `RWLockSystemProofs` | proofs about the two together | extends `RWLockSystem`, instantiates `RWLockProofs` and `LockManagerProofs` |
| `TransactionProofs` | proofs about irrevocability, event logs and the modules' call-backs | extends `Transaction` |
| `SharedObjectsProofs` | proofs about the tables, the tree maps and the two together | extends `SharedObjects` |
| `VMemProofs` | proofs about the transactional memory | extends `VMem` |
| `TxLibProofs` | proofs about lists, queues, stacks and multisets | extends `TxLib` |
| `NumericProofs` | proofs about arithmetic and mathematics | extends `Numeric` |
| `MC…` | constants for TLC | extend the modules they instantiate |

Six modules have a constant `Risks`. Where the code has a sequence of calls or a
situation that does *not* work, the module models what happens all the same, and
an action takes that way only if `Risks` contains its name (`KnownRisks` lists
them). The passing runs set `Risks = {}`: they show that everything else works. Section 5
says what each risk is; putting it into the `.cfg` makes TLC produce the
counterexample. The theorems of `NumericProofs`, `VMemProofs`, `SharedObjectsProofs` and
`TxLibProofs` have `Risks = {}`, or the absence of those risks that matter to them, as an
explicit hypothesis where they need it.

### How state and actions correspond to the code

**RWLock.** `counter` and `first` are the two fields of `picotm_rwlock::n`;
`status` is `picotm_rwstate::bits`. A thread's `pc` is `load` or `cas` inside
the compare-and-swap loop of `picotm_rwlock_try_*lock`, `wait` in
`try_lock_or_wait` after a refusal, `sub` before the `atomic_fetch_sub` of the
unlock functions and `wake` before their call to
`picotm_lock_manager_wake_up`; `loaded` is the byte it has read and `waited`
says that the one wait it may do is over. Every access to the byte is one step.
`SetIndex` stands for all uses that the lock manager makes of the list head. In
`RWLockSystem` the lock manager itself makes them.

**LockManager.** An owner is named by its thread. A step is one acquisition of
a mutex or of `lo_rwlock` with what is done under it, or one access to the list
head, which the code reads and swaps through `picotm_lock_slist_funcs` without
any mutex. `mpc` names the places between those steps; `task` says which call
the thread is in, because `get_first_waiter` is used by two of them. The list
itself exists only in `first`, `index`, `nextIndex` and `next`, as in the code.

**Transaction.** `phase` is the place in the life of a transaction; `pos` and
`last` are a walk over modules (`tabwalk_1`, `tabwalk_2`) or events
(`picotm_events_foreach1`, `picotm_events_rev_foreach1`). Each call-back is a
step, and whether and how it may fail is an element of `failures`. `longjmp` is
part of the step that causes it. `AcquireExclusiveLock` blocks like
`pthread_rwlock_rdlock` and `pthread_rwlock_wrlock`. `modstate`, `appended` and
`done` are history: no guard reads them, apart from the bound on `appended`.

**VMem.** `memory` is the shared memory. A call works through its range one page
at a time; a page has the bits and the buffer of `struct tm_page`, and `lock`
stands for the frame's lock. A refused lock ends the transaction, as
`picotm_resolve_conflict` does. `ReadInPlace` and `WriteInPlace` are the program
in memory that it has privatized, and `String` is what the wrappers of
`libc/src/string.c` do.

**RegularFile.** `content`, `disk`, `mode`, `offset` and `flags` are what the kernel knows
of a file and its open file description. `rwstate` holds the locks of a
transaction on fields, `regfile_tx` and `seekbuf_tx` its tables of reads, writes,
seeks and record locks and the fields that it keeps once it has locked them. A call is *one* step, because between its first lock and its end it
touches only what it has locked; that any of its locks may be refused, and the
others then stay with the transaction, is a step of its own. Events of the
commit and of the roll-back are single steps.

**StreamFiles, ProcessState, Fildes.** An operation is a record of the locks it
requests, what it does to the process (`os`), the event it logs, and whether it
needs irrevocability; `Exec` of `Fildes` carries it out if all locks are granted,
`Refuse` stops at one of them or with an error, after those before it. So one operator stands for
one function of the source, and locking, conflicts, errors and roll-back are
written once. `shown` and `changed` are the cells of `AtomicState` that the call shows and
changes; a thread in `noundo` is irrevocable, and only its changes may reach others before
its commit (`irrevocable` in `AtomicState`). A call that fails keeps what the code has
done before the failure: `Refuse` adds, with the risk `"no memory"`, what stays in effect when the
event cannot be logged (`Leftover`). Commit and roll-back take one event per step, and the end of a
transaction takes three: files and buffers, each descriptor, the table.

**SharedTables, SharedTreemap, PointerData.** Here the steps are those of the
machine: a walk over a table takes one step per entry, a compare-and-swap and
the load before it are two, a spin lock makes its section one. `tx[t].pc` is the
place in `find_fd_tx_with_ref` and the functions it calls. `malloc` takes the
least free node, so a node that a loser frees is soon another one.

**TxLib.** `state[o]` is the shared value, `tx[t].local[o]` what the transaction has
pushed. As in `Fildes` a call is a record of locks, events, and answer; its
events are carried out when they are logged. The walks over the tree of a multiset
follow its links, in functions over the nodes that are in it (`Members`).

**Numeric.** One thread; `fits` records whether the exact result is a value of its
type, `raised` what a function raised. Ranges of the types are parameters;
floating-point numbers are multiples of `1/UNIT`, so that factors between 0
and 1 exist.

## 3. Runs

| Run | Instance | What it shows |
|---|---|---|
| `RWLock` | 3 threads, room for 2 readers, 1 index | Mutual exclusion; the counter is the number of holders; `unlock` knows its mode; nobody overtakes listed waiters; the byte refines `RWLockAbstract`. |
| `LockManager` | 3 threads, one of which waits as a writer, one call each besides registration | The list stays intact; no assertion of the source fails; `find_prec_waiter`'s answer is current when used; mutexes are given back; only sleepers are woken; every call returns. |
| `RWLockSystem` | 1 reader, 2 writers, one lock operation each | With the real list of waiters behind it the lock byte behaves as `RWLock`; a lock nobody uses is free; the list shares the byte without damage; every operation returns although `unlock` may miss a waiter. |
| `Transaction` | 2 threads with 2 transactions each, 2 modules, 2 events, limit of 1 retry | Irrevocable transactions run alone; exclusive lock balanced; all or nothing; call-back protocol; clean slate at begin. Two scenarios of failures: conflicts and errors up to the end of the commit, and conflicts with failing roll-backs. |
| `TransactionLive` | 2 threads, limit of 2 retries, conflicts without end | Every transaction ends. |
| `TransactionRecovery` | 1 thread, an error in the execution phase, then one in the roll-back | *Violation.* The restarted transaction finds the old log and `assert(log_is_empty(self))` fails. |
| `VMem` | 2 transactions, 2 blocks of 2 bytes, 2 calls, in-place accesses | Atomic, isolated transactions; every access is locked; a roll-back can restore. |
| `RegularFile` | 2 transactions of 3 calls on one open file of up to 3 bytes, records of 2 bytes; four menus of calls | Reads, writes and seeks refine `AtomicState`; `fsync` reaches the disk. |
| `Fildes` | 2 transactions of 2 calls, 6 descriptors, two pipes, two directories, two sockets; eleven menus | All other calls on files and the process state refine `AtomicState`; the table of descriptors is consistent. |
| `SharedObjects` | 2 threads, 3 descriptors, 3 files of 2 inodes, trees of depth 2 | All users of a file, a record or a pointer meet at one object; a descriptor is closed once, by its last user. |
| `TxLib` | 2 transactions of 3 calls, a list, two queues, a stack, a multiset; ten menus | The calls refine `AtomicObjects`; an entry is in one place; none is left behind; sizes count. |
| `Numeric` | 1 transaction, small ranges of all 15 types, all sets of exceptions | Arithmetic and casts report errors exactly where results do not fit; of the functions of `libm` one direction: an exception that a function raises and tests is reported (not that nothing else is, see `matherr_save_and_clear` in section 5); a roll-back restores the flags and `errno`. |

Four more `.cfg` files are not part of the regular runs. Each switches on one of the risks of section 5
and checks one property that states what a comment or a header says; TLC finds a short
counterexample. Without the risk, the property holds for the same calls.

| Configuration | Module | Property | Counterexample |
|---|---|---|---|
| `RegularFileFstat.cfg` | `MCRegularFile` | `SizeHasBeenRead` | A transaction that first needs the size of a file in `fstat` takes it to be 0. |
| `FildesNoMemory.cfg` | `MCFildes` | `FailedCallsLeaveNothing` | A call whose event finds no memory has taken effect and is not taken back. |
| `TxLibLowerBound.cfg` | `MCTxLib` | `LowerBoundIsDocumented` | The lower bound of a key is the entry before the first one with the key. |
| `TxLibUpperBound.cfg` | `MCTxLib` | `UpperBoundIsDocumented` | The upper bound of a key that is absent is the end although there are larger keys. |

### Bounds, and why they are enough

* *Fields of the lock byte.* `WRITER_COUNTER = 3` leaves room for two readers,
  so the limit of readers is met with three threads. The proofs cover every
  width.
* *Threads of the lock manager.* With three, a waiter can leave the list behind
  one that leaves too while the third walks the list or prepends itself. Larger
  instances (four threads, without the liveness property) have been checked
  occasionally and need more time than the runs should take. The proofs about
  the lock manager's locks and about the composition cover any number of threads; those about
  the list need `IndicesFit`, that is, no more threads than the index field can name
  (15 in the code, which does not enforce it).
* *Calls.* One call per thread after registration is enough for every pair of
  calls to overlap, because threads register, call and unregister in every
  order, and registered owners reuse the indices of others.
* *Restarts.* `MAX_RESTARTS` lies above `TX_NRETRIES_LIMIT`, so an attempt
  passes the limit; the counter then stops, which merges attempts that the code
  tells apart only by a number it no longer compares.
* *Modules and events.* Two of each: a failure can hit the first or the last,
  and order is visible. The proofs cover any number.
* *Memory and files.* Two blocks of two bytes and ranges that cover a part of a
  block, a whole block and both; a file that grows from two bytes to three with
  records of two bytes, so that a region lies within a record, at its border,
  or across. Three calls let a write cover an earlier write that a read has
  met. The proofs about memory cover any number and size of blocks.
* *Menus.* `Fildes`, `RegularFile`, `TxLib` and `SharedObjects` let a program choose
  its calls from one of several sets. The sets group calls that share locks or
  data; calls of different sets touch disjoint variables, apart from the table of
  descriptors, which is in most sets.
* *Two transactions.* Every property of these modules is violated, if at all, by
  one transaction that sees or destroys what another one has locked; locks know
  only "mine" and "others'". Three threads would matter where the third recycles
  an entry while two use it; `SharedObjects` with three threads has been explored to
  some six million states without a violation, but not to its end. The proofs about
  memory, shared objects and data structures cover any number of threads, and their
  transactions and calls.
* *Numbers.* The ranges keep the shape of the C types: two's complement,
  unsigned ranges of twice the size, char signed or not. The proofs cover every
  range.

`CHECK_DEADLOCK FALSE` is used where the bounds, or a non-recoverable error,
let the system stop. `RWLock` and `Numeric` run without it.

Symmetry (of threads) is used only in runs without liveness properties.

### Fairness

* `LMFairness`, `SysFairness`: weak fairness of a thread's steps *inside* a
  call. The operating system schedules runnable threads, a timed wait ends, and
  a mutex that stays free is obtained. Nobody has to call anything.
* `TxFairness`: weak fairness of picotm's own steps and of the end of the
  execution and recovery phases, which are finite programs. It is weak fairness
  for each *thread*, not for each way of ending: a transaction may conflict for
  ever as far as fairness is concerned, and still ends.

Weak fairness of `AcquireExclusiveLock` suffices in `TransactionLive` because
the number of transactions is bounded: after the others have ended the lock
stays free. With an endless stream of revocable transactions an irrevocable
one depends on the writer preference of the `pthread` lock.

The other modules need no fairness: a call that does not get a lock rolls back,
and that a transaction ends is the business of `Transaction`.

## 4. Proofs

TLAPS proves the following for every value of the constants.

**`RWLockProofs`**, from `ThreadsAssumption` (a finite set),
`WriterCounterAssumption` and `MaxIndexAssumption` (widths of the fields). The
inductive invariant is

    LockInv == TypeOK /\ OpFitsStatus /\ UnlockKnowsItsMode /\ CounterCountsHolders

`CounterCountsHolders` alone is not inductive. A swap grants a lock according
to the *operation*, which must fit the status the thread had when it called
(`OpFitsStatus`), and a subtraction takes what the *loaded* byte says, which must
still name the mode in which the thread holds the lock (`UnlockKnowsItsMode`).
That a reader's loaded byte cannot turn into a writer's before the subtraction
follows from the counter: while the reader holds the lock nobody can be the
writer. `CounterStaysInField` gives type correctness, `HoldersStep` says how
each step changes the sets of readers and writers, and from it follow
`CounterStep` and `Refinement`.

Results: `LockInvariant`, `TypeCorrectness`, `MutualExclusion`, `UnlockIsSafe`,
`GrantsInOrder`, `Refinement`.

**`TransactionProofs`**, from `TxThreadsAssumption` and `TxLimitsAssumption`. The
inductive invariant is

    TxInv == TxTypeOK /\ exclusive_lo = exclusive /\ ExclusiveMeansAlone
             /\ \A t : LockFits(t) /\ WalkFits(t)

The types need both parts: `shared` stays natural because only a thread that
holds the lock as a reader gives it back (`LockFits`), and what is applied or
undone is an event because a walk stays in the log (`WalkFits`).
`IrrevocableIsAlone` combines `LockFits` with `ExclusiveMeansAlone`. For
`EventsAreAllOrNothing` the invariant is strengthened by `LogFits`: the log is
1, 2, … up to the number of appended events, and what has been applied or undone
is a prefix as long as the walk. It is about every scenario of failures in which
events and finish call-backs report only errors during a commit
(`NoLateConflicts`); this cannot be dropped, see below.

Most lemmas there are about one group of variables and cite all actions at
once: a step of one thread leaves the others alone, and what it does to a group
does not depend on the rest of the state.

Results: `TransactionInvariant`, `TransactionTypes`, `LockIsBalanced`,
`IrrevocableIsAlone`, `EventsAreAllOrNothing`.

The module's second half is about the modules' call-backs. It needs two hypotheses about
the scenarios of failures, each of which excludes a behaviour of the code for
which the property is false:

* `RollbackInRecoverySucceeds`: where a program may recover from an error, no
  roll-back call-back fails. Otherwise the log and the modules stay as they are
  and the next transaction starts on them; this is the finding
  `TransactionRecovery` of section 5. Scenarios with failing roll-backs, but
  without errors to recover from, are covered.
* `LateFailuresAreErrors`: from the first `apply` call-back on only errors are
  reported. A late conflict makes picotm undo a module that it has told to apply.

`CleanSlate` speaks only of the start of a transaction. What is idle then
depends on where the walks before have stopped: `SlateInv` adds to `TxInv`, for each
walk, which modules it has finished, which have not been begun, and when the
log is empty (`SlateFits`). `ProtocolInv` adds which call-back each module has
received last on both sides of the walk (`ProtocolFits`), so that the next call-back
is a legal successor.

Results: `BeginsOnACleanSlate`, `ModulesFollowTheProtocol`.

**`LockManagerProofs`**, from `OwnersAssumption`, `ListHeadAssumption`,
`PreferenceAssumption`, `CallsAssumption` and `NullAssumption`, with both readings of
`pthread_rwlock_rdlock`. The inductive invariant is

    LockManagerInv == LMTypeOK /\ TableFits /\ \A t : LocksFit(t) /\ PlaceFits(t)

`LocksFit` says exactly which mutexes each place of a thread holds, by way of
`HeldBy`: in the walk that is one owner, two while a waiter unlinks itself behind
another one, and up to three while `pick_waiter` compares candidates. `TableFits`
says that the table and the owners' indices are inverse to each other; an index
that somebody has read stays in the table, because the table never shrinks.
`PlaceFits` says what the local variables of a place still mean. The three
results are conjuncts or consequences: `LocksAreGivenBack` (no mutex is left
locked on any path), `WakesOnlySleepers`, `PrecedingStaysCurrent` (hand-over-hand
locking keeps the answer of `find_prec_waiter` valid until it is used).

Result of the induction itself: `LockManagerInvariant`.

The module's second half adds the shape of the list, and the hypothesis

    IndicesFit == Cardinality(Threads) <= MAX_INDEX

which the code does not enforce: the lock byte has four bits for an index that
has ten (section 5), and with more threads both results are false. The
invariant is

    WaiterListInv == LockManagerInv /\ \E rank : Ranked(rank)

That every listed owner is reached from the head is a statement about paths, and
paths are data to do induction over. Instead the invariant says that some function
`rank` into the natural numbers orders the listed owners: the head has the
highest rank (`HeadFits`), each link leads to the next lower one (`LinkFits`),
and a walk that looks for a waiter's predecessor has not passed it (`WalkFits`).
Each step keeps the rank, except that a new waiter gets a higher one
(`PrependRanked`); a waiter that leaves hands its link to its predecessor
(`RemoveFromHeadRanked`, `RemoveFromPrecedingRanked`) and the ranks of the others
stay. That a ranked list is connected is shown once, in `ReachedIsListed`: `Reached` of
`LockManager` is the least closed set that contains the head. Of the owners such
a set misses, the one with the highest rank has a predecessor in the set, whose
link leads to it.

Results: `WaiterListInvariant`, `WaiterListStaysIntact`, `AssertionsHold`.

**`RWLockSystemProofs`** composes the two developments above without repeating them:
it instantiates `RWLockProofs` and `LockManagerProofs` with the variables of
`RWLockSystem` and proves that the assumptions of both follow from its own
(`PartsAssumptions`). The inductive invariant is

    SysInv == RWP!LockInv /\ LMP!LockManagerInv /\ PhaseFits

where `PhaseFits` ties the place in the lock operation to the place in the lock
manager. The step lemma `SystemStep` shows that each step is a step, or a stutter,
of both parts at once: the lock manager changes of the byte only the index,
which is the step `SetIndex` of the lock word, and a lock operation changes only
the counter, which the lock manager does not see.

Results: `SystemInvariant`, `SystemImplementsLockWord` (a refinement of `RWLock`),
`SystemExcludes`, and with `IndicesFit` `SystemListInvariant`, `SystemListStaysIntact`,
`SystemLeavesLockFree`.

**`VMemProofs`**, from the assumptions of `VMem`, for any number of threads and
blocks and any size of a block. There are two invariants.

    AccessInv == Types /\ Exclusive
                 /\ \A t : (\A b : PageFits(t, b)) /\ AccessFits(t) /\ JobFits(t)

is about locks: a writer is alone on its block, a page without a lock is empty,
what a transaction has seen is locked, and what it changes is locked for writing and
has its old or new value in a buffer. It needs

    LocksSuffice == Risks \cap {"copy", "string after string"} = {}

because a copy from elsewhere stores to a block that is locked for reading only,
and a string behind another one in its block is privatized without a lock on its
rest (section 5). The other two risks lose values but no locks.

    MemoryInv == AccessInv /\ \A t : (\A b : ValuesFit(t, b)) /\ PlanFits(t)

adds what the buffers hold: the new values in write-back mode, the ones to be
restored in write-through mode, and in the walks of commit and roll-back what
has reached the memory. From it follows the refinement of `TransactionalMemory`,
whose committed memory is computed: at each address from the buffer of the one
transaction that keeps a value for it, or from the memory if there is none
(`CommittedIs`). As writers are exclusive, a step of one thread changes the
committed memory only at its own addresses (`CommittedStep`), so each action needs
to be compared only with the transaction's own `stored` and `seen`. Every action
has a lemma `…Fits` for the first invariant and one `…Promised` for the second and
for the step of `TransactionalMemory` that it maps to.

Results: `AccessInvariant`, `AccessesStayLocked`, `UndoCanAlwaysRestore` (with
`LocksSuffice`), `MemoryInvariant`, `TransactionsAreAtomic` (with `Risks = {}`).

**`NumericProofs`**, from `MaxAssumption`, `CharAssumption`, `UnitAssumption` and
the hypothesis `Risks = {}`. For each macro of `picotm-arithmetic.h` and
`picotm-cast.h` there is a lemma: it reports an error if and only if the exact
result is not a value of the type. The comparisons of the macros use sums and
quotients of their own, so the lemmas first show that these fit
(`StoredValue`), and then that a comparison with a rounded quotient is as good as
one with the product (`DivLess`, `DivBound`). `ArithmeticIsExactAlways` puts them
together with the invariant that the program's number is a value of its type.
`RollBackRestoresTheUnitAlways` needs

    UnitInv

which says that what has been saved is what the transaction has begun with, and
that nothing differs from then that has not been saved. `NoExceptionIsMissedEver` needs
no hypothesis: a test that comes after the function may find more exceptions
than its own, never fewer.

**`SharedObjectsProofs`**, from `NodesAreNumbers`, `ThreadsAreFinite`, `TablesAssumption`,
`MapsAssumption` and `RisksAreKnown`, with the hypothesis `Risks = {}`: for any number of
threads, any tables of files and descriptors and trees of any depth and width. There are two
invariants. The first is about the tables:

    TablesInv == STTypeOK /\ (\A t : PlaceFits(t) /\ SearchFits(t)) /\ WritersAreAlone
                 /\ FdsCount /\ DescriptorsFit /\ PromisesFit /\ EntriesCount /\ EntriesDiffer

That a descriptor is not closed while it has users needs its counter to be exact:
`FdsCount` and `EntriesCount` say that the counter of an object is the number of
references that threads hold, at each place of each thread and in the lists of
their transactions. `WritersAreAlone` and `PlaceFits` say who is in the
critical sections and what a place still knows of what it has read before them;
`SearchFits` that a writer has passed only entries that do not match. So no two
entries in use stand for the same file or inode (`EntriesDiffer`), and as an entry stands
for what its users use (`EntriesCount`), `UsersOfAFileMeet` follows. `DescriptorsFit` says
which open files have a single descriptor, and `PromisesFit` what the program may rely on.

The second is about the tree maps:

    ObjectsInv == TablesInv /\ TreeInv /\ PDTypeOK /\ WalkersFit /\ WordsFit

Here the difficulty is that trees share one heap, from which nodes are freed and taken
again, and that `Path`, `tree_depth` and `recursive_cleanup_dir` are recursive. Each
recursive function gets its lemmas by induction over *sets* of numbers (`UpwardInduction`,
`DownwardInduction`, `RecursiveFunction`), which needs no theorem with an operator for a
parameter. Two keys part at their first different digit (`KeysDiffer`), so paths of
different keys end in different nodes (`PathsDiffer`); an insertion by compare-and-swap
extends exactly the paths that go through the slot and no other (`PathsGrow`), and a
node that the loser of the race frees is on no path (`NewNodesFit`). So a walk stays on the
path of its key whatever the others do (`WalksLast`), and two look-ups of the same key end
in the same node. What the clean-up frees is what is on paths, all of it and nothing
else (`LevelsArePaths`).

Results: `TablesInvariant`, `FileUsersMeet`, `DescriptorOutlives`, `ObjectsInvariant`,
`LookupsAlwaysMeet`.

**`TxLibProofs`**, from the assumptions of `TxMultiset` and `TxLib`, with the hypothesis
`Risks = {}` (no equal keys above smaller ones, no memory failure in the middle of a call,
bounds as documented): for any number of transactions, objects and entries and any calls in any order. The inductive
invariant is

    TLInv == LibInv(state, tx, phase, log, applied)
             /\ menu \in Menus /\ started \in [Threads -> 0 .. MAX_TX] /\ HistoriesFit

    LibInv(S, X, P, L, A) == LibTypes(S, X, P, L, A) /\ Apart(Shared(S), Locals(X))
                             /\ Exclusive(Locks(X)) /\ LogsDiffer(L)
                             /\ ThreadsFit(S, X, P, L, A) /\ OrdersFit(X, P, L, A)

It has two halves. The first is about *trees*. `TreeFits` (in `LibTypes`) says that the links
of a multiset make a search tree. Reachability would need an induction for each walk;
instead each member has a place on a line, and a pair of bounds between which lie
the places of what is below it (`Ordered`, `Nested`). Links lead to members with narrower bounds
(`ChildrenFit`), and wherever the bounds leave room for a member there is a link
(`Complete`). So walks downwards and upwards end (`Descent`, `DescentStays`) and find the next
entry of the line, an insertion is a new place between two others (`TreeInserted`), and an
erasure, which pulls one subtree up and pushes the other below it, leaves the line
as it is but for one place (`TreeErased`). `TreeSize` counts the line, and `TreeFront` is its
beginning.

The second is about *logs*. That no entry is in two places (`Apart`) is not inductive, because
commits and roll-backs move entries to where the log says. `ThreadsFit` therefore says
where the entries of a log are and who has locked these places: if the events are undone
backwards from the last one that is still active, each finds its entry where it looks for it.
`OrdersFit` says that local entries are in the order of those events of the log that have
pushed them and are not yet applied; an entry that was popped again is in the log only, and
the commit passes over its push. So a commit finds each entry at the head of the local queue. `LogsDiffer` with `Exclusive` keeps two transactions from claiming one entry.
`EventLogged`, `EventDelivered` and `EventTakenBack` show this for one event of any kind,
`EventsLogged` for those of one call; `CallFits` says of a call that its events suit the state that it
finds, and `CallsFit` shows it of each of the thirty-four functions, `clear` with its loop
included. After that the steps of `TLNext` are short (`ExecKeeps` … `FinishKeeps`).

The attempt corrected the model in one point: `Locked` in `TxLib`, and `release_locale_state`
in `ProcessState`, were a `CASE` whose guards overlap, whose value TLA+ leaves open although TLC
takes the first arm that applies. A queue whose `pop` asks for both locks came to it. Both are now
nested `IF`s.

Results: `LibraryInvariant`, `EntriesStayApart`, `LocalPartsEmptied`, `SizesCount`.

**Model-checked only.** Liveness (`EveryCallReturns`, `EveryOperationReturns`,
`EveryTransactionEnds`), which depends on fairness and on `ENABLED`, which TLAPS
does not reason about. The refinements of `RegularFile`, `Fildes` and `TxLib`, and
`SyncReachesDisk`: their mappings compute over event logs, so a proof would need induction
over sequences for each kind of event. `DescriptorTableIsConsistent`: its counters change in
each of the operators that stand for calls, and calls with several descriptors reference them
in a fold over a set.

## 5. What the models say about the code

### Where the code departs from what it says

*Failed recovery* (`TransactionRecovery`): an error of a roll-back in mode
`PICOTM_MODE_RECOVERY` is dropped, the log keeps its events, and the transaction that
the program then restarts fails `assert(log_is_empty(self))`. `PROJECT.json` quotes
what the documentation says.

*First `fstat`* (`RegularFileFstat.cfg`): `regfile_tx_op_fstat_exec` locks the size
(`regfile_tx.c:309`) and then asks `seekbuf_tx_get_file_size` for it, which takes the
lock as the sign that "we have already read the file size" (`seekbuf_tx.c:180`), and
returns the 0 of the set-up. The transaction sees an empty file, and seeks from the
end and appends start from 0.

*No memory for an event* (`FildesNoMemory.cfg`): `fchmod`, `pipe`, `mkstemp`, `open`
with `O_CREAT` and `uselocale` take effect first and log their event second. If that
fails, they return an error, the transaction rolls back, and the effect stays. The
documentation says, with a program that "runs out of memory" as its example, that
picotm "rolls back the transaction's effects" (`picotm.h:371–378`).

*Bounds* (`TxLibLowerBound.cfg`, `TxLibUpperBound.cfg`): the lower bound is the entry
before the first one with the key, unless that one is the least of the multiset; the
upper bound is the end if the key is absent, and the last entry with the key if there
is no larger one (`txmultiset_state.c:141–202`). The header documents "The first entry
with the given key on success, or the terminator entry otherwise" and "The first entry
with a key that is larger than the given key on success, or the terminator entry
otherwise" (`picotm-txmultiset.h:180`, `:193`).

### What a program must avoid

What follows was met while the modules were written. The models carry these
cases out, but only if `Risks` contains their names (section 2).

`VMem`:

* `"privatize after store"`: memory privatized after a store to the same block
  loses the store (`vmem_tx.c:361`, against `picotm-tm.h:321`).
* `"discard after store"`: memory privatized for discarding after changes in
  place is not restored by a roll-back.
* `"copy"`: `tm_vmem_tx_ldst` (`vmem_tx.c:327`) copies from the destination to the
  source.
* `"string after string"`: `tm_page_ld_c` looks for the terminator from the start
  of the block, finds that of an earlier string there and privatizes too little.

`RegularFile`:

* `"first fstat"`: see above. The calls of the run `RegularFile` reach `fstat` with a size that
  has been read or is 0.
* `"no memory"`: an `fchmod` whose event cannot be logged leaves the mode changed
  (`regfile_tx.c:178`).
* `"short read"`: a read that meets the end of the file moves the offset by what
  was asked for, not by what was read.
* `"hole"`: a write behind the end of the file, and the bytes between.
* `"unaligned"`: a region that begins within a record and ends in the next locks one
  record too few.
* `"other file"`: a `seekbuf_tx` that is used again for another file keeps the
  page of locks of the first (`lockpg`).
* `"two descriptions"`: the mode of a file is locked for each open file
  description although it belongs to the inode.

`StreamFiles`, `ProcessState` and `Fildes`:

* `"path call"`: `chmod`, `link`, `unlink`, `mkdir`, `mkfifo`, `mknod`, `stat`, `lstat` take
  effect at once, without a lock and without a way back.
* `"use after close"`: within the transaction a closed descriptor is still seen as
  open.
* `"open flags"`: `DO_UNLINK(mode)` (`fildes_tx.c:2379`) tests bits of the mode where
  flags are meant. A roll-back of an `open` with mode 0700 unlinks a file that
  was there before, and one with `O_CREAT|O_EXCL` and mode 0644 leaves a file.
* `"chrdev"`: the character device's buffer is always null; `write` and
  `F_GETLK` use it.
* `"socket"`: `get_sockbuf_tx` (`fildes_tx.c:562`) searches the list of active pipe
  buffers and returns a pointer to something else.
* `"full pipe"`: data that is written at the commit to a full non-blocking pipe is
  lost. With a blocking pipe the commit waits for a reader, which must be
  irrevocable and waits for the commit.
* `"two descriptions"`: as above, for directories.
* `"no memory"`: a call that takes effect and then fails to log its event leaves something
  behind: `pipe` two descriptors (`fildes_tx.c:2522`), `mkstemp` a descriptor, `open` the file that
  it has created or truncated, `fchmod` the mode (`dir_tx.c:139`), `uselocale` the thread's locale
  (`locale_tx.c:762`), and `newlocale` releases its base object.
* `"base object"`: `newlocale` with a base object makes the new object out of the base, and a
  roll-back releases it, so that the base is lost.

`SharedTables`:

* `"duplicate closed"`: an open file is identified by the descriptor that first
  had it. When a transaction closes that one and keeps a duplicate, the id is
  stale: the file's other users do not meet at it, although `fileid.h` promises that
  "Picotm constructs the id by querying the operating system for equality of
  the file descriptor's file".

`TxLib`:

* `"equal keys"`: a multiset may lose an entry or break its links when an equal
  key is inserted that is not its smallest one: of 2, 1, 2 one is lost
  (`picotm-txmultiset.h:121` allows equal keys).
* `"no memory"`: a call that logs several events and runs out of memory has made
  changes that no event undoes.
* `"bounds"`: see above. `AtomicObjects` answers with the bounds of
  `picotm-txmultiset.h:174–194`, and the run `TxLib` allows the calls for which the code does too.

`Numeric`:

* `"negative factor"`, `"small factor"`, `"negate"`: the macros `MUL_S`, `MUL_F`, `SUB_S` report
  errors for results that fit (2 · −3; 10 · 0.5) or none for results that do not
  (0 − the least value). All other operations and all casts are exact, which is proved.
* `"unsaved"`: some functions (the complex ones, `cbrt`, `rint`, …) neither save nor test
  the flags, although `picotm-libm.h` says that all do.
* `"two saves"`: a roll-back restores the environment first and the flags second,
  and flags that have been saved later than the environment win.

### Other traits

These are modelled as they are; no constant switches them on.

* *Transaction.* `picotm_tx_begin` compares the number of restarts with the limit for
  equality: the attempt *after* the limit, reached by `picotm_restart()`, is
  revocable again. An error of an irrevocable transaction in its execution phase is
  reported as recoverable, and the roll-back undoes events whose effects it
  cannot undo. A conflict that an event or a finish call-back reports during
  a commit makes picotm roll back what it has applied; this is why
  `EventsAreAllOrNothing` has a hypothesis.
* *Lock manager.* Owners have ten bits of index, the lock byte four: with
  `MAX_INDEX` smaller than the number of threads `NoAssertionFails` is violated at
  `assert(first_waiter)`. A leaving waiter takes `lo_rwlock` with its own mutex locked: with
  `WriterPreferring = TRUE` (a reader/writer lock of the C library that lets a
  waiting writer keep out readers) three threads wait for each other.
* *Descriptors.* `F_DUPFD` is refused by `fildes_tx_exec_fcntl`, but its wrappers never
  ask for it and call `dup` instead, without the third argument. The list
  of descriptors, files and buffers a transaction has used is never shortened,
  and a number is not used again in the transaction that closed it.
* *Regular files.* Records that were locked before a conflict within one region are
  not in the region's list and stay locked.
* *Process state.* `matherr_save_and_clear` (`libm/src/matherr.c:41`) returns
  before it has cleared the flags, so that a flag from before the transaction makes every later
  mathematical function fail. The lock on the locale's state is not given
  back by `locale_tx_finish`.

## 6. What could follow

* *Proofs.* `DescriptorTableIsConsistent` of `Fildes`; from `OrdersFit` of `TxLibProofs` the
  refinement of `AtomicObjects`, for the calls that do not answer with a position.
* *Instances.* `SharedObjects` with three threads and `LockManager` with four, to the end.
* *Composition.* `Transaction` drives the modules through call-backs that are
  single steps there; `Fildes`, `TxLib` and `VMem` have the same phases. One
  module that instantiates both sides could replace the correspondence that is
  now by reading.

## 7. Not modelled

* Failures of the `pthread` primitives, exhausted memory in the set-up of the
  thread-local state, and the wording of errors.
* The strategies of the lock manager other than the one `wake_up` selects, and
  the arithmetic on `struct timespec`: a wait is long or short.
* Memory ordering weaker than sequential consistency. The lock byte is one
  atomic object, whose modifications are totally ordered; it is accessed with
  acquire and acquire-release operations. The tree maps and tables use atomics with
  the same orders, and everything else in the models is protected by a mutex or by a lock.
* `dup2`, which is irrevocable and bypasses the table of descriptors; the wrappers of
  `stdio.h`, and those that end the process; the installation of signal
  handlers for the process (`sigstate.c`); the branches for files that write
  through, which no caller reaches.
* `ptrdata_tx.c` and the tree map of one thread, which are maps that a
  thread has for itself; lists, arrays, tables and the macros for shared, global and
  thread-local state, in whose place the models use sequences, functions and sets.
* In `find_fd_tx_with_ref` an error after the search releases a reference to a `file_tx` that has
  not been taken (`fildes_tx.c:1101`). The search holds the table's reader lock, which keeps
  away those who close descriptors, so only a failing primitive of a reference counter leads there.
* The size of the table of descriptors (`MAXNUMFD`), with which `search_by_id` in `fdtab.c` does not
  compare a descriptor.
* `fchmod` and `fstat` overwrite a conflict with an error from a stale `errno`; both roll back
  here. Undo call-backs of events that set `errno` after it has been restored.
* The second reference that a search in the tables of files and buffers takes and
  drops within one step of the model, and the wrap-around of 16-bit counters of
  references.
* `libpthread`, whose two functions have no effect; build files and tests.

`PROJECT.json` lists each part with its reason.
