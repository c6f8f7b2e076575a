-------------------------------- MODULE VMem --------------------------------
(***************************************************************************)
(* The transactional memory module, modules/tm/src: vmem_tx.c with the     *)
(* pages (page.c) through which a transaction sees the blocks of the       *)
(* shared memory, and the frames (frame.c, framemap.c) that hold the       *)
(* blocks' locks.                                                          *)
(*                                                                         *)
(* A call works through its range of addresses page by page, and each page *)
(* is a step: find the page, lock its frame, load what is missing, copy.   *)
(* Between the lock and the copy no other transaction can touch the block. *)
(* The lock is granted as RWLock grants it, or refused, which it may be at *)
(* any time because others wait; the transaction then rolls back.  Commit  *)
(* and roll-back work through the pages in the order of their blocks.      *)
(*                                                                         *)
(* In write-back mode a page's buffer holds the transaction's values, and  *)
(* the commit stores them.  In write-through mode, which privatization     *)
(* turns on, the program works on the memory itself, and the buffer holds  *)
(* what the roll-back restores.                                            *)
(*                                                                         *)
(* Failing allocations end like a refused lock.                            *)
(***************************************************************************)
EXTENDS Integers, FiniteSets

LOCAL INSTANCE Functions

CONSTANTS
    Threads,
    BLOCK_SIZE,     \* TM_BLOCK_SIZE; 8 in the code
    NBLOCKS,        \* bound: number of blocks of the shared memory
    Values,         \* what a byte may be
    Initially,      \* bound: the contents of the memory at the start
    Ranges,         \* bound: the ranges <<address, size>> of the calls
    Terminator,     \* the character c of privatize_c_tx
    Starts,         \* bound: where the strings of privatize_c_tx begin
    FlagSets,       \* bound: the flags that privatizations ask for
    MAX_TX,         \* bound: transactions of each thread
    MAX_CALLS,      \* bound: calls of the transactions that run at a time
    Risks           \* what the program does although it does not work

(* Sequences of calls that break atomicity.  What they do is modelled, but *)
(* only programs whose Risks say so make use of them.                      *)
KnownRisks == {"privatize after store", "discard after store",
               "copy", "string after string"}

Addresses == 0 .. NBLOCKS * BLOCK_SIZE - 1
Blocks == 0 .. NBLOCKS - 1
tm_block_index_at(a) == a \div BLOCK_SIZE
Bytes(b) == {a \in Addresses : tm_block_index_at(a) = b}
Span(r) == r[1] .. r[1] + r[2] - 1

ASSUME BlockAssumption == {BLOCK_SIZE, NBLOCKS} \subseteq Nat \ {0}
ASSUME InitiallyAssumption == Initially \subseteq [Addresses -> Values]
ASSUME RangesAssumption ==
    \A r \in Ranges : r \in Addresses \X (Nat \ {0}) /\ Span(r) \subseteq Addresses
ASSUME StringsAssumption == Terminator \in Values /\ Starts \subseteq Addresses
ASSUME FlagsAssumption == FlagSets \subseteq SUBSET {"LOAD", "STORE"}
ASSUME BoundsAssumption == {MAX_TX, MAX_CALLS} \subseteq Nat
ASSUME RisksAssumption == Risks \subseteq KnownRisks

VARIABLES
    memory,     \* the memory that all threads share
    pages,      \* each transaction's page of each block
    phase,      \* where each transaction is
    started,    \* transactions started by each thread
    job,        \* the call it is in, with what is left of its range
    pos,        \* the block that a walk over the pages has reached
    calls,      \* calls made by this transaction
    loadable,   \* what the program may read in place
    storable,   \* what it may write in place
    seen,       \* history: the values the transaction has been shown
    stored      \* history: the values it has stored

pageVars == <<memory, pages>>
inPlace == <<loadable, storable>>
history == <<seen, stored>>
vmVars == <<memory, pages, phase, started, job, pos, calls, inPlace, history>>

Statuses == {"UNLOCKED", "RDLOCKED", "WRLOCKED"}
Nothing == [a \in {} |-> 0]

(* The contents f, and g where f says nothing.                             *)
Over(f, g) ==
    [a \in DOMAIN f \cup DOMAIN g |-> IF a \in DOMAIN f THEN f[a] ELSE g[a]]

(* A page: the status of its rwstate, its two flags, and the valid bytes   *)
(* of its buffer; their addresses are the bits of buf_bits.                *)
tm_page_init == [lock |-> "UNLOCKED", through |-> FALSE,
                 discarded |-> FALSE, buf |-> Nothing]

NoJob == [op |-> "none", addr |-> 0, siz |-> 0, arg |-> 0]
Ops == {"none", "ld", "st", "ldst", "privatize", "privatize_c"}

VMTypeOK ==
    /\ memory \in [Addresses -> Values]
    /\ \A t \in Threads, b \in Blocks :
          LET p == pages[t][b]
          IN  /\ p.lock \in Statuses
              /\ {p.through, p.discarded} \subseteq BOOLEAN
              /\ DOMAIN p.buf \subseteq Bytes(b)
              /\ \A a \in DOMAIN p.buf : p.buf[a] \in Values
    /\ phase \in [Threads -> {"out", "run", "apply", "undo", "finish"}]
    /\ started \in [Threads -> 0 .. MAX_TX]
    /\ \A t \in Threads : job[t].op \in Ops /\ job[t].siz \in Nat
    /\ pos \in [Threads -> 0 .. NBLOCKS]
    /\ calls \in [Threads -> Nat]
    /\ \A t \in Threads : loadable[t] \cup storable[t] \subseteq Addresses
    /\ \A t \in Threads : DOMAIN stored[t] \subseteq DOMAIN seen[t]

VMInit ==
    /\ memory \in Initially
    /\ pages = [t \in Threads |-> [b \in Blocks |-> tm_page_init]]
    /\ phase = [t \in Threads |-> "out"]
    /\ started = [t \in Threads |-> 0]
    /\ job = [t \in Threads |-> NoJob]
    /\ pos = [t \in Threads |-> 0]
    /\ calls = [t \in Threads |-> 0]
    /\ loadable = [t \in Threads |-> {}]
    /\ storable = [t \in Threads |-> {}]
    /\ seen = [t \in Threads |-> Nothing]
    /\ stored = [t \in Threads |-> Nothing]

-----------------------------------------------------------------------------
(* Pages and frames.                                                       *)

(* tm_page_try_rdlock_frame; a page that has a lock keeps it.              *)
Readable(t, b) ==
    \/ pages[t][b].lock # "UNLOCKED"
    \/ \A u \in Threads \ {t} : pages[u][b].lock # "WRLOCKED"

Rdlocked(p) == [p EXCEPT !.lock = IF @ = "UNLOCKED" THEN "RDLOCKED" ELSE @]

(* tm_page_try_wrlock_frame, which upgrades the lock of a single reader.   *)
Writable(t, b) == \A u \in Threads \ {t} : pages[u][b].lock = "UNLOCKED"
Wrlocked(p) == [p EXCEPT !.lock = "WRLOCKED"]

(* tm_page_ld copies the bytes of S that the buffer does not have.         *)
tm_page_ld(p, S) == [p EXCEPT !.buf = Over(@, [a \in S |-> memory[a]])]

(* Where the transaction finds its value of address a.                     *)
tm_page_buffer(p, a) == IF p.through THEN memory[a] ELSE p.buf[a]

(* The memory and the page after values f have been copied into what       *)
(* tm_page_buffer returns.                                                 *)
CopyIntoBuffer(t, b, p, f) ==
    IF p.through
    THEN /\ memory' = Over(f, memory)
         /\ pages' = [pages EXCEPT ![t][b] = p]
    ELSE /\ pages' = [pages EXCEPT ![t][b] = [p EXCEPT !.buf = Over(f, @)]]
         /\ UNCHANGED memory

(* tm_page_st copies the valid bytes of the buffer into the memory.        *)
tm_page_st(p) == memory' = Over(p.buf, memory)

-----------------------------------------------------------------------------
(* Calls.                                                                  *)

Busy(t, op) == phase[t] = "run" /\ job[t].op = op
Block(t) == tm_block_index_at(job[t].addr)

(* The bytes that the current iteration works on; copy_bits.               *)
Part(t) ==
    {a \in Bytes(Block(t)) :
        a >= job[t].addr /\ a < job[t].addr + job[t].siz}

(* The calls of all transactions that run.                                 *)
CallsMade == SumFunction(calls)

Call(t, op, r, arg) ==
    /\ Busy(t, "none")
    /\ CallsMade < MAX_CALLS
    /\ calls' = [calls EXCEPT ![t] = @ + 1]
    /\ job' = [job EXCEPT ![t] =
           [op |-> op, addr |-> r[1], siz |-> r[2], arg |-> arg]]
    /\ UNCHANGED <<pageVars, phase, pos, inPlace, history>>

(* What is left of call j after an iteration that has done n bytes.        *)
Rest(j, n) ==
    IF j.siz = n THEN NoJob ELSE [j EXCEPT !.addr = @ + n, !.siz = @ - n]

Advance(t, n) ==
    /\ job' = [job EXCEPT ![t] = Rest(@, n)]
    /\ UNCHANGED <<phase, pos, calls>>

Show(t, f) == seen' = [seen EXCEPT ![t] = Over(f, @)]

__picotm_tm_load(t) == \E r \in Ranges : Call(t, "ld", r, 0)

tm_vmem_tx_ld(t) ==
    /\ Busy(t, "ld")
    /\ LET b == Block(t)
           S == Part(t)
           p == tm_page_ld(Rdlocked(pages[t][b]), S)
       IN  /\ ~p.discarded
           /\ Readable(t, b)
           /\ pages' = [pages EXCEPT ![t][b] = p]
           /\ Show(t, [a \in S |-> tm_page_buffer(p, a)])
           /\ Advance(t, Cardinality(S))
    /\ UNCHANGED <<memory, inPlace, stored>>

__picotm_tm_store(t) ==
    \E r \in Ranges, v \in Values : Call(t, "st", r, v)

(* prepare_page_st: loading marks the bytes, and in write-through mode     *)
(* saves them.                                                             *)
prepare_page_st(p, S) == tm_page_ld(Wrlocked(p), S)

tm_vmem_tx_st(t) ==
    /\ Busy(t, "st")
    /\ LET b == Block(t)
           S == Part(t)
           p == prepare_page_st(pages[t][b], S)
           f == [a \in S |-> job[t].arg]
       IN  /\ ~p.discarded
           /\ Writable(t, b)
           /\ CopyIntoBuffer(t, b, p, f)
           /\ Show(t, f)
           /\ stored' = [stored EXCEPT ![t] = Over(f, @)]
           /\ Advance(t, Cardinality(S))
    /\ UNCHANGED inPlace

(* loadstore_tx(laddr, saddr, siz).  Ranges that lie differently in their  *)
(* blocks are left out: there the code reads beyond a page's buffer.       *)
__picotm_tm_loadstore(t) ==
    \E r \in Ranges, s \in Addresses :
        /\ s + r[2] - 1 \in Addresses
        /\ s % BLOCK_SIZE = r[1] % BLOCK_SIZE
        /\ s # r[1] => "copy" \in Risks
        /\ Call(t, "ldst", r, s - r[1])

(* The copy goes from the page at saddr to the page at laddr.  To the      *)
(* program it is a copy from laddr to saddr.                               *)
tm_vmem_tx_ldst(t) ==
    /\ Busy(t, "ldst")
    /\ LET b == Block(t)
           d == job[t].arg
           S == Part(t)
           D == {a + d : a \in S}
           c == tm_block_index_at(job[t].addr + d)
           lp == tm_page_ld(Rdlocked(pages[t][b]), S)
           sp == prepare_page_st(IF b = c THEN lp ELSE pages[t][c], D)
           shown == [a \in S |-> tm_page_buffer(lp, a)]
           copy == [a \in D |-> shown[a - d]]
           f == [a \in S |-> tm_page_buffer(sp, a + d)]
       IN  /\ ~lp.discarded /\ ~sp.discarded
           /\ Readable(t, b) /\ Writable(t, c)
           /\ IF b = c THEN CopyIntoBuffer(t, b, sp, f)
              ELSE IF lp.through
                   THEN /\ memory' = Over(f, memory)
                        /\ pages' = [pages EXCEPT ![t][b] = lp, ![t][c] = sp]
                   ELSE /\ pages' = [pages EXCEPT ![t][c] = sp,
                               ![t][b] = [lp EXCEPT !.buf = Over(f, @)]]
                        /\ UNCHANGED memory
           /\ Show(t, Over(copy, shown))
           /\ stored' = [stored EXCEPT ![t] = Over(copy, @)]
           /\ Advance(t, Cardinality(S))
    /\ UNCHANGED inPlace

-----------------------------------------------------------------------------
(* Privatization.                                                          *)

(* The transaction has stored to some of the blocks, in write-back mode.   *)
Buffered(t, bs) ==
    \E b \in bs : ~pages[t][b].through /\ DOMAIN stored[t] \cap Bytes(b) # {}

(* The transaction has stored to some of the blocks, in write-through mode.*)
Modified(t, bs) ==
    \E b \in bs : pages[t][b].through /\ DOMAIN stored[t] \cap Bytes(b) # {}

(* Without flags the region is discarded; programs discard what they free, *)
(* which are whole blocks.                                                 *)
__picotm_tm_privatize(t) ==
    \E r \in Ranges, flags \in FlagSets :
        LET bs == {tm_block_index_at(a) : a \in Span(r)}
        IN  /\ IF flags = {}
               THEN /\ UNION {Bytes(b) : b \in bs} = Span(r)
                    /\ Modified(t, bs) => "discard after store" \in Risks
               ELSE Buffered(t, bs) => "privatize after store" \in Risks
            /\ Call(t, "privatize", r, flags)

(* Mutants: the flag for loading is tested first; the block is not saved.  *)
MutPrivatizeOrder(p, S, flags) ==
    IF flags = {} THEN [Wrlocked(p) EXCEPT !.discarded = TRUE]
    ELSE LET q == IF "LOAD" \in flags THEN Rdlocked(p) ELSE Wrlocked(p)
         IN  [tm_page_ld(q, S) EXCEPT !.through = TRUE]

MutPrivatizeUnsaved(p, S, flags) ==
    IF flags = {} THEN [Wrlocked(p) EXCEPT !.discarded = TRUE]
    ELSE [IF "STORE" \in flags THEN Wrlocked(p) ELSE Rdlocked(p)
             EXCEPT !.through = TRUE]

prepare_page_privatize(p, S, flags) ==
    IF flags = {}
    THEN [Wrlocked(p) EXCEPT !.discarded = TRUE]
    ELSE LET q == IF "STORE" \in flags THEN Wrlocked(p) ELSE Rdlocked(p)
         IN  [tm_page_ld(q, S) EXCEPT !.through = TRUE]

(* What the program may do in place from now on.                           *)
Grant(t, S, flags) ==
    /\ loadable' = [loadable EXCEPT ![t] =
           IF "LOAD" \in flags THEN @ \cup S ELSE @]
    /\ storable' = [storable EXCEPT ![t] =
           IF "STORE" \in flags THEN @ \cup S ELSE @]

Lockable(t, b, flags) ==
    IF flags = {"LOAD"} THEN Readable(t, b) ELSE Writable(t, b)

tm_vmem_tx_privatize(t) ==
    /\ Busy(t, "privatize")
    /\ LET b == Block(t)
           S == Part(t)
           flags == job[t].arg
           p == pages[t][b]
       IN  /\ ~p.discarded
           /\ Lockable(t, b, flags)
           /\ pages' = [pages EXCEPT
                  ![t][b] = prepare_page_privatize(p, S, flags)]
           /\ IF flags = {}
              THEN /\ loadable' = [loadable EXCEPT ![t] = @ \ Bytes(b)]
                   /\ storable' = [storable EXCEPT ![t] = @ \ Bytes(b)]
                   /\ stored' = [stored EXCEPT ![t] =
                         IF p.through THEN @
                         ELSE [a \in DOMAIN @ \ Bytes(b) |-> @[a]]]
              ELSE Grant(t, S, flags) /\ UNCHANGED stored
           /\ Advance(t, Cardinality(S))
    /\ UNCHANGED <<memory, seen>>

(* privatize_c_tx: the region ends with the first terminator.              *)
Valid(p, S) == DOMAIN p.buf \cup S
Terminators(S) == {a \in S : memory[a] = Terminator}
Upto(S, E) == {a \in S : \A e \in E : a <= e}

__picotm_tm_privatize_c(t) ==
    \E a \in Starts, flags \in FlagSets \ {{}} :
        LET b == tm_block_index_at(a)
        IN  /\ Terminators({x \in Addresses : x >= a}) # {}
            /\ Buffered(t, b .. NBLOCKS - 1)
                  => "privatize after store" \in Risks
            /\ Terminators({x \in DOMAIN pages[t][b].buf : x < a}) # {}
                  => "string after string" \in Risks
            /\ Call(t, "privatize_c",
                    <<a, NBLOCKS * BLOCK_SIZE - a>>, flags)

(* tm_page_ld_c looks for the terminator from the beginning of the block,  *)
(* in all bytes that are valid by then.                                    *)
tm_page_ld_c(p, S) ==
    LET E == Terminators(Valid(p, S))
        L == Upto(S \ DOMAIN p.buf, E)
    IN  [page |-> tm_page_ld(p, L), found_c |-> E # {}]

(* The string that the program finds at address a.                         *)
String(a) ==
    LET Behind == {x \in Addresses : x >= a}
    IN  Upto(Behind, Terminators(Behind))

(* Once the terminator has been found, the program uses the whole string.  *)
tm_vmem_tx_privatize_c(t) ==
    /\ Busy(t, "privatize_c")
    /\ LET b == Block(t)
           S == Part(t)
           flags == job[t].arg
           p == pages[t][b]
           q == tm_page_ld_c(IF "STORE" \in flags THEN Wrlocked(p)
                                                  ELSE Rdlocked(p), S)
       IN  /\ ~p.discarded
           /\ Lockable(t, b, flags)
           /\ pages' = [pages EXCEPT
                  ![t][b] = [q.page EXCEPT !.through = TRUE]]
           /\ Grant(t, IF q.found_c THEN String(job[t].addr) ELSE S, flags)
           /\ Advance(t, IF q.found_c THEN job[t].siz ELSE Cardinality(S))
    /\ UNCHANGED <<memory, history>>

(* The program reads and writes what it has privatized, all of it at once. *)
ReadInPlace(t) ==
    /\ Busy(t, "none")
    /\ Show(t, [a \in loadable[t] |-> memory[a]])
    /\ UNCHANGED <<pageVars, phase, job, pos, calls, inPlace, stored>>

WriteInPlace(t) ==
    /\ Busy(t, "none")
    /\ \E v \in Values :
          LET f == [a \in storable[t] |-> v]
          IN  /\ memory' = Over(f, memory)
              /\ Show(t, f)
              /\ stored' = [stored EXCEPT ![t] = Over(f, @)]
    /\ UNCHANGED <<pages, phase, job, pos, calls, inPlace>>

-----------------------------------------------------------------------------
(* The transaction's way to its end.                                       *)

Begin(t) ==
    /\ phase[t] = "out"
    /\ started[t] < MAX_TX
    /\ started' = [started EXCEPT ![t] = @ + 1]
    /\ phase' = [phase EXCEPT ![t] = "run"]
    /\ UNCHANGED <<pageVars, job, pos, calls, inPlace, history>>

(* The execution phase is over: the transaction applies or undoes its      *)
(* pages, from the first to the last.                                      *)
Leave(t, p) ==
    /\ phase' = [phase EXCEPT ![t] = p]
    /\ job' = [job EXCEPT ![t] = NoJob]
    /\ pos' = [pos EXCEPT ![t] = 0]
    /\ calls' = [calls EXCEPT ![t] = 0]
    /\ loadable' = [loadable EXCEPT ![t] = {}]
    /\ storable' = [storable EXCEPT ![t] = {}]
    /\ seen' = [seen EXCEPT ![t] = Nothing]
    /\ stored' = [stored EXCEPT ![t] = Nothing]
    /\ UNCHANGED pageVars

Commit(t) == Busy(t, "none") /\ Leave(t, "apply")

(* A lock was refused, a page is discarded, memory ran out, or another     *)
(* module or the program gives up.                                         *)
Rollback(t) == phase[t] = "run" /\ Leave(t, "undo")

Walking(t, p) == phase[t] = p /\ pos[t] < NBLOCKS

NextPage(t) ==
    /\ pos' = [pos EXCEPT ![t] = @ + 1]
    /\ UNCHANGED <<phase, job, calls, inPlace, history>>

(* Mutant: write-through pages are stored as well.                         *)
MutApplies(p) == p.lock = "WRLOCKED" /\ ~p.discarded

Applies(p) == p.lock = "WRLOCKED" /\ ~p.through /\ ~p.discarded
Undoes(p) == p.lock = "WRLOCKED" /\ p.through /\ ~p.discarded

apply_page(t) ==
    /\ Walking(t, "apply")
    /\ LET p == pages[t][pos[t]]
       IN  IF Applies(p) THEN tm_page_st(p) ELSE UNCHANGED memory
    /\ NextPage(t)
    /\ UNCHANGED pages

undo_page(t) ==
    /\ Walking(t, "undo")
    /\ LET p == pages[t][pos[t]]
       IN  IF Undoes(p) THEN tm_page_st(p) ELSE UNCHANGED memory
    /\ NextPage(t)
    /\ UNCHANGED pages

(* finish_page gives the frame's lock back; the page is free.              *)
finish_page(t) ==
    /\ Walking(t, "finish")
    /\ pages' = [pages EXCEPT ![t][pos[t]] = tm_page_init]
    /\ NextPage(t)
    /\ UNCHANGED memory

(* A walk over the pages is done.                                          *)
Walked(t) ==
    /\ phase[t] \in {"apply", "undo", "finish"}
    /\ pos[t] = NBLOCKS
    /\ phase' = [phase EXCEPT ![t] = IF @ = "finish" THEN "out" ELSE "finish"]
    /\ pos' = [pos EXCEPT ![t] = 0]
    /\ UNCHANGED <<pageVars, job, calls, inPlace, history>>

VMStep(t) ==
    \/ tm_vmem_tx_ld(t)
    \/ tm_vmem_tx_st(t)
    \/ tm_vmem_tx_ldst(t)
    \/ tm_vmem_tx_privatize(t)
    \/ tm_vmem_tx_privatize_c(t)
    \/ apply_page(t)
    \/ undo_page(t)
    \/ finish_page(t)
    \/ Walked(t)

ProgramStep(t) ==
    \/ __picotm_tm_load(t)
    \/ __picotm_tm_store(t)
    \/ __picotm_tm_loadstore(t)
    \/ __picotm_tm_privatize(t)
    \/ __picotm_tm_privatize_c(t)
    \/ ReadInPlace(t)
    \/ WriteInPlace(t)
    \/ Commit(t)
    \/ Rollback(t)

VMNext ==
    \E t \in Threads :
        \/ Begin(t)
        \/ (VMStep(t) \/ ProgramStep(t)) /\ UNCHANGED started

VMSpec == VMInit /\ [][VMNext]_vmVars

-----------------------------------------------------------------------------
(* The transaction's page of the block in which address a lies.            *)
Page(t, a) == pages[t][tm_block_index_at(a)]

(* Two-phase locking: until the transaction ends, it holds the lock of     *)
(* every block from which it has been shown a value or may read in place,  *)
(* and the writer lock of every block that it has changed or may change.   *)
AccessesAreLocked ==
    VMTypeOK /\ \A t \in Threads :
        /\ \A a \in DOMAIN seen[t] \cup loadable[t] :
              Page(t, a).lock # "UNLOCKED"
        /\ \A a \in DOMAIN stored[t] \cup storable[t] :
              Page(t, a).lock = "WRLOCKED"

(* What is changed in place can be restored: the old value of every such   *)
(* byte has been saved in its page's buffer, which no later call forgets.  *)
UndoCanRestore ==
    \A t \in Threads : \A a \in DOMAIN stored[t] \cup storable[t] :
        Page(t, a).through => a \in DOMAIN Page(t, a).buf

(* The buffer of a writer's page holds the new value of a committing       *)
(* transaction and, in write-through mode, the old value of any other one. *)
Keeps(t, a) ==
    LET p == Page(t, a)
    IN  /\ p.lock = "WRLOCKED"
        /\ a \in DOMAIN p.buf
        /\ IF p.through THEN phase[t] \in {"run", "undo"}
                        ELSE phase[t] = "apply" /\ ~p.discarded

(* The memory as the committed transactions have left it.                  *)
CommittedMemory ==
    [a \in Addresses |->
        IF \E t \in Threads : Keeps(t, a)
        THEN Page(CHOOSE t \in Threads : Keeps(t, a), a).buf[a]
        ELSE memory[a]]

(* Atomicity and isolation: whatever mixture of buffered stores, in-place  *)
(* changes and privatizations, transactions behave as if their stores took *)
(* effect at once at the commit, or never.                                 *)
Promise == INSTANCE TransactionalMemory WITH
    mem <- CommittedMemory, view <- seen, writes <- stored

ImplementsTransactionalMemory == Promise!TMSpec
=============================================================================
