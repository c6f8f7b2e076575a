---------------------------- MODULE ProcessState -----------------------------
(***************************************************************************)
(* The rest of the state that modules/libc and modules/libm put under      *)
(* transactional control: the current working directory (cwd_tx.c), the    *)
(* locale (locale_tx.c), the heap (allocator_tx.c), errno (error_tx.c),    *)
(* the floating-point environment (fpu_tx.c) and signals (signal_tx.c).    *)
(*                                                                         *)
(* Calls are records as in StreamFiles.  Directory and locale are changed  *)
(* at once under locks and set back by a roll-back; what is allocated is   *)
(* released by a roll-back, and what is released is so by the commit;      *)
(* errno and the flags of the floating-point unit belong to the thread and *)
(* are saved before their first use.                                       *)
(***************************************************************************)
EXTENDS StreamFiles

LOCAL INSTANCE SequencesExt
LOCAL INSTANCE FiniteSetsExt

CONSTANTS
    Blocks,         \* memory that the allocator can hand out
    LocaleObjects   \* and the locale objects

Categories == {"LC_COLLATE", "LC_CTYPE", "LC_MESSAGES", "LC_MONETARY", "LC_NUMERIC", "LC_TIME"}

(* The order in which LC_ALL takes the locks.                              *)
LC_ALL == <<"LC_COLLATE", "LC_CTYPE", "LC_MESSAGES", "LC_MONETARY", "LC_NUMERIC", "LC_TIME">>

ProcessFields == {<<"cwd">>} \cup {"locale"} \X Categories
                 \cup {"locale state", "locale object"} \X (LocaleObjects \cup {NULL})

CwdOps == {"chdir", "getcwd", "realpath"}
LocaleOps == {"duplocale", "freelocale", "newlocale", "setlocale", "uselocale"}
AllocatorOps == {"free", "malloc", "posix_memalign"}

ProcessCells == {<<"cwd">>} \cup {"locale"} \X Categories
                \cup {"locale object"} \X LocaleObjects \cup {"heap"} \X Blocks
                \cup {"uselocale", "errno", "fexcept"} \X Threads

(* os.left[l] is the lock of locale object l that transactions have not    *)
(* given back; the fexcept of a thread tells whether a flag is raised.     *)
ProcessInit ==
    [cwd |-> NULL, locale |-> [x \in Categories |-> "C"],
     objects |-> {}, left |-> [l \in LocaleObjects \cup {NULL} |-> "UNLOCKED"],
     uselocale |-> [t \in Threads |-> NULL], heap |-> {},
     errno |-> [t \in Threads |-> 1], fexcept |-> [t \in Threads |-> FALSE]]

Change(v, cell, value) == [v EXCEPT !.changed = (cell :> value) @@ @]
Show(v, cell, value) == [v EXCEPT !.shown = @ @@ (cell :> value)]

-----------------------------------------------------------------------------
(* The current working directory.                                          *)

cwd_tx_try_rdlock_field == <<Request(<<"cwd">>, "RDLOCKED")>>
cwd_tx_try_wrlock_field == <<Request(<<"cwd">>, "WRLOCKED")>>

cwd_log_append(v, op, cwd) == [v EXCEPT !.event = [op |-> op, fd |-> NULL, cookie |-> cwd]]

cwd_tx_chdir_exec(t, dir) ==
    LET v == [Call(t) EXCEPT !.requests = cwd_tx_try_wrlock_field, !.os.cwd = dir]
    IN  Change(cwd_log_append(v, "chdir", os.cwd), <<"cwd">>, dir)

cwd_tx_getcwd_exec(t) ==
    LET v == [Call(t) EXCEPT !.requests = cwd_tx_try_rdlock_field]
    IN  Show(cwd_log_append(v, "getcwd", os.cwd), <<"cwd">>, os.cwd)

cwd_tx_realpath_exec(t) ==
    LET v == [Call(t) EXCEPT !.requests = cwd_tx_try_rdlock_field]
    IN  Show(cwd_log_append(v, "realpath", os.cwd), <<"cwd">>, os.cwd)

undo_chdir(s, e) == [s EXCEPT !.cwd = e.cookie]

cwd_tx_undo_event(s, e) == IF e.op = "chdir" THEN undo_chdir(s, e) ELSE s

-----------------------------------------------------------------------------
(* The locale of the process.                                              *)

locale_tx_try_rdlock_field == [x \in Categories |-> Request(<<"locale", x>>, "RDLOCKED")]
locale_tx_try_wrlock_field == [x \in Categories |-> Request(<<"locale", x>>, "WRLOCKED")]

try_lock_locale_fields_by_category(category, try_lock) ==
    IF category = "LC_ALL" THEN [k \in DOMAIN LC_ALL |-> try_lock[LC_ALL[k]]]
                           ELSE <<try_lock[category]>>

Covers(category) == IF category = "LC_ALL" THEN Categories ELSE {category}

locale_log_append(v, op, category, old) ==
    [v EXCEPT !.event = [op |-> op, fd |-> category, cookie |-> old]]

(* What setlocale() returns for the categories.                            *)
Locales(category) == [x \in Covers(category) |-> os.locale[x]]
LocaleCells(category, locale) ==
    [c \in {"locale"} \X Covers(category) |-> locale[c[2]]]

locale_tx_localeconv_exec(t) ==
    [Call(t) EXCEPT
        !.requests = try_lock_locale_fields_by_category("LC_ALL", locale_tx_try_rdlock_field),
        !.shown = LocaleCells("LC_ALL", os.locale)]

setlocale_rd_exec(t, category) ==
    LET v == [Call(t) EXCEPT
                 !.requests = try_lock_locale_fields_by_category(
                                  category, locale_tx_try_rdlock_field),
                 !.shown = LocaleCells(category, os.locale)]
    IN  locale_log_append(v, "setlocale", category, Locales(category))

setlocale_wr_exec(t, category, locale) ==
    LET new == [x \in Categories |-> IF x \in Covers(category) THEN locale ELSE os.locale[x]]
        v == [Call(t) EXCEPT
                 !.requests = try_lock_locale_fields_by_category(
                                  category, locale_tx_try_wrlock_field),
                 !.os.locale = new,
                 !.changed = LocaleCells(category, new)]
    IN  locale_log_append(v, "setlocale", category, Locales(category))

locale_tx_setlocale_exec(t, category, locale) ==
    IF locale = NULL THEN setlocale_rd_exec(t, category)
                     ELSE setlocale_wr_exec(t, category, locale)

undo_setlocale(s, e) ==
    [s EXCEPT !.locale = [x \in Categories |-> IF x \in DOMAIN e.cookie THEN e.cookie[x]
                                               ELSE @[x]]]

-----------------------------------------------------------------------------
(* Locale objects.  Each has a state with a lock while some transaction    *)
(* refers to it; the lock is not given back before the state is gone.      *)

acquire_locale_state_tx(l) == <<Request(<<"locale state", l>>, "RDLOCKED")>>
locale_state_try_rdlock(l) ==
    acquire_locale_state_tx(l) \o <<Request(<<"locale object", l>>, "RDLOCKED")>>
locale_state_try_wrlock(l) ==
    acquire_locale_state_tx(l) \o <<Request(<<"locale object", l>>, "WRLOCKED")>>

(* The locale objects that t refers to.                                    *)
locales(t) == {l \in LocaleObjects \cup {NULL} : tx[t].rwstate[<<"locale state", l>>] # "UNLOCKED"}
ref_count(l) == Cardinality({t \in Threads : l \in locales(t)})

release_locale_state(t, l) ==
    IF ref_count(l) = 1 THEN "UNLOCKED"
    ELSE LET Locks == {os.left[l], tx[t].rwstate[<<"locale object", l>>]}
         IN  IF "WRLOCKED" \in Locks THEN "WRLOCKED"
             ELSE IF "RDLOCKED" \in Locks THEN "RDLOCKED" ELSE "UNLOCKED"

release_locale_states(t) ==
    [os EXCEPT !.left = [l \in DOMAIN @ |->
        IF l \in locales(t) THEN release_locale_state(t, l) ELSE @[l]]]

(* The lock of field x that is still taken from earlier transactions.      *)
LeftLocked(x) == IF x[1] = "locale object" THEN os.left[x[2]] ELSE "UNLOCKED"

FreeObjects == LocaleObjects \ os.objects
NewObject == CHOOSE l \in FreeObjects : TRUE

Made(v, op, result) ==
    Change(locale_log_append([v EXCEPT !.os.objects = @ \cup {result}], op, NULL, result),
           <<"locale object", result>>, TRUE)

NewlyMade(v, op) ==
    IF FreeObjects = {} THEN [v EXCEPT !.fails = TRUE] ELSE Made(v, op, NewObject)

locale_tx_duplocale_exec(t, l) ==
    Show(NewlyMade([Call(t) EXCEPT !.requests = locale_state_try_wrlock(l),
                                   !.allowed = l \in os.objects],
                   "duplocale"),
         <<"locale object", l>>, TRUE)

(* The system makes the new object out of the base object, if there is     *)
(* one, and a roll-back releases it.                                       *)
locale_tx_newlocale_exec(t, base) ==
    LET v == [Call(t) EXCEPT !.requests = locale_state_try_wrlock(base),
                             !.allowed = \/ base = NULL
                                         \/ base \in os.objects /\ "base object" \in Risks]
    IN  IF base = NULL THEN NewlyMade(v, "newlocale")
        ELSE Show(Made(v, "newlocale", base), <<"locale object", base>>, TRUE)

locale_tx_freelocale_exec(t, l) ==
    Change(locale_log_append([Call(t) EXCEPT !.requests = locale_state_try_wrlock(l),
                                             !.allowed = l \in os.objects],
                             "freelocale", NULL, l),
           <<"locale object", l>>, FALSE)

(* The locale of the thread.                                               *)
uselocale_rd_exec(t) == Show(Call(t), <<"uselocale", t>>, os.uselocale[t])

uselocale_wr_exec(t, l) ==
    LET v == [Call(t) EXCEPT !.requests = locale_state_try_rdlock(l),
                             !.allowed = l \in os.objects,
                             !.os.uselocale[t] = l]
    IN  Show(Change(locale_log_append(v, "uselocale", NULL, os.uselocale[t]),
                    <<"uselocale", t>>, l),
             <<"locale object", l>>, TRUE)

locale_tx_uselocale_exec(t, l) ==
    IF l = NULL THEN uselocale_rd_exec(t) ELSE uselocale_wr_exec(t, l)

undo_newlocale(s, e) == [s EXCEPT !.objects = @ \ {e.cookie}]
undo_duplocale(s, e) == undo_newlocale(s, e)
undo_uselocale(s, t, e) == [s EXCEPT !.uselocale[t] = e.cookie]
apply_freelocale(s, e) == [s EXCEPT !.objects = @ \ {e.cookie}]

locale_tx_apply_event(s, e) == IF e.op = "freelocale" THEN apply_freelocale(s, e) ELSE s

locale_tx_undo_event(s, t, e) ==
    CASE e.op = "duplocale" -> undo_duplocale(s, e)
      [] e.op = "newlocale" -> undo_newlocale(s, e)
      [] e.op = "setlocale" -> undo_setlocale(s, e)
      [] e.op = "uselocale" -> undo_uselocale(s, t, e)
      [] OTHER -> s

-----------------------------------------------------------------------------
(* The heap.                                                               *)

allocator_log_append(v, op, b) == [v EXCEPT !.event = [op |-> op, fd |-> NULL, cookie |-> b]]

FreeBlocks == Blocks \ os.heap

Allocation(t, op) ==
    LET b == CHOOSE x \in FreeBlocks : TRUE
    IN  IF FreeBlocks = {} THEN [Call(t) EXCEPT !.fails = TRUE]
        ELSE Change(allocator_log_append([Call(t) EXCEPT !.os.heap = @ \cup {b}], op, b),
                    <<"heap", b>>, TRUE)

allocator_tx_exec_malloc(t) == Allocation(t, "malloc")
allocator_tx_exec_posix_memalign(t) == Allocation(t, "posix_memalign")

allocator_tx_exec_free(t, b) ==
    Change(allocator_log_append([Call(t) EXCEPT !.allowed = b \in os.heap], "free", b),
           <<"heap", b>>, FALSE)

apply_free(s, e) == [s EXCEPT !.heap = @ \ {e.cookie}]
undo_malloc(s, e) == [s EXCEPT !.heap = @ \ {e.cookie}]
undo_posix_memalign(s, e) == [s EXCEPT !.heap = @ \ {e.cookie}]

allocator_tx_apply_event(s, e) == IF e.op = "free" THEN apply_free(s, e) ELSE s

allocator_tx_undo_event(s, e) ==
    CASE e.op = "malloc" -> undo_malloc(s, e)
      [] e.op = "posix_memalign" -> undo_posix_memalign(s, e)
      [] OTHER -> s

(* What a call refers to, and whether the program may: it does not release *)
(* what other threads use.                                                 *)
Uses(c) == CASE c.op = "free" -> {<<"heap", c.block>>}
             [] c.op \in {"duplocale", "freelocale", "newlocale", "uselocale"} ->
                    {<<"locale object", c.object>>} \ {<<"locale object", NULL>>}
             [] OTHER -> {}

InUse(c) ==
    /\ c.op \in {"freelocale", "newlocale"} /\ c.object # NULL
    /\ \E t \in Threads : os.uselocale[t] = c.object

-----------------------------------------------------------------------------
(* errno and the floating-point unit.                                      *)

error_tx_init == [saved |-> FALSE, errno |-> 0]
error_tx_save_errno(t) ==
    IF tx[t].error.saved THEN tx[t].error ELSE [saved |-> TRUE, errno |-> os.errno[t]]
error_tx_undo(s, t) ==
    IF tx[t].error.saved THEN [s EXCEPT !.errno[t] = tx[t].error.errno] ELSE s

fpu_tx_init == [saved |-> FALSE, fexcept |-> FALSE]
fpu_tx_save_fexcept(t) ==
    IF tx[t].fpu.saved THEN tx[t].fpu ELSE [saved |-> TRUE, fexcept |-> os.fexcept[t]]
fpu_tx_undo(s, t) ==
    IF tx[t].fpu.saved THEN [s EXCEPT !.fexcept[t] = tx[t].fpu.fexcept] ELSE s

(* The program sets errno, or raises a flag, itself.                       *)
errno_location(t, errno) ==
    Change([Call(t) EXCEPT !.os.errno[t] = errno, !.error = error_tx_save_errno(t)],
           <<"errno", t>>, errno)

save_fexcept(t, fexcept) ==
    Change([Call(t) EXCEPT !.os.fexcept[t] = fexcept, !.fpu = fpu_tx_save_fexcept(t)],
           <<"fexcept", t>>, fexcept)

(* The functions of mathematics.  They clear errno, but not the flags of   *)
(* earlier functions, which they take for their own.                       *)
matherr_save_and_clear(v, t) ==
    Change([v EXCEPT !.os.errno[t] = 0,
                     !.error = error_tx_save_errno(t),
                     !.fpu = fpu_tx_save_fexcept(t)],
           <<"errno", t>>, 0)

matherr_test_and_resolve(v, t, raises) ==
    Show([v EXCEPT !.fails = raises \/ os.fexcept[t]], <<"fexcept", t>>, os.fexcept[t])

MATHERR(t, raises) ==
    matherr_test_and_resolve(matherr_save_and_clear(Call(t), t), t, raises)

-----------------------------------------------------------------------------
(* Signals: those that the program has registered roll the transaction of  *)
(* the thread back.  The table of a thread outlives its transactions.      *)

signal_tx_add_signal(t, recoverable) ==
    [Call(t) EXCEPT !.signal = IF recoverable THEN 1 ELSE 2]
signal_tx_remove_signal(t) == [Call(t) EXCEPT !.signal = 0]
signal_tx_clear_signals(t) == [Call(t) EXCEPT !.signal = 0]

signal_tx_recovers(t) == tx[t].signal # 0
=============================================================================
