------------------------------- MODULE Numeric -------------------------------
(***************************************************************************)
(* A transaction of one thread that computes: with the arithmetic and cast *)
(* modules, whose functions recover with ERANGE or EDOM instead of         *)
(* returning what is not the result, or with the functions of libm, which  *)
(* recover if the floating-point unit or errno says so.  A roll-back       *)
(* restores the status flags and errno if they have been saved.            *)
(***************************************************************************)
EXTENDS Arithmetic, Mathematics

CONSTANTS
    Programs,       \* what the transaction computes with
    Functions,      \* the functions of libm that it calls
    Risks           \* what programs do although it does not work

Operations == {"add", "sub", "mul", "div"}

ASSUME ProgramsAssumption == Programs \subseteq {"numbers", "functions"}
ASSUME FunctionsAssumption == Functions \subseteq DOMAIN Tested
ASSUME RisksAssumption ==
    Risks \subseteq {"negative factor", "small factor", "negate", "unsaved", "two saves"}

VARIABLES
    program,        \* a member of Programs
    phase,          \* of the transaction
    number,         \* the type and the value of the program's number
    fits,           \* history: the last result was one of its type
    raised,         \* history: what the last function raised
    error,          \* the error that has been reported
    flags,          \* the status flags of the floating-point unit
    errno,
    saved,          \* what of these has been saved, a value each
    begun           \* history: flags and errno when the transaction began

vars == <<program, phase, number, fits, raised, error, flags, errno, saved, begun>>
unit == <<raised, flags, errno, saved>>

(* What is saved is a set of one value.                                    *)
NotSaved == {}
Saved(save, now) == IF save = NotSaved THEN {now} ELSE save

Zero == [type |-> "int", value |-> 0]

fpu_tx_init == [fenv |-> NotSaved, fexcept |-> NotSaved, errno |-> NotSaved]

Init ==
    /\ program \in Programs
    /\ phase = "idle"
    /\ number = Zero
    /\ fits = TRUE
    /\ raised = {}
    /\ error = "none"
    /\ flags = {}
    /\ errno = "none"
    /\ saved = fpu_tx_init
    /\ begun = [flags |-> {}, errno |-> "none"]

-----------------------------------------------------------------------------
(* The transaction.                                                        *)

Begin ==
    /\ phase \in {"idle", "recovery"}
    /\ phase' = "running"
    /\ number' = Zero /\ fits' = TRUE /\ raised' = {} /\ error' = "none"
    /\ begun' = [flags |-> flags, errno |-> errno]
    /\ UNCHANGED <<program, flags, errno, saved>>

(* The error, if any, starts the recovery.                                 *)
report_errno(e) ==
    /\ error' = e
    /\ phase' = IF e = "none" THEN "running" ELSE "failing"

fpu_tx_finish == saved' = fpu_tx_init

Commit ==
    /\ phase = "running"
    /\ phase' = "idle"
    /\ fpu_tx_finish
    /\ UNCHANGED <<program, number, fits, raised, error, flags, errno, begun>>

Conflict ==
    /\ phase = "running"
    /\ phase' = "failing" /\ error' = "conflict"
    /\ UNCHANGED <<program, number, fits, unit, begun>>

Restored(save, now) == IF save = NotSaved THEN now ELSE CHOOSE x \in save : TRUE

(* Mutant: the environment is restored, but not the flags.                 *)
Mutfpu_tx_undo == Restored(saved.fenv, flags)

(* The flags are part of the environment, but restored last.               *)
fpu_tx_undo == Restored(saved.fexcept, Restored(saved.fenv, flags))

error_tx_undo == Restored(saved.errno, errno)

RollBack ==
    /\ phase = "failing"
    /\ flags' = fpu_tx_undo
    /\ errno' = error_tx_undo
    /\ fpu_tx_finish
    /\ phase' = "recovery"
    /\ UNCHANGED <<program, number, fits, raised, error, begun>>

-----------------------------------------------------------------------------
(* Numbers.                                                                *)

(* Arguments for which a function does not test what it should.            *)
Risky(r, op, lhs, rhs) ==
    \/ op = "mul" /\ r.variant = "S" /\ rhs < 0 /\ "negative factor" \notin Risks
    \/ op = "mul" /\ r.variant = "F" /\ 0 < rhs /\ rhs < UNIT /\ "small factor" \notin Risks
    \/ op = "sub" /\ r.variant = "S" /\ lhs = 0 /\ rhs = r.min /\ "negate" \notin Risks

Fits(r, op, lhs, rhs) ==
    CASE op = "div" /\ rhs = 0 -> FALSE
      [] op = "mul" /\ r.variant = "F" -> r.min * UNIT <= lhs * rhs /\ lhs * rhs <= r.max * UNIT
      [] op = "div" /\ r.variant = "F" /\ rhs # 0 ->
            IF rhs > 0 THEN r.min * rhs <= lhs * UNIT /\ lhs * UNIT <= r.max * rhs
                       ELSE r.min * rhs >= lhs * UNIT /\ lhs * UNIT >= r.max * rhs
      [] OTHER -> Exact(r, op, lhs, rhs) \in Values(r)

Computing == phase = "running" /\ program = "numbers"

load(name, value) ==
    /\ Computing
    /\ number' = [type |-> name, value |-> value]
    /\ fits' = TRUE
    /\ UNCHANGED <<program, phase, error, unit, begun>>

Arith(op, rhs) ==
    LET r == Type(number.type)
        lhs == number.value
    IN  /\ Computing
        /\ ~Risky(r, op, lhs, rhs)
        /\ fits' = Fits(r, op, lhs, rhs)
        /\ report_errno(arithmetic_error(r, op, lhs, rhs))
        /\ number' = IF error' = "none"
                     THEN [number EXCEPT !.value = Stored(r, Exact(r, op, lhs, rhs))] ELSE number
        /\ UNCHANGED <<program, unit, begun>>

Cast(name) ==
    LET s == Type(number.type)
        d == Type(name)
        x == Converted(s, d, number.value)
    IN  /\ Computing
        /\ fits' = (x \in Values(d))
        /\ report_errno(cast_error(s, d, number.value))
        /\ number' = IF error' = "none" THEN [type |-> name, value |-> Stored(d, x)] ELSE number
        /\ UNCHANGED <<program, unit, begun>>

-----------------------------------------------------------------------------
(* Functions.                                                              *)

Calling == phase = "running" /\ program = "functions"

fpu_tx_save_fenv == [saved EXCEPT !.fenv = Saved(@, flags)]
fpu_tx_save_fexcept == [saved EXCEPT !.fexcept = Saved(@, flags)]

picotm_libm_save_fenv ==
    /\ Calling
    /\ saved' = fpu_tx_save_fenv
    /\ UNCHANGED <<program, phase, number, fits, raised, error, flags, errno, begun>>

picotm_libm_save_fexcept ==
    /\ Calling
    /\ saved.fenv = NotSaved \/ "two saves" \in Risks
    /\ saved' = fpu_tx_save_fexcept
    /\ UNCHANGED <<program, phase, number, fits, raised, error, flags, errno, begun>>

FlagsAreSaved == saved.fenv # NotSaved \/ saved.fexcept # NotSaved

(* The program raises or clears flags itself.                              *)
feraiseexcept(new) ==
    /\ Calling
    /\ FlagsAreSaved \/ "unsaved" \in Risks
    /\ flags' = new
    /\ UNCHANGED <<program, phase, number, fits, raised, error, errno, saved, begun>>

(* errno is saved and cleared.  The function returns as soon as the flags  *)
(* are saved, so that those of earlier exceptions stay.                    *)
matherr_save_and_clear ==
    [fpu_tx_save_fexcept EXCEPT !.errno = Saved(@, errno)]

(* Mutant: a function that divided by zero is taken to have succeeded.     *)
Mutmatherr_test_and_resolve(except, e, f) ==
    CASE e # "none" -> e
      [] e = "none" /\ INVALID \in f \cap except -> "EDOM"
      [] e = "none" /\ INVALID \notin f \cap except /\ {OVERFLOW, UNDERFLOW} \cap f \cap except # {}
            -> "ERANGE"
      [] OTHER -> "none"

(* The error after a function that tests except, where e is errno and f    *)
(* the flags.                                                              *)
matherr_test_and_resolve(except, e, f) ==
    CASE e # "none" -> e
      [] e = "none" /\ INVALID \in f \cap except -> "EDOM"
      [] e = "none" /\ INVALID \notin f \cap except /\ f \cap except # {} -> "ERANGE"
      [] OTHER -> "none"

(* What a function may put into errno for the exceptions that it raises.   *)
Errnos(x) ==
    CASE INVALID \in x -> {"none", "EDOM"}
      [] INVALID \notin x /\ x # {} -> {"none", "ERANGE"}
      [] OTHER -> {"none"}

MATHERR(f, x, e) ==
    /\ Calling
    /\ Tested[f] # None
    /\ saved.fenv = NotSaved \/ saved.fexcept # NotSaved \/ "two saves" \in Risks
    /\ saved' = matherr_save_and_clear
    /\ raised' = x
    /\ flags' = flags \cup x
    /\ errno' = e
    /\ report_errno(matherr_test_and_resolve(Tested[f], errno', flags'))
    /\ UNCHANGED <<program, number, fits, begun>>

(* Nothing is saved, and nothing tested.                                   *)
Plain(f, x, e) ==
    /\ Calling
    /\ Tested[f] = None
    /\ x # {} => FlagsAreSaved \/ "unsaved" \in Risks
    /\ e # "none" => saved.errno # NotSaved \/ "unsaved" \in Risks
    /\ flags' = flags \cup x
    /\ errno' = IF e = "none" THEN errno ELSE e
    /\ UNCHANGED <<program, phase, number, fits, raised, error, saved, begun>>

-----------------------------------------------------------------------------
Compute ==
    \/ \E name \in Names : \E value \in Values(Type(name)) : load(name, value)
    \/ \E op \in Operations, rhs \in Values(Type(number.type)) : Arith(op, rhs)
    \/ \E name \in Casts(number.type) : Cast(name)

Call ==
    \/ picotm_libm_save_fenv
    \/ picotm_libm_save_fexcept
    \/ \E new \in SUBSET Exceptions : feraiseexcept(new)
    \/ \E f \in Functions : \E x \in SUBSET Tested[f] : \E e \in Errnos(x) : MATHERR(f, x, e)
    \/ \E f \in Functions : \E x \in SUBSET Exceptions : \E e \in Errnos(x) : Plain(f, x, e)

Next == Begin \/ Commit \/ Conflict \/ RollBack \/ Compute \/ Call

Spec == Init /\ [][Next]_vars

-----------------------------------------------------------------------------
(* The functions of arithmetic and cast report an error exactly if the     *)
(* result is not a value of its type: they tell so from comparisons that   *)
(* must not overflow themselves (picotm-arithmetic.h, picotm-cast.h).      *)
ArithmeticIsExact ==
    phase \in {"running", "failing"} /\ program = "numbers" /\ error # "conflict"
        => (error = "none" <=> fits)

(* No transaction goes on after a function of libm has raised an exception *)
(* that it tests (matherr_test_and_resolve), whatever it does with errno.  *)
NoExceptionIsMissed == phase = "running" => raised = {}

(* The recovery finds the status flags and errno as the transaction has    *)
(* found them (fpu_tx_undo, error_tx_undo).                                *)
RollBackRestoresTheUnit ==
    phase = "recovery" => flags = begun.flags /\ errno = begun.errno
=============================================================================
