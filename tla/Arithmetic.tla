----------------------------- MODULE Arithmetic ------------------------------
(***************************************************************************)
(* The arithmetic and cast modules: operations on numbers that tell, before *)
(* they are carried out, whether the result fits into its type.            *)
(*                                                                         *)
(* A floating-point number is counted in fractions of size 1 / UNIT, so    *)
(* that its operations are those of integers; rounding is left out.        *)
(***************************************************************************)
EXTENDS Integers

CONSTANTS
    MAX,            \* the largest value of each type
    CharIsSigned,
    UNIT            \* the floating-point number 1

Integral == {"Bool", "char", "schar", "short", "int", "long", "llong",
             "uchar", "ushort", "uint", "ulong", "ullong"}
FloatingPoint == {"float", "double", "ldouble"}
Names == Integral \cup FloatingPoint

ASSUME MaxAssumption == MAX \in [Names -> Nat \ {0}]
ASSUME CharAssumption == CharIsSigned \in BOOLEAN
ASSUME UnitAssumption == UNIT \in Nat \ {0}

-----------------------------------------------------------------------------
(* Types.  Variants "S", "U" and "F" are those of the macros that define   *)
(* the functions of a type.                                                *)

Signed(max)   == [variant |-> "S", min |-> -max - 1, max |-> max]
Unsigned(max) == [variant |-> "U", min |-> 0, max |-> max]
Floating(max) == [variant |-> "F", min |-> -max, max |-> max]

Bool_type    == Unsigned(1)
char_type    == IF CharIsSigned THEN Signed(MAX["char"]) ELSE Unsigned(MAX["char"])
schar_type   == Signed(MAX["schar"])
short_type   == Signed(MAX["short"])
int_type     == Signed(MAX["int"])
long_type    == Signed(MAX["long"])
llong_type   == Signed(MAX["llong"])
uchar_type   == Unsigned(MAX["uchar"])
ushort_type  == Unsigned(MAX["ushort"])
uint_type    == Unsigned(MAX["uint"])
ulong_type   == Unsigned(MAX["ulong"])
ullong_type  == Unsigned(MAX["ullong"])
float_type   == Floating(MAX["float"])
double_type  == Floating(MAX["double"])
ldouble_type == Floating(MAX["ldouble"])

Type(name) ==
    CASE name = "Bool"    -> Bool_type
      [] name = "char"    -> char_type
      [] name = "schar"   -> schar_type
      [] name = "short"   -> short_type
      [] name = "int"     -> int_type
      [] name = "long"    -> long_type
      [] name = "llong"   -> llong_type
      [] name = "uchar"   -> uchar_type
      [] name = "ushort"  -> ushort_type
      [] name = "uint"    -> uint_type
      [] name = "ulong"   -> ulong_type
      [] name = "ullong"  -> ullong_type
      [] name = "float"   -> float_type
      [] name = "double"  -> double_type
      [] name = "ldouble" -> ldouble_type

Values(r) == r.min .. r.max
Unit(r) == IF r.variant = "F" THEN UNIT ELSE 1

(* What a variable of the type holds after a result has been assigned to   *)
(* it: the lower bits of an integer, or an infinity.                       *)
Stored(r, x) ==
    CASE x \in Values(r) -> x
      [] x \notin Values(r) /\ r.variant = "F" -> IF x > 0 THEN r.max + 1 ELSE r.min - 1
      [] OTHER -> r.min + ((x - r.min) % (r.max - r.min + 1))

-----------------------------------------------------------------------------
(* Each of the following is TRUE if the function reports an overflow or an *)
(* underflow, ERANGE, for its arguments.                                   *)

ADD_S(r, lhs, rhs) ==
    \/ rhs > 0 /\ Stored(r, r.max - rhs) < lhs
    \/ rhs < 0 /\ lhs # 0 /\ Stored(r, r.min - rhs) > lhs

ADD_U(r, lhs, rhs) == Stored(r, r.max - rhs) < lhs

ADD_F(r, lhs, rhs) == ADD_S(r, lhs, rhs)

(* Nothing is tested if 0 is the minuend of a negative number.             *)
SUB_S(r, lhs, rhs) ==
    \/ rhs > 0 /\ Stored(r, r.min + rhs) > lhs
    \/ rhs < 0 /\ lhs # 0 /\ Stored(r, r.max + rhs) < lhs

(* Mutant: takes the smallest value for one that does not fit.             *)
MutSubU(r, lhs, rhs) == rhs > 0 /\ Stored(r, r.min + rhs) >= lhs

SUB_U(r, lhs, rhs) == rhs > 0 /\ Stored(r, r.min + rhs) > lhs

SUB_F(r, lhs, rhs) == SUB_S(r, lhs, rhs)

(* Division rounds towards zero.                                           *)
Quot(a, b) ==
    LET Abs(x) == IF x < 0 THEN -x ELSE x
        q == Abs(a) \div Abs(b)
    IN  IF (a < 0) = (b < 0) THEN q ELSE -q

(* The tests for a negative rhs ask for the opposite: they are TRUE for    *)
(* products that fit, and FALSE for most of those that do not.             *)
MUL_S(r, lhs, rhs) ==
    /\ lhs # 0 /\ rhs # 0 /\ rhs # 1
    /\ \/ rhs > 1 /\ lhs > 1 /\ Quot(r.max, rhs) < lhs
       \/ rhs > 1 /\ lhs < 1 /\ Quot(r.min, rhs) > lhs
       \/ rhs < 1 /\ lhs > 1 /\ Quot(-r.max, Stored(r, -rhs)) < -lhs
       \/ rhs < 1 /\ lhs < 1 /\ (lhs = r.min \/ Quot(r.max, rhs) < lhs)

MUL_U(r, lhs, rhs) == rhs # 0 /\ Quot(r.max, rhs) < lhs

(* Whether a / rhs is less than, or greater than, lhs.                     *)
QuotientLess(a, rhs, lhs) == IF rhs > 0 THEN a * UNIT < lhs * rhs ELSE a * UNIT > lhs * rhs
QuotientGreater(a, rhs, lhs) == IF rhs > 0 THEN a * UNIT > lhs * rhs ELSE a * UNIT < lhs * rhs

(* All factors below 1 are taken for negative ones.                        *)
MUL_F(r, lhs, rhs) ==
    /\ lhs # 0 /\ rhs # 0 /\ rhs # UNIT
    /\ \/ rhs > UNIT /\ lhs > 0 /\ QuotientLess(r.max, rhs, lhs)
       \/ rhs > UNIT /\ lhs < 0 /\ QuotientGreater(r.min, rhs, lhs)
       \/ rhs < UNIT /\ lhs > 0 /\ QuotientLess(r.min, rhs, lhs)
       \/ rhs < UNIT /\ lhs < 0 /\ QuotientGreater(r.max, rhs, lhs)

(* Division by zero is reported as EDOM.                                   *)
DIV_S(r, lhs, rhs) == lhs = r.min /\ rhs = -1
DIV_U(r, lhs, rhs) == FALSE

DIV_F(r, lhs, rhs) ==
    \/ /\ rhs > 0 /\ rhs < UNIT
       /\ (lhs > 0 /\ lhs * UNIT > r.max * rhs) \/ (lhs < 0 /\ lhs * UNIT < r.min * rhs)
    \/ /\ rhs < 0 /\ rhs > -UNIT
       /\ (lhs > 0 /\ lhs * UNIT > r.min * rhs) \/ (lhs < 0 /\ lhs * UNIT < r.max * rhs)

Reports(r, op, lhs, rhs) ==
    CASE r.variant = "S" -> (CASE op = "add" -> ADD_S(r, lhs, rhs)
                               [] op = "sub" -> SUB_S(r, lhs, rhs)
                               [] op = "mul" -> MUL_S(r, lhs, rhs)
                               [] op = "div" -> DIV_S(r, lhs, rhs))
      [] r.variant = "U" -> (CASE op = "add" -> ADD_U(r, lhs, rhs)
                               [] op = "sub" -> SUB_U(r, lhs, rhs)
                               [] op = "mul" -> MUL_U(r, lhs, rhs)
                               [] op = "div" -> DIV_U(r, lhs, rhs))
      [] r.variant = "F" -> (CASE op = "add" -> ADD_F(r, lhs, rhs)
                               [] op = "sub" -> SUB_F(r, lhs, rhs)
                               [] op = "mul" -> MUL_F(r, lhs, rhs)
                               [] op = "div" -> DIV_F(r, lhs, rhs))

(* The error of an operation, if any.                                      *)
arithmetic_error(r, op, lhs, rhs) ==
    CASE op = "div" /\ rhs = 0 -> "EDOM"
      [] ~(op = "div" /\ rhs = 0) /\ Reports(r, op, lhs, rhs) -> "ERANGE"
      [] OTHER -> "none"

(* The exact result.                                                       *)
Exact(r, op, lhs, rhs) ==
    CASE op = "add" -> lhs + rhs
      [] op = "sub" -> lhs - rhs
      [] op = "mul" -> IF r.variant = "F" THEN Quot(lhs * rhs, UNIT) ELSE lhs * rhs
      [] op = "div" -> IF rhs = 0 THEN 0
                       ELSE IF r.variant = "F" THEN Quot(lhs * UNIT, rhs) ELSE Quot(lhs, rhs)

-----------------------------------------------------------------------------
(* Casts.  From each integral type there are functions to all others, from *)
(* each floating-point type to the other two.                              *)

Bool_casts    == Names \ {"Bool"}
char_casts    == Names \ {"char"}
schar_casts   == Names \ {"schar"}
short_casts   == Names \ {"short"}
int_casts     == Names \ {"int"}
long_casts    == Names \ {"long"}
llong_casts   == Names \ {"llong"}
uchar_casts   == Names \ {"uchar"}
ushort_casts  == Names \ {"ushort"}
uint_casts    == Names \ {"uint"}
ulong_casts   == Names \ {"ulong"}
ullong_casts  == Names \ {"ullong"}
float_casts   == {"double", "ldouble"}
double_casts  == {"float", "ldouble"}
ldouble_casts == {"float", "double"}

Casts(name) ==
    CASE name = "Bool"    -> Bool_casts
      [] name = "char"    -> char_casts
      [] name = "schar"   -> schar_casts
      [] name = "short"   -> short_casts
      [] name = "int"     -> int_casts
      [] name = "long"    -> long_casts
      [] name = "llong"   -> llong_casts
      [] name = "uchar"   -> uchar_casts
      [] name = "ushort"  -> ushort_casts
      [] name = "uint"    -> uint_casts
      [] name = "ulong"   -> ulong_casts
      [] name = "ullong"  -> ullong_casts
      [] name = "float"   -> float_casts
      [] name = "double"  -> double_casts
      [] name = "ldouble" -> ldouble_casts

(* The value of a number of type s in the units of type d.                 *)
Converted(s, d, value) ==
    IF s.variant # "F" /\ d.variant = "F" THEN value * UNIT ELSE value

IsSigned(r) == r.variant # "U"

(* Whether the cast of a value of type s to type d reports ERANGE.  Values *)
(* are compared with the limits of d only where no comparison is between a *)
(* negative number and an unsigned one.                                    *)
CAST(s, d, value) ==
    LET x == Converted(s, d, value)
    IN  CASE IsSigned(s) = IsSigned(d) -> x < d.min \/ x > d.max
          [] IsSigned(s) /\ ~IsSigned(d) ->
                \/ value > 0 /\ (x > d.max \/ (d.min > 0 /\ x < d.min))
                \/ value = 0 /\ (d.min > 0 \/ d.max < x)
                \/ value < 0
          [] ~IsSigned(s) /\ IsSigned(d) ->
                x > d.max \/ (d.min > 0 /\ x < d.min)

cast_error(s, d, value) == IF CAST(s, d, value) THEN "ERANGE" ELSE "none"
=============================================================================
