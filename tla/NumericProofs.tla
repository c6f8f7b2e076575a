---------------------------- MODULE NumericProofs ----------------------------
(***************************************************************************)
(* What holds of Numeric for all ranges of the types, where programs do    *)
(* not take the risks that the module names.                               *)
(***************************************************************************)
EXTENDS Numeric, TLAPS

-----------------------------------------------------------------------------
(* Arithmetic.                                                             *)

(* The test of a product by a division (picotm-arithmetic.h): a quotient   *)
(* that is rounded down is below c only if the dividend is below c times   *)
(* the divisor.                                                            *)
LEMMA DivLess ==
    ASSUME NEW a \in Nat, NEW b \in Nat \ {0}, NEW c \in Int
    PROVE  (a \div b) < c <=> a < c * b
<1> DEFINE q == a \div b
<1>1. q \in Int /\ q * b <= a /\ a < (q + 1) * b
  OBVIOUS
<1>2. ASSUME q < c PROVE a < c * b
  <2>1. q + 1 <= c
    BY <1>1, <1>2
  <2>2. (q + 1) * b <= c * b
    BY <1>1, <2>1
  <2> QED
    BY <1>1, <2>2
<1>3. ASSUME ~(q < c) PROVE ~(a < c * b)
  <2>1. c * b <= q * b
    BY <1>1, <1>3
  <2> QED
    BY <1>1, <2>1
<1> QED
  BY <1>2, <1>3

(* No quotient of natural numbers is above the dividend, and that by 2 or  *)
(* more is below it.                                                       *)
LEMMA DivBound ==
    ASSUME NEW a \in Nat, NEW b \in Nat \ {0}
    PROVE  /\ a \div b \in Nat
           /\ (a \div b) <= a
           /\ b > 1 /\ a > 0 => (a \div b) < a
<1>1. a \div b \in Nat
  OBVIOUS
<1>2. a < (a + 1) * b
  OBVIOUS
<1>3. b > 1 /\ a > 0 => a < a * b
  OBVIOUS
<1> QED
  BY <1>1, <1>2, <1>3, DivLess

(* What is stored of a value of the type is the value.                     *)
LEMMA StoredValue ==
    ASSUME NEW r, NEW x, x \in Values(r)
    PROVE  Stored(r, x) = x
  BY DEF Stored

-----------------------------------------------------------------------------
(* Signed integers.                                                        *)

(* The addition reports exactly the sums that do not fit (ADD_S).          *)
LEMMA AddSigned ==
    ASSUME NEW max \in Nat \ {0}, NEW lhs \in Values(Signed(max)), NEW rhs \in Values(Signed(max))
    PROVE  ADD_S(Signed(max), lhs, rhs) <=> lhs + rhs \notin Values(Signed(max))
<1> DEFINE r == Signed(max)
<1>1. rhs > 0 => Stored(r, r.max - rhs) = max - rhs
  BY StoredValue DEF Signed, Values
<1>2. rhs < 0 => Stored(r, r.min - rhs) = -max - 1 - rhs
  BY StoredValue DEF Signed, Values
<1>3. CASE rhs > 0
  BY <1>1, <1>3 DEF ADD_S, Signed, Values
<1>4. CASE rhs < 0
  BY <1>2, <1>4 DEF ADD_S, Signed, Values
<1>5. CASE rhs = 0
  BY <1>5 DEF ADD_S, Signed, Values
<1> QED
  BY <1>3, <1>4, <1>5 DEF Signed, Values

(* The subtraction reports exactly the differences that do not fit, except *)
(* for that of 0 and the smallest number, which it never tests (SUB_S).    *)
LEMMA SubSigned ==
    ASSUME NEW max \in Nat \ {0}, NEW lhs \in Values(Signed(max)), NEW rhs \in Values(Signed(max)),
           ~(lhs = 0 /\ rhs = -max - 1)
    PROVE  SUB_S(Signed(max), lhs, rhs) <=> lhs - rhs \notin Values(Signed(max))
<1> DEFINE r == Signed(max)
<1>1. rhs > 0 => Stored(r, r.min + rhs) = -max - 1 + rhs
  BY StoredValue DEF Signed, Values
<1>2. rhs < 0 => Stored(r, r.max + rhs) = max + rhs
  BY StoredValue DEF Signed, Values
<1>3. CASE rhs > 0
  BY <1>1, <1>3 DEF SUB_S, Signed, Values
<1>4. CASE rhs < 0
  BY <1>2, <1>4 DEF SUB_S, Signed, Values
<1>5. CASE rhs = 0
  BY <1>5 DEF SUB_S, Signed, Values
<1> QED
  BY <1>3, <1>4, <1>5 DEF Signed, Values

(* The multiplication by a number that is not negative reports exactly the *)
(* products that do not fit (MUL_S).                                       *)
LEMMA MulSigned ==
    ASSUME NEW max \in Nat \ {0}, NEW lhs \in Values(Signed(max)), NEW rhs \in Values(Signed(max)),
           rhs >= 0
    PROVE  MUL_S(Signed(max), lhs, rhs) <=> lhs * rhs \notin Values(Signed(max))
<1> DEFINE r == Signed(max)
<1>0. lhs \in Int /\ rhs \in Nat /\ max \in Nat /\ lhs <= max /\ -max - 1 <= lhs
  BY DEF Signed, Values
<1>1. CASE rhs = 0 \/ rhs = 1 \/ lhs = 0
  <2>1. lhs * rhs = 0 \/ lhs * rhs = lhs
    BY <1>0, <1>1
  <2> QED
    BY <1>0, <1>1, <2>1 DEF MUL_S, Signed, Values
<1>2. CASE rhs > 1 /\ lhs >= 1
  <2>1. Quot(r.max, rhs) = max \div rhs
    BY <1>0, <1>2 DEF Quot, Signed
  <2>2. (max \div rhs) < lhs <=> max < lhs * rhs
    BY <1>0, <1>2, DivLess
  <2>3. lhs * rhs >= 0 /\ lhs * rhs \in Int
    BY <1>0, <1>2
  <2>4. lhs = 1 => lhs * rhs = rhs
    BY <1>0
  <2>5. CASE lhs = 1
    BY <1>0, <1>2, <2>4, <2>5 DEF MUL_S, Signed, Values
  <2>6. CASE lhs > 1
    BY <1>0, <1>2, <2>1, <2>2, <2>3, <2>6 DEF MUL_S, Signed, Values
  <2> QED
    BY <1>0, <1>2, <2>5, <2>6
<1>3. CASE rhs > 1 /\ lhs < 0
  <2>1. Quot(r.min, rhs) = -((max + 1) \div rhs)
    BY <1>0, <1>3 DEF Quot, Signed
  <2>2. ((max + 1) \div rhs) < -lhs <=> max + 1 < (-lhs) * rhs
    BY <1>0, <1>3, DivLess
  <2>3. (-lhs) * rhs = -(lhs * rhs) /\ lhs * rhs <= 0 /\ lhs * rhs \in Int
    BY <1>0, <1>3
  <2>4. (max + 1) \div rhs \in Int
    BY <1>0, <1>3
  <2> DEFINE q == (max + 1) \div rhs
             p == lhs * rhs
  <2>5. MUL_S(r, lhs, rhs) <=> -q > lhs
    BY <1>0, <1>3, <2>1 DEF MUL_S
  <2>6. -q > lhs <=> max + 1 < -p
    BY <1>0, <2>2, <2>3, <2>4
  <2> HIDE DEF q, p
  <2>7. p \in Int /\ p <= 0
    BY <2>3 DEF p
  <2> QED
    BY <1>0, <2>5, <2>6, <2>7 DEF Signed, Values, p
<1> QED
  BY <1>0, <1>1, <1>2, <1>3

(* Only the quotient of the smallest number and -1 does not fit (DIV_S).   *)
LEMMA DivSigned ==
    ASSUME NEW max \in Nat \ {0}, NEW lhs \in Values(Signed(max)), NEW rhs \in Values(Signed(max)),
           rhs # 0
    PROVE  DIV_S(Signed(max), lhs, rhs) <=> Quot(lhs, rhs) \notin Values(Signed(max))
<1> DEFINE Abs(x) == IF x < 0 THEN -x ELSE x
           q == Abs(lhs) \div Abs(rhs)
<1>0. lhs \in Int /\ rhs \in Int /\ max \in Nat /\ lhs <= max /\ -max - 1 <= lhs
  BY DEF Signed, Values
<1>1. Abs(lhs) \in Nat /\ Abs(rhs) \in Nat \ {0} /\ Abs(lhs) <= max + 1
  BY <1>0
<1>2. q \in Nat /\ q <= Abs(lhs) /\ (Abs(rhs) > 1 /\ Abs(lhs) > 0 => q < Abs(lhs))
  BY <1>1, DivBound
<1>3. Abs(rhs) = 1 => q = Abs(lhs)
  BY <1>1
<1>4. Quot(lhs, rhs) = IF (lhs < 0) = (rhs < 0) THEN q ELSE -q
  BY DEF Quot
<1> HIDE DEF q
<1> QED
  BY <1>0, <1>1, <1>2, <1>3, <1>4 DEF DIV_S, Signed, Values

-----------------------------------------------------------------------------
(* Unsigned integers.                                                      *)

(* The functions report exactly the results that do not fit (ADD_U, SUB_U, *)
(* MUL_U); no division needs a report (DIV_U).                             *)
LEMMA AddUnsigned ==
    ASSUME NEW max \in Nat \ {0}, NEW lhs \in Values(Unsigned(max)),
           NEW rhs \in Values(Unsigned(max))
    PROVE  ADD_U(Unsigned(max), lhs, rhs) <=> lhs + rhs \notin Values(Unsigned(max))
  BY StoredValue DEF ADD_U, Unsigned, Values

(* The subtraction of unsigned integers reports what would be below 0.     *)
LEMMA SubUnsigned ==
    ASSUME NEW max \in Nat \ {0}, NEW lhs \in Values(Unsigned(max)),
           NEW rhs \in Values(Unsigned(max))
    PROVE  SUB_U(Unsigned(max), lhs, rhs) <=> lhs - rhs \notin Values(Unsigned(max))
  BY StoredValue DEF SUB_U, Unsigned, Values

(* The multiplication of unsigned integers divides to find out (MUL_U).    *)
LEMMA MulUnsigned ==
    ASSUME NEW max \in Nat \ {0}, NEW lhs \in Values(Unsigned(max)),
           NEW rhs \in Values(Unsigned(max))
    PROVE  MUL_U(Unsigned(max), lhs, rhs) <=> lhs * rhs \notin Values(Unsigned(max))
<1>0. lhs \in Nat /\ rhs \in Nat /\ max \in Nat
  BY DEF Unsigned, Values
<1>1. rhs # 0 => Quot(max, rhs) = max \div rhs
  BY <1>0 DEF Quot
<1>2. rhs # 0 => ((max \div rhs) < lhs <=> max < lhs * rhs)
  BY <1>0, DivLess
<1>3. lhs * rhs \in Nat /\ (rhs = 0 => lhs * rhs = 0)
  BY <1>0
<1> QED
  BY <1>0, <1>1, <1>2, <1>3 DEF MUL_U, Unsigned, Values

(* The quotient of unsigned integers fits without a test (DIV_U).          *)
LEMMA DivUnsigned ==
    ASSUME NEW max \in Nat \ {0}, NEW lhs \in Values(Unsigned(max)),
           NEW rhs \in Values(Unsigned(max)), rhs # 0
    PROVE  Quot(lhs, rhs) \in Values(Unsigned(max))
<1>0. lhs \in Nat /\ rhs \in Nat \ {0} /\ max \in Nat /\ lhs <= max
  BY DEF Unsigned, Values
<1>1. Quot(lhs, rhs) = lhs \div rhs
  BY <1>0 DEF Quot
<1>2. lhs \div rhs \in Nat /\ (lhs \div rhs) <= lhs
  BY <1>0, DivBound
<1> QED
  BY <1>0, <1>1, <1>2 DEF Unsigned, Values

-----------------------------------------------------------------------------
(* Floating-point numbers.                                                 *)

(* Products of integers grow with their factors.                           *)
LEMMA ProductGrows ==
    ASSUME NEW a \in Int, NEW b \in Int, a <= b, NEW c \in Nat
    PROVE  a * c <= b * c
  OBVIOUS

(* Sums and differences are those of signed numbers, but the range is      *)
(* symmetric, so that 0 can be the minuend of any number (ADD_F, SUB_F).   *)
LEMMA AddFloating ==
    ASSUME NEW max \in Nat \ {0}, NEW lhs \in Values(Floating(max)),
           NEW rhs \in Values(Floating(max))
    PROVE  ADD_F(Floating(max), lhs, rhs) <=> lhs + rhs \notin Values(Floating(max))
<1> DEFINE r == Floating(max)
<1>1. rhs > 0 => Stored(r, r.max - rhs) = max - rhs
  BY StoredValue DEF Floating, Values
<1>2. rhs < 0 => Stored(r, r.min - rhs) = -max - rhs
  BY StoredValue DEF Floating, Values
<1> QED
  BY <1>1, <1>2 DEF ADD_F, ADD_S, Floating, Values

(* The subtraction reports exactly the differences that do not fit (SUB_F).*)
LEMMA SubFloating ==
    ASSUME NEW max \in Nat \ {0}, NEW lhs \in Values(Floating(max)),
           NEW rhs \in Values(Floating(max))
    PROVE  SUB_F(Floating(max), lhs, rhs) <=> lhs - rhs \notin Values(Floating(max))
<1> DEFINE r == Floating(max)
<1>1. rhs > 0 => Stored(r, r.min + rhs) = -max + rhs
  BY StoredValue DEF Floating, Values
<1>2. rhs < 0 => Stored(r, r.max + rhs) = max + rhs
  BY StoredValue DEF Floating, Values
<1> QED
  BY <1>1, <1>2 DEF SUB_F, SUB_S, Floating, Values

(* The multiplication reports exactly the products that do not fit, if no  *)
(* factor is between 0 and 1 (MUL_F).                                      *)
LEMMA MulFloating ==
    ASSUME NEW max \in Nat \ {0}, NEW lhs \in Values(Floating(max)),
           NEW rhs \in Values(Floating(max)), ~(0 < rhs /\ rhs < UNIT)
    PROVE  MUL_F(Floating(max), lhs, rhs) <=>
              ~((-max) * UNIT <= lhs * rhs /\ lhs * rhs <= max * UNIT)
<1> DEFINE p == lhs * rhs
           m == max * UNIT
<1>0. lhs \in Int /\ rhs \in Int /\ max \in Nat \ {0} /\ UNIT \in Nat \ {0}
  BY UnitAssumption DEF Floating, Values
<1>1. p \in Int /\ m \in Nat \ {0} /\ (-max) * UNIT = -m
  BY <1>0
<1>2. lhs <= max /\ -max <= lhs
  BY <1>0 DEF Floating, Values
<1>3. rhs = UNIT => p <= m /\ -m <= p
  BY <1>0, <1>1, <1>2, ProductGrows
<1>4. /\ lhs = 0 \/ rhs = 0 => p = 0
      /\ lhs > 0 /\ rhs > 0 => p > 0
      /\ lhs < 0 /\ rhs > 0 => p < 0
      /\ lhs > 0 /\ rhs < 0 => p < 0
      /\ lhs < 0 /\ rhs < 0 => p > 0
  BY <1>0
<1>5. MUL_F(Floating(max), lhs, rhs) <=>
         /\ lhs # 0 /\ rhs # 0 /\ rhs # UNIT
         /\ \/ rhs > UNIT /\ lhs > 0 /\ m < p
            \/ rhs > UNIT /\ lhs < 0 /\ -m > p
            \/ rhs < UNIT /\ lhs > 0 /\ (IF rhs > 0 THEN -m < p ELSE -m > p)
            \/ rhs < UNIT /\ lhs < 0 /\ (IF rhs > 0 THEN m > p ELSE m < p)
  BY <1>0, <1>1 DEF MUL_F, QuotientLess, QuotientGreater, Floating
<1> HIDE DEF p, m
<1>6. MUL_F(Floating(max), lhs, rhs) <=> ~(-m <= p /\ p <= m)
  BY <1>0, <1>1, <1>3, <1>4, <1>5
<1> QED
  BY <1>1, <1>6 DEF p, m

(* The division reports exactly the quotients that do not fit (DIV_F).     *)
LEMMA DivFloating ==
    ASSUME NEW max \in Nat \ {0}, NEW lhs \in Values(Floating(max)),
           NEW rhs \in Values(Floating(max)), rhs # 0
    PROVE  DIV_F(Floating(max), lhs, rhs) <=>
              ~(IF rhs > 0 THEN (-max) * rhs <= lhs * UNIT /\ lhs * UNIT <= max * rhs
                           ELSE (-max) * rhs >= lhs * UNIT /\ lhs * UNIT >= max * rhs)
<1> DEFINE a == lhs * UNIT
           m == max * rhs
<1>0. /\ lhs \in Int /\ rhs \in Int /\ max \in Nat \ {0} /\ UNIT \in Nat \ {0}
      /\ lhs <= max /\ -max <= lhs
  BY UnitAssumption DEF Floating, Values
<1>1. a \in Int /\ m \in Int /\ (-max) * rhs = -m
  BY <1>0
<1>2. /\ lhs > 0 => a > 0
      /\ lhs < 0 => a < 0
      /\ lhs = 0 => a = 0
      /\ rhs > 0 => m > 0
      /\ rhs < 0 => m < 0
  BY <1>0
<1>3. a <= max * UNIT /\ (-max) * UNIT <= a
  BY <1>0, ProductGrows
<1>4. /\ rhs >= UNIT => max * UNIT <= m
      /\ rhs <= -UNIT => max * UNIT <= -m
      /\ (-max) * UNIT = -(max * UNIT)
  <2>1. rhs >= UNIT => UNIT * max <= rhs * max
    BY <1>0, ProductGrows
  <2>2. rhs <= -UNIT => UNIT * max <= (-rhs) * max
    BY <1>0, ProductGrows
  <2> QED
    BY <1>0, <2>1, <2>2
<1>5. DIV_F(Floating(max), lhs, rhs) <=>
         \/ /\ rhs > 0 /\ rhs < UNIT
            /\ (lhs > 0 /\ a > m) \/ (lhs < 0 /\ a < -m)
         \/ /\ rhs < 0 /\ rhs > -UNIT
            /\ (lhs > 0 /\ a > -m) \/ (lhs < 0 /\ a < m)
  BY <1>0, <1>1 DEF DIV_F, Floating
<1> DEFINE u == max * UNIT
<1>6. u \in Nat
  BY <1>0
<1>7. (-max) * UNIT = -u
  BY <1>0
<1>8. DIV_F(Floating(max), lhs, rhs) <=>
         ~(IF rhs > 0 THEN -m <= a /\ a <= m ELSE -m >= a /\ a >= m)
  <2>1. a <= u /\ -u <= a /\ (rhs >= UNIT => u <= m) /\ (rhs <= -UNIT => u <= -m)
    BY <1>3, <1>4, <1>7
  <2> HIDE DEF a, m, u
  <2> QED
    BY <1>0, <1>1, <1>2, <1>5, <1>6, <2>1
<1> QED
  BY <1>1, <1>8

-----------------------------------------------------------------------------
(* All types.                                                              *)

Types == UNION {{Signed(max), Unsigned(max), Floating(max)} : max \in Nat \ {0}}

(* Each named type is one of the three kinds.                              *)
LEMMA TypeOfName ==
    ASSUME NEW name \in Names
    PROVE  Type(name) \in Types
<1>1. Bool_type \in Types
  BY DEF Bool_type, Types
<1>2. char_type \in Types /\ schar_type \in Types /\ short_type \in Types
  BY MaxAssumption DEF char_type, schar_type, short_type, Types, Names, Integral
<1>3. int_type \in Types /\ long_type \in Types /\ llong_type \in Types
  BY MaxAssumption DEF int_type, long_type, llong_type, Types, Names, Integral
<1>4. uchar_type \in Types /\ ushort_type \in Types /\ uint_type \in Types
  BY MaxAssumption DEF uchar_type, ushort_type, uint_type, Types, Names, Integral
<1>5. ulong_type \in Types /\ ullong_type \in Types
  BY MaxAssumption DEF ulong_type, ullong_type, Types, Names, Integral
<1>6. float_type \in Types /\ double_type \in Types /\ ldouble_type \in Types
  BY MaxAssumption DEF float_type, double_type, ldouble_type, Types, Names, FloatingPoint
<1> HIDE DEF Types
<1> QED
  BY <1>1, <1>2, <1>3, <1>4, <1>5, <1>6 DEF Type, Names, Integral, FloatingPoint

(* The functions of arithmetic report an error exactly if the result does  *)
(* not fit, for the arguments that programs may use without a risk.        *)
LEMMA ArithmeticReports ==
    ASSUME Risks = {}, NEW r \in Types, NEW op \in Operations,
           NEW lhs \in Values(r), NEW rhs \in Values(r), ~Risky(r, op, lhs, rhs)
    PROVE  arithmetic_error(r, op, lhs, rhs) = "none" <=> Fits(r, op, lhs, rhs)
<1>1. PICK max \in Nat \ {0} : r \in {Signed(max), Unsigned(max), Floating(max)}
  BY DEF Types
<1>2. CASE op = "div" /\ rhs = 0
  BY <1>2 DEF arithmetic_error, Fits
<1>3. CASE ~(op = "div" /\ rhs = 0) /\ r = Signed(max)
  <2>1. r.variant = "S"
    BY <1>3 DEF Signed
  <2>2. lhs \in Int /\ rhs \in Int /\ max \in Nat /\ r.min = -max - 1
    BY <1>3 DEF Signed, Values
  <2>3. Reports(r, op, lhs, rhs) <=> Exact(r, op, lhs, rhs) \notin Values(r)
    <3>1. CASE op = "add"
      BY <1>3, <2>1, <3>1, AddSigned DEF Reports, Exact
    <3>2. CASE op = "sub"
      BY <1>3, <2>1, <2>2, <3>2, SubSigned DEF Reports, Exact, Risky
    <3>3. CASE op = "mul"
      BY <1>3, <2>1, <2>2, <3>3, MulSigned DEF Reports, Exact, Risky
    <3>4. CASE op = "div"
      BY <1>3, <2>1, <3>4, DivSigned DEF Reports, Exact
    <3> QED
      BY <3>1, <3>2, <3>3, <3>4 DEF Operations
  <2> QED
    BY <1>3, <2>1, <2>3 DEF arithmetic_error, Fits
<1>4. CASE ~(op = "div" /\ rhs = 0) /\ r = Unsigned(max)
  <2>1. r.variant = "U"
    BY <1>4 DEF Unsigned
  <2>2. Reports(r, op, lhs, rhs) <=> Exact(r, op, lhs, rhs) \notin Values(r)
    <3>1. CASE op = "add"
      BY <1>4, <2>1, <3>1, AddUnsigned DEF Reports, Exact
    <3>2. CASE op = "sub"
      BY <1>4, <2>1, <3>2, SubUnsigned DEF Reports, Exact
    <3>3. CASE op = "mul"
      BY <1>4, <2>1, <3>3, MulUnsigned DEF Reports, Exact
    <3>4. CASE op = "div"
      BY <1>4, <2>1, <3>4, DivUnsigned DEF Reports, Exact, DIV_U
    <3> QED
      BY <3>1, <3>2, <3>3, <3>4 DEF Operations
  <2> QED
    BY <1>4, <2>1, <2>2 DEF arithmetic_error, Fits
<1>5. CASE ~(op = "div" /\ rhs = 0) /\ r = Floating(max)
  <2>1. r.variant = "F" /\ r.min = -max /\ r.max = max
    BY <1>5 DEF Floating
  <2>2. Reports(r, op, lhs, rhs) <=> ~Fits(r, op, lhs, rhs)
    <3>1. CASE op = "add"
      BY <1>5, <2>1, <3>1, AddFloating DEF Reports, Exact, Fits
    <3>2. CASE op = "sub"
      BY <1>5, <2>1, <3>2, SubFloating DEF Reports, Exact, Fits
    <3>3. CASE op = "mul"
      <4>1. Fits(r, op, lhs, rhs) <=> (-max) * UNIT <= lhs * rhs /\ lhs * rhs <= max * UNIT
        BY <2>1, <3>3 DEF Fits
      <4> QED
        BY <1>5, <2>1, <3>3, <4>1, MulFloating DEF Reports, Risky
    <3>4. CASE op = "div"
      <4>1. Fits(r, op, lhs, rhs) <=>
               IF rhs > 0 THEN (-max) * rhs <= lhs * UNIT /\ lhs * UNIT <= max * rhs
                          ELSE (-max) * rhs >= lhs * UNIT /\ lhs * UNIT >= max * rhs
        BY <1>5, <2>1, <3>4 DEF Fits
      <4> QED
        BY <1>5, <2>1, <3>4, <4>1, DivFloating DEF Reports
    <3> QED
      BY <3>1, <3>2, <3>3, <3>4 DEF Operations
  <2> QED
    BY <1>5, <2>2 DEF arithmetic_error
<1> QED
  BY <1>1, <1>2, <1>3, <1>4, <1>5

(* Casts report an error exactly if the number does not fit into the type  *)
(* that it is cast to.                                                     *)
LEMMA CastReports ==
    ASSUME NEW s \in Types, NEW d \in Types, NEW value \in Values(s)
    PROVE  cast_error(s, d, value) = "none" <=> Converted(s, d, value) \in Values(d)
<1> DEFINE x == Converted(s, d, value)
<1>1. PICK smax \in Nat \ {0} : s \in {Signed(smax), Unsigned(smax), Floating(smax)}
  BY DEF Types
<1>2. PICK dmax \in Nat \ {0} : d \in {Signed(dmax), Unsigned(dmax), Floating(dmax)}
  BY DEF Types
<1>3. value \in Int /\ (s = Unsigned(smax) => value >= 0)
  BY <1>1 DEF Signed, Unsigned, Floating, Values
<1>4. x \in Int /\ (value >= 0 => x >= 0)
  BY <1>3, UnitAssumption DEF Converted
<1>5. d = Unsigned(dmax) => x = value
  BY DEF Converted, Unsigned
<1>6. /\ IsSigned(s) <=> s # Unsigned(smax)
      /\ IsSigned(d) <=> d # Unsigned(dmax)
  BY <1>1, <1>2 DEF IsSigned, Signed, Unsigned, Floating
<1> HIDE DEF x
<1>7. IsSigned(s) \in BOOLEAN /\ IsSigned(d) \in BOOLEAN /\ (~IsSigned(s) => value >= 0)
  BY <1>1, <1>3, <1>6 DEF IsSigned
<1>8. CAST(s, d, value) <=> x \notin Values(d)
  <2>1. CASE IsSigned(s) = IsSigned(d)
    <3>1. CAST(s, d, value) <=> x < d.min \/ x > d.max
      BY <2>1 DEF CAST, x
    <3>2. d.min \in Int /\ d.max \in Int
      BY <1>2 DEF Signed, Unsigned, Floating
    <3> QED
      BY <1>4, <3>1, <3>2 DEF Values
  <2>2. CASE IsSigned(s) /\ ~IsSigned(d)
    <3>1. CAST(s, d, value) <=>
             \/ value > 0 /\ (x > d.max \/ (d.min > 0 /\ x < d.min))
             \/ value = 0 /\ (d.min > 0 \/ d.max < x)
             \/ value < 0
      BY <2>2, <1>7 DEF CAST, x
    <3>2. d = Unsigned(dmax) /\ d.min = 0 /\ d.max = dmax
      BY <1>6, <2>2 DEF Unsigned
    <3>3. x = value
      BY <1>5, <3>2
    <3> QED
      BY <1>3, <3>1, <3>2, <3>3 DEF Values
  <2>3. CASE ~IsSigned(s) /\ IsSigned(d)
    <3>1. CAST(s, d, value) <=> x > d.max \/ (d.min > 0 /\ x < d.min)
      BY <2>3, <1>7 DEF CAST, x
    <3>2. d.min \in Int /\ d.max \in Int /\ d.min < 0
      BY <1>2, <1>6, <2>3 DEF Signed, Floating
    <3>3. x \in Int /\ x >= 0
      BY <1>4, <1>7, <2>3
    <3> QED
      BY <3>1, <3>2, <3>3 DEF Values
  <2> QED
    BY <1>7, <2>1, <2>2, <2>3
<1> QED
  BY <1>8 DEF cast_error, x

(* A quotient rounded towards zero is within the bounds of the exact one.  *)
LEMMA QuotientBound ==
    ASSUME NEW a \in Int, NEW b \in Int, b # 0, NEW m \in Nat,
           IF b > 0 THEN -(m * b) <= a /\ a <= m * b ELSE -(m * b) >= a /\ a >= m * b
    PROVE  Quot(a, b) \in -m .. m
<1> DEFINE Abs(x) == IF x < 0 THEN -x ELSE x
           q == Abs(a) \div Abs(b)
<1>1. Abs(a) \in Nat /\ Abs(b) \in Nat \ {0}
  OBVIOUS
<1>2. m * Abs(b) = IF b > 0 THEN m * b ELSE -(m * b)
  OBVIOUS
<1>3. m * b \in Int
  OBVIOUS
<1>4. Abs(a) <= m * Abs(b)
  BY <1>2, <1>3
<1>5. (m + 1) * Abs(b) = m * Abs(b) + Abs(b) /\ m * Abs(b) \in Int
  BY <1>1
<1>6. Abs(a) < (m + 1) * Abs(b)
  BY <1>1, <1>4, <1>5
<1>7. q < m + 1
  BY <1>1, <1>6, DivLess
<1>8. q \in Nat
  BY <1>1, DivBound
<1>9. Quot(a, b) = IF (a < 0) = (b < 0) THEN q ELSE -q
  BY DEF Quot
<1> HIDE DEF q
<1> QED
  BY <1>7, <1>8, <1>9

(* The result of an operation that fits is a value of the type.            *)
LEMMA FittingResult ==
    ASSUME NEW r \in Types, NEW op \in Operations,
           NEW lhs \in Values(r), NEW rhs \in Values(r), Fits(r, op, lhs, rhs)
    PROVE  Exact(r, op, lhs, rhs) \in Values(r)
<1>1. PICK max \in Nat \ {0} : r \in {Signed(max), Unsigned(max), Floating(max)}
  BY DEF Types
<1>2. lhs \in Int /\ rhs \in Int
  BY <1>1 DEF Signed, Unsigned, Floating, Values
<1>3. CASE op = "mul" /\ r.variant = "F"
  <2>1. r = Floating(max)
    BY <1>1, <1>3 DEF Signed, Unsigned
  <2>2. (-max) * UNIT <= lhs * rhs /\ lhs * rhs <= max * UNIT
    BY <1>3, <2>1 DEF Fits, Floating
  <2>3. lhs * rhs \in Int /\ (-max) * UNIT = -(max * UNIT) /\ UNIT \in Nat \ {0}
    BY <1>2, UnitAssumption
  <2>4. Quot(lhs * rhs, UNIT) \in -max .. max
    BY <2>2, <2>3, QuotientBound
  <2> QED
    BY <1>3, <2>1, <2>4 DEF Exact, Floating, Values
<1>4. CASE op = "div" /\ r.variant = "F" /\ rhs # 0
  <2>1. r = Floating(max)
    BY <1>1, <1>4 DEF Signed, Unsigned
  <2>2. IF rhs > 0 THEN (-max) * rhs <= lhs * UNIT /\ lhs * UNIT <= max * rhs
                   ELSE (-max) * rhs >= lhs * UNIT /\ lhs * UNIT >= max * rhs
    BY <1>4, <2>1 DEF Fits, Floating
  <2>3. lhs * UNIT \in Int /\ (-max) * rhs = -(max * rhs)
    BY <1>2, UnitAssumption
  <2>4. Quot(lhs * UNIT, rhs) \in -max .. max
    BY <1>2, <1>4, <2>2, <2>3, QuotientBound
  <2> QED
    BY <1>4, <2>1, <2>4 DEF Exact, Floating, Values
<1>5. CASE ~(op = "mul" /\ r.variant = "F") /\ ~(op = "div" /\ r.variant = "F" /\ rhs # 0)
  BY <1>5 DEF Fits
<1> QED
  BY <1>3, <1>4, <1>5

-----------------------------------------------------------------------------
(* The transaction.                                                        *)

(* A running transaction has met no error, and its number is one of its    *)
(* type, so that the next operation is given arguments that it can take.   *)
NumberInv ==
    /\ phase \in {"idle", "running", "failing", "recovery"}
    /\ phase = "running" => error = "none"
    /\ number = [type |-> number.type, value |-> number.value]
    /\ number.type \in Names
    /\ number.value \in Values(Type(number.type))
    /\ ArithmeticIsExact

(* The smallest and the largest number of a type enclose 0.                *)
LEMMA ZeroIsANumber == Zero.type \in Names /\ Zero.value \in Values(Type(Zero.type))
<1>1. Type("int") = Signed(MAX["int"]) /\ MAX["int"] \in Nat \ {0}
  BY MaxAssumption DEF Type, int_type, Names, Integral
<1> QED
  BY <1>1 DEF Zero, Names, Integral, Signed, Values

(* The invariant holds before the first transaction.                       *)
LEMMA NumberInvInit == Init => NumberInv
<1> SUFFICES ASSUME Init PROVE NumberInv
  OBVIOUS
<1>1. phase = "idle" /\ number = Zero /\ Zero = [type |-> Zero.type, value |-> Zero.value]
  BY DEF Init, Zero
<1> QED
  BY <1>1, ZeroIsANumber DEF NumberInv, ArithmeticIsExact

(* Every operation reports what does not fit, or stores what does.         *)
LEMMA NumberInvArith ==
    ASSUME Risks = {}, NumberInv, NEW op \in Operations,
           NEW rhs \in Values(Type(number.type)), Arith(op, rhs)
    PROVE  NumberInv'
<1> DEFINE r == Type(number.type)
           lhs == number.value
<1>1. r \in Types /\ lhs \in Values(r) /\ rhs \in Values(r) /\ ~Risky(r, op, lhs, rhs)
  BY TypeOfName DEF NumberInv, Arith
<1>2. error' = "none" <=> fits'
  BY <1>1, ArithmeticReports DEF Arith, report_errno
<1>3. phase' \in {"running", "failing"} /\ (phase' = "running" => error' = "none")
  BY DEF Arith, report_errno
<1>4. CASE error' = "none"
  <2>1. Fits(r, op, lhs, rhs)
    BY <1>2, <1>4 DEF Arith
  <2>2. Stored(r, Exact(r, op, lhs, rhs)) \in Values(r)
    BY <1>1, <2>1, FittingResult, StoredValue
  <2>3. number' = [number EXCEPT !.value = Stored(r, Exact(r, op, lhs, rhs))]
    BY <1>4 DEF Arith
  <2>4. number' = [type |-> number.type, value |-> Stored(r, Exact(r, op, lhs, rhs))]
    BY <2>3 DEF NumberInv
  <2> QED
    BY <1>2, <1>3, <2>2, <2>4 DEF NumberInv, ArithmeticIsExact
<1>5. CASE error' # "none"
  <2>1. number' = number
    BY <1>5 DEF Arith
  <2> QED
    BY <1>2, <1>3, <2>1 DEF NumberInv, ArithmeticIsExact
<1> QED
  BY <1>4, <1>5

(* Every cast reports what does not fit, or stores what does (CAST_TX).    *)
LEMMA NumberInvCast ==
    ASSUME NumberInv, NEW name \in Casts(number.type), Cast(name)
    PROVE  NumberInv'
<1> DEFINE s == Type(number.type)
           d == Type(name)
           x == Converted(s, d, number.value)
<1>0. name \in Names
  BY DEF NumberInv, Casts, Names, Integral, FloatingPoint, Bool_casts, char_casts, schar_casts,
         short_casts, int_casts, long_casts, llong_casts, uchar_casts, ushort_casts, uint_casts,
         ulong_casts, ullong_casts, float_casts, double_casts, ldouble_casts
<1>1. s \in Types /\ d \in Types /\ number.value \in Values(s)
  BY <1>0, TypeOfName DEF NumberInv
<1>2. error' = "none" <=> fits'
  BY <1>1, CastReports DEF Cast, report_errno
<1>3. phase' \in {"running", "failing"} /\ (phase' = "running" => error' = "none")
  BY DEF Cast, report_errno
<1>4. CASE error' = "none"
  <2>1. x \in Values(d)
    BY <1>2, <1>4 DEF Cast
  <2>2. Stored(d, x) \in Values(d)
    BY <2>1, StoredValue
  <2>3. number' = [type |-> name, value |-> Stored(d, x)]
    BY <1>4 DEF Cast
  <2> QED
    BY <1>0, <1>2, <1>3, <2>2, <2>3 DEF NumberInv, ArithmeticIsExact
<1>5. CASE error' # "none"
  BY <1>2, <1>3, <1>5 DEF Cast, NumberInv, ArithmeticIsExact
<1> QED
  BY <1>4, <1>5

(* The calls of the other program, and the transaction itself, leave the   *)
(* number alone.                                                           *)
LEMMA NumberInvCall ==
    ASSUME NumberInv, Call
    PROVE  NumberInv'
<1>1. program = "functions" /\ phase = "running" /\ program' = program /\ number' = number
  BY DEF Call, picotm_libm_save_fenv, picotm_libm_save_fexcept, feraiseexcept, MATHERR, Plain,
         Calling
<1>2. phase' \in {"running", "failing"} /\ (phase' = "running" => error' = "none")
  BY DEF Call, picotm_libm_save_fenv, picotm_libm_save_fexcept, feraiseexcept, MATHERR, Plain,
         Calling, NumberInv, report_errno
<1> QED
  BY <1>1, <1>2 DEF NumberInv, ArithmeticIsExact

(* Each step keeps the invariant.                                          *)
LEMMA NumberInvNext ==
    ASSUME Risks = {}
    PROVE  NumberInv /\ [Next]_vars => NumberInv'
<1> SUFFICES ASSUME NumberInv, [Next]_vars PROVE NumberInv'
  OBVIOUS
<1>1. CASE Begin
  <2>1. phase' = "running" /\ error' = "none" /\ fits' = TRUE /\ number' = Zero
    BY <1>1 DEF Begin
  <2>2. Zero = [type |-> Zero.type, value |-> Zero.value]
    BY DEF Zero
  <2> QED
    BY <2>1, <2>2, ZeroIsANumber DEF NumberInv, ArithmeticIsExact
<1>2. CASE Commit
  BY <1>2 DEF Commit, NumberInv, ArithmeticIsExact
<1>3. CASE Conflict
  BY <1>3 DEF Conflict, NumberInv, ArithmeticIsExact
<1>4. CASE RollBack
  BY <1>4 DEF RollBack, NumberInv, ArithmeticIsExact
<1>5. CASE Compute
  <2>1. ASSUME NEW name \in Names, NEW value \in Values(Type(name)), load(name, value)
        PROVE  NumberInv'
    BY <2>1 DEF load, Computing, NumberInv, ArithmeticIsExact
  <2>2. ASSUME NEW op \in Operations, NEW rhs \in Values(Type(number.type)), Arith(op, rhs)
        PROVE  NumberInv'
    BY <2>2, NumberInvArith
  <2>3. ASSUME NEW name \in Casts(number.type), Cast(name)
        PROVE  NumberInv'
    BY <2>3, NumberInvCast
  <2> QED
    BY <1>5, <2>1, <2>2, <2>3 DEF Compute
<1>6. CASE Call
  BY <1>6, NumberInvCall
<1>7. CASE UNCHANGED vars
  BY <1>7 DEF vars, NumberInv, ArithmeticIsExact
<1> QED
  BY <1>1, <1>2, <1>3, <1>4, <1>5, <1>6, <1>7 DEF Next

(* Whatever the ranges of the types: the functions of arithmetic and cast  *)
(* report an error exactly if the result does not fit, unless a signed     *)
(* factor is negative, a floating-point factor is between 0 and 1, or the  *)
(* smallest number is taken from 0 (picotm-arithmetic.h, picotm-cast.h).   *)
THEOREM ArithmeticIsExactAlways ==
    ASSUME Risks = {}
    PROVE  Spec => []ArithmeticIsExact
<1>1. NumberInv => ArithmeticIsExact
  BY DEF NumberInv
<1> QED
  BY <1>1, NumberInvInit, NumberInvNext, PTL DEF Spec

-----------------------------------------------------------------------------
(* The floating-point unit.                                                *)

(* What a roll-back would restore is what the transaction has found.       *)
UnitInv ==
    /\ saved = [fenv |-> saved.fenv, fexcept |-> saved.fexcept, errno |-> saved.errno]
    /\ phase \in {"idle", "recovery"} => saved = fpu_tx_init
    /\ phase \in {"running", "failing"} =>
          /\ begun.flags = Restored(saved.fexcept, Restored(saved.fenv, flags))
          /\ begun.errno = Restored(saved.errno, errno)
    /\ RollBackRestoresTheUnit

(* What is saved first is what is restored, whatever becomes of the value. *)
LEMMA FirstSaveCounts ==
    ASSUME NEW save, NEW now, NEW later
    PROVE  Restored(Saved(save, now), later) = Restored(save, now)
<1>1. CASE save = NotSaved
  <2>1. Saved(save, now) = {now} /\ Restored(save, now) = now
    BY <1>1 DEF Saved, Restored
  <2>2. {now} # NotSaved /\ (CHOOSE x \in {now} : TRUE) = now
    BY DEF NotSaved
  <2> QED
    BY <2>1, <2>2 DEF Restored
<1>2. CASE save # NotSaved
  BY <1>2 DEF Saved, Restored
<1> QED
  BY <1>1, <1>2

(* Nothing is saved before the first transaction (fpu_tx_init).            *)
LEMMA UnitInvInit == Init => UnitInv
  BY DEF Init, UnitInv, fpu_tx_init, RollBackRestoresTheUnit

(* A function of libm saves the flags and errno before it changes them.    *)
LEMMA UnitInvMatherr ==
    ASSUME Risks = {}, UnitInv, NEW f, NEW x, NEW e, MATHERR(f, x, e)
    PROVE  UnitInv'
<1>1. phase = "running" /\ phase' \in {"running", "failing"} /\ begun' = begun
  BY DEF MATHERR, Calling, report_errno
<1>2. saved' = [fenv |-> saved.fenv, fexcept |-> Saved(saved.fexcept, flags),
                errno |-> Saved(saved.errno, errno)]
  BY DEF MATHERR, matherr_save_and_clear, fpu_tx_save_fexcept, UnitInv
<1>3. begun.errno = Restored(saved'.errno, errno')
  BY <1>1, <1>2, FirstSaveCounts DEF UnitInv
<1>4. begun.flags = Restored(saved'.fexcept, Restored(saved'.fenv, flags'))
  <2>1. Restored(saved'.fexcept, Restored(saved'.fenv, flags')) = Restored(saved.fexcept, flags)
    BY <1>2, FirstSaveCounts
  <2>2. saved.fenv = NotSaved \/ saved.fexcept # NotSaved
    BY DEF MATHERR
  <2>3. Restored(saved.fexcept, Restored(saved.fenv, flags)) = Restored(saved.fexcept, flags)
    BY <2>2 DEF Restored
  <2> QED
    BY <1>1, <2>1, <2>3 DEF UnitInv
<1> QED
  BY <1>1, <1>2, <1>3, <1>4 DEF UnitInv, RollBackRestoresTheUnit

(* So does everything that a program may call without a risk.              *)
LEMMA UnitInvCall ==
    ASSUME Risks = {}, UnitInv, Call
    PROVE  UnitInv'
<1>1. CASE picotm_libm_save_fenv
  <2>1. saved' = [fenv |-> Saved(saved.fenv, flags), fexcept |-> saved.fexcept,
                  errno |-> saved.errno]
    BY <1>1 DEF picotm_libm_save_fenv, fpu_tx_save_fenv, UnitInv
  <2>2. Restored(saved'.fenv, flags') = Restored(saved.fenv, flags)
    BY <1>1, <2>1, FirstSaveCounts
  <2> QED
    BY <1>1, <2>1, <2>2 DEF picotm_libm_save_fenv, Calling, UnitInv, RollBackRestoresTheUnit
<1>2. CASE picotm_libm_save_fexcept
  <2>1. saved' = [fenv |-> saved.fenv, fexcept |-> Saved(saved.fexcept, flags),
                  errno |-> saved.errno]
    BY <1>2 DEF picotm_libm_save_fexcept, fpu_tx_save_fexcept, UnitInv
  <2>2. saved.fenv = NotSaved
    BY <1>2 DEF picotm_libm_save_fexcept
  <2>3. Restored(saved'.fexcept, Restored(saved'.fenv, flags'))
           = Restored(saved.fexcept, Restored(saved.fenv, flags))
    <3>1. Restored(saved.fenv, flags) = flags /\ Restored(saved'.fenv, flags') = flags
      BY <1>2, <2>1, <2>2 DEF Restored, picotm_libm_save_fexcept
    <3>2. Restored(saved'.fexcept, flags) = Restored(saved.fexcept, flags)
      BY <2>1, FirstSaveCounts
    <3> QED
      BY <3>1, <3>2
  <2> QED
    BY <1>2, <2>1, <2>3 DEF picotm_libm_save_fexcept, Calling, UnitInv, RollBackRestoresTheUnit
<1>3. ASSUME NEW new, feraiseexcept(new) PROVE UnitInv'
  <2>1. saved.fenv # NotSaved \/ saved.fexcept # NotSaved
    BY <1>3 DEF feraiseexcept, FlagsAreSaved
  <2>2. Restored(saved.fexcept, Restored(saved.fenv, flags'))
           = Restored(saved.fexcept, Restored(saved.fenv, flags))
    BY <2>1 DEF Restored
  <2> QED
    BY <1>3, <2>2 DEF feraiseexcept, Calling, UnitInv, RollBackRestoresTheUnit
<1>4. ASSUME NEW f, NEW x, NEW e, MATHERR(f, x, e) PROVE UnitInv'
  BY <1>4, UnitInvMatherr
<1>5. ASSUME NEW f, NEW x, NEW e, Plain(f, x, e) PROVE UnitInv'
  <2>1. x = {} \/ saved.fenv # NotSaved \/ saved.fexcept # NotSaved
    BY <1>5 DEF Plain, FlagsAreSaved
  <2>2. Restored(saved.fexcept, Restored(saved.fenv, flags'))
           = Restored(saved.fexcept, Restored(saved.fenv, flags))
    <3>1. CASE x = {}
      <4>1. flags' = flags \cup {}
        BY <1>5, <3>1 DEF Plain
      <4>2. flags \cup {} = flags
        OBVIOUS
      <4> QED
        BY <4>1, <4>2
    <3>2. CASE saved.fenv # NotSaved \/ saved.fexcept # NotSaved
      BY <3>2 DEF Restored
    <3> QED
      BY <2>1, <3>1, <3>2
  <2>3. Restored(saved.errno, errno') = Restored(saved.errno, errno)
    BY <1>5 DEF Plain, Restored
  <2> QED
    BY <1>5, <2>2, <2>3 DEF Plain, Calling, UnitInv, RollBackRestoresTheUnit
<1> QED
  BY <1>1, <1>2, <1>3, <1>4, <1>5 DEF Call

(* Each step keeps what a roll-back would restore (fpu_tx_undo).           *)
LEMMA UnitInvNext ==
    ASSUME Risks = {}
    PROVE  UnitInv /\ [Next]_vars => UnitInv'
<1> SUFFICES ASSUME UnitInv, [Next]_vars PROVE UnitInv'
  OBVIOUS
<1>1. CASE Begin
  <2>1. saved = fpu_tx_init /\ saved' = saved /\ flags' = flags /\ errno' = errno
    BY <1>1 DEF Begin, UnitInv
  <2>2. saved.fexcept = NotSaved /\ saved.fenv = NotSaved /\ saved.errno = NotSaved
    BY <2>1 DEF fpu_tx_init
  <2>3. begun'.flags = flags /\ begun'.errno = errno /\ phase' = "running"
    BY <1>1 DEF Begin
  <2> QED
    BY <2>1, <2>2, <2>3 DEF UnitInv, Restored, RollBackRestoresTheUnit
<1>2. CASE Commit
  BY <1>2 DEF Commit, fpu_tx_finish, fpu_tx_init, UnitInv, RollBackRestoresTheUnit
<1>3. CASE Conflict
  BY <1>3 DEF Conflict, unit, UnitInv, RollBackRestoresTheUnit
<1>4. CASE RollBack
  <2>1. flags' = begun.flags /\ errno' = begun.errno /\ begun' = begun
    BY <1>4 DEF RollBack, fpu_tx_undo, error_tx_undo, UnitInv
  <2> QED
    BY <1>4, <2>1 DEF RollBack, fpu_tx_finish, fpu_tx_init, UnitInv, RollBackRestoresTheUnit
<1>5. CASE Compute
  BY <1>5 DEF Compute, load, Arith, Cast, Computing, report_errno, unit, UnitInv,
              RollBackRestoresTheUnit
<1>6. CASE Call
  BY <1>6, UnitInvCall
<1>7. CASE UNCHANGED vars
  BY <1>7 DEF vars, UnitInv, RollBackRestoresTheUnit
<1> QED
  BY <1>1, <1>2, <1>3, <1>4, <1>5, <1>6, <1>7 DEF Next

(* Whatever is called in whatever order: the recovery finds the flags and  *)
(* errno as they were, unless flags are changed without having been saved  *)
(* or both the environment and the flags are saved (fpu_tx_undo).          *)
THEOREM RollBackRestoresTheUnitAlways ==
    ASSUME Risks = {}
    PROVE  Spec => []RollBackRestoresTheUnit
<1>1. UnitInv => RollBackRestoresTheUnit
  BY DEF UnitInv
<1> QED
  BY <1>1, UnitInvInit, UnitInvNext, PTL DEF Spec

(* Whatever the functions and what they raise: no transaction goes on      *)
(* after an exception that is tested (matherr_test_and_resolve).           *)
THEOREM NoExceptionIsMissedEver == Spec => []NoExceptionIsMissed
<1>1. Init => NoExceptionIsMissed
  BY DEF Init, NoExceptionIsMissed
<1>2. NoExceptionIsMissed /\ [Next]_vars => NoExceptionIsMissed'
  <2> SUFFICES ASSUME NoExceptionIsMissed, [Next]_vars PROVE NoExceptionIsMissed'
    OBVIOUS
  <2>1. ASSUME NEW f, NEW x \in SUBSET Tested[f], NEW e, MATHERR(f, x, e)
        PROVE  NoExceptionIsMissed'
    <3>1. /\ raised' = x /\ flags' = flags \cup x /\ errno' = e
          /\ phase' = IF error' = "none" THEN "running" ELSE "failing"
          /\ error' = matherr_test_and_resolve(Tested[f], errno', flags')
      BY <2>1 DEF MATHERR, report_errno
    <3>2. x # {} => flags' \cap Tested[f] # {}
      BY <3>1
    <3>3. x # {} => matherr_test_and_resolve(Tested[f], errno', flags') # "none"
      BY <3>2 DEF matherr_test_and_resolve
    <3> QED
      BY <3>1, <3>3 DEF NoExceptionIsMissed
  <2>2. CASE Begin \/ Commit \/ Conflict \/ RollBack \/ Compute \/ UNCHANGED vars
    BY <2>2 DEF NoExceptionIsMissed, Begin, Commit, Conflict, RollBack, Compute, load, Arith,
                Cast, Computing, report_errno, unit, vars
  <2>3. ASSUME NEW f, NEW x, NEW e, Plain(f, x, e) PROVE NoExceptionIsMissed'
    BY <2>3 DEF Plain, NoExceptionIsMissed
  <2>4. ASSUME NEW new, feraiseexcept(new) PROVE NoExceptionIsMissed'
    BY <2>4 DEF feraiseexcept, NoExceptionIsMissed
  <2>5. CASE picotm_libm_save_fenv \/ picotm_libm_save_fexcept
    BY <2>5 DEF picotm_libm_save_fenv, picotm_libm_save_fexcept, NoExceptionIsMissed
  <2> QED
    BY <2>1, <2>2, <2>3, <2>4, <2>5 DEF Next, Call
<1> QED
  BY <1>1, <1>2, PTL DEF Spec

=============================================================================
