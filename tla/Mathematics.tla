----------------------------- MODULE Mathematics -----------------------------
(***************************************************************************)
(* The functions of libm and the exceptions that each tests, a name for    *)
(* the variants for double, float and long double.  The tables follow      *)
(* math.c and math-tm.c in the order of the source.                        *)
(***************************************************************************)
EXTENDS TLC

INVALID   == "FE_INVALID"
DIVBYZERO == "FE_DIVBYZERO"
OVERFLOW  == "FE_OVERFLOW"
UNDERFLOW == "FE_UNDERFLOW"
Exceptions == {INVALID, DIVBYZERO, OVERFLOW, UNDERFLOW}

(* Nothing is saved and nothing tested, although some of these functions   *)
(* raise exceptions and set errno.                                         *)
None == {}

acos_to_asinh ==
    [acos |-> {INVALID}, acosh |-> {INVALID}, asin |-> {INVALID, UNDERFLOW},
     asinh |-> {UNDERFLOW}]
atan_to_ceil ==
    [atan |-> {UNDERFLOW}, atan2 |-> {UNDERFLOW}, atanh |-> {INVALID, DIVBYZERO, UNDERFLOW},
     cbrt |-> None, ceil |-> None]
copysign_to_erfc ==
    [copysign |-> None, cos |-> {INVALID}, cosh |-> {OVERFLOW}, erf |-> {UNDERFLOW},
     erfc |-> {UNDERFLOW}]
exp_to_fdim ==
    [exp |-> {OVERFLOW, UNDERFLOW}, exp2 |-> {OVERFLOW, UNDERFLOW},
     expm1 |-> {OVERFLOW, UNDERFLOW}, fabs |-> None, fdim |-> {OVERFLOW, UNDERFLOW}]
floor_to_fmod ==
    [floor |-> None, fma |-> {INVALID, OVERFLOW, UNDERFLOW}, fmax |-> None, fmin |-> None,
     fmod |-> {INVALID, UNDERFLOW}]
frexp_to_ldexp ==
    [frexp |-> None, hypot |-> {OVERFLOW, UNDERFLOW}, ilogb |-> {INVALID},
     j0 |-> {UNDERFLOW}, j1 |-> {UNDERFLOW}, jn |-> {UNDERFLOW},
     ldexp |-> {OVERFLOW, UNDERFLOW}]
lgamma_to_log10 ==
    [lgamma |-> {DIVBYZERO, OVERFLOW}, llrint |-> {INVALID}, llround |-> {INVALID},
     log10 |-> {INVALID, DIVBYZERO}]
log1p_to_lrint ==
    [log1p |-> {INVALID, DIVBYZERO, UNDERFLOW}, log2 |-> {INVALID, DIVBYZERO},
     logb |-> {DIVBYZERO}, log |-> {INVALID, DIVBYZERO}, lrint |-> {INVALID}]
lround_to_nearbyint ==
    [lround |-> {INVALID}, modf |-> None, nan |-> None, nearbyint |-> None]
nextafter_to_remainder ==
    [nextafter |-> {OVERFLOW, UNDERFLOW}, nexttoward |-> {OVERFLOW, UNDERFLOW},
     pow |-> {INVALID, DIVBYZERO, OVERFLOW, UNDERFLOW}, remainder |-> {INVALID}]
rint_to_scalbn ==
    [rint |-> None, round |-> None, scalbln |-> {OVERFLOW, UNDERFLOW},
     scalbn |-> {OVERFLOW, UNDERFLOW}]
sin_to_tanh ==
    [sin |-> {INVALID, UNDERFLOW}, sinh |-> {OVERFLOW, UNDERFLOW}, sqrt |-> {INVALID},
     tan |-> {INVALID, OVERFLOW, UNDERFLOW}, tanh |-> {UNDERFLOW}]
tgamma_to_yn ==
    [tgamma |-> Exceptions, trunc |-> None, y0 |-> Exceptions, y1 |-> Exceptions,
     yn |-> Exceptions]
remquo == [remquo |-> {INVALID}]

Functions_of_math ==
    acos_to_asinh @@ atan_to_ceil @@ copysign_to_erfc @@ exp_to_fdim @@ floor_to_fmod
    @@ frexp_to_ldexp @@ lgamma_to_log10 @@ log1p_to_lrint @@ lround_to_nearbyint
    @@ nextafter_to_remainder @@ rint_to_scalbn @@ sin_to_tanh @@ tgamma_to_yn @@ remquo

(* No function of complex numbers tests anything.                          *)
cabs_to_casin == {"cabs", "cacos", "cacosh", "carg", "casin"}
casinh_to_catanh == {"casinh", "catan", "catanh"}
ccos_to_cimag == {"ccos", "ccosh", "cexp", "cimag"}
clog_to_creal == {"clog", "conj", "cpow", "cproj", "creal"}
csin_to_csqrt == {"csin", "csinh", "csqrt"}
ctan_to_ctanh == {"ctan", "ctanh"}
Functions_of_complex ==
    cabs_to_casin \cup casinh_to_catanh \cup ccos_to_cimag \cup clog_to_creal
    \cup csin_to_csqrt \cup ctan_to_ctanh

(* The exceptions that f tests.                                            *)
Tested == Functions_of_math @@ [f \in Functions_of_complex |-> None]
=============================================================================
