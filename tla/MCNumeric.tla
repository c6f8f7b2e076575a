----------------------------- MODULE MCNumeric ------------------------------
(***************************************************************************)
(* Small ranges of numbers for the model checking of Numeric.              *)
(***************************************************************************)
EXTENDS Numeric

Limits ==
    [Bool |-> 1, char |-> 1, schar |-> 1, short |-> 3, int |-> 3, long |-> 7, llong |-> 7,
     uchar |-> 3, ushort |-> 7, uint |-> 7, ulong |-> 15, ullong |-> 15,
     float |-> 32, double |-> 36, ldouble |-> 40]

AllPrograms == {"numbers", "functions"}

(* One function for each set of exceptions that some function tests.       *)
AllFunctions ==
    {CHOOSE f \in DOMAIN Tested : Tested[f] = x : x \in {Tested[f] : f \in DOMAIN Tested}}
=============================================================================
