------------------------------- MODULE MCVMem -------------------------------
(* Model checking of VMem.                                                 *)
EXTENDS VMem, TLC

CONSTANTS t1, t2

MCThreads == {t1, t2}
ThreadSymmetry == Permutations(MCThreads)

(* Two blocks of two bytes: a part of a block, a range across both blocks, *)
(* a whole block.                                                          *)
MCRanges == {<<0, 1>>, <<1, 2>>, <<2, 2>>}

(* A string of three characters, which ends in the second block.           *)
MCInitially == {[a \in Addresses |-> IF a = 3 THEN 0 ELSE 1]}

MCFlags == {{}, {"LOAD"}, {"LOAD", "STORE"}}
=============================================================================
