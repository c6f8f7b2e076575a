-------------------------- MODULE MCSharedObjects --------------------------
(***************************************************************************)
(* An instance for TLC.  Descriptors 0 and 1 stand for one open file, and  *)
(* descriptor 2 is free; file 2 has the inode of file 1, file 3 another    *)
(* one, for which the table of buffers has no second entry.  Keys have two *)
(* bits, a bit for each level of the tree.                                 *)
(***************************************************************************)
EXTENDS SharedObjects, TLC

CONSTANTS t1, t2

MCDescriptors == 0..2
MCFiles == 1..3
MCInode == <<1, 1, 2>>
MCOpenAtStart == [d \in MCDescriptors |-> IF d = 2 THEN NoFile ELSE 1]
MCSize == [file |-> 2, buffer |-> 1]
MCMaps == {1, 2}
MCNodes == 3..9
MCPointers == {0, 3}
MCRecords == {0}
MCWords == {1}

(* Threads are interchangeable. *)
ThreadSymmetry == Permutations(Threads)

(* Descriptors; records; pointers.                                          *)
MCMenus == {{"use", "close", "open"}, {"record", "open"}, {"pointer"}}
=============================================================================
