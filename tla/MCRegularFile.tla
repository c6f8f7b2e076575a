---------------------------- MODULE MCRegularFile ----------------------------
(* Model checking of RegularFile.                                          *)
EXTENDS RegularFile

CONSTANTS t1, t2, f1, f2, b1, b2

TwoThreads == {t1, t2}
OneThread == {t1}
ThreadSymmetry == Permutations(TwoThreads)

OneFile == {f1}
OneBuffer == {b1}
OneOf == [f \in {f1} |-> b1]

TwoBytes == [b \in {b1} |-> <<1, 2>>]

Read(n) == [op |-> "read", file |-> f1, n |-> n]
Pread(n, off) == [op |-> "pread", file |-> f1, n |-> n, off |-> off]
Write(data) == [op |-> "write", file |-> f1, data |-> data]
Pwrite(data, off) == [op |-> "pwrite", file |-> f1, data |-> data, off |-> off]
Lseek(off, whence) == [op |-> "lseek", file |-> f1, off |-> off, whence |-> whence]
Fsync == [op |-> "fsync", file |-> f1]
Fstat == [op |-> "fstat", file |-> f1]
Fchmod(m) == [op |-> "fchmod", file |-> f1, mode |-> m]
FcntlOn(cmd, arg) == [op |-> "fcntl", file |-> f1, cmd |-> cmd, arg |-> arg]

Offsets == {Read(1), Write(<<3>>), Lseek(0, "SEEK_CUR"), Lseek(-1, "SEEK_END"),
            Lseek(1, "SEEK_CUR")}
Regions == {Read(1), Pread(2, 0), Pread(1, 2), Write(<<3>>), Pwrite(<<4, 4>>, 1)}
Sync == {Pwrite(<<4, 4>>, 1), Write(<<3>>), Fsync, Fstat}
Attributes == {Fstat, Fchmod(1), Lseek(-1, "SEEK_END"), FcntlOn("F_GETFL", 0),
               FcntlOn("F_SETFL", 1), FcntlOn("F_GETLK", 0)}

MCMenus == {Offsets, Regions, Sync, Attributes}

(* Calls that the risks are about.                                         *)
FstatMenus == {{Fstat, Lseek(-1, "SEEK_END"), Write(<<3>>), Pwrite(<<4, 4>>, 1)}}
FourBytes == [b \in {b1} |-> <<1, 2, 1, 2>>]
RiskMenus == {{Read(3), Pread(2, 2), Pwrite(<<4>>, 3), Lseek(0, "SEEK_CUR")}}

TwoFiles == {f1, f2}
TwoBuffers == {b1, b2}
TwoOf == (f1 :> b1) @@ (f2 :> b2)
TwoInitially == [b \in TwoBuffers |-> <<1>>]
OtherFileMenus ==
    {{[op |-> "pread", file |-> f, n |-> 1, off |-> 0] : f \in TwoFiles}
    \cup {[op |-> "pwrite", file |-> f2, data |-> <<3>>, off |-> 0]}}
=============================================================================
