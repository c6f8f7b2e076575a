------------------------------ MODULE MCFildes ------------------------------
(* Model checking of Fildes.                                               *)
EXTENDS Fildes

CONSTANTS t1, t2, b1, b2, l1, l2,
    pr, pw, qr, qw, d0, d1, s1, s2,     \* open file descriptions
    pb, qb, db, eb, sb, sb2             \* and their files

TwoThreads == {t1, t2}
ThreadSymmetry == Permutations(TwoThreads)

MCOfds == {pr, pw, qr, qw, d0, d1, s1, s2}
MCBuffers == {pb, qb, db, eb, sb, sb2}
MCTypeOf == [o \in {pr, pw, qr, qw} |-> "fifo"] @@ [o \in {d0, d1} |-> "dir"]
            @@ [o \in {s1, s2} |-> "socket"]
MCBufferOf == [o \in {pr, pw} |-> pb] @@ [o \in {qr, qw} |-> qb]
              @@ (d0 :> db) @@ (d1 :> eb) @@ (s1 :> sb) @@ (s2 :> sb2)

(* Descriptor 0 writes to a pipe that 1 reads; 2 is a directory, 3 a       *)
(* socket.                                                                 *)
MCNums == 0 .. 5
MCInitially == (0 :> pw) @@ (1 :> pr) @@ (2 :> d0) @@ (3 :> s1) @@ [n \in 4 .. 5 |-> NULL]

On(op, n) == [op |-> op, fd |-> n]
Write(n, x) == [op |-> "write", fd |-> n, data |-> x]
Send(n, x) == [op |-> "send", fd |-> n, data |-> x, flags |-> FALSE]
FcntlOn(n, cmd, arg) == [op |-> "fcntl", fd |-> n, cmd |-> cmd, arg |-> arg]
Dup(n) == [op |-> "dup", fd |-> n, cloexec |-> FALSE]
Fchmod(n, m) == [op |-> "fchmod", fd |-> n, mode |-> m]
Open(b, oflag, m) == [op |-> "open", file |-> b, oflag |-> oflag, mode |-> m]
OnFile(op, b) == [op |-> op, file |-> b, mode |-> 1]
Call0(op) == [op |-> op]
Select(ns) == [op |-> "select", fds |-> ns]

Created == Open(eb, {"O_CREAT", "O_EXCL"}, {"O_CREAT", "O_EXCL"})

Pipes == {Write(0, 1), On("read", 1), Dup(0), On("close", 0), Call0("pipe")}
Flags == {FcntlOn(0, "F_SETFD", TRUE), FcntlOn(0, "F_GETFD", FALSE), FcntlOn(1, "F_DUPFD", 3),
          FcntlOn(0, "F_SETFL", "O_APPEND"), FcntlOn(0, "F_GETFL", 0),
          FcntlOn(0, "F_GETLK", 0), Select({0, 1}), On("fstat", 0), On("close", 1)}
Directories == {Created, OnFile("mkstemp", eb), Fchmod(2, 1), On("fstat", 2), On("close", 4)}
Saves == {Fchmod(2, 1), On("fsync", 2), Call0("sync"), Dup(2)}
Paths == {OnFile(op, eb) : op \in {"chmod", "link", "unlink", "mkdir", "stat", "lstat"}}
         \cup {Created, Open(eb, {"O_TRUNC"}, {"O_TRUNC"})}
Sockets == {Call0("socket"), On("bind", 3), On("listen", 3), On("accept", 3),
            On("connect", 3), On("shutdown", 3), On("close", 4), FcntlOn(3, "F_GETFL", 0)}

Chdir(b) == [op |-> "chdir", file |-> b]
Setlocale(x, locale) == [op |-> "setlocale", category |-> x, locale |-> locale]
OnObject(op, l) == [op |-> op, object |-> l]
Free(b) == [op |-> "free", block |-> b]
Errno(e) == [op |-> "errno", errno |-> e]
Math(raises) == [op |-> "math", raises |-> raises]
Fexcept == [op |-> "fexcept", raise |-> TRUE]

Locale == {Setlocale("LC_ALL", "de"), Setlocale("LC_TIME", "en"), Setlocale("LC_CTYPE", NULL),
           Call0("localeconv")}
Objects == {OnObject("newlocale", NULL), OnObject("duplocale", l1), OnObject("freelocale", l1),
            OnObject("uselocale", l1), OnObject("uselocale", NULL)}
Directory == {Chdir(db), On("fchdir", 2), Call0("getcwd"), Call0("realpath")}
Heap == {Call0("malloc"), Call0("posix_memalign"), Free(b1), Free(b2)}
OfThread == {Errno(2), Math(FALSE), Fexcept, Chdir(db),
             [op |-> "add_signal", recoverable |-> TRUE], Call0("remove_signal"),
             Call0("clear_signals")}

(* Calls that the risks are about.                                         *)
RiskMenus == {{Fchmod(2, 1), On("fstat", 2), Call0("pipe"), Created},
              {OnObject("newlocale", NULL), OnObject("newlocale", l1), OnObject("uselocale", l1)}}

MCMenus == {Pipes, Flags, Directories, Saves, Paths, Sockets,
            Locale, Objects, Directory, Heap, OfThread}
=============================================================================
