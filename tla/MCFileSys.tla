------------------------------ MODULE MCFileSys ------------------------------
(* Plans for the runs of FileSys. *)
EXTENDS FileSys

Open(path, mode) == [op |-> "open", path |-> path, mode |-> mode]
Mkdir(path)      == [op |-> "mkdir", path |-> path]
Delete(path)     == [op |-> "delete", path |-> path]
Write(n, v)      == [op |-> "write", n |-> n, v |-> v]
Read(n)          == [op |-> "read", n |-> n]
Seek(mode, n)    == [op |-> "seek", mode |-> mode, offset |-> n]
Dir              == [op |-> "dir"]

Plan(paths, size, restarts, a, aCalls, b, bCalls) ==
    [paths |-> paths, size |-> size, restarts |-> restarts, torn |-> {}, left |-> [u |-> a, v |-> b], calls |-> [u |-> aCalls, v |-> bCalls]]

F == <<"f">>  G == <<"g">>  D == <<"d">>  DH == <<"d", "h">>  X == <<"flash", "x">>  Y == <<"flash", "y">>

Rewrite == Plan({F, G}, 6, 0, 4, {Open(F, "w"), Open(F, "a"), Write(4, 2)},
                              3, {Open(F, "r"), Open(G, "w"), Read(5), Delete(F)})
Tree2   == Plan({F, DH}, 4, 0, 4, {Mkdir(D), Open(DH, "w"), Write(4, 1), Delete(DH)},
                               3, {Open(F, "w"), Open(D, "r"), Dir, Delete(F)})
Seeks   == Plan({F}, 7, 0, 6, {Open(F, "w"), Write(7, 1), Write(2, 2), Read(2), Seek("set", 3), Seek("cur", -1), Seek("end", 0)},
                           0, {})
Flash   == Plan({X, Y}, 4, 1, 3, {Open(X, "w"), Open(X, "a"), Write(2, 1)},
                              2, {Open(Y, "w"), Write(4, 2)})
Cleanup == Plan({X}, 4, 1, 8, {Open(X, "w"), Write(4, 1), Delete(X)}, 0, {})

AllPlans == {Rewrite, Tree2, Seeks, Flash, Cleanup}
=============================================================================
