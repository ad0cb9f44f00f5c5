------------------------------ MODULE MC_Talk ------------------------------
(* Talk on one, two or four connections.  The connections of a side that run in
   the same direction are interchangeable.                                    *)
EXTENDS Talk, TLC

Perms == Permutations(Conns \ ReverseConns) \cup Permutations(ReverseConns)
=============================================================================
