--------------------------- MODULE MCMysqlThread ---------------------------
(* MysqlThread on a small instance: the threads are interchangeable but    *)
(* for the main one.                                                       *)
EXTENDS MysqlThread, TLC

Symmetry == Permutations(Threads \ {Main})
=============================================================================
