--------------------------- MODULE MCMysqlRwlock ---------------------------
(* MysqlRwlock on a small instance, with interchangeable threads.          *)
EXTENDS MysqlRwlock, TLC

Symmetry == Permutations(Threads)
=============================================================================
