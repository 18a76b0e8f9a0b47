---------------------------- MODULE MCMysqlFile ----------------------------
(* MysqlFile on a small instance: threads, names, descriptors and streams  *)
(* are interchangeable.                                                    *)
EXTENDS MysqlFile, TLC

Symmetry == Permutations(Threads) \cup Permutations(Names)
            \cup Permutations(Descriptors) \cup Permutations(Streams)
=============================================================================
