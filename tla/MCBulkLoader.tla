---------------------------- MODULE MCBulkLoader ----------------------------
(* BulkLoader on small instances.                                           *)
EXTENDS BulkLoader, TLC

CONSTANTS a, b, c, h, g

TwoHosts == [i \in Items |-> IF i = a THEN h ELSE g]
OneHost == [i \in Items |-> h]
(* On one host, items that are not refused are interchangeable.           *)
Symmetry == Permutations(Items \ Denied)
=============================================================================
