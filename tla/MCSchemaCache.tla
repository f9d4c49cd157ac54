---------------------------- MODULE MCSchemaCache ----------------------------
(* SchemaCache for TLC: the worker and one informer; two kinds, so that the *)
(* CRD controller can handle two changes out of order.                      *)
EXTENDS SchemaCache, TLC

CONSTANTS worker, informer, k1, k2

Symmetry == Permutations(Threads) \cup Permutations(Kinds)
=============================================================================
