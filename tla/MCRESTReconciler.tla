-------------------------- MODULE MCRESTReconciler --------------------------
(* RESTReconciler for TLC.                                                 *)
EXTENDS RESTReconciler

BothUrls == {[update |-> TRUE, remove |-> TRUE]}
AnyUrls == [update: BOOLEAN, remove: BOOLEAN]
=============================================================================
