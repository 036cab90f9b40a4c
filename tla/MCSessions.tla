------------------------------ MODULE MCSessions ------------------------------
(* Sessions on small sets of users and calls. *)
EXTENDS Sessions, TLC

\* The slots of calls are interchangeable.
Interchangeable == Permutations(Calls)
=============================================================================
