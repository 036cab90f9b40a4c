------------------------------ MODULE MCServices ------------------------------
(* The small services on small sets of users, bookings, requests and calls; *)
(* the assumptions of Search are evaluated beside them.                     *)
EXTENDS Services, Search, TLC

\* Ids are interchangeable.
Interchangeable == Permutations(Users) \cup Permutations(Calls)
=============================================================================
