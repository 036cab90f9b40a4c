------------------------------ MODULE MCAccounts ------------------------------
(* Accounts on small sets of emails, ids and calls; the assumptions about    *)
(* what is listed and reported of accounts, bookings, posts and requests,    *)
(* and about the messages between gateways and services, are evaluated       *)
(* beside them.                                                              *)
EXTENDS Accounts, Profiles, BookingLists, Listings, Reports, Routes, TLC

\* Ids, emails and slots are interchangeable.
Interchangeable == Permutations(Users) \cup Permutations(UserIds) \cup Permutations(Calls)
=============================================================================
