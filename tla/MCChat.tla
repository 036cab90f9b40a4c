-------------------------------- MODULE MCChat --------------------------------
(* Chat on small sets of users, conversations, calls and sockets. *)
EXTENDS Chat, TLC

\* Ids are interchangeable: every property quantifies over them.
Interchangeable == Permutations(Users) \cup Permutations(Convs)
                   \cup Permutations(Calls) \cup Permutations(SocketIds)
=============================================================================
