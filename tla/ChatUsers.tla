------------------------------ MODULE ChatUsers ------------------------------
(* The people that chat-svc and socket-gateway both know by their ids. *)
CONSTANTS
    Users,          \* parents and babysitters
    None            \* SQL null, an empty slot, no socket
=============================================================================
