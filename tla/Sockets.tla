------------------------------- MODULE Sockets -------------------------------
(***************************************************************************)
(* The table of connected clients of socket-gateway.  A socket is entered  *)
(* under the userId of its token, or under SOCKET_KEY when one of the HTTP *)
(* gateways opened it; when it closes, the entry under the id of its token *)
(* goes, and a token has no id.                                            *)
(***************************************************************************)
EXTENDS ChatUsers

CONSTANTS
    SocketIds,      \* socket.io ids, never used twice
    SOCKET_KEY      \* the shared key of the HTTP gateways

ASSUME KeyAssumption == SOCKET_KEY \notin Users /\ None \notin SocketIds

VARIABLES
    connectedClients,   \* the map of the gateway: client id to socket
    openedBy,           \* openedBy[s]: the client that opened s, None before
    open,               \* the sockets that are open now
    latest              \* history: latest[u] is the socket u opened last

socketVars == <<connectedClients, openedBy, open, latest>>

ClientIds == Users \cup {SOCKET_KEY}

SocketTypeOK ==
    /\ connectedClients \in [ClientIds -> SocketIds \cup {None}]
    /\ openedBy \in [SocketIds -> ClientIds \cup {None}]
    /\ open \subseteq SocketIds
    /\ latest \in [Users -> SocketIds \cup {None}]

SocketInit ==
    /\ connectedClients = [c \in ClientIds |-> None]
    /\ openedBy = [s \in SocketIds |-> None]
    /\ open = {}
    /\ latest = [u \in Users |-> None]

\* The token of the handshake is checked; a client with the key needs none.
handleConnection(s, c) ==
    /\ openedBy[s] = None
    /\ openedBy' = [openedBy EXCEPT ![s] = c]
    /\ open' = open \cup {s}
    /\ connectedClients' = [connectedClients EXCEPT ![c] = s]
    /\ latest' = [u \in Users |-> IF u = c THEN s ELSE latest[u]]

EntryOfClient(s) == openedBy[s]                                 \* a mutant
EntryOnDisconnect(s) == SOCKET_KEY

handleDisconnect(s) ==
    /\ s \in open
    /\ open' = open \ {s}
    /\ connectedClients' = [connectedClients EXCEPT ![EntryOnDisconnect(s)] = None]
    /\ UNCHANGED <<openedBy, latest>>

\* The process dies: the map is empty and every socket closed.
GatewayCrash ==
    /\ connectedClients' = [c \in ClientIds |-> None]
    /\ open' = {}
    /\ UNCHANGED <<openedBy, latest>>

\* What server.to(client.id).emit reaches: nobody, when the socket is closed.
Emit(s) == {s} \cap open

\* A user whose latest socket is open is found under it, whatever other
\* sockets of the user were opened before it or close after it.
LatestSocketIsFound ==
    \A u \in Users : latest[u] \in open => connectedClients[u] = latest[u]
=============================================================================
