\* Two users and the administrator; two calls at a time, one of them a message.
SPECIFICATION Spec
CONSTANTS
    Users = {u1, u2}
    Admin = Admin
    Convs = {c1, c2}
    Calls = {k1, k2}
    SocketIds = {s1, s2}
    SOCKET_KEY = SOCKET_KEY
    None = None
    MaxMessages = 2
    MaxEvents = 4
    MaxFaults = 1
SYMMETRY Interchangeable
 
INVARIANT ListHasPartners
INVARIANT LatestSocketIsFound
INVARIANT SteadyReceiverIsShown
PROPERTY MessagesReachTheReceiver
PROPERTY TalkKeepsItsConversation
CHECK_DEADLOCK FALSE
