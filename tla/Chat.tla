-------------------------------- MODULE Chat --------------------------------
(***************************************************************************)
(* A message from socket to database: socket-gateway shows it on the       *)
(* sockets of both users and asks chat-svc to store it, without waiting    *)
(* for the answer.  Users also call chat-svc through the HTTP gateways,    *)
(* and booking-svc writes to them as the administrator.                    *)
(***************************************************************************)
EXTENDS Conversations, Sockets

CONSTANTS
    MaxEvents,      \* bound: calls to chat-svc, sockets opened and faults, together
    MaxFaults       \* bound: how often a process dies or a user is removed

ASSUME ChatBounds == {MaxEvents, MaxFaults} \subseteq Nat

VARIABLES
    handling,       \* the message a socket sent that is being handled
    spent,          \* how many calls were sent, sockets opened and faults met
    faults          \* how often a process died or a user was removed

handleVars == <<handling, spent, faults>>
vars == <<chatVars, socketVars, handleVars>>

\* receiverClient is what the table held when the message came in; steady is
\* history, the receiver's latest socket at that moment.
NotHandling == [pc |-> "idle", sender |-> None, receiver |-> None,
                conversationId |-> None, receiverClient |-> None, steady |-> None]

Init ==
    /\ ChatInit
    /\ SocketInit
    /\ handling = NotHandling
    /\ spent = 0
    /\ faults = 0

\* handleMessage up to the await for the presigned urls of its files, with the
\* receiver and the conversation that the client sent.
HandleMessage(s, receiver, c) ==
    LET sender == openedBy[s] IN
    /\ handling.pc = "idle"
    /\ spent < MaxEvents
    /\ s \in open /\ sender \in Users
    /\ handling' = [pc |-> "signing", sender |-> sender, receiver |-> receiver,
                    conversationId |-> c,
                    receiverClient |-> connectedClients[receiver],
                    steady |-> latest[receiver]]
    /\ spent' = spent + 1
    /\ UNCHANGED <<chatVars, socketVars, faults>>

\* The rest of it: show, and send createMessage.
ShownOnSender == Emit(connectedClients[handling.sender])        \* a mutant
ShownOn == Emit(handling.receiverClient) \cup Emit(connectedClients[handling.sender])

EmitMessage(k) ==
    /\ handling.pc = "signing"
    /\ CreateMessage(k, handling.sender, handling.receiver, handling.conversationId)
    /\ handling' = NotHandling
    /\ UNCHANGED <<socketVars, spent, faults>>

\* Other calls of chat-svc, each by a user the gateway let in.
Ask(k) ==
    /\ spent < MaxEvents
    /\ spent' = spent + 1
    /\ \E u \in Users \ purged :
         \/ \E v \in Users : \/ getConversationByUserId(k, u, v)
                             \/ StartConversation(k, u, v)
                             \/ DraftMessage(k, u, v)
         \/ SystemOpen(k, u)
         \/ BookingMessage(k, u)
         \/ \E c \in Convs, op \in {"delete", "mute", "pin"} : ChangeOwn(k, op, u, c)
    /\ UNCHANGED <<socketVars, handling, faults>>

Serve ==
    /\ \/ \E k \in Calls : CallStep(k)
       \/ \E u \in Users, c \in Convs : SeeMessages(u, c)
    /\ UNCHANGED <<socketVars, handleVars>>

SocketStep ==
    /\ \/ /\ spent < MaxEvents
          /\ spent' = spent + 1
          /\ \E s \in SocketIds, c \in ClientIds : handleConnection(s, c)
       \/ (\E s \in SocketIds : handleDisconnect(s)) /\ UNCHANGED spent
    /\ UNCHANGED <<chatVars, handling, faults>>

Fault ==
    /\ faults < MaxFaults /\ spent < MaxEvents
    /\ faults' = faults + 1 /\ spent' = spent + 1
    /\ \/ (\E u \in Users : PurgeUser(u)) /\ UNCHANGED <<socketVars, handling>>
       \/ ChatCrash /\ UNCHANGED <<socketVars, handling>>
       \/ GatewayCrash /\ handling' = NotHandling /\ UNCHANGED chatVars

Next ==
    \/ \E s \in SocketIds, v \in Users, c \in Convs \cup {None} : HandleMessage(s, v, c)
    \/ \E k \in Calls : EmitMessage(k) \/ Ask(k)
    \/ Serve \/ SocketStep \/ Fault

Spec == Init /\ [][Next]_vars

----------------------------------------------------------------------------
\* Types of all rows, calls and sockets.
TypeOK ==
    /\ conv \in [Convs -> Conversation]
    /\ part \in [Convs -> [People -> [Rows -> Participant]]]
    /\ msgs \in Seq(ConversationMessage) /\ Len(msgs) <= MaxMessages
    /\ calls \in [Calls -> Call]
    /\ purged \subseteq Users /\ broken \subseteq Convs \cup {None}
    /\ SocketTypeOK
    /\ spent \in 0..MaxEvents /\ faults \in 0..MaxFaults

\* A stored message is one its receiver sees, whoever named the conversation,
\* unless the receiver had no row in it when createMessage came to restore it,
\* deleted it between that and the insert, or was removed.
MessagesReachTheReceiver ==
    [][Len(msgs') > Len(msgs) =>
         LET m == msgs'[Len(msgs')] IN
         \/ m.to \in m.away \cup purged
         \/ \E r \in Rows : LET row == part'[m.conversationId][m.to][r] IN
              row.state = "active" /\ row.since < Len(msgs')]_vars

\* What a user deleted never comes back, although the next message restores
\* the participant row (restoreParticipant sets createdAt anew); of two rows in
\* a conversation with oneself both must be deleted.
DeletedStaysDeleted ==
    \A f \in forgotten : \A i \in Sees(f[1], f[2]) : i > f[3]

\* Two users who wrote to each other in a conversation of both before a call
\* began get no second one by it, whatever else overlaps.  Before their first
\* message they may, and after one in a conversation that is not theirs
\* (findExistingConversation, createConversation).
TalkKeepsItsConversation ==
    [][\A k \in Calls :
         /\ calls[k].pc = "create" /\ calls[k].me \in Users /\ calls[k].other \in Users
         /\ calls[k].talked
         => \A c \in Convs : conv'[c].kind = "user" => conv[c].kind = "user"
                             \/ calls'[k] = calls[k]]_vars

\* Rows, calls and sockets keep their types, and getListConversation reads the
\* partner of every conversation it lists: it is there, unless the conversation
\* is one with oneself, the partner was removed, or the conversation is still
\* being created or the call that did died.
ListHasPartners ==
    TypeOK /\ \A u \in Users : \A c \in Listed(u) :
      Partners(c, u) = {} =>
         \/ conv[c].members = {u}
         \/ conv[c].members \cap purged # {}
         \/ c \in broken
         \/ \E k \in Calls : calls[k].conversationId = c /\ calls[k].pc = "joinOther"

\* A receiver who kept one socket open while a message was handled is shown
\* it, although the table is read before an await.
SteadyReceiverIsShown ==
    handling.pc = "signing" /\ handling.steady \in open
    /\ handling.steady = latest[handling.receiver] => handling.steady \in ShownOn
=============================================================================
