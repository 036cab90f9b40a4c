----------------------------- MODULE ChatProofs ------------------------------
(***************************************************************************)
(* Proofs of what Chat states of sockets, messages, conversations and      *)
(* lists, for any number of users, conversations, sockets, calls, messages *)
(* and faults: calls overlap, and what one relies on is what the steps of  *)
(* others keep.                                                            *)
(***************************************************************************)
EXTENDS Chat, TLAPS

USE ChatAssumption, KeyAssumption, MessageBound, ChatBounds

----------------------------------------------------------------------------
(* Sockets. *)

\* A user's latest socket was opened by that user, and is found while open.
SocketInv ==
    /\ SocketTypeOK
    /\ \A u \in Users : latest[u] # None => openedBy[latest[u]] = u
    /\ LatestSocketIsFound

\* The message being handled is one from a user to a user.  Its receiver's socket
\* was opened by someone and, if it is still open, is the one it will be shown on.
HandlingInv ==
    handling.pc = "signing" =>
      /\ handling.sender \in Users /\ handling.receiver \in Users
      /\ handling.conversationId \in Convs \cup {None}
      /\ handling.steady \in SocketIds =>
           openedBy[handling.steady] # None
      /\ handling.steady \in open => handling.receiverClient = handling.steady

LEMMA SocketsBegin == Init => SocketInv /\ HandlingInv
BY DEF Init, SocketInit, SocketInv, SocketTypeOK, HandlingInv, NotHandling,
       LatestSocketIsFound, ClientIds

\* Opening a socket gives the user a new latest one and leaves those of the
\* others as they are, as they were opened by others.
LEMMA ConnectKeepsSockets ==
    ASSUME SocketInv, HandlingInv, NEW s \in SocketIds, NEW c \in ClientIds,
           handleConnection(s, c), UNCHANGED handling
    PROVE  SocketInv' /\ HandlingInv'
<1>1. SocketTypeOK'
  BY DEF SocketInv, SocketTypeOK, handleConnection
<1>2. ASSUME NEW u \in Users
      PROVE  /\ latest'[u] # None => openedBy'[latest'[u]] = u
             /\ latest'[u] \in open' => connectedClients'[u] = latest'[u]
  <2>1. CASE u = c
    BY <2>1 DEF SocketInv, SocketTypeOK, handleConnection, ClientIds
  <2>2. CASE u # c
    <3>1. latest'[u] = latest[u] /\ connectedClients'[u] = connectedClients[u]
      BY <2>2 DEF SocketInv, SocketTypeOK, handleConnection, ClientIds
    <3>2. latest[u] # s
      BY DEF SocketInv, SocketTypeOK, handleConnection
    <3> QED
      BY <3>1, <3>2 DEF SocketInv, SocketTypeOK, LatestSocketIsFound, handleConnection
  <2> QED
    BY <2>1, <2>2
<1>3. HandlingInv'
  BY DEF HandlingInv, SocketInv, SocketTypeOK, handleConnection
<1> QED
  BY <1>1, <1>2, <1>3 DEF SocketInv, LatestSocketIsFound

LEMMA DisconnectKeepsSockets ==
    ASSUME SocketInv, HandlingInv, NEW s \in SocketIds, handleDisconnect(s), UNCHANGED handling
    PROVE  SocketInv' /\ HandlingInv'
BY DEF SocketInv, SocketTypeOK, LatestSocketIsFound, HandlingInv, handleDisconnect,
       EntryOnDisconnect, ClientIds

LEMMA CrashKeepsSockets ==
    ASSUME SocketInv, GatewayCrash, handling' = NotHandling
    PROVE  SocketInv' /\ HandlingInv'
BY DEF SocketInv, SocketTypeOK, LatestSocketIsFound, HandlingInv, GatewayCrash, NotHandling,
       ClientIds

LEMMA HandlingKeepsSockets ==
    ASSUME SocketInv, NEW s \in SocketIds, NEW v \in Users, NEW c \in Convs \cup {None},
           HandleMessage(s, v, c)
    PROVE  SocketInv' /\ HandlingInv'
<1>1. SocketInv'
  BY DEF SocketInv, SocketTypeOK, LatestSocketIsFound, HandleMessage, socketVars
<1>2. HandlingInv'
  BY DEF SocketInv, SocketTypeOK, LatestSocketIsFound, HandlingInv, HandleMessage, socketVars
<1> QED
  BY <1>1, <1>2

LEMMA OthersKeepSockets ==
    ASSUME SocketInv, HandlingInv, UNCHANGED socketVars, UNCHANGED handling \/ handling' = NotHandling
    PROVE  SocketInv' /\ HandlingInv'
BY DEF SocketInv, SocketTypeOK, LatestSocketIsFound, HandlingInv, socketVars, NotHandling

LEMMA SocketsKept == SocketInv /\ HandlingInv /\ [Next]_vars => SocketInv' /\ HandlingInv'
<1> SUFFICES ASSUME SocketInv, HandlingInv, [Next]_vars PROVE SocketInv' /\ HandlingInv'
  OBVIOUS
<1>1. CASE \E s \in SocketIds, v \in Users, c \in Convs \cup {None} : HandleMessage(s, v, c)
  BY <1>1, HandlingKeepsSockets
<1>2. CASE \E k \in Calls : EmitMessage(k) \/ Ask(k)
  BY <1>2, OthersKeepSockets DEF EmitMessage, Ask
<1>3. CASE Serve \/ UNCHANGED vars
  BY <1>3, OthersKeepSockets DEF Serve, vars, handleVars
<1>4. CASE SocketStep
  BY <1>4, ConnectKeepsSockets, DisconnectKeepsSockets DEF SocketStep, handleVars
<1>5. CASE Fault
  BY <1>5, OthersKeepSockets, CrashKeepsSockets DEF Fault
<1> QED
  BY <1>1, <1>2, <1>3, <1>4, <1>5 DEF Next

\* A user's latest socket is found in the table for as long as it is open.
THEOREM LatestSocketIsAlwaysFound == Spec => []LatestSocketIsFound
<1>1. SocketInv => LatestSocketIsFound
  BY DEF SocketInv
<1> QED
  BY <1>1, SocketsBegin, SocketsKept, PTL DEF Spec

\* A receiver with a steady socket is shown the message.
THEOREM SteadyReceiverIsAlwaysShown == Spec => []SteadyReceiverIsShown
<1>1. SocketInv /\ HandlingInv => SteadyReceiverIsShown
  BY DEF SocketInv, SocketTypeOK, HandlingInv, SteadyReceiverIsShown, ShownOn, Emit
<1> QED
  BY <1>1, SocketsBegin, SocketsKept, PTL DEF Spec

----------------------------------------------------------------------------
(* Conversations. *)

\* A call that is past its search for a conversation has one.
CallInv(k) ==
    LET call == calls[k] IN
    /\ call.pc # "idle" => call.me \in People
    /\ call.pc \notin {"idle", "write"} => call.other \in People
    /\ call.pc \notin {"idle", "find", "create"} => call.conversationId \in Convs
    /\ call.pc \in {"join", "joinOther"} => conv[call.conversationId].kind # "none"

Sending == {"readReceiver", "restoreReceiver", "readSender", "restoreSender", "insert"}

\* The row of a receiver that is being restored is there until he is removed.
\* Once the receiver was restored he is there, unless he had no row or left.
SendInv(k) ==
    LET call == calls[k]
        c == call.conversationId
        gone == call.away \cup purged IN
    call.pc \in Sending =>
      /\ call.op = "message"
      /\ call.pc = "restoreReceiver" =>
           call.other \in gone \/ part[c][call.other][call.row].state # "none"
      /\ call.pc \in {"readSender", "restoreSender", "insert"} =>
           call.other \in gone \/ Active(c, call.other)

\* A call between two who wrote to each other before finds what they wrote,
\* and creates a conversation only if one of them is gone.
TalkInv(k) ==
    LET call == calls[k] IN
    /\ call.pc = "find" /\ call.talked =>
         /\ Wrote(call.me, call.other)
         /\ Talked(call.me, call.other) \/ {call.me, call.other} \cap purged # {}
    /\ call.op = "system" => call.other = Admin
    /\ call.pc = "create" /\ call.talked /\ call.op # "system" =>
         call.op # "start" /\ {call.me, call.other} \cap purged # {}

CallOK(k) == CallInv(k) /\ SendInv(k) /\ TalkInv(k)

\* Participants are of conversations that exist.
RowsInv == \A c \in Convs, u \in People : Joins(c, u) => conv[c].kind # "none"

\* Whoever is back in a conversation came back after what he forgot.
ForgetInv ==
    /\ \A c \in Convs, u \in People, r \in Rows :
         part[c][u][r].state = "active" => part[c][u][r].since <= Len(msgs)
    /\ forgotten \subseteq People \X Convs \X Nat
    /\ \A u \in People, c \in Convs, n \in Nat : <<u, c, n>> \in forgotten =>
         /\ n <= Len(msgs)
         /\ \A r \in Rows : part[c][u][r].state = "active" => n <= part[c][u][r].since

ChatTypeOK ==
    /\ conv \in [Convs -> Conversation]
    /\ part \in [Convs -> [People -> [Rows -> Participant]]]
    /\ msgs \in Seq(ConversationMessage) /\ Len(msgs) <= MaxMessages
    /\ calls \in [Calls -> Call]
    /\ purged \subseteq Users /\ broken \subseteq Convs \cup {None}

IInv ==
    /\ ChatTypeOK
    /\ \A k \in Calls : CallOK(k)
    /\ RowsInv
    /\ ForgetInv

----------------------------------------------------------------------------
(* What steps do to rows. *)

\* A conversation keeps its kind; participants stay until they are removed.
RowsStay ==
    /\ \A c \in Convs : conv[c].kind # "none" => conv'[c].kind = conv[c].kind
    /\ purged \subseteq purged'
    /\ \A c \in Convs, u \in People, r \in Rows :
         /\ part[c][u][r].state # "none" => part'[c][u][r].state # "none" \/ u \in purged'
         /\ part'[c][u][r].state # "none" => conv'[c].kind # "none"

\* Participants stay active until they are removed.
ActiveStay ==
    \A c \in Convs, u \in People, r \in Rows :
      part[c][u][r].state = "active" => part'[c][u][r].state = "active" \/ u \in purged'

\* Who is active was active, or is so since now.
SinceStay ==
    \A c \in Convs, u \in People, r \in Rows :
      part'[c][u][r].state = "active" =>
        \/ part'[c][u][r].since = Len(msgs)
        \/ part[c][u][r].state = "active" /\ part'[c][u][r].since = part[c][u][r].since

MessagesStay ==
    /\ Len(msgs) <= Len(msgs')
    /\ \A i \in 1..Len(msgs) : /\ msgs'[i].conversationId = msgs[i].conversationId
                               /\ msgs'[i].from = msgs[i].from
                               /\ msgs'[i].to = msgs[i].to

\* Who joins, and who is active, after the step.
WillJoin(c, u) == \E r \in Rows : part'[c][u][r].state # "none"
WillBeActive(c, u) == \E r \in Rows : part'[c][u][r].state = "active"

LEMMA JoinsStayed ==
    ASSUME RowsStay, NEW c \in Convs, NEW u \in People, Joins(c, u)
    PROVE  WillJoin(c, u) \/ u \in purged'
BY DEF RowsStay, Joins, WillJoin

LEMMA ActiveStayed ==
    ASSUME ActiveStay, NEW c \in Convs, NEW u \in People, Active(c, u)
    PROVE  WillBeActive(c, u) \/ u \in purged'
BY DEF ActiveStay, Active, WillBeActive

\* What was written stays so, and two who talked have until one is removed.
LEMMA WroteStays ==
    ASSUME IInv, MessagesStay, NEW u, NEW v, Wrote(u, v)
    PROVE  Wrote(u, v)'
<1>1. PICK i \in 1..Len(msgs) : {msgs[i].from, msgs[i].to} = {u, v}
  BY DEF Wrote
<1>2. i \in 1..Len(msgs)'
  BY DEF MessagesStay, IInv, ChatTypeOK
<1> QED
  BY <1>1, <1>2 DEF Wrote, MessagesStay

LEMMA TalkStays ==
    ASSUME IInv, RowsStay, MessagesStay, NEW u \in People, NEW v \in People, Talked(u, v)
    PROVE  Talked(u, v)' \/ {u, v} \cap purged' # {}
<1> SUFFICES ASSUME {u, v} \cap purged' = {} PROVE Talked(u, v)'
  OBVIOUS
<1>1. PICK i \in 1..Len(msgs) :
        {msgs[i].from, msgs[i].to} = {u, v} /\ msgs[i].conversationId \in Existing(u, v)
  BY DEF Talked
<1>2. i \in 1..Len(msgs)'
  BY DEF MessagesStay, IInv, ChatTypeOK
<1>3. PICK c : c = msgs[i].conversationId
  OBVIOUS
<1>4. c \in Convs /\ u # v /\ Joins(c, u) /\ Joins(c, v)
  BY <1>1, <1>3 DEF Existing
<1>5. WillJoin(c, u) /\ WillJoin(c, v)
  BY <1>4, JoinsStayed
<1>6. c \in Existing(u, v)'
  BY <1>4, <1>5 DEF Existing, Joins, WillJoin
<1>7. msgs'[i].conversationId = c /\ {msgs'[i].from, msgs'[i].to} = {u, v}
  BY <1>1, <1>3 DEF MessagesStay
<1> QED
  BY <1>2, <1>6, <1>7 DEF Talked

\* Who will have talked after the step.
WillTalk(u, v) ==
    \E i \in 1..Len(msgs)' :
      /\ {msgs'[i].from, msgs'[i].to} = {u, v} /\ u # v
      /\ msgs'[i].conversationId \in Convs
      /\ WillJoin(msgs'[i].conversationId, u) /\ WillJoin(msgs'[i].conversationId, v)

LEMMA WillTalkIsTalked ==
    /\ \A u, v : Talked(u, v)' => WillTalk(u, v)
    /\ \A k : WillTalk(calls'[k].me, calls'[k].other) => Talked(calls[k].me, calls[k].other)'
<1>1. ASSUME NEW u, NEW v, Talked(u, v)' PROVE WillTalk(u, v)
  BY <1>1 DEF WillTalk, WillJoin, Talked, Existing, Joins
<1>2. ASSUME NEW k, WillTalk(calls'[k].me, calls'[k].other)
      PROVE  Talked(calls[k].me, calls[k].other)'
  BY <1>2 DEF WillTalk, WillJoin, Talked, Existing, Joins
<1> QED
  BY <1>1, <1>2

\* The same of the call that relies on it.
LEMMA TalkOfCallStays ==
    ASSUME IInv, RowsStay, MessagesStay, NEW k \in Calls, CallInv(k), TalkInv(k),
           calls'[k].pc = calls[k].pc, calls'[k].op = calls[k].op, calls'[k].me = calls[k].me,
           calls'[k].other = calls[k].other, calls'[k].talked = calls[k].talked
    PROVE  TalkInv(k)'
<1>1. PICK a, b : a = calls[k].me /\ b = calls[k].other
  OBVIOUS
<1>2. ASSUME calls[k].pc = "find", calls[k].talked
      PROVE  Wrote(a, b)' /\ (Talked(a, b)' \/ {a, b} \cap purged' # {})
  <2>1. Wrote(a, b) /\ (Talked(a, b) \/ {a, b} \cap purged # {})
    BY <1>1, <1>2 DEF TalkInv
  <2>2. a \in People /\ b \in People
    BY <1>1, <1>2 DEF CallInv
  <2>3. purged \subseteq purged'
    BY DEF RowsStay
  <2> QED
    BY <2>1, <2>2, <2>3, WroteStays, TalkStays
<1>3. Wrote(a, b)' => Wrote(calls[k].me, calls[k].other)'
  BY <1>1 DEF Wrote
<1>4. Talked(a, b)' => Talked(calls[k].me, calls[k].other)'
  BY <1>1, WillTalkIsTalked
<1>5. purged \subseteq purged'
  BY DEF RowsStay
<1> QED
  BY <1>1, <1>2, <1>3, <1>4, <1>5 DEF TalkInv

LEMMA SendStays ==
    ASSUME IInv, RowsStay, ActiveStay, NEW k \in Calls, CallInv(k), SendInv(k),
           calls'[k] = calls[k]
    PROVE  SendInv(k)'
<1> SUFFICES ASSUME calls[k].pc \in Sending PROVE SendInv(k)'
  BY DEF SendInv
<1>1. PICK c, u, r, away : /\ c = calls[k].conversationId /\ u = calls[k].other
                           /\ r = calls[k].row /\ away = calls[k].away
  OBVIOUS
<1>2. c \in Convs /\ u \in People /\ r \in Rows
  BY <1>1 DEF CallInv, Sending, IInv, ChatTypeOK, Call
<1>3. purged \subseteq purged'
  BY DEF RowsStay
<1>4. calls[k].pc = "restoreReceiver" =>
        u \in away \cup purged' \/ part'[c][u][r].state # "none"
  BY <1>1, <1>2, <1>3 DEF SendInv, RowsStay
<1>5. calls[k].pc \in {"readSender", "restoreSender", "insert"} =>
        u \in away \cup purged' \/ WillBeActive(c, u)
  BY <1>1, <1>2, <1>3, ActiveStayed DEF SendInv
<1>6. calls[k].op = "message"
  BY DEF SendInv
<1> QED
  BY <1>1, <1>4, <1>5, <1>6 DEF SendInv, Active, WillBeActive

\* A call that stays where it is, or learns of one who left, stays in order.
LEMMA OtherCallsStay ==
    ASSUME IInv, RowsStay, MessagesStay, ActiveStay, NEW k \in Calls, calls'[k] = calls[k]
    PROVE  CallOK(k)'
<1>1. CallOK(k) /\ calls[k] \in Call
  BY DEF IInv, ChatTypeOK
<1>2. CallInv(k)'
  BY <1>1 DEF CallOK, CallInv, RowsStay
<1>3. SendInv(k)'
  BY <1>1, SendStays DEF CallOK
<1>4. TalkInv(k)'
  BY <1>1, TalkOfCallStays DEF CallOK
<1> QED
  BY <1>2, <1>3, <1>4 DEF CallOK

LEMMA ForgottenStays ==
    ASSUME IInv, MessagesStay, SinceStay, forgotten' = forgotten, Len(msgs') \in Nat
    PROVE  ForgetInv'
<1>1. Len(msgs) \in Nat
  BY DEF IInv, ChatTypeOK
<1>2. ASSUME NEW u \in People, NEW c \in Convs, NEW n \in Nat, <<u, c, n>> \in forgotten
      PROVE  n <= Len(msgs') /\ \A r \in Rows : part'[c][u][r].state = "active" => n <= part'[c][u][r].since
  <2>1. n <= Len(msgs) /\ \A r \in Rows : part[c][u][r].state = "active" => n <= part[c][u][r].since
    BY <1>2 DEF IInv, ForgetInv
  <2>2. n <= Len(msgs')
    BY <1>1, <2>1 DEF MessagesStay
  <2> QED
    BY <1>1, <2>1, <2>2 DEF SinceStay
<1>3. ASSUME NEW u \in People, NEW c \in Convs, NEW r \in Rows, part'[c][u][r].state = "active"
      PROVE  part'[c][u][r].since <= Len(msgs')
  <2>1. PICK n : n = part'[c][u][r].since
    OBVIOUS
  <2>2. n = Len(msgs) \/ (part[c][u][r].state = "active" /\ n = part[c][u][r].since)
    BY <1>3, <2>1 DEF SinceStay
  <2>3. n \in Nat /\ n <= Len(msgs)
    BY <1>1, <2>2 DEF IInv, ForgetInv, ChatTypeOK, Participant
  <2>4. PICK l : l = Len(msgs')
    OBVIOUS
  <2>5. l \in Nat /\ Len(msgs) <= l
    BY <2>4 DEF MessagesStay
  <2>6. n <= l
    BY <1>1, <2>3, <2>5
  <2> QED
    BY <2>1, <2>4, <2>6
<1> QED
  BY <1>2, <1>3 DEF ForgetInv, IInv

----------------------------------------------------------------------------
(* What steps of one call keep. *)

LEMMA AllKeeps ==
    ASSUME IInv, ChatTypeOK', RowsStay, MessagesStay, SinceStay, forgotten' = forgotten,
           \A k \in Calls : CallOK(k)'
    PROVE  IInv'
<1>1. RowsInv'
  BY DEF RowsStay, RowsInv, Joins
<1>2. Len(msgs') \in Nat
  BY DEF ChatTypeOK
<1>3. ForgetInv'
  BY <1>2, ForgottenStays
<1> QED
  BY <1>1, <1>3 DEF IInv

LEMMA StepKeeps ==
    ASSUME IInv, ChatTypeOK', RowsStay, MessagesStay, ActiveStay, SinceStay,
           forgotten' = forgotten, NEW k \in Calls,
           \A j \in Calls : j # k => calls'[j] = calls[j],
           CallOK(k)'
    PROVE  IInv'
<1>1. \A j \in Calls : CallOK(j)'
  BY OtherCallsStay
<1> QED
  BY <1>1, AllKeeps

\* A step that only moves its call.
LEMMA QuietKeeps ==
    ASSUME IInv, UNCHANGED <<conv, part, msgs, purged, broken, forgotten>>,
           NEW k \in Calls, NEW call \in Call, calls' = [calls EXCEPT ![k] = call],
           CallOK(k)'
    PROVE  IInv'
<1>1. ChatTypeOK'
  BY DEF IInv, ChatTypeOK
<1>2. RowsStay
  BY DEF RowsStay, IInv, RowsInv, Joins
<1>3. MessagesStay /\ ActiveStay /\ SinceStay
  BY DEF MessagesStay, ActiveStay, SinceStay, IInv, ChatTypeOK
<1>4. \A j \in Calls : j # k => calls'[j] = calls[j]
  BY DEF IInv, ChatTypeOK
<1> QED
  BY <1>1, <1>2, <1>3, <1>4, StepKeeps

LEMMA IdleIsCall == Idle \in Call
BY DEF Idle, Call, Rows

LEMMA IdleIsOK ==
    ASSUME NEW k \in Calls, calls'[k] = Idle
    PROVE  CallOK(k)'
BY DEF CallOK, CallInv, SendInv, TalkInv, Idle, Sending

LEMMA ReturnKeeps ==
    ASSUME IInv, UNCHANGED <<conv, part, msgs, purged, broken, forgotten>>,
           NEW k \in Calls, Return(k)
    PROVE  IInv'
<1>1. calls'[k] = Idle
  BY DEF Return, IInv, ChatTypeOK
<1> QED
  BY <1>1, IdleIsCall, IdleIsOK, QuietKeeps DEF Return

----------------------------------------------------------------------------
(* Beginnings of calls. *)

\* What a call that begins knows of its two is so.
LEMMA BegunTalk ==
    ASSUME UNCHANGED <<part, msgs, purged>>, NEW k, NEW u, NEW v,
           calls'[k].pc \in {"find", "readReceiver"}, calls'[k].op = "system" => v = Admin,
           calls'[k].me = u, calls'[k].other = v, calls'[k].talked = Talked(u, v)
    PROVE  TalkInv(k)'
<1>1. calls'[k].talked => Talked(u, v)' /\ Wrote(u, v)'
  BY ZenonT(40) DEF Talked, Wrote, Existing, Joins
<1>2. Talked(u, v)' => Talked(calls[k].me, calls[k].other)'
  BY WillTalkIsTalked
<1>3. Wrote(u, v)' => Wrote(calls[k].me, calls[k].other)'
  BY DEF Wrote
<1> QED
  BY <1>1, <1>2, <1>3 DEF TalkInv

LEMMA CreateMessageKeeps ==
    ASSUME IInv, NEW k \in Calls, NEW sender \in People, NEW receiver \in People,
           NEW c \in Convs \cup {None}, CreateMessage(k, sender, receiver, c)
    PROVE  IInv'
<1> DEFINE call == [op |-> "message", pc |-> IF c = None THEN "find" ELSE "readReceiver",
                    me |-> sender, other |-> receiver, row |-> 1, conversationId |-> c,
                    flag |-> FALSE, away |-> {}, talked |-> Talked(sender, receiver)]
<1>1. calls' = [calls EXCEPT ![k] = call]
  BY DEF CreateMessage, Started
<1>2. call \in Call
  <2>1. Talked(sender, receiver) \in BOOLEAN
    BY DEF Talked
  <2> QED
    BY <2>1 DEF Call, Rows
<1>3. calls'[k] = call
  BY <1>1 DEF IInv, ChatTypeOK
<1>4. CallInv(k)' /\ SendInv(k)'
  BY <1>3 DEF CallInv, SendInv, Sending
<1>5. TalkInv(k)'
  <2>1. UNCHANGED <<part, msgs, purged>>
    BY DEF CreateMessage
  <2>2. /\ calls'[k].pc \in {"find", "readReceiver"} /\ calls'[k].op = "message"
        /\ calls'[k].me = sender /\ calls'[k].other = receiver
        /\ calls'[k].talked = Talked(sender, receiver)
    BY <1>3
  <2> QED
    BY <2>1, <2>2, BegunTalk
<1>6. CallOK(k)'
  BY <1>4, <1>5 DEF CallOK
<1> QED
  BY <1>1, <1>2, <1>6, QuietKeeps DEF CreateMessage

\* The other calls begin by looking for a conversation.
LEMMA SearchKeeps ==
    ASSUME IInv, NEW k \in Calls, NEW op \in {"open", "start", "system"}, NEW me \in People,
           NEW other \in People, op = "system" => other = Admin,
           Started(k, op, "find", me, other, None, 1, FALSE),
           UNCHANGED <<conv, part, msgs, purged, broken, forgotten>>
    PROVE  IInv'
<1> DEFINE call == [op |-> op, pc |-> "find", me |-> me, other |-> other, row |-> 1,
                    conversationId |-> None, flag |-> FALSE, away |-> {},
                    talked |-> Talked(me, other)]
<1>1. calls' = [calls EXCEPT ![k] = call]
  BY DEF Started
<1>2. call \in Call
  <2>1. Talked(me, other) \in BOOLEAN
    BY DEF Talked
  <2> QED
    BY <2>1 DEF Call, Rows
<1>3. calls'[k] = call
  BY <1>1 DEF IInv, ChatTypeOK
<1>4. TalkInv(k)'
  <2>1. /\ calls'[k].pc = "find" /\ calls'[k].me = me /\ calls'[k].other = other
        /\ calls'[k].op = op /\ calls'[k].talked = Talked(me, other)
    BY <1>3
  <2> QED
    BY <2>1, BegunTalk
<1>5. CallOK(k)'
  BY <1>3, <1>4 DEF CallOK, CallInv, SendInv, Sending
<1> QED
  BY <1>1, <1>2, <1>5, QuietKeeps

LEMMA ChangeOwnKeeps ==
    ASSUME IInv, NEW k \in Calls, NEW op \in {"delete", "mute", "pin"}, NEW u \in Users,
           NEW c \in Convs, ChangeOwn(k, op, u, c)
    PROVE  IInv'
<1>1. PICK r \in Rows : Started(k, op, "write", u, None, c, r,
        IF op = "mute" THEN ~part[c][u][r].isMuted ELSE ~part[c][u][r].isPinned)
  BY DEF ChangeOwn
<1> DEFINE flag == IF op = "mute" THEN ~part[c][u][r].isMuted ELSE ~part[c][u][r].isPinned
           call == [op |-> op, pc |-> "write", me |-> u, other |-> None, row |-> r,
                    conversationId |-> c, flag |-> flag, away |-> {},
                    talked |-> Talked(u, None)]
<1>2. calls' = [calls EXCEPT ![k] = call]
  BY <1>1 DEF Started
<1>3. call \in Call
  <2>1. Talked(u, None) \in BOOLEAN
    BY DEF Talked
  <2>2. flag \in BOOLEAN
    OBVIOUS
  <2> QED
    BY <2>1, <2>2 DEF Call, People
<1>4. calls'[k] = call
  BY <1>2 DEF IInv, ChatTypeOK
<1>5. CallOK(k)'
  BY <1>4 DEF CallOK, CallInv, SendInv, TalkInv, Sending, People
<1> QED
  BY <1>2, <1>3, <1>5, QuietKeeps DEF ChangeOwn

----------------------------------------------------------------------------
(* Steps of calls that change no row. *)

LEMMA GotoIsCall ==
    ASSUME IInv, NEW k \in Calls,
           NEW pc \in {"create", "readSender", "restoreReceiver", "restoreSender", "insert"}
    PROVE  /\ [calls[k] EXCEPT !.pc = pc] \in Call
           /\ [calls EXCEPT ![k].pc = pc] = [calls EXCEPT ![k] = [calls[k] EXCEPT !.pc = pc]]
<1>1. calls[k] \in Call
  BY DEF IInv, ChatTypeOK
<1>2. [calls[k] EXCEPT !.pc = pc] \in Call
  BY <1>1 DEF Call
<1>3. [calls EXCEPT ![k].pc = pc] = [calls EXCEPT ![k] = [calls[k] EXCEPT !.pc = pc]]
  OBVIOUS
<1> QED
  BY <1>2, <1>3

LEMMA FindConversationKeeps ==
    ASSUME IInv, NEW k \in Calls, FindConversation(k)
    PROVE  IInv'
<1> DEFINE me == calls[k].me
           other == calls[k].other
<1>1. CallOK(k) /\ calls[k] \in Call
  BY DEF IInv, ChatTypeOK
<1>2. me \in People /\ other \in People
  BY <1>1 DEF CallOK, CallInv, FindConversation
<1>3. CASE Existing(me, other) = {}
  <2> DEFINE call == [calls[k] EXCEPT !.pc = "create"]
  <2>1. calls' = [calls EXCEPT ![k] = call] /\ call \in Call
    BY <1>3, GotoIsCall DEF FindConversation, Goto
  <2>2. calls'[k] = call
    BY <2>1 DEF IInv, ChatTypeOK
  <2>3. calls[k].talked => {me, other} \cap purged # {}
    <3>1. calls[k].talked => Talked(me, other) \/ {me, other} \cap purged # {}
      BY <1>1 DEF CallOK, TalkInv, FindConversation
    <3>2. ~Talked(me, other)
      BY <1>3 DEF Talked
    <3> QED
      BY <3>1, <3>2
  <2>4. CallOK(k)'
    BY <1>1, <2>2, <2>3 DEF CallOK, CallInv, SendInv, TalkInv, Sending, FindConversation, Call
  <2> QED
    BY <2>1, <2>4, QuietKeeps DEF FindConversation
<1>4. CASE Existing(me, other) # {} /\ calls[k].op = "open"
  BY <1>4, ReturnKeeps DEF FindConversation
<1>5. CASE Existing(me, other) # {} /\ calls[k].op = "message"
  <2>1. PICK c \in Existing(me, other) : GotoWith(k, "readReceiver", c)
    BY <1>5 DEF FindConversation
  <2> DEFINE call == [calls[k] EXCEPT !.pc = "readReceiver", !.conversationId = c]
  <2>2. calls' = [calls EXCEPT ![k] = call] /\ call \in Call
    BY <1>1, <2>1 DEF GotoWith, Call, Existing, IInv, ChatTypeOK
  <2>3. calls'[k] = call
    BY <2>2 DEF IInv, ChatTypeOK
  <2>4. c \in Convs
    BY <2>1 DEF Existing
  <2>5. CallOK(k)'
    BY <1>1, <1>2, <1>5, <2>3, <2>4
    DEF CallOK, CallInv, SendInv, TalkInv, Sending, FindConversation, Call
  <2> QED
    BY <2>2, <2>5, QuietKeeps DEF FindConversation
<1> QED
  BY <1>3, <1>4, <1>5 DEF FindConversation

LEMMA ReadParticipantKeeps ==
    ASSUME IInv, NEW k \in Calls, ReadParticipant(k)
    PROVE  IInv'
<1> DEFINE first == calls[k].pc = "readReceiver"
           u == IF first THEN calls[k].other ELSE calls[k].me
           c == calls[k].conversationId
           next == IF first THEN "readSender" ELSE "insert"
<1>1. CallOK(k) /\ calls[k] \in Call /\ calls[k].pc \in {"readReceiver", "readSender"}
  BY DEF IInv, ChatTypeOK, ReadParticipant
<1>2. c \in Convs /\ calls[k].other \in People /\ calls[k].me \in People
  BY <1>1 DEF CallOK, CallInv
<1>3. calls[k].op = "message"
        /\ (~first => calls[k].other \in calls[k].away \cup purged \/ Active(c, calls[k].other))
  BY <1>1 DEF CallOK, SendInv, Sending
<1>4. UNCHANGED <<conv, part, msgs, purged, broken, forgotten>>
  BY DEF ReadParticipant
<1>5. PICK r, pc, away :
        /\ calls' = [calls EXCEPT ![k].row = r, ![k].pc = pc, ![k].away = away]
        /\ r \in Rows /\ away \in SUBSET People /\ calls[k].away \subseteq away
        /\ pc \in {"readSender", "restoreReceiver", "restoreSender", "insert"}
        /\ pc = "restoreReceiver" => part[c][calls[k].other][r].state # "none"
        /\ pc \in {"readSender", "restoreSender", "insert"} =>
             calls[k].other \in away \cup purged \/ Active(c, calls[k].other)
  <2>1. CASE ~Joins(c, u) /\ calls' = [calls EXCEPT ![k].pc = next,
               ![k].away = IF first THEN @ \cup {u} ELSE @]
    <3> DEFINE away == IF first THEN calls[k].away \cup {u} ELSE calls[k].away
    <3>1. calls' = [calls EXCEPT ![k].row = calls[k].row, ![k].pc = next, ![k].away = away]
      BY <2>1, <1>1 DEF Call, IInv, ChatTypeOK
    <3>2. away \in SUBSET People /\ calls[k].away \subseteq away /\ calls[k].row \in Rows
      BY <1>1, <1>2 DEF Call
    <3>3. calls[k].other \in away \cup purged \/ Active(c, calls[k].other)
      BY <1>3
    <3> HIDE DEF away, c
    <3> QED
      BY <3>1, <3>2, <3>3
  <2>2. ASSUME NEW r \in Rows, part[c][u][r].state # "none",
               calls' = [calls EXCEPT ![k].row = r, ![k].pc =
                 IF part[c][u][r].state = "active" THEN next
                 ELSE IF first THEN "restoreReceiver" ELSE "restoreSender"]
        PROVE  \E pc, away :
                 /\ calls' = [calls EXCEPT ![k].row = r, ![k].pc = pc, ![k].away = away]
                 /\ away \in SUBSET People /\ calls[k].away \subseteq away
                 /\ pc \in {"readSender", "restoreReceiver", "restoreSender", "insert"}
                 /\ pc = "restoreReceiver" => part[c][calls[k].other][r].state # "none"
                 /\ pc \in {"readSender", "restoreSender", "insert"} =>
                      calls[k].other \in away \cup purged \/ Active(c, calls[k].other)
    <3> DEFINE pc == IF part[c][u][r].state = "active" THEN next
                     ELSE IF first THEN "restoreReceiver" ELSE "restoreSender"
    <3>1. calls' = [calls EXCEPT ![k].row = r, ![k].pc = pc, ![k].away = calls[k].away]
      <4>1. calls' = [calls EXCEPT ![k].row = r, ![k].pc = pc]
        BY <2>2
      <4> HIDE DEF pc
      <4>2. calls \in [Calls -> Call]
        BY DEF IInv, ChatTypeOK
      <4> DEFINE d == [calls[k] EXCEPT !.row = r, !.pc = pc]
                 e == [calls[k] EXCEPT !.row = r, !.pc = pc, !.away = calls[k].away]
      <4>3. d = e
        BY <1>1 DEF Call
      <4>4. calls' = [calls EXCEPT ![k] = d]
        BY <4>1, <4>2
      <4>5. [calls EXCEPT ![k].row = r, ![k].pc = pc, ![k].away = calls[k].away]
              = [calls EXCEPT ![k] = e]
        BY <4>2
      <4> HIDE DEF d, e
      <4> QED
        BY <4>3, <4>4, <4>5
    <3>2. calls[k].away \in SUBSET People
      BY <1>1 DEF Call
    <3>3. pc = "restoreReceiver" => part[c][calls[k].other][r].state # "none"
      BY <2>2
    <3>4. pc \in {"readSender", "restoreSender", "insert"} =>
             calls[k].other \in calls[k].away \cup purged \/ Active(c, calls[k].other)
      <4>1. CASE first
        BY <2>2, <4>1 DEF Active
      <4>2. CASE ~first
        BY <1>3, <4>2
      <4> QED
        BY <4>1, <4>2
    <3>5. pc \in {"readSender", "restoreReceiver", "restoreSender", "insert"}
      OBVIOUS
    <3> HIDE DEF pc, c
    <3> QED
      BY <3>1, <3>2, <3>3, <3>4, <3>5
  <2> QED
    BY <2>1, <2>2 DEF ReadParticipant
<1> DEFINE call == [calls[k] EXCEPT !.row = r, !.pc = pc, !.away = away]
<1>6. calls' = [calls EXCEPT ![k] = call] /\ call \in Call
  <2>1. call \in Call
    BY <1>1, <1>5 DEF Call
  <2>2. [calls EXCEPT ![k].row = r, ![k].pc = pc, ![k].away = away] = [calls EXCEPT ![k] = call]
    BY DEF IInv, ChatTypeOK
  <2> QED
    BY <1>5, <2>1, <2>2
<1>7. calls'[k] = call
  BY <1>6 DEF IInv, ChatTypeOK
<1>8. /\ calls'[k].pc = pc /\ calls'[k].op = "message" /\ calls'[k].row = r
      /\ calls'[k].me = calls[k].me /\ calls'[k].other = calls[k].other
      /\ calls'[k].conversationId = c /\ calls'[k].away = away
  BY <1>1, <1>3, <1>7 DEF Call
<1>9. CallInv(k)' /\ TalkInv(k)'
  BY <1>2, <1>5, <1>8 DEF CallInv, TalkInv
<1>10. SendInv(k)'
  <2>1. PICK v : v = calls[k].other
    OBVIOUS
  <2> HIDE DEF c
  <2> QED
    BY <1>4, <1>5, <1>8, <2>1 DEF SendInv, Active
<1> QED
  BY <1>4, <1>6, <1>9, <1>10, QuietKeeps DEF CallOK

LEMMA StartFindKeeps ==
    ASSUME IInv, NEW k \in Calls, StartFind(k)
    PROVE  IInv'
<1>1. CallOK(k) /\ calls[k] \in Call
  BY DEF IInv, ChatTypeOK
<1>2. CASE FoundNoMessage(k) /\ calls[k].other \notin purged
  <2> DEFINE call == [calls[k] EXCEPT !.pc = "create"]
  <2>1. calls' = [calls EXCEPT ![k] = call] /\ call \in Call
    BY <1>2, GotoIsCall DEF StartFind, Goto
  <2>2. calls'[k] = call
    BY <2>1 DEF IInv, ChatTypeOK
  <2>3. ~calls[k].talked
    BY <1>1, <1>2 DEF CallOK, TalkInv, StartFind, FoundNoMessage
  <2>4. CallOK(k)'
    BY <1>1, <2>2, <2>3 DEF CallOK, CallInv, SendInv, TalkInv, Sending, StartFind, Call
  <2> QED
    BY <2>1, <2>4, QuietKeeps DEF StartFind
<1>3. CASE ~(FoundNoMessage(k) /\ calls[k].other \notin purged)
  BY <1>3, ReturnKeeps DEF StartFind
<1> QED
  BY <1>2, <1>3

LEMMA SystemFindKeeps ==
    ASSUME IInv, NEW k \in Calls, SystemFind(k)
    PROVE  IInv'
<1>1. CallOK(k) /\ calls[k] \in Call
  BY DEF IInv, ChatTypeOK
<1>2. CASE SystemConversation(calls[k].me) = {}
  <2> DEFINE call == [calls[k] EXCEPT !.pc = "create"]
  <2>1. calls' = [calls EXCEPT ![k] = call] /\ call \in Call
    BY <1>2, GotoIsCall DEF SystemFind, Goto
  <2>2. calls'[k] = call
    BY <2>1 DEF IInv, ChatTypeOK
  <2>3. CallOK(k)'
    BY <1>1, <2>2 DEF CallOK, CallInv, SendInv, TalkInv, Sending, SystemFind, Call
  <2> QED
    BY <2>1, <2>3, QuietKeeps DEF SystemFind
<1>3. CASE SystemConversation(calls[k].me) # {}
  BY <1>3, ReturnKeeps DEF SystemFind
<1> QED
  BY <1>2, <1>3

----------------------------------------------------------------------------
(* Steps of calls that change rows. *)

LEMMA MessagesUnchanged ==
    ASSUME IInv, msgs' = msgs
    PROVE  MessagesStay
BY DEF MessagesStay, IInv, ChatTypeOK

LEMMA JoinedType ==
    ASSUME IInv, NEW state \in {"none", "active", "deleted"}
    PROVE  /\ Joined(state) \in Participant /\ NoParticipant \in Participant
           /\ Joined(state).state = state /\ Joined(state).since = Len(msgs)
           /\ NoParticipant.state = "none"
<1>1. Len(msgs) \in 0..MaxMessages
  BY DEF IInv, ChatTypeOK
<1>2. NoParticipant \in Participant /\ NoParticipant.state = "none"
  BY DEF NoParticipant, Participant
<1>3. /\ Joined(state) \in Participant
      /\ Joined(state).state = state /\ Joined(state).since = Len(msgs)
  BY <1>1, <1>2 DEF Joined, Participant
<1> QED
  BY <1>2, <1>3

\* Other calls, when k goes on with some call.
LEMMA GoneOn ==
    ASSUME IInv, NEW k \in Calls, NEW call \in Call, calls' = [calls EXCEPT ![k] = call]
    PROVE  /\ calls' \in [Calls -> Call] /\ calls'[k] = call
           /\ \A j \in Calls : j # k => calls'[j] = calls[j]
BY DEF IInv, ChatTypeOK

LEMMA CreateConversationKeeps ==
    ASSUME IInv, NEW k \in Calls, CreateConversation(k)
    PROVE  IInv'
<1> DEFINE me == calls[k].me
           other == calls[k].other
           pair == {me, other}
<1>1. CallOK(k) /\ calls[k] \in Call
  BY DEF IInv, ChatTypeOK
<1>2. me \in People /\ other \in People
  BY <1>1 DEF CallOK, CallInv, CreateConversation
<1>3. CASE pair \cap purged # {}
  BY <1>3, ReturnKeeps DEF CreateConversation
<1>4. CASE pair \cap purged = {}
  <2> DEFINE state == IF calls[k].op = "open" THEN "deleted" ELSE "active"
  <2>1. PICK c \in Fresh :
          /\ conv' = [conv EXCEPT ![c] = [kind |-> "user", members |-> pair]]
          /\ part' = [part EXCEPT ![c] = [u \in People |-> [r \in Rows |->
               IF u \in Participants(k) /\ (r = 1 \/ me = other)
               THEN Joined(state) ELSE NoParticipant]]]
          /\ IF calls[k].op = "open" THEN Return(k) ELSE GotoWith(k, "insert", c)
    BY <1>4 DEF CreateConversation
  <2>2. /\ c \in Convs /\ conv[c].kind = "none"
        /\ \A u \in People, r \in Rows : part[c][u][r].state = "none"
    BY <2>1 DEF Fresh, IInv, RowsInv, Joins
  <2> DEFINE call == IF calls[k].op = "open" THEN Idle
                     ELSE [calls[k] EXCEPT !.pc = "insert", !.conversationId = c]
  <2>3. call \in Call
    <3>1. [calls[k] EXCEPT !.pc = "insert", !.conversationId = c] \in Call
      BY <1>1, <2>2 DEF Call
    <3> QED
      BY <3>1, IdleIsCall
  <2>4. calls' = [calls EXCEPT ![k] = call]
    BY <2>1 DEF Return, GotoWith
  <2>5. /\ calls' \in [Calls -> Call] /\ calls'[k] = call
        /\ \A j \in Calls : j # k => calls'[j] = calls[j]
    BY <2>3, <2>4, GoneOn
  <2>6. [kind |-> "user", members |-> pair] \in Conversation
    BY <1>2 DEF Conversation
  <2>7. /\ Joined(state) \in Participant /\ NoParticipant \in Participant
        /\ Joined(state).state = state /\ Joined(state).since = Len(msgs)
        /\ NoParticipant.state = "none"
    BY JoinedType
  <2>8. conv' \in [Convs -> Conversation] /\ conv'[c].kind = "user"
        /\ \A d \in Convs : d # c => conv'[d] = conv[d]
    BY <2>1, <2>2, <2>6 DEF IInv, ChatTypeOK
  <2>9. /\ part' \in [Convs -> [People -> [Rows -> Participant]]]
        /\ \A u \in People, r \in Rows :
             part'[c][u][r] = IF u \in Participants(k) /\ (r = 1 \/ me = other)
                              THEN Joined(state) ELSE NoParticipant
        /\ \A d \in Convs : d # c => part'[d] = part[d]
    <3> DEFINE new == [u \in People |-> [r \in Rows |->
                         IF u \in Participants(k) /\ (r = 1 \/ me = other)
                         THEN Joined(state) ELSE NoParticipant]]
    <3>1. new \in [People -> [Rows -> Participant]]
      BY <2>7
    <3>2. part' = [part EXCEPT ![c] = new]
      BY <2>1
    <3>3. \A u \in People, r \in Rows :
             new[u][r] = IF u \in Participants(k) /\ (r = 1 \/ me = other)
                         THEN Joined(state) ELSE NoParticipant
      OBVIOUS
    <3> HIDE DEF new, state, me, other
    <3>4. /\ part' \in [Convs -> [People -> [Rows -> Participant]]] /\ part'[c] = new
          /\ \A d \in Convs : d # c => part'[d] = part[d]
      BY <2>2, <3>1, <3>2 DEF IInv, ChatTypeOK
    <3> QED
      BY <3>3, <3>4
  <2>10. ChatTypeOK'
    BY <2>5, <2>8, <2>9 DEF IInv, ChatTypeOK, CreateConversation
  <2>11. RowsStay
    <3>1. \A d \in Convs : conv[d].kind # "none" => conv'[d].kind = conv[d].kind
      BY <2>2, <2>8
    <3>2. purged' = purged
      BY DEF CreateConversation
    <3>3. ASSUME NEW d \in Convs, NEW u \in People, NEW r \in Rows
          PROVE  /\ part[d][u][r].state # "none" => part'[d][u][r].state # "none"
                 /\ part'[d][u][r].state # "none" => conv'[d].kind # "none"
      <4>1. CASE d = c
        BY <2>2, <2>8, <4>1
      <4>2. CASE d # c
        <5>1. part'[d][u][r] = part[d][u][r] /\ conv'[d] = conv[d]
          BY <2>8, <2>9, <4>2
        <5>2. part[d][u][r].state # "none" => conv[d].kind # "none"
          BY DEF IInv, RowsInv, Joins
        <5> QED
          BY <5>1, <5>2
      <4> QED
        BY <4>1, <4>2
    <3> QED
      BY <3>1, <3>2, <3>3 DEF RowsStay
  <2>12. ActiveStay /\ SinceStay
    <3>1. ASSUME NEW d \in Convs, NEW u \in People, NEW r \in Rows
          PROVE  \/ part'[d][u][r] = part[d][u][r]
                 \/ /\ part[d][u][r].state = "none"
                    /\ part'[d][u][r].state = "active" => part'[d][u][r].since = Len(msgs)
      <4>1. CASE d = c
        BY <2>2, <2>7, <2>9, <4>1
      <4>2. CASE d # c
        BY <2>9, <4>2
      <4> QED
        BY <4>1, <4>2
    <3> QED
      BY <3>1 DEF ActiveStay, SinceStay
  <2>13. CallOK(k)'
    <3>1. CASE calls[k].op = "open"
      BY <2>5, <3>1, IdleIsOK
    <3>2. CASE calls[k].op # "open"
      <4>1. calls[k].op = "message"
        BY <3>2 DEF CreateConversation
      <4>2. /\ calls'[k].pc = "insert" /\ calls'[k].op = "message" /\ calls'[k].conversationId = c
            /\ calls'[k].me = me /\ calls'[k].other = other
        BY <1>1, <2>5, <3>2, <4>1 DEF Call
      <4>3. WillBeActive(c, other)
        <5>1. 1 \in Rows /\ other \in Participants(k)
          BY DEF Rows, Participants
        <5>2. part'[c][other][1].state = "active"
          BY <1>2, <2>7, <2>9, <3>2, <5>1
        <5> QED
          BY <5>1, <5>2 DEF WillBeActive
      <4>4. CallInv(k)' /\ TalkInv(k)'
        BY <1>2, <2>2, <4>2 DEF CallInv, TalkInv
      <4>5. SendInv(k)'
        BY <4>2, <4>3 DEF SendInv, Active, WillBeActive
      <4> QED
        BY <4>4, <4>5 DEF CallOK
    <3> QED
      BY <3>1, <3>2
  <2> QED
    BY <2>5, <2>10, <2>11, <2>12, <2>13, MessagesUnchanged, StepKeeps DEF CreateConversation
<1> QED
  BY <1>3, <1>4

\* One participant's row changes.
RowBecomes(c, u, r, row) ==
    /\ part' \in [Convs -> [People -> [Rows -> Participant]]]
    /\ part'[c][u][r] = row
    /\ \A d \in Convs, v \in People, q \in Rows :
         d # c \/ v # u \/ q # r => part'[d][v][q] = part[d][v][q]

LEMMA RowWritten ==
    ASSUME IInv, NEW c \in Convs, NEW u \in People, NEW r \in Rows, NEW row \in Participant,
           part' = [part EXCEPT ![c][u][r] = row]
    PROVE  RowBecomes(c, u, r, row)
BY DEF RowBecomes, IInv, ChatTypeOK

LEMMA RowChanged ==
    ASSUME IInv, NEW c \in Convs, NEW u \in People, NEW r \in Rows, NEW row,
           RowBecomes(c, u, r, row), UNCHANGED <<conv, purged>>,
           part[c][u][r].state # "none" => row.state # "none",
           row.state # "none" => conv[c].kind # "none"
    PROVE  RowsStay
<1>1. ASSUME NEW d \in Convs, NEW v \in People, NEW q \in Rows
      PROVE  /\ part[d][v][q].state # "none" => part'[d][v][q].state # "none"
             /\ part'[d][v][q].state # "none" => conv'[d].kind # "none"
  <2>1. CASE d = c /\ v = u /\ q = r
    BY <2>1 DEF RowBecomes
  <2>2. CASE d # c \/ v # u \/ q # r
    BY <2>2 DEF RowBecomes, IInv, RowsInv, Joins
  <2> QED
    BY <2>1, <2>2
<1> QED
  BY <1>1 DEF RowsStay

LEMMA RestoreParticipantKeeps ==
    ASSUME IInv, NEW k \in Calls, RestoreParticipant(k)
    PROVE  IInv'
<1> DEFINE u == WhoIsRestored(k)
           c == calls[k].conversationId
           r == calls[k].row
           first == calls[k].pc = "restoreReceiver"
           call == [calls[k] EXCEPT !.pc = IF first THEN "readSender" ELSE "insert"]
           row == Restored(part[c][u][r])
<1>1. CallOK(k) /\ calls[k] \in Call
  BY DEF IInv, ChatTypeOK
<1>2. c \in Convs /\ u \in People /\ r \in Rows /\ calls[k].other \in People
  BY <1>1 DEF CallOK, CallInv, RestoreParticipant, WhoIsRestored, Call
<1>3. calls' = [calls EXCEPT ![k] = call] /\ call \in Call
  BY GotoIsCall DEF RestoreParticipant, Goto
<1>4. /\ calls' \in [Calls -> Call] /\ calls'[k] = call
      /\ \A j \in Calls : j # k => calls'[j] = calls[j]
  BY <1>3, GoneOn
<1>5. row \in Participant /\ row.state = "active" /\ row.since = Len(msgs)
  <2>1. part[c][u][r] \in Participant /\ Len(msgs) \in 0..MaxMessages
    BY <1>2 DEF IInv, ChatTypeOK
  <2> QED
    BY <2>1 DEF Restored, Participant
<1>6. \/ part[c][u][r].state # "none" /\ part' = [part EXCEPT ![c][u][r] = row]
      \/ part[c][u][r].state = "none" /\ part' = part
  BY DEF RestoreParticipant
<1>7. UNCHANGED <<conv, msgs, purged, broken, forgotten>>
  BY DEF RestoreParticipant
<1>8. /\ calls[k].pc \in Sending /\ SendInv(k)
      /\ calls'[k].pc = IF first THEN "readSender" ELSE "insert"
      /\ calls'[k].op = calls[k].op /\ calls'[k].conversationId = c
      /\ calls'[k].away = calls[k].away /\ calls'[k].talked = calls[k].talked
      /\ calls'[k].me = calls[k].me /\ calls'[k].other = calls[k].other
  BY <1>1, <1>4 DEF CallOK, Sending, RestoreParticipant, Call
<1>9. CallInv(k)' /\ TalkInv(k)'
  BY <1>1, <1>2, <1>8 DEF CallOK, CallInv, TalkInv, RestoreParticipant
<1> HIDE DEF row, call
<1>10. /\ part' \in [Convs -> [People -> [Rows -> Participant]]]
       /\ part[c][u][r].state # "none" => RowBecomes(c, u, r, row)
       /\ part[c][u][r].state = "none" => part' = part
  <2>1. part[c][u][r].state # "none" => RowBecomes(c, u, r, row)
    BY <1>2, <1>5, <1>6, RowWritten
  <2> QED
    BY <1>6, <2>1 DEF RowBecomes, IInv, ChatTypeOK
<1>11. ChatTypeOK'
  BY <1>4, <1>7, <1>10 DEF IInv, ChatTypeOK
<1>12. RowsStay /\ ActiveStay /\ SinceStay
  <2>1. CASE part[c][u][r].state # "none"
    <3>1. RowBecomes(c, u, r, row) /\ conv[c].kind # "none"
      BY <1>2, <1>10, <2>1 DEF IInv, RowsInv, Joins
    <3>2. RowsStay
      BY <1>2, <1>5, <1>7, <3>1, RowChanged
    <3>3. ASSUME NEW d \in Convs, NEW v \in People, NEW q \in Rows
          PROVE  part'[d][v][q] = part[d][v][q] \/ part'[d][v][q] = row
      BY <3>1 DEF RowBecomes
    <3>4. ActiveStay /\ SinceStay
      BY <1>5, <3>3 DEF ActiveStay, SinceStay
    <3> QED
      BY <3>2, <3>4
  <2>2. CASE part[c][u][r].state = "none"
    BY <1>7, <1>10, <2>2 DEF RowsStay, ActiveStay, SinceStay, IInv, RowsInv, Joins
  <2> QED
    BY <2>1, <2>2
<1>13. calls[k].other \in calls[k].away \cup purged \/ WillBeActive(c, calls[k].other)
  <2>1. CASE first
    <3>1. u = calls[k].other
      BY <2>1 DEF WhoIsRestored
    <3>2. calls[k].other \in calls[k].away \cup purged \/ part[c][u][r].state # "none"
      BY <1>8, <2>1, <3>1 DEF SendInv
    <3>3. part[c][u][r].state # "none" => part'[c][u][r].state = "active"
      BY <1>5, <1>10 DEF RowBecomes
    <3> QED
      BY <1>2, <3>1, <3>2, <3>3 DEF WillBeActive
  <2>2. CASE ~first
    <3>1. calls[k].other \in calls[k].away \cup purged \/ Active(c, calls[k].other)
      BY <1>8, <2>2 DEF SendInv, RestoreParticipant
    <3> QED
      BY <1>2, <1>7, <1>12, <3>1, ActiveStayed
  <2> QED
    BY <2>1, <2>2
<1>14. SendInv(k)'
  <2>1. calls[k].op = "message"
    BY <1>8 DEF SendInv
  <2>2. PICK d, v : d = c /\ v = calls[k].other
    OBVIOUS
  <2> HIDE DEF c
  <2> QED
    BY <1>7, <1>8, <1>13, <2>1, <2>2 DEF SendInv, Active, WillBeActive
<1>15. CallOK(k)'
  BY <1>9, <1>14 DEF CallOK
<1> QED
  BY <1>4, <1>7, <1>11, <1>12, <1>15, MessagesUnchanged, StepKeeps

\* A row that becomes another, and stays active since then if it is active.
LEMMA RowStepKeeps ==
    ASSUME IInv, NEW k \in Calls, Return(k) \/ (CallOK(k)' /\ \E call \in Call : calls' = [calls EXCEPT ![k] = call]),
           UNCHANGED <<conv, msgs, purged, broken, forgotten>>,
           NEW c \in Convs, NEW u \in People, NEW r \in Rows, NEW row \in Participant,
           RowBecomes(c, u, r, row), conv[c].kind # "none", row.state # "none",
           part[c][u][r].state = "active" => row.state = "active",
           \/ row.state # "active" \/ row.since = Len(msgs)
           \/ part[c][u][r].state = "active" /\ row.since = part[c][u][r].since
    PROVE  IInv'
<1>1. PICK call \in Call : calls' = [calls EXCEPT ![k] = call]
  BY IdleIsCall DEF Return
<1>2. /\ calls' \in [Calls -> Call] /\ calls'[k] = call
      /\ \A j \in Calls : j # k => calls'[j] = calls[j]
  BY <1>1, GoneOn
<1>3. CallOK(k)'
  <2>1. CASE Return(k)
    <3>1. calls'[k] = Idle
      BY <2>1 DEF Return, IInv, ChatTypeOK
    <3> QED
      BY <3>1, IdleIsOK
  <2> QED
    BY <2>1
<1>4. ChatTypeOK'
  BY <1>2 DEF IInv, ChatTypeOK, RowBecomes
<1>5. RowsStay
  BY RowChanged
<1>6. ASSUME NEW d \in Convs, NEW v \in People, NEW q \in Rows
      PROVE  part'[d][v][q] = IF d = c /\ v = u /\ q = r THEN row ELSE part[d][v][q]
  BY DEF RowBecomes
<1>7. ActiveStay
  BY <1>6 DEF ActiveStay
<1>8. SinceStay
  BY <1>6 DEF SinceStay
<1> QED
  BY <1>2, <1>3, <1>4, <1>5, <1>7, <1>8, MessagesUnchanged, StepKeeps

LEMMA ToggleFlagKeeps ==
    ASSUME IInv, NEW k \in Calls, ToggleFlag(k)
    PROVE  IInv'
<1> DEFINE u == calls[k].me
           c == calls[k].conversationId
           r == calls[k].row
<1>1. CallOK(k) /\ calls[k] \in Call
  BY DEF IInv, ChatTypeOK
<1>2. c \in Convs /\ u \in People /\ r \in Rows /\ calls[k].flag \in BOOLEAN
  BY <1>1 DEF CallOK, CallInv, ToggleFlag, Call
<1>3. Return(k) /\ UNCHANGED <<conv, msgs, purged, broken, forgotten>>
  BY DEF ToggleFlag
<1>4. part[c][u][r] \in Participant
  BY <1>2 DEF IInv, ChatTypeOK
<1>5. CASE part[c][u][r].state = "none"
  BY <1>3, <1>5, ReturnKeeps DEF ToggleFlag
<1>6. CASE part[c][u][r].state # "none"
  <2>1. PICK row \in Participant :
          /\ part' = [part EXCEPT ![c][u][r] = row]
          /\ row.state = part[c][u][r].state /\ row.since = part[c][u][r].since
    <3> DEFINE muted == [part[c][u][r] EXCEPT !.isMuted = calls[k].flag]
               pinned == [part[c][u][r] EXCEPT !.isPinned = calls[k].flag]
    <3>1. /\ muted \in Participant /\ muted.state = part[c][u][r].state
          /\ muted.since = part[c][u][r].since
      BY <1>2, <1>4 DEF Participant
    <3>2. /\ pinned \in Participant /\ pinned.state = part[c][u][r].state
          /\ pinned.since = part[c][u][r].since
      BY <1>2, <1>4 DEF Participant
    <3>3. \/ part' = [part EXCEPT ![c][u][r].isMuted = calls[k].flag]
          \/ part' = [part EXCEPT ![c][u][r].isPinned = calls[k].flag]
      BY <1>6 DEF ToggleFlag
    <3>4. [part EXCEPT ![c][u][r].isMuted = calls[k].flag] = [part EXCEPT ![c][u][r] = muted]
      OBVIOUS
    <3>5. [part EXCEPT ![c][u][r].isPinned = calls[k].flag] = [part EXCEPT ![c][u][r] = pinned]
      OBVIOUS
    <3>6. part' = [part EXCEPT ![c][u][r] = muted] \/ part' = [part EXCEPT ![c][u][r] = pinned]
      BY <3>3, <3>4, <3>5
    <3> HIDE DEF muted, pinned
    <3> QED
      BY <3>1, <3>2, <3>6
  <2>2. RowBecomes(c, u, r, row)
    BY <1>2, <2>1, RowWritten
  <2>3. conv[c].kind # "none"
    BY <1>2, <1>6 DEF IInv, RowsInv, Joins
  <2> QED
    BY <1>2, <1>3, <1>6, <2>1, <2>2, <2>3, RowStepKeeps
<1> QED
  BY <1>5, <1>6

LEMMA StartJoinKeeps ==
    ASSUME IInv, NEW k \in Calls, StartJoin(k)
    PROVE  IInv'
<1> DEFINE c == calls[k].conversationId
<1>1. CallOK(k) /\ calls[k] \in Call
  BY DEF IInv, ChatTypeOK
<1>2. c \in Convs /\ calls[k].me \in People /\ calls[k].other \in People /\ conv[c].kind # "none"
  BY <1>1 DEF CallOK, CallInv, StartJoin
<1>3. PICK u \in {calls[k].me, calls[k].other} :
        /\ part' = IF u \in purged THEN part
                   ELSE [part EXCEPT ![c][u][IF Joins(c, u) THEN 2 ELSE 1] = Joined("active")]
        /\ IF calls[k].pc = "join"
           THEN calls' = [calls EXCEPT ![k].pc = "joinOther", ![k].flag = (u = calls[k].other)]
           ELSE Return(k)
  BY DEF StartJoin
<1> DEFINE call == [calls[k] EXCEPT !.pc = "joinOther", !.flag = (u = calls[k].other)]
<1>4. call \in Call
  BY <1>1 DEF Call
<1>5. Return(k) \/ calls' = [calls EXCEPT ![k] = call]
  BY <1>3
<1>6. ASSUME calls' = [calls EXCEPT ![k] = call]
      PROVE  CallOK(k)'
  <2>1. calls'[k] = call
    BY <1>4, <1>6, GoneOn
  <2>2. /\ calls'[k].pc = "joinOther" /\ calls'[k].conversationId = c
        /\ calls'[k].me = calls[k].me /\ calls'[k].other = calls[k].other
        /\ calls'[k].op = calls[k].op
    BY <1>1, <2>1 DEF Call
  <2>3. conv' = conv
    BY DEF StartJoin
  <2> QED
    BY <1>1, <1>2, <2>2, <2>3 DEF CallOK, CallInv, SendInv, TalkInv, Sending, StartJoin
<1>7. UNCHANGED <<conv, msgs, purged, broken, forgotten>>
  BY DEF StartJoin
<1>8. CASE u \in purged
  <2>1. part' = part
    BY <1>3, <1>8
  <2> QED
    BY <1>4, <1>5, <1>6, <1>7, <2>1, ReturnKeeps, QuietKeeps
<1>9. CASE u \notin purged
  <2>1. /\ Joined("active") \in Participant /\ Joined("active").state = "active"
        /\ Joined("active").since = Len(msgs)
    BY JoinedType
  <2>2. PICK r \in Rows : part' = [part EXCEPT ![c][u][r] = Joined("active")]
    <3>1. (IF Joins(c, u) THEN 2 ELSE 1) \in Rows
      BY DEF Rows
    <3> QED
      BY <1>3, <1>9, <3>1
  <2>3. RowBecomes(c, u, r, Joined("active"))
    BY <1>2, <2>1, <2>2, RowWritten
  <2>4. Return(k) \/ (CallOK(k)' /\ \E x \in Call : calls' = [calls EXCEPT ![k] = x])
    BY <1>4, <1>5, <1>6
  <2>5. u \in People
    BY <1>2
  <2> QED
    BY <1>2, <1>7, <2>1, <2>3, <2>4, <2>5, RowStepKeeps
<1> QED
  BY <1>8, <1>9

LEMMA InsertMessageKeeps ==
    ASSUME IInv, NEW k \in Calls, InsertMessage(k)
    PROVE  IInv'
<1> DEFINE m == [conversationId |-> calls[k].conversationId, from |-> calls[k].me,
                 to |-> calls[k].other, isSeen |-> FALSE, away |-> calls[k].away]
<1>1. CallOK(k) /\ calls[k] \in Call
  BY DEF IInv, ChatTypeOK
<1>2. m \in ConversationMessage
  BY <1>1 DEF CallOK, CallInv, InsertMessage, Call, ConversationMessage
<1>3. msgs' = Append(msgs, m) /\ msgs \in Seq(ConversationMessage) /\ Len(msgs) < MaxMessages
  BY DEF InsertMessage, IInv, ChatTypeOK
<1>4. calls' = [calls EXCEPT ![k] = Idle] /\ UNCHANGED <<conv, part, purged, broken, forgotten>>
  BY DEF InsertMessage, Return
<1>5. /\ calls' \in [Calls -> Call] /\ calls'[k] = Idle
      /\ \A j \in Calls : j # k => calls'[j] = calls[j]
  BY <1>4, IdleIsCall, GoneOn
<1>6. /\ msgs' \in Seq(ConversationMessage) /\ Len(msgs') = Len(msgs) + 1
      /\ \A i \in 1..Len(msgs) : msgs'[i] = msgs[i]
      /\ msgs'[Len(msgs) + 1] = m
  BY <1>2, <1>3
<1>7. Len(msgs) \in Nat
  BY <1>3
<1>8. ChatTypeOK'
  BY <1>3, <1>4, <1>5, <1>6, <1>7 DEF IInv, ChatTypeOK
<1>9. RowsStay /\ ActiveStay /\ SinceStay
  BY <1>4 DEF RowsStay, ActiveStay, SinceStay, IInv, RowsInv, Joins
<1>10. MessagesStay
  BY <1>6, <1>7 DEF MessagesStay
<1> QED
  BY <1>4, <1>5, <1>8, <1>9, <1>10, IdleIsOK, StepKeeps

LEMMA StartCreateKeeps ==
    ASSUME IInv, NEW k \in Calls, StartCreate(k)
    PROVE  IInv'
<1>1. CallOK(k) /\ calls[k] \in Call
  BY DEF IInv, ChatTypeOK
<1> DEFINE pair == {calls[k].me, calls[k].other}
<1>2. pair \subseteq People
  BY <1>1 DEF CallOK, CallInv, StartCreate
<1>3. PICK c \in Fresh : /\ conv' = [conv EXCEPT ![c] = [kind |-> "user", members |-> pair]]
                         /\ GotoWith(k, "join", c)
  BY DEF StartCreate
<1>4. c \in Convs /\ conv[c].kind = "none"
  BY <1>3 DEF Fresh
<1> DEFINE call == [calls[k] EXCEPT !.pc = "join", !.conversationId = c]
<1>5. call \in Call
  BY <1>1, <1>4 DEF Call
<1>6. calls' = [calls EXCEPT ![k] = call]
  BY <1>3 DEF GotoWith
<1>7. /\ calls' \in [Calls -> Call] /\ calls'[k] = call
      /\ \A j \in Calls : j # k => calls'[j] = calls[j]
  BY <1>5, <1>6, GoneOn
<1>8. [kind |-> "user", members |-> pair] \in Conversation
  BY <1>2 DEF Conversation
<1>9. conv' \in [Convs -> Conversation] /\ conv'[c].kind = "user"
      /\ \A d \in Convs : d # c => conv'[d] = conv[d]
  BY <1>3, <1>4, <1>8 DEF IInv, ChatTypeOK
<1>10. UNCHANGED <<part, msgs, purged, broken, forgotten>>
  BY DEF StartCreate
<1>11. ChatTypeOK'
  BY <1>7, <1>9, <1>10 DEF IInv, ChatTypeOK
<1>12. RowsStay
  <2>1. \A d \in Convs : conv[d].kind # "none" => conv'[d].kind = conv[d].kind
    BY <1>4, <1>9
  <2> QED
    BY <1>10, <2>1 DEF RowsStay, IInv, RowsInv, Joins
<1>13. ActiveStay /\ SinceStay
  BY <1>10 DEF ActiveStay, SinceStay
<1>14. CallOK(k)'
  <2>1. /\ calls'[k].pc = "join" /\ calls'[k].conversationId = c /\ calls'[k].op = calls[k].op
        /\ calls'[k].me = calls[k].me /\ calls'[k].other = calls[k].other
    BY <1>1, <1>7 DEF Call
  <2> QED
    BY <1>1, <1>2, <1>4, <1>9, <2>1 DEF CallOK, CallInv, SendInv, TalkInv, Sending, StartCreate
<1> QED
  BY <1>7, <1>10, <1>11, <1>12, <1>13, <1>14, MessagesUnchanged, StepKeeps

LEMMA SystemCreateKeeps ==
    ASSUME IInv, NEW k \in Calls, SystemCreate(k)
    PROVE  IInv'
<1> DEFINE u == calls[k].me
<1>1. u \in People
  BY DEF IInv, CallOK, CallInv, SystemCreate
<1>2. CASE u \in purged
  BY <1>2, ReturnKeeps DEF SystemCreate
<1>3. CASE u \notin purged
  <2>1. PICK c \in Fresh : /\ conv' = [conv EXCEPT ![c] = [kind |-> "system", members |-> {u}]]
                           /\ part' = [part EXCEPT ![c][u][1] = Joined("active")]
    BY <1>3 DEF SystemCreate
  <2>2. c \in Convs /\ conv[c].kind = "none" /\ 1 \in Rows
    BY <2>1 DEF Fresh, Rows
  <2>3. calls' = [calls EXCEPT ![k] = Idle] /\ UNCHANGED <<msgs, purged, broken, forgotten>>
    BY DEF SystemCreate, Return
  <2>4. /\ calls' \in [Calls -> Call] /\ calls'[k] = Idle
        /\ \A j \in Calls : j # k => calls'[j] = calls[j]
    BY <2>3, IdleIsCall, GoneOn
  <2>5. [kind |-> "system", members |-> {u}] \in Conversation
    BY <1>1 DEF Conversation
  <2>6. conv' \in [Convs -> Conversation] /\ conv'[c].kind = "system"
        /\ \A d \in Convs : d # c => conv'[d] = conv[d]
    BY <2>1, <2>2, <2>5 DEF IInv, ChatTypeOK
  <2>7. /\ Joined("active") \in Participant /\ Joined("active").state = "active"
        /\ Joined("active").since = Len(msgs)
    BY JoinedType
  <2>8. RowBecomes(c, u, 1, Joined("active"))
    BY <1>1, <2>1, <2>2, <2>7, RowWritten
  <2>9. ASSUME NEW d \in Convs, NEW v \in People, NEW r \in Rows
        PROVE  part'[d][v][r] = IF d = c /\ v = u /\ r = 1 THEN Joined("active") ELSE part[d][v][r]
    BY <2>8 DEF RowBecomes
  <2>10. ChatTypeOK'
    BY <2>3, <2>4, <2>6, <2>8 DEF IInv, ChatTypeOK, RowBecomes
  <2>11. RowsStay
    <3>1. \A d \in Convs : conv[d].kind # "none" => conv'[d].kind = conv[d].kind
      BY <2>2, <2>6
    <3>2. ASSUME NEW d \in Convs, NEW v \in People, NEW r \in Rows
          PROVE  /\ part[d][v][r].state # "none" => part'[d][v][r].state # "none"
                 /\ part'[d][v][r].state # "none" => conv'[d].kind # "none"
      BY <2>6, <2>7, <2>9 DEF IInv, RowsInv, Joins
    <3> QED
      BY <2>3, <3>1, <3>2 DEF RowsStay
  <2>12. ActiveStay /\ SinceStay
    BY <2>7, <2>9 DEF ActiveStay, SinceStay
  <2> QED
    BY <2>3, <2>4, <2>10, <2>11, <2>12, IdleIsOK, MessagesUnchanged, StepKeeps
<1> QED
  BY <1>2, <1>3

----------------------------------------------------------------------------
(* Steps that touch more than one call, or no call. *)

\* A call at most learns of one who left its conversation.
Learns(k, c, u) ==
    \E away \in SUBSET People :
      /\ calls'[k] = [calls[k] EXCEPT !.away = away]
      /\ calls[k].away \subseteq away
      /\ /\ calls[k].pc \in {"readSender", "restoreSender", "insert"}
         /\ calls[k].conversationId = c
         => u \in away

OnlyLeaves(c, u) ==
    \A d \in Convs, v \in People, r \in Rows :
      part[d][v][r].state = "active" => part'[d][v][r].state = "active" \/ (d = c /\ v = u)

LEMMA LearningCallStays ==
    ASSUME IInv, RowsStay, MessagesStay, NEW k \in Calls, NEW c \in Convs, NEW u \in People,
           Learns(k, c, u), OnlyLeaves(c, u)
    PROVE  CallOK(k)'
<1>1. CallOK(k) /\ calls[k] \in Call
  BY DEF IInv, ChatTypeOK
<1>2. PICK away \in SUBSET People :
        /\ calls'[k] = [calls[k] EXCEPT !.away = away]
        /\ calls[k].away \subseteq away
        /\ /\ calls[k].pc \in {"readSender", "restoreSender", "insert"}
           /\ calls[k].conversationId = c
           => u \in away
  BY DEF Learns
<1>3. /\ calls'[k].pc = calls[k].pc /\ calls'[k].op = calls[k].op
      /\ calls'[k].me = calls[k].me /\ calls'[k].other = calls[k].other
      /\ calls'[k].conversationId = calls[k].conversationId /\ calls'[k].row = calls[k].row
      /\ calls'[k].talked = calls[k].talked /\ calls'[k].away = away
  BY <1>1, <1>2 DEF Call
<1>4. CallInv(k)'
  BY <1>1, <1>3 DEF CallOK, CallInv, RowsStay
<1>5. SendInv(k)'
  <2> SUFFICES ASSUME calls[k].pc \in Sending PROVE SendInv(k)'
    BY <1>3 DEF SendInv
  <2>1. PICK d, v, r : d = calls[k].conversationId /\ v = calls[k].other /\ r = calls[k].row
    OBVIOUS
  <2>2. SendInv(k) /\ d \in Convs /\ v \in People /\ r \in Rows
    BY <1>1, <2>1 DEF CallOK, CallInv, Sending, Call
  <2>3. purged \subseteq purged' /\ calls[k].op = "message"
    BY <2>2 DEF RowsStay, SendInv
  <2>4. calls[k].pc = "restoreReceiver" => v \in away \cup purged' \/ part'[d][v][r].state # "none"
    BY <1>2, <2>1, <2>2, <2>3, SMTT(30) DEF SendInv, RowsStay
  <2>5. calls[k].pc \in {"readSender", "restoreSender", "insert"} =>
          v \in away \cup purged' \/ WillBeActive(d, v)
    <3> SUFFICES ASSUME calls[k].pc \in {"readSender", "restoreSender", "insert"},
                        v \notin away \cup purged'
                 PROVE  WillBeActive(d, v)
      OBVIOUS
    <3>1. Active(d, v)
      BY <1>2, <2>1, <2>2, <2>3 DEF SendInv
    <3>2. ~(d = c /\ v = u)
      BY <1>2, <2>1
    <3> QED
      BY <2>2, <3>1, <3>2 DEF OnlyLeaves, Active, WillBeActive
  <2> QED
    BY <1>3, <2>1, <2>3, <2>4, <2>5 DEF SendInv, Active, WillBeActive
<1>6. TalkInv(k)'
  BY <1>1, <1>3, TalkOfCallStays DEF CallOK
<1> QED
  BY <1>4, <1>5, <1>6 DEF CallOK

LEMMA DeleteKeeps ==
    ASSUME IInv, NEW k \in Calls, deleteConversation(k)
    PROVE  IInv'
<1> DEFINE u == calls[k].me
           c == calls[k].conversationId
           r == calls[k].row
           row == [part[c][u][r] EXCEPT !.state = "deleted"]
<1>1. CallOK(k) /\ calls[k] \in Call
  BY DEF IInv, ChatTypeOK
<1>2. c \in Convs /\ u \in People /\ r \in Rows
  BY <1>1 DEF CallOK, CallInv, deleteConversation, Call
<1>3. part[c][u][r] \in Participant
  BY <1>2 DEF IInv, ChatTypeOK
<1>4. row \in Participant /\ row.state = "deleted"
  BY <1>3 DEF Participant
<1>5. \/ part[c][u][r].state # "none" /\ RowBecomes(c, u, r, row)
      \/ part[c][u][r].state = "none" /\ part' = part
  <2>1. CASE part[c][u][r].state # "none"
    <3>1. part' = [part EXCEPT ![c][u][r].state = "deleted"]
      BY <2>1 DEF deleteConversation
    <3>2. [part EXCEPT ![c][u][r].state = "deleted"] = [part EXCEPT ![c][u][r] = row]
      OBVIOUS
    <3>3. part' = [part EXCEPT ![c][u][r] = row]
      BY <3>1, <3>2
    <3> HIDE DEF row
    <3>4. RowBecomes(c, u, r, row)
      BY <1>2, <1>4, <3>3, RowWritten
    <3> QED
      BY <2>1, <3>4
  <2>2. CASE part[c][u][r].state = "none"
    BY <2>2 DEF deleteConversation
  <2> QED
    BY <2>1, <2>2
<1> HIDE DEF row
<1>6. /\ part' \in [Convs -> [People -> [Rows -> Participant]]]
      /\ part'[c][u][r].state # "active"
      /\ \A d \in Convs, v \in People, q \in Rows :
           part'[d][v][q] = part[d][v][q] \/ (d = c /\ v = u /\ q = r /\ part'[d][v][q] = row)
  <2>1. CASE part[c][u][r].state # "none" /\ RowBecomes(c, u, r, row)
    BY <1>2, <1>4, <2>1 DEF RowBecomes
  <2>2. CASE part[c][u][r].state = "none" /\ part' = part
    BY <1>2, <2>2 DEF IInv, ChatTypeOK
  <2> QED
    BY <1>5, <2>1, <2>2
<1>7. UNCHANGED <<conv, msgs, purged, broken>>
  BY DEF deleteConversation
<1>8. RowsStay
  <2>1. CASE part[c][u][r].state # "none" /\ RowBecomes(c, u, r, row)
    <3>1. conv[c].kind # "none"
      BY <1>2, <2>1 DEF IInv, RowsInv, Joins
    <3> QED
      BY <1>2, <1>4, <1>7, <2>1, <3>1, RowChanged
  <2>2. CASE part' = part
    BY <1>7, <2>2 DEF RowsStay, IInv, RowsInv, Joins
  <2> QED
    BY <1>5, <2>1, <2>2
<1>9. MessagesStay
  BY <1>7, MessagesUnchanged
<1>10. ASSUME NEW j \in Calls
       PROVE  calls'[j] \in Call /\ CallOK(j)'
  <2>1. CASE j = k
    <3>1. calls'[j] = Idle
      BY <2>1 DEF deleteConversation
    <3> QED
      BY <3>1, IdleIsCall, IdleIsOK
  <2>2. CASE j # k
    <3> DEFINE hears == /\ calls[j].pc \in {"readSender", "restoreSender", "insert"}
                        /\ calls[j].conversationId = c
               away == IF hears THEN calls[j].away \cup {u} ELSE calls[j].away
    <3>1. calls[j] \in Call
      BY DEF IInv, ChatTypeOK
    <3>2. calls'[j] = [calls[j] EXCEPT !.away = away]
      BY <2>2, <3>1 DEF deleteConversation, Call
    <3>3. away \in SUBSET People /\ calls[j].away \subseteq away
      BY <1>2, <3>1 DEF Call
    <3>4. hears => u \in away
      OBVIOUS
    <3>5. calls'[j] \in Call
      BY <3>1, <3>2, <3>3 DEF Call
    <3>6. OnlyLeaves(c, u)
      BY <1>6 DEF OnlyLeaves
    <3>7. Learns(j, c, u)
      <4> HIDE DEF away, u, c
      <4> QED
        BY <3>2, <3>3, <3>4 DEF Learns
    <3>8. CallOK(j)'
      BY <1>2, <1>8, <1>9, <3>6, <3>7, LearningCallStays
    <3> QED
      BY <3>5, <3>8
  <2> QED
    BY <2>1, <2>2
<1>11. ChatTypeOK'
  <2>1. calls' \in [Calls -> Call]
    <3>1. \E f : calls' = [j \in Calls |-> f[j]]
      <4> WITNESS [j \in Calls |-> calls'[j]]
      <4> QED
        BY DEF deleteConversation
    <3> QED
      BY <1>10, <3>1
  <2> QED
    BY <1>6, <1>7, <2>1 DEF IInv, ChatTypeOK
<1>12. ForgetInv'
  <2>1. Len(msgs) \in Nat /\ Len(msgs') = Len(msgs)
    BY <1>7 DEF IInv, ChatTypeOK
  <2>2. \/ forgotten' = forgotten
        \/ /\ \A q \in Rows : q # r => part[c][u][q].state # "active"
           /\ forgotten' = forgotten \cup {<<u, c, Len(msgs)>>}
    BY DEF deleteConversation
  <2>3. forgotten' \subseteq People \X Convs \X Nat
    <3>1. forgotten \subseteq People \X Convs \X Nat
      BY DEF IInv, ForgetInv
    <3>2. <<u, c, Len(msgs)>> \in People \X Convs \X Nat
      BY <1>2, <2>1
    <3> QED
      BY <2>2, <3>1, <3>2
  <2>4. ASSUME NEW v \in People, NEW d \in Convs, NEW n \in Nat, <<v, d, n>> \in forgotten'
        PROVE  n <= Len(msgs) /\ \A q \in Rows : part'[d][v][q].state = "active" => n <= part'[d][v][q].since
    <3>1. CASE <<v, d, n>> \in forgotten
      <4>1. n <= Len(msgs) /\ \A q \in Rows : part[d][v][q].state = "active" => n <= part[d][v][q].since
        BY <3>1 DEF IInv, ForgetInv
      <4>2. \A q \in Rows : part'[d][v][q].state = "active" => part'[d][v][q] = part[d][v][q]
        BY <1>4, <1>6
      <4> QED
        BY <4>1, <4>2
    <3>2. CASE <<v, d, n>> \notin forgotten
      <4>1. /\ <<v, d, n>> = <<u, c, Len(msgs)>>
            /\ \A q \in Rows : q # r => part[c][u][q].state # "active"
        BY <2>2, <2>4, <3>2
      <4>2. \A q \in Rows : part'[d][v][q].state # "active"
        <5>1. ASSUME NEW q \in Rows PROVE part'[c][u][q].state # "active"
          <6>1. part'[c][u][q] = part[c][u][q] \/ q = r
            BY <1>2, <1>6
          <6>2. q # r => part[c][u][q].state # "active"
            BY <4>1
          <6> QED
            BY <1>6, <6>1, <6>2
        <5> QED
          BY <4>1, <5>1
      <4> QED
        <5>1. n = Len(msgs)
          BY <4>1
        <5> QED
          BY <2>1, <4>2, <5>1
    <3> QED
      BY <3>1, <3>2
  <2>5. ASSUME NEW v \in People, NEW d \in Convs, NEW q \in Rows, part'[d][v][q].state = "active"
        PROVE  part'[d][v][q].since <= Len(msgs')
    <3>1. part'[d][v][q] = part[d][v][q]
      BY <1>4, <1>6, <2>5
    <3> QED
      BY <2>1, <2>5, <3>1 DEF IInv, ForgetInv
  <2> QED
    BY <2>1, <2>3, <2>4, <2>5 DEF ForgetInv
<1>13. RowsInv'
  BY <1>8 DEF RowsStay, RowsInv, Joins
<1> QED
  BY <1>10, <1>11, <1>12, <1>13 DEF IInv

LEMMA SeeMessagesKeeps ==
    ASSUME IInv, NEW u \in Users, NEW c \in Convs, SeeMessages(u, c)
    PROVE  IInv'
<1>1. msgs \in Seq(ConversationMessage) /\ Len(msgs) \in Nat
  BY DEF IInv, ChatTypeOK
<1>2. ASSUME NEW i \in 1..Len(msgs)
      PROVE  LET m == IF msgs[i].conversationId = c /\ msgs[i].to = u
                      THEN [msgs[i] EXCEPT !.isSeen = TRUE] ELSE msgs[i]
             IN /\ m \in ConversationMessage
                /\ m.conversationId = msgs[i].conversationId
                /\ m.from = msgs[i].from /\ m.to = msgs[i].to
  <2>1. msgs[i] \in ConversationMessage
    BY <1>1
  <2> QED
    BY <2>1 DEF ConversationMessage
<1>3. msgs' \in [1..Len(msgs) -> ConversationMessage]
  BY <1>2 DEF SeeMessages
<1>4. msgs' \in Seq(ConversationMessage) /\ Len(msgs') = Len(msgs)
  BY <1>1, <1>3
<1>5. MessagesStay
  BY <1>1, <1>2, <1>4 DEF MessagesStay, SeeMessages
<1>6. UNCHANGED <<conv, part, calls, purged, broken, forgotten>>
  BY DEF SeeMessages
<1>7. ChatTypeOK'
  BY <1>4, <1>6 DEF IInv, ChatTypeOK
<1>8. RowsStay /\ ActiveStay /\ SinceStay
  BY <1>6 DEF RowsStay, ActiveStay, SinceStay, IInv, RowsInv, Joins
<1>9. \A k \in Calls : CallOK(k)'
  BY <1>5, <1>6, <1>8, OtherCallsStay
<1> QED
  BY <1>5, <1>6, <1>7, <1>8, <1>9, AllKeeps

LEMMA PurgeKeeps ==
    ASSUME IInv, NEW u \in Users, PurgeUser(u)
    PROVE  IInv'
<1> DEFINE gone == [r \in Rows |-> NoParticipant]
<1>1. /\ purged' = purged \cup {u} /\ UNCHANGED <<conv, msgs, calls, broken, forgotten>>
      /\ part' = [c \in Convs |-> [part[c] EXCEPT ![u] = gone]]
  BY DEF PurgeUser
<1>2. NoParticipant \in Participant /\ NoParticipant.state = "none"
  BY JoinedType
<1>3. u \in People
  BY DEF People
<1>4. part' \in [Convs -> [People -> [Rows -> Participant]]]
  <2>1. gone \in [Rows -> Participant]
    BY <1>2
  <2> HIDE DEF gone
  <2> QED
    BY <1>1, <1>3, <2>1 DEF IInv, ChatTypeOK
<1>5. ASSUME NEW c \in Convs, NEW v \in People, NEW r \in Rows
      PROVE  part'[c][v][r] = IF v = u THEN NoParticipant ELSE part[c][v][r]
  <2>1. gone[r] = NoParticipant
    OBVIOUS
  <2> HIDE DEF gone
  <2>2. part'[c][v] = IF v = u THEN gone ELSE part[c][v]
    BY <1>1, <1>3 DEF IInv, ChatTypeOK
  <2> QED
    BY <2>1, <2>2
<1>6. ChatTypeOK'
  BY <1>1, <1>4 DEF IInv, ChatTypeOK
<1>7. RowsStay
  <2>1. u \in purged' /\ purged \subseteq purged' /\ conv' = conv
    BY <1>1
  <2>2. ASSUME NEW c \in Convs, NEW v \in People, NEW r \in Rows
        PROVE  /\ part[c][v][r].state # "none" => part'[c][v][r].state # "none" \/ v \in purged'
               /\ part'[c][v][r].state # "none" => conv'[c].kind # "none"
    BY <1>2, <1>5, <2>1 DEF IInv, RowsInv, Joins
  <2> QED
    BY <2>1, <2>2 DEF RowsStay
<1>8. ActiveStay /\ SinceStay
  BY <1>1, <1>2, <1>5 DEF ActiveStay, SinceStay
<1>9. MessagesStay
  BY <1>1, MessagesUnchanged
<1>10. \A k \in Calls : CallOK(k)'
  BY <1>1, <1>7, <1>8, <1>9, OtherCallsStay
<1> QED
  BY <1>1, <1>6, <1>7, <1>8, <1>9, <1>10, AllKeeps

LEMMA ChatCrashKeeps ==
    ASSUME IInv, ChatCrash
    PROVE  IInv'
<1>1. calls' = [k \in Calls |-> Idle] /\ UNCHANGED <<conv, part, msgs, purged, forgotten>>
  BY DEF ChatCrash
<1>2. \A k \in Calls : calls[k].conversationId \in Convs \cup {None}
  BY DEF IInv, ChatTypeOK, Call
<1>3. ChatTypeOK'
  BY <1>1, <1>2, IdleIsCall DEF IInv, ChatTypeOK, ChatCrash
<1>4. RowsStay /\ SinceStay
  BY <1>1 DEF RowsStay, SinceStay, IInv, RowsInv, Joins
<1>5. \A k \in Calls : CallOK(k)'
  BY <1>1, IdleIsOK
<1> QED
  BY <1>1, <1>3, <1>4, <1>5, MessagesUnchanged, AllKeeps

----------------------------------------------------------------------------
(* The invariant, and the theorems. *)

BoundsOK == spent \in 0..MaxEvents /\ faults \in 0..MaxFaults

LEMMA RowsBegin == Init => IInv /\ BoundsOK
<1> SUFFICES ASSUME Init PROVE IInv /\ BoundsOK
  OBVIOUS
<1>1. ChatInit /\ spent = 0 /\ faults = 0
  BY DEF Init
<1>2. NoParticipant \in Participant /\ NoParticipant.state = "none"
  BY DEF NoParticipant, Participant
<1>3. msgs \in Seq(ConversationMessage) /\ Len(msgs) = 0
  BY <1>1 DEF ChatInit
<1>4. [kind |-> "none", members |-> {}] \in Conversation
  BY DEF Conversation
<1>5. ChatTypeOK
  BY <1>1, <1>2, <1>3, <1>4, IdleIsCall DEF ChatInit, ChatTypeOK
<1>6. \A k \in Calls : CallOK(k)
  <2>1. \A k \in Calls : calls[k] = Idle
    BY <1>1 DEF ChatInit
  <2> QED
    BY <2>1 DEF CallOK, CallInv, SendInv, TalkInv, Idle, Sending
<1>7. RowsInv
  BY <1>1, <1>2 DEF ChatInit, RowsInv, Joins
<1>8. ForgetInv
  BY <1>1, <1>2, <1>3 DEF ChatInit, ForgetInv
<1> QED
  BY <1>1, <1>5, <1>6, <1>7, <1>8 DEF IInv, BoundsOK

LEMMA StutterKeeps ==
    ASSUME IInv, UNCHANGED chatVars
    PROVE  IInv'
<1>1. ChatTypeOK'
  BY DEF IInv, ChatTypeOK, chatVars
<1>2. RowsStay /\ ActiveStay /\ SinceStay
  BY DEF RowsStay, ActiveStay, SinceStay, IInv, RowsInv, Joins, chatVars
<1>3. MessagesStay
  BY MessagesUnchanged DEF chatVars
<1>4. \A k \in Calls : CallOK(k)'
  BY <1>2, <1>3, OtherCallsStay DEF chatVars
<1> QED
  BY <1>1, <1>2, <1>3, <1>4, AllKeeps DEF chatVars

LEMMA CallStepKeeps ==
    ASSUME IInv, NEW k \in Calls, CallStep(k)
    PROVE  IInv'
BY FindConversationKeeps, CreateConversationKeeps, ReadParticipantKeeps, RestoreParticipantKeeps,
   InsertMessageKeeps, StartFindKeeps, StartCreateKeeps, StartJoinKeeps, SystemFindKeeps,
   SystemCreateKeeps, DeleteKeeps, ToggleFlagKeeps DEF CallStep

LEMMA AskKeeps ==
    ASSUME IInv, NEW k \in Calls, Ask(k)
    PROVE  IInv'
<1>1. PICK u \in Users \ purged :
         \/ \E v \in Users : \/ getConversationByUserId(k, u, v)
                             \/ StartConversation(k, u, v)
                             \/ DraftMessage(k, u, v)
         \/ SystemOpen(k, u)
         \/ BookingMessage(k, u)
         \/ \E c \in Convs, op \in {"delete", "mute", "pin"} : ChangeOwn(k, op, u, c)
  BY DEF Ask
<1>2. u \in People /\ Admin \in People /\ Users \subseteq People
  BY DEF People
<1>3. ASSUME NEW v \in Users, getConversationByUserId(k, u, v)
      PROVE  IInv'
  BY <1>2, <1>3, SearchKeeps DEF getConversationByUserId
<1>4. ASSUME NEW v \in Users, StartConversation(k, u, v)
      PROVE  IInv'
  BY <1>2, <1>4, SearchKeeps DEF StartConversation
<1>5. CASE SystemOpen(k, u)
  BY <1>2, <1>5, SearchKeeps DEF SystemOpen
<1>6. CASE BookingMessage(k, u)
  <2>1. PICK c \in Convs \cup {None} : CreateMessage(k, Admin, u, c)
    BY <1>6 DEF BookingMessage, SystemConversation
  <2> QED
    BY <1>2, <2>1, CreateMessageKeeps
<1>7. ASSUME NEW c \in Convs, NEW op \in {"delete", "mute", "pin"}, ChangeOwn(k, op, u, c)
      PROVE  IInv'
  BY <1>7, ChangeOwnKeeps
<1>8. ASSUME NEW v \in Users, DraftMessage(k, u, v)
      PROVE  IInv'
  BY <1>2, <1>8, CreateMessageKeeps DEF DraftMessage
<1> QED
  BY <1>1, <1>3, <1>4, <1>5, <1>6, <1>7, <1>8

LEMMA RowsKept == IInv /\ HandlingInv /\ [Next]_vars => IInv'
<1> SUFFICES ASSUME IInv, HandlingInv, [Next]_vars PROVE IInv'
  OBVIOUS
<1>1. CASE \E s \in SocketIds, v \in Users, c \in Convs \cup {None} : HandleMessage(s, v, c)
  BY <1>1, StutterKeeps DEF HandleMessage
<1>2. ASSUME NEW k \in Calls, EmitMessage(k)
      PROVE  IInv'
  <2>1. /\ handling.sender \in People /\ handling.receiver \in People
        /\ handling.conversationId \in Convs \cup {None}
    BY <1>2 DEF EmitMessage, HandlingInv, People
  <2> QED
    BY <1>2, <2>1, CreateMessageKeeps DEF EmitMessage
<1>3. ASSUME NEW k \in Calls, Ask(k)
      PROVE  IInv'
  BY <1>3, AskKeeps
<1>4. CASE Serve
  BY <1>4, CallStepKeeps, SeeMessagesKeeps DEF Serve
<1>5. CASE SocketStep \/ UNCHANGED vars
  BY <1>5, StutterKeeps DEF SocketStep, vars
<1>6. CASE Fault
  BY <1>6, PurgeKeeps, ChatCrashKeeps, StutterKeeps DEF Fault
<1> QED
  BY <1>1, <1>2, <1>3, <1>4, <1>5, <1>6 DEF Next

LEMMA BoundsKept == BoundsOK /\ [Next]_vars => BoundsOK'
<1> SUFFICES ASSUME BoundsOK, [Next]_vars PROVE BoundsOK'
  OBVIOUS
<1>1. MaxEvents \in Nat /\ MaxFaults \in Nat
  BY ChatBounds
<1>2. spent' \in {spent, spent + 1} /\ (spent' = spent \/ spent < MaxEvents)
  BY DEF Next, HandleMessage, EmitMessage, Ask, Serve, SocketStep, Fault, vars, handleVars
<1>3. faults' \in {faults, faults + 1} /\ (faults' = faults \/ faults < MaxFaults)
  BY DEF Next, HandleMessage, EmitMessage, Ask, Serve, SocketStep, Fault, vars, handleVars
<1> QED
  BY <1>1, <1>2, <1>3 DEF BoundsOK

AllInv == SocketInv /\ HandlingInv /\ IInv /\ BoundsOK

LEMMA AllInvHolds == Spec => []AllInv
<1>1. Init => AllInv
  BY SocketsBegin, RowsBegin DEF AllInv
<1>2. AllInv /\ [Next]_vars => AllInv'
  BY SocketsKept, RowsKept, BoundsKept DEF AllInv
<1> QED
  BY <1>1, <1>2, PTL DEF Spec

\* Rows, messages, calls and sockets keep their types.
THEOREM ChatTypesHold == Spec => []TypeOK
<1>1. AllInv => TypeOK
  BY DEF AllInv, SocketInv, IInv, ChatTypeOK, BoundsOK, TypeOK
<1> QED
  BY <1>1, AllInvHolds, PTL

\* What a user deleted never comes back.
THEOREM DeletedNeverComesBack == Spec => []DeletedStaysDeleted
<1>1. AllInv => DeletedStaysDeleted
  <2> SUFFICES ASSUME AllInv, NEW f \in forgotten, NEW i \in Sees(f[1], f[2])
               PROVE  i > f[3]
    BY DEF DeletedStaysDeleted
  <2>1. f \in People \X Convs \X Nat
    BY DEF AllInv, IInv, ForgetInv
  <2>2. PICK u \in People, c \in Convs, n \in Nat : f = <<u, c, n>>
    BY <2>1
  <2>3. \A r \in Rows : part[c][u][r].state = "active" => n <= part[c][u][r].since
    BY <2>2 DEF AllInv, IInv, ForgetInv
  <2>4. i \in Nat /\ \E r \in Rows : part[c][u][r].state = "active" /\ i > part[c][u][r].since
    BY <2>2 DEF Sees, AllInv, IInv, ChatTypeOK
  <2>5. \A r \in Rows : part[c][u][r].since \in Nat
    BY <2>2 DEF AllInv, IInv, ChatTypeOK, Participant
  <2> QED
    BY <2>2, <2>3, <2>4, <2>5
<1> QED
  BY <1>1, AllInvHolds, PTL

\* Only the last step of createMessage stores a message.
LEMMA OnlyInsertStores ==
    ASSUME IInv, [Next]_vars, Len(msgs') > Len(msgs)
    PROVE  \E k \in Calls : InsertMessage(k)
<1> SUFFICES ASSUME ~\E k \in Calls : InsertMessage(k)
             PROVE  Len(msgs') = Len(msgs)
  <2>1. Len(msgs) \in Nat
    BY DEF IInv, ChatTypeOK
  <2> QED
    BY <2>1
<1>1. \A k \in Calls : CallStep(k) => msgs' = msgs
  BY DEF CallStep, FindConversation, CreateConversation, ReadParticipant, RestoreParticipant,
         StartFind, StartCreate, StartJoin, SystemFind, SystemCreate, deleteConversation,
         ToggleFlag
<1>2. ASSUME NEW u \in Users, NEW c \in Convs, SeeMessages(u, c)
      PROVE  Len(msgs') = Len(msgs)
  <2>1. Len(msgs) \in Nat
    BY DEF IInv, ChatTypeOK
  <2>2. PICK f : msgs' = [i \in 1..Len(msgs) |-> f[i]]
    <3>1. msgs' = [i \in 1..Len(msgs) |-> msgs'[i]]
      BY <1>2 DEF SeeMessages
    <3> QED
      BY <3>1
  <2> QED
    BY <2>1, <2>2
<1>3. Serve => Len(msgs') = Len(msgs)
  BY <1>1, <1>2 DEF Serve
<1>4. (\E k \in Calls : EmitMessage(k) \/ Ask(k)) => msgs' = msgs
  BY ZenonT(40) DEF EmitMessage, Ask, CreateMessage, getConversationByUserId, StartConversation, SystemOpen,
         DraftMessage, BookingMessage, ChangeOwn
<1>5. (\E s \in SocketIds, v \in Users, c \in Convs \cup {None} : HandleMessage(s, v, c))
        => msgs' = msgs
  BY DEF HandleMessage, chatVars
<1>6. SocketStep \/ Fault \/ UNCHANGED vars => msgs' = msgs
  BY DEF SocketStep, Fault, PurgeUser, ChatCrash, GatewayCrash, chatVars, vars
<1> QED
  BY <1>3, <1>4, <1>5, <1>6 DEF Next

\* A message is stored where its receiver sees it.
THEOREM MessagesAlwaysReach == Spec => MessagesReachTheReceiver
<1>1. ASSUME IInv, [Next]_vars, Len(msgs') > Len(msgs)
      PROVE  LET m == msgs'[Len(msgs')] IN
             \/ m.to \in m.away \cup purged
             \/ \E r \in Rows : LET row == part'[m.conversationId][m.to][r] IN
                  row.state = "active" /\ row.since < Len(msgs')
  <2>1. PICK k \in Calls : InsertMessage(k)
    BY <1>1, OnlyInsertStores
  <2> DEFINE c == calls[k].conversationId
             u == calls[k].other
             away == calls[k].away
  <2>2. CallOK(k) /\ calls[k] \in Call /\ msgs \in Seq(ConversationMessage) /\ Len(msgs) \in Nat
    BY <1>1 DEF IInv, ChatTypeOK
  <2>3. c \in Convs /\ u \in People /\ SendInv(k) /\ calls[k].pc = "insert"
    BY <2>1, <2>2 DEF CallOK, CallInv, InsertMessage
  <2>4. u \in away \cup purged \/ Active(c, u)
    BY <2>3 DEF SendInv, Sending
  <2>5. Active(c, u) => \E r \in Rows : part[c][u][r].state = "active" /\ part[c][u][r].since < Len(msgs) + 1
    <3>1. ASSUME NEW r \in Rows, part[c][u][r].state = "active"
          PROVE  part[c][u][r].since < Len(msgs) + 1
      <4>1. part[c][u][r].since <= Len(msgs) /\ part[c][u][r].since \in Nat
        BY <1>1, <2>3, <3>1 DEF IInv, ForgetInv, ChatTypeOK, Participant
      <4> QED
        BY <2>2, <4>1
    <3> QED
      BY <3>1 DEF Active
  <2>6. part' = part
    BY <2>1 DEF InsertMessage
  <2>7. PICK m : /\ msgs' = Append(msgs, m) /\ m.conversationId = c /\ m.to = u /\ m.away = away
    BY <2>1 DEF InsertMessage
  <2>8. Len(msgs') = Len(msgs) + 1 /\ msgs'[Len(msgs) + 1] = m
    BY <2>2, <2>7
  <2> HIDE DEF c, u, away
  <2> QED
    BY <2>4, <2>5, <2>6, <2>7, <2>8
<1> QED
  BY <1>1, AllInvHolds, PTL DEF Spec, AllInv, MessagesReachTheReceiver

\* Only three steps create a conversation.
LEMMA OnlyCreatorsCreate ==
    ASSUME [Next]_vars
    PROVE  \/ conv' = conv
           \/ \E j \in Calls : CreateConversation(j) \/ StartCreate(j) \/ SystemCreate(j)
<1> SUFFICES ASSUME ~\E j \in Calls : CreateConversation(j) \/ StartCreate(j) \/ SystemCreate(j)
             PROVE  conv' = conv
  OBVIOUS
<1>1. \A k \in Calls : CallStep(k) => conv' = conv
  BY DEF CallStep, FindConversation, ReadParticipant, RestoreParticipant, InsertMessage,
         StartFind, StartJoin, SystemFind, deleteConversation, ToggleFlag
<1>2. Serve => conv' = conv
  BY <1>1 DEF Serve, SeeMessages
<1>3. (\E k \in Calls : EmitMessage(k) \/ Ask(k)) => conv' = conv
  BY ZenonT(40) DEF EmitMessage, Ask, CreateMessage, getConversationByUserId, StartConversation, SystemOpen,
         DraftMessage, BookingMessage, ChangeOwn
<1>4. (\E s \in SocketIds, v \in Users, c \in Convs \cup {None} : HandleMessage(s, v, c))
        => conv' = conv
  BY DEF HandleMessage, chatVars
<1>5. SocketStep \/ Fault \/ UNCHANGED vars => conv' = conv
  BY DEF SocketStep, Fault, PurgeUser, ChatCrash, GatewayCrash, chatVars, vars
<1> QED
  BY <1>2, <1>3, <1>4, <1>5 DEF Next

\* Two who wrote to each other before get no second conversation.
THEOREM TalkAlwaysKeepsItsConversation == Spec => TalkKeepsItsConversation
<1>1. ASSUME IInv, [Next]_vars, NEW k \in Calls,
             calls[k].pc = "create", calls[k].me \in Users, calls[k].other \in Users,
             calls[k].talked, NEW c \in Convs, conv'[c].kind = "user"
      PROVE  conv[c].kind = "user" \/ calls'[k] = calls[k]
  <2>1. CallOK(k)
    BY <1>1 DEF IInv
  <2>2. calls[k].op # "start" /\ {calls[k].me, calls[k].other} \cap purged # {}
        /\ calls[k].op # "system"
    <3>1. calls[k].op # "system"
      BY <1>1, <2>1 DEF CallOK, TalkInv
    <3> QED
      BY <1>1, <2>1, <3>1 DEF CallOK, TalkInv
  <2>3. CASE conv' = conv
    BY <1>1, <2>3
  <2>4. CASE \E j \in Calls : CreateConversation(j) \/ StartCreate(j) \/ SystemCreate(j)
    <3>1. PICK j \in Calls : CreateConversation(j) \/ StartCreate(j) \/ SystemCreate(j)
      BY <2>4
    <3>2. CASE j = k
      <4>1. CreateConversation(k)
        BY <2>2, <3>1, <3>2 DEF StartCreate, SystemCreate
      <4>2. conv' = conv
        BY <2>2, <4>1 DEF CreateConversation
      <4> QED
        BY <1>1, <4>2
    <3>3. CASE j # k
      <4>1. \E call : calls' = [calls EXCEPT ![j] = call]
        BY <3>1 DEF CreateConversation, StartCreate, SystemCreate, Return, GotoWith
      <4> QED
        BY <1>1, <3>3, <4>1 DEF IInv, ChatTypeOK
    <3> QED
      BY <3>2, <3>3
  <2> QED
    BY <1>1, <2>3, <2>4, OnlyCreatorsCreate
<1>2. AllInv /\ [Next]_vars =>
        [\A k \in Calls :
           /\ calls[k].pc = "create" /\ calls[k].me \in Users /\ calls[k].other \in Users
           /\ calls[k].talked
           => \A c \in Convs : conv'[c].kind = "user" => conv[c].kind = "user"
                               \/ calls'[k] = calls[k]]_vars
  BY <1>1 DEF AllInv
<1> QED
  BY <1>2, AllInvHolds, PTL DEF Spec, TalkKeepsItsConversation

----------------------------------------------------------------------------
(* Partners. *)

JoiningPcs == {"join", "joinOther"}
Joining(k, c) == calls[k].pc \in JoiningPcs /\ calls[k].conversationId = c

\* The participants of a user's conversation are among its members, and all of
\* these are there unless one was removed or a call is, or died, creating them.
PairInv(c) ==
    conv[c].kind = "user" =>
      /\ \A u \in People : Joins(c, u) => u \in conv[c].members
      /\ \/ \A u \in conv[c].members : Joins(c, u)
         \/ conv[c].members \cap purged # {}
         \/ c \in broken
         \/ \E k \in Calls : Joining(k, c)

\* A call creating participants is alone in doing so in its conversation, which
\* it created for them and nobody is in yet, or only the one it created first.
JoinInv(k) ==
    LET call == calls[k]
        c == call.conversationId IN
    /\ call.pc \in JoiningPcs =>
         /\ conv[c].kind = "user" /\ conv[c].members = {call.me, call.other}
         /\ \A j \in Calls : Joining(j, c) => j = k
    /\ call.pc = "join" => \A u \in People : ~Joins(c, u)
    /\ call.pc = "joinOther" =>
         LET u == IF call.flag THEN call.other ELSE call.me IN Joins(c, u) \/ u \in purged

ListInv == (\A c \in Convs : PairInv(c)) /\ (\A k \in Calls : JoinInv(k))

LEMMA ListsBegin == Init => ListInv
<1> SUFFICES ASSUME Init PROVE ListInv
  OBVIOUS
<1>1. /\ \A c \in Convs : conv[c].kind = "none"
      /\ \A k \in Calls : calls[k].op = "none" /\ calls[k].pc = "idle"
  BY DEF Init, ChatInit, Idle
<1> QED
  BY <1>1 DEF ListInv, PairInv, JoinInv, JoiningPcs

\* Nobody joins c, and nobody leaves it who was not removed.
JoinsStay(c) == \A u \in People : /\ Joins(c, u) => WillJoin(c, u) \/ u \in purged'
                                  /\ WillJoin(c, u) => Joins(c, u)

\* No call begins or ends to create participants.
SameJoiner(k) ==
    /\ calls'[k].pc = calls[k].pc /\ calls'[k].conversationId = calls[k].conversationId
    /\ calls'[k].me = calls[k].me /\ calls'[k].other = calls[k].other
    /\ calls'[k].flag = calls[k].flag

JoinerStays(k) == calls[k].pc \in JoiningPcs \/ calls'[k].pc \in JoiningPcs => SameJoiner(k)

JoinersStay == \A k \in Calls : JoinerStays(k)

LEMMA PairStays ==
    ASSUME IInv, ListInv, purged \subseteq purged', broken \subseteq broken',
           NEW c \in Convs, conv[c].kind = "user", conv'[c] = conv[c], JoinsStay(c),
           \A k \in Calls : Joining(k, c) => calls'[k].pc \in JoiningPcs /\ calls'[k].conversationId = c
    PROVE  PairInv(c)'
<1>1. PairInv(c) /\ conv[c].members \subseteq People
  BY DEF ListInv, IInv, ChatTypeOK, Conversation
<1>2. \A u \in People : WillJoin(c, u) => u \in conv'[c].members
  BY <1>1 DEF PairInv, JoinsStay
<1>3. \/ \A u \in conv'[c].members : WillJoin(c, u)
      \/ conv'[c].members \cap purged' # {}
      \/ c \in broken'
      \/ \E k \in Calls : calls'[k].pc \in JoiningPcs /\ calls'[k].conversationId = c
  <2>1. CASE \A u \in conv[c].members : Joins(c, u)
    BY <1>1, <2>1 DEF JoinsStay
  <2>2. CASE conv[c].members \cap purged # {} \/ c \in broken
    BY <2>2
  <2>3. CASE \E k \in Calls : Joining(k, c)
    BY <2>3
  <2> QED
    BY <1>1, <2>1, <2>2, <2>3 DEF PairInv
<1> QED
  BY <1>2, <1>3 DEF PairInv, Joins, WillJoin, Joining

LEMMA JoinerStaysInOrder ==
    ASSUME IInv, ListInv, purged \subseteq purged', NEW k \in Calls, JoinerStays(k),
           calls[k].pc \in JoiningPcs =>
             LET c == calls[k].conversationId IN
             /\ conv'[c] = conv[c] /\ JoinsStay(c)
             /\ \A j \in Calls : calls'[j].pc \in JoiningPcs /\ calls'[j].conversationId = c
                                 => Joining(j, c)
    PROVE  JoinInv(k)'
<1>2. CASE calls'[k].pc \notin JoiningPcs
  BY <1>2 DEF JoinInv, JoiningPcs
<1>3. CASE calls'[k].pc \in JoiningPcs
  <2> DEFINE c == calls[k].conversationId
             me == calls[k].me
             other == calls[k].other
  <2>1. SameJoiner(k) /\ calls[k].pc \in JoiningPcs
    BY <1>3 DEF JoinerStays, SameJoiner
  <2>2. c \in Convs /\ me \in People /\ other \in People
    BY <1>3, <2>1 DEF IInv, CallOK, CallInv, SameJoiner, JoiningPcs
  <2>3. JoinInv(k)
    BY DEF ListInv
  <2>4. /\ conv[c].kind = "user" /\ conv[c].members = {me, other}
        /\ \A j \in Calls : Joining(j, c) => j = k
    BY <1>3, <2>1, <2>3 DEF JoinInv, SameJoiner
  <2>5. /\ conv'[c] = conv[c] /\ JoinsStay(c)
        /\ \A j \in Calls : calls'[j].pc \in JoiningPcs /\ calls'[j].conversationId = c
                            => Joining(j, c)
    BY <2>1
  <2>6. calls[k].pc = "join" => \A u \in People : ~WillJoin(c, u)
    BY <2>2, <2>3, <2>5 DEF JoinInv, JoinsStay
  <2>7. calls[k].pc = "joinOther" =>
           LET u == IF calls[k].flag THEN other ELSE me
           IN  WillJoin(c, u) \/ u \in purged'
    BY <2>2, <2>3, <2>5 DEF JoinInv, JoinsStay
  <2>8. /\ calls'[k].pc = calls[k].pc /\ calls'[k].conversationId = c
        /\ calls'[k].me = me /\ calls'[k].other = other /\ calls'[k].flag = calls[k].flag
    BY <2>1 DEF SameJoiner
  <2> HIDE DEF c, me, other
  <2>9. /\ conv'[c].kind = "user" /\ conv'[c].members = {me, other}
    BY <2>4, <2>5
  <2>10. \A j \in Calls : calls'[j].pc \in JoiningPcs /\ calls'[j].conversationId = c => j = k
    BY <2>4, <2>5
  <2>11. calls'[k].pc = "join" => \A u \in People : ~WillJoin(c, u)
    BY <2>6, <2>8
  <2>12. calls'[k].pc = "joinOther" =>
           LET u == IF calls'[k].flag THEN other ELSE me
           IN  WillJoin(c, u) \/ u \in purged'
    BY <2>7, <2>8
  <2> QED
    BY <2>8, <2>9, <2>10, <2>11, <2>12 DEF JoinInv, Joins, WillJoin, Joining
<1> QED
  BY <1>2, <1>3

\* A step that changes no user's conversation but creates one, at most, with
\* everyone in it.
LEMMA ListStays ==
    ASSUME IInv, ListInv, purged \subseteq purged', broken \subseteq broken', JoinersStay,
           \A c \in Convs : conv[c].kind = "user" => conv'[c] = conv[c] /\ JoinsStay(c),
           \A c \in Convs : conv[c].kind # "user" => PairInv(c)'
    PROVE  ListInv'
<1>1. ASSUME NEW k \in Calls, NEW c
      PROVE  Joining(k, c) <=> calls'[k].pc \in JoiningPcs /\ calls'[k].conversationId = c
  BY DEF JoinersStay, JoinerStays, SameJoiner, Joining
<1>2. ASSUME NEW c \in Convs
      PROVE  PairInv(c)'
  <2>1. CASE conv[c].kind = "user"
    BY <1>1, <2>1, PairStays
  <2> QED
    BY <2>1
<1>3. ASSUME NEW k \in Calls
      PROVE  JoinInv(k)'
  <2>1. ASSUME calls[k].pc \in JoiningPcs
        PROVE  /\ conv'[calls[k].conversationId] = conv[calls[k].conversationId]
               /\ JoinsStay(calls[k].conversationId)
    <3>1. JoinInv(k) /\ CallInv(k)
      BY DEF ListInv, IInv, CallOK
    <3>2. calls[k].conversationId \in Convs /\ conv[calls[k].conversationId].kind = "user"
      BY <2>1, <3>1 DEF JoinInv, CallInv, JoiningPcs
    <3> QED
      BY <3>2
  <2>2. JoinerStays(k)
    BY DEF JoinersStay
  <2> QED
    BY <1>1, <2>1, <2>2, JoinerStaysInOrder
<1> QED
  BY <1>2, <1>3 DEF ListInv

\* A step that changes no conversation.
LEMMA RowsStayListed ==
    ASSUME IInv, ListInv, conv' = conv, purged \subseteq purged', broken \subseteq broken',
           JoinersStay, \A c \in Convs : JoinsStay(c)
    PROVE  ListInv'
<1>1. ASSUME NEW c \in Convs, conv[c].kind # "user"
      PROVE  PairInv(c)'
  BY <1>1 DEF PairInv
<1> QED
  BY <1>1, ListStays

\* Calls that go on, return or begin without creating participants.
LEMMA MovesStay ==
    ASSUME IInv, NEW k \in Calls, calls[k].pc \notin JoiningPcs,
           NEW call, call.pc \notin JoiningPcs, calls' = [calls EXCEPT ![k] = call]
    PROVE  JoinersStay
<1>1. calls'[k] = call /\ \A j \in Calls : j # k => calls'[j] = calls[j]
  BY DEF IInv, ChatTypeOK
<1> QED
  BY <1>1 DEF JoinersStay, JoinerStays, SameJoiner

LEMMA ReturnsStay ==
    ASSUME IInv, NEW k \in Calls, calls[k].pc \notin JoiningPcs, Return(k)
    PROVE  JoinersStay
<1>1. Idle.pc \notin JoiningPcs
  BY DEF Idle, JoiningPcs
<1> QED
  BY <1>1, MovesStay DEF Return

LEMMA GotosStay ==
    ASSUME IInv, NEW k \in Calls, calls[k].pc \notin JoiningPcs, NEW pc, pc \notin JoiningPcs,
           Goto(k, pc) \/ \E c : GotoWith(k, pc, c)
    PROVE  JoinersStay
<1>1. calls[k] \in Call
  BY DEF IInv, ChatTypeOK
<1>2. CASE Goto(k, pc)
  <2> DEFINE call == [calls[k] EXCEPT !.pc = pc]
  <2>1. calls' = [calls EXCEPT ![k] = call]
    BY <1>2 DEF Goto
  <2>2. call.pc = pc
    BY <1>1 DEF Call
  <2> HIDE DEF call
  <2> QED
    BY <2>1, <2>2, MovesStay
<1>3. CASE \E c : GotoWith(k, pc, c)
  <2>1. PICK c : GotoWith(k, pc, c)
    BY <1>3
  <2> DEFINE call == [calls[k] EXCEPT !.pc = pc, !.conversationId = c]
  <2>2. calls' = [calls EXCEPT ![k] = call]
    BY <2>1 DEF GotoWith
  <2>3. call.pc = pc
    BY <1>1 DEF Call
  <2> HIDE DEF call
  <2> QED
    BY <2>2, <2>3, MovesStay
<1> QED
  BY <1>2, <1>3

LEMMA BeginningsStay ==
    ASSUME IInv, NEW k \in Calls, NEW op, NEW pc, NEW me, NEW other, NEW c, NEW r, NEW flag,
           Started(k, op, pc, me, other, c, r, flag), pc \notin JoiningPcs
    PROVE  JoinersStay
<1> DEFINE call == [op |-> op, pc |-> pc, me |-> me, other |-> other, row |-> r,
                    conversationId |-> c, flag |-> flag, away |-> {},
                    talked |-> Talked(me, other)]
<1>1. calls' = [calls EXCEPT ![k] = call] /\ call.pc = pc /\ calls[k].pc \notin JoiningPcs
  BY DEF Started, JoiningPcs
<1> HIDE DEF call
<1> QED
  BY <1>1, MovesStay

LEMMA QuietIsListed ==
    ASSUME IInv, ListInv, UNCHANGED <<conv, part, purged, broken>>, JoinersStay
    PROVE  ListInv'
<1>1. \A c \in Convs : JoinsStay(c)
  BY DEF JoinsStay, Joins, WillJoin
<1> QED
  BY <1>1, RowsStayListed

\* A row that stays someone's row.
LEMMA RowIsListed ==
    ASSUME IInv, ListInv, UNCHANGED <<conv, purged, broken>>, JoinersStay,
           \A c \in Convs, u \in People, r \in Rows :
             part'[c][u][r].state # "none" <=> part[c][u][r].state # "none"
    PROVE  ListInv'
<1>1. \A c \in Convs : JoinsStay(c)
  BY DEF JoinsStay, Joins, WillJoin
<1> QED
  BY <1>1, RowsStayListed

LEMMA SameCallsStay ==
    ASSUME calls' = calls
    PROVE  JoinersStay
BY DEF JoinersStay, JoinerStays, SameJoiner

LEMMA ReadMoves ==
    ASSUME IInv, NEW k \in Calls, ReadParticipant(k)
    PROVE  \E call : call.pc \notin JoiningPcs /\ calls' = [calls EXCEPT ![k] = call]
<1> DEFINE first == calls[k].pc = "readReceiver"
           u == IF first THEN calls[k].other ELSE calls[k].me
           c == calls[k].conversationId
           next == IF first THEN "readSender" ELSE "insert"
<1>1. calls[k] \in Call
  BY DEF IInv, ChatTypeOK
<1>2. CASE calls' = [calls EXCEPT ![k].pc = next,
             ![k].away = IF first THEN @ \cup {u} ELSE @]
  <2> DEFINE call == [calls[k] EXCEPT !.pc = next, !.away = IF first THEN @ \cup {u} ELSE @]
  <2>1. calls' = [calls EXCEPT ![k] = call]
    BY <1>2
  <2>2. call.pc \notin JoiningPcs
    BY <1>1 DEF Call, JoiningPcs
  <2> HIDE DEF call
  <2> QED
    BY <2>1, <2>2
<1>3. ASSUME NEW r \in Rows, NEW pc \in {"readSender", "insert", "restoreReceiver", "restoreSender"},
             calls' = [calls EXCEPT ![k].row = r, ![k].pc = pc]
      PROVE  \E call : call.pc \notin JoiningPcs /\ calls' = [calls EXCEPT ![k] = call]
  <2> DEFINE call == [calls[k] EXCEPT !.row = r, !.pc = pc]
  <2>1. calls' = [calls EXCEPT ![k] = call]
    BY <1>3
  <2>2. call.pc \notin JoiningPcs
    BY <1>1 DEF Call, JoiningPcs
  <2> HIDE DEF call
  <2> QED
    BY <2>1, <2>2
<1>4. ASSUME NEW r \in Rows,
             calls' = [calls EXCEPT ![k].row = r, ![k].pc =
               IF part[c][u][r].state = "active" THEN next
               ELSE IF first THEN "restoreReceiver" ELSE "restoreSender"]
      PROVE  \E call : call.pc \notin JoiningPcs /\ calls' = [calls EXCEPT ![k] = call]
  <2> DEFINE pc == IF part[c][u][r].state = "active" THEN next
                   ELSE IF first THEN "restoreReceiver" ELSE "restoreSender"
  <2>1. pc \in {"readSender", "insert", "restoreReceiver", "restoreSender"}
    OBVIOUS
  <2>2. calls' = [calls EXCEPT ![k].row = r, ![k].pc = pc]
    BY <1>4
  <2> HIDE DEF pc
  <2> QED
    BY <1>3, <2>1, <2>2
<1> QED
  BY <1>2, <1>4 DEF ReadParticipant

LEMMA SearchIsListed ==
    ASSUME IInv, ListInv, NEW k \in Calls,
           FindConversation(k) \/ ReadParticipant(k) \/ StartFind(k) \/ SystemFind(k)
             \/ InsertMessage(k)
    PROVE  ListInv'
<1>1. calls[k].pc \notin JoiningPcs
  BY DEF FindConversation, ReadParticipant, StartFind, SystemFind, InsertMessage, JoiningPcs
<1>2. \A pc \in {"create", "readReceiver", "restoreReceiver", "restoreSender", "readSender", "insert"} :
        pc \notin JoiningPcs
  BY DEF JoiningPcs
<1>3. JoinersStay
  <2>1. CASE FindConversation(k)
    <3>1. Goto(k, "create") \/ Return(k) \/ \E c : GotoWith(k, "readReceiver", c)
      BY <2>1 DEF FindConversation
    <3> QED
      BY <1>1, <1>2, <3>1, ReturnsStay, GotosStay
  <2>2. CASE ReadParticipant(k)
    <3>1. PICK call : call.pc \notin JoiningPcs /\ calls' = [calls EXCEPT ![k] = call]
      BY <2>2, ReadMoves
    <3> QED
      BY <1>1, <3>1, MovesStay
  <2>3. CASE StartFind(k) \/ SystemFind(k) \/ InsertMessage(k)
    <3>1. Goto(k, "create") \/ Return(k)
      BY <2>3 DEF StartFind, SystemFind, InsertMessage
    <3> QED
      BY <1>1, <1>2, <3>1, ReturnsStay, GotosStay
  <2> QED
    BY <2>1, <2>2, <2>3
<1> QED
  BY <1>3, QuietIsListed
  DEF FindConversation, ReadParticipant, StartFind, SystemFind, InsertMessage

LEMMA RestoreIsListed ==
    ASSUME IInv, ListInv, NEW k \in Calls, RestoreParticipant(k)
    PROVE  ListInv'
<1>1. JoinersStay
  <2>1. PICK pc : pc \notin JoiningPcs /\ Goto(k, pc)
    BY DEF RestoreParticipant, JoiningPcs
  <2>2. calls[k].pc \notin JoiningPcs
    BY DEF RestoreParticipant, JoiningPcs
  <2> QED
    BY <2>1, <2>2, GotosStay
<1>2. part \in [Convs -> [People -> [Rows -> Participant]]]
  BY DEF IInv, ChatTypeOK
<1>3. PICK c, u, r : part' = IF part[c][u][r].state = "none" THEN part
                             ELSE [part EXCEPT ![c][u][r] = Restored(@)]
  BY DEF RestoreParticipant
<1>4. ASSUME NEW d \in Convs, NEW v \in People, NEW q \in Rows
      PROVE  part'[d][v][q].state # "none" <=> part[d][v][q].state # "none"
  <2>1. \/ part'[d][v][q] = part[d][v][q]
        \/ part'[d][v][q] = Restored(part[d][v][q]) /\ part[d][v][q].state # "none"
    BY <1>2, <1>3
  <2>2. part[d][v][q] \in Participant
    BY <1>2
  <2>3. Restored(part[d][v][q]).state = "active"
    BY <2>2 DEF Restored, Participant
  <2> QED
    BY <2>1, <2>3
<1> QED
  BY <1>1, <1>4, RowIsListed DEF RestoreParticipant

LEMMA ToggleIsListed ==
    ASSUME IInv, ListInv, NEW k \in Calls, ToggleFlag(k)
    PROVE  ListInv'
<1>1. JoinersStay
  <2>1. calls[k].pc \notin JoiningPcs /\ Return(k)
    BY DEF ToggleFlag, JoiningPcs
  <2> QED
    BY <2>1, ReturnsStay
<1>2. part \in [Convs -> [People -> [Rows -> Participant]]]
  BY DEF IInv, ChatTypeOK
<1>3. PICK c, u, r, flag : \/ part' = part
                           \/ part' = [part EXCEPT ![c][u][r].isMuted = flag]
                           \/ part' = [part EXCEPT ![c][u][r].isPinned = flag]
  BY DEF ToggleFlag
<1>4. ASSUME NEW d \in Convs, NEW v \in People, NEW q \in Rows
      PROVE  part'[d][v][q].state = part[d][v][q].state
  <2>1. \/ part'[d][v][q] = part[d][v][q]
        \/ part'[d][v][q] = [part[d][v][q] EXCEPT !.isMuted = flag]
        \/ part'[d][v][q] = [part[d][v][q] EXCEPT !.isPinned = flag]
    <3>1. CASE d = c /\ v = u /\ q = r
      <4>1. [part EXCEPT ![d][v][q].isMuted = flag]
              = [part EXCEPT ![d][v][q] = [part[d][v][q] EXCEPT !.isMuted = flag]]
        OBVIOUS
      <4>2. [part EXCEPT ![d][v][q].isPinned = flag]
              = [part EXCEPT ![d][v][q] = [part[d][v][q] EXCEPT !.isPinned = flag]]
        OBVIOUS
      <4>3. \/ part' = part
            \/ part' = [part EXCEPT ![d][v][q] = [part[d][v][q] EXCEPT !.isMuted = flag]]
            \/ part' = [part EXCEPT ![d][v][q] = [part[d][v][q] EXCEPT !.isPinned = flag]]
        BY <1>3, <3>1, <4>1, <4>2
      <4>4. PICK muted, pinned : /\ muted = [part[d][v][q] EXCEPT !.isMuted = flag]
                                 /\ pinned = [part[d][v][q] EXCEPT !.isPinned = flag]
        OBVIOUS
      <4>5. \/ part' = part
            \/ part' = [part EXCEPT ![d][v][q] = muted]
            \/ part' = [part EXCEPT ![d][v][q] = pinned]
        BY <4>3, <4>4
      <4>6. part'[d][v][q] \in {part[d][v][q], muted, pinned}
        BY <1>2, <4>5
      <4> QED
        BY <4>4, <4>6
    <3>2. CASE d # c \/ v # u \/ q # r
      BY <1>2, <1>3, <3>2
    <3> QED
      BY <3>1, <3>2
  <2>2. part[d][v][q] \in Participant
    BY <1>2
  <2> QED
    BY <2>1, <2>2 DEF Participant
<1> QED
  BY <1>1, <1>4, RowIsListed DEF ToggleFlag

LEMMA DeleteIsListed ==
    ASSUME IInv, ListInv, NEW k \in Calls, deleteConversation(k)
    PROVE  ListInv'
<1>1. part \in [Convs -> [People -> [Rows -> Participant]]]
  BY DEF IInv, ChatTypeOK
<1>2. PICK c, u, r : part' = IF part[c][u][r].state = "none" THEN part
                             ELSE [part EXCEPT ![c][u][r].state = "deleted"]
  BY DEF deleteConversation
<1>3. ASSUME NEW j \in Calls
      PROVE  JoinerStays(j)
  <2>1. calls[j] \in Call
    BY DEF IInv, ChatTypeOK
  <2>2. CASE j = k
    <3>1. calls'[j] = Idle /\ calls[j].pc = "write"
      BY <2>2 DEF deleteConversation
    <3> QED
      BY <3>1 DEF Idle, JoiningPcs, JoinerStays
  <2>3. CASE j # k
    <3>1. PICK away : calls'[j] = [calls[j] EXCEPT !.away = away] \/ calls'[j] = calls[j]
      BY <2>3 DEF deleteConversation
    <3>2. /\ calls'[j].pc = calls[j].pc /\ calls'[j].conversationId = calls[j].conversationId
          /\ calls'[j].me = calls[j].me /\ calls'[j].other = calls[j].other
          /\ calls'[j].flag = calls[j].flag
      BY <2>1, <3>1 DEF Call
    <3> QED
      BY <3>2 DEF JoinerStays, SameJoiner
  <2> QED
    BY <2>2, <2>3
<1>4. ASSUME NEW d \in Convs, NEW v \in People, NEW q \in Rows
      PROVE  part'[d][v][q].state # "none" <=> part[d][v][q].state # "none"
  <2>1. \/ part'[d][v][q] = part[d][v][q]
        \/ /\ part[d][v][q].state # "none"
           /\ part'[d][v][q] = [part[d][v][q] EXCEPT !.state = "deleted"]
    <3>1. CASE d = c /\ v = u /\ q = r
      BY <1>1, <1>2, <3>1
    <3>2. CASE d # c \/ v # u \/ q # r
      BY <1>1, <1>2, <3>2
    <3> QED
      BY <3>1, <3>2
  <2>2. part[d][v][q] \in Participant
    BY <1>1
  <2> QED
    BY <2>1, <2>2 DEF Participant
<1> QED
  BY <1>3, <1>4, RowIsListed DEF deleteConversation, JoinersStay

LEMMA PurgeIsListed ==
    ASSUME IInv, ListInv, NEW u \in Users, PurgeUser(u)
    PROVE  ListInv'
<1> DEFINE gone == [r \in Rows |-> NoParticipant]
<1>1. /\ purged' = purged \cup {u} /\ UNCHANGED <<conv, calls, broken>>
      /\ part' = [c \in Convs |-> [part[c] EXCEPT ![u] = gone]]
  BY DEF PurgeUser
<1>2. \A r \in Rows : gone[r].state = "none"
  BY DEF NoParticipant
<1> HIDE DEF gone
<1>3. ASSUME NEW c \in Convs
      PROVE  JoinsStay(c)
  <2>1. ASSUME NEW v \in People
        PROVE  part'[c][v] = IF v = u THEN gone ELSE part[c][v]
    BY <1>1 DEF IInv, ChatTypeOK
  <2> QED
    BY <1>1, <1>2, <2>1 DEF JoinsStay, Joins, WillJoin
<1> QED
  BY <1>1, <1>3, SameCallsStay, RowsStayListed

\* The conversations of calls that died are known as broken.
LEMMA CrashIsListed ==
    ASSUME IInv, ListInv, ChatCrash
    PROVE  ListInv'
<1>1. /\ calls' = [k \in Calls |-> Idle] /\ UNCHANGED <<conv, part, purged>>
      /\ broken' = broken \cup {calls[k].conversationId : k \in
                        {j \in Calls : calls[j].pc \in {"join", "joinOther"}}}
  BY DEF ChatCrash
<1>2. \A k \in Calls : calls'[k].pc = "idle" /\ calls'[k].op = "none"
  BY <1>1 DEF Idle
<1>3. \A k \in Calls : JoinInv(k)'
  BY <1>2 DEF JoinInv, JoiningPcs
<1>4. ASSUME NEW c \in Convs
      PROVE  PairInv(c)'
  <2>1. (\E k \in Calls : Joining(k, c)) => c \in broken'
    BY <1>1 DEF Joining, JoiningPcs
  <2>2. PairInv(c)
    BY DEF ListInv
  <2> QED
    BY <1>1, <2>1, <2>2 DEF PairInv, Joins
<1> QED
  BY <1>3, <1>4 DEF ListInv

\* Nobody is, or creates participants, in a conversation that does not exist.
LEMMA FreshIsEmpty ==
    ASSUME IInv, ListInv, NEW c \in Fresh
    PROVE  /\ c \in Convs /\ conv[c].kind = "none"
           /\ \A u \in People : ~Joins(c, u)
           /\ \A k \in Calls : ~Joining(k, c)
<1>1. c \in Convs /\ conv[c].kind = "none"
  BY DEF Fresh
<1>2. \A u \in People : ~Joins(c, u)
  BY <1>1 DEF IInv, RowsInv
<1>3. \A k \in Calls : ~Joining(k, c)
  BY <1>1 DEF ListInv, JoinInv, Joining
<1> QED
  BY <1>1, <1>2, <1>3

LEMMA CreateIsListed ==
    ASSUME IInv, ListInv, NEW k \in Calls, CreateConversation(k)
    PROVE  ListInv'
<1> DEFINE me == calls[k].me
           other == calls[k].other
           pair == {me, other}
           state == IF calls[k].op = "open" THEN "deleted" ELSE "active"
<1>1. calls[k].pc \notin JoiningPcs /\ "insert" \notin JoiningPcs
  BY DEF CreateConversation, JoiningPcs
<1>2. JoinersStay
  <2>1. Return(k) \/ \E c : GotoWith(k, "insert", c)
    BY DEF CreateConversation
  <2> QED
    BY <1>1, <2>1, ReturnsStay, GotosStay
<1>3. CASE pair \cap purged # {}
  BY <1>2, <1>3, QuietIsListed DEF CreateConversation
<1>4. CASE pair \cap purged = {}
  <2>1. PICK c \in Fresh :
          /\ conv' = [conv EXCEPT ![c] = [kind |-> "user", members |-> pair]]
          /\ part' = [part EXCEPT ![c] = [u \in People |-> [r \in Rows |->
               IF u \in Participants(k) /\ (r = 1 \/ me = other)
               THEN Joined(state) ELSE NoParticipant]]]
    BY <1>4 DEF CreateConversation
  <2>2. c \in Convs /\ conv[c].kind = "none"
    BY <2>1, FreshIsEmpty
  <2>3. me \in People /\ other \in People
    BY DEF IInv, CallOK, CallInv, CreateConversation
  <2>4. Joined(state).state = state /\ NoParticipant.state = "none"
    BY JoinedType
  <2>5. conv'[c].kind = "user" /\ conv'[c].members = pair
        /\ \A d \in Convs : d # c => conv'[d] = conv[d]
    BY <2>1, <2>2 DEF IInv, ChatTypeOK
  <2>6. /\ \A u \in People : WillJoin(c, u) <=> u \in pair
        /\ \A d \in Convs : d # c => part'[d] = part[d]
    <3> DEFINE new == [u \in People |-> [r \in Rows |->
                         IF u \in Participants(k) /\ (r = 1 \/ me = other)
                         THEN Joined(state) ELSE NoParticipant]]
    <3>1. part' = [part EXCEPT ![c] = new]
      BY <2>1
    <3>2. Joined(state).state # "none" /\ 1 \in Rows
      BY <2>4 DEF Rows
    <3>3. \A u \in People : (\E r \in Rows : new[u][r].state # "none") <=> u \in Participants(k)
      BY <2>4, <3>2
    <3> HIDE DEF new
    <3>4. part'[c] = new /\ \A d \in Convs : d # c => part'[d] = part[d]
      BY <2>2, <3>1 DEF IInv, ChatTypeOK
    <3> QED
      BY <3>3, <3>4 DEF WillJoin, Participants
  <2>7. UNCHANGED <<purged, broken>>
    BY DEF CreateConversation
  <2>8. PairInv(c)'
    <3>1. /\ \A u \in People : WillJoin(c, u) => u \in conv'[c].members
          /\ \A u \in conv'[c].members : WillJoin(c, u)
      BY <2>3, <2>5, <2>6
    <3> QED
      BY <3>1 DEF PairInv, Joins, WillJoin
  <2>9. ASSUME NEW d \in Convs, d # c
        PROVE  /\ conv[d].kind = "user" => conv'[d] = conv[d] /\ JoinsStay(d)
               /\ conv[d].kind # "user" => PairInv(d)'
    BY <2>5, <2>6, <2>9 DEF JoinsStay, Joins, WillJoin, PairInv
  <2> QED
    BY <1>2, <2>2, <2>7, <2>8, <2>9, ListStays
<1> QED
  BY <1>3, <1>4

LEMMA SystemCreateIsListed ==
    ASSUME IInv, ListInv, NEW k \in Calls, SystemCreate(k)
    PROVE  ListInv'
<1> DEFINE u == calls[k].me
<1>1. JoinersStay
  <2>1. calls[k].pc \notin JoiningPcs /\ Return(k)
    BY DEF SystemCreate, JoiningPcs
  <2> QED
    BY <2>1, ReturnsStay
<1>2. CASE u \in purged
  BY <1>1, <1>2, QuietIsListed DEF SystemCreate
<1>3. CASE u \notin purged
  <2>1. PICK c \in Fresh : /\ conv' = [conv EXCEPT ![c] = [kind |-> "system", members |-> {u}]]
                           /\ part' = [part EXCEPT ![c][u][1] = Joined("active")]
    BY <1>3 DEF SystemCreate
  <2>2. c \in Convs /\ conv[c].kind = "none"
    BY <2>1, FreshIsEmpty
  <2>3. conv'[c].kind = "system" /\ \A d \in Convs : d # c => conv'[d] = conv[d]
    BY <2>1, <2>2 DEF IInv, ChatTypeOK
  <2>4. \A d \in Convs : d # c => part'[d] = part[d]
    BY <2>1, <2>2 DEF IInv, ChatTypeOK
  <2>5. UNCHANGED <<purged, broken>>
    BY DEF SystemCreate
  <2>6. PairInv(c)'
    BY <2>3 DEF PairInv
  <2>7. ASSUME NEW d \in Convs, d # c
        PROVE  /\ conv[d].kind = "user" => conv'[d] = conv[d] /\ JoinsStay(d)
               /\ conv[d].kind # "user" => PairInv(d)'
    BY <2>3, <2>4, <2>7 DEF JoinsStay, Joins, WillJoin, PairInv
  <2> QED
    BY <1>1, <2>2, <2>5, <2>6, <2>7, ListStays
<1> QED
  BY <1>2, <1>3

\* Other joiners and conversations, when k begins or ends to join c.
LEMMA OthersAreListed ==
    ASSUME IInv, ListInv, UNCHANGED <<purged, broken>>, NEW k \in Calls, NEW c \in Convs,
           \A j \in Calls : j # k => calls'[j] = calls[j] /\ ~Joining(j, c),
           calls[k].pc \in JoiningPcs => calls[k].conversationId = c,
           calls'[k].pc \in JoiningPcs => calls'[k].conversationId = c,
           \A d \in Convs : d # c => conv'[d] = conv[d] /\ part'[d] = part[d],
           PairInv(c)', JoinInv(k)'
    PROVE  ListInv'
<1>1. ASSUME NEW d \in Convs, d # c, conv[d].kind = "user"
      PROVE  PairInv(d)'
  <2>1. \A j \in Calls : Joining(j, d) => calls'[j].pc \in JoiningPcs /\ calls'[j].conversationId = d
    BY <1>1 DEF Joining
  <2>2. conv'[d] = conv[d] /\ JoinsStay(d)
    BY <1>1 DEF JoinsStay, Joins, WillJoin
  <2> QED
    BY <1>1, <2>1, <2>2, PairStays
<1>2. ASSUME NEW d \in Convs, d # c, conv[d].kind # "user"
      PROVE  PairInv(d)'
  BY <1>2 DEF PairInv
<1>3. ASSUME NEW j \in Calls, j # k
      PROVE  JoinInv(j)'
  <2>1. JoinerStays(j)
    BY <1>3 DEF JoinerStays, SameJoiner
  <2>2. CASE calls[j].pc \in JoiningPcs
    <3>1. PICK d : d = calls[j].conversationId
      OBVIOUS
    <3>2. d \in Convs /\ d # c
      BY <1>3, <2>2, <3>1 DEF IInv, CallOK, CallInv, Joining, JoiningPcs
    <3>3. conv'[d] = conv[d] /\ JoinsStay(d)
      BY <3>2 DEF JoinsStay, Joins, WillJoin
    <3>4. \A i \in Calls : calls'[i].pc \in JoiningPcs /\ calls'[i].conversationId = d => Joining(i, d)
      BY <3>2 DEF Joining
    <3> QED
      BY <2>1, <3>1, <3>3, <3>4, JoinerStaysInOrder
  <2>3. CASE calls[j].pc \notin JoiningPcs
    BY <2>1, <2>3, JoinerStaysInOrder
  <2> QED
    BY <2>2, <2>3
<1> QED
  BY <1>1, <1>2, <1>3 DEF ListInv

LEMMA StartCreateIsListed ==
    ASSUME IInv, ListInv, NEW k \in Calls, StartCreate(k)
    PROVE  ListInv'
<1> DEFINE me == calls[k].me
           other == calls[k].other
<1>1. PICK c \in Fresh : /\ conv' = [conv EXCEPT ![c] = [kind |-> "user", members |-> {me, other}]]
                         /\ GotoWith(k, "join", c)
  BY DEF StartCreate
<1>2. /\ c \in Convs /\ conv[c].kind = "none"
      /\ \A u \in People : ~Joins(c, u)
      /\ \A j \in Calls : ~Joining(j, c)
  BY <1>1, FreshIsEmpty
<1>3. me \in People /\ other \in People /\ calls[k] \in Call
  BY DEF IInv, ChatTypeOK, CallOK, CallInv, StartCreate
<1>4. conv'[c].kind = "user" /\ conv'[c].members = {me, other}
      /\ \A d \in Convs : d # c => conv'[d] = conv[d]
  BY <1>1, <1>2 DEF IInv, ChatTypeOK
<1>5. /\ calls'[k] = [calls[k] EXCEPT !.pc = "join", !.conversationId = c]
      /\ \A j \in Calls : j # k => calls'[j] = calls[j]
  BY <1>1 DEF GotoWith, IInv, ChatTypeOK
<1>6. /\ calls'[k].pc = "join" /\ calls'[k].conversationId = c
      /\ calls'[k].me = me /\ calls'[k].other = other
  BY <1>3, <1>5 DEF Call
<1>7. UNCHANGED <<part, purged, broken>> /\ calls[k].pc \notin JoiningPcs
  BY DEF StartCreate, JoiningPcs
<1> HIDE DEF me, other
<1>8. PairInv(c)'
  <2>1. \E j \in Calls : calls'[j].pc \in JoiningPcs /\ calls'[j].conversationId = c
    BY <1>6 DEF JoiningPcs
  <2> QED
    BY <1>2, <1>3, <1>4, <1>7, <2>1 DEF PairInv, Joins, Joining
<1>9. JoinInv(k)'
  <2>1. \A j \in Calls : calls'[j].pc \in JoiningPcs /\ calls'[j].conversationId = c => j = k
    BY <1>2, <1>5 DEF Joining
  <2>2. \A u \in People : ~WillJoin(c, u)
    BY <1>2, <1>7 DEF Joins, WillJoin
  <2> QED
    BY <1>3, <1>4, <1>6, <2>1, <2>2 DEF JoinInv, Joining, Joins, WillJoin
<1> QED
  BY <1>2, <1>4, <1>5, <1>6, <1>7, <1>8, <1>9, OthersAreListed

LEMMA StartJoinIsListed ==
    ASSUME IInv, ListInv, NEW k \in Calls, StartJoin(k)
    PROVE  ListInv'
<1> DEFINE me == calls[k].me
           other == calls[k].other
           members == {me, other}
<1>0. PICK c : c = calls[k].conversationId
  OBVIOUS
<1>1. /\ c \in Convs /\ me \in People /\ other \in People
      /\ calls[k].pc \in JoiningPcs /\ calls[k] \in Call
  BY <1>0 DEF IInv, ChatTypeOK, CallOK, CallInv, StartJoin, JoiningPcs
<1>2. JoinInv(k) /\ PairInv(c)
  BY <1>1 DEF ListInv
<1>3. /\ conv[c].kind = "user" /\ conv[c].members = members
      /\ \A j \in Calls : Joining(j, c) => j = k
  BY <1>0, <1>1, <1>2 DEF JoinInv
<1>4. PICK u \in members :
        /\ calls[k].pc = "joinOther" => u = IF calls[k].flag THEN me ELSE other
        /\ part' = IF u \in purged THEN part
                   ELSE [part EXCEPT ![c][u][IF Joins(c, u) THEN 2 ELSE 1] = Joined("active")]
        /\ IF calls[k].pc = "join"
           THEN calls' = [calls EXCEPT ![k].pc = "joinOther", ![k].flag = (u = other)]
           ELSE Return(k)
  BY <1>0, <1>1 DEF StartJoin, Call
<1>5. UNCHANGED <<conv, purged, broken>>
  BY DEF StartJoin
<1>6. Joined("active").state = "active"
  BY JoinedType
<1>7. /\ \A v \in People : Joins(c, v) => WillJoin(c, v)
      /\ \A v \in People : WillJoin(c, v) => Joins(c, v) \/ v = u
      /\ u \in purged \/ WillJoin(c, u)
      /\ \A d \in Convs : d # c => part'[d] = part[d]
  <2>1. CASE u \in purged
    BY <1>4, <2>1 DEF Joins, WillJoin
  <2>2. CASE u \notin purged
    <3>1. PICK r \in Rows : part' = [part EXCEPT ![c][u][r] = Joined("active")]
      <4>1. (IF Joins(c, u) THEN 2 ELSE 1) \in Rows
        BY DEF Rows
      <4> QED
        BY <1>4, <2>2, <4>1
    <3>2. /\ part'[c][u][r] = Joined("active")
          /\ \A v \in People, q \in Rows : v # u \/ q # r => part'[c][v][q] = part[c][v][q]
          /\ \A d \in Convs : d # c => part'[d] = part[d]
      BY <1>1, <3>1 DEF IInv, ChatTypeOK
    <3>3. WillJoin(c, u)
      BY <1>6, <3>2 DEF WillJoin
    <3>4. \A v \in People : v # u => (Joins(c, v) <=> WillJoin(c, v))
      BY <3>2 DEF Joins, WillJoin
    <3> QED
      BY <3>2, <3>3, <3>4
  <2> QED
    BY <2>1, <2>2
<1>8. \A j \in Calls : j # k => calls'[j] = calls[j]
  BY <1>4 DEF Return, IInv, ChatTypeOK
<1>9. \A v \in People : WillJoin(c, v) => v \in conv'[c].members
  BY <1>2, <1>3, <1>4, <1>5, <1>7 DEF PairInv
<1>10. CASE calls[k].pc = "join"
  <2> DEFINE call == [calls[k] EXCEPT !.pc = "joinOther", !.flag = (u = other)]
  <2>1. calls' = [calls EXCEPT ![k] = call]
    BY <1>4, <1>10
  <2>2. calls'[k] = call
    BY <2>1 DEF IInv, ChatTypeOK
  <2>3. /\ calls'[k].pc = "joinOther" /\ calls'[k].conversationId = c /\ calls'[k].me = me
        /\ calls'[k].other = other /\ calls'[k].op = calls[k].op
        /\ calls'[k].flag = (u = other)
    BY <1>0, <1>1, <2>2 DEF Call
  <2>4. PairInv(c)'
    <3>1. calls'[k].pc \in JoiningPcs /\ calls'[k].conversationId = c
      BY <2>3 DEF JoiningPcs
    <3> QED
      BY <1>9, <3>1 DEF PairInv, Joins, WillJoin, Joining
  <2>5. JoinInv(k)'
    <3>1. \A j \in Calls : calls'[j].pc \in JoiningPcs /\ calls'[j].conversationId = c => j = k
      BY <1>3, <1>8 DEF Joining
    <3>3. LET v == IF calls'[k].flag THEN other ELSE me
          IN  WillJoin(c, v) \/ v \in purged'
      BY <1>4, <1>5, <1>7, <2>3
    <3>4. conv'[c].kind = "user" /\ conv'[c].members = {me, other}
      BY <1>3, <1>5
    <3> HIDE DEF me, other, members, call
    <3> QED
      BY <2>3, <3>1, <3>3, <3>4 DEF JoinInv, Joins, WillJoin, Joining
  <2> QED
    BY <1>0, <1>1, <1>3, <1>5, <1>7, <1>8, <2>3, <2>4, <2>5, OthersAreListed
<1>11. CASE calls[k].pc = "joinOther"
  <2>1. calls'[k] = Idle
    BY <1>4, <1>11 DEF Return, IInv, ChatTypeOK
  <2>2. Idle.pc \notin JoiningPcs
    BY DEF Idle, JoiningPcs
  <2>3. JoinInv(k)'
    BY <2>1, <2>2 DEF JoinInv, JoiningPcs
  <2>4. PairInv(c)'
    <3> DEFINE v == IF calls[k].flag THEN other ELSE me
    <3>1. Joins(c, v) \/ v \in purged
      BY <1>0, <1>2, <1>11 DEF JoinInv
    <3>2. members = {u, v} /\ v \in People
      BY <1>1, <1>4, <1>11
    <3>3. WillJoin(c, v) \/ v \in purged
      BY <1>7, <3>1, <3>2
    <3>4. \/ \A x \in conv'[c].members : WillJoin(c, x)
          \/ conv'[c].members \cap purged' # {}
      BY <1>3, <1>5, <1>7, <3>2, <3>3
    <3> QED
      BY <1>9, <3>4 DEF PairInv, Joins, WillJoin
  <2> QED
    BY <1>0, <1>1, <1>3, <1>5, <1>7, <1>8, <2>1, <2>2, <2>3, <2>4, OthersAreListed
<1> QED
  BY <1>1, <1>10, <1>11 DEF JoiningPcs

LEMMA CallStepIsListed ==
    ASSUME IInv, ListInv, NEW k \in Calls, CallStep(k)
    PROVE  ListInv'
BY SearchIsListed, CreateIsListed, RestoreIsListed, StartCreateIsListed, StartJoinIsListed,
   SystemCreateIsListed, DeleteIsListed, ToggleIsListed DEF CallStep

LEMMA MessageIsListed ==
    ASSUME IInv, ListInv, NEW k \in Calls, NEW sender, NEW receiver, NEW c,
           CreateMessage(k, sender, receiver, c)
    PROVE  ListInv'
<1>1. JoinersStay
  <2> DEFINE pc == IF c = None THEN "find" ELSE "readReceiver"
  <2>1. Started(k, "message", pc, sender, receiver, c, 1, FALSE)
    BY DEF CreateMessage
  <2>2. pc \notin JoiningPcs
    BY DEF JoiningPcs
  <2> HIDE DEF pc
  <2> QED
    BY <2>1, <2>2, BeginningsStay
<1> QED
  BY <1>1, QuietIsListed DEF CreateMessage

LEMMA AskIsListed ==
    ASSUME IInv, ListInv, NEW k \in Calls, Ask(k)
    PROVE  ListInv'
<1>1. "find" \notin JoiningPcs /\ "write" \notin JoiningPcs
  BY DEF JoiningPcs
<1>2. PICK u \in Users \ purged :
         \/ \E v \in Users : \/ getConversationByUserId(k, u, v)
                             \/ StartConversation(k, u, v)
                             \/ DraftMessage(k, u, v)
         \/ SystemOpen(k, u)
         \/ BookingMessage(k, u)
         \/ \E c \in Convs, op \in {"delete", "mute", "pin"} : ChangeOwn(k, op, u, c)
  BY DEF Ask
<1>3. ASSUME NEW v \in Users, getConversationByUserId(k, u, v) \/ StartConversation(k, u, v)
      PROVE  ListInv'
  <2>1. JoinersStay
    BY <1>1, <1>3, BeginningsStay DEF getConversationByUserId, StartConversation
  <2> QED
    BY <1>3, <2>1, QuietIsListed DEF getConversationByUserId, StartConversation
<1>4. CASE SystemOpen(k, u)
  <2>1. JoinersStay
    BY <1>1, <1>4, BeginningsStay DEF SystemOpen
  <2> QED
    BY <1>4, <2>1, QuietIsListed DEF SystemOpen
<1>5. CASE BookingMessage(k, u)
  BY <1>5, MessageIsListed DEF BookingMessage
<1>7. ASSUME NEW v \in Users, DraftMessage(k, u, v)
      PROVE  ListInv'
  BY <1>7, MessageIsListed DEF DraftMessage
<1>6. ASSUME NEW c \in Convs, NEW op \in {"delete", "mute", "pin"}, ChangeOwn(k, op, u, c)
      PROVE  ListInv'
  <2>1. PICK r, flag : Started(k, op, "write", u, None, c, r, flag)
    BY <1>6 DEF ChangeOwn
  <2>2. JoinersStay
    BY <1>1, <2>1, BeginningsStay
  <2> QED
    BY <1>6, <2>2, QuietIsListed DEF ChangeOwn
<1> QED
  BY <1>2, <1>3, <1>4, <1>5, <1>6, <1>7

LEMMA ListsKept == IInv /\ ListInv /\ [Next]_vars => ListInv'
<1> SUFFICES ASSUME IInv, ListInv, [Next]_vars PROVE ListInv'
  OBVIOUS
<1>1. ASSUME UNCHANGED chatVars
      PROVE  ListInv'
  BY <1>1, SameCallsStay, QuietIsListed DEF chatVars
<1>2. CASE \E s \in SocketIds, v \in Users, c \in Convs \cup {None} : HandleMessage(s, v, c)
  BY <1>1, <1>2 DEF HandleMessage
<1>3. CASE \E k \in Calls : EmitMessage(k) \/ Ask(k)
  BY <1>3, MessageIsListed, AskIsListed DEF EmitMessage
<1>4. CASE Serve
  <2>1. ASSUME NEW u \in Users, NEW c \in Convs, SeeMessages(u, c)
        PROVE  ListInv'
    BY <2>1, SameCallsStay, QuietIsListed DEF SeeMessages
  <2> QED
    BY <1>4, <2>1, CallStepIsListed DEF Serve
<1>5. CASE SocketStep \/ UNCHANGED vars
  BY <1>1, <1>5 DEF SocketStep, vars
<1>6. CASE Fault
  BY <1>1, <1>6, PurgeIsListed, CrashIsListed DEF Fault
<1> QED
  BY <1>2, <1>3, <1>4, <1>5, <1>6 DEF Next

\* Whoever lists a conversation finds the partner in it.
THEOREM ListsAlwaysHavePartners == Spec => []ListHasPartners
<1>1. AllInv /\ ListInv => ListHasPartners
  <2> SUFFICES ASSUME AllInv, ListInv, NEW u \in Users, NEW c \in Listed(u), Partners(c, u) = {}
               PROVE  \/ conv[c].members = {u}
                      \/ conv[c].members \cap purged # {}
                      \/ c \in broken
                      \/ \E k \in Calls : calls[k].conversationId = c /\ calls[k].pc = "joinOther"
    <3>1. AllInv => TypeOK
      BY DEF AllInv, SocketInv, IInv, ChatTypeOK, BoundsOK, TypeOK
    <3>2. ASSUME AllInv, ListInv
          PROVE  \A u \in Users : \A c \in Listed(u) : Partners(c, u) = {} =>
                   \/ conv[c].members = {u}
                   \/ conv[c].members \cap purged # {}
                   \/ c \in broken
                   \/ \E k \in Calls : calls[k].conversationId = c /\ calls[k].pc = "joinOther"
      BY <3>2
    <3> QED
      BY <3>1, <3>2 DEF ListHasPartners
  <2>1. u \in People /\ c \in Convs /\ conv[c].kind = "user" /\ Joins(c, u)
    BY DEF People, Listed, Active, Joins
  <2>2. PairInv(c)
    BY <2>1 DEF ListInv
  <2>3. conv[c].members = {u} \/ ~\A v \in conv[c].members : Joins(c, v)
    <3>1. conv[c].members \subseteq People /\ u \in conv[c].members
      BY <2>1, <2>2 DEF AllInv, IInv, ChatTypeOK, Conversation, PairInv
    <3>2. \A v \in People \ {u} : ~Joins(c, v)
      BY DEF Partners
    <3> QED
      BY <3>1, <3>2
  <2>4. \A k \in Calls : Joining(k, c) => calls[k].pc = "joinOther"
    BY <2>1 DEF ListInv, JoinInv, Joining, JoiningPcs
  <2> QED
    BY <2>1, <2>2, <2>3, <2>4 DEF PairInv, Joining
<1>2. Init /\ [][Next]_vars => []ListInv
  <2>1. IInv /\ ListInv /\ [Next]_vars => ListInv'
    BY ListsKept
  <2> QED
    <3>1. AllInv => IInv
      BY DEF AllInv
    <3> QED
      BY <2>1, <3>1, ListsBegin, AllInvHolds, PTL DEF Spec
<1> QED
  BY <1>1, <1>2, AllInvHolds, PTL DEF Spec
=============================================================================
