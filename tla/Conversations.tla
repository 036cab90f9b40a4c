---------------------------- MODULE Conversations ----------------------------
(***************************************************************************)
(* The conversations of chat-svc: rows of conversation and participant in  *)
(* Postgres, messages in Mongo, and the calls that look for a row and then *)
(* create, restore or change it.  Each round trip of a call is a step; no  *)
(* call takes a lock or opens a transaction, so any two may overlap.       *)
(*                                                                         *)
(* The times the code compares are those of a participant's row and of a   *)
(* message.  A message is its place in the log of all messages, and the    *)
(* creation time of a participant the length of the log at that moment.    *)
(***************************************************************************)
EXTENDS ChatUsers, Naturals, Sequences, FiniteSets

CONSTANTS
    Admin,          \* the administrator that sends booking notices
    Convs,          \* conversation ids
    Calls,          \* slots for calls being served
    MaxMessages     \* bound: messages stored

ASSUME ChatAssumption ==
    Admin \notin Users /\ None \notin Convs \cup Users \cup {Admin}
ASSUME MessageBound == MaxMessages \in Nat

VARIABLES
    conv,           \* conv[c]: the kind of conversation c, and for whom
    part,           \* part[c][u][r]: the participant rows of u in c
    msgs,           \* the messages, in the order of their creation
    calls,          \* calls[k]: the call in slot k
    purged,         \* users removed for good
    broken,         \* history: conversations whose creating call died
    forgotten       \* history: <<u, c, n>>, u deleted c after n messages

chatVars == <<conv, part, msgs, calls, purged, broken, forgotten>>

----------------------------------------------------------------------------
(* Rows. *)

People == Users \cup {Admin}

\* Nothing keeps a user from having two rows in a conversation: one with
\* oneself has both of its rows from the same user.
Rows == 1..2

\* members are the people a conversation was created for.
Conversation == [kind : {"none", "user", "system"}, members : SUBSET People]

\* since is createdAt; deleted is deletedAt # null.
Participant == [state : {"none", "active", "deleted"}, since : 0..MaxMessages,
                isMuted : BOOLEAN, isPinned : BOOLEAN]

NoParticipant == [state |-> "none", since |-> 0,
                  isMuted |-> FALSE, isPinned |-> FALSE]

Joined(state) == [NoParticipant EXCEPT !.state = state, !.since = Len(msgs)]

\* away: history, a receiver who had no row in the conversation when it was
\* read, and whoever deleted the conversation between then and the message.
ConversationMessage ==
    [conversationId : Convs, from : People, to : People, isSeen : BOOLEAN,
     away : SUBSET People]

\* row is the participant row the call read, and will update by its id.
Idle == [op |-> "none", pc |-> "idle", me |-> None, other |-> None, row |-> 1,
         conversationId |-> None, flag |-> FALSE, away |-> {}, talked |-> FALSE]

Call == [op : {"none", "message", "open", "start", "system", "delete", "mute", "pin"},
         pc : {"idle", "find", "create", "join", "joinOther", "readReceiver",
               "restoreReceiver", "readSender", "restoreSender", "insert", "write"},
         me : People \cup {None}, other : People \cup {None},
         row : Rows, conversationId : Convs \cup {None}, flag : BOOLEAN,
         away : SUBSET People, talked : BOOLEAN]

ChatInit ==
    /\ conv = [c \in Convs |-> [kind |-> "none", members |-> {}]]
    /\ part = [c \in Convs |-> [u \in People |-> [r \in Rows |-> NoParticipant]]]
    /\ msgs = <<>>
    /\ calls = [k \in Calls |-> Idle]
    /\ purged = {}
    /\ broken = {}
    /\ forgotten = {}

Joins(c, u) == \E r \in Rows : part[c][u][r].state # "none"
Active(c, u) == \E r \in Rows : part[c][u][r].state = "active"

\* findExistingConversation: two different participants, deleted or not.
Existing(u, v) == {c \in Convs : u # v /\ Joins(c, u) /\ Joins(c, v)}

\* The system conversation of u, for those who see deleted rows.
SystemConversation(u) == {c \in Convs : conv[c].kind = "system" /\ Joins(c, u)}

\* A message between two, in whatever conversation; two who wrote to each
\* other in a conversation of both.
Wrote(u, v) == \E i \in 1..Len(msgs) : {msgs[i].from, msgs[i].to} = {u, v}
Talked(u, v) ==
    \E i \in 1..Len(msgs) : /\ {msgs[i].from, msgs[i].to} = {u, v}
                            /\ msgs[i].conversationId \in Existing(u, v)

Fresh == {c \in Convs : conv[c].kind = "none"}

\* What getConversationById returns to u in conversation c.
Sees(u, c) ==
    {i \in 1..Len(msgs) : /\ msgs[i].conversationId = c
                          /\ \E r \in Rows : /\ part[c][u][r].state = "active"
                                             /\ i > part[c][u][r].since}

\* What getListConversation shows u, and the partners it reads for each.
Listed(u) == {c \in Convs : conv[c].kind = "user" /\ Active(c, u)}
Partners(c, u) == {v \in People \ {u} : Joins(c, v)}

----------------------------------------------------------------------------
(* The steps of calls. *)

Started(k, op, pc, me, other, c, row, flag) ==
    /\ calls[k].pc = "idle"
    /\ calls' = [calls EXCEPT ![k] =
         [op |-> op, pc |-> pc, me |-> me, other |-> other, row |-> row,
          conversationId |-> c, flag |-> flag, away |-> {}, talked |-> Talked(me, other)]]

Goto(k, pc) == calls' = [calls EXCEPT ![k].pc = pc]
GotoWith(k, pc, c) ==
    calls' = [calls EXCEPT ![k].pc = pc, ![k].conversationId = c]
Return(k) == calls' = [calls EXCEPT ![k] = Idle]

\* createMessage with the conversation the client names, or without one.  The
\* code asks neither whose conversation it is nor whether there is one, nor
\* whether the receiver is another user.
CreateMessage(k, sender, receiver, c) ==
    /\ Started(k, "message", IF c = None THEN "find" ELSE "readReceiver",
               sender, receiver, c, 1, FALSE)
    /\ UNCHANGED <<conv, part, msgs, purged, broken, forgotten>>

\* booking-svc writes to each party as the administrator, into the system
\* conversation when the party has not deleted it.
BookingMessage(k, receiver) ==
    LET found == {c \in SystemConversation(receiver) : Active(c, receiver)}
    IN \E c \in IF found = {} THEN {None} ELSE found :
         CreateMessage(k, Admin, receiver, c)

\* What a parent wrote to a babysitter with the draft of a booking.
DraftMessage(k, parent, babysitter) == CreateMessage(k, parent, babysitter, None)

getConversationByUserId(k, u, v) ==
    /\ Started(k, "open", "find", u, v, None, 1, FALSE)
    /\ UNCHANGED <<conv, part, msgs, purged, broken, forgotten>>

\* findExistingConversation in createOrRestoreConversation.  Opening leaves
\* what it finds as it is; writing restores both participants.
FindConversation(k) ==
    LET me == calls[k].me
        other == calls[k].other
    IN /\ calls[k].pc = "find"
       /\ calls[k].op \in {"message", "open"}
       /\ IF Existing(me, other) = {} THEN Goto(k, "create")
          ELSE IF calls[k].op = "open" THEN Return(k)
          ELSE \E c \in Existing(me, other) : GotoWith(k, "readReceiver", c)
       /\ UNCHANGED <<conv, part, msgs, purged, broken, forgotten>>

ParticipantsSender(k) == {calls[k].me}                          \* a mutant
Participants(k) == {calls[k].me, calls[k].other}

\* One save creates the conversation with its participants; a participant who
\* was removed for good makes it fail, and the call ends.
CreateConversation(k) ==
    LET pair == {calls[k].me, calls[k].other} IN
    /\ calls[k].pc = "create"
    /\ calls[k].op \in {"message", "open"}
    /\ IF pair \cap purged # {} THEN Return(k) /\ UNCHANGED <<conv, part>>
       ELSE \E c \in Fresh :
         /\ conv' = [conv EXCEPT ![c] = [kind |-> "user", members |-> pair]]
         /\ part' = [part EXCEPT ![c] = [u \in People |-> [r \in Rows |->
              IF u \in Participants(k) /\ (r = 1 \/ calls[k].me = calls[k].other)
              THEN Joined(IF calls[k].op = "open" THEN "deleted" ELSE "active")
              ELSE NoParticipant]]]
         /\ IF calls[k].op = "open" THEN Return(k) ELSE GotoWith(k, "insert", c)
    /\ UNCHANGED <<msgs, purged, broken, forgotten>>

\* restoreParticipant, once for the receiver and then once for the sender: a
\* read, and when it found a row and that was deleted, an update by its id.
ReadParticipant(k) ==
    LET first == calls[k].pc = "readReceiver"
        u == IF first THEN calls[k].other ELSE calls[k].me
        c == calls[k].conversationId
        next == IF first THEN "readSender" ELSE "insert"
    IN /\ calls[k].pc \in {"readReceiver", "readSender"}
       /\ \/ /\ ~Joins(c, u)
             /\ calls' = [calls EXCEPT ![k].pc = next,
                            ![k].away = IF first THEN @ \cup {u} ELSE @]
          \/ \E r \in Rows :
               /\ part[c][u][r].state # "none"
               /\ calls' = [calls EXCEPT ![k].row = r, ![k].pc =
                    IF part[c][u][r].state = "active" THEN next
                    ELSE IF first THEN "restoreReceiver" ELSE "restoreSender"]
       /\ UNCHANGED <<conv, part, msgs, purged, broken, forgotten>>

RestoredUndated(row) == [row EXCEPT !.state = "active"]         \* a mutant
Restored(row) == [row EXCEPT !.state = "active", !.since = Len(msgs)]

WhoIsRestoredSender(k) == calls[k].me                           \* a mutant
WhoIsRestored(k) ==
    IF calls[k].pc = "restoreReceiver" THEN calls[k].other ELSE calls[k].me

RestoreParticipant(k) ==
    /\ calls[k].pc \in {"restoreReceiver", "restoreSender"}
    /\ LET u == WhoIsRestored(k)
           c == calls[k].conversationId
           r == calls[k].row
       IN part' = IF part[c][u][r].state = "none" THEN part
                  ELSE [part EXCEPT ![c][u][r] = Restored(@)]
    /\ Goto(k, IF calls[k].pc = "restoreReceiver" THEN "readSender" ELSE "insert")
    /\ UNCHANGED <<conv, msgs, purged, broken, forgotten>>

\* The participants' updatedAt, which orders the list, and then the message.
InsertMessage(k) ==
    /\ calls[k].pc = "insert"
    /\ Len(msgs) < MaxMessages
    /\ msgs' = Append(msgs, [conversationId |-> calls[k].conversationId,
                             from |-> calls[k].me, to |-> calls[k].other,
                             isSeen |-> FALSE, away |-> calls[k].away])
    /\ Return(k)
    /\ UNCHANGED <<conv, part, purged, broken, forgotten>>

----------------------------------------------------------------------------
(* createConversation: a conversation is one with a message. *)

StartConversation(k, sender, receiver) ==
    /\ Started(k, "start", "find", sender, receiver, None, 1, FALSE)
    /\ UNCHANGED <<conv, part, msgs, purged, broken, forgotten>>

FoundNothing(k) == TRUE                                         \* a mutant
FoundNoMessage(k) == ~Wrote(calls[k].me, calls[k].other)

StartFind(k) ==
    /\ calls[k].op = "start" /\ calls[k].pc = "find"
    /\ IF FoundNoMessage(k) /\ calls[k].other \notin purged
       THEN Goto(k, "create") ELSE Return(k)
    /\ UNCHANGED <<conv, part, msgs, purged, broken, forgotten>>

StartCreate(k) ==
    /\ calls[k].op = "start" /\ calls[k].pc = "create"
    /\ \E c \in Fresh :
         /\ conv' = [conv EXCEPT ![c] =
                       [kind |-> "user", members |-> {calls[k].me, calls[k].other}]]
         /\ GotoWith(k, "join", c)
    /\ UNCHANGED <<part, msgs, purged, broken, forgotten>>

\* The two participants are created at once, in either order; neither is
\* taken back when the other fails.
StartJoin(k) ==
    /\ calls[k].pc \in {"join", "joinOther"}
    /\ \E u \in {calls[k].me, calls[k].other} :
         LET c == calls[k].conversationId IN
         /\ calls[k].pc = "joinOther" => ~calls[k].flag \/ u = calls[k].me
         /\ calls[k].pc = "joinOther" => calls[k].flag \/ u = calls[k].other
         /\ part' = IF u \in purged THEN part
                    ELSE [part EXCEPT ![c][u][IF Joins(c, u) THEN 2 ELSE 1] = Joined("active")]
         /\ IF calls[k].pc = "join"
            THEN calls' = [calls EXCEPT ![k].pc = "joinOther",
                                        ![k].flag = (u = calls[k].other)]
            ELSE Return(k)
    /\ UNCHANGED <<conv, msgs, purged, broken, forgotten>>

----------------------------------------------------------------------------
(* getConversationAdminAndUser. *)

SystemOpen(k, u) ==
    /\ Started(k, "system", "find", u, Admin, None, 1, FALSE)
    /\ UNCHANGED <<conv, part, msgs, purged, broken, forgotten>>

SystemFind(k) ==
    /\ calls[k].op = "system" /\ calls[k].pc = "find"
    /\ IF SystemConversation(calls[k].me) = {} THEN Goto(k, "create") ELSE Return(k)
    /\ UNCHANGED <<conv, part, msgs, purged, broken, forgotten>>

SystemCreate(k) ==
    LET u == calls[k].me IN
    /\ calls[k].op = "system" /\ calls[k].pc = "create"
    /\ IF u \in purged THEN UNCHANGED <<conv, part>>
       ELSE \E c \in Fresh :
         /\ conv' = [conv EXCEPT ![c] = [kind |-> "system", members |-> {u}]]
         /\ part' = [part EXCEPT ![c][u][1] = Joined("active")]
    /\ Return(k)
    /\ UNCHANGED <<msgs, purged, broken, forgotten>>

----------------------------------------------------------------------------
(* What one participant does to the own row: delete, mute and pin read a    *)
(* row and then update it by id.                                           *)

ChangeOwn(k, op, u, c) ==
    /\ op \in {"delete", "mute", "pin"}
    /\ \E r \in Rows :
         /\ part[c][u][r].state = "active"
         /\ Started(k, op, "write", u, None, c, r,
                    IF op = "mute" THEN ~part[c][u][r].isMuted ELSE ~part[c][u][r].isPinned)
    /\ UNCHANGED <<conv, part, msgs, purged, broken, forgotten>>

\* The user has forgotten the conversation when no row is left that shows it:
\* of a conversation with oneself the other row may be.
deleteConversation(k) ==
    LET u == calls[k].me
        c == calls[k].conversationId
        r == calls[k].row
    IN /\ calls[k].pc = "write" /\ calls[k].op = "delete"
       /\ part' = IF part[c][u][r].state = "none" THEN part
                  ELSE [part EXCEPT ![c][u][r].state = "deleted"]
       /\ calls' = [j \in Calls |->
            IF j = k THEN Idle
            ELSE IF /\ calls[j].pc \in {"readSender", "restoreSender", "insert"}
                    /\ calls[j].conversationId = c
            THEN [calls[j] EXCEPT !.away = @ \cup {u}]
            ELSE calls[j]]
       /\ forgotten' = IF Joins(c, u) /\ \A q \in Rows \ {r} : part[c][u][q].state # "active"
                       THEN forgotten \cup {<<u, c, Len(msgs)>>} ELSE forgotten
       /\ UNCHANGED <<conv, msgs, purged, broken>>

ToggleFlag(k) ==
    LET u == calls[k].me
        c == calls[k].conversationId
        r == calls[k].row
    IN /\ calls[k].pc = "write" /\ calls[k].op \in {"mute", "pin"}
       /\ part' = IF part[c][u][r].state = "none" THEN part
                  ELSE IF calls[k].op = "mute"
                       THEN [part EXCEPT ![c][u][r].isMuted = calls[k].flag]
                       ELSE [part EXCEPT ![c][u][r].isPinned = calls[k].flag]
       /\ Return(k)
       /\ UNCHANGED <<conv, msgs, purged, broken, forgotten>>

\* seenMessage, and the update getConversationById does not await.
SeeMessages(u, c) ==
    /\ \E i \in 1..Len(msgs) :
         msgs[i].conversationId = c /\ msgs[i].to = u /\ ~msgs[i].isSeen
    /\ msgs' = [i \in 1..Len(msgs) |->
                  IF msgs[i].conversationId = c /\ msgs[i].to = u
                  THEN [msgs[i] EXCEPT !.isSeen = TRUE] ELSE msgs[i]]
    /\ UNCHANGED <<conv, part, calls, purged, broken, forgotten>>

----------------------------------------------------------------------------
(* Failures and removal. *)

\* The cascade of a removed user takes the participant rows, not messages.
PurgeUser(u) ==
    /\ u \notin purged
    /\ purged' = purged \cup {u}
    /\ part' = [c \in Convs |-> [part[c] EXCEPT ![u] = [r \in Rows |-> NoParticipant]]]
    /\ UNCHANGED <<conv, msgs, calls, broken, forgotten>>

ChatCrash ==
    /\ \E k \in Calls : calls[k] # Idle
    /\ broken' = broken \cup {calls[k].conversationId : k \in
                   {j \in Calls : calls[j].pc \in {"join", "joinOther"}}}
    /\ calls' = [k \in Calls |-> Idle]
    /\ UNCHANGED <<conv, part, msgs, purged, forgotten>>

CallStep(k) ==
    \/ FindConversation(k) \/ CreateConversation(k)
    \/ ReadParticipant(k) \/ RestoreParticipant(k) \/ InsertMessage(k)
    \/ StartFind(k) \/ StartCreate(k) \/ StartJoin(k)
    \/ SystemFind(k) \/ SystemCreate(k)
    \/ deleteConversation(k) \/ ToggleFlag(k)
=============================================================================
