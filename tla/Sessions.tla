------------------------------- MODULE Sessions -------------------------------
(***************************************************************************)
(* Login, one-time codes of accounts and sessions of auth-svc.  A call is  *)
(* cut at its database round trips; shared remembers which calls met on    *)
(* one user, session or code, for the properties.                          *)
(***************************************************************************)
EXTENDS OneTimeCodes

CONSTANTS
    Admins, Managers, Members,  \* the users by role
    Calls,                      \* slots for calls under way
    MaxSessions,                \* bound: rows of login_session
    MaxCalls                    \* bound: calls that open a session or mail a code

ASSUME RoleAssumption ==
    /\ Users = Admins \cup Managers \cup Members
    /\ Admins \cap (Managers \cup Members) = {} /\ Managers \cap Members = {}

ASSUME SessionBounds == MaxSessions \in Nat /\ MaxCalls \in Nat

VARIABLES
    account,        \* account[u]: live, soft-deleted or removed
    sessions,       \* the rows of login_session, oldest first
    calls,          \* calls[k]: the call in slot k
    called,         \* how many calls were counted against MaxCalls
    shared          \* history: what two calls held at once

vars == <<codeVars, account, sessions, calls, called, shared>>

\* by is history: the call that opened the session; from is the session whose
\* refresh token was spent for it, 0 for none.
Session == [userId : Users, live : BOOLEAN, from : 0..MaxSessions,
            by : {"login", "social", "verify", "refresh"}]

\* deleted is what the call read; seenLive is history: the user was there at
\* some time during the call.
Call == [pc : {"idle", "endOld", "token", "newCode", "takeCode", "spend", "replace",
               "accept", "readUser", "save"},
         op : {"none", "login", "social", "verify", "refresh", "code", "reset"},
         user : Users \cup {None}, type : CodeType, row : Nat,
         deleted : BOOLEAN, seenLive : BOOLEAN]

Idle == [pc |-> "idle", op |-> "none", user |-> None, type |-> "admin_login",
         row |-> 0, deleted |-> FALSE, seenLive |-> FALSE]

Init ==
    /\ CodesInit
    /\ account = [u \in Users |-> "live"]
    /\ sessions = <<>>
    /\ calls = [k \in Calls |-> Idle]
    /\ called = 0
    /\ shared = {}

\* What a call may meet another on.
Holds(c) ==
    (IF c.op \in {"login", "social", "verify", "refresh"} THEN {<<"user", c.user>>} ELSE {})
    \cup (IF c.op = "refresh" THEN {<<"session", c.row>>} ELSE {})
    \cup (IF c.pc \in {"takeCode", "accept"} THEN {<<"code", c.row>>} ELSE {})

Begin(k, op, pc, u, type, row) ==
    LET c == [pc |-> pc, op |-> op, user |-> u, type |-> type, row |-> row,
              deleted |-> account[u] = "deleted", seenLive |-> account[u] = "live"] IN
    /\ calls[k] = Idle /\ called < MaxCalls
    /\ calls' = [calls EXCEPT ![k] = c]
    /\ called' = called + 1
    /\ shared' = shared \cup (Holds(c) \cap UNION {Holds(calls[j]) : j \in Calls})

Goes(k, pc) ==
    /\ calls' = [calls EXCEPT ![k] = IF pc = "idle" THEN Idle ELSE [@ EXCEPT !.pc = pc]]
    /\ UNCHANGED <<called, shared>>

Ended(rows) == [i \in DOMAIN sessions |->
                  IF i \in rows THEN [sessions[i] EXCEPT !.live = FALSE] ELSE sessions[i]]

----------------------------------------------------------------------------
\* Logging in.

\* An admin or a manager with his password (and before his expiry).
login(k, u) ==
    /\ u \in Admins \cup Managers /\ account[u] = "live"
    /\ Begin(k, "code", "newCode", u, "admin_login", 0)
    /\ UNCHANGED <<codeVars, account, sessions>>

\* A parent or babysitter, deleted or not.
loginUser(k, u) ==
    /\ u \in Members /\ account[u] # "removed"
    /\ Begin(k, "login", "endOld", u, "admin_login", 0)
    /\ UNCHANGED <<codeVars, account, sessions>>

\* All sessions end before the first check that may refuse: deleted, wrong
\* password, not active, wrong app.
MayLogin(c) == TRUE                                             \* a mutant
LoginGoesOn(c) == ~c.deleted
OldSessionsKept(u) == {}                                        \* a mutant
OldSessions(u) == {i \in DOMAIN sessions : sessions[i].userId = u}

EndOldSessions(k) ==
    /\ calls[k].pc = "endOld"
    /\ sessions' = Ended(OldSessions(calls[k].user))
    /\ \/ LoginGoesOn(calls[k]) /\ Goes(k, "token")
       \/ Goes(k, "idle")
    /\ UNCHANGED <<codeVars, account>>

\* socialCallback of a user with a social account; no session ends.
SocialLogin(k, u) ==
    /\ u \in Members /\ account[u] = "live"
    /\ Begin(k, "social", "token", u, "admin_login", 0)
    /\ UNCHANGED <<codeVars, account, sessions>>

verifyOtp(k, i) ==
    /\ i \in DOMAIN codes /\ Active(i)
    /\ codes[i].type = "admin_login" /\ codes[i].userId # None
    /\ Begin(k, "verify", "takeCode", codes[i].userId, "admin_login", i)
    /\ UNCHANGED <<codeVars, account, sessions>>

\* The code is spent while the user is read; without one the call ends in a
\* TypeError.  (The two run side by side and do not depend on each other.)
TakeCode(k) ==
    LET c == calls[k] IN
    /\ c.pc = "takeCode"
    /\ codes' = Accepted(c.row)
    /\ Goes(k, IF account[c.user] = "live" THEN "token" ELSE "idle")
    /\ UNCHANGED <<old, account, sessions>>

refreshToken(k, i) ==
    /\ i \in DOMAIN sessions /\ sessions[i].live
    /\ Begin(k, "refresh", "spend", sessions[i].userId, "admin_login", i)
    /\ UNCHANGED <<codeVars, account, sessions>>

\* The session ends while the user is read.
SpentNothing(c) == sessions                                     \* a mutant
Spent(c) == Ended({c.row})

SpendToken(k) ==
    LET c == calls[k] IN
    /\ c.pc = "spend"
    /\ sessions' = Spent(c)
    /\ Goes(k, IF account[c.user] = "live" THEN "token" ELSE "idle")
    /\ UNCHANGED <<codeVars, account>>

NewSession(c) == [userId |-> c.user, live |-> TRUE, by |-> c.op,
                  from |-> IF c.op = "refresh" THEN c.row ELSE 0]

generateToken(k) ==
    /\ calls[k].pc = "token" /\ Len(sessions) < MaxSessions
    /\ sessions' = Append(sessions, NewSession(calls[k]))
    /\ Goes(k, "idle")
    /\ UNCHANGED <<codeVars, account>>

\* With the session of the access token and its own refresh token.
logout(i) ==
    /\ i \in DOMAIN sessions /\ sessions[i].live
    /\ sessions' = Ended({i})
    /\ UNCHANGED <<codeVars, account, calls, called, shared>>

----------------------------------------------------------------------------
\* One-time codes.

forgotPassword(k, u) ==
    /\ account[u] = "live"
    /\ Begin(k, "code", "newCode", u, "user_reset_password", 0)
    /\ UNCHANGED <<codeVars, account, sessions>>

\* checkOtpAdminLogin, checkOtpUserSignUp, checkOtpUserResetPassword.
CodeIsFor(type, u) ==
    CASE type = "admin_login" -> account[u] = "live" /\ u \in Admins
      [] type = "user_signup" -> account[u] # "live"
      [] type = "user_reset_password" -> account[u] = "live" /\ u \notin Admins

resendOtp(k, u, type) ==
    /\ GenerationAllowed(u, type) /\ CodeIsFor(type, u)
    /\ Begin(k, "code", "replace", u, type, 0)
    /\ UNCHANGED <<codeVars, account, sessions>>

ReplaceCodes(k) ==
    /\ calls[k].pc = "replace"
    /\ codes' = Deactivated(codes, CodesOf(calls[k].user, calls[k].type))
    /\ calls' = [calls EXCEPT ![k].pc = "newCode", ![k].row = 1]
    /\ UNCHANGED <<old, account, sessions, called, shared>>

\* login and forgotPassword store the user, resendOtp (row 1) does not; the
\* row of a removed user is refused.
NewCode(k) ==
    LET c == calls[k] IN
    /\ c.pc = "newCode"
    /\ \/ c.row = 1 /\ CreateCode(c.user, None, c.type)
       \/ c.row = 0 /\ account[c.user] # "removed" /\ CreateCode(c.user, c.user, c.type)
       \/ c.row = 0 /\ account[c.user] = "removed" /\ UNCHANGED codes
    /\ Goes(k, "idle")
    /\ UNCHANGED <<old, account, sessions>>

verifyOtpForgotPassword(k, i) ==
    /\ i \in DOMAIN codes /\ Active(i) /\ codes[i].type = "user_reset_password"
    /\ Begin(k, "reset", "accept", codes[i].email, "user_reset_password", i)
    /\ UNCHANGED <<codeVars, account, sessions>>

AcceptCode(k) ==
    /\ calls[k].pc = "accept"
    /\ codes' = Accepted(calls[k].row)
    /\ Goes(k, "idle")
    /\ UNCHANGED <<old, account, sessions>>

\* Any code of the type will do, active or not.
resetPassword(k, u) ==
    /\ CodesOf(u, "user_reset_password") # {}
    /\ Begin(k, "reset", "readUser", u, "user_reset_password", 0)
    /\ UNCHANGED <<codeVars, account, sessions>>

\* Without a user the call ends in a TypeError.
ReadUser(k) ==
    /\ calls[k].pc = "readUser"
    /\ Goes(k, IF account[calls[k].user] = "live" THEN "save" ELSE "idle")
    /\ UNCHANGED <<codeVars, account, sessions>>

\* save leaves deleted_at alone and inserts a row that is gone.
SavePassword(k) ==
    LET u == calls[k].user  back == account[u] = "removed" IN
    /\ calls[k].pc = "save"
    /\ account' = [account EXCEPT ![u] = IF back THEN "live" ELSE @]
    /\ calls' = [j \in Calls |->
                   IF j = k THEN Idle
                   ELSE [calls[j] EXCEPT !.seenLive = @ \/ (back /\ calls[j].user = u)]]
    /\ UNCHANGED <<codeVars, sessions, called, shared>>

----------------------------------------------------------------------------
\* Accounts come and go.

deleteAccount(u) ==
    /\ account[u] = "live"
    /\ account' = [account EXCEPT ![u] = "deleted"]
    /\ UNCHANGED <<codeVars, sessions, calls, called, shared>>

\* The rows of login_session have no key to users and stay.
RemoveAccount(u) ==
    /\ account[u] = "deleted"
    /\ account' = [account EXCEPT ![u] = "removed"]
    /\ codes' = CodesCascade(u)
    /\ UNCHANGED <<old, sessions, calls, called, shared>>

\* The process of auth-svc dies with its calls.
AuthCrash ==
    /\ \E k \in Calls : calls[k] # Idle
    /\ calls' = [k \in Calls |-> Idle]
    /\ UNCHANGED <<codeVars, account, sessions, called, shared>>

CallStep(k) ==
    \/ EndOldSessions(k) \/ TakeCode(k) \/ SpendToken(k) \/ generateToken(k)
    \/ ReplaceCodes(k) \/ NewCode(k) \/ AcceptCode(k) \/ ReadUser(k) \/ SavePassword(k)

Next ==
    \/ \E k \in Calls, u \in Users :
         \/ login(k, u) \/ loginUser(k, u) \/ SocialLogin(k, u) \/ forgotPassword(k, u)
         \/ resetPassword(k, u)
         \/ \E type \in CodeType : resendOtp(k, u, type)
    \/ \E k \in Calls, i \in 1..MaxCodes : verifyOtp(k, i) \/ verifyOtpForgotPassword(k, i)
    \/ \E k \in Calls, i \in 1..MaxSessions : refreshToken(k, i)
    \/ \E k \in Calls : CallStep(k)
    \/ \E i \in 1..MaxSessions : logout(i)
    \/ \E u \in Users : deleteAccount(u) \/ RemoveAccount(u)
    \/ AuthCrash
    \/ CodeAges /\ UNCHANGED <<account, sessions, calls, called, shared>>

Spec == Init /\ [][Next]_vars

----------------------------------------------------------------------------
\* Types of rows and calls; a session comes from an older one.
TypeOK ==
    /\ CodesTypeOK
    /\ account \in [Users -> {"live", "deleted", "removed"}]
    /\ sessions \in Seq(Session) /\ Len(sessions) <= MaxSessions
    /\ \A i \in DOMAIN sessions : sessions[i].from < i
    /\ calls \in [Calls -> Call]
    /\ called \in 0..MaxCalls

\* Rows and calls keep their types, and whoever logs in by password has one
\* session at most, unless two calls that open one overlapped or he also came
\* by a social account: loginUser ends the old sessions and refreshToken the
\* one it renews.
OneSessionPerMember ==
    TypeOK /\ \A u \in Members :
        LET own == {i \in DOMAIN sessions : sessions[i].userId = u} IN
        \/ <<"user", u>> \in shared
        \/ \E i \in own : sessions[i].by = "social"
        \/ Cardinality({i \in own : sessions[i].live}) <= 1

\* A refresh token opens one session at most, unless two calls used it at once
\* (refreshToken reads the session before it ends it).
TokenSpentOnce ==
    \A i \in DOMAIN sessions :
        \/ <<"session", i>> \in shared
        \/ Cardinality({j \in DOMAIN sessions : sessions[j].from = i}) <= 1

\* No session opens for an account that was gone before the call began and
\* stayed so: loginUser reads deleted accounts, refreshToken finds the session
\* of one.
NoSessionAfterDeletion ==
    [][Len(sessions') > Len(sessions) =>
         \E k \in Calls : calls[k].pc = "token" /\ calls'[k] = Idle /\ calls[k].seenLive]_vars

\* A mailed code is accepted once (verifyOtp, verifyOtpForgotPassword).
CodeAcceptedOnce == UsedOnce(shared)
=============================================================================
