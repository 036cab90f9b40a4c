---------------------------- MODULE SessionProofs -----------------------------
(***************************************************************************)
(* Proofs of what Sessions states, for any number of users, calls,         *)
(* sessions and codes.                                                     *)
(***************************************************************************)
EXTENDS Sessions, FiniteSetTheorems, TLAPS

USE RoleAssumption, CodesAssumption, SessionBounds

----------------------------------------------------------------------------
(* Types, and what a call under way may rely on. *)

Opening == {"login", "social", "verify", "refresh"}

\* A call belongs to a user, one that was there if he is there now; it opens a
\* session only for a user that was there; its session or code exists.
CallOK(c) ==
    /\ c \in Call
    /\ c.pc = "idle" => c = Idle
    /\ c.pc # "idle" => c.user \in Users /\ (account[c.user] = "live" => c.seenLive)
    /\ c.pc = "endOld" => c.op = "login" /\ (c.deleted \/ c.seenLive)
    /\ c.pc = "token" => c.op \in Opening /\ c.seenLive
    /\ c.pc = "spend" => c.op = "refresh"
    /\ c.pc = "takeCode" => c.op = "verify"
    /\ c.pc \in {"takeCode", "accept"} => c.row \in DOMAIN codes
    /\ c.op = "refresh" => /\ c.pc \in {"spend", "token"}
                           /\ c.row \in DOMAIN sessions
                           /\ sessions[c.row].userId = c.user
    /\ c.op \in Opening => c.pc \in {"endOld", "takeCode", "spend", "token"}
    /\ c.op = "verify" => c.user \notin Members
    /\ c.pc = "newCode" /\ c.row = 0 /\ c.type = "admin_login" => c.user \notin Members

\* A code for the login of an admin that has an id is not of a member.
AdminCodes ==
    \A i \in DOMAIN codes : codes[i].type = "admin_login" => codes[i].userId \notin Members

IInv == TypeOK /\ AdminCodes /\ \A k \in Calls : CallOK(calls[k])

LEMMA InitIInv == Init => IInv
BY DEF Init, IInv, TypeOK, AdminCodes, CallOK, CodesTypeOK, CodesInit, Idle, Call, CodeType, Opening

NewCall(op, pc, u, type, row) ==
    [pc |-> pc, op |-> op, user |-> u, type |-> type, row |-> row,
     deleted |-> account[u] = "deleted", seenLive |-> account[u] = "live"]

\* A call that may begin.
MayBegin(c) ==
    /\ CallOK(c)
    /\ c.pc = "token" => c.op = "social"
    /\ c.op = "refresh" => c.pc = "spend" /\ sessions[c.row].live
    /\ c.pc \in {"takeCode", "accept"} => codes[c.row].isActive

\* What all actions that begin a call have in common.
Begins(k, c) ==
    /\ calls[k] = Idle /\ called < MaxCalls
    /\ calls' = [calls EXCEPT ![k] = c]
    /\ called' = called + 1
    /\ shared' = shared \cup (Holds(c) \cap UNION {Holds(calls[j]) : j \in Calls})
    /\ UNCHANGED <<codeVars, account, sessions>>
    /\ MayBegin(c)

LEMMA NewCallBegins ==
    ASSUME NEW k, NEW op, NEW pc, NEW u, NEW type, NEW row,
           Begin(k, op, pc, u, type, row), UNCHANGED <<codeVars, account, sessions>>,
           MayBegin(NewCall(op, pc, u, type, row))
    PROVE  \E c : Begins(k, c)
<1> DEFINE c == NewCall(op, pc, u, type, row)
<1>1. /\ calls[k] = Idle /\ called < MaxCalls
      /\ calls' = [calls EXCEPT ![k] = c]
      /\ called' = called + 1
      /\ shared' = shared \cup (Holds(c) \cap UNION {Holds(calls[j]) : j \in Calls})
  BY DEF Begin, NewCall
<1> HIDE DEF c
<1>2. Begins(k, c)
  <2>1. MayBegin(c)
    BY DEF c
  <2> QED
    BY <1>1, <2>1 DEF Begins
<1> QED
  BY <1>2

BeginByUser(k, u) ==
    \/ login(k, u) \/ loginUser(k, u) \/ SocialLogin(k, u) \/ forgotPassword(k, u)
    \/ resetPassword(k, u)
    \/ \E type \in CodeType : resendOtp(k, u, type)

LEMMA UserCallBegins ==
    ASSUME IInv, NEW k \in Calls, NEW u \in Users, BeginByUser(k, u)
    PROVE  \E c : Begins(k, c)
<1> USE DEF NewCall, MayBegin, CallOK, Call, CodeType, Opening
<1>1. CASE login(k, u)
  <2>1. Begin(k, "code", "newCode", u, "admin_login", 0) /\ MayBegin(NewCall("code", "newCode", u, "admin_login", 0))
    BY <1>1 DEF login
  <2> QED
    BY <1>1, <2>1, NewCallBegins DEF login
<1>2. CASE loginUser(k, u)
  <2>1. Begin(k, "login", "endOld", u, "admin_login", 0) /\ MayBegin(NewCall("login", "endOld", u, "admin_login", 0))
    BY <1>2 DEF loginUser, IInv, TypeOK
  <2> QED
    BY <1>2, <2>1, NewCallBegins DEF loginUser
<1>3. CASE SocialLogin(k, u)
  <2>1. Begin(k, "social", "token", u, "admin_login", 0) /\ MayBegin(NewCall("social", "token", u, "admin_login", 0))
    BY <1>3 DEF SocialLogin
  <2> QED
    BY <1>3, <2>1, NewCallBegins DEF SocialLogin
<1>4. CASE forgotPassword(k, u)
  <2>1. Begin(k, "code", "newCode", u, "user_reset_password", 0)
        /\ MayBegin(NewCall("code", "newCode", u, "user_reset_password", 0))
    BY <1>4 DEF forgotPassword
  <2> QED
    BY <1>4, <2>1, NewCallBegins DEF forgotPassword
<1>5. CASE resetPassword(k, u)
  <2>1. Begin(k, "reset", "readUser", u, "user_reset_password", 0)
        /\ MayBegin(NewCall("reset", "readUser", u, "user_reset_password", 0))
    BY <1>5 DEF resetPassword
  <2> QED
    BY <1>5, <2>1, NewCallBegins DEF resetPassword
<1>6. CASE \E type \in CodeType : resendOtp(k, u, type)
  <2>1. PICK type \in CodeType : resendOtp(k, u, type)
    BY <1>6
  <2>2. Begin(k, "code", "replace", u, type, 0) /\ MayBegin(NewCall("code", "replace", u, type, 0))
    BY <2>1 DEF resendOtp
  <2> QED
    BY <2>1, <2>2, NewCallBegins DEF resendOtp
<1> QED
  BY <1>1, <1>2, <1>3, <1>4, <1>5, <1>6 DEF BeginByUser

LEMMA CodeCallBegins ==
    ASSUME IInv, NEW k \in Calls, NEW i, verifyOtp(k, i) \/ verifyOtpForgotPassword(k, i)
    PROVE  \E c : Begins(k, c)
<1>1. i \in DOMAIN codes /\ codes[i].isActive /\ codes[i] \in UserOtp /\ i \in Nat
  BY DEF verifyOtp, verifyOtpForgotPassword, Active, IInv, TypeOK, CodesTypeOK
<1>2. CASE verifyOtp(k, i)
  <2>1. codes[i].userId \in Users \ Members
    <3>1. codes[i].userId \notin Members /\ codes[i].userId # None
      BY <1>1, <1>2 DEF verifyOtp, IInv, AdminCodes
    <3> QED
      BY <1>1, <3>1 DEF UserOtp
  <2>2. Begin(k, "verify", "takeCode", codes[i].userId, "admin_login", i)
    BY <1>2 DEF verifyOtp
  <2>3. MayBegin(NewCall("verify", "takeCode", codes[i].userId, "admin_login", i))
    BY <1>1, <2>1 DEF NewCall, MayBegin, CallOK, Call, CodeType, Opening
  <2> QED
    BY <1>2, <2>2, <2>3, NewCallBegins DEF verifyOtp
<1>3. CASE verifyOtpForgotPassword(k, i)
  <2>1. codes[i].email \in Users
    BY <1>1 DEF UserOtp
  <2>2. Begin(k, "reset", "accept", codes[i].email, "user_reset_password", i)
    BY <1>3 DEF verifyOtpForgotPassword
  <2>3. MayBegin(NewCall("reset", "accept", codes[i].email, "user_reset_password", i))
    BY <1>1, <2>1 DEF NewCall, MayBegin, CallOK, Call, CodeType, Opening
  <2> QED
    BY <1>3, <2>2, <2>3, NewCallBegins DEF verifyOtpForgotPassword
<1> QED
  BY <1>2, <1>3

LEMMA RefreshBegins ==
    ASSUME IInv, NEW k \in Calls, NEW i, refreshToken(k, i)
    PROVE  \E c : Begins(k, c)
<1>1. i \in DOMAIN sessions /\ sessions[i].live /\ sessions[i].userId \in Users /\ i \in Nat
  <2>1. i \in DOMAIN sessions /\ sessions[i].live
    BY DEF refreshToken
  <2>2. sessions[i] \in Session /\ i \in Nat
    BY <2>1 DEF IInv, TypeOK
  <2> QED
    BY <2>1, <2>2 DEF Session
<1>2. Begin(k, "refresh", "spend", sessions[i].userId, "admin_login", i)
  BY DEF refreshToken
<1>3. MayBegin(NewCall("refresh", "spend", sessions[i].userId, "admin_login", i))
  BY <1>1 DEF NewCall, MayBegin, CallOK, Call, CodeType, Opening
<1> QED
  BY <1>2, <1>3, NewCallBegins DEF refreshToken

\* A new call keeps the invariant.
LEMMA BeginKeeps ==
    ASSUME IInv, NEW k \in Calls, \E c : Begins(k, c)
    PROVE  IInv'
<1>1. PICK c : Begins(k, c)
  OBVIOUS
<1>2. \A j \in Calls : calls'[j] = IF j = k THEN c ELSE calls[j]
  BY <1>1 DEF Begins, IInv, TypeOK
<1>3. CallOK(c) /\ \A j \in Calls : CallOK(calls[j])
  BY <1>1 DEF Begins, MayBegin, IInv
<1>4. \A j \in Calls : CallOK(calls[j])'
  <2> SUFFICES ASSUME NEW j \in Calls PROVE CallOK(calls[j])'
    OBVIOUS
  <2> QED
    BY <1>1, <1>2, <1>3 DEF Begins, CallOK, codeVars
<1>5. calls' \in [Calls -> Call]
  BY <1>1, <1>3 DEF Begins, CallOK, IInv, TypeOK
<1> QED
  BY <1>1, <1>4, <1>5 DEF Begins, IInv, TypeOK, AdminCodes, CodesTypeOK, codeVars

\* What a call may rely on while others step.
RowsStay ==
    /\ DOMAIN codes \subseteq DOMAIN codes'
    /\ \A i \in DOMAIN sessions : i \in DOMAIN sessions' /\ sessions'[i].userId = sessions[i].userId

NobodyReturns == \A u \in Users : account'[u] = "live" => account[u] = "live"

LEMMA CallStays ==
    ASSUME NEW k \in Calls, CallOK(calls[k]), calls'[k] = calls[k], RowsStay, NobodyReturns
    PROVE  CallOK(calls[k])'
BY DEF CallOK, RowsStay, NobodyReturns

LEMMA IdleIsOK ==
    ASSUME NEW k, calls'[k] = Idle
    PROVE  CallOK(calls[k])'
BY DEF CallOK, Idle, Call, CodeType, Opening

\* A step of a call to another place in which it is in order.
LEMMA MoveKeepsCalls ==
    ASSUME IInv, RowsStay, NobodyReturns, NEW k \in Calls, NEW pc, Goes(k, pc),
           pc # "idle" => CallOK(calls[k])'
    PROVE  (\A j \in Calls : CallOK(calls[j]))' /\ calls' \in [Calls -> Call]
<1>1. calls \in [Calls -> Call]
  BY DEF IInv, TypeOK
<1>2. CallOK(calls[k])'
  BY <1>1, IdleIsOK DEF Goes
<1>3. ASSUME NEW j \in Calls, j # k
      PROVE  CallOK(calls[j])'
  BY <1>1, <1>3, CallStays DEF Goes, IInv
<1>4. calls' \in [Calls -> Call]
  <2>1. \A j \in Calls : calls'[j] \in Call
    BY <1>2, <1>3 DEF CallOK
  <2>2. \E c : calls' = [calls EXCEPT ![k] = c]
    BY DEF Goes
  <2> QED
    BY <1>1, <2>1, <2>2
<1> QED
  BY <1>2, <1>3, <1>4


LEMMA EndedKeepsRows ==
    ASSUME IInv, NEW rows, sessions' = Ended(rows), UNCHANGED codes
    PROVE  /\ RowsStay
           /\ sessions' \in Seq(Session) /\ Len(sessions') = Len(sessions)
           /\ DOMAIN sessions' = DOMAIN sessions
           /\ \A i \in DOMAIN sessions :
                /\ sessions'[i].from = sessions[i].from /\ sessions'[i].by = sessions[i].by
                /\ sessions'[i].live = (sessions[i].live /\ i \notin rows)
<1>1. sessions \in Seq(Session) /\ DOMAIN sessions = 1..Len(sessions)
  BY DEF IInv, TypeOK
<1>2. DOMAIN sessions' = 1..Len(sessions)
  BY <1>1 DEF Ended
<1>3. ASSUME NEW i \in DOMAIN sessions
      PROVE  /\ sessions'[i] \in Session /\ sessions'[i].userId = sessions[i].userId
             /\ sessions'[i].from = sessions[i].from /\ sessions'[i].by = sessions[i].by
             /\ sessions'[i].live = (sessions[i].live /\ i \notin rows)
  <2>1. sessions[i] \in Session
    BY <1>1
  <2>2. sessions'[i] = IF i \in rows THEN [sessions[i] EXCEPT !.live = FALSE] ELSE sessions[i]
    BY <1>1 DEF Ended
  <2> QED
    BY <2>1, <2>2 DEF Session
<1>4. sessions' \in [1..Len(sessions) -> Session]
  <2>1. sessions' = [i \in 1..Len(sessions) |-> sessions'[i]]
    BY <1>1 DEF Ended
  <2> QED
    BY <1>1, <1>3, <2>1
<1>5. sessions' \in Seq(Session) /\ Len(sessions') = Len(sessions)
  BY <1>1, <1>4
<1> QED
  BY <1>1, <1>2, <1>3, <1>5 DEF RowsStay

LEMMA AcceptedKeepsRows ==
    ASSUME IInv, NEW i \in DOMAIN codes, codes' = Accepted(i), UNCHANGED <<sessions, old>>
    PROVE  /\ RowsStay /\ AdminCodes' /\ CodesTypeOK' /\ Len(codes') = Len(codes)
           /\ \A j \in DOMAIN codes \ {i} : codes'[j] = codes[j]
           /\ ~codes'[i].isActive
           /\ codes[i].uses = 0 => codes'[i].uses = 1
<1>1. codes \in Seq(UserOtp) /\ codes[i] \in UserOtp
  BY DEF IInv, TypeOK, CodesTypeOK
<1> DEFINE row == [codes[i] EXCEPT !.isActive = FALSE]
           uses == IF codes[i].uses = 2 THEN 2 ELSE codes[i].uses + 1
           new == [row EXCEPT !.uses = uses]
<1>2. /\ row \in UserOtp /\ ~row.isActive /\ row.uses = codes[i].uses
      /\ row.type = codes[i].type /\ row.userId = codes[i].userId
  BY <1>1 DEF UserOtp
<1>3. uses \in 0..2 /\ (codes[i].uses = 0 => uses = 1)
  BY <1>1 DEF UserOtp
<1>4. codes' = [codes EXCEPT ![i] = new]
  <2> HIDE DEF row
  <2>1. Deactivated(codes, {i}) = [codes EXCEPT ![i] = row]
    BY <1>1 DEF Deactivated, row
  <2>2. codes' = [[codes EXCEPT ![i] = row] EXCEPT ![i].uses = IF @ = 2 THEN 2 ELSE @ + 1]
    BY <2>1 DEF Accepted
  <2> HIDE DEF uses
  <2>3. codes' = [[codes EXCEPT ![i] = row] EXCEPT ![i].uses = uses]
    BY <1>1, <1>2, <2>2 DEF uses
  <2>4. [codes EXCEPT ![i] = row][i] = row
    BY <1>1
  <2>5. codes' = [[codes EXCEPT ![i] = row] EXCEPT ![i] = new]
    BY <2>3, <2>4
  <2> QED
    BY <1>1, <2>5
<1>5. /\ new \in UserOtp /\ ~new.isActive /\ (codes[i].uses = 0 => new.uses = 1)
      /\ new.type = codes[i].type /\ new.userId = codes[i].userId
  <2> HIDE DEF row, uses
  <2> QED
    BY <1>2, <1>3 DEF UserOtp
<1> HIDE DEF new
<1> QED
  BY <1>1, <1>4, <1>5 DEF RowsStay, AdminCodes, CodesTypeOK, IInv, TypeOK

LEMMA DeactivatedKeepsRows ==
    ASSUME IInv, NEW rows, codes' = Deactivated(codes, rows), UNCHANGED <<sessions, old>>
    PROVE  /\ RowsStay /\ AdminCodes' /\ CodesTypeOK' /\ Len(codes') = Len(codes)
           /\ \A j \in DOMAIN codes : /\ codes'[j].uses = codes[j].uses
                                      /\ codes'[j].isActive => codes[j].isActive
<1>1. codes \in Seq(UserOtp) /\ DOMAIN codes = 1..Len(codes)
  BY DEF IInv, TypeOK, CodesTypeOK
<1>2. DOMAIN codes' = 1..Len(codes)
  BY <1>1 DEF Deactivated
<1>3. ASSUME NEW j \in DOMAIN codes
      PROVE  /\ codes'[j] \in UserOtp
             /\ codes'[j].type = codes[j].type /\ codes'[j].userId = codes[j].userId
             /\ codes'[j].uses = codes[j].uses /\ (codes'[j].isActive => codes[j].isActive)
  <2>1. codes[j] \in UserOtp
    BY <1>1
  <2>2. codes'[j] = IF j \in rows THEN [codes[j] EXCEPT !.isActive = FALSE] ELSE codes[j]
    BY <1>1 DEF Deactivated
  <2> QED
    BY <2>1, <2>2 DEF UserOtp
<1>4. codes' \in [1..Len(codes) -> UserOtp]
  <2>1. codes' = [j \in 1..Len(codes) |-> codes'[j]]
    BY <1>1 DEF Deactivated
  <2> QED
    BY <1>1, <1>3, <2>1
<1>5. codes' \in Seq(UserOtp) /\ Len(codes') = Len(codes)
  BY <1>1, <1>4
<1> QED
  BY <1>1, <1>2, <1>3, <1>5 DEF RowsStay, AdminCodes, CodesTypeOK, IInv, TypeOK

LEMMA CascadeKeepsRows ==
    ASSUME IInv, NEW u, codes' = CodesCascade(u), UNCHANGED <<sessions, old>>
    PROVE  /\ RowsStay /\ AdminCodes' /\ CodesTypeOK' /\ Len(codes') = Len(codes)
           /\ \A j \in DOMAIN codes : /\ codes'[j].uses = codes[j].uses
                                      /\ codes'[j].isActive => codes[j].isActive
<1>1. codes \in Seq(UserOtp) /\ DOMAIN codes = 1..Len(codes)
  BY DEF IInv, TypeOK, CodesTypeOK
<1>2. DOMAIN codes' = 1..Len(codes)
  BY <1>1 DEF CodesCascade
<1>3. ASSUME NEW j \in DOMAIN codes
      PROVE  /\ codes'[j] \in UserOtp
             /\ codes'[j].type = codes[j].type /\ codes'[j].userId = codes[j].userId
             /\ codes'[j].uses = codes[j].uses /\ (codes'[j].isActive => codes[j].isActive)
  <2>1. codes[j] \in UserOtp
    BY <1>1
  <2>2. codes'[j] = IF codes[j].userId = u THEN [codes[j] EXCEPT !.there = FALSE] ELSE codes[j]
    BY <1>1 DEF CodesCascade
  <2> QED
    BY <2>1, <2>2 DEF UserOtp
<1>4. codes' \in [1..Len(codes) -> UserOtp]
  <2>1. codes' = [j \in 1..Len(codes) |-> codes'[j]]
    BY <1>1 DEF CodesCascade
  <2> QED
    BY <1>1, <1>3, <2>1
<1>5. codes' \in Seq(UserOtp) /\ Len(codes') = Len(codes)
  BY <1>1, <1>4
<1> QED
  BY <1>1, <1>2, <1>3, <1>5 DEF RowsStay, AdminCodes, CodesTypeOK, IInv, TypeOK

LEMMA CreatedKeepsRows ==
    ASSUME IInv, NEW email \in Users, NEW userId \in Users \cup {None}, NEW type \in CodeType,
           CreateCode(email, userId, type), type = "admin_login" => userId \notin Members,
           UNCHANGED <<sessions, old>>
    PROVE  /\ RowsStay /\ AdminCodes' /\ CodesTypeOK' /\ Len(codes') = Len(codes) + 1
           /\ \A j \in DOMAIN codes : codes'[j] = codes[j]
           /\ codes'[Len(codes) + 1].uses = 0
<1> DEFINE row == [email |-> email, userId |-> userId, type |-> type,
                   isActive |-> TRUE, there |-> TRUE, uses |-> 0]
<1>1. codes \in Seq(UserOtp) /\ Len(codes) < MaxCodes /\ codes' = Append(codes, row)
  BY DEF IInv, TypeOK, CodesTypeOK, CreateCode
<1>2. row \in UserOtp /\ row.userId = userId /\ row.type = type /\ row.uses = 0
  BY DEF UserOtp
<1> HIDE DEF row
<1>3. codes' \in Seq(UserOtp) /\ Len(codes') = Len(codes) + 1
      /\ DOMAIN codes' = 1..Len(codes) + 1 /\ DOMAIN codes = 1..Len(codes)
      /\ codes'[Len(codes) + 1] = row /\ \A j \in DOMAIN codes : codes'[j] = codes[j]
  BY <1>1, <1>2
<1>4. AdminCodes'
  <2> SUFFICES ASSUME NEW j \in DOMAIN codes', codes'[j].type = "admin_login"
               PROVE  codes'[j].userId \notin Members
    BY DEF AdminCodes
  <2> QED
    BY <1>2, <1>3 DEF AdminCodes, IInv
<1> QED
  BY <1>1, <1>2, <1>3, <1>4 DEF RowsStay, CodesTypeOK, IInv, TypeOK

LEMMA OpenedKeepsRows ==
    ASSUME IInv, NEW k \in Calls, calls[k].pc = "token", Len(sessions) < MaxSessions,
           sessions' = Append(sessions, NewSession(calls[k])), UNCHANGED codes
    PROVE  /\ RowsStay
           /\ sessions' \in Seq(Session) /\ Len(sessions') = Len(sessions) + 1
           /\ \A i \in DOMAIN sessions : sessions'[i] = sessions[i]
           /\ sessions'[Len(sessions) + 1] = NewSession(calls[k])
           /\ NewSession(calls[k]).from < Len(sessions) + 1
<1>1. sessions \in Seq(Session) /\ CallOK(calls[k])
  BY DEF IInv, TypeOK
<1>2. NewSession(calls[k]) \in Session /\ NewSession(calls[k]).from < Len(sessions) + 1
  BY <1>1 DEF NewSession, Session, CallOK, Opening, Call
<1> QED
  BY <1>1, <1>2 DEF RowsStay

----------------------------------------------------------------------------
(* The steps. *)

\* Moving on changes the place and nothing else of a call.
LEMMA MovedCall ==
    ASSUME IInv, NEW k \in Calls, NEW pc, pc # "idle", Goes(k, pc)
    PROVE  calls'[k] = [calls[k] EXCEPT !.pc = pc]
BY DEF Goes, IInv, TypeOK

LEMMA EndOldKeeps ==
    ASSUME IInv, NEW k \in Calls, EndOldSessions(k)
    PROVE  IInv'
<1>1. RowsStay /\ sessions' \in Seq(Session) /\ Len(sessions') = Len(sessions)
      /\ DOMAIN sessions' = DOMAIN sessions
      /\ \A i \in DOMAIN sessions : sessions'[i].from = sessions[i].from
  BY EndedKeepsRows DEF EndOldSessions, codeVars
<1>2. PICK pc \in {"token", "idle"} : Goes(k, pc) /\ (pc = "token" => ~calls[k].deleted)
  BY DEF EndOldSessions, LoginGoesOn
<1>3. pc # "idle" => CallOK(calls[k])'
  <2> HAVE pc # "idle"
  <2>1. calls'[k] = [calls[k] EXCEPT !.pc = "token"] /\ CallOK(calls[k])
    BY <1>2, MovedCall DEF IInv
  <2> QED
    BY <1>1, <1>2, <2>1 DEF CallOK, RowsStay, EndOldSessions, Call, Opening, codeVars
<1>4. (\A j \in Calls : CallOK(calls[j]))' /\ calls' \in [Calls -> Call]
  BY <1>1, <1>2, <1>3, MoveKeepsCalls DEF NobodyReturns, EndOldSessions
<1> QED
  BY <1>1, <1>2, <1>4 DEF IInv, TypeOK, EndOldSessions, codeVars, Goes, CodesTypeOK, AdminCodes

LEMMA TakeCodeKeeps ==
    ASSUME IInv, NEW k \in Calls, TakeCode(k)
    PROVE  IInv'
<1>1. CallOK(calls[k]) /\ calls[k].row \in DOMAIN codes
  BY DEF IInv, TakeCode, CallOK
<1>2. RowsStay /\ AdminCodes' /\ CodesTypeOK'
  BY <1>1, AcceptedKeepsRows DEF TakeCode
<1>3. PICK pc \in {"token", "idle"} :
        Goes(k, pc) /\ (pc = "token" => account[calls[k].user] = "live")
  BY DEF TakeCode
<1>4. pc # "idle" => CallOK(calls[k])'
  <2> HAVE pc # "idle"
  <2>1. calls'[k] = [calls[k] EXCEPT !.pc = "token"]
    BY <1>3, MovedCall
  <2> QED
    BY <1>1, <1>2, <1>3, <2>1 DEF CallOK, RowsStay, TakeCode, Call, Opening
<1>5. (\A j \in Calls : CallOK(calls[j]))' /\ calls' \in [Calls -> Call]
  BY <1>2, <1>3, <1>4, MoveKeepsCalls DEF NobodyReturns, TakeCode
<1> QED
  BY <1>2, <1>3, <1>5 DEF IInv, TypeOK, TakeCode, Goes

LEMMA SpendKeeps ==
    ASSUME IInv, NEW k \in Calls, SpendToken(k)
    PROVE  IInv'
<1>1. RowsStay /\ sessions' \in Seq(Session) /\ Len(sessions') = Len(sessions)
      /\ DOMAIN sessions' = DOMAIN sessions
      /\ \A i \in DOMAIN sessions : sessions'[i].from = sessions[i].from
  BY EndedKeepsRows DEF SpendToken, Spent, codeVars
<1>2. PICK pc \in {"token", "idle"} :
        Goes(k, pc) /\ (pc = "token" => account[calls[k].user] = "live")
  BY DEF SpendToken
<1>3. pc # "idle" => CallOK(calls[k])'
  <2> HAVE pc # "idle"
  <2>1. calls'[k] = [calls[k] EXCEPT !.pc = "token"] /\ CallOK(calls[k])
    BY <1>2, MovedCall DEF IInv
  <2> QED
    BY <1>1, <1>2, <2>1 DEF CallOK, RowsStay, SpendToken, Call, Opening, codeVars
<1>4. (\A j \in Calls : CallOK(calls[j]))' /\ calls' \in [Calls -> Call]
  BY <1>1, <1>2, <1>3, MoveKeepsCalls DEF NobodyReturns, SpendToken
<1> QED
  BY <1>1, <1>2, <1>4 DEF IInv, TypeOK, SpendToken, codeVars, Goes, CodesTypeOK, AdminCodes

LEMMA GenerateKeeps ==
    ASSUME IInv, NEW k \in Calls, generateToken(k)
    PROVE  IInv'
<1>1. /\ RowsStay /\ sessions' \in Seq(Session) /\ Len(sessions') = Len(sessions) + 1
      /\ \A i \in DOMAIN sessions : sessions'[i] = sessions[i]
      /\ sessions'[Len(sessions) + 1] = NewSession(calls[k])
      /\ NewSession(calls[k]).from < Len(sessions) + 1
  BY OpenedKeepsRows DEF generateToken, codeVars
<1>2. (\A j \in Calls : CallOK(calls[j]))' /\ calls' \in [Calls -> Call]
  BY <1>1, MoveKeepsCalls DEF NobodyReturns, generateToken
<1>3. \A i \in DOMAIN sessions' : sessions'[i].from < i
  BY <1>1 DEF IInv, TypeOK
<1> QED
  BY <1>1, <1>2, <1>3 DEF IInv, TypeOK, generateToken, codeVars, Goes, CodesTypeOK, AdminCodes

LEMMA ReplaceKeeps ==
    ASSUME IInv, NEW k \in Calls, ReplaceCodes(k)
    PROVE  IInv'
<1>1. RowsStay /\ AdminCodes' /\ CodesTypeOK'
  BY DeactivatedKeepsRows DEF ReplaceCodes
<1>2. calls \in [Calls -> Call] /\ CallOK(calls[k])
  BY DEF IInv, TypeOK
<1>3. calls' = [calls EXCEPT ![k] = [calls[k] EXCEPT !.pc = "newCode", !.row = 1]]
  BY <1>2 DEF ReplaceCodes
<1>4. CallOK(calls[k])'
  BY <1>1, <1>2, <1>3 DEF CallOK, RowsStay, ReplaceCodes, Call, Opening
<1>5. \A j \in Calls : CallOK(calls[j])'
  BY <1>1, <1>2, <1>3, <1>4, CallStays DEF IInv, NobodyReturns, ReplaceCodes
<1>6. calls' \in [Calls -> Call]
  BY <1>2, <1>3, <1>4 DEF CallOK
<1> QED
  BY <1>1, <1>5, <1>6 DEF IInv, TypeOK, ReplaceCodes

LEMMA NewCodeKeeps ==
    ASSUME IInv, NEW k \in Calls, NewCode(k)
    PROVE  IInv'
<1>1. calls[k] \in Call /\ calls[k].user \in Users /\ calls[k].type \in CodeType /\ CallOK(calls[k])
  BY DEF IInv, NewCode, CallOK, Call
<1>2. RowsStay /\ AdminCodes' /\ CodesTypeOK'
  <2>1. CASE CreateCode(calls[k].user, None, calls[k].type)
    BY <1>1, <2>1, CreatedKeepsRows DEF NewCode
  <2>2. CASE calls[k].row = 0 /\ CreateCode(calls[k].user, calls[k].user, calls[k].type)
    <3>1. calls[k].type = "admin_login" => calls[k].user \notin Members
      BY <1>1, <2>2 DEF CallOK, NewCode
    <3> QED
      BY <1>1, <2>2, <3>1, CreatedKeepsRows DEF NewCode
  <2>3. CASE UNCHANGED codes
    BY <2>3 DEF NewCode, RowsStay, IInv, TypeOK, AdminCodes, CodesTypeOK
  <2> QED
    BY <2>1, <2>2, <2>3 DEF NewCode
<1>3. (\A j \in Calls : CallOK(calls[j]))' /\ calls' \in [Calls -> Call]
  BY <1>2, MoveKeepsCalls DEF NobodyReturns, NewCode
<1> QED
  BY <1>2, <1>3 DEF IInv, TypeOK, NewCode, Goes

LEMMA AcceptKeeps ==
    ASSUME IInv, NEW k \in Calls, AcceptCode(k)
    PROVE  IInv'
<1>1. CallOK(calls[k]) /\ calls[k].row \in DOMAIN codes
  BY DEF IInv, AcceptCode, CallOK
<1>2. RowsStay /\ AdminCodes' /\ CodesTypeOK'
  BY <1>1, AcceptedKeepsRows DEF AcceptCode
<1>3. (\A j \in Calls : CallOK(calls[j]))' /\ calls' \in [Calls -> Call]
  BY <1>2, MoveKeepsCalls DEF NobodyReturns, AcceptCode
<1> QED
  BY <1>2, <1>3 DEF IInv, TypeOK, AcceptCode, Goes

LEMMA ReadUserKeeps ==
    ASSUME IInv, NEW k \in Calls, ReadUser(k)
    PROVE  IInv'
<1>1. PICK pc \in {"save", "idle"} : Goes(k, pc)
  BY DEF ReadUser
<1>2. RowsStay /\ CallOK(calls[k])
  BY DEF ReadUser, RowsStay, codeVars, IInv
<1>3. pc # "idle" => CallOK(calls[k])'
  <2> HAVE pc # "idle"
  <2>1. calls'[k] = [calls[k] EXCEPT !.pc = "save"]
    BY <1>1, MovedCall
  <2> QED
    BY <1>1, <1>2, <2>1 DEF CallOK, ReadUser, Call, Opening, codeVars
<1>4. (\A j \in Calls : CallOK(calls[j]))' /\ calls' \in [Calls -> Call]
  BY <1>1, <1>2, <1>3, MoveKeepsCalls DEF NobodyReturns, ReadUser
<1> QED
  BY <1>1, <1>4 DEF IInv, TypeOK, ReadUser, Goes, codeVars, CodesTypeOK, AdminCodes

\* Whoever comes back is seen by all calls for him.
LEMMA SaveKeeps ==
    ASSUME IInv, NEW k \in Calls, SavePassword(k)
    PROVE  IInv'
<1> DEFINE u == calls[k].user
           back == account[u] = "removed"
<1>1. CallOK(calls[k]) /\ u \in Users /\ calls \in [Calls -> Call]
  BY DEF IInv, TypeOK, SavePassword, CallOK
<1>2. account' \in [Users -> {"live", "deleted", "removed"}]
      /\ \A v \in Users : account'[v] = "live" => account[v] = "live" \/ (v = u /\ back)
  BY <1>1 DEF IInv, TypeOK, SavePassword
<1>3. ASSUME NEW j \in Calls
      PROVE  CallOK(calls[j])'
  <2>1. CASE j = k
    BY <1>1, <2>1, IdleIsOK DEF SavePassword
  <2>2. CASE j # k
    <3> DEFINE seen == calls[j].seenLive \/ (back /\ calls[j].user = u)
    <3>1. calls'[j] = [calls[j] EXCEPT !.seenLive = seen]
      BY <2>2 DEF SavePassword
    <3>2. CallOK(calls[j]) /\ calls[j] \in Call
      BY <1>1 DEF IInv
    <3>3. calls[j].pc = "idle" => calls[j] = Idle /\ seen = FALSE
      BY <1>1, <3>2 DEF CallOK, Idle
    <3>4. seen \in BOOLEAN /\ (calls[j].seenLive => seen)
          /\ (account'[calls[j].user] = "live" /\ calls[j].user \in Users =>
                 account[calls[j].user] = "live" \/ seen)
      BY <1>2, <3>2 DEF Call
    <3> HIDE DEF seen, back, u
    <3>5. /\ calls'[j] \in Call /\ calls'[j].seenLive = seen
          /\ calls'[j].pc = calls[j].pc /\ calls'[j].op = calls[j].op
          /\ calls'[j].user = calls[j].user /\ calls'[j].type = calls[j].type
          /\ calls'[j].row = calls[j].row /\ calls'[j].deleted = calls[j].deleted
      BY <3>1, <3>2, <3>4 DEF Call
    <3>6. calls[j].pc = "idle" => calls'[j] = Idle
      <4>1. [Idle EXCEPT !.seenLive = FALSE] = Idle
        <5>1. Idle.seenLive = FALSE /\ Idle = [f \in DOMAIN Idle |-> Idle[f]]
          BY DEF Idle
        <5> QED
          BY <5>1
      <4>2. calls[j].pc = "idle" => calls'[j] = [Idle EXCEPT !.seenLive = FALSE]
        BY <3>1, <3>3
      <4> QED
        BY <4>1, <4>2
    <3> QED
      BY <3>2, <3>4, <3>5, <3>6 DEF CallOK, SavePassword, codeVars
  <2> QED
    BY <2>1, <2>2
<1>4. calls' \in [Calls -> Call]
  <2>1. \A j \in Calls : calls'[j] \in Call
    BY <1>3 DEF CallOK
  <2> QED
    BY <2>1 DEF SavePassword
<1> QED
  BY <1>2, <1>3, <1>4 DEF IInv, TypeOK, SavePassword, codeVars, CodesTypeOK, AdminCodes

LEMMA CallStepKeeps ==
    ASSUME IInv, NEW k \in Calls, CallStep(k)
    PROVE  IInv'
BY EndOldKeeps, TakeCodeKeeps, SpendKeeps, GenerateKeeps, ReplaceKeeps, NewCodeKeeps,
   AcceptKeeps, ReadUserKeeps, SaveKeeps DEF CallStep

LEMMA OutsideKeeps ==
    ASSUME IInv,
           \/ \E i \in 1..MaxSessions : logout(i)
           \/ \E u \in Users : deleteAccount(u) \/ RemoveAccount(u)
           \/ AuthCrash
           \/ CodeAges /\ UNCHANGED <<account, sessions, calls, called, shared>>
           \/ UNCHANGED vars
    PROVE  IInv'
<1>1. CASE \E i \in 1..MaxSessions : logout(i)
  <2>1. RowsStay /\ sessions' \in Seq(Session) /\ Len(sessions') = Len(sessions)
        /\ DOMAIN sessions' = DOMAIN sessions
        /\ \A i \in DOMAIN sessions : sessions'[i].from = sessions[i].from
    BY <1>1, EndedKeepsRows DEF logout, codeVars
  <2>2. \A j \in Calls : CallOK(calls[j])'
    BY <1>1, <2>1, CallStays DEF logout, NobodyReturns, IInv
  <2> QED
    BY <1>1, <2>1, <2>2 DEF IInv, TypeOK, logout, codeVars, CodesTypeOK, AdminCodes
<1>2. CASE \E u \in Users : deleteAccount(u)
  <2>1. RowsStay /\ NobodyReturns
    BY <1>2 DEF deleteAccount, RowsStay, NobodyReturns, codeVars, IInv, TypeOK
  <2>2. \A j \in Calls : CallOK(calls[j])'
    BY <1>2, <2>1, CallStays DEF deleteAccount, IInv
  <2> QED
    BY <1>2, <2>2 DEF IInv, TypeOK, deleteAccount, codeVars, CodesTypeOK, AdminCodes
<1>3. CASE \E u \in Users : RemoveAccount(u)
  <2>1. RowsStay /\ AdminCodes' /\ CodesTypeOK'
    BY <1>3, CascadeKeepsRows DEF RemoveAccount
  <2>2. NobodyReturns
    BY <1>3 DEF RemoveAccount, NobodyReturns, IInv, TypeOK
  <2>3. \A j \in Calls : CallOK(calls[j])'
    BY <1>3, <2>1, <2>2, CallStays DEF RemoveAccount, IInv
  <2> QED
    BY <1>3, <2>1, <2>3 DEF IInv, TypeOK, RemoveAccount
<1>4. CASE AuthCrash
  <2>1. \A j \in Calls : CallOK(calls[j])'
    BY <1>4, IdleIsOK DEF AuthCrash
  <2>2. calls' \in [Calls -> Call]
    BY <1>4 DEF AuthCrash, Idle, Call, CodeType
  <2> QED
    BY <1>4, <2>1, <2>2 DEF IInv, TypeOK, AuthCrash, codeVars, CodesTypeOK, AdminCodes
<1>5. CASE CodeAges /\ UNCHANGED <<account, sessions, calls, called, shared>>
  <2>1. RowsStay /\ NobodyReturns
    BY <1>5 DEF CodeAges, RowsStay, NobodyReturns
  <2>2. \A j \in Calls : CallOK(calls[j])'
    BY <1>5, <2>1, CallStays DEF IInv
  <2> QED
    BY <1>5, <2>2 DEF IInv, TypeOK, CodeAges, CodesTypeOK, AdminCodes
<1>6. CASE UNCHANGED vars
  BY <1>6 DEF vars, codeVars, IInv, TypeOK, CallOK, CodesTypeOK, AdminCodes
<1> QED
  BY <1>1, <1>2, <1>3, <1>4, <1>5, <1>6

\* The actions by what they do to the calls.
LEMMA NextByKind ==
    ASSUME IInv, [Next]_vars
    PROVE  \/ \E k \in Calls : \E c : Begins(k, c)
           \/ \E k \in Calls : CallStep(k)
           \/ \E i \in 1..MaxSessions : logout(i)
           \/ \E u \in Users : deleteAccount(u) \/ RemoveAccount(u)
           \/ AuthCrash
           \/ CodeAges /\ UNCHANGED <<account, sessions, calls, called, shared>>
           \/ UNCHANGED vars
<1>1. ASSUME NEW k \in Calls, NEW u \in Users, BeginByUser(k, u)
      PROVE  \E c : Begins(k, c)
  BY <1>1, UserCallBegins
<1>2. ASSUME NEW k \in Calls, NEW i, verifyOtp(k, i) \/ verifyOtpForgotPassword(k, i)
      PROVE  \E c : Begins(k, c)
  BY <1>2, CodeCallBegins
<1>3. ASSUME NEW k \in Calls, NEW i, refreshToken(k, i)
      PROVE  \E c : Begins(k, c)
  BY <1>3, RefreshBegins
<1> QED
  BY <1>1, <1>2, <1>3 DEF Next, BeginByUser

LEMMA NextIInv == IInv /\ [Next]_vars => IInv'
<1> SUFFICES ASSUME IInv, [Next]_vars PROVE IInv'
  OBVIOUS
<1> QED
  BY NextByKind, BeginKeeps, CallStepKeeps, OutsideKeeps

\* Rows and calls keep their types.
THEOREM SessionTypesHold == Spec => []TypeOK
<1>1. IInv => TypeOK
  BY DEF IInv
<1> QED
  BY <1>1, InitIInv, NextIInv, PTL DEF Spec


\* No session opens for an account that was gone before the call began.
THEOREM NobodyGoneLogsIn == Spec => NoSessionAfterDeletion
<1> DEFINE Known == Len(sessions') > Len(sessions) =>
                      \E k \in Calls : calls[k].pc = "token" /\ calls'[k] = Idle /\ calls[k].seenLive
<1>1. ASSUME IInv, [Next]_vars
      PROVE  [Known]_vars
  <2>1. sessions \in Seq(Session) /\ calls \in [Calls -> Call] /\ \A k \in Calls : CallOK(calls[k])
    BY <1>1 DEF IInv, TypeOK
  <2>2. ASSUME NEW k \in Calls, generateToken(k)
        PROVE  Known
    BY <2>1, <2>2 DEF generateToken, Goes, CallOK
  <2>3. ASSUME NEW k \in Calls, EndOldSessions(k) \/ SpendToken(k)
        PROVE  Len(sessions') = Len(sessions)
    BY <1>1, <2>3, EndedKeepsRows DEF EndOldSessions, SpendToken, Spent, codeVars
  <2>4. ASSUME NEW i \in 1..MaxSessions, logout(i)
        PROVE  Len(sessions') = Len(sessions)
    BY <1>1, <2>4, EndedKeepsRows DEF logout, codeVars
  <2>5. ASSUME NEW k \in Calls, CallStep(k)
        PROVE  Known
    <3>1. generateToken(k) \/ Len(sessions') = Len(sessions)
      BY <2>3, <2>5 DEF CallStep, TakeCode, ReplaceCodes, NewCode, AcceptCode, ReadUser, SavePassword
    <3> QED
      BY <2>1, <2>2, <3>1
  <2>6. Len(sessions') # Len(sessions) => \E k \in Calls : CallStep(k)
    BY <1>1, <2>4, NextByKind
       DEF Begins, deleteAccount, RemoveAccount, AuthCrash, vars
  <2> QED
    BY <2>1, <2>5, <2>6
<1>2. IInv /\ [Next]_vars => [Known]_vars
  BY <1>1
<1> QED
  BY <1>2, InitIInv, NextIInv, PTL DEF Spec, NoSessionAfterDeletion

----------------------------------------------------------------------------
(* Steps that open, spend and accept nothing. *)

CodesQuiet ==
    /\ DOMAIN codes \subseteq DOMAIN codes'
    /\ \A i \in DOMAIN codes : /\ codes'[i].uses = codes[i].uses
                               /\ codes'[i].isActive => codes[i].isActive
    /\ \A i \in DOMAIN codes' : i \notin DOMAIN codes => codes'[i].uses = 0

SessionsQuiet ==
    /\ DOMAIN sessions' = DOMAIN sessions
    /\ \A i \in DOMAIN sessions :
         /\ sessions'[i].userId = sessions[i].userId
         /\ sessions'[i].from = sessions[i].from /\ sessions'[i].by = sessions[i].by
         /\ sessions'[i].live => sessions[i].live

SameCall(k) ==
    /\ calls'[k].pc = calls[k].pc /\ calls'[k].op = calls[k].op
    /\ calls'[k].user = calls[k].user /\ calls'[k].row = calls[k].row

\* The call ends, stays, or has nothing to do with sessions and codes in use.
CallQuiet(k) ==
    \/ calls'[k] = Idle
    \/ SameCall(k)
    \/ calls'[k].op \notin Opening /\ calls'[k].pc \notin {"spend", "token", "takeCode", "accept"}

Quiet == CodesQuiet /\ SessionsQuiet /\ shared' = shared /\ \A k \in Calls : CallQuiet(k)

LEMMA EndedIsQuiet ==
    ASSUME IInv, NEW rows, sessions' = Ended(rows), UNCHANGED codes
    PROVE  SessionsQuiet /\ \A i \in DOMAIN sessions : i \in rows => ~sessions'[i].live
BY EndedKeepsRows DEF SessionsQuiet, RowsStay

LEMMA OthersAreQuiet ==
    ASSUME IInv, NEW k \in Calls, NEW pc, Goes(k, pc)
    PROVE  \A j \in Calls \ {k} : CallQuiet(j)
BY DEF Goes, CallQuiet, SameCall, IInv, TypeOK

\* A call with a code or a password opens no session.
LEMMA MoveIsQuiet ==
    ASSUME IInv, NEW k \in Calls, NEW pc, Goes(k, pc), calls[k].op \notin Opening,
           pc \notin {"spend", "token", "takeCode", "accept"}
    PROVE  \A j \in Calls : CallQuiet(j)
<1>1. CallQuiet(k)
  <2>1. CASE pc = "idle"
    BY <2>1 DEF Goes, CallQuiet, IInv, TypeOK
  <2>2. CASE pc # "idle"
    <3>1. calls'[k] = [calls[k] EXCEPT !.pc = pc] /\ calls[k] \in Call
      BY <2>2, MovedCall DEF IInv, TypeOK
    <3> QED
      BY <3>1 DEF CallQuiet, Call
  <2> QED
    BY <2>1, <2>2
<1> QED
  BY <1>1, OthersAreQuiet

LEMMA QuietSteps ==
    ASSUME IInv,
           \/ \E k \in Calls : ReplaceCodes(k) \/ NewCode(k) \/ ReadUser(k) \/ SavePassword(k)
           \/ \E i \in 1..MaxSessions : logout(i)
           \/ \E u \in Users : deleteAccount(u) \/ RemoveAccount(u)
           \/ AuthCrash
           \/ CodeAges /\ UNCHANGED <<account, sessions, calls, called, shared>>
           \/ UNCHANGED vars
    PROVE  Quiet
<1>1. /\ \A k \in Calls : calls[k] \in Call /\ CallOK(calls[k])
      /\ calls \in [Calls -> Call] /\ codes \in Seq(UserOtp)
  BY DEF IInv, TypeOK, CodesTypeOK
<1>2. UNCHANGED codes => CodesQuiet
  BY DEF CodesQuiet
<1>3. UNCHANGED sessions => SessionsQuiet
  BY DEF SessionsQuiet
<1>4. UNCHANGED calls => \A k \in Calls : CallQuiet(k)
  BY DEF CallQuiet, SameCall
<1>5. CASE \E k \in Calls : ReplaceCodes(k)
  <2>1. PICK k \in Calls : ReplaceCodes(k)
    BY <1>5
  <2>2. CodesQuiet
    <3>1. /\ Len(codes') = Len(codes) /\ CodesTypeOK'
          /\ \A j \in DOMAIN codes : /\ codes'[j].uses = codes[j].uses
                                     /\ codes'[j].isActive => codes[j].isActive
      BY <2>1, DeactivatedKeepsRows DEF ReplaceCodes
    <3> QED
      BY <1>1, <3>1 DEF CodesQuiet, CodesTypeOK
  <2>3. calls' = [calls EXCEPT ![k] = [calls[k] EXCEPT !.pc = "newCode", !.row = 1]]
    BY <1>1, <2>1 DEF ReplaceCodes
  <2>4. \A j \in Calls : CallQuiet(j)
    BY <1>1, <2>1, <2>3 DEF ReplaceCodes, CallQuiet, SameCall, CallOK, Call
  <2> QED
    BY <1>3, <2>1, <2>2, <2>4 DEF Quiet, ReplaceCodes
<1>6. CASE \E k \in Calls : NewCode(k)
  <2>1. PICK k \in Calls : NewCode(k)
    BY <1>6
  <2>2. calls[k].user \in Users /\ calls[k].type \in CodeType /\ calls[k].op \notin Opening
        /\ (calls[k].row = 0 /\ calls[k].type = "admin_login" => calls[k].user \notin Members)
    BY <1>1, <2>1 DEF NewCode, CallOK, Call
  <2>3. CodesQuiet
    <3>1. CASE UNCHANGED codes
      BY <1>2, <3>1
    <3>2. CASE codes' # codes
      <4>1. /\ Len(codes') = Len(codes) + 1 /\ CodesTypeOK'
            /\ \A j \in DOMAIN codes : codes'[j] = codes[j]
            /\ codes'[Len(codes) + 1].uses = 0
        BY <2>1, <2>2, <3>2, CreatedKeepsRows DEF NewCode
      <4> QED
        BY <1>1, <4>1 DEF CodesQuiet, CodesTypeOK
    <3> QED
      BY <3>1, <3>2
  <2>4. \A j \in Calls : CallQuiet(j)
    BY <2>1, <2>2, MoveIsQuiet DEF NewCode
  <2> QED
    BY <1>3, <2>1, <2>3, <2>4 DEF Quiet, NewCode, Goes
<1>7. CASE \E k \in Calls : ReadUser(k)
  <2>1. PICK k \in Calls : ReadUser(k)
    BY <1>7
  <2>2. calls[k].op \notin Opening
    BY <1>1, <2>1 DEF ReadUser, CallOK
  <2>3. \A j \in Calls : CallQuiet(j)
    BY <2>1, <2>2, MoveIsQuiet DEF ReadUser
  <2> QED
    BY <1>2, <1>3, <2>1, <2>3 DEF Quiet, ReadUser, codeVars, Goes
<1>8. CASE \E k \in Calls : SavePassword(k)
  <2>1. PICK k \in Calls : SavePassword(k)
    BY <1>8
  <2>2. ASSUME NEW j \in Calls
        PROVE  CallQuiet(j)
    <3>1. calls'[j] = Idle \/ \E seen : calls'[j] = [calls[j] EXCEPT !.seenLive = seen]
      BY <2>1 DEF SavePassword
    <3> QED
      BY <1>1, <3>1 DEF CallQuiet, SameCall, Call
  <2> QED
    BY <1>2, <1>3, <2>1, <2>2 DEF Quiet, SavePassword, codeVars
<1>9. CASE \E i \in 1..MaxSessions : logout(i)
  <2>1. SessionsQuiet
    BY <1>9, EndedIsQuiet DEF logout, codeVars
  <2> QED
    BY <1>2, <1>4, <1>9, <2>1 DEF Quiet, logout, codeVars
<1>10. CASE \E u \in Users : deleteAccount(u)
  BY <1>2, <1>3, <1>4, <1>10 DEF Quiet, deleteAccount, codeVars
<1>11. CASE \E u \in Users : RemoveAccount(u)
  <2>1. /\ Len(codes') = Len(codes) /\ CodesTypeOK'
        /\ \A j \in DOMAIN codes : /\ codes'[j].uses = codes[j].uses
                                   /\ codes'[j].isActive => codes[j].isActive
    BY <1>11, CascadeKeepsRows DEF RemoveAccount
  <2>2. CodesQuiet
    BY <1>1, <2>1 DEF CodesQuiet, CodesTypeOK
  <2> QED
    BY <1>3, <1>4, <1>11, <2>2 DEF Quiet, RemoveAccount
<1>12. CASE AuthCrash
  BY <1>2, <1>3, <1>12 DEF Quiet, AuthCrash, codeVars, CallQuiet
<1>13. CASE CodeAges /\ UNCHANGED <<account, sessions, calls, called, shared>>
  BY <1>2, <1>3, <1>4, <1>13 DEF Quiet, CodeAges
<1>14. CASE UNCHANGED vars
  BY <1>2, <1>3, <1>4, <1>14 DEF Quiet, vars, codeVars
<1> QED
  BY <1>5, <1>6, <1>7, <1>8, <1>9, <1>10, <1>11, <1>12, <1>13, <1>14

LEMMA NextInBrief ==
    ASSUME IInv, [Next]_vars
    PROVE  \/ \E k \in Calls : \E c : Begins(k, c)
           \/ \E k \in Calls : \/ EndOldSessions(k) \/ TakeCode(k) \/ SpendToken(k)
                               \/ generateToken(k) \/ AcceptCode(k)
           \/ Quiet
BY NextByKind, QuietSteps DEF CallStep

----------------------------------------------------------------------------
(* Codes. *)

Taking(c) == c.pc \in {"takeCode", "accept"}

\* A code that was accepted is not active, and nobody else is about to accept
\* it, unless two calls held it at once.
CodeInv ==
    /\ \A i \in DOMAIN codes : codes[i].uses # 0 => ~codes[i].isActive
    /\ \A j, k \in Calls : j # k /\ Taking(calls[j]) /\ Taking(calls[k]) /\ calls[j].row = calls[k].row
                            => <<"code", calls[k].row>> \in shared
    /\ \A k \in Calls : Taking(calls[k]) /\ codes[calls[k].row].uses # 0
                         => <<"code", calls[k].row>> \in shared
    /\ \A i \in DOMAIN codes : codes[i].uses > 1 => <<"code", i>> \in shared

TakingStays(k) == Taking(calls'[k]) => Taking(calls[k]) /\ calls'[k].row = calls[k].row

LEMMA CodesStay ==
    ASSUME IInv, CodeInv, CodesQuiet, shared' = shared, \A k \in Calls : TakingStays(k)
    PROVE  CodeInv'
<1>1. \A k \in Calls : Taking(calls[k]) => calls[k].row \in DOMAIN codes
  BY DEF IInv, CallOK, Taking
<1> QED
  BY <1>1 DEF CodeInv, CodesQuiet, TakingStays

LEMMA CodeBegins ==
    ASSUME IInv, CodeInv, NEW k \in Calls, NEW c, Begins(k, c)
    PROVE  CodeInv'
<1>1. \A j \in Calls : calls'[j] = IF j = k THEN c ELSE calls[j]
  BY DEF Begins, IInv, TypeOK
<1>2. shared \subseteq shared' /\ UNCHANGED codes
  BY DEF Begins, codeVars
<1>3. Taking(c) => codes[c.row].isActive /\ c.row \in DOMAIN codes
  BY DEF Begins, MayBegin, CallOK, Taking
<1>4. ASSUME NEW j \in Calls, j # k, Taking(calls[j]), Taking(c), calls[j].row = c.row
      PROVE  <<"code", c.row>> \in shared'
  <2>1. <<"code", c.row>> \in Holds(calls[j]) /\ <<"code", c.row>> \in Holds(c)
    BY <1>4 DEF Holds, Taking
  <2> QED
    BY <2>1 DEF Begins
<1> QED
  BY <1>1, <1>2, <1>3, <1>4 DEF CodeInv

\* A call accepts its code.
LEMMA CodeAccepts ==
    ASSUME IInv, CodeInv, NEW k \in Calls, Taking(calls[k]), codes' = Accepted(calls[k].row),
           UNCHANGED <<sessions, old, shared>>,
           ~Taking(calls'[k]), \A j \in Calls \ {k} : calls'[j] = calls[j]
    PROVE  CodeInv'
<1> DEFINE i == calls[k].row
<1>1. i \in DOMAIN codes /\ \A j \in Calls : Taking(calls[j]) => calls[j].row \in DOMAIN codes
  BY DEF IInv, CallOK, Taking
<1>2. /\ CodesTypeOK' /\ Len(codes') = Len(codes)
      /\ \A j \in DOMAIN codes \ {i} : codes'[j] = codes[j]
      /\ ~codes'[i].isActive
      /\ codes[i].uses = 0 => codes'[i].uses = 1
  BY <1>1, AcceptedKeepsRows
<1>3. DOMAIN codes' = DOMAIN codes
  BY <1>2 DEF IInv, TypeOK, CodesTypeOK
<1> HIDE DEF i
<1>4. \A j \in Calls : Taking(calls'[j]) => j # k /\ calls'[j] = calls[j]
  OBVIOUS
<1>5. \A j \in Calls : Taking(calls'[j]) /\ calls'[j].row = i => <<"code", i>> \in shared
  BY <1>4 DEF CodeInv, i
<1>6. codes'[i].uses > 1 => <<"code", i>> \in shared
  BY <1>2 DEF CodeInv, i
<1> QED
  BY <1>1, <1>2, <1>3, <1>4, <1>5, <1>6 DEF CodeInv

LEMMA NextCodeInv ==
    ASSUME IInv, CodeInv, [Next]_vars
    PROVE  CodeInv'
<1>1. calls \in [Calls -> Call]
  BY DEF IInv, TypeOK
<1>2. ASSUME NEW k \in Calls, NEW pc \in {"token", "idle"}, Goes(k, pc)
      PROVE  ~Taking(calls'[k]) /\ \A j \in Calls \ {k} : calls'[j] = calls[j]
  BY <1>1, <1>2 DEF Goes, Taking, Idle, Call
<1>3. CASE \E k \in Calls : \E c : Begins(k, c)
  BY <1>3, CodeBegins
<1>4. ASSUME NEW k \in Calls, TakeCode(k) \/ AcceptCode(k)
      PROVE  CodeInv'
  <2>1. Taking(calls[k]) /\ codes' = Accepted(calls[k].row) /\ UNCHANGED <<sessions, old, shared>>
    BY <1>4 DEF TakeCode, AcceptCode, Taking, Goes
  <2>2. ~Taking(calls'[k]) /\ \A j \in Calls \ {k} : calls'[j] = calls[j]
    BY <1>2, <1>4 DEF TakeCode, AcceptCode
  <2> QED
    BY <2>1, <2>2, CodeAccepts
<1>5. ASSUME NEW k \in Calls, EndOldSessions(k) \/ SpendToken(k) \/ generateToken(k)
      PROVE  CodeInv'
  <2>1. ~Taking(calls'[k]) /\ \A j \in Calls \ {k} : calls'[j] = calls[j]
    BY <1>2, <1>5 DEF EndOldSessions, SpendToken, generateToken
  <2>2. \A j \in Calls : TakingStays(j)
    BY <2>1 DEF TakingStays
  <2>3. CodesQuiet /\ shared' = shared
    BY <1>5 DEF EndOldSessions, SpendToken, generateToken, codeVars, CodesQuiet, Goes
  <2> QED
    BY <2>2, <2>3, CodesStay
<1>6. CASE Quiet
  <2>1. \A k \in Calls : TakingStays(k)
    BY <1>6 DEF Quiet, CallQuiet, SameCall, TakingStays, Taking, Idle
  <2> QED
    BY <1>6, <2>1, CodesStay DEF Quiet
<1> QED
  BY <1>3, <1>4, <1>5, <1>6, NextInBrief

\* A mailed code is accepted once, unless two verifications of it overlapped.
THEOREM CodeIsAlwaysAcceptedOnce == Spec => []CodeAcceptedOnce
<1>1. Init => CodeInv
  BY DEF Init, CodesInit, CodeInv, Taking, Idle
<1>2. IInv /\ CodeInv /\ [Next]_vars => CodeInv'
  BY NextCodeInv
<1>3. CodeInv => CodeAcceptedOnce
  BY DEF CodeInv, CodeAcceptedOnce, UsedOnce
<1> QED
  BY <1>1, <1>2, <1>3, InitIInv, NextIInv, PTL DEF Spec

----------------------------------------------------------------------------
(* Refresh tokens. *)

Refreshing(c) == c.op = "refresh"

\* A session whose token opened another has ended, and nobody else is about to
\* use the token, unless two calls held it at once.
TokenInv ==
    /\ \A i, j \in DOMAIN sessions : sessions[j].from = i => ~sessions[i].live
    /\ \A j, k \in Calls : j # k /\ Refreshing(calls[j]) /\ Refreshing(calls[k])
                            /\ calls[j].row = calls[k].row
                            => <<"session", calls[k].row>> \in shared
    /\ \A k \in Calls : Refreshing(calls[k]) /\ calls[k].pc = "token"
                         => ~sessions[calls[k].row].live
    /\ \A k \in Calls, j \in DOMAIN sessions :
          Refreshing(calls[k]) /\ sessions[j].from = calls[k].row
          => <<"session", calls[k].row>> \in shared
    /\ \A i, j \in DOMAIN sessions : i # j /\ sessions[i].from = sessions[j].from /\ sessions[i].from # 0
                                     => <<"session", sessions[i].from>> \in shared

\* Whoever refreshes after a step did before, and did not just come to the
\* token of a live session.
RefreshStays(k) ==
    Refreshing(calls'[k]) =>
        /\ Refreshing(calls[k]) /\ calls'[k].row = calls[k].row
        /\ calls'[k].pc = "token" => calls[k].pc = "token" \/ ~sessions'[calls[k].row].live

LEMMA TokensStay ==
    ASSUME IInv, TokenInv, SessionsQuiet, shared' = shared, \A k \in Calls : RefreshStays(k)
    PROVE  TokenInv'
<1>1. \A k \in Calls : Refreshing(calls[k]) => calls[k].row \in DOMAIN sessions
  BY DEF IInv, CallOK, Refreshing
<1> QED
  BY <1>1 DEF TokenInv, SessionsQuiet, RefreshStays

LEMMA TokenBegins ==
    ASSUME IInv, TokenInv, NEW k \in Calls, NEW c, Begins(k, c)
    PROVE  TokenInv'
<1>1. \A j \in Calls : calls'[j] = IF j = k THEN c ELSE calls[j]
  BY DEF Begins, IInv, TypeOK
<1>2. shared \subseteq shared' /\ UNCHANGED sessions
  BY DEF Begins
<1>3. Refreshing(c) => c.pc = "spend" /\ sessions[c.row].live /\ c.row \in DOMAIN sessions
  BY DEF Begins, MayBegin, CallOK, Refreshing
<1>4. ASSUME NEW j \in Calls, j # k, Refreshing(calls[j]), Refreshing(c), calls[j].row = c.row
      PROVE  <<"session", c.row>> \in shared'
  <2>1. <<"session", c.row>> \in Holds(calls[j]) /\ <<"session", c.row>> \in Holds(c)
    BY <1>4 DEF Holds, Refreshing
  <2> QED
    BY <2>1 DEF Begins
<1> QED
  BY <1>1, <1>2, <1>3, <1>4 DEF TokenInv

LEMMA TokenOpens ==
    ASSUME IInv, TokenInv, NEW k \in Calls, generateToken(k)
    PROVE  TokenInv'
<1> DEFINE n == Len(sessions) + 1
           new == NewSession(calls[k])
<1>1. /\ sessions \in Seq(Session) /\ calls \in [Calls -> Call] /\ CallOK(calls[k])
      /\ \A j \in Calls : Refreshing(calls[j]) => calls[j].row \in DOMAIN sessions
  BY DEF IInv, TypeOK, CallOK, Refreshing
<1>2. /\ sessions' \in Seq(Session) /\ Len(sessions') = n
      /\ \A i \in DOMAIN sessions : sessions'[i] = sessions[i]
      /\ sessions'[n] = new
  BY OpenedKeepsRows DEF generateToken, codeVars
<1>3. /\ DOMAIN sessions = 1..Len(sessions) /\ DOMAIN sessions' = 1..n
      /\ DOMAIN sessions' = DOMAIN sessions \cup {n} /\ n \notin DOMAIN sessions
  BY <1>1, <1>2
<1>4. \A i \in DOMAIN sessions : sessions[i].from < i /\ sessions[i].from \in Nat
  <2> SUFFICES ASSUME NEW i \in DOMAIN sessions PROVE sessions[i].from < i /\ sessions[i].from \in Nat
    OBVIOUS
  <2>1. sessions[i] \in Session
    BY <1>1
  <2> QED
    BY <2>1 DEF IInv, TypeOK, Session
<1>5. \/ new.from = 0
      \/ Refreshing(calls[k]) /\ new.from = calls[k].row /\ new.from \in DOMAIN sessions
         /\ ~sessions[new.from].live
  BY <1>1 DEF NewSession, Refreshing, TokenInv, generateToken
<1>6. \A j \in Calls : Refreshing(calls'[j]) => j # k /\ calls'[j] = calls[j]
  BY <1>1 DEF generateToken, Goes, Idle, Refreshing
<1>7. shared' = shared
  BY DEF generateToken, Goes
<1> HIDE DEF n, new
<1>8. (\A i, j \in DOMAIN sessions : sessions[j].from = i => ~sessions[i].live)'
  BY <1>2, <1>3, <1>4, <1>5 DEF TokenInv, n
<1>9. \A j \in Calls : Refreshing(calls'[j]) /\ calls'[j].row = new.from
                       => <<"session", new.from>> \in shared
  BY <1>1, <1>3, <1>5, <1>6 DEF TokenInv
<1>10. \A j \in DOMAIN sessions : sessions[j].from = new.from /\ new.from # 0
                                  => <<"session", new.from>> \in shared
  BY <1>5 DEF TokenInv
<1>11. (\A i, j \in DOMAIN sessions : i # j /\ sessions[i].from = sessions[j].from /\ sessions[i].from # 0
                                      => <<"session", sessions[i].from>> \in shared)'
  BY <1>2, <1>3, <1>7, <1>10 DEF TokenInv
<1>12. (\A j \in Calls, i \in DOMAIN sessions :
          Refreshing(calls[j]) /\ sessions[i].from = calls[j].row
          => <<"session", calls[j].row>> \in shared)'
  BY <1>2, <1>3, <1>6, <1>7, <1>9 DEF TokenInv
<1> QED
  BY <1>1, <1>2, <1>6, <1>7, <1>8, <1>11, <1>12 DEF TokenInv

LEMMA NextTokenInv ==
    ASSUME IInv, TokenInv, [Next]_vars
    PROVE  TokenInv'
<1>1. calls \in [Calls -> Call] /\ \A k \in Calls : CallOK(calls[k])
  BY DEF IInv, TypeOK
<1>2. UNCHANGED sessions => SessionsQuiet
  BY DEF SessionsQuiet
<1>3. CASE \E k \in Calls : \E c : Begins(k, c)
  BY <1>3, TokenBegins
<1>4. ASSUME NEW k \in Calls, EndOldSessions(k) \/ TakeCode(k) \/ AcceptCode(k)
      PROVE  TokenInv'
  <2>1. SessionsQuiet /\ shared' = shared
    BY <1>2, <1>4, EndedIsQuiet DEF EndOldSessions, TakeCode, AcceptCode, codeVars, Goes
  <2>2. ~Refreshing(calls'[k])
    <3>1. calls[k].op # "refresh" /\ calls[k] \in Call
      BY <1>1, <1>4 DEF EndOldSessions, TakeCode, AcceptCode, CallOK
    <3>2. \E pc : Goes(k, pc)
      BY <1>4 DEF EndOldSessions, TakeCode, AcceptCode
    <3> QED
      BY <1>1, <3>1, <3>2 DEF Goes, Refreshing, Idle, Call
  <2>3. \A j \in Calls \ {k} : calls'[j] = calls[j]
    BY <1>1, <1>4 DEF EndOldSessions, TakeCode, AcceptCode, Goes
  <2>4. \A j \in Calls : RefreshStays(j)
    BY <2>2, <2>3 DEF RefreshStays
  <2> QED
    BY <2>1, <2>4, TokensStay
<1>5. ASSUME NEW k \in Calls, SpendToken(k)
      PROVE  TokenInv'
  <2>1. SessionsQuiet /\ shared' = shared
    BY <1>5, EndedIsQuiet DEF SpendToken, Spent, codeVars, Goes
  <2>2. ~sessions'[calls[k].row].live
    <3>1. calls[k].row \in DOMAIN sessions
      BY <1>1, <1>5 DEF SpendToken, CallOK
    <3> QED
      BY <1>5, <3>1, EndedIsQuiet DEF SpendToken, Spent, codeVars
  <2>3. RefreshStays(k)
    <3>1. PICK pc \in {"token", "idle"} : Goes(k, pc)
      BY <1>5 DEF SpendToken
    <3>2. calls'[k] = Idle \/ calls'[k] = [calls[k] EXCEPT !.pc = "token"]
      BY <1>1, <3>1 DEF Goes
    <3>3. calls[k] \in Call
      BY <1>1
    <3> QED
      BY <2>2, <3>2, <3>3 DEF RefreshStays, Refreshing, Idle, Call
  <2>4. \A j \in Calls \ {k} : calls'[j] = calls[j]
    BY <1>1, <1>5 DEF SpendToken, Goes
  <2>5. \A j \in Calls : RefreshStays(j)
    BY <2>3, <2>4 DEF RefreshStays
  <2> QED
    BY <2>1, <2>5, TokensStay
<1>6. CASE Quiet
  <2>1. \A k \in Calls : RefreshStays(k)
    BY <1>6 DEF Quiet, CallQuiet, SameCall, RefreshStays, Refreshing, Idle, Opening
  <2> QED
    BY <1>6, <2>1, TokensStay DEF Quiet
<1> QED
  BY <1>3, <1>4, <1>5, <1>6, TokenOpens, NextInBrief

\* No two elements, at most one.
LEMMA AtMostOne ==
    ASSUME NEW S, \A x, y \in S : x = y
    PROVE  Cardinality(S) <= 1
<1>1. CASE S = {}
  BY <1>1, FS_EmptySet
<1>2. CASE S # {}
  <2>1. PICK x \in S : TRUE
    BY <1>2
  <2>2. S = {x}
    OBVIOUS
  <2> QED
    BY <2>2, FS_Singleton
<1> QED
  BY <1>1, <1>2

\* A refresh token opens one session at most, unless two calls used it at once.
THEOREM TokenIsAlwaysSpentOnce == Spec => []TokenSpentOnce
<1>1. Init => TokenInv
  BY DEF Init, TokenInv, Refreshing, Idle
<1>2. IInv /\ TokenInv /\ [Next]_vars => TokenInv'
  BY NextTokenInv
<1>3. IInv /\ TokenInv => TokenSpentOnce
  <2> SUFFICES ASSUME IInv, TokenInv, NEW i \in DOMAIN sessions, <<"session", i>> \notin shared
               PROVE  Cardinality({j \in DOMAIN sessions : sessions[j].from = i}) <= 1
    BY DEF TokenSpentOnce
  <2>1. i # 0
    BY DEF IInv, TypeOK
  <2>2. \A x, y \in {j \in DOMAIN sessions : sessions[j].from = i} : x = y
    BY <2>1 DEF TokenInv
  <2> HIDE DEF TokenInv
  <2> QED
    BY <2>2, AtMostOne
<1> QED
  BY <1>1, <1>2, <1>3, InitIInv, NextIInv, PTL DEF Spec

----------------------------------------------------------------------------
(* Sessions of members. *)

Live(u) == {i \in DOMAIN sessions : sessions[i].userId = u /\ sessions[i].live}

\* What OneSessionPerMember excuses.
Excused(u) ==
    \/ <<"user", u>> \in shared
    \/ \E i \in DOMAIN sessions : sessions[i].userId = u /\ sessions[i].by = "social"

Opens(c, u) == c.op \in Opening /\ c.user = u

\* A member has one session at most and one call that opens another; one that
\* is about to open it has ended those before, one that is about to spend a
\* token will end the only one.
OneAtMost(u) ==
    /\ \A i, j \in Live(u) : i = j
    /\ \A j, k \in Calls : Opens(calls[j], u) /\ Opens(calls[k], u) => j = k
    /\ \A k \in Calls : Opens(calls[k], u) /\ calls[k].pc = "token" /\ calls[k].op # "social"
                         => Live(u) = {}
    /\ \A k \in Calls : Opens(calls[k], u) /\ calls[k].pc = "spend" => Live(u) \subseteq {calls[k].row}

MemberInv == \A u \in Members : Excused(u) \/ OneAtMost(u)

\* Whoever opens a session after a step did before, and is about to spend or
\* open it only if it was, or if no session is left.
OpenerStays(k) ==
    calls'[k].op \in Opening =>
      /\ calls'[k].op = calls[k].op /\ calls'[k].user = calls[k].user /\ calls'[k].row = calls[k].row
      /\ calls'[k].pc = "spend" => calls[k].pc = "spend"
      /\ calls'[k].pc = "token" /\ calls[k].op # "social" /\ calls[k].user \in Members =>
           \/ calls[k].pc = "token"
           \/ \A i \in DOMAIN sessions : sessions[i].userId = calls[k].user => ~sessions'[i].live
           \/ calls[k].pc = "spend" /\ ~sessions'[calls[k].row].live

LEMMA MembersStay ==
    ASSUME MemberInv, SessionsQuiet, shared' = shared, \A k \in Calls : OpenerStays(k)
    PROVE  MemberInv'
<1> SUFFICES ASSUME NEW u \in Members, ~Excused(u)'
             PROVE  OneAtMost(u)'
  BY DEF MemberInv
<1>1. ~Excused(u)
  BY DEF Excused, SessionsQuiet
<1>2. \A i \in Live(u)' : i \in Live(u) /\ sessions[i].userId = u /\ i \in DOMAIN sessions /\ sessions'[i].live
  BY DEF Live, SessionsQuiet
<1>3. \A k \in Calls : Opens(calls[k], u)' => Opens(calls[k], u) /\ calls'[k].op = calls[k].op
                                             /\ calls'[k].row = calls[k].row
  BY DEF Opens, OpenerStays
<1>4. /\ \A i, j \in Live(u) : i = j
      /\ \A j, k \in Calls : Opens(calls[j], u) /\ Opens(calls[k], u) => j = k
  BY <1>1 DEF MemberInv, OneAtMost
<1>5. ASSUME NEW k \in Calls, Opens(calls[k], u)', calls'[k].pc = "token", calls'[k].op # "social"
      PROVE  Live(u)' = {}
  <2>1. Opens(calls[k], u) /\ calls[k].op # "social"
    BY <1>3, <1>5
  <2>2. \/ calls[k].pc = "token"
        \/ \A i \in DOMAIN sessions : sessions[i].userId = u => ~sessions'[i].live
        \/ calls[k].pc = "spend" /\ ~sessions'[calls[k].row].live
    BY <1>5, <2>1 DEF OpenerStays, Opens
  <2>3. calls[k].pc = "token" => Live(u) = {}
    BY <1>1, <2>1 DEF MemberInv, OneAtMost
  <2>4. calls[k].pc = "spend" => Live(u) \subseteq {calls[k].row}
    BY <1>1, <2>1 DEF MemberInv, OneAtMost
  <2> QED
    BY <1>2, <2>2, <2>3, <2>4
<1>6. ASSUME NEW k \in Calls, Opens(calls[k], u)', calls'[k].pc = "spend"
      PROVE  Live(u)' \subseteq {calls'[k].row}
  <2>1. Opens(calls[k], u) /\ calls[k].pc = "spend" /\ calls'[k].row = calls[k].row
    BY <1>3, <1>6 DEF OpenerStays, Opens
  <2>2. Live(u) \subseteq {calls[k].row}
    BY <1>1, <2>1 DEF MemberInv, OneAtMost
  <2> QED
    BY <1>2, <2>1, <2>2
<1> QED
  BY <1>2, <1>3, <1>4, <1>5, <1>6 DEF OneAtMost

LEMMA MemberBegins ==
    ASSUME IInv, MemberInv, NEW k \in Calls, NEW c, Begins(k, c)
    PROVE  MemberInv'
<1>1. \A j \in Calls : calls'[j] = IF j = k THEN c ELSE calls[j]
  BY DEF Begins, IInv, TypeOK
<1>2. shared \subseteq shared' /\ UNCHANGED sessions
  BY DEF Begins
<1>3. /\ c.op = "refresh" => c.pc = "spend" /\ sessions[c.row].live /\ c.row \in DOMAIN sessions
                             /\ sessions[c.row].userId = c.user
      /\ c.pc = "token" => c.op = "social"
      /\ c.pc = "spend" => c.op = "refresh"
  BY DEF Begins, MayBegin, CallOK
<1> SUFFICES ASSUME NEW u \in Members, ~Excused(u)'
             PROVE  OneAtMost(u)'
  BY DEF MemberInv
<1>4. ~Excused(u) /\ <<"user", u>> \notin shared'
  BY <1>2 DEF Excused
<1>5. Live(u)' = Live(u)
  BY <1>2 DEF Live
<1>6. ASSUME NEW j \in Calls, j # k, Opens(calls[j], u), Opens(c, u)
      PROVE  FALSE
  <2>1. <<"user", u>> \in Holds(calls[j]) /\ <<"user", u>> \in Holds(c)
    BY <1>6 DEF Holds, Opens, Opening
  <2> QED
    BY <1>4, <2>1 DEF Begins
<1>7. ASSUME Opens(c, u), c.pc = "spend"
      PROVE  Live(u) \subseteq {c.row}
  <2>1. c.row \in Live(u)
    BY <1>3, <1>7 DEF Live, Opens
  <2> QED
    BY <1>4, <2>1 DEF MemberInv, OneAtMost
<1>8. \A i, j \in Live(u) : i = j
  BY <1>4 DEF MemberInv, OneAtMost
<1>9. \A i, j \in Calls : Opens(calls[i], u)' /\ Opens(calls[j], u)' => i = j
  <2>1. \A i, j \in Calls : Opens(calls[i], u) /\ Opens(calls[j], u) => i = j
    BY <1>4 DEF MemberInv, OneAtMost
  <2>2. \A j \in Calls : Opens(calls[j], u)' <=> Opens(IF j = k THEN c ELSE calls[j], u)
    BY <1>1 DEF Opens
  <2> QED
    BY <1>6, <2>1, <2>2
<1>10. ASSUME NEW j \in Calls, Opens(calls[j], u)', calls'[j].pc = "token", calls'[j].op # "social"
       PROVE  Live(u) = {}
  <2>1. j # k /\ calls'[j] = calls[j]
    BY <1>1, <1>3, <1>10
  <2> QED
    BY <1>4, <1>10, <2>1 DEF MemberInv, OneAtMost, Opens
<1>11. ASSUME NEW j \in Calls, Opens(calls[j], u)', calls'[j].pc = "spend"
       PROVE  Live(u) \subseteq {calls'[j].row}
  <2>1. CASE j = k
    BY <1>1, <1>7, <1>11, <2>1 DEF Opens
  <2>2. CASE j # k
    BY <1>1, <1>4, <1>11, <2>2 DEF MemberInv, OneAtMost, Opens
  <2> QED
    BY <2>1, <2>2
<1> QED
  BY <1>5, <1>8, <1>9, <1>10, <1>11 DEF OneAtMost

LEMMA MemberOpens ==
    ASSUME IInv, MemberInv, NEW k \in Calls, generateToken(k)
    PROVE  MemberInv'
<1> DEFINE n == Len(sessions) + 1
           new == NewSession(calls[k])
<1>1. /\ sessions \in Seq(Session) /\ calls \in [Calls -> Call] /\ CallOK(calls[k])
  BY DEF IInv, TypeOK
<1>2. /\ sessions' \in Seq(Session) /\ Len(sessions') = n
      /\ \A i \in DOMAIN sessions : sessions'[i] = sessions[i]
      /\ sessions'[n] = new
  BY OpenedKeepsRows DEF generateToken, codeVars
<1>3. DOMAIN sessions' = DOMAIN sessions \cup {n} /\ n \notin DOMAIN sessions
  BY <1>1, <1>2
<1>4. new.userId = calls[k].user /\ new.by = calls[k].op /\ new.live
  BY DEF NewSession
<1>5. \A j \in Calls : calls'[j] = IF j = k THEN Idle ELSE calls[j]
  BY <1>1 DEF generateToken, Goes
<1>6. shared' = shared /\ calls[k].pc = "token" /\ calls[k].op \in Opening
  BY <1>1 DEF generateToken, Goes, CallOK
<1> HIDE DEF n, new
<1> SUFFICES ASSUME NEW u \in Members, ~Excused(u)'
             PROVE  OneAtMost(u)'
  BY DEF MemberInv
<1>7. ~Excused(u)
  BY <1>2, <1>3, <1>6 DEF Excused
<1>8. \A j \in Calls : Opens(calls[j], u)' => j # k /\ Opens(calls[j], u) /\ calls'[j] = calls[j]
  BY <1>5 DEF Opens, Idle, Opening
<1>9. CASE calls[k].user = u
  <2>1. calls[k].op # "social"
    BY <1>2, <1>3, <1>4, <1>9 DEF Excused
  <2>2. Live(u) = {} /\ \A j \in Calls : ~Opens(calls[j], u)'
    BY <1>6, <1>7, <1>8, <1>9, <2>1 DEF MemberInv, OneAtMost, Opens
  <2>3. \A i \in Live(u)' : i = n
    BY <1>2, <1>3, <2>2 DEF Live
  <2> QED
    BY <2>2, <2>3 DEF OneAtMost
<1>10. CASE calls[k].user # u
  <2>1. Live(u)' = Live(u)
    BY <1>2, <1>3, <1>4, <1>10 DEF Live
  <2>2. OneAtMost(u)
    BY <1>7 DEF MemberInv
  <2> QED
    BY <1>8, <2>1, <2>2 DEF OneAtMost
<1> QED
  BY <1>9, <1>10

LEMMA NextMemberInv ==
    ASSUME IInv, MemberInv, [Next]_vars
    PROVE  MemberInv'
<1>1. calls \in [Calls -> Call] /\ \A k \in Calls : CallOK(calls[k]) /\ calls[k] \in Call
  BY DEF IInv, TypeOK
<1>2. UNCHANGED sessions => SessionsQuiet
  BY DEF SessionsQuiet
<1>3. CASE \E k \in Calls : \E c : Begins(k, c)
  BY <1>3, MemberBegins
<1>4. ASSUME NEW k \in Calls, NEW pc \in {"token", "idle"}, Goes(k, pc)
      PROVE  /\ \A j \in Calls \ {k} : OpenerStays(j)
             /\ \/ calls'[k].op = "none"
                \/ /\ calls'[k].op = calls[k].op /\ calls'[k].user = calls[k].user
                   /\ calls'[k].row = calls[k].row /\ calls'[k].pc = "token"
  <2>1. \A j \in Calls \ {k} : calls'[j] = calls[j]
    BY <1>1, <1>4 DEF Goes
  <2>2. calls'[k] = Idle \/ calls'[k] = [calls[k] EXCEPT !.pc = "token"]
    BY <1>1, <1>4 DEF Goes
  <2> QED
    BY <1>1, <2>1, <2>2 DEF OpenerStays, Idle, Call
<1>5. ASSUME NEW k \in Calls, EndOldSessions(k)
      PROVE  MemberInv'
  <2>1. SessionsQuiet /\ shared' = shared
        /\ \A i \in DOMAIN sessions : sessions[i].userId = calls[k].user => ~sessions'[i].live
    BY <1>5, EndedIsQuiet DEF EndOldSessions, OldSessions, codeVars, Goes
  <2>2. \A j \in Calls : OpenerStays(j)
    BY <1>4, <1>5, <2>1 DEF EndOldSessions, OpenerStays, Opening
  <2> QED
    BY <2>1, <2>2, MembersStay
<1>6. ASSUME NEW k \in Calls, SpendToken(k)
      PROVE  MemberInv'
  <2>1. SessionsQuiet /\ shared' = shared
    BY <1>6, EndedIsQuiet DEF SpendToken, Spent, codeVars, Goes
  <2>2. ~sessions'[calls[k].row].live /\ calls[k].pc = "spend"
    <3>1. calls[k].row \in DOMAIN sessions
      BY <1>1, <1>6 DEF SpendToken, CallOK
    <3> QED
      BY <1>6, <3>1, EndedIsQuiet DEF SpendToken, Spent, codeVars
  <2>3. \A j \in Calls : OpenerStays(j)
    BY <1>4, <1>6, <2>2 DEF SpendToken, OpenerStays, Opening
  <2> QED
    BY <2>1, <2>3, MembersStay
<1>7. ASSUME NEW k \in Calls, TakeCode(k) \/ AcceptCode(k)
      PROVE  MemberInv'
  <2>1. SessionsQuiet /\ shared' = shared
    BY <1>2, <1>7 DEF TakeCode, AcceptCode, Goes
  <2>2. calls[k].op \in Opening => calls[k].user \notin Members
    BY <1>1, <1>7 DEF TakeCode, AcceptCode, CallOK
  <2>3. \A j \in Calls : OpenerStays(j)
    BY <1>4, <1>7, <2>2 DEF TakeCode, AcceptCode, OpenerStays, Opening
  <2> QED
    BY <2>1, <2>3, MembersStay
<1>8. CASE Quiet
  <2>1. \A k \in Calls : OpenerStays(k)
    BY <1>8 DEF Quiet, CallQuiet, SameCall, OpenerStays, Idle, Opening
  <2> QED
    BY <1>8, <2>1, MembersStay DEF Quiet
<1> QED
  BY <1>3, <1>5, <1>6, <1>7, <1>8, MemberOpens, NextInBrief

\* A member who logs in by password has one session at most, unless two calls
\* that open one overlapped.
THEOREM MemberAlwaysHasOneSession == Spec => []OneSessionPerMember
<1>1. Init => MemberInv
  BY DEF Init, MemberInv, OneAtMost, Live, Opens, Opening, Idle
<1>2. IInv /\ MemberInv /\ [Next]_vars => MemberInv'
  BY NextMemberInv
<1>3. IInv /\ MemberInv => OneSessionPerMember
  <2> SUFFICES ASSUME IInv, MemberInv, NEW u \in Members, ~Excused(u)
               PROVE  Cardinality(Live(u)) <= 1
    <3>1. IInv => TypeOK
      BY DEF IInv
    <3>2. \A u \in Members : Live(u) = {i \in {j \in DOMAIN sessions : sessions[j].userId = u} : sessions[i].live}
      BY DEF Live
    <3> QED
      BY <3>1, <3>2 DEF OneSessionPerMember, Excused
  <2>1. \A x, y \in Live(u) : x = y
    BY DEF MemberInv, OneAtMost
  <2> QED
    BY <2>1, AtMostOne
<1> QED
  BY <1>1, <1>2, <1>3, InitIInv, NextIInv, PTL DEF Spec

=============================================================================
