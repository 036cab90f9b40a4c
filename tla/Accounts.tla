------------------------------- MODULE Accounts -------------------------------
(***************************************************************************)
(* The table of users: how accounts are made (signup by mailed code, social*)
(* callback, admin), how their rows are written by calls that read them    *)
(* before, and how they are deleted, restored and removed.                 *)
(***************************************************************************)
EXTENDS OneTimeCodes, FiniteSetsExt

CONSTANTS
    UserIds,        \* ids of rows, never used twice
    Roles,          \* the roles of users who are not the administrator
    Calls,          \* slots for calls under way
    MaxCalls        \* bound: calls

ASSUME RolesAssumption == Roles \subseteq {"baby_sitter", "parent", "manager"}
ASSUME CallsBound == MaxCalls \in Nat /\ None \notin Calls

VARIABLES
    users,          \* the rows; Users are the emails of OneTimeCodes
    social,         \* the ids with a row of social_account
    job,            \* the ids hardDeleteUser of cron-svc sent
    calls, called,
    ordered,        \* history: what the last delete, restore or removal asked for
    stale,          \* history: rows written from a copy that was out of date
    overrun,        \* history: accounts a call brought back or removed that
                    \* another had overtaken, or whose maker died
    refused         \* history: inserts of setPassword refused for their user code

vars == <<codeVars, users, social, job, calls, called, ordered, stale, overrun, refused>>

\* code is the number of user_code behind the prefix of the role, active and
\* signedUp are is_active and completed_signup; by is history, who made the
\* row, and fills how often signup completed it.
UserRow == [state : {"none", "live", "deleted", "removed"}, email : Users \cup {None},
            role : Roles \cup {None}, code : Nat,
            active : BOOLEAN, signedUp : BOOLEAN,
            by : {"none", "setPassword", "social", "admin"}, fills : 0..2]

NoUser == [state |-> "none", email |-> None, role |-> None, code |-> 0, active |-> FALSE,
           signedUp |-> FALSE, by |-> "none", fills |-> 0]

\* copy is the row as the call read it, or is to write it; outdated is
\* history: the row was written since.
Call == [pc : {"idle", "endCodes", "mail", "spend", "number", "insert", "social",
               "save", "restore", "saveRestored", "remove"},
         id : UserIds \cup {None}, copy : UserRow, row : 0..MaxCodes, outdated : BOOLEAN]

Idle == [pc |-> "idle", id |-> None, copy |-> NoUser, row |-> 0, outdated |-> FALSE]

NoJob == [sent |-> FALSE, due |-> {}, sawDeleted |-> {}]

Init ==
    /\ CodesInit
    /\ users = [u \in UserIds |-> NoUser]
    /\ social = {}
    /\ job = NoJob
    /\ calls = [k \in Calls |-> Idle]
    /\ called = 0
    /\ ordered = [u \in UserIds |-> "none"]
    /\ stale = {}
    /\ overrun = {}
    /\ refused = {}

Rows == {u \in UserIds : users[u].state \in {"live", "deleted"}}
Live == {u \in UserIds : users[u].state = "live"}
EmailTaken(e) == \E u \in Rows : users[u].email = e
NumberTaken(role, n) == \E u \in Rows : users[u].role = role /\ users[u].code = n

Begin(k, pc, id, copy, row) ==
    /\ calls[k] = Idle /\ called < MaxCalls
    /\ calls' = [calls EXCEPT ![k] = [pc |-> pc, id |-> id, copy |-> copy, row |-> row,
                                      outdated |-> FALSE]]
    /\ called' = called + 1

Goes(k, pc) ==
    calls' = [calls EXCEPT ![k] = IF pc = "idle" THEN Idle ELSE [@ EXCEPT !.pc = pc]]

\* The rows ids are written, by the call in slot k or by none: it goes on at
\* pc, and every other copy of them, and every number read, is out of date.
Written(ids, k, pc) ==
    calls' = [j \in Calls |->
      IF j = k THEN IF pc = "idle" THEN Idle ELSE [calls[j] EXCEPT !.pc = pc]
      ELSE [calls[j] EXCEPT !.outdated = @ \/ calls[j].id \in ids \/ calls[j].pc = "insert"]]

----------------------------------------------------------------------------
\* Making accounts.

RegisterEmail(k, e) ==
    /\ ~EmailTaken(e)
    /\ Begin(k, "endCodes", None, [NoUser EXCEPT !.email = e], 0)
    /\ UNCHANGED <<codeVars, users, social, job, ordered, stale, overrun, refused>>

\* Codes of every type end.
EndCodes(k) ==
    /\ calls[k].pc = "endCodes"
    /\ codes' = Deactivated(codes, {i \in DOMAIN codes : codes[i].email = calls[k].copy.email})
    /\ Goes(k, "mail")
    /\ UNCHANGED <<old, users, social, job, called, ordered, stale, overrun, refused>>

MailCode(k) ==
    /\ calls[k].pc = "mail"
    /\ CreateCode(calls[k].copy.email, None, "user_signup")
    /\ Goes(k, "idle")
    /\ UNCHANGED <<old, users, social, job, called, ordered, stale, overrun, refused>>

setPassword(k, i, role) ==
    /\ i \in DOMAIN codes /\ Active(i) /\ role # "manager"
    /\ Begin(k, "spend", None, [NoUser EXCEPT !.email = codes[i].email, !.role = role,
                                              !.active = TRUE, !.by = "setPassword"], i)
    /\ UNCHANGED <<codeVars, users, social, job, ordered, stale, overrun, refused>>

\* The code is gone even when the language is refused.
SpendCode(k) ==
    /\ calls[k].pc = "spend"
    /\ codes' = Accepted(calls[k].row)
    /\ \E pc \in {"number", "idle"} : Goes(k, pc)
    /\ UNCHANGED <<old, users, social, job, called, ordered, stale, overrun, refused>>

\* The accounts by email that are not deleted: none, so one is made.
SocialCallback(k, e, role) ==
    /\ \A u \in Live : users[u].email # e
    /\ Begin(k, "number", None, [NoUser EXCEPT !.email = e, !.role = role, !.by = "social"], 0)
    /\ UNCHANGED <<codeVars, users, social, job, ordered, stale, overrun, refused>>

\* An admin makes a babysitter, or a manager; the emails were checked.
createByAdmin(k, e, role) ==
    /\ role # "parent" /\ ~EmailTaken(e)
    /\ Begin(k, "number", None, [NoUser EXCEPT !.email = e, !.role = role, !.by = "admin",
                                   !.active = TRUE, !.signedUp = (role = "baby_sitter")], 0)
    /\ UNCHANGED <<codeVars, users, social, job, ordered, stale, overrun, refused>>

\* getCurrentUserByRole takes the largest number, deleted users included; the
\* others count: socialCallback all users (its role is not part of the
\* condition), the admin those of the role.
LargestLive(role) == Max({0} \cup {users[u].code : u \in {v \in Live : users[v].role = role}})
LargestNumber(role) == Max({0} \cup {users[u].code : u \in {v \in Rows : users[v].role = role}})

NextNumber(c) == 1 +
    CASE c.by = "setPassword" -> LargestNumber(c.role)
      [] c.by = "social" -> Cardinality(Rows)
      [] c.by = "admin" -> Cardinality({u \in Rows : users[u].role = c.role})

ReadNumber(k) ==
    /\ calls[k].pc = "number"
    /\ calls' = [calls EXCEPT ![k].pc = "insert", ![k].copy.code = NextNumber(calls[k].copy)]
    /\ UNCHANGED <<codeVars, users, social, job, called, ordered, stale, overrun, refused>>

\* Email and user code are unique columns.
InsertRefused(k, c) ==
    /\ EmailTaken(c.email) \/ NumberTaken(c.role, c.code)
    /\ refused' = IF ~EmailTaken(c.email) /\ c.by = "setPassword"
                  THEN refused \cup {calls[k].outdated} ELSE refused
    /\ Goes(k, "idle")
    /\ UNCHANGED <<users, ordered>>

InsertDone(k, c, u) ==
    /\ users[u] = NoUser
    /\ ~EmailTaken(c.email) /\ ~NumberTaken(c.role, c.code)
    /\ users' = [users EXCEPT ![u] = [c EXCEPT !.state = "live"]]
    /\ ordered' = [ordered EXCEPT ![u] = "live"]
    /\ calls' = [j \in Calls |->
         IF j = k THEN IF c.by = "social" THEN [calls[k] EXCEPT !.pc = "social", !.id = u] ELSE Idle
         ELSE [calls[j] EXCEPT !.outdated = @ \/ calls[j].pc = "insert"]]
    /\ UNCHANGED refused

InsertUser(k) ==
    /\ calls[k].pc = "insert"
    /\ InsertRefused(k, calls[k].copy) \/ \E u \in UserIds : InsertDone(k, calls[k].copy, u)
    /\ UNCHANGED <<codeVars, social, job, called, stale, overrun>>

\* The row needs its user.
WithoutSocialRow(u) == social                                   \* a mutant
WithSocialRow(u) == social \cup ({u} \cap Rows)

CreateSocial(k) ==
    /\ calls[k].pc = "social"
    /\ social' = WithSocialRow(calls[k].id)
    /\ Goes(k, "idle")
    /\ UNCHANGED <<codeVars, users, job, called, ordered, stale, overrun, refused>>

----------------------------------------------------------------------------
\* Writing rows that were read before.

MaySignUpAgain(u) == users[u].state = "live"                    \* a mutant
MaySignUp(u) == users[u].state = "live" /\ ~(users[u].active /\ users[u].signedUp)

\* Up to the answers about city, languages, terms and services; completed is
\* whether the data says the signup is complete.
signup(k, u, completed) ==
    /\ MaySignUp(u)
    /\ Begin(k, "save", u, [users[u] EXCEPT !.active = TRUE, !.signedUp = @ \/ completed,
                 !.fills = IF completed /\ @ < 2 THEN @ + 1 ELSE @], 0)
    /\ UNCHANGED <<codeVars, users, social, job, ordered, stale, overrun, refused>>

\* updateProfile reads deleted users too.  An admin may set active.
updateProfile(k, u) ==
    /\ u \in Rows
    /\ \/ Begin(k, "save", u, users[u], 0)
       \/ Begin(k, "restore", u, [users[u] EXCEPT !.state = "live", !.active = TRUE], 0)
       \/ Begin(k, "remove", u, users[u], 0)
    /\ UNCHANGED <<codeVars, users, social, job, ordered, stale, overrun, refused>>

\* The update of deleted_at, before the row is saved.
RestoreUser(k) ==
    LET u == calls[k].id IN
    /\ calls[k].pc = "restore"
    /\ users' = IF u \in Rows THEN [users EXCEPT ![u].state = "live"] ELSE users
    /\ ordered' = IF u \in Rows THEN [ordered EXCEPT ![u] = "live"] ELSE ordered
    /\ Written({u}, k, "saveRestored")
    /\ UNCHANGED <<codeVars, social, job, called, stale, overrun, refused>>

\* save writes the columns of the copy; deleted_at is not among them, unless an
\* admin restores the user.  A row that is gone is inserted again (unless its
\* email or user code was given away).  fills is no column: it counts what the
\* saves of signup wrote.
SavedUndeleted(c) == "live"                                     \* a mutant
SavedState(c) == IF c.pc = "save" /\ c.id \in Rows THEN users[c.id].state ELSE "live"

SaveUser(k) ==
    LET c == calls[k]  u == c.id
        blocked == u \notin Rows /\ (EmailTaken(c.copy.email) \/ NumberTaken(c.copy.role, c.copy.code)) IN
    /\ c.pc \in {"save", "saveRestored"}
    /\ IF blocked THEN UNCHANGED <<users, stale, overrun>> /\ Goes(k, "idle")
       ELSE /\ users' = [users EXCEPT ![u] = [c.copy EXCEPT !.state = SavedState(c)]]
            /\ stale' = IF c.outdated THEN stale \cup {u} ELSE stale
            /\ overrun' = IF c.outdated /\ (c.pc = "saveRestored" \/ u \notin Rows)
                          THEN overrun \cup {u} ELSE overrun
            /\ Written({u}, k, "idle")
    /\ UNCHANGED <<codeVars, social, job, called, ordered, refused>>

Removed(ids) == [u \in UserIds |-> IF u \in ids \cap Rows THEN [users[u] EXCEPT !.state = "removed"]
                                   ELSE users[u]]

\* An admin sets active to false: the account goes at once.
RemoveUser(k) ==
    LET u == calls[k].id IN
    /\ calls[k].pc = "remove"
    /\ users' = Removed({u})
    /\ ordered' = IF u \in Rows THEN [ordered EXCEPT ![u] = "removed"] ELSE ordered
    /\ social' = social \ {u}
    /\ Written({u}, k, "idle")
    /\ UNCHANGED <<codeVars, job, called, stale, overrun, refused>>

deleteAccount(u) ==
    /\ u \in Live
    /\ users' = [users EXCEPT ![u].state = "deleted"]
    /\ ordered' = [ordered EXCEPT ![u] = "deleted"]
    /\ Written({u}, None, "idle")
    /\ UNCHANGED <<codeVars, social, job, called, stale, overrun, refused>>

\* cron-svc: those deleted long enough ago, of the users who are no managers.
AnyDue == Rows                                                  \* a mutant
MayBeDue == {u \in Rows \ Live : users[u].role # "manager"}

HardDeleteUser ==
    /\ ~job.sent
    /\ \E due \in SUBSET MayBeDue :
         job' = [sent |-> TRUE, due |-> due, sawDeleted |-> Rows \ Live]
    /\ UNCHANGED <<codeVars, users, social, calls, called, ordered, stale, overrun, refused>>

\* auth-svc removes the ids it was sent, whatever became of them.
HardDeleteUserByIds ==
    /\ job.sent
    /\ users' = Removed(job.due)
    /\ ordered' = [u \in UserIds |-> IF u \in job.due /\ users[u].state = "deleted"
                                     THEN "removed" ELSE ordered[u]]
    /\ overrun' = overrun \cup (job.due \cap Live \cap job.sawDeleted)
    /\ social' = social \ job.due
    /\ job' = NoJob
    /\ Written(job.due, None, "idle")
    /\ UNCHANGED <<codeVars, called, stale, refused>>

\* The process of auth-svc dies with its calls; whose social row it was
\* about to write goes without.
AuthCrash ==
    /\ \E k \in Calls : calls[k] # Idle
    /\ calls' = [k \in Calls |-> Idle]
    /\ overrun' = overrun \cup {calls[k].id : k \in {j \in Calls : calls[j].pc = "social"}}
    /\ UNCHANGED <<codeVars, users, social, job, called, ordered, stale, refused>>

Next ==
    \/ \E k \in Calls, e \in Users :
         \/ RegisterEmail(k, e)
         \/ \E role \in Roles : SocialCallback(k, e, role) \/ createByAdmin(k, e, role)
    \/ \E k \in Calls, i \in 1..MaxCodes, role \in Roles : setPassword(k, i, role)
    \/ \E k \in Calls : \/ EndCodes(k) \/ MailCode(k) \/ SpendCode(k) \/ ReadNumber(k)
                        \/ InsertUser(k) \/ CreateSocial(k)
                        \/ RestoreUser(k) \/ SaveUser(k) \/ RemoveUser(k)
    \/ \E k \in Calls, u \in UserIds : \/ updateProfile(k, u)
                                       \/ \E done \in BOOLEAN : signup(k, u, done)
    \/ \E u \in UserIds : deleteAccount(u)
    \/ HardDeleteUser \/ HardDeleteUserByIds \/ AuthCrash

Spec == Init /\ [][Next]_vars

----------------------------------------------------------------------------
\* Types of rows and calls; only users that exist have a social account.
TypeOK ==
    /\ CodesTypeOK
    /\ users \in [UserIds -> UserRow]
    /\ social \subseteq Rows
    /\ calls \in [Calls -> Call]
    /\ called \in 0..MaxCalls
    /\ ordered \in [UserIds -> {"none", "live", "deleted", "removed"}]
    /\ stale \cup overrun \subseteq UserIds

\* setPassword is refused for its user code only when another account was
\* written while it made its own; counting instead of taking the largest
\* number, the social callback and the admin may be refused on their own.
LoneSignupGetsItsCode == FALSE \notin refused

\* An account is what the last delete, restore or removal made it, unless a
\* save overlapped its removal or a restore overlapped either (updateProfile,
\* signup, hardDeleteUser); deleted users may be written and stay deleted.
AccountFollowsOrders ==
    \A u \in UserIds \ overrun : users[u].state = ordered[u]

\* A completed signup is not overwritten by another, unless a call wrote an
\* old row back.
SignupCompletesOnce ==
    \A u \in UserIds \ stale : users[u].fills <= 1

\* Rows and calls keep their types, and who came by a social account comes back
\* by it: the row is there, unless it is being made, or its call died, or the
\* user was removed and written back.
SocialUserCanReturn ==
    TypeOK /\ \A u \in Rows \ (social \cup overrun) :
        users[u].by = "social" => \E k \in Calls : calls[k].pc = "social" /\ calls[k].id = u
=============================================================================
