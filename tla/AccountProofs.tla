---------------------------- MODULE AccountProofs ----------------------------
(***************************************************************************)
(* Proofs of what Accounts states, for any number of emails, rows, codes,  *)
(* roles and calls; and after them of what the functions owe that are      *)
(* evaluated beside it (MCAccounts), for tables of any size.               *)
(***************************************************************************)
EXTENDS Accounts, Profiles, BookingLists, Listings, Reports, FiniteNumbers

USE CodesAssumption, RolesAssumption, CallsBound

----------------------------------------------------------------------------
(* The invariant. *)

Making  == {"endCodes", "mail", "spend", "number", "insert"}
Writing == {"save", "restore", "saveRestored", "remove"}

\* A row signed up once only, so that nobody may sign up again.
Fresh(row) == row.fills <= 1 /\ (row.fills > 0 => row.active /\ row.signedUp)

\* What a call may rely on: whose row it makes, that the number it read is
\* free, and that the row it writes is as it read it; the last two unless
\* somebody wrote meanwhile.
CallOK(c) ==
    /\ c \in Call
    /\ c.pc \in Making => c.copy.email \in Users /\ c.copy.fills = 0
    /\ c.pc = "spend" => c.row \in DOMAIN codes
    /\ c.pc \in {"spend", "number"} => c.copy.by # "none"
    /\ c.pc = "insert" /\ c.copy.by = "setPassword" /\ ~c.outdated => ~NumberTaken(c.copy.role, c.copy.code)
    /\ c.pc \in Writing \cup {"social"} => c.id \in UserIds
    /\ c.pc \in Writing =>
         /\ users[c.id].state # "none" /\ c.copy.by = users[c.id].by
         /\ ~c.outdated => c.id \in Rows /\ (c.pc = "saveRestored" => c.id \in Live)
         /\ ~c.outdated /\ c.id \notin stale => Fresh(c.copy)

\* What a row keeps between the steps.
RowOK(u) ==
    /\ u \notin stale => Fresh(users[u])
    /\ u \notin overrun => users[u].state = ordered[u]
    /\ u \in Rows \ (social \cup overrun) /\ users[u].by = "social" =>
         \E k \in Calls : calls[k].pc = "social" /\ calls[k].id = u

Made == {u \in UserIds : users[u].state # "none"}

IInv ==
    /\ TypeOK
    /\ \A k \in Calls : CallOK(calls[k])
    /\ \A u \in UserIds : RowOK(u)
    /\ IsFiniteSet(Made)
    /\ job.due \subseteq job.sawDeleted
    /\ FALSE \notin refused

LEMMA NoUserType == NoUser \in UserRow /\ NoUser.fills = 0
BY DEF NoUser, UserRow

LEMMA IdleIsOK == CallOK(Idle) /\ CallOK(Idle)' /\ Idle.pc = "idle"
BY NoUserType DEF CallOK, Idle, Call, Making, Writing

LEMMA InitIInv == Init => IInv
<1> SUFFICES ASSUME Init PROVE IInv
  OBVIOUS
<1>1. TypeOK
  BY NoUserType, IdleIsOK DEF Init, TypeOK, CodesInit, CodesTypeOK, CallOK, Rows
<1>2. \A u \in UserIds : RowOK(u)
  BY DEF Init, RowOK, NoUser, Fresh, Rows
<1>3. Made = {} /\ IsFiniteSet({})
  BY FS_EmptySet DEF Init, Made, NoUser
<1> QED
  BY <1>1, <1>2, <1>3, IdleIsOK DEF Init, IInv, NoJob

----------------------------------------------------------------------------
(* Calls a step leaves where they are. *)

\* The call stays where it is, and is out of date if its row was written or
\* the number it read may have been given.
Stays(j) ==
    /\ calls'[j] \in {calls[j], [calls[j] EXCEPT !.outdated = TRUE]}
    /\ calls[j].pc \in Writing /\ users'[calls[j].id] # users[calls[j].id] => calls'[j].outdated
    /\ calls[j].pc = "insert" /\ users' # users => calls'[j].outdated

\* Rows are written, never forgotten.
RowsStay ==
    /\ \A u \in UserIds : users[u].state # "none" => users'[u].state # "none" /\ users'[u].by = users[u].by
    /\ stale \subseteq stale' /\ Len(codes) <= Len(codes') /\ codes \in Seq(UserOtp) /\ codes' \in Seq(UserOtp)

LEMMA StaysOK ==
    ASSUME RowsStay, NEW j, CallOK(calls[j]), Stays(j)
    PROVE  CallOK(calls[j])'
<1>1. PICK c, d : c = calls[j] /\ d = calls'[j]
  OBVIOUS
<1>2. /\ c \in Call /\ d \in Call /\ d.pc = c.pc /\ d.id = c.id /\ d.copy = c.copy /\ d.row = c.row
      /\ ~d.outdated => ~c.outdated
      /\ c.pc \in Writing /\ users'[c.id] # users[c.id] => d.outdated
      /\ c.pc = "insert" /\ users' # users => d.outdated
  <2>1. c \in Call /\ d \in {c, [c EXCEPT !.outdated = TRUE]}
    BY <1>1 DEF CallOK, Stays
  <2> QED
    BY <1>1, <2>1 DEF Stays, Call
<1>3. d.pc = "spend" => d.row \in DOMAIN codes'
  BY <1>1, <1>2 DEF CallOK, RowsStay
<1>4. d.pc = "insert" /\ d.copy.by = "setPassword" /\ ~d.outdated => ~NumberTaken(d.copy.role, d.copy.code)'
  BY <1>1, <1>2 DEF CallOK, NumberTaken, Rows
<1>5. ASSUME d.pc \in Writing
      PROVE  /\ users'[d.id].state # "none" /\ d.copy.by = users'[d.id].by
             /\ ~d.outdated => (d.id \in Rows)' /\ (d.pc = "saveRestored" => (d.id \in Live)')
             /\ ~d.outdated /\ d.id \notin stale' => Fresh(d.copy)
  BY <1>1, <1>2, <1>5 DEF CallOK, RowsStay, Rows, Live
<1> QED
  BY <1>1, <1>2, <1>3, <1>4, <1>5 DEF CallOK

LEMMA Becomes ==
    ASSUME NEW j, NEW d, calls'[j] = d, CallOK(d)'
    PROVE  CallOK(calls[j])'
BY DEF CallOK

\* The rows stay right when no call leaves "social" and nothing else changes.
LEMMA RowStays ==
    ASSUME NEW u \in UserIds, RowOK(u), users'[u] = users[u], ordered'[u] = ordered[u],
           stale \subseteq stale', overrun \subseteq overrun', u \in social => u \in social' \/ u \in overrun',
           \A k \in Calls : calls[k].pc = "social" /\ calls[k].id = u =>
             \/ calls'[k].pc = "social" /\ calls'[k].id = u
             \/ u \in social' \cup overrun'
    PROVE  RowOK(u)'
BY DEF RowOK, Rows

----------------------------------------------------------------------------
(* Calls that write no row. *)

quiet == <<users, social, ordered, stale, overrun, job>>

\* A step of one call, or the start of one, that writes no row keeps the
\* invariant when that call goes on as it may.
LEMMA QuietStep ==
    ASSUME IInv, NEW k \in Calls, NEW d, UNCHANGED quiet,
           calls' = [calls EXCEPT ![k] = d], calls[k].pc # "social", CallOK(d)',
           CodesTypeOK', Len(codes) <= Len(codes'), called' \in 0..MaxCalls, FALSE \notin refused'
    PROVE  IInv'
<1>1. \A j \in Calls : calls'[j] = IF j = k THEN d ELSE calls[j]
  BY DEF IInv, TypeOK
<1>2. RowsStay
  BY DEF RowsStay, quiet, IInv, TypeOK, CodesTypeOK
<1>3. \A j \in Calls : CallOK(calls[j])'
  <2>1. \A j \in Calls \ {k} : CallOK(calls[j]) /\ Stays(j)
    BY <1>1 DEF IInv, Stays, quiet
  <2>2. \A j \in Calls \ {k} : CallOK(calls[j])'
    BY <1>2, <2>1, StaysOK
  <2>3. CallOK(calls[k])'
    BY <1>1, Becomes
  <2> QED
    BY <2>2, <2>3
<1>4. \A u \in UserIds : RowOK(u)'
  BY <1>1 DEF IInv, RowOK, quiet, Rows
<1>5. calls' \in [Calls -> Call]
  BY <1>1, <1>3 DEF IInv, TypeOK, CallOK
<1>6. TypeOK'
  BY <1>5 DEF IInv, TypeOK, quiet, Rows
<1> QED
  BY <1>3, <1>4, <1>6 DEF IInv, Made, quiet

\* What becomes of the codes keeps their types and their number.
LEMMA RewrittenCodes ==
    ASSUME CodesTypeOK, UNCHANGED old, NEW n \in Nat, n = Len(codes),
           codes' = [i \in 1..n |-> codes'[i]], \A i \in 1..n : codes'[i] \in UserOtp
    PROVE  CodesTypeOK' /\ Len(codes) <= Len(codes')
<1>1. codes' \in [1..n -> UserOtp]
  OBVIOUS
<1>2. codes' \in Seq(UserOtp) /\ Len(codes') = n
  BY <1>1
<1> QED
  BY <1>2 DEF CodesTypeOK

LEMMA DeactivatedCodes ==
    ASSUME CodesTypeOK, UNCHANGED old, NEW rows, codes' = Deactivated(codes, rows)
    PROVE  CodesTypeOK' /\ Len(codes) <= Len(codes')
<1>1. PICK n \in Nat : n = Len(codes) /\ DOMAIN codes = 1..n /\ codes \in Seq(UserOtp)
  BY DEF CodesTypeOK
<1>2. \A i \in 1..n : codes'[i] \in UserOtp
  <2> SUFFICES ASSUME NEW i \in 1..n PROVE codes'[i] \in UserOtp
    OBVIOUS
  <2>1. codes[i] \in UserOtp
    BY <1>1
  <2>2. codes'[i] = IF i \in rows THEN [codes[i] EXCEPT !.isActive = FALSE] ELSE codes[i]
    BY <1>1 DEF Deactivated
  <2> QED
    BY <2>1, <2>2 DEF UserOtp
<1>3. codes' = [i \in 1..n |-> codes'[i]]
  BY <1>1 DEF Deactivated
<1> QED
  BY <1>1, <1>2, <1>3, RewrittenCodes

LEMMA AcceptedCodes ==
    ASSUME CodesTypeOK, UNCHANGED old, NEW i \in DOMAIN codes, codes' = Accepted(i)
    PROVE  CodesTypeOK' /\ Len(codes) <= Len(codes')
<1>1. PICK n \in Nat : n = Len(codes) /\ DOMAIN codes = 1..n /\ codes \in Seq(UserOtp)
  BY DEF CodesTypeOK
<1>2. PICK t : t = Deactivated(codes, {i})
  OBVIOUS
<1>3. /\ DOMAIN t = 1..n /\ \A j \in 1..n : t[j] \in UserOtp
      /\ t = [j \in 1..n |-> t[j]]
  <2>1. \A j \in 1..n : t[j] = IF j \in {i} THEN [codes[j] EXCEPT !.isActive = FALSE] ELSE codes[j]
    BY <1>1, <1>2 DEF Deactivated
  <2>2. ASSUME NEW j \in 1..n PROVE t[j] \in UserOtp
    <3>1. codes[j] \in UserOtp
      BY <1>1
    <3> QED
      BY <2>1, <3>1 DEF UserOtp
  <2> QED
    BY <1>1, <1>2, <2>2 DEF Deactivated
<1>4. PICK uses : uses = IF t[i].uses = 2 THEN 2 ELSE t[i].uses + 1
  OBVIOUS
<1>5. PICK new : new = [t[i] EXCEPT !.uses = uses]
  OBVIOUS
<1>6. new \in UserOtp
  <2>1. t[i] \in UserOtp /\ uses \in 0..2
    BY <1>1, <1>3, <1>4 DEF UserOtp
  <2> QED
    BY <1>5, <2>1 DEF UserOtp
<1>7. codes' = [t EXCEPT ![i] = new]
  BY <1>1, <1>2, <1>3, <1>4, <1>5 DEF Accepted
<1>8. codes' = [j \in 1..n |-> codes'[j]] /\ \A j \in 1..n : codes'[j] \in UserOtp
  BY <1>1, <1>3, <1>6, <1>7
<1> QED
  BY <1>1, <1>8, RewrittenCodes

LEMMA CreatedCodes ==
    ASSUME CodesTypeOK, UNCHANGED old, NEW email \in Users, CreateCode(email, None, "user_signup")
    PROVE  CodesTypeOK' /\ Len(codes) <= Len(codes')
BY DEF CodesTypeOK, CreateCode, UserOtp, CodeType

\* A call begins.
LEMMA BeginKeeps ==
    ASSUME IInv, NEW k \in Calls, NEW pc, NEW id, NEW copy, NEW row, Begin(k, pc, id, copy, row),
           CallOK([pc |-> pc, id |-> id, copy |-> copy, row |-> row, outdated |-> FALSE]),
           UNCHANGED <<quiet, codeVars, refused>>
    PROVE  IInv'
<1>1. PICK d : d = [pc |-> pc, id |-> id, copy |-> copy, row |-> row, outdated |-> FALSE]
  OBVIOUS
<1>2. /\ calls' = [calls EXCEPT ![k] = d] /\ calls[k].pc # "social"
      /\ called \in Nat /\ called < MaxCalls /\ called' = called + 1
  BY <1>1, IdleIsOK DEF Begin, IInv, TypeOK
<1>3. CallOK(d)'
  BY <1>1 DEF CallOK, quiet, codeVars, NumberTaken, Rows, Live
<1>4. CodesTypeOK' /\ Len(codes) <= Len(codes') /\ called' \in 0..MaxCalls /\ FALSE \notin refused'
  <2>1. codes' = codes /\ old' = old /\ refused' = refused /\ CodesTypeOK /\ FALSE \notin refused
    BY DEF IInv, TypeOK, codeVars
  <2>2. Len(codes) \in Nat
    BY <2>1 DEF CodesTypeOK
  <2>3. CodesTypeOK'
    BY <2>1 DEF CodesTypeOK
  <2>4. Len(codes) <= Len(codes')
    BY <2>1, <2>2
  <2>5. called' \in 0..MaxCalls
    BY <1>2
  <2> QED
    BY <2>1, <2>3, <2>4, <2>5
<1>5. UNCHANGED quiet
  OBVIOUS
<1> QED
  BY <1>2, <1>3, <1>4, <1>5, QuietStep

\* What a call that makes an account may begin with.
NewUser  == {row \in UserRow : row.email \in Users /\ row.fills = 0}
MadeUser == {row \in NewUser : row.by # "none"}

LEMMA NewUserEmail ==
    ASSUME NEW n \in UserRow, n.fills = 0, NEW e \in Users
    PROVE  [n EXCEPT !.email = e] \in NewUser
BY DEF NewUser, UserRow

LEMMA NewUserRow ==
    ASSUME NEW n \in UserRow, n.fills = 0,
           NEW e \in Users, NEW role \in Roles, NEW signedUp \in BOOLEAN
    PROVE  /\ [n EXCEPT !.email = e, !.role = role, !.by = "social"] \in MadeUser
           /\ [n EXCEPT !.email = e, !.role = role, !.active = TRUE, !.by = "setPassword"] \in MadeUser
           /\ [n EXCEPT !.email = e, !.role = role, !.by = "admin", !.active = TRUE,
                        !.signedUp = signedUp] \in MadeUser
BY DEF MadeUser, NewUser, UserRow

LEMMA NewCallOK ==
    ASSUME NEW pc \in {"endCodes", "spend", "number"}, NEW copy \in NewUser, NEW row \in 0..MaxCodes,
           pc = "spend" => row \in DOMAIN codes, pc # "endCodes" => copy.by # "none"
    PROVE  CallOK([pc |-> pc, id |-> None, copy |-> copy, row |-> row, outdated |-> FALSE])
BY DEF NewUser, CallOK, Call, Making, Writing

LEMMA MakersBegin ==
    ASSUME IInv, NEW k \in Calls,
           \/ \E e \in Users : \/ RegisterEmail(k, e)
                               \/ \E role \in Roles : SocialCallback(k, e, role) \/ createByAdmin(k, e, role)
           \/ \E i \in 1..MaxCodes, role \in Roles : setPassword(k, i, role)
    PROVE  IInv'
<1>1. ASSUME NEW pc \in {"endCodes", "spend", "number"}, NEW copy \in NewUser, NEW row \in 0..MaxCodes,
             pc = "spend" => row \in DOMAIN codes, pc # "endCodes" => copy.by # "none", Begin(k, pc, None, copy, row),
             UNCHANGED <<quiet, codeVars, refused>>
      PROVE  IInv'
  BY <1>1, NewCallOK, BeginKeeps
<1> DEFINE n == NoUser
<1>n. n \in UserRow /\ n.fills = 0 /\ 0 \in 0..MaxCodes /\ n = NoUser
  BY NoUserType
<1>2. ASSUME NEW e \in Users, RegisterEmail(k, e) PROVE IInv'
  <2>1. Begin(k, "endCodes", None, [n EXCEPT !.email = e], 0) /\ UNCHANGED <<quiet, codeVars, refused>>
    BY <1>2 DEF RegisterEmail, quiet
  <2> HIDE DEF n
  <2>2. [n EXCEPT !.email = e] \in NewUser
    BY <1>n, NewUserEmail
  <2> QED
    BY <1>1, <1>n, <2>1, <2>2
<1>3. ASSUME NEW e \in Users, NEW role \in Roles, SocialCallback(k, e, role) PROVE IInv'
  <2> DEFINE copy == [n EXCEPT !.email = e, !.role = role, !.by = "social"]
  <2>1. Begin(k, "number", None, copy, 0) /\ UNCHANGED <<quiet, codeVars, refused>>
    BY <1>3 DEF SocialCallback, quiet
  <2> HIDE DEF n
  <2>2. copy \in NewUser /\ copy.by # "none"
    BY <1>n, NewUserRow DEF MadeUser
  <2> HIDE DEF copy
  <2> QED
    BY <1>1, <1>n, <2>1, <2>2
<1>4. ASSUME NEW e \in Users, NEW role \in Roles, createByAdmin(k, e, role) PROVE IInv'
  <2>1. PICK signedUp \in BOOLEAN : signedUp = (role = "baby_sitter")
    OBVIOUS
  <2> DEFINE copy == [n EXCEPT !.email = e, !.role = role, !.by = "admin", !.active = TRUE,
                               !.signedUp = signedUp]
  <2>2. Begin(k, "number", None, copy, 0) /\ UNCHANGED <<quiet, codeVars, refused>>
    BY <1>4, <2>1 DEF createByAdmin, quiet
  <2> HIDE DEF n
  <2>3. copy \in NewUser /\ copy.by # "none"
    BY <1>n, NewUserRow DEF MadeUser
  <2> HIDE DEF copy
  <2> QED
    BY <1>1, <1>n, <2>2, <2>3
<1>5. ASSUME NEW i \in 1..MaxCodes, NEW role \in Roles, setPassword(k, i, role) PROVE IInv'
  <2>1. i \in DOMAIN codes /\ i \in 0..MaxCodes /\ codes[i].email \in Users
    <3>1. i \in DOMAIN codes /\ codes \in Seq(UserOtp)
      BY <1>5 DEF setPassword, IInv, TypeOK, CodesTypeOK
    <3>2. codes[i] \in UserOtp
      BY <3>1
    <3> QED
      BY <3>1, <3>2 DEF UserOtp
  <2>2. PICK e \in Users : e = codes[i].email
    BY <2>1
  <2> DEFINE copy == [n EXCEPT !.email = e, !.role = role, !.active = TRUE, !.by = "setPassword"]
  <2>3. Begin(k, "spend", None, copy, i) /\ UNCHANGED <<quiet, codeVars, refused>>
    BY <1>5, <2>2 DEF setPassword, quiet
  <2> HIDE DEF n
  <2>4. copy \in NewUser /\ copy.by # "none"
    BY <1>n, NewUserRow DEF MadeUser
  <2> HIDE DEF copy
  <2> QED
    BY <1>1, <2>1, <2>3, <2>4
<1> QED
  BY <1>2, <1>3, <1>4, <1>5
\* A call goes on, or ends.
LEMMA GoesOn ==
    ASSUME IInv, NEW k \in Calls, NEW pc, Goes(k, pc)
    PROVE  /\ pc = "idle" => calls' = [calls EXCEPT ![k] = Idle]
           /\ pc # "idle" => calls' = [calls EXCEPT ![k] = [calls[k] EXCEPT !.pc = pc]]
BY DEF IInv, TypeOK, Goes

\* The steps that only touch the codes.
LEMMA CodesStep ==
    ASSUME IInv, NEW k \in Calls, EndCodes(k) \/ MailCode(k) \/ SpendCode(k)
    PROVE  IInv'
<1>1. PICK c : c = calls[k]
  OBVIOUS
<1>2. c \in Call /\ CallOK(c) /\ CodesTypeOK /\ called' \in 0..MaxCalls /\ FALSE \notin refused'
      /\ UNCHANGED quiet
  BY <1>1 DEF IInv, TypeOK, EndCodes, MailCode, SpendCode, quiet
<1>3. CASE EndCodes(k)
  <2>1. c.pc = "endCodes" /\ CodesTypeOK' /\ Len(codes) <= Len(codes')
    BY <1>1, <1>2, <1>3, DeactivatedCodes DEF EndCodes
  <2>2. PICK d : d = [c EXCEPT !.pc = "mail"]
    OBVIOUS
  <2>3. d \in Call /\ d.pc = "mail" /\ d.copy = c.copy /\ c.copy.email \in Users /\ c.copy.fills = 0
    BY <1>2, <2>1, <2>2 DEF Call, CallOK, Making
  <2>4. CallOK(d)'
    BY <2>3 DEF CallOK, Making, Writing
  <2>5. calls' = [calls EXCEPT ![k] = d]
    BY <1>1, <1>3, <2>2, GoesOn DEF EndCodes
  <2>6. calls[k].pc # "social"
    BY <1>1, <2>1
  <2> QED
    BY <1>2, <2>1, <2>4, <2>5, <2>6, QuietStep
<1>4. CASE MailCode(k)
  <2>1. c.pc = "mail" /\ c.copy.email \in Users
    BY <1>1, <1>2, <1>4 DEF MailCode, CallOK, Making
  <2>2. CodesTypeOK' /\ Len(codes) <= Len(codes')
    BY <1>1, <1>2, <1>4, <2>1, CreatedCodes DEF MailCode
  <2>3. calls' = [calls EXCEPT ![k] = Idle]
    BY <1>4, GoesOn DEF MailCode
  <2>4. calls[k].pc # "social"
    BY <1>1, <2>1
  <2> QED
    BY <1>2, <2>2, <2>3, <2>4, IdleIsOK, QuietStep
<1>5. CASE SpendCode(k)
  <2>1. c.pc = "spend" /\ c.row \in DOMAIN codes
    BY <1>1, <1>2, <1>5 DEF SpendCode, CallOK
  <2>2. CodesTypeOK' /\ Len(codes) <= Len(codes')
    BY <1>1, <1>2, <1>5, <2>1, AcceptedCodes DEF SpendCode
  <2>3. PICK d : d = [c EXCEPT !.pc = "number"]
    OBVIOUS
  <2>4. d \in Call /\ d.pc = "number" /\ d.copy = c.copy /\ c.copy.email \in Users /\ c.copy.fills = 0
        /\ c.copy.by # "none"
    BY <1>2, <2>1, <2>3 DEF Call, CallOK, Making
  <2>5. CallOK(d)'
    BY <2>4 DEF CallOK, Making, Writing
  <2>6. calls' = [calls EXCEPT ![k] = d] \/ calls' = [calls EXCEPT ![k] = Idle]
    BY <1>1, <1>5, <2>3, GoesOn DEF SpendCode
  <2>7. calls[k].pc # "social"
    BY <1>1, <2>1
  <2> QED
    BY <1>2, <2>2, <2>5, <2>6, <2>7, IdleIsOK, QuietStep
<1> QED
  BY <1>3, <1>4, <1>5

OfRole(role) == {v \in Rows : users[v].role = role}
Numbers(role) == {users[v].code : v \in OfRole(role)}

\* The accounts of a role are finitely many, and so are their numbers.
LEMMA FiniteNumbers ==
    ASSUME IInv, NEW role
    PROVE  /\ Cardinality(OfRole(role)) \in Nat /\ Cardinality(Rows) \in Nat
           /\ IsFiniteSet(Numbers(role)) /\ Numbers(role) \subseteq Nat
<1>1. IsFiniteSet(OfRole(role)) /\ IsFiniteSet(Rows)
  <2>1. OfRole(role) \subseteq Made /\ Rows \subseteq Made /\ IsFiniteSet(Made)
    BY DEF Made, Rows, OfRole, IInv
  <2> QED
    BY <2>1, FS_Subset
<1>2. Numbers(role) \subseteq Nat
  BY DEF Numbers, OfRole, Rows, IInv, TypeOK, UserRow
<1>3. IsFiniteSet(Numbers(role))
  <2> DEFINE f == [v \in OfRole(role) |-> users[v].code]
  <2>1. f \in Surjection(OfRole(role), Numbers(role))
    BY DEF Surjection, Numbers
  <2> QED
    BY <1>1, <2>1, FS_Surjection
<1> QED
  BY <1>1, <1>2, <1>3, FS_CardinalityType

\* The number a signup reads is one after all others; the others are numbers.
LEMMA NumberIsNew ==
    ASSUME IInv, NEW c \in UserRow, c.by # "none"
    PROVE  NextNumber(c) \in Nat /\ (c.by = "setPassword" => ~NumberTaken(c.role, NextNumber(c)))
<1>1. PICK role : role = c.role
  OBVIOUS
<1>2. PICK numbers \in SUBSET Nat : numbers = Numbers(role) /\ IsFiniteSet(numbers)
  BY FiniteNumbers
<1>3. CASE c.by = "setPassword"
  <2>1. PICK m : m = Max({0} \cup numbers)
    OBVIOUS
  <2>2. NextNumber(c) = 1 + m
    BY <1>1, <1>2, <1>3, <2>1 DEF NextNumber, LargestNumber, Numbers, OfRole
  <2>3. m + 1 \in Nat \ {0} /\ \A y \in numbers : y < m + 1
    BY <1>2, <2>1, OneMoreIsNew
  <2>4. m \in Nat
    <3>1. {0} \cup numbers = numbers \cup {0} /\ {0} \cup numbers # {} /\ {0} \cup numbers \subseteq Nat
      OBVIOUS
    <3>2. IsFiniteSet({0} \cup numbers)
      BY <1>2, <3>1, FS_AddElement
    <3> QED
      BY <2>1, <3>1, <3>2, MaxExists
  <2>5. NextNumber(c) = m + 1 /\ m + 1 \in Nat
    BY <2>2, <2>4
  <2>6. \A u \in Rows : users[u].role = role => users[u].code \in Nat /\ users[u].code < m + 1
    BY <1>2, <2>3 DEF Numbers, OfRole
  <2>7. ~NumberTaken(role, m + 1)
    BY <2>4, <2>6 DEF NumberTaken
  <2> QED
    BY <1>1, <2>5, <2>7
<1>4. CASE c.by = "social"
  <2>1. NextNumber(c) = 1 + Cardinality(Rows)
    BY <1>4 DEF NextNumber
  <2>2. Cardinality(Rows) \in Nat
    BY FiniteNumbers
  <2> QED
    BY <1>4, <2>1, <2>2
<1>5. CASE c.by = "admin"
  <2>1. NextNumber(c) = 1 + Cardinality(OfRole(role))
    BY <1>1, <1>5 DEF NextNumber, OfRole
  <2>2. Cardinality(OfRole(role)) \in Nat
    BY FiniteNumbers
  <2> QED
    BY <1>5, <2>1, <2>2
<1> QED
  BY <1>3, <1>4, <1>5 DEF UserRow

LEMMA ReadsNumber ==
    ASSUME IInv, NEW k \in Calls, ReadNumber(k)
    PROVE  IInv'
<1>1. PICK c : c = calls[k]
  OBVIOUS
<1>2. c \in Call /\ CallOK(c) /\ CodesTypeOK /\ called' \in 0..MaxCalls /\ FALSE \notin refused'
      /\ UNCHANGED quiet /\ UNCHANGED codeVars
  BY <1>1 DEF IInv, TypeOK, ReadNumber, quiet
<1>3. c.pc = "number" /\ c.copy.by # "none" /\ c.copy \in UserRow /\ c.copy.email \in Users /\ c.copy.fills = 0
  BY <1>1, <1>2 DEF ReadNumber, CallOK, Call, Making
<1>4. PICK n \in Nat : n = NextNumber(c.copy) /\ (c.copy.by = "setPassword" => ~NumberTaken(c.copy.role, n))
  BY <1>3, NumberIsNew
<1>5. PICK row : row = [c.copy EXCEPT !.code = n]
  OBVIOUS
<1>6. row \in UserRow /\ row.email \in Users /\ row.fills = 0 /\ row.role = c.copy.role /\ row.by = c.copy.by
      /\ row.code = n
  BY <1>3, <1>5 DEF UserRow
<1>7. PICK d : d = [c EXCEPT !.pc = "insert", !.copy = row]
  OBVIOUS
<1>8. d \in Call /\ d.pc = "insert" /\ d.copy = row
  BY <1>2, <1>6, <1>7 DEF Call
<1>9. ~NumberTaken(row.role, row.code)' \/ row.by # "setPassword"
  BY <1>2, <1>4, <1>6 DEF NumberTaken, Rows, quiet
<1>10. CallOK(d)'
  BY <1>6, <1>8, <1>9 DEF CallOK, Making, Writing
<1>11. calls' = [calls EXCEPT ![k] = d]
  BY <1>1, <1>4, <1>5, <1>7 DEF ReadNumber
<1>12. CodesTypeOK' /\ Len(codes) <= Len(codes')
  <2>1. codes' = codes /\ Len(codes) \in Nat
    BY <1>2 DEF codeVars, CodesTypeOK
  <2> QED
    BY <1>2, <2>1 DEF codeVars, CodesTypeOK
<1>13. calls[k].pc # "social"
  BY <1>1, <1>3
<1> QED
  BY <1>2, <1>10, <1>11, <1>12, <1>13, QuietStep
\* A call that read a row begins.
LEMMA WriterBegins ==
    ASSUME IInv, NEW k \in Calls, NEW u \in Rows, NEW pc \in {"save", "restore", "remove"}, NEW copy \in UserRow,
           copy.by = users[u].by, u \notin stale => Fresh(copy), Begin(k, pc, u, copy, 0),
           UNCHANGED <<quiet, codeVars, refused>>
    PROVE  IInv'
<1>1. PICK c : c = [pc |-> pc, id |-> u, copy |-> copy, row |-> 0, outdated |-> FALSE]
  OBVIOUS
<1>2. u \in UserIds /\ users[u].state # "none"
  BY DEF Rows
<1>3. c \in Call
  BY <1>1, <1>2 DEF Call
<1>4. c.pc = pc /\ c.id = u /\ c.copy = copy
  BY <1>1
<1>5. CallOK(c)
  BY <1>2, <1>3, <1>4 DEF CallOK, Making, Writing
<1> QED
  BY <1>1, <1>5, BeginKeeps

LEMMA SignupBegins ==
    ASSUME IInv, NEW k \in Calls, NEW u \in UserIds, NEW done \in BOOLEAN, signup(k, u, done)
    PROVE  IInv'
<1>1. PICK row : row = users[u]
  OBVIOUS
<1>2. PICK copy : copy = [row EXCEPT !.active = TRUE, !.signedUp = @ \/ done,
                                     !.fills = IF done /\ @ < 2 THEN @ + 1 ELSE @]
  OBVIOUS
<1>3. row \in UserRow /\ u \in Rows /\ ~(row.active /\ row.signedUp) /\ (u \notin stale => Fresh(row))
  BY <1>1 DEF signup, MaySignUp, Rows, IInv, TypeOK, RowOK
<1>4. PICK fills \in 0..2 : fills = IF done /\ row.fills < 2 THEN row.fills + 1 ELSE row.fills
  BY <1>3 DEF UserRow
<1>5. PICK signedUp \in BOOLEAN : signedUp <=> row.signedUp \/ done
  OBVIOUS
<1>6. row.signedUp \in BOOLEAN
  BY <1>3 DEF UserRow
<1>7. copy = [row EXCEPT !.active = TRUE, !.signedUp = signedUp, !.fills = fills]
  <2>1. (row.signedUp \/ done) = signedUp
    BY <1>5, <1>6
  <2> QED
    BY <1>2, <1>4, <2>1
<1>8. copy \in UserRow /\ copy.by = row.by /\ copy.fills = fills /\ copy.active = TRUE /\ copy.signedUp = signedUp
  BY <1>3, <1>7 DEF UserRow
<1>9. u \notin stale => Fresh(copy)
  <2>1. row.fills \in 0..2
    BY <1>3 DEF UserRow
  <2>2. u \notin stale => row.fills = 0
    BY <1>3, <2>1 DEF Fresh
  <2> QED
    BY <1>4, <1>5, <1>8, <2>2 DEF Fresh
<1>10. Begin(k, "save", u, copy, 0) /\ UNCHANGED <<quiet, codeVars, refused>>
  BY <1>1, <1>2 DEF signup, quiet
<1> QED
  BY <1>1, <1>3, <1>8, <1>9, <1>10, WriterBegins

LEMMA ProfileBegins ==
    ASSUME IInv, NEW k \in Calls, NEW u \in UserIds, updateProfile(k, u)
    PROVE  IInv'
<1>1. PICK row : row = users[u]
  OBVIOUS
<1>2. PICK undeleted : undeleted = [row EXCEPT !.state = "live", !.active = TRUE]
  OBVIOUS
<1>3. row \in UserRow /\ u \in Rows /\ (u \notin stale => Fresh(row))
  BY <1>1 DEF updateProfile, IInv, TypeOK, RowOK
<1>4. undeleted \in UserRow /\ undeleted.by = row.by /\ (Fresh(row) => Fresh(undeleted))
  BY <1>2, <1>3 DEF UserRow, Fresh
<1>5. \/ Begin(k, "save", u, row, 0)
      \/ Begin(k, "restore", u, undeleted, 0)
      \/ Begin(k, "remove", u, row, 0)
  BY <1>1, <1>2 DEF updateProfile
<1>6. UNCHANGED <<quiet, codeVars, refused>>
  BY DEF updateProfile, quiet
<1>7. CASE Begin(k, "save", u, row, 0)
  BY <1>1, <1>3, <1>6, <1>7, WriterBegins
<1>8. CASE Begin(k, "restore", u, undeleted, 0)
  BY <1>1, <1>3, <1>4, <1>6, <1>8, WriterBegins
<1>9. CASE Begin(k, "remove", u, row, 0)
  BY <1>1, <1>3, <1>6, <1>9, WriterBegins
<1> QED
  BY <1>5, <1>7, <1>8, <1>9

----------------------------------------------------------------------------
(* Calls that write rows. *)

LEMMA OthersWritten ==
    ASSUME IInv, RowsStay, NEW ids, NEW k, NEW pc, Written(ids, k, pc),
           \A u \in UserIds \ ids : users'[u] = users[u]
    PROVE  \A j \in Calls \ {k} : CallOK(calls[j])' /\ calls'[j].pc = calls[j].pc /\ calls'[j].id = calls[j].id
<1> SUFFICES ASSUME NEW j \in Calls \ {k}
             PROVE  CallOK(calls[j])' /\ calls'[j].pc = calls[j].pc /\ calls'[j].id = calls[j].id
  OBVIOUS
<1>1. PICK c, outdated : c = calls[j] /\ outdated = (c.outdated \/ c.id \in ids \/ c.pc = "insert")
  OBVIOUS
<1>2. c \in Call /\ CallOK(c) /\ c.outdated \in BOOLEAN /\ outdated \in BOOLEAN
  BY <1>1 DEF IInv, TypeOK, Call
<1>3. calls'[j] = [c EXCEPT !.outdated = outdated]
  BY <1>1 DEF Written
<1>4. calls'[j] \in {c, [c EXCEPT !.outdated = TRUE]}
  <2>1. CASE outdated = TRUE
    BY <1>3, <2>1
  <2>2. CASE outdated = FALSE
    <3>1. c.outdated = FALSE
      BY <1>1, <1>2, <2>2
    <3>2. [c EXCEPT !.outdated = FALSE] = c
      BY <1>2, <3>1 DEF Call
    <3> QED
      BY <1>3, <2>2, <3>2
  <2> QED
    BY <1>2, <2>1, <2>2
<1>5. calls'[j].outdated = outdated /\ calls'[j].pc = c.pc /\ calls'[j].id = c.id
  BY <1>2, <1>3 DEF Call
<1>6. Stays(j)
  <2>1. c.pc \in Writing => c.id \in UserIds
    BY <1>2 DEF CallOK
  <2> QED
    BY <1>1, <1>4, <1>5, <2>1 DEF Stays
<1> QED
  BY <1>1, <1>2, <1>5, <1>6, StaysOK

\* Rows are written: those in ids, by the call in slot k or by none.
LEMMA WriteStep ==
    ASSUME IInv, RowsStay, NEW ids, NEW k, NEW pc, Written(ids, k, pc),
           users' \in [UserIds -> UserRow], Made' \subseteq Made, social' \subseteq Rows',
           ordered' \in [UserIds -> {"none", "live", "deleted", "removed"}],
           stale' \cup overrun' \subseteq UserIds, overrun \subseteq overrun',
           \A u \in UserIds \ ids : /\ users'[u] = users[u] /\ ordered'[u] = ordered[u]
                                    /\ u \in social => u \in social',
           \A u \in UserIds \cap ids : RowOK(u)',
           k \in Calls => calls[k].pc # "social" /\ CallOK(calls[k])',
           job'.due \subseteq job'.sawDeleted,
           UNCHANGED <<codeVars, called, refused>>
    PROVE  IInv'
<1>1. \A j \in Calls \ {k} : CallOK(calls[j])' /\ calls'[j].pc = calls[j].pc /\ calls'[j].id = calls[j].id
  BY OthersWritten
<1>2. \A j \in Calls : CallOK(calls[j])'
  BY <1>1
<1>3. \A u \in UserIds : RowOK(u)'
  <2> SUFFICES ASSUME NEW u \in UserIds \ ids PROVE RowOK(u)'
    OBVIOUS
  <2>1. stale \subseteq stale'
    BY DEF RowsStay
  <2>2. \A j \in Calls : calls[j].pc = "social" /\ calls[j].id = u => calls'[j].pc = "social" /\ calls'[j].id = u
    BY <1>1
  <2>3. RowOK(u)
    BY DEF IInv
  <2> QED
    BY <2>1, <2>2, <2>3, RowStays
<1>4. calls' \in [Calls -> Call]
  <2>1. \A j \in Calls : calls'[j] \in Call
    BY <1>2 DEF CallOK
  <2> QED
    BY <2>1 DEF Written
<1>5. CodesTypeOK'
  BY DEF IInv, TypeOK, CodesTypeOK, codeVars
<1>6. TypeOK'
  BY <1>4, <1>5 DEF IInv, TypeOK
<1>7. IsFiniteSet(Made')
  BY FS_Subset DEF IInv
<1>8. (job.due \subseteq job.sawDeleted)' /\ FALSE \notin refused'
  BY DEF IInv
<1> QED
  BY <1>2, <1>3, <1>6, <1>7, <1>8 DEF IInv
\* What the call in slot k is written as.
LEMMA WrittenCall ==
    ASSUME IInv, NEW k \in Calls, NEW ids, NEW pc, Written(ids, k, pc)
    PROVE  /\ pc = "idle" => calls'[k] = Idle /\ CallOK(calls[k])'
           /\ pc # "idle" => calls'[k] = [calls[k] EXCEPT !.pc = pc]
<1>1. pc = "idle" => calls'[k] = Idle
  BY DEF Written
<1>2. pc # "idle" => calls'[k] = [calls[k] EXCEPT !.pc = pc]
  BY DEF Written
<1>3. ASSUME pc = "idle" PROVE CallOK(calls[k])'
  BY <1>1, <1>3, IdleIsOK, Becomes
<1> QED
  BY <1>1, <1>2, <1>3

LEMMA CodesAreKept ==
    ASSUME IInv, UNCHANGED codeVars
    PROVE  codes' = codes /\ old' = old /\ Len(codes) <= Len(codes') /\ codes \in Seq(UserOtp) /\ codes' \in Seq(UserOtp)
<1>1. codes' = codes /\ old' = old /\ codes \in Seq(UserOtp)
  BY DEF codeVars, IInv, TypeOK, CodesTypeOK
<1>2. Len(codes) \in Nat
  BY <1>1
<1> QED
  BY <1>1, <1>2

LEMMA Restores ==
    ASSUME IInv, NEW k \in Calls, RestoreUser(k)
    PROVE  IInv'
<1>1. PICK c, u : c = calls[k] /\ u = c.id
  OBVIOUS
<1>2. c \in Call /\ CallOK(c) /\ c.pc = "restore" /\ u \in UserIds /\ users[u].state # "none"
  BY <1>1 DEF IInv, RestoreUser, CallOK, Writing
<1>3. users[u] \in UserRow /\ RowOK(u) /\ users \in [UserIds -> UserRow]
  BY <1>2 DEF IInv, TypeOK
<1>4. PICK row : row = [users[u] EXCEPT !.state = "live"]
  OBVIOUS
<1>5. row \in UserRow /\ row.state = "live" /\ row.by = users[u].by /\ (Fresh(users[u]) => Fresh(row))
  BY <1>3, <1>4 DEF UserRow, Fresh
<1>6. /\ users' = IF u \in Rows THEN [users EXCEPT ![u] = row] ELSE users
      /\ ordered' = IF u \in Rows THEN [ordered EXCEPT ![u] = "live"] ELSE ordered
      /\ Written({u}, k, "saveRestored")
      /\ UNCHANGED <<codeVars, social, job, called, stale, overrun, refused>>
  BY <1>1, <1>4 DEF RestoreUser
<1>7. users' \in [UserIds -> UserRow] /\ ordered' \in [UserIds -> {"none", "live", "deleted", "removed"}]
  BY <1>3, <1>5, <1>6 DEF IInv, TypeOK
<1>8. \A v \in UserIds : users'[v] = IF u \in Rows /\ v = u THEN row ELSE users[v]
  BY <1>3, <1>6
<1>9. \A v \in UserIds : ordered'[v] = IF u \in Rows /\ v = u THEN "live" ELSE ordered[v]
  BY <1>6 DEF IInv, TypeOK
<1>10. \A v \in UserIds : users'[v].by = users[v].by /\ (users'[v].state # "none" <=> users[v].state # "none")
  BY <1>2, <1>5, <1>8
<1>11. RowsStay
  BY <1>6, <1>10, CodesAreKept DEF RowsStay
<1>12. Rows' = Rows
  BY <1>5, <1>8 DEF Rows
<1>13. CallOK(calls[k])'
  <2>1. PICK d : d = [c EXCEPT !.pc = "saveRestored"]
    OBVIOUS
  <2>2. d \in Call /\ d.pc = "saveRestored" /\ d.id = u /\ d.copy = c.copy /\ d.outdated = c.outdated
    BY <1>1, <1>2, <2>1 DEF Call
  <2>3. /\ c.copy.by = users'[u].by /\ users'[u].state # "none"
        /\ ~c.outdated => u \in Rows' /\ users'[u].state = "live"
        /\ ~c.outdated /\ u \notin stale' => Fresh(c.copy)
    BY <1>1, <1>2, <1>5, <1>6, <1>8, <1>10, <1>12 DEF CallOK, Writing
  <2>4. CallOK(d)'
    BY <1>2, <2>2, <2>3 DEF CallOK, Making, Writing, Live
  <2>5. calls'[k] = d
    BY <1>1, <1>6, <2>1, WrittenCall
  <2> QED
    BY <2>4, <2>5, Becomes
<1>14. RowOK(u)'
  <2>1. u \in Rows' \ (social' \cup overrun') /\ users'[u].by = "social" =>
          \E j \in Calls : calls[j].pc = "social" /\ calls[j].id = u /\ j # k
    BY <1>1, <1>2, <1>3, <1>6, <1>10, <1>12 DEF RowOK
  <2>2. \A j \in Calls \ {k} : calls'[j].pc = calls[j].pc /\ calls'[j].id = calls[j].id
    BY <1>6, <1>8, <1>11, OthersWritten
  <2>3. u \notin stale' => Fresh(users'[u])
    BY <1>2, <1>3, <1>5, <1>6, <1>8 DEF RowOK
  <2>4. u \notin overrun' => users'[u].state = ordered'[u]
    BY <1>2, <1>3, <1>5, <1>6, <1>8, <1>9 DEF RowOK
  <2> QED
    BY <2>1, <2>2, <2>3, <2>4 DEF RowOK
<1>15. /\ Made' \subseteq Made /\ social' \subseteq Rows' /\ stale' \cup overrun' \subseteq UserIds
       /\ overrun \subseteq overrun' /\ job'.due \subseteq job'.sawDeleted
       /\ calls[k].pc # "social" /\ UNCHANGED <<codeVars, called, refused>>
  BY <1>1, <1>2, <1>6, <1>10, <1>12 DEF Made, IInv, TypeOK
<1>16. \A v \in UserIds \ {u} : users'[v] = users[v] /\ ordered'[v] = ordered[v] /\ (v \in social => v \in social')
  BY <1>6, <1>8, <1>9
<1> QED
  BY <1>6, <1>7, <1>11, <1>13, <1>14, <1>15, <1>16, WriteStep

LEMMA Saves ==
    ASSUME IInv, NEW k \in Calls, SaveUser(k)
    PROVE  IInv'
<1>1. PICK c, u : c = calls[k] /\ u = c.id
  OBVIOUS
<1>2. c \in Call /\ CallOK(c) /\ c.pc \in {"save", "saveRestored"} /\ u \in UserIds /\ users[u].state # "none"
  BY <1>1 DEF IInv, SaveUser, CallOK, Writing
<1>3. users[u] \in UserRow /\ RowOK(u) /\ users \in [UserIds -> UserRow] /\ c.copy \in UserRow /\ c.outdated \in BOOLEAN
  BY <1>2 DEF IInv, TypeOK, Call
<1>4. /\ c.copy.by = users[u].by
      /\ ~c.outdated => u \in Rows /\ (c.pc = "saveRestored" => users[u].state = "live")
      /\ ~c.outdated /\ u \notin stale => Fresh(c.copy)
  BY <1>1, <1>2 DEF CallOK, Writing, Live
<1>5. CASE UNCHANGED <<users, stale, overrun>> /\ Goes(k, "idle")
  <2>1. calls' = [calls EXCEPT ![k] = Idle] /\ calls[k].pc # "social"
    BY <1>1, <1>2, <1>5, GoesOn
  <2>2. UNCHANGED quiet /\ UNCHANGED codeVars /\ called' \in 0..MaxCalls /\ FALSE \notin refused'
    BY <1>5 DEF SaveUser, quiet, IInv, TypeOK
  <2>3. CodesTypeOK'
    BY <2>2 DEF IInv, TypeOK, CodesTypeOK, codeVars
  <2> QED
    BY <2>1, <2>2, <2>3, IdleIsOK, CodesAreKept, QuietStep
<1>6. ASSUME ~(UNCHANGED <<users, stale, overrun>> /\ Goes(k, "idle"))
      PROVE  IInv'
  <2>1. PICK state : state = SavedState(c)
    OBVIOUS
  <2>2. state = IF c.pc = "save" /\ u \in Rows THEN users[u].state ELSE "live"
    BY <1>1, <2>1 DEF SavedState
  <2>3. state \in {"live", "deleted"}
    BY <2>2 DEF Rows
  <2>4. PICK row : row = [c.copy EXCEPT !.state = state]
    OBVIOUS
  <2>5. row \in UserRow /\ row.state = state /\ row.by = users[u].by /\ (Fresh(c.copy) => Fresh(row))
    BY <1>3, <1>4, <2>3, <2>4 DEF UserRow, Fresh
  <2>6. /\ users' = [users EXCEPT ![u] = row]
        /\ stale' = IF c.outdated THEN stale \cup {u} ELSE stale
        /\ overrun' = IF c.outdated /\ (c.pc = "saveRestored" \/ u \notin Rows) THEN overrun \cup {u} ELSE overrun
        /\ Written({u}, k, "idle")
    BY <1>1, <1>6, <2>1, <2>4 DEF SaveUser
  <2>7. UNCHANGED <<codeVars, social, job, called, ordered, refused>>
    BY DEF SaveUser
  <2>8. users' \in [UserIds -> UserRow] /\ \A v \in UserIds : users'[v] = IF v = u THEN row ELSE users[v]
    BY <1>2, <1>3, <2>5, <2>6
  <2>9. \A v \in UserIds : users'[v].by = users[v].by /\ (users'[v].state # "none" <=> users[v].state # "none")
    BY <1>2, <2>3, <2>5, <2>8
  <2>10. RowsStay
    BY <2>6, <2>7, <2>9, CodesAreKept DEF RowsStay
  <2>11. Rows' = Rows \cup {u}
    BY <1>2, <2>3, <2>5, <2>8 DEF Rows
  <2>12. CallOK(calls[k])'
    BY <2>6, WrittenCall
  <2>13. u \notin overrun' => u \in Rows /\ state = users[u].state
    BY <1>2, <1>4, <2>2, <2>6
  <2>14. RowOK(u)'
    <3>1. u \in Rows' \ (social' \cup overrun') /\ users'[u].by = "social" =>
            \E j \in Calls : calls[j].pc = "social" /\ calls[j].id = u /\ j # k
      BY <1>1, <1>2, <1>3, <2>6, <2>7, <2>9, <2>13 DEF RowOK
    <3>2. \A j \in Calls \ {k} : calls'[j].pc = calls[j].pc /\ calls'[j].id = calls[j].id
      BY <2>6, <2>8, <2>10, OthersWritten
    <3>3. u \notin stale' => Fresh(users'[u])
      BY <1>2, <1>4, <2>5, <2>6, <2>8
    <3>4. u \notin overrun' => users'[u].state = ordered'[u]
      BY <1>2, <1>3, <2>5, <2>6, <2>7, <2>8, <2>13 DEF RowOK
    <3> QED
      BY <3>1, <3>2, <3>3, <3>4 DEF RowOK
  <2>15. /\ Made' \subseteq Made /\ social' \subseteq Rows' /\ stale' \cup overrun' \subseteq UserIds
         /\ overrun \subseteq overrun' /\ job'.due \subseteq job'.sawDeleted
         /\ calls[k].pc # "social" /\ UNCHANGED <<codeVars, called, refused>>
         /\ ordered' \in [UserIds -> {"none", "live", "deleted", "removed"}]
    BY <1>1, <1>2, <2>6, <2>7, <2>9, <2>11 DEF Made, IInv, TypeOK
  <2>16. \A v \in UserIds \ {u} : users'[v] = users[v] /\ ordered'[v] = ordered[v] /\ (v \in social => v \in social')
    BY <2>7, <2>8
  <2> QED
    BY <2>6, <2>8, <2>10, <2>12, <2>14, <2>15, <2>16, WriteStep
<1> QED
  BY <1>5, <1>6
\* What is left when rows are removed.
LEMMA RemovedRows ==
    ASSUME IInv, NEW ids, users' = Removed(ids), UNCHANGED <<codeVars, stale>>
    PROVE  /\ RowsStay /\ Made' \subseteq Made /\ Rows' = Rows \ ids
           /\ users' \in [UserIds -> UserRow]
           /\ \A v \in UserIds \ ids : users'[v] = users[v]
           /\ \A v \in UserIds \cap ids :
                /\ users'[v].state = IF v \in Rows THEN "removed" ELSE users[v].state
                /\ v \notin stale' => Fresh(users'[v])
                /\ v \notin Rows'
<1>1. \A v \in UserIds : users[v] \in UserRow /\ users'[v] =
         IF v \in ids \cap Rows THEN [users[v] EXCEPT !.state = "removed"] ELSE users[v]
  BY DEF Removed, IInv, TypeOK
<1>2. ASSUME NEW v \in UserIds
      PROVE  /\ users'[v] \in UserRow /\ users'[v].by = users[v].by
             /\ users'[v].state = IF v \in ids \cap Rows THEN "removed" ELSE users[v].state
             /\ Fresh(users[v]) => Fresh(users'[v])
  <2>1. PICK row : row = users[v]
    OBVIOUS
  <2>2. row \in UserRow
    BY <1>1, <2>1
  <2>3. CASE v \in ids \cap Rows
    <3>1. users'[v] = [row EXCEPT !.state = "removed"]
      BY <1>1, <2>1, <2>3
    <3> QED
      BY <2>1, <2>2, <2>3, <3>1 DEF UserRow, Fresh
  <2>4. CASE v \notin ids \cap Rows
    BY <1>1, <2>4
  <2> QED
    BY <2>3, <2>4
<1>3. \A v \in UserIds : users'[v].state # "none" <=> users[v].state # "none"
  BY <1>2 DEF Rows
<1>4. users' \in [UserIds -> UserRow]
  BY <1>2 DEF Removed
<1>5. RowsStay
  BY <1>2, <1>3, CodesAreKept DEF RowsStay
<1>6. Rows' = Rows \ ids
  BY <1>2 DEF Rows
<1>7. \A v \in UserIds : v \notin stale' => Fresh(users'[v])
  BY <1>2 DEF IInv, RowOK
<1> QED
  BY <1>1, <1>2, <1>3, <1>4, <1>5, <1>6, <1>7 DEF Made

LEMMA Removes ==
    ASSUME IInv, NEW k \in Calls, RemoveUser(k)
    PROVE  IInv'
<1>1. PICK u : u = calls[k].id
  OBVIOUS
<1>2. u \in UserIds /\ RowOK(u) /\ calls[k].pc # "social"
  BY <1>1 DEF IInv, RemoveUser, CallOK, Writing
<1>3. /\ users' = Removed({u}) /\ social' = social \ {u} /\ Written({u}, k, "idle")
      /\ ordered' = IF u \in Rows THEN [ordered EXCEPT ![u] = "removed"] ELSE ordered
      /\ UNCHANGED <<codeVars, job, called, stale, overrun, refused>>
  BY <1>1 DEF RemoveUser
<1>4. /\ RowsStay /\ Made' \subseteq Made /\ Rows' = Rows \ {u} /\ users' \in [UserIds -> UserRow]
      /\ \A v \in UserIds \ {u} : users'[v] = users[v]
      /\ users'[u].state = IF u \in Rows THEN "removed" ELSE users[u].state
      /\ u \notin stale' => Fresh(users'[u])
  BY <1>2, <1>3, RemovedRows
<1>5. /\ ordered' \in [UserIds -> {"none", "live", "deleted", "removed"}]
      /\ \A v \in UserIds : ordered'[v] = IF v = u /\ u \in Rows THEN "removed" ELSE ordered[v]
  BY <1>2, <1>3 DEF IInv, TypeOK
<1>6. RowOK(u)'
  BY <1>2, <1>3, <1>4, <1>5 DEF RowOK
<1>7. CallOK(calls[k])'
  BY <1>3, WrittenCall
<1>8. /\ social' \subseteq Rows' /\ stale' \cup overrun' \subseteq UserIds
      /\ overrun \subseteq overrun' /\ job'.due \subseteq job'.sawDeleted
      /\ UNCHANGED <<codeVars, called, refused>>
  BY <1>3, <1>4 DEF IInv, TypeOK
<1>9. \A v \in UserIds \ {u} : users'[v] = users[v] /\ ordered'[v] = ordered[v] /\ (v \in social => v \in social')
  BY <1>3, <1>4, <1>5
<1> QED
  BY <1>2, <1>3, <1>4, <1>5, <1>6, <1>7, <1>8, <1>9, WriteStep

LEMMA Deletes ==
    ASSUME IInv, NEW u \in UserIds, deleteAccount(u)
    PROVE  IInv'
<1>1. PICK row : row = [users[u] EXCEPT !.state = "deleted"]
  OBVIOUS
<1>2. users[u] \in UserRow /\ users[u].state = "live" /\ RowOK(u) /\ users \in [UserIds -> UserRow] /\ u \in Rows
  BY DEF deleteAccount, IInv, TypeOK, Live, Rows
<1>3. row \in UserRow /\ row.state = "deleted" /\ row.by = users[u].by /\ (Fresh(users[u]) => Fresh(row))
  BY <1>1, <1>2 DEF UserRow, Fresh
<1>4. /\ users' = [users EXCEPT ![u] = row] /\ ordered' = [ordered EXCEPT ![u] = "deleted"]
      /\ Written({u}, None, "idle")
      /\ UNCHANGED <<codeVars, social, job, called, stale, overrun, refused>>
  BY <1>1 DEF deleteAccount
<1>5. users' \in [UserIds -> UserRow] /\ \A v \in UserIds : users'[v] = IF v = u THEN row ELSE users[v]
  BY <1>2, <1>3, <1>4
<1>6. /\ ordered' \in [UserIds -> {"none", "live", "deleted", "removed"}]
      /\ \A v \in UserIds : ordered'[v] = IF v = u THEN "deleted" ELSE ordered[v]
  BY <1>4 DEF IInv, TypeOK
<1>7. \A v \in UserIds : users'[v].by = users[v].by /\ (users'[v].state # "none" <=> users[v].state # "none")
  BY <1>2, <1>3, <1>5
<1>8. RowsStay
  BY <1>4, <1>7, CodesAreKept DEF RowsStay
<1>9. Rows' = Rows
  BY <1>2, <1>3, <1>5 DEF Rows
<1>10. RowOK(u)'
  <2>1. u \in Rows' \ (social' \cup overrun') /\ users'[u].by = "social" =>
          \E j \in Calls : calls[j].pc = "social" /\ calls[j].id = u
    BY <1>2, <1>4, <1>7, <1>9 DEF RowOK
  <2>2. \A j \in Calls : calls'[j].pc = calls[j].pc /\ calls'[j].id = calls[j].id
    <3>1. \A v \in UserIds \ {u} : users'[v] = users[v]
      BY <1>5
    <3>2. Calls \ {None} = Calls
      OBVIOUS
    <3> QED
      BY <1>4, <1>8, <3>1, <3>2, OthersWritten
  <2>3. (u \notin stale' => Fresh(users'[u])) /\ users'[u].state = ordered'[u]
    BY <1>2, <1>3, <1>4, <1>5, <1>6 DEF RowOK
  <2> QED
    BY <2>1, <2>2, <2>3 DEF RowOK
<1>11. /\ Made' \subseteq Made /\ social' \subseteq Rows' /\ stale' \cup overrun' \subseteq UserIds
       /\ overrun \subseteq overrun' /\ job'.due \subseteq job'.sawDeleted
       /\ UNCHANGED <<codeVars, called, refused>> /\ None \notin Calls
  BY <1>4, <1>7, <1>9 DEF Made, IInv, TypeOK
<1>12. \A v \in UserIds \ {u} : users'[v] = users[v] /\ ordered'[v] = ordered[v] /\ (v \in social => v \in social')
  BY <1>4, <1>5, <1>6
<1> QED
  BY <1>4, <1>5, <1>6, <1>8, <1>10, <1>11, <1>12, WriteStep

LEMMA HardDeletes ==
    ASSUME IInv, HardDeleteUserByIds
    PROVE  IInv'
<1>1. PICK due, saw : due = job.due /\ saw = job.sawDeleted
  OBVIOUS
<1>2. /\ users' = Removed(due) /\ social' = social \ due /\ job' = NoJob /\ Written(due, None, "idle")
      /\ ordered' = [u \in UserIds |-> IF u \in due /\ users[u].state = "deleted" THEN "removed" ELSE ordered[u]]
      /\ overrun' = overrun \cup (due \cap Live \cap saw)
      /\ UNCHANGED <<codeVars, called, stale, refused>>
  BY <1>1 DEF HardDeleteUserByIds
<1>3. /\ RowsStay /\ Made' \subseteq Made /\ Rows' = Rows \ due /\ users' \in [UserIds -> UserRow]
      /\ \A v \in UserIds \ due : users'[v] = users[v]
      /\ \A v \in UserIds \cap due :
           /\ users'[v].state = IF v \in Rows THEN "removed" ELSE users[v].state
           /\ v \notin stale' => Fresh(users'[v])
           /\ v \notin Rows'
  BY <1>2, RemovedRows
<1>4. \A u \in UserIds \cap due : RowOK(u)'
  <2> SUFFICES ASSUME NEW u \in UserIds \cap due PROVE RowOK(u)'
    OBVIOUS
  <2>1. u \notin overrun' => u \notin overrun /\ users[u].state # "live"
    BY <1>1, <1>2 DEF IInv, Live
  <2>2. ordered'[u] = IF users[u].state = "deleted" THEN "removed" ELSE ordered[u]
    BY <1>2
  <2>3. u \in Rows <=> users[u].state \in {"live", "deleted"}
    BY DEF Rows
  <2>4. u \notin overrun' => users'[u].state = ordered'[u]
    BY <1>3, <2>1, <2>2, <2>3 DEF IInv, RowOK
  <2> QED
    BY <1>3, <2>4 DEF RowOK
<1>5. /\ social' \subseteq Rows' /\ stale' \cup overrun' \subseteq UserIds
      /\ overrun \subseteq overrun' /\ job'.due \subseteq job'.sawDeleted
      /\ UNCHANGED <<codeVars, called, refused>> /\ None \notin Calls
      /\ ordered' \in [UserIds -> {"none", "live", "deleted", "removed"}]
  <2>1. Live \subseteq UserIds
    BY DEF Live
  <2> QED
    BY <1>2, <1>3, <2>1 DEF IInv, TypeOK, NoJob
<1>6. \A v \in UserIds \ due : users'[v] = users[v] /\ ordered'[v] = ordered[v] /\ (v \in social => v \in social')
  BY <1>2, <1>3
<1> QED
  BY <1>2, <1>3, <1>4, <1>5, <1>6, WriteStep
\* The row made is live and free of what others wrote; whose social account is
\* to come has its call.
LEMMA Inserts ==
    ASSUME IInv, NEW k \in Calls, InsertUser(k)
    PROVE  IInv'
<1>1. PICK call, c : call = calls[k] /\ c = call.copy
  OBVIOUS
<1>2. /\ call \in Call /\ CallOK(call) /\ call.pc = "insert" /\ c \in UserRow /\ c.email \in Users /\ c.fills = 0
      /\ call.outdated \in BOOLEAN
  BY <1>1 DEF IInv, TypeOK, InsertUser, CallOK, Call, Making
<1>3. UNCHANGED <<codeVars, social, job, called, stale, overrun>> /\ calls[k].pc # "social"
  BY <1>1, <1>2 DEF InsertUser
<1>4. CodesTypeOK' /\ called' \in 0..MaxCalls
  BY <1>3 DEF IInv, TypeOK, CodesTypeOK, codeVars
<1>5. ASSUME InsertRefused(k, c)
      PROVE  IInv'
  <2>1. FALSE \notin refused'
    <3>1. ~EmailTaken(c.email) /\ c.by = "setPassword" => call.outdated
      BY <1>1, <1>2, <1>5 DEF CallOK, InsertRefused
    <3>2. FALSE \notin refused
      BY DEF IInv
    <3> QED
      BY <1>1, <1>2, <1>5, <3>1, <3>2 DEF InsertRefused
  <2>2. calls' = [calls EXCEPT ![k] = Idle]
    BY <1>1, <1>5, GoesOn DEF InsertRefused
  <2>3. UNCHANGED quiet
    BY <1>3, <1>5 DEF quiet, InsertRefused
  <2>4. Len(codes) <= Len(codes')
    BY <1>3, CodesAreKept
  <2> QED
    BY <1>3, <1>4, <2>1, <2>2, <2>3, <2>4, IdleIsOK, QuietStep
<1>6. ASSUME NEW u \in UserIds, InsertDone(k, c, u)
      PROVE  IInv'
  <2>1. PICK row : row = [c EXCEPT !.state = "live"]
    OBVIOUS
  <2>2. row \in UserRow /\ row.state = "live" /\ row.by = c.by /\ row.fills = 0
    BY <1>2, <2>1 DEF UserRow
  <2>3. users' \in [UserIds -> UserRow] /\ \A v \in UserIds : users'[v] = IF v = u THEN row ELSE users[v]
    BY <1>6, <2>1, <2>2 DEF IInv, TypeOK, InsertDone
  <2>4. users[u].state = "none"
    BY <1>6 DEF NoUser, InsertDone
  <2>5. \A v \in UserIds : users[v].state # "none" => users'[v] = users[v]
    BY <2>3, <2>4
  <2>6. RowsStay
    BY <1>3, <2>5, CodesAreKept DEF RowsStay
  <2>7. Rows' = Rows \cup {u} /\ u \notin Rows
    BY <2>2, <2>3, <2>4 DEF Rows
  <2>8. ASSUME NEW j \in Calls \ {k}
        PROVE  CallOK(calls[j])' /\ (calls[j].pc = "social" => calls'[j].pc = "social" /\ calls'[j].id = calls[j].id)
    <3>1. PICK b, outdated : b = calls[j] /\ outdated = (b.outdated \/ b.pc = "insert")
      OBVIOUS
    <3>2. b \in Call /\ CallOK(b) /\ b.outdated \in BOOLEAN /\ outdated \in BOOLEAN
      BY <3>1 DEF IInv, TypeOK, Call
    <3>3. calls'[j] = [b EXCEPT !.outdated = outdated]
      BY <1>6, <3>1 DEF InsertDone
    <3>4. calls'[j] \in {b, [b EXCEPT !.outdated = TRUE]}
      <4>1. CASE outdated = TRUE
        BY <3>3, <4>1
      <4>2. CASE outdated = FALSE
        <5>1. b.outdated = FALSE
          BY <3>1, <3>2, <4>2
        <5>2. [b EXCEPT !.outdated = FALSE] = b
          BY <3>2, <5>1 DEF Call
        <5> QED
          BY <3>3, <4>2, <5>2
      <4> QED
        BY <3>2, <4>1, <4>2
    <3>5. calls'[j].outdated = outdated /\ calls'[j].pc = b.pc /\ calls'[j].id = b.id
      BY <3>2, <3>3 DEF Call
    <3>6. Stays(j)
      <4>1. b.pc \in Writing => b.id \in UserIds /\ users[b.id].state # "none"
        BY <3>2 DEF CallOK
      <4>2. b.pc \in Writing => users'[b.id] = users[b.id]
        BY <2>5, <4>1
      <4>3. b.pc = "insert" => outdated
        BY <3>1, <3>2
      <4> QED
        BY <3>1, <3>4, <3>5, <4>2, <4>3 DEF Stays
    <3>7. CallOK(calls[j])'
      BY <2>6, <3>1, <3>2, <3>6, StaysOK
    <3> QED
      BY <3>1, <3>5, <3>7
  <2>9. CallOK(calls[k])' /\ (c.by = "social" => calls'[k].pc = "social" /\ calls'[k].id = u)
    <3>1. CASE c.by = "social"
      <4>1. PICK d : d = [call EXCEPT !.pc = "social", !.id = u]
        OBVIOUS
      <4>2. d \in Call /\ d.pc = "social" /\ d.id = u
        BY <1>2, <4>1 DEF Call
      <4>3. CallOK(d)'
        BY <4>2 DEF CallOK, Making, Writing
      <4>4. calls'[k] = d
        BY <1>1, <1>6, <3>1, <4>1 DEF InsertDone
      <4> QED
        BY <4>2, <4>3, <4>4, Becomes
    <3>2. CASE c.by # "social"
      <4>1. calls'[k] = Idle
        BY <1>6, <3>2 DEF InsertDone
      <4> QED
        BY <3>2, <4>1, IdleIsOK, Becomes
    <3> QED
      BY <3>1, <3>2
  <2>10. \A j \in Calls : CallOK(calls[j])'
    BY <2>8, <2>9
  <2>11. RowOK(u)'
    <3>1. ordered'[u] = "live" /\ users'[u] = row
      BY <1>6, <2>3 DEF IInv, TypeOK, InsertDone
    <3>2. Fresh(row)
      BY <2>2 DEF Fresh
    <3> QED
      BY <2>2, <2>9, <3>1, <3>2 DEF RowOK
  <2>12. \A v \in UserIds \ {u} : RowOK(v)'
    <3> SUFFICES ASSUME NEW v \in UserIds \ {u} PROVE RowOK(v)'
      OBVIOUS
    <3>1. RowOK(v) /\ users'[v] = users[v] /\ ordered'[v] = ordered[v]
      BY <1>6, <2>3 DEF IInv, TypeOK, InsertDone
    <3>2. \A j \in Calls : calls[j].pc = "social" /\ calls[j].id = v => calls'[j].pc = "social" /\ calls'[j].id = v
      BY <1>3, <2>8
    <3> QED
      BY <1>3, <3>1, <3>2, RowStays
  <2>13. calls' \in [Calls -> Call]
    <3>1. \A j \in Calls : calls'[j] \in Call
      BY <2>10 DEF CallOK
    <3> QED
      BY <1>6, <3>1 DEF InsertDone
  <2>14. TypeOK'
    BY <1>3, <1>4, <1>6, <2>3, <2>7, <2>13 DEF IInv, TypeOK, InsertDone
  <2>15. IsFiniteSet(Made')
    <3>1. Made' = Made \cup {u} /\ IsFiniteSet(Made)
      BY <2>2, <2>3 DEF Made, IInv
    <3> QED
      BY <3>1, FS_AddElement
  <2>16. (job.due \subseteq job.sawDeleted)' /\ FALSE \notin refused'
    BY <1>3, <1>6 DEF IInv, InsertDone
  <2> QED
    BY <2>10, <2>11, <2>12, <2>14, <2>15, <2>16 DEF IInv
<1> QED
  BY <1>1, <1>5, <1>6 DEF InsertUser

LEMMA CreatesSocial ==
    ASSUME IInv, NEW k \in Calls, CreateSocial(k)
    PROVE  IInv'
<1>1. PICK u : u = calls[k].id
  OBVIOUS
<1>2. u \in UserIds /\ calls[k].pc = "social"
  BY <1>1 DEF IInv, CreateSocial, CallOK
<1>3. /\ social' = social \cup ({u} \cap Rows) /\ calls' = [calls EXCEPT ![k] = Idle]
      /\ UNCHANGED <<codeVars, users, job, called, ordered, stale, overrun, refused>>
  BY <1>1, GoesOn DEF CreateSocial, WithSocialRow
<1>4. \A j \in Calls : calls'[j] = IF j = k THEN Idle ELSE calls[j]
  BY <1>3 DEF IInv, TypeOK
<1>5. Rows' = Rows
  BY <1>3 DEF Rows
<1>6. RowsStay
  BY <1>3, CodesAreKept DEF RowsStay
<1>7. \A j \in Calls : CallOK(calls[j])'
  <2>1. ASSUME NEW j \in Calls \ {k} PROVE CallOK(calls[j])'
    <3>1. CallOK(calls[j]) /\ Stays(j)
      BY <1>3, <1>4 DEF IInv, Stays
    <3> QED
      BY <1>6, <3>1, StaysOK
  <2>2. CallOK(calls[k])'
    BY <1>4, IdleIsOK, Becomes
  <2> QED
    BY <2>1, <2>2
<1>8. \A v \in UserIds : RowOK(v)'
  <2>1. RowOK(u)'
    BY <1>2, <1>3, <1>5 DEF RowOK, IInv
  <2>2. ASSUME NEW v \in UserIds \ {u} PROVE RowOK(v)'
    <3>1. RowOK(v) /\ \A j \in Calls : calls[j].pc = "social" /\ calls[j].id = v =>
                        calls'[j].pc = "social" /\ calls'[j].id = v
      BY <1>1, <1>4 DEF IInv
    <3> QED
      BY <1>3, <3>1, RowStays
  <2> QED
    BY <2>1, <2>2
<1>9. calls' \in [Calls -> Call] /\ CodesTypeOK'
  <2>1. \A j \in Calls : calls'[j] \in Call
    BY <1>7 DEF CallOK
  <2> QED
    BY <1>3, <2>1 DEF IInv, TypeOK, CodesTypeOK, codeVars
<1>10. TypeOK' /\ Made' = Made
  BY <1>3, <1>5, <1>9 DEF IInv, TypeOK, Made
<1> QED
  BY <1>3, <1>7, <1>8, <1>10 DEF IInv

LEMMA JobIsSent ==
    ASSUME IInv, HardDeleteUser
    PROVE  IInv'
<1>1. UNCHANGED <<codeVars, users, social, calls, called, ordered, stale, overrun, refused>>
  BY DEF HardDeleteUser
<1>2. job'.due \subseteq job'.sawDeleted
  BY DEF HardDeleteUser, MayBeDue
<1>3. RowsStay
  BY <1>1, CodesAreKept DEF RowsStay
<1>4. ASSUME NEW j \in Calls PROVE CallOK(calls[j])'
  <2>1. CallOK(calls[j]) /\ Stays(j)
    BY <1>1 DEF IInv, Stays
  <2> QED
    BY <1>3, <2>1, StaysOK
<1>5. TypeOK' /\ (\A u \in UserIds : RowOK(u)') /\ Made' = Made
  BY <1>1 DEF IInv, TypeOK, RowOK, Rows, Made, CodesTypeOK, codeVars
<1> QED
  BY <1>1, <1>2, <1>4, <1>5 DEF IInv

LEMMA CrashIsSafe ==
    ASSUME IInv, AuthCrash
    PROVE  IInv'
<1>1. UNCHANGED <<codeVars, users, social, job, called, ordered, stale, refused>>
      /\ calls' = [k \in Calls |-> Idle]
      /\ overrun' = overrun \cup {calls[k].id : k \in {j \in Calls : calls[j].pc = "social"}}
  BY DEF AuthCrash
<1>2. \A j \in Calls : CallOK(calls[j])' /\ calls'[j] \in Call
  BY <1>1, IdleIsOK, Becomes DEF CallOK
<1>3. overrun' \subseteq UserIds /\ overrun \subseteq overrun'
  BY <1>1 DEF IInv, TypeOK, CallOK
<1>4. ASSUME NEW u \in UserIds PROVE RowOK(u)'
  <2>1. RowOK(u)
    BY DEF IInv
  <2>2. \A j \in Calls : calls[j].pc = "social" /\ calls[j].id = u => u \in overrun'
    BY <1>1
  <2> QED
    BY <1>1, <1>3, <2>1, <2>2, RowStays
<1>5. CodesTypeOK' /\ calls' \in [Calls -> Call] /\ social' \subseteq Rows' /\ stale' \subseteq UserIds
  BY <1>1, <1>2 DEF IInv, TypeOK, CodesTypeOK, codeVars, Rows
<1>6. TypeOK' /\ Made' = Made
  BY <1>1, <1>3, <1>5 DEF IInv, TypeOK, Made
<1> QED
  BY <1>1, <1>2, <1>4, <1>6 DEF IInv

----------------------------------------------------------------------------
(* The invariant holds, and the properties follow. *)

LEMMA NextIInv == IInv /\ [Next]_vars => IInv'
<1> SUFFICES ASSUME IInv, [Next]_vars PROVE IInv'
  OBVIOUS
<1>1. ASSUME NEW k \in Calls,
             \/ \E e \in Users : \/ RegisterEmail(k, e)
                                 \/ \E role \in Roles : SocialCallback(k, e, role) \/ createByAdmin(k, e, role)
             \/ \E i \in 1..MaxCodes, role \in Roles : setPassword(k, i, role)
      PROVE  IInv'
  BY <1>1, MakersBegin
<1>2. ASSUME NEW k \in Calls,
             \/ EndCodes(k) \/ MailCode(k) \/ SpendCode(k) \/ ReadNumber(k)
             \/ InsertUser(k) \/ CreateSocial(k)
             \/ RestoreUser(k) \/ SaveUser(k) \/ RemoveUser(k)
      PROVE  IInv'
  BY <1>2, CodesStep, ReadsNumber, Inserts, CreatesSocial, Restores, Saves, Removes
<1>3. ASSUME NEW k \in Calls, NEW u \in UserIds, updateProfile(k, u) \/ \E done \in BOOLEAN : signup(k, u, done)
      PROVE  IInv'
  BY <1>3, ProfileBegins, SignupBegins
<1>4. ASSUME NEW u \in UserIds, deleteAccount(u) PROVE IInv'
  BY <1>4, Deletes
<1>5. CASE HardDeleteUser \/ HardDeleteUserByIds \/ AuthCrash
  BY <1>5, JobIsSent, HardDeletes, CrashIsSafe
<1>6. CASE UNCHANGED vars
  <2>1. RowsStay
    BY <1>6, CodesAreKept DEF vars, RowsStay
  <2>2. ASSUME NEW j \in Calls PROVE CallOK(calls[j])'
    <3>1. CallOK(calls[j]) /\ Stays(j)
      BY <1>6 DEF IInv, Stays, vars
    <3> QED
      BY <2>1, <3>1, StaysOK
  <2>3. TypeOK' /\ (\A u \in UserIds : RowOK(u)') /\ Made' = Made
    BY <1>6 DEF vars, IInv, TypeOK, RowOK, Rows, Made, CodesTypeOK, codeVars
  <2> QED
    BY <1>6, <2>2, <2>3 DEF IInv, vars
<1> QED
  BY <1>1, <1>2, <1>3, <1>4, <1>5, <1>6 DEF Next

LEMMA AccountInvariant == Spec => []IInv
BY InitIInv, NextIInv, PTL DEF Spec

\* setPassword is never refused for its user code (getCurrentUserByRole, then
\* createUser) unless another account was written between the two.
THEOREM LoneSignupAlwaysGetsItsCode == Spec => []LoneSignupGetsItsCode
<1>1. IInv => LoneSignupGetsItsCode
  BY DEF IInv, LoneSignupGetsItsCode
<1> QED
  BY <1>1, AccountInvariant, PTL

\* An account is what the last delete, restore or removal made it, whatever
\* updateProfile and signup save of rows they read before, but for the calls
\* that a removal or a restore overlapped.
THEOREM AccountAlwaysFollowsOrders == Spec => []AccountFollowsOrders
<1>1. IInv => AccountFollowsOrders
  BY DEF IInv, RowOK, AccountFollowsOrders
<1> QED
  BY <1>1, AccountInvariant, PTL

\* A completed signup is not overwritten by another signup, unless a call
\* wrote a row that was out of date.
THEOREM SignupAlwaysCompletesOnce == Spec => []SignupCompletesOnce
<1>1. IInv => SignupCompletesOnce
  BY DEF IInv, RowOK, Fresh, SignupCompletesOnce
<1> QED
  BY <1>1, AccountInvariant, PTL

\* Rows and calls keep their types, and who signed up by socialCallback finds
\* the social account again, unless the call that was to write it died or the
\* row was written back after a removal.
THEOREM SocialUserCanAlwaysReturn == Spec => []SocialUserCanReturn
<1>1. IInv => SocialUserCanReturn
  <2>1. Rows \subseteq UserIds
    BY DEF Rows
  <2> QED
    BY <2>1 DEF IInv, RowOK, SocialUserCanReturn
<1> QED
  BY <1>1, AccountInvariant, PTL

------

\* What follows is of no state.
HIDE CallsBound
HIDE RolesAssumption
HIDE CodesAssumption

----------------------------------------------------------------------------
(* What a babysitter is found by (Search).                                  *)

\* However many languages are asked for, and however many there are: who is
\* listed speaks all of them and who speaks all of them is listed, unless a
\* language is in the profile twice.
THEOREM ListedAlwaysSpeak ==
    ASSUME NEW rows, \A i, j \in DOMAIN rows : rows[i] = rows[j] => i = j,
           NEW languageIds, IsFiniteSet(languageIds)
    PROVE  MatchesLanguages(rows, languageIds) <=> languageIds \subseteq {rows[i] : i \in DOMAIN rows}
<1> DEFINE found == {i \in DOMAIN rows : rows[i] \in languageIds}
           language == [i \in found |-> rows[i]]
<1>1. language \in Injection(found, languageIds)
  BY DEF Injection, IsInjective
<1>2. language \in Surjection(found, languageIds) <=> languageIds \subseteq {rows[i] : i \in DOMAIN rows}
  BY DEF Surjection
<1>3. MatchesLanguages(rows, languageIds) <=> languageIds = {} \/ Cardinality(found) = Cardinality(languageIds)
  BY DEF MatchesLanguages
<1>4. languageIds = {} => languageIds \subseteq {rows[i] : i \in DOMAIN rows}
  OBVIOUS
<1> HIDE DEF found, language
<1>5. Cardinality(found) = Cardinality(languageIds) <=> language \in Surjection(found, languageIds)
  BY <1>1, FS_Injection
<1> QED
  BY <1>2, <1>3, <1>4, <1>5

LEMMA DivisionLeavesRest == \A d \in Nat, n \in Nat \ {0} : d = n * (d \div n) + (d % n)
OBVIOUS

\* The place in the list of what is on a page.
Place(page, limit, j) == (page - 1) * limit + j

\* What a page shows.
LEMMA PageShows ==
    ASSUME NEW T, NEW results \in Seq(T), NEW limit \in Nat \ {0}, NEW page \in Nat \ {0}
    PROVE  /\ PageOf(results, page, limit) \in Seq(T)
           /\ \A j \in Nat \ {0} : j \in DOMAIN PageOf(results, page, limit) <=>
                  j <= limit /\ Place(page, limit, j) <= Len(results)
           /\ \A j \in DOMAIN PageOf(results, page, limit) :
                  PageOf(results, page, limit)[j] = results[Place(page, limit, j)]
<1>1. PICK first \in Nat : first = (page - 1) * limit
  <2>1. page - 1 \in Nat
    OBVIOUS
  <2> QED
    BY <2>1
<1>2. page * limit = first + limit
  BY <1>1
<1>3. PICK n \in Nat : n = Len(results)
  OBVIOUS
<1>4. PICK last \in Nat : last = IF first + limit < n THEN first + limit ELSE n
  OBVIOUS
<1>5. PageOf(results, page, limit) = SubSeq(results, first + 1, last)
  BY <1>1, <1>2, <1>3, <1>4 DEF PageOf
<1>6. \A j : Place(page, limit, j) = first + j
  BY <1>1 DEF Place
<1>7. \A j \in (first + 1)..last : results[j] \in T
  BY <1>3, <1>4
<1> QED
  BY <1>3, <1>4, <1>5, <1>6, <1>7, SMTT(40)

\* However long the list and the pages: a page shows as many of the results as
\* it may, in their order; every result is on one of the pages and, as no two
\* places of pages are of the same one, nowhere else.
THEOREM EveryResultIsOnOnePage ==
    ASSUME NEW T, NEW results \in Seq(T), NEW limit \in Nat \ {0}
    PROVE  /\ \A page \in Nat \ {0} : \A j \in DOMAIN PageOf(results, page, limit) :
                  /\ j <= limit /\ Place(page, limit, j) \in DOMAIN results
                  /\ PageOf(results, page, limit)[j] = results[Place(page, limit, j)]
           /\ \A i \in DOMAIN results : \E page \in Nat \ {0} :
                  \E j \in DOMAIN PageOf(results, page, limit) : i = Place(page, limit, j)
           /\ \A page, other \in Nat \ {0} : \A j, k \in 1..limit :
                  Place(page, limit, j) = Place(other, limit, k) => page = other /\ j = k
<1>1. ASSUME NEW page \in Nat \ {0}, NEW j \in DOMAIN PageOf(results, page, limit)
      PROVE  /\ j <= limit /\ Place(page, limit, j) \in DOMAIN results
             /\ PageOf(results, page, limit)[j] = results[Place(page, limit, j)]
  <2>1. j \in Nat \ {0}
    <3>1. PICK shown \in Seq(T) : shown = PageOf(results, page, limit)
      BY PageShows
    <3> QED
      BY <3>1
  <2>2. j <= limit /\ Place(page, limit, j) <= Len(results)
    BY <2>1, PageShows
  <2>3. Place(page, limit, j) \in Nat \ {0}
    <3>1. page - 1 \in Nat
      OBVIOUS
    <3>2. (page - 1) * limit \in Nat
      BY <3>1
    <3> QED
      BY <2>1, <3>2 DEF Place
  <2>4. PageOf(results, page, limit)[j] = results[Place(page, limit, j)]
    <3>1. \A k \in DOMAIN PageOf(results, page, limit) :
            PageOf(results, page, limit)[k] = results[Place(page, limit, k)]
      BY PageShows
    <3> QED
      BY <3>1
  <2> QED
    BY <2>2, <2>3, <2>4
<1>2. ASSUME NEW i \in DOMAIN results
      PROVE  \E page \in Nat \ {0} : \E j \in DOMAIN PageOf(results, page, limit) : i = Place(page, limit, j)
  <2>1. PICK d \in Nat : d = i - 1
    OBVIOUS
  <2>2. PICK q \in Nat : q = d \div limit
    BY <2>1
  <2>3. PICK r \in Nat : r = d % limit /\ r < limit
    BY <2>1
  <2>4. d = q * limit + r
    <3>1. d = limit * (d \div limit) + (d % limit)
      BY DivisionLeavesRest
    <3> QED
      BY <2>2, <2>3, <3>1
  <2>5. Place(q + 1, limit, r + 1) = i
    <3>1. (q + 1) - 1 = q
      OBVIOUS
    <3> QED
      BY <2>1, <2>4, <3>1 DEF Place
  <2>6. r + 1 \in DOMAIN PageOf(results, q + 1, limit)
    <3>1. r + 1 \in Nat \ {0} /\ q + 1 \in Nat \ {0} /\ r + 1 <= limit /\ i <= Len(results)
      BY <2>3
    <3> QED
      BY <2>5, <3>1, PageShows
  <2> QED
    BY <2>5, <2>6
<1>3. ASSUME NEW page \in Nat \ {0}, NEW other \in Nat \ {0}, NEW j \in 1..limit, NEW k \in 1..limit, page < other
      PROVE  Place(page, limit, j) < Place(other, limit, k)
  <2>1. PICK more \in Nat : other = page + 1 + more
    <3>1. other - page - 1 \in Nat
      BY <1>3
    <3> QED
      BY <3>1
  <2>2. PICK first \in Nat : first = (page - 1) * limit
    <3>1. page - 1 \in Nat
      OBVIOUS
    <3> QED
      BY <3>1
  <2>3. (other - 1) * limit = first + limit + more * limit /\ more * limit \in Nat
    BY <2>1, <2>2
  <2> QED
    BY <2>2, <2>3 DEF Place
<1>4. ASSUME NEW page \in Nat \ {0}, NEW other \in Nat \ {0}, NEW j \in 1..limit, NEW k \in 1..limit,
             Place(page, limit, j) = Place(other, limit, k)
      PROVE  page = other /\ j = k
  <2>1. Place(page, limit, j) \in Int /\ Place(other, limit, k) \in Int
    BY DEF Place
  <2>2. ~(page < other) /\ ~(other < page)
    BY <1>3, <1>4, <2>1
  <2>3. page = other
    BY <2>2
  <2>4. (page - 1) * limit \in Int
    OBVIOUS
  <2> QED
    BY <1>4, <2>3, <2>4 DEF Place
<1> QED
  BY <1>1, <1>2, <1>4

----------------------------------------------------------------------------
(* What is listed (Listings), and the ages that are told (BookingLists).    *)

\* Whatever posts there are, the number beside the notices is never below what
\* a user can open, and above it exactly when one is hidden or for others.
THEOREM BadgeAlwaysCovers ==
    ASSUME NEW posts, IsFiniteSet(posts), NEW role
    PROVE  LET shown == getNotificationPostList(posts, role)
               total == getListUserPost(posts).total
           IN  /\ Cardinality(shown) <= total
               /\ Cardinality(shown) < total <=>
                    \E p \in Undeleted(posts) : /\ p.isAdminPost
                                                /\ ~p.isVisible \/ p.targetUserType \notin {role, "all"}
<1> DEFINE notices == {p \in Undeleted(posts) : p.isAdminPost}
           shown == getNotificationPostList(posts, role)
<1>1. getListUserPost(posts).total = Cardinality(notices)
  BY DEF getListUserPost
<1>2. IsFiniteSet(notices)
  <2>1. notices \subseteq posts
    BY DEF Undeleted
  <2> QED
    BY <2>1, FS_Subset
<1>3. shown \subseteq notices
  BY DEF getNotificationPostList
<1>4. shown # notices <=>
        \E p \in Undeleted(posts) : p.isAdminPost /\ (~p.isVisible \/ p.targetUserType \notin {role, "all"})
  BY DEF getNotificationPostList
<1> HIDE DEF notices, shown
<1>5. /\ Cardinality(shown) <= Cardinality(notices)
      /\ Cardinality(shown) = Cardinality(notices) => shown = notices
  BY <1>2, <1>3, FS_Subset
<1>6. Cardinality(shown) \in Nat /\ Cardinality(notices) \in Nat
  BY <1>2, <1>3, FS_Subset, FS_CardinalityType
<1>7. Cardinality(shown) < Cardinality(notices) <=> shown # notices
  BY <1>5, <1>6
<1> QED
  BY <1>1, <1>4, <1>5, <1>7 DEF shown

\* Of any list and for pages of any length: a page that slides by a row shows a
\* result on every page from its own place in the list back to the one that
\* begins the length of a page before it, and on no other.
THEOREM SlidingPagesAlwaysRepeat ==
    ASSUME NEW T, NEW results \in Seq(T), NEW limit \in Nat \ {0}, NEW page \in Nat \ {0}
    PROVE  /\ \A j \in DOMAIN SlidingPage(results, page, limit) :
                  SlidingPage(results, page, limit)[j] = results[page - 1 + j]
           /\ \A i \in DOMAIN results :
                  (\E j \in DOMAIN SlidingPage(results, page, limit) : i = page - 1 + j)
                    <=> page <= i /\ i < page + limit
<1>1. PICK n \in Nat : n = Len(results)
  OBVIOUS
<1>2. PICK last \in Nat : last = IF page - 1 + limit < n THEN page - 1 + limit ELSE n
  OBVIOUS
<1>3. SlidingPage(results, page, limit) = SubSeq(results, page, last)
  BY <1>1, <1>2 DEF SlidingPage
<1>4. \A j \in page..last : results[j] \in T
  BY <1>1, <1>2
<1>5. /\ \A j \in Nat \ {0} : j \in DOMAIN SubSeq(results, page, last) <=> page - 1 + j <= last
      /\ \A j \in DOMAIN SubSeq(results, page, last) : SubSeq(results, page, last)[j] = results[page - 1 + j]
  BY <1>1, <1>2, <1>4
<1>6. DOMAIN SubSeq(results, page, last) \subseteq Nat \ {0}
  BY <1>1, <1>2, <1>4
<1>7. ASSUME NEW i \in DOMAIN results
      PROVE  (\E j \in DOMAIN SubSeq(results, page, last) : i = page - 1 + j)
               <=> page <= i /\ i < page + limit
  <2>1. i \in 1..n
    BY <1>1
  <2>2. ASSUME page <= i, i < page + limit
        PROVE  i - page + 1 \in DOMAIN SubSeq(results, page, last) /\ i = page - 1 + (i - page + 1)
    <3>1. i - page + 1 \in Nat \ {0} /\ i = page - 1 + (i - page + 1) /\ i <= last
      BY <1>2, <2>1, <2>2
    <3> QED
      BY <1>5, <3>1
  <2>3. ASSUME NEW j \in DOMAIN SubSeq(results, page, last), i = page - 1 + j
        PROVE  page <= i /\ i < page + limit
    <3>1. j \in Nat \ {0} /\ page - 1 + j <= last
      BY <1>5, <1>6
    <3>2. last <= page - 1 + limit
      BY <1>2
    <3> QED
      BY <2>3, <3>1, <3>2
  <2> QED
    BY <2>2, <2>3
<1> QED
  BY <1>3, <1>5, <1>7

InMonths(a) == IF a.type = "year" THEN 12 * a.age ELSE a.age

\* At every age: what is shown of it never goes back as a child grows, and is
\* never more than it.
THEOREM ChildrenAlwaysGrow ==
    ASSUME NEW months \in Nat
    PROVE  /\ InMonths(calculateAge(months)) <= InMonths(calculateAge(months + 1))
           /\ InMonths(calculateAge(months)) <= months
<1>1. \A m \in Nat : InMonths(calculateAge(m)) = IF m >= 48 THEN 12 * (m \div 12) ELSE m
  BY DEF calculateAge, InMonths
<1>2. \A m \in Nat : m \div 12 \in Nat /\ 12 * (m \div 12) <= m /\ m < 12 * (m \div 12) + 12
  OBVIOUS
<1>3. months \div 12 <= (months + 1) \div 12
  OBVIOUS
<1> QED
  BY <1>1, <1>2, <1>3

\* In every year and month: a parent choosing a child's birthday is told the
\* age that her bookings will show, but for a fourth birthday still to come.
THEOREM AgesAreAlwaysToldAlike ==
    ASSUME NEW years \in Nat, NEW mob \in 1..12, NEW month \in 1..12
    PROVE  LET told == getAgeOfChild(years, mob, month)
               shown == calculateAge(12 * years + month - mob)
           IN  /\ told.age = shown.age <=> ~(years = 4 /\ mob > month)
               /\ years < 6 /\ told.age = shown.age => told = shown
<1> DEFINE months == 12 * years + month - mob
<1>1. months \in Int
  OBVIOUS
<1>2. mob <= month => months \div 12 = years
  OBVIOUS
<1>3. mob > month => months \div 12 = years - 1
  OBVIOUS
<1>4. years < 4 \/ (years = 4 /\ mob > month) => months < 48
  OBVIOUS
<1>8. ~(years < 4) /\ ~(years = 4 /\ mob > month) => months >= 48
  OBVIOUS
<1>5. CASE years < 4
  BY <1>1, <1>4, <1>5 DEF getAgeOfChild, calculateAge
<1>6. CASE years = 4 /\ mob > month
  BY <1>1, <1>4, <1>6 DEF getAgeOfChild, calculateAge
<1>7. CASE ~(years < 4) /\ ~(years = 4 /\ mob > month)
  <2>1. PICK age \in Int : age = IF mob > month THEN years - 1 ELSE years
    OBVIOUS
  <2>2. months \div 12 = age /\ months >= 48
    BY <1>2, <1>3, <1>7, <1>8, <2>1
  <2>3. calculateAge(months) = [type |-> "year", age |-> age]
    BY <2>2 DEF calculateAge
  <2>4. /\ getAgeOfChild(years, mob, month).age = age
        /\ years < 6 => getAgeOfChild(years, mob, month) = [type |-> "year", age |-> age]
    BY <1>7, <2>1 DEF getAgeOfChild
  <2> HIDE DEF months
  <2>5. /\ getAgeOfChild(years, mob, month).age = calculateAge(months).age
        /\ years < 6 => getAgeOfChild(years, mob, month) = calculateAge(months)
    BY <2>3, <2>4
  <2> QED
    BY <1>7, <2>5 DEF months
<1> QED
  BY <1>5, <1>6, <1>7

----------------------------------------------------------------------------
(* What is shown of accounts, and their switches (Profiles).                *)

RatingsOf(ratings, u) == {r \in ratings : r.babysitterId = u.id}
PointsOf(ratings, u) == SumFunction([r \in RatingsOf(ratings, u) |-> r.point])

\* The counts of each number of points add up to all ratings, and the points
\* to all points.
LEMMA CountsAddUp ==
    ASSUME NEW ratings, IsFiniteSet(ratings), \A r \in ratings : r.point \in 1..5, NEW u
    PROVE  LET counts == addRatingCount(ratings, u) IN
           /\ MapThenSumSet(LAMBDA point : counts[point], 1..5) = Cardinality(RatingsOf(ratings, u))
           /\ MapThenSumSet(LAMBDA point : point * counts[point], 1..5) = PointsOf(ratings, u)
<1> DEFINE S == RatingsOf(ratings, u)
           counts == addRatingCount(ratings, u)
           With(p) == {r \in S : r.point = p}
           one == [r \in S |-> 1]
           points == [r \in S |-> r.point]
<1>0. PICK K : K = 1..5
  OBVIOUS
<1>1. IsFiniteSet(S) /\ IsFiniteSet(K) /\ \A r \in S : r.point \in 1..5
  <2>1. S \subseteq ratings
    BY DEF RatingsOf
  <2>2. IsFiniteSet(S)
    BY <2>1, FS_Subset
  <2>3. IsFiniteSet(K)
    <3>1. PICK b \in Int : b = 5
      OBVIOUS
    <3>2. IsFiniteSet(1..b)
      BY FS_Interval
    <3> QED
      BY <1>0, <3>1, <3>2
  <2> QED
    BY <2>1, <2>2, <2>3
<1>2. ASSUME NEW p \in K
      PROVE  IsFiniteSet(With(p)) /\ counts[p] = Cardinality(With(p)) /\ counts[p] \in Nat /\ p \in Nat
  <2>1. With(p) \in SUBSET S
    OBVIOUS
  <2>2. IsFiniteSet(With(p))
    BY <1>1, <2>1, FS_Subset
  <2>3. With(p) = {r \in ratings : r.babysitterId = u.id /\ r.point = p}
    BY DEF RatingsOf
  <2>4. counts[p] = Cardinality({r \in ratings : r.babysitterId = u.id /\ r.point = p})
    BY <1>0 DEF addRatingCount
  <2> HIDE DEF With, counts
  <2> QED
    BY <1>0, <2>2, <2>3, <2>4, FS_CardinalityType
<1>3. \A r \in S : one[r] = 1 /\ points[r] \in Nat /\ points[r] \in K
  BY <1>0, <1>1
<1>4. \A p \in K : \A r \in With(p) : points[r] = p
  OBVIOUS
<1>5. \A p \in K : With(p) = PartOf(S, points, p)
  BY DEF PartOf
<1> HIDE DEF S, With, counts, one, points
<1>6. /\ \A p \in K : SumFunctionOnSet(one, PartOf(S, points, p)) = counts[p]
      /\ \A p \in K : SumFunctionOnSet(points, PartOf(S, points, p)) = p * counts[p]
  <2> SUFFICES ASSUME NEW p \in K
               PROVE  /\ SumFunctionOnSet(one, With(p)) = counts[p]
                      /\ SumFunctionOnSet(points, With(p)) = p * counts[p]
    BY <1>5
  <2>1. SumFunctionOnSet(one, With(p)) = Cardinality(With(p))
    <3>1. \A r \in With(p) : one[r] = 1
      BY <1>3 DEF With
    <3> QED
      BY <1>2, <3>1, CountIsSum
  <2>2. SumFunctionOnSet(points, With(p)) = p * Cardinality(With(p))
    BY <1>2, <1>4, SumOfEquals
  <2> QED
    BY <1>2, <2>1, <2>2
<1>7. SumFunctionOnSet([p \in K |-> counts[p]], K) = Cardinality(S)
  <2> DEFINE parts == [p \in K |-> counts[p]]
  <2>1. \A p \in K : parts[p] = SumFunctionOnSet(one, PartOf(S, points, p))
    BY <1>6
  <2>2. \A r \in S : one[r] \in Nat
    BY <1>3
  <2> HIDE DEF parts
  <2>3. SumFunctionOnSet(parts, K) = SumFunctionOnSet(one, S)
    BY <1>1, <1>3, <2>1, <2>2, SumByParts
  <2>4. SumFunctionOnSet(one, S) = Cardinality(S)
    BY <1>1, <1>3, CountIsSum
  <2> QED
    BY <2>3, <2>4 DEF parts
<1>8. SumFunctionOnSet([p \in K |-> p * counts[p]], K) = SumFunctionOnSet(points, S)
  <2> DEFINE parts == [p \in K |-> p * counts[p]]
  <2>1. \A p \in K : parts[p] = SumFunctionOnSet(points, PartOf(S, points, p))
    BY <1>6
  <2> HIDE DEF parts
  <2>2. SumFunctionOnSet(parts, K) = SumFunctionOnSet(points, S)
    BY <1>1, <1>3, <2>1, SumByParts
  <2> QED
    BY <2>2 DEF parts
<1>9. MapThenSumSet(LAMBDA point : counts[point], 1..5) = SumFunctionOnSet([p \in 1..5 |-> counts[p]], 1..5)
  BY DEF MapThenSumSet, MapThenFoldSet, SumFunctionOnSet, FoldFunctionOnSet
<1>10. MapThenSumSet(LAMBDA point : point * counts[point], 1..5)
         = SumFunctionOnSet([p \in 1..5 |-> p * counts[p]], 1..5)
  BY DEF MapThenSumSet, MapThenFoldSet, SumFunctionOnSet, FoldFunctionOnSet
<1>11. SumFunctionOnSet(points, S) = PointsOf(ratings, u)
  BY DEF PointsOf, SumFunction, points, S
<1>12. Cardinality(S) = Cardinality(RatingsOf(ratings, u))
  BY DEF S
<1> QED
  BY <1>0, <1>7, <1>8, <1>9, <1>10, <1>11, <1>12 DEF counts

\* Rounding to halves takes what ends in a half as it is, and anything else up
\* by half a point at most.
LEMMA RoundingGoesUp ==
    ASSUME NEW total \in Nat, NEW count \in Nat \ {0}
    PROVE  LET avg == roundRating(total, count) IN
           /\ avg \in Nat /\ 2 * total <= avg * count /\ (avg - 1) * count <= 2 * total
           /\ avg * count = 2 * total <=> \E k \in Nat : 2 * total = (2 * k + 1) * count
<1>1. PICK whole \in Nat : whole = total \div count
  OBVIOUS
<1>2. PICK rest \in Nat : rest = total % count /\ rest < count
  OBVIOUS
<1>3. PICK wholes \in Nat : wholes = whole * count
  OBVIOUS
<1>4. total = wholes + rest
  <2>1. total = count * (total \div count) + (total % count)
    BY DivisionLeavesRest
  <2> QED
    BY <1>1, <1>2, <1>3, <2>1
<1>5. ASSUME NEW k \in Nat, 2 * total = (2 * k + 1) * count PROVE k = whole
  <2>1. PICK ks \in Nat : ks = k * count
    OBVIOUS
  <2>2. 2 * total = 2 * ks + count
    BY <1>5, <2>1
  <2>3. ASSUME k < whole PROVE FALSE
    <3>1. PICK more \in Nat : whole = k + 1 + more
      <4>1. whole - k - 1 \in Nat
        BY <2>3
      <4> QED
        BY <4>1
    <3>2. wholes = ks + count + more * count /\ more * count \in Nat
      BY <1>3, <2>1, <3>1
    <3> QED
      BY <1>4, <2>2, <3>2
  <2>4. ASSUME whole < k PROVE FALSE
    <3>1. PICK more \in Nat : k = whole + 1 + more
      <4>1. k - whole - 1 \in Nat
        BY <2>4
      <4> QED
        BY <4>1
    <3>2. ks = wholes + count + more * count /\ more * count \in Nat
      BY <1>3, <2>1, <3>1
    <3> QED
      BY <1>2, <1>4, <2>2, <3>2
  <2> QED
    BY <2>3, <2>4
<1>6. (2 * whole + 1) * count = 2 * wholes + count
  BY <1>3
<1>7. (\E k \in Nat : 2 * total = (2 * k + 1) * count) <=> 2 * rest = count
  <2>1. 2 * total = (2 * whole + 1) * count <=> 2 * rest = count
    BY <1>2, <1>4, <1>6
  <2> QED
    BY <1>5, <2>1
<1>8. roundRating(total, count) = IF 2 * rest <= count THEN 2 * whole + 1 ELSE 2 * (whole + 1)
  <2>1. total - whole * count = rest
    BY <1>2, <1>3, <1>4
  <2> QED
    BY <1>1, <2>1 DEF roundRating
<1>9. PICK avg \in Nat : avg = roundRating(total, count)
  BY <1>8
<1>10. CASE 2 * rest <= count
  <2>1. avg * count = 2 * wholes + count /\ (avg - 1) * count = 2 * wholes
    BY <1>3, <1>8, <1>9, <1>10
  <2> QED
    BY <1>2, <1>4, <1>7, <1>9, <1>10, <2>1
<1>11. CASE ~(2 * rest <= count)
  <2>1. avg * count = 2 * wholes + 2 * count /\ (avg - 1) * count = 2 * wholes + count
    BY <1>3, <1>8, <1>9, <1>11
  <2>2. PICK above \in Nat : above = avg * count
    OBVIOUS
  <2>3. 2 * total < above /\ 2 * wholes + count <= 2 * total /\ 2 * rest # count
    BY <1>2, <1>4, <1>11, <2>1, <2>2
  <2> QED
    BY <1>7, <1>9, <2>1, <2>2, <2>3
<1> QED
  BY <1>10, <1>11

\* However many ratings there are: the number of them that is shown is right,
\* and the average is theirs in halves only if this is odd; otherwise it is
\* above it, by half a point at most, and so above the five points there are
\* when all gave five.
THEOREM ShownAverageIsAlwaysAbove ==
    ASSUME NEW ratings, IsFiniteSet(ratings), \A r \in ratings : r.point \in 1..5,
           NEW u, RatingsOf(ratings, u) # {}
    PROVE  LET shown == calculateRating(ratings, u)
               n == Cardinality(RatingsOf(ratings, u))
               halves == 2 * PointsOf(ratings, u)
           IN  /\ shown.countTotalRating = n
               /\ halves <= shown.avgRating * n /\ (shown.avgRating - 1) * n <= halves
               /\ shown.avgRating * n = halves <=> \E k \in Nat : halves = (2 * k + 1) * n
               /\ shown.avgRating > 10 <=> \A r \in RatingsOf(ratings, u) : r.point = 5
<1> DEFINE S == RatingsOf(ratings, u)
           points == [r \in S |-> r.point]
           shown == calculateRating(ratings, u)
<1>1. IsFiniteSet(S) /\ \A r \in S : r.point \in 1..5
  <2>1. S \subseteq ratings
    BY DEF RatingsOf
  <2>2. IsFiniteSet(S)
    BY <2>1, FS_Subset
  <2> QED
    BY <2>1, <2>2
<1>2. \A r \in S : points[r] = r.point /\ points[r] \in Nat /\ points[r] <= 5
  BY <1>1
<1>3. PointsOf(ratings, u) = SumFunctionOnSet(points, S)
  BY DEF PointsOf, SumFunction
<1> HIDE DEF points, S
<1>4. PICK total \in Nat : total = PointsOf(ratings, u)
  BY <1>1, <1>2, <1>3, SumIsNumber
<1>5. PICK n \in Nat \ {0} : n = Cardinality(S)
  <2>1. Cardinality(S) \in Nat /\ Cardinality(S) # 0
    BY <1>1, FS_CardinalityType, FS_EmptySet DEF S
  <2> QED
    BY <2>1
<1>6. shown.countTotalRating = n /\ shown.avgRating = roundRating(total, n)
  <2> DEFINE counts == addRatingCount(ratings, u)
  <2>1. /\ MapThenSumSet(LAMBDA point : counts[point], 1..5) = n
        /\ MapThenSumSet(LAMBDA point : point * counts[point], 1..5) = total
    BY <1>4, <1>5, CountsAddUp DEF S
  <2> HIDE DEF counts
  <2>2. shown = [countTotalRating |-> n, avgRating |-> roundRating(total, n)]
    BY <2>1 DEF calculateRating, counts
  <2> HIDE DEF shown
  <2> QED
    BY <2>2
<1> HIDE DEF shown
<1>7. PICK avg \in Nat : avg = roundRating(total, n)
  BY RoundingGoesUp
<1>8. /\ 2 * total <= avg * n /\ (avg - 1) * n <= 2 * total
      /\ avg * n = 2 * total <=> \E k \in Nat : 2 * total = (2 * k + 1) * n
  BY <1>7, RoundingGoesUp
<1>9. total <= 5 * n /\ (total = 5 * n <=> \A r \in S : points[r] = 5)
  <2>1. total <= 5 * n /\ (total = 5 * n => \A r \in S : points[r] = 5)
    BY <1>1, <1>2, <1>3, <1>4, <1>5, SumAtMost
  <2>2. (\A r \in S : points[r] = 5) => total = 5 * n
    BY <1>1, <1>3, <1>4, <1>5, SumOfEquals
  <2> QED
    BY <2>1, <2>2
<1>10. avg > 10 <=> total = 5 * n
  <2>1. ASSUME avg > 10 PROVE total = 5 * n
    <3>1. PICK more \in Nat : avg - 1 = 10 + more
      <4>1. avg - 11 \in Nat
        BY <2>1
      <4> QED
        BY <4>1
    <3>2. (avg - 1) * n = 10 * n + more * n /\ more * n \in Nat
      BY <3>1
    <3> QED
      BY <1>8, <1>9, <3>2
  <2>2. ASSUME total = 5 * n PROVE avg > 10
    <3>1. roundRating(total, n) = 11
      <4>1. total \div n = 5
        BY <2>2
      <4>2. total - 5 * n = 0
        BY <2>2
      <4> QED
        BY <4>1, <4>2 DEF roundRating
    <3> QED
      BY <1>7, <3>1
  <2> QED
    BY <2>1, <2>2
<1>11. (\A r \in S : points[r] = 5) <=> \A r \in RatingsOf(ratings, u) : r.point = 5
  BY <1>2 DEF S
<1> QED
  BY <1>4, <1>5, <1>6, <1>7, <1>8, <1>9, <1>10, <1>11 DEF shown, S

SittersNamed(accounts, data) ==
    {u \in Undeleted(accounts) : SignedSitter(u) /\ u.id \in {data[i].babysitterId : i \in DOMAIN data}}

\* As many are named as the list is long exactly if each of the list is one,
\* and nobody is in it twice.
LEMMA AllAreNamed ==
    ASSUME NEW accounts, \A u, v \in accounts : u.id = v.id => u = v,
           NEW data, Len(data) \in Nat, DOMAIN data = 1..Len(data)
    PROVE  Cardinality(SittersNamed(accounts, data)) = Len(data) <=>
             /\ \A i, j \in DOMAIN data : data[i].babysitterId = data[j].babysitterId => i = j
             /\ \A i \in DOMAIN data : \E u \in SittersNamed(accounts, data) : u.id = data[i].babysitterId
<1> DEFINE ids == {data[i].babysitterId : i \in DOMAIN data}
           named == SittersNamed(accounts, data)
           n == Len(data)
           id == [i \in 1..n |-> data[i].babysitterId]
           name == [u \in named |-> u.id]
<1>1. n \in Nat /\ DOMAIN data = 1..n
  OBVIOUS
<1>2. IsFiniteSet(1..n) /\ Cardinality(1..n) = n
  BY <1>1, FS_Interval
<1>3. id \in Surjection(1..n, ids)
  BY <1>1 DEF Surjection
<1>4. id \in Injection(1..n, ids)
        <=> \A i, j \in DOMAIN data : data[i].babysitterId = data[j].babysitterId => i = j
  BY <1>1, <1>3 DEF Injection, IsInjective, Surjection
<1>5. name \in Injection(named, ids)
  BY DEF Injection, IsInjective, SittersNamed, Undeleted
<1>6. name \in Surjection(named, ids)
        <=> \A i \in DOMAIN data : \E u \in named : u.id = data[i].babysitterId
  BY <1>5 DEF Surjection, Injection
<1> HIDE DEF ids, named, id, name, n
<1>7. /\ IsFiniteSet(ids) /\ Cardinality(ids) <= n
      /\ Cardinality(ids) = n <=> id \in Injection(1..n, ids)
  BY <1>2, <1>3, FS_Surjection
<1>8. /\ IsFiniteSet(named) /\ Cardinality(named) <= Cardinality(ids)
      /\ Cardinality(named) = Cardinality(ids) <=> name \in Surjection(named, ids)
  BY <1>5, <1>7, FS_Injection
<1>9. Cardinality(ids) \in Nat /\ Cardinality(named) \in Nat
  BY <1>7, <1>8, FS_CardinalityType
<1>10. Cardinality(named) = n <=> Cardinality(named) = Cardinality(ids) /\ Cardinality(ids) = n
  BY <1>1, <1>7, <1>8, <1>9
<1> QED
  BY <1>4, <1>6, <1>7, <1>8, <1>10 DEF named, n

LEMMA ItemsAreOfTheSet == ASSUME NEW S, NEW s \in Seq(S), NEW i \in DOMAIN s PROVE s[i] \in S
OBVIOUS

\* The switch that is listed for an account.
SwitchOf(u, data) == data[CHOOSE i \in DOMAIN data : data[i].babysitterId = u.id].allowBooking

\* Whatever accounts there are and however long the list: if each of it is the
\* account of a babysitter who has signed up and none is in it twice, all of
\* them get the switches that are listed for them, and nobody else another;
\* otherwise nothing changes.
THEOREM SwitchesAreAlwaysSetTogether ==
    ASSUME NEW accounts, \A u, v \in accounts : u.id = v.id => u = v,
           NEW Ids, NEW data \in Seq([babysitterId : Ids, allowBooking : BOOLEAN])
    PROVE  LET named == SittersNamed(accounts, data)
               valid == /\ \A i, j \in DOMAIN data : data[i].babysitterId = data[j].babysitterId => i = j
                        /\ \A i \in DOMAIN data : \E u \in named : u.id = data[i].babysitterId
           IN  updateBabysitterAllowBookingStatus(accounts, data)
                 = IF valid THEN {IF u \in named THEN [u EXCEPT !.allowBooking = SwitchOf(u, data)] ELSE u : u \in accounts}
                   ELSE accounts
<1> DEFINE named == SittersNamed(accounts, data)
           once == \A i, j \in DOMAIN data : data[i].babysitterId = data[j].babysitterId => i = j
           valid == once /\ \A i \in DOMAIN data : \E u \in named : u.id = data[i].babysitterId
           ids == {data[i].babysitterId : i \in DOMAIN data}
           on == [id \in ids |-> \E i \in DOMAIN data : data[i] = [babysitterId |-> id, allowBooking |-> TRUE]]
           switched == {IF u \in named THEN [u EXCEPT !.allowBooking = on[u.id]] ELSE u : u \in accounts}
<1>1. Cardinality(named) = Len(data) <=> valid
  <2>1. Len(data) \in Nat /\ DOMAIN data = 1..Len(data)
    OBVIOUS
  <2> QED
    BY <2>1, AllAreNamed
<1>2. updateBabysitterAllowBookingStatus(accounts, data) = IF Cardinality(named) # Len(data) THEN accounts ELSE switched
  BY DEF updateBabysitterAllowBookingStatus, SittersNamed
<1>3. ASSUME once, NEW u \in named PROVE on[u.id] = SwitchOf(u, data)
  <2>1. u.id \in ids
    BY DEF SittersNamed
  <2>2. PICK i \in DOMAIN data : i = (CHOOSE k \in DOMAIN data : data[k].babysitterId = u.id) /\ data[i].babysitterId = u.id
    BY <2>1
  <2>3. data[i] \in [babysitterId : Ids, allowBooking : BOOLEAN]
    BY ItemsAreOfTheSet
  <2>4. \A k \in DOMAIN data : data[k].babysitterId = u.id => k = i
    BY <1>3, <2>2
  <2>5. on[u.id] = (\E k \in DOMAIN data : data[k] = [babysitterId |-> u.id, allowBooking |-> TRUE])
    BY <2>1
  <2>6. ASSUME NEW k \in DOMAIN data, data[k] = [babysitterId |-> u.id, allowBooking |-> TRUE] PROVE data[i].allowBooking
    BY <2>4, <2>6
  <2>7. ASSUME data[i].allowBooking PROVE data[i] = [babysitterId |-> u.id, allowBooking |-> TRUE]
    BY <2>2, <2>3, <2>7
  <2>8. data[i].allowBooking \in BOOLEAN
    BY <2>3
  <2>9. SwitchOf(u, data) = data[i].allowBooking
    BY <2>2 DEF SwitchOf
  <2> QED
    BY <2>5, <2>6, <2>7, <2>8, <2>9
<1>4. once => switched = {IF u \in named THEN [u EXCEPT !.allowBooking = SwitchOf(u, data)] ELSE u : u \in accounts}
  <2> HIDE DEF named, on, once
  <2> QED
    BY <1>3
<1> HIDE DEF named, once, switched
<1> QED
  BY <1>1, <1>2, <1>4 DEF named, once

----------------------------------------------------------------------------
(* What a booking costs (BookingLists).                                     *)

\* What is paid of a slot, in half hours.
Paid(s) == s.end - s.start - (IF s.hasBreakTime THEN 2 ELSE 0)
Halves(slots) == [k \in DOMAIN slots |-> Paid(slots[k])]

LEMMA SalaryIsOfHalves ==
    ASSUME NEW baseSalary, NEW slots
    PROVE  calculateSalary(baseSalary, slots) = (baseSalary * SumFunctionOnSet(Halves(slots), DOMAIN slots) + 1) \div 2
BY DEF calculateSalary, Halves, Paid, SumFunction

\* However a booking is made up: it costs the same when one of its slots is cut
\* into two, a break being in the first, and nothing less than nothing, as long
\* as no slot is shorter than its break.
THEOREM SalaryIsOfTheHours ==
    ASSUME NEW baseSalary \in Nat, NEW S, \A s \in S : Paid(s) \in Nat,
           NEW slots \in Seq(S), NEW i \in DOMAIN slots, NEW first \in S, NEW second \in S,
           Paid(first) + Paid(second) = Paid(slots[i])
    PROVE  /\ calculateSalary(baseSalary, slots) \in Nat
           /\ calculateSalary(baseSalary, Append([slots EXCEPT ![i] = first], second))
                = calculateSalary(baseSalary, slots)
<1>1. PICK n \in Nat : n = Len(slots) /\ DOMAIN slots = 1..n
  OBVIOUS
<1>2. PICK more : more = Append([slots EXCEPT ![i] = first], second)
  OBVIOUS
<1>3. /\ DOMAIN more = 1..(n + 1) /\ more[n + 1] = second /\ more[i] = first
      /\ \A k \in (1..n) \ {i} : more[k] = slots[k]
  BY <1>1, <1>2
<1>4. PICK before, after : before = Halves(slots) /\ after = Halves(more)
  OBVIOUS
<1>5. PICK d \in Nat : d = Paid(second)
  OBVIOUS
<1>6. /\ \A k \in 1..n : before[k] = Paid(slots[k]) /\ before[k] \in Nat
      /\ after[n + 1] = d /\ before[i] = after[i] + d /\ after[i] \in Nat
      /\ \A k \in (1..n) \ {i} : after[k] = before[k]
  <2>1. \A k \in 1..n : before[k] = Paid(slots[k]) /\ before[k] \in Nat
    BY <1>1, <1>4 DEF Halves
  <2>2. \A k \in 1..(n + 1) : after[k] = Paid(more[k])
    BY <1>3, <1>4 DEF Halves
  <2> QED
    BY <1>1, <1>3, <1>5, <2>1, <2>2
<1>7. PICK places : places = 1..n
  OBVIOUS
<1>8. IsFiniteSet(places) /\ n + 1 \notin places /\ i \in places
  <2>1. IsFiniteSet(1..n)
    BY FS_Interval
  <2> QED
    BY <1>1, <1>7, <2>1
<1>9. 1..(n + 1) = places \cup {n + 1} /\ \A k \in places \cup {n + 1} : after[k] \in Nat
  <2>1. 1..(n + 1) = places \cup {n + 1}
    BY <1>7
  <2>2. \A k \in places : after[k] \in Nat
    BY <1>6, <1>7
  <2> QED
    BY <1>6, <2>1, <2>2
<1>10. SumFunctionOnSet(before, places) = SumFunctionOnSet(after, places) + d
  <2>1. \A k \in places : after[k] \in Nat
    BY <1>9
  <2>2. before[i] = after[i] + d
    BY <1>6
  <2>3. \A k \in places \ {i} : before[k] = after[k]
    BY <1>6, <1>7
  <2>4. IsFiniteSet(places) /\ i \in places
    BY <1>8
  <2> QED
    BY <2>1, <2>2, <2>3, <2>4, SumIsRaised, SMTT(40)
<1>11. SumFunctionOnSet(after, places \cup {n + 1}) = after[n + 1] + SumFunctionOnSet(after, places)
  BY <1>8, <1>9, SumWith
<1>12. PICK a \in Nat : a = SumFunctionOnSet(after, places)
  BY <1>8, <1>9, SumIsNumber
<1>13. SumFunctionOnSet(after, DOMAIN more) = a + d /\ SumFunctionOnSet(before, DOMAIN slots) = a + d
  <2>1. DOMAIN more = places \cup {n + 1} /\ DOMAIN slots = places
    BY <1>1, <1>3, <1>7, <1>9
  <2>2. SumFunctionOnSet(after, places \cup {n + 1}) = d + a
    BY <1>6, <1>11, <1>12
  <2>3. SumFunctionOnSet(before, places) = a + d
    BY <1>10, <1>12
  <2> QED
    BY <2>1, <2>2, <2>3
<1>14. calculateSalary(baseSalary, slots) = (baseSalary * (a + d) + 1) \div 2
  BY <1>4, <1>13, SalaryIsOfHalves
<1>15. calculateSalary(baseSalary, more) = (baseSalary * (a + d) + 1) \div 2
  BY <1>4, <1>13, SalaryIsOfHalves
<1>16. (baseSalary * (a + d) + 1) \div 2 \in Nat
  <2>1. PICK x \in Nat : x = baseSalary * (a + d)
    OBVIOUS
  <2>2. (x + 1) \div 2 \in Nat
    OBVIOUS
  <2> QED
    BY <2>1, <2>2
<1> QED
  BY <1>2, <1>14, <1>15, <1>16

----------------------------------------------------------------------------
(* What the statistics and rankings say (Reports).                          *)

\* Finitely many bookings and ratings, with ids and prices or points.
SoundTables(db) ==
    /\ IsFiniteSet(db.bookings) /\ \A b \in db.bookings : b.id # 0 /\ b.prices \in Nat
    /\ IsFiniteSet(db.ratings) /\ \A r \in db.ratings : r.id # 0 /\ r.point \in Nat

\* What a ranking is about, of one babysitter, and what it is worth.
Items(db, type, period, u) ==
    {x \in IF type = "RATING" THEN Recent(db, period) ELSE Finished(db, period) : x.babysitterId = u.id}
Prices(items) == SumFunction([b \in items |-> b.prices])
Points(items) == SumFunction([r \in items |-> r.point])
EntryFor(db, type, period, u) ==
    LET items == Items(db, type, period, u) IN
    [user |-> u,
     revenue |-> IF type = "RATING" THEN 0 ELSE Prices(items),
     avgRating |-> IF type = "RATING" /\ items # {} THEN (10 * Points(items)) \div Cardinality(items) ELSE 0]

\* The items, each joined with the same.
With(p, items) == {<<p, x>> : x \in items}

LEMMA ItemsAreRows ==
    ASSUME NEW db, SoundTables(db), NEW type, NEW period, NEW u
    PROVE  /\ IsFiniteSet(Items(db, type, period, u))
           /\ \A x \in Items(db, type, period, u) : x # NoRow
           /\ type = "RATING" => \A x \in Items(db, type, period, u) : x.point \in Nat
           /\ type # "RATING" => \A x \in Items(db, type, period, u) : x.prices \in Nat
<1>1. CASE type = "RATING"
  <2>1. Items(db, type, period, u) \subseteq db.ratings
    BY <1>1 DEF Items, Recent
  <2>2. \A x \in db.ratings : x # NoRow /\ x.point \in Nat
    BY DEF SoundTables, NoRow
  <2> QED
    BY <1>1, <2>1, <2>2, FS_Subset DEF SoundTables
<1>2. CASE type # "RATING"
  <2>1. Items(db, type, period, u) \subseteq db.bookings
    BY <1>2 DEF Items, Finished
  <2>2. \A x \in db.bookings : x # NoRow /\ x.prices \in Nat
    BY DEF SoundTables, NoRow
  <2> QED
    BY <1>2, <2>1, <2>2, FS_Subset DEF SoundTables
<1> QED
  BY <1>1, <1>2

\* A join with one row adds up, and counts, what is joined.
LEMMA JoinedOnceSums ==
    ASSUME NEW items, IsFiniteSet(items), \A x \in items : x # NoRow, NEW p
    PROVE  /\ (\A x \in items : x.prices \in Nat) => Sum(With(p, items), LAMBDA b : b.prices) = Prices(items)
           /\ (\A x \in items : x.point \in Nat) => Sum(With(p, items), LAMBDA r : r.point) = Points(items)
           /\ Cardinality(With(p, items)) = Cardinality(items)
           /\ With(p, items) = {} <=> items = {}
<1> DEFINE name == [x \in items |-> <<p, x>>]
           rows == With(p, items)
<1>1. rows = {name[x] : x \in items} /\ \A x, y \in items : name[x] = name[y] => x = y
  BY DEF With
<1>2. {row \in rows : row[2] # NoRow} = rows
  BY DEF With
<1>3. \A x \in items : name[x] \in rows /\ name[x][2] = x
  BY DEF With
<1> HIDE DEF name, rows
<1>4. ASSUME \A x \in items : x.prices \in Nat PROVE Sum(rows, LAMBDA b : b.prices) = Prices(items)
  <2> DEFINE f == [x \in items |-> x.prices]
             h == [row \in rows |-> row[2].prices]
  <2>1. \A x \in items : f[x] \in Nat /\ h[name[x]] = f[x]
    BY <1>3, <1>4
  <2>2. Sum(rows, LAMBDA b : b.prices) = SumFunctionOnSet(h, rows)
    BY <1>2, ZenonT(60) DEF Sum, MapThenSumSet, MapThenFoldSet, SumFunctionOnSet, FoldFunctionOnSet
  <2>3. Prices(items) = SumFunctionOnSet(f, items)
    BY DEF Prices, SumFunction
  <2> HIDE DEF f, h
  <2>4. SumFunctionOnSet(h, rows) = SumFunctionOnSet(f, items)
    BY <1>1, <2>1, SumUnderOtherNames
  <2> QED
    BY <2>2, <2>3, <2>4
<1>5. ASSUME \A x \in items : x.point \in Nat PROVE Sum(rows, LAMBDA r : r.point) = Points(items)
  <2> DEFINE f == [x \in items |-> x.point]
             h == [row \in rows |-> row[2].point]
  <2>1. \A x \in items : f[x] \in Nat /\ h[name[x]] = f[x]
    BY <1>3, <1>5
  <2>2. Sum(rows, LAMBDA r : r.point) = SumFunctionOnSet(h, rows)
    BY <1>2, ZenonT(60) DEF Sum, MapThenSumSet, MapThenFoldSet, SumFunctionOnSet, FoldFunctionOnSet
  <2>3. Points(items) = SumFunctionOnSet(f, items)
    BY DEF Points, SumFunction
  <2> HIDE DEF f, h
  <2>4. SumFunctionOnSet(h, rows) = SumFunctionOnSet(f, items)
    BY <1>1, <2>1, SumUnderOtherNames
  <2> QED
    BY <2>2, <2>3, <2>4
<1>6. Cardinality(rows) = Cardinality(items)
  <2>1. name \in Bijection(items, rows)
    <3>1. name \in [items -> rows]
      BY <1>3 DEF name
    <3>2. \A row \in rows : \E x \in items : name[x] = row
      BY <1>1
    <3> QED
      BY <1>1, <3>1, <3>2 DEF Bijection, Injection, Surjection, IsInjective
  <2>2. ExistsBijection(items, rows)
    BY <2>1 DEF ExistsBijection
  <2> QED
    BY <2>2, FS_Bijection
<1>7. rows = {} <=> items = {}
  BY <1>1
<1> QED
  BY <1>4, <1>5, <1>6, <1>7 DEF rows

\* However many languages she has in her profile, the revenue of a babysitter
\* in the statistics is that of her finished bookings, each counted once.
THEOREM RevenueIsAlwaysCountedOnce ==
    ASSUME NEW db, SoundTables(db), NEW period, NEW row \in RevenueRows(db, period)
    PROVE  row.revenue = Prices({b \in Finished(db, period) : b.babysitterId = row.user.id})
<1> DEFINE joined == Profit(db, Profiles(db, Undeleted(db.users)), period)
<1>1. PICK one \in joined : row = RowOf(one[1][1], {other \in joined : other[1] = one[1]})
  BY DEF RevenueRows
<1>2. PICK profile, items : /\ profile = one[1]
                            /\ items = {b \in Finished(db, period) : b.babysitterId = profile[1].id}
  OBVIOUS
<1>3. {other \in joined : other[1] = profile} = With(profile, items)
  <2>1. joined = {pair \in Profiles(db, Undeleted(db.users)) \X Finished(db, period) :
                     pair[2].babysitterId = pair[1][1].id}
    BY DEF Profit, InnerJoin
  <2>2. profile \in Profiles(db, Undeleted(db.users))
    BY <1>2, <2>1
  <2>3. ASSUME NEW other \in joined, other[1] = profile PROVE other \in With(profile, items)
    <3>1. other = <<profile, other[2]>> /\ other[2] \in items
      BY <1>2, <2>1, <2>3
    <3> QED
      BY <3>1 DEF With
  <2>4. ASSUME NEW b \in items PROVE <<profile, b>> \in joined
    BY <1>2, <2>1, <2>2
  <2> HIDE DEF joined
  <2> QED
    BY <2>3, <2>4 DEF With
<1>4. items = Items(db, "PRICES", period, profile[1])
  BY <1>2 DEF Items
<1>5. IsFiniteSet(items) /\ \A x \in items : x # NoRow /\ x.prices \in Nat
  BY <1>4, ItemsAreRows
<1>6. Sum(With(profile, items), LAMBDA b : b.prices) = Prices(items)
  BY <1>5, JoinedOnceSums
<1>7. row = [user |-> profile[1], revenue |-> Sum(With(profile, items), LAMBDA b : b.prices)]
  <2> HIDE DEF joined
  <2> QED
    BY <1>1, <1>2, <1>3 DEF RowOf
<1> QED
  BY <1>2, <1>6, <1>7

\* No babysitter is named twice for a ranking.
NamedOnce(db) ==
    \A r, s \in db.babysitterRankings :
        r.rankingType = s.rankingType /\ r.babysitterId = s.babysitterId => r = s

Ranking(db, type) == {r \in db.babysitterRankings : r.rankingType = type}

\* A row of the ranking is a profile, the row that ranks it or none, and an item.
LEMMA RankedProfiles ==
    ASSUME NEW db, NEW type, NEW asAdmin \in BOOLEAN, NEW profiles,
           NEW p \in applyUserRoleFilter(db, profiles, type, asAdmin)
    PROVE  /\ p = <<p[1], p[2]>> /\ p[1] \in profiles
           /\ ~asAdmin => p[2] \in Ranking(db, type) /\ p[2].babysitterId = p[1][1].id
BY DEF applyUserRoleFilter, LeftJoin, InnerJoin, Ranking

LEMMA JoinedIsAJoin ==
    ASSUME NEW db, NEW type, NEW period, NEW asAdmin \in BOOLEAN, NEW row
    PROVE  row \in Joined(db, type, period, asAdmin) <=>
             /\ row = <<row[1], row[2]>>
             /\ row[1] \in applyUserRoleFilter(db, createBaseQuery(db), type, asAdmin)
             /\ row[2] \in Items(db, type, period, row[1][1][1])
<1> DEFINE profiles == applyUserRoleFilter(db, createBaseQuery(db), type, asAdmin)
<1> HIDE DEF profiles
<1>1. CASE type = "RATING"
  <2>1. Joined(db, type, period, asAdmin)
          = {pair \in profiles \X Recent(db, period) : pair[2].babysitterId = pair[1][1][1].id}
    BY <1>1 DEF Joined, InnerJoin, profiles
  <2> QED
    BY <1>1, <2>1 DEF Items, profiles
<1>2. CASE type # "RATING"
  <2>1. Joined(db, type, period, asAdmin)
          = {pair \in profiles \X Finished(db, period) : pair[2].babysitterId = pair[1][1][1].id}
    BY <1>2 DEF Joined, InnerJoin, profiles
  <2> QED
    BY <1>2, <2>1 DEF Items, profiles
<1> QED
  BY <1>1, <1>2

\* A group of a ranking is of one babysitter, with each of her items once.
LEMMA GroupIsOfOne ==
    ASSUME NEW db, NEW type, NEW period, NEW asAdmin \in BOOLEAN, ~asAdmin => NamedOnce(db),
           NEW one \in Joined(db, type, period, asAdmin)
    PROVE  {row \in Joined(db, type, period, asAdmin) : GroupOf(row, asAdmin) = GroupOf(one, asAdmin)}
             = With(one[1], Items(db, type, period, one[1][1][1]))
<1> DEFINE joined == Joined(db, type, period, asAdmin)
           items == Items(db, type, period, one[1][1][1])
<1>1. /\ one[1] \in applyUserRoleFilter(db, createBaseQuery(db), type, asAdmin)
      /\ one[2] \in items
  BY JoinedIsAJoin
<1>2. ASSUME NEW row \in joined, GroupOf(row, asAdmin) = GroupOf(one, asAdmin) PROVE row \in With(one[1], items)
  <2>1. /\ row = <<row[1], row[2]>> /\ row[2] \in Items(db, type, period, row[1][1][1])
        /\ row[1] \in applyUserRoleFilter(db, createBaseQuery(db), type, asAdmin)
    BY JoinedIsAJoin
  <2>2. row[1] = one[1]
    <3>1. CASE asAdmin
      BY <1>2, <3>1 DEF GroupOf
    <3>2. CASE ~asAdmin
      <4>1. row[1][1] = one[1][1]
        BY <1>2, <3>2 DEF GroupOf
      <4>2. /\ row[1] = <<row[1][1], row[1][2]>> /\ one[1] = <<one[1][1], one[1][2]>>
            /\ row[1][2] \in Ranking(db, type) /\ row[1][2].babysitterId = row[1][1][1].id
            /\ one[1][2] \in Ranking(db, type) /\ one[1][2].babysitterId = one[1][1][1].id
        BY <1>1, <2>1, <3>2, RankedProfiles
      <4>3. row[1][2] = one[1][2]
        BY <3>2, <4>1, <4>2 DEF NamedOnce, Ranking
      <4> QED
        BY <4>1, <4>2, <4>3
    <3> QED
      BY <3>1, <3>2
  <2> HIDE DEF joined
  <2>3. row = <<one[1], row[2]>> /\ row[2] \in items
    BY <2>1, <2>2
  <2> QED
    BY <2>3 DEF With
<1>3. ASSUME NEW x \in items PROVE <<one[1], x>> \in joined /\ GroupOf(<<one[1], x>>, asAdmin) = GroupOf(one, asAdmin)
  <2>1. PICK row : row = <<one[1], x>>
    OBVIOUS
  <2>2. row[1] = one[1] /\ row[2] = x
    BY <2>1
  <2>3. row \in joined
    BY <1>1, <2>1, <2>2, JoinedIsAJoin
  <2>4. GroupOf(row, asAdmin) = GroupOf(one, asAdmin)
    BY <2>2 DEF GroupOf
  <2> QED
    BY <2>1, <2>3, <2>4
<1> HIDE DEF joined, items
<1> QED
  BY <1>2, <1>3 DEF With, joined, items

\* What is said of one babysitter from such a group.
LEMMA EntryOfOne ==
    ASSUME NEW db, SoundTables(db), NEW type, NEW period, NEW u, NEW p
    PROVE  Entry(type, u, With(p, Items(db, type, period, u))) = EntryFor(db, type, period, u)
<1> DEFINE items == Items(db, type, period, u)
<1>1. /\ IsFiniteSet(items) /\ \A x \in items : x # NoRow
      /\ type = "RATING" => \A x \in items : x.point \in Nat
      /\ type # "RATING" => \A x \in items : x.prices \in Nat
  BY ItemsAreRows
<1> HIDE DEF items
<1>2. /\ type # "RATING" => Sum(With(p, items), LAMBDA b : b.prices) = Prices(items)
      /\ type = "RATING" => Sum(With(p, items), LAMBDA r : r.point) = Points(items)
      /\ Cardinality(With(p, items)) = Cardinality(items)
      /\ With(p, items) = {} <=> items = {}
  BY <1>1, JoinedOnceSums
<1>3. CASE type = "RATING"
  BY <1>2, <1>3 DEF Entry, EntryFor, items
<1>4. CASE type # "RATING"
  BY <1>2, <1>4 DEF Entry, EntryFor, items
<1> QED
  BY <1>3, <1>4

\* Enough ratings for a ranking by them.
Enough(type, items) == type # "RATING" \/ Cardinality(items) >= MIN_REVIEWS_FOR_BABYSITTER_RANKING

\* The ranking has one entry for the babysitter of each row.
LEMMA EntriesOfRanking ==
    ASSUME NEW db, SoundTables(db), NEW type, NEW period, NEW asAdmin \in BOOLEAN, ~asAdmin => NamedOnce(db), NEW e
    PROVE  e \in applyRankingFilter(db, type, period, asAdmin) <=>
             \E one \in Joined(db, type, period, asAdmin) :
                 /\ Enough(type, Items(db, type, period, one[1][1][1]))
                 /\ e = EntryFor(db, type, period, one[1][1][1])
<1> DEFINE joined == Joined(db, type, period, asAdmin)
           GroupOn(k) == {other \in joined : GroupOf(other, asAdmin) = k}
           groups == {GroupOn(k) : k \in {GroupOf(row, asAdmin) : row \in joined}}
           enough == {g \in groups : type # "RATING" \/ Cardinality(g) >= MIN_REVIEWS_FOR_BABYSITTER_RANKING}
           Said(g) == Entry(type, (CHOOSE row \in g : TRUE)[1][1][1], g)
           GroupFor(one) == GroupOn(GroupOf(one, asAdmin))
<1>1. applyRankingFilter(db, type, period, asAdmin) = {Said(g) : g \in enough}
  BY DEF applyRankingFilter
<1>2. \A g : g \in enough <=> Enough(type, g) /\ \E one \in joined : g = GroupFor(one)
  <2> HIDE DEF GroupOn, joined
  <2> QED
    BY DEF Enough
<1>3. ASSUME NEW one \in joined
      PROVE  /\ Enough(type, GroupFor(one)) <=> Enough(type, Items(db, type, period, one[1][1][1]))
             /\ Said(GroupFor(one)) = EntryFor(db, type, period, one[1][1][1])
  <2>1. PICK p, u : p = one[1] /\ u = p[1][1]
    OBVIOUS
  <2>2. PICK items : items = Items(db, type, period, u)
    OBVIOUS
  <2>3. GroupFor(one) = With(p, items)
    BY <2>1, <2>2, GroupIsOfOne
  <2>4. one \in GroupFor(one)
    OBVIOUS
  <2>5. (CHOOSE row \in With(p, items) : TRUE)[1] = p
    BY <2>3, <2>4 DEF With
  <2>6. Said(With(p, items)) = Entry(type, u, With(p, items))
    BY <2>1, <2>5
  <2>7. Cardinality(With(p, items)) = Cardinality(items)
    <3>1. IsFiniteSet(items) /\ \A x \in items : x # NoRow
      BY <2>2, ItemsAreRows
    <3> QED
      BY <3>1, JoinedOnceSums
  <2> HIDE DEF Said, GroupFor
  <2>8. Said(GroupFor(one)) = EntryFor(db, type, period, u)
    BY <2>2, <2>3, <2>6, EntryOfOne
  <2>9. Enough(type, GroupFor(one)) <=> Enough(type, items)
    BY <2>3, <2>7 DEF Enough
  <2> QED
    BY <2>1, <2>2, <2>8, <2>9
<1> HIDE DEF joined, enough, Said, GroupFor
<1>4. e \in applyRankingFilter(db, type, period, asAdmin)
        <=> \E one \in joined : Enough(type, GroupFor(one)) /\ e = Said(GroupFor(one))
  BY <1>1, <1>2
<1> QED
  BY <1>3, <1>4 DEF joined

\* However many languages are in the profiles: a babysitter of a ranking is
\* shown with what her bookings or ratings are worth, each counted once, and
\* that is what she is shown of herself.  For parents this needs that the
\* admin has named nobody twice; for the admin it always is so.
THEOREM RankingAlwaysCountsOnce ==
    ASSUME NEW db, SoundTables(db), NEW type, NEW period, NEW asAdmin \in BOOLEAN,
           ~asAdmin => NamedOnce(db), NEW e \in applyRankingFilter(db, type, period, asAdmin)
    PROVE  /\ e = EntryFor(db, type, period, e.user)
           /\ e = fetchRequestingBabysitterDetails(db, e.user, type, period)
<1>1. PICK u : e = EntryFor(db, type, period, u)
  BY EntriesOfRanking
<1>2. e.user = u
  BY <1>1 DEF EntryFor
<1>3. PICK items : items = Items(db, type, period, u)
  OBVIOUS
<1>4. fetchRequestingBabysitterDetails(db, u, type, period) = Entry(type, u, With(u, items))
  <2>1. \A x \in items : x # NoRow
    BY <1>3, ItemsAreRows
  <2>2. CASE type = "RATING"
    <3> DEFINE rows == LeftJoin({u}, Recent(db, period), LAMBDA v, r : r.babysitterId = v.id)
    <3>1. {row \in rows : row[2] # NoRow} = With(u, items)
      BY <1>3, <2>1, <2>2 DEF LeftJoin, InnerJoin, With, Items
    <3> QED
      BY <2>2, <3>1 DEF fetchRequestingBabysitterDetails
  <2>3. CASE type # "RATING"
    <3> DEFINE rows == LeftJoin({u}, Finished(db, period), LAMBDA v, b : b.babysitterId = v.id)
    <3>1. {row \in rows : row[2] # NoRow} = With(u, items)
      BY <1>3, <2>1, <2>3 DEF LeftJoin, InnerJoin, With, Items
    <3> QED
      BY <2>3, <3>1 DEF fetchRequestingBabysitterDetails
  <2> QED
    BY <2>2, <2>3
<1> QED
  BY <1>1, <1>2, <1>3, <1>4, EntryOfOne

\* Parents are shown the part of the admin's ranking that the admin has named,
\* with the same figures, as long as nobody was named twice.
THEOREM ParentsSeeWhoWasNamed ==
    ASSUME NEW db, SoundTables(db), NamedOnce(db), NEW type, NEW period
    PROVE  applyRankingFilter(db, type, period, FALSE)
             = {e \in applyRankingFilter(db, type, period, TRUE) :
                    \E r \in Ranking(db, type) : r.babysitterId = e.user.id}
<1> DEFINE RowsFor(asAdmin) == Joined(db, type, period, asAdmin)
           Shown(asAdmin) == applyRankingFilter(db, type, period, asAdmin)
           Filtered(asAdmin) == applyUserRoleFilter(db, createBaseQuery(db), type, asAdmin)
           Sitter(one) == one[1][1][1]
<1>1. \A u : EntryFor(db, type, period, u).user = u
  BY DEF EntryFor
<1>2. Filtered(FALSE) \subseteq Filtered(TRUE)
  BY DEF applyUserRoleFilter, LeftJoin
<1>3. ASSUME NEW one \in RowsFor(FALSE)
      PROVE  one \in RowsFor(TRUE) /\ \E r \in Ranking(db, type) : r.babysitterId = Sitter(one).id
  <2>1. /\ one = <<one[1], one[2]>> /\ one[1] \in Filtered(FALSE)
        /\ one[2] \in Items(db, type, period, Sitter(one))
    BY JoinedIsAJoin
  <2>2. one[1][2] \in Ranking(db, type) /\ one[1][2].babysitterId = Sitter(one).id
    <3>1. PICK p, u : p = one[1] /\ u = p[1][1]
      OBVIOUS
    <3>2. p \in applyUserRoleFilter(db, createBaseQuery(db), type, FALSE)
      BY <2>1, <3>1
    <3>3. p[2] \in Ranking(db, type) /\ p[2].babysitterId = u.id
      BY <3>1, <3>2 DEF applyUserRoleFilter, InnerJoin, Ranking
    <3> QED
      BY <3>1, <3>3
  <2>3. one[1] \in Filtered(TRUE)
    BY <1>2, <2>1
  <2> QED
    BY <2>1, <2>2, <2>3, JoinedIsAJoin
<1>4. ASSUME NEW one \in RowsFor(TRUE), NEW r \in Ranking(db, type), r.babysitterId = Sitter(one).id
      PROVE  \E other \in RowsFor(FALSE) : Sitter(other) = Sitter(one)
  <2>1. /\ one[1] \in Filtered(TRUE) /\ one[2] \in Items(db, type, period, Sitter(one))
    BY JoinedIsAJoin
  <2>2. one[1][1] \in createBaseQuery(db)
    BY <2>1, RankedProfiles
  <2>3. PICK p : p = <<one[1][1], r>>
    OBVIOUS
  <2>4. p \in Filtered(FALSE)
    BY <1>4, <2>2, <2>3 DEF applyUserRoleFilter, InnerJoin, Ranking
  <2>5. PICK other : other = <<p, one[2]>>
    OBVIOUS
  <2>6. Sitter(other) = Sitter(one) /\ other[1] = p /\ other[2] = one[2]
    BY <2>3, <2>5
  <2>7. other \in RowsFor(FALSE)
    BY <2>1, <2>4, <2>5, <2>6, JoinedIsAJoin
  <2> QED
    BY <2>6, <2>7
<1>5. \A asAdmin \in BOOLEAN : \A e :
        e \in Shown(asAdmin) <=> \E one \in RowsFor(asAdmin) :
            Enough(type, Items(db, type, period, Sitter(one))) /\ e = EntryFor(db, type, period, Sitter(one))
  BY EntriesOfRanking
<1> HIDE DEF RowsFor, Shown, Sitter
<1>6. ASSUME NEW e \in Shown(FALSE)
      PROVE  e \in Shown(TRUE) /\ \E r \in Ranking(db, type) : r.babysitterId = e.user.id
  <2>1. PICK one \in RowsFor(FALSE) :
          Enough(type, Items(db, type, period, Sitter(one))) /\ e = EntryFor(db, type, period, Sitter(one))
    BY <1>5
  <2> QED
    BY <1>1, <1>3, <1>5, <2>1
<1>7. ASSUME NEW e \in Shown(TRUE), NEW r \in Ranking(db, type), r.babysitterId = e.user.id PROVE e \in Shown(FALSE)
  <2>1. PICK one \in RowsFor(TRUE) :
          Enough(type, Items(db, type, period, Sitter(one))) /\ e = EntryFor(db, type, period, Sitter(one))
    BY <1>5
  <2>2. r.babysitterId = Sitter(one).id
    BY <1>1, <1>7, <2>1
  <2>3. PICK other \in RowsFor(FALSE) : Sitter(other) = Sitter(one)
    BY <1>4, <2>2
  <2> QED
    BY <1>5, <2>1, <2>3
<1> QED
  BY <1>6, <1>7 DEF Shown

\* The sum of a column, as the statistics take it.
LEMMA PricesAsTaken ==
    ASSUME NEW items PROVE MapThenSumSet(LAMBDA b : b.prices, items) = Prices(items)
<1>1. Prices(items) = SumFunctionOnSet([b \in items |-> b.prices], items)
  BY DEF Prices, SumFunction
<1> QED
  BY <1>1, ZenonT(60) DEF MapThenSumSet, MapThenFoldSet, SumFunctionOnSet, FoldFunctionOnSet

\* Whatever bookings there are: the revenue of a year, added up by babysitter,
\* is the one that the common statistics take over all bookings of the time,
\* and no babysitter has earned more than that.
THEOREM TotalsOfRevenueAgree ==
    ASSUME NEW db, SoundTables(db), NEW year, NEW period,
           \A b \in db.bookings : b.createdAt \in year <=> Within(b.createdAt, period)
    PROVE  LET all == bookingOfYear(db, year)
           IN  /\ all.totalRevenue = getStatisticsCommon(db, period).totalRevenueCompleted
               /\ all.highestRevenue <= all.totalRevenue
<1> DEFINE earned == Earned(db, year)
<1>1. PICK done : done = {b \in db.bookings : b.status = "COMPLETED" /\ b.createdAt \in year}
  OBVIOUS
<1>2. PICK ids : ids = {b.babysitterId : b \in done}
  OBVIOUS
<1>3. PICK prices, sitter : prices = [b \in done |-> b.prices] /\ sitter = [b \in done |-> b.babysitterId]
  OBVIOUS
<1>4. IsFiniteSet(done) /\ \A b \in done : prices[b] \in Nat /\ sitter[b] \in ids /\ prices[b] = b.prices
  <2>1. done \subseteq db.bookings
    BY <1>1
  <2>2. IsFiniteSet(done)
    BY <2>1, FS_Subset DEF SoundTables
  <2> QED
    BY <1>2, <1>3, <2>1, <2>2 DEF SoundTables
<1>5. IsFiniteSet(ids)
  <2>1. \A id \in ids : \E b \in done : sitter[b] = id
    BY <1>2, <1>3
  <2> QED
    BY <1>4, <2>1, NamesAreFinite
<1>6. DOMAIN earned = ids /\ \A id \in ids : earned[id] = SumFunctionOnSet(prices, PartOf(done, sitter, id))
  <2>1. earned = [id \in ids |-> MapThenSumSet(LAMBDA b : b.prices, {b \in done : b.babysitterId = id})]
    BY <1>1, <1>2 DEF Earned
  <2>2. ASSUME NEW id \in ids PROVE earned[id] = SumFunctionOnSet(prices, PartOf(done, sitter, id))
    <3>1. PICK items : items = PartOf(done, sitter, id)
      OBVIOUS
    <3>2. items = {b \in done : b.babysitterId = id}
      BY <1>3, <3>1 DEF PartOf
    <3>3. earned[id] = Prices(items)
      BY <2>1, <3>2, PricesAsTaken
    <3>4. IsFiniteSet(items) /\ \A b \in items : prices[b] = [c \in items |-> c.prices][b]
      BY <1>4, <3>2, FS_Subset
    <3>5. SumFunctionOnSet(prices, items) = SumFunctionOnSet([c \in items |-> c.prices], items)
      BY <3>4, SumsAreOfValues
    <3> QED
      BY <3>1, <3>3, <3>5 DEF Prices, SumFunction
  <2> HIDE DEF earned
  <2> QED
    BY <2>1, <2>2
<1>7. bookingOfYear(db, year)
        = [totalRevenue |-> SumFunctionOnSet(earned, ids),
           highestRevenue |-> Max({0} \cup {earned[id] : id \in ids})]
  <2> HIDE DEF earned
  <2>1. MapThenSumSet(LAMBDA id : earned[id], ids) = SumFunctionOnSet(earned, ids)
    BY DEF MapThenSumSet, MapThenFoldSet, SumFunctionOnSet, FoldFunctionOnSet
  <2>2. bookingOfYear(db, year)
          = [totalRevenue |-> MapThenSumSet(LAMBDA id : earned[id], DOMAIN earned),
             highestRevenue |-> Max({0} \cup {earned[id] : id \in DOMAIN earned})]
    BY DEF bookingOfYear, earned
  <2> QED
    BY <1>6, <2>1, <2>2
<1>8. getStatisticsCommon(db, period).totalRevenueCompleted = Prices(done)
  <2>1. done = {b \in db.bookings : b.status = "COMPLETED" /\ Within(b.createdAt, period)}
    BY <1>1
  <2>2. getStatisticsCommon(db, period).totalRevenueCompleted = MapThenSumSet(LAMBDA b : b.prices, done)
    BY <2>1 DEF getStatisticsCommon
  <2> QED
    BY <2>2, PricesAsTaken
<1>9. SumFunctionOnSet(earned, ids) = SumFunctionOnSet(prices, done)
  <2> HIDE DEF earned
  <2> QED
    BY <1>4, <1>5, <1>6, SumByParts
<1>10. SumFunctionOnSet(prices, done) = Prices(done)
  BY <1>3 DEF Prices, SumFunction
<1> HIDE DEF earned
<1>11. \A id \in ids : earned[id] \in Nat
  <2> SUFFICES ASSUME NEW id \in ids PROVE earned[id] \in Nat
    OBVIOUS
  <2>1. PICK items : items = PartOf(done, sitter, id)
    OBVIOUS
  <2>2. IsFiniteSet(items) /\ \A b \in items : prices[b] \in Nat
    BY <1>4, <2>1, FS_Subset DEF PartOf
  <2> QED
    BY <1>6, <2>1, <2>2, SumIsNumber
<1>12. Max({0} \cup {earned[id] : id \in ids}) <= SumFunctionOnSet(earned, ids)
  <2>1. PICK sums : sums = {0} \cup {earned[id] : id \in ids}
    OBVIOUS
  <2>2. IsFiniteSet(sums) /\ sums # {} /\ sums \subseteq Nat
    <3>1. IsFiniteSet({earned[id] : id \in ids})
      <4>1. PICK values : values = {earned[id] : id \in ids}
        OBVIOUS
      <4>2. \A v \in values : \E id \in ids : earned[id] = v
        BY <4>1
      <4>3. IsFiniteSet(values)
        BY <1>5, <4>2, NamesAreFinite
      <4> QED
        BY <4>1, <4>3
    <3>2. sums = {earned[id] : id \in ids} \cup {0}
      BY <2>1
    <3>3. IsFiniteSet(sums)
      BY <3>1, <3>2, FS_AddElement
    <3> QED
      BY <1>11, <2>1, <3>3
  <2>3. Max(sums) \in sums
    BY <2>2, MaxExists
  <2>4. SumFunctionOnSet(earned, ids) \in Nat
    BY <1>5, <1>11, SumIsNumber
  <2>5. \A id \in ids : earned[id] <= SumFunctionOnSet(earned, ids)
    BY <1>5, <1>11, NoneIsMoreThanTheSum
  <2>6. \A x \in sums : x <= SumFunctionOnSet(earned, ids)
    BY <2>1, <2>4, <2>5
  <2> QED
    BY <2>1, <2>3, <2>6
<1> QED
  BY <1>7, <1>8, <1>9, <1>10, <1>12

\* Who lives in one of the cities.
LivingIn(db, cities) == {u \in Signed(db) : \E c \in cities : u.cityId = c.id}

\* Whatever cities there are, with an id each: every babysitter of a city is
\* counted once, in her city or among the cities that users have added.
THEOREM RegionsAlwaysCountOnce ==
    ASSUME NEW db, IsFiniteSet(db.users), IsFiniteSet(db.cities),
           \A c, d \in db.cities : c.id = d.id => c = d, \A c \in db.cities : c.isUserCreated \in BOOLEAN
    PROVE  LET regions == getStatisticsBabysitterRegion(db, {})
           IN  TotalOf(regions.cities) + regions.other = Cardinality(LivingIn(db, Undeleted(db.cities)))
<1>1. PICK made, own : /\ made = {c \in Undeleted(db.cities) : c.isUserCreated}
                       /\ own = {c \in Undeleted(db.cities) : ~c.isUserCreated}
  OBVIOUS
<1>2. IsFiniteSet(own) /\ own \subseteq db.cities /\ made \subseteq db.cities /\ own \cap made = {}
      /\ own \cup made = Undeleted(db.cities)
  <2>1. own \subseteq db.cities /\ made \subseteq db.cities
    BY <1>1 DEF Undeleted
  <2>2. own \cap made = {} /\ own \cup made = Undeleted(db.cities)
    BY <1>1
  <2>3. IsFiniteSet(own)
    BY <2>1, FS_Subset
  <2> QED
    BY <2>1, <2>2, <2>3
<1>3. PICK inOwn, inMade : inOwn = LivingIn(db, own) /\ inMade = LivingIn(db, made)
  OBVIOUS
<1>4. IsFiniteSet(inOwn) /\ IsFiniteSet(inMade)
  <2>1. inOwn \subseteq db.users /\ inMade \subseteq db.users
    BY <1>3 DEF LivingIn, Signed, Role, Undeleted
  <2> QED
    BY <2>1, FS_Subset
<1>5. PICK counts : counts = [c \in own |-> countBabysitter(db, c)]
  OBVIOUS
<1>6. getStatisticsBabysitterRegion(db, {}).cities = counts
  BY <1>1, <1>5 DEF getStatisticsBabysitterRegion
<1>7. PICK pairs : pairs = {pair \in Signed(db) \X made : pair[1].cityId = pair[2].id}
  OBVIOUS
<1>8. getStatisticsBabysitterRegion(db, {}).other = Cardinality(pairs)
  <2>1. made = {c \in Undeleted(db.cities) : c.isUserCreated /\ ({} = {} \/ c.id \in {})}
    BY <1>1
  <2>2. getStatisticsBabysitterRegion(db, {}).other
          = Cardinality(InnerJoin(Signed(db), made, LAMBDA u, c : u.cityId = c.id))
    BY <2>1 DEF getStatisticsBabysitterRegion
  <2>3. pairs = InnerJoin(Signed(db), made, LAMBDA u, c : u.cityId = c.id)
    BY <1>7 DEF InnerJoin
  <2> QED
    BY <2>2, <2>3
<1>9. Cardinality(pairs) = Cardinality(inMade)
  <2> DEFINE city == [u \in inMade |-> <<u, CHOOSE c \in made : u.cityId = c.id>>]
  <2>1. \A u \in inMade : \E c \in made : u.cityId = c.id /\ city[u] = <<u, c>>
    BY <1>3 DEF LivingIn
  <2>2. city \in [inMade -> pairs]
    <3>1. \A u \in inMade : u \in Signed(db)
      BY <1>3 DEF LivingIn
    <3>2. \A u \in inMade : city[u] \in pairs
      BY <1>7, <2>1, <3>1
    <3> QED
      BY <3>2
  <2>3. \A u, v \in inMade : city[u] = city[v] => u = v
    <3> HIDE DEF city
    <3> QED
      BY <2>1
  <2>4. ASSUME NEW pair \in pairs PROVE pair[1] \in inMade /\ city[pair[1]] = pair
    <3>1. pair = <<pair[1], pair[2]>> /\ pair[1] \in inMade /\ pair[2] \in made /\ pair[1].cityId = pair[2].id
      BY <1>3, <1>7 DEF LivingIn
    <3>2. PICK c \in made : pair[1].cityId = c.id /\ city[pair[1]] = <<pair[1], c>>
      BY <2>1, <3>1
    <3>3. c = pair[2]
      BY <1>2, <3>1, <3>2
    <3> HIDE DEF city
    <3> QED
      BY <3>1, <3>2, <3>3
  <2> HIDE DEF city
  <2>5. city \in Bijection(inMade, pairs)
    BY <2>2, <2>3, <2>4 DEF Bijection, Injection, Surjection, IsInjective
  <2>6. ExistsBijection(inMade, pairs)
    BY <2>5 DEF ExistsBijection
  <2> QED
    BY <1>4, <2>6, FS_Bijection
<1>10. TotalOf(counts) = Cardinality(inOwn)
  <2> DEFINE home == [u \in inOwn |-> CHOOSE c \in own : u.cityId = c.id]
             one == [u \in inOwn |-> 1]
  <2>1. \A u \in inOwn : one[u] = 1 /\ one[u] \in Nat /\ home[u] \in own /\ u.cityId = home[u].id
    BY <1>3 DEF LivingIn
  <2> HIDE DEF home, one
  <2>2. ASSUME NEW c \in own PROVE counts[c] = SumFunctionOnSet(one, PartOf(inOwn, home, c))
    <3>1. PICK part : part = PartOf(inOwn, home, c)
      OBVIOUS
    <3>2. part \subseteq inOwn
      BY <3>1 DEF PartOf
    <3>3. part = {u \in Signed(db) : u.cityId = c.id}
      <4>1. ASSUME NEW u \in part PROVE u \in Signed(db) /\ u.cityId = c.id
        BY <1>3, <2>1, <3>1 DEF PartOf, LivingIn
      <4>2. ASSUME NEW u \in Signed(db), u.cityId = c.id PROVE u \in part
        <5>1. u \in inOwn
          BY <1>3, <4>2 DEF LivingIn
        <5>2. home[u] = c
          BY <1>2, <2>1, <4>2, <5>1
        <5> QED
          BY <3>1, <5>1, <5>2 DEF PartOf
      <4> QED
        BY <4>1, <4>2
    <3>4. counts[c] = Cardinality(part)
      BY <1>5, <3>3 DEF countBabysitter
    <3>5. IsFiniteSet(part) /\ \A u \in part : one[u] = 1
      BY <1>4, <2>1, <3>2, FS_Subset
    <3> QED
      BY <3>1, <3>4, <3>5, CountIsSum
  <2>3. SumFunctionOnSet(counts, own) = SumFunctionOnSet(one, inOwn)
    BY <1>2, <1>4, <2>1, <2>2, SumByParts
  <2>4. SumFunctionOnSet(one, inOwn) = Cardinality(inOwn)
    BY <1>4, <2>1, CountIsSum
  <2>5. TotalOf(counts) = SumFunctionOnSet(counts, own)
    BY <1>5 DEF TotalOf, MapThenSumSet, MapThenFoldSet, SumFunctionOnSet, FoldFunctionOnSet
  <2> QED
    BY <2>3, <2>4, <2>5
<1>11. LivingIn(db, Undeleted(db.cities)) = inOwn \cup inMade /\ inOwn \cap inMade = {}
  <2>1. LivingIn(db, own \cup made) = inOwn \cup inMade
    BY <1>3 DEF LivingIn
  <2>2. inOwn \cap inMade = {}
    BY <1>2, <1>3 DEF LivingIn
  <2> QED
    BY <1>2, <2>1, <2>2
<1>12. Cardinality(inOwn \cup inMade) = Cardinality(inOwn) + Cardinality(inMade)
  <2>1. /\ Cardinality(inOwn) \in Nat /\ Cardinality(inMade) \in Nat
        /\ Cardinality(inOwn \cup inMade) = Cardinality(inOwn) + Cardinality(inMade) - Cardinality(inOwn \cap inMade)
    BY <1>4, FS_Union, FS_CardinalityType
  <2>2. Cardinality(inOwn \cap inMade) = 0
    BY <1>11, FS_EmptySet
  <2> QED
    BY <2>1, <2>2
<1> QED
  BY <1>6, <1>8, <1>9, <1>10, <1>11, <1>12

----------------------------------------------------------------------------
(* The rates of the statistics (Reports).                                   *)

\* A share is the nearest hundredth of a percent, a half being raised.
LEMMA ShareIsNearest ==
    ASSUME NEW rows, IsFiniteSet(rows), rows # {}, NEW part \in SUBSET rows
    PROVE  LET n == Cardinality(rows)
               p == Cardinality(part)
               s == Share(part, rows)
           IN  /\ n \in Nat \ {0} /\ p \in Nat /\ s \in Nat
               /\ 2 * n * s <= 20000 * p + n /\ 20000 * p + n <= 2 * n * s + 2 * n
<1>1. PICK n \in Nat \ {0} : n = Cardinality(rows)
  BY FS_CardinalityType, FS_EmptySet
<1>2. PICK p \in Nat : p = Cardinality(part)
  BY FS_Subset, FS_CardinalityType
<1>3. PICK s : s = Share(part, rows)
  OBVIOUS
<1>4. PICK d \in Nat, m \in Nat \ {0} : d = 20000 * p + n /\ m = 2 * n
  OBVIOUS
<1>5. s = d \div m
  BY <1>1, <1>2, <1>3, <1>4 DEF Share
<1>6. d \div m \in Nat /\ d % m \in 0..(m - 1)
  BY <1>4
<1>7. d = m * (d \div m) + (d % m)
  BY DivisionLeavesRest
<1>8. PICK q \in Nat, r \in 0..(m - 1) : q = d \div m /\ r = d % m
  BY <1>6
<1>9. PICK a \in Nat : a = m * q
  OBVIOUS
<1>10. d = a + r
  BY <1>7, <1>8, <1>9
<1>11. a <= d /\ d <= a + m
  BY <1>4, <1>8, <1>9, <1>10
<1>12. 2 * n * s = a
  BY <1>4, <1>5, <1>8, <1>9
<1> QED
  BY <1>1, <1>2, <1>3, <1>4, <1>5, <1>8, <1>11, <1>12

\* What is in the parts with the names of U.
InParts(parts, U) == UNION {parts[k] : k \in U}

\* The shares of parts that have nothing in common add up to that of them all,
\* up to half a hundredth for each.
LEMMA SharesAddUp ==
    ASSUME NEW rows, IsFiniteSet(rows), rows # {}, NEW K, IsFiniteSet(K),
           NEW parts, \A k \in K : parts[k] \subseteq rows,
           \A k, l \in K : k # l => parts[k] \cap parts[l] = {},
           NEW shares, \A k \in K : shares[k] = Share(parts[k], rows),
           NEW n, n = Cardinality(rows), NEW t, t = SumFunctionOnSet(shares, K),
           NEW m, m = Cardinality(InParts(parts, K)), NEW c, c = Cardinality(K)
    PROVE  /\ n \in Nat \ {0} /\ t \in Nat /\ m \in Nat /\ c \in Nat
           /\ 2 * n * t <= 20000 * m + n * c
           /\ 20000 * m + n * c <= 2 * n * t + 2 * n * c
<1>1. n \in Nat \ {0}
  BY FS_CardinalityType, FS_EmptySet
<1> DEFINE Near(U) ==
             LET a == SumFunctionOnSet(shares, U)
                 b == Cardinality(InParts(parts, U))
                 d == Cardinality(U)
             IN  /\ a \in Nat /\ b \in Nat /\ d \in Nat
                 /\ 2 * n * a <= 20000 * b + n * d
                 /\ 20000 * b + n * d <= 2 * n * a + 2 * n * d
           G == {U \in SUBSET K : Near(U)}
<1>2. ASSUME NEW k \in K
      PROVE  LET p == Cardinality(parts[k])
             IN  /\ p \in Nat /\ shares[k] \in Nat
                 /\ 2 * n * shares[k] <= 20000 * p + n
                 /\ 20000 * p + n <= 2 * n * shares[k] + 2 * n
  BY <1>1, ShareIsNearest
<1>3. ASSUME NEW U \in SUBSET K, \A V \in SUBSET U : V # U => V \in G PROVE U \in G
  <2>1. CASE U = {}
    <3>1. InParts(parts, {}) = {}
      BY DEF InParts
    <3>2. SumFunctionOnSet(shares, U) = 0 /\ Cardinality(InParts(parts, U)) = 0 /\ Cardinality(U) = 0
      BY <2>1, <3>1, SumOfNone, FS_EmptySet
    <3>3. Near(U)
      BY <1>1, <3>2
    <3> QED
      BY <3>3
  <2>2. CASE U # {}
    <3>1. PICK k \in U : TRUE
      BY <2>2
    <3>2. PICK V : V = U \ {k}
      OBVIOUS
    <3>3. IsFiniteSet(U) /\ V \in SUBSET K /\ k \in K
      BY <3>2, FS_Subset
    <3>4. PICK a \in Nat, b \in Nat, d \in Nat :
             /\ a = SumFunctionOnSet(shares, V) /\ b = Cardinality(InParts(parts, V)) /\ d = Cardinality(V)
             /\ 2 * n * a <= 20000 * b + n * d /\ 20000 * b + n * d <= 2 * n * a + 2 * n * d
      <4>1. V \in G
        BY <1>3, <3>2
      <4> QED
        BY <4>1
    <3>5. PICK p \in Nat, s \in Nat :
             /\ p = Cardinality(parts[k]) /\ s = shares[k]
             /\ 2 * n * s <= 20000 * p + n /\ 20000 * p + n <= 2 * n * s + 2 * n
      BY <1>2, <3>3
    <3>6. SumFunctionOnSet(shares, U) = s + a
      <4>1. \A x \in U : shares[x] \in Nat
        BY <1>2
      <4>2. SumFunctionOnSet(shares, U) = shares[k] + SumFunctionOnSet(shares, V)
        BY <3>2, <3>3, <4>1, SumWithout
      <4> QED
        BY <3>4, <3>5, <4>2
    <3>7. Cardinality(InParts(parts, U)) = p + b
      <4>1. InParts(parts, U) = parts[k] \cup InParts(parts, V)
        BY <3>1, <3>2 DEF InParts
      <4>2. parts[k] \cap InParts(parts, V) = {}
        BY <3>2, <3>3 DEF InParts
      <4>3. IsFiniteSet(parts[k]) /\ IsFiniteSet(InParts(parts, V))
        <5>1. parts[k] \subseteq rows /\ InParts(parts, V) \subseteq rows
          BY <3>3 DEF InParts
        <5> QED
          BY <5>1, FS_Subset
      <4>4. Cardinality(parts[k] \cup InParts(parts, V))
              = Cardinality(parts[k]) + Cardinality(InParts(parts, V)) - Cardinality({})
        BY <4>2, <4>3, FS_Union
      <4> QED
        BY <3>4, <3>5, <4>1, <4>4, FS_EmptySet
    <3>8. Cardinality(U) = d + 1
      <4>1. Cardinality(V) = Cardinality(U) - 1 /\ Cardinality(U) \in Nat
        BY <3>2, <3>3, FS_RemoveElement, FS_CardinalityType
      <4> QED
        BY <3>4, <4>1
    <3>9. PICK x \in Nat, y \in Nat, z \in Nat : x = 2 * n * s /\ y = 2 * n * a /\ z = n * d
      BY <1>1
    <3>10. 2 * n * (s + a) = x + y
      BY <1>1, <3>9
    <3>11. n * (d + 1) = z + n
      BY <1>1, <3>9
    <3>12. 2 * n * (d + 1) = 2 * z + 2 * n /\ 2 * n * d = 2 * z
      BY <1>1, <3>9
    <3>13. /\ x + y <= 20000 * (p + b) + (z + n)
           /\ 20000 * (p + b) + (z + n) <= (x + y) + (2 * z + 2 * n)
      BY <1>1, <3>4, <3>5, <3>9, <3>12
    <3>14. s + a \in Nat /\ p + b \in Nat /\ d + 1 \in Nat
      OBVIOUS
    <3>15. Near(U)
      BY <3>6, <3>7, <3>8, <3>10, <3>11, <3>12, <3>13, <3>14
    <3> QED
      BY <3>15
  <2> QED
    BY <2>1, <2>2
<1> HIDE DEF G
<1>4. K \in G
  BY <1>3, FiniteInduction
<1> QED
  BY <1>1, <1>4 DEF G

\* Of at most five parts, the shares are not more than the whole and its
\* rounding; and not less if all is in one of them.
LEMMA SharesOfAll ==
    ASSUME NEW rows, IsFiniteSet(rows), rows # {}, NEW K, IsFiniteSet(K), Cardinality(K) <= 5,
           NEW parts, \A k \in K : parts[k] \subseteq rows,
           \A k, l \in K : k # l => parts[k] \cap parts[l] = {},
           NEW shares, \A k \in K : shares[k] = Share(parts[k], rows)
    PROVE  LET t == SumFunctionOnSet(shares, K)
           IN  /\ t \in Nat /\ t <= 10002
               /\ rows \subseteq InParts(parts, K) => t >= 9998
<1>1. PICK n, t, m, c : /\ n = Cardinality(rows) /\ t = SumFunctionOnSet(shares, K)
                       /\ m = Cardinality(InParts(parts, K)) /\ c = Cardinality(K)
  OBVIOUS
<1>2. /\ n \in Nat \ {0} /\ t \in Nat /\ m \in Nat /\ c \in Nat
      /\ 2 * n * t <= 20000 * m + n * c /\ 20000 * m + n * c <= 2 * n * t + 2 * n * c
  BY <1>1, SharesAddUp
<1>3. InParts(parts, K) \subseteq rows
  BY DEF InParts
<1>4. m <= n
  BY <1>1, <1>2, <1>3, FS_Subset
<1>5. PICK z \in Nat : z = n * c
  BY <1>2
<1>6. z <= 5 * n
  <2>1. PICK d \in Nat : d + c = 5
    <3>1. 5 - c \in Nat /\ (5 - c) + c = 5
      BY <1>1, <1>2
    <3> QED
      BY <3>1
  <2>2. n * (d + c) = n * d + n * c /\ n * d \in Nat
    BY <1>2
  <2> QED
    BY <1>2, <1>5, <2>1, <2>2
<1>7. PICK y \in Nat : y = 2 * n * t
  BY <1>2
<1>8. y <= 20005 * n
  BY <1>2, <1>4, <1>5, <1>6, <1>7
<1>9. t <= 10002
  <2> SUFFICES ASSUME t >= 10003 PROVE FALSE
    BY <1>2
  <2>1. PICK d \in Nat : t = 10003 + d
    <3>1. t - 10003 \in Nat /\ t = 10003 + (t - 10003)
      BY <1>2
    <3> QED
      BY <3>1
  <2>2. 2 * n * (10003 + d) = 20006 * n + 2 * n * d /\ 2 * n * d \in Nat
    BY <1>2
  <2>3. n \in Nat \ {0}
    BY <1>2
  <2> QED
    BY <1>7, <1>8, <2>1, <2>2, <2>3
<1>10. ASSUME rows \subseteq InParts(parts, K) PROVE t >= 9998
  <2>1. m = n
    <3>1. InParts(parts, K) = rows
      BY <1>3, <1>10
    <3> QED
      BY <1>1, <3>1
  <2>2. 2 * n * c = 2 * z
    BY <1>2, <1>5
  <2>3. 19995 * n <= y
    BY <1>2, <1>5, <1>6, <1>7, <2>1, <2>2
  <2>4. n \in Nat \ {0} /\ t \in Nat
    BY <1>2
  <2> SUFFICES ASSUME t <= 9997 PROVE FALSE
    BY <2>4
  <2>5. PICK d \in Nat : 9997 = t + d
    <3>1. 9997 - t \in Nat /\ 9997 = t + (9997 - t)
      BY <2>4
    <3> QED
      BY <3>1
  <2>6. 2 * n * (t + d) = 2 * n * t + 2 * n * d /\ 2 * n * d \in Nat
    BY <2>4
  <2>7. 2 * n * (t + d) = 19994 * n
    BY <2>4, <2>5
  <2> QED
    BY <1>7, <2>3, <2>4, <2>6, <2>7
<1>11. t \in Nat
  BY <1>2
<1> QED
  BY <1>1, <1>9, <1>10, <1>11

LEMMA TotalIsTheSum == ASSUME NEW shares PROVE TotalOf(shares) = SumFunctionOnSet(shares, DOMAIN shares)
BY ZenonT(40) DEF TotalOf, MapThenSumSet, MapThenFoldSet, SumFunctionOnSet, FoldFunctionOnSet

\* The rows of the rates: a user with each account, or with none.
LEMMA RowsOfRates ==
    ASSUME NEW db, NEW role
    PROVE  \A row : row \in RateRows(db, role) <=>
               \E u \in Role(db, role) :
                   \/ \E a \in Undeleted(db.socialAccounts) : a.userId = u.id /\ row = <<u, a>>
                   \/ (\A a \in Undeleted(db.socialAccounts) : a.userId # u.id) /\ row = <<u, NoRow>>
<1> DEFINE people == Role(db, role)
           accounts == Undeleted(db.socialAccounts)
<1>1. RateRows(db, role) = InnerJoin(people, accounts, LAMBDA u, a : a.userId = u.id)
                             \cup {<<l, NoRow>> : l \in {u \in people : \A a \in accounts : a.userId # u.id}}
  BY DEF RateRows, LeftJoin
<1>2. InnerJoin(people, accounts, LAMBDA u, a : a.userId = u.id) = {pair \in people \X accounts : pair[2].userId = pair[1].id}
  BY DEF InnerJoin
<1> HIDE DEF people, accounts
<1>3. ASSUME NEW row
      PROVE  row \in {pair \in people \X accounts : pair[2].userId = pair[1].id}
                <=> \E u \in people : \E a \in accounts : a.userId = u.id /\ row = <<u, a>>
  OBVIOUS
<1>4. ASSUME NEW row
      PROVE  row \in {<<l, NoRow>> : l \in {u \in people : \A a \in accounts : a.userId # u.id}}
                <=> \E u \in people : (\A a \in accounts : a.userId # u.id) /\ row = <<u, NoRow>>
  OBVIOUS
<1>5. ASSUME NEW row
      PROVE  row \in RateRows(db, role) <=>
               \E u \in people : \/ \E a \in accounts : a.userId = u.id /\ row = <<u, a>>
                                 \/ (\A a \in accounts : a.userId # u.id) /\ row = <<u, NoRow>>
  <2>1. row \in RateRows(db, role)
          <=> \/ row \in {pair \in people \X accounts : pair[2].userId = pair[1].id}
              \/ row \in {<<l, NoRow>> : l \in {u \in people : \A a \in accounts : a.userId # u.id}}
    BY <1>1, <1>2
  <2> QED
    BY <1>3, <1>4, <2>1
<1> QED
  BY <1>5 DEF people, accounts

LEMMA RateRowsAreFinite ==
    ASSUME NEW db, IsFiniteSet(db.users), IsFiniteSet(db.socialAccounts), NEW role
    PROVE  IsFiniteSet(RateRows(db, role))
<1>1. PICK people, accounts : people = Role(db, role) /\ accounts = Undeleted(db.socialAccounts) \cup {NoRow}
  OBVIOUS
<1>2. IsFiniteSet(people)
  <2>1. people \subseteq db.users
    BY <1>1 DEF Role, Undeleted
  <2> QED
    BY <2>1, FS_Subset
<1>3. IsFiniteSet(accounts)
  <2>1. Undeleted(db.socialAccounts) \subseteq db.socialAccounts
    BY DEF Undeleted
  <2>2. IsFiniteSet(Undeleted(db.socialAccounts))
    BY <2>1, FS_Subset
  <2> QED
    BY <1>1, <2>2, FS_AddElement
<1>4. RateRows(db, role) \subseteq people \X accounts
  BY <1>1, RowsOfRates
<1> QED
  BY <1>2, <1>3, <1>4, FS_Product, FS_Subset

\* Without a second account for any, the rows of some users are as many.
LEMMA RowsAreUsers ==
    ASSUME NEW db, IsFiniteSet(db.users), IsFiniteSet(db.socialAccounts), NEW role,
           \A a, b \in Undeleted(db.socialAccounts) : a.userId = b.userId => a = b,
           NEW X \in SUBSET Role(db, role)
    PROVE  Cardinality({row \in RateRows(db, role) : row[1] \in X}) = Cardinality(X)
<1> DEFINE rows == {row \in RateRows(db, role) : row[1] \in X}
           user == [row \in rows |-> row[1]]
<1>1. \A row \in rows : row[1] \in X /\ row = <<row[1], row[2]>>
  BY RowsOfRates
<1>2. \A row, other \in rows : row[1] = other[1] => row[2] = other[2]
  BY RowsOfRates
<1>3. \A u \in X : \E row \in rows : row[1] = u
  <2> SUFFICES ASSUME NEW u \in X PROVE \E row \in RateRows(db, role) : row[1] = u
    OBVIOUS
  <2>1. CASE \E a \in Undeleted(db.socialAccounts) : a.userId = u.id
    <3>1. PICK a \in Undeleted(db.socialAccounts) : a.userId = u.id
      BY <2>1
    <3>2. <<u, a>> \in RateRows(db, role)
      BY <3>1, RowsOfRates
    <3> QED
      BY <3>2
  <2>2. CASE \A a \in Undeleted(db.socialAccounts) : a.userId # u.id
    <3>1. <<u, NoRow>> \in RateRows(db, role)
      BY <2>2, RowsOfRates
    <3> QED
      BY <3>1
  <2> QED
    BY <2>1, <2>2
<1> HIDE DEF rows
<1>4. user \in Bijection(rows, X)
  <2>1. user \in [rows -> X]
    BY <1>1
  <2>2. \A row, other \in rows : user[row] = user[other] => row = other
    BY <1>1, <1>2
  <2>3. \A u \in X : \E row \in rows : user[row] = u
    BY <1>3
  <2> HIDE DEF user
  <2> QED
    BY <2>1, <2>2, <2>3 DEF Bijection, Injection, Surjection, IsInjective
<1>5. IsFiniteSet(rows)
  <2>1. rows \subseteq RateRows(db, role)
    BY DEF rows
  <2> QED
    BY <2>1, RateRowsAreFinite, FS_Subset
<1>6. ExistsBijection(rows, X)
  BY <1>4 DEF ExistsBijection
<1> QED
  BY <1>5, <1>6, FS_Bijection DEF rows

LEMMA AtMostFive ==
    ASSUME NEW a, NEW b, NEW c, NEW d, NEW e, NEW S, S = {a, b, c, d, e}
    PROVE  IsFiniteSet(S) /\ Cardinality(S) <= 5
<1> DEFINE one == {a}
           two == one \cup {b}
           three == two \cup {c}
           four == three \cup {d}
           five == four \cup {e}
<1>1. five = S
  OBVIOUS
<1> HIDE DEF two, three, four, five
<1>2. IsFiniteSet(one) /\ Cardinality(one) = 1
  BY FS_Singleton
<1> HIDE DEF one
<1>3. IsFiniteSet(two) /\ Cardinality(two) \in 1..2
  BY <1>2, FS_AddElement DEF two
<1>4. IsFiniteSet(three) /\ Cardinality(three) \in 1..3
  BY <1>3, FS_AddElement DEF three
<1>5. IsFiniteSet(four) /\ Cardinality(four) \in 1..4
  BY <1>4, FS_AddElement DEF four
<1>6. IsFiniteSet(five) /\ Cardinality(five) <= 5
  <2>1. IsFiniteSet(four \cup {e}) /\ Cardinality(four \cup {e})
          = IF e \in four THEN Cardinality(four) ELSE Cardinality(four) + 1
    BY <1>5, FS_AddElement
  <2>2. PICK k \in 1..4 : k = Cardinality(four)
    BY <1>5
  <2> QED
    BY <2>1, <2>2 DEF five
<1> QED
  BY <1>1, <1>6

\* Whatever users and linked accounts there are: the ways to sign in, and the
\* ages, add up to no more than the whole and its rounding, and to no less once
\* everyone has a way, or an age below fifty.  The rates of the genders are
\* those of the users as long as nobody is linked twice.
THEOREM RatesAreAlwaysShares ==
    ASSUME NEW db, IsFiniteSet(db.users), IsFiniteSet(db.socialAccounts), NEW role
    PROVE  LET rate == rateUsers(db, role)
               people == Role(db, role)
               accounts == Undeleted(db.socialAccounts)
           IN  /\ TotalOf(rate.login) <= 10002 /\ TotalOf(rate.age) <= 10002
               /\ people # {} /\ (\A a \in accounts : a.id # 0 /\ a.provider \in Provider)
                  /\ (\A u \in people : u.email \/ \E a \in accounts : a.userId = u.id)
                  => TotalOf(rate.login) >= 9998
               /\ people # {} /\ (\A u \in people : \E band \in DOMAIN Band : u.age \in Band[band])
                  => TotalOf(rate.age) >= 9998
               /\ (\A a, b \in accounts : a.userId = b.userId => a = b)
                  => \A g \in Gender : rate.gender[g] = Share({u \in people : u.gender = g}, people)
<1> DEFINE rate == rateUsers(db, role)
           people == Role(db, role)
           accounts == Undeleted(db.socialAccounts)
<1>1. PICK rows : rows = RateRows(db, role)
  OBVIOUS
<1>2. IsFiniteSet(rows)
  BY <1>1, RateRowsAreFinite
<1>3. PICK ways : ways = Provider \cup {"email"}
  OBVIOUS
<1>4. IsFiniteSet(ways) /\ Cardinality(ways) <= 5
  <2>1. ways = {"google", "kakaotalk", "facebook", "apple", "email"}
    BY <1>3 DEF Provider
  <2> QED
    BY <2>1, AtMostFive
<1>5. IsFiniteSet(DOMAIN Band) /\ Cardinality(DOMAIN Band) <= 5
  <2>1. DOMAIN Band = {"U20", "U30", "U40", "U50", "U50"}
    BY DEF Band
  <2> QED
    BY <2>1, AtMostFive
<1>6. /\ rate.gender = [g \in Gender |-> Share(Genders(rows)[g], rows)]
      /\ rate.age = [band \in DOMAIN Band |-> Share(Ages(rows)[band], rows)]
      /\ rate.login = [way \in ways |-> Share(Logins(rows)[way], rows)]
  BY <1>1, <1>3 DEF rateUsers
<1>7. PICK logins, ages : logins = Logins(rows) /\ ages = Ages(rows)
  OBVIOUS
<1>8. /\ \A way \in ways : logins[way] \subseteq rows
      /\ \A way, other \in ways : way # other => logins[way] \cap logins[other] = {}
  <2>1. \A way \in ways : \A row : row \in logins[way] <=>
            row \in rows /\ IF way = "email" THEN row[1].email /\ row[2] = NoRow
                            ELSE row[2] # NoRow /\ row[2].provider = way
    BY <1>3, <1>7 DEF Logins
  <2> QED
    BY <2>1
<1>9. /\ \A band \in DOMAIN Band : ages[band] \subseteq rows
      /\ \A band, other \in DOMAIN Band : band # other => ages[band] \cap ages[other] = {}
  <2>1. \A band \in DOMAIN Band : \A row : row \in ages[band] <=> row \in rows /\ row[1].age \in Band[band]
    BY <1>7 DEF Ages
  <2>2. \A band, other \in DOMAIN Band : band # other => Band[band] \cap Band[other] = {}
    BY DEF Band
  <2> QED
    BY <2>1, <2>2
<1>10. PICK login, age : login = rate.login /\ age = rate.age
  OBVIOUS
<1>11. /\ DOMAIN login = ways /\ \A way \in ways : login[way] = Share(logins[way], rows)
       /\ DOMAIN age = DOMAIN Band /\ \A band \in DOMAIN Band : age[band] = Share(ages[band], rows)
  BY <1>6, <1>7, <1>10
<1>12. TotalOf(login) = SumFunctionOnSet(login, ways) /\ TotalOf(age) = SumFunctionOnSet(age, DOMAIN Band)
  BY <1>11, TotalIsTheSum
<1>13. TotalOf(login) <= 10002 /\ TotalOf(age) <= 10002
  <2>1. CASE rows = {}
    <3>1. \A part : Share(part, rows) = 0
      BY <2>1 DEF Share
    <3>2. SumFunctionOnSet(login, ways) = 0 * Cardinality(ways)
      BY <1>4, <1>11, <3>1, SumOfEquals
    <3>3. SumFunctionOnSet(age, DOMAIN Band) = 0 * Cardinality(DOMAIN Band)
      BY <1>5, <1>11, <3>1, SumOfEquals
    <3>4. Cardinality(ways) \in Nat /\ Cardinality(DOMAIN Band) \in Nat
      BY <1>4, <1>5, FS_CardinalityType
    <3> QED
      BY <1>12, <3>2, <3>3, <3>4
  <2>2. CASE rows # {}
    <3>1. TotalOf(login) <= 10002
      BY <1>2, <1>4, <1>8, <1>11, <1>12, <2>2, SharesOfAll
    <3>2. TotalOf(age) <= 10002
      BY <1>2, <1>5, <1>9, <1>11, <1>12, <2>2, SharesOfAll
    <3> QED
      BY <3>1, <3>2
  <2> QED
    BY <2>1, <2>2
<1>14. ASSUME people # {} PROVE rows # {}
  <2>1. PICK u \in people : TRUE
    BY <1>14
  <2>2. CASE \E a \in accounts : a.userId = u.id
    <3>1. PICK a \in accounts : a.userId = u.id
      BY <2>2
    <3>2. <<u, a>> \in rows
      BY <1>1, <3>1, RowsOfRates
    <3> QED
      BY <3>2
  <2>3. CASE \A a \in accounts : a.userId # u.id
    <3>1. <<u, NoRow>> \in rows
      BY <1>1, <2>3, RowsOfRates
    <3> QED
      BY <3>1
  <2> QED
    BY <2>2, <2>3
<1>15. ASSUME people # {}, \A a \in accounts : a.id # 0 /\ a.provider \in Provider,
              \A u \in people : u.email \/ \E a \in accounts : a.userId = u.id
       PROVE  TotalOf(login) >= 9998
  <2>1. ASSUME NEW row \in rows PROVE \E way \in ways : row \in logins[way]
    <3>1. PICK u \in people : \/ \E a \in accounts : a.userId = u.id /\ row = <<u, a>>
                              \/ (\A a \in accounts : a.userId # u.id) /\ row = <<u, NoRow>>
      BY <1>1, RowsOfRates
    <3>2. CASE \E a \in accounts : a.userId = u.id /\ row = <<u, a>>
      <4>1. PICK a \in accounts : row = <<u, a>>
        BY <3>2
      <4>2. a # NoRow /\ a.provider \in Provider
        BY <1>15 DEF NoRow
      <4>3. a.provider \in ways /\ a.provider # "email"
        BY <1>3, <4>2 DEF Provider
      <4>4. row \in logins[a.provider]
        BY <1>3, <1>7, <4>1, <4>2, <4>3 DEF Logins
      <4> QED
        BY <4>3, <4>4
    <3>3. CASE (\A a \in accounts : a.userId # u.id) /\ row = <<u, NoRow>>
      <4>1. u.email /\ row[1] = u /\ row[2] = NoRow
        BY <1>15, <3>3
      <4>2. row \in logins["email"] /\ "email" \in ways
        BY <1>3, <1>7, <4>1 DEF Logins
      <4> QED
        BY <4>2
    <3> QED
      BY <3>1, <3>2, <3>3
  <2>2. rows \subseteq InParts(logins, ways)
    BY <2>1 DEF InParts
  <2> QED
    BY <1>2, <1>4, <1>8, <1>11, <1>12, <1>14, <1>15, <2>2, SharesOfAll
<1>16. ASSUME people # {}, \A u \in people : \E band \in DOMAIN Band : u.age \in Band[band]
       PROVE  TotalOf(age) >= 9998
  <2>1. ASSUME NEW row \in rows PROVE \E band \in DOMAIN Band : row \in ages[band]
    <3>1. row[1] \in people
      BY <1>1, RowsOfRates
    <3> QED
      BY <1>7, <1>16, <3>1 DEF Ages
  <2>2. rows \subseteq InParts(ages, DOMAIN Band)
    BY <2>1 DEF InParts
  <2> QED
    BY <1>2, <1>5, <1>9, <1>11, <1>12, <1>14, <1>16, <2>2, SharesOfAll
<1>17. ASSUME \A a, b \in accounts : a.userId = b.userId => a = b, NEW g \in Gender
       PROVE  rate.gender[g] = Share({u \in people : u.gender = g}, people)
  <2>1. PICK some : some = {u \in people : u.gender = g}
    OBVIOUS
  <2>2. \A row \in rows : row[1] \in people
    BY <1>1, RowsOfRates
  <2>3. Genders(rows)[g] = {row \in rows : row[1] \in some} /\ rows = {row \in rows : row[1] \in people}
    BY <2>1, <2>2 DEF Genders
  <2>4. Cardinality({row \in RateRows(db, role) : row[1] \in some}) = Cardinality(some)
    BY <1>17, <2>1, RowsAreUsers
  <2>5. Cardinality({row \in RateRows(db, role) : row[1] \in people}) = Cardinality(people)
    BY <1>17, RowsAreUsers
  <2>6. rows = {} <=> people = {}
    BY <1>14, <2>2
  <2>7. Cardinality(Genders(rows)[g]) = Cardinality(some) /\ Cardinality(rows) = Cardinality(people)
    BY <1>1, <2>3, <2>4, <2>5
  <2>8. Share(Genders(rows)[g], rows) = Share(some, people)
    <3> HIDE DEF people
    <3> QED
      BY <2>6, <2>7 DEF Share
  <2>9. rate.gender[g] = Share(Genders(rows)[g], rows)
    BY <1>6
  <2> HIDE DEF people, rate
  <2> QED
    BY <2>1, <2>8, <2>9
<1> QED
  BY <1>10, <1>13, <1>15, <1>16, <1>17
=============================================================================
