----------------------------- MODULE OneTimeCodes -----------------------------
(***************************************************************************)
(* The table of mailed one-time codes.  A row stands for its code: six     *)
(* random characters, looked up with the email or the user and the type.   *)
(***************************************************************************)
EXTENDS Integers, Sequences, FiniteSets

CONSTANTS
    Users,          \* a user stands for his email too
    None,           \* SQL null
    MaxCodes        \* bound: rows of the table

ASSUME CodesAssumption == None \notin Users /\ MaxCodes \in Nat

VARIABLES
    codes,          \* the rows, oldest first
    old             \* how many of them are older than the waiting time

codeVars == <<codes, old>>

CodeType == {"admin_login", "user_signup", "user_reset_password"}

\* A row: there until the user it belongs to is removed; uses is history, how
\* often the code was accepted (at most twice is told apart).
UserOtp == [email : Users, userId : Users \cup {None}, type : CodeType,
            isActive : BOOLEAN, there : BOOLEAN, uses : 0..2]

CodesTypeOK ==
    /\ codes \in Seq(UserOtp) /\ Len(codes) <= MaxCodes
    /\ old \in 0..Len(codes)

CodesInit == codes = <<>> /\ old = 0

CodesOf(email, type) ==
    {i \in DOMAIN codes : codes[i].there /\ codes[i].email = email /\ codes[i].type = type}

Active(i) == codes[i].there /\ codes[i].isActive

\* isOtpGenerationAllowed, for the last code of the email and the type.
GenerationAllowed(email, type) == \A i \in CodesOf(email, type) : i <= old

Deactivated(s, rows) ==
    [i \in DOMAIN s |-> IF i \in rows THEN [s[i] EXCEPT !.isActive = FALSE] ELSE s[i]]

\* The update by id of a verification, which accepts the code.
AcceptedKept(i) == [codes EXCEPT ![i].uses = IF @ = 2 THEN 2 ELSE @ + 1]    \* a mutant
Accepted(i) == [Deactivated(codes, {i}) EXCEPT ![i].uses = IF @ = 2 THEN 2 ELSE @ + 1]

\* The mail with the code goes to notify-svc at the same time.
CreateCode(email, userId, type) ==
    /\ Len(codes) < MaxCodes
    /\ codes' = Append(codes, [email |-> email, userId |-> userId, type |-> type,
                               isActive |-> TRUE, there |-> TRUE, uses |-> 0])

\* Time passes: one more row is older than the waiting time.
CodeAges ==
    /\ old < Len(codes)
    /\ old' = old + 1
    /\ UNCHANGED codes

\* The rows with the id of a removed user go with it; the rows without stay.
CodesCascade(u) ==
    [i \in DOMAIN codes |->
        IF codes[i].userId = u THEN [codes[i] EXCEPT !.there = FALSE] ELSE codes[i]]

\* A code is accepted once, unless two verifications of it overlapped.
UsedOnce(shared) ==
    \A i \in DOMAIN codes : codes[i].uses > 1 => <<"code", i>> \in shared
=============================================================================
