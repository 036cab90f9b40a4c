------------------------------- MODULE MCSearch -------------------------------
(* A babysitter of any age, and a parent who asks for one age group after the *)
(* other.                                                                     *)
EXTENDS Search

VARIABLES dob, asked

Init == dob \in BirthDate /\ asked = {}
Ask(age) == asked' = asked \cup {age} /\ UNCHANGED dob
Next == \E age \in EFilterAge : Ask(age)
Spec == Init /\ [][Next]_<<dob, asked>>

\* The years of birth of those who are in their twenties, in their thirties, or
\* forty and more, during the whole of this year, as the labels of the filter say.
BornFor == [age \in EFilterAge |->
    CASE age = "AGE_20" -> 21..29 [] age = "AGE_30" -> 31..39 [] age = "AGE_40" -> 41..45]

\* Whether she is listed when nothing but ages is asked for.
Listed(ages) ==
    MatchesRow([dob |-> dob, completedSignup |-> TRUE, allowBooking |-> TRUE,
                languages |-> <<"korean">>, bookings |-> {}],
               [ages |-> ages, languageIds |-> {}, dates |-> {}])

\* FilterAgeText labels the groups `20', `30' and `over 40': whoever is of an
\* age asked for, on every day of this year, is found.
EveryAgeGroupIsFound ==
    \A age \in asked : dob.yearsAgo \in BornFor[age] => Listed(asked)
=============================================================================
