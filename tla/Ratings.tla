------------------------------- MODULE Ratings -------------------------------
(***************************************************************************)
(* Ratings of babysitters in booking-svc, and the average in the row of the*)
(* babysitter: a new rating works it out again, and auth-svc writes it back*)
(* whenever it saves the whole row from an older copy.                     *)
(***************************************************************************)
EXTENDS ServiceCalls

CONSTANTS
    Bookings,       \* a booking is rated once: booking_id is a unique column
    RatingIds,      \* bound: ratings there are or calls speak of
    MaxPoint,       \* the best rating
    MaxRatingCalls  \* bound: calls about ratings and users

ASSUME PointAssumption == MaxPoint \in Nat \ {0} /\ MaxRatingCalls \in Nat

VARIABLES
    ratings,        \* ratings[i]: the rating with the id
    avgRating,      \* avgRating[u]: sum and number of the points averaged
    ratingCalls,
    outOfDate       \* history: averages that changes, overlaps or old copies left wrong

ratingVars == <<ratings, avgRating, ratingCalls, outOfDate>>

\* The rating of an administrator has no booking and no parent.
NoRating == [babysitter |-> None, point |-> 0, booking |-> None]
Rating == [babysitter : Users, point : 1..MaxPoint, booking : Bookings \cup {None}] \cup {NoRating}
Average == Nat \X Nat      \* <<0, 0>>: null

\* user and copy: the row of the user that a call of auth-svc holds.
RatingCall == [pc : {"idle", "insert", "edit", "save", "delete", "average", "update", "hold", "overwrite"},
               id : RatingIds \cup {None}, rating : Rating, user : Users \cup {None}, copy : Average]
RatingIdle == [pc |-> "idle", id |-> None, rating |-> NoRating, user |-> None, copy |-> <<0, 0>>]

RatingsInit ==
    /\ ratings = [i \in RatingIds |-> NoRating]
    /\ avgRating = [u \in Users |-> <<0, 0>>]
    /\ ratingCalls = [k \in Calls |-> RatingIdle]
    /\ outOfDate = {}

RatingBegins(k, call) ==
    /\ ratingCalls[k] = RatingIdle /\ called < MaxRatingCalls /\ Counted
    /\ ratingCalls' = [ratingCalls EXCEPT ![k] = call]
    /\ UNCHANGED <<ratings, avgRating, outOfDate>>

RatingGoes(k, pc) ==
    ratingCalls' = [ratingCalls EXCEPT ![k] = IF pc = "idle" THEN RatingIdle ELSE [@ EXCEPT !.pc = pc]]

\* The babysitters whose average another call is about to write.
BeingAveraged(k) ==
    {ratingCalls[j].rating.babysitter : j \in {i \in Calls \ {k} : ratingCalls[i].pc = "update"}}

\* The babysitter and the reviews are checked before.  With the id of a rating,
\* of whomever, the call edits it; the booking is the one the parent names.
createRatingBabysitter(k, b, u, point) ==
    \/ RatingBegins(k, [RatingIdle EXCEPT !.pc = "insert",
                            !.rating = [babysitter |-> u, point |-> point, booking |-> b]])
    \/ \E i \in RatingIds :
         /\ ratings[i] # NoRating
         /\ RatingBegins(k, [RatingIdle EXCEPT !.pc = "edit", !.id = i,
                                !.rating = [babysitter |-> u, point |-> point, booking |-> b]])

RatedElsewhere(b, i) == \E j \in RatingIds \ {i} : ratings[j] # NoRating /\ ratings[j].booking = b
NewId(i) == ratings[i] = NoRating /\ \A j \in Calls : ratingCalls[j].id # i

InsertRating(k) ==
    LET c == ratingCalls[k] IN
    /\ c.pc = "insert"
    /\ IF RatedElsewhere(c.rating.booking, None)
       THEN RatingGoes(k, "idle") /\ UNCHANGED <<ratings, outOfDate>>
       ELSE /\ \E i \in RatingIds : NewId(i) /\ ratings' = [ratings EXCEPT ![i] = c.rating]
            /\ outOfDate' = outOfDate \cup (BeingAveraged(k) \cap {c.rating.babysitter})
            /\ RatingGoes(k, "average")
    /\ UNCHANGED <<avgRating, called>>

\* updateAvgRatingUser.
AverageOf(S) == <<SumFunction([i \in S |-> ratings[i].point]), Cardinality(S)>>
RatedAnyone(u) == {i \in RatingIds : ratings[i] # NoRating}              \* a mutant
Rated(u) == {i \in RatingIds : ratings[i].babysitter = u}

ReadAverage(k) ==
    LET u == ratingCalls[k].rating.babysitter IN
    /\ ratingCalls[k].pc = "average"
    /\ ratingCalls' = [ratingCalls EXCEPT ![k].pc = "update", ![k].copy = AverageOf(Rated(u))]
    /\ outOfDate' = IF u \in BeingAveraged(k) THEN outOfDate \cup {u} ELSE outOfDate \ {u}
    /\ UNCHANGED <<ratings, avgRating, called>>

WriteAverage(k) ==
    /\ ratingCalls[k].pc = "update"
    /\ avgRating' = [avgRating EXCEPT ![ratingCalls[k].rating.babysitter] = ratingCalls[k].copy]
    /\ RatingGoes(k, "idle")
    /\ UNCHANGED <<ratings, outOfDate, called>>

ReadOld(k) ==
    /\ ratingCalls[k].pc = "edit"
    /\ RatingGoes(k, IF ratings[ratingCalls[k].id] = NoRating THEN "idle" ELSE "save")
    /\ UNCHANGED <<ratings, avgRating, outOfDate, called>>

\* The old rating is saved with the new values, the babysitter and the booking
\* too; one that went meanwhile is inserted again.  The average stays.
SaveRating(k) ==
    LET c == ratingCalls[k] IN
    /\ c.pc = "save"
    /\ IF RatedElsewhere(c.rating.booking, c.id) THEN UNCHANGED <<ratings, outOfDate>>
       ELSE /\ outOfDate' = outOfDate \cup ({ratings[c.id].babysitter, c.rating.babysitter} \cap Users)
            /\ ratings' = [ratings EXCEPT ![c.id] = c.rating]
    /\ RatingGoes(k, "idle")
    /\ UNCHANGED <<avgRating, called>>

\* By the parent who gave it; the average stays.
deleteRatingBabysitter(k, i) ==
    /\ ratings[i].booking # None
    /\ RatingBegins(k, [RatingIdle EXCEPT !.pc = "delete", !.id = i])

Gone(S) ==
    /\ ratings' = [i \in RatingIds |-> IF i \in S THEN NoRating ELSE ratings[i]]
    /\ outOfDate' = outOfDate \cup ({ratings[i].babysitter : i \in S} \cap Users)

DeleteRating(k) ==
    /\ ratingCalls[k].pc = "delete"
    /\ Gone({ratingCalls[k].id})
    /\ RatingGoes(k, "idle")
    /\ UNCHANGED <<avgRating, called>>

\* A parent is removed: bookings and ratings go.
RatingsCascade(S) ==
    /\ S # {} /\ \A i \in S : ratings[i].booking # None
    /\ Gone(S)
    /\ UNCHANGED <<avgRating, ratingCalls, called>>

\* The rating an administrator gives a babysitter he makes: its insertion is not
\* waited for, and the average stays.
createVirtualRating(u, point) ==
    /\ called < MaxRatingCalls /\ Counted
    /\ \A i \in Rated(u) : ratings[i].booking # None
    /\ \E i \in RatingIds :
         NewId(i) /\ ratings' = [ratings EXCEPT ![i] = [babysitter |-> u, point |-> point, booking |-> None]]
    /\ outOfDate' = outOfDate \cup {u}
    /\ UNCHANGED <<avgRating, ratingCalls>>

\* auth-svc reads the whole row of a user and saves it later (updateProfile,
\* which waits for S3 in between, signup, resetPassword).
HoldRow(k, u) == RatingBegins(k, [RatingIdle EXCEPT !.pc = "hold", !.user = u, !.copy = avgRating[u]])

SameAverage(a, b) == a[1] * b[2] = b[1] * a[2] /\ (a[2] = 0 <=> b[2] = 0)

\* save reads the row again and writes what differs from it.
CompareRow(k) ==
    LET c == ratingCalls[k] IN
    /\ c.pc = "hold"
    /\ RatingGoes(k, IF SameAverage(c.copy, avgRating[c.user]) THEN "idle" ELSE "overwrite")
    /\ UNCHANGED <<ratings, avgRating, outOfDate, called>>

OverwriteRow(k) ==
    LET c == ratingCalls[k]
        averaging == \E j \in Calls : /\ ratingCalls[j].rating.babysitter = c.user
                                      /\ ratingCalls[j].pc \in {"average", "update"} IN
    /\ c.pc = "overwrite"
    /\ avgRating' = [avgRating EXCEPT ![c.user] = c.copy]
    /\ outOfDate' = IF averaging THEN outOfDate ELSE outOfDate \cup {c.user}
    /\ RatingGoes(k, "idle")
    /\ UNCHANGED <<ratings, called>>

\* The process of booking-svc dies; calls of auth-svc go on.
RatingCrash ==
    LET dead == {k \in Calls : ratingCalls[k].pc \notin {"idle", "hold", "overwrite"}} IN
    /\ dead # {}
    /\ ratingCalls' = [k \in Calls |-> IF k \in dead THEN RatingIdle ELSE ratingCalls[k]]
    /\ outOfDate' = outOfDate \cup {ratingCalls[k].rating.babysitter :
                        k \in {j \in dead : ratingCalls[j].pc \in {"average", "update"}}}
    /\ UNCHANGED <<ratings, avgRating, called>>

RatingsNext ==
    \/ \E k \in Calls :
         \/ \E b \in Bookings, u \in Users, p \in 1..MaxPoint : createRatingBabysitter(k, b, u, p)
         \/ \E i \in RatingIds : deleteRatingBabysitter(k, i)
         \/ \E u \in Users : HoldRow(k, u)
         \/ InsertRating(k) \/ ReadAverage(k) \/ WriteAverage(k)
         \/ ReadOld(k) \/ SaveRating(k) \/ DeleteRating(k)
         \/ CompareRow(k) \/ OverwriteRow(k)
    \/ \E u \in Users, p \in 1..MaxPoint : createVirtualRating(u, p)
    \/ \E S \in SUBSET RatingIds : RatingsCascade(S)
    \/ RatingCrash

RatingsTypeOK ==
    /\ ratings \in [RatingIds -> Rating]
    /\ avgRating \in [Users -> Average]
    /\ ratingCalls \in [Calls -> RatingCall]
    /\ outOfDate \subseteq Users

\* The average of a babysitter is that of the ratings, unless since the last new
\* one a rating was edited, deleted, removed or given by an administrator, two
\* new ones overlapped, the call died before it was written, or a save of her
\* whole row from a copy older than it brought the average of the copy back.
AverageIsThatOfTheRatings ==
    \A u \in Users \ outOfDate :
        \/ avgRating[u] = AverageOf({i \in RatingIds : ratings[i].babysitter = u})
        \/ \E k \in Calls : ratingCalls[k].rating.babysitter = u
                            /\ ratingCalls[k].pc \in {"average", "update"}
=============================================================================
