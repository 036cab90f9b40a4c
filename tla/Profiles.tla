------------------------------- MODULE Profiles -------------------------------
(***************************************************************************)
(* What auth-svc shows of accounts: profiles, lists for admins, and the    *)
(* switch that admits bookings with a babysitter.                          *)
(***************************************************************************)
EXTENDS Queries, Integers

MAX_ADMIN_USER_PROFILE_BOOKING == 2     \* five in the code
MINIMUM_REVIEW_COUNT == 2               \* three in the code

SignedSitter(u) == u.role = "babysitter" /\ u.completedSignup

----------------------------------------------------------------------------
(* Profiles. *)

\* One's own, whatever the role; another's by email, code or id, of parents and
\* babysitters, the deleted ones among them.
addUserSearchCondition(users, me, search) ==
    IF search.type = "own" THEN {u \in users : u.id = me.id}
    ELSE {u \in users : /\ CASE search.type = "email" -> u.email = search.identifier
                              [] search.type = "userCode" -> u.userCode = search.identifier
                              [] OTHER -> u.id = search.identifier
                        /\ u.role \in {"babysitter", "parent"}}

\* How many ratings of each number of points.
addRatingCount(ratings, u) ==
    [point \in 1..5 |-> Cardinality({r \in ratings : r.babysitterId = u.id /\ r.point = point})]
\* In halves: a fraction of a half and less goes up to the half, and so does none at all; NaN
\* without ratings is left out.
roundRating(total, count) ==
    LET whole == total \div count
    IN IF 2 * (total - whole * count) <= count THEN 2 * whole + 1 ELSE 2 * (whole + 1)
calculateRating(ratings, u) ==
    LET counts == addRatingCount(ratings, u)
        countTotalRating == MapThenSumSet(LAMBDA point : counts[point], 1..5)
    IN [countTotalRating |-> countTotalRating,
        avgRating |-> IF countTotalRating = 0 THEN 0
                      ELSE roundRating(MapThenSumSet(LAMBDA point : point * counts[point], 1..5),
                                       countTotalRating)]
\* With their comment and the replies below it; a rating without one is not shown.
getRatingUser(ratings, comments, u) ==
    LET commented(r, c) == c.ratingId = r.id /\ c.parentId = 0
        rows == InnerJoin({r \in ratings : r.babysitterId = u.id}, Undeleted(comments), commented)
    IN {[rating |-> row[1], comment |-> row[2],
         children |-> {c \in Undeleted(comments) : c.parentId = row[2].id}] : row \in rows}
\* The reviews that enough parents ticked.
getReviewAboutBabysitter(reviews, u) ==
    LET ticked(id) == {r \in reviews : r.babysitterId = u.id /\ r.reviewId = id}
    IN {id \in {r.reviewId : r \in reviews} : Cardinality(ticked(id)) >= MINIMUM_REVIEW_COUNT}

\* To admins, the newest bookings of the user: limit counts rows of the join
\* with their times and children, and the last booking may lose some of both.
JoinedRows(b) ==
    LET some(n) == IF n = 0 THEN 1 ELSE n
    IN [i \in 1..(some(b.times) * some(b.children)) |-> b.id]
AdminBookings(bookings, u) ==
    LET own == {b \in bookings : /\ b.status # "DRAFT"
                                 /\ u.id = IF u.role = "babysitter" THEN b.babysitterId ELSE b.parentId}
        newest == NewestFirst(own)
        rows == Limited(FlattenSeq([i \in DOMAIN newest |-> JoinedRows(newest[i])]),
                        MAX_ADMIN_USER_PROFILE_BOOKING)
    IN [shown |-> ToSet(rows), all |-> [i \in DOMAIN newest |-> newest[i].id]]

----------------------------------------------------------------------------
(* Lists for admins. *)

\* The deleted accounts that are active.
getUserDeleted(users, role, period) ==
    {u \in users : /\ u.deleted /\ u.isActive /\ Within(u.deletedAt, period)
                   /\ u.role \in IF role = "any" THEN {"babysitter", "parent"} ELSE {role}}

\* Without a first day the creation has to be null, which it never is.
getBabysitters(users, createdAtFrom, createdAtTo, allowBooking) ==
    {u \in Undeleted(users) : /\ SignedSitter(u) /\ u.allowBooking \in allowBooking
                              /\ createdAtFrom # 0 /\ createdAtFrom <= u.createdAt /\ u.createdAt <= createdAtTo}

\* By a part of the name, the email or the phone.
getManagers(users, q, hasAdminPermission) ==
    {u \in Undeleted(users) : /\ u.role = "manager" /\ u.hasAdminPermission \in hasAdminPermission
                              /\ q = {} \/ {u.username, u.email, u.phone} \cap q # {}}

\* Whom a booking request names by a code.
getUserByUserCode(users, userCode, role) ==
    {u \in Undeleted(users) : /\ u.userCode = userCode /\ u.role = role
                              /\ role = "babysitter" => u.allowBooking}

\* A list of babysitters with their switches: all of them are set, or none when
\* one is missing or twice in the list.
updateBabysitterAllowBookingStatus(users, data) ==
    LET ids == {data[i].babysitterId : i \in DOMAIN data}
        named == {u \in Undeleted(users) : SignedSitter(u) /\ u.id \in ids}
        allowBookingMap == [id \in ids |-> \E i \in DOMAIN data : data[i] = [babysitterId |-> id, allowBooking |-> TRUE]]
    IN IF Cardinality(named) # Len(data) THEN users
       ELSE {IF u \in named THEN [u EXCEPT !.allowBooking = allowBookingMap[u.id]] ELSE u : u \in users}
updateAllBabysitterAllowBookingStatus(users) ==
    {IF u \in Undeleted(users) /\ SignedSitter(u) THEN [u EXCEPT !.allowBooking = TRUE] ELSE u : u \in users}

----------------------------------------------------------------------------
(* Permissions of managers. *)

getPermissions(userPermissions, defaults, userId) ==
    IF userId = 0 THEN defaults ELSE {p.permissionId : p \in {q \in userPermissions : q.userId = userId}}
getResources(permissions, userPermissions, defaults, userId) ==
    [p \in permissions |-> p \in getPermissions(userPermissions, defaults, userId)]
\* The right to administrate, until it is revoked, comes on top of each one.
hasPermission(users, userPermissions, userId, permission, now) ==
    /\ permission \in getPermissions(userPermissions, {}, userId)
    /\ \E u \in Undeleted(users) : u.id = userId /\ u.hasAdminPermission /\ now <= u.revokedAt
----------------------------------------------------------------------------
(* Checked by evaluation, for all small tables of each kind. *)

Account(id, role, allowBooking) ==
    [id |-> id, role |-> role, userCode |-> id, email |-> id, completedSignup |-> TRUE,
     allowBooking |-> allowBooking, deleted |-> FALSE]
StarTable(n) == {{[id |-> i, babysitterId |-> 1, point |-> f[i]] : i \in 1..n} : f \in [1..n -> 1..5]}

\* The average that is shown is that of the ratings if this ends in a half; otherwise it is
\* above it, by half a point at most, and so above the five points there are.
ASSUME ShownAverageIsAbove ==
    \A n \in 1..3 : \A ratings \in StarTable(n) :
        LET shown == calculateRating(ratings, [id |-> 1])
            halves == 2 * MapThenSumSet(LAMBDA r : r.point, ratings) IN
        /\ shown.countTotalRating = n
        /\ IF halves % (2 * n) = n THEN shown.avgRating * n = halves
           ELSE shown.avgRating * n > halves /\ (shown.avgRating - 1) * n <= halves
        /\ shown.avgRating > 10 <=> \A r \in ratings : r.point = 5

\* An admin sees the newest of the user's bookings, all of them only if their
\* times and children do not fill the rows of the join.
ASSUME NewestBookingsAreShown ==
    \A times, children \in [1..3 -> 0..2], status \in [1..3 -> {"DRAFT", "CONFIRMED"}] :
        LET b(i) == [id |-> i, babysitterId |-> 1, parentId |-> 2, status |-> status[i], createdAt |-> i,
                     times |-> times[i], children |-> children[i]]
            list == AdminBookings({b(i) : i \in 1..3}, Account(1, "babysitter", TRUE))
            n == Cardinality(list.shown) IN
        /\ list.shown = {list.all[i] : i \in 1..n} /\ \A i \in 1..n : status[list.all[i]] # "DRAFT"
        /\ n < Cardinality({i \in 1..3 : status[i] # "DRAFT"}) <=>
             MapThenSumSet(LAMBDA i : Max({1, times[i]}) * Max({1, children[i]}),
                           {list.all[i] : i \in 1..(Len(list.all) - 1)})
               >= MAX_ADMIN_USER_PROFILE_BOOKING

\* The switches are set all or none, and a babysitter can be booked by her code
\* exactly while hers is on.
ASSUME SwitchesAreSetTogether ==
    \A on \in [1..2 -> BOOLEAN], ids \in [1..2 -> 1..3], to \in [1..2 -> BOOLEAN] :
        LET users == {Account(i, "babysitter", on[i]) : i \in 1..2} \cup {Account(3, "parent", TRUE)}
            data == [i \in 1..2 |-> [babysitterId |-> ids[i], allowBooking |-> to[i]]]
            after == updateBabysitterAllowBookingStatus(users, data)
            bookable(rows) == {i \in 1..2 : getUserByUserCode(rows, i, "babysitter") # {}} IN
        /\ IF {ids[1], ids[2]} = {1, 2} THEN \A i \in 1..2 : ids[i] \in bookable(after) <=> to[i]
           ELSE after = users
        /\ bookable(updateAllBabysitterAllowBookingStatus(after)) = {1, 2}
        /\ Cardinality(after) = 3

\* A profile found by email, by code or by id is the same, and never an admin's;
\* the list of babysitters is empty without a first day.
ASSUME ProfilesAreFoundAlike ==
    \A role \in [1..2 -> {"parent", "babysitter", "admin"}], id \in 1..2 :
        LET users == {[Account(i, role[i], TRUE) EXCEPT !.deleted = (i = 1)] : i \in 1..2}
            found(type) == addUserSearchCondition(users, [id |-> 1], [type |-> type, identifier |-> id]) IN
        /\ found("email") = found("id") /\ found("userCode") = found("id")
        /\ found("id") = {} <=> role[id] = "admin"
        /\ Cardinality(found("own")) = 1
ASSUME NobodyWithoutAFirstDay ==
    \A role \in [1..2 -> {"parent", "babysitter"}] :
        LET users == {Account(i, role[i], TRUE) @@ [createdAt |-> i] : i \in 1..2} IN
        /\ getBabysitters(users, 0, 9, BOOLEAN) = {}
        /\ getBabysitters(users, 1, 9, BOOLEAN) = {u \in users : u.role = "babysitter"}

\* What a manager is shown as active is what the guard lets through, until the
\* day the right to administrate is revoked.
ASSUME ActiveIsAllowed ==
    \A rows \in SUBSET [userId : {1, 2}, permissionId : {"a", "b"}], now \in 1..3 :
        LET users == {Account(i, "manager", TRUE) @@ [hasAdminPermission |-> i = 1, revokedAt |-> 2] : i \in 1..2}
            shown(i) == getResources({"a", "b"}, rows, {"a"}, i) IN
        \A i \in 1..2, p \in {"a", "b"} :
            hasPermission(users, rows, i, p, now) <=> shown(i)[p] /\ i = 1 /\ now <= 2
=============================================================================
