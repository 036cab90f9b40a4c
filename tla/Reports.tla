------------------------------- MODULE Reports -------------------------------
(***************************************************************************)
(* What the admin's statistics (report-svc) and the rankings of            *)
(* babysitters (auth-svc) say of a database db, a record of tables.        *)
(* Revenue and counts are taken over joins, which repeat a row: the        *)
(* assumptions say when the answers are what a direct count gives.         *)
(***************************************************************************)
EXTENDS Queries

MIN_REVIEWS_FOR_BABYSITTER_RANKING == 2         \* five in the code
LIMIT_BABYSITTER_RANKING == 2                   \* twenty in the code
LIMIT_STATISTICS_BABYSITTER_LIST == 2           \* ten in the code

Role(db, role) == {u \in Undeleted(db.users) : u.role = role}
Signed(db) == {u \in Role(db, "babysitter") : u.completedSignup /\ ~u.isMarketingAccount}
SignedParents(db) == {u \in Role(db, "parent") : u.completedSignup}

----------------------------------------------------------------------------
(* Revenue. *)

\* The booking counts with all of its price once one of its times is in the
\* period.
Finished(db, period) ==
    {b \in db.bookings : b.status = "COMPLETED" /\ \E t \in b.bookingTimes : Within(t, period)}

Speaks(u, l) == l.userId = u.id
\* A user with each of the languages, which is what the queries group by.
Profiles(db, users) == LeftJoin(users, db.userLanguages, Speaks)
Profit(db, profiles, period) ==
    InnerJoin(profiles, Finished(db, period), LAMBDA profile, b : b.babysitterId = profile[1].id)

RowOf(u, rows) == [user |-> u, revenue |-> Sum(rows, LAMBDA b : b.prices)]
RevenueRows(db, period) ==
    LET joined == Profit(db, Profiles(db, Undeleted(db.users)), period)
    IN {RowOf(profile[1], {row \in joined : row[1] = profile}) : profile \in {row[1] : row \in joined}}

\* babysitterHightestRevenue; the request fails when there is none.
HighestRevenue(db, period) ==
    LET rows == RevenueRows(db, period)
    IN {row \in rows : \A other \in rows : other.revenue <= row.revenue}

\* getStatisticsCommon; the bookings by status are in BookingStatistics.  Zero
\* stands for the NaN that the sum of no row is parsed to.
getStatisticsCommon(db, period) ==
    LET done == {b \in db.bookings : b.status = "COMPLETED" /\ Within(b.createdAt, period)}
        revenue == MapThenSumSet(LAMBDA b : b.prices, done) IN
    [totalBabysitter |-> Cardinality(Signed(db)),
     totalParent |-> Cardinality(SignedParents(db)),
     totalMember |-> Cardinality(Signed(db)) + Cardinality(SignedParents(db)),
     totalRevenueCompleted |-> revenue,
     avgRevenueCompleted |-> IF done = {} THEN 0
                             ELSE (2 * revenue + Cardinality(done)) \div (2 * Cardinality(done))]

\* The sums of this year by babysitter: whose account is there or not.
Earned(db, year) ==
    LET done == {b \in db.bookings : b.status = "COMPLETED" /\ b.createdAt \in year}
    IN [id \in {b.babysitterId : b \in done} |->
            MapThenSumSet(LAMBDA b : b.prices, {b \in done : b.babysitterId = id})]
\* getStatisticsBabysitter, all but the rates.
bookingOfYear(db, year) ==
    LET earned == Earned(db, year) IN
    [totalRevenue |-> MapThenSumSet(LAMBDA id : earned[id], DOMAIN earned),
     highestRevenue |-> Max({0} \cup {earned[id] : id \in DOMAIN earned})]

----------------------------------------------------------------------------
(* Rates: hundredths of a percent of the users joined with the accounts of *)
(* other providers they sign in with.                                      *)

RateRows(db, role) ==
    LeftJoin(Role(db, role), Undeleted(db.socialAccounts), LAMBDA u, a : a.userId = u.id)
\* ROUND; without users it is null, of which Number makes 0.
Share(part, rows) ==
    IF rows = {} THEN 0
    ELSE (20000 * Cardinality(part) + Cardinality(rows)) \div (2 * Cardinality(rows))

Gender == {"male", "female"}
Band == [U20 |-> 0..19, U30 |-> 20..29, U40 |-> 30..39, U50 |-> 40..49]
Provider == {"google", "kakaotalk", "facebook", "apple"}
Genders(rows) == [g \in Gender |-> {row \in rows : row[1].gender = g}]
\* A user without a date of birth or of fifty and more is in none.
Ages(rows) == [band \in DOMAIN Band |-> {row \in rows : row[1].age \in Band[band]}]
Logins(rows) ==
    [way \in Provider \cup {"email"} |->
        IF way = "email" THEN {row \in rows : row[1].email /\ row[2] = NoRow}
        ELSE {row \in rows : row[2] # NoRow /\ row[2].provider = way}]
rateUsers(db, role) ==
    LET rows == RateRows(db, role) IN
    [gender |-> [g \in Gender |-> Share(Genders(rows)[g], rows)],
     age |-> [band \in DOMAIN Band |-> Share(Ages(rows)[band], rows)],
     login |-> [way \in Provider \cup {"email"} |-> Share(Logins(rows)[way], rows)]]

----------------------------------------------------------------------------
(* Regions, lists and months. *)

countBabysitter(db, city) == Cardinality({u \in Signed(db) : u.cityId = city.id})
getStatisticsBabysitterRegion(db, cityIds) ==
    LET made == {c \in Undeleted(db.cities) : c.isUserCreated /\ (cityIds = {} \/ c.id \in cityIds)} IN
    [cities |-> [c \in {d \in Undeleted(db.cities) : ~d.isUserCreated} |-> countBabysitter(db, c)],
     other |-> Cardinality(InnerJoin(Signed(db), made, LAMBDA u, c : u.cityId = c.id))]

CountOf(db, u) == Cardinality({r \in db.ratings : r.babysitterId = u.id})
\* Ordered by a count or by the average stored with the user.
getStatisticsBabysitterList(db, type) ==
    LET rated == {u \in Signed(db) : CountOf(db, u) > MIN_REVIEWS_FOR_BABYSITTER_RANKING}
        booked(u) == Cardinality({b \in db.bookings : b.babysitterId = u.id}) IN
    Limited(CASE type = "MOST_SEARCH_BABYSITTER" ->
                    SetToSortSeq(Signed(db), LAMBDA u, v : booked(u) > booked(v))
              [] type = "MOST_RATE_BABYSITTER" ->
                    SetToSortSeq(rated, LAMBDA u, v : u.avgRating > v.avgRating)
              [] type = "WORST_RATE_BABYSITTER" ->
                    SetToSortSeq(rated, LAMBDA u, v : u.avgRating < v.avgRating),
            LIMIT_STATISTICS_BABYSITTER_LIST)

\* The days of the months, and of the December before.
DaysOf == [m \in 0..12 |-> CASE m = 2 -> 28 [] m \in {4, 6, 9, 11} -> 30 [] OTHER -> 31]
currentMonth(m) == {<<m, d>> : d \in 1..DaysOf[m]}
\* The end of this month less a month: its day, if there is one.
lastMonth(m) == {<<m - 1, d>> : d \in 1..Min({DaysOf[m], DaysOf[m - 1]})}
BookedIn(db, city, days) ==
    Cardinality({b \in db.bookings : b.cityId = city.id /\ b.status # "DRAFT" /\ b.createdAt \in days})
citiesOfParents(db, m) ==
    [c \in Undeleted(db.cities) |-> [totalBookingCurrentMonth |-> BookedIn(db, c, currentMonth(m)),
                                totalBookingLastMonth |-> BookedIn(db, c, lastMonth(m))]]
\* Every parent with the number of bookings, the most first.
parentsByBookings(db) ==
    LET countBooking(u) == Cardinality({b \in db.bookings : b.parentId = u.id /\ b.status # "DRAFT"})
        before(u, v) == countBooking(u) > countBooking(v) IN
    LET parents == SetToSortSeq(Role(db, "parent"), before)
    IN [i \in DOMAIN parents |-> [id |-> parents[i].id, countBooking |-> countBooking(parents[i])]]

----------------------------------------------------------------------------
(* Rankings. *)

createBaseQuery(db) == Profiles(db, Signed(db))

\* Admins and managers see everybody, the ranking rows being part of the group;
\* others whom the admin ranked, once per row of the ranking table.
applyUserRoleFilter(db, profiles, type, asAdmin) ==
    LET ranked == {r \in db.babysitterRankings : r.rankingType = type}
        is(profile, r) == r.babysitterId = profile[1].id
    IN IF asAdmin THEN LeftJoin(profiles, ranked, is) ELSE InnerJoin(profiles, ranked, is)
GroupOf(row, asAdmin) == IF asAdmin THEN row[1] ELSE row[1][1]

Recent(db, period) == {r \in db.ratings : Within(r.createdAt, period)}
\* Ratings of the last months, for those with enough of them; or the bookings.
Joined(db, type, period, asAdmin) ==
    LET profiles == applyUserRoleFilter(db, createBaseQuery(db), type, asAdmin)
    IN IF type = "RATING"
       THEN InnerJoin(profiles, Recent(db, period), LAMBDA p, r : r.babysitterId = p[1][1].id)
       ELSE InnerJoin(profiles, Finished(db, period), LAMBDA p, b : b.babysitterId = p[1][1].id)
Entry(type, u, group) ==
    [user |-> u,
     revenue |-> IF type = "RATING" THEN 0 ELSE Sum(group, LAMBDA b : b.prices),
     avgRating |-> IF type = "RATING" /\ group # {}
                   THEN (10 * Sum(group, LAMBDA r : r.point)) \div Cardinality(group) ELSE 0]
applyRankingFilter(db, type, period, asAdmin) ==
    LET joined == Joined(db, type, period, asAdmin)
        groups == {{row \in joined : GroupOf(row, asAdmin) = g} :
                      g \in {GroupOf(row, asAdmin) : row \in joined}}
        enough == {g \in groups : type # "RATING" \/ Cardinality(g) >= MIN_REVIEWS_FOR_BABYSITTER_RANKING}
    IN {Entry(type, (CHOOSE row \in g : TRUE)[1][1][1], g) : g \in enough}

\* take is of users.
fetchRankedBabysitters(db, type, period, asAdmin) ==
    LET worth(e) == IF type = "RATING" THEN e.avgRating ELSE e.revenue
    IN Limited(SetToSortSeq(applyRankingFilter(db, type, period, asAdmin),
                            LAMBDA e, f : worth(e) > worth(f)), LIMIT_BABYSITTER_RANKING)

\* What a babysitter is shown of herself before the others: no ranking table and
\* no minimum.  The request fails when she is not one of those it is about.
fetchRequestingBabysitterDetails(db, u, type, period) ==
    Entry(type, u, {row \in IF type = "RATING"
                            THEN LeftJoin({u}, Recent(db, period), LAMBDA v, r : r.babysitterId = v.id)
                            ELSE LeftJoin({u}, Finished(db, period), LAMBDA v, b : b.babysitterId = v.id) :
                        row[2] # NoRow})

----------------------------------------------------------------------------
(* Checked by evaluation, for all small databases of each kind. *)

Person(id, role) ==
    [id |-> id, role |-> role, completedSignup |-> TRUE, isMarketingAccount |-> FALSE,
     gender |-> "male", age |-> 30, email |-> TRUE, cityId |-> 1, avgRating |-> 0, deleted |-> FALSE]
Sitters == {Person(1, "babysitter"), Person(2, "babysitter")}
Job(id, sitter, status, times) ==
    [id |-> id, babysitterId |-> sitter, parentId |-> 3, cityId |-> 1, status |-> status,
     bookingTimes |-> times, prices |-> 10 * id, createdAt |-> 1]
Jobs == {Job(1, 1, "COMPLETED", {1, 2}), Job(2, 1, "COMPLETED", {3}),
         Job(3, 2, "COMPLETED", {2}), Job(4, 2, "CONFIRMED", {2})}
Rating(id, sitter, day) == [id |-> id, babysitterId |-> sitter, point |-> id, createdAt |-> day]
Ratings4 == {Rating(1, 1, 1), Rating(2, 1, 2), Rating(3, 1, 3), Rating(4, 2, 2)}
Lang(id, user) == [id |-> id, userId |-> user]
Ranked(id, sitter, type) == [id |-> id, babysitterId |-> sitter, rankingType |-> type]
Database ==
    {[users |-> Sitters, bookings |-> bs, ratings |-> rs, userLanguages |-> ls,
      babysitterRankings |-> {Ranked(1, 1, "RATING"), Ranked(2, 1, "MONTHLY_INCOME"),
                              Ranked(3, 2, "MONTHLY_INCOME")}] :
        bs \in SUBSET Jobs, rs \in SUBSET Ratings4, ls \in SUBSET {Lang(1, 1), Lang(2, 1), Lang(3, 2)}}
Period == {[from |-> 1, to |-> 2], [from |-> 2, to |-> 3]}
RankingType == {"RATING", "MONTHLY_INCOME"}

\* However many languages she has in her profile, a babysitter's revenue and
\* rating in the statistics and in both forms of the ranking are those of her
\* bookings and ratings: what she is shown of herself.  Users see the part of
\* the admin's ranking that the admin named.
ASSUME RevenueIsCountedOnce ==
    \A db \in Database, period \in Period :
        /\ \A row \in RevenueRows(db, period) :
             row.revenue = MapThenSumSet(LAMBDA b : b.prices,
                               {b \in Finished(db, period) : b.babysitterId = row.user.id})
        /\ \A type \in RankingType, asAdmin \in BOOLEAN :
             \A e \in applyRankingFilter(db, type, period, asAdmin) :
                 e = fetchRequestingBabysitterDetails(db, e.user, type, period)
        /\ \A type \in RankingType :
             {e.user : e \in applyRankingFilter(db, type, period, FALSE)}
               = {u \in {e.user : e \in applyRankingFilter(db, type, period, TRUE)} :
                      \E r \in db.babysitterRankings : r.rankingType = type /\ r.babysitterId = u.id}

\* It is not so once an admin's list names her twice, which two overlapping
\* calls of saveBabysitterRanking leave behind: parents then see it doubled.
ASSUME NamedTwiceEarnsTwice ==
    LET db == [users |-> Sitters, bookings |-> {Job(1, 1, "COMPLETED", {1})}, userLanguages |-> {},
               ratings |-> {}, babysitterRankings |-> {Ranked(1, 1, "MONTHLY_INCOME"),
                                                       Ranked(2, 1, "MONTHLY_INCOME")}]
        shown(asAdmin) == fetchRankedBabysitters(db, "MONTHLY_INCOME", [from |-> 1, to |-> 2], asAdmin)
    IN shown(TRUE)[1].revenue = 10 /\ shown(FALSE)[1].revenue = 20

\* The highest revenue of the year is part of all of it.
ASSUME HighestIsPartOfTotal ==
    \A bs \in SUBSET Jobs :
        LET all == bookingOfYear([bookings |-> bs], {1})
        IN all.highestRevenue <= all.totalRevenue

Linked(id, user, provider) == [id |-> id, userId |-> user, provider |-> provider, deleted |-> FALSE]
TotalOf(shares) == MapThenSumSet(LAMBDA x : shares[x], DOMAIN shares)

\* The ways to sign in sum up to the whole, up to the rounding of each; those of a gender are
\* the part of the users with that gender as long as nobody is linked twice.
ASSUME RatesAreShares ==
    \A genders \in [1..3 -> Gender],
      accounts \in SUBSET {Linked(1, 1, "google"), Linked(2, 1, "apple"), Linked(3, 2, "google")} :
        LET users == {[Person(id, "parent") EXCEPT !.gender = genders[id]] : id \in 1..3}
            db == [users |-> users, socialAccounts |-> accounts]
            rate == rateUsers(db, "parent")
            males == {u \in users : u.gender = "male"} IN
        /\ TotalOf(rate.login) \in 9998..10002 /\ TotalOf(rate.age) <= 10002
        /\ ~{Linked(1, 1, "google"), Linked(2, 1, "apple")} \subseteq accounts =>
             rate.gender["male"] = Share(males, users)

\* Every babysitter with a city is counted once: in it, or among the cities that
\* users added; one without a city nowhere.
ASSUME RegionsCountEverybodyOnce ==
    \A home \in [1..2 -> 0..3] :
        LET users == {[Person(id, "babysitter") EXCEPT !.cityId = home[id]] : id \in 1..2}
            cities == {[id |-> c, isUserCreated |-> c > 1, deleted |-> FALSE] : c \in 1..3}
            regions == getStatisticsBabysitterRegion([users |-> users, cities |-> cities], {})
        IN TotalOf(regions.cities) + regions.other = Cardinality({u \in users : u.cityId # 0})

\* The last days of a month are in no statistics of the next when that is shorter: its last
\* day less a month is not the last day of the month before.
ASSUME LongMonthsLoseDays ==
    \A m \in 1..12 :
        {<<m - 1, d>> : d \in 1..DaysOf[m - 1]} \ lastMonth(m)
            = {<<m - 1, d>> : d \in (DaysOf[m] + 1)..DaysOf[m - 1]}
=============================================================================
