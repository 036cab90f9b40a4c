\* Two users, bookings and requests; two calls at a time, four in all; two
\* awards of a type per day (five in the code).
SPECIFICATION Spec
CONSTANTS
    Users = {u1, u2}
    None = None
    Calls = {k1, k2}
    MaxCalls = 4
    MAX_COMMENTS_FOR_POINTS = 2
    Bookings = {b1, b2}
    RatingIds = {i1, i2}
    MaxPoint = 2
    MaxRatingCalls = 3
    Requests = {r1, r2}
    MaxTerms = 4
    MaxRows = 2
    MaxSettings = 3
SYMMETRY Interchangeable
INVARIANT TotalIsTheLog
INVARIANT AwardsStayUnderTheCap
INVARIANT AverageIsThatOfTheRatings
INVARIANT OneCurrentVersion
INVARIANT NobodyIsListedTwice
INVARIANT LoneBookingGetsItsCode
INVARIANT PartsFollowTheLastOrder
INVARIANT SettingsAreTheLastSaved
INVARIANT ViewsAreCounted
PROPERTY SettledQuestionsStay
CHECK_DEADLOCK FALSE
