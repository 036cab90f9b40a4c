\* One booking, any two requests on it at once, both jobs, one crash.
SPECIFICATION Spec
CONSTANTS
    Bookings = {b1}
    Babysitters = {sitter}
    Parents = {parent}
    Requests = {r1, r2}
    None = None
    Overlap = TRUE
    MaxCrashes = 1
SYMMETRY Interchangeable
INVARIANT PendingIsPristine
INVARIANT CompletedWasConfirmed
INVARIANT ExpiryNoticeIsDue
INVARIANT ConfirmNoticeIsTrue
 
PROPERTY AnswersAreFinal
CHECK_DEADLOCK FALSE
