\* One booking, one request racing the jobs, one crash, fair scheduling.
SPECIFICATION FairSpec
CONSTANTS
    Bookings = {b1}
    Babysitters = {sitter}
    Parents = {parent}
    Requests = {r1}
    None = None
    Overlap = TRUE
    MaxCrashes = 1
PROPERTY EveryRequestIsAnswered
PROPERTY EveryFinishedBookingIsClosed
CHECK_DEADLOCK FALSE
